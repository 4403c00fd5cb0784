SPECIFICATION Spec
CONSTANTS
    p1 = p1
    sovereign = sovereign deputy = deputy citizen = citizen
    Proposal = {p1}
    Kind <- Settings
    Voter = {sovereign, deputy}
    Owner = sovereign
    Admin = {sovereign}
    Handler = {cron, req1}
    Cron = cron
    RuleBook <- BothModes
    Opening <- AutoDao
    Edits = 1
    Faults = 1
    Frail <- BeforePassed
    System = System
    None = None
PROPERTIES AutoDaoDecides DueProposalsClose
CHECK_DEADLOCK FALSE
