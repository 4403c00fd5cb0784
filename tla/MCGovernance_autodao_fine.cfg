SPECIFICATION Spec
CONSTANTS
    p1 = p1
    sovereign = sovereign deputy = deputy citizen = citizen
    Proposal = {p1}
    Kind <- Fines
    Voter = {sovereign, deputy}
    Owner = sovereign
    Admin = {sovereign}
    Handler = {cron, req1}
    Cron = cron
    RuleBook <- OnlyAutoDao
    Opening <- AutoDao
    Edits = 0
    Faults = 0
    Frail <- Anywhere
    System = System
    None = None
PROPERTIES AutoDaoDecides
CHECK_DEADLOCK FALSE
