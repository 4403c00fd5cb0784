SPECIFICATION Spec
CONSTANTS
    p1 = p1
    sovereign = sovereign deputy = deputy citizen = citizen
    Proposal = {p1}
    Kind <- Settings
    Voter = {sovereign, deputy}
    Owner = sovereign
    Admin = {sovereign}
    Handler = {req1, req2}
    Cron = None
    RuleBook <- OnlyConsultation
    Opening <- Consultation
    Edits = 0
    Faults = 0
    Frail <- Anywhere
    System = System
    None = None
SYMMETRY Requests
PROPERTIES FollowsLifecycle
CHECK_DEADLOCK FALSE
