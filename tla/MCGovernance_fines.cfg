SPECIFICATION Spec
CONSTANTS
    p1 = p1
    sovereign = sovereign deputy = deputy citizen = citizen
    Proposal = {p1}
    Kind <- Fines
    Voter = {sovereign, deputy}
    Owner = sovereign
    Admin = {sovereign}
    Handler = {cron, req1, req2}
    Cron = cron
    RuleBook <- OnlyWeighted
    Opening <- WeightedAutoDao
    Edits = 0
    Faults = 1
    Frail <- Anywhere
    System = System
    None = None
SYMMETRY Requests
INVARIANTS TotalsMatchVotes AppliedOnMandate FineAtMostOnce ExecutedMeansApplied
CHECK_DEADLOCK FALSE
