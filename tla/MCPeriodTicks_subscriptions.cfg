SPECIFICATION Spec
CONSTANTS
    alice = alice bob = bob root = root guild = guild dues = dues
    Run = {j1, j2}
    Tick = {"role_tax", "subscription"}
    Citizen = {alice}
    Sub = {dues}
    ChildOf <- GuildPays
    Root = root
    Wallet <- MemberWallets
    InitBal <- MemberOpening
    Gross = 2
    IncomeTaxRate = 0
    RoleTaxRate = 50
    SubFee = 1
    Weeks = 1
    WeeksPerMonth = 2
    Attempts = 0
    None = None
INVARIANTS NoOverdraft
PROPERTIES EveryRunEnds
CHECK_DEADLOCK FALSE
