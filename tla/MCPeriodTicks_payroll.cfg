SPECIFICATION Spec
CONSTANTS
    alice = alice bob = bob root = root guild = guild dues = dues
    Run = {j1, j2}
    Tick = {"payroll"}
    Citizen = {alice, bob}
    Sub = {}
    ChildOf <- NoSubs
    Root = root
    Wallet <- CitizenWallets
    InitBal <- CitizenOpening
    Gross = 2
    IncomeTaxRate = 0
    RoleTaxRate = 50
    SubFee = 1
    Weeks = 1
    WeeksPerMonth = 1
    Attempts = 1
    None = None
SYMMETRY Symmetric
INVARIANTS AtMostOncePerPeriod RunAccountsForEveryItem RowIffMoved
CHECK_DEADLOCK FALSE
