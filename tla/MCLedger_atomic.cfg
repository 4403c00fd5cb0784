SPECIFICATION Spec
CONSTANTS
    r1 = r1 r2 = r2 r3 = r3
    alice = alice bob = bob root = root guild = guild none = none
    None = none
    Req = {r1, r2}
    Wallet <- Wallets4
    Treasury = {root, guild}
    RootOf <- OneRoot4
    CurrencyOf <- MixedCurrency
    InitBal <- Opening4
    Amounts = {2, 3}
    Rates = {0, 50}
PROPERTIES IsAtomicLedger EveryTransferEnds
CHECK_DEADLOCK FALSE
