SPECIFICATION Spec
CONSTANTS
    r1 = r1 r2 = r2 r3 = r3
    alice = alice bob = bob root = root guild = guild none = none
    None = none
    Req = {r1, r2, r3}
    Wallet <- Wallets3
    Treasury = {root}
    RootOf <- OneRoot3
    CurrencyOf <- OneCurrency3
    InitBal <- Opening3
    Amounts = {3}
    Rates = {0, 50}
SYMMETRY Symmetric
INVARIANTS NonNegativeBalances JournalExplainsBalances Conservation AnswerMatchesJournal
CHECK_DEADLOCK FALSE
