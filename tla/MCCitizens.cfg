SPECIFICATION Spec
CONSTANTS
    h1 = h1 h2 = h2
    alice = alice bob = bob treasury = treasury
    lobby = lobby desk = desk council = council
    inv = inv none = none
    User = {alice, bob}
    Node = {lobby, desk, council}
    Lobby = lobby
    Target = council
    Invite = {inv}
    Goal = {desk, none}
    MaxUses = 1
    Fee = 1
    MinBalance = 2
    Kept <- Half
    InitBal <- Opening
    InitRows <- Seated
    Treasury = treasury
    Handler = {h1, h2}
    RowId = {1, 2, 3, 4, 5, 6, 7}
    MaxOps = 3
    None = none
INVARIANTS AdmissionsBounded GoneIsGone BanHolds
PROPERTIES EligibleArePromoted
CHECK_DEADLOCK FALSE
