------------------------------ MODULE MCLedger ------------------------------
(* Ledger on small States: two citizens, the root treasury and a guild's. *)
EXTENDS Ledger, TLC

CONSTANTS r1, r2, r3, alice, bob, root, guild, none

Wallets3 == {alice, bob, root}
Wallets4 == {alice, bob, root, guild}

OneRoot3 == [w \in Wallets3 |-> root]
OneRoot4 == [w \in Wallets4 |-> root]

\* Legacy wallets without an asset: the root treasury may hold another currency.
OneCurrency3 == [w \in Wallets3 |-> "KRW"]
MixedCurrency == [w \in Wallets4 |-> IF w \in {root, bob} THEN "GOLD" ELSE "KRW"]
OneCurrency4 == [w \in Wallets4 |-> "KRW"]

Opening3 == [w \in Wallets3 |-> IF w = bob THEN 3 ELSE 4]
Opening4 == [w \in Wallets4 |-> IF w = bob THEN 2 ELSE 3]

Symmetric == Permutations(Req)
=============================================================================
