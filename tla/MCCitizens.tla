----------------------------- MODULE MCCitizens -----------------------------
(* Citizens on a State with a Waiting Room, a desk and the node of promotion.  *)
(* Alice holds the desk and the money for a promotion, Bob waits in the lobby  *)
(* with the price of one fee; the one single-use invitation leads to the desk  *)
(* or nowhere.                                                                 *)
EXTENDS Citizens, TLC

CONSTANTS h1, h2, alice, bob, treasury, lobby, desk, council, inv, none

Opening == [w \in User \cup {treasury} |-> IF w = alice THEN 3 ELSE IF w = bob THEN 1 ELSE 0]
Seated == {[id |-> 1, user |-> alice, node |-> desk, status |-> "active"],
           [id |-> 2, user |-> bob, node |-> lobby, status |-> "pending"]}
Half(b) == b \div 2
=============================================================================
