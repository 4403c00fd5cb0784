---------------------------- MODULE AtomicLedger ----------------------------
(***************************************************************************)
(* What the contract of WalletRepository.executeTransfer promises: each    *)
(* request moves its money in one step, in full or not at all, at most     *)
(* once, and only out of a wallet that holds the whole amount.             *)
(***************************************************************************)
EXTENDS Integers

CONSTANTS Req, Wallet, InitBal, Amounts, None

VARIABLES bal, fate

vars == <<bal, fate>>

Init == bal = InitBal /\ fate = [r \in Req |-> "open"]

Part(w, target, n) == IF w = target THEN n ELSE 0

\* The payer loses amount; the payee and the tax treasury share exactly that.
Pay(from, to, taxTo, amount, tax) ==
    /\ bal[from] >= amount
    /\ from \notin {to, taxTo}
    /\ taxTo = None => tax = 0
    /\ bal' = [w \in Wallet |-> bal[w] - Part(w, from, amount)
                                       + Part(w, to, amount - tax)
                                       + Part(w, taxTo, tax)]

Mint(to, amount) == bal' = [w \in Wallet |-> bal[w] + Part(w, to, amount)]

Move(r) ==
    /\ fate[r] = "open"
    /\ fate' = [fate EXCEPT ![r] = "moved"]
    /\ \/ \E from, to \in Wallet, taxTo \in Wallet \cup {None}, amount \in Amounts :
             \E tax \in 0 .. amount : Pay(from, to, taxTo, amount, tax)
       \/ \E to \in Wallet, amount \in Amounts : Mint(to, amount)

\* Refused, failed or lost: the balances do not notice.
Drop(r) ==
    /\ fate[r] = "open"
    /\ fate' = [fate EXCEPT ![r] = "dropped"]
    /\ UNCHANGED bal

Next == \E r \in Req : Move(r) \/ Drop(r)

Spec == Init /\ [][Next]_vars
=============================================================================
