---------------------------- MODULE LedgerProofs ----------------------------
(***************************************************************************)
(* Theorems about Ledger for any set of requests and wallets.              *)
(***************************************************************************)
EXTENDS Ledger, Sums, TLAPS

USE LedgerConstants

-----------------------------------------------------------------------------
(* The tax split. *)

\* Half-even rounding of a natural number of hundredths is a natural number.
LEMMA HalfEvenNat == \A n \in Nat : HalfEven(n) \in Nat
  BY DEF HalfEven

\* A tax never reaches the amount it is taken from.
LEMMA TaxBelowAmount ==
  ASSUME NEW from \in Wallet, NEW to \in Wallet, NEW amount \in Amounts,
         NEW rate \in Nat
  PROVE  /\ TaxOn(from, to, amount, rate) \in Nat
         /\ TaxOn(from, to, amount, rate) < amount
         /\ RootOf[from] = None => TaxOn(from, to, amount, rate) = 0
  <1> DEFINE n == amount * LowerOf(100, rate)
  <1>1. LowerOf(100, rate) \in Nat
    BY DEF LowerOf
  <1>2. amount \in Nat /\ amount > 0
    OBVIOUS
  <1>3. n \in Nat
    BY <1>1, <1>2
  <1>4. HalfEven(n) \in Nat
    BY <1>3, HalfEvenNat
  <1> QED
    BY <1>2, <1>4 DEF TaxOn

\* What transfer() and mint() hand to the repository is a plan, and an honest one.
LEMMA TransferPlanSound ==
  ASSUME NEW from \in Wallet, NEW to \in Wallet, NEW amount \in Amounts,
         NEW rate \in Nat
  PROVE  LET p == TransferPlan(from, to, amount, rate)
         IN  /\ p \in Plan
             /\ p.from = from /\ p.to = to /\ p.amount = amount
             /\ p.tax <= p.amount
             /\ p.taxTo = None <=> p.tax = 0
  <1> DEFINE tax == TaxOn(from, to, amount, rate)
  <1>1. tax \in Nat /\ tax < amount /\ (RootOf[from] = None => tax = 0)
    BY TaxBelowAmount
  <1>2. RootOf[from] \in Treasury \cup {None}
    OBVIOUS
  <1> HIDE DEF tax
  <1>3. TransferPlan(from, to, amount, rate) =
          [from |-> from, to |-> to, amount |-> amount, tax |-> tax,
           taxTo |-> IF tax = 0 THEN None ELSE RootOf[from]]
    BY DEF TransferPlan, tax
  <1> QED
    BY <1>1, <1>2, <1>3 DEF Plan

LEMMA MintPlanSound ==
  ASSUME NEW to \in Wallet, NEW amount \in Amounts
  PROVE  LET p == MintPlan(to, amount)
         IN  /\ p \in Plan
             /\ p.from = None /\ p.to = to /\ p.amount = amount
             /\ p.tax = 0 /\ p.taxTo = None
  BY DEF MintPlan, Plan

-----------------------------------------------------------------------------
(* Each step preserves the inductive invariant. *)

LEMMA InitInv == Init => IInv
  <1> SUFFICES ASSUME Init PROVE IInv
    OBVIOUS
  <1>1. TypeOK
    BY DEF Init, TypeOK, NoDelta, NoPlan, Plan, Labels, InTx, Ended
  <1>2. PlanInv /\ DeltaInv
    BY DEF Init, PlanInv, DeltaInv, Written, InTx, NoDelta
  <1>3. LockInv /\ NonNegativeBalances /\ JournalExplainsBalances
    BY DEF Init, LockInv, NonNegativeBalances, JournalExplainsBalances, NoDelta
  <1> QED
    BY <1>1, <1>2, <1>3 DEF IInv

\* A step that only plans r, from "new", and takes it to a label before any write.
LEMMA PlanningStep ==
  ASSUME IInv, NEW r \in Req, NEW p \in Plan, pc[r] = "new",
         \/ /\ plan' = [plan EXCEPT ![r] = p]
            /\ Goto(r, "read")
            /\ p.to \in Wallet /\ p.from # p.to
            /\ p.amount \in Amounts /\ p.tax <= p.amount
            /\ p.taxTo = None <=> p.tax = 0
            /\ p.from = None => p.taxTo = None
         \/ Goto(r, "refused") /\ UNCHANGED plan,
         UNCHANGED <<bal, posted, minted, rows, held, delta>>
  PROVE  IInv'
  <1> USE DEF IInv, Goto
  <1>1. TypeOK'
    <2>1. plan' \in [Req -> Plan]
      BY DEF TypeOK
    <2>2. pc' \in [Req -> Labels]
      <3> "read" \in Labels /\ "refused" \in Labels
        BY DEF Labels, InTx, Ended
      <3> QED
        BY DEF TypeOK
    <2> QED
      BY <2>1, <2>2 DEF TypeOK
  <1>2. PlanInv'
    BY DEF TypeOK, PlanInv, InTx
  <1>3. DeltaInv'
    BY DEF TypeOK, DeltaInv, Written
  <1>4. LockInv' /\ NonNegativeBalances' /\ JournalExplainsBalances'
    BY DEF LockInv, NonNegativeBalances, JournalExplainsBalances
  <1> QED
    BY <1>1, <1>2, <1>3, <1>4

\* A rolled-back transaction leaves the others' locks and changes in place.
LEMMA RollbackStep ==
  ASSUME IInv, NEW r \in Req, Rollback(r),
         NEW label \in {"failing", "crashed"}, Goto(r, label),
         UNCHANGED <<bal, posted, minted, rows, plan>>
  PROVE  IInv'
  <1> USE DEF IInv, Goto, Rollback
  <1>0. NoDelta \in [Wallet -> Int] /\ label \in Labels /\ label \notin InTx
    BY DEF NoDelta, Labels, InTx, Ended
  <1>1. TypeOK'
    <2>1. delta' \in [Req -> [Wallet -> Int]]
      BY <1>0 DEF TypeOK
    <2>2. held' \in [Wallet -> Req \cup {None}] /\ pc' \in [Req -> Labels]
      BY <1>0 DEF TypeOK
    <2> QED
      BY <2>1, <2>2 DEF TypeOK
  <1>2. PlanInv'
    BY <1>0 DEF TypeOK, PlanInv
  <1>3. DeltaInv'
    BY DEF TypeOK, DeltaInv, Written, NoDelta
  <1>4. LockInv'
    BY DEF TypeOK, LockInv, NoDelta, NonNegativeBalances
  <1>5. NonNegativeBalances' /\ JournalExplainsBalances'
    BY DEF NonNegativeBalances, JournalExplainsBalances
  <1> QED
    BY <1>1, <1>2, <1>3, <1>4, <1>5

LEMMA ThrowStep ==
  ASSUME IInv, NEW r \in Req, Throw(r)
  PROVE  IInv'
  BY RollbackStep DEF Throw

\* A statement that adds n to wallet w and moves r on; the two-phase lock makes
\* r the only transaction that has changed w.
LEMMA IncrementLocks ==
  ASSUME TypeOK, LockInv, NEW r \in Req, NEW w \in Wallet, NEW n \in Int,
         CanLock(r, w), Increment(r, w, n), UNCHANGED bal,
         bal[w] + delta[r][w] + n >= 0
  PROVE  /\ LockInv'
         /\ delta' \in [Req -> [Wallet -> Int]]
         /\ held' \in [Wallet -> Req \cup {None}]
         /\ \A q \in Req, v \in Wallet :
               delta'[q][v] = IF q = r /\ v = w THEN delta[r][w] + n ELSE delta[q][v]
  <1> USE DEF TypeOK, Increment
  <1>1. \A q \in Req, v \in Wallet :
           delta'[q][v] = IF q = r /\ v = w THEN delta[r][w] + n ELSE delta[q][v]
    OBVIOUS
  <1>2. \A v \in Wallet : held'[v] = IF v = w THEN r ELSE held[v]
    OBVIOUS
  <1>3. \A q \in Req \ {r} : delta[q][w] = 0
    BY DEF LockInv, CanLock
  <1>4. LockInv'
    BY <1>1, <1>2, <1>3 DEF LockInv
  <1>5. delta' \in [Req -> [Wallet -> Int]] /\ held' \in [Wallet -> Req \cup {None}]
    OBVIOUS
  <1> QED
    BY <1>1, <1>4, <1>5

LEMMA ReadSourceStep ==
  ASSUME IInv, NEW r \in Req, ReadSource(r)
  PROVE  IInv'
  <1> DEFINE p == plan[r]
             next == IF p.from = None THEN "credit" ELSE "debit"
  <1>1. CASE Throw(r)
    BY <1>1, ThrowStep
  <1>2. CASE /\ TaxLegValid(p)
             /\ Goto(r, next)
             /\ UNCHANGED <<bal, posted, minted, rows, held, delta, plan>>
    <2> USE <1>2 DEF IInv, Goto, ReadSource
    <2>1. pc[r] = "read" /\ next \in InTx /\ next \in Labels
      BY DEF InTx, Labels
    <2>2. pc' \in [Req -> Labels]
      BY <2>1 DEF TypeOK
    <2>3. TypeOK'
      BY <2>2 DEF TypeOK
    <2>4. PlanInv'
      BY DEF TypeOK, PlanInv, InTx, TaxLegValid
    <2>5. p.from \notin Wallet \/ next = "debit"
      OBVIOUS
    <2>6. DeltaInv'
      BY <2>1, <2>5 DEF TypeOK, DeltaInv, Written
    <2>7. LockInv' /\ NonNegativeBalances' /\ JournalExplainsBalances'
      BY DEF LockInv, NonNegativeBalances, JournalExplainsBalances
    <2> QED
      BY <2>3, <2>4, <2>6, <2>7
  <1> QED
    BY <1>1, <1>2 DEF ReadSource

LEMMA DebitStep ==
  ASSUME IInv, NEW r \in Req, Debit(r)
  PROVE  IInv'
  <1> DEFINE p == plan[r]
  <1>1. CASE Throw(r)
    BY <1>1, ThrowStep
  <1>2. CASE /\ CanLock(r, p.from)
             /\ Covers(r, p)
             /\ Increment(r, p.from, -p.amount)
             /\ Goto(r, "credit")
             /\ UNCHANGED <<bal, posted, minted, rows, plan>>
    <2> USE DEF IInv
    <2>1. pc[r] = "debit" /\ "credit" \in Labels
      BY DEF Debit, Labels, InTx
    <2>2. p \in Plan /\ p.from \in Wallet /\ p.amount \in Nat
      BY <2>1 DEF PlanInv, TypeOK, InTx, Plan
    <2>3. /\ LockInv' /\ delta' \in [Req -> [Wallet -> Int]]
          /\ held' \in [Wallet -> Req \cup {None}]
          /\ \A q \in Req, v \in Wallet :
                delta'[q][v] = IF q = r /\ v = p.from
                               THEN delta[r][p.from] - p.amount ELSE delta[q][v]
      <3>1. bal[p.from] + delta[r][p.from] + (-p.amount) >= 0
        BY <1>2, <2>2 DEF TypeOK, Covers
      <3>2. -p.amount \in Int /\ delta[r][p.from] \in Int /\ UNCHANGED bal
        BY <1>2, <2>2 DEF TypeOK
      <3>3. /\ LockInv' /\ delta' \in [Req -> [Wallet -> Int]]
            /\ held' \in [Wallet -> Req \cup {None}]
            /\ \A q \in Req, v \in Wallet :
                  delta'[q][v] = IF q = r /\ v = p.from
                                 THEN delta[r][p.from] + (-p.amount) ELSE delta[q][v]
        BY <1>2, <2>2, <3>1, <3>2, IncrementLocks
      <3> QED
        BY <2>2, <3>2, <3>3
    <2>4. pc' \in [Req -> Labels]
      BY <1>2, <2>1 DEF TypeOK, Goto
    <2>5. TypeOK'
      BY <1>2, <2>3, <2>4 DEF TypeOK
    <2>6. PlanInv'
      BY <1>2, <2>1 DEF TypeOK, PlanInv, InTx, Goto
    <2>7. DeltaInv'
      BY <1>2, <2>1, <2>2, <2>3 DEF TypeOK, DeltaInv, Written, Goto
    <2>8. NonNegativeBalances' /\ JournalExplainsBalances'
      BY <1>2 DEF NonNegativeBalances, JournalExplainsBalances
    <2> QED
      BY <2>3, <2>5, <2>6, <2>7, <2>8
  <1> QED
    BY <1>1, <1>2 DEF Debit

LEMMA CreditStep ==
  ASSUME IInv, NEW r \in Req, Credit(r)
  PROVE  IInv'
  <1> DEFINE p == plan[r]
             next == IF p.taxTo = None THEN "commit" ELSE "tax"
  <1> USE DEF IInv
  <1>1. /\ pc[r] = "credit" /\ Goto(r, next)
        /\ UNCHANGED <<bal, posted, minted, rows, plan>>
        /\ IF p.to # None /\ Net(p) > 0
           THEN CanLock(r, p.to) /\ Increment(r, p.to, Net(p))
           ELSE UNCHANGED <<delta, held>>
    BY DEF Credit
  <1>2. /\ p \in Plan /\ p.to \in Wallet /\ p.from # p.to
        /\ p.amount \in Nat /\ p.tax \in Nat /\ p.tax <= p.amount
        /\ p.taxTo = None \/ p.taxTo \notin {p.from, p.to}
        /\ p.taxTo = None <=> p.tax = 0
    BY <1>1 DEF PlanInv, TypeOK, InTx, Plan
  <1>3. Net(p) \in Nat /\ p.to # None /\ next \in Labels /\ next \in {"tax", "commit"}
    BY <1>2 DEF Net, Labels, InTx
  <1>4. /\ LockInv' /\ delta' \in [Req -> [Wallet -> Int]]
        /\ held' \in [Wallet -> Req \cup {None}]
        /\ \A q \in Req, v \in Wallet :
              delta'[q][v] = IF q = r /\ v = p.to
                             THEN delta[r][p.to] + Net(p) ELSE delta[q][v]
    <2>1. CASE Net(p) > 0
      <3>1. bal[p.to] + delta[r][p.to] + Net(p) >= 0
        BY <1>2, <1>3 DEF TypeOK, LockInv
      <3> QED
        BY <1>1, <1>2, <1>3, <2>1, <3>1, IncrementLocks
    <2>2. CASE Net(p) = 0
      BY <1>1, <1>2, <1>3, <2>2 DEF TypeOK, LockInv
    <2> QED
      BY <1>3, <2>1, <2>2
  <1>5. pc' \in [Req -> Labels]
    BY <1>1, <1>3 DEF TypeOK, Goto
  <1>6. TypeOK'
    BY <1>1, <1>4, <1>5 DEF TypeOK
  <1>7. PlanInv'
    BY <1>1, <1>3 DEF TypeOK, PlanInv, InTx, Goto
  <1>8. DeltaInv'
    <2> HIDE DEF IInv
    <2>1. \A q \in Req \ {r} : pc'[q] = pc[q] /\ plan'[q] = plan[q]
      BY <1>1 DEF IInv, TypeOK, Goto
    <2>2. pc'[r] = next /\ plan'[r] = p
      BY <1>1 DEF IInv, TypeOK, Goto
    <2>3. ASSUME NEW q \in Req, NEW v \in Wallet
          PROVE  delta'[q][v] = Written(q, v)'
      <3>1. CASE q # r
        BY <1>4, <2>1, <2>3, <3>1 DEF IInv, DeltaInv, Written
      <3>2. CASE q = r
        <4>1. delta[r][v] = IF v = p.from THEN -p.amount ELSE 0
          BY <1>1, <1>2 DEF IInv, DeltaInv, Written
        <4>2. Written(r, v)' = (IF v = p.to THEN Net(p) ELSE 0)
                               - (IF v = p.from THEN p.amount ELSE 0)
          BY <1>2, <1>3, <2>2 DEF Written
        <4> QED
          BY <1>2, <1>3, <1>4, <3>2, <4>1, <4>2
      <3> QED
        BY <3>1, <3>2
    <2> QED
      BY <2>3 DEF DeltaInv
  <1>9. NonNegativeBalances' /\ JournalExplainsBalances'
    BY <1>1 DEF NonNegativeBalances, JournalExplainsBalances
  <1> QED
    BY <1>4, <1>6, <1>7, <1>8, <1>9

LEMMA CreditTaxStep ==
  ASSUME IInv, NEW r \in Req, CreditTax(r)
  PROVE  IInv'
  <1> DEFINE p == plan[r]
  <1>1. CASE Throw(r)
    BY <1>1, ThrowStep
  <1>2. CASE /\ p.taxTo \in Treasury
             /\ CanLock(r, p.taxTo)
             /\ Increment(r, p.taxTo, p.tax)
             /\ Goto(r, "commit")
             /\ UNCHANGED <<bal, posted, minted, rows, plan>>
    <2> USE DEF IInv
    <2>1. pc[r] = "tax" /\ "commit" \in Labels
      BY DEF CreditTax, Labels, InTx
    <2>2. /\ p \in Plan /\ p.taxTo \in Wallet /\ p.tax \in Nat
          /\ p.taxTo \notin {p.from, p.to} /\ p.from # p.to
      BY <1>2, <2>1 DEF PlanInv, TypeOK, InTx, Plan
    <2>3. /\ LockInv' /\ delta' \in [Req -> [Wallet -> Int]]
          /\ held' \in [Wallet -> Req \cup {None}]
          /\ \A q \in Req, v \in Wallet :
                delta'[q][v] = IF q = r /\ v = p.taxTo
                               THEN delta[r][p.taxTo] + p.tax ELSE delta[q][v]
      <3>1. bal[p.taxTo] + delta[r][p.taxTo] + p.tax >= 0
        BY <2>2 DEF TypeOK, LockInv
      <3>2. p.tax \in Int /\ UNCHANGED bal
        BY <1>2, <2>2
      <3> QED
        BY <1>2, <2>2, <3>1, <3>2, IncrementLocks
    <2>4. pc' \in [Req -> Labels]
      BY <1>2, <2>1 DEF TypeOK, Goto
    <2>5. TypeOK'
      BY <1>2, <2>3, <2>4 DEF TypeOK
    <2>6. PlanInv'
      BY <1>2, <2>1 DEF TypeOK, PlanInv, InTx, Goto
    <2>7. DeltaInv'
      BY <1>2, <2>1, <2>2, <2>3 DEF TypeOK, DeltaInv, Written, Goto
    <2>8. NonNegativeBalances' /\ JournalExplainsBalances'
      BY <1>2 DEF NonNegativeBalances, JournalExplainsBalances
    <2> QED
      BY <2>3, <2>5, <2>6, <2>7, <2>8
  <1> QED
    BY <1>1, <1>2 DEF CreditTax

\* At COMMIT the transaction's changes are exactly what its journal rows say.
LEMMA WrittenIsJournalled ==
  ASSUME IInv, NEW r \in Req, pc[r] = "commit", NEW w \in Wallet
  PROVE  delta[r][w] = JournalEffect(plan[r], w) /\ delta[r][w] \in Int
  <1> DEFINE p == plan[r]
  <1>1. /\ p \in Plan /\ p.to \in Wallet /\ p.from # p.to
        /\ p.taxTo = None \/ p.taxTo \notin {p.from, p.to}
        /\ p.taxTo = None <=> p.tax = 0
        /\ p.amount \in Nat /\ p.tax \in Nat
    BY DEF IInv, PlanInv, TypeOK, InTx, Plan
  <1>2. delta[r][w] = (IF w = p.to THEN p.amount - p.tax ELSE 0)
                      + (IF w = p.taxTo THEN p.tax ELSE 0)
                      - (IF w = p.from THEN p.amount ELSE 0)
    BY DEF IInv, DeltaInv, Written, Net
  <1>3. JournalEffect(p, w) =
          (IF w = p.to THEN p.amount - p.tax ELSE 0)
          - (IF w = p.from THEN p.amount - p.tax ELSE 0)
          + (IF p.taxTo = None THEN 0
             ELSE (IF w = p.taxTo THEN p.tax ELSE 0) - (IF w = p.from THEN p.tax ELSE 0))
    BY DEF JournalEffect, RowEffect, Net
  <1> SUFFICES delta[r][w] = JournalEffect(p, w) /\ delta[r][w] \in Int
    OBVIOUS
  <1> HIDE DEF p
  <1>4. CASE p.taxTo = None
    <2>1. p.tax = 0 /\ w # p.taxTo
      BY <1>1, <1>4
    <2> QED
      BY <1>1, <1>2, <1>3, <1>4, <2>1
  <1>5. CASE p.taxTo # None /\ w = p.from
    BY <1>1, <1>2, <1>3, <1>5
  <1>6. CASE p.taxTo # None /\ w # p.from
    BY <1>1, <1>2, <1>3, <1>6
  <1> QED
    BY <1>4, <1>5, <1>6

LEMMA ApplyStep ==
  ASSUME IInv, NEW r \in Req, pc[r] = "commit", Apply(r),
         NEW label \in {"paid", "failing"}, Goto(r, label)
  PROVE  IInv'
  <1> USE DEF IInv, Goto, Apply, Rollback
  <1>0. label \in Labels /\ label \notin InTx /\ NoDelta \in [Wallet -> Int]
    BY DEF Labels, InTx, Ended, NoDelta
  <1>1. \A w \in Wallet : /\ delta[r][w] = JournalEffect(plan[r], w)
                          /\ delta[r][w] \in Int
    BY WrittenIsJournalled
  <1>2. \A w \in Wallet : /\ bal'[w] = bal[w] + delta[r][w]
                          /\ posted'[w] = posted[w] + delta[r][w]
    BY <1>1
  <1>3. TypeOK'
    <2>1. bal' \in [Wallet -> Int] /\ posted' \in [Wallet -> Int]
      BY <1>1 DEF TypeOK
    <2>2. minted' \in Nat
      BY DEF TypeOK, Plan
    <2>3. rows' \in [Req -> SUBSET {"completed", "failed"}]
      BY DEF TypeOK
    <2>4. held' \in [Wallet -> Req \cup {None}] /\ pc' \in [Req -> Labels]
      BY <1>0 DEF TypeOK
    <2>5. delta' \in [Req -> [Wallet -> Int]] /\ plan' \in [Req -> Plan]
      BY <1>0 DEF TypeOK
    <2> QED
      BY <2>1, <2>2, <2>3, <2>4, <2>5 DEF TypeOK
  <1>4. PlanInv'
    BY <1>0 DEF TypeOK, PlanInv
  <1>5. DeltaInv'
    BY <1>0 DEF TypeOK, DeltaInv, Written, NoDelta, InTx
  <1>6. NonNegativeBalances'
    BY <1>2 DEF NonNegativeBalances, LockInv
  <1>7. LockInv'
    <2> SUFFICES ASSUME NEW q \in Req, NEW w \in Wallet
                 PROVE  /\ delta'[q][w] # 0 => held'[w] = q
                        /\ bal'[w] + delta'[q][w] >= 0
      BY DEF LockInv
    <2>1. bal'[w] \in Int /\ bal'[w] >= 0 /\ delta[q][w] \in Int
      BY <1>3, <1>6 DEF TypeOK, NonNegativeBalances
    <2>2. CASE q = r
      BY <2>1, <2>2 DEF TypeOK, NoDelta
    <2>3. CASE q # r /\ delta[q][w] = 0
      BY <2>1, <2>3 DEF TypeOK
    <2>4. CASE q # r /\ delta[q][w] # 0
      <3>1. held[w] = q /\ delta[r][w] = 0
        BY <2>4 DEF LockInv
      <3>2. bal'[w] = bal[w] /\ delta'[q] = delta[q] /\ held'[w] = q
        BY <1>2, <2>4, <3>1 DEF TypeOK
      <3> QED
        BY <2>4, <3>2 DEF LockInv
    <2> QED
      BY <2>2, <2>3, <2>4
  <1>8. JournalExplainsBalances'
    BY <1>1, <1>2 DEF JournalExplainsBalances, TypeOK
  <1> QED
    BY <1>3, <1>4, <1>5, <1>6, <1>7, <1>8

LEMMA WriteFailedRowStep ==
  ASSUME IInv, NEW r \in Req, WriteFailedRow(r)
  PROVE  IInv'
  <1> USE DEF IInv, Goto, WriteFailedRow
  <1>1. TypeOK'
    <2>1. rows' \in [Req -> SUBSET {"completed", "failed"}]
      BY DEF TypeOK
    <2>2. "failed" \in Labels
      BY DEF Labels, Ended
    <2>3. pc' \in [Req -> Labels]
      BY <2>2 DEF TypeOK
    <2> QED
      BY <2>1, <2>3 DEF TypeOK
  <1>2. PlanInv' /\ DeltaInv'
    BY DEF TypeOK, PlanInv, DeltaInv, Written, InTx
  <1>3. LockInv' /\ NonNegativeBalances' /\ JournalExplainsBalances'
    BY DEF LockInv, NonNegativeBalances, JournalExplainsBalances
  <1> QED
    BY <1>1, <1>2, <1>3

LEMMA RequestStep ==
  ASSUME IInv, NEW r \in Req, Request(r)
  PROVE  IInv'
  <1>1. ASSUME NEW from \in Wallet, NEW to \in Wallet, NEW amount \in Amounts,
               NEW rate \in Rates, RequestTransfer(r, from, to, amount, rate)
        PROVE  IInv'
    <2> DEFINE p == TransferPlan(from, to, amount, rate)
    <2>1. /\ p \in Plan /\ p.from = from /\ p.to = to /\ p.amount = amount
          /\ p.tax <= p.amount
          /\ p.taxTo = None <=> p.tax = 0
      BY TransferPlanSound
    <2>2. p.from \in Wallet /\ p.to \in Wallet /\ p.from # None /\ p.amount \in Amounts
      BY <2>1
    <2> HIDE DEF p
    <2>3. /\ pc[r] = "new"
          /\ UNCHANGED <<bal, posted, minted, rows, held, delta>>
          /\ \/ plan' = [plan EXCEPT ![r] = p] /\ Goto(r, "read") /\ from # to
             \/ Goto(r, "refused") /\ UNCHANGED plan
      BY <1>1 DEF RequestTransfer, p
    <2> QED
      BY <2>1, <2>2, <2>3, PlanningStep
  <1>2. ASSUME NEW to \in Wallet, NEW amount \in Amounts, NEW canMint \in BOOLEAN,
               RequestMint(r, to, amount, canMint)
        PROVE  IInv'
    <2> DEFINE p == MintPlan(to, amount)
    <2>1. /\ p \in Plan /\ p.from = None /\ p.to = to /\ p.amount = amount
          /\ p.tax = 0 /\ p.taxTo = None
      BY MintPlanSound
    <2>2. p.tax <= p.amount /\ p.from # p.to
      BY <2>1
    <2> HIDE DEF p
    <2>3. /\ pc[r] = "new"
          /\ UNCHANGED <<bal, posted, minted, rows, held, delta>>
          /\ \/ plan' = [plan EXCEPT ![r] = p] /\ Goto(r, "read")
             \/ Goto(r, "refused") /\ UNCHANGED plan
      BY <1>2 DEF RequestMint, p
    <2> QED
      BY <2>1, <2>2, <2>3, PlanningStep
  <1> QED
    BY <1>1, <1>2 DEF Request

-----------------------------------------------------------------------------
(* The theorems. *)

\* The inductive invariant holds of every execution, whatever the number of
\* requests, wallets and amounts, and whatever crashes, aborts and deadlocks.
THEOREM LedgerInvariant == Spec => []IInv
  <1>1. Init => IInv
    BY InitInv
  <1>2. IInv /\ [Next]_vars => IInv'
    <2> SUFFICES ASSUME IInv, [Next]_vars PROVE IInv'
      OBVIOUS
    <2>1. CASE UNCHANGED vars
      BY <2>1 DEF vars, IInv, TypeOK, PlanInv, DeltaInv, Written, LockInv,
                  NonNegativeBalances, JournalExplainsBalances
    <2>2. ASSUME NEW r \in Req, Request(r) \/ Statement(r) \/ Fault(r)
          PROVE  IInv'
      <3>1. CASE Request(r)
        BY <3>1, RequestStep
      <3>2. CASE ReadSource(r)
        BY <3>2, ReadSourceStep
      <3>3. CASE Debit(r)
        BY <3>3, DebitStep
      <3>4. CASE Credit(r)
        BY <3>4, CreditStep
      <3>5. CASE CreditTax(r)
        BY <3>5, CreditTaxStep
      <3>6. CASE Commit(r) \/ LoseCommitAck(r)
        BY <3>6, ApplyStep DEF Commit, LoseCommitAck
      <3>7. CASE WriteFailedRow(r)
        BY <3>7, WriteFailedRowStep
      <3>8. CASE DeadlockVictim(r) \/ Abort(r)
        BY <3>8, ThrowStep DEF DeadlockVictim, Abort
      <3>9. CASE Crash(r)
        BY <3>9, RollbackStep DEF Crash
      <3> QED
        BY <2>2, <3>1, <3>2, <3>3, <3>4, <3>5, <3>6, <3>7, <3>8, <3>9
           DEF Statement, Fault
    <2> QED
      BY <2>1, <2>2 DEF Next
  <1> QED
    BY <1>1, <1>2, PTL DEF Spec

\* Balances, open transactions, locks and plans keep their types through
\* transfers, mints, aborts and crashes.
THEOREM TypeCorrect == Spec => []TypeOK
  <1>1. IInv => TypeOK
    BY DEF IInv
  <1> QED
    BY <1>1, LedgerInvariant, PTL

\* No interleaving of debits overdraws a wallet (runLedgerTransferInTx).
THEOREM NoOverdraft == Spec => []NonNegativeBalances
  <1>1. IInv => NonNegativeBalances
    BY DEF IInv
  <1> QED
    BY <1>1, LedgerInvariant, PTL

\* The balance column and the Transaction journal never disagree.
THEOREM DoubleEntry == Spec => []JournalExplainsBalances
  <1>1. IInv => JournalExplainsBalances
    BY DEF IInv
  <1> QED
    BY <1>1, LedgerInvariant, PTL

\* What a transaction about to commit has written adds up to what it mints: a
\* transfer's debit, credit and tax leg cancel out.
LEMMA WrittenSum ==
  ASSUME IInv, NEW r \in Req, pc[r] = "commit"
  PROVE  SumFunctionOnSet(delta[r], Wallet) = IF plan[r].from = None THEN plan[r].amount ELSE 0
  <1> DEFINE p == plan[r]
             At(w, n) == [v \in Wallet |-> IF v = w THEN n ELSE 0]
             credit == At(p.to, Net(p))
             tax == At(p.taxTo, p.tax)
             debit == At(p.from, -p.amount)
             legs == [v \in Wallet |-> credit[v] + tax[v]]
             taken == IF p.from = None THEN 0 ELSE -p.amount
  <1>1. /\ p \in Plan /\ p.to \in Wallet /\ (p.taxTo = None <=> p.tax = 0)
        /\ p.from = None => p.taxTo = None
    BY DEF IInv, TypeOK, PlanInv, InTx
  <1>2. p.amount \in Int /\ p.tax \in Int /\ Net(p) \in Int /\ Net(p) + p.tax = p.amount
    BY <1>1 DEF Plan, Net
  <1>3. ASSUME NEW w \in Wallet \cup {None}, NEW n \in Int
        PROVE  /\ \A v \in Wallet : At(w, n)[v] \in Int
               /\ SumFunctionOnSet(At(w, n), Wallet) = IF w = None THEN 0 ELSE n
    <2>1. \A v \in Wallet : At(w, n)[v] = IF v = w THEN n ELSE 0
      OBVIOUS
    <2> HIDE DEF At
    <2>2. CASE w = None
      BY <2>1, <2>2, FiniteWallets, SumZero
    <2>3. CASE w \in Wallet
      BY <2>1, <2>3, FiniteWallets, SumPoint
    <2> QED
      BY <2>1, <2>2, <2>3
  <1>4. \A v \in Wallet : delta[r][v] = legs[v] + debit[v]
    BY <1>1, <1>2 DEF IInv, DeltaInv, Written
  <1>5. \A v \in Wallet : legs[v] = credit[v] + tax[v]
    OBVIOUS
  <1> HIDE DEF At, legs, p
  <1>6. p.to \in Wallet \cup {None} /\ p.taxTo \in Wallet \cup {None} /\ p.from \in Wallet \cup {None}
        /\ -p.amount \in Int
    BY <1>1, <1>2 DEF Plan
  <1>7. \A v \in Wallet : credit[v] \in Int /\ tax[v] \in Int /\ debit[v] \in Int /\ legs[v] \in Int
    BY <1>2, <1>3, <1>5, <1>6
  <1>8. SumFunctionOnSet(credit, Wallet) = Net(p) /\ SumFunctionOnSet(tax, Wallet) = p.tax
        /\ SumFunctionOnSet(debit, Wallet) = taken
    BY <1>1, <1>2, <1>3, <1>6
  <1> HIDE DEF credit, tax, debit
  <1>9. SumFunctionOnSet(legs, Wallet) = SumFunctionOnSet(credit, Wallet) + SumFunctionOnSet(tax, Wallet)
    BY <1>5, <1>7, FiniteWallets, SumPlus
  <1>10. SumFunctionOnSet(delta[r], Wallet) = SumFunctionOnSet(legs, Wallet) + SumFunctionOnSet(debit, Wallet)
    BY <1>4, <1>7, FiniteWallets, SumPlus
  <1>11. SumFunctionOnSet(delta[r], Wallet) = p.amount + taken
    BY <1>2, <1>8, <1>9, <1>10
  <1> QED
    BY <1>2, <1>11 DEF p

\* The money of a State is what it opened with and what was minted since, tax
\* splits, rollbacks, deadlocks and lost answers included.
THEOREM MoneyConserved == Spec => []Conservation
  <1>1. Init => Conservation
    <2> SUFFICES ASSUME Init PROVE Conservation
      OBVIOUS
    <2>1. SumFunctionOnSet(InitBal, Wallet) \in Int
      BY FiniteWallets, SumInt
    <2> QED
      BY <2>1 DEF Init, Conservation, SumFunction
  <1>2. IInv /\ IInv' /\ Conservation /\ [Next]_vars => Conservation'
    <2> SUFFICES ASSUME IInv, IInv', Conservation, [Next]_vars PROVE Conservation'
      OBVIOUS
    <2>1. CASE UNCHANGED <<bal, minted>>
      BY <2>1 DEF Conservation
    <2>2. ASSUME NEW r \in Req, pc[r] = "commit", Apply(r) PROVE Conservation'
      <3>1. \A w \in Wallet : bal[w] \in Int /\ delta[r][w] \in Int /\ bal'[w] = bal[w] + delta[r][w]
        BY <2>2 DEF IInv, TypeOK, Apply
      <3>2. SumFunctionOnSet(bal', Wallet) = SumFunctionOnSet(bal, Wallet) + SumFunctionOnSet(delta[r], Wallet)
        BY <3>1, FiniteWallets, SumPlus
      <3>3. SumFunctionOnSet(bal', Wallet) = SumFunctionOnSet(bal, Wallet) + (minted' - minted)
        <4>1. minted \in Int /\ plan[r].amount \in Int
          BY DEF IInv, TypeOK, Plan
        <4>2. minted' = minted + (IF plan[r].from = None THEN plan[r].amount ELSE 0)
          BY <2>2 DEF Apply
        <4>3. minted' - minted = IF plan[r].from = None THEN plan[r].amount ELSE 0
          BY <4>1, <4>2
        <4> QED
          BY <2>2, <3>2, <4>3, WrittenSum
      <3>4. minted \in Int /\ minted' \in Int /\ DOMAIN bal = Wallet /\ DOMAIN bal' = Wallet
            /\ DOMAIN InitBal = Wallet
        BY DEF IInv, TypeOK
      <3>5. SumFunctionOnSet(bal, Wallet) \in Int /\ SumFunctionOnSet(InitBal, Wallet) \in Int
        <4>1. \A w \in Wallet : InitBal[w] \in Int
          OBVIOUS
        <4> QED
          BY <3>1, <4>1, FiniteWallets, SumInt
      <3>6. SumFunctionOnSet(bal, Wallet) = SumFunctionOnSet(InitBal, Wallet) + minted
        BY <3>4 DEF Conservation, SumFunction
      <3>7. SumFunctionOnSet(bal', Wallet) = SumFunctionOnSet(InitBal, Wallet) + minted'
        BY <3>3, <3>4, <3>5, <3>6
      <3> QED
        BY <3>4, <3>7 DEF Conservation, SumFunction
    <2>3. ASSUME NEW r \in Req, Request(r) \/ Statement(r) \/ Fault(r) PROVE Conservation'
      <3>1. CASE Commit(r) \/ LoseCommitAck(r)
        BY <2>2, <3>1 DEF Commit, LoseCommitAck
      <3>2. CASE ~Commit(r) /\ ~LoseCommitAck(r)
        <4>1. UNCHANGED <<bal, minted>>
          BY <2>3, <3>2 DEF Request, Statement, Fault, RequestTransfer, RequestMint, ReadSource, Debit,
             Credit, CreditTax, WriteFailedRow, DeadlockVictim, Abort, Crash, Throw
        <4> QED
          BY <2>1, <4>1
      <3> QED
        BY <3>1, <3>2
    <2> QED
      BY <2>1, <2>3 DEF Next, vars
  <1> QED
    BY <1>1, <1>2, LedgerInvariant, PTL DEF Spec

\* A success answer always stands on exactly one completed movement, and an
\* unfinished or refused request has left no row (executeTransferTx).
THEOREM AnswersAreTrue == Spec => []AnswerMatchesJournal
  <1>1. Init => AnswerMatchesJournal
    BY DEF Init, AnswerMatchesJournal
  <1>2. TypeOK /\ AnswerMatchesJournal /\ [Next]_vars => AnswerMatchesJournal'
    <2> SUFFICES ASSUME TypeOK, AnswerMatchesJournal, [Next]_vars
                 PROVE  AnswerMatchesJournal'
      OBVIOUS
    <2> USE DEF TypeOK, AnswerMatchesJournal, InTx, Goto
    <2>1. CASE UNCHANGED vars
      BY <2>1 DEF vars
    <2>2. ASSUME NEW r \in Req, Request(r) \/ Statement(r) \/ Fault(r)
          PROVE  AnswerMatchesJournal'
      <3>1. CASE Request(r)
        BY <3>1 DEF Request, RequestTransfer, RequestMint
      <3>2. CASE Throw(r) /\ pc[r] \in InTx
        BY <3>2 DEF Throw
      <3>3. CASE ReadSource(r)
        BY <3>2, <3>3 DEF ReadSource
      <3>4. CASE Debit(r)
        BY <3>2, <3>4 DEF Debit
      <3>5. CASE Credit(r)
        BY <3>5 DEF Credit
      <3>6. CASE CreditTax(r)
        BY <3>2, <3>6 DEF CreditTax
      <3>7. CASE Commit(r)
        BY <3>7 DEF Commit, Apply
      <3>8. CASE LoseCommitAck(r)
        BY <3>8 DEF LoseCommitAck, Apply
      <3>9. CASE WriteFailedRow(r)
        BY <3>9 DEF WriteFailedRow
      <3>10. CASE DeadlockVictim(r)
        BY <3>2, <3>10 DEF DeadlockVictim, Deadlocked, Blocked, Wanted
      <3>11. CASE Abort(r)
        BY <3>2, <3>11 DEF Abort
      <3>12. CASE Crash(r)
        BY <3>12 DEF Crash
      <3> QED
        BY <2>2, <3>1, <3>3, <3>4, <3>5, <3>6, <3>7, <3>8, <3>9, <3>10, <3>11, <3>12
           DEF Statement, Fault
    <2> QED
      BY <2>1, <2>2 DEF Next
  <1> QED
    BY <1>1, <1>2, TypeCorrect, PTL DEF Spec

-----------------------------------------------------------------------------
(* Ledger implements AtomicLedger. *)

FateMap == [r \in Req |-> Fate(r)]

\* Only r moves, without completing a row: its fate stays or becomes "dropped".
LEMMA QuietStep ==
  ASSUME TypeOK, TypeOK', NEW r \in Req, NEW label \in Labels, Goto(r, label),
         UNCHANGED bal,
         \A q \in Req : "completed" \in rows'[q] <=> "completed" \in rows[q],
         Fate(r) = "open" \/ label \in Ended \cup {"failing"}
  PROVE  Abstract!Drop(r) \/ UNCHANGED Abstract!vars
  <1>1. \A q \in Req \ {r} : Fate(q)' = Fate(q)
    BY DEF TypeOK, Fate, Goto
  <1>2. Fate(r)' = Fate(r) \/ (Fate(r) = "open" /\ Fate(r)' = "dropped")
    BY DEF TypeOK, Fate, Goto, Labels
  <1>3. CASE Fate(r)' = Fate(r)
    BY <1>1, <1>3 DEF Abstract!vars
  <1>4. CASE Fate(r) = "open" /\ Fate(r)' = "dropped"
    <2>1. FateMap' = [FateMap EXCEPT ![r] = "dropped"]
      BY <1>1, <1>4 DEF FateMap
    <2> QED
      BY <1>4, <2>1 DEF Abstract!Drop, FateMap
  <1> QED
    BY <1>2, <1>3, <1>4

\* COMMIT is the linearization point.
LEMMA CommitMoves ==
  ASSUME IInv, TypeOK', AnswerMatchesJournal, NEW r \in Req, pc[r] = "commit", Apply(r),
         NEW label \in {"paid", "failing"}, Goto(r, label)
  PROVE  Abstract!Move(r)
  <1> DEFINE p == plan[r]
  <1>1. /\ p \in Plan /\ p.to \in Wallet /\ p.from # p.to
        /\ p.taxTo = None \/ p.taxTo \notin {p.from, p.to}
        /\ p.taxTo = None <=> p.tax = 0
        /\ p.from = None => p.taxTo = None
        /\ p.amount \in Amounts /\ p.tax \in Nat /\ p.tax <= p.amount
    BY DEF IInv, PlanInv, TypeOK, InTx, Plan
  <1>2. \A w \in Wallet :
           /\ bal'[w] = bal[w] + delta[r][w]
           /\ bal[w] \in Int
           /\ delta[r][w] = (IF w = p.to THEN p.amount - p.tax ELSE 0)
                            + (IF w = p.taxTo THEN p.tax ELSE 0)
                            - (IF w = p.from THEN p.amount ELSE 0)
    BY DEF IInv, TypeOK, DeltaInv, Written, Net, Apply
  <1>3. bal' = [w \in Wallet |-> bal'[w]]
    BY DEF Apply
  <1>4. \A q \in Req \ {r} : Fate(q)' = Fate(q)
    BY DEF IInv, TypeOK, Fate, Goto, Apply
  <1>5. Fate(r) = "open" /\ Fate(r)' = "moved"
    BY DEF IInv, TypeOK, Fate, Goto, Apply, AnswerMatchesJournal, InTx, Ended
  <1>6. FateMap[r] = "open" /\ FateMap' = [FateMap EXCEPT ![r] = "moved"]
    BY <1>4, <1>5 DEF FateMap
  <1>7. \/ \E from, to \in Wallet, taxTo \in Wallet \cup {None}, amount \in Amounts :
             \E tax \in 0 .. amount : Abstract!Pay(from, to, taxTo, amount, tax)
        \/ \E to \in Wallet, amount \in Amounts : Abstract!Mint(to, amount)
    <2> HIDE DEF p
    <2>0. p.amount \in Int /\ p.amount > 0 /\ p.tax \in Int /\ None \notin Wallet
      <3>1. p.amount \in Nat \ {0} /\ p.tax \in Nat
        BY <1>1
      <3> QED
        BY <3>1
    <2>1. CASE p.from = None
      <3>0. p.tax = 0 /\ \A w \in Wallet : w # p.from /\ w # p.taxTo
        BY <1>1, <2>0, <2>1
      <3>1. \A w \in Wallet : bal'[w] = bal[w] + Abstract!Part(w, p.to, p.amount)
        BY <1>2, <2>0, <3>0 DEF Abstract!Part
      <3>2. Abstract!Mint(p.to, p.amount)
        BY <1>3, <3>1 DEF Abstract!Mint
      <3> QED
        BY <1>1, <3>2
    <2>2. CASE p.from # None
      <3>1. p.from \in Wallet /\ p.taxTo \in Wallet \cup {None} /\ p.tax \in 0 .. p.amount
        BY <1>1, <2>2 DEF Plan
      <3>2. delta[r][p.from] = -p.amount
        BY <1>1, <1>2, <2>0, <3>1
      <3>3. bal[p.from] >= p.amount
        <4>1. bal[p.from] + delta[r][p.from] >= 0 /\ bal[p.from] \in Int
          BY <1>2, <3>1 DEF IInv, LockInv
        <4> QED
          BY <2>0, <3>2, <4>1
      <3>4. \A w \in Wallet :
               bal'[w] = bal[w] - Abstract!Part(w, p.from, p.amount)
                                + Abstract!Part(w, p.to, p.amount - p.tax)
                                + Abstract!Part(w, p.taxTo, p.tax)
        <4> SUFFICES ASSUME NEW w \in Wallet
                     PROVE  bal[w] + delta[r][w] =
                              bal[w] - Abstract!Part(w, p.from, p.amount)
                                     + Abstract!Part(w, p.to, p.amount - p.tax)
                                     + Abstract!Part(w, p.taxTo, p.tax)
          BY <1>2
        <4>1. CASE w = p.from
          BY <1>1, <1>2, <2>0, <3>1, <4>1 DEF Abstract!Part
        <4>2. CASE w = p.to
          BY <1>1, <1>2, <2>0, <3>1, <4>2 DEF Abstract!Part
        <4>3. CASE w \notin {p.from, p.to}
          BY <1>2, <2>0, <4>3 DEF Abstract!Part
        <4> QED
          BY <4>1, <4>2, <4>3
      <3>5. p.from \notin {p.to, p.taxTo}
        BY <1>1, <3>1
      <3>6. bal' = [w \in Wallet |-> bal[w] - Abstract!Part(w, p.from, p.amount)
                                + Abstract!Part(w, p.to, p.amount - p.tax)
                                + Abstract!Part(w, p.taxTo, p.tax)]
        BY <1>3, <3>4
      <3>7. Abstract!Pay(p.from, p.to, p.taxTo, p.amount, p.tax)
        BY <1>1, <3>3, <3>5, <3>6 DEF Abstract!Pay
      <3> QED
        BY <1>1, <3>1, <3>7
    <2> QED
      BY <2>1, <2>2
  <1> QED
    BY <1>6, <1>7 DEF Abstract!Move, FateMap

\* Interleaved statements, lost commit answers, crashes and deadlock victims add
\* up to atomic all-or-nothing movements, at most one per request.
THEOREM LedgerRefinesAtomicLedger == Spec => IsAtomicLedger
  <1>1. Init => Abstract!Init
    BY DEF Init, Abstract!Init, Fate, Ended
  <1>2. IInv /\ TypeOK' /\ AnswerMatchesJournal /\ [Next]_vars
          => [Abstract!Next]_(Abstract!vars)
    <2> SUFFICES ASSUME IInv, TypeOK', AnswerMatchesJournal, [Next]_vars
                 PROVE  Abstract!Next \/ UNCHANGED Abstract!vars
      OBVIOUS
    <2>0. TypeOK
      BY DEF IInv
    <2>1. CASE UNCHANGED vars
      BY <2>1 DEF vars, Abstract!vars, Fate
    <2>2. ASSUME NEW r \in Req, Request(r) \/ Statement(r) \/ Fault(r)
          PROVE  Abstract!Move(r) \/ Abstract!Drop(r) \/ UNCHANGED Abstract!vars
      <3>1. CASE Commit(r) \/ LoseCommitAck(r)
        BY <3>1, CommitMoves DEF Commit, LoseCommitAck
      <3>2. ASSUME NEW label \in Labels, Goto(r, label), UNCHANGED <<bal, rows>>,
                   pc[r] \in {"new"} \cup InTx
            PROVE  Abstract!Drop(r) \/ UNCHANGED Abstract!vars
        <4>1. Fate(r) = "open"
          BY <3>2 DEF AnswerMatchesJournal, Fate, InTx, Ended
        <4> QED
          BY <2>0, <3>2, <4>1, QuietStep
      <3>3. CASE Throw(r) /\ pc[r] \in InTx
        BY <3>2, <3>3 DEF Throw, Labels
      <3>4. CASE Request(r)
        BY <3>2, <3>4 DEF Request, RequestTransfer, RequestMint, Labels, InTx, Ended
      <3>5. CASE ReadSource(r)
        BY <3>2, <3>3, <3>5 DEF ReadSource, Labels, InTx
      <3>6. CASE Debit(r)
        BY <3>2, <3>3, <3>6 DEF Debit, Labels, InTx
      <3>7. CASE Credit(r)
        BY <3>2, <3>7 DEF Credit, Labels, InTx
      <3>8. CASE CreditTax(r)
        BY <3>2, <3>3, <3>8 DEF CreditTax, Labels, InTx
      <3>9. CASE WriteFailedRow(r)
        <4>1. \A q \in Req : "completed" \in rows'[q] <=> "completed" \in rows[q]
          BY <2>0, <3>9 DEF TypeOK, WriteFailedRow
        <4> QED
          BY <2>0, <3>9, <4>1, QuietStep DEF WriteFailedRow, Labels, Ended
      <3>10. CASE DeadlockVictim(r)
        BY <3>3, <3>10 DEF DeadlockVictim, Deadlocked, Blocked, Wanted, InTx
      <3>11. CASE Abort(r)
        BY <3>3, <3>11 DEF Abort
      <3>12. CASE Crash(r)
        BY <2>0, <3>12, QuietStep DEF Crash, Labels, Ended
      <3> QED
        BY <2>2, <3>1, <3>4, <3>5, <3>6, <3>7, <3>8, <3>9, <3>10, <3>11, <3>12
           DEF Statement, Fault
    <2> QED
      BY <2>1, <2>2 DEF Next, Abstract!Next
  <1> QED
    BY <1>1, <1>2, LedgerInvariant, TypeCorrect, AnswersAreTrue, PTL
       DEF Spec, IsAtomicLedger, Abstract!Spec
=============================================================================
