------------------------- MODULE PeriodTicksProofs -------------------------
(***************************************************************************)
(* Theorems about PeriodTicks for any number of runs, citizens and weeks.  *)
(***************************************************************************)
EXTENDS PeriodTicks, FiniteSetTheorems, TLAPS

USE TickConstants

-----------------------------------------------------------------------------
(* Types. *)

LEMMA HalfEvenNat == \A n \in Nat : HalfEven(n) \in Nat
  BY DEF HalfEven

LEMMA PeriodAtPeriod ==
  ASSUME NEW s \in Schedule, NEW v \in 0 .. Weeks
  PROVE  PeriodAt(s, v) \in Period
  BY DEF Period

\* The key of an item a run has picked is a key of the charge tables.
LEMMA KeyOfKey ==
  ASSUME TypeOK, NEW r \in Run, job[r].who \in Item(job[r].tick)
  PROVE  KeyOf(r) \in Key
  <1> DEFINE j == job[r]
             s == IF j.tick = "subscription" THEN j.schedule[j.who] ELSE "MONTHLY"
  <1>1. j.tick \in Tick /\ j.week \in 0 .. Weeks /\ j.schedule \in [Sub -> Schedule]
    BY DEF TypeOK, Job
  <1>2. s \in Schedule
    BY <1>1 DEF Item, Schedule
  <1>3. PeriodAt(s, j.week) \in Period
    BY <1>1, <1>2, PeriodAtPeriod
  <1>4. j.who \in Citizen \cup Sub
    BY DEF Item
  <1> QED
    BY <1>1, <1>3, <1>4 DEF KeyOf, Key

LEMMA GotoType ==
  ASSUME job \in [Run -> Job], NEW r \in Run, NEW stage \in Stages, Goto(r, stage)
  PROVE  /\ job' \in [Run -> Job]
         /\ \A q \in Run \ {r} : job'[q] = job[q]
         /\ job'[r] = [job[r] EXCEPT !.stage = stage]
  <1>1. [job[r] EXCEPT !.stage = stage] \in Job
    BY ZenonT(60) DEF Job
  <1>2. job' = [job EXCEPT ![r] = [job[r] EXCEPT !.stage = stage]]
    BY DEF Goto
  <1> QED
    BY <1>1, <1>2

\* The next two facts speak of any record of Job, so that they stay first-order.
LEMMA CountedJob ==
  ASSUME NEW i \in Job, NEW res \in [Outcome -> Nat]
  PROVE  LET k == [i EXCEPT !.stage = "loop", !.who = None, !.result = res]
         IN  k \in Job /\ k.stage = "loop" /\ k.tick = i.tick /\ k.todo = i.todo
  BY DEF Job, Stages

LEMMA AmountType ==
  ASSUME NEW i \in Job, NEW fee \in Nat
  PROVE  LET j == [i EXCEPT !.amount = fee, !.stage = "insert"]
         IN  /\ j \in Job /\ j.stage = "insert" /\ j.todo = i.todo
             /\ j.who = i.who /\ j.tick = i.tick
  BY DEF Job, Stages

LEMMA CountType ==
  ASSUME job \in [Run -> Job], NEW r \in Run, NEW outcome \in Outcome,
         Count(r, outcome)
  PROVE  /\ job' \in [Run -> Job]
         /\ \A q \in Run \ {r} : job'[q] = job[q]
         /\ job'[r].stage = "loop"
         /\ job'[r].tick = job[r].tick /\ job'[r].todo = job[r].todo
  <1> DEFINE res == [job[r].result EXCEPT ![outcome] = @ + 1]
             k == [job[r] EXCEPT !.stage = "loop", !.who = None, !.result = res]
  <1>1. job' = [job EXCEPT ![r] = k]
    BY ZenonT(60) DEF Count
  <1>2. res \in [Outcome -> Nat]
    BY DEF Job
  <1> HIDE DEF res
  <1>3. k \in Job /\ k.stage = "loop" /\ k.tick = job[r].tick /\ k.todo = job[r].todo
    BY <1>2, CountedJob
  <1> QED
    BY <1>1, <1>3

-----------------------------------------------------------------------------
(* Each step preserves the inductive invariant. *)

LEMMA InitInv == Init => IInv
  <1> SUFFICES ASSUME Init PROVE IInv
    OBVIOUS
  <1>1. job \in [Run -> Job]
    <2> DEFINE j0 == [tick |-> CHOOSE tick \in Tick : TRUE, week |-> 0,
                      schedule |-> schedule, todo |-> {}, who |-> None, amount |-> 0,
                      stage |-> "queued", result |-> NoResult, attempts |-> 0]
    <2>1. (CHOOSE tick \in Tick : TRUE) \in Tick
      OBVIOUS
    <2>2. NoResult \in [Outcome -> Nat] /\ 0 \in 0 .. Weeks /\ "queued" \in Stages
      BY DEF NoResult, Stages
    <2>3. schedule \in [Sub -> Schedule]
      BY DEF Init
    <2>4. j0 \in Job
      BY <2>1, <2>2, <2>3 DEF Job
    <2> QED
      BY <2>4 DEF Init
  <1>2. TypeOK
    BY <1>1 DEF Init, TypeOK
  <1>3. ItemInv /\ ClaimInv /\ MovedInv /\ NoOverdraft
    BY DEF Init, ItemInv, ClaimInv, MovedInv, NoOverdraft, HasRow
  <1> QED
    BY <1>2, <1>3 DEF IInv

\* A run's locals change while its transaction, if any, stays as it is.
LEMMA LocalStep ==
  ASSUME IInv, NEW r \in Run, job' \in [Run -> Job],
         \A q \in Run \ {r} : job'[q] = job[q],
         UNCHANGED <<bal, rows, moved, claim, week, schedule>>,
         job'[r].todo \subseteq Item(job'[r].tick),
         job'[r].stage \in {"insert", "read", "leg"} => job'[r].who \in Item(job'[r].tick),
         \/ ~HasRow(job[r]) /\ ~HasRow(job'[r])
         \/ /\ HasRow(job[r]) /\ HasRow(job'[r])
            /\ job'[r].tick = job[r].tick /\ job'[r].who = job[r].who
            /\ job'[r].week = job[r].week /\ job'[r].schedule = job[r].schedule
  PROVE  IInv'
  <1> USE DEF IInv
  <1>1. TypeOK' /\ MovedInv' /\ NoOverdraft'
    BY DEF TypeOK, MovedInv, NoOverdraft
  <1>2. ItemInv'
    BY DEF ItemInv
  <1>3. ClaimInv'
    <2>1. \A q \in Run \ {r} : KeyOf(q)' = KeyOf(q)
      BY DEF KeyOf
    <2>2. HasRow(job[r]) => KeyOf(r)' = KeyOf(r)
      BY DEF KeyOf, HasRow
    <2> QED
      BY <2>1, <2>2 DEF ClaimInv
  <1> QED
    BY <1>1, <1>2, <1>3

\* A transaction that gives up returns its claim and goes on to the next item.
LEMMA FailStep ==
  ASSUME IInv, NEW r \in Run, NEW outcome \in Outcome, Fail(r, outcome)
  PROVE  IInv'
  <1> USE DEF IInv
  <1>1. /\ job' \in [Run -> Job]
        /\ \A q \in Run \ {r} : job'[q] = job[q]
        /\ job'[r].stage = "loop"
    BY CountType DEF Fail, TypeOK
  <1>2. job'[r].tick = job[r].tick /\ job'[r].todo = job[r].todo
    BY CountType DEF Fail, TypeOK
  <1>3. claim' = [claim EXCEPT ![r] = {}] /\ UNCHANGED <<bal, rows, moved, week, schedule>>
    BY DEF Fail, Release
  <1>4. TypeOK' /\ MovedInv' /\ NoOverdraft'
    BY <1>1, <1>3 DEF TypeOK, MovedInv, NoOverdraft
  <1>5. ItemInv'
    BY <1>1, <1>2 DEF ItemInv
  <1>6. ClaimInv'
    <2>1. \A q \in Run \ {r} : KeyOf(q)' = KeyOf(q) /\ claim'[q] = claim[q]
      BY <1>1, <1>3 DEF KeyOf, TypeOK
    <2>2. claim'[r] = {}
      BY <1>3 DEF TypeOK
    <2>3. ~HasRow(job'[r])
      BY <1>1 DEF HasRow
    <2> QED
      BY <1>1, <1>3, <2>1, <2>2, <2>3 DEF ClaimInv
  <1> QED
    BY <1>4, <1>5, <1>6

LEMMA StartStep ==
  ASSUME IInv, NEW r \in Run, NEW tick \in Tick, Start(r, tick)
  PROVE  IInv'
  <1> DEFINE j == [tick |-> tick, week |-> week, schedule |-> schedule,
                   todo |-> Item(tick), who |-> None, amount |-> 0, stage |-> "loop",
                   result |-> NoResult, attempts |-> job[r].attempts]
  <1>1. /\ week \in 0 .. Weeks /\ schedule \in [Sub -> Schedule] /\ job \in [Run -> Job]
        /\ NoResult \in [Outcome -> Nat] /\ "loop" \in Stages
        /\ Item(tick) \subseteq Citizen \cup Sub /\ job[r].attempts \in Nat
    BY DEF IInv, TypeOK, NoResult, Stages, Item, Job
  <1>2. j \in Job
    BY <1>1 DEF Job
  <1>3. job' = [job EXCEPT ![r] = j]
    BY DEF Start
  <1>4. ~HasRow(job[r])
    BY DEF Start, At, HasRow
  <1>5. job' \in [Run -> Job] /\ job'[r] = j /\ \A q \in Run \ {r} : job'[q] = job[q]
    BY <1>1, <1>2, <1>3
  <1>6. /\ job'[r].todo \subseteq Item(job'[r].tick)
        /\ job'[r].stage = "loop" /\ ~HasRow(job'[r])
    BY <1>5 DEF HasRow
  <1> QED
    BY <1>4, <1>5, <1>6, LocalStep DEF Start

LEMMA PickItemStep ==
  ASSUME IInv, NEW r \in Run, NEW who \in Citizen \cup Sub, PickItem(r, who)
  PROVE  IInv'
  <1> DEFINE i == job[r]
             stage == IF i.tick = "payroll" THEN "insert" ELSE "read"
             j == [i EXCEPT !.todo = @ \ {who}, !.who = who,
                            !.amount = SetAmount(i.tick), !.stage = stage]
  <1>1. job \in [Run -> Job] /\ i \in Job /\ i.tick \in Tick
    BY DEF IInv, TypeOK, Job
  <1>2. SetAmount(i.tick) \in Nat /\ stage \in Stages
    BY <1>1 DEF SetAmount, Stages
  <1> HIDE DEF stage
  <1>3. j \in Job
    BY <1>1, <1>2 DEF Job
  <1>4. job' = [job EXCEPT ![r] = j]
    BY DEF PickItem, stage
  <1>5. job' \in [Run -> Job] /\ job'[r] = j /\ \A q \in Run \ {r} : job'[q] = job[q]
    BY <1>1, <1>3, <1>4
  <1>6. ~HasRow(i) /\ i.todo \subseteq Item(i.tick) /\ who \in i.todo
    BY DEF PickItem, At, IInv, HasRow, ItemInv
  <1>7. j.todo = i.todo \ {who} /\ j.who = who /\ j.tick = i.tick /\ j.stage = stage
    BY <1>1 DEF Job
  <1>8. ~HasRow(j)
    BY <1>7 DEF stage, HasRow
  <1>9. /\ job'[r].todo \subseteq Item(job'[r].tick)
        /\ job'[r].stage \in {"insert", "read", "leg"} => job'[r].who \in Item(job'[r].tick)
        /\ ~HasRow(job[r]) /\ ~HasRow(job'[r])
    BY <1>5, <1>6, <1>7, <1>8
  <1>10. UNCHANGED <<bal, rows, moved, claim, week, schedule>>
    BY DEF PickItem
  <1> QED
    BY <1>5, <1>9, <1>10, LocalStep

LEMMA InsertRowStep ==
  ASSUME IInv, NEW r \in Run, InsertRow(r)
  PROVE  IInv'
  <1>1. CASE Fail(r, "duplicate")
    BY <1>1, FailStep DEF Outcome
  <1>2. ASSUME NEW stage \in {"read", "leg"}, Goto(r, stage), KeyOf(r) \notin rows,
               stage = "read" => job[r].tick = "payroll",
               claim' = [claim EXCEPT ![r] = {KeyOf(r)}],
               UNCHANGED <<bal, rows, moved, week, schedule>>
        PROVE  IInv'
    <2> USE <1>2 DEF IInv
    <2>1. job \in [Run -> Job] /\ stage \in Stages
      BY DEF TypeOK, Stages
    <2>2. /\ job' \in [Run -> Job]
          /\ \A q \in Run \ {r} : job'[q] = job[q]
          /\ job'[r] = [job[r] EXCEPT !.stage = stage]
      BY <2>1, GotoType
    <2>3. /\ job'[r].stage = stage /\ job'[r].tick = job[r].tick
          /\ job'[r].who = job[r].who /\ job'[r].week = job[r].week
          /\ job'[r].schedule = job[r].schedule /\ job'[r].todo = job[r].todo
      BY <2>1, <2>2 DEF Job
    <2>4. \A q \in Run : KeyOf(q)' = KeyOf(q)
      BY <2>2, <2>3 DEF KeyOf
    <2>5. job[r].who \in Item(job[r].tick)
      BY DEF InsertRow, At, ItemInv
    <2>6. KeyOf(r) \in Key
      BY <2>5, KeyOfKey
    <2>7. TypeOK' /\ MovedInv' /\ NoOverdraft'
      BY <2>2, <2>6 DEF TypeOK, MovedInv, NoOverdraft
    <2>8. ItemInv'
      BY <2>2, <2>3, <2>5 DEF ItemInv
    <2>9. ClaimInv'
      <3>1. \A q \in Run \ {r} : KeyOf(r) \notin claim[q]
        BY DEF InsertRow, NotInserting
      <3>2. claim \in [Run -> SUBSET Key]
        BY DEF TypeOK
      <3>3. claim'[r] = {KeyOf(r)} /\ \A q \in Run \ {r} : claim'[q] = claim[q]
        BY <3>2, <2>6
      <3>4. HasRow(job'[r])
        BY <2>3 DEF HasRow
      <3>5. ASSUME NEW q \in Run
            PROVE  /\ claim'[q] = IF HasRow(job'[q]) THEN {KeyOf(q)'} ELSE {}
                   /\ claim'[q] \cap rows = {}
        <4>1. CASE q = r
          BY <4>1, <2>4, <3>3, <3>4
        <4>2. CASE q # r
          BY <4>2, <2>2, <2>4, <3>3 DEF ClaimInv
        <4> QED
          BY <4>1, <4>2
      <3>6. \A q, p \in Run : q # p => claim'[q] \cap claim'[p] = {}
        BY <3>1, <3>3 DEF ClaimInv
      <3> QED
        BY <3>5, <3>6 DEF ClaimInv
    <2> QED
      BY <2>7, <2>8, <2>9
  <1> QED
    BY <1>1, <1>2 DEF InsertRow, Duplicate

LEMMA ReadPayrollStep ==
  ASSUME IInv, NEW r \in Run, ReadPayroll(r)
  PROVE  IInv'
  <1>1. CASE Fail(r, "short") \/ Fail(r, "errors")
    BY <1>1, FailStep DEF Outcome
  <1>2. CASE Goto(r, "leg") /\ UNCHANGED <<bal, rows, moved, claim, week, schedule>>
    <2>1. job \in [Run -> Job] /\ "leg" \in Stages
      BY DEF IInv, TypeOK, Stages
    <2>2. /\ job' \in [Run -> Job]
          /\ \A q \in Run \ {r} : job'[q] = job[q]
          /\ job'[r] = [job[r] EXCEPT !.stage = "leg"]
      BY <1>2, <2>1, GotoType
    <2>3. /\ job'[r].stage = "leg" /\ job'[r].tick = job[r].tick
          /\ job'[r].who = job[r].who /\ job'[r].week = job[r].week
          /\ job'[r].schedule = job[r].schedule /\ job'[r].todo = job[r].todo
      BY <2>1, <2>2 DEF Job
    <2>4. HasRow(job[r]) /\ HasRow(job'[r])
      BY <2>3 DEF ReadPayroll, At, HasRow
    <2>5. job[r].who \in Item(job[r].tick) /\ job[r].todo \subseteq Item(job[r].tick)
      BY DEF ReadPayroll, At, IInv, ItemInv
    <2> QED
      BY <1>2, <2>2, <2>3, <2>4, <2>5, LocalStep
  <1> QED
    BY <1>1, <1>2 DEF ReadPayroll

\* A role tax or a subscription is read before its row exists.
LEMMA ReadBeforeInsertStep ==
  ASSUME IInv, NEW r \in Run, job[r].tick # "payroll", At(r, "read"),
         UNCHANGED <<bal, rows, moved, claim, week, schedule>>,
         \/ \E fee \in Nat :
               job' = [job EXCEPT ![r].amount = fee, ![r].stage = "insert"]
         \/ Goto(r, "insert")
         \/ \E outcome \in Outcome : Count(r, outcome)
  PROVE  IInv'
  <1>1. job \in [Run -> Job] /\ "insert" \in Stages /\ ~HasRow(job[r])
    BY DEF IInv, TypeOK, Stages, At, HasRow
  <1>2. job[r].who \in Item(job[r].tick) /\ job[r].todo \subseteq Item(job[r].tick)
    BY DEF At, IInv, ItemInv
  <1>3. ASSUME NEW fee \in Nat,
               job' = [job EXCEPT ![r].amount = fee, ![r].stage = "insert"]
        PROVE  IInv'
    <2> DEFINE j == [job[r] EXCEPT !.amount = fee, !.stage = "insert"]
    <2>1. /\ j \in Job /\ j.todo = job[r].todo /\ j.who = job[r].who
          /\ j.tick = job[r].tick /\ j.stage = "insert"
      BY <1>1, AmountType
    <2>2. job' = [job EXCEPT ![r] = j]
      BY <1>1, <1>3
    <2> HIDE DEF j
    <2>3. job' \in [Run -> Job] /\ job'[r] = j /\ \A q \in Run \ {r} : job'[q] = job[q]
      BY <1>1, <2>1, <2>2
    <2>4. ~HasRow(job'[r])
      BY <2>1, <2>3 DEF HasRow
    <2> QED
      BY <1>1, <1>2, <2>1, <2>3, <2>4, LocalStep
  <1>4. CASE Goto(r, "insert")
    <2>1. /\ job' \in [Run -> Job]
          /\ \A q \in Run \ {r} : job'[q] = job[q]
          /\ job'[r] = [job[r] EXCEPT !.stage = "insert"]
      BY <1>1, <1>4, GotoType
    <2>2. /\ job'[r].stage = "insert" /\ job'[r].tick = job[r].tick
          /\ job'[r].who = job[r].who /\ job'[r].todo = job[r].todo
      BY <1>1, <2>1 DEF Job
    <2>3. ~HasRow(job'[r])
      BY <2>2 DEF HasRow
    <2> QED
      BY <1>1, <1>2, <2>1, <2>2, <2>3, LocalStep
  <1>5. ASSUME NEW outcome \in Outcome, Count(r, outcome)
        PROVE  IInv'
    <2>1. /\ job' \in [Run -> Job]
          /\ \A q \in Run \ {r} : job'[q] = job[q]
          /\ job'[r].stage = "loop"
      BY <1>1, <1>5, CountType
    <2>2. job'[r].tick = job[r].tick /\ job'[r].todo = job[r].todo
      BY <1>1, <1>5, CountType
    <2>3. ~HasRow(job'[r])
      BY <2>1 DEF HasRow
    <2> QED
      BY <1>1, <1>2, <2>1, <2>2, <2>3, LocalStep
  <1> QED
    BY <1>3, <1>4, <1>5

LEMMA ReadRoleTaxStep ==
  ASSUME IInv, NEW r \in Run, ReadRoleTax(r)
  PROVE  IInv'
  <1> DEFINE fee == HalfEven(bal[job[r].who] * RoleTaxRate)
  <1>1. job[r].tick = "role_tax" /\ At(r, "read")
    BY DEF ReadRoleTax
  <1>2. job[r].who \in Wallet
    BY <1>1 DEF IInv, ItemInv, At, Item
  <1>3. bal[job[r].who] * RoleTaxRate \in Nat
    <2>1. bal[job[r].who] \in Nat
      BY <1>2 DEF IInv, TypeOK, NoOverdraft
    <2>2. RoleTaxRate \in Nat
      OBVIOUS
    <2> QED
      BY <2>1, <2>2
  <1>4. fee \in Nat
    BY <1>3, HalfEvenNat
  <1> HIDE DEF fee
  <1>5. \/ job' = [job EXCEPT ![r].amount = fee, ![r].stage = "insert"]
        \/ Count(r, "untaxed")
    BY DEF ReadRoleTax, fee
  <1>6. UNCHANGED <<bal, rows, moved, claim, week, schedule>>
    BY DEF ReadRoleTax
  <1> QED
    BY <1>1, <1>4, <1>5, <1>6, ReadBeforeInsertStep DEF Outcome

LEMMA ReadSubscriptionStep ==
  ASSUME IInv, NEW r \in Run, ReadSubscription(r)
  PROVE  IInv'
  <1>1. /\ job[r].tick = "subscription" /\ At(r, "read")
        /\ Goto(r, "insert") \/ Count(r, "short")
        /\ UNCHANGED <<bal, rows, moved, claim, week, schedule>>
    BY DEF ReadSubscription
  <1> QED
    BY <1>1, ReadBeforeInsertStep DEF Outcome

\* The parties of a picked item are two different wallets.
LEMMA Parties ==
  ASSUME NEW j \in Job, j.who \in Item(j.tick)
  PROVE  Payer(j) \in Wallet /\ Payee(j) \in Wallet /\ Payer(j) # Payee(j)
  BY DEF Job, Item, Payer, Payee

\* The only step that commits: the row, the movement and both balances.
LEMMA ChargeStep ==
  ASSUME IInv, NEW r \in Run, Charge(r)
  PROVE  IInv'
  <1>1. CASE Fail(r, "short")
    BY <1>1, FailStep DEF Outcome
  <1>2. ASSUME CanPay(job[r]),
               bal' = [bal EXCEPT ![Payer(job[r])] = @ - job[r].amount,
                                  ![Payee(job[r])] = @ + job[r].amount],
               moved' = [moved EXCEPT ![KeyOf(r)] = @ + 1],
               rows' = rows \cup claim[r],
               claim' = [claim EXCEPT ![r] = {}],
               \/ Goto(r, "emit")
               \/ \E outcome \in Outcome : Count(r, outcome),
               UNCHANGED <<week, schedule>>
        PROVE  IInv'
    <2> USE <1>2 DEF IInv
    <2>1. job \in [Run -> Job] /\ job[r] \in Job /\ job[r].amount \in Nat
      BY DEF TypeOK, Job
    <2>2. job[r].stage = "leg" /\ job[r].who \in Item(job[r].tick)
      BY DEF Charge, At, ItemInv
    <2>3. KeyOf(r) \in Key /\ claim[r] = {KeyOf(r)} /\ KeyOf(r) \notin rows
      BY <2>2, KeyOfKey DEF ClaimInv, HasRow
    <2>4. /\ job' \in [Run -> Job]
          /\ \A q \in Run \ {r} : job'[q] = job[q]
          /\ job'[r].stage \in {"emit", "loop"}
          /\ job'[r].tick = job[r].tick /\ job'[r].todo = job[r].todo
      <3>1. CASE Goto(r, "emit")
        <4>1. /\ job' \in [Run -> Job]
              /\ \A q \in Run \ {r} : job'[q] = job[q]
              /\ job'[r] = [job[r] EXCEPT !.stage = "emit"]
          BY <2>1, <3>1, GotoType DEF Stages
        <4> QED
          BY <2>1, <4>1 DEF Job
      <3>2. CASE \E outcome \in Outcome : Count(r, outcome)
        BY <2>1, <3>2, CountType
      <3> QED
        BY <3>1, <3>2
    <2>5. bal' \in [Wallet -> Int] /\ NoOverdraft'
      <3>1. /\ Payer(job[r]) \in Wallet /\ Payee(job[r]) \in Wallet
            /\ Payer(job[r]) # Payee(job[r])
        BY <2>1, <2>2, Parties
      <3>2. bal \in [Wallet -> Int] /\ \A w \in Wallet : bal[w] >= 0
        BY DEF TypeOK, NoOverdraft
      <3>3. bal[Payer(job[r])] >= job[r].amount
        BY DEF CanPay
      <3> QED
        BY <2>1, <3>1, <3>2, <3>3 DEF NoOverdraft
    <2>6. TypeOK'
      <3>1. rows' \subseteq Key /\ week' \in 0 .. Weeks /\ schedule' \in [Sub -> Schedule]
        BY <2>3 DEF TypeOK
      <3>2. moved' \in [Key -> Nat]
        BY <2>3 DEF TypeOK
      <3>3. claim' \in [Run -> SUBSET Key]
        BY DEF TypeOK
      <3> QED
        BY <2>4, <2>5, <3>1, <3>2, <3>3 DEF TypeOK
    <2>7. ItemInv'
      BY <2>4 DEF ItemInv
    <2>8. MovedInv'
      BY <2>3 DEF MovedInv, TypeOK
    <2>9. ClaimInv'
      <3>1. claim \in [Run -> SUBSET Key]
        BY DEF TypeOK
      <3>2. claim'[r] = {} /\ \A q \in Run \ {r} : claim'[q] = claim[q]
        BY <3>1
      <3>3. \A q \in Run \ {r} : KeyOf(q)' = KeyOf(q)
        BY <2>4 DEF KeyOf
      <3>4. ~HasRow(job'[r])
        BY <2>4 DEF HasRow
      <3>5. \A q \in Run \ {r} : claim[q] \cap claim[r] = {}
        BY DEF ClaimInv
      <3>6. ASSUME NEW q \in Run
            PROVE  /\ claim'[q] = IF HasRow(job'[q]) THEN {KeyOf(q)'} ELSE {}
                   /\ claim'[q] \cap rows' = {}
        <4>1. CASE q = r
          BY <4>1, <3>2, <3>4
        <4>2. CASE q # r
          <5>1. /\ claim[q] = IF HasRow(job[q]) THEN {KeyOf(q)} ELSE {}
                /\ claim[q] \cap rows = {}
            BY DEF ClaimInv
          <5>2. claim'[q] \cap rows' = {}
            BY <4>2, <5>1, <3>2, <3>5
          <5>3. claim'[q] = claim[q] /\ job'[q] = job[q] /\ KeyOf(q)' = KeyOf(q)
            BY <4>2, <2>4, <3>2, <3>3
          <5> QED
            BY <5>1, <5>2, <5>3
        <4> QED
          BY <4>1, <4>2
      <3>7. \A q, p \in Run : q # p => claim'[q] \cap claim'[p] = {}
        BY <3>2 DEF ClaimInv
      <3> QED
        BY <3>6, <3>7 DEF ClaimInv
    <2> QED
      BY <2>5, <2>6, <2>7, <2>8, <2>9
  <1> QED
    BY <1>1, <1>2 DEF Charge, Outcome

\* Emitting, finishing and dying leave no transaction open.
LEMMA EmitStep ==
  ASSUME IInv, NEW r \in Run, NEW ok \in BOOLEAN, Emit(r, ok)
  PROVE  IInv'
  <1>1. PICK outcome \in Outcome : Count(r, outcome)
    BY DEF Emit, Outcome
  <1>2. job \in [Run -> Job] /\ job[r].todo \subseteq Item(job[r].tick) /\ ~HasRow(job[r])
    BY DEF IInv, TypeOK, ItemInv, Emit, At, HasRow
  <1>3. /\ job' \in [Run -> Job]
        /\ \A q \in Run \ {r} : job'[q] = job[q]
        /\ job'[r].stage = "loop"
        /\ job'[r].tick = job[r].tick /\ job'[r].todo = job[r].todo
    BY <1>1, <1>2, CountType
  <1>4. ~HasRow(job'[r])
    BY <1>3 DEF HasRow
  <1> QED
    BY <1>2, <1>3, <1>4, LocalStep DEF Emit

LEMMA FinishStep ==
  ASSUME IInv, NEW r \in Run, Finish(r)
  PROVE  IInv'
  <1>1. job \in [Run -> Job] /\ job[r].todo \subseteq Item(job[r].tick) /\ ~HasRow(job[r])
    BY DEF IInv, TypeOK, ItemInv, Finish, At, HasRow
  <1>2. /\ job' \in [Run -> Job]
        /\ \A q \in Run \ {r} : job'[q] = job[q]
        /\ job'[r] = [job[r] EXCEPT !.stage = "done"]
    BY <1>1, GotoType DEF Finish, Stages
  <1>3. /\ job'[r].stage = "done" /\ job'[r].tick = job[r].tick
        /\ job'[r].todo = job[r].todo
    BY <1>1, <1>2 DEF Job
  <1>4. ~HasRow(job'[r])
    BY <1>3 DEF HasRow
  <1> QED
    BY <1>1, <1>2, <1>3, <1>4, LocalStep DEF Finish

LEMMA DeadJob ==
  ASSUME NEW i \in Job, NEW n \in Nat
  PROVE  LET j == [i EXCEPT !.stage = "dead", !.attempts = n]
         IN  j \in Job /\ j.stage = "dead" /\ j.tick = i.tick /\ j.todo = i.todo
  BY DEF Job, Stages

LEMMA CrashStep ==
  ASSUME IInv, NEW r \in Run, Crash(r)
  PROVE  IInv'
  <1> DEFINE j == [job[r] EXCEPT !.stage = "dead", !.attempts = @ + 1]
  <1>1. job \in [Run -> Job] /\ job[r] \in Job /\ job[r].attempts + 1 \in Nat
    BY DEF IInv, TypeOK, Job
  <1>2. j \in Job /\ j.stage = "dead" /\ j.tick = job[r].tick /\ j.todo = job[r].todo
    BY <1>1, DeadJob
  <1>3. job' = [job EXCEPT ![r] = j]
    BY DEF Crash
  <1> HIDE DEF j
  <1>4. job' \in [Run -> Job] /\ job'[r] = j /\ \A q \in Run \ {r} : job'[q] = job[q]
    BY <1>1, <1>2, <1>3
  <1>5. claim' = [claim EXCEPT ![r] = {}] /\ UNCHANGED <<bal, rows, moved, week, schedule>>
    BY DEF Crash, Release
  <1>6. TypeOK' /\ MovedInv' /\ NoOverdraft'
    BY <1>4, <1>5 DEF IInv, TypeOK, MovedInv, NoOverdraft
  <1>7. ItemInv'
    BY <1>2, <1>4 DEF IInv, ItemInv
  <1>8. ClaimInv'
    <2>1. \A q \in Run \ {r} : KeyOf(q)' = KeyOf(q) /\ claim'[q] = claim[q]
      BY <1>4, <1>5 DEF KeyOf, IInv, TypeOK
    <2>2. claim'[r] = {}
      BY <1>5 DEF IInv, TypeOK
    <2>3. ~HasRow(job'[r])
      BY <1>2, <1>4 DEF HasRow
    <2> QED
      BY <1>4, <1>5, <2>1, <2>2, <2>3 DEF IInv, ClaimInv
  <1> QED
    BY <1>6, <1>7, <1>8 DEF IInv

\* What the rest of the State does touches no run.
LEMMA EnvironmentStep ==
  ASSUME IInv,
         \/ \E from, to \in Wallet : OtherTransfer(from, to)
         \/ PassWeek
         \/ \E s \in Sub, to \in Schedule : Reschedule(s, to)
  PROVE  IInv'
  <1> USE DEF IInv
  <1>1. ItemInv' /\ ClaimInv' /\ MovedInv'
    BY DEF OtherTransfer, PassWeek, Reschedule, ItemInv, ClaimInv, MovedInv, KeyOf
  <1>2. TypeOK' /\ NoOverdraft'
    <2>1. CASE \E from, to \in Wallet : OtherTransfer(from, to)
      BY <2>1 DEF OtherTransfer, TypeOK, NoOverdraft
    <2>2. CASE PassWeek
      BY <2>2 DEF PassWeek, TypeOK, NoOverdraft
    <2>3. CASE \E s \in Sub, to \in Schedule : Reschedule(s, to)
      BY <2>3 DEF Reschedule, TypeOK, NoOverdraft
    <2> QED
      BY <2>1, <2>2, <2>3
  <1> QED
    BY <1>1, <1>2

LEMMA NextInv == IInv /\ [Next]_vars => IInv'
  <1> SUFFICES ASSUME IInv, [Next]_vars PROVE IInv'
    OBVIOUS
  <1>1. ASSUME NEW r \in Run, \E tick \in Tick : Start(r, tick)
        PROVE  IInv'
    BY <1>1, StartStep
  <1>2. ASSUME NEW r \in Run, Step(r)
        PROVE  IInv'
    BY <1>2, PickItemStep, InsertRowStep, ReadPayrollStep, ReadRoleTaxStep,
       ReadSubscriptionStep, ChargeStep, EmitStep, FinishStep DEF Step
  <1>3. ASSUME NEW r \in Run, Abort(r)
        PROVE  IInv'
    BY <1>3, FailStep DEF Abort, Outcome
  <1>4. ASSUME NEW r \in Run, Crash(r)
        PROVE  IInv'
    BY <1>4, CrashStep
  <1>5. CASE \/ \E from, to \in Wallet : OtherTransfer(from, to)
             \/ PassWeek
             \/ \E s \in Sub, to \in Schedule : Reschedule(s, to)
    BY <1>5, EnvironmentStep
  <1>6. CASE UNCHANGED vars
    BY <1>6 DEF vars, IInv, TypeOK, ItemInv, ClaimInv, MovedInv, NoOverdraft, KeyOf
  <1> QED
    BY <1>1, <1>2, <1>3, <1>4, <1>5, <1>6 DEF Next

-----------------------------------------------------------------------------
(* The result of a run. *)

Total(result) == result["paid"] + result["duplicate"] + result["short"] + result["errors"] + result["untaxed"]
AtItem == {"insert", "read", "leg", "emit"}

\* Of a run's list every item is still to do, in the works or counted once.
Accounted(j) ==
  j.stage \notin {"queued", "dead"} =>
    /\ Total(j.result) + Cardinality(j.todo) + (IF j.stage \in AtItem THEN 1 ELSE 0)
         = Cardinality(Item(j.tick))
    /\ j.stage = "done" => j.todo = {}

CountInv == \A r \in Run : Accounted(job[r])

\* What a count of the items means: the lists are finite.
LEMMA ListSizes ==
  ASSUME NEW i \in Job, i.todo \subseteq Item(i.tick)
  PROVE  /\ IsFiniteSet(i.todo) /\ Cardinality(i.todo) \in Nat
         /\ Cardinality(Item(i.tick)) \in Nat /\ Total(i.result) \in Nat
  <1>1. IsFiniteSet(Item(i.tick))
    BY DEF Item
  <1>2. IsFiniteSet(i.todo)
    BY <1>1, FS_Subset
  <1>3. \A o \in Outcome : i.result[o] \in Nat
    BY DEF Job
  <1>4. Total(i.result) \in Nat
    BY <1>3 DEF Total, Outcome
  <1> QED
    BY <1>1, <1>2, <1>4, FS_CardinalityType

LEMMA CountedOnce ==
  ASSUME NEW i \in Job, i.todo \subseteq Item(i.tick), Accounted(i), i.stage \in AtItem,
         NEW outcome \in Outcome,
         NEW k, k = [i EXCEPT !.stage = "loop", !.who = None, !.result[outcome] = @ + 1]
  PROVE  Accounted(k)
  <1> DEFINE res == [i.result EXCEPT ![outcome] = @ + 1]
  <1>1. i.result \in [Outcome -> Nat]
    BY DEF Job
  <1>2. Total(res) = Total(i.result) + 1
    BY <1>1 DEF Total, Outcome
  <1>3. res \in [Outcome -> Nat] /\ k = [i EXCEPT !.stage = "loop", !.who = None, !.result = res]
    BY <1>1
  <1> HIDE DEF res
  <1>4. k.stage = "loop" /\ k.tick = i.tick /\ k.todo = i.todo /\ k.result = res
    BY <1>3 DEF Job
  <1>5. Total(i.result) + Cardinality(i.todo) + 1 = Cardinality(Item(i.tick))
    BY DEF Accounted, AtItem
  <1> QED
    BY <1>2, <1>4, <1>5, ListSizes DEF Accounted, AtItem

\* Every way to end the work on an item counts it under one outcome.
LEMMA CountStep ==
  ASSUME IInv, CountInv, NEW r \in Run, NEW outcome \in Outcome, Count(r, outcome),
         job[r].stage \in AtItem
  PROVE  CountInv'
  <1> DEFINE k == [job[r] EXCEPT !.stage = "loop", !.who = None, !.result[outcome] = @ + 1]
  <1>1. job \in [Run -> Job] /\ job[r] \in Job /\ job[r].todo \subseteq Item(job[r].tick) /\ Accounted(job[r])
    BY DEF IInv, TypeOK, ItemInv, CountInv
  <1>2. job' = [job EXCEPT ![r] = k]
    BY DEF Count
  <1>3. Accounted(k)
    BY <1>1, CountedOnce
  <1> HIDE DEF k
  <1>4. \A q \in Run : job'[q] = IF q = r THEN k ELSE job[q]
    BY <1>1, <1>2
  <1> QED
    BY <1>3, <1>4 DEF CountInv

\* The work on an item goes on.
LEMMA GoesOnStep ==
  ASSUME IInv, CountInv, NEW r \in Run, NEW k,
         job' = [job EXCEPT ![r] = k],
         job[r].stage \in AtItem, k.stage \in AtItem,
         k.tick = job[r].tick, k.todo = job[r].todo, k.result = job[r].result
  PROVE  CountInv'
  <1>1. \A q \in Run : job'[q] = IF q = r THEN k ELSE job[q]
    BY DEF IInv, TypeOK
  <1>2. Accounted(k)
    BY DEF CountInv, Accounted, AtItem
  <1> QED
    BY <1>1, <1>2 DEF CountInv

LEMMA GotoItemStep ==
  ASSUME IInv, CountInv, NEW r \in Run, NEW stage \in AtItem, Goto(r, stage), job[r].stage \in AtItem
  PROVE  CountInv'
  <1> DEFINE k == [job[r] EXCEPT !.stage = stage]
  <1>1. /\ k.stage = stage /\ k.tick = job[r].tick /\ k.todo = job[r].todo
        /\ k.result = job[r].result
    BY DEF IInv, TypeOK, Job
  <1>2. job' = [job EXCEPT ![r] = k]
    BY DEF Goto
  <1> HIDE DEF k
  <1> QED
    BY <1>1, <1>2, GoesOnStep

LEMMA PickedOnce ==
  ASSUME IInv, CountInv, NEW r \in Run, NEW who \in Citizen \cup Sub, PickItem(r, who)
  PROVE  CountInv'
  <1> DEFINE i == job[r]
             stage == IF i.tick = "payroll" THEN "insert" ELSE "read"
             k == [i EXCEPT !.todo = @ \ {who}, !.who = who, !.amount = SetAmount(i.tick), !.stage = stage]
  <1>1. job \in [Run -> Job] /\ i \in Job /\ i.todo \subseteq Item(i.tick) /\ Accounted(i)
    BY DEF IInv, TypeOK, ItemInv, CountInv
  <1>2. i.stage = "loop" /\ who \in i.todo /\ job' = [job EXCEPT ![r] = k]
    BY DEF PickItem, At
  <1>3. stage \in AtItem
    BY DEF AtItem
  <1> HIDE DEF stage
  <1>4. k.stage = stage /\ k.tick = i.tick /\ k.todo = i.todo \ {who} /\ k.result = i.result
    BY <1>1 DEF Job
  <1>5. /\ Cardinality(i.todo \ {who}) = Cardinality(i.todo) - 1
        /\ Cardinality(i.todo) \in Nat /\ Cardinality(Item(i.tick)) \in Nat /\ Total(i.result) \in Nat
    <2>1. /\ IsFiniteSet(i.todo) /\ Cardinality(i.todo) \in Nat
          /\ Cardinality(Item(i.tick)) \in Nat /\ Total(i.result) \in Nat
      <3> HIDE DEF k
      <3> QED
        BY <1>1, ListSizes
    <2> DEFINE todo == i.todo
    <2>2. Cardinality(todo \ {who}) = Cardinality(todo) - 1
      <3>1. IsFiniteSet(todo) /\ who \in todo
        BY <1>2, <2>1
      <3> HIDE DEF todo
      <3> QED
        BY <3>1, FS_RemoveElement
    <2> QED
      BY <2>1, <2>2
  <1>6. Total(i.result) + Cardinality(i.todo) + 0 = Cardinality(Item(i.tick))
    BY <1>1, <1>2 DEF Accounted, AtItem
  <1> HIDE DEF k
  <1>7. Accounted(k)
    <2>1. k.stage # "done"
      BY <1>3, <1>4 DEF AtItem
    <2> QED
      BY <1>3, <1>4, <1>5, <1>6, <2>1 DEF Accounted
  <1>8. \A q \in Run : job'[q] = IF q = r THEN k ELSE job[q]
    BY <1>1, <1>2
  <1> QED
    BY <1>1, <1>7, <1>8 DEF CountInv

\* A run that starts, ends or dies.
LEMMA RunAccounts ==
  ASSUME IInv, CountInv, NEW r \in Run,
         (\E tick \in Tick : Start(r, tick)) \/ Finish(r) \/ Crash(r)
  PROVE  CountInv'
  <1>1. job \in [Run -> Job] /\ job[r] \in Job /\ Accounted(job[r])
    BY DEF IInv, TypeOK, CountInv
  <1>2. ASSUME NEW tick \in Tick, Start(r, tick) PROVE CountInv'
    <2> DEFINE k == [tick |-> tick, week |-> week, schedule |-> schedule,
                     todo |-> Item(tick), who |-> None, amount |-> 0,
                     stage |-> "loop", result |-> NoResult, attempts |-> job[r].attempts]
    <2>1. job' = [job EXCEPT ![r] = k]
      BY <1>2 DEF Start
    <2>2. Total(NoResult) = 0
      BY DEF Total, NoResult, Outcome
    <2>3. IsFiniteSet(Item(tick))
      BY DEF Item
    <2>4. Cardinality(Item(tick)) \in Nat
      BY <2>3, FS_CardinalityType
    <2>5. Accounted(k)
      BY <2>2, <2>4 DEF Accounted, AtItem
    <2> HIDE DEF k
    <2> QED
      BY <1>1, <2>1, <2>5 DEF CountInv
  <1>3. CASE Finish(r)
    <2> DEFINE k == [job[r] EXCEPT !.stage = "done"]
    <2>1. job' = [job EXCEPT ![r] = k] /\ job[r].stage = "loop" /\ job[r].todo = {}
      BY <1>3 DEF Finish, Goto, At
    <2>2. k.stage = "done" /\ k.tick = job[r].tick /\ k.todo = job[r].todo /\ k.result = job[r].result
      BY <1>1 DEF Job
    <2> HIDE DEF k
    <2>3. Accounted(k)
      BY <1>1, <2>1, <2>2 DEF Accounted, AtItem
    <2> QED
      BY <1>1, <2>1, <2>3 DEF CountInv
  <1>4. CASE Crash(r)
    <2> DEFINE k == [job[r] EXCEPT !.stage = "dead", !.attempts = @ + 1]
    <2>1. job' = [job EXCEPT ![r] = k]
      BY <1>4 DEF Crash
    <2>2. k.stage = "dead"
      BY <1>1 DEF Job
    <2> HIDE DEF k
    <2>3. Accounted(k)
      BY <2>2 DEF Accounted
    <2> QED
      BY <1>1, <2>1, <2>3 DEF CountInv
  <1> QED
    BY <1>2, <1>3, <1>4

\* Each branch of an item's work either goes on with it or counts it once.
LEMMA ItemAccounts ==
  ASSUME IInv, CountInv, NEW r \in Run, Step(r) \/ Abort(r)
  PROVE  CountInv'
  <1>1. ASSUME NEW outcome \in Outcome, Fail(r, outcome), job[r].stage \in AtItem PROVE CountInv'
    BY <1>1, CountStep DEF Fail
  <1>2. CASE \E who \in Citizen \cup Sub : PickItem(r, who)
    BY <1>2, PickedOnce
  <1>3. CASE InsertRow(r)
    <2> DEFINE stage == IF job[r].tick = "payroll" THEN "read" ELSE "leg"
    <2>1. job[r].stage \in AtItem /\ stage \in AtItem
      BY <1>3 DEF InsertRow, At, AtItem
    <2>2. Fail(r, "duplicate") \/ Goto(r, stage)
      BY <1>3 DEF InsertRow
    <2> HIDE DEF stage
    <2> QED
      BY <1>1, <2>1, <2>2, GotoItemStep DEF Outcome
  <1>4. CASE ReadPayroll(r)
    <2>1. job[r].stage \in AtItem /\ (Fail(r, "short") \/ Fail(r, "errors") \/ Goto(r, "leg"))
      BY <1>4 DEF ReadPayroll, At, AtItem
    <2> QED
      BY <1>1, <2>1, GotoItemStep DEF Outcome, AtItem
  <1>5. CASE ReadRoleTax(r)
    <2> DEFINE fee == HalfEven(bal[job[r].who] * RoleTaxRate)
               k == [job[r] EXCEPT !.amount = fee, !.stage = "insert"]
    <2>1. job[r].stage \in AtItem /\ (job' = [job EXCEPT ![r] = k] \/ Count(r, "untaxed"))
      BY <1>5 DEF ReadRoleTax, At, AtItem
    <2> HIDE DEF fee
    <2>2. /\ k.stage = "insert" /\ k.tick = job[r].tick /\ k.todo = job[r].todo
          /\ k.result = job[r].result
      BY DEF IInv, TypeOK, Job
    <2> HIDE DEF k
    <2> QED
      BY <2>1, <2>2, CountStep, GoesOnStep DEF Outcome, AtItem
  <1>6. CASE ReadSubscription(r)
    <2>1. job[r].stage \in AtItem /\ (Goto(r, "insert") \/ Count(r, "short"))
      BY <1>6 DEF ReadSubscription, At, AtItem
    <2> QED
      BY <2>1, CountStep, GotoItemStep DEF Outcome, AtItem
  <1>7. CASE Charge(r)
    <2>1. job[r].stage \in AtItem
      BY <1>7 DEF Charge, At, AtItem
    <2>2. Goto(r, "emit") \/ Count(r, "paid") \/ Count(r, "errors") \/ Fail(r, "short")
      BY <1>7 DEF Charge
    <2> QED
      BY <1>1, <2>1, <2>2, CountStep, GotoItemStep DEF Outcome, AtItem
  <1>8. CASE \E ok \in BOOLEAN : Emit(r, ok)
    <2>1. job[r].stage \in AtItem /\ (Count(r, "paid") \/ Count(r, "errors"))
      BY <1>8 DEF Emit, At, AtItem
    <2> QED
      BY <2>1, CountStep DEF Outcome
  <1>9. CASE Abort(r)
    BY <1>1, <1>9 DEF Abort, At, AtItem, Outcome
  <1> QED
    BY <1>2, <1>3, <1>4, <1>5, <1>6, <1>7, <1>8, <1>9, RunAccounts DEF Step

LEMMA CountNext ==
  ASSUME IInv, CountInv, [Next]_vars PROVE CountInv'
  <1>1. CASE UNCHANGED job
    BY <1>1 DEF CountInv
  <1>2. CASE \E r \in Run : \/ \E tick \in Tick : Start(r, tick)
                           \/ Step(r) \/ Abort(r) \/ Crash(r)
    BY <1>2, ItemAccounts, RunAccounts
  <1>3. ASSUME Next PROVE UNCHANGED job \/ \E r \in Run : \/ \E tick \in Tick : Start(r, tick)
                                                         \/ Step(r) \/ Abort(r) \/ Crash(r)
    BY <1>3 DEF Next, OtherTransfer, PassWeek, Reschedule
  <1> QED
    BY <1>1, <1>2, <1>3 DEF vars

-----------------------------------------------------------------------------
(* The theorems. *)

\* Every reachable state of the periodic jobs satisfies the inductive invariant:
\* an open transaction holds exactly the charge row of the item it works on.
THEOREM TicksInvariant == Spec => []IInv
  BY InitInv, NextInv, PTL DEF Spec

\* However runs overlap, crash and restart, a charge row never pays twice: the
\* unique indexes of payroll, role tax and subscription charges suffice.
THEOREM PaidAtMostOnce == Spec => []AtMostOncePerPeriod
  <1>1. IInv => AtMostOncePerPeriod
    BY DEF IInv, MovedInv, AtMostOncePerPeriod
  <1> QED
    BY <1>1, TicksInvariant, PTL

\* A committed charge row stands for exactly one movement of money and back.
THEOREM RowAndMovementTogether == Spec => []RowIffMoved
  <1>1. IInv => RowIffMoved
    BY DEF IInv, MovedInv, RowIffMoved
  <1> QED
    BY <1>1, TicksInvariant, PTL

\* A tick never overdraws a wallet, although it checks a balance it read earlier.
THEOREM TicksNeverOverdraw == Spec => []NoOverdraft
  <1>1. IInv => NoOverdraft
    BY DEF IInv
  <1> QED
    BY <1>1, TicksInvariant, PTL

\* payroll-tick.ts, role-tax-tick.ts, node-subscription-tick.ts: whatever fails,
\* the counters of a run that ended add up to the length of its list.
THEOREM EveryItemAccounted == Spec => []RunAccountsForEveryItem
  <1>1. Init => CountInv
    BY DEF Init, CountInv, Accounted
  <1>2. IInv /\ CountInv => RunAccountsForEveryItem
    <2> SUFFICES ASSUME IInv, CountInv, NEW r \in Run, At(r, "done")
                 PROVE  Total(job[r].result) = Cardinality(Item(job[r].tick))
      BY DEF RunAccountsForEveryItem, Total
    <2>1. Accounted(job[r]) /\ job[r].stage = "done"
      BY DEF CountInv, At
    <2>2. Cardinality(job[r].todo) = 0 /\ Total(job[r].result) \in Nat
      BY <2>1, ListSizes, FS_EmptySet DEF Accounted, IInv, TypeOK, ItemInv
    <2> QED
      BY <2>1, <2>2 DEF Accounted, AtItem
  <1> QED
    BY <1>1, <1>2, CountNext, TicksInvariant, PTL DEF Spec
=============================================================================
