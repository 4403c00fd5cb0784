---------------------------- MODULE PeriodTicks ----------------------------
(***************************************************************************)
(* The periodic money jobs: payroll (root treasury to citizens), role tax  *)
(* (citizens to root treasury) and node subscriptions (a child node's      *)
(* treasury to its parent's).  Each walks its list and, per item, runs one *)
(* SQL transaction that inserts a charge row under a unique key and moves  *)
(* the money.  Runs overlap: a job may be retried, stalled and restarted,  *)
(* or scheduled by two workers.  The ledger leg of a transaction is one    *)
(* step here, which is what Ledger is shown to implement.                  *)
(***************************************************************************)
EXTENDS Integers, FiniteSets

CONSTANTS
    Run,            \* job executions
    Tick,           \* the kinds of job that are scheduled
    Citizen,        \* active members with a personal wallet in the primary asset
    Sub,            \* enabled node subscriptions
    ChildOf,        \* the child node's treasury of each subscription
    Root,           \* the root treasury, also the subscriptions' parent
    Wallet,
    InitBal,
    Gross,          \* payrollAmountPerCitizen
    IncomeTaxRate,  \* percent
    RoleTaxRate,    \* percent
    SubFee,         \* amount of a subscription
    Weeks,          \* bound on the clock
    WeeksPerMonth,
    Attempts,       \* bound on the restarts of a job
    None

ASSUME TickConstants ==
    /\ Tick \subseteq {"payroll", "role_tax", "subscription"} /\ Tick # {}
    /\ Citizen \subseteq Wallet /\ Root \in Wallet \ Citizen
    /\ IsFiniteSet(Citizen) /\ IsFiniteSet(Sub)
    /\ ChildOf \in [Sub -> Wallet \ {Root}]
    /\ InitBal \in [Wallet -> Nat]
    /\ {Gross, SubFee} \subseteq Nat \ {0}
    /\ {IncomeTaxRate, RoleTaxRate} \subseteq 0 .. 100
    /\ {Weeks, Attempts} \subseteq Nat /\ WeeksPerMonth \in Nat \ {0}
    /\ Run # {} /\ None \notin Run

Schedule == {"MONTHLY", "WEEKLY"}

\* utcPeriodKeyForDate and utcMondayWeekPeriodKey.
PeriodAt(schedule, week) ==
    IF schedule = "MONTHLY" THEN <<"MONTHLY", week \div WeeksPerMonth>>
                            ELSE <<"WEEKLY", week>>

Period == {PeriodAt(s, week) : s \in Schedule, week \in 0 .. Weeks}
Item(tick) == IF tick = "subscription" THEN Sub ELSE Citizen

\* The unique indexes of the three charge tables.
Key == [tick : Tick, who : Citizen \cup Sub, period : Period]

VARIABLES
    bal,       \* wallet balances
    rows,      \* committed charge rows, by key
    moved,     \* how many ledger movements each key has caused
    claim,     \* the row each run's open transaction has inserted
    week,      \* the clock
    schedule,  \* the schedule column of each subscription
    job        \* each run's locals

vars == <<bal, rows, moved, claim, week, schedule, job>>

Stages == {"queued", "loop", "insert", "read", "leg", "emit", "done", "dead"}
Outcome == {"paid", "duplicate", "short", "errors", "untaxed"}
Job == [tick : Tick, week : 0 .. Weeks, schedule : [Sub -> Schedule],
        todo : SUBSET (Citizen \cup Sub), who : Citizen \cup Sub \cup {None},
        amount : Nat, stage : Stages, result : [Outcome -> Nat], attempts : Nat]

NoResult == [o \in Outcome |-> 0]

-----------------------------------------------------------------------------
(* Items. *)

\* roundLedgerAmount: n / 100 rounded half to even.
HalfEven(n) ==
    LET q == n \div 100
        rest == n % 100
    IN  IF rest > 50 \/ (rest = 50 /\ q % 2 = 1) THEN q + 1 ELSE q

\* The key under which run r charges its current item.
KeyOf(r) ==
    LET j == job[r]
        s == IF j.tick = "subscription" THEN j.schedule[j.who] ELSE "MONTHLY"
    IN  [tick |-> j.tick, who |-> j.who, period |-> PeriodAt(s, j.week)]

Payer(j) == IF j.tick = "payroll" THEN Root
            ELSE IF j.tick = "role_tax" THEN j.who ELSE ChildOf[j.who]
Payee(j) == IF j.tick = "payroll" THEN j.who ELSE Root

\* The amount the settings fix; a role tax is computed from the balance.
SetAmount(tick) == IF tick = "payroll" THEN Gross
                   ELSE IF tick = "subscription" THEN SubFee ELSE 0

\* Payroll sends its income tax to the root treasury, which is also the payer:
\* runLedgerTransferInTx throws tax_wallet_collision.
TaxCollides == LET tax == HalfEven(Gross * IncomeTaxRate) IN tax > 0 /\ tax < Gross

-----------------------------------------------------------------------------
Init ==
    /\ bal = InitBal
    /\ rows = {}
    /\ moved = [k \in Key |-> 0]
    /\ claim = [r \in Run |-> {}]
    /\ week = 0
    /\ schedule \in [Sub -> Schedule]
    /\ job = [r \in Run |-> [tick |-> CHOOSE tick \in Tick : TRUE, week |-> 0, schedule |-> schedule,
                             todo |-> {}, who |-> None, amount |-> 0,
                             stage |-> "queued", result |-> NoResult, attempts |-> 0]]

At(r, stage) == job[r].stage = stage
Goto(r, stage) == job' = [job EXCEPT ![r].stage = stage]

\* Mutant: the outcome is not counted.
Skip(r, outcome) == job' = [job EXCEPT ![r].stage = "loop", ![r].who = None]

\* Count the item under an outcome and go on with the next one.
Count(r, outcome) ==
    job' = [job EXCEPT ![r].stage = "loop", ![r].who = None,
                       ![r].result[outcome] = @ + 1]

\* Mutant: the charge row is not part of the transaction.
KeepClaim(r) == rows' = rows \cup claim[r] /\ UNCHANGED claim

\* The transaction rolls back, its charge row with it.
Release(r) == claim' = [claim EXCEPT ![r] = {}] /\ UNCHANGED rows

\* The item's try block throws.
Fail(r, outcome) ==
    /\ Release(r)
    /\ Count(r, outcome)
    /\ UNCHANGED <<bal, moved, week, schedule>>

-----------------------------------------------------------------------------
(* One tick. *)

\* A worker takes the job; no period key in the payload, so the clock decides.
Start(r, tick) ==
    /\ At(r, "queued") \/ (At(r, "dead") /\ job[r].tick = tick)
    /\ job' = [job EXCEPT ![r] =
                 [tick |-> tick, week |-> week, schedule |-> schedule,
                  todo |-> Item(tick), who |-> None, amount |-> 0,
                  stage |-> "loop", result |-> NoResult, attempts |-> @.attempts]]
    /\ UNCHANGED <<bal, rows, moved, claim, week, schedule>>

\* The next item of the list.  Role tax first reads the balance, a subscription
\* checks it outside its transaction, payroll first inserts its row.
PickItem(r, who) ==
    /\ At(r, "loop") /\ who \in job[r].todo
    /\ job' = [job EXCEPT ![r].todo = @ \ {who}, ![r].who = who,
                          ![r].amount = SetAmount(job[r].tick),
                          ![r].stage = IF job[r].tick = "payroll" THEN "insert" ELSE "read"]
    /\ UNCHANGED <<bal, rows, moved, claim, week, schedule>>

\* Mutant: no unique index on the charge table.
NoIndex(r, k) == TRUE

\* Two open inserts of one key: the second waits for the first transaction.
NotInserting(r, k) == \A q \in Run \ {r} : k \notin claim[q]

Duplicate(k) == k \in rows

InsertRow(r) ==
    /\ At(r, "insert")
    /\ NotInserting(r, KeyOf(r))
    /\ IF Duplicate(KeyOf(r))
       THEN Fail(r, "duplicate")
       ELSE /\ claim' = [claim EXCEPT ![r] = {KeyOf(r)}]
            /\ Goto(r, IF job[r].tick = "payroll" THEN "read" ELSE "leg")
            /\ UNCHANGED <<bal, rows, moved, week, schedule>>

ReadPayroll(r) ==
    /\ At(r, "read") /\ job[r].tick = "payroll"
    /\ IF bal[Root] < Gross THEN Fail(r, "short")
       ELSE IF TaxCollides THEN Fail(r, "errors")
       ELSE Goto(r, "leg") /\ UNCHANGED <<bal, rows, moved, claim, week, schedule>>

ReadRoleTax(r) ==
    /\ At(r, "read") /\ job[r].tick = "role_tax"
    /\ LET fee == HalfEven(bal[job[r].who] * RoleTaxRate)
       IN  IF fee > 0 /\ fee <= bal[job[r].who]
           THEN job' = [job EXCEPT ![r].amount = fee, ![r].stage = "insert"]
           ELSE Count(r, "untaxed")
    /\ UNCHANGED <<bal, rows, moved, claim, week, schedule>>

ReadSubscription(r) ==
    /\ At(r, "read") /\ job[r].tick = "subscription"
    /\ IF job[r].amount <= bal[Payer(job[r])] THEN Goto(r, "insert") ELSE Count(r, "short")
    /\ UNCHANGED <<bal, rows, moved, claim, week, schedule>>

\* Mutant: the debit trusts the balance read earlier.
TrustRead(j) == TRUE

\* The ledger's conditional debit, on the live balance.
CanPay(j) == bal[Payer(j)] >= j.amount

\* runLedgerTransferInTx, the update of the charge row and COMMIT, whose answer
\* may be lost: the money has moved and the item counts as an error.
Charge(r) ==
    /\ At(r, "leg")
    /\ LET j == job[r]
       IN  IF CanPay(j)
           THEN /\ bal' = [bal EXCEPT ![Payer(j)] = @ - j.amount,
                                      ![Payee(j)] = @ + j.amount]
                /\ moved' = [moved EXCEPT ![KeyOf(r)] = @ + 1]
                /\ rows' = rows \cup claim[r]
                /\ claim' = [claim EXCEPT ![r] = {}]
                /\ \/ IF j.tick = "payroll" THEN Goto(r, "emit") ELSE Count(r, "paid")
                   \/ Count(r, "errors")
                /\ UNCHANGED <<week, schedule>>
           ELSE Fail(r, "short")

\* After the commit payroll reloads both wallets and emits; a throw there lands
\* in the same catch block as a failed transaction.
Emit(r, ok) ==
    /\ At(r, "emit")
    /\ Count(r, IF ok THEN "paid" ELSE "errors")
    /\ UNCHANGED <<bal, rows, moved, claim, week, schedule>>

Finish(r) ==
    /\ At(r, "loop") /\ job[r].todo = {}
    /\ Goto(r, "done")
    /\ UNCHANGED <<bal, rows, moved, claim, week, schedule>>

\* Any other error inside the item's try block: timeout, deadlock victim.  The
\* balance check of a subscription is outside it.
Abort(r) ==
    /\ \/ At(r, "insert") \/ At(r, "leg")
       \/ At(r, "read") /\ job[r].tick # "subscription"
    /\ Fail(r, "errors")

\* The worker dies, or the tick throws outside an item's try block; the queue
\* hands the job out again later.
Crash(r) ==
    /\ job[r].stage \notin {"queued", "done", "dead"}
    /\ job[r].attempts < Attempts
    /\ job' = [job EXCEPT ![r].stage = "dead", ![r].attempts = @ + 1]
    /\ Release(r)
    /\ UNCHANGED <<bal, moved, week, schedule>>

-----------------------------------------------------------------------------
(* The rest of the State. *)

\* A ledger transfer of someone else (AtomicLedger).
OtherTransfer(from, to) ==
    /\ from # to /\ bal[from] > 0
    /\ bal' = [bal EXCEPT ![from] = @ - 1, ![to] = @ + 1]
    /\ UNCHANGED <<rows, moved, claim, week, schedule, job>>

PassWeek ==
    /\ week < Weeks
    /\ week' = week + 1
    /\ UNCHANGED <<bal, rows, moved, claim, schedule, job>>

Reschedule(s, to) ==
    /\ schedule[s] # to
    /\ schedule' = [schedule EXCEPT ![s] = to]
    /\ UNCHANGED <<bal, rows, moved, claim, week, job>>

Step(r) ==
    \/ \E who \in Citizen \cup Sub : PickItem(r, who)
    \/ InsertRow(r) \/ ReadPayroll(r) \/ ReadRoleTax(r) \/ ReadSubscription(r)
    \/ Charge(r) \/ (\E ok \in BOOLEAN : Emit(r, ok)) \/ Finish(r)

Next ==
    \/ \E r \in Run : \/ \E tick \in Tick : Start(r, tick)
                      \/ Step(r) \/ Abort(r) \/ Crash(r)
    \/ \E from, to \in Wallet : OtherTransfer(from, to)
    \/ PassWeek
    \/ \E s \in Sub, to \in Schedule : Reschedule(s, to)

\* A worker keeps running the job it took.  Nothing forces a crash, a restart,
\* or anyone else's transfer.
Fairness == \A r \in Run : WF_vars(Step(r))

Spec == Init /\ [][Next]_vars /\ Fairness

-----------------------------------------------------------------------------
(* Properties. *)

TypeOK ==
    /\ bal \in [Wallet -> Int]
    /\ rows \subseteq Key
    /\ moved \in [Key -> Nat]
    /\ claim \in [Run -> SUBSET Key]
    /\ week \in 0 .. Weeks
    /\ schedule \in [Sub -> Schedule]
    /\ job \in [Run -> Job]

\* DEPLOYMENT.md, "Payroll": a repeat never pays the same period twice; nor do
\* two overlapping runs, nor a run restarted after a crash.
AtMostOncePerPeriod == \A k \in Key : moved[k] <= 1

\* The charge row and the movement commit together: none without the other.
RowIffMoved == \A k \in Key : k \in rows <=> moved[k] > 0

\* However stale the balance a tick decided on, no wallet is overdrawn.
NoOverdraft == \A w \in Wallet : bal[w] >= 0

\* Whatever fails, a run passes through its whole list and its result adds up
\* ("untaxed" is the branch of the role tax that no counter of the code records).
RunAccountsForEveryItem ==
    \A r \in Run : At(r, "done") =>
        LET res == job[r].result
        IN  res["paid"] + res["duplicate"] + res["short"] + res["errors"] + res["untaxed"]
              = Cardinality(Item(job[r].tick))

\* payroll-tick.integration.test.ts, "pays once per period, applies income tax":
\* a payroll transaction that finds enough money in the treasury goes on to pay.
PayrollAppliesIncomeTax ==
    [][\A r \in Run : ReadPayroll(r) /\ bal[Root] >= Gross => At(r, "leg")']_vars

\* A run that started ends or dies; no two runs wait for each other's row.
EveryRunEnds ==
    \A r \in Run : At(r, "loop") ~> (At(r, "done") \/ At(r, "dead"))

-----------------------------------------------------------------------------
(* The inductive invariant behind AtMostOncePerPeriod. *)

\* A run works on items of its own list.
ItemInv ==
    \A r \in Run :
        /\ job[r].todo \subseteq Item(job[r].tick)
        /\ job[r].stage \in {"insert", "read", "leg"} => job[r].who \in Item(job[r].tick)

\* Payroll inserts its row before it reads the treasury, the others just before
\* the ledger leg.
HasRow(j) == j.stage = "leg" \/ (j.stage = "read" /\ j.tick = "payroll")

\* An open transaction past its insert holds exactly its own key, which is not
\* committed and which no other open transaction holds.
ClaimInv ==
    /\ \A r \in Run : /\ claim[r] = IF HasRow(job[r]) THEN {KeyOf(r)} ELSE {}
                      /\ claim[r] \cap rows = {}
    /\ \A r, q \in Run : r # q => claim[r] \cap claim[q] = {}

MovedInv == \A k \in Key : moved[k] = IF k \in rows THEN 1 ELSE 0

IInv == TypeOK /\ ItemInv /\ ClaimInv /\ MovedInv /\ NoOverdraft
=============================================================================
