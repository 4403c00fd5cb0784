------------------------------- MODULE Ledger -------------------------------
(***************************************************************************)
(* The sovereign ledger: WalletService.transfer and WalletService.mint on  *)
(* top of executeTransferTx / runLedgerTransferInTx, at the granularity of *)
(* the SQL statements they issue.  Requests are served concurrently; each  *)
(* runs one interactive READ COMMITTED transaction.  A statement that      *)
(* updates a wallet row takes the row's lock until the transaction ends    *)
(* and re-reads the committed row once it has it; a plain read takes no    *)
(* lock and may be stale by the time it is used.                           *)
(***************************************************************************)
EXTENDS Integers, FiniteSets, Functions

CONSTANTS
    Req,         \* requests in flight (one HTTP call each)
    Wallet,      \* wallet rows of one State
    Treasury,    \* the wallets of type TREASURY; the others are PERSONAL
    RootOf,      \* findRootTreasury for the asset of a wallet, None if absent
    CurrencyOf,  \* the immutable currency column of a wallet
    InitBal,     \* balances at the start
    Amounts,     \* amounts a client may ask for, in minor units
    Rates,       \* possible sums of the tax layers, in percent
    None         \* SQL null

ASSUME LedgerConstants ==
    /\ Treasury \subseteq Wallet
    /\ None \notin Wallet \cup Req
    /\ RootOf \in [Wallet -> Treasury \cup {None}]
    /\ InitBal \in [Wallet -> Nat]
    /\ Amounts \subseteq Nat \ {0}
    /\ Rates \subseteq Nat /\ 0 \in Rates

\* A State has finitely many wallet rows, so that its money has a sum.
ASSUME FiniteWallets == IsFiniteSet(Wallet)

VARIABLES
    bal,     \* committed balance column
    posted,  \* net effect on each wallet of the completed Transaction rows
    minted,  \* sum of the completed rows of kind "mint"
    rows,    \* statuses of the Transaction rows each request left
    held,    \* the request whose transaction holds the wallet's row lock
    delta,   \* uncommitted balance changes of each request's transaction
    plan,    \* the argument of executeTransfer
    pc       \* where each request stands

vars == <<bal, posted, minted, rows, held, delta, plan, pc>>

-----------------------------------------------------------------------------
(* Money arithmetic. *)

LowerOf(a, b) == IF a <= b THEN a ELSE b

\* roundLedgerAmount: n / 100 rounded half to even.
HalfEven(n) ==
    LET q == n \div 100
        rest == n % 100
    IN  IF rest > 50 \/ (rest = 50 /\ q % 2 = 1) THEN q + 1 ELSE q

\* The effective rates transfer() may compute: only a personal payer meets the
\* asset and transaction layers, only a treasury-to-person payment the income layer.
RatesFor(from, to) ==
    IF from \in Treasury /\ to \in Treasury THEN {0} ELSE Rates

\* The tax withheld; zero when no tax leg is passed to the repository.
TaxOn(from, to, amount, rate) ==
    LET tax == HalfEven(amount * LowerOf(100, rate))
    IN  IF RootOf[from] \in {None, to} \/ tax >= amount THEN 0 ELSE tax

-----------------------------------------------------------------------------
(* The input of executeTransfer. *)

Plan == [from : Wallet \cup {None}, to : Wallet \cup {None},
         amount : Nat, tax : Nat, taxTo : Wallet \cup {None}]

NoPlan == [from |-> None, to |-> None, amount |-> 0, tax |-> 0, taxTo |-> None]

TransferPlan(from, to, amount, rate) ==
    LET tax == TaxOn(from, to, amount, rate)
    IN  [from |-> from, to |-> to, amount |-> amount, tax |-> tax,
         taxTo |-> IF tax = 0 THEN None ELSE RootOf[from]]

MintPlan(to, amount) ==
    [from |-> None, to |-> to, amount |-> amount, tax |-> 0, taxTo |-> None]

\* The checks on a tax leg before the first statement.
TaxLegValid(p) ==
    p.taxTo # None => /\ p.from # None /\ p.to # None
                      /\ p.tax <= p.amount
                      /\ p.taxTo \notin {p.from, p.to}

\* Mutant: the payee is credited the gross amount.
Gross(p) == p.amount

Net(p) == p.amount - p.tax

\* What one completed Transaction row says happened to wallet w.
RowEffect(from, to, amount, w) ==
    (IF w = to THEN amount ELSE 0) - (IF w = from THEN amount ELSE 0)

\* Mutant: the main row records the gross amount.
GrossJournal(p, w) ==
    RowEffect(p.from, p.to, p.amount, w) +
    (IF p.taxTo = None THEN 0 ELSE RowEffect(p.from, p.taxTo, p.tax, w))

\* The main row carries the net amount, the tax row the tax, both from the payer.
JournalEffect(p, w) ==
    RowEffect(p.from, p.to, Net(p), w) +
    (IF p.taxTo = None THEN 0 ELSE RowEffect(p.from, p.taxTo, p.tax, w))

-----------------------------------------------------------------------------
InTx    == {"read", "debit", "credit", "tax", "commit"}
Ended   == {"paid", "refused", "failed", "crashed"}
Labels  == {"new", "failing"} \cup InTx \cup Ended

NoDelta == [w \in Wallet |-> 0]

Init ==
    /\ bal = InitBal
    /\ posted = NoDelta
    /\ minted = 0
    /\ rows = [r \in Req |-> {}]
    /\ held = [w \in Wallet |-> None]
    /\ delta = [r \in Req |-> NoDelta]
    /\ plan = [r \in Req |-> NoPlan]
    /\ pc = [r \in Req |-> "new"]

Goto(r, label) == pc' = [pc EXCEPT ![r] = label]

\* Mutant: the connection goes back to the pool with its locks.
KeepLocks(r) == delta' = [delta EXCEPT ![r] = NoDelta] /\ UNCHANGED held

\* The database undoes r's statements and releases its row locks.
Rollback(r) ==
    /\ delta' = [delta EXCEPT ![r] = NoDelta]
    /\ held' = [w \in Wallet |-> IF held[w] = r THEN None ELSE held[w]]

\* The transaction callback throws.
Throw(r) ==
    /\ Rollback(r)
    /\ Goto(r, "failing")
    /\ UNCHANGED <<bal, posted, minted, rows, plan>>

CanLock(r, w) == held[w] \in {None, r}

\* balance := balance + n inside r's transaction.
Increment(r, w, n) ==
    /\ delta' = [delta EXCEPT ![r][w] = @ + n]
    /\ held' = [held EXCEPT ![w] = r]

-----------------------------------------------------------------------------
(* WalletService, before the transaction starts. *)

\* transfer(): resolve both wallets, pre-check on an unlocked read, split the tax.
RequestTransfer(r, from, to, amount, rate) ==
    /\ pc[r] = "new"
    /\ rate \in RatesFor(from, to)
    /\ IF from # to /\ CurrencyOf[from] = CurrencyOf[to] /\ bal[from] >= amount
       THEN /\ plan' = [plan EXCEPT ![r] = TransferPlan(from, to, amount, rate)]
            /\ Goto(r, "read")
       ELSE Goto(r, "refused") /\ UNCHANGED plan
    /\ UNCHANGED <<bal, posted, minted, rows, held, delta>>

\* mint(): no source wallet; refused while the asset's emission is frozen.
RequestMint(r, to, amount, canMint) ==
    /\ pc[r] = "new"
    /\ IF canMint
       THEN plan' = [plan EXCEPT ![r] = MintPlan(to, amount)] /\ Goto(r, "read")
       ELSE Goto(r, "refused") /\ UNCHANGED plan
    /\ UNCHANGED <<bal, posted, minted, rows, held, delta>>

-----------------------------------------------------------------------------
(* runLedgerTransferInTx, statement by statement. *)

ReadSource(r) ==
    /\ pc[r] = "read"
    /\ LET p == plan[r]
       IN  IF ~TaxLegValid(p) \/ (p.from # None /\ bal[p.from] < p.amount)
           THEN Throw(r)
           ELSE /\ Goto(r, IF p.from = None THEN "credit" ELSE "debit")
                /\ UNCHANGED <<bal, posted, minted, rows, held, delta, plan>>

\* Mutant: the UPDATE forgets its balance condition.
AnyBalance(r, p) == TRUE

\* WHERE balance >= amount, on the row as the transaction now sees it.
Covers(r, p) == bal[p.from] + delta[r][p.from] >= p.amount

\* UPDATE ... SET balance = balance - amount WHERE balance >= amount.
Debit(r) ==
    /\ pc[r] = "debit"
    /\ LET p == plan[r]
       IN  /\ CanLock(r, p.from)
           /\ IF Covers(r, p)
              THEN /\ Increment(r, p.from, -p.amount)
                   /\ Goto(r, "credit")
                   /\ UNCHANGED <<bal, posted, minted, rows, plan>>
              ELSE Throw(r)

Credit(r) ==
    /\ pc[r] = "credit"
    /\ LET p == plan[r]
       IN  /\ IF p.to # None /\ Net(p) > 0
              THEN CanLock(r, p.to) /\ Increment(r, p.to, Net(p))
              ELSE UNCHANGED <<delta, held>>
           /\ Goto(r, IF p.taxTo = None THEN "commit" ELSE "tax")
    /\ UNCHANGED <<bal, posted, minted, rows, plan>>

CreditTax(r) ==
    /\ pc[r] = "tax"
    /\ LET p == plan[r]
       IN  IF CurrencyOf[p.taxTo] # CurrencyOf[p.from] \/ p.taxTo \notin Treasury
           THEN Throw(r)
           ELSE /\ CanLock(r, p.taxTo)
                /\ Increment(r, p.taxTo, p.tax)
                /\ Goto(r, "commit")
                /\ UNCHANGED <<bal, posted, minted, rows, plan>>

\* The journal rows and COMMIT.
Apply(r) ==
    /\ bal' = [w \in Wallet |-> bal[w] + delta[r][w]]
    /\ posted' = [w \in Wallet |-> posted[w] + JournalEffect(plan[r], w)]
    /\ minted' = minted + (IF plan[r].from = None THEN plan[r].amount ELSE 0)
    /\ rows' = [rows EXCEPT ![r] = @ \cup {"completed"}]
    /\ Rollback(r)
    /\ UNCHANGED plan

Commit(r) == pc[r] = "commit" /\ Apply(r) /\ Goto(r, "paid")

\* COMMIT took effect but the driver lost the answer: $transaction rejects.
LoseCommitAck(r) == pc[r] = "commit" /\ Apply(r) /\ Goto(r, "failing")

\* Mutant: the catch block returns the failed row instead of rethrowing.
SwallowError(r) ==
    /\ pc[r] = "failing"
    /\ rows' = [rows EXCEPT ![r] = @ \cup {"failed"}]
    /\ Goto(r, "paid")
    /\ UNCHANGED <<bal, posted, minted, held, delta, plan>>

\* The catch block of executeTransferTx, outside the transaction.
WriteFailedRow(r) ==
    /\ pc[r] = "failing"
    /\ rows' = [rows EXCEPT ![r] = @ \cup {"failed"}]
    /\ Goto(r, "failed")
    /\ UNCHANGED <<bal, posted, minted, held, delta, plan>>

-----------------------------------------------------------------------------
(* The database and the process. *)

\* The row r's next statement would update.
Wanted(r) ==
    CASE pc[r] = "debit"  -> plan[r].from
      [] pc[r] = "credit" -> plan[r].to
      [] pc[r] = "tax"    -> plan[r].taxTo
      [] OTHER            -> None

Blocked(r) == Wanted(r) # None /\ ~CanLock(r, Wanted(r))

\* r lies on a cycle of the waits-for graph.
Deadlocked(r) ==
    \E S \in SUBSET Req :
        /\ r \in S
        /\ \A q \in S : Blocked(q)
        /\ {held[Wanted(q)] : q \in S} = S

\* PostgreSQL picks a transaction of the cycle and aborts it.
DeadlockVictim(r) == Deadlocked(r) /\ Throw(r)

\* Interactive-transaction timeout, or the connection drops before COMMIT.
Abort(r) == pc[r] \in InTx /\ Throw(r)

\* The server process dies; the database rolls an open transaction back.
Crash(r) ==
    /\ pc[r] \in InTx \cup {"failing"}
    /\ Rollback(r)
    /\ Goto(r, "crashed")
    /\ UNCHANGED <<bal, posted, minted, rows, plan>>

-----------------------------------------------------------------------------
Request(r) ==
    \/ \E from, to \in Wallet, amount \in Amounts, rate \in Rates :
          RequestTransfer(r, from, to, amount, rate)
    \/ \E to \in Wallet, amount \in Amounts, canMint \in BOOLEAN :
          RequestMint(r, to, amount, canMint)

Statement(r) ==
    \/ ReadSource(r) \/ Debit(r) \/ Credit(r) \/ CreditTax(r)
    \/ Commit(r) \/ WriteFailedRow(r)

Fault(r) == LoseCommitAck(r) \/ DeadlockVictim(r) \/ Abort(r) \/ Crash(r)

Next == \E r \in Req : Request(r) \/ Statement(r) \/ Fault(r)

\* The event loop and the database run every enabled statement, and the
\* deadlock detector breaks every cycle.  No other fault is ever forced.
Fairness ==
    /\ \A r \in Req : WF_vars(Statement(r))
    /\ WF_vars(\E r \in Req : DeadlockVictim(r))

Spec == Init /\ [][Next]_vars /\ Fairness

-----------------------------------------------------------------------------
(* The abstract ledger this one implements: a request has moved its money once
   its completed row exists. *)

Fate(r) ==
    CASE "completed" \in rows[r] -> "moved"
      [] "completed" \notin rows[r] /\ pc[r] \in Ended \cup {"failing"} -> "dropped"
      [] OTHER -> "open"

Abstract == INSTANCE AtomicLedger WITH fate <- [r \in Req |-> Fate(r)]

\* Every interleaving of the statements is a sequence of atomic, all-or-nothing,
\* at-most-once movements.
IsAtomicLedger == Abstract!Spec

-----------------------------------------------------------------------------
(* Properties. *)

TypeOK ==
    /\ bal \in [Wallet -> Int]
    /\ posted \in [Wallet -> Int]
    /\ minted \in Nat
    /\ rows \in [Req -> SUBSET {"completed", "failed"}]
    /\ held \in [Wallet -> Req \cup {None}]
    /\ delta \in [Req -> [Wallet -> Int]]
    /\ plan \in [Req -> Plan]
    /\ pc \in [Req -> Labels]

\* "reject any negative post-balance on the source wallet" (service.ts, the
\* contract of executeTransfer): however debits of one wallet interleave.
NonNegativeBalances == \A w \in Wallet : bal[w] >= 0

\* Double entry: a balance is always the opening balance plus the completed
\* rows of the journal, tax legs, aborted and crashed transactions included.
JournalExplainsBalances == \A w \in Wallet : bal[w] = InitBal[w] + posted[w]

\* Money appears only by minting, and never disappears in a tax split.
Conservation == SumFunction(bal) = SumFunction(InitBal) + minted

\* executeTransferTx answers success only for a request with exactly one
\* completed movement; a refused request leaves no row.
AnswerMatchesJournal ==
    \A r \in Req :
        /\ pc[r] = "paid" => rows[r] = {"completed"}
        /\ pc[r] \in {"new", "refused"} \cup InTx => rows[r] = {}

\* Every request that entered the repository ends, even through deadlocks.
EveryTransferEnds ==
    \A r \in Req : (pc[r] \in InTx) ~> (pc[r] \in Ended)

-----------------------------------------------------------------------------
(* The inductive invariant behind the safety properties. *)

\* A plan in flight moves money between distinct wallets; past the first
\* statement its tax leg is one the repository accepts.
PlanInv ==
    \A r \in Req : pc[r] \in InTx =>
        LET p == plan[r]
        IN  /\ p.to \in Wallet /\ p.from # p.to
            /\ p.amount \in Amounts /\ p.tax <= p.amount
            /\ p.taxTo = None <=> p.tax = 0
            /\ p.from = None => p.taxTo = None
            /\ pc[r] # "read" => p.taxTo = None \/ p.taxTo \notin {p.from, p.to}
            /\ pc[r] = "debit" => p.from # None
            /\ pc[r] = "tax" => p.taxTo # None

\* The uncommitted change of each wallet is what the statements executed so far did.
Written(r, w) ==
    LET p == plan[r]
        ifPast(labels, target, n) == IF pc[r] \in labels /\ w = target THEN n ELSE 0
    IN  ifPast({"tax", "commit"}, p.to, Net(p)) + ifPast({"commit"}, p.taxTo, p.tax)
        - ifPast({"credit", "tax", "commit"}, p.from, p.amount)

DeltaInv == \A r \in Req, w \in Wallet : delta[r][w] = Written(r, w)

\* Strict two-phase locking: a changed row is locked by the one transaction that
\* changed it, and that transaction could commit it without an overdraft.
LockInv ==
    \A r \in Req, w \in Wallet :
        /\ delta[r][w] # 0 => held[w] = r
        /\ bal[w] + delta[r][w] >= 0

IInv == TypeOK /\ PlanInv /\ DeltaInv /\ LockInv /\ NonNegativeBalances /\
        JournalExplainsBalances
=============================================================================
