------------------------------ MODULE Exchange ------------------------------
(* ExchangeEngine.crossStateTransfer and executeCrossStateTransfer: a swap    *)
(* burns in one State and mints in another under the rate of a directional    *)
(* pair, which a Sovereign may re-price or blockade at any time.              *)
(* Every wallet holds the one asset of its State.                             *)
EXTENDS Integers, FiniteSets, FiniteSetsExt, Folds, Functions

CONSTANTS
    Req,                \* swaps in flight at a time
    Wallet, AssetOf,    \* wallets and the asset each is bound to
    InitBal,
    Amounts, Rates,     \* amounts in minor units; rates as <<numerator, denominator>>
    MaxSwaps, MaxEdits, \* bounds on the swaps, on the changes of a pair
    MaxBreaks,          \* and on the failures of connections and processes
    Nil

\* upsertPair refuses a rate that is not positive.
ExchangeConstants ==
    /\ Req # {} /\ IsFiniteSet(Req) /\ Nil \notin Req
    /\ InitBal \in [Wallet -> Nat]
    /\ Amounts \subseteq Nat \ {0} /\ Amounts # {} /\ IsFiniteSet(Amounts)
    /\ Rates \subseteq (Nat \ {0}) \X (Nat \ {0})

VARIABLES
    bal,     \* committed balances
    lock,   \* the request holding a wallet's row lock, or Nil
    pair,    \* ExchangePair by <<fromAsset, toAsset>>; rate Nil when not registered
    swap,    \* the requests
    journal, \* CrossStateTransaction; a completed row stands for its burn and mint too
    sealed,  \* history: pairs disabled while no swap over them was running
    edits,   \* changes of pairs so far
    breaks   \* failures so far

exchangeVars == <<bal, lock, pair, swap, journal, sealed, edits, breaks>>

Pair == {<<AssetOf[w], AssetOf[v]>> : w, v \in Wallet} \ {<<AssetOf[w], AssetOf[w]>> : w \in Wallet}
Idle == [pc |-> "idle", from |-> Nil, to |-> Nil, out |-> 0, in |-> 0]

ExchangeTypeOK ==
    /\ bal \in [Wallet -> Int] /\ lock \in [Wallet -> Req \cup {Nil}]
    /\ pair \in [Pair -> [rate : Rates \cup {Nil}, enabled : BOOLEAN]]
    /\ swap \in [Req -> [pc : {"idle", "read", "debit", "credit", "commit", "failed"},
                         from : Wallet \cup {Nil}, to : Wallet \cup {Nil}, out : Nat, in : Nat]]
    /\ journal \subseteq [id : 1..(MaxSwaps + MaxBreaks), from : Wallet, to : Wallet, out : Nat, in : Nat,
                          status : {"completed", "failed"}]
    /\ sealed \subseteq Pair /\ edits \in 0..MaxEdits /\ breaks \in 0..MaxBreaks

ExchangeInit ==
    /\ bal = InitBal /\ lock = [w \in Wallet |-> Nil]
    /\ pair = [p \in Pair |-> [rate |-> Nil, enabled |-> FALSE]]
    /\ swap = [r \in Req |-> Idle]
    /\ journal = {} /\ sealed = {} /\ edits = 0 /\ breaks = 0

-----------------------------------------------------------------------------
\* roundToDecimals: Math.round, halves up.
Converted(amount, rate) == (2 * amount * rate[1] + rate[2]) \div (2 * rate[2])

PairOf(from, to) == <<AssetOf[from], AssetOf[to]>>
Running(p) == \E r \in Req : swap[r].pc # "idle" /\ PairOf(swap[r].from, swap[r].to) = p
Seal(p, enabled) == sealed' = IF enabled \/ Running(p) THEN sealed \ {p} ELSE sealed \cup {p}

Edit == edits < MaxEdits /\ edits' = edits + 1
Break == breaks < MaxBreaks /\ breaks' = breaks + 1

UpsertPair(p, rate, enabled) ==
    /\ Edit
    /\ pair' = [pair EXCEPT ![p] = [rate |-> rate, enabled |-> enabled]]
    /\ Seal(p, enabled)
    /\ UNCHANGED <<bal, lock, swap, journal, breaks>>

SetPairEnabled(p, enabled) ==
    /\ Edit /\ pair[p].rate # Nil
    /\ pair' = [pair EXCEPT ![p].enabled = enabled]
    /\ Seal(p, enabled)
    /\ UNCHANGED <<bal, lock, swap, journal, breaks>>

DeletePair(p) ==
    /\ Edit /\ pair[p].rate # Nil
    /\ pair' = [pair EXCEPT ![p] = [rate |-> Nil, enabled |-> FALSE]]
    /\ Seal(p, FALSE)
    /\ UNCHANGED <<bal, lock, swap, journal, breaks>>

-----------------------------------------------------------------------------
Started == Cardinality(journal) + Cardinality({r \in Req : swap[r].pc # "idle"})
Goto(r, pc) == swap' = [swap EXCEPT ![r].pc = pc]
Free(w, r) == lock[w] \in {Nil, r}
Lock(w, r) == lock' = [lock EXCEPT ![w] = r]
ReleasedBy(r) == [w \in Wallet |-> IF lock[w] = r THEN Nil ELSE lock[w]]

\* Faulty variants: a blockaded pair still trades; a wallet in debt still pays.
Registered(p) == pair[p].rate # Nil
AnyFunds(w, amount) == TRUE

Open(p) == pair[p].rate # Nil /\ pair[p].enabled
\* Asked before the transaction and once more at its start.
HasFunds(w, amount) == bal[w] >= amount

\* crossStateTransfer up to the repository call: the pair and both wallets are read.
CrossStateTransfer(r, from, to, amount) ==
    LET p == PairOf(from, to) IN
    /\ swap[r].pc = "idle" /\ Started < MaxSwaps
    /\ p \in Pair /\ Open(p) /\ HasFunds(from, amount)
    /\ Converted(amount, pair[p].rate) > 0
    /\ swap' = [swap EXCEPT ![r] = [pc |-> "read", from |-> from, to |-> to, out |-> amount,
                                    in |-> Converted(amount, pair[p].rate)]]
    /\ UNCHANGED <<bal, lock, pair, journal, sealed, edits, breaks>>

ReadSource(r) ==
    /\ swap[r].pc = "read"
    /\ Goto(r, IF HasFunds(swap[r].from, swap[r].out) THEN "debit" ELSE "failed")
    /\ UNCHANGED <<bal, lock, pair, journal, sealed, edits, breaks>>

\* The decrement takes the row lock; the balance is not looked at again.
Debit(r) ==
    /\ swap[r].pc = "debit" /\ Free(swap[r].from, r)
    /\ Lock(swap[r].from, r)
    /\ Goto(r, "credit")
    /\ UNCHANGED <<bal, pair, journal, sealed, edits, breaks>>

Credit(r) ==
    /\ swap[r].pc = "credit" /\ Free(swap[r].to, r)
    /\ Lock(swap[r].to, r)
    /\ Goto(r, "commit")
    /\ UNCHANGED <<bal, pair, journal, sealed, edits, breaks>>

\* Faulty variant: the destination gets the source's amount.
MovedAtPar(s) == [bal EXCEPT ![s.from] = @ - s.out, ![s.to] = @ + s.out]
Moved(s) == [bal EXCEPT ![s.from] = @ - s.out, ![s.to] = @ + s.in]

RowOf(s, status) ==
    [id |-> Cardinality(journal) + 1, from |-> s.from, to |-> s.to,
     out |-> s.out, in |-> s.in, status |-> status]

\* Burn row, mint row, journal row and both balances, at COMMIT. Its answer may be
\* lost: then the swap is done and the catch block runs all the same.
Commit(r) ==
    /\ swap[r].pc = "commit"
    /\ bal' = Moved(swap[r])
    /\ journal' = journal \cup {RowOf(swap[r], "completed")}
    /\ lock' = ReleasedBy(r)
    /\ \/ swap' = [swap EXCEPT ![r] = Idle] /\ UNCHANGED breaks
       \/ Goto(r, "failed") /\ Break
    /\ UNCHANGED <<pair, sealed, edits>>

\* The catch block, outside the transaction.
WriteFailedRow(r) ==
    /\ swap[r].pc = "failed"
    /\ journal' = journal \cup {RowOf(swap[r], "failed")}
    /\ swap' = [swap EXCEPT ![r] = Idle]
    /\ UNCHANGED <<bal, lock, pair, sealed, edits, breaks>>

\* PostgreSQL aborts a transaction that waits on one waiting on it.
WaitsFor(r) == IF swap[r].pc = "debit" THEN lock[swap[r].from]
               ELSE IF swap[r].pc = "credit" THEN lock[swap[r].to] ELSE Nil
Deadlocked(r) == WaitsFor(r) \in Req \ {r} /\ WaitsFor(WaitsFor(r)) = r

\* A transaction is rolled back: as a deadlock's victim, at its timeout, or when a
\* statement or the connection fails.
Abort(r) ==
    /\ \/ Deadlocked(r) /\ UNCHANGED breaks
       \/ swap[r].pc \in {"read", "debit", "credit", "commit"} /\ Break
    /\ lock' = ReleasedBy(r)
    /\ Goto(r, "failed")
    /\ UNCHANGED <<bal, pair, journal, sealed, edits>>

\* The process dies, or the catch block fails: no row.
SwapDies(r) ==
    /\ swap[r].pc # "idle" /\ Break
    /\ lock' = ReleasedBy(r)
    /\ swap' = [swap EXCEPT ![r] = Idle]
    /\ UNCHANGED <<bal, pair, journal, sealed, edits>>

Step(r) ==
    ReadSource(r) \/ Debit(r) \/ Credit(r) \/ Commit(r) \/ WriteFailedRow(r) \/ Abort(r) \/ SwapDies(r)

ExchangeNext ==
    \/ \E r \in Req : Step(r)
    \/ \E r \in Req, from, to \in Wallet, amount \in Amounts :
            CrossStateTransfer(r, from, to, amount)
    \/ \E p \in Pair, rate \in Rates, e \in BOOLEAN : UpsertPair(p, rate, e)
    \/ \E p \in Pair, e \in BOOLEAN : SetPairEnabled(p, e)
    \/ \E p \in Pair : DeletePair(p)

ExchangeSpec == ExchangeInit /\ [][ExchangeNext]_exchangeVars

-----------------------------------------------------------------------------
Completed == {j \in journal : j.status = "completed"}

BurnedFrom(w) == SumFunctionOnSet([j \in journal |-> j.out], {j \in Completed : j.from = w})
MintedTo(w) == SumFunctionOnSet([j \in journal |-> j.in], {j \in Completed : j.to = w})

\* Burns and mints of the completed rows explain both States' balances, whatever
\* failed rows there are: such a row may stand beside the completed one of its swap.
SwapsExplainBalances == \A w \in Wallet : bal[w] = InitBal[w] - BurnedFrom(w) + MintedTo(w)

MaxAmount == Max(Amounts)

\* The missing re-check costs at most one amount for each other swap in flight:
\* a wallet once overdrawn pays no further swap.
OverdraftBounded == \A w \in Wallet : bal[w] >= -(Cardinality(Req) - 1) * MaxAmount

\* A blockade set while no swap over the pair is running lets none through.
BlockadeHolds ==
    [][\A j \in journal' \ journal :
            j.status = "completed" => PairOf(j.from, j.to) \notin sealed]_exchangeVars
=============================================================================
