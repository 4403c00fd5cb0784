------------------------------ MODULE OnChain ------------------------------
(* On-chain treasuries: prepareOnChainIntent and confirmOnChainTransfer of    *)
(* WalletService and the TreasuryWatcher, whose ticks copy the balance of one *)
(* treasury from the chain and settle the pending rows of the ledger. A tick  *)
(* is a chain of awaits; the daemon's ticks follow one another, a --once run  *)
(* of the script is a tick beside them.                                       *)
EXTENDS Integers, Sequences, FiniteSets, FiniteSetsExt

CONSTANTS
    Daemon, Once,     \* the two processes that may be ticking
    Hash,             \* transaction hashes clients hand in
    Balances, Dust,   \* balances on the chain; the dust threshold
    Batch,            \* pending rows one tick takes (200)
    MaxTx, MaxMoves, MaxReorgs, \* bounds on rows, moves and reorganisations,
    MaxWork, MaxFaults,         \* on the three together, and on failures
    None

ASSUME OnChainAssumption ==
    /\ Dust \in Nat /\ Batch \in Nat \ {0} /\ Daemon # Once
    /\ Balances \subseteq Int /\ 0 \in Balances

VARIABLES
    chain, fate,  \* external: the holder's balance; the receipt of each hash
    cached,       \* Wallet.balance of the treasury
    tx,           \* Transaction rows in order of createdAt
    ever,         \* history: the hashes attached to each row
    tick,         \* the ticks in progress
    moves, faults, reorgs

vars == <<chain, fate, cached, tx, ever, tick, moves, faults, reorgs>>

Process == {Daemon, Once}
Off == [pc |-> "off", listed |-> 0, read |-> 0, todo |-> {}, work |-> None, saw |-> "unknown"]
Fates == {"unknown", "mined", "reverted", "final"}
Tx == 1..Len(tx)
Work == Len(tx) + moves + reorgs

OnChainTypeOK ==
    /\ chain \in Balances /\ cached \in Balances
    /\ fate \in [Hash -> Fates]
    /\ tx \in Seq([status : {"pending", "completed", "failed"}, hash : Hash \cup {None}])
    /\ ever \in Seq(SUBSET Hash) /\ Len(ever) = Len(tx)
    /\ tick \in [Process -> [pc : {"off", "list", "read", "write", "pendings", "next", "status", "settle"},
                             listed : Balances, read : Balances, todo : SUBSET (Nat \X Hash),
                             work : (Nat \X Hash) \cup {None}, saw : Fates]]
    /\ moves \in Nat /\ faults \in Nat /\ reorgs \in Nat

Init ==
    /\ chain = 0 /\ cached = 0 /\ fate = [h \in Hash |-> "unknown"]
    /\ tx = <<>> /\ ever = <<>> /\ tick = [p \in Process |-> Off]
    /\ moves = 0 /\ faults = 0 /\ reorgs = 0

-----------------------------------------------------------------------------
(* The chain *)
ChainMoves ==
    /\ moves < MaxMoves /\ Work < MaxWork /\ moves' = moves + 1
    /\ chain' \in Balances \ {chain}
    /\ UNCHANGED <<fate, cached, tx, ever, tick, faults, reorgs>>

Mine(h) ==
    /\ fate[h] = "unknown"
    /\ \E f \in {"mined", "reverted"} : fate' = [fate EXCEPT ![h] = f]
    /\ UNCHANGED <<chain, cached, tx, ever, tick, moves, faults, reorgs>>

Finalise(h) ==
    /\ fate[h] = "mined" /\ fate' = [fate EXCEPT ![h] = "final"]
    /\ UNCHANGED <<chain, cached, tx, ever, tick, moves, faults, reorgs>>

Reorganise(h) ==
    /\ fate[h] \in {"mined", "reverted"} /\ reorgs < MaxReorgs /\ Work < MaxWork
    /\ fate' = [fate EXCEPT ![h] = "unknown"] /\ reorgs' = reorgs + 1
    /\ UNCHANGED <<chain, cached, tx, ever, tick, moves, faults>>

-----------------------------------------------------------------------------
(* The two requests of the Web3 flow *)
PrepareOnChainIntent ==
    /\ Len(tx) < MaxTx /\ Work < MaxWork
    /\ tx' = Append(tx, [status |-> "pending", hash |-> None]) /\ ever' = Append(ever, {})
    /\ UNCHANGED <<chain, fate, cached, tick, moves, faults, reorgs>>

\* attachOnChainHash: whatever the row's status; a hash is handed in once per row.
ConfirmOnChainTransfer(t, h) ==
    /\ h \notin ever[t]
    /\ tx' = [tx EXCEPT ![t].hash = h] /\ ever' = [ever EXCEPT ![t] = @ \cup {h}]
    /\ UNCHANGED <<chain, fate, cached, tick, moves, faults, reorgs>>

-----------------------------------------------------------------------------
(* TreasuryWatcher.tick *)
TickGoes(p, pc) == tick' = [tick EXCEPT ![p].pc = pc]
TickAt(p, pc) == tick[p].pc = pc
\* The daemon schedules its next tick; a --once run exits.
AfterTick(p) == IF p = Daemon THEN [Off EXCEPT !.pc = "list"] ELSE Off

Start(p) ==
    /\ TickAt(p, "off") /\ TickGoes(p, "list")
    /\ UNCHANGED <<chain, fate, cached, tx, ever, moves, faults, reorgs>>

\* The process is killed between two awaits.
Crash(p) ==
    /\ ~TickAt(p, "off") /\ faults < MaxFaults
    /\ faults' = faults + 1 /\ tick' = [tick EXCEPT ![p] = Off]
    /\ UNCHANGED <<chain, fate, cached, tx, ever, moves, reorgs>>

ListTreasuries(p) ==
    /\ TickAt(p, "list")
    /\ tick' = [tick EXCEPT ![p].pc = "read", ![p].listed = cached]
    /\ UNCHANGED <<chain, fate, cached, tx, ever, moves, faults, reorgs>>

ReadTokenBalance(p) ==
    /\ TickAt(p, "read")
    /\ tick' = [tick EXCEPT ![p].pc = "write", ![p].read = chain]
    /\ UNCHANGED <<chain, fate, cached, tx, ever, moves, faults, reorgs>>

\* An RPC error is reported and the next wallet taken.
ReadFails(p) ==
    /\ TickAt(p, "read") /\ faults < MaxFaults /\ faults' = faults + 1
    /\ tick' = [tick EXCEPT ![p] = [Off EXCEPT !.pc = "pendings"]]
    /\ UNCHANGED <<chain, fate, cached, tx, ever, moves, reorgs>>

\* Faulty variant: only deposits are noticed.
WithinDustOrLess(read, listed) == read - listed <= Dust
WithinDust(read, listed) == read - listed <= Dust /\ listed - read <= Dust

\* The row is compared as it was listed and overwritten with what was read.
UpdateSyncedBalance(p) ==
    /\ TickAt(p, "write")
    /\ cached' = IF WithinDust(tick[p].read, tick[p].listed) THEN cached ELSE tick[p].read
    /\ tick' = [tick EXCEPT ![p] = [Off EXCEPT !.pc = "pendings"]]
    /\ UNCHANGED <<chain, fate, tx, ever, moves, faults, reorgs>>

PendingRows == {t \in Tx : tx[t].status = "pending" /\ tx[t].hash # None}
OldestRows(S) == {t \in S : Cardinality({u \in S : u < t}) < Batch}

ListPendings(p) ==
    /\ TickAt(p, "pendings")
    /\ tick' = [tick EXCEPT ![p].pc = "next",
                            ![p].todo = {<<t, tx[t].hash>> : t \in OldestRows(PendingRows)}]
    /\ UNCHANGED <<chain, fate, cached, tx, ever, moves, faults, reorgs>>

NextPending(p) ==
    LET todo == tick[p].todo IN
    /\ TickAt(p, "next")
    /\ \/ todo = {} /\ tick' = [tick EXCEPT ![p] = AfterTick(p)]
       \/ \E first \in todo :
            /\ \A w \in todo : first[1] <= w[1]
            /\ tick' = [tick EXCEPT ![p].pc = "status", ![p].work = first, ![p].todo = @ \ {first}]
    /\ UNCHANGED <<chain, fate, cached, tx, ever, moves, faults, reorgs>>

ReadTransactionStatus(p) ==
    /\ TickAt(p, "status")
    /\ tick' = [tick EXCEPT ![p].pc = "settle", ![p].saw = fate[tick[p].work[2]]]
    /\ UNCHANGED <<chain, fate, cached, tx, ever, moves, faults, reorgs>>

\* Faulty variant: the error leaves the tick before the timer is set again.
EscapingError(p) ==
    /\ TickAt(p, "status") /\ faults < MaxFaults /\ faults' = faults + 1
    /\ tick' = [tick EXCEPT ![p] = [Off EXCEPT !.pc = "stopped"]]
    /\ UNCHANGED <<chain, fate, cached, tx, ever, moves, reorgs>>

StatusFails(p) ==
    /\ TickAt(p, "status") /\ faults < MaxFaults /\ faults' = faults + 1
    /\ tick' = [tick EXCEPT ![p].pc = "next", ![p].work = None]
    /\ UNCHANGED <<chain, fate, cached, tx, ever, moves, reorgs>>

\* Faulty variant: a receipt is enough.
MinedAnswer(saw) == IF saw \in {"mined", "final"} THEN "completed"
                    ELSE IF saw = "reverted" THEN "failed" ELSE "pending"

\* EvmChainProvider: success counts from finalityBlocks on, a revert at once,
\* no receipt is "pending"; "dropped" is never answered.
Answer(saw) == IF saw = "final" THEN "completed"
               ELSE IF saw = "reverted" THEN "failed" ELSE "pending"

\* settleOnChainTransaction, whatever the row's status and hash are by now.
Settle(p) ==
    LET t == tick[p].work[1] IN
    /\ TickAt(p, "settle")
    /\ tx' = IF Answer(tick[p].saw) = "pending" THEN tx
             ELSE [tx EXCEPT ![t].status = Answer(tick[p].saw)]
    /\ tick' = [tick EXCEPT ![p].pc = "next", ![p].work = None, ![p].saw = "unknown"]
    /\ UNCHANGED <<chain, fate, cached, ever, moves, faults, reorgs>>

TickMoves(p) ==
    \/ ListTreasuries(p) \/ ReadTokenBalance(p) \/ UpdateSyncedBalance(p)
    \/ ListPendings(p) \/ NextPending(p) \/ ReadTransactionStatus(p) \/ Settle(p)

Next ==
    \/ \E p \in Process : TickMoves(p) \/ Start(p) \/ ReadFails(p) \/ StatusFails(p)
    \/ Crash(Daemon)
    \/ ChainMoves \/ PrepareOnChainIntent
    \/ \E h \in Hash : Mine(h) \/ Finalise(h) \/ Reorganise(h)
    \/ \E t \in Tx, h \in Hash : ConfirmOnChainTransfer(t, h)

\* The daemon is restarted by its supervisor and its timer fires again after
\* each tick; nothing is asked of --once runs, clients or the chain.
Fairness == WF_vars(TickMoves(Daemon)) /\ WF_vars(Start(Daemon))
Spec == Init /\ [][Next]_vars /\ Fairness

-----------------------------------------------------------------------------
\* Once the chain is quiet the cached balance ends within the dust threshold of
\* it for good, whatever stale reads, errors and crashes came before.
CacheConverges == <>[](chain - cached <= Dust /\ cached - chain <= Dust)

\* A row is completed only on a hash of its own that had become final, also when
\* the client replaced the hash between the tick's read and its write.
CompletedWasFinal ==
    \A t \in Tx : tx[t].status = "completed" => \E h \in ever[t] : fate[h] = "final"

\* A final transaction among the Batch oldest pending rows does not stay pending,
\* whatever errors, crashes and reorganisations came before. Only those are looked
\* at: rows whose hashes are never mined keep younger rows waiting for good once
\* they fill a batch, though the watcher's comment has every row reported as
\* confirmed or failed moved to a final status.
Overdue(t) == t \in OldestRows(PendingRows) /\ fate[tx[t].hash] = "final"
FinalIsSettled == \A t \in 1..MaxTx : Overdue(t) ~> ~Overdue(t)
=============================================================================
