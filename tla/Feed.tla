-------------------------------- MODULE Feed --------------------------------
(* The activity feed as one viewer's dashboard shows it: pages of the log read *)
(* backwards by createdAt, filtered by visibility after an overfetch, and the  *)
(* live stream beside them; the reaper deletes what has expired.               *)
EXTENDS Integers, FiniteSets, FiniteSetsExt

CONSTANTS
    Viewer, NoOne,     \* the viewer; no user and no node
    Lineage, SeatedAt, \* node -> the node and its ancestors; -> its active members
    Histories,         \* logs to begin with
    Slots, Events,     \* ids of what is recorded while the page is open, each with
    NewsAt,            \* what it may be, and their createdAt
    Limit,             \* rows of a page; a read fetches 3 * Limit
    Expiries,          \* times the retention cutoff reaches
    MaxDrops           \* bound: how often the stream is cut or a row not published

\* A row: [id, at, visibility, actor, node, audience]. An event: [kind, actor,
\* node, users], for a transaction [kind, status, actor, from, to], each side the
\* owner of a wallet.
End == 0          \* times begin at 1
Top == 100        \* later than every row

FeedConstants ==
    /\ Limit \in Nat \ {0} /\ MaxDrops \in Nat
    /\ DOMAIN SeatedAt = DOMAIN Lineage /\ Viewer \notin DOMAIN Lineage \cup {NoOne}
    /\ NewsAt \in 1..(Top - 1) /\ Expiries \subseteq Nat
    /\ \A history \in Histories :
         /\ IsFiniteSet(history) /\ \A x, y \in history : x.id = y.id => x = y
         /\ \A x \in history : x.id \notin Slots /\ x.at \in 1..(Top - 1)
    \* The event of a new channel names no user, that of a merger no office.
    /\ \A i \in Slots : \A e \in Events[i] :
         /\ e.kind = "channel" => e.actor = NoOne /\ e.users = {}
         /\ e.kind = "merged" => e.users = {}

VARIABLES
    log,        \* ActivityLog
    cutoff,     \* getActivityLogRetentionCutoff of now
    subscribed, \* the viewer's stream is subscribed
    arriving,   \* entries published and not yet ingested
    entries,    \* ids that the page shows
    nextBefore, \* cursor of "load more": a time, or End
    load,       \* the request in flight and its answer
    missed,     \* ghost: ids recorded or ingested where no page can bring them
    said,       \* ghost: the events that filled the slots
    cuts,       \* ghost: createdAt of the last entries of the pages
    skipped,    \* ghost: oldest createdAt that an empty page had fetched
    drops

feedVars == <<log, cutoff, subscribed, arriving, entries, nextBefore, load, missed, said, cuts, skipped, drops>>
pageVars == <<entries, nextBefore, load>>
feedGhosts == <<missed, said, cuts, skipped>>

NoLoad == [pc |-> "none"]

\* scopeNodeIds: the nodes at or above a seat of the viewer.
Scope == UNION {Lineage[n] : n \in {n \in DOMAIN SeatedAt : Viewer \in SeatedAt[n]}}

IsVisibleTo(x) ==
    \/ x.actor = Viewer
    \/ Viewer \in x.audience
    \/ x.visibility = "public"
    \/ x.visibility = "node" /\ x.node \in Scope

FeedInit ==
    /\ log \in Histories /\ cutoff = 0 /\ subscribed = FALSE /\ arriving = {}
    /\ entries = {} /\ nextBefore = End /\ load = [pc |-> "start"]
    /\ missed = {} /\ said = <<>> /\ cuts = {} /\ skipped = End /\ drops = 0

-----------------------------------------------------------------------------
Ids(rows) == {x.id : x \in rows}
OldestOf(rows) == Min({x.at : x \in rows})
Loading == load.pc = "answer" /\ load.first

\* publishTransactionCreated: who sits at or above a treasury hears of it.
Owners(side) ==
    IF side \in DOMAIN Lineage THEN UNION {SeatedAt[n] : n \in Lineage[side]} ELSE {side}
RecipientUserIds(tx) == ({tx.actor} \cup Owners(tx.from) \cup Owners(tx.to)) \ {NoOne}

\* subscribeActivityFeed: the rows that the events of each module become.
FeedRow(visibility, actor, node, audience) ==
    [visibility |-> visibility, actor |-> actor, node |-> node, audience |-> audience]
ClassifyWalletTx(tx) == IF tx.kind \in {"mint", "burn"} THEN "public" ELSE "audience"
WalletRow(tx) == FeedRow(ClassifyWalletTx(tx), tx.actor, NoOne, RecipientUserIds(tx))
ChatRow(e) ==
    IF e.kind = "channel"
    THEN FeedRow(IF e.node = NoOne THEN "public" ELSE "node", NoOne, e.node, {})
    ELSE FeedRow("audience", e.actor, e.node, {e.actor} \cup e.users)
StateRow(e) == FeedRow("public", e.actor, NoOne, {})
KernelRow(e) ==
    IF e.kind = "merged" THEN FeedRow("sovereign", e.actor, NoOne, {})
    ELSE FeedRow(IF e.kind \in {"granted", "revoked"} THEN "node" ELSE "public", e.actor, e.node, e.users)

WalletKinds == {"transfer", "treasury_allocation", "mint", "burn"}
EntryOf(e) ==
    IF e.kind \in WalletKinds THEN WalletRow(e)
    ELSE IF e.kind \in {"channel", "message", "directive"} THEN ChatRow(e)
    ELSE IF e.kind \in {"created", "closed", "executed", "vetoed", "settings"} THEN StateRow(e)
    ELSE KernelRow(e)
Recorded(e) == e.kind # "message" /\ (e.kind \in WalletKinds => e.status = "completed")

NewRow(i, e) ==
    LET y == EntryOf(e) IN
    [id |-> i, at |-> NewsAt,
     visibility |-> y.visibility, actor |-> y.actor, node |-> y.node, audience |-> y.audience]

\* record: insert, which may fail and then changes nothing, and the event, whose
\* failure is swallowed; isVisibleTo filters it on the way to a stream.
Record(i, e) ==
    LET x == NewRow(i, e) IN
    /\ i \in Slots \ DOMAIN said /\ e \in Events[i] /\ Recorded(e)
    /\ log' = log \cup {x}
    /\ said' = [j \in DOMAIN said \cup {i} |-> IF j = i THEN e ELSE said[j]]
    /\ \E published \in BOOLEAN :
        /\ published \/ drops < MaxDrops
        /\ drops' = IF published THEN drops ELSE drops + 1
        /\ arriving' = IF published /\ subscribed /\ IsVisibleTo(x) THEN arriving \cup {i} ELSE arriving
        /\ missed' = IF (published /\ subscribed) \/ load.pc = "start" THEN missed ELSE missed \cup {i}
    /\ UNCHANGED <<cutoff, subscribed, pageVars, cuts, skipped>>

\* Time passes: rows expire, and later the reaper deletes them.
RowsExpire(t) ==
    /\ t > cutoff /\ cutoff' = t
    /\ UNCHANGED <<log, subscribed, arriving, pageVars, feedGhosts, drops>>
ReapActivityLog ==
    /\ \E x \in log : x.at < cutoff
    /\ log' = {x \in log : x.at >= cutoff}
    /\ UNCHANGED <<cutoff, subscribed, arriving, pageVars, feedGhosts, drops>>

-----------------------------------------------------------------------------
\* listByState: createdAt descending below the cursor, at most n; rows of one
\* createdAt come in any order.
ListByState(before, n) ==
    LET found == {x \in log : x.at < before /\ x.at >= cutoff}
    IN {rows \in SUBSET found :
           /\ Cardinality(rows) = Min({n, Cardinality(found)})
           /\ \A x \in rows, y \in found \ rows : x.at >= y.at}

\* visible.slice(0, limit)
Slices(rows) ==
    {s \in SUBSET rows : /\ Cardinality(s) = Min({Limit, Cardinality(rows)})
                         /\ \A x \in s, y \in rows \ s : x.at >= y.at}

\* Faulty variant: the cursor goes on behind the last row fetched.
CursorOfFetched(shown, fetched) == IF fetched = {} THEN End ELSE OldestOf(fetched)
Cursor(shown, fetched) == IF shown = {} THEN End ELSE OldestOf(shown)

\* GET /api/activity, at the moment the log is read.
ListForViewer(before, first) ==
    \E fetched \in ListByState(before, 3 * Limit) :
    \E shown \in Slices({x \in fetched : IsVisibleTo(x)}) :
        /\ load' = [pc |-> "answer", first |-> first, ids |-> Ids(shown),
                    next |-> Cursor(shown, fetched)]
        /\ cuts' = IF shown = {} THEN cuts ELSE cuts \cup {OldestOf(shown)}
        /\ skipped' = IF shown = {} /\ fetched # {} THEN OldestOf(fetched) ELSE skipped
    /\ UNCHANGED <<log, cutoff, subscribed, arriving, entries, nextBefore, missed, said, drops>>

LoadInitial == load.pc = "start" /\ ListForViewer(Top, TRUE)
LoadMore == load.pc = "none" /\ nextBefore # End /\ ListForViewer(nextBefore, FALSE)

\* The first answer replaces what the stream has brought by then.
ShowRows ==
    /\ load.pc = "answer" /\ load' = NoLoad
    /\ entries' = IF load.first THEN load.ids ELSE entries \cup load.ids
    /\ nextBefore' = load.next
    /\ UNCHANGED <<log, cutoff, subscribed, arriving, feedGhosts, drops>>

-----------------------------------------------------------------------------
\* The stream opens beside the first load, and EventSource reopens it.
Connect ==
    /\ ~ subscribed /\ subscribed' = TRUE
    /\ UNCHANGED <<log, cutoff, arriving, pageVars, feedGhosts, drops>>
Drop ==
    /\ subscribed /\ drops < MaxDrops /\ drops' = drops + 1
    /\ subscribed' = FALSE /\ arriving' = {} /\ missed' = missed \cup arriving
    /\ UNCHANGED <<log, cutoff, pageVars, said, cuts, skipped>>

\* ingestEntry: what is shown already, as on a second delivery, is dropped.
Ingest(i) ==
    /\ i \in arriving /\ arriving' = arriving \ {i} /\ entries' = entries \cup {i}
    /\ missed' = IF Loading /\ i \notin load.ids THEN missed \cup {i} ELSE missed
    /\ UNCHANGED <<log, cutoff, subscribed, nextBefore, load, said, cuts, skipped, drops>>

FeedNext ==
    \/ \E i \in Slots : \E e \in Events[i] : Record(i, e)
    \/ \E t \in Expiries : RowsExpire(t)
    \/ \E i \in Slots : Ingest(i)
    \/ ReapActivityLog \/ LoadInitial \/ LoadMore \/ ShowRows \/ Connect \/ Drop

FeedSpec == FeedInit /\ [][FeedNext]_feedVars

-----------------------------------------------------------------------------
\* The reference: whom an event is about. Transactions, directives, seats, offices
\* and mergers are the matter of those they name or touch, all else is public. What
\* is about a node is the matter of whoever has the node in the scope that
\* ActivityViewerContext defines, the nodes of the viewer and all above them: of those
\* who sit at the node or below it. (Two other comments of activity-feed.ts say at
\* the node or above it, which no code does.)
Sits(nodes) == \E n \in nodes : Viewer \in SeatedAt[n]
AtOrBelow(n) == {m \in DOMAIN Lineage : n \in Lineage[m]}
Concerns(e) ==
    \/ e.actor = Viewer
    \/ e.kind \in WalletKinds /\ \E side \in {e.from, e.to} :
           side = Viewer \/ (side \in DOMAIN Lineage /\ Sits(Lineage[side]))
    \/ e.kind \notin WalletKinds /\ Viewer \in e.users
    \/ e.kind \in {"channel", "granted", "revoked"} /\ Sits(AtOrBelow(e.node))
    \/ e.kind = "channel" /\ e.node = NoOne
    \/ e.kind \notin {"transfer", "treasury_allocation", "channel", "directive",
                      "granted", "revoked", "merged"}
IsDue(x) == IF x.id \in Slots THEN Concerns(said[x.id]) ELSE IsVisibleTo(x)

\* When a viewer has loaded every page and the stream has delivered, the feed shows
\* every row that concerns the viewer within that scope, but for those that expired,
\* that share their createdAt with the last entry of a page, that lie below a read
\* all of which the viewer may not see, that were recorded without a stream or
\* not published, or that were ingested before the first page came and replaced
\* them. At no time does it show a row that does not concern the viewer.
FeedFollowsScope ==
    /\ \A x \in log : x.id \in entries => IsDue(x)
    /\ load.pc = "none" /\ nextBefore = End /\ arriving = {} =>
        \A x \in log : IsDue(x) /\ x.at >= cutoff =>
            \/ x.id \in entries
            \/ x.at \in cuts
            \/ x.at <= skipped
            \/ x.id \in missed
=============================================================================
