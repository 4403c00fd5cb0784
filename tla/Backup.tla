------------------------------- MODULE Backup -------------------------------
(* Backups: BackupService.create over tables that keep changing, the daily    *)
(* job with its object store and its retention, and what a restore accepts.   *)
(* The editor's requests are those of Vertical, with fewer steps.             *)
EXTENDS Integers, Sequences, FiniteSets, SequencesExt

CONSTANTS
    Place, Hall, Nowhere, \* nodes; the lobby; the parent of a root, no seat
    Member,
    Standing,     \* the nodes at the start, roots like the lobby
    Task, Cli,    \* daily jobs that may overlap; requests of the CLI, a subset of Task
    Keep,         \* KRWN_BACKUP_RETENTION_COUNT, at least 1 here (0: no pruning)
    MaxBackups, MaxChanges, MaxOutages, MaxEvents  \* bounds, MaxEvents on changes and outages

BackupConstants ==
    /\ Keep \in Nat \ {0} /\ Cli \subseteq Task /\ IsFiniteSet(Place) /\ Nowhere \notin Place
    /\ Hall \in Place /\ Standing \subseteq Place \ {Hall}

VARIABLES
    branch, office, \* VerticalNode.parentId, Membership.nodeId
    moving,         \* moves of the editor between their climb and their write
    task,           \* locals of the runs
    object,         \* s3 objects that exist, by the id of their backup
    manifest,       \* BackupManifest rows in order of createdAt
    nextId,         \* ids given out: file names carry the millisecond
    changes, outages

backupVars == <<branch, office, moving, task, object, manifest, nextId, changes, outages>>
stateVars == <<branch, office, moving, changes>>
storeVars == <<object, manifest, nextId>>

Built == DOMAIN branch
Occupied == {office[u] : u \in Member} \ {Nowhere}
NoTask == [pc |-> "idle"]

BackupInit ==
    /\ branch = [n \in Standing \cup {Hall} |-> Nowhere]
    /\ office = [u \in Member |-> Nowhere] /\ moving = {}
    /\ task = [r \in Task |-> NoTask] /\ object = {} /\ manifest = <<>>
    /\ nextId = 1 /\ changes = 0 /\ outages = 0

-----------------------------------------------------------------------------
\* sortNodesForRestore: parents before children, until a batch is empty.
Placed(tree) ==
    LET placed[k \in 0..Cardinality(Place)] ==
            IF k = 0 THEN {} ELSE {n \in DOMAIN tree : tree[n] = Nowhere \/ tree[n] \in placed[k - 1]}
    IN placed[Cardinality(Place)]

\* Some nodes, not none, have their parents among themselves.
Closed(tree, S) == \A n \in S : tree[n] \in S
Cycle(tree) == \E S \in SUBSET DOMAIN tree : S # {} /\ Closed(tree, S)

-----------------------------------------------------------------------------
(* The State goes on; a run between its reads has a torn picture. *)
Torn(q) == IF q.pc = "collect" /\ q.read # {} THEN [q EXCEPT !.torn = TRUE] ELSE q
MoreEvents == changes + outages < MaxEvents
OutageComes == outages < MaxOutages /\ MoreEvents /\ outages' = outages + 1
Change ==
    /\ changes < MaxChanges /\ MoreEvents /\ changes' = changes + 1
    /\ task' = [r \in Task |-> Torn(task[r])] /\ UNCHANGED <<storeVars, outages>>

AddNode(n, p) ==
    /\ n \notin Built /\ p \in Built \cup {Nowhere} /\ Change
    /\ branch' = [m \in Built \cup {n} |-> IF m = n THEN p ELSE branch[m]]
    /\ UNCHANGED <<office, moving>>
DeleteNode(n) ==
    /\ n \in Built \ {Hall} /\ Change
    /\ branch' = [m \in Built \ {n} |-> IF branch[m] = n THEN Nowhere ELSE branch[m]]
    /\ office' = [u \in Member |-> IF office[u] = n THEN Nowhere ELSE office[u]]
    /\ moving' = {m \in moving : n \notin {m[1], m[2]}}   \* their writes will fail
TakeSeat(u, n) ==
    /\ n \in Built /\ office[u] # n /\ Change /\ office' = [office EXCEPT ![u] = n]
    /\ UNCHANGED <<branch, moving>>

\* wouldCreateCycle: the climb from p comes to a root and does not meet n.
StartMove(n, p) ==
    /\ n \in Built /\ <<n, p>> \notin moving /\ branch[n] # p
    /\ changes + Cardinality(moving) < MaxChanges
    /\ p = Nowhere \/ p \in Placed([m \in Built \ {n} |-> branch[m]])
    /\ moving' = moving \cup {<<n, p>>}
    /\ UNCHANGED <<branch, office, changes, task, storeVars, outages>>
\* update by id alone, whatever the tree is by now.
FinishMove(n, p) ==
    /\ <<n, p>> \in moving /\ moving' = moving \ {<<n, p>>} /\ Change
    /\ branch' = [branch EXCEPT ![n] = p] /\ UNCHANGED office
\* PUT of a whole tree that validateProposedStructure lets through.
SaveTree(tree) ==
    /\ tree[Hall] = branch[Hall] /\ ~ Cycle(tree) /\ tree # branch /\ Change
    /\ branch' = tree /\ UNCHANGED <<office, moving>>

-----------------------------------------------------------------------------
(* BackupService.create *)
BeginBackup(r) ==
    /\ task[r] = NoTask /\ nextId <= MaxBackups /\ nextId' = nextId + 1
    /\ task' = [task EXCEPT ![r] = [pc |-> "collect", id |-> nextId, read |-> {},
                                    tree |-> <<>>, seats |-> {}, torn |-> FALSE]]
    /\ UNCHANGED <<stateVars, object, manifest, outages>>

\* The reads run in parallel, each a statement of its own.
Collected(r, table, tree, seats) ==
    LET q == task[r]
        read == q.read \cup {table}
    IN
    /\ q.pc = "collect" /\ table \notin q.read
    /\ task' = [task EXCEPT ![r] = [pc |-> IF read = {"tree", "seats"} THEN "write" ELSE "collect",
                    id |-> q.id, read |-> read, tree |-> tree, seats |-> seats, torn |-> q.torn]]
    /\ UNCHANGED <<stateVars, storeVars, outages>>
CollectVertical(r) == Collected(r, "tree", branch, task[r].seats)
CollectMemberships(r) == Collected(r, "seats", task[r].tree, Occupied)

\* The object store; a backup of the CLI travels in a data: URI instead.
StoreObject(r) ==
    /\ task[r].pc = "write"
    /\ object' = IF r \in Cli THEN object ELSE object \cup {task[r].id}
    /\ task' = [task EXCEPT ![r] = [@ EXCEPT !.pc = "record"]]
    /\ UNCHANGED <<stateVars, manifest, nextId, outages>>

RecordManifest(r) ==
    LET q == task[r] IN
    /\ q.pc = "record"
    /\ manifest' = Append(manifest, [id |-> q.id, s3 |-> r \notin Cli, tree |-> q.tree,
                                     seats |-> q.seats, torn |-> q.torn])
    /\ task' = [task EXCEPT ![r] = IF r \in Cli THEN NoTask ELSE [pc |-> "list"]]
    /\ UNCHANGED <<stateVars, object, nextId, outages>>

\* Faulty variant: the order of createdAt is taken the other way round.
NewestFirst(rows) == SubSeq(rows, Keep + 1, Len(rows))
\* pruneBackupManifests: everything but the Keep newest rows, newest first.
Victims(rows) == SubSeq(Reverse(rows), Keep + 1, Len(rows))

Pruning(step, todo) == [pc |-> step, todo |-> todo]
ListManifests(r) ==
    /\ task[r].pc = "list"
    /\ task' = [task EXCEPT ![r] = Pruning("object", Victims(manifest))]
    /\ UNCHANGED <<stateVars, storeVars, outages>>

\* A failing victim is reported and skipped.
DeleteObject(r) ==
    LET todo == task[r].todo IN
    /\ task[r].pc = "object" /\ todo # <<>>
    /\ \/ /\ object' = IF todo[1].s3 THEN object \ {todo[1].id} ELSE object
          /\ task' = [task EXCEPT ![r] = Pruning("row", todo)] /\ UNCHANGED outages
       \/ /\ OutageComes /\ UNCHANGED object
          /\ task' = [task EXCEPT ![r] = Pruning("object", Tail(todo))]
    /\ UNCHANGED <<stateVars, manifest, nextId>>

\* The row may be gone, which is a failure like any other.
DeleteManifest(r) ==
    LET todo == task[r].todo IN
    /\ task[r].pc = "row"
    /\ \/ \E k \in 1..Len(manifest) : manifest[k].id = todo[1].id /\ manifest' = RemoveAt(manifest, k)
                                      /\ UNCHANGED outages
       \/ (\A k \in 1..Len(manifest) : manifest[k].id # todo[1].id) /\ UNCHANGED <<manifest, outages>>
       \/ OutageComes /\ UNCHANGED manifest
    /\ task' = [task EXCEPT ![r] = Pruning("object", Tail(todo))]
    /\ UNCHANGED <<stateVars, object, nextId>>

EndPrune(r) ==
    /\ task[r].pc = "object" /\ task[r].todo = <<>>
    /\ task' = [task EXCEPT ![r] = NoTask] /\ UNCHANGED <<stateVars, storeVars, outages>>

\* A read, an upload or an insert fails, or the worker dies: the run is over.
TaskDies(r) ==
    /\ task[r] # NoTask /\ OutageComes
    /\ task' = [task EXCEPT ![r] = NoTask] /\ UNCHANGED <<stateVars, storeVars>>

BackupNext ==
    \/ \E n \in Place : DeleteNode(n) \/ \E p \in Place \cup {Nowhere} : AddNode(n, p)
    \/ \E u \in Member, n \in Place : TakeSeat(u, n)
    \/ \E n \in Place, p \in Place \cup {Nowhere} : StartMove(n, p) \/ FinishMove(n, p)
    \/ \E tree \in [Built -> Built \cup {Nowhere}] : SaveTree(tree)
    \/ \E r \in Task : \/ BeginBackup(r) \/ CollectVertical(r) \/ CollectMemberships(r) \/ StoreObject(r)
                       \/ RecordManifest(r) \/ ListManifests(r) \/ DeleteObject(r)
                       \/ DeleteManifest(r) \/ EndPrune(r) \/ TaskDies(r)

BackupSpec == BackupInit /\ [][BackupNext]_backupVars

-----------------------------------------------------------------------------
\* restoreBackupPayload: the vertical, then the memberships, whose foreign key
\* wants their node.
Restores(row) == Placed(row.tree) = DOMAIN row.tree /\ row.seats \subseteq DOMAIN row.tree

\* Whatever runs overlap, fail or die: the Keep newest backups still have their
\* archive, and one that no change of the State fell into restores exactly when
\* its tree has no cycle. Two moves that overlap close one, and every backup
\* then made is refused by the restore until somebody breaks it.
NewestBackupsRestore ==
    \A k \in 1..Len(manifest) : k > Len(manifest) - Keep =>
        /\ manifest[k].s3 => manifest[k].id \in object
        /\ manifest[k].torn \/ (Restores(manifest[k]) <=> ~ Cycle(manifest[k].tree))
=============================================================================
