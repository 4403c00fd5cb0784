------------------------------ MODULE Vertical ------------------------------
(* The Vertical, the tree of nodes of one State: its editor (POST, PATCH,     *)
(* DELETE of a node, PUT of the whole tree), the helpers of vertical-tree.ts  *)
(* and the permissions engine, which walk it.                                 *)
EXTENDS Integers, FiniteSets, FiniteSetsExt

CONSTANTS
    NodeId, Lobby, NoParent, \* node ids; the lobby; the parent of a root
    Grants,              \* permissions of each node
    Existing,            \* the nodes the State starts with: roots
    Editor,              \* concurrent PATCH or PUT requests
    Permission, Domain, All, Wildcard \* keys; key -> its domain; "*"; domain -> "d.*"

VerticalConstants ==
    /\ NoParent \notin NodeId /\ IsFiniteSet(NodeId)
    /\ Lobby \in Existing /\ Existing \subseteq NodeId

VARIABLES
    parent,    \* parentId of the live nodes
    unused,    \* ids not given out yet
    req,       \* locals of the requests
    raced      \* history: a PATCH wrote after another move had committed

verticalVars == <<parent, unused, req, raced>>

Live == DOMAIN parent
NoEdit == [pc |-> "idle"]

VerticalInit ==
    /\ parent = [n \in Existing |-> NoParent] /\ unused = NodeId \ Existing
    /\ req = [r \in Editor |-> NoEdit] /\ raced = FALSE

-----------------------------------------------------------------------------
(* The pure helpers. Every walk stops at a root, a missing node or a node     *)
(* seen before; as many steps as there are nodes reach all it can see.        *)
Up(par, n) == IF n \in DOMAIN par THEN par[n] ELSE NoParent
Climb(par, n) ==
    LET at[k \in 0..Cardinality(NodeId)] == IF k = 0 THEN n ELSE Up(par, at[k - 1]) IN at

\* Faulty variant: the node itself and its parent only.
OneLevel(par, n) == {n, Up(par, n)} \cap DOMAIN par
\* walkUp: the node and its ancestors, as far as they exist.
WalkUp(par, n) == {Climb(par, n)[k] : k \in 0..Cardinality(NodeId)} \cap DOMAIN par

\* A walk of more steps than there are nodes has met one of them again.
HasParentCycle(par) == \E n \in DOMAIN par : Climb(par, n)[Cardinality(NodeId)] # NoParent
IsAncestorOf(par, a, n) == a \in WalkUp(par, n)
IsMemberOfNodeOrAncestor(par, mine, n) == n \in mine \/ WalkUp(par, n) \cap mine # {}

\* sortForStructuralApply: the batch each node is placed in; 0 when it throws.
Batch(par) ==
    LET placed[k \in 0..Cardinality(NodeId)] ==
            IF k = 0 THEN {}
            ELSE {n \in DOMAIN par : par[n] = NoParent \/ par[n] \in placed[k - 1]}
        batch(n) == {k \in 1..Cardinality(NodeId) : n \in placed[k]}
    IN [n \in DOMAIN par |->
            IF batch(n) = {} THEN 0 ELSE CHOOSE k \in batch(n) : \A j \in batch(n) : k <= j]

NodeGrants(n, p) == Grants[n] \cap {All, p, Wildcard[Domain[p]]} # {}
Check(par, mine, p) == \E m \in mine : \E n \in WalkUp(par, m) : NodeGrants(n, p)
ResolveAll(par, mine) == UNION {Grants[n] : n \in UNION {WalkUp(par, m) : m \in mine}}
HasPermission(held, p) == {All, p, Wildcard[Domain[p]]} \cap held # {}

\* scopeNodeIds, what the feed and the gateway resolve when a stream opens: the
\* climb from a seat stops at what an earlier one has brought in.
ClimbInto(par, m, scope) ==
    {Climb(par, m)[k] : k \in {k \in 0..Cardinality(NodeId) :
        \A j \in 0..k : Climb(par, m)[j] \in DOMAIN par \ scope}}
ScopeNodeIds(par, mine) == FoldSet(LAMBDA m, scope : scope \cup ClimbInto(par, m, scope), {}, mine)
\* assertCanSpendFromWallet, assertCanReadWallet: the treasury of n, for one of keys.
MayUseTreasury(par, mine, n, keys) ==
    /\ \E p \in keys : HasPermission(ResolveAll(par, mine), p)
    /\ IsMemberOfNodeOrAncestor(par, mine, n)
\* canActOnVerticalNode, of the citizens' administration, by the engine's own walk.
CanActOnVerticalNode(par, mine, n, p) == Check(par, mine, p) /\ IsMemberOfNodeOrAncestor(par, mine, n)
\* depthOf and the seat whose path the pulse shows as the role: one of the deepest.
DepthOf(par, n) == Cardinality({m \in WalkUp(par, n) : par[m] # NoParent})
RoleSeats(par, mine) == {m \in mine : \A o \in mine : DepthOf(par, o) <= DepthOf(par, m)}

-----------------------------------------------------------------------------
(* The editor *)
\* A PUT past its updateMany holds the lock of every row it met.
Locked(n) == \E r \in Editor : req[r].pc = "applying" /\ n \in req[r].met

\* POST, by the editor or the CLI; the foreign key refuses a parent gone since its check.
PostNode(n, p) ==
    /\ n \in unused /\ p \in Live \cup {NoParent}
    /\ parent' = [m \in Live \cup {n} |-> IF m = n THEN p ELSE parent[m]]
    /\ unused' = unused \ {n} /\ UNCHANGED <<req, raced>>

\* DELETE: the children become roots.
Delete(n) ==
    /\ n \in Live /\ n # Lobby
    /\ \A m \in Live : m = n \/ parent[m] = n => ~Locked(m)
    /\ parent' = [m \in Live \ {n} |-> IF parent[m] = n THEN NoParent ELSE parent[m]]
    /\ UNCHANGED <<unused, req, raced>>

PatchStart(r, n, p) ==
    /\ req[r] = NoEdit /\ n \in Live /\ p \in (Live \cup {NoParent}) \ {n}
    /\ req' = [req EXCEPT ![r] =
         IF p = NoParent THEN [pc |-> "patch", node |-> n, to |-> p, stale |-> FALSE]
         ELSE [pc |-> "climb", node |-> n, to |-> p, at |-> p, seen |-> {}, stale |-> FALSE]]
    /\ UNCHANGED <<parent, unused, raced>>

\* Faulty variant: the climb looks at the new parent and at its parent only.
ClimbTwice(r) ==
    LET q == req[r] next == Up(parent, q.at) IN
    /\ q.pc = "climb"
    /\ req' = [req EXCEPT ![r] = IF next = q.node THEN NoEdit
         ELSE [pc |-> "patch", node |-> q.node, to |-> q.to, stale |-> q.stale]]
    /\ UNCHANGED <<parent, unused, raced>>

\* wouldCreateCycle, one read of the climb.
WouldCreateCycle(r) ==
    LET q == req[r]
        next == Up(parent, q.at)
        seen == q.seen \cup {q.at}
    IN
    /\ q.pc = "climb"
    /\ req' = [req EXCEPT ![r] =
         IF next = NoParent THEN [pc |-> "patch", node |-> q.node, to |-> q.to, stale |-> q.stale]
         ELSE IF next = q.node \/ next \in seen THEN NoEdit
         ELSE [q EXCEPT !.at = next, !.seen = seen]]
    /\ UNCHANGED <<parent, unused, raced>>

\* A move that commits makes what other requests have read stale.
Outdated(q) == IF "stale" \in DOMAIN q THEN [q EXCEPT !.stale = TRUE] ELSE q
MovesOn(r) == [s \in Editor |-> IF s = r THEN NoEdit ELSE Outdated(req[s])]

\* update by id alone; a missing row or parent is an error of the database.
PatchWrite(r) ==
    LET q == req[r]
        fits == q.node \in Live /\ q.to \in Live \cup {NoParent}
    IN
    /\ q.pc = "patch" /\ ~Locked(q.node)
    /\ parent' = IF fits THEN [parent EXCEPT ![q.node] = q.to] ELSE parent
    /\ req' = IF fits THEN MovesOn(r) ELSE [req EXCEPT ![r] = NoEdit]
    /\ raced' = (raced \/ (fits /\ q.stale)) /\ UNCHANGED unused

\* validateProposedStructure over all nodes as they are read.
PutStart(r) ==
    /\ req[r] = NoEdit
    /\ \E tree \in [Live -> Live \cup {NoParent}] :
        /\ tree[Lobby] = parent[Lobby] /\ ~HasParentCycle(tree)
        /\ req' = [req EXCEPT ![r] = [pc |-> "put", tree |-> tree]]
    /\ UNCHANGED <<parent, unused, raced>>

\* updateMany sets every parentId to null, which nobody else sees yet.
PutClear(r) ==
    /\ req[r].pc = "put" /\ \A n \in Live : ~Locked(n)
    /\ req' = [req EXCEPT ![r] = [pc |-> "applying", tree |-> @.tree, met |-> Live]]
    /\ UNCHANGED <<parent, unused, raced>>

\* The rows of the request one by one, then COMMIT; a missing row rolls back.
PutCommit(r) ==
    LET q == req[r]
        fits == DOMAIN q.tree \subseteq Live
    IN
    /\ q.pc = "applying"
    /\ parent' = IF ~fits THEN parent
                 ELSE [n \in Live |-> IF n \in DOMAIN q.tree THEN q.tree[n]
                                      ELSE IF n \in q.met THEN NoParent ELSE parent[n]]
    /\ req' = IF fits THEN MovesOn(r) ELSE [req EXCEPT ![r] = NoEdit]
    /\ UNCHANGED <<unused, raced>>

VerticalNext ==
    \/ \E n \in NodeId, p \in NodeId \cup {NoParent} : PostNode(n, p)
    \/ \E n \in NodeId : Delete(n)
    \/ \E r \in Editor :
         \/ \E n \in NodeId, p \in NodeId \cup {NoParent} : PatchStart(r, n, p)
         \/ WouldCreateCycle(r) \/ PatchWrite(r)
         \/ PutStart(r) \/ PutClear(r) \/ PutCommit(r)

VerticalSpec == VerticalInit /\ [][VerticalNext]_verticalVars

-----------------------------------------------------------------------------
\* The reference: a is n or above n when every set of nodes that holds n and
\* is closed under the parent pointer holds a.
Reaches(par, a, n) ==
    \A S \in SUBSET DOMAIN par :
        n \in S /\ (\A m \in S : par[m] # NoParent => par[m] \in S) => a \in S
Cyclic(par) == \E n \in DOMAIN par : par[n] # NoParent /\ Reaches(par, n, par[n])

\* The tree loses its shape only if one move committed between another's climb
\* and its write: a move on its own, a whole-tree save, a deletion, and a save
\* that overlaps one of these never close a cycle.
CyclesNeedOverlap == raced \/ ~Cyclic(parent)

\* On every tree the editor can leave, cyclic ones included, the walks end and
\* see exactly the nodes above; a save's batches place every parent first and
\* fail only on a cycle; the engine's walk gives the permissions that the set
\* resolved at the start of a request gives; a treasury, and an office to its
\* administrators, open to whoever sits at the node or above and inherits the key
\* in any seat; the scope of the feed holds every node above a seat; and no seat lies below
\* the one shown as the role.
NodesAbove(par, n) == {a \in DOMAIN par : Reaches(par, a, n)}
Granted(par, mine, p) == \E m \in mine : \E a \in NodesAbove(par, m) : NodeGrants(a, p)
Agree(par) ==
    /\ \A a, n \in DOMAIN par : IsAncestorOf(par, a, n) <=> Reaches(par, a, n)
    /\ HasParentCycle(par) <=> Cyclic(par)
    /\ (\E n \in DOMAIN par : Batch(par)[n] = 0) <=> Cyclic(par)
    /\ Cyclic(par) \/ \A n \in DOMAIN par : par[n] # NoParent => Batch(par)[par[n]] < Batch(par)[n]
    /\ \A mine \in SUBSET DOMAIN par :
        /\ ScopeNodeIds(par, mine) = UNION {NodesAbove(par, m) : m \in mine}
        /\ Cyclic(par) \/ \A s \in RoleSeats(par, mine), m \in mine : Reaches(par, s, m) => s = m
        /\ \A n \in DOMAIN par :
             IsMemberOfNodeOrAncestor(par, mine, n) <=> NodesAbove(par, n) \cap mine # {}
        /\ \A p \in Permission :
             /\ Check(par, mine, p) <=> Granted(par, mine, p)
             /\ HasPermission(ResolveAll(par, mine), p) <=> Granted(par, mine, p)
             /\ \A n \in DOMAIN par :
                  LET reached == Granted(par, mine, p) /\ NodesAbove(par, n) \cap mine # {} IN
                  /\ MayUseTreasury(par, mine, n, {p}) <=> reached
                  /\ CanActOnVerticalNode(par, mine, n, p) <=> reached
\* An image, which TLC computes once; a filter it would evaluate in every state.
Trees == UNION {[ids -> ids \cup {NoParent}] : ids \in SUBSET NodeId}
AgreeingTrees == {par : par \in {tree \in Trees : Agree(tree)}}
WalksMeetClosure == parent \in AgreeingTrees
=============================================================================
