------------------------------ MODULE Citizens ------------------------------
(* Who sits where in one State: open registration, invitations with a         *)
(* citizenship fee, the role market, emigration, the administration of        *)
(* citizens and the auto-promotion job, over the Membership, Invitation,      *)
(* StateUserBan, CliToken and Wallet tables.                                  *)
(*                                                                            *)
(* A request that checks in one database call and writes in a later one is a  *)
(* Handler with a program counter; a request that is one transaction is one   *)
(* action. The Sovereign, whom every handler turns away, is outside User, and *)
(* the callers of the administration hold the permission it asks for.         *)
EXTENDS Integers, FiniteSets, FiniteSetsExt, Folds, Functions

CONSTANTS
    User, Node,        \* citizens and nodes of the tree, Lobby and Target among them
    Lobby,             \* the Waiting Room (isLobby)
    Target,            \* autoPromotionTargetNodeId
    Invite, Goal,      \* invitations and the nodes they may lead to, None for none
    MaxUses,           \* maxUses of every invitation
    Fee,               \* citizenshipFeeAmount
    MinBalance,        \* autoPromotionMinBalance
    Kept(_),           \* what the exitRefundRate leaves of a balance
    InitBal, Treasury, \* opening balances; the treasuries of the State as one
    InitRows,          \* opening memberships
    Handler,           \* requests in flight at a time
    RowId,             \* enough ids for the memberships somebody remembers
    MaxOps,            \* bound on the requests of a behaviour
    None

ASSUME CitizensAssumption ==
    /\ IsFiniteSet(User) /\ IsFiniteSet(Handler) /\ IsFiniteSet(RowId)
    /\ {Lobby, Target} \subseteq Node /\ Lobby # Target
    /\ Goal \subseteq (Node \ {Lobby}) \cup {None}
    /\ MaxUses \in Nat \ {0} /\ {Fee, MinBalance, MaxOps} \subseteq Nat
    /\ Treasury \notin User /\ InitBal \in [User \cup {Treasury} -> Nat]
    /\ InitRows \subseteq [id : RowId, user : User, node : Node, status : {"active", "pending"}]

VARIABLES
    rows,      \* Membership
    banned,    \* users with an active StateUserBan
    barred,    \* history: those of them banned while no request of theirs was in
               \* flight, and not admitted by an administrator since
    gone,      \* users whose row a merge deleted
    tokens,    \* users with a CLI token that is not revoked
    bal,       \* primary-asset balances
    invite,    \* Invitation: status, targetNodeId, usesCount, whether expiresAt has passed
    admitted,  \* history: how often an invitation opened a seat
    handler,
    todo,      \* the memberships the running tick may still promote
    unread,    \* what it still has to read: the wallets, the seats at Target
    ops

vars == <<rows, banned, barred, gone, tokens, bal, invite, admitted, handler, todo, unread, ops>>

Holder == User \cup {Treasury}
Status == {"active", "pending"}
Row == [id : RowId, user : User, node : Node, status : Status]
\* "n" is usesCount as the increment returned it, the balance a merge writes or
\* what an emigrant forfeits; "at" the invitation, the node or the other account.
Idle == [pc |-> "idle", user |-> None, at |-> None, n |-> 0, ids |-> {}]

TypeOK ==
    /\ rows \subseteq Row
    /\ \A r, q \in rows : r.id = q.id \/ <<r.user, r.node>> = <<q.user, q.node>> => r = q
    /\ banned \subseteq User /\ barred \subseteq banned /\ gone \subseteq User /\ tokens \subseteq User
    /\ bal \in [Holder -> Int]
    /\ invite \in [Invite -> [status : {"none", "active", "consumed", "revoked", "expired"},
                              to : Goal \cup {None}, uses : Nat, late : BOOLEAN]]
    /\ admitted \in [Invite -> Nat]
    /\ handler \in [Handler -> [pc : {"idle", "count", "check", "pay", "close", "enrol",
                                      "buy", "leave", "merge"},
                                user : User \cup {None},
                                at : Invite \cup Node \cup User \cup {None},
                                n : Int, ids : SUBSET RowId]]
    /\ todo \subseteq [id : RowId, user : User] /\ unread \subseteq {"wallets", "seats"}
    /\ ops \in 0..MaxOps

Init ==
    /\ rows = InitRows /\ banned = {} /\ barred = {} /\ gone = {} /\ tokens = User /\ bal = InitBal
    /\ invite = [i \in Invite |-> [status |-> "none", to |-> None, uses |-> 0, late |-> FALSE]]
    /\ admitted = [i \in Invite |-> 0]
    /\ handler = [h \in Handler |-> Idle]
    /\ todo = {} /\ unread = {} /\ ops = 0

-----------------------------------------------------------------------------
RowsOf(u) == {r \in rows : r.user = u}
SeatAt(u, n) == {r \in rows : r.user = u /\ r.node = n}
IdsOf(rs) == {r.id : r \in rs}

\* A cuid nobody holds: ids are reused only once no job or merge remembers them.
FreshId == CHOOSE id \in RowId :
    id \notin IdsOf(rows \cup todo) \cup UNION {handler[h].ids : h \in Handler}

\* membership.upsert on (userId, nodeId).
Upsert(rs, u, n, s) ==
    LET old == {r \in rs : r.user = u /\ r.node = n} IN
    IF old = {} THEN rs \cup {[id |-> FreshId, user |-> u, node |-> n, status |-> s]}
    ELSE (rs \ old) \cup {[r EXCEPT !.status = s] : r \in old}

\* membership.delete(...).catch(() => {}) on the Waiting Room.
SweepLobby(rs, u) == {r \in rs : ~(r.user = u /\ r.node = Lobby)}

Seat(u, n) == rows' = SweepLobby(Upsert(rows, u, n, "active"), u)

\* Faulty variant: an account that is kept as a row after a merge.
SoftDeleted(u) == TRUE
\* updateMany where balance >= amount, then the treasury's increment.
CanPay(u, amount) == bal[u] >= amount
Pay(u, amount) == bal' = [bal EXCEPT ![u] = @ - amount, ![Treasury] = @ + amount]

Goto(h, rec) == handler' = [handler EXCEPT ![h] = rec]
Done(h) == Goto(h, Idle)
At(h, pc) == handler[h].pc = pc
Me(h) == handler[h].user

\* The bound on requests; a request starts in a free handler or is one action.
Request == ops < MaxOps /\ ops' = ops + 1
Exists(u) == u \notin gone

-----------------------------------------------------------------------------
(* Invitations *)

Usable(i) ==
    /\ invite[i].status \notin {"none", "revoked", "consumed"}
    /\ ~invite[i].late
    /\ invite[i].uses < MaxUses

SetStatus(i, s) == invite' = [invite EXCEPT ![i].status = s]

CreateInvite(i, n) ==
    /\ invite[i].status = "none"
    /\ invite' = [invite EXCEPT ![i].status = "active", ![i].to = n]
    /\ UNCHANGED <<rows, banned, barred, gone, tokens, bal, admitted, handler, todo, unread, ops>>

Revoke(i) ==
    /\ Request
    /\ invite[i].status # "none"
    /\ SetStatus(i, "revoked")
    /\ UNCHANGED <<rows, banned, barred, gone, tokens, bal, admitted, handler, todo, unread>>

\* The environment: expiresAt passes.
Expire(i) ==
    /\ invite[i].status # "none" /\ ~invite[i].late
    /\ invite' = [invite EXCEPT ![i].late = TRUE]
    /\ UNCHANGED <<rows, banned, barred, gone, tokens, bal, admitted, handler, todo, unread, ops>>

ReapInvitations ==
    /\ \E i \in Invite : invite[i].status = "active" /\ invite[i].late
    /\ invite' = [i \in Invite |-> IF invite[i].status = "active" /\ invite[i].late
                                   THEN [invite[i] EXCEPT !.status = "expired"] ELSE invite[i]]
    /\ UNCHANGED <<rows, banned, barred, gone, tokens, bal, admitted, handler, todo, unread, ops>>

\* The route's ban check and the lookup with assertUsable.
AcceptStart(h, u, i) ==
    /\ Request /\ At(h, "idle") /\ Exists(u)
    /\ u \notin banned /\ Usable(i)
    /\ Goto(h, [Idle EXCEPT !.pc = "count", !.user = u, !.at = i])
    /\ UNCHANGED <<rows, banned, barred, gone, tokens, bal, invite, admitted, todo, unread>>

\* Faulty variant: the use is not written.
UseNotCounted(h) ==
    LET i == handler[h].at IN
    /\ At(h, "count") /\ invite[i].to # None
    /\ Goto(h, [handler[h] EXCEPT !.pc = "check", !.n = invite[i].uses])
    /\ UNCHANGED <<rows, banned, barred, gone, tokens, bal, invite, admitted, todo, unread, ops>>

\* incrementUses, and on to createMembership.
AcceptCount(h) ==
    LET i == handler[h].at IN
    /\ At(h, "count") /\ invite[i].to # None
    /\ invite' = [invite EXCEPT ![i].uses = @ + 1]
    /\ Goto(h, [handler[h] EXCEPT !.pc = "check", !.n = invite[i].uses + 1])
    /\ UNCHANGED <<rows, banned, barred, gone, tokens, bal, admitted, todo, unread, ops>>

\* incrementUses of an invitation that names no node: nobody is seated or pays.
AcceptNowhere(h) ==
    LET i == handler[h].at IN
    /\ At(h, "count") /\ invite[i].to = None
    /\ invite' = [invite EXCEPT ![i].uses = @ + 1]
    /\ IF invite[i].uses + 1 >= MaxUses
       THEN Goto(h, [handler[h] EXCEPT !.pc = "close"]) ELSE Done(h)
    /\ UNCHANGED <<rows, banned, barred, gone, tokens, bal, admitted, todo, unread, ops>>

\* createMembership refuses: a ban, or a balance below the fee.
AcceptBanned(h) ==
    /\ At(h, "check") /\ Me(h) \in banned
    /\ Done(h)
    /\ UNCHANGED <<rows, banned, barred, gone, tokens, bal, invite, admitted, todo, unread, ops>>

AcceptTooPoor(h) ==
    /\ At(h, "check") /\ Me(h) \notin banned /\ ~CanPay(Me(h), Fee)
    /\ Done(h)
    /\ UNCHANGED <<rows, banned, barred, gone, tokens, bal, invite, admitted, todo, unread, ops>>

AcceptCheck(h) ==
    /\ At(h, "check") /\ Me(h) \notin banned /\ CanPay(Me(h), Fee)
    /\ Goto(h, [handler[h] EXCEPT !.pc = "pay"])
    /\ UNCHANGED <<rows, banned, barred, gone, tokens, bal, invite, admitted, todo, unread, ops>>

\* The rest of the transaction: seat, swept lobby, conditional debit and credit.
\* It rolls back when the debit finds too little or the account is gone.
AcceptPay(h) ==
    LET i == handler[h].at IN
    /\ At(h, "pay")
    /\ IF Exists(Me(h)) /\ CanPay(Me(h), Fee)
       THEN /\ Seat(Me(h), invite[i].to)
            /\ Pay(Me(h), Fee)
            /\ admitted' = [admitted EXCEPT ![i] = @ + 1]
            /\ IF handler[h].n >= MaxUses
               THEN Goto(h, [handler[h] EXCEPT !.pc = "close"]) ELSE Done(h)
       ELSE Done(h) /\ UNCHANGED <<rows, bal, admitted>>
    /\ UNCHANGED <<banned, barred, gone, tokens, invite, todo, unread, ops>>

\* updateStatus(id, "consumed") whatever the status has become.
AcceptClose(h) ==
    /\ At(h, "close")
    /\ SetStatus(handler[h].at, "consumed")
    /\ Done(h)
    /\ UNCHANGED <<rows, banned, barred, gone, tokens, bal, admitted, todo, unread, ops>>

-----------------------------------------------------------------------------
(* Open registration, role market, emigration *)

\* Faulty variant: no ban check.
RegisterAnyone(h, u) ==
    /\ Request /\ At(h, "idle") /\ Exists(u)
    /\ Goto(h, [Idle EXCEPT !.pc = "enrol", !.user = u])
    /\ UNCHANGED <<rows, banned, barred, gone, tokens, bal, invite, admitted, todo, unread>>

RegisterStart(h, u) ==
    /\ Request /\ At(h, "idle") /\ Exists(u) /\ u \notin banned
    /\ Goto(h, [Idle EXCEPT !.pc = "enrol", !.user = u])
    /\ UNCHANGED <<rows, banned, barred, gone, tokens, bal, invite, admitted, todo, unread>>

RegisterCommit(h) ==
    /\ At(h, "enrol")
    /\ rows' = IF Exists(Me(h)) THEN Upsert(rows, Me(h), Lobby, "pending") ELSE rows
    /\ Done(h)
    /\ UNCHANGED <<banned, barred, gone, tokens, bal, invite, admitted, todo, unread, ops>>

\* The membership reads and the balance, before the debit.
PurchaseStart(h, u, n) ==
    /\ Request /\ At(h, "idle") /\ u \in tokens /\ n # Lobby
    /\ SeatAt(u, Lobby) # {}
    /\ \A r \in RowsOf(u) : r.status = "active" => r.node = Lobby
    /\ CanPay(u, Fee)
    /\ Goto(h, [Idle EXCEPT !.pc = "buy", !.user = u, !.at = n])
    /\ UNCHANGED <<rows, banned, barred, gone, tokens, bal, invite, admitted, todo, unread>>

PurchaseCommit(h) ==
    /\ At(h, "buy")
    /\ IF Exists(Me(h)) /\ CanPay(Me(h), Fee)
       THEN Seat(Me(h), handler[h].at) /\ Pay(Me(h), Fee)
       ELSE UNCHANGED <<rows, bal>>
    /\ Done(h)
    /\ UNCHANGED <<banned, barred, gone, tokens, invite, admitted, todo, unread, ops>>

EmigrateStart(h, u) ==
    /\ Request /\ At(h, "idle") /\ u \in tokens /\ RowsOf(u) # {}
    /\ Goto(h, [Idle EXCEPT !.pc = "leave", !.user = u, !.n = bal[u] - Kept(bal[u])])
    /\ UNCHANGED <<rows, banned, barred, gone, tokens, bal, invite, admitted, todo, unread>>

EmigrateCommit(h) ==
    /\ At(h, "leave")
    /\ IF Exists(Me(h)) /\ CanPay(Me(h), handler[h].n)
       THEN /\ Pay(Me(h), handler[h].n)
            /\ rows' = rows \ RowsOf(Me(h))
            /\ tokens' = tokens \ {Me(h)}
       ELSE UNCHANGED <<rows, bal, tokens>>
    /\ Done(h)
    /\ UNCHANGED <<banned, barred, gone, invite, admitted, todo, unread, ops>>

-----------------------------------------------------------------------------
(* Administration: each of these is one transaction *)

Kick(u, n) ==
    /\ Request /\ SeatAt(u, n) # {}
    /\ rows' = rows \ SeatAt(u, n)
    /\ UNCHANGED <<banned, barred, gone, tokens, bal, invite, admitted, handler, todo, unread>>

InFlight(u) == \E h \in Handler : u \in {handler[h].user, handler[h].at}

Ban(u) ==
    /\ Request /\ Exists(u)
    /\ rows' = rows \ RowsOf(u)
    /\ banned' = banned \cup {u}
    /\ barred' = IF InFlight(u) THEN barred ELSE barred \cup {u}
    /\ UNCHANGED <<gone, tokens, bal, invite, admitted, handler, todo, unread>>

Unban(u) ==
    /\ Request /\ u \in banned
    /\ banned' = banned \ {u}
    /\ barred' = barred \ {u}
    /\ UNCHANGED <<rows, gone, tokens, bal, invite, admitted, handler, todo, unread>>

\* citizens-admin-service and POST /api/register/admit write the same.
Admit(u, n) ==
    /\ Request /\ Exists(u) /\ n # Lobby
    /\ Seat(u, n)
    /\ barred' = barred \ {u}
    /\ UNCHANGED <<banned, gone, tokens, bal, invite, admitted, handler, todo, unread>>

Move(u, from, to) ==
    /\ Request /\ from # to /\ to # Lobby /\ SeatAt(u, from) # {}
    /\ rows' = Upsert(rows \ SeatAt(u, from), u, to, "active")
    /\ UNCHANGED <<banned, barred, gone, tokens, bal, invite, admitted, handler, todo, unread>>

\* mergeUsers up to its reads of memberships and wallets.
MergeStart(h, source, target) ==
    /\ Request /\ At(h, "idle") /\ source # target
    /\ Exists(source) /\ Exists(target)
    /\ RowsOf(source) # {} /\ RowsOf(target) # {}
    /\ Goto(h, [pc |-> "merge", user |-> source, at |-> target,
                n |-> bal[source] + bal[target], ids |-> IdsOf(RowsOf(source))])
    /\ UNCHANGED <<rows, banned, barred, gone, tokens, bal, invite, admitted, todo, unread>>

\* Its writes: P2025 on a row read and deleted since rolls it back; a row the
\* source got since goes with the account; the target's balance is overwritten.
MergeCommit(h) ==
    LET s == Me(h)
        t == handler[h].at
        read == {r \in RowsOf(s) : r.id \in handler[h].ids}
        moved == {r \in read : SeatAt(t, r.node) = {}}
    IN
    /\ At(h, "merge")
    /\ IF Exists(s) /\ Exists(t) /\ IdsOf(read) = handler[h].ids
       THEN /\ rows' = (rows \ RowsOf(s)) \cup {[r EXCEPT !.user = t] : r \in moved}
            /\ bal' = [bal EXCEPT ![s] = 0, ![t] = handler[h].n]
            /\ tokens' = IF s \in tokens THEN (tokens \ {s}) \cup {t} ELSE tokens
            /\ banned' = banned \ {s} /\ barred' = barred \ {s}
            /\ gone' = gone \cup {s}
       ELSE UNCHANGED <<rows, bal, tokens, banned, barred, gone>>
    /\ Done(h)
    /\ UNCHANGED <<invite, admitted, todo, unread, ops>>

-----------------------------------------------------------------------------
(* runAutoPromotionTick: the candidates, the wallets and the seats at Target in *)
(* three reads, then one update by id per membership that is left             *)

\* The first read; an empty answer ends the tick.
FindCandidates ==
    /\ todo = {} /\ unread = {}
    /\ todo' = {[id |-> r.id, user |-> r.user] :
                  r \in {r \in rows : r.status = "active" /\ r.node # Target}}
    /\ todo' # {}
    /\ unread' = {"wallets", "seats"}
    /\ UNCHANGED <<rows, banned, barred, gone, tokens, bal, invite, admitted, handler, ops>>

Answered(read) == read \in unread /\ unread' = unread \ {read}

\* shouldPromoteMembershipForAutoPromotion over the balances read here; tenure is
\* a set of memberships old enough.
ReadWallets ==
    /\ Answered("wallets")
    /\ \E old \in SUBSET IdsOf(todo) :
        todo' = {c \in todo : bal[c.user] >= MinBalance \/ c.id \in old}
    /\ UNCHANGED <<rows, banned, barred, gone, tokens, bal, invite, admitted, handler, ops>>

\* alreadyOnTarget, whom the loop skips.
ReadSeats ==
    /\ Answered("seats")
    /\ todo' = {c \in todo : SeatAt(c.user, Target) = {}}
    /\ UNCHANGED <<rows, banned, barred, gone, tokens, bal, invite, admitted, handler, ops>>

\* Faulty variant: the tick retries the row that fails.
RetryForever(c) == c \in todo /\ unread = {} /\ UNCHANGED vars

\* A user promoted once is in onTarget for the rest of the tick.
Promote(c) ==
    LET row == {r \in rows : r.id = c.id}
        clash == {r \in rows : r.node = Target /\ r.user \in {q.user : q \in row}} \ row
    IN
    /\ c \in todo /\ unread = {}
    /\ row # {} /\ clash = {}
    /\ rows' = (rows \ row) \cup {[r EXCEPT !.node = Target] : r \in row}
    /\ todo' = {d \in todo : d.user # c.user}
    /\ UNCHANGED <<banned, barred, gone, tokens, bal, invite, admitted, handler, unread, ops>>

\* P2025 or the unique (userId, nodeId) throws out of the whole tick.
PromotionThrows(c) ==
    LET row == {r \in rows : r.id = c.id}
        clash == {r \in rows : r.node = Target /\ r.user \in {q.user : q \in row}} \ row
    IN
    /\ c \in todo /\ unread = {}
    /\ row = {} \/ clash # {}
    /\ todo' = {}
    /\ UNCHANGED <<rows, banned, barred, gone, tokens, bal, invite, admitted, handler, unread, ops>>

-----------------------------------------------------------------------------
Step(h) ==
    \/ AcceptCount(h) \/ AcceptNowhere(h) \/ AcceptBanned(h) \/ AcceptTooPoor(h) \/ AcceptCheck(h)
    \/ AcceptPay(h) \/ AcceptClose(h)
    \/ RegisterCommit(h) \/ PurchaseCommit(h) \/ EmigrateCommit(h) \/ MergeCommit(h)

Start(h) ==
    \/ \E u \in User, i \in Invite : AcceptStart(h, u, i)
    \/ \E u \in User : RegisterStart(h, u) \/ EmigrateStart(h, u)
    \/ \E u \in User, n \in Node : PurchaseStart(h, u, n)
    \/ \E s, t \in User : MergeStart(h, s, t)

Administer ==
    \/ \E u \in User : Ban(u) \/ Unban(u)
    \/ \E u \in User, n \in Node : Kick(u, n) \/ Admit(u, n)
    \/ \E u \in User, n, k \in Node : Move(u, n, k)

Job ==
    \/ FindCandidates \/ ReadWallets \/ ReadSeats
    \/ \E c \in todo : Promote(c) \/ PromotionThrows(c)

Next ==
    \/ \E h \in Handler : Step(h) \/ Start(h)
    \/ Administer
    \/ Job
    \/ \E i \in Invite : Revoke(i) \/ Expire(i) \/ \E n \in Goal : CreateInvite(i, n)
    \/ ReapInvitations

\* The server finishes the requests it took; the worker keeps running its jobs.
Fairness == WF_vars(\E h \in Handler : Step(h)) /\ WF_vars(Job) /\ WF_vars(ReapInvitations)

Spec == Init /\ [][Next]_vars /\ Fairness

-----------------------------------------------------------------------------
(* Properties *)

\* An invitation opens at most maxUses seats, and one more for each other request
\* in flight: the use count is checked and incremented in two calls.
AdmissionsBounded ==
    \A i \in Invite : admitted[i] <= MaxUses + Cardinality(Handler) - 1

\* The fee, the role's price and the forfeit never take more than a wallet holds.
NoOverdraft == \A w \in Holder : bal[w] >= 0

\* A merged account keeps no seat, ban, token or money, whatever was in flight for it.
GoneIsGone ==
    \A u \in gone : RowsOf(u) = {} /\ u \notin banned \cup tokens /\ bal[u] = 0

\* A ban imposed while nothing of the user's was in flight holds until an
\* administrator lifts it or admits the user again.
BanHolds == \A u \in barred : RowsOf(u) = {}

\* A citizen who keeps the promotion threshold is promoted, or leaves the seat.
Deserving(u) ==
    /\ bal[u] >= MinBalance /\ SeatAt(u, Target) = {}
    /\ \E r \in RowsOf(u) : r.status = "active" /\ r.node # Target
EligibleArePromoted == \A u \in User : []<>~Deserving(u)
=============================================================================
