--------------------------- MODULE CitizensProofs ---------------------------
(* Bans, merges and the use count of an invitation, for any citizens, nodes,   *)
(* invitations and requests.                                                  *)
EXTENDS Citizens, FiniteSetTheorems, TLAPS

USE CitizensAssumption

RowFields == {"id", "user", "node", "status"}
HandlerFields == {"pc", "user", "at", "n", "ids"}

\* As much of the types as the arguments need: a row keeps its user when its
\* node or status changes, and a request its user and account while it runs.
Shape ==
    /\ \A r \in rows : DOMAIN r = RowFields
    /\ DOMAIN bal = Holder
    /\ DOMAIN handler = Handler /\ \A h \in Handler : DOMAIN handler[h] = HandlerFields
    /\ gone \subseteq User /\ barred \subseteq banned /\ banned \subseteq User /\ tokens \subseteq User

\* A request that works has a citizen; a merge has two.
RequestInv == \A h \in Handler :
    /\ ~At(h, "idle") => Me(h) \in User
    /\ At(h, "merge") => handler[h].at \in User /\ handler[h].at # Me(h)

\* Nothing in flight belongs to a citizen who was barred.
NothingInFlight == \A u \in barred : \A h \in Handler :
    /\ ~At(h, "idle") => Me(h) # u
    /\ At(h, "merge") => handler[h].at # u

IInv == Shape /\ RequestInv /\ NothingInFlight /\ GoneIsGone /\ BanHolds

-----------------------------------------------------------------------------
(* Whose rows there are *)

\* Every row of new is somebody's who had one, or one of u's.
OnlyAdds(new, u) == \A r \in new : DOMAIN r = RowFields /\ (r.user = u \/ \E q \in rows : r.user = q.user)

LEMMA UpsertAdds ==
    ASSUME Shape, NEW rs \in SUBSET rows, NEW u \in User, NEW n, NEW s
    PROVE  OnlyAdds(Upsert(rs, u, n, s), u)
  <1> DEFINE new == [id |-> FreshId, user |-> u, node |-> n, status |-> s]
  <1>1. DOMAIN new = RowFields /\ new.user = u
    BY DEF RowFields
  <1>2. \A r \in rs : r \in rows /\ DOMAIN r = RowFields
    BY DEF Shape
  <1>3. \A r \in rs : DOMAIN [r EXCEPT !.status = s] = RowFields /\ [r EXCEPT !.status = s].user = r.user
    BY <1>2 DEF RowFields
  <1> HIDE DEF new
  <1> QED
    BY <1>1, <1>2, <1>3 DEF Upsert, OnlyAdds, new

LEMMA SeatAdds ==
    ASSUME Shape, NEW u \in User, NEW n, Seat(u, n)
    PROVE  \A r \in rows' : DOMAIN r = RowFields /\ (r.user = u \/ \E q \in rows : r.user = q.user)
  <1>1. OnlyAdds(Upsert(rows, u, n, "active"), u)
    BY UpsertAdds
  <1>2. rows' \subseteq Upsert(rows, u, n, "active")
    BY DEF Seat, SweepLobby
  <1> QED
    BY <1>1, <1>2 DEF OnlyAdds

\* A step that seats at most one citizen, who is neither barred nor gone, and
\* bars and merges nobody.
LEMMA SeatsOne ==
    ASSUME IInv, NEW u \in User, u \notin barred, Exists(u),
           \A r \in rows' : DOMAIN r = RowFields /\ (r.user = u \/ \E q \in rows : r.user = q.user),
           barred' \subseteq barred, gone' = gone
    PROVE  BanHolds' /\ \A v \in gone' : RowsOf(v)' = {}
  BY DEF IInv, BanHolds, GoneIsGone, RowsOf, Exists

\* The same for a step that only takes rows away or moves them within their user.
LEMMA SeatsNobody ==
    ASSUME IInv, \A r \in rows' : \E q \in rows : r.user = q.user, barred' \subseteq barred, gone' = gone
    PROVE  BanHolds' /\ \A v \in gone' : RowsOf(v)' = {}
  BY DEF IInv, BanHolds, GoneIsGone, RowsOf

-----------------------------------------------------------------------------
(* Requests begin and end *)

LEMMA DoneKeeps ==
    ASSUME IInv, NEW h \in Handler, Done(h), barred' \subseteq barred
    PROVE  /\ DOMAIN handler' = Handler /\ \A g \in Handler : DOMAIN handler'[g] = HandlerFields
           /\ RequestInv' /\ NothingInFlight'
  <1>1. /\ DOMAIN Idle = HandlerFields /\ Idle.pc = "idle"
        /\ handler' = [handler EXCEPT ![h] = Idle]
    BY DEF Idle, HandlerFields, Done, Goto
  <1> QED
    BY <1>1 DEF IInv, Shape, RequestInv, NothingInFlight, At, Me

\* A request goes on: its citizen and the other account stay what they are.
LEMMA GoesOn ==
    ASSUME IInv, NEW h \in Handler, ~At(h, "idle"), NEW rec, Goto(h, rec),
           DOMAIN rec = HandlerFields, rec.user = Me(h), rec.pc \notin {"idle", "merge"}, barred' \subseteq barred
    PROVE  /\ DOMAIN handler' = Handler /\ \A g \in Handler : DOMAIN handler'[g] = HandlerFields
           /\ RequestInv' /\ NothingInFlight'
  BY DEF IInv, Shape, RequestInv, NothingInFlight, At, Me, Goto

\* A request starts for a citizen who is not barred.
LEMMA StartKeeps ==
    ASSUME IInv, NEW h \in Handler, NEW u \in User, u \notin barred, NEW rec, Goto(h, rec),
           DOMAIN rec = HandlerFields, rec.user = u,
           rec.pc = "merge" => rec.at \in User \ barred /\ rec.at # u,
           UNCHANGED <<rows, banned, barred, gone, tokens, bal>>
    PROVE  IInv'
  <1>1. Shape'
    BY DEF IInv, Shape, Goto
  <1>2. RequestInv' /\ NothingInFlight'
    BY DEF IInv, Shape, RequestInv, NothingInFlight, At, Me, Goto
  <1>3. GoneIsGone' /\ BanHolds'
    BY DEF IInv, GoneIsGone, BanHolds, RowsOf
  <1> QED
    BY <1>1, <1>2, <1>3 DEF IInv

\* Steps that leave rows, accounts and money alone.
LEMMA OnlyRequests ==
    ASSUME IInv, DOMAIN handler' = Handler, \A g \in Handler : DOMAIN handler'[g] = HandlerFields,
           RequestInv', NothingInFlight', UNCHANGED <<rows, banned, barred, gone, tokens, bal>>
    PROVE  IInv'
  <1>1. Shape'
    BY DEF IInv, Shape
  <1>2. GoneIsGone' /\ BanHolds'
    BY DEF IInv, GoneIsGone, BanHolds, RowsOf
  <1> QED
    BY <1>1, <1>2 DEF IInv

-----------------------------------------------------------------------------
LEMMA InitInv == Init => IInv
  <1> SUFFICES ASSUME Init PROVE IInv
    OBVIOUS
  <1>1. Shape
    BY DEF Init, Shape, RowFields, HandlerFields, Holder, Idle
  <1>2. RequestInv /\ NothingInFlight /\ GoneIsGone /\ BanHolds
    BY DEF Init, RequestInv, NothingInFlight, GoneIsGone, BanHolds, At, Idle
  <1> QED
    BY <1>1, <1>2 DEF IInv

\* Who has a row is not barred and has an account.
LEMMA RowMeansFree ==
    ASSUME IInv, NEW u \in User, RowsOf(u) # {} PROVE u \notin barred /\ Exists(u)
  BY DEF IInv, BanHolds, GoneIsGone, Exists

LEMMA TokenMeansAccount == ASSUME IInv, NEW u \in tokens PROVE Exists(u)
  BY DEF IInv, GoneIsGone, Exists

LEMMA StartStep == ASSUME IInv, NEW h \in Handler, Start(h) PROVE IInv'
  <1>1. ASSUME NEW u \in User, NEW i \in Invite, AcceptStart(h, u, i) PROVE IInv'
    <2> DEFINE rec == [Idle EXCEPT !.pc = "count", !.user = u, !.at = i]
    <2>1. DOMAIN rec = HandlerFields /\ rec.user = u /\ rec.pc = "count"
      BY DEF Idle, HandlerFields
    <2>2. Goto(h, rec) /\ u \notin barred
      BY <1>1 DEF AcceptStart, IInv, Shape
    <2> HIDE DEF rec
    <2> QED
      BY <1>1, <2>1, <2>2, StartKeeps DEF AcceptStart
  <1>2. ASSUME NEW u \in User, RegisterStart(h, u) PROVE IInv'
    <2> DEFINE rec == [Idle EXCEPT !.pc = "enrol", !.user = u]
    <2>1. DOMAIN rec = HandlerFields /\ rec.user = u /\ rec.pc = "enrol"
      BY DEF Idle, HandlerFields
    <2>2. Goto(h, rec) /\ u \notin barred
      BY <1>2 DEF RegisterStart, IInv, Shape
    <2> HIDE DEF rec
    <2> QED
      BY <1>2, <2>1, <2>2, StartKeeps DEF RegisterStart
  <1>3. ASSUME NEW u \in User, EmigrateStart(h, u) PROVE IInv'
    <2> DEFINE rec == [Idle EXCEPT !.pc = "leave", !.user = u, !.n = bal[u] - Kept(bal[u])]
    <2>1. DOMAIN rec = HandlerFields /\ rec.user = u /\ rec.pc = "leave"
      BY DEF Idle, HandlerFields
    <2>2. Goto(h, rec) /\ u \notin barred
      BY <1>3, RowMeansFree DEF EmigrateStart
    <2> HIDE DEF rec
    <2> QED
      BY <1>3, <2>1, <2>2, StartKeeps DEF EmigrateStart
  <1>4. ASSUME NEW u \in User, NEW n \in Node, PurchaseStart(h, u, n) PROVE IInv'
    <2> DEFINE rec == [Idle EXCEPT !.pc = "buy", !.user = u, !.at = n]
    <2>1. DOMAIN rec = HandlerFields /\ rec.user = u /\ rec.pc = "buy"
      BY DEF Idle, HandlerFields
    <2>2. RowsOf(u) # {}
      BY <1>4 DEF PurchaseStart, SeatAt, RowsOf
    <2>3. Goto(h, rec) /\ u \notin barred
      BY <1>4, <2>2, RowMeansFree DEF PurchaseStart
    <2> HIDE DEF rec
    <2> QED
      BY <1>4, <2>1, <2>3, StartKeeps DEF PurchaseStart
  <1>5. ASSUME NEW s \in User, NEW t \in User, MergeStart(h, s, t) PROVE IInv'
    <2> DEFINE rec == [pc |-> "merge", user |-> s, at |-> t, n |-> bal[s] + bal[t], ids |-> IdsOf(RowsOf(s))]
    <2>1. DOMAIN rec = HandlerFields /\ rec.user = s /\ rec.at = t
      BY DEF HandlerFields
    <2>2. Goto(h, rec) /\ s \notin barred /\ t \notin barred /\ s # t
      BY <1>5, RowMeansFree DEF MergeStart
    <2> HIDE DEF rec
    <2> QED
      BY <1>5, <2>1, <2>2, StartKeeps DEF MergeStart
  <1> QED
    BY <1>1, <1>2, <1>3, <1>4, <1>5 DEF Start

-----------------------------------------------------------------------------
(* A request goes on or commits *)

\* A payment leaves the accounts that are gone alone.
LEMMA PayKeeps ==
    ASSUME IInv, NEW u \in User, Exists(u), NEW amount, Pay(u, amount)
    PROVE  DOMAIN bal' = Holder /\ \A v \in gone : bal'[v] = bal[v]
  BY DEF IInv, Shape, Pay, Exists, Holder

\* A commit that pays and seats or unseats its own citizen.
LEMMA CommitKeeps ==
    ASSUME IInv, NEW h \in Handler, ~At(h, "idle"), Exists(Me(h)),
           \A r \in rows' : DOMAIN r = RowFields /\ (r.user = Me(h) \/ \E q \in rows : r.user = q.user),
           NEW amount, Pay(Me(h), amount), UNCHANGED <<banned, barred, gone>>, tokens' \subseteq tokens,
           DOMAIN handler' = Handler, \A g \in Handler : DOMAIN handler'[g] = HandlerFields,
           RequestInv', NothingInFlight'
    PROVE  IInv'
  <1>1. Me(h) \in User /\ Me(h) \notin barred
    BY DEF IInv, RequestInv, NothingInFlight
  <1>2. BanHolds' /\ \A v \in gone' : RowsOf(v)' = {}
    BY <1>1, SeatsOne
  <1>3. DOMAIN bal' = Holder /\ \A v \in gone : bal'[v] = bal[v]
    BY <1>1, PayKeeps
  <1>4. Shape'
    BY <1>3 DEF IInv, Shape
  <1>5. GoneIsGone'
    BY <1>2, <1>3 DEF IInv, GoneIsGone
  <1> QED
    BY <1>2, <1>4, <1>5 DEF IInv

LEMMA AcceptStep ==
    ASSUME IInv, NEW h \in Handler,
           AcceptCount(h) \/ AcceptNowhere(h) \/ AcceptBanned(h) \/ AcceptTooPoor(h) \/ AcceptCheck(h) \/ AcceptClose(h)
    PROVE  IInv'
  <1>1. CASE AcceptCount(h)
    <2> DEFINE rec == [handler[h] EXCEPT !.pc = "check", !.n = invite[handler[h].at].uses + 1]
    <2>1. DOMAIN rec = HandlerFields /\ rec.user = Me(h) /\ rec.pc = "check"
      BY DEF IInv, Shape, HandlerFields, Me
    <2>2. Goto(h, rec) /\ ~At(h, "idle")
      BY <1>1 DEF AcceptCount, At
    <2> HIDE DEF rec
    <2> QED
      BY <1>1, <2>1, <2>2, GoesOn, OnlyRequests DEF AcceptCount
  <1>2. CASE AcceptCheck(h)
    <2> DEFINE rec == [handler[h] EXCEPT !.pc = "pay"]
    <2>1. DOMAIN rec = HandlerFields /\ rec.user = Me(h) /\ rec.pc = "pay"
      BY DEF IInv, Shape, HandlerFields, Me
    <2>2. Goto(h, rec) /\ ~At(h, "idle")
      BY <1>2 DEF AcceptCheck, At
    <2> HIDE DEF rec
    <2> QED
      BY <1>2, <2>1, <2>2, GoesOn, OnlyRequests DEF AcceptCheck
  <1>3. CASE AcceptBanned(h) \/ AcceptTooPoor(h) \/ AcceptClose(h)
    <2>1. Done(h) /\ UNCHANGED <<rows, banned, barred, gone, tokens, bal>>
      BY <1>3 DEF AcceptBanned, AcceptTooPoor, AcceptClose
    <2> QED
      BY <2>1, DoneKeeps, OnlyRequests
  <1>4. CASE AcceptNowhere(h)
    <2> DEFINE rec == [handler[h] EXCEPT !.pc = "close"]
    <2>1. DOMAIN rec = HandlerFields /\ rec.user = Me(h) /\ rec.pc = "close"
      BY DEF IInv, Shape, HandlerFields, Me
    <2>2. /\ ~At(h, "idle") /\ (Goto(h, rec) \/ Done(h))
          /\ UNCHANGED <<rows, banned, barred, gone, tokens, bal>>
      BY <1>4 DEF AcceptNowhere, At
    <2> HIDE DEF rec
    <2> QED
      BY <2>1, <2>2, GoesOn, DoneKeeps, OnlyRequests
  <1> QED
    BY <1>1, <1>2, <1>3, <1>4

LEMMA AcceptPayStep == ASSUME IInv, NEW h \in Handler, AcceptPay(h) PROVE IInv'
  <1>1. ~At(h, "idle") /\ UNCHANGED <<banned, barred, gone, tokens>>
    BY DEF AcceptPay, At
  <1>2. Me(h) \in User
    BY <1>1 DEF IInv, RequestInv
  <1>3. /\ DOMAIN handler' = Handler /\ \A g \in Handler : DOMAIN handler'[g] = HandlerFields
        /\ RequestInv' /\ NothingInFlight'
    <2> DEFINE rec == [handler[h] EXCEPT !.pc = "close"]
    <2>1. DOMAIN rec = HandlerFields /\ rec.user = Me(h) /\ rec.pc = "close"
      BY DEF IInv, Shape, HandlerFields, Me
    <2>2. Done(h) \/ Goto(h, rec)
      BY DEF AcceptPay
    <2> HIDE DEF rec
    <2> QED
      BY <1>1, <2>1, <2>2, DoneKeeps, GoesOn
  <1>4. CASE Exists(Me(h)) /\ CanPay(Me(h), Fee)
    <2>1. Seat(Me(h), invite[handler[h].at].to) /\ Pay(Me(h), Fee)
      BY <1>4 DEF AcceptPay
    <2>2. \A r \in rows' : DOMAIN r = RowFields /\ (r.user = Me(h) \/ \E q \in rows : r.user = q.user)
      BY <1>2, <2>1, SeatAdds DEF IInv
    <2> QED
      BY <1>1, <1>3, <1>4, <2>1, <2>2, CommitKeeps
  <1>5. CASE ~(Exists(Me(h)) /\ CanPay(Me(h), Fee))
    BY <1>1, <1>3, <1>5, OnlyRequests DEF AcceptPay
  <1> QED
    BY <1>4, <1>5

LEMMA PurchaseStep == ASSUME IInv, NEW h \in Handler, PurchaseCommit(h) PROVE IInv'
  <1>1. ~At(h, "idle") /\ Done(h) /\ UNCHANGED <<banned, barred, gone, tokens>>
    BY DEF PurchaseCommit, At
  <1>2. Me(h) \in User
    BY <1>1 DEF IInv, RequestInv
  <1>3. /\ DOMAIN handler' = Handler /\ \A g \in Handler : DOMAIN handler'[g] = HandlerFields
        /\ RequestInv' /\ NothingInFlight'
    BY <1>1, DoneKeeps
  <1>4. CASE Exists(Me(h)) /\ CanPay(Me(h), Fee)
    <2>1. Seat(Me(h), handler[h].at) /\ Pay(Me(h), Fee)
      BY <1>4 DEF PurchaseCommit
    <2>2. \A r \in rows' : DOMAIN r = RowFields /\ (r.user = Me(h) \/ \E q \in rows : r.user = q.user)
      BY <1>2, <2>1, SeatAdds DEF IInv
    <2> QED
      BY <1>1, <1>3, <1>4, <2>1, <2>2, CommitKeeps
  <1>5. CASE ~(Exists(Me(h)) /\ CanPay(Me(h), Fee))
    BY <1>1, <1>3, <1>5, OnlyRequests DEF PurchaseCommit
  <1> QED
    BY <1>4, <1>5

LEMMA EmigrateStep == ASSUME IInv, NEW h \in Handler, EmigrateCommit(h) PROVE IInv'
  <1>1. ~At(h, "idle") /\ Done(h) /\ UNCHANGED <<banned, barred, gone>>
    BY DEF EmigrateCommit, At
  <1>2. /\ DOMAIN handler' = Handler /\ \A g \in Handler : DOMAIN handler'[g] = HandlerFields
        /\ RequestInv' /\ NothingInFlight'
    BY <1>1, DoneKeeps
  <1>3. CASE Exists(Me(h)) /\ CanPay(Me(h), handler[h].n)
    <2>1. Pay(Me(h), handler[h].n) /\ rows' \subseteq rows /\ tokens' \subseteq tokens
      BY <1>3 DEF EmigrateCommit
    <2>2. \A r \in rows' : DOMAIN r = RowFields /\ (r.user = Me(h) \/ \E q \in rows : r.user = q.user)
      BY <2>1 DEF IInv, Shape
    <2> QED
      BY <1>1, <1>2, <1>3, <2>1, <2>2, CommitKeeps
  <1>4. CASE ~(Exists(Me(h)) /\ CanPay(Me(h), handler[h].n))
    BY <1>1, <1>2, <1>4, OnlyRequests DEF EmigrateCommit
  <1> QED
    BY <1>3, <1>4

\* The ban check was made before; an account merged since is not enrolled.
LEMMA RegisterStep == ASSUME IInv, NEW h \in Handler, RegisterCommit(h) PROVE IInv'
  <1>1. ~At(h, "idle") /\ Done(h) /\ UNCHANGED <<banned, barred, gone, tokens, bal>>
    BY DEF RegisterCommit, At
  <1>2. Me(h) \in User /\ Me(h) \notin barred
    BY <1>1 DEF IInv, RequestInv, NothingInFlight
  <1>3. /\ DOMAIN handler' = Handler /\ \A g \in Handler : DOMAIN handler'[g] = HandlerFields
        /\ RequestInv' /\ NothingInFlight'
    BY <1>1, DoneKeeps
  <1>4. CASE Exists(Me(h))
    <2>1. \A r \in rows' : DOMAIN r = RowFields /\ (r.user = Me(h) \/ \E q \in rows : r.user = q.user)
      <3>1. rows' = Upsert(rows, Me(h), Lobby, "pending")
        BY <1>4 DEF RegisterCommit
      <3> QED
        BY <1>2, <3>1, UpsertAdds DEF IInv, OnlyAdds
    <2>2. BanHolds' /\ \A v \in gone' : RowsOf(v)' = {}
      BY <1>1, <1>2, <1>4, <2>1, SeatsOne
    <2>3. Shape'
      BY <1>1, <1>3, <2>1 DEF IInv, Shape
    <2>4. GoneIsGone'
      BY <1>1, <2>2 DEF IInv, GoneIsGone
    <2> QED
      BY <1>3, <2>2, <2>3, <2>4 DEF IInv
  <1>5. CASE ~Exists(Me(h))
    BY <1>1, <1>3, <1>5, OnlyRequests DEF RegisterCommit
  <1> QED
    BY <1>4, <1>5

\* A merge takes whatever the source has by now; the target has an account.
LEMMA MergeStep == ASSUME IInv, NEW h \in Handler, MergeCommit(h) PROVE IInv'
  <1> DEFINE s == Me(h)
             t == handler[h].at
  <1>1. /\ ~At(h, "idle") /\ At(h, "merge") /\ Done(h) /\ barred' \subseteq barred
        /\ s \in User /\ t \in User /\ s # t /\ t \notin barred
    BY DEF MergeCommit, At, IInv, RequestInv, NothingInFlight
  <1>2. /\ DOMAIN handler' = Handler /\ \A g \in Handler : DOMAIN handler'[g] = HandlerFields
        /\ RequestInv' /\ NothingInFlight'
    BY <1>1, DoneKeeps
  <1>3. CASE UNCHANGED <<rows, bal, tokens, banned, barred, gone>>
    BY <1>2, <1>3, OnlyRequests
  <1>4. ASSUME NEW moved \in SUBSET RowsOf(s), Exists(t),
               rows' = (rows \ RowsOf(s)) \cup {[r EXCEPT !.user = t] : r \in moved},
               bal' = [bal EXCEPT ![s] = 0, ![t] = handler[h].n],
               tokens' = IF s \in tokens THEN (tokens \ {s}) \cup {t} ELSE tokens,
               banned' = banned \ {s}, barred' = barred \ {s}, gone' = gone \cup {s}
        PROVE  IInv'
    <2>1. \A r \in rows' : DOMAIN r = RowFields /\ r.user # s
                           /\ (r.user = t \/ \E q \in rows : r.user = q.user)
      <3>1. \A r \in moved : LET m == [r EXCEPT !.user = t] IN DOMAIN m = RowFields /\ m.user = t
        BY DEF IInv, Shape, RowsOf, RowFields
      <3>2. \A r \in rows \ RowsOf(s) : DOMAIN r = RowFields /\ r.user # s
        BY DEF IInv, Shape, RowsOf
      <3> QED
        BY <1>1, <1>4, <3>1, <3>2
    <2>2. Shape'
      BY <1>1, <1>2, <1>4, <2>1 DEF IInv, Shape, Holder
    <2>3. BanHolds'
      BY <1>1, <1>4, <2>1 DEF IInv, BanHolds, RowsOf
    <2>4. ASSUME NEW v \in gone'
          PROVE  RowsOf(v)' = {} /\ v \notin banned' \cup tokens' /\ bal'[v] = 0
      <3>1. CASE v = s
        <4>1. RowsOf(v)' = {}
          BY <2>1, <3>1 DEF RowsOf
        <4>2. bal'[v] = 0
          BY <1>1, <1>4, <3>1 DEF IInv, Shape, Holder
        <4> QED
          BY <1>1, <1>4, <3>1, <4>1, <4>2
      <3>2. CASE v # s
        <4>1. v \in gone /\ v # t
          BY <1>4, <3>2 DEF Exists
        <4>2. RowsOf(v)' = {}
          BY <2>1, <4>1 DEF IInv, GoneIsGone, RowsOf
        <4>3. bal'[v] = 0
          BY <1>1, <1>4, <3>2, <4>1 DEF IInv, Shape, Holder, GoneIsGone
        <4> QED
          BY <1>4, <4>1, <4>2, <4>3 DEF IInv, GoneIsGone
      <3> QED
        BY <3>1, <3>2
    <2>5. GoneIsGone'
      BY <2>4 DEF GoneIsGone
    <2> QED
      BY <1>2, <2>2, <2>3, <2>5 DEF IInv
  <1>5. CASE ~ UNCHANGED <<rows, bal, tokens, banned, barred, gone>>
    <2> DEFINE read == {r \in RowsOf(s) : r.id \in handler[h].ids}
               moved == {r \in read : SeatAt(t, r.node) = {}}
    <2>1. moved \in SUBSET RowsOf(s)
      OBVIOUS
    <2>2. /\ Exists(t) /\ rows' = (rows \ RowsOf(s)) \cup {[r EXCEPT !.user = t] : r \in moved}
          /\ bal' = [bal EXCEPT ![s] = 0, ![t] = handler[h].n]
          /\ tokens' = IF s \in tokens THEN (tokens \ {s}) \cup {t} ELSE tokens
          /\ banned' = banned \ {s} /\ barred' = barred \ {s} /\ gone' = gone \cup {s}
      BY <1>5 DEF MergeCommit
    <2> QED
      BY <2>1, <2>2, <1>4
  <1> QED
    BY <1>3, <1>5

-----------------------------------------------------------------------------
(* The administration, the job and the invitations *)

\* No request moves, nobody is barred or merged and no money is touched.
LEMMA HandlersRest ==
    ASSUME IInv, UNCHANGED <<handler, gone, tokens, bal>>, barred' \subseteq barred,
           barred' \subseteq banned', banned' \subseteq User, gone \cap banned' = {},
           \A r \in rows' : DOMAIN r = RowFields,
           BanHolds', \A v \in gone' : RowsOf(v)' = {}
    PROVE  IInv'
  <1>1. Shape'
    BY DEF IInv, Shape
  <1>2. RequestInv' /\ NothingInFlight'
    BY DEF IInv, RequestInv, NothingInFlight, At, Me
  <1>3. GoneIsGone'
    BY DEF IInv, GoneIsGone
  <1> QED
    BY <1>1, <1>2, <1>3 DEF IInv

LEMMA GoneNotBanned == IInv => gone \cap banned = {}
  BY DEF IInv, GoneIsGone

LEMMA KickStep == ASSUME IInv, NEW u \in User, NEW n \in Node, Kick(u, n) PROVE IInv'
  <1>1. rows' \subseteq rows /\ UNCHANGED <<banned, barred, gone, tokens, bal, handler>>
    BY DEF Kick
  <1>2. /\ \A r \in rows' : DOMAIN r = RowFields /\ \E q \in rows : r.user = q.user
        /\ barred \subseteq banned /\ banned \subseteq User
    BY <1>1 DEF IInv, Shape
  <1> QED
    BY <1>1, <1>2, SeatsNobody, HandlersRest, GoneNotBanned

\* Whoever is barred now has nothing in flight: the request that could seat
\* them would have kept them off the set.
LEMMA BanStep == ASSUME IInv, NEW u \in User, Ban(u) PROVE IInv'
  <1>1. /\ rows' = rows \ RowsOf(u) /\ banned' = banned \cup {u} /\ Exists(u)
        /\ barred' = IF InFlight(u) THEN barred ELSE barred \cup {u}
        /\ UNCHANGED <<gone, tokens, bal, handler>>
    BY DEF Ban
  <1>2. Shape' /\ RequestInv'
    BY <1>1 DEF IInv, Shape, RequestInv, At, Me
  <1>3. NothingInFlight'
    BY <1>1 DEF IInv, NothingInFlight, At, Me, InFlight
  <1>4. BanHolds'
    BY <1>1 DEF IInv, BanHolds, RowsOf
  <1>5. GoneIsGone'
    BY <1>1 DEF IInv, GoneIsGone, RowsOf, Exists
  <1> QED
    BY <1>2, <1>3, <1>4, <1>5 DEF IInv

LEMMA UnbanStep == ASSUME IInv, NEW u \in User, Unban(u) PROVE IInv'
  <1>1. /\ rows' = rows /\ banned' = banned \ {u} /\ barred' = barred \ {u}
        /\ UNCHANGED <<gone, tokens, bal, handler>>
    BY DEF Unban
  <1>2. /\ \A r \in rows' : DOMAIN r = RowFields /\ \E q \in rows : r.user = q.user
        /\ barred \subseteq banned /\ banned \subseteq User
    BY <1>1 DEF IInv, Shape
  <1> QED
    BY <1>1, <1>2, SeatsNobody, HandlersRest, GoneNotBanned

LEMMA AdmitStep == ASSUME IInv, NEW u \in User, NEW n \in Node, Admit(u, n) PROVE IInv'
  <1>1. /\ Seat(u, n) /\ Exists(u) /\ barred' = barred \ {u}
        /\ UNCHANGED <<banned, gone, tokens, bal, handler>>
    BY DEF Admit
  <1>2. \A r \in rows' : DOMAIN r = RowFields /\ (r.user = u \/ \E q \in rows : r.user = q.user)
    BY <1>1, SeatAdds DEF IInv
  <1>3. BanHolds'
    BY <1>1, <1>2 DEF IInv, BanHolds, RowsOf
  <1>4. \A v \in gone' : RowsOf(v)' = {}
    BY <1>1, <1>2 DEF IInv, GoneIsGone, RowsOf, Exists
  <1>5. barred \subseteq banned /\ banned \subseteq User
    BY DEF IInv, Shape
  <1> QED
    BY <1>1, <1>2, <1>3, <1>4, <1>5, HandlersRest, GoneNotBanned

LEMMA MoveStep ==
    ASSUME IInv, NEW u \in User, NEW n \in Node, NEW k \in Node, Move(u, n, k) PROVE IInv'
  <1>1. /\ rows' = Upsert(rows \ SeatAt(u, n), u, k, "active") /\ SeatAt(u, n) # {}
        /\ UNCHANGED <<banned, barred, gone, tokens, bal, handler>>
    BY DEF Move
  <1>2. \A r \in rows' : DOMAIN r = RowFields /\ (r.user = u \/ \E q \in rows : r.user = q.user)
    BY <1>1, UpsertAdds DEF IInv, OnlyAdds
  <1>3. u \notin barred /\ Exists(u)
    BY <1>1, RowMeansFree DEF SeatAt, RowsOf
  <1>4. BanHolds' /\ \A v \in gone' : RowsOf(v)' = {}
    BY <1>1, <1>2, <1>3, SeatsOne
  <1>5. barred \subseteq banned /\ banned \subseteq User
    BY DEF IInv, Shape
  <1> QED
    BY <1>1, <1>2, <1>4, <1>5, HandlersRest, GoneNotBanned

\* A promotion moves a row of whoever holds it; a row that is gone ends the tick.
LEMMA JobStep == ASSUME IInv, Job PROVE IInv'
  <1>1. UNCHANGED <<banned, barred, gone, tokens, bal, handler>>
    BY DEF Job, FindCandidates, ReadWallets, ReadSeats, Promote, PromotionThrows
  <1>2. \A r \in rows' : DOMAIN r = RowFields /\ \E q \in rows : r.user = q.user
    <2>1. CASE rows' = rows
      BY <2>1 DEF IInv, Shape
    <2>2. CASE \E c \in todo : Promote(c)
      <3>1. PICK c \in todo : Promote(c)
        BY <2>2
      <3>2. \A r \in rows : LET m == [r EXCEPT !.node = Target] IN DOMAIN m = RowFields /\ m.user = r.user
        BY DEF IInv, Shape, RowFields
      <3>3. \A r \in rows' : r \in rows \/ \E q \in rows : r = [q EXCEPT !.node = Target]
        BY <3>1 DEF Promote
      <3> SUFFICES ASSUME NEW r \in rows'
                   PROVE  DOMAIN r = RowFields /\ \E q \in rows : r.user = q.user
        OBVIOUS
      <3>4. CASE r \in rows
        BY <3>4 DEF IInv, Shape
      <3>5. ASSUME NEW q \in rows, r = [q EXCEPT !.node = Target]
            PROVE  DOMAIN r = RowFields /\ \E p \in rows : r.user = p.user
        BY <3>2, <3>5
      <3> QED
        BY <3>3, <3>4, <3>5
    <2> QED
      BY <2>1, <2>2 DEF Job, FindCandidates, ReadWallets, ReadSeats, PromotionThrows
  <1>3. barred \subseteq banned /\ banned \subseteq User
    BY DEF IInv, Shape
  <1> QED
    BY <1>1, <1>2, <1>3, SeatsNobody, HandlersRest, GoneNotBanned

LEMMA Quiet == ASSUME IInv, UNCHANGED <<rows, banned, barred, gone, tokens, bal, handler>> PROVE IInv'
  BY DEF IInv, Shape, RequestInv, NothingInFlight, GoneIsGone, BanHolds, RowsOf, At, Me

LEMMA Inductive == ASSUME IInv, [Next]_vars PROVE IInv'
  <1>1. CASE UNCHANGED vars
    BY <1>1, Quiet DEF vars
  <1>2. ASSUME NEW h \in Handler, Step(h) PROVE IInv'
    BY <1>2, AcceptStep, AcceptPayStep, RegisterStep, PurchaseStep, EmigrateStep, MergeStep DEF Step
  <1>3. CASE \E i \in Invite : Revoke(i) \/ Expire(i) \/ \E n \in Goal : CreateInvite(i, n)
    BY <1>3, Quiet DEF CreateInvite, Revoke, Expire
  <1>4. CASE ReapInvitations
    BY <1>4, Quiet DEF ReapInvitations
  <1>5. CASE Administer
    BY <1>5, BanStep, UnbanStep, KickStep, AdmitStep, MoveStep DEF Administer
  <1> QED
    BY <1>1, <1>2, <1>3, <1>4, <1>5, StartStep, JobStep DEF Next

-----------------------------------------------------------------------------
(* The seats an invitation opens *)

InviteFields == {"status", "to", "uses", "late"}

\* The requests that found invitation i usable and have not counted their use
\* yet, and those that have counted it and not opened a seat yet.
Counting(i) == {h \in Handler : At(h, "count") /\ handler[h].at = i}
Counted(i) == {h \in Handler : handler[h].pc \in {"check", "pay"} /\ handler[h].at = i}

\* A seat is opened on a counted use, and a use is promised only below maxUses:
\* the last to be promised found room, and so did all who count with it.
UsesInv ==
    /\ DOMAIN invite = Invite
    /\ \A i \in Invite : DOMAIN invite[i] = InviteFields /\ invite[i].uses \in Nat
    /\ DOMAIN admitted = Invite /\ \A i \in Invite : admitted[i] \in Nat
    /\ \A h \in Handler :
          handler[h].pc \in {"count", "check", "pay", "close"} => handler[h].at \in Invite
    /\ \A i \in Invite : admitted[i] + Cardinality(Counted(i)) <= invite[i].uses
    /\ \A i \in Invite :
          invite[i].uses + Cardinality(Counting(i)) <= MaxUses + Cardinality(Handler) - 1

\* The sizes of a set of requests with one of them put in or taken out.
LEMMA RequestSets ==
    ASSUME NEW S \in SUBSET Handler, NEW h \in Handler
    PROVE  /\ Cardinality(S) \in Nat /\ Cardinality(Handler) \in Nat
           /\ Cardinality(S \cup {h}) \in Nat /\ Cardinality(S \ {h}) \in Nat
           /\ Cardinality(S \cup {h}) <= Cardinality(Handler)
           /\ Cardinality(S \cup {h}) = IF h \in S THEN Cardinality(S) ELSE Cardinality(S) + 1
           /\ Cardinality(S \ {h}) = IF h \in S THEN Cardinality(S) - 1 ELSE Cardinality(S)
  <1>1. IsFiniteSet(Handler)
    OBVIOUS
  <1>2. IsFiniteSet(S) /\ IsFiniteSet(S \cup {h}) /\ IsFiniteSet(S \ {h})
    BY <1>1, FS_Subset
  <1>3. S \cup {h} \in SUBSET Handler
    OBVIOUS
  <1>4. Cardinality(S \cup {h}) <= Cardinality(Handler)
    BY <1>1, <1>3, FS_Subset
  <1> QED
    BY <1>1, <1>2, <1>4, FS_CardinalityType, FS_AddElement, FS_RemoveElement

\* The size of a set of requests that one of them joins, or may have left.
LEMMA OneJoins ==
    ASSUME NEW S \in SUBSET Handler, NEW T, NEW h \in Handler, h \notin S, T = S \cup {h}
    PROVE  /\ Cardinality(S) \in Nat /\ Cardinality(T) \in Nat /\ Cardinality(Handler) \in Nat
           /\ Cardinality(T) = Cardinality(S) + 1 /\ Cardinality(T) <= Cardinality(Handler)
  BY RequestSets

LEMMA OneMoves ==
    ASSUME NEW S \in SUBSET Handler, NEW T, NEW h \in Handler, T = S \ {h}
    PROVE  /\ Cardinality(S) \in Nat /\ Cardinality(T) \in Nat /\ Cardinality(Handler) \in Nat
           /\ Cardinality(T) = IF h \in S THEN Cardinality(S) - 1 ELSE Cardinality(S)
  BY RequestSets

LEMMA OneFewer ==
    ASSUME NEW S \in SUBSET Handler, NEW T, NEW h \in Handler, T = S \ {h} \/ T = S
    PROVE  Cardinality(S) \in Nat /\ Cardinality(T) \in Nat /\ Cardinality(T) <= Cardinality(S)
  <1>1. Cardinality(S) \in Nat
    BY RequestSets
  <1>2. CASE T = S \ {h}
    BY <1>1, <1>2, OneMoves
  <1> QED
    BY <1>1, <1>2

\* Where a request stands after one step of it.
LEMMA RequestMoves ==
    ASSUME Shape, NEW h \in Handler, NEW rec, Goto(h, rec), NEW i
    PROVE  /\ Counting(i)' = IF rec.pc = "count" /\ rec.at = i
                             THEN Counting(i) \cup {h} ELSE Counting(i) \ {h}
           /\ Counted(i)' = IF rec.pc \in {"check", "pay"} /\ rec.at = i
                            THEN Counted(i) \cup {h} ELSE Counted(i) \ {h}
  <1>1. handler'[h] = rec /\ \A g \in Handler \ {h} : handler'[g] = handler[g]
    BY DEF Shape, Goto
  <1> QED
    BY <1>1 DEF Counting, Counted, At

\* A request that neither counts a use nor opens a seat, nor is about to: it
\* ends, goes on from one to the other, or has nothing to do with invitations.
LEMMA UsesRest ==
    ASSUME IInv, UsesInv, NEW h \in Handler, NEW rec, Goto(h, rec), rec.pc # "count",
           rec.pc \in {"check", "pay"} => handler[h].pc \in {"check", "pay"} /\ rec.at = handler[h].at,
           rec.pc = "close" => rec.at \in Invite,
           UNCHANGED <<invite, admitted>>
    PROVE  UsesInv'
  <1>1. \A g \in Handler : handler'[g] = IF g = h THEN rec ELSE handler[g]
    BY DEF IInv, Shape, Goto
  <1>2. \A g \in Handler :
          handler'[g].pc \in {"count", "check", "pay", "close"} => handler'[g].at \in Invite
    BY <1>1 DEF UsesInv
  <1>3. ASSUME NEW i \in Invite
        PROVE  /\ Cardinality(Counting(i)') <= Cardinality(Counting(i))
               /\ Cardinality(Counted(i)') <= Cardinality(Counted(i))
               /\ Cardinality(Counting(i)') \in Nat /\ Cardinality(Counted(i)') \in Nat
               /\ Cardinality(Counting(i)) \in Nat /\ Cardinality(Counted(i)) \in Nat
    <2>1. Counting(i)' = Counting(i) \ {h}
      BY RequestMoves DEF IInv
    <2>2. Counted(i)' = Counted(i) \ {h} \/ Counted(i)' = Counted(i)
      <3>1. rec.pc \in {"check", "pay"} /\ rec.at = i => h \in Counted(i)
        BY DEF Counted
      <3>2. Counted(i)' = IF rec.pc \in {"check", "pay"} /\ rec.at = i
                          THEN Counted(i) \cup {h} ELSE Counted(i) \ {h}
        BY RequestMoves DEF IInv
      <3> QED
        BY <3>1, <3>2
    <2>3. Counting(i) \in SUBSET Handler /\ Counted(i) \in SUBSET Handler
      BY DEF Counting, Counted
    <2> QED
      BY <2>1, <2>2, <2>3, OneFewer
  <1>4. \A i \in Invite : admitted'[i] + Cardinality(Counted(i)') <= invite'[i].uses
    BY <1>3 DEF UsesInv
  <1>5. Cardinality(Handler) \in Nat
    BY RequestSets
  <1>6. \A i \in Invite :
          invite'[i].uses + Cardinality(Counting(i)') <= MaxUses + Cardinality(Handler) - 1
    BY <1>3, <1>5 DEF UsesInv
  <1> QED
    BY <1>2, <1>4, <1>6 DEF UsesInv

\* The promise: the check of usesCount against maxUses.
LEMMA UsesStart ==
    ASSUME IInv, UsesInv, NEW h \in Handler, NEW u \in User, NEW k \in Invite, AcceptStart(h, u, k)
    PROVE  UsesInv'
  <1> DEFINE rec == [Idle EXCEPT !.pc = "count", !.user = u, !.at = k]
  <1>1. rec.pc = "count" /\ rec.at = k
    BY DEF Idle
  <1>2. Goto(h, rec) /\ UNCHANGED <<invite, admitted>> /\ At(h, "idle") /\ invite[k].uses < MaxUses
    BY DEF AcceptStart, Usable
  <1> HIDE DEF rec
  <1>3. \A g \in Handler :
          handler'[g].pc \in {"count", "check", "pay", "close"} => handler'[g].at \in Invite
    BY <1>1, <1>2 DEF UsesInv, Goto, IInv, Shape
  <1>4. ASSUME NEW i \in Invite
        PROVE  /\ admitted'[i] + Cardinality(Counted(i)') <= invite'[i].uses
               /\ invite'[i].uses + Cardinality(Counting(i)') <= MaxUses + Cardinality(Handler) - 1
    <2>1. /\ Counted(i)' = Counted(i) \ {h}
          /\ Counting(i)' = IF i = k THEN Counting(i) \cup {h} ELSE Counting(i) \ {h}
      BY <1>1, <1>2, RequestMoves DEF IInv
    <2>2. h \notin Counted(i) /\ h \notin Counting(i)
      BY <1>2 DEF Counted, Counting, At
    <2>3. Counting(i) \in SUBSET Handler /\ Counted(i) \in SUBSET Handler
      BY DEF Counting, Counted
    <2>4. /\ Cardinality(Counted(i)') = Cardinality(Counted(i)) /\ Cardinality(Counted(i)) \in Nat
          /\ Cardinality(Counting(i)) \in Nat /\ Cardinality(Counting(i)') \in Nat
          /\ Cardinality(Handler) \in Nat
          /\ i = k => Cardinality(Counting(i)') <= Cardinality(Handler)
          /\ i # k => Cardinality(Counting(i)') = Cardinality(Counting(i))
      BY <2>1, <2>2, <2>3, OneMoves, OneJoins
    <2>5. /\ admitted'[i] = admitted[i] /\ invite'[i].uses = invite[i].uses
          /\ admitted[i] \in Nat /\ invite[i].uses \in Nat
      BY <1>2 DEF UsesInv
    <2> QED
      BY <1>2, <2>4, <2>5 DEF UsesInv
  <1> QED
    BY <1>2, <1>3, <1>4 DEF UsesInv

\* incrementUses: a promised use becomes a counted one, which opens no seat when
\* the invitation leads nowhere.
LEMMA UsesCount ==
    ASSUME IInv, UsesInv, NEW h \in Handler, AcceptCount(h) \/ AcceptNowhere(h) PROVE UsesInv'
  <1> DEFINE k == handler[h].at
             rec == handler'[h]
  <1>1. DOMAIN handler[h] = HandlerFields /\ DOMAIN handler = Handler
    BY DEF IInv, Shape
  <1>2. rec.pc \in {"check", "close", "idle"} /\ (rec.pc # "idle" => rec.at = k)
    <2>1. \/ rec = [handler[h] EXCEPT !.pc = "check", !.n = invite[k].uses + 1]
          \/ rec = [handler[h] EXCEPT !.pc = "close"]
          \/ rec = Idle
      BY <1>1 DEF AcceptCount, AcceptNowhere, Done, Goto
    <2>2. CASE rec = Idle
      BY <2>2 DEF Idle
    <2>3. CASE rec = [handler[h] EXCEPT !.pc = "close"]
      BY <1>1, <2>3 DEF HandlerFields
    <2>4. CASE rec = [handler[h] EXCEPT !.pc = "check", !.n = invite[k].uses + 1]
      BY <1>1, <2>4 DEF HandlerFields
    <2> HIDE DEF rec, k
    <2> QED
      BY <2>1, <2>2, <2>3, <2>4
  <1>3. /\ invite' = [invite EXCEPT ![k].uses = @ + 1] /\ admitted' = admitted /\ At(h, "count")
        /\ Goto(h, rec)
    BY <1>1 DEF AcceptCount, AcceptNowhere, Done, Goto
  <1>4. k \in Invite
    BY <1>3 DEF UsesInv, At
  <1> HIDE DEF rec, k
  <1>5. /\ DOMAIN invite' = Invite
        /\ \A i \in Invite : /\ DOMAIN invite'[i] = InviteFields
                             /\ invite'[i].uses = IF i = k THEN invite[i].uses + 1 ELSE invite[i].uses
                             /\ invite[i].uses \in Nat /\ admitted[i] \in Nat
    BY <1>3, <1>4 DEF UsesInv, InviteFields
  <1>6. \A g \in Handler :
          handler'[g].pc \in {"count", "check", "pay", "close"} => handler'[g].at \in Invite
    BY <1>2, <1>3, <1>4 DEF UsesInv, Goto, IInv, Shape
  <1>7. ASSUME NEW i \in Invite
        PROVE  /\ admitted'[i] + Cardinality(Counted(i)') <= invite'[i].uses
               /\ invite'[i].uses + Cardinality(Counting(i)') <= MaxUses + Cardinality(Handler) - 1
    <2>1. /\ Counted(i)' = IF rec.pc = "check" /\ i = k THEN Counted(i) \cup {h} ELSE Counted(i) \ {h}
          /\ Counting(i)' = Counting(i) \ {h}
      BY <1>2, <1>3, RequestMoves DEF IInv
    <2>2. h \notin Counted(i) /\ (h \in Counting(i) <=> i = k)
      BY <1>3 DEF Counted, Counting, At, k
    <2>3. Counting(i) \in SUBSET Handler /\ Counted(i) \in SUBSET Handler
      BY DEF Counting, Counted
    <2>4. /\ Cardinality(Counted(i)) \in Nat /\ Cardinality(Counting(i)) \in Nat
          /\ Cardinality(Handler) \in Nat /\ Cardinality(Counted(i)') \in Nat
          /\ Cardinality(Counted(i)') <= IF i = k THEN Cardinality(Counted(i)) + 1 ELSE Cardinality(Counted(i))
          /\ Cardinality(Counting(i)') = IF i = k THEN Cardinality(Counting(i)) - 1 ELSE Cardinality(Counting(i))
      <3>1. CASE rec.pc = "check" /\ i = k
        BY <2>1, <2>2, <2>3, <3>1, OneMoves, OneJoins
      <3>2. CASE ~(rec.pc = "check" /\ i = k)
        BY <2>1, <2>2, <2>3, <3>2, OneMoves, RequestSets
      <3> QED
        BY <3>1, <3>2
    <2>5. /\ admitted[i] + Cardinality(Counted(i)) <= invite[i].uses
          /\ invite[i].uses + Cardinality(Counting(i)) <= MaxUses + Cardinality(Handler) - 1
      BY DEF UsesInv
    <2> QED
      BY <1>3, <1>5, <2>4, <2>5
  <1> QED
    BY <1>3, <1>5, <1>6, <1>7 DEF UsesInv

\* A counted use opens a seat, or is lost when the transaction rolls back.
LEMMA UsesPay ==
    ASSUME IInv, UsesInv, NEW h \in Handler, AcceptPay(h) PROVE UsesInv'
  <1> DEFINE k == handler[h].at
             rec == handler'[h]
  <1>1. At(h, "pay") /\ invite' = invite /\ DOMAIN handler[h] = HandlerFields /\ DOMAIN handler = Handler
    BY DEF AcceptPay, IInv, Shape
  <1>2. k \in Invite
    BY <1>1 DEF UsesInv, At
  <1>3. Goto(h, rec) /\ rec.pc \in {"close", "idle"} /\ (rec.pc = "close" => rec.at = k)
    BY <1>1 DEF AcceptPay, Done, Goto, Idle, HandlerFields
  <1>4. admitted' = admitted \/ admitted' = [admitted EXCEPT ![k] = @ + 1]
    BY DEF AcceptPay
  <1> HIDE DEF rec, k
  <1>5. /\ DOMAIN admitted' = Invite
        /\ \A i \in Invite : /\ admitted'[i] \in Nat /\ admitted[i] \in Nat /\ invite[i].uses \in Nat
                             /\ admitted'[i] <= IF i = k THEN admitted[i] + 1 ELSE admitted[i]
    BY <1>2, <1>4 DEF UsesInv
  <1>6. \A g \in Handler :
          handler'[g].pc \in {"count", "check", "pay", "close"} => handler'[g].at \in Invite
    BY <1>1, <1>2, <1>3 DEF UsesInv, Goto
  <1>7. ASSUME NEW i \in Invite
        PROVE  /\ admitted'[i] + Cardinality(Counted(i)') <= invite'[i].uses
               /\ invite'[i].uses + Cardinality(Counting(i)') <= MaxUses + Cardinality(Handler) - 1
    <2>1. Counted(i)' = Counted(i) \ {h} /\ Counting(i)' = Counting(i) \ {h}
      BY <1>3, RequestMoves DEF IInv
    <2>2. h \notin Counting(i) /\ (h \in Counted(i) <=> i = k)
      BY <1>1 DEF Counted, Counting, At, k
    <2>3. Counting(i) \in SUBSET Handler /\ Counted(i) \in SUBSET Handler
      BY DEF Counting, Counted
    <2>4. /\ Cardinality(Counted(i)) \in Nat /\ Cardinality(Counting(i)) \in Nat
          /\ Cardinality(Handler) \in Nat
          /\ Cardinality(Counted(i)') = IF i = k THEN Cardinality(Counted(i)) - 1 ELSE Cardinality(Counted(i))
          /\ Cardinality(Counting(i)') = Cardinality(Counting(i))
      BY SMTT(30), <2>1, <2>2, <2>3, OneMoves
    <2>5. /\ admitted[i] + Cardinality(Counted(i)) <= invite[i].uses
          /\ invite[i].uses + Cardinality(Counting(i)) <= MaxUses + Cardinality(Handler) - 1
      BY DEF UsesInv
    <2> QED
      BY <1>1, <1>5, <2>4, <2>5
  <1> QED
    BY <1>1, <1>5, <1>6, <1>7 DEF UsesInv

\* A status, a deadline or the reaper: no use is counted or promised.
LEMMA UsesStatus ==
    ASSUME IInv, UsesInv, UNCHANGED <<handler, admitted>>, DOMAIN invite' = Invite,
           \A i \in Invite : DOMAIN invite'[i] = InviteFields /\ invite'[i].uses = invite[i].uses
    PROVE  UsesInv'
  <1>1. \A i : Counting(i)' = Counting(i) /\ Counted(i)' = Counted(i)
    BY DEF Counting, Counted, At
  <1> QED
    BY <1>1 DEF UsesInv

\* A step of a request: it counts a use, opens a seat or does neither.
LEMMA UsesStep == ASSUME IInv, UsesInv, NEW h \in Handler, Step(h) PROVE UsesInv'
  <1>1. DOMAIN handler[h] = HandlerFields /\ Idle.pc = "idle"
    BY DEF IInv, Shape, Idle
  <1>2. CASE AcceptCheck(h)
    <2> DEFINE rec == [handler[h] EXCEPT !.pc = "pay"]
    <2>1. rec.pc = "pay" /\ rec.at = handler[h].at
      BY <1>1 DEF HandlerFields
    <2>2. Goto(h, rec) /\ handler[h].pc = "check" /\ UNCHANGED <<invite, admitted>>
      BY <1>2 DEF AcceptCheck, At
    <2> HIDE DEF rec
    <2> QED
      BY <2>1, <2>2, UsesRest
  <1>3. CASE AcceptClose(h)
    <2> DEFINE k == handler[h].at
    <2>1. /\ invite' = [invite EXCEPT ![k].status = "consumed"] /\ admitted' = admitted
          /\ handler[h].pc = "close" /\ Goto(h, Idle)
      BY <1>3 DEF AcceptClose, SetStatus, Done, At
    <2> HIDE DEF k
    <2>2. /\ DOMAIN invite' = Invite
          /\ \A i \in Invite : DOMAIN invite'[i] = InviteFields /\ invite'[i].uses = invite[i].uses
      BY <2>1 DEF UsesInv, InviteFields
    <2>3. \A i : Counting(i)' = Counting(i) /\ Counted(i)' = Counted(i)
      <3>1. \A i : Counting(i)' = Counting(i) \ {h} /\ Counted(i)' = Counted(i) \ {h}
        BY <1>1, <2>1, RequestMoves DEF IInv
      <3> QED
        BY <2>1, <3>1 DEF Counting, Counted, At
    <2>4. \A g \in Handler :
            handler'[g].pc \in {"count", "check", "pay", "close"} => handler'[g].at \in Invite
      BY <1>1, <2>1 DEF UsesInv, Goto, IInv, Shape
    <2> QED
      BY <2>1, <2>2, <2>3, <2>4 DEF UsesInv
  <1>4. ASSUME Done(h), UNCHANGED <<invite, admitted>> PROVE UsesInv'
    BY <1>1, <1>4, UsesRest DEF Done
  <1> QED
    BY <1>2, <1>3, <1>4, UsesCount, UsesPay
    DEF Step, AcceptBanned, AcceptTooPoor, RegisterCommit, PurchaseCommit, EmigrateCommit, MergeCommit

\* No step disturbs the count of uses.
LEMMA UsesNext == IInv /\ UsesInv /\ [Next]_vars => UsesInv'
  <1> SUFFICES ASSUME IInv, UsesInv, [Next]_vars PROVE UsesInv'
    OBVIOUS
  <1>1. ASSUME NEW h \in Handler, Start(h) PROVE UsesInv'
    <2>1. ASSUME NEW rec, Goto(h, rec), rec.pc \in {"enrol", "leave", "buy", "merge"},
                 UNCHANGED <<invite, admitted>>
          PROVE  UsesInv'
      BY <2>1, UsesRest
    <2>2. ASSUME NEW u \in User, RegisterStart(h, u) \/ EmigrateStart(h, u) PROVE UsesInv'
      <3>1. /\ [Idle EXCEPT !.pc = "enrol", !.user = u].pc = "enrol"
            /\ [Idle EXCEPT !.pc = "leave", !.user = u, !.n = bal[u] - Kept(bal[u])].pc = "leave"
        BY DEF Idle
      <3> QED
        BY <2>1, <2>2, <3>1 DEF RegisterStart, EmigrateStart
    <2>3. ASSUME NEW u \in User, NEW n \in Node, PurchaseStart(h, u, n) PROVE UsesInv'
      <3>1. [Idle EXCEPT !.pc = "buy", !.user = u, !.at = n].pc = "buy"
        BY DEF Idle
      <3> QED
        BY <2>1, <2>3, <3>1 DEF PurchaseStart
    <2>4. ASSUME NEW s \in User, NEW t \in User, MergeStart(h, s, t) PROVE UsesInv'
      BY <2>1, <2>4 DEF MergeStart
    <2> QED
      BY <1>1, <2>2, <2>3, <2>4, UsesStart DEF Start
  <1>2. CASE Administer \/ Job \/ UNCHANGED vars
    <2>1. UNCHANGED <<handler, admitted, invite>>
      BY <1>2 DEF vars, Administer, Job, Ban, Unban, Kick, Admit, Move,
                  FindCandidates, ReadWallets, ReadSeats, Promote, PromotionThrows
    <2> QED
      BY <2>1, UsesStatus DEF UsesInv
  <1>3. ASSUME NEW k \in Invite, Revoke(k) \/ Expire(k) \/ \E n \in Goal : CreateInvite(k, n)
        PROVE  UsesInv'
    <2>1. /\ UNCHANGED <<handler, admitted>>
          /\ \/ \E s : invite' = [invite EXCEPT ![k].status = s]
             \/ \E n : invite' = [invite EXCEPT ![k].status = "active", ![k].to = n]
             \/ invite' = [invite EXCEPT ![k].late = TRUE]
      BY <1>3 DEF CreateInvite, Revoke, Expire, SetStatus
    <2>2. /\ DOMAIN invite' = Invite
          /\ \A i \in Invite : DOMAIN invite'[i] = InviteFields /\ invite'[i].uses = invite[i].uses
      <3>1. DOMAIN invite = Invite /\ \A i \in Invite : DOMAIN invite[i] = InviteFields
        BY DEF UsesInv
      <3>2. ASSUME NEW n, invite' = [invite EXCEPT ![k].status = "active", ![k].to = n] PROVE <2>2
        <4>1. invite' = [invite EXCEPT ![k] = [[@ EXCEPT !.status = "active"] EXCEPT !.to = n]]
          BY <3>1, <3>2 DEF InviteFields
        <4> QED
          BY <3>1, <4>1 DEF InviteFields
      <3> QED
        BY <2>1, <3>1, <3>2 DEF InviteFields
    <2> QED
      BY <2>1, <2>2, UsesStatus
  <1>4. CASE ReapInvitations
    <2>1. UNCHANGED <<handler, admitted>>
      BY <1>4 DEF ReapInvitations
    <2>2. /\ DOMAIN invite' = Invite
          /\ \A i \in Invite : DOMAIN invite'[i] = InviteFields /\ invite'[i].uses = invite[i].uses
      BY <1>4 DEF ReapInvitations, UsesInv, InviteFields
    <2> QED
      BY <2>1, <2>2, UsesStatus
  <1> QED
    BY <1>1, <1>2, <1>3, <1>4, UsesStep DEF Next

\* At first no use is counted or promised.
LEMMA UsesInit == Init => UsesInv
  <1> SUFFICES ASSUME Init PROVE UsesInv
    OBVIOUS
  <1>1. \A i : Counting(i) = {} /\ Counted(i) = {}
    BY DEF Init, Counting, Counted, At, Idle
  <1>2. Cardinality({}) = 0 /\ Cardinality(Handler) \in Nat
    BY FS_EmptySet, FS_CardinalityType
  <1>3. \A h \in Handler : handler[h].pc = "idle"
    BY DEF Init, Idle
  <1>4. /\ DOMAIN invite = Invite /\ DOMAIN admitted = Invite
        /\ \A i \in Invite : DOMAIN invite[i] = InviteFields /\ invite[i].uses = 0 /\ admitted[i] = 0
    BY DEF Init, InviteFields
  <1>5. \A i \in Invite : admitted[i] + Cardinality(Counted(i)) <= invite[i].uses
    BY <1>1, <1>2, <1>4
  <1>6. \A i \in Invite :
          invite[i].uses + Cardinality(Counting(i)) <= MaxUses + Cardinality(Handler) - 1
    <2>1. MaxUses \in Nat /\ MaxUses >= 1
      OBVIOUS
    <2>2. ASSUME NEW i \in Invite
          PROVE  invite[i].uses + Cardinality(Counting(i)) <= MaxUses + Cardinality(Handler) - 1
      <3>1. invite[i].uses = 0 /\ Cardinality(Counting(i)) = 0
        BY <1>1, <1>2, <1>4
      <3> QED
        BY <1>2, <2>1, <3>1
    <2> QED
      BY <2>2
  <1> QED
    BY <1>3, <1>4, <1>5, <1>6 DEF UsesInv

\* What the handlers of citizens' administration, of acceptances and of the
\* promotion job hold between two awaits stays true however they interleave.
THEOREM CitizensInvariant == Spec => []IInv
  BY InitInv, Inductive, PTL DEF Spec

\* A ban imposed while nothing of the user's was in flight keeps every seat
\* from the user until an administrator lifts it or admits the user: no
\* registration, acceptance, purchase, move, merge or promotion gets around it.
THEOREM BansHold == Spec => []BanHolds
  <1>1. IInv => BanHolds
    BY DEF IInv
  <1> QED
    BY <1>1, CitizensInvariant, PTL

\* A merged account keeps no seat, ban, token or money, whatever was in flight
\* for it when it went.
THEOREM MergedAreGone == Spec => []GoneIsGone
  <1>1. IInv => GoneIsGone
    BY DEF IInv
  <1> QED
    BY <1>1, CitizensInvariant, PTL

\* An invitation opens at most maxUses seats and one more for each other request
\* in flight, however many requests, revocations and expiries there are: every
\* seat follows a counted use, and nobody is promised a use at maxUses.
THEOREM UsesAreBounded == Spec => []AdmissionsBounded
  <1>1. IInv /\ UsesInv => AdmissionsBounded
    <2> SUFFICES ASSUME UsesInv, NEW i \in Invite
                 PROVE  admitted[i] <= MaxUses + Cardinality(Handler) - 1
      BY DEF AdmissionsBounded
    <2>1. Counting(i) \in SUBSET Handler /\ Counted(i) \in SUBSET Handler /\ IsFiniteSet(Handler)
      BY DEF Counting, Counted
    <2>2. /\ Cardinality(Counting(i)) \in Nat /\ Cardinality(Counted(i)) \in Nat
          /\ Cardinality(Handler) \in Nat
      BY <2>1, FS_Subset, FS_CardinalityType
    <2> QED
      BY <2>2 DEF UsesInv
  <1>2. Spec => []UsesInv
    BY InitInv, Inductive, UsesInit, UsesNext, PTL DEF Spec
  <1> QED
    BY <1>1, <1>2, CitizensInvariant, PTL
=============================================================================
