--------------------------- MODULE ServicesProofs ---------------------------
(* The services that share no row, each proved about on its own: who gets to   *)
(* see a message, how often, and who has to acknowledge it; the digest that    *)
(* goes out once; what the first start, a one-time link and an edit of the     *)
(* Constitution leave behind. For any citizens, requests, runs and failures.   *)
EXTENDS Chat, Digest, Setup, TelegramLink, Settings, FiniteSetTheorems, TLAPS

-----------------------------------------------------------------------------
(* Chat: who sees a message *)

\* At some time the citizen was entitled to read the channel.
Entitled(u, c) == u = Owner \/ Bound[c] = None \/ ever[u] \cap Above(c) # {}

PostFields == {"pc", "author", "ch", "directive", "snapshot", "to", "acks"}

\* As much of the types as the argument needs.
ChatShape ==
    /\ DOMAIN seat = User /\ DOMAIN ever = User
    /\ DOMAIN post = Message
    /\ \A m \in Posted : DOMAIN post[m] = PostFields /\ post[m].ch \in Channel
    /\ DOMAIN shown = User /\ \A u \in User : DOMAIN shown[u] = Channel
    /\ DOMAIN page = User /\ \A u \in User : DOMAIN page[u] = Channel

SeatInv == \A u \in User : seat[u] \in ever[u]

\* What is on its way goes to entitled citizens: the events and the answers.
EventInv ==
    /\ \A e \in echo : e[1] \in Posted
    /\ \A m \in Posted : \A u \in post[m].to : u \in User => Entitled(u, post[m].ch)
PageInv == \A u \in User, c \in Channel : page[u][c] # None => Entitled(u, c)

ChatInv == ChatShape /\ SeatInv /\ EventInv /\ PageInv /\ OnlyReadersSee

-----------------------------------------------------------------------------
LEMMA ChatInitInv == ASSUME ChatConstants, ChatInit PROVE ChatInv
  <1>1. Posted = {}
    BY DEF ChatInit, Posted, NoPost
  <1> QED
    BY <1>1 DEF ChatInit, ChatInv, ChatShape, SeatInv, EventInv, PageInv, OnlyReadersSee, ChatConstants

\* A seat held was held once; rights once had stay had.
LEMMA CanReadEntitles ==
    ASSUME ChatInv, NEW u \in User, NEW c, CanRead(u, c) PROVE Entitled(u, c)
  BY DEF ChatInv, SeatInv, CanRead, Entitled

\* Whatever happens to one post, its channel stays and its recipients are entitled.
LEMMA PostStep ==
    ASSUME ChatInv, NEW m \in Message, NEW rec, post' = [post EXCEPT ![m] = rec],
           DOMAIN rec = PostFields, rec.pc # "none", rec.ch \in Channel,
           \A u \in rec.to : u \in User => Entitled(u, rec.ch),
           \A e \in echo' : e \in echo \/ e[1] = m,
           UNCHANGED <<seat, ever, shown, page>>
    PROVE  ChatInv'
  <1>1. \A k \in Message : post'[k] = IF k = m THEN rec ELSE post[k]
    BY DEF ChatInv, ChatShape
  <1>2. Posted' = Posted \cup {m}
    BY <1>1 DEF Posted
  <1>3. ChatShape'
    BY <1>1, <1>2 DEF ChatInv, ChatShape
  <1>4. EventInv'
    <2>1. \A e \in echo' : e[1] \in Posted'
      BY <1>2 DEF ChatInv, EventInv
    <2>2. ASSUME NEW k \in Posted', NEW u \in post'[k].to, u \in User
          PROVE  u = Owner \/ Bound[post'[k].ch] = None \/ ever[u] \cap Above(post'[k].ch) # {}
      <3>1. Entitled(u, post'[k].ch)
        BY <1>1, <1>2, <2>2 DEF ChatInv, EventInv
      <3> QED
        BY <3>1 DEF Entitled
    <2> QED
      BY <2>1, <2>2 DEF EventInv, Entitled, Above
  <1>5. SeatInv' /\ PageInv' /\ OnlyReadersSee'
    BY DEF ChatInv, SeatInv, PageInv, OnlyReadersSee, Entitled, Above
  <1> QED
    BY <1>3, <1>4, <1>5 DEF ChatInv

\* A delivery reaches only whom the event is addressed to.
LEMMA DeliverStep ==
    ASSUME ChatInv, NEW m \in Posted, NEW p, Deliver(m, p), UNCHANGED <<seat, ever, page>>,
           echo' \subseteq echo, Posted' = Posted, DOMAIN post' = Message,
           \A k \in Posted : DOMAIN post'[k] = PostFields /\ post'[k].ch = post[k].ch /\ post'[k].to = post[k].to
    PROVE  ChatInv'
  <1> DEFINE c == post[m].ch
  <1>1. c \in Channel
    BY DEF ChatInv, ChatShape
  <1>2. \A u \in User : \/ shown'[u] = shown[u]
                        \/ /\ Entitled(u, c)
                           /\ shown'[u] = [shown[u] EXCEPT ![c] = Merge(@, m)]
    BY <1>1 DEF Deliver, ChatInv, EventInv, Entitled
  <1>3. DOMAIN shown' = User
    BY DEF Deliver
  <1>4. \A u \in User : DOMAIN shown'[u] = Channel
    BY <1>2 DEF ChatInv, ChatShape
  <1>5. \A u \in User, d \in Channel : shown'[u][d] = shown[u][d] \/ (d = c /\ Entitled(u, d))
    BY <1>1, <1>2 DEF ChatInv, ChatShape
  <1>6. OnlyReadersSee'
    BY <1>5 DEF ChatInv, OnlyReadersSee, Entitled, Above
  <1>7. ChatShape'
    BY <1>3, <1>4 DEF ChatInv, ChatShape
  <1>8. EventInv'
    BY DEF ChatInv, EventInv, Entitled, Above
  <1>9. SeatInv' /\ PageInv'
    BY DEF ChatInv, SeatInv, PageInv, Entitled, Above
  <1> QED
    BY <1>6, <1>7, <1>8, <1>9 DEF ChatInv

\* A step that moves no message.
LEMMA ChatQuiet ==
    ASSUME ChatInv, UNCHANGED <<post, echo, shown, page, seat, ever>> PROVE ChatInv'
  BY DEF ChatInv, ChatShape, SeatInv, EventInv, PageInv, OnlyReadersSee, Entitled, Above, Posted

-----------------------------------------------------------------------------
LEMMA WriteStep ==
    ASSUME ChatInv, NEW m \in Message,
           \/ \E u \in User, c \in Channel, d \in BOOLEAN : Post(m, u, c, d)
           \/ CollectRecipients(m) \/ InsertDirectiveAcks(m) \/ Publish(m) \/ PublishFails(m)
    PROVE  ChatInv'
  <1>1. ASSUME NEW u \in User, NEW c \in Channel, NEW d \in BOOLEAN, Post(m, u, c, d) PROVE ChatInv'
    <2> DEFINE rec == [pc |-> "inserted", author |-> u, ch |-> c, directive |-> d,
                       snapshot |-> seat, to |-> {}, acks |-> {}]
    <2>1. DOMAIN rec = PostFields /\ rec.pc # "none" /\ rec.ch \in Channel /\ rec.to = {}
      BY DEF PostFields
    <2>2. post' = [post EXCEPT ![m] = rec] /\ UNCHANGED <<seat, ever, shown, page, echo>>
      BY <1>1 DEF Post, client
    <2> HIDE DEF rec
    <2> QED
      BY <2>1, <2>2, PostStep
  <1>2. CASE CollectRecipients(m)
    <2> DEFINE pc == IF post[m].directive THEN "acks" ELSE "emit"
               rec == [post[m] EXCEPT !.pc = pc, !.to = Recipients(post[m].ch)]
    <2>1. m \in Posted
      BY <1>2 DEF CollectRecipients, Posted
    <2>2. pc # "none" /\ DOMAIN post[m] = PostFields /\ post[m].ch \in Channel
      BY <2>1 DEF ChatInv, ChatShape
    <2>3. DOMAIN rec = PostFields /\ rec.pc = pc /\ rec.ch = post[m].ch /\ rec.to = Recipients(post[m].ch)
      BY <2>2 DEF PostFields
    <2>4. post' = [post EXCEPT ![m] = rec] /\ UNCHANGED <<seat, ever, shown, page, echo>>
      BY <1>2 DEF CollectRecipients, client
    <2>5. \A u \in Recipients(post[m].ch) : u \in User => Entitled(u, post[m].ch)
      BY DEF ChatInv, SeatInv, Recipients, Entitled
    <2> HIDE DEF pc, rec
    <2> QED
      BY <2>2, <2>3, <2>4, <2>5, PostStep
  <1>3. CASE InsertDirectiveAcks(m)
    <2> DEFINE acks == Subordinates(post[m].ch, post[m].author, post[m].snapshot, post[m].to)
               rec == [post[m] EXCEPT !.pc = "emit", !.acks = acks]
    <2>1. m \in Posted
      BY <1>3 DEF InsertDirectiveAcks, Posted
    <2>2. DOMAIN post[m] = PostFields /\ post[m].ch \in Channel
      BY <2>1 DEF ChatInv, ChatShape
    <2>3. DOMAIN rec = PostFields /\ rec.pc = "emit" /\ rec.ch = post[m].ch /\ rec.to = post[m].to
      BY <2>2 DEF PostFields
    <2>4. post' = [post EXCEPT ![m] = rec] /\ UNCHANGED <<seat, ever, shown, page, echo>>
      BY <1>3 DEF InsertDirectiveAcks, client
    <2>5. \A u \in post[m].to : u \in User => Entitled(u, post[m].ch)
      BY <2>1 DEF ChatInv, EventInv
    <2> HIDE DEF acks, rec
    <2> QED
      BY <2>2, <2>3, <2>4, <2>5, PostStep
  <1>4. CASE Publish(m) \/ PublishFails(m)
    <2>1. m \in Posted
      BY <1>4 DEF Publish, PublishFails, Posted
    <2>2. PICK pc \in {"local", "done"} : post' = [post EXCEPT ![m].pc = pc]
      BY <1>4 DEF Publish, PublishFails
    <2> DEFINE rec == [post[m] EXCEPT !.pc = pc]
    <2>3. DOMAIN post[m] = PostFields /\ post[m].ch \in Channel
      BY <2>1 DEF ChatInv, ChatShape
    <2>4. DOMAIN rec = PostFields /\ rec.pc = pc /\ rec.ch = post[m].ch /\ rec.to = post[m].to
      BY <2>3 DEF PostFields
    <2>5. post' = [post EXCEPT ![m] = rec]
      BY <2>2
    <2>6. /\ UNCHANGED <<seat, ever, shown, page>> /\ \A e \in echo' : e \in echo \/ e[1] = m
      BY <1>4 DEF Publish, PublishFails, client
    <2>7. \A u \in post[m].to : u \in User => Entitled(u, post[m].ch)
      BY <2>1 DEF ChatInv, EventInv
    <2> HIDE DEF rec
    <2> QED
      BY <2>3, <2>4, <2>5, <2>6, <2>7, PostStep
  <1> QED
    BY <1>1, <1>2, <1>3, <1>4

LEMMA LocalStep == ASSUME ChatInv, NEW m \in Message, LocalDelivery(m) PROVE ChatInv'
  <1>1. m \in Posted /\ Deliver(m, Here) /\ UNCHANGED <<seat, ever, page, echo>>
    BY DEF LocalDelivery, Posted
  <1>2. post' = [post EXCEPT ![m].pc = "done"]
    BY DEF LocalDelivery
  <1>3. /\ DOMAIN post' = Message /\ Posted' = Posted
        /\ \A k \in Posted : /\ DOMAIN post'[k] = PostFields
                             /\ post'[k].ch = post[k].ch /\ post'[k].to = post[k].to
    BY <1>1, <1>2 DEF ChatInv, ChatShape, Posted, PostFields
  <1> QED
    BY <1>1, <1>3, DeliverStep

LEMMA EchoStep ==
    ASSUME ChatInv, NEW m \in Message, NEW p \in Process, EchoDelivery(m, p) PROVE ChatInv'
  <1>1. m \in Posted /\ Deliver(m, p) /\ echo' \subseteq echo /\ UNCHANGED <<seat, ever, page, post>>
    BY DEF EchoDelivery, ChatInv, EventInv, server
  <1>2. /\ DOMAIN post' = Message /\ Posted' = Posted
        /\ \A k \in Posted : /\ DOMAIN post'[k] = PostFields
                             /\ post'[k].ch = post[k].ch /\ post'[k].to = post[k].to
    BY <1>1 DEF ChatInv, ChatShape, Posted
  <1> QED
    BY <1>1, <1>2, DeliverStep

\* Seats come and go; a seat once held is remembered.
LEMMA MoveStep == ASSUME ChatInv, NEW u \in User, NEW n, Move(u, n) PROVE ChatInv'
  <1>1. /\ seat' = [seat EXCEPT ![u] = n] /\ ever' = [ever EXCEPT ![u] = @ \cup {n}]
        /\ UNCHANGED <<post, echo, shown, page>>
    BY DEF Move, client
  <1>2. \A v \in User : ever[v] \subseteq ever'[v] /\ seat'[v] \in ever'[v]
    BY <1>1 DEF ChatInv, ChatShape, SeatInv
  <1>3. \A v \in User : \A c : Entitled(v, c) => Entitled(v, c)'
    BY <1>2 DEF Entitled, Above
  <1>4. ChatShape'
    BY <1>1 DEF ChatInv, ChatShape, Posted
  <1>5. EventInv'
    BY <1>1, <1>3 DEF ChatInv, EventInv, Posted
  <1>6. PageInv'
    BY <1>1, <1>3 DEF ChatInv, PageInv
  <1>7. OnlyReadersSee'
    BY <1>1, <1>2 DEF ChatInv, OnlyReadersSee, Above
  <1> QED
    BY <1>2, <1>4, <1>5, <1>6, <1>7 DEF ChatInv, SeatInv

LEMMA ClientStep ==
    ASSUME ChatInv, NEW u \in User, NEW c \in Channel, LoadMessages(u, c) \/ ShowPage(u, c) PROVE ChatInv'
  <1>1. Entitled(u, c) /\ UNCHANGED <<seat, ever, post, echo>>
    <2>1. CASE LoadMessages(u, c)
      BY <2>1, CanReadEntitles DEF LoadMessages, server
    <2>2. CASE ShowPage(u, c)
      BY <2>2 DEF ShowPage, ChatInv, PageInv, server
    <2> QED
      BY <2>1, <2>2
  <1>2. /\ DOMAIN page' = User /\ \A v \in User : DOMAIN page'[v] = Channel
        /\ \A v \in User, d \in Channel : page'[v][d] = page[v][d] \/ (v = u /\ d = c)
    <2>1. CASE LoadMessages(u, c)
      <3>1. PICK list \in SetToSeqs({m \in Posted : post[m].ch = c}) : page' = [page EXCEPT ![u][c] = list]
        BY <2>1 DEF LoadMessages
      <3> QED
        BY <3>1 DEF ChatInv, ChatShape
    <2>2. CASE ShowPage(u, c)
      <3>1. page' = [page EXCEPT ![u][c] = None]
        BY <2>2 DEF ShowPage
      <3> QED
        BY <3>1 DEF ChatInv, ChatShape
    <2> QED
      BY <2>1, <2>2
  <1>3. /\ DOMAIN shown' = User /\ \A v \in User : DOMAIN shown'[v] = Channel
        /\ \A v \in User, d \in Channel : shown'[v][d] = shown[v][d] \/ (v = u /\ d = c)
    BY DEF LoadMessages, ShowPage, ChatInv, ChatShape
  <1>4. ChatShape' /\ SeatInv' /\ EventInv'
    BY <1>1, <1>2, <1>3 DEF ChatInv, ChatShape, SeatInv, EventInv, Entitled, Above, Posted
  <1>5. PageInv'
    BY <1>1, <1>2 DEF ChatInv, PageInv, Entitled, Above
  <1>6. OnlyReadersSee'
    BY <1>1, <1>3 DEF ChatInv, OnlyReadersSee, Entitled, Above
  <1> QED
    BY <1>4, <1>5, <1>6 DEF ChatInv

LEMMA ChatInductive == ASSUME ChatInv, [ChatNext]_chatVars PROVE ChatInv'
  <1>1. CASE UNCHANGED chatVars
    BY <1>1, ChatQuiet DEF chatVars
  <1>2. ASSUME NEW m \in Message, NEW u \in User, AcknowledgeDirective(m, u) PROVE ChatInv'
    BY <1>2, ChatQuiet DEF AcknowledgeDirective, client
  <1>3. ASSUME NEW u \in User, Disconnect(u) \/ Reconnect(u) PROVE ChatInv'
    BY <1>3, ChatQuiet DEF Disconnect, Reconnect, server
  <1>4. CASE ChatNext
    BY <1>4, <1>2, <1>3, WriteStep, LocalStep, EchoStep, MoveStep, ClientStep DEF ChatNext, Carry
  <1> QED
    BY <1>1, <1>4

\* A client shows a channel's messages only to a citizen who was entitled to
\* read it once, however seats, loads, events and echoes interleave.
THEOREM ReadersOnly == ASSUME ChatConstants PROVE ChatSpec => []OnlyReadersSee
  <1>1. ChatInv => OnlyReadersSee
    BY DEF ChatInv
  <1> QED
    BY <1>1, ChatInitInv, ChatInductive, PTL DEF ChatSpec

-----------------------------------------------------------------------------
(* A message is shown once *)

\* A list of messages without a repetition, or nothing.
OnceEach(list) == list # None => list \in Seq(Message) /\ IsInjective(list)

OnceInv ==
    /\ IsFiniteSet(Posted)
    /\ \A u \in User, c \in Channel : OnceEach(shown[u][c]) /\ OnceEach(page[u][c])

\* An event that comes again is not appended again.
LEMMA MergeOnce ==
    ASSUME NEW list, OnceEach(list), NEW m \in Message
    PROVE  OnceEach(Merge(list, m))
  <1>1. CASE list = None
    BY <1>1 DEF Merge, OnceEach, IsInjective
  <1>2. CASE list # None /\ m \in ToSet(list)
    BY <1>2 DEF Merge, OnceEach
  <1>3. CASE list # None /\ m \notin ToSet(list)
    <2>1. list \in Seq(Message) /\ IsInjective(list)
      BY <1>3 DEF OnceEach
    <2>2. Merge(list, m) = Append(list, m) /\ \A i \in DOMAIN list : list[i] # m
      BY <1>3 DEF Merge, ToSet
    <2>3. Append(list, m) \in Seq(Message)
      BY <2>1
    <2>4. \A i, j \in DOMAIN Append(list, m) : Append(list, m)[i] = Append(list, m)[j] => i = j
      BY <2>1, <2>2 DEF IsInjective
    <2> QED
      BY <2>2, <2>3, <2>4 DEF OnceEach, IsInjective
  <1> QED
    BY <1>1, <1>2, <1>3

\* A page has each message of the channel once.
LEMMA PageOnce ==
    ASSUME NEW S \in SUBSET Message, IsFiniteSet(S), NEW list \in SetToSeqs(S)
    PROVE  OnceEach(list)
  <1>1. Cardinality(S) \in Nat
    BY FS_CardinalityType
  <1>2. list \in [1..Cardinality(S) -> S] /\ IsInjective(list)
    BY DEF SetToSeqs, IsInjective
  <1>3. list \in Seq(Message)
    BY <1>1, <1>2
  <1> QED
    BY <1>2, <1>3 DEF OnceEach

LEMMA OnceInit == ChatInit => OnceInv
  <1> SUFFICES ASSUME ChatInit PROVE OnceInv
    OBVIOUS
  <1>1. Posted = {} /\ IsFiniteSet({})
    BY FS_EmptySet DEF ChatInit, Posted, NoPost
  <1>2. \A u \in User, c \in Channel : shown[u][c] = None /\ page[u][c] = None
    BY DEF ChatInit
  <1> QED
    BY <1>1, <1>2 DEF OnceInv, OnceEach

LEMMA PostedGrows ==
    ASSUME ChatInv, NEW m \in Message, NEW rec, post' = [post EXCEPT ![m] = rec]
    PROVE  Posted' \subseteq Posted \cup {m}
  BY DEF ChatInv, ChatShape, Posted

\* One action posts one message at most.
LEMMA PostedFinite == ChatInv /\ OnceInv /\ [ChatNext]_chatVars => IsFiniteSet(Posted)'
  <1> SUFFICES ASSUME ChatInv, OnceInv, [ChatNext]_chatVars PROVE IsFiniteSet(Posted')
    OBVIOUS
  <1>1. ASSUME NEW m \in Message, NEW rec, post' = [post EXCEPT ![m] = rec] PROVE IsFiniteSet(Posted')
    <2>1. Posted' \subseteq Posted \cup {m}
      BY <1>1, PostedGrows
    <2>2. IsFiniteSet(Posted \cup {m})
      BY FS_AddElement DEF OnceInv
    <2> QED
      BY <2>1, <2>2, FS_Subset
  <1>2. ASSUME NEW m \in Message, Carry(m) \/ PublishFails(m)
        PROVE  post' = post \/ \E rec : post' = [post EXCEPT ![m] = rec]
    BY <1>2 DEF Carry, CollectRecipients, InsertDirectiveAcks, Publish, LocalDelivery, EchoDelivery,
                PublishFails, server
  <1>3. ASSUME NEW m \in Message, NEW u \in User, NEW c \in Channel, NEW d \in BOOLEAN, Post(m, u, c, d)
        PROVE  \E rec : post' = [post EXCEPT ![m] = rec]
    BY <1>3 DEF Post
  <1>4. post' = post => Posted' = Posted
    BY DEF Posted
  <1>5. CASE post' = post
    BY <1>4, <1>5 DEF OnceInv
  <1>6. CASE post' # post
    <2>1. PICK m \in Message : \E rec : post' = [post EXCEPT ![m] = rec]
      BY <1>2, <1>3, <1>6 DEF ChatNext, chatVars, AcknowledgeDirective, Move, Disconnect, Reconnect,
         LoadMessages, ShowPage, server
    <2> QED
      BY <1>1, <2>1
  <1> QED
    BY <1>5, <1>6

LEMMA OnceNext == ChatInv /\ OnceInv /\ [ChatNext]_chatVars => OnceInv'
  <1> SUFFICES ASSUME ChatInv, OnceInv, [ChatNext]_chatVars PROVE OnceInv'
    OBVIOUS
  <1>1. IsFiniteSet(Posted)'
    BY PostedFinite
  <1>2. ASSUME \A u \in User, c \in Channel : OnceEach(shown'[u][c]) /\ OnceEach(page'[u][c])
        PROVE  OnceInv'
    BY <1>1, <1>2 DEF OnceInv, OnceEach
  <1>3. CASE UNCHANGED <<shown, page>>
    BY <1>2, <1>3 DEF OnceInv
  <1>4. ASSUME NEW m \in Message, NEW p, Deliver(m, p), page' = page, m \in Posted PROVE OnceInv'
    <2>1. ASSUME NEW u \in User, NEW c \in Channel
          PROVE  shown'[u][c] = shown[u][c] \/ shown'[u][c] = Merge(shown[u][c], m)
      BY <1>4 DEF Deliver, ChatInv, ChatShape
    <2>2. ASSUME NEW u \in User, NEW c \in Channel PROVE OnceEach(shown'[u][c]) /\ OnceEach(page'[u][c])
      <3>1. OnceEach(shown[u][c]) /\ OnceEach(page[u][c])
        BY DEF OnceInv
      <3>2. OnceEach(Merge(shown[u][c], m))
        BY <3>1, MergeOnce
      <3> QED
        BY <1>4, <2>1, <3>1, <3>2
    <2> QED
      BY <1>2, <2>2
  <1>5. ASSUME NEW m \in Message, LocalDelivery(m) PROVE OnceInv'
    BY <1>4, <1>5 DEF LocalDelivery, Posted
  <1>6. ASSUME NEW m \in Message, NEW p \in Process, EchoDelivery(m, p) PROVE OnceInv'
    BY <1>4, <1>6 DEF EchoDelivery, ChatInv, EventInv
  <1>7. ASSUME NEW u \in User, NEW c \in Channel, LoadMessages(u, c) PROVE OnceInv'
    <2>1. PICK list \in SetToSeqs({m \in Posted : post[m].ch = c}) :
            page' = [page EXCEPT ![u][c] = list] /\ shown' = shown
      BY <1>7 DEF LoadMessages
    <2>2. OnceEach(list)
      <3> DEFINE S == {m \in Posted : post[m].ch = c}
      <3>1. S \in SUBSET Message /\ IsFiniteSet(S)
        <4>1. S \in SUBSET Posted /\ IsFiniteSet(Posted)
          BY DEF OnceInv
        <4> QED
          BY <4>1, FS_Subset DEF Posted
      <3>2. list \in SetToSeqs(S)
        OBVIOUS
      <3> HIDE DEF S
      <3> QED
        BY <3>1, <3>2, PageOnce
    <2>3. \A v \in User, e \in Channel : page'[v][e] = page[v][e] \/ page'[v][e] = list
      BY <2>1 DEF ChatInv, ChatShape
    <2> QED
      BY <1>2, <2>1, <2>2, <2>3 DEF OnceInv
  <1>8. ASSUME NEW u \in User, NEW c \in Channel, ShowPage(u, c) PROVE OnceInv'
    <2>1. \A v \in User, e \in Channel :
            /\ shown'[v][e] = shown[v][e] \/ shown'[v][e] = page[v][e]
            /\ page'[v][e] = page[v][e] \/ page'[v][e] = None
      BY <1>8 DEF ShowPage, ChatInv, ChatShape
    <2> QED
      BY <1>2, <2>1 DEF OnceInv, OnceEach
  <1> QED
    BY <1>3, <1>5, <1>6, <1>7, <1>8
    DEF ChatNext, chatVars, Carry, CollectRecipients, InsertDirectiveAcks, Publish, PublishFails, Post,
        AcknowledgeDirective, Move, Disconnect, Reconnect, client

\* However often the bus hands over an event, whatever a load brings meanwhile,
\* no message stands twice on a client's screen.
THEOREM NoMessageTwice == ASSUME ChatConstants PROVE ChatSpec => []ShownOnce
  <1>1. OnceInv => ShownOnce
    BY DEF OnceInv, OnceEach, ShownOnce
  <1> QED
    BY <1>1, ChatInitInv, ChatInductive, OnceInit, OnceNext, PTL DEF ChatSpec

-----------------------------------------------------------------------------
(* Who has to acknowledge a directive *)

\* While a request runs, whoever has kept their seat has it in its snapshot; of
\* them the recipients it collects are those at or above the channel's node, and
\* those who owe an acknowledgement of a directive the members of that node.
Obliges(p, still) ==
    /\ still \subseteq User /\ \A u \in still : seat[u] = p.snapshot[u]
    /\ p.pc \in {"acks", "emit", "local", "done"} =>
          \A u \in still \ {Owner} : u \in p.to <=> seat[u] \in Above(p.ch)
    /\ p.directive /\ p.pc \in {"emit", "local", "done"} =>
          \A u \in still \ {p.author, Owner} :
              u \in p.acks <=> Bound[p.ch] # None /\ seat[u] = Bound[p.ch]

ObligeInv == DOMAIN stayed = Message /\ \A m \in Posted : Obliges(post[m], stayed[m])

LEMMA ObligeInit == ChatInit => ObligeInv
  BY DEF ChatInit, ObligeInv, Posted, NoPost

\* In a tree only the channel's node is both at or above and at or below itself.
LEMMA OwnNode ==
    ASSUME ChatConstants, NEW c \in Channel, NEW n
    PROVE  n \in Above(c) /\ n \in Below(Bound[c]) <=> Bound[c] # None /\ n = Bound[c]
  BY DEF ChatConstants, Above, Below

\* A step of one post, while nobody moves.
LEMMA ObligePost ==
    ASSUME ChatInv, ObligeInv, NEW m \in Message, NEW rec, post' = [post EXCEPT ![m] = rec],
           UNCHANGED seat, NEW still, DOMAIN stayed' = Message,
           \A k \in Message : stayed'[k] = IF k = m THEN still ELSE stayed[k],
           Obliges(rec, still)
    PROVE  ObligeInv'
  <1>1. \A k \in Message : post'[k] = IF k = m THEN rec ELSE post[k]
    BY DEF ChatInv, ChatShape
  <1>2. Posted' \subseteq Posted \cup {m}
    BY <1>1 DEF Posted
  <1>3. \A k \in Posted' : Obliges(post'[k], stayed'[k])
    BY <1>1, <1>2 DEF ObligeInv, Posted
  <1> QED
    BY <1>3 DEF ObligeInv, Obliges

LEMMA ObligeSame ==
    ASSUME ChatInv, ObligeInv, NEW m \in Posted, NEW rec, post' = [post EXCEPT ![m] = rec],
           UNCHANGED <<seat, stayed>>, Obliges(rec, stayed[m])
    PROVE  ObligeInv'
  <1>1. /\ DOMAIN stayed' = Message /\ m \in Message
        /\ \A k \in Message : stayed'[k] = IF k = m THEN stayed[m] ELSE stayed[k]
    BY DEF ObligeInv, Posted
  <1> QED
    BY <1>1, ObligePost

LEMMA ObligeNext == ChatConstants /\ ChatInv /\ ObligeInv /\ [ChatNext]_chatVars => ObligeInv'
  <1> SUFFICES ASSUME ChatConstants, ChatInv, ObligeInv, [ChatNext]_chatVars PROVE ObligeInv'
    OBVIOUS
  <1>1. CASE UNCHANGED <<seat, post, stayed>>
    BY <1>1 DEF ObligeInv, Obliges, Posted
  <1>2. ASSUME NEW m \in Message, NEW u \in User, NEW c \in Channel, NEW d \in BOOLEAN, Post(m, u, c, d)
        PROVE  ObligeInv'
    <2> DEFINE rec == [pc |-> "inserted", author |-> u, ch |-> c, directive |-> d,
                       snapshot |-> seat, to |-> {}, acks |-> {}]
    <2>1. Obliges(rec, User)
      BY DEF Obliges
    <2>2. /\ post' = [post EXCEPT ![m] = rec] /\ seat' = seat /\ DOMAIN stayed' = Message
          /\ \A k \in Message : stayed'[k] = IF k = m THEN User ELSE stayed[k]
      BY <1>2 DEF Post, ObligeInv
    <2> HIDE DEF rec
    <2> QED
      BY <2>1, <2>2, ObligePost
  <1>3. ASSUME NEW m \in Message, CollectRecipients(m) PROVE ObligeInv'
    <2> DEFINE pc == IF post[m].directive THEN "acks" ELSE "emit"
               rec == [post[m] EXCEPT !.pc = pc, !.to = Recipients(post[m].ch)]
    <2>1. m \in Posted /\ post' = [post EXCEPT ![m] = rec] /\ UNCHANGED <<seat, stayed>>
      BY <1>3 DEF CollectRecipients, Posted
    <2>2. DOMAIN post[m] = PostFields /\ post[m].ch \in Channel
      BY <2>1 DEF ChatInv, ChatShape
    <2>3. /\ rec.snapshot = post[m].snapshot /\ rec.to = Recipients(post[m].ch) /\ rec.ch = post[m].ch
          /\ (rec.directive => rec.pc = "acks")
      BY <2>2 DEF PostFields
    <2>4. \A u \in stayed[m] \ {Owner} : u \in Recipients(post[m].ch) <=> seat[u] \in Above(post[m].ch)
      BY <2>1 DEF ObligeInv, Obliges, Recipients
    <2>5. stayed[m] \subseteq User /\ \A u \in stayed[m] : seat[u] = post[m].snapshot[u]
      BY <2>1 DEF ObligeInv, Obliges
    <2> HIDE DEF rec, pc
    <2>6. Obliges(rec, stayed[m])
      BY <2>3, <2>4, <2>5 DEF Obliges
    <2> QED
      BY <2>1, <2>6, ObligeSame
  <1>4. ASSUME NEW m \in Message, InsertDirectiveAcks(m) PROVE ObligeInv'
    <2> DEFINE p == post[m]
               acks == Subordinates(p.ch, p.author, p.snapshot, p.to)
               rec == [p EXCEPT !.pc = "emit", !.acks = acks]
    <2>1. m \in Posted /\ post' = [post EXCEPT ![m] = rec] /\ UNCHANGED <<seat, stayed>> /\ p.pc = "acks"
      BY <1>4 DEF InsertDirectiveAcks, Posted
    <2>2. DOMAIN p = PostFields /\ p.ch \in Channel
      BY <2>1 DEF ChatInv, ChatShape
    <2>3. /\ rec.snapshot = p.snapshot /\ rec.to = p.to /\ rec.ch = p.ch /\ rec.author = p.author
          /\ rec.acks = acks
      BY <2>2 DEF PostFields
    <2>4. /\ stayed[m] \subseteq User /\ \A u \in stayed[m] : seat[u] = p.snapshot[u]
          /\ \A u \in stayed[m] \ {Owner} : u \in p.to <=> seat[u] \in Above(p.ch)
      BY <2>1 DEF ObligeInv, Obliges
    <2>5. \A u \in stayed[m] \ {p.author, Owner} :
              u \in acks <=> Bound[p.ch] # None /\ seat[u] = Bound[p.ch]
      <3> TAKE u \in stayed[m] \ {p.author, Owner}
      <3>1. u \in acks <=> u \in p.to /\ (Bound[p.ch] = None \/ seat[u] \in Below(Bound[p.ch]))
        BY <2>4 DEF Subordinates
      <3>2. u \in p.to <=> seat[u] \in Above(p.ch)
        BY <2>4
      <3>3. Bound[p.ch] = None => seat[u] \notin Above(p.ch)
        BY DEF Above
      <3> HIDE DEF acks
      <3> QED
        BY <3>1, <3>2, <3>3, <2>2, OwnNode
    <2> HIDE DEF rec, acks, p
    <2>6. Obliges(rec, stayed[m])
      BY <2>3, <2>4, <2>5 DEF Obliges
    <2> QED
      BY <2>1, <2>6, ObligeSame
  <1>5. ASSUME NEW m \in Message, Publish(m) \/ PublishFails(m) \/ LocalDelivery(m) PROVE ObligeInv'
    <2>1. PICK pc \in {"local", "done"} : post' = [post EXCEPT ![m].pc = pc]
      BY <1>5 DEF Publish, PublishFails, LocalDelivery
    <2> DEFINE p == post[m]
               rec == [p EXCEPT !.pc = pc]
    <2>2. m \in Posted /\ post' = [post EXCEPT ![m] = rec] /\ UNCHANGED <<seat, stayed>>
          /\ p.pc \in {"emit", "local"}
      BY <1>5, <2>1 DEF Publish, PublishFails, LocalDelivery, Posted
    <2>3. DOMAIN p = PostFields
      BY <2>2 DEF ChatInv, ChatShape
    <2>4. /\ rec.snapshot = p.snapshot /\ rec.to = p.to /\ rec.ch = p.ch /\ rec.author = p.author
          /\ rec.acks = p.acks /\ rec.directive = p.directive
      BY <2>3 DEF PostFields
    <2>5. Obliges(p, stayed[m])
      BY <2>2 DEF ObligeInv
    <2> HIDE DEF rec, p
    <2>6. Obliges(rec, stayed[m])
      BY <2>2, <2>4, <2>5 DEF Obliges
    <2> QED
      BY <2>2, <2>6, ObligeSame
  <1>6. ASSUME NEW u \in User, NEW n, Move(u, n) PROVE ObligeInv'
    <2>1. /\ seat' = [seat EXCEPT ![u] = n] /\ stayed' = [m \in Message |-> stayed[m] \ {u}]
          /\ post' = post /\ Posted' = Posted
      BY <1>6 DEF Move, Posted
    <2>2. DOMAIN seat = User /\ \A m \in Posted : m \in Message /\ Obliges(post[m], stayed[m])
      BY DEF ObligeInv, ChatInv, ChatShape, Posted
    <2>3. \A v \in User : v # u => seat'[v] = seat[v]
      BY <2>1, <2>2
    <2>4. \A m \in Posted : stayed'[m] = stayed[m] \ {u} /\ DOMAIN stayed' = Message
      BY <2>1, <2>2
    <2>5. \A m \in Posted : Obliges(post[m], stayed[m] \ {u})'
      <3>1. ASSUME NEW p, NEW still, Obliges(p, still)
            PROVE  /\ still \ {u} \subseteq User /\ \A v \in still \ {u} : seat'[v] = p.snapshot[v]
                   /\ p.pc \in {"acks", "emit", "local", "done"} =>
                         \A v \in (still \ {u}) \ {Owner} : v \in p.to <=> seat'[v] \in Above(p.ch)
                   /\ p.directive /\ p.pc \in {"emit", "local", "done"} =>
                         \A v \in (still \ {u}) \ {p.author, Owner} :
                             v \in p.acks <=> Bound[p.ch] # None /\ seat'[v] = Bound[p.ch]
        <4>1. \A v \in still \ {u} : seat'[v] = seat[v]
          BY <2>3, <3>1 DEF Obliges
        <4> QED
          BY <3>1, <4>1 DEF Obliges
      <3> QED
        BY <2>1, <2>2, <2>4, <3>1 DEF Obliges, Above
    <2> QED
      BY <2>1, <2>4, <2>5 DEF ObligeInv
  <1>7. CASE ~UNCHANGED <<seat, post, stayed>>
    BY <1>7, <1>2, <1>3, <1>4, <1>5, <1>6
    DEF ChatNext, chatVars, Carry, EchoDelivery, AcknowledgeDirective, Disconnect, Reconnect,
        LoadMessages, ShowPage, server
  <1> QED
    BY <1>1, <1>7

\* Once a directive goes out, exactly those who have sat in the channel's node
\* since it was written have to acknowledge it, the author and the sovereign aside,
\* for any tree and any moves between its steps.
THEOREM DirectivesObligeTheNode == ASSUME ChatConstants PROVE ChatSpec => []OnlyTheNodeIsObliged
  <1>1. ObligeInv => OnlyTheNodeIsObliged
    BY DEF ObligeInv, Obliges, OnlyTheNodeIsObliged
  <1> QED
    BY <1>1, ChatInitInv, ChatInductive, ObligeInit, ObligeNext, PTL DEF ChatSpec

-----------------------------------------------------------------------------
(* The e-mail digest *)

MailCount == [Reader -> [Period -> Nat]]

DigestTypeOK ==
    /\ today \in Period /\ row \subseteq Reader \X Period /\ failures \in Nat
    /\ run \in [Job -> [pc : {"idle", "next", "claim", "send", "release"},
                        key : Period \cup {0}, todo : SUBSET Reader, user : Reader \cup {Nobody}]]
    /\ mails \in MailCount /\ doubtful \in MailCount

\* A run that works has the period it began in; past the look, its citizen.
RunInv == \A r \in Job :
    /\ run[r].pc # "idle" => run[r].key \in Period
    /\ run[r].pc \in {"claim", "send", "release"} => run[r].user \in Reader

\* One run at a time holds a claim.
HeldByOne == \A r, q \in Job :
    Holds(r) /\ Holds(q) /\ run[r].user = run[q].user /\ run[r].key = run[q].key => r = q

\* While a claim is held its row stands and no mail of it has gone out unless
\* the server kept its answer.
HeldInv == \A r \in Job : Holds(r) =>
    /\ <<run[r].user, run[r].key>> \in row
    /\ mails[run[r].user][run[r].key] <= doubtful[run[r].user][run[r].key]

\* Nor has one where no row stands.
FreeInv == \A u \in Reader, d \in Period : <<u, d>> \notin row => mails[u][d] <= doubtful[u][d]

DigestInv == DigestTypeOK /\ RunInv /\ HeldByOne /\ HeldInv /\ FreeInv /\ OneMailPerPeriod /\ RowMeansMail

-----------------------------------------------------------------------------
LEMMA DigestInitInv == ASSUME DigestConstants, DigestInit PROVE DigestInv
  <1>1. today \in Period /\ \A u \in Reader : \A d \in Period : mails[u][d] = 0
    BY DEF DigestConstants, DigestInit, Period
  <1> QED
    BY <1>1 DEF DigestInit, DigestInv, DigestTypeOK, MailCount, RunInv, HeldByOne, HeldInv, FreeInv,
        OneMailPerPeriod, RowMeansMail, Holds, NoRun

\* A step of a run that neither touches rows or mails nor comes to hold or to
\* leave a claim.
LEMMA DigestQuiet ==
    ASSUME DigestInv, DigestTypeOK', RunInv', UNCHANGED <<row, ghosts>>,
           \A q \in Job : Holds(q)' <=> Holds(q),
           \A q \in Job : Holds(q) => run'[q].user = run[q].user /\ run'[q].key = run[q].key
    PROVE  DigestInv'
  <1>1. HeldByOne' /\ HeldInv' /\ FreeInv' /\ OneMailPerPeriod'
    BY DEF DigestInv, HeldByOne, HeldInv, FreeInv, OneMailPerPeriod, ghosts
  <1>2. RowMeansMail'
    BY DEF DigestInv, RowMeansMail, ghosts
  <1> QED
    BY <1>1, <1>2 DEF DigestInv

LEMMA NextDayStep == ASSUME DigestInv, DigestConstants, NextDay PROVE DigestInv'
  <1>1. today' \in Period
    BY DEF DigestInv, DigestTypeOK, NextDay, Period, DigestConstants
  <1>2. DigestTypeOK' /\ RunInv'
    BY <1>1 DEF DigestInv, DigestTypeOK, RunInv, NextDay, ghosts
  <1> QED
    BY <1>2, DigestQuiet DEF NextDay, Holds

LEMMA BeginStep ==
    ASSUME DigestInv, NEW r \in Job, NEW wanting \in SUBSET Reader, Begin(r, wanting) PROVE DigestInv'
  <1>1. DigestTypeOK' /\ RunInv'
    BY DEF DigestInv, DigestTypeOK, RunInv, Begin, NoRun, ghosts, MailCount
  <1>2. run[r].pc = "idle" /\ run'[r].pc = "next" /\ \A q \in Job \ {r} : run'[q] = run[q]
    BY DEF Begin, DigestInv, DigestTypeOK, NoRun
  <1> QED
    BY <1>1, <1>2, DigestQuiet DEF Begin, Holds

LEMMA LookStep == ASSUME DigestInv, NEW r \in Job, NEW u \in Reader, Look(r, u) PROVE DigestInv'
  <1>1. DigestTypeOK' /\ RunInv'
    BY ZenonT(60) DEF DigestInv, DigestTypeOK, RunInv, Look, ghosts, MailCount
  <1>2. run[r].pc = "next" /\ run'[r].pc \in {"next", "claim"} /\ \A q \in Job \ {r} : run'[q] = run[q]
    BY DEF Look, DigestInv, DigestTypeOK
  <1> QED
    BY <1>1, <1>2, DigestQuiet DEF Look, Holds

LEMMA FinishStep == ASSUME DigestInv, NEW r \in Job, Finish(r) PROVE DigestInv'
  <1>1. DigestTypeOK' /\ RunInv'
    BY DEF DigestInv, DigestTypeOK, RunInv, Finish, NoRun, ghosts, MailCount
  <1>2. run[r].pc = "next" /\ run'[r].pc = "idle" /\ \A q \in Job \ {r} : run'[q] = run[q]
    BY DEF Finish, DigestInv, DigestTypeOK, NoRun
  <1> QED
    BY <1>1, <1>2, DigestQuiet DEF Finish, Holds

\* The unique index: of two runs that claim one citizen's period, one sends.
LEMMA ClaimStep == ASSUME DigestInv, NEW r \in Job, Claim(r) PROVE DigestInv'
  <1> DEFINE c == <<run[r].user, run[r].key>>
  <1>1. /\ run[r].pc = "claim" /\ run[r].user \in Reader /\ run[r].key \in Period
        /\ \A q \in Job \ {r} : run'[q] = run[q]
        /\ run'[r].user = run[r].user /\ run'[r].key = run[r].key
    BY DEF Claim, DigestInv, DigestTypeOK, RunInv
  <1>2. DigestTypeOK' /\ RunInv'
    <2>1. run' = [run EXCEPT ![r].pc = "send"] \/ run' = [run EXCEPT ![r].pc = "next"]
      BY DEF Claim
    <2>2. row' \subseteq Reader \X Period
      BY <1>1 DEF DigestInv, DigestTypeOK, Claim
    <2> QED
      BY <1>1, <2>1, <2>2 DEF DigestInv, DigestTypeOK, RunInv, Claim, ghosts
  <1>3. CASE Takes(run[r].user, run[r].key)
    <2>1. run'[r].pc = "send" /\ row' = row \cup {c} /\ UNCHANGED ghosts /\ c \notin row
      BY <1>1, <1>3 DEF Claim, Takes, DigestInv, DigestTypeOK
    <2>2. \A q \in Job : Holds(q)' <=> q = r \/ Holds(q)
      BY <1>1, <2>1 DEF Holds
    <2>3. mails[run[r].user][run[r].key] <= doubtful[run[r].user][run[r].key]
      BY <1>1, <2>1 DEF DigestInv, FreeInv
    <2>4. HeldByOne' /\ HeldInv'
      BY <1>1, <2>1, <2>2, <2>3 DEF DigestInv, HeldByOne, HeldInv, ghosts, Holds
    <2>5. FreeInv' /\ OneMailPerPeriod'
      BY <2>1 DEF DigestInv, FreeInv, OneMailPerPeriod, ghosts
    <2>6. RowMeansMail'
      <3> SUFFICES ASSUME NEW d \in row'
                   PROVE  \/ mails[d[1]][d[2]] > 0 \/ d \in stranded
                          \/ \E q \in Job : Holds(q)' /\ <<run'[q].user, run'[q].key>> = d
        BY <2>1 DEF RowMeansMail, ghosts
      <3>1. CASE d = c
        BY <1>1, <2>2, <3>1
      <3>2. CASE d \in row
        BY <1>1, <2>2, <3>2 DEF DigestInv, RowMeansMail, Holds
      <3> QED
        BY <2>1, <3>1, <3>2
    <2> QED
      BY <1>2, <2>4, <2>5, <2>6 DEF DigestInv
  <1>4. CASE ~Takes(run[r].user, run[r].key)
    <2>1. run'[r].pc = "next" /\ UNCHANGED <<row, ghosts>>
      BY <1>1, <1>4 DEF Claim, DigestInv, DigestTypeOK
    <2> QED
      BY <1>1, <1>2, <2>1, DigestQuiet DEF Holds
  <1> QED
    BY <1>3, <1>4

\* What happens to one claim leaves the other citizens and periods alone: for
\* the run that held it and lets it go.
LEMMA LetGo ==
    ASSUME DigestInv, DigestTypeOK', RunInv', NEW r \in Job, Holds(r), ~Holds(r)',
           \A q \in Job \ {r} : run'[q] = run[q],
           NEW u \in Reader, NEW d \in Period, u = run[r].user, d = run[r].key,
           row' = row \/ row' = row \ {<<u, d>>},
           \A v \in Reader, e \in Period : v # u \/ e # d =>
               mails'[v][e] = mails[v][e] /\ doubtful'[v][e] = doubtful[v][e],
           mails'[u][d] <= 1 + doubtful'[u][d],
           <<u, d>> \notin row' => mails'[u][d] <= doubtful'[u][d],
           <<u, d>> \in row' => mails'[u][d] > 0 \/ <<u, d>> \in stranded',
           stranded \subseteq stranded'
    PROVE  DigestInv'
  <1> DEFINE c == <<u, d>>
  <1>1. c \in row /\ row \subseteq Reader \X Period
    BY DEF DigestInv, HeldInv, DigestTypeOK
  <1>2. \A q \in Job : Holds(q)' => Holds(q) /\ q # r /\ <<run[q].user, run[q].key>> # c
                          /\ run'[q].user = run[q].user /\ run'[q].key = run[q].key
    BY DEF DigestInv, HeldByOne, Holds
  <1>3. HeldByOne'
    BY <1>2 DEF DigestInv, HeldByOne
  <1>4. HeldInv'
    <2> SUFFICES ASSUME NEW q \in Job, Holds(q)'
                 PROVE  /\ <<run[q].user, run[q].key>> \in row'
                        /\ mails'[run[q].user][run[q].key] <= doubtful'[run[q].user][run[q].key]
      BY <1>2 DEF HeldInv
    <2>1. Holds(q) /\ <<run[q].user, run[q].key>> # c
      BY <1>2
    <2>2. run[q].user \in Reader /\ run[q].key \in Period
      BY <2>1 DEF DigestInv, RunInv, Holds
    <2> QED
      BY <2>1, <2>2 DEF DigestInv, HeldInv
  <1>5. FreeInv'
    BY <1>1 DEF DigestInv, FreeInv
  <1>6. OneMailPerPeriod'
    BY <1>1 DEF DigestInv, OneMailPerPeriod
  <1>7. RowMeansMail'
    <2> SUFFICES ASSUME NEW e \in row', e # c
                 PROVE  \/ mails'[e[1]][e[2]] > 0 \/ e \in stranded'
                        \/ \E q \in Job : Holds(q)' /\ <<run'[q].user, run'[q].key>> = e
      BY DEF RowMeansMail
    <2>1. e \in row /\ e[1] \in Reader /\ e[2] \in Period /\ e = <<e[1], e[2]>>
      BY <1>1
    <2>2. mails'[e[1]][e[2]] = mails[e[1]][e[2]]
      BY <2>1
    <2>3. CASE \E q \in Job : Holds(q) /\ <<run[q].user, run[q].key>> = e
      <3>1. PICK q \in Job : Holds(q) /\ <<run[q].user, run[q].key>> = e
        BY <2>3
      <3>2. q # r /\ run'[q] = run[q]
        BY <3>1
      <3>3. Holds(q)'
        BY <3>1, <3>2 DEF Holds
      <3> QED
        BY <3>1, <3>2, <3>3
    <2> QED
      BY <2>1, <2>2, <2>3 DEF DigestInv, RowMeansMail
  <1> QED
    BY <1>3, <1>4, <1>5, <1>6, <1>7 DEF DigestInv

\* The locals and the amounts of a run that holds a claim.
LEMMA Holding ==
    ASSUME DigestInv, NEW r \in Job, Holds(r)
    PROVE  /\ run[r].user \in Reader /\ run[r].key \in Period
           /\ mails[run[r].user][run[r].key] \in Nat /\ doubtful[run[r].user][run[r].key] \in Nat
           /\ mails[run[r].user][run[r].key] <= doubtful[run[r].user][run[r].key]
  BY DEF DigestInv, RunInv, Holds, DigestTypeOK, MailCount, HeldInv

LEMMA SendStep == ASSUME DigestInv, NEW r \in Job, Send(r) PROVE DigestInv'
  <1> DEFINE u == run[r].user
             d == run[r].key
             c == <<u, d>>
  <1>1. Holds(r) /\ ~Holds(r)' /\ \A q \in Job \ {r} : run'[q] = run[q]
    BY DEF Send, Holds, DigestInv, DigestTypeOK
  <1>2. mails' = [mails EXCEPT ![u][d] = @ + 1] /\ UNCHANGED <<row, doubtful, stranded>>
    BY DEF Send
  <1>3. DigestTypeOK' /\ RunInv'
    <2>1. mails' \in MailCount
      BY <1>1, <1>2, Holding DEF DigestInv, DigestTypeOK, MailCount
    <2> QED
      BY <2>1 DEF DigestInv, DigestTypeOK, RunInv, Send
  <1>4. mails'[u][d] = mails[u][d] + 1
    BY <1>1, <1>2, Holding DEF DigestInv, DigestTypeOK, MailCount
  <1>5. \A v \in Reader, e \in Period : v # u \/ e # d => mails'[v][e] = mails[v][e]
    BY <1>1, <1>2, Holding DEF DigestInv, DigestTypeOK, MailCount
  <1>6. c \in row
    BY <1>1 DEF DigestInv, HeldInv
  <1>7. u \in Reader /\ d \in Period /\ u = run[r].user /\ d = run[r].key
    BY <1>1, Holding
  <1>8. mails'[u][d] <= 1 + doubtful'[u][d] /\ mails'[u][d] > 0
    <2>1. /\ mails[u][d] \in Nat /\ doubtful'[u][d] \in Nat
          /\ mails[u][d] <= doubtful'[u][d]
      BY <1>1, <1>2, Holding
    <2> HIDE DEF u, d
    <2> QED
      BY <1>4, <2>1
  <1> HIDE DEF u, d
  <1>9. <<u, d>> \in row' /\ row' = row /\ stranded \subseteq stranded'
    BY <1>2, <1>6
  <1>10. \A v \in Reader, e \in Period : v # u \/ e # d =>
           mails'[v][e] = mails[v][e] /\ doubtful'[v][e] = doubtful[v][e]
    BY <1>2, <1>5
  <1> QED
    BY <1>1, <1>3, <1>7, <1>8, <1>9, <1>10, LetGo

LEMMA ReleaseStep == ASSUME DigestInv, NEW r \in Job, Release(r) PROVE DigestInv'
  <1> DEFINE u == run[r].user
             d == run[r].key
  <1>1. Holds(r) /\ ~Holds(r)' /\ \A q \in Job \ {r} : run'[q] = run[q]
    BY DEF Release, Holds, DigestInv, DigestTypeOK, NoRun
  <1>2. row' = row \ {<<u, d>>} /\ mails' = mails /\ doubtful' = doubtful /\ stranded' = stranded
    BY DEF Release, ghosts
  <1>3. DigestTypeOK' /\ RunInv'
    BY <1>2 DEF DigestInv, DigestTypeOK, RunInv, Release, NoRun
  <1>4. u \in Reader /\ d \in Period /\ mails[u][d] <= doubtful[u][d] /\ mails[u][d] <= 1 + doubtful[u][d]
    BY <1>1, Holding
  <1>5. /\ mails'[u][d] <= 1 + doubtful'[u][d] /\ mails'[u][d] <= doubtful'[u][d]
        /\ <<u, d>> \notin row' /\ stranded \subseteq stranded'
        /\ \A v \in Reader, e \in Period : mails'[v][e] = mails[v][e] /\ doubtful'[v][e] = doubtful[v][e]
    BY <1>2, <1>4
  <1> QED
    BY <1>1, <1>2, <1>3, <1>4, <1>5, LetGo

LEMMA DieStep == ASSUME DigestInv, NEW r \in Job, Die(r) PROVE DigestInv'
  <1>1. run' = [run EXCEPT ![r] = NoRun] /\ UNCHANGED <<row, mails, doubtful>>
    BY DEF Die
  <1>2. run'[r].pc = "idle" /\ \A q \in Job \ {r} : run'[q] = run[q]
    BY <1>1 DEF NoRun, DigestInv, DigestTypeOK
  <1>3. DigestTypeOK' /\ RunInv'
    <2>1. failures' \in Nat /\ today' = today
      BY DEF DigestInv, DigestTypeOK, Die
    <2> QED
      BY <1>1, <2>1 DEF DigestInv, DigestTypeOK, RunInv, NoRun
  <1>4. CASE Holds(r)
    <2> DEFINE u == run[r].user
               d == run[r].key
    <2>1. ~Holds(r)' /\ stranded' = stranded \cup {<<u, d>>}
      BY <1>2, <1>4 DEF Die, Holds
    <2>2. u \in Reader /\ d \in Period /\ mails[u][d] <= 1 + doubtful[u][d] /\ <<u, d>> \in row
      BY <1>4, Holding DEF DigestInv, HeldInv
    <2>3. /\ mails'[u][d] <= 1 + doubtful'[u][d] /\ row' = row
          /\ <<u, d>> \in row' /\ <<u, d>> \in stranded' /\ stranded \subseteq stranded'
          /\ \A v \in Reader, e \in Period : mails'[v][e] = mails[v][e] /\ doubtful'[v][e] = doubtful[v][e]
      BY <1>1, <2>1, <2>2
    <2> QED
      BY <1>2, <1>3, <1>4, <2>1, <2>2, <2>3, LetGo
  <1>5. CASE ~Holds(r)
    <2>1. UNCHANGED ghosts /\ \A q \in Job : Holds(q)' <=> Holds(q)
      BY <1>1, <1>2, <1>5 DEF Die, Holds, ghosts
    <2> QED
      BY <1>1, <1>2, <1>3, <1>5, <2>1, DigestQuiet
  <1> QED
    BY <1>4, <1>5

\* A refused mail: whatever went out is known to be doubtful.
LEMMA SendFailsStep == ASSUME DigestInv, NEW r \in Job, SendFails(r) PROVE DigestInv'
  <1> DEFINE u == run[r].user
             d == run[r].key
  <1>1. /\ Holds(r) /\ \A q \in Job : Holds(q)' <=> Holds(q)
        /\ \A q \in Job : run'[q].user = run[q].user /\ run'[q].key = run[q].key
    BY DEF SendFails, Holds, DigestInv, DigestTypeOK
  <1>2. PICK n \in {0, 1} : /\ mails' = [mails EXCEPT ![u][d] = @ + n]
                            /\ doubtful' = [doubtful EXCEPT ![u][d] = @ + n]
    BY DEF SendFails
  <1>3. mails' \in MailCount /\ doubtful' \in MailCount
    BY <1>1, <1>2, Holding DEF DigestInv, DigestTypeOK, MailCount
  <1>4. DigestTypeOK' /\ RunInv'
    BY <1>3 DEF DigestInv, DigestTypeOK, RunInv, SendFails
  <1>5. \A v \in Reader, e \in Period :
          /\ mails[v][e] \in Nat /\ doubtful[v][e] \in Nat
          /\ \E k \in {0, 1} : mails'[v][e] = mails[v][e] + k /\ doubtful'[v][e] = doubtful[v][e] + k
    BY <1>1, <1>2, Holding DEF DigestInv, DigestTypeOK, MailCount
  <1>6. row' = row /\ stranded' = stranded
    BY DEF SendFails
  <1>7. HeldByOne'
    BY <1>1 DEF DigestInv, HeldByOne
  <1>8. HeldInv'
    <2> SUFFICES ASSUME NEW q \in Job, Holds(q)
                 PROVE  /\ <<run[q].user, run[q].key>> \in row
                        /\ mails'[run[q].user][run[q].key] <= doubtful'[run[q].user][run[q].key]
      BY <1>1, <1>6 DEF HeldInv
    <2> QED
      BY <1>5, Holding DEF DigestInv, HeldInv
  <1>9. FreeInv' /\ OneMailPerPeriod'
    BY <1>5, <1>6 DEF DigestInv, FreeInv, OneMailPerPeriod
  <1>10. RowMeansMail'
    <2> SUFFICES ASSUME NEW e \in row
                 PROVE  \/ mails'[e[1]][e[2]] > 0 \/ e \in stranded
                        \/ \E q \in Job : Holds(q) /\ <<run[q].user, run[q].key>> = e
      BY <1>1, <1>6 DEF RowMeansMail
    <2>1. e[1] \in Reader /\ e[2] \in Period
      BY DEF DigestInv, DigestTypeOK
    <2> QED
      BY <1>5, <2>1 DEF DigestInv, RowMeansMail
  <1> QED
    BY <1>4, <1>7, <1>8, <1>9, <1>10 DEF DigestInv

LEMMA DigestInductive == ASSUME DigestConstants, DigestInv, [DigestNext]_digestVars PROVE DigestInv'
  <1>1. CASE UNCHANGED digestVars
    BY <1>1 DEF digestVars, DigestInv, DigestTypeOK, RunInv, HeldByOne, HeldInv, FreeInv, OneMailPerPeriod,
        RowMeansMail, Holds, ghosts
  <1>2. CASE DigestNext
    BY <1>2, NextDayStep, BeginStep, LookStep, ClaimStep, SendStep, SendFailsStep, ReleaseStep,
        FinishStep, DieStep DEF DigestNext
  <1> QED
    BY <1>1, <1>2

\* A run of the digest at work on a citizen holds the row of the period alone, and
\* no mail went out under it, whichever runs overlap, fail or die.
THEOREM DigestInvariant == ASSUME DigestConstants PROVE DigestSpec => []DigestInv
  BY DigestInitInv, DigestInductive, PTL DEF DigestSpec

\* However runs overlap, are delivered again or die, a citizen has at most one
\* digest of a period beyond those the server took without saying so.
THEOREM OneMail == ASSUME DigestConstants PROVE DigestSpec => []OneMailPerPeriod
  <1>1. DigestInv => OneMailPerPeriod
    BY DEF DigestInv
  <1> QED
    BY <1>1, DigestInvariant, PTL

\* No row is left behind that keeps a later run from a citizen nobody wrote to,
\* unless its run died.
THEOREM RowsAreMails == ASSUME DigestConstants PROVE DigestSpec => []RowMeansMail
  <1>1. DigestInv => RowMeansMail
    BY DEF DigestInv
  <1> QED
    BY <1>1, DigestInvariant, PTL

-----------------------------------------------------------------------------
(* Finite sets that gain or lose one element *)

LEMMA AtMostOneMore ==
    ASSUME NEW S, IsFiniteSet(S), NEW x, NEW T, T \subseteq S \cup {x}
    PROVE  /\ IsFiniteSet(T) /\ Cardinality(S) \in Nat /\ Cardinality(T) \in Nat
           /\ Cardinality(T) <= Cardinality(S) + 1
  <1>1. /\ IsFiniteSet(S \cup {x})
        /\ Cardinality(S \cup {x}) = Cardinality(S) \/ Cardinality(S \cup {x}) = Cardinality(S) + 1
    BY FS_AddElement
  <1>2. IsFiniteSet(T) /\ Cardinality(T) <= Cardinality(S \cup {x})
    BY <1>1, FS_Subset
  <1> QED
    BY <1>1, <1>2, FS_CardinalityType

LEMMA OneMore ==
    ASSUME NEW S, IsFiniteSet(S), NEW x, x \notin S, NEW T, T = S \cup {x}
    PROVE  /\ IsFiniteSet(T) /\ Cardinality(S) \in Nat /\ Cardinality(T) \in Nat
           /\ Cardinality(T) = Cardinality(S) + 1
  BY FS_AddElement, FS_CardinalityType

LEMMA OneLess ==
    ASSUME NEW S, IsFiniteSet(S), NEW x \in S, NEW T, T = S \ {x}
    PROVE  /\ IsFiniteSet(T) /\ Cardinality(S) \in Nat /\ Cardinality(T) \in Nat
           /\ Cardinality(T) = Cardinality(S) - 1
  BY FS_RemoveElement, FS_CardinalityType

-----------------------------------------------------------------------------
(* Setup: one live token *)

Founding == {"user", "state", "seed"}
Rotating == {"find", "mint", "revoke"}
Attempt ==
    {NoAttempt} \cup [pc : Founding, handle : Handle, slug : Slug, late : BOOLEAN]
    \cup [pc : Rotating, token : Nat, late : BOOLEAN]

SetupShape ==
    /\ founded \subseteq [slug : Slug, owner : Handle] /\ live \in Seq(BOOLEAN) /\ extra \in Nat
    /\ founder \in [Request -> Attempt]

LiveTokens == {t \in DOMAIN live : live[t]}
CountInv ==
    /\ IsFiniteSet(Minted) /\ (founded = {} <=> live = <<>>)
    /\ Cardinality(LiveTokens) <= 1 + extra + Cardinality(Minted)

\* What an attempt q relies on, unless it has been overtaken: no State yet, or a
\* token that is alive.
Timely(q) ==
    /\ q.pc \in Founding => founded = {} \/ q.late
    /\ q.pc \in Rotating => q.token \in DOMAIN live
    /\ q.pc \in {"mint", "revoke"} => live[q.token] \/ q.late

\* Two attempts past an insert hold different keys, and none that a State has.
HoldsOwner(q) == q.pc \in {"state", "seed"}
HoldsSlug(q) == q.pc = "seed"
KeysFree(q) ==
    /\ HoldsOwner(q) => \A st \in founded : st.owner # q.handle
    /\ HoldsSlug(q) => \A st \in founded : st.slug # q.slug
Apart(q, p) ==
    /\ HoldsOwner(q) /\ HoldsOwner(p) => q.handle # p.handle
    /\ HoldsSlug(q) /\ HoldsSlug(p) => q.slug # p.slug
KeysUnique == \A a, b \in founded : a # b => a.slug # b.slug /\ a.owner # b.owner

AttemptsInv ==
    /\ \A r \in Request : Timely(founder[r]) /\ KeysFree(founder[r])
    /\ \A r, o \in Request : r # o => Apart(founder[r], founder[o])

SetupInv == SetupShape /\ CountInv /\ AttemptsInv /\ KeysUnique

\* The tokens of a finite list are a finite set.
LEMMA TokensFinite == ASSUME live \in Seq(BOOLEAN) PROVE IsFiniteSet(LiveTokens) /\ Cardinality(LiveTokens) \in Nat
  <1>1. LiveTokens \subseteq 1..Len(live) /\ IsFiniteSet(1..Len(live))
    BY FS_Interval DEF LiveTokens
  <1> QED
    BY <1>1, FS_Subset, FS_CardinalityType

LEMMA SetupInitInv == SetupInit => SetupInv
  <1> SUFFICES ASSUME SetupInit PROVE SetupInv
    OBVIOUS
  <1>1. \A r \in Request : founder[r].pc = "idle"
    BY DEF SetupInit, NoAttempt
  <1>2. Minted = {} /\ LiveTokens = {}
    BY <1>1 DEF SetupInit, Minted, LiveTokens
  <1>3. CountInv
    BY <1>2, FS_EmptySet DEF SetupInit, CountInv
  <1>4. SetupShape
    BY DEF SetupInit, SetupShape, Attempt
  <1>5. AttemptsInv /\ KeysUnique
    BY <1>1 DEF SetupInit, AttemptsInv, KeysUnique, Timely, KeysFree, Apart, HoldsOwner, HoldsSlug, Founding, Rotating
  <1> QED
    BY <1>3, <1>4, <1>5 DEF SetupInv

\* An attempt that goes on outside of "revoke", and touches no row.
LEMMA AttemptStep ==
    ASSUME SetupInv, NEW r \in Request, NEW q \in Attempt, founder' = [founder EXCEPT ![r] = q],
           UNCHANGED <<founded, live, extra>>, founder[r].pc # "revoke", q.pc # "revoke",
           Timely(q), KeysFree(q), \A o \in Request \ {r} : Apart(q, founder[o])
    PROVE  SetupInv'
  <1>1. \A o \in Request : founder'[o] = IF o = r THEN q ELSE founder[o]
    BY DEF SetupInv, SetupShape
  <1>2. SetupShape'
    BY DEF SetupInv, SetupShape, Attempt
  <1>3. Minted' = Minted /\ LiveTokens' = LiveTokens
    BY <1>1 DEF Minted, LiveTokens
  <1>4. CountInv'
    BY <1>3 DEF SetupInv, CountInv
  <1>5. AttemptsInv'
    BY <1>1 DEF SetupInv, AttemptsInv, Timely, KeysFree, Apart, HoldsOwner, HoldsSlug, Founding, Rotating
  <1>6. KeysUnique'
    BY DEF SetupInv, KeysUnique
  <1> QED
    BY <1>2, <1>4, <1>5, <1>6 DEF SetupInv

\* To give up holds nothing.
LEMMA IdleHoldsNothing ==
    /\ NoAttempt \in Attempt /\ NoAttempt.pc = "idle" /\ Timely(NoAttempt) /\ KeysFree(NoAttempt)
    /\ \A p : Apart(NoAttempt, p)
  BY DEF NoAttempt, Attempt, Timely, KeysFree, Apart, HoldsOwner, HoldsSlug, Founding, Rotating

LEMMA FoundStep ==
    ASSUME SetupInv, NEW r \in Request,
           (\E h \in Handle, s \in Slug : SetupStart(r, h, s)) \/ CreateUser(r) \/ CreateState(r)
    PROVE  SetupInv'
  <1>1. UNCHANGED <<founded, live, extra>>
    BY DEF SetupStart, CreateUser, CreateState, Insert
  <1>2. ASSUME NEW h \in Handle, NEW s \in Slug, SetupStart(r, h, s) PROVE SetupInv'
    <2> DEFINE q == [pc |-> "user", handle |-> h, slug |-> s, late |-> FALSE]
    <2>1. q \in Attempt /\ q.pc = "user"
      BY DEF Attempt, Founding
    <2>2. Timely(q) /\ KeysFree(q) /\ \A p : Apart(q, p)
      BY <1>2, <2>1 DEF SetupStart, NotInitialised, Timely, KeysFree, Apart, HoldsOwner, HoldsSlug, Rotating
    <2>3. founder' = [founder EXCEPT ![r] = q] /\ founder[r].pc = "idle"
      BY <1>2 DEF SetupStart, NoAttempt
    <2> HIDE DEF q
    <2> QED
      BY <1>1, <2>1, <2>2, <2>3, AttemptStep
  <1>3. ASSUME founder[r].pc \in {"user", "state"}, EndAttempt(r) PROVE SetupInv'
    BY <1>1, <1>3, IdleHoldsNothing, AttemptStep DEF EndAttempt
  <1>4. ASSUME founder[r].pc \in Founding
        PROVE  founder[r] \in [pc : Founding, handle : Handle, slug : Slug, late : BOOLEAN]
    BY <1>4 DEF SetupInv, SetupShape, Attempt, NoAttempt, Founding, Rotating
  <1>5. ASSUME CreateUser(r), AttemptTo(r, "state"), ~ \E st \in founded : st.owner = founder[r].handle
        PROVE  SetupInv'
    <2> DEFINE q == [founder[r] EXCEPT !.pc = "state"]
    <2>1. founder[r].pc = "user" /\ founder[r] \in [pc : Founding, handle : Handle, slug : Slug, late : BOOLEAN]
      BY <1>4, <1>5 DEF CreateUser, Founding
    <2>2. q \in Attempt /\ q.pc = "state" /\ q.handle = founder[r].handle /\ q.late = founder[r].late
      BY <2>1 DEF Attempt, Founding
    <2>3. founder' = [founder EXCEPT ![r] = q]
      BY <1>5, <2>1 DEF AttemptTo, SetupInv, SetupShape
    <2>4. Timely(q) /\ KeysFree(q)
      BY <1>5, <2>1, <2>2 DEF SetupInv, AttemptsInv, Timely, KeysFree, HoldsOwner, HoldsSlug, Rotating
    <2>5. \A o \in Request \ {r} : Apart(q, founder[o])
      BY <1>5, <2>2 DEF CreateUser, Insert, Apart, HoldsOwner, HoldsSlug
    <2> HIDE DEF q
    <2> QED
      BY <1>1, <2>1, <2>2, <2>3, <2>4, <2>5, AttemptStep
  <1>6. ASSUME CreateState(r), AttemptTo(r, "seed"), ~ \E st \in founded : st.slug = founder[r].slug
        PROVE  SetupInv'
    <2> DEFINE q == [founder[r] EXCEPT !.pc = "seed"]
    <2>1. founder[r].pc = "state" /\ founder[r] \in [pc : Founding, handle : Handle, slug : Slug, late : BOOLEAN]
      BY <1>4, <1>6 DEF CreateState, Founding
    <2>2. /\ q \in Attempt /\ q.pc = "seed" /\ q.handle = founder[r].handle
          /\ q.slug = founder[r].slug /\ q.late = founder[r].late
      BY <2>1 DEF Attempt, Founding
    <2>3. founder' = [founder EXCEPT ![r] = q]
      BY <1>6, <2>1 DEF AttemptTo, SetupInv, SetupShape
    <2>4. Timely(q) /\ KeysFree(q)
      BY <1>6, <2>1, <2>2 DEF SetupInv, AttemptsInv, Timely, KeysFree, HoldsOwner, HoldsSlug, Rotating, Founding
    <2>5. ASSUME NEW o \in Request \ {r} PROVE Apart(q, founder[o])
      <3>1. Apart(founder[r], founder[o])
        BY DEF SetupInv, AttemptsInv
      <3> QED
        BY <1>6, <2>1, <2>2, <3>1 DEF CreateState, Insert, Apart, HoldsOwner, HoldsSlug
    <2> HIDE DEF q
    <2> QED
      BY <1>1, <2>1, <2>2, <2>3, <2>4, <2>5, AttemptStep
  <1>7. CASE CreateUser(r)
    BY <1>3, <1>5, <1>7 DEF CreateUser, Insert
  <1>8. CASE CreateState(r)
    BY <1>3, <1>6, <1>8 DEF CreateState, Insert
  <1> QED
    BY <1>2, <1>7, <1>8

LEMMA LookUpStep ==
    ASSUME SetupInv, NEW r \in Request, (\E t \in 1..MaxTokens : Authenticate(r, t)) \/ RotateFind(r)
    PROVE  SetupInv'
  <1>1. UNCHANGED <<founded, live, extra>>
    BY DEF Authenticate, RotateFind
  <1>2. ASSUME NEW t \in 1..MaxTokens, Authenticate(r, t) PROVE SetupInv'
    <2> DEFINE q == [pc |-> "find", token |-> t, late |-> FALSE]
    <2>1. q \in Attempt /\ q.pc = "find" /\ q.token = t
      <3>1. t \in Nat
        BY <1>2 DEF Authenticate, SetupInv, SetupShape
      <3> QED
        BY <3>1 DEF Attempt, Rotating
    <2>2. Timely(q) /\ KeysFree(q) /\ \A p : Apart(q, p)
      BY <1>2, <2>1 DEF Authenticate, Timely, KeysFree, Apart, HoldsOwner, HoldsSlug, Founding
    <2>3. founder' = [founder EXCEPT ![r] = q] /\ founder[r].pc = "idle"
      BY <1>2 DEF Authenticate, NoAttempt
    <2> HIDE DEF q
    <2> QED
      BY <1>1, <2>1, <2>2, <2>3, AttemptStep
  <1>3. ASSUME RotateFind(r), EndAttempt(r) PROVE SetupInv'
    BY <1>1, <1>3, IdleHoldsNothing, AttemptStep DEF EndAttempt, RotateFind
  <1>4. ASSUME RotateFind(r), AttemptTo(r, "mint"), live[founder[r].token] PROVE SetupInv'
    <2> DEFINE q == [founder[r] EXCEPT !.pc = "mint"]
    <2>1. founder[r].pc = "find" /\ founder[r] \in [pc : Rotating, token : Nat, late : BOOLEAN]
      BY <1>4 DEF RotateFind, SetupInv, SetupShape, Attempt, NoAttempt, Founding
    <2>2. q \in Attempt /\ q.pc = "mint" /\ q.token = founder[r].token
      BY <2>1 DEF Attempt, Rotating
    <2>3. founder' = [founder EXCEPT ![r] = q]
      BY <1>4, <2>1 DEF AttemptTo, SetupInv, SetupShape
    <2>4. Timely(q) /\ KeysFree(q) /\ \A p : Apart(q, p)
      BY <1>4, <2>1, <2>2
         DEF SetupInv, AttemptsInv, Timely, KeysFree, Apart, HoldsOwner, HoldsSlug, Founding, Rotating
    <2> HIDE DEF q
    <2> QED
      BY <1>1, <2>1, <2>2, <2>3, <2>4, AttemptStep
  <1>5. CASE RotateFind(r)
    BY <1>3, <1>4, <1>5 DEF RotateFind, StillLive
  <1> QED
    BY <1>2, <1>5

\* Being overtaken changes nothing of an attempt but its mark.
LEMMA MarkedLate ==
    ASSUME NEW q \in Attempt, q.pc # "idle", NEW p, p = [q EXCEPT !.late = TRUE]
    PROVE  /\ p \in Attempt /\ p.pc = q.pc /\ p.late = TRUE
           /\ q.pc \in Founding => p.handle = q.handle /\ p.slug = q.slug
           /\ q.pc \in Rotating => p.token = q.token
  <1>1. CASE q \in [pc : Founding, handle : Handle, slug : Slug, late : BOOLEAN]
    BY <1>1 DEF Attempt, Founding, Rotating
  <1>2. CASE q \in [pc : Rotating, token : Nat, late : BOOLEAN]
    BY <1>2 DEF Attempt, Founding, Rotating
  <1> QED
    BY <1>1, <1>2 DEF Attempt, NoAttempt

LEMMA NotEmpty == ASSUME NEW list, NEW i \in DOMAIN list PROVE list # <<>>
  OBVIOUS

LEMMA AppendLive ==
    ASSUME live \in Seq(BOOLEAN), live' = Append(live, TRUE)
    PROVE  /\ live' \in Seq(BOOLEAN) /\ live' # <<>>
           /\ DOMAIN live \subseteq DOMAIN live' /\ \A t \in DOMAIN live : live'[t] = live[t]
           /\ LiveTokens' \subseteq LiveTokens \cup {Len(live) + 1}
           /\ Cardinality(LiveTokens)' \in Nat /\ Cardinality(LiveTokens)' <= Cardinality(LiveTokens) + 1
  <1>1. /\ live' \in Seq(BOOLEAN) /\ live' # <<>>
        /\ DOMAIN live' = 1..(Len(live) + 1) /\ DOMAIN live = 1..Len(live)
        /\ \A t \in DOMAIN live : live'[t] = live[t]
    <2>1. live' \in Seq(BOOLEAN) /\ Len(live') = Len(live) + 1
      OBVIOUS
    <2>2. Len(live) \in Nat
      OBVIOUS
    <2>3. DOMAIN live' = 1..(Len(live) + 1) /\ DOMAIN live = 1..Len(live)
      BY <2>1
    <2>4. live' # <<>>
      <3>1. Len(live) + 1 \in DOMAIN live'
        BY <2>2, <2>3
      <3> QED
        BY <3>1, NotEmpty
    <2>5. \A t \in 1..Len(live) : live'[t] = live[t]
      BY <2>2
    <2> QED
      BY <2>1, <2>3, <2>4, <2>5
  <1>2. LiveTokens' \subseteq LiveTokens \cup {Len(live) + 1}
    BY <1>1 DEF LiveTokens
  <1>3. IsFiniteSet(LiveTokens)
    BY TokensFinite
  <1> DEFINE S == LiveTokens
             T == LiveTokens'
  <1>4. T \subseteq S \cup {Len(live) + 1} /\ IsFiniteSet(S)
    BY <1>2, <1>3
  <1> HIDE DEF S, T
  <1>5. Cardinality(T) \in Nat /\ Cardinality(T) <= Cardinality(S) + 1
    BY <1>4, AtMostOneMore
  <1>6. Cardinality(LiveTokens)' = Cardinality(T) /\ Cardinality(LiveTokens) = Cardinality(S)
    BY DEF S, T
  <1>7. DOMAIN live \subseteq DOMAIN live'
    BY <1>1
  <1> QED
    BY <1>1, <1>2, <1>5, <1>6, <1>7

\* The commit founds the only State, or is one of those that were overtaken.
LEMMA CommitSetupStep == ASSUME SetupInv, NEW r \in Request, CommitSetup(r) PROVE SetupInv'
  <1> DEFINE st0 == [slug |-> founder[r].slug, owner |-> founder[r].handle]
  <1>1. founder[r].pc = "seed" /\ founder[r] \in [pc : Founding, handle : Handle, slug : Slug, late : BOOLEAN]
    BY DEF CommitSetup, SetupInv, SetupShape, Attempt, NoAttempt, Founding, Rotating
  <1>2. /\ founder' \in [Request -> Attempt] /\ founder'[r] = NoAttempt
        /\ \A o \in Request \ {r} :
              /\ founder'[o].pc = founder[o].pc
              /\ founder[o].pc \notin Founding => founder'[o] = founder[o]
              /\ founder[o].pc \in Founding => /\ founder'[o].late
                                               /\ founder'[o].handle = founder[o].handle
                                               /\ founder'[o].slug = founder[o].slug
    <2>1. \A o \in Request : founder[o] \in Attempt
      BY DEF SetupInv, SetupShape
    <2>2. /\ DOMAIN founder' = Request
          /\ founder' = [o \in Request |-> IF o = r THEN NoAttempt
                                           ELSE IF founder[o].pc \in Founding THEN [founder[o] EXCEPT !.late = TRUE]
                                           ELSE founder[o]]
      BY DEF CommitSetup, Overtaken, Founding
    <2>3. ASSUME NEW o \in Request, o # r, founder[o].pc \in Founding
          PROVE  /\ founder'[o] \in Attempt /\ founder'[o].pc = founder[o].pc /\ founder'[o].late
                 /\ founder'[o].handle = founder[o].handle /\ founder'[o].slug = founder[o].slug
      <3>1. founder[o].pc # "idle" /\ founder'[o] = [founder[o] EXCEPT !.late = TRUE]
        BY <2>2, <2>3 DEF Founding
      <3> QED
        BY <2>1, <2>3, <3>1, MarkedLate
    <2> QED
      BY <2>1, <2>2, <2>3, IdleHoldsNothing
  <1>3. founded' = founded \cup {st0} /\ live' = Append(live, TRUE) /\ Late(r)
    BY DEF CommitSetup
  <1>4. live \in Seq(BOOLEAN) /\ st0 \in [slug : Slug, owner : Handle] /\ extra \in Nat
    BY <1>1 DEF SetupInv, SetupShape
  <1>5. SetupShape'
    BY <1>2, <1>3, <1>4, AppendLive DEF SetupInv, SetupShape, Late, Attempt
  <1>6. CountInv'
    <2>1. Minted' = Minted
      BY <1>1, <1>2 DEF Minted, NoAttempt
    <2>2. /\ Cardinality(LiveTokens) \in Nat /\ Cardinality(Minted) \in Nat
          /\ Cardinality(LiveTokens) <= 1 + extra + Cardinality(Minted) /\ IsFiniteSet(Minted)
      BY <1>4, TokensFinite, FS_CardinalityType DEF SetupInv, CountInv
    <2>3. Cardinality(LiveTokens)' \in Nat /\ Cardinality(LiveTokens)' <= Cardinality(LiveTokens) + 1
      BY <1>3, <1>4, AppendLive
    <2>4. CASE founder[r].late
      <3>1. extra' = extra + 1
        BY <1>3, <2>4 DEF Late
      <3>2. Cardinality(LiveTokens)' <= 1 + extra' + Cardinality(Minted)'
        BY <1>4, <2>1, <2>2, <2>3, <3>1
      <3> QED
        BY <1>3, <1>4, <2>1, <2>2, <3>2, AppendLive DEF CountInv
    <2>5. CASE ~ founder[r].late
      <3>1. extra' = extra /\ founded = {} /\ live = <<>>
        BY <1>1, <1>3, <2>5 DEF Late, SetupInv, AttemptsInv, CountInv, Timely, Founding
      <3>2. LiveTokens = {} /\ Cardinality({}) = 0
        BY <3>1, FS_EmptySet DEF LiveTokens
      <3>3. Cardinality(LiveTokens)' <= 1 + extra' + Cardinality(Minted)'
        BY <1>4, <2>1, <2>2, <2>3, <3>1, <3>2
      <3> QED
        BY <1>3, <1>4, <2>1, <2>2, <3>3, AppendLive DEF CountInv
    <2> QED
      BY <2>4, <2>5
  <1>7. KeysFree(founder[r])
    BY DEF SetupInv, AttemptsInv
  <1>8. KeysUnique'
    BY <1>1, <1>3, <1>7 DEF SetupInv, KeysUnique, KeysFree, HoldsOwner, HoldsSlug
  <1>9. AttemptsInv'
    <2>1. ASSUME NEW o \in Request PROVE Timely(founder[o])' /\ KeysFree(founder[o])'
      <3>1. CASE o = r
        BY <1>2, <3>1 DEF Timely, KeysFree, HoldsOwner, HoldsSlug, Founding, Rotating, NoAttempt
      <3>2. CASE o # r
        <4>1. Timely(founder[o]) /\ KeysFree(founder[o]) /\ Apart(founder[r], founder[o])
          BY <3>2 DEF SetupInv, AttemptsInv
        <4>2. Timely(founder[o])'
          BY <1>2, <1>3, <1>4, <3>2, <4>1, AppendLive DEF Timely, Founding, Rotating
        <4>3. KeysFree(founder[o])'
          BY <1>1, <1>2, <1>3, <3>2, <4>1 DEF KeysFree, Apart, HoldsOwner, HoldsSlug, Founding
        <4> QED
          BY <4>2, <4>3
      <3> QED
        BY <3>1, <3>2
    <2>2. ASSUME NEW o \in Request, NEW p \in Request, o # p PROVE Apart(founder[o], founder[p])'
      BY <1>2, <2>2 DEF SetupInv, AttemptsInv, Apart, HoldsOwner, HoldsSlug, Founding, NoAttempt
    <2> QED
      BY <2>1, <2>2 DEF AttemptsInv
  <1> QED
    BY <1>5, <1>6, <1>8, <1>9 DEF SetupInv

LEMMA MintStep == ASSUME SetupInv, NEW r \in Request, Mint(r) PROVE SetupInv'
  <1>1. founder[r].pc = "mint" /\ founder[r] \in [pc : Rotating, token : Nat, late : BOOLEAN]
    BY DEF Mint, SetupInv, SetupShape, Attempt, NoAttempt, Founding
  <1> DEFINE q == [founder[r] EXCEPT !.pc = "revoke"]
  <1>2. q \in Attempt /\ q.pc = "revoke" /\ q.token = founder[r].token /\ q.late = founder[r].late
    BY <1>1 DEF Attempt, Rotating
  <1>3. /\ founder' = [founder EXCEPT ![r] = q] /\ live' = Append(live, TRUE) /\ founded' = founded /\ extra' = extra
        /\ live \in Seq(BOOLEAN) /\ extra \in Nat
    BY <1>1 DEF Mint, AttemptTo, SetupInv, SetupShape
  <1> HIDE DEF q
  <1>4. \A o \in Request : founder'[o] = IF o = r THEN q ELSE founder[o]
    BY <1>3 DEF SetupInv, SetupShape
  <1>5. SetupShape'
    BY <1>2, <1>3, AppendLive DEF SetupInv, SetupShape, Attempt
  <1>6. CountInv'
    <2> DEFINE S == Minted
               T == Minted'
    <2>1. T = S \cup {r} /\ r \notin S /\ IsFiniteSet(S)
      BY <1>1, <1>2, <1>4 DEF Minted, SetupInv, CountInv
    <2> HIDE DEF S, T
    <2>2. IsFiniteSet(T) /\ Cardinality(S) \in Nat /\ Cardinality(T) = Cardinality(S) + 1
      BY <2>1, OneMore
    <2>3. /\ Cardinality(LiveTokens) \in Nat /\ Cardinality(LiveTokens)' \in Nat
          /\ Cardinality(LiveTokens)' <= Cardinality(LiveTokens) + 1
          /\ Cardinality(LiveTokens) <= 1 + extra + Cardinality(S)
      BY <1>3, AppendLive, TokensFinite DEF SetupInv, CountInv, S
    <2>4. Cardinality(LiveTokens)' <= 1 + extra' + Cardinality(T)
      BY <1>3, <2>2, <2>3
    <2>5. live # <<>> /\ live' # <<>>
      <3>1. founder[r].token \in DOMAIN live
        BY <1>1 DEF SetupInv, AttemptsInv, Timely, Rotating
      <3>2. live # <<>>
        BY <3>1
      <3> QED
        BY <1>3, <3>2, AppendLive
    <2>6. founded' # {}
      BY <1>3, <2>5 DEF SetupInv, CountInv
    <2> QED
      BY <2>2, <2>4, <2>5, <2>6 DEF CountInv, T
  <1>7. AttemptsInv'
    <2>1. \A t \in DOMAIN live : t \in DOMAIN live' /\ live'[t] = live[t]
      BY <1>3, AppendLive
    <2>2. ASSUME NEW o \in Request PROVE Timely(founder[o])' /\ KeysFree(founder[o])'
      <3>1. Timely(founder[o]) /\ KeysFree(founder[o])
        BY DEF SetupInv, AttemptsInv
      <3> QED
        BY <1>1, <1>2, <1>3, <1>4, <2>1, <3>1 DEF Timely, KeysFree, HoldsOwner, HoldsSlug, Founding, Rotating
    <2>3. \A o, p \in Request : o # p => Apart(founder[o], founder[p])'
      BY <1>2, <1>4 DEF SetupInv, AttemptsInv, Apart, HoldsOwner, HoldsSlug
    <2> QED
      BY <2>2, <2>3 DEF AttemptsInv
  <1>8. KeysUnique'
    BY <1>3 DEF SetupInv, KeysUnique
  <1> QED
    BY <1>5, <1>6, <1>7, <1>8 DEF SetupInv

\* Unless overtaken, the token that goes was alive: one that came is one that goes.
LEMMA RevokeStep == ASSUME SetupInv, NEW r \in Request, Revoke(r) PROVE SetupInv'
  <1> DEFINE t0 == founder[r].token
  <1>1. founder[r].pc = "revoke" /\ founder[r] \in [pc : Rotating, token : Nat, late : BOOLEAN]
    BY DEF Revoke, SetupInv, SetupShape, Attempt, NoAttempt, Founding
  <1>2. /\ live \in Seq(BOOLEAN) /\ extra \in Nat /\ t0 \in DOMAIN live /\ (live[t0] \/ founder[r].late)
        /\ live' = [live EXCEPT ![t0] = FALSE] /\ founded' = founded /\ Late(r)
    BY <1>1 DEF Revoke, SetupInv, SetupShape, AttemptsInv, Timely, Rotating
  <1>3. /\ live' \in Seq(BOOLEAN) /\ DOMAIN live' = DOMAIN live
        /\ \A t \in DOMAIN live : live'[t] = IF t = t0 THEN FALSE ELSE live[t]
    BY <1>2
  <1>4. /\ founder' \in [Request -> Attempt] /\ founder'[r] = NoAttempt
        /\ \A o \in Request \ {r} :
              /\ founder'[o].pc = founder[o].pc
              /\ founder[o].pc \in Founding => founder'[o] = founder[o]
              /\ founder[o].pc \in Rotating => founder'[o].token = founder[o].token
              /\ founder[o].pc \in {"mint", "revoke"} => founder'[o] = founder[o] \/ founder'[o].late
              /\ founder[o].pc \in {"mint", "revoke"} /\ founder[o].token = t0 => founder'[o].late
    <2>1. \A o \in Request : founder[o] \in Attempt
      BY DEF SetupInv, SetupShape
    <2> DEFINE overtaken(o) == founder[o].pc \in {"mint", "revoke"} /\ founder[o].token = t0
    <2>2. /\ DOMAIN founder' = Request
          /\ founder' = [o \in Request |-> IF o = r THEN NoAttempt
                                           ELSE IF overtaken(o) THEN [founder[o] EXCEPT !.late = TRUE]
                                           ELSE founder[o]]
      BY DEF Revoke, Overtaken
    <2>3. ASSUME NEW o \in Request, o # r, overtaken(o)
          PROVE  /\ founder'[o] \in Attempt /\ founder'[o].pc = founder[o].pc /\ founder'[o].late
                 /\ founder'[o].token = founder[o].token
      <3>1. founder[o].pc # "idle" /\ founder[o].pc \in Rotating /\ founder'[o] = [founder[o] EXCEPT !.late = TRUE]
        BY <2>2, <2>3 DEF Rotating
      <3> QED
        BY <2>1, <3>1, MarkedLate
    <2>4. ASSUME NEW o \in Request, o # r, ~ overtaken(o) PROVE founder'[o] = founder[o]
      BY <2>2, <2>4
    <2>5. founder'[r] = NoAttempt
      BY <2>2
    <2>6. \A o \in Request : founder'[o] \in Attempt
      BY <2>1, <2>3, <2>4, <2>5, IdleHoldsNothing
    <2> QED
      BY <2>2, <2>3, <2>4, <2>5, <2>6 DEF Founding
  <1>5. SetupShape'
    BY <1>2, <1>3, <1>4 DEF SetupInv, SetupShape, Late, Attempt
  <1>6. CountInv'
    <2> DEFINE S == Minted
               T == Minted'
               A == LiveTokens
               B == LiveTokens'
    <2>1. T = S \ {r} /\ r \in S /\ IsFiniteSet(S)
      BY <1>1, <1>4 DEF Minted, SetupInv, CountInv, NoAttempt
    <2>2. B = A \ {t0} /\ IsFiniteSet(A)
      BY <1>2, <1>3, TokensFinite DEF LiveTokens
    <2>3. ~ founder[r].late => t0 \in A
      BY <1>2 DEF LiveTokens
    <2>4. Cardinality(A) <= 1 + extra + Cardinality(S)
      BY DEF SetupInv, CountInv
    <2>5. founded' = {} <=> live' = <<>>
      <3>1. live # <<>> /\ live' # <<>>
        BY <1>2, <1>3
      <3> QED
        BY <1>2, <3>1 DEF SetupInv, CountInv
    <2> HIDE DEF S, T, A, B
    <2>6. IsFiniteSet(T) /\ Cardinality(S) \in Nat /\ Cardinality(T) = Cardinality(S) - 1
      BY <2>1, OneLess
    <2>7. CASE founder[r].late
      <3>1. Cardinality(B) <= Cardinality(A) /\ Cardinality(A) \in Nat /\ Cardinality(B) \in Nat
        BY <2>2, FS_Subset, FS_CardinalityType
      <3>2. Cardinality(B) <= 1 + extra' + Cardinality(T)
        BY <1>2, <2>4, <2>6, <2>7, <3>1 DEF Late
      <3> QED
        BY <2>5, <2>6, <3>2 DEF CountInv, T, B
    <2>8. CASE ~ founder[r].late
      <3>1. Cardinality(B) = Cardinality(A) - 1 /\ Cardinality(A) \in Nat
        BY <2>2, <2>3, <2>8, OneLess
      <3>2. Cardinality(B) <= 1 + extra' + Cardinality(T)
        BY <1>2, <2>4, <2>6, <2>8, <3>1 DEF Late
      <3> QED
        BY <2>5, <2>6, <3>2 DEF CountInv, T, B
    <2> QED
      BY <2>7, <2>8
  <1>7. AttemptsInv'
    <2>1. ASSUME NEW o \in Request PROVE Timely(founder[o])' /\ KeysFree(founder[o])'
      <3>1. CASE o = r
        BY <1>4, <3>1 DEF Timely, KeysFree, HoldsOwner, HoldsSlug, Founding, Rotating, NoAttempt
      <3>2. CASE o # r
        <4>1. Timely(founder[o]) /\ KeysFree(founder[o])
          BY DEF SetupInv, AttemptsInv
        <4>2. Timely(founder[o])'
          BY <1>2, <1>3, <1>4, <3>2, <4>1 DEF Timely, Founding, Rotating
        <4>3. KeysFree(founder[o])'
          BY <1>2, <1>4, <3>2, <4>1 DEF KeysFree, HoldsOwner, HoldsSlug, Founding
        <4> QED
          BY <4>2, <4>3
      <3> QED
        BY <3>1, <3>2
    <2>2. \A o, p \in Request : o # p => Apart(founder[o], founder[p])'
      BY <1>4 DEF SetupInv, AttemptsInv, Apart, HoldsOwner, HoldsSlug, Founding, NoAttempt
    <2> QED
      BY <2>1, <2>2 DEF AttemptsInv
  <1>8. KeysUnique'
    BY <1>2 DEF SetupInv, KeysUnique
  <1> QED
    BY <1>5, <1>6, <1>7, <1>8 DEF SetupInv

\* A minted token whose rotation dies is one more that stays.
LEMMA AttemptDiesStep == ASSUME SetupInv, NEW r \in Request, AttemptDies(r) PROVE SetupInv'
  <1>1. /\ founder' = [founder EXCEPT ![r] = NoAttempt] /\ founded' = founded /\ live' = live
        /\ extra' = (IF founder[r].pc = "revoke" THEN extra + 1 ELSE extra) /\ extra \in Nat
    BY DEF AttemptDies, EndAttempt, SetupInv, SetupShape
  <1>2. CASE founder[r].pc # "revoke"
    BY <1>1, <1>2, IdleHoldsNothing, AttemptStep
  <1>3. CASE founder[r].pc = "revoke"
    <2>1. \A o \in Request : founder'[o] = IF o = r THEN NoAttempt ELSE founder[o]
      BY <1>1 DEF SetupInv, SetupShape
    <2>2. SetupShape'
      BY <1>1, <1>3, IdleHoldsNothing DEF SetupInv, SetupShape, Attempt
    <2>3. CountInv'
      <3> DEFINE S == Minted
                 T == Minted'
      <3>1. T = S \ {r} /\ r \in S /\ IsFiniteSet(S)
        BY <1>3, <2>1 DEF Minted, SetupInv, CountInv, NoAttempt
      <3>2. Cardinality(LiveTokens) \in Nat /\ Cardinality(LiveTokens) <= 1 + extra + Cardinality(S)
        BY TokensFinite DEF SetupInv, CountInv, SetupShape
      <3> HIDE DEF S, T
      <3>3. IsFiniteSet(T) /\ Cardinality(S) \in Nat /\ Cardinality(T) = Cardinality(S) - 1
        BY <3>1, OneLess
      <3>4. LiveTokens' = LiveTokens
        BY <1>1 DEF LiveTokens
      <3>5. Cardinality(LiveTokens) <= 1 + extra' + Cardinality(T)
        BY <1>1, <1>3, <3>2, <3>3
      <3> QED
        BY <1>1, <3>3, <3>4, <3>5 DEF SetupInv, CountInv, T
    <2>4. AttemptsInv'
      BY <1>1, <2>1, IdleHoldsNothing
         DEF SetupInv, AttemptsInv, Timely, KeysFree, Apart, HoldsOwner, HoldsSlug, Founding, Rotating, NoAttempt
    <2>5. KeysUnique'
      BY <1>1 DEF SetupInv, KeysUnique
    <2> QED
      BY <2>2, <2>3, <2>4, <2>5 DEF SetupInv
  <1> QED
    BY <1>2, <1>3

LEMMA SetupInductive == SetupInv /\ [SetupNext]_setupVars => SetupInv'
  <1> SUFFICES ASSUME SetupInv, [SetupNext]_setupVars PROVE SetupInv'
    OBVIOUS
  <1>1. CASE SetupNext
    BY <1>1, FoundStep, CommitSetupStep, LookUpStep, MintStep, RevokeStep, AttemptDiesStep DEF SetupNext
  <1>2. CASE UNCHANGED setupVars
    BY <1>2 DEF setupVars, SetupInv, SetupShape, Attempt, CountInv, Minted, LiveTokens, AttemptsInv, Timely,
                KeysFree, Apart, KeysUnique
  <1> QED
    BY <1>1, <1>2

\* However many first starts and rotations overlap and die, an instance has one live
\* token beyond those that an overtaken request or a death left, and no two States
\* of one owner or one name.
THEOREM OneTokenLives == SetupSpec => []OneLiveToken
  <1>1. SetupInv => OneLiveToken
    BY DEF SetupInv, CountInv, KeysUnique, LiveTokens, OneLiveToken
  <1> QED
    BY <1>1, SetupInitInv, SetupInductive, PTL DEF SetupSpec

-----------------------------------------------------------------------------
(* TelegramLink: one account per link *)

Delivery ==
    {NoUpdate} \cup [pc : {"account", "insert", "consume"}, link : Link, account : Account, late : BOOLEAN]
LinkShape ==
    /\ link \in [Link -> {NoRow} \cup LinkRow]
    /\ cred \in [Account -> {NoRow} \cup [user : Asker, by : Link]]
    /\ update \in [Update -> Delivery] /\ beyond \in [Link -> Nat] /\ losses \in Nat

\* A delivery at work has a link, unconsumed unless another has consumed it since.
AtWork(q) == q.pc # "idle" => link[q.link] # NoRow /\ (~ link[q.link].consumed \/ q.late)

\* The mark of consumption stands for one account, each overlap or death for one,
\* and each delivery before its mark for one.
Spent(l) == IF link[l].consumed THEN 1 ELSE 0
Accounted(l) ==
    /\ IsFiniteSet(Attached(l)) /\ IsFiniteSet(Pending(l))
    /\ link[l] = NoRow => Attached(l) = {}
    /\ link[l] # NoRow => Cardinality(Attached(l)) <= Spent(l) + beyond[l] + Cardinality(Pending(l))
    /\ \A a \in Attached(l) : cred[a].user = link[l].user

LinkInv == LinkShape /\ (\A w \in Update : AtWork(update[w])) /\ \A l \in Link : Accounted(l)

LEMMA IdleUpdate == NoUpdate \in Delivery /\ NoUpdate.pc = "idle" /\ AtWork(NoUpdate)
  BY DEF NoUpdate, Delivery, AtWork

LEMMA BusyUpdate ==
    ASSUME NEW q \in Delivery, q.pc # "idle"
    PROVE  /\ q \in [pc : {"account", "insert", "consume"}, link : Link, account : Account, late : BOOLEAN]
           /\ q # NoUpdate
  BY DEF Delivery, NoUpdate

LEMMA LinkInitInv == LinkInit => LinkInv
  <1> SUFFICES ASSUME LinkInit PROVE LinkInv
    OBVIOUS
  <1>1. LinkShape
    BY DEF LinkInit, LinkShape, Delivery
  <1>2. \A w \in Update : AtWork(update[w])
    BY IdleUpdate DEF LinkInit
  <1>3. ASSUME NEW l \in Link PROVE Accounted(l)
    <2>1. link[l] = NoRow /\ Attached(l) = {} /\ Pending(l) = {}
      BY DEF LinkInit, Attached, Pending, NoUpdate
    <2> QED
      BY <2>1, FS_EmptySet DEF Accounted
  <1> QED
    BY <1>1, <1>2, <1>3 DEF LinkInv

\* A link that is asked for has attached nothing; one that expires, nothing more.
LEMMA LinkRowStep ==
    ASSUME TelegramConstants, LinkInv, NEW k \in Link, NEW rec \in LinkRow, link' = [link EXCEPT ![k] = rec],
           link[k] # NoRow => link[k].user = rec.user /\ link[k].consumed = rec.consumed,
           link[k] = NoRow => ~ rec.consumed,
           UNCHANGED <<cred, update, beyond, losses>>
    PROVE  LinkInv'
  <1>1. \A l \in Link : link'[l] = IF l = k THEN rec ELSE link[l]
    BY DEF LinkInv, LinkShape
  <1>2. rec # NoRow
    BY DEF TelegramConstants
  <1>3. LinkShape'
    BY DEF LinkInv, LinkShape
  <1>4. ASSUME NEW w \in Update PROVE AtWork(update[w])'
    <2>1. AtWork(update[w])
      BY DEF LinkInv
    <2>2. update[w].pc # "idle" => update[w].link \in Link
      BY BusyUpdate DEF LinkInv, LinkShape
    <2> QED
      BY <1>1, <1>2, <2>1, <2>2 DEF AtWork
  <1>5. ASSUME NEW l \in Link PROVE Accounted(l)'
    <2>1. Accounted(l) /\ Attached(l)' = Attached(l) /\ Pending(l)' = Pending(l)
      BY DEF LinkInv, Attached, Pending
    <2>2. CASE l # k \/ link[l] # NoRow
      BY <1>1, <1>2, <2>1, <2>2 DEF Accounted, Spent
    <2>3. CASE l = k /\ link[l] = NoRow
      <3>1. Attached(l) = {} /\ Spent(l)' = 0 /\ beyond[l] \in Nat /\ Cardinality(Pending(l)) \in Nat
        BY <1>1, <2>1, <2>3, FS_CardinalityType DEF Accounted, Spent, LinkInv, LinkShape
      <3>2. Cardinality(Attached(l)) = 0
        BY <3>1, FS_EmptySet
      <3> QED
        BY <1>1, <1>2, <2>1, <3>1, <3>2 DEF Accounted
    <2> QED
      BY <2>2, <2>3
  <1> QED
    BY <1>3, <1>4, <1>5 DEF LinkInv

\* A delivery that is not about to mark its link, nor will be, counts for nothing.
LEMMA DeliveryStep ==
    ASSUME LinkInv, NEW w \in Update, NEW q \in Delivery, update' = [update EXCEPT ![w] = q],
           update[w].pc # "consume", q.pc # "consume", AtWork(q),
           UNCHANGED <<link, cred, beyond>>, losses' \in Nat
    PROVE  LinkInv'
  <1>1. \A v \in Update : update'[v] = IF v = w THEN q ELSE update[v]
    BY DEF LinkInv, LinkShape
  <1>2. LinkShape'
    BY DEF LinkInv, LinkShape, Delivery
  <1>3. \A v \in Update : AtWork(update[v])'
    BY <1>1 DEF LinkInv, AtWork
  <1>4. ASSUME NEW l \in Link PROVE Accounted(l)'
    <2>1. Accounted(l) /\ Attached(l)' = Attached(l) /\ Pending(l)' = Pending(l)
      BY <1>1 DEF LinkInv, Attached, Pending
    <2> QED
      BY <2>1 DEF Accounted, Spent
  <1> QED
    BY <1>2, <1>3, <1>4 DEF LinkInv

\* A delivery on its way to mark the link is counted until it does.
LEMMA TowardsMark ==
    ASSUME LinkInv, NEW w \in Update, update[w].pc \in {"account", "insert"}, UpdateTo(w, "consume"),
           UNCHANGED <<link, beyond, losses>>, NEW l0, l0 = update[w].link,
           \/ UNCHANGED cred
           \/ \E a \in Account : cred[a] = NoRow /\ cred' = [cred EXCEPT ![a] = [user |-> link[l0].user, by |-> l0]]
    PROVE  LinkInv'
  <1> DEFINE q == [update[w] EXCEPT !.pc = "consume"]
  <1>1. /\ update[w] \in [pc : {"account", "insert", "consume"}, link : Link, account : Account, late : BOOLEAN]
        /\ l0 \in Link /\ AtWork(update[w]) /\ link[l0] # NoRow
    BY BusyUpdate DEF LinkInv, LinkShape, AtWork
  <1>2. q \in Delivery /\ q.pc = "consume" /\ q.link = l0 /\ q.late = update[w].late
    BY <1>1 DEF Delivery
  <1>3. /\ update' = [update EXCEPT ![w] = q]
        /\ \A v \in Update : update'[v] = IF v = w THEN q ELSE update[v]
    BY <1>1 DEF UpdateTo, LinkInv, LinkShape
  <1> HIDE DEF q
  <1>4. link[l0] \in LinkRow
    BY <1>1 DEF LinkInv, LinkShape
  <1>5. LinkShape'
    <2>1. update' \in [Update -> Delivery']
      BY <1>2, <1>3 DEF LinkInv, LinkShape, Delivery
    <2>2. cred' \in [Account -> {NoRow} \cup [user : Asker, by : Link]]
      BY <1>1, <1>4 DEF LinkInv, LinkShape, LinkRow
    <2> QED
      BY <2>1, <2>2 DEF LinkInv, LinkShape
  <1>6. \A v \in Update : AtWork(update[v])'
    BY <1>1, <1>2, <1>3 DEF LinkInv, AtWork
  <1>7. ASSUME NEW l \in Link, l # l0 PROVE Accounted(l)'
    <2>1. Pending(l)' = Pending(l)
      BY <1>2, <1>3, <1>7 DEF Pending
    <2>2. Attached(l)' = Attached(l) /\ \A a \in Attached(l) : cred'[a] = cred[a]
      BY <1>7 DEF Attached, LinkInv, LinkShape
    <2> QED
      BY <2>1, <2>2 DEF LinkInv, Accounted, Spent
  <1>8. Accounted(l0)'
    <2> DEFINE A == Attached(l0)
               B == Attached(l0)'
               S == Pending(l0)
               T == Pending(l0)'
    <2>1. Accounted(l0)
      BY <1>1 DEF LinkInv
    <2>2. T = S \cup {w} /\ w \notin S
      BY <1>2, <1>3 DEF Pending
    <2>3. \E a \in Account : B \subseteq A \cup {a} /\ \A b \in B : cred'[b].user = link[l0].user
      <3>1. CASE UNCHANGED cred
        BY <1>1, <2>1, <3>1 DEF Attached, Accounted
      <3>2. ASSUME NEW a \in Account, cred[a] = NoRow,
                   cred' = [cred EXCEPT ![a] = [user |-> link[l0].user, by |-> l0]]
            PROVE  B \subseteq A \cup {a} /\ \A b \in B : cred'[b].user = link[l0].user
        <4>1. \A b \in Account : cred'[b] = IF b = a THEN [user |-> link[l0].user, by |-> l0] ELSE cred[b]
          BY <3>2 DEF LinkInv, LinkShape
        <4> QED
          BY <2>1, <4>1 DEF Attached, Accounted
      <3> QED
        BY <3>1, <3>2
    <2>4. /\ IsFiniteSet(A) /\ IsFiniteSet(S) /\ beyond[l0] \in Nat /\ Spent(l0) \in Nat
          /\ Cardinality(A) <= Spent(l0) + beyond[l0] + Cardinality(S)
      BY <1>1, <2>1 DEF Accounted, Spent, LinkInv, LinkShape
    <2>5. Spent(l0)' = Spent(l0)
      BY DEF Spent
    <2> HIDE DEF A, B, S, T
    <2>6. IsFiniteSet(T) /\ Cardinality(T) = Cardinality(S) + 1 /\ Cardinality(S) \in Nat
      BY <2>2, <2>4, OneMore
    <2>7. IsFiniteSet(B) /\ Cardinality(B) \in Nat /\ Cardinality(A) \in Nat /\ Cardinality(B) <= Cardinality(A) + 1
      BY <2>3, <2>4, AtMostOneMore
    <2>8. Cardinality(B) <= Spent(l0)' + beyond'[l0] + Cardinality(T)
      BY <2>4, <2>5, <2>6, <2>7
    <2> QED
      BY <1>1, <2>3, <2>6, <2>7, <2>8 DEF Accounted, B, T
  <1> QED
    BY <1>5, <1>6, <1>7, <1>8 DEF LinkInv

LEMMA AskStep ==
    ASSUME TelegramConstants, LinkInv, NEW l \in Link,
           (\E u \in Asker : BeginEnrollment(l, u)) \/ Expire(l)
    PROVE  LinkInv'
  <1>1. ASSUME NEW u \in Asker, BeginEnrollment(l, u) PROVE LinkInv'
    <2> DEFINE rec == [user |-> u, expired |-> FALSE, consumed |-> FALSE]
    <2>1. rec \in LinkRow /\ ~ rec.consumed /\ link[l] = NoRow /\ link' = [link EXCEPT ![l] = rec]
      BY <1>1 DEF BeginEnrollment, LinkRow
    <2>2. UNCHANGED <<cred, update, beyond, losses>>
      BY <1>1 DEF BeginEnrollment
    <2> HIDE DEF rec
    <2> QED
      BY <2>1, <2>2, LinkRowStep
  <1>2. CASE Expire(l)
    <2> DEFINE rec == [link[l] EXCEPT !.expired = TRUE]
    <2>1. link[l] # NoRow /\ link[l] \in LinkRow
      BY <1>2 DEF Expire, LinkInv, LinkShape
    <2>2. rec \in LinkRow /\ rec.user = link[l].user /\ rec.consumed = link[l].consumed
      BY <2>1 DEF LinkRow
    <2>3. link' = [link EXCEPT ![l] = rec]
      BY <1>2, <2>1 DEF Expire, LinkInv, LinkShape, LinkRow
    <2>4. UNCHANGED <<cred, update, beyond, losses>>
      BY <1>2 DEF Expire
    <2> HIDE DEF rec
    <2> QED
      BY <2>1, <2>2, <2>3, <2>4, LinkRowStep
  <1> QED
    BY <1>1, <1>2

LEMMA FindStep ==
    ASSUME LinkInv, NEW w \in Update,
           (\E l \in Link, a \in Account : FindLink(w, l, a)) \/ FindAccount(w) \/ InsertCredential(w)
    PROVE  LinkInv'
  <1>1. losses \in Nat /\ UNCHANGED <<link, beyond, losses>>
    BY DEF LinkInv, LinkShape, FindLink, FindAccount, InsertCredential
  <1>2. ASSUME NEW l \in Link, NEW a \in Account, FindLink(w, l, a) PROVE LinkInv'
    <2> DEFINE q == [pc |-> "account", link |-> l, account |-> a, late |-> FALSE]
    <2>1. q \in Delivery /\ q.pc = "account" /\ AtWork(q)
      BY <1>2 DEF FindLink, Usable, Delivery, AtWork
    <2>2. update[w].pc = "idle" /\ update' = [update EXCEPT ![w] = q] /\ UNCHANGED cred
      BY <1>2 DEF FindLink, NoUpdate
    <2> HIDE DEF q
    <2> QED
      BY <1>1, <2>1, <2>2, DeliveryStep
  <1>3. ASSUME EndUpdate(w), UNCHANGED cred, update[w].pc # "consume" PROVE LinkInv'
    BY <1>1, <1>3, IdleUpdate, DeliveryStep DEF EndUpdate
  <1>4. ASSUME UpdateTo(w, "insert"), update[w].pc = "account", UNCHANGED cred PROVE LinkInv'
    <2> DEFINE q == [update[w] EXCEPT !.pc = "insert"]
    <2>1. update[w] \in [pc : {"account", "insert", "consume"}, link : Link, account : Account, late : BOOLEAN]
      BY <1>4, BusyUpdate DEF LinkInv, LinkShape
    <2>2. q \in Delivery /\ q.pc = "insert" /\ q.link = update[w].link /\ q.late = update[w].late
      BY <2>1 DEF Delivery
    <2>3. AtWork(q)
      BY <1>4, <2>2 DEF LinkInv, AtWork
    <2>4. update' = [update EXCEPT ![w] = q]
      BY <1>4, <2>1 DEF UpdateTo, LinkInv, LinkShape
    <2> HIDE DEF q
    <2> QED
      BY <1>1, <1>4, <2>2, <2>3, <2>4, DeliveryStep
  <1>5. CASE FindAccount(w)
    <2>1. update[w].pc = "account" /\ UNCHANGED cred
      BY <1>5 DEF FindAccount
    <2>2. UpdateTo(w, "insert") \/ UpdateTo(w, "consume") \/ EndUpdate(w)
      BY <1>5 DEF FindAccount
    <2> QED
      BY <1>1, <1>3, <1>4, <2>1, <2>2, TowardsMark
  <1>6. CASE InsertCredential(w)
    <2>1. update[w].pc = "insert" /\ update[w].account \in Account
      BY <1>6, BusyUpdate DEF InsertCredential, LinkInv, LinkShape
    <2>2. \/ EndUpdate(w) /\ UNCHANGED cred
          \/ /\ UpdateTo(w, "consume") /\ cred[update[w].account] = NoRow
             /\ cred' = [cred EXCEPT ![update[w].account] = [user |-> link[update[w].link].user, by |-> update[w].link]]
      BY <1>6 DEF InsertCredential
    <2> QED
      BY <1>1, <1>3, <2>1, <2>2, TowardsMark
  <1> QED
    BY <1>2, <1>5, <1>6

\* The mark takes the place of its delivery, or adds to what is beyond it.
LEMMA ConsumeStep ==
    ASSUME TelegramConstants, LinkInv, NEW w \in Update, Consume(w), NEW l0, l0 = update[w].link PROVE LinkInv'
  <1>1. /\ update[w].pc = "consume" /\ l0 \in Link /\ link[l0] # NoRow /\ link[l0] \in LinkRow
        /\ ~ link[l0].consumed \/ update[w].late
    BY BusyUpdate DEF Consume, LinkInv, LinkShape, AtWork
  <1>2. /\ cred' = cred /\ losses' = losses /\ link' = [link EXCEPT ![l0].consumed = TRUE]
        /\ beyond' = (IF update[w].late THEN [beyond EXCEPT ![l0] = beyond[l0] + 1] ELSE beyond)
    BY DEF Consume
  <1>3. /\ link' \in [Link -> {NoRow} \cup LinkRow]
        /\ \A l \in Link : l # l0 => link'[l] = link[l]
        /\ link'[l0].consumed /\ link'[l0].user = link[l0].user /\ link'[l0] # NoRow
    <2>1. [link[l0] EXCEPT !.consumed = TRUE] \in LinkRow /\ [link[l0] EXCEPT !.consumed = TRUE].consumed
          /\ [link[l0] EXCEPT !.consumed = TRUE].user = link[l0].user
      BY <1>1 DEF LinkRow
    <2>2. /\ link' \in [Link -> {NoRow} \cup LinkRow] /\ link'[l0] = [link[l0] EXCEPT !.consumed = TRUE]
          /\ \A l \in Link : l # l0 => link'[l] = link[l]
      BY <1>1, <1>2, <2>1 DEF LinkInv, LinkShape
    <2> QED
      BY <2>1, <2>2 DEF TelegramConstants
  <1>4. /\ update'[w] = NoUpdate /\ DOMAIN update' = Update
        /\ \A v \in Update \ {w} :
              /\ update'[v] \in Delivery /\ update'[v].pc = update[v].pc
              /\ update[v].pc # "idle" => update'[v].link = update[v].link
              /\ update[v].pc # "idle" /\ update[v].link = l0 => update'[v].late
              /\ update[v].pc # "idle" /\ update[v].link # l0 => update'[v] = update[v]
    <2> DEFINE overtaken(v) == update[v] # NoUpdate /\ update[v].link = l0
    <2>1. update' = [v \in Update |-> IF v = w THEN NoUpdate
                                      ELSE IF overtaken(v) THEN [update[v] EXCEPT !.late = TRUE] ELSE update[v]]
      BY DEF Consume
    <2>2. \A v \in Update : update[v] \in Delivery
      BY DEF LinkInv, LinkShape
    <2>3. ASSUME NEW v \in Update \ {w}, overtaken(v)
          PROVE  /\ update'[v] \in Delivery /\ update'[v].pc = update[v].pc
                 /\ update'[v].link = update[v].link /\ update'[v].late
      <3>1. update[v] \in [pc : {"account", "insert", "consume"}, link : Link, account : Account, late : BOOLEAN]
        BY <2>2, <2>3 DEF Delivery
      <3>2. update'[v] = [update[v] EXCEPT !.late = TRUE]
        BY <2>1, <2>3
      <3> QED
        BY <3>1, <3>2 DEF Delivery
    <2>4. ASSUME NEW v \in Update \ {w}, ~ overtaken(v) PROVE update'[v] = update[v]
      BY <2>1, <2>4
    <2>5. ASSUME NEW v \in Update, update[v].pc # "idle" PROVE update[v] # NoUpdate
      BY <2>5 DEF NoUpdate
    <2>6. update'[w] = NoUpdate /\ DOMAIN update' = Update
      BY <2>1
    <2> HIDE DEF overtaken
    <2>7. ASSUME NEW v \in Update \ {w}
          PROVE  /\ update'[v] \in Delivery /\ update'[v].pc = update[v].pc
                 /\ update[v].pc # "idle" => update'[v].link = update[v].link
                 /\ update[v].pc # "idle" /\ update[v].link = l0 => update'[v].late
                 /\ update[v].pc # "idle" /\ update[v].link # l0 => update'[v] = update[v]
      <3>1. CASE overtaken(v)
        BY <2>3, <3>1 DEF overtaken
      <3>2. CASE ~ overtaken(v)
        BY <2>2, <2>4, <2>5, <3>2 DEF overtaken
      <3> QED
        BY <3>1, <3>2
    <2> QED
      BY <2>6, <2>7
  <1>5. beyond' \in [Link -> Nat] /\ \A l \in Link : l # l0 => beyond'[l] = beyond[l]
    BY <1>1, <1>2 DEF LinkInv, LinkShape
  <1>6. LinkShape'
    <2>1. update' \in [Update -> Delivery]
      <3>1. update' = [v \in Update |-> update'[v]]
        BY DEF Consume
      <3> QED
        BY <1>4, <3>1, IdleUpdate
    <2> QED
      BY <1>2, <1>3, <1>5, <2>1 DEF LinkInv, LinkShape, Delivery
  <1>7. ASSUME NEW v \in Update PROVE AtWork(update[v])'
    <2>1. CASE v = w
      BY <1>4, <2>1, IdleUpdate DEF AtWork
    <2>2. CASE v # w
      <3>1. update[v].pc # "idle" => update[v].link \in Link
        BY BusyUpdate DEF LinkInv, LinkShape
      <3> QED
        BY <1>3, <1>4, <2>2, <3>1 DEF LinkInv, AtWork
    <2> QED
      BY <2>1, <2>2
  <1>8. ASSUME NEW l \in Link, l # l0 PROVE Accounted(l)'
    <2>1. Pending(l)' = Pending(l)
      BY <1>1, <1>4, <1>8 DEF Pending, NoUpdate
    <2>2. Attached(l)' = Attached(l)
      BY <1>2 DEF Attached
    <2> QED
      BY <1>2, <1>3, <1>5, <1>8, <2>1, <2>2 DEF LinkInv, Accounted, Spent
  <1>9. Accounted(l0)'
    <2> DEFINE A == Attached(l0)
               S == Pending(l0)
               T == Pending(l0)'
    <2>1. Accounted(l0)
      BY <1>1 DEF LinkInv
    <2>2. T = S \ {w} /\ w \in S
      BY <1>1, <1>4 DEF Pending, NoUpdate
    <2>3. Attached(l0)' = A
      BY <1>2 DEF Attached
    <2>4. /\ IsFiniteSet(A) /\ IsFiniteSet(S) /\ beyond[l0] \in Nat
          /\ Cardinality(A) <= Spent(l0) + beyond[l0] + Cardinality(S)
          /\ \A a \in A : cred'[a].user = link'[l0].user
      BY <1>1, <1>2, <1>3, <2>1 DEF Accounted, LinkInv, LinkShape
    <2> HIDE DEF A, S, T
    <2>5. IsFiniteSet(T) /\ Cardinality(T) = Cardinality(S) - 1 /\ Cardinality(S) \in Nat
      BY <2>2, <2>4, OneLess
    <2>6. Cardinality(A) \in Nat
      BY <2>4, FS_CardinalityType
    <2>7. Cardinality(A) <= 1 + beyond'[l0] + Cardinality(T)
      <3>1. CASE update[w].late
        <4>1. beyond'[l0] = beyond[l0] + 1
          BY <1>1, <1>2, <3>1 DEF LinkInv, LinkShape
        <4>2. Spent(l0) \in 0..1
          BY DEF Spent
        <4> QED
          BY <2>4, <2>5, <2>6, <4>1, <4>2
      <3>2. CASE ~ update[w].late
        <4>1. beyond'[l0] = beyond[l0] /\ Spent(l0) = 0
          BY <1>1, <1>2, <3>2 DEF Spent
        <4> QED
          BY <2>4, <2>5, <2>6, <4>1
      <3> QED
        BY <3>1, <3>2
    <2>8. Spent(l0)' = 1 /\ link'[l0] # NoRow
      BY <1>3 DEF Spent
    <2> QED
      BY <2>3, <2>4, <2>5, <2>7, <2>8 DEF Accounted, T
  <1> QED
    BY <1>1, <1>6, <1>7, <1>8, <1>9 DEF LinkInv

\* An account whose delivery dies before the mark is one beyond it.
LEMMA UpdateDiesStep ==
    ASSUME LinkInv, NEW w \in Update, UpdateDies(w), NEW l0, l0 = update[w].link PROVE LinkInv'
  <1>1. /\ update' = [update EXCEPT ![w] = NoUpdate] /\ link' = link /\ cred' = cred /\ losses' \in Nat
        /\ beyond' = (IF update[w].pc = "consume" THEN [beyond EXCEPT ![l0] = beyond[l0] + 1] ELSE beyond)
    BY DEF UpdateDies, EndUpdate, LinkInv, LinkShape
  <1>2. CASE update[w].pc # "consume"
    BY <1>1, <1>2, IdleUpdate, DeliveryStep
  <1>3. CASE update[w].pc = "consume"
    <2>1. l0 \in Link /\ link[l0] # NoRow /\ Accounted(l0)
      BY <1>3, BusyUpdate DEF LinkInv, LinkShape, AtWork
    <2>2. \A v \in Update : update'[v] = IF v = w THEN NoUpdate ELSE update[v]
      BY <1>1 DEF LinkInv, LinkShape
    <2>3. /\ beyond' \in [Link -> Nat] /\ beyond'[l0] = beyond[l0] + 1 /\ beyond[l0] \in Nat
          /\ \A l \in Link : l # l0 => beyond'[l] = beyond[l]
      BY <1>1, <1>3, <2>1 DEF LinkInv, LinkShape
    <2>4. LinkShape'
      BY <1>1, <2>3, IdleUpdate DEF LinkInv, LinkShape, Delivery
    <2>5. \A v \in Update : AtWork(update[v])'
      BY <1>1, <2>2, IdleUpdate DEF LinkInv, AtWork
    <2>6. ASSUME NEW l \in Link, l # l0 PROVE Accounted(l)'
      <3>1. Pending(l)' = Pending(l) /\ Attached(l)' = Attached(l)
        BY <1>1, <1>3, <2>2, <2>6 DEF Pending, Attached, NoUpdate
      <3> QED
        BY <1>1, <2>3, <2>6, <3>1 DEF LinkInv, Accounted, Spent
    <2>7. Accounted(l0)'
      <3> DEFINE A == Attached(l0)
                 S == Pending(l0)
                 T == Pending(l0)'
      <3>1. T = S \ {w} /\ w \in S
        BY <1>3, <2>2 DEF Pending, NoUpdate
      <3>2. Attached(l0)' = A /\ Spent(l0)' = Spent(l0)
        BY <1>1 DEF Attached, Spent
      <3>3. /\ IsFiniteSet(A) /\ IsFiniteSet(S) /\ Cardinality(A) <= Spent(l0) + beyond[l0] + Cardinality(S)
            /\ \A a \in A : cred'[a].user = link'[l0].user
        BY <1>1, <2>1 DEF Accounted
      <3> HIDE DEF A, S, T
      <3>4. IsFiniteSet(T) /\ Cardinality(T) = Cardinality(S) - 1 /\ Cardinality(S) \in Nat
        BY <3>1, <3>3, OneLess
      <3>5. Cardinality(A) \in Nat /\ Spent(l0) \in Nat
        BY <3>3, FS_CardinalityType DEF Spent
      <3>6. Cardinality(A) <= Spent(l0)' + beyond'[l0] + Cardinality(T)
        BY <2>3, <3>2, <3>3, <3>4, <3>5
      <3> QED
        BY <1>1, <2>1, <3>2, <3>3, <3>4, <3>6 DEF Accounted, T
    <2> QED
      BY <2>1, <2>4, <2>5, <2>6, <2>7 DEF LinkInv
  <1> QED
    BY <1>2, <1>3

LEMMA LinkInductive ==
    ASSUME TelegramConstants, LinkInv, [LinkNext]_linkVars PROVE LinkInv'
  <1>1. CASE LinkNext
    <2>1. ASSUME NEW w \in Update, Consume(w) PROVE LinkInv'
      BY <2>1, ConsumeStep
    <2>2. ASSUME NEW w \in Update, UpdateDies(w) PROVE LinkInv'
      BY <2>2, UpdateDiesStep
    <2> QED
      BY <1>1, <2>1, <2>2, AskStep, FindStep DEF LinkNext
  <1>2. CASE UNCHANGED linkVars
    <2>1. LinkShape' /\ \A w \in Update : AtWork(update[w])'
      BY <1>2 DEF linkVars, LinkInv, LinkShape, Delivery, AtWork
    <2>2. ASSUME NEW l \in Link PROVE Accounted(l)'
      <3>1. Accounted(l) /\ Attached(l)' = Attached(l) /\ Pending(l)' = Pending(l)
        BY <1>2 DEF linkVars, LinkInv, Attached, Pending
      <3> QED
        BY <1>2, <3>1 DEF linkVars, Accounted, Spent
    <2> QED
      BY <2>1, <2>2 DEF LinkInv
  <1> QED
    BY <1>1, <1>2

\* However many deliveries of the webhook overlap and die, a one-time link attaches
\* one account and one more for each of those, all to the citizen who asked for it.
THEOREM LinksAttachOnce == ASSUME TelegramConstants PROVE LinkSpec => []OneAccountPerLink
  <1>1. LinkInv => OneAccountPerLink
    <2> SUFFICES ASSUME LinkInv, NEW l \in Link
                 PROVE  /\ Cardinality(Attached(l)) <= 1 + beyond[l] + Cardinality(Pending(l))
                        /\ \A a \in Attached(l) : cred[a].user = link[l].user
      BY DEF OneAccountPerLink
    <2>1. Accounted(l) /\ beyond[l] \in Nat
      BY DEF LinkInv, LinkShape
    <2>2. Cardinality(Attached(l)) \in Nat /\ Cardinality(Pending(l)) \in Nat /\ Spent(l) \in 0..1
      BY <2>1, FS_CardinalityType DEF Accounted, Spent
    <2>3. link[l] = NoRow => Cardinality(Attached(l)) = 0
      BY <2>1, FS_EmptySet DEF Accounted
    <2> QED
      BY <2>1, <2>2, <2>3 DEF Accounted
  <1> QED
    BY <1>1, LinkInitInv, LinkInductive, PTL DEF LinkSpec

-----------------------------------------------------------------------------
(* Settings: what was decided stands *)

\* As much of the types as the argument needs. The marks of the tour are no Values.
Forms == {NoForm} \cup [InForm -> Value]
SettingsShape ==
    /\ DOMAIN decree = Field /\ DOMAIN chosen = Field /\ exposed \in [Field -> SUBSET Admin]
    /\ \A f \in Scalar \cup Rule : decree[f] \in Value /\ chosen[f] \in Value
    /\ form \in [Admin -> Forms] /\ answer \in [Admin -> Forms] /\ edited \in [Admin -> SUBSET InForm]
    /\ \A b \in Admin : edited[b] \subseteq DOMAIN form[b]
    /\ DOMAIN saving = Admin
    /\ \A b \in Admin : saving[b].pc = "idle" <=> saving[b] = NoSave

\* A request sends values, those somebody chose among them, and holds the rules it
\* read; its answer is a form.
Carries(q) ==
    /\ q.pc \in {"read", "write"}
    /\ q.choice \subseteq DOMAIN q.patch /\ DOMAIN q.patch \subseteq Field
    /\ \A f \in DOMAIN q.patch \ Mark : q.patch[f] \in Value
    /\ q.pc = "write" => q.rules \in [Rule -> Value]
Answers(q) == q.pc = "answer" /\ q.row \in [InForm -> Value]
SavingInv == \A b \in Admin : saving[b].pc # "idle" => Carries(saving[b]) \/ Answers(saving[b])

\* The decision for a field, as it was taken or as a form shows it.
Faithful(v, f) == v = chosen[f] \/ (f \in InForm /\ v = AsShown[chosen[f]])

\* No copy of a field without a holder at its last decision says anything else.
RowAgrees(f) == Faithful(decree[f], f)
FormAgrees(b, f) == f \in DOMAIN form[b] \ edited[b] => form[b][f] = AsShown[chosen[f]]
AnswerAgrees(b, f) == f \in DOMAIN answer[b] => answer[b][f] = AsShown[chosen[f]]
CarryAgrees(q, f) ==
    /\ q.pc = "answer" /\ f \in InForm => q.row[f] = AsShown[chosen[f]]
    /\ q.pc \in {"read", "write"} /\ f \in DOMAIN q.patch \ q.choice => Faithful(q.patch[f], f)
    /\ q.pc = "write" /\ f \in Rule /\ DOMAIN q.patch \cap Rule # {} => Faithful(q.rules[f], f)
Agreed(f) ==
    RowAgrees(f) /\ \A b \in Admin : FormAgrees(b, f) /\ AnswerAgrees(b, f) /\ CarryAgrees(saving[b], f)

SettingsInv ==
    SettingsShape /\ SavingInv /\ \A f \in Field : exposed[f] = {} => Agreed(f)

\* A form shows a faithful value as it shows the decision.
LEMMA ShownFaithfully ==
    ASSUME SettingsConstants, NEW f \in InForm, chosen[f] \in Value, NEW v, Faithful(v, f)
    PROVE  AsShown[v] = AsShown[chosen[f]]
  BY DEF SettingsConstants, Faithful

\* The fields of the form are no marks and hold Values.
LEMMA FormOfRow ==
    ASSUME SettingsConstants, SettingsShape
    PROVE  /\ InForm \subseteq Field /\ InForm \cap Mark = {} /\ Rule \cap Mark = {}
           /\ ToForm(decree) \in [InForm -> Value]
           /\ \A f \in InForm : ToForm(decree)[f] = AsShown[decree[f]] /\ chosen[f] \in Value
  BY DEF SettingsConstants, SettingsShape, Field, Mark, ToForm

LEMMA SettingsInitInv == ASSUME SettingsConstants, SettingsInit PROVE SettingsInv
  <1>1. \A b \in Admin : /\ saving[b] = NoSave /\ saving[b].pc = "idle"
                         /\ form[b] = NoForm /\ answer[b] = NoForm
    BY DEF SettingsInit, NoSave
  <1>2. SettingsShape
    BY <1>1 DEF SettingsInit, SettingsShape, SettingsConstants, Field, Mark, Forms
  <1>3. SavingInv
    BY <1>1 DEF SavingInv
  <1>4. \A f \in Field : RowAgrees(f)
    BY DEF SettingsInit, RowAgrees, Faithful
  <1>5. \A b \in Admin, f \in Field : FormAgrees(b, f) /\ AnswerAgrees(b, f) /\ CarryAgrees(saving[b], f)
    BY <1>1 DEF FormAgrees, AnswerAgrees, CarryAgrees, NoForm
  <1> QED
    BY <1>2, <1>3, <1>4, <1>5 DEF SettingsInv, Agreed

\* The page of one administrator changes, and the request of it ends or goes on.
LEMMA PageStep ==
    ASSUME SettingsConstants, SettingsInv, NEW a \in Admin, UNCHANGED inRow,
           form' \in [Admin -> Forms], answer' \in [Admin -> Forms], edited' \in [Admin -> SUBSET InForm],
           edited'[a] \subseteq DOMAIN form'[a],
           \A b \in Admin \ {a} : form'[b] = form[b] /\ answer'[b] = answer[b] /\ edited'[b] = edited[b],
           UNCHANGED saving \/ saving' = [saving EXCEPT ![a] = NoSave],
           \A f \in Field : Agreed(f) =>
               /\ f \in DOMAIN form'[a] \ edited'[a] => form'[a][f] = AsShown[chosen[f]]
               /\ f \in DOMAIN answer'[a] => answer'[a][f] = AsShown[chosen[f]]
    PROVE  SettingsInv'
  <1>1. /\ UNCHANGED <<decree, chosen, exposed>> /\ DOMAIN saving' = Admin
        /\ \A b \in Admin : saving'[b] = saving[b] \/ saving'[b] = NoSave
    BY DEF inRow, SettingsInv, SettingsShape
  <1>2. SettingsShape'
    <2>1. \A b \in Admin : edited'[b] \subseteq DOMAIN form'[b]
      BY DEF SettingsInv, SettingsShape
    <2> QED
      BY <1>1, <2>1 DEF SettingsInv, SettingsShape, NoSave, Forms, NoForm
  <1>3. SavingInv'
    BY <1>1 DEF SettingsInv, SavingInv, NoSave, Carries, Answers
  <1>4. ASSUME NEW f \in Field, exposed'[f] = {} PROVE Agreed(f)'
    <2>1. Agreed(f)
      BY <1>1, <1>4 DEF SettingsInv
    <2>2. RowAgrees(f)'
      BY <1>1, <2>1 DEF Agreed, RowAgrees, Faithful
    <2>3. ASSUME NEW b \in Admin PROVE FormAgrees(b, f)' /\ AnswerAgrees(b, f)'
      <3>1. CASE b = a
        BY <1>1, <2>1, <3>1 DEF FormAgrees, AnswerAgrees
      <3>2. CASE b # a
        BY <1>1, <2>1, <3>2 DEF Agreed, FormAgrees, AnswerAgrees
      <3> QED
        BY <3>1, <3>2
    <2>4. \A b \in Admin : CarryAgrees(saving[b], f)'
      BY <1>1, <2>1 DEF Agreed, CarryAgrees, Faithful, NoSave
    <2> QED
      BY <2>2, <2>3, <2>4 DEF Agreed
  <1> QED
    BY <1>2, <1>3, <1>4 DEF SettingsInv

LEMMA ReadSettingsStep ==
    ASSUME SettingsConstants, SettingsInv, NEW a \in Admin, ReadSettings(a) PROVE SettingsInv'
  <1>1. /\ UNCHANGED inRow /\ UNCHANGED <<form, edited, saving>>
        /\ answer' \in [Admin -> Forms] /\ answer'[a] = ToForm(decree)
        /\ \A b \in Admin \ {a} : answer'[b] = answer[b]
    BY FormOfRow DEF ReadSettings, SettingsInv, SettingsShape, Forms
  <1>2. /\ form' \in [Admin -> Forms] /\ edited' \in [Admin -> SUBSET InForm]
        /\ edited'[a] \subseteq DOMAIN form'[a]
    BY <1>1 DEF SettingsInv, SettingsShape
  <1>3. ASSUME NEW f \in Field, Agreed(f), f \in DOMAIN answer'[a] PROVE answer'[a][f] = AsShown[chosen[f]]
    <2>1. f \in InForm /\ answer'[a][f] = AsShown[decree[f]] /\ chosen[f] \in Value
      BY <1>1, <1>3, FormOfRow DEF SettingsInv
    <2> QED
      BY <1>3, <2>1, ShownFaithfully DEF Agreed, RowAgrees
  <1>4. ASSUME NEW f \in Field, Agreed(f), f \in DOMAIN form'[a] \ edited'[a]
        PROVE  form'[a][f] = AsShown[chosen[f]]
    BY <1>1, <1>4 DEF Agreed, FormAgrees
  <1> QED
    BY <1>1, <1>2, <1>3, <1>4, PageStep

LEMMA ShowSettingsStep ==
    ASSUME SettingsConstants, SettingsInv, NEW a \in Admin, ShowSettings(a) PROVE SettingsInv'
  <1>1. /\ UNCHANGED inRow /\ UNCHANGED saving
        /\ form' \in [Admin -> Forms] /\ answer' \in [Admin -> Forms] /\ edited' \in [Admin -> SUBSET InForm]
        /\ form'[a] \in {answer[a], NoForm} /\ answer'[a] = NoForm /\ edited'[a] = {}
        /\ \A b \in Admin \ {a} : form'[b] = form[b] /\ answer'[b] = answer[b] /\ edited'[b] = edited[b]
    BY DEF ShowSettings, Show, SettingsInv, SettingsShape, Forms
  <1>2. DOMAIN NoForm = {}
    BY DEF NoForm
  <1>3. ASSUME NEW f \in Field, Agreed(f), f \in DOMAIN form'[a] PROVE form'[a][f] = AsShown[chosen[f]]
    BY <1>1, <1>2, <1>3 DEF Agreed, AnswerAgrees
  <1> QED
    BY <1>1, <1>2, <1>3, PageStep

LEMMA ChangeFieldStep ==
    ASSUME SettingsConstants, SettingsInv, NEW a \in Admin, NEW g, NEW v, ChangeField(a, g, v)
    PROVE  SettingsInv'
  <1>1. /\ UNCHANGED inRow /\ UNCHANGED <<answer, saving>>
        /\ g \in DOMAIN form[a] /\ v \in Value /\ form[a] \in [InForm -> Value]
        /\ form' = [form EXCEPT ![a] = [@ EXCEPT ![g] = v]] /\ edited'[a] = edited[a] \cup {g}
    BY DEF ChangeField, SettingsInv, SettingsShape, Forms, NoForm, Shown, SettingsConstants
  <1>2. /\ form' \in [Admin -> Forms] /\ answer' \in [Admin -> Forms] /\ edited' \in [Admin -> SUBSET InForm]
        /\ \A b \in Admin \ {a} : form'[b] = form[b] /\ edited'[b] = edited[b]
        /\ edited'[a] \subseteq DOMAIN form'[a]
    BY <1>1 DEF ChangeField, SettingsInv, SettingsShape, Forms
  <1>3. ASSUME NEW f \in Field, Agreed(f), f \in DOMAIN form'[a] \ edited'[a]
        PROVE  form'[a][f] = AsShown[chosen[f]]
    <2>1. form'[a][f] = form[a][f] /\ f \in DOMAIN form[a] \ edited[a]
      BY <1>1, <1>3 DEF SettingsInv, SettingsShape
    <2> QED
      BY <1>3, <2>1 DEF Agreed, FormAgrees
  <1>4. ASSUME NEW f \in Field, Agreed(f), f \in DOMAIN answer'[a] PROVE answer'[a][f] = AsShown[chosen[f]]
    BY <1>1, <1>4 DEF Agreed, AnswerAgrees
  <1> QED
    BY <1>1, <1>2, <1>3, <1>4, PageStep

LEMMA ShowSavedStep ==
    ASSUME SettingsConstants, SettingsInv, NEW a \in Admin, ShowSaved(a) PROVE SettingsInv'
  <1>1. saving[a].pc = "answer" /\ saving[a].row \in [InForm -> Value]
    BY DEF ShowSaved, SettingsInv, SavingInv, Carries, Answers
  <1>2. /\ UNCHANGED inRow /\ UNCHANGED answer /\ saving' = [saving EXCEPT ![a] = NoSave]
        /\ form' \in [Admin -> Forms] /\ edited' \in [Admin -> SUBSET InForm]
        /\ (form'[a] = form[a] /\ edited'[a] = edited[a]) \/ form'[a] = saving[a].row
        /\ edited'[a] \subseteq DOMAIN form'[a]
        /\ \A b \in Admin \ {a} : form'[b] = form[b] /\ edited'[b] = edited[b]
    BY <1>1 DEF ShowSaved, Show, SettingsInv, SettingsShape, Forms
  <1>3. answer' \in [Admin -> Forms] /\ \A b \in Admin \ {a} : answer'[b] = answer[b]
    BY <1>2 DEF SettingsInv, SettingsShape
  <1>4. ASSUME NEW f \in Field, Agreed(f), f \in DOMAIN form'[a] \ edited'[a]
        PROVE  form'[a][f] = AsShown[chosen[f]]
    BY <1>1, <1>2, <1>4 DEF Agreed, FormAgrees, CarryAgrees
  <1>5. ASSUME NEW f \in Field, Agreed(f), f \in DOMAIN answer'[a] PROVE answer'[a][f] = AsShown[chosen[f]]
    BY <1>2, <1>5 DEF Agreed, AnswerAgrees
  <1> QED
    BY <1>2, <1>3, <1>4, <1>5, PageStep

LEMMA SaveFailsStep ==
    ASSUME SettingsConstants, SettingsInv, NEW a \in Admin, SaveFails(a) PROVE SettingsInv'
  <1>1. UNCHANGED inRow /\ UNCHANGED <<form, answer, edited>> /\ saving' = [saving EXCEPT ![a] = NoSave]
    BY DEF SaveFails, onPage
  <1>2. /\ form' \in [Admin -> Forms] /\ answer' \in [Admin -> Forms] /\ edited' \in [Admin -> SUBSET InForm]
        /\ edited'[a] \subseteq DOMAIN form'[a]
    BY <1>1 DEF SettingsInv, SettingsShape
  <1>3. ASSUME NEW f \in Field, Agreed(f)
        PROVE  /\ f \in DOMAIN form'[a] \ edited'[a] => form'[a][f] = AsShown[chosen[f]]
               /\ f \in DOMAIN answer'[a] => answer'[a][f] = AsShown[chosen[f]]
    BY <1>1, <1>3 DEF Agreed, FormAgrees, AnswerAgrees
  <1> QED
    BY <1>1, <1>2, <1>3, PageStep

\* Whatever leaves the row and the pages alone is faithful if what is sent is.
LEMMA CarryStep ==
    ASSUME SettingsConstants, SettingsInv, NEW a \in Admin, NEW q, Carries(q),
           saving' = [saving EXCEPT ![a] = q], UNCHANGED inRow, UNCHANGED onPage,
           \A f \in Field : exposed[f] = {} => CarryAgrees(q, f)
    PROVE  SettingsInv'
  <1>1. DOMAIN saving' = Admin /\ \A b \in Admin : saving'[b] = IF b = a THEN q ELSE saving[b]
    BY DEF SettingsInv, SettingsShape
  <1>2. q.pc # "idle" /\ q # NoSave
    BY DEF Carries, NoSave
  <1>3. SettingsShape'
    BY <1>1, <1>2 DEF SettingsInv, SettingsShape, inRow, onPage, Forms, NoForm
  <1>4. SavingInv'
    <2>1. \A b \in Admin : saving'[b].pc # "idle" => Carries(saving'[b]) \/ Answers(saving'[b])
      BY <1>1 DEF SettingsInv, SavingInv
    <2> QED
      BY <2>1 DEF SavingInv, Carries, Answers
  <1>5. ASSUME NEW f \in Field, exposed'[f] = {} PROVE Agreed(f)'
    <2>1. exposed[f] = {} /\ Agreed(f)
      BY <1>5 DEF SettingsInv, inRow
    <2>2. RowAgrees(f)' /\ \A b \in Admin : FormAgrees(b, f)' /\ AnswerAgrees(b, f)'
      BY <2>1 DEF Agreed, RowAgrees, Faithful, FormAgrees, AnswerAgrees, inRow, onPage
    <2>3. \A b \in Admin : CarryAgrees(saving'[b], f)
      BY <1>1, <2>1 DEF Agreed
    <2>4. \A b \in Admin : CarryAgrees(saving[b], f)'
      BY <2>3 DEF CarryAgrees, Faithful, inRow
    <2> QED
      BY <2>2, <2>4 DEF Agreed
  <1> QED
    BY <1>3, <1>4, <1>5 DEF SettingsInv

LEMMA SubmitStep == ASSUME SettingsConstants, SettingsInv, NEW a \in Admin, Submit(a) PROVE SettingsInv'
  <1> DEFINE q == [pc |-> "read", patch |-> form[a], choice |-> edited[a]]
  <1>1. form[a] \in [InForm -> Value] \/ form[a] = NoForm
    BY DEF SettingsInv, SettingsShape, Forms
  <1>2. saving' = [saving EXCEPT ![a] = q] /\ UNCHANGED inRow /\ UNCHANGED onPage
    BY DEF Submit, SendPatch
  <1>3. edited[a] \subseteq DOMAIN form[a]
    BY DEF SettingsInv, SettingsShape
  <1>4. Carries(q)
    BY <1>1, <1>3, FormOfRow DEF Carries, SettingsInv, NoForm
  <1>5. ASSUME NEW f \in Field, exposed[f] = {} PROVE CarryAgrees(q, f)
    <2>1. FormAgrees(a, f) /\ (f \in DOMAIN form[a] => f \in InForm)
      BY <1>1, <1>5 DEF SettingsInv, Agreed, NoForm
    <2> QED
      BY <2>1 DEF FormAgrees, CarryAgrees, Faithful
  <1> HIDE DEF q
  <1> QED
    BY <1>2, <1>4, <1>5, CarryStep

\* What a caller chose himself says what he wants.
LEMMA ChosenStep ==
    ASSUME SettingsConstants, SettingsInv, NEW a \in Admin, NEW patch, NEW fields, SendPatch(a, patch, fields),
           DOMAIN patch \subseteq Field, fields \subseteq DOMAIN patch,
           \A f \in DOMAIN patch \ Mark : patch[f] \in Value,
           \A f \in DOMAIN patch \ fields : exposed[f] = {} => Faithful(patch[f], f)
    PROVE  SettingsInv'
  <1> DEFINE q == [pc |-> "read", patch |-> patch, choice |-> fields]
  <1>1. Carries(q)
    BY DEF Carries
  <1>2. saving' = [saving EXCEPT ![a] = q] /\ UNCHANGED inRow /\ UNCHANGED onPage
    BY DEF SendPatch
  <1>3. \A f \in Field : exposed[f] = {} => CarryAgrees(q, f)
    BY DEF CarryAgrees
  <1> HIDE DEF q
  <1> QED
    BY <1>1, <1>2, <1>3, CarryStep

LEMMA PatchStep ==
    ASSUME SettingsConstants, SettingsInv, NEW a \in Admin, NEW f \in Scalar \cup Rule, NEW v \in Value,
           Patch(a, f, v)
    PROVE  SettingsInv'
  <1> DEFINE patch == [g \in {f} |-> v]
  <1>1. SendPatch(a, patch, {f}) /\ DOMAIN patch = {f} /\ f \in Field /\ patch[f] \in Value
    BY DEF Patch, Field
  <1> HIDE DEF patch
  <1> QED
    BY <1>1, ChosenStep

LEMMA PatchExtrasStep ==
    ASSUME SettingsConstants, SettingsInv, NEW a \in Admin, NEW marks \in [Mark -> BOOLEAN],
           PatchExtras(a, marks)
    PROVE  SettingsInv'
  <1>1. SendPatch(a, marks, Mark) /\ DOMAIN marks = Mark /\ Mark \subseteq Field
    BY DEF PatchExtras, Field
  <1> QED
    BY <1>1, ChosenStep

LEMMA CompleteTourStep ==
    ASSUME SettingsConstants, SettingsInv, NEW a \in Admin, CompleteTour(a) PROVE SettingsInv'
  <1> DEFINE patch == [m \in Mark |-> IF m = a THEN TRUE ELSE decree[m]]
  <1>1. SendPatch(a, patch, {a}) /\ DOMAIN patch = Mark /\ Mark \subseteq Field /\ a \in Mark
    BY DEF CompleteTour, Field, Mark
  <1>2. ASSUME NEW f \in Mark \ {a}, exposed[f] = {} PROVE Faithful(patch[f], f)
    BY <1>1, <1>2 DEF SettingsInv, Agreed, RowAgrees
  <1> HIDE DEF patch
  <1> QED
    BY <1>1, <1>2, ChosenStep

LEMMA ReadRowStep ==
    ASSUME SettingsConstants, SettingsInv, NEW a \in Admin, ReadRow(a) PROVE SettingsInv'
  <1> DEFINE q == [pc |-> "write", patch |-> saving[a].patch, choice |-> saving[a].choice, rules |-> Part(Rule)]
  <1>1. saving[a].pc = "read" /\ Carries(saving[a])
    BY DEF ReadRow, SettingsInv, SavingInv, Answers
  <1>2. \A g \in Rule : g \in Field /\ decree[g] \in Value /\ Part(Rule)[g] = decree[g]
    BY DEF SettingsInv, SettingsShape, Field, Part
  <1>3. Part(Rule) \in [Rule -> Value]
    BY <1>2 DEF Part
  <1>4. Carries(q)
    BY <1>1, <1>3 DEF Carries
  <1>5. saving' = [saving EXCEPT ![a] = q] /\ UNCHANGED inRow /\ UNCHANGED onPage
    BY DEF ReadRow
  <1>6. ASSUME NEW g \in Field, exposed[g] = {} PROVE CarryAgrees(q, g)
    <2>1. RowAgrees(g) /\ CarryAgrees(saving[a], g)
      BY <1>6 DEF SettingsInv, Agreed
    <2> QED
      BY <1>1, <1>2, <2>1 DEF RowAgrees, CarryAgrees
  <1> HIDE DEF q
  <1> QED
    BY <1>4, <1>5, <1>6, CarryStep

\* The upsert writes what is faithful; who holds a copy of a field decided is noted.
LEMMA WriteRowStep ==
    ASSUME SettingsConstants, SettingsInv, NEW a \in Admin, Write(a) PROVE SettingsInv'
  <1> DEFINE q == saving[a]
             back == [pc |-> "answer", row |-> ToForm(decree')]
  <1>1. q.pc = "write" /\ Carries(q)
    BY DEF Write, SettingsInv, SavingInv, Answers
  <1>2. /\ \A f \in Field : decree'[f] = Merged(f, q)
        /\ DOMAIN decree' = Field /\ DOMAIN chosen' = Field /\ UNCHANGED <<form, answer, edited>>
        /\ DOMAIN saving' = Admin /\ saving'[a] \in {NoSave, back}
        /\ \A b \in Admin \ {a} : saving'[b] = saving[b]
        /\ \A f \in Field : chosen'[f] = IF f \in q.choice THEN q.patch[f] ELSE chosen[f]
        /\ \A f \in Field : exposed'[f] = IF f \in q.choice
              THEN {b \in Admin : ShowsCopy(b, f) \/ (b # a /\ SendsCopy(b, f))} ELSE exposed[f]
    BY DEF Write, SettingsInv, SettingsShape, onPage
  <1>3. \A f \in Scalar \cup Rule : f \in Field /\ decree'[f] \in Value /\ chosen'[f] \in Value
    <2>1. ASSUME NEW f \in Scalar \cup Rule PROVE f \in Field /\ f \notin Mark
      BY DEF Field, Mark, SettingsConstants
    <2>2. ASSUME NEW f \in Scalar \cup Rule PROVE Merged(f, q) \in Value
      BY <1>1, <2>1 DEF Merged, Carries, Kept, SettingsInv, SettingsShape
    <2>3. ASSUME NEW f \in Scalar \cup Rule PROVE chosen'[f] \in Value
      BY <1>1, <1>2, <2>1 DEF Carries, SettingsInv, SettingsShape
    <2> QED
      BY <1>2, <2>1, <2>2, <2>3
  <1>4. ToForm(decree') \in [InForm -> Value] /\ \A f \in InForm : ToForm(decree')[f] = AsShown[decree'[f]]
    BY <1>3 DEF ToForm, SettingsConstants
  <1>5. SettingsShape'
    <2>1. exposed' \in [Field -> SUBSET Admin]
      BY DEF Write, SettingsInv, SettingsShape
    <2>2. /\ form' \in [Admin -> Forms'] /\ answer' \in [Admin -> Forms']
          /\ edited' \in [Admin -> SUBSET InForm] /\ \A b \in Admin : edited'[b] \subseteq DOMAIN form'[b]
      BY <1>2 DEF SettingsInv, SettingsShape, Forms, NoForm
    <2>3. \A b \in Admin : saving'[b].pc = "idle" <=> saving'[b] = NoSave
      BY <1>2 DEF NoSave, SettingsInv, SettingsShape
    <2> QED
      BY <1>2, <1>3, <2>1, <2>2, <2>3 DEF SettingsShape, NoSave
  <1>6. SavingInv'
    <2>1. Answers(back) /\ back.pc # "idle"
      BY <1>4 DEF Answers
    <2>2. \A b \in Admin : saving'[b].pc # "idle" => Carries(saving'[b]) \/ Answers(saving'[b])
      BY <1>2, <2>1 DEF SettingsInv, SavingInv, NoSave
    <2> QED
      BY <2>2 DEF SavingInv, Carries, Answers
  <1>7. ASSUME NEW f \in Field, exposed'[f] = {} PROVE Agreed(f)'
    <2> DEFINE Now(v) == v = chosen'[f] \/ (f \in InForm /\ v = AsShown[chosen'[f]])
    <2>1. Now(decree'[f])
      <3>1. CASE f \in q.choice
        BY <1>1, <1>2, <3>1 DEF Merged, Carries
      <3>2. CASE f \notin q.choice
        <4>1. Agreed(f) /\ chosen'[f] = chosen[f]
          BY <1>2, <1>7, <3>2 DEF SettingsInv
        <4>2. Faithful(Merged(f, q), f)
          BY <1>1, <3>2, <4>1 DEF Agreed, RowAgrees, CarryAgrees, Merged, Kept
        <4> QED
          BY <1>2, <4>1, <4>2 DEF Faithful
      <3> QED
        BY <3>1, <3>2
    <2>2. f \in InForm => AsShown[decree'[f]] = AsShown[chosen'[f]]
      BY <1>3, <2>1 DEF SettingsConstants
    <2>3. ASSUME NEW b \in Admin PROVE FormAgrees(b, f)' /\ AnswerAgrees(b, f)'
      <3>1. CASE f \in q.choice
        <4>1. ~ ShowsCopy(b, f)
          BY ZenonT(60), <1>2, <1>7, <3>1
        <4> QED
          BY <1>2, <4>1 DEF ShowsCopy, FormAgrees, AnswerAgrees
      <3>2. CASE f \notin q.choice
        <4>1. Agreed(f) /\ chosen'[f] = chosen[f]
          BY <1>2, <1>7, <3>2 DEF SettingsInv
        <4> QED
          BY <1>2, <4>1 DEF Agreed, FormAgrees, AnswerAgrees
      <3> QED
        BY <3>1, <3>2
    <2>4. CarryAgrees(saving[a], f)'
      <3>1. CASE saving'[a] = NoSave
        BY <3>1 DEF CarryAgrees, NoSave
      <3>2. CASE saving'[a] = back
        BY <1>4, <2>2, <3>2 DEF CarryAgrees
      <3> QED
        BY <1>2, <3>1, <3>2
    <2>5. ASSUME NEW b \in Admin \ {a} PROVE CarryAgrees(saving[b], f)'
      <3>1. CASE f \in q.choice
        <4>1. ~ SendsCopy(b, f)
          BY ZenonT(60), <1>2, <1>7, <3>1
        <4> QED
          BY <1>2, <4>1 DEF SendsCopy, CarryAgrees
      <3>2. CASE f \notin q.choice
        <4>1. Agreed(f) /\ chosen'[f] = chosen[f]
          BY <1>2, <1>7, <3>2 DEF SettingsInv
        <4> QED
          BY <1>2, <4>1 DEF Agreed, CarryAgrees, Faithful
      <3> QED
        BY <3>1, <3>2
    <2>6. RowAgrees(f)'
      BY <2>1 DEF RowAgrees, Faithful
    <2> QED
      BY <2>3, <2>4, <2>5, <2>6 DEF Agreed
  <1> QED
    BY <1>5, <1>6, <1>7 DEF SettingsInv

LEMMA SettingsInductive ==
    ASSUME SettingsConstants, SettingsInv, [SettingsNext]_settingsVars PROVE SettingsInv'
  <1>1. CASE SettingsNext
    BY <1>1, ReadSettingsStep, ShowSettingsStep, ChangeFieldStep, SubmitStep, PatchStep, PatchExtrasStep,
       CompleteTourStep, ReadRowStep, WriteRowStep, ShowSavedStep, SaveFailsStep
       DEF SettingsNext
  <1>2. CASE UNCHANGED settingsVars
    BY <1>2 DEF settingsVars, SettingsInv, SettingsShape, Forms, SavingInv, Carries, Answers, Agreed,
                RowAgrees, FormAgrees, AnswerAgrees, CarryAgrees, Faithful
  <1> QED
    BY <1>1, <1>2

\* What somebody last decided for a field stands, however many pages and requests
\* there are and however long their answers travel, unless an older copy was held or
\* on its way when it was written: a form sends as decided only what was changed in
\* it, and a merge of the rules keeps what it read.
THEOREM DecisionsStand == ASSUME SettingsConstants PROVE SettingsSpec => []EditsSurvive
  <1>1. SettingsInit => SettingsInv
    BY SettingsInitInv
  <1>2. SettingsInv /\ [SettingsNext]_settingsVars => SettingsInv'
    BY SettingsInductive
  <1>3. SettingsInv => EditsSurvive
    BY DEF SettingsInv, Agreed, RowAgrees, Faithful, EditsSurvive
  <1> QED
    BY <1>1, <1>2, <1>3, PTL DEF SettingsSpec
=============================================================================
