-------------------------------- MODULE Chat --------------------------------
(* Chat: ChatService (messages, directives, acknowledgements), the event bus  *)
(* over Redis that carries its events between processes, the stream each      *)
(* citizen holds open, and useChat, which merges what it loads with what it   *)
(* is told.                                                                   *)
EXTENDS Integers, Sequences, FiniteSets, SequencesExt

CONSTANTS
    Node, AtOrAbove,     \* nodes; AtOrAbove[n]: n and its ancestors
    Channel, Bound,      \* channels; the node a channel is bound to, or None
    User, Owner, Seat,   \* citizens, the sovereign, the first seat of each
    Process, Home, Here, \* server processes; where a stream ends; where requests run
    Message, None,
    MaxMoves, MaxLoads, MaxFaults  \* bounds

ChatConstants ==
    /\ Owner \in User /\ Seat \in [User -> Node \cup {None}]
    /\ Bound \in [Channel -> Node \cup {None}]
    /\ \A n \in Node : n \in AtOrAbove[n]
    /\ \A n, k \in Node : n \in AtOrAbove[k] /\ k \in AtOrAbove[n] => n = k \* a tree
    /\ Here \in Process /\ Home \in [User -> Process]

VARIABLES
    seat,      \* membership of each citizen
    post,      \* the request that posts each message, its row and its event
    acked,     \* acks with ackedAt
    echo,      \* Redis deliveries under way, <<message, process>>
    stream,    \* citizens whose stream is open
    shown,     \* messages a client shows for a channel; None before the first
    page,      \* the answer to a client's load on its way back
    ever,      \* history: nodes a citizen has sat in
    stayed,    \* history: who kept their seat since a post began
    moves, loads, faults

chatVars == <<seat, post, acked, echo, stream, shown, page, ever, stayed, moves, loads, faults>>
server == <<seat, post, acked, ever, stayed, moves>>
client == <<stream, shown, page, loads>>

NoPost == [pc |-> "none"]
Posted == {m \in Message : post[m].pc # "none"}

ChatInit ==
    /\ seat = Seat /\ post = [m \in Message |-> NoPost] /\ acked = [m \in Message |-> {}]
    /\ echo = {} /\ stream = User
    /\ shown = [u \in User |-> [c \in Channel |-> None]]
    /\ page = [u \in User |-> [c \in Channel |-> None]]
    /\ ever = [u \in User |-> {Seat[u]}] /\ stayed = [m \in Message |-> {}]
    /\ moves = 0 /\ loads = 0 /\ faults = 0

-----------------------------------------------------------------------------
(* Access, as classifyAccess and canPostDirective decide it; every citizen    *)
(* here holds chat.read and chat.write, only the sovereign chat.admin.        *)
Above(c) == IF Bound[c] = None THEN {} ELSE AtOrAbove[Bound[c]]
Below(n) == {k \in Node : n \in AtOrAbove[k]}
CanRead(u, c) == u = Owner \/ Bound[c] = None \/ seat[u] \in Above(c)
CanPostDirective(u, c) == u = Owner \/ seat[u] \in Above(c) \ {Bound[c]}

\* Faulty variant: everybody below the node as well.
TreeRecipients(c) == {Owner} \cup {u \in User : seat[u] \in Above(c) \cup Below(Bound[c])}
\* collectRecipients: the owner alone when the channel is not bound.
Recipients(c) == {Owner} \cup {u \in User : seat[u] \in Above(c)}

\* Faulty variant: the descendants of the channel's node, without the node.
StrictSubordinates(c, author, snapshot, recipients) ==
    {u \in recipients \ {author} : Bound[c] = None \/ snapshot[u] \in Below(Bound[c]) \ {Bound[c]}}
\* pickSubordinateRecipients, by the memberships the request was authorised on.
Subordinates(c, author, snapshot, recipients) ==
    {u \in recipients \ {author} : Bound[c] = None \/ snapshot[u] \in Below(Bound[c])}

-----------------------------------------------------------------------------
(* writeMessage, one action per await *)
Post(m, u, c, directive) ==
    /\ post[m].pc = "none" /\ CanRead(u, c) /\ (directive => CanPostDirective(u, c))
    /\ post' = [post EXCEPT ![m] =
         [pc |-> "inserted", author |-> u, ch |-> c, directive |-> directive,
          snapshot |-> seat, to |-> {}, acks |-> {}]]
    /\ stayed' = [stayed EXCEPT ![m] = User]
    /\ UNCHANGED <<seat, acked, ever, moves, echo, client, faults>>

CollectRecipients(m) ==
    /\ post[m].pc = "inserted"
    /\ post' = [post EXCEPT ![m].pc = IF post[m].directive THEN "acks" ELSE "emit",
                            ![m].to = Recipients(post[m].ch)]
    /\ UNCHANGED <<seat, acked, ever, stayed, moves, echo, client, faults>>

InsertDirectiveAcks(m) ==
    LET p == post[m] IN
    /\ p.pc = "acks"
    /\ post' = [post EXCEPT ![m].pc = "emit",
                            ![m].acks = Subordinates(p.ch, p.author, p.snapshot, p.to)]
    /\ UNCHANGED <<seat, acked, ever, stayed, moves, echo, client, faults>>

\* RedisEventBus.emit: publish reaches the subscriber connection of every
\* process, the publisher's own included; then the local handlers run.
Publish(m) ==
    /\ post[m].pc = "emit"
    /\ echo' = echo \cup {<<m, p>> : p \in Process}
    /\ post' = [post EXCEPT ![m].pc = "local"]
    /\ UNCHANGED <<seat, acked, ever, stayed, moves, client, faults>>

\* publish rejects: the error is swallowed and the local handlers do not run.
PublishFails(m) ==
    /\ post[m].pc = "emit" /\ faults < MaxFaults /\ faults' = faults + 1
    /\ post' = [post EXCEPT ![m].pc = "done"]
    /\ UNCHANGED <<seat, acked, ever, stayed, moves, echo, client>>

\* Faulty variant: the event is appended as it comes.
AppendAlways(list, m) == IF list = None THEN <<m>> ELSE Append(list, m)
\* applyMessageEvent: appended unless its id is there.
Merge(list, m) ==
    IF list = None THEN <<m>> ELSE IF m \in ToSet(list) THEN list ELSE Append(list, m)

\* The streams of a process send the event to whoever it is addressed to.
Deliver(m, p) ==
    LET c == post[m].ch
        reached == {u \in stream : Home[u] = p /\ (u = Owner \/ u \in post[m].to)}
    IN shown' = [u \in User |-> IF u \in reached THEN [shown[u] EXCEPT ![c] = Merge(@, m)]
                                ELSE shown[u]]

LocalDelivery(m) ==
    /\ post[m].pc = "local" /\ Deliver(m, Here)
    /\ post' = [post EXCEPT ![m].pc = "done"]
    /\ UNCHANGED <<seat, acked, ever, stayed, moves, echo, stream, page, loads, faults>>

EchoDelivery(m, p) ==
    /\ <<m, p>> \in echo /\ echo' = echo \ {<<m, p>>} /\ Deliver(m, p)
    /\ UNCHANGED <<server, stream, page, loads, faults>>

\* markDirectiveAcked: a row for the citizen must exist; later seats do not matter.
AcknowledgeDirective(m, u) ==
    /\ m \in Posted /\ u \in post[m].acks \ acked[m]
    /\ acked' = [acked EXCEPT ![m] = @ \cup {u}]
    /\ UNCHANGED <<seat, post, ever, stayed, moves, echo, client, faults>>

-----------------------------------------------------------------------------
(* The citizens: seats, streams and useChat *)
Move(u, n) ==
    /\ moves < MaxMoves /\ moves' = moves + 1 /\ seat[u] # n
    /\ seat' = [seat EXCEPT ![u] = n] /\ ever' = [ever EXCEPT ![u] = @ \cup {n}]
    /\ stayed' = [m \in Message |-> stayed[m] \ {u}]
    /\ UNCHANGED <<post, acked, echo, client, faults>>

\* The connection drops; EventSource opens another, without asking for what it missed.
Disconnect(u) ==
    /\ u \in stream /\ faults < MaxFaults /\ faults' = faults + 1
    /\ stream' = stream \ {u} /\ UNCHANGED <<server, echo, shown, page, loads>>
Reconnect(u) ==
    /\ u \notin stream /\ stream' = stream \cup {u}
    /\ UNCHANGED <<server, echo, shown, page, loads, faults>>

\* A channel is selected that shows nothing yet: listMessages answers.
LoadMessages(u, c) ==
    /\ shown[u][c] = None /\ page[u][c] = None /\ loads < MaxLoads /\ loads' = loads + 1
    /\ CanRead(u, c)
    /\ \E list \in SetToSeqs({m \in Posted : post[m].ch = c}) :
         page' = [page EXCEPT ![u][c] = list]
    /\ UNCHANGED <<server, echo, stream, shown, faults>>

\* The answer replaces what the stream has appended meanwhile.
ShowPage(u, c) ==
    /\ page[u][c] # None
    /\ shown' = [shown EXCEPT ![u][c] = page[u][c]] /\ page' = [page EXCEPT ![u][c] = None]
    /\ UNCHANGED <<server, echo, stream, loads, faults>>

Carry(m) ==
    \/ CollectRecipients(m) \/ InsertDirectiveAcks(m) \/ Publish(m) \/ LocalDelivery(m)
    \/ \E p \in Process : EchoDelivery(m, p)

ChatNext ==
    \/ \E m \in Message : \/ Carry(m) \/ PublishFails(m)
                          \/ \E u \in User, c \in Channel, d \in BOOLEAN : Post(m, u, c, d)
                          \/ \E u \in User : AcknowledgeDirective(m, u)
    \/ \E u \in User : \/ \E n \in Node \cup {None} : Move(u, n)
                       \/ Disconnect(u) \/ Reconnect(u)
                       \/ \E c \in Channel : LoadMessages(u, c) \/ ShowPage(u, c)

ChatSpec == ChatInit /\ [][ChatNext]_chatVars

-----------------------------------------------------------------------------
ChatTypeOK ==
    /\ seat \in [User -> Node \cup {None}] /\ acked \in [Message -> SUBSET User]
    /\ echo \subseteq Message \X Process /\ stream \subseteq User
    /\ \A m \in Posted : post[m].acks \subseteq post[m].to /\ post[m].author \in User

\* A client shows a message once, although the bus hands its event to the
\* publisher's process twice and a load may bring it as well.
ShownOnce ==
    \A u \in User, c \in Channel : shown[u][c] # None => IsInjective(shown[u][c])

\* What a client shows, its citizen was entitled to at some time: the sovereign,
\* a public channel, or a seat at or above the channel's node, at the time of
\* the load or of the recipients, however seats moved around.
OnlyReadersSee ==
    \A u \in User, c \in Channel :
        shown[u][c] \notin {None, <<>>} =>
            u = Owner \/ Bound[c] = None \/ ever[u] \cap Above(c) # {}

\* When a directive's event goes out, of those who have kept their seat since the
\* request began (its author and the sovereign aside) exactly the members of the
\* channel's own node owe an acknowledgement, and nobody does in a public channel:
\* recipients sit at or above the node, subordinates at or below it. Members of its
\* descendants, and those between its author and the node, owe none, though the
\* comments of pickSubordinateRecipients and of the schema include them.
OnlyTheNodeIsObliged ==
    \A m \in Posted : post[m].directive /\ post[m].pc \in {"emit", "local", "done"} =>
        \A u \in stayed[m] \ {post[m].author, Owner} :
            u \in post[m].acks <=> Bound[post[m].ch] # None /\ seat[u] = Bound[post[m].ch]
=============================================================================
