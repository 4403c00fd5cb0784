---------------------------- MODULE TelegramLink ----------------------------
(* The linking of a Telegram account: a citizen asks for a one-time link, the *)
(* bot's webhook consumes it in four statements without a transaction. Other  *)
(* kinds of credential have no provider that writes rows.                     *)
EXTENDS Naturals, FiniteSets

CONSTANTS
    Asker, Account, \* citizens; Telegram user ids
    Link,           \* bound: links that can be asked for
    Update,         \* webhook requests in flight at a time
    NoRow,          \* no link, no credential
    MaxDeaths       \* bound

LinkRow == [user : Asker, expired : BOOLEAN, consumed : BOOLEAN]
TelegramConstants == NoRow \notin LinkRow /\ MaxDeaths \in Nat

VARIABLES
    link,    \* TelegramLinkToken rows
    cred,    \* AuthCredential rows of kind telegram: [user], and the link it came by
    update,  \* locals of consumeLinkAndAttachCredential
    beyond,  \* ghost: by link, the requests that were overtaken or died after their insert
    losses

linkVars == <<link, cred, update, beyond, losses>>

NoUpdate == [pc |-> "idle"]
LinkInit ==
    /\ link = [l \in Link |-> NoRow] /\ cred = [a \in Account |-> NoRow]
    /\ update = [w \in Update |-> NoUpdate] /\ beyond = [l \in Link |-> 0] /\ losses = 0

UpdateTo(w, pc) == update' = [update EXCEPT ![w].pc = pc]
EndUpdate(w) == update' = [update EXCEPT ![w] = NoUpdate]

-----------------------------------------------------------------------------
\* POST /api/telegram/link/start: a citizen may hold any number of links.
BeginEnrollment(l, u) ==
    /\ link[l] = NoRow
    /\ link' = [link EXCEPT ![l] = [user |-> u, expired |-> FALSE, consumed |-> FALSE]]
    /\ UNCHANGED <<cred, update, beyond, losses>>

\* Fifteen minutes pass.
Expire(l) ==
    /\ link[l] # NoRow /\ ~link[l].expired
    /\ link' = [link EXCEPT ![l].expired = TRUE]
    /\ UNCHANGED <<cred, update, beyond, losses>>

\* Faulty variant: only the time limit is looked at.
Unexpired(l) == ~link[l].expired
Usable(l) == ~link[l].consumed /\ ~link[l].expired

\* The update /start link_..., from whoever holds the link; Telegram delivers it
\* again until it is answered. A link that is not usable is refused.
FindLink(w, l, a) ==
    /\ update[w] = NoUpdate /\ link[l] # NoRow /\ Usable(l)
    /\ update' = [update EXCEPT ![w] = [pc |-> "account", link |-> l, account |-> a, late |-> FALSE]]
    /\ UNCHANGED <<link, cred, beyond, losses>>

\* findByIdentifier: an account of another citizen is refused, an own one kept.
FindAccount(w) ==
    LET held == cred[update[w].account] IN
    /\ update[w].pc = "account"
    /\ IF held = NoRow THEN UpdateTo(w, "insert")
       ELSE IF held.user = link[update[w].link].user THEN UpdateTo(w, "consume") ELSE EndUpdate(w)
    /\ UNCHANGED <<link, cred, beyond, losses>>

\* The unique key (kind, identifier) refuses an account attached since the look,
\* even one attached to the same citizen: telegram_already_linked.
InsertCredential(w) ==
    LET a == update[w].account l == update[w].link IN
    /\ update[w].pc = "insert"
    /\ IF cred[a] # NoRow THEN EndUpdate(w) /\ UNCHANGED cred
       ELSE UpdateTo(w, "consume") /\ cred' = [cred EXCEPT ![a] = [user |-> link[l].user, by |-> l]]
    /\ UNCHANGED <<link, beyond, losses>>

\* consumedAt, by id alone; whoever has read the link unconsumed is late from now.
Consume(w) ==
    LET l == update[w].link
        overtaken(v) == update[v] # NoUpdate /\ update[v].link = l
    IN
    /\ update[w].pc = "consume"
    /\ link' = [link EXCEPT ![l].consumed = TRUE]
    /\ update' = [v \in Update |-> IF v = w THEN NoUpdate
                                   ELSE IF overtaken(v) THEN [update[v] EXCEPT !.late = TRUE]
                                   ELSE update[v]]
    /\ beyond' = IF update[w].late THEN [beyond EXCEPT ![l] = @ + 1] ELSE beyond
    /\ UNCHANGED <<cred, losses>>

\* The process dies or the database fails: the credential stays, the link too.
UpdateDies(w) ==
    /\ update[w] # NoUpdate /\ losses < MaxDeaths /\ losses' = losses + 1 /\ EndUpdate(w)
    /\ beyond' = IF update[w].pc = "consume" THEN [beyond EXCEPT ![update[w].link] = @ + 1] ELSE beyond
    /\ UNCHANGED <<link, cred>>

LinkNext ==
    \/ \E l \in Link : (\E u \in Asker : BeginEnrollment(l, u)) \/ Expire(l)
    \/ \E w \in Update :
         \/ \E l \in Link, a \in Account : FindLink(w, l, a)
         \/ FindAccount(w) \/ InsertCredential(w) \/ Consume(w) \/ UpdateDies(w)

LinkSpec == LinkInit /\ [][LinkNext]_linkVars

-----------------------------------------------------------------------------
Attached(l) == {a \in Account : cred[a] # NoRow /\ cred[a].by = l}
Pending(l) == {w \in Update : update[w].pc = "consume" /\ update[w].link = l}

\* A one-time link attaches one account to the citizen who asked for it. Each
\* further account goes back to an update that read the link before another
\* consumed it, or to a death between the credential and the consumption; and
\* what a link attaches belongs to its citizen.
OneAccountPerLink ==
    \A l \in Link :
        /\ Cardinality(Attached(l)) <= 1 + beyond[l] + Cardinality(Pending(l))
        /\ \A a \in Attached(l) : cred[a].user = link[l].user
=============================================================================
