------------------------------- MODULE Setup -------------------------------
(* The first start: setupState, whose count of States is outside of its       *)
(* transaction, and the rotation of the CLI tokens it hands out, which mints  *)
(* and revokes in two statements.                                             *)
EXTENDS Naturals, Sequences, FiniteSets

CONSTANTS
    Request, Handle, Slug,
    MaxTokens  \* bound

SetupConstants == MaxTokens \in Nat \ {0} /\ Handle # {} /\ Slug # {}

VARIABLES
    founded,  \* State rows: [slug, owner]
    live,     \* CliToken rows in order of creation: revokedAt = null
    founder,  \* locals of the requests
    extra     \* requests that finished after they were overtaken, or died half-way

setupVars == <<founded, live, founder, extra>>

NoAttempt == [pc |-> "idle"]
SetupInit == founded = {} /\ live = <<>> /\ founder = [r \in Request |-> NoAttempt] /\ extra = 0

AttemptTo(r, pc) == founder' = [founder EXCEPT ![r].pc = pc]
EndAttempt(r) == founder' = [founder EXCEPT ![r] = NoAttempt]

\* The other requests in one of the steps Pcs are overtaken by r.
Overtaken(r, Others(_)) ==
    [o \in Request |-> IF o = r THEN NoAttempt
                       ELSE IF Others(founder[o]) THEN [founder[o] EXCEPT !.late = TRUE] ELSE founder[o]]
Late(r) == extra' = IF founder[r].late THEN extra + 1 ELSE extra

-----------------------------------------------------------------------------
\* Faulty variant: the caller is trusted to have asked GET /api/setup.
NoCount == TRUE
NotInitialised == founded = {}

\* state.count(), then the transaction begins.
SetupStart(r, h, s) ==
    /\ founder[r] = NoAttempt /\ NotInitialised /\ Len(live) < MaxTokens
    /\ founder' = [founder EXCEPT ![r] = [pc |-> "user", handle |-> h, slug |-> s, late |-> FALSE]]
    /\ UNCHANGED <<founded, live, extra>>

\* An insert waits for the transaction that holds the same unique key and fails
\* once that has committed.
Insert(r, held, taken, pc) ==
    /\ ~ \E o \in Request \ {r} : held[o]
    /\ IF taken THEN EndAttempt(r) ELSE AttemptTo(r, pc)
    /\ UNCHANGED <<founded, live, extra>>

CreateUser(r) ==
    /\ founder[r].pc = "user"
    /\ Insert(r, [o \in Request |-> founder[o].pc \in {"state", "seed"} /\ founder[o].handle = founder[r].handle],
              \E row \in founded : row.owner = founder[r].handle, "state")

CreateState(r) ==
    /\ founder[r].pc = "state"
    /\ Insert(r, [o \in Request |-> founder[o].pc = "seed" /\ founder[o].slug = founder[r].slug],
              \E row \in founded : row.slug = founder[r].slug, "seed")

\* The nodes, the seat, the currency, the wallet, the settings and the invitation
\* are keyed by the new State; with them comes the bootstrap token.
CommitSetup(r) ==
    /\ founder[r].pc = "seed" /\ Late(r)
    /\ founded' = founded \cup {[slug |-> founder[r].slug, owner |-> founder[r].handle]}
    /\ live' = Append(live, TRUE)
    /\ founder' = Overtaken(r, LAMBDA q : q.pc \in {"user", "state", "seed"})

-----------------------------------------------------------------------------
\* authenticateCli: the bearer is found by its hash, alive.
Authenticate(r, t) ==
    /\ founder[r] = NoAttempt /\ t \in DOMAIN live /\ live[t]
    /\ founder' = [founder EXCEPT ![r] = [pc |-> "find", token |-> t, late |-> FALSE]]
    /\ UNCHANGED <<founded, live, extra>>

\* Faulty variant: what authenticateCli saw is taken for current.
AssumedLive(t) == TRUE
StillLive(t) == live[t]

\* rotate reads the row again: a token that is revoked by now is refused.
RotateFind(r) ==
    /\ founder[r].pc = "find"
    /\ IF StillLive(founder[r].token) THEN AttemptTo(r, "mint") ELSE EndAttempt(r)
    /\ UNCHANGED <<founded, live, extra>>

Mint(r) ==
    /\ founder[r].pc = "mint" /\ Len(live) < MaxTokens
    /\ live' = Append(live, TRUE) /\ AttemptTo(r, "revoke") /\ UNCHANGED <<founded, extra>>

Revoke(r) ==
    LET t == founder[r].token IN
    /\ founder[r].pc = "revoke" /\ Late(r) /\ live' = [live EXCEPT ![t] = FALSE]
    /\ founder' = Overtaken(r, LAMBDA q : q.pc \in {"mint", "revoke"} /\ q.token = t)
    /\ UNCHANGED founded

\* The process dies or a statement fails: a transaction is rolled back, a minted
\* token stays beside the old one.
AttemptDies(r) ==
    /\ founder[r] # NoAttempt /\ EndAttempt(r)
    /\ extra' = IF founder[r].pc = "revoke" THEN extra + 1 ELSE extra
    /\ UNCHANGED <<founded, live>>

SetupNext == \E r \in Request :
    \/ \E h \in Handle, s \in Slug : SetupStart(r, h, s)
    \/ CreateUser(r) \/ CreateState(r) \/ CommitSetup(r)
    \/ \E t \in 1..MaxTokens : Authenticate(r, t)
    \/ RotateFind(r) \/ Mint(r) \/ Revoke(r) \/ AttemptDies(r)

SetupSpec == SetupInit /\ [][SetupNext]_setupVars

-----------------------------------------------------------------------------
Minted == {r \in Request : founder[r].pc = "revoke"}

\* setup-state.ts: "exactly once per instance", and rotate replaces. An instance
\* has one live token, the bootstrap token or the one that replaced it. Each
\* further one, and each further State with its own, goes back to a setup that
\* counted before another's commit, to a rotation that read its token before
\* another revoked it, or to a death between mint and revoke.
OneLiveToken ==
    /\ Cardinality({t \in DOMAIN live : live[t]}) <= 1 + extra + Cardinality(Minted)
    /\ founded = {} <=> live = <<>>
    /\ \A a, b \in founded : a # b => a.slug # b.slug /\ a.owner # b.owner
=============================================================================
