------------------------------- MODULE Digest -------------------------------
(* The e-mail digest: one run of runEmailDigestJob claims a row for a citizen *)
(* and period, sends, and takes the row back when the mail server refuses.    *)
EXTENDS Naturals, FiniteSets

CONSTANTS
    Reader, Nobody,
    Job,                \* runs that may overlap: a stalled job is delivered again
    MaxDays, MaxFailures  \* bounds

DigestConstants == MaxDays \in Nat \ {0}

VARIABLES
    today,    \* digestPeriodKey of now
    row,      \* EmailDigestSend: <<user, period>> pairs, unique
    run,      \* locals of the runs
    mails,    \* mails delivered for <<user, period>>
    doubtful, \* of them, deliveries the server's answer of which was lost
    stranded, \* rows whose run ended without sending or taking them back
    failures

digestVars == <<today, row, run, mails, doubtful, stranded, failures>>
ghosts == <<mails, doubtful, stranded>>

Period == 1..MaxDays
NoRun == [pc |-> "idle", key |-> 0, todo |-> {}, user |-> Nobody]
Holds(r) == run[r].pc \in {"send", "release"}

DigestInit ==
    /\ today = 1 /\ row = {} /\ run = [r \in Job |-> NoRun]
    /\ mails = [u \in Reader |-> [d \in Period |-> 0]] /\ doubtful = mails
    /\ stranded = {} /\ failures = 0

-----------------------------------------------------------------------------
NextDay ==
    /\ today < MaxDays /\ today' = today + 1
    /\ UNCHANGED <<row, run, ghosts, failures>>

\* Whoever has an address and wants digests now; the period is the one the run
\* begins in, not the one it was queued in.
Begin(r, wanting) ==
    /\ run[r].pc = "idle"
    /\ run' = [run EXCEPT ![r] = [NoRun EXCEPT !.pc = "next", !.key = today, !.todo = wanting]]
    /\ UNCHANGED <<today, row, ghosts, failures>>

\* findUnique, then the citizen's aggregates; the list has no order.
Look(r, u) ==
    LET q == [run[r] EXCEPT !.todo = @ \ {u}] IN
    /\ run[r].pc = "next" /\ u \in run[r].todo
    /\ run' = [run EXCEPT ![r] = IF <<u, q.key>> \in row THEN q
                                 ELSE [q EXCEPT !.pc = "claim", !.user = u]]
    /\ UNCHANGED <<today, row, ghosts, failures>>

\* Faulty variant: upsert, another run's row is taken over.
TakesAny(u, key) == TRUE
Takes(u, key) == <<u, key>> \notin row

\* create: a unique violation skips the citizen.
Claim(r) ==
    LET q == run[r] IN
    /\ q.pc = "claim"
    /\ IF Takes(q.user, q.key)
       THEN /\ row' = row \cup {<<q.user, q.key>>} /\ run' = [run EXCEPT ![r].pc = "send"]
       ELSE run' = [run EXCEPT ![r].pc = "next"] /\ UNCHANGED row
    /\ UNCHANGED <<today, ghosts, failures>>

Send(r) ==
    LET q == run[r] IN
    /\ q.pc = "send"
    /\ run' = [run EXCEPT ![r].pc = "next"] /\ mails' = [mails EXCEPT ![q.user][q.key] = @ + 1]
    /\ UNCHANGED <<today, row, doubtful, stranded, failures>>

\* sendMail throws, the mail delivered or not.
SendFails(r) ==
    LET q == run[r] IN
    /\ q.pc = "send" /\ failures < MaxFailures /\ failures' = failures + 1
    /\ \E d \in {0, 1} : /\ mails' = [mails EXCEPT ![q.user][q.key] = @ + d]
                         /\ doubtful' = [doubtful EXCEPT ![q.user][q.key] = @ + d]
    /\ run' = [run EXCEPT ![r].pc = "release"]
    /\ UNCHANGED <<today, row, stranded>>

\* Faulty variant: the error is rethrown and the row stays.
KeepRow(r) ==
    /\ run[r].pc = "release" /\ run' = [run EXCEPT ![r] = NoRun]
    /\ UNCHANGED <<today, row, ghosts, failures>>
\* The row goes and the error ends the run: whoever is left in todo gets nothing.
Release(r) ==
    /\ run[r].pc = "release" /\ run' = [run EXCEPT ![r] = NoRun]
    /\ row' = row \ {<<run[r].user, run[r].key>>}
    /\ UNCHANGED <<today, ghosts, failures>>

Finish(r) ==
    /\ run[r].pc = "next" /\ run[r].todo = {} /\ run' = [run EXCEPT ![r] = NoRun]
    /\ UNCHANGED <<today, row, ghosts, failures>>

\* A query fails or the worker dies; Begin delivers the job again.
Die(r) ==
    /\ run[r].pc # "idle" /\ failures < MaxFailures /\ failures' = failures + 1
    /\ stranded' = IF Holds(r) THEN stranded \cup {<<run[r].user, run[r].key>>} ELSE stranded
    /\ run' = [run EXCEPT ![r] = NoRun] /\ UNCHANGED <<today, row, mails, doubtful>>

DigestNext ==
    \/ NextDay
    \/ \E r \in Job : \/ Claim(r) \/ Send(r) \/ SendFails(r) \/ Release(r)
                      \/ Finish(r) \/ Die(r)
                      \/ \E u \in Reader : Look(r, u)
                      \/ \E wanting \in SUBSET Reader : Begin(r, wanting)

DigestSpec == DigestInit /\ [][DigestNext]_digestVars

-----------------------------------------------------------------------------
\* However runs overlap, are delivered again or die, a citizen has at most one
\* digest of a period beyond those the mail server took without saying so.
OneMailPerPeriod == \A u \in Reader, d \in Period : mails[u][d] <= 1 + doubtful[u][d]

\* A row means a mail, unless its run still works on it or died holding it: a
\* refused mail leaves nothing behind that would make a later run skip the citizen.
RowMeansMail ==
    \A c \in row : \/ mails[c[1]][c[2]] > 0
                   \/ c \in stranded
                   \/ \E r \in Job : Holds(r) /\ <<run[r].user, run[r].key>> = c
=============================================================================
