----------------------------- MODULE Governance -----------------------------
(***************************************************************************)
(* The Parliament (core.governance): a proposal is published, voted on,    *)
(* closed after its deadline and then executed, vetoed or left.  Every     *)
(* operation of GovernanceService finds the proposal, checks its status    *)
(* and later updates the row by id alone, so requests and the cron job     *)
(* interleave between the two.  The inserts of a vote and of a fine are    *)
(* SQL transactions of one step each (the fine's ledger leg: Ledger).      *)
(***************************************************************************)
EXTENDS Integers, FiniteSets, Functions

CONSTANTS
    Proposal,
    Kind,       \* "setting" or "fine" (targetConfigKey = walletFine)
    Voter,
    Owner,      \* the Sovereign
    Admin,      \* holders of governance.admin
    Handler,    \* requests and job executions in flight
    Cron,       \* the handler of the proposal-expirer job, None without one
    RuleBook,   \* governance rules the Sovereign may enact
    Opening,    \* the rules at the start
    Edits,      \* bound on the changes of rules and memberships
    Faults,     \* bound on the handlers that die or fail
    Frail,      \* the stages at which they may
    System,     \* the executor "system:auto_dao"
    None

Choice == {"for", "against", "abstain"}
Counter == Choice \cup {"votes"}
Strategy == {"one_person_one_vote", "by_node_weight"}

BasisPoints == 0 .. 10000

\* GovernanceRules: `weights` is the best of nodeWeights over a user's nodes.
Rules == [mode : {"decree", "consultation", "auto_dao"}, veto : BOOLEAN,
          quorum : BasisPoints, threshold : BasisPoints, strategy : Strategy,
          weights : [Voter -> Nat \ {0}], allowed : SUBSET {"setting", "fine"}]

ASSUME GovernanceConstants ==
    /\ Kind \in [Proposal -> {"setting", "fine"}]
    /\ Owner \in Admin /\ Admin \subseteq Voter /\ IsFiniteSet(Voter)
    /\ RuleBook \subseteq Rules /\ Opening \in RuleBook
    /\ {Edits, Faults} \subseteq Nat
    /\ System \notin Voter /\ None \notin Voter \cup {System} \cup Proposal
    /\ None \notin [choice : Choice, weight : Nat]

VARIABLES
    rules,      \* stateSettings.governanceRules
    member,     \* users with an active membership
    status,     \* the status column of each proposal
    published,  \* the rules snapshot in its row
    author,
    due,        \* proposals past expiresAt
    total,      \* the three weight columns and voteCount
    ballot,     \* the Vote rows, by the unique (proposalId, userId)
    applied,    \* how often the proposal's change took effect
    fineRow,    \* proposals with a WalletFine row (unique proposalId)
    mandate,    \* history: the totals on which a proposal was declared passed
    handler,    \* each handler's locals
    budget      \* edits and faults left

row == <<status, published, author, total>>
vars == <<rules, member, row, due, ballot, applied, fineRow, mandate, handler, budget>>

Status == {"none", "active", "passed", "rejected", "executed", "vetoed", "cancelled", "expired"}
Totals == [Counter -> Nat]
Zero == [c \in Counter |-> 0]
Vote == [choice : Choice, weight : Nat]
Stage == {"idle", "weigh", "insert", "tally", "close", "apply", "mark", "reject", "veto", "cancel"}
Locals == [stage : Stage, p : Proposal \cup {None}, by : Voter \cup {System, None},
           choice : Choice, weight : Nat, seen : Totals, verdict : Status]

Idle == [stage |-> "idle", p |-> None, by |-> None, choice |-> "for", weight |-> 0,
         seen |-> Zero, verdict |-> "none"]

-----------------------------------------------------------------------------
(* Weights and tallies. *)

\* computeVoteWeight; the Sovereign has a vote even without a membership.
VoteWeight(strategy, u) ==
    IF u \in member /\ strategy = "by_node_weight" THEN rules.weights[u]
    ELSE IF u \in member \cup {Owner} THEN 1 ELSE 0

\* electorateSize under some rules' node weights.
Electorate(strategy, weights) ==
    IF strategy = "by_node_weight" THEN FoldFunctionOnSet(+, 0, weights, member)
                                   ELSE Cardinality(member)

QuorumReached(t, r, electorate) ==
    electorate > 0 /\ (t["for"] + t["against"] + t["abstain"]) * 10000 >= electorate * r.quorum

ThresholdReached(t, r) ==
    t["for"] + t["against"] > 0 /\ t["for"] * 10000 >= r.threshold * (t["for"] + t["against"])

\* closeAndMaybeExecute: the next status, given what it read of the row.
Verdict(t, r, electorate) ==
    IF t["votes"] = 0 THEN "expired"
    ELSE IF QuorumReached(t, r, electorate) /\ ThresholdReached(t, r) THEN "passed"
    ELSE "rejected"

-----------------------------------------------------------------------------
Init ==
    /\ rules = Opening
    /\ member \in SUBSET Voter
    /\ status = [p \in Proposal |-> "none"]
    /\ published = [p \in Proposal |-> Opening]
    /\ author = [p \in Proposal |-> Owner]
    /\ due = {}
    /\ total = [p \in Proposal |-> Zero]
    /\ ballot = [p \in Proposal |-> [u \in Voter |-> None]]
    /\ applied = [p \in Proposal |-> 0]
    /\ fineRow = {}
    /\ mandate = [p \in Proposal |-> {}]
    /\ handler = [h \in Handler |-> Idle]
    /\ budget = [edits |-> Edits, faults |-> Faults]

At(h, stage) == handler[h].stage = stage
Free(h) == At(h, "idle") /\ h # Cron
Goto(h, stage) == handler' = [handler EXCEPT ![h].stage = stage]
End(h) == handler' = [handler EXCEPT ![h] = Idle]

\* The handler has found proposal p and goes on to `stage` on behalf of `by`.
Take(h, stage, p, by) ==
    handler' = [handler EXCEPT ![h] = [Idle EXCEPT !.stage = stage, !.p = p, !.by = by]]

\* updateProposalStatus: an unconditional write by id.
SetStatus(p, s) == status' = [status EXCEPT ![p] = s] /\ UNCHANGED <<published, author, total>>

-----------------------------------------------------------------------------
(* Operations. *)

\* createProposal: the rules are copied into the row.
CreateProposal(p, u) ==
    /\ status[p] = "none"
    /\ rules.mode = "decree" => u = Owner
    /\ Kind[p] \in rules.allowed
    /\ status' = [status EXCEPT ![p] = "active"]
    /\ published' = [published EXCEPT ![p] = rules]
    /\ author' = [author EXCEPT ![p] = u]
    /\ UNCHANGED <<rules, member, due, total, ballot, applied, fineRow, mandate, handler, budget>>

\* castVote finds an active proposal before its deadline.  (After the deadline
\* it calls closeAndMaybeExecute: StartClose.)
StartVote(h, p, u, choice) ==
    /\ Free(h)
    /\ status[p] = "active" /\ p \notin due
    /\ handler' = [handler EXCEPT ![h] = [Idle EXCEPT !.stage = "weigh", !.p = p, !.by = u,
                                                      !.choice = choice]]
    /\ UNCHANGED <<rules, member, row, due, ballot, applied, fineRow, mandate, budget>>

WeighVote(h) ==
    /\ At(h, "weigh")
    /\ LET w == VoteWeight(published[handler[h].p].strategy, handler[h].by)
       IN  IF w = 0 THEN End(h)
           ELSE handler' = [handler EXCEPT ![h].stage = "insert", ![h].weight = w]
    /\ UNCHANGED <<rules, member, row, due, ballot, applied, fineRow, mandate, budget>>

\* Mutant: no unique (proposalId, userId).
NeverVoted(p, u) == FALSE

HasVoted(p, u) == ballot[p][u] # None

\* insertVote: the Vote row and the totals, one transaction; no look at the status.
InsertVote(h) ==
    /\ At(h, "insert")
    /\ End(h)
    /\ LET v == handler[h]
       IN  IF HasVoted(v.p, v.by)
           THEN UNCHANGED <<ballot, total>>
           ELSE /\ ballot' = [ballot EXCEPT ![v.p][v.by] = [choice |-> v.choice, weight |-> v.weight]]
                /\ total' = [total EXCEPT ![v.p][v.choice] = @ + v.weight, ![v.p]["votes"] = @ + 1]
    /\ UNCHANGED <<rules, member, status, published, author, due, applied, fineRow, mandate, budget>>

\* Mutant: only what passed needs closing.
OnlyEmpty(p) == status[p] = "active" /\ p \in due /\ total[p]["votes"] = 0

IsDue(p) == status[p] = "active" /\ p \in due

\* closeAndMaybeExecute, for the cron job, a vote after the deadline or the UI.
StartClose(h, p) ==
    /\ At(h, "idle") /\ IsDue(p)
    /\ handler' = [handler EXCEPT ![h] = [Idle EXCEPT !.stage = "tally", !.p = p, !.by = System,
                                                      !.seen = total[p]]]
    /\ UNCHANGED <<rules, member, row, due, ballot, applied, fineRow, mandate, budget>>

\* computeTally: rules and electorate are read now.
Tally(h) ==
    /\ At(h, "tally")
    /\ LET c == handler[h]
           r == published[c.p]
       IN  handler' = [handler EXCEPT ![h].stage = "close",
                         ![h].verdict = Verdict(c.seen, r, Electorate(r.strategy, rules.weights))]
    /\ UNCHANGED <<rules, member, row, due, ballot, applied, fineRow, mandate, budget>>

\* Mutant: the mode in force now decides.
LiveMode(p) == rules.mode = "auto_dao"

ExecutesItself(p) == published[p].mode = "auto_dao"

Close(h) ==
    /\ At(h, "close")
    /\ LET c == handler[h]
       IN  /\ SetStatus(c.p, c.verdict)
           /\ mandate' = IF c.verdict = "passed" THEN [mandate EXCEPT ![c.p] = @ \cup {c.seen}]
                                                 ELSE mandate
           /\ IF c.verdict = "passed" /\ ExecutesItself(c.p)
              THEN Goto(h, "apply") ELSE End(h)
    /\ UNCHANGED <<rules, member, due, ballot, applied, fineRow, budget>>

\* Mutant: an open proposal can be executed too.
NotClosed(p) == status[p] \in {"active", "passed"}

Executable(p) == status[p] = "passed"

Execute(h, p, u) ==
    /\ Free(h) /\ u \in Admin
    /\ Executable(p)
    /\ Take(h, "apply", p, u)
    /\ UNCHANGED <<rules, member, row, due, ballot, applied, fineRow, mandate, budget>>

\* stateConfig.update takes the patch, refuses it, or fails.
ApplySetting(h) ==
    /\ At(h, "apply") /\ Kind[handler[h].p] = "setting"
    /\ \/ Goto(h, "mark") /\ applied' = [applied EXCEPT ![handler[h].p] = @ + 1]
       \/ Goto(h, "reject") /\ UNCHANGED applied
    /\ UNCHANGED <<rules, member, row, due, ballot, fineRow, mandate, budget>>

\* Mutant: the WalletFine row is not unique per proposal.
NeverFined(p) == FALSE

HasFine(p) == p \in fineRow

\* applyWalletFine, one transaction.  A second row of a proposal and an executor
\* that is no user (Transaction.initiatedBy) violate a constraint: the error is
\* rethrown and the status stays.  An empty purse rejects, and so does a missing
\* wallet, which is looked for first, even when the fine was taken already.
ApplyFine(h) ==
    /\ At(h, "apply") /\ Kind[handler[h].p] = "fine"
    /\ LET p == handler[h].p
       IN  \/ /\ HasFine(p) \/ handler[h].by = System
              /\ End(h) /\ UNCHANGED <<applied, fineRow>>
           \/ /\ ~HasFine(p) /\ handler[h].by # System
              /\ Goto(h, "mark")
              /\ applied' = [applied EXCEPT ![p] = @ + 1]
              /\ fineRow' = fineRow \cup {p}
           \/ Goto(h, "reject") /\ UNCHANGED <<applied, fineRow>>
    /\ UNCHANGED <<rules, member, row, due, ballot, mandate, budget>>

MarkExecuted(h) ==
    /\ At(h, "mark")
    /\ SetStatus(handler[h].p, "executed")
    /\ End(h)
    /\ UNCHANGED <<rules, member, due, ballot, applied, fineRow, mandate, budget>>

\* Mutant: a refused change is marked as executed.
MarkAnyway(p) == SetStatus(p, "executed")

SetRejected(p) == SetStatus(p, "rejected")

MarkRejected(h) ==
    /\ At(h, "reject")
    /\ SetRejected(handler[h].p)
    /\ End(h)
    /\ UNCHANGED <<rules, member, due, ballot, applied, fineRow, mandate, budget>>

StartVeto(h, p, u) ==
    /\ Free(h) /\ u \in Admin
    /\ published[p].veto \/ u = Owner
    /\ status[p] \in {"active", "passed"}
    /\ Take(h, "veto", p, u)
    /\ UNCHANGED <<rules, member, row, due, ballot, applied, fineRow, mandate, budget>>

Veto(h) ==
    /\ At(h, "veto")
    /\ SetStatus(handler[h].p, "vetoed")
    /\ End(h)
    /\ UNCHANGED <<rules, member, due, ballot, applied, fineRow, mandate, budget>>

Cancellable(p) == status[p] = "active"

StartCancel(h, p, u) ==
    /\ Free(h) /\ u \in Admin \cup {author[p]}
    /\ Cancellable(p)
    /\ Take(h, "cancel", p, u)
    /\ UNCHANGED <<rules, member, row, due, ballot, applied, fineRow, mandate, budget>>

Cancel(h) ==
    /\ At(h, "cancel")
    /\ SetStatus(handler[h].p, "cancelled")
    /\ End(h)
    /\ UNCHANGED <<rules, member, due, ballot, applied, fineRow, mandate, budget>>

\* The process dies, or the database fails and the job swallows the error: the
\* operation goes no further.
Die(h) ==
    /\ ~At(h, "idle") /\ handler[h].stage \in Frail /\ budget.faults > 0
    /\ End(h)
    /\ budget' = [budget EXCEPT !.faults = @ - 1]
    /\ UNCHANGED <<rules, member, row, due, ballot, applied, fineRow, mandate>>

-----------------------------------------------------------------------------
(* The rest of the State. *)

PassDeadline(p) ==
    /\ status[p] # "none" /\ p \notin due
    /\ due' = due \cup {p}
    /\ UNCHANGED <<rules, member, row, ballot, applied, fineRow, mandate, handler, budget>>

Edit == budget.edits > 0 /\ budget' = [budget EXCEPT !.edits = @ - 1]

EnactRules(r) ==
    /\ Edit /\ rules # r
    /\ rules' = r
    /\ UNCHANGED <<member, row, due, ballot, applied, fineRow, mandate, handler>>

ChangeMembership(u) ==
    /\ Edit
    /\ member' = IF u \in member THEN member \ {u} ELSE member \cup {u}
    /\ UNCHANGED <<rules, row, due, ballot, applied, fineRow, mandate, handler>>

\* What a handler does next once it has started.
Continue(h) ==
    \/ WeighVote(h) \/ InsertVote(h) \/ Tally(h) \/ Close(h)
    \/ ApplySetting(h) \/ ApplyFine(h) \/ MarkExecuted(h) \/ MarkRejected(h)
    \/ Veto(h) \/ Cancel(h)

Request(h, p, u) ==
    \/ \E choice \in Choice : StartVote(h, p, u, choice)
    \/ Execute(h, p, u) \/ StartVeto(h, p, u) \/ StartCancel(h, p, u)

Next ==
    \/ \E p \in Proposal, u \in Voter : CreateProposal(p, u)
    \/ \E h \in Handler, p \in Proposal : StartClose(h, p) \/ \E u \in Voter : Request(h, p, u)
    \/ \E h \in Handler : Continue(h) \/ Die(h)
    \/ \E p \in Proposal : PassDeadline(p)
    \/ \E r \in RuleBook : EnactRules(r)
    \/ \E u \in Voter : ChangeMembership(u)

\* A started operation goes on unless it dies, and the job runs every minute.
Fairness ==
    /\ \A h \in Handler : WF_vars(Continue(h))
    /\ \A h \in Handler \cap {Cron}, p \in Proposal : WF_vars(StartClose(h, p))

Spec == Init /\ [][Next]_vars /\ Fairness

-----------------------------------------------------------------------------
(* Properties. *)

TypeOK ==
    /\ rules \in RuleBook /\ member \in SUBSET Voter
    /\ status \in [Proposal -> Status]
    /\ published \in [Proposal -> RuleBook]
    /\ author \in [Proposal -> Voter]
    /\ due \subseteq Proposal
    /\ total \in [Proposal -> Totals]
    /\ ballot \in [Proposal -> [Voter -> Vote \cup {None}]]
    /\ applied \in [Proposal -> Nat]
    /\ fineRow \subseteq Proposal
    /\ mandate \in [Proposal -> SUBSET Totals]
    /\ handler \in [Handler -> Locals]
    /\ budget \in [{"edits", "faults"} -> Nat]

\* The Vote rows of one ballot that count for a choice.
VotesFor(b, c) == {u \in Voter : b[u] # None /\ b[u].choice = c}

\* The columns of a proposal add up to its Vote rows, one per voter, whatever
\* votes race (schema.prisma: the aggregates are kept at each castVote).
TotalsMatchVotes ==
    \A p \in Proposal :
        LET b == ballot[p]
        IN  /\ total[p]["votes"] = Cardinality({u \in Voter : b[u] # None})
            /\ \A c \in Choice :
                 total[p][c] = SumFunctionOnSet([u \in VotesFor(b, c) |-> b[u].weight], VotesFor(b, c))

AtMost(t, s) == \A c \in Counter : t[c] <= s[c]

\* A change takes effect only on the strength of a count of votes really cast
\* that reached the threshold published with the proposal.
AppliedOnMandate ==
    \A p \in Proposal :
        applied[p] > 0 => \E t \in mandate[p] : AtMost(t, total[p]) /\ ThresholdReached(t, published[p])

\* "executed" is never written for a change that did not take effect, however
\* refusals, failures and several executors interleave.
ExecutedMeansApplied == \A p \in Proposal : status[p] = "executed" => applied[p] > 0

\* wallet-fine.ts: executions of one proposal, retried or concurrent, take the
\* money once.
FineAtMostOnce == \A p \in Proposal : Kind[p] = "fine" => applied[p] <= 1

Lifecycle ==
    {<<"none", "active">>} \cup ({"active"} \X {"passed", "rejected", "expired", "cancelled", "vetoed"})
                         \cup ({"passed"} \X {"executed", "rejected", "vetoed"})

\* WHITEPAPER.md, 8: the branches of ProposalStatus; what is executed, vetoed,
\* cancelled, rejected or expired stays so.
FollowsLifecycle ==
    [][\A p \in Proposal : status'[p] # status[p] => <<status[p], status'[p]>> \in Lifecycle]_vars

\* A proposal past its deadline does not stay open.
DueProposalsClose ==
    \A p \in Proposal : (status[p] = "active" /\ p \in due) ~> status[p] # "active"

\* WHITEPAPER.md, 8, auto_dao: what passed is applied automatically; it ends
\* executed, vetoed or, if the change is refused, rejected.
AutoDaoDecides ==
    \A p \in Proposal :
        (status[p] = "passed" /\ published[p].mode = "auto_dao") ~> status[p] # "passed"

-----------------------------------------------------------------------------
(* The inductive invariant behind AppliedOnMandate, ExecutedMeansApplied and *)
(* FineAtMostOnce.                                                          *)

\* A proposal that was not published has no history and no handler.
Unpublished ==
    \A p \in Proposal : status[p] = "none" =>
        /\ mandate[p] = {}
        /\ \A h \in Handler : handler[h].p # p

\* What a handler carries between two steps is still true when it is used.
HandlerOK(c) ==
    /\ c.stage # "idle" => c.p \in Proposal
    /\ c.stage \in {"tally", "close"} => AtMost(c.seen, total[c.p])
    /\ c.stage = "close" => c.verdict \in {"passed", "rejected", "expired"}
    /\ c.stage = "close" /\ c.verdict = "passed" => ThresholdReached(c.seen, published[c.p])
    /\ c.stage \in {"apply", "mark", "reject"} => mandate[c.p] # {}
    /\ c.stage = "mark" => applied[c.p] > 0

HandlerInv == \A h \in Handler : HandlerOK(handler[h])

MandateInv ==
    \A p \in Proposal :
        /\ \A t \in mandate[p] : AtMost(t, total[p]) /\ ThresholdReached(t, published[p])
        /\ status[p] = "passed" \/ applied[p] > 0 => mandate[p] # {}

FineInv == \A p \in Proposal : Kind[p] = "fine" => applied[p] = IF p \in fineRow THEN 1 ELSE 0

IInv == TypeOK /\ Unpublished /\ HandlerInv /\ MandateInv /\ FineInv /\ ExecutedMeansApplied

\* With it, behind TotalsMatchVotes: a vote on its way is that of a voter.
VoterInv == \A h \in Handler : handler[h].stage \in {"weigh", "insert"} => handler[h].by \in Voter
=============================================================================
