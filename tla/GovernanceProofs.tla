-------------------------- MODULE GovernanceProofs --------------------------
(***************************************************************************)
(* Theorems about Governance for any number of proposals, voters, handlers *)
(* and any rules.                                                          *)
(***************************************************************************)
EXTENDS Governance, Sums, TLAPS

-----------------------------------------------------------------------------
(* Locals.  The facts speak of any record of Locals, so that they stay      *)
(* first-order.                                                             *)

LEMMA IdleLocals ==
  /\ Idle \in Locals
  /\ Idle.stage = "idle" /\ Idle.p = None /\ HandlerOK(Idle) /\ HandlerOK(Idle)'
  BY DEF Idle, Locals, Stage, Choice, Totals, Counter, Zero, Status, HandlerOK

LEMMA WeighedLocals ==
  ASSUME NEW i \in Locals, NEW w \in Nat,
         NEW k, k = [i EXCEPT !.stage = "insert", !.weight = w]
  PROVE  k \in Locals /\ k.stage = "insert" /\ k.p = i.p
  BY DEF Locals, Stage

LEMMA MovedLocals ==
  ASSUME NEW i \in Locals, NEW stage \in Stage,
         NEW k, k = [i EXCEPT !.stage = stage]
  PROVE  k \in Locals /\ k.stage = stage /\ k.p = i.p
  BY DEF Locals

LEMMA WeightsType ==
  ASSUME NEW r \in Rules PROVE r.weights \in [Voter -> Nat \ {0}]
  BY DEF Rules

LEMMA AtMostReflexive ==
  ASSUME NEW t \in Totals PROVE AtMost(t, t)
  BY DEF AtMost, Totals, Counter, Choice

LEMMA AtMostTransitive ==
  ASSUME NEW t \in Totals, NEW s \in Totals, NEW v \in Totals, AtMost(t, s), AtMost(s, v)
  PROVE  AtMost(t, v)
  BY DEF AtMost, Totals, Counter, Choice

LEMMA VerdictRange ==
  ASSUME NEW t, NEW r, NEW e
  PROVE  /\ Verdict(t, r, e) \in {"passed", "rejected", "expired"}
         /\ Verdict(t, r, e) = "passed" => ThresholdReached(t, r)
  BY DEF Verdict

-----------------------------------------------------------------------------
(* Shapes of steps. *)

LEMMA InitInv == Init => IInv
  <1> SUFFICES ASSUME Init PROVE IInv
    OBVIOUS
  <1>1. \A h \in Handler : handler[h] = Idle
    BY DEF Init
  <1>2. TypeOK
    BY IdleLocals, GovernanceConstants DEF Init, TypeOK, Status, Totals, Zero, Counter, Choice, Vote
  <1>3. HandlerInv
    BY <1>1, IdleLocals DEF HandlerInv
  <1>4. Unpublished
    BY <1>1, IdleLocals, GovernanceConstants DEF Unpublished, Init
  <1>5. MandateInv /\ FineInv /\ ExecutedMeansApplied
    BY DEF Init, MandateInv, FineInv, ExecutedMeansApplied
  <1> QED
    BY <1>2, <1>3, <1>4, <1>5 DEF IInv

\* A proposal a handler works on has been published.
LEMMA WorksOnPublished ==
  ASSUME IInv, NEW h \in Handler, handler[h].stage # "idle"
  PROVE  handler[h] \in Locals /\ handler[h].p \in Proposal /\ status[handler[h].p] # "none"
  BY DEF IInv, TypeOK, HandlerInv, HandlerOK, Unpublished

\* What the other handlers carry stays true when totals, mandates and
\* applications only grow and published rules stay.
LEMMA OthersKeep ==
  ASSUME IInv, NEW h \in Handler,
         \A g \in Handler \ {h} : handler'[g] = handler[g],
         total' \in [Proposal -> Totals],
         \A p \in Proposal : status[p] # "none" => published'[p] = published[p],
         \A p \in Proposal : AtMost(total[p], total'[p]),
         \A p \in Proposal : mandate[p] \subseteq mandate'[p],
         applied' \in [Proposal -> Nat],
         \A p \in Proposal : applied[p] <= applied'[p]
  PROVE  \A g \in Handler \ {h} : HandlerOK(handler[g])'
  <1> SUFFICES ASSUME NEW g \in Handler \ {h} PROVE HandlerOK(handler[g])'
    OBVIOUS
  <1> DEFINE c == handler[g]
  <1>1. handler'[g] = c /\ c \in Locals /\ c.seen \in Totals /\ HandlerOK(c)
    BY DEF IInv, TypeOK, Locals, HandlerInv
  <1>2. c.stage # "idle" => c.p \in Proposal /\ status[c.p] # "none"
    BY WorksOnPublished
  <1>3. CASE c.stage = "idle"
    BY <1>1, <1>3 DEF HandlerOK
  <1>4. CASE c.stage # "idle"
    <2>1. c.p \in Proposal /\ published'[c.p] = published[c.p]
      BY <1>2, <1>4
    <2>2. c.stage \in {"tally", "close"} => AtMost(c.seen, total'[c.p])
      <3>1. total[c.p] \in Totals /\ total'[c.p] \in Totals
        BY <2>1 DEF IInv, TypeOK
      <3>2. c.stage \in {"tally", "close"} => AtMost(c.seen, total[c.p])
        BY <1>1 DEF HandlerOK
      <3> QED
        BY <1>1, <2>1, <3>1, <3>2, AtMostTransitive
    <2>3. c.stage \in {"apply", "mark", "reject"} => mandate'[c.p] # {}
      BY <1>1, <2>1 DEF HandlerOK
    <2>4. c.stage = "mark" => applied'[c.p] > 0
      <3>1. applied[c.p] \in Nat /\ applied'[c.p] \in Nat /\ applied[c.p] <= applied'[c.p]
        BY <2>1 DEF IInv, TypeOK
      <3> QED
        BY <1>1, <3>1 DEF HandlerOK
    <2> QED
      BY <1>1, <2>1, <2>2, <2>3, <2>4 DEF HandlerOK
  <1> QED
    BY <1>3, <1>4

LEMMA BudgetType ==
  ASSUME IInv, UNCHANGED budget PROVE budget' \in [{"edits", "faults"} -> Nat]
  BY DEF IInv, TypeOK

\* Only a handler's locals move.
LEMMA HandlerOnly ==
  ASSUME IInv, NEW h \in Handler, NEW k \in Locals,
         handler' = [handler EXCEPT ![h] = k],
         UNCHANGED <<rules, member, row, due, ballot, applied, fineRow, mandate>>,
         budget' \in [{"edits", "faults"} -> Nat],
         HandlerOK(k),
         k.p \in Proposal => status[k.p] # "none"
  PROVE  IInv'
  <1>1. handler' \in [Handler -> Locals] /\ handler'[h] = k
        /\ \A g \in Handler \ {h} : handler'[g] = handler[g]
    BY DEF IInv, TypeOK
  <1>2. TypeOK'
    BY <1>1 DEF IInv, TypeOK, row
  <1>3. HandlerInv'
    BY <1>1 DEF IInv, HandlerInv, HandlerOK, row
  <1>4. Unpublished'
    BY <1>1 DEF IInv, Unpublished, row
  <1>5. MandateInv' /\ FineInv' /\ ExecutedMeansApplied'
    BY DEF row, IInv, MandateInv, FineInv, ExecutedMeansApplied
  <1> QED
    BY <1>2, <1>3, <1>4, <1>5 DEF IInv

\* A handler writes a status and ends.
LEMMA StatusStep ==
  ASSUME IInv, NEW h \in Handler, ~At(h, "idle"), NEW s \in Status \ {"none", "passed"},
         SetStatus(handler[h].p, s), End(h),
         s = "executed" => applied[handler[h].p] > 0,
         UNCHANGED <<rules, member, due, ballot, applied, fineRow, mandate, budget>>
  PROVE  IInv'
  <1> DEFINE p == handler[h].p
  <1>1. p \in Proposal /\ status[p] # "none"
    BY WorksOnPublished DEF At
  <1>2. /\ status' = [status EXCEPT ![p] = s]
        /\ UNCHANGED <<published, author, total>>
    BY DEF SetStatus
  <1>3. handler' \in [Handler -> Locals] /\ handler'[h] = Idle
        /\ \A g \in Handler \ {h} : handler'[g] = handler[g]
    BY IdleLocals DEF IInv, TypeOK, End
  <1>4. TypeOK'
    BY <1>1, <1>2, <1>3 DEF IInv, TypeOK
  <1>5. HandlerInv'
    BY <1>2, <1>3, IdleLocals DEF IInv, HandlerInv, HandlerOK
  <1>6. Unpublished'
    <2> SUFFICES ASSUME NEW q \in Proposal, status'[q] = "none"
                 PROVE  mandate'[q] = {} /\ \A g \in Handler : handler'[g].p # q
      BY DEF Unpublished
    <2>1. status[q] = "none"
      BY <1>1, <1>2 DEF IInv, TypeOK
    <2>2. mandate[q] = {} /\ \A g \in Handler : handler[g].p # q
      BY <2>1 DEF IInv, Unpublished
    <2>3. Idle.p # q
      BY IdleLocals, GovernanceConstants
    <2> QED
      BY <1>3, <2>2, <2>3
  <1>7. MandateInv' /\ FineInv' /\ ExecutedMeansApplied'
    BY <1>1, <1>2 DEF IInv, TypeOK, MandateInv, FineInv, ExecutedMeansApplied
  <1> QED
    BY <1>4, <1>5, <1>6, <1>7 DEF IInv

-----------------------------------------------------------------------------
(* One step per action. *)

LEMMA CreateStep ==
  ASSUME IInv, NEW p \in Proposal, NEW u \in Voter, CreateProposal(p, u)
  PROVE  IInv'
  <1>1. /\ status[p] = "none"
        /\ status' = [status EXCEPT ![p] = "active"]
        /\ published' = [published EXCEPT ![p] = rules]
        /\ author' = [author EXCEPT ![p] = u]
        /\ UNCHANGED <<rules, member, due, total, ballot, applied, fineRow, mandate, handler, budget>>
    BY DEF CreateProposal
  <1>2. TypeOK'
    BY <1>1 DEF IInv, TypeOK, Status
  <1>3. mandate[p] = {} /\ \A h \in Handler : handler[h].p # p
    BY <1>1 DEF IInv, Unpublished
  <1>4. HandlerInv'
    <2> SUFFICES ASSUME NEW h \in Handler PROVE HandlerOK(handler[h])'
      BY DEF HandlerInv
    <2>1. HandlerOK(handler[h]) /\ handler[h].p # p
      BY <1>3 DEF IInv, HandlerInv
    <2>2. handler[h].p \in Proposal => published'[handler[h].p] = published[handler[h].p]
      BY <1>1, <2>1 DEF IInv, TypeOK
    <2> QED
      BY <1>1, <2>1, <2>2 DEF HandlerOK
  <1>5. Unpublished'
    BY <1>1 DEF IInv, TypeOK, Unpublished
  <1>6. MandateInv'
    <2> SUFFICES ASSUME NEW q \in Proposal
                 PROVE  /\ \A t \in mandate[q] : AtMost(t, total[q]) /\ ThresholdReached(t, published'[q])
                        /\ status'[q] = "passed" \/ applied[q] > 0 => mandate[q] # {}
      BY <1>1 DEF MandateInv
    <2>1. CASE q = p
      BY <1>1, <1>3, <2>1 DEF IInv, TypeOK, MandateInv
    <2>2. CASE q # p
      BY <1>1, <2>2 DEF IInv, TypeOK, MandateInv
    <2> QED
      BY <2>1, <2>2
  <1>7. FineInv' /\ ExecutedMeansApplied'
    BY <1>1 DEF IInv, TypeOK, FineInv, ExecutedMeansApplied
  <1> QED
    BY <1>2, <1>4, <1>5, <1>6, <1>7 DEF IInv

\* A request that has found a proposal whose status allows it.
LEMMA RequestStep ==
  ASSUME IInv, NEW h \in Handler, NEW p \in Proposal, NEW u \in Voter, Request(h, p, u)
  PROVE  IInv'
  <1>1. ASSUME NEW choice \in Choice, StartVote(h, p, u, choice)
        PROVE  IInv'
    <2> DEFINE k == [Idle EXCEPT !.stage = "weigh", !.p = p, !.by = u, !.choice = choice]
    <2>1. k \in Locals /\ k.stage = "weigh" /\ k.p = p
      BY IdleLocals DEF Locals, Stage
    <2>2. status[p] = "active" /\ handler' = [handler EXCEPT ![h] = k]
      BY <1>1 DEF StartVote
    <2>3. UNCHANGED <<rules, member, row, due, ballot, applied, fineRow, mandate, budget>>
      BY <1>1 DEF StartVote
    <2> HIDE DEF k
    <2>4. HandlerOK(k)
      BY <2>1 DEF HandlerOK
    <2> QED
      BY <2>1, <2>2, <2>3, <2>4, BudgetType, HandlerOnly
  <1>2. ASSUME NEW stage \in {"apply", "veto", "cancel"}, Take(h, stage, p, u),
               status[p] # "none", stage = "apply" => status[p] = "passed",
               UNCHANGED <<rules, member, row, due, ballot, applied, fineRow, mandate, budget>>
        PROVE  IInv'
    <2> DEFINE k == [Idle EXCEPT !.stage = stage, !.p = p, !.by = u]
    <2>1. stage \in Stage
      BY DEF Stage
    <2>2. k \in Locals /\ k.stage = stage /\ k.p = p
      BY <2>1, IdleLocals DEF Locals
    <2>3. handler' = [handler EXCEPT ![h] = k]
      BY <1>2 DEF Take
    <2> HIDE DEF k
    <2>4. HandlerOK(k)
      BY <1>2, <2>2 DEF HandlerOK, IInv, MandateInv
    <2> QED
      BY <1>2, <2>2, <2>3, <2>4, BudgetType, HandlerOnly
  <1>3. CASE Execute(h, p, u)
    BY <1>2, <1>3 DEF Execute, Executable
  <1>4. CASE StartVeto(h, p, u)
    BY <1>2, <1>4 DEF StartVeto
  <1>5. CASE StartCancel(h, p, u)
    BY <1>2, <1>5 DEF StartCancel, Cancellable
  <1> QED
    BY <1>1, <1>3, <1>4, <1>5 DEF Request

LEMMA StartCloseStep ==
  ASSUME IInv, NEW h \in Handler, NEW p \in Proposal, StartClose(h, p)
  PROVE  IInv'
  <1> DEFINE k == [Idle EXCEPT !.stage = "tally", !.p = p, !.by = System, !.seen = total[p]]
  <1>1. total[p] \in Totals
    BY DEF IInv, TypeOK
  <1>2. k \in Locals /\ k.stage = "tally" /\ k.p = p /\ k.seen = total[p]
    BY <1>1, IdleLocals DEF Locals, Stage
  <1>3. status[p] = "active" /\ handler' = [handler EXCEPT ![h] = k]
    BY DEF StartClose, IsDue
  <1>4. UNCHANGED <<rules, member, row, due, ballot, applied, fineRow, mandate, budget>>
    BY DEF StartClose
  <1> HIDE DEF k
  <1>5. HandlerOK(k)
    BY <1>1, <1>2, AtMostReflexive DEF HandlerOK
  <1> QED
    BY <1>2, <1>3, <1>4, <1>5, BudgetType, HandlerOnly

\* A handler that stops, whatever the reason.
LEMMA EndStep ==
  ASSUME IInv, NEW h \in Handler, End(h),
         UNCHANGED <<rules, member, row, due, ballot, applied, fineRow, mandate>>,
         budget' \in [{"edits", "faults"} -> Nat]
  PROVE  IInv'
  <1>1. handler' = [handler EXCEPT ![h] = Idle]
    BY DEF End
  <1> QED
    BY <1>1, IdleLocals, GovernanceConstants, HandlerOnly

LEMMA DieStep ==
  ASSUME IInv, NEW h \in Handler, Die(h)
  PROVE  IInv'
  <1>1. budget' \in [{"edits", "faults"} -> Nat]
    BY DEF Die, IInv, TypeOK
  <1> QED
    BY <1>1, EndStep DEF Die

LEMMA WeighVoteStep ==
  ASSUME IInv, NEW h \in Handler, WeighVote(h)
  PROVE  IInv'
  <1> DEFINE w == VoteWeight(published[handler[h].p].strategy, handler[h].by)
  <1>1. UNCHANGED <<rules, member, row, due, ballot, applied, fineRow, mandate, budget>>
    BY DEF WeighVote
  <1>2. CASE End(h)
    BY <1>1, <1>2, EndStep DEF IInv, TypeOK
  <1>3. CASE handler' = [handler EXCEPT ![h].stage = "insert", ![h].weight = w]
    <2> DEFINE k == [handler[h] EXCEPT !.stage = "insert", !.weight = w]
    <2>1. handler[h] \in Locals /\ handler[h].p \in Proposal /\ status[handler[h].p] # "none"
      BY WorksOnPublished DEF WeighVote, At
    <2>2. w \in Nat
      <3>1. rules.weights \in [Voter -> Nat \ {0}] /\ member \subseteq Voter
        <4>1. rules \in Rules /\ member \subseteq Voter
          BY GovernanceConstants DEF IInv, TypeOK
        <4> QED
          BY <4>1, WeightsType
      <3>2. \A u \in member : rules.weights[u] \in Nat
        BY <3>1
      <3> QED
        BY <3>2 DEF VoteWeight
    <2> HIDE DEF w
    <2>3. k \in Locals /\ k.stage = "insert" /\ k.p = handler[h].p
      BY <2>1, <2>2, WeighedLocals
    <2>4. handler' = [handler EXCEPT ![h] = k]
      BY <1>3
    <2> HIDE DEF k
    <2>5. HandlerOK(k)
      BY <2>1, <2>3 DEF HandlerOK
    <2> QED
      BY <1>1, <2>1, <2>3, <2>4, <2>5, BudgetType, HandlerOnly
  <1> QED
    BY <1>2, <1>3 DEF WeighVote

LEMMA TallyStep ==
  ASSUME IInv, NEW h \in Handler, Tally(h)
  PROVE  IInv'
  <1> DEFINE c == handler[h]
             r == published[c.p]
             verdict == Verdict(c.seen, r, Electorate(r.strategy, rules.weights))
             k == [c EXCEPT !.stage = "close", !.verdict = verdict]
  <1>1. c \in Locals /\ c.p \in Proposal /\ status[c.p] # "none" /\ c.stage = "tally"
    BY WorksOnPublished DEF Tally, At
  <1>2. AtMost(c.seen, total[c.p])
    BY <1>1 DEF IInv, HandlerInv, HandlerOK
  <1>3. /\ verdict \in {"passed", "rejected", "expired"}
        /\ verdict = "passed" => ThresholdReached(c.seen, r)
    BY VerdictRange
  <1>4. handler' = [handler EXCEPT ![h] = k]
    BY DEF Tally
  <1> HIDE DEF verdict
  <1>5. /\ k \in Locals /\ k.stage = "close" /\ k.p = c.p
        /\ k.seen = c.seen /\ k.verdict = verdict
    <2>1. verdict \in Status
      BY <1>3 DEF Status
    <2> HIDE DEF c
    <2> QED
      BY <1>1, <2>1 DEF Locals, Stage
  <1>6. UNCHANGED <<rules, member, row, due, ballot, applied, fineRow, mandate, budget>>
    BY DEF Tally
  <1> HIDE DEF k
  <1>7. HandlerOK(k)
    BY <1>1, <1>2, <1>3, <1>5 DEF HandlerOK
  <1> QED
    BY <1>1, <1>4, <1>5, <1>6, <1>7, BudgetType, HandlerOnly

\* The totals of one proposal grow, and the voter's handler ends.
LEMMA InsertVoteStep ==
  ASSUME IInv, NEW h \in Handler, InsertVote(h)
  PROVE  IInv'
  <1> DEFINE v == handler[h]
  <1>1. v \in Locals /\ v.p \in Proposal /\ status[v.p] # "none"
    BY WorksOnPublished DEF InsertVote, At
  <1>2. /\ End(h)
        /\ UNCHANGED <<rules, member, status, published, author, due, applied, fineRow, mandate, budget>>
    BY DEF InsertVote
  <1>3. CASE HasVoted(v.p, v.by)
    <2>1. UNCHANGED <<ballot, total>>
      BY <1>3 DEF InsertVote
    <2> QED
      BY <1>2, <2>1, BudgetType, EndStep DEF row
  <1>4. CASE ~HasVoted(v.p, v.by)
    <2>1. /\ ballot' = [ballot EXCEPT ![v.p][v.by] = [choice |-> v.choice, weight |-> v.weight]]
          /\ total' = [total EXCEPT ![v.p][v.choice] = @ + v.weight, ![v.p]["votes"] = @ + 1]
      BY <1>4 DEF InsertVote
    <2>2. v.choice \in Choice /\ v.weight \in Nat
      BY <1>1 DEF Locals
    <2>3. ballot' \in [Proposal -> [Voter -> Vote \cup {None}]]
      <3> DEFINE b == [choice |-> v.choice, weight |-> v.weight]
      <3>1. b \in Vote
        BY <2>2 DEF Vote
      <3> HIDE DEF b
      <3> QED
        BY <1>1, <2>1, <3>1 DEF b, IInv, TypeOK
    <2>4. /\ total' \in [Proposal -> Totals]
          /\ \A q \in Proposal : AtMost(total[q], total'[q])
      <3>1. total \in [Proposal -> Totals]
        BY DEF IInv, TypeOK
      <3> DEFINE t == [total[v.p] EXCEPT ![v.choice] = @ + v.weight, !["votes"] = @ + 1]
      <3>2. total[v.p] \in [Counter -> Nat] /\ v.choice \in Counter /\ v.choice # "votes"
        BY <1>1, <2>2, <3>1 DEF Totals, Counter, Choice
      <3>3. t \in Totals /\ AtMost(total[v.p], t)
        BY <2>2, <3>2 DEF Totals, AtMost, Counter
      <3>4. total' = [total EXCEPT ![v.p] = t]
        BY <2>1
      <3> HIDE DEF t
      <3>5. \A q \in Proposal : total[q] \in Totals /\ AtMost(total[q], total[q])
        BY <3>1, AtMostReflexive
      <3> QED
        BY <1>1, <3>1, <3>3, <3>4, <3>5
    <2>5. handler' \in [Handler -> Locals] /\ handler'[h] = Idle
          /\ \A g \in Handler \ {h} : handler'[g] = handler[g]
      BY <1>2, IdleLocals DEF IInv, TypeOK, End
    <2>6. TypeOK'
      BY <1>2, <2>3, <2>4, <2>5 DEF IInv, TypeOK
    <2>7. HandlerInv'
      <3>1. applied' \in [Proposal -> Nat] /\ \A q \in Proposal : applied[q] <= applied'[q]
        BY <1>2 DEF IInv, TypeOK
      <3>2. \A g \in Handler \ {h} : HandlerOK(handler[g])'
        BY <1>2, <2>4, <2>5, <3>1, OthersKeep
      <3>3. HandlerOK(handler[h])'
        BY <2>5, IdleLocals DEF HandlerOK
      <3> QED
        BY <3>2, <3>3 DEF HandlerInv
    <2>8. Unpublished'
      BY <1>2, <2>5, IdleLocals, GovernanceConstants DEF IInv, Unpublished
    <2>9. MandateInv'
      <3> SUFFICES ASSUME NEW q \in Proposal
                   PROVE  /\ \A t \in mandate[q] : AtMost(t, total'[q]) /\ ThresholdReached(t, published[q])
                          /\ status[q] = "passed" \/ applied[q] > 0 => mandate[q] # {}
        BY <1>2 DEF MandateInv
      <3>1. mandate[q] \subseteq Totals /\ total[q] \in Totals /\ total'[q] \in Totals
        BY <2>4 DEF IInv, TypeOK
      <3> QED
        BY <2>4, <3>1, AtMostTransitive DEF IInv, MandateInv
    <2>10. FineInv' /\ ExecutedMeansApplied'
      BY <1>2 DEF IInv, FineInv, ExecutedMeansApplied
    <2> QED
      BY <2>6, <2>7, <2>8, <2>9, <2>10 DEF IInv
  <1> QED
    BY <1>3, <1>4

\* The verdict is written; what passed gets a mandate and may go on to be applied.
LEMMA CloseStep ==
  ASSUME IInv, NEW h \in Handler, Close(h)
  PROVE  IInv'
  <1> DEFINE c == handler[h]
             k == [c EXCEPT !.stage = "apply"]
             new == IF c.verdict = "passed" THEN mandate[c.p] \cup {c.seen} ELSE mandate[c.p]
  <1>1. c \in Locals /\ c.p \in Proposal /\ status[c.p] # "none" /\ c.stage = "close"
    BY WorksOnPublished DEF Close, At
  <1>2. /\ status' = [status EXCEPT ![c.p] = c.verdict]
        /\ UNCHANGED <<rules, member, published, author, total, due, ballot, applied, fineRow, budget>>
    BY DEF Close, SetStatus
  <1>3. mandate' = [mandate EXCEPT ![c.p] = new]
    <2>1. CASE c.verdict = "passed"
      BY <2>1 DEF Close
    <2>2. CASE c.verdict # "passed"
      <3>1. mandate' = mandate
        BY <2>2 DEF Close
      <3> QED
        BY <1>1, <2>2, <3>1 DEF IInv, TypeOK
    <2> QED
      BY <2>1, <2>2
  <1>4. /\ c.verdict \in {"passed", "rejected", "expired"} /\ c.seen \in Totals
        /\ AtMost(c.seen, total[c.p])
        /\ c.verdict = "passed" => ThresholdReached(c.seen, published[c.p])
    BY <1>1 DEF IInv, HandlerInv, HandlerOK, Locals
  <1>5. k \in Locals /\ k.stage = "apply" /\ k.p = c.p
    BY <1>1 DEF Locals, Stage
  <1>6. PICK e \in Locals : /\ handler' = [handler EXCEPT ![h] = e]
                            /\ e = Idle \/ (e.stage = "apply" /\ e.p = c.p /\ c.verdict = "passed")
    <2>1. CASE c.verdict = "passed" /\ ExecutesItself(c.p)
      <3>1. handler' = [handler EXCEPT ![h] = k]
        BY <2>1 DEF Close, Goto
      <3> QED
        BY <1>5, <2>1, <3>1
    <2>2. CASE ~(c.verdict = "passed" /\ ExecutesItself(c.p))
      BY <2>2, IdleLocals DEF Close, End
    <2> QED
      BY <2>1, <2>2
  <1> HIDE DEF k
  <1>7. /\ handler' \in [Handler -> Locals] /\ handler'[h] = e
        /\ \A g \in Handler \ {h} : handler'[g] = handler[g]
    BY <1>6 DEF IInv, TypeOK
  <1>8. new \subseteq Totals /\ mandate[c.p] \subseteq new /\ (c.verdict = "passed" => new # {})
    BY <1>1, <1>4 DEF IInv, TypeOK
  <1>9. /\ mandate' \in [Proposal -> SUBSET Totals] /\ mandate'[c.p] = new
        /\ \A q \in Proposal : mandate[q] \subseteq mandate'[q]
        /\ \A q \in Proposal \ {c.p} : mandate'[q] = mandate[q]
    BY <1>1, <1>3, <1>8 DEF IInv, TypeOK
  <1>10. TypeOK'
    BY <1>1, <1>2, <1>4, <1>7, <1>9 DEF IInv, TypeOK, Status
  <1>11. HandlerInv'
    <2>1. /\ \A q \in Proposal : AtMost(total[q], total'[q])
          /\ total' \in [Proposal -> Totals]
      BY <1>2, AtMostReflexive DEF IInv, TypeOK
    <2>2. applied' \in [Proposal -> Nat] /\ \A q \in Proposal : applied[q] <= applied'[q]
      BY <1>2 DEF IInv, TypeOK
    <2>3. \A g \in Handler \ {h} : HandlerOK(handler[g])'
      BY <1>2, <1>7, <1>9, <2>1, <2>2, OthersKeep
    <2>4. HandlerOK(handler[h])'
      BY <1>1, <1>6, <1>7, <1>8, <1>9, IdleLocals DEF HandlerOK
    <2> QED
      BY <2>3, <2>4 DEF HandlerInv
  <1>12. Unpublished'
    <2> SUFFICES ASSUME NEW q \in Proposal, status'[q] = "none"
                 PROVE  mandate'[q] = {} /\ \A g \in Handler : handler'[g].p # q
      BY DEF Unpublished
    <2>1. q # c.p /\ status[q] = "none"
      BY <1>1, <1>2, <1>4 DEF IInv, TypeOK
    <2>2. mandate'[q] = {} /\ \A g \in Handler : handler[g].p # q
      BY <1>9, <2>1 DEF IInv, Unpublished
    <2>3. e.p # q
      BY <1>6, <2>1, IdleLocals, GovernanceConstants
    <2> QED
      BY <1>7, <2>2, <2>3
  <1>13. MandateInv'
    <2> SUFFICES ASSUME NEW q \in Proposal
                 PROVE  /\ \A t \in mandate'[q] : AtMost(t, total[q]) /\ ThresholdReached(t, published[q])
                        /\ status'[q] = "passed" \/ applied[q] > 0 => mandate'[q] # {}
      BY <1>2 DEF MandateInv
    <2>1. CASE q = c.p
      BY ZenonT(40), <1>1, <1>2, <1>4, <1>8, <1>9, <2>1 DEF IInv, TypeOK, MandateInv
    <2>2. CASE q # c.p
      BY <1>1, <1>2, <1>9, <2>2 DEF IInv, TypeOK, MandateInv
    <2> QED
      BY <2>1, <2>2
  <1>14. FineInv' /\ ExecutedMeansApplied'
    BY <1>1, <1>2, <1>4 DEF IInv, TypeOK, FineInv, ExecutedMeansApplied
  <1> QED
    BY <1>10, <1>11, <1>12, <1>13, <1>14 DEF IInv

\* The change of a mandated proposal takes effect, is refused or fails.
LEMMA AppliedStep ==
  ASSUME IInv, NEW h \in Handler, At(h, "apply"),
         NEW n \in Nat, applied' = [applied EXCEPT ![handler[h].p] = n],
         applied[handler[h].p] <= n,
         NEW e \in Locals, handler' = [handler EXCEPT ![h] = e],
         \/ e = Idle
         \/ e.stage = "reject" /\ e.p = handler[h].p
         \/ e.stage = "mark" /\ e.p = handler[h].p /\ n > 0,
         fineRow' \subseteq Proposal, FineInv',
         UNCHANGED <<rules, member, row, due, ballot, mandate, budget>>
  PROVE  IInv'
  <1> DEFINE p == handler[h].p
  <1>1. p \in Proposal /\ status[p] # "none" /\ mandate[p] # {}
    BY WorksOnPublished DEF At, IInv, HandlerInv, HandlerOK
  <1>2. /\ handler' \in [Handler -> Locals] /\ handler'[h] = e
        /\ \A g \in Handler \ {h} : handler'[g] = handler[g]
    BY DEF IInv, TypeOK
  <1>3. /\ applied' \in [Proposal -> Nat] /\ applied'[p] = n
        /\ \A q \in Proposal \ {p} : applied'[q] = applied[q]
        /\ \A q \in Proposal : applied[q] <= applied'[q]
    BY <1>1 DEF IInv, TypeOK
  <1>4. TypeOK'
    BY <1>2, <1>3 DEF IInv, TypeOK, row
  <1>5. HandlerInv'
    <2>1. /\ \A q \in Proposal : AtMost(total[q], total'[q])
          /\ total' \in [Proposal -> Totals]
      BY AtMostReflexive DEF IInv, TypeOK, row
    <2>2. \A g \in Handler \ {h} : HandlerOK(handler[g])'
      BY <1>2, <1>3, <2>1, OthersKeep DEF row
    <2>3. HandlerOK(handler[h])'
      BY <1>1, <1>2, <1>3, IdleLocals DEF HandlerOK
    <2> QED
      BY <2>2, <2>3 DEF HandlerInv
  <1>6. Unpublished'
    <2> SUFFICES ASSUME NEW q \in Proposal, status[q] = "none"
                 PROVE  mandate[q] = {} /\ \A g \in Handler : handler'[g].p # q
      BY DEF Unpublished, row
    <2>1. mandate[q] = {} /\ \A g \in Handler : handler[g].p # q
      BY DEF IInv, Unpublished
    <2>2. e.p # q
      BY <1>1, IdleLocals, GovernanceConstants
    <2> QED
      BY <1>2, <2>1, <2>2
  <1>7. MandateInv'
    BY <1>1, <1>3 DEF IInv, MandateInv, row
  <1>8. ExecutedMeansApplied'
    BY <1>3 DEF IInv, TypeOK, ExecutedMeansApplied, row
  <1> QED
    BY <1>4, <1>5, <1>6, <1>7, <1>8 DEF IInv

LEMMA ApplySettingStep ==
  ASSUME IInv, NEW h \in Handler, ApplySetting(h)
  PROVE  IInv'
  <1> DEFINE p == handler[h].p
             Moved(stage) == [handler[h] EXCEPT !.stage = stage]
  <1>1. At(h, "apply") /\ Kind[p] = "setting" /\ UNCHANGED fineRow
        /\ UNCHANGED <<rules, member, row, due, ballot, mandate, budget>>
    BY DEF ApplySetting
  <1>2. handler[h] \in Locals /\ p \in Proposal /\ applied \in [Proposal -> Nat]
    BY <1>1, WorksOnPublished DEF At, IInv, TypeOK
  <1>3. \A stage \in {"mark", "reject"} :
          Moved(stage) \in Locals /\ Moved(stage).stage = stage /\ Moved(stage).p = p
    BY <1>2 DEF Locals, Stage
  <1>4. fineRow' \subseteq Proposal
    BY <1>1 DEF IInv, TypeOK
  <1>5. CASE Goto(h, "mark") /\ applied' = [applied EXCEPT ![p] = @ + 1]
    <2>1. FineInv'
      BY <1>1, <1>2, <1>5 DEF IInv, FineInv
    <2>2. handler' = [handler EXCEPT ![h] = Moved("mark")]
      BY <1>5 DEF Goto
    <2>3. applied[p] + 1 \in Nat /\ applied' = [applied EXCEPT ![p] = applied[p] + 1]
          /\ applied[p] <= applied[p] + 1 /\ applied[p] + 1 > 0
      BY <1>2, <1>5
    <2> HIDE DEF Moved
    <2> QED
      BY <1>1, <1>3, <1>4, <2>1, <2>2, <2>3, AppliedStep
  <1>6. CASE Goto(h, "reject") /\ UNCHANGED applied
    <2>1. FineInv'
      BY <1>1, <1>6 DEF IInv, FineInv
    <2>2. handler' = [handler EXCEPT ![h] = Moved("reject")]
      BY <1>6 DEF Goto
    <2>3. applied[p] \in Nat /\ applied' = [applied EXCEPT ![p] = applied[p]]
          /\ applied[p] <= applied[p]
      BY <1>2, <1>6
    <2> HIDE DEF Moved
    <2> QED
      BY <1>1, <1>3, <1>4, <2>1, <2>2, <2>3, AppliedStep
  <1> QED
    BY <1>5, <1>6 DEF ApplySetting

LEMMA ApplyFineStep ==
  ASSUME IInv, NEW h \in Handler, ApplyFine(h)
  PROVE  IInv'
  <1> DEFINE p == handler[h].p
             Moved(stage) == [handler[h] EXCEPT !.stage = stage]
  <1>1. At(h, "apply") /\ Kind[p] = "fine"
        /\ UNCHANGED <<rules, member, row, due, ballot, mandate, budget>>
    BY DEF ApplyFine
  <1>2. handler[h] \in Locals /\ p \in Proposal /\ applied \in [Proposal -> Nat]
        /\ fineRow \subseteq Proposal
    BY <1>1, WorksOnPublished DEF At, IInv, TypeOK
  <1>3. \A stage \in {"mark", "reject"} :
          Moved(stage) \in Locals /\ Moved(stage).stage = stage /\ Moved(stage).p = p
    BY <1>2 DEF Locals, Stage
  <1>4. CASE End(h) /\ UNCHANGED <<applied, fineRow>>
    BY <1>1, <1>4, EndStep, BudgetType
  <1>5. CASE /\ ~HasFine(p) /\ Goto(h, "mark")
             /\ applied' = [applied EXCEPT ![p] = @ + 1] /\ fineRow' = fineRow \cup {p}
    <2>1. fineRow' \subseteq Proposal
      BY <1>2, <1>5
    <2>2. FineInv'
      <3> SUFFICES ASSUME NEW q \in Proposal, Kind[q] = "fine"
                   PROVE  applied'[q] = IF q \in fineRow' THEN 1 ELSE 0
        BY DEF FineInv
      <3>1. applied[q] = IF q \in fineRow THEN 1 ELSE 0
        BY DEF IInv, FineInv
      <3> QED
        BY <1>2, <1>5, <3>1 DEF HasFine
    <2>3. handler' = [handler EXCEPT ![h] = Moved("mark")]
      BY <1>5 DEF Goto
    <2>4. applied[p] + 1 \in Nat /\ applied' = [applied EXCEPT ![p] = applied[p] + 1]
          /\ applied[p] <= applied[p] + 1 /\ applied[p] + 1 > 0
      BY <1>2, <1>5
    <2> HIDE DEF Moved
    <2> QED
      BY <1>1, <1>3, <2>1, <2>2, <2>3, <2>4, AppliedStep
  <1>6. CASE Goto(h, "reject") /\ UNCHANGED <<applied, fineRow>>
    <2>1. FineInv'
      BY <1>6 DEF IInv, FineInv
    <2>2. handler' = [handler EXCEPT ![h] = Moved("reject")]
      BY <1>6 DEF Goto
    <2>3. applied[p] \in Nat /\ applied' = [applied EXCEPT ![p] = applied[p]]
          /\ applied[p] <= applied[p] /\ fineRow' \subseteq Proposal
      BY <1>2, <1>6
    <2> HIDE DEF Moved
    <2> QED
      BY <1>1, <1>3, <2>1, <2>2, <2>3, AppliedStep
  <1> QED
    BY <1>4, <1>5, <1>6 DEF ApplyFine

\* The four writes of a status.
LEMMA MarkStep ==
  ASSUME IInv, NEW h \in Handler,
         MarkExecuted(h) \/ MarkRejected(h) \/ Veto(h) \/ Cancel(h)
  PROVE  IInv'
  <1>1. CASE MarkExecuted(h)
    <2>1. applied[handler[h].p] > 0
      BY <1>1 DEF MarkExecuted, At, IInv, HandlerInv, HandlerOK
    <2> QED
      BY <1>1, <2>1, StatusStep DEF MarkExecuted, At, Status
  <1>2. CASE MarkRejected(h)
    BY <1>2, StatusStep DEF MarkRejected, SetRejected, At, Status
  <1>3. CASE Veto(h)
    BY <1>3, StatusStep DEF Veto, At, Status
  <1>4. CASE Cancel(h)
    BY <1>4, StatusStep DEF Cancel, At, Status
  <1> QED
    BY <1>1, <1>2, <1>3, <1>4

\* Deadlines, rules and memberships.
LEMMA StateStep ==
  ASSUME IInv, UNCHANGED <<row, ballot, applied, fineRow, mandate, handler>>,
         due' \subseteq Proposal, rules' \in RuleBook, member' \subseteq Voter,
         budget' \in [{"edits", "faults"} -> Nat]
  PROVE  IInv'
  <1>1. TypeOK'
    BY DEF IInv, TypeOK, row
  <1>2. HandlerInv'
    BY DEF IInv, HandlerInv, HandlerOK, row
  <1>3. Unpublished' /\ MandateInv' /\ FineInv' /\ ExecutedMeansApplied'
    BY DEF IInv, Unpublished, MandateInv, FineInv, ExecutedMeansApplied, row
  <1> QED
    BY <1>1, <1>2, <1>3 DEF IInv

LEMMA NextInv == IInv /\ [Next]_vars => IInv'
  <1> SUFFICES ASSUME IInv, [Next]_vars PROVE IInv'
    OBVIOUS
  <1>1. rules \in RuleBook /\ member \subseteq Voter /\ due \subseteq Proposal
        /\ budget \in [{"edits", "faults"} -> Nat]
    BY DEF IInv, TypeOK
  <1>2. ASSUME NEW p \in Proposal, NEW u \in Voter, CreateProposal(p, u) PROVE IInv'
    BY <1>2, CreateStep
  <1>3. ASSUME NEW h \in Handler, NEW p \in Proposal, StartClose(h, p) PROVE IInv'
    BY <1>3, StartCloseStep
  <1>4. ASSUME NEW h \in Handler, NEW p \in Proposal, NEW u \in Voter, Request(h, p, u) PROVE IInv'
    BY <1>4, RequestStep
  <1>5. ASSUME NEW h \in Handler, Continue(h) PROVE IInv'
    BY <1>5, WeighVoteStep, InsertVoteStep, TallyStep, CloseStep, ApplySettingStep, ApplyFineStep,
       MarkStep DEF Continue
  <1>6. ASSUME NEW h \in Handler, Die(h) PROVE IInv'
    BY <1>6, DieStep
  <1>7. ASSUME NEW p \in Proposal, PassDeadline(p) PROVE IInv'
    BY <1>1, <1>7, StateStep DEF PassDeadline
  <1>8. ASSUME NEW r \in RuleBook, EnactRules(r) PROVE IInv'
    BY <1>1, <1>8, StateStep DEF EnactRules, Edit
  <1>9. ASSUME NEW u \in Voter, ChangeMembership(u) PROVE IInv'
    BY <1>1, <1>9, StateStep DEF ChangeMembership, Edit
  <1>10. CASE UNCHANGED vars
    BY <1>1, <1>10, StateStep DEF vars
  <1> QED
    BY <1>2, <1>3, <1>4, <1>5, <1>6, <1>7, <1>8, <1>9, <1>10 DEF Next

-----------------------------------------------------------------------------
(* Votes and columns. *)

\* A handler that carries a vote carries a voter: only StartVote begins one.
LEMMA VoterNext ==
  ASSUME IInv, VoterInv, [Next]_vars
  PROVE  VoterInv'
  <1> DEFINE OK(c) == c.stage \in {"weigh", "insert"} => c.by \in Voter
  <1>1. handler \in [Handler -> Locals] /\ \A h \in Handler : OK(handler[h])
    BY DEF IInv, TypeOK, VoterInv
  <1>2. ASSUME NEW h \in Handler, NEW k, handler' = [handler EXCEPT ![h] = k], OK(k)
        PROVE  VoterInv'
    BY <1>1, <1>2 DEF VoterInv
  <1>3. ASSUME NEW h \in Handler, End(h) PROVE VoterInv'
    BY <1>2, <1>3, IdleLocals DEF End
  <1>4. ASSUME NEW h \in Handler, NEW stage \in Stage \ {"weigh", "insert"}, Goto(h, stage)
        PROVE  VoterInv'
    <2> DEFINE k == [handler[h] EXCEPT !.stage = stage]
    <2>1. k.stage = stage
      BY <1>1, MovedLocals
    <2>2. handler' = [handler EXCEPT ![h] = k]
      BY <1>4 DEF Goto
    <2> HIDE DEF k
    <2> QED
      BY <1>2, <2>1, <2>2
  <1>5. ASSUME NEW h \in Handler, NEW p \in Proposal, NEW u, NEW stage \in {"apply", "veto", "cancel"},
               Take(h, stage, p, u)
        PROVE  VoterInv'
    <2> DEFINE k == [Idle EXCEPT !.stage = stage, !.p = p, !.by = u]
    <2>1. k.stage = stage
      BY DEF Idle
    <2>2. handler' = [handler EXCEPT ![h] = k]
      BY <1>5 DEF Take
    <2> HIDE DEF k
    <2> QED
      BY <1>2, <2>1, <2>2
  <1>6. ASSUME NEW h \in Handler, NEW p \in Proposal, NEW u \in Voter, NEW choice \in Choice,
               StartVote(h, p, u, choice)
        PROVE  VoterInv'
    <2> DEFINE k == [Idle EXCEPT !.stage = "weigh", !.p = p, !.by = u, !.choice = choice]
    <2>1. k.by = u
      BY DEF Idle
    <2>2. handler' = [handler EXCEPT ![h] = k]
      BY <1>6 DEF StartVote
    <2> HIDE DEF k
    <2> QED
      BY <1>2, <2>1, <2>2
  <1>7. ASSUME NEW h \in Handler, NEW p \in Proposal, StartClose(h, p) PROVE VoterInv'
    <2> DEFINE k == [Idle EXCEPT !.stage = "tally", !.p = p, !.by = System, !.seen = total[p]]
    <2>1. k.stage = "tally"
      BY DEF Idle
    <2>2. handler' = [handler EXCEPT ![h] = k]
      BY <1>7 DEF StartClose
    <2> HIDE DEF k
    <2> QED
      BY <1>2, <2>1, <2>2
  <1>8. ASSUME NEW h \in Handler, WeighVote(h) PROVE VoterInv'
    <2> DEFINE w == VoteWeight(published[handler[h].p].strategy, handler[h].by)
               k == [handler[h] EXCEPT !.stage = "insert", !.weight = w]
    <2>1. handler[h].by \in Voter
      BY <1>1, <1>8 DEF WeighVote, At
    <2>2. k.by = handler[h].by
      <3> HIDE DEF w
      <3> QED
        BY <1>1 DEF Locals
    <2>3. End(h) \/ handler' = [handler EXCEPT ![h] = k]
      BY <1>8 DEF WeighVote
    <2> HIDE DEF k
    <2> QED
      BY <1>2, <1>3, <2>1, <2>2, <2>3
  <1>9. ASSUME NEW h \in Handler, Tally(h) PROVE VoterInv'
    <2> DEFINE c == handler[h]
               r == published[c.p]
               verdict == Verdict(c.seen, r, Electorate(r.strategy, rules.weights))
               k == [c EXCEPT !.stage = "close", !.verdict = verdict]
    <2>1. k.stage = "close"
      <3> HIDE DEF verdict
      <3> QED
        BY <1>1 DEF Locals
    <2>2. handler' = [handler EXCEPT ![h] = k]
      BY <1>9 DEF Tally
    <2> HIDE DEF k
    <2> QED
      BY <1>2, <2>1, <2>2
  <1>10. ASSUME NEW h \in Handler, Continue(h) PROVE VoterInv'
    <2>1. CASE ApplySetting(h)
      BY <1>4, <2>1 DEF ApplySetting, Stage
    <2>2. CASE ApplyFine(h)
      BY <1>3, <1>4, <2>2 DEF ApplyFine, Stage
    <2>3. CASE Close(h)
      BY <1>3, <1>4, <2>3 DEF Close, Stage
    <2>4. CASE InsertVote(h) \/ MarkExecuted(h) \/ MarkRejected(h) \/ Veto(h) \/ Cancel(h)
      BY <1>3, <2>4 DEF InsertVote, MarkExecuted, MarkRejected, Veto, Cancel
    <2> QED
      BY <1>8, <1>9, <1>10, <2>1, <2>2, <2>3, <2>4 DEF Continue
  <1>11. ASSUME NEW h \in Handler, NEW p \in Proposal, NEW u \in Voter, Request(h, p, u) PROVE VoterInv'
    BY <1>5, <1>6, <1>11 DEF Request, Execute, StartVeto, StartCancel
  <1>12. ASSUME NEW h \in Handler, Die(h) PROVE VoterInv'
    BY <1>3, <1>12 DEF Die
  <1>13. CASE UNCHANGED handler
    BY <1>13 DEF VoterInv
  <1>14. CASE Next
    BY <1>7, <1>10, <1>11, <1>12, <1>13, <1>14
       DEF Next, CreateProposal, PassDeadline, EnactRules, ChangeMembership
  <1> QED
    BY <1>13, <1>14 DEF vars

\* What the three columns and the count of a ballot are.
Matches(t, b) ==
  /\ t["votes"] = Cardinality({u \in Voter : b[u] # None})
  /\ \A c \in Choice :
       t[c] = SumFunctionOnSet([u \in VotesFor(b, c) |-> b[u].weight], VotesFor(b, c))

\* A first vote of a voter adds its weight to one column and 1 to the count.
LEMMA VoteCounted ==
  ASSUME NEW b \in [Voter -> Vote \cup {None}], NEW t \in Totals, Matches(t, b),
         NEW u \in Voter, b[u] = None, NEW v \in Vote, v # None,
         NEW d, d = [b EXCEPT ![u] = v],
         NEW s, s = [t EXCEPT ![v.choice] = @ + v.weight, !["votes"] = @ + 1]
  PROVE  Matches(s, d)
  <1>1. v.choice \in Choice /\ v.weight \in Nat
    BY DEF Vote
  <1>2. /\ s["votes"] = t["votes"] + 1 /\ s[v.choice] = t[v.choice] + v.weight
        /\ \A c \in Choice \ {v.choice} : s[c] = t[c]
        /\ \A c \in Choice : t[c] \in Nat
    BY <1>1 DEF Totals, Counter, Choice
  <1>3. d[u] = v /\ \A w \in Voter \ {u} : d[w] = b[w]
    OBVIOUS
  <1>4. s["votes"] = Cardinality({w \in Voter : d[w] # None})
    <2> DEFINE V == {w \in Voter : b[w] # None}
    <2>1. {w \in Voter : d[w] # None} = V \cup {u} /\ u \notin V
      BY <1>3
    <2>2. IsFiniteSet(V)
      BY GovernanceConstants, FS_Subset
    <2>3. Cardinality(V \cup {u}) = Cardinality(V) + 1
      BY <2>1, <2>2, FS_AddElement
    <2> QED
      BY <1>2, <2>1, <2>3 DEF Matches
  <1>5. ASSUME NEW c \in Choice
        PROVE  s[c] = SumFunctionOnSet([w \in VotesFor(d, c) |-> d[w].weight], VotesFor(d, c))
    <2> DEFINE V == VotesFor(b, c)
               before == [w \in V |-> b[w].weight]
               D == VotesFor(d, c)
               after == [w \in D |-> d[w].weight]
    <2>1. IsFiniteSet(V) /\ u \notin V
      <3>1. V \subseteq Voter /\ u \notin V
        BY DEF VotesFor
      <3> QED
        BY <3>1, GovernanceConstants, FS_Subset
    <2>2. t[c] = SumFunctionOnSet(before, V)
      BY DEF Matches
    <2>3. \A w \in V : b[w].weight \in Int /\ d[w] = b[w] /\ w \in D
      <3>1. \A w \in V : w \in Voter /\ b[w] \in Vote /\ w # u /\ b[w].choice = c
        BY DEF VotesFor
      <3> QED
        BY <1>3, <3>1, GovernanceConstants DEF VotesFor, Vote
    <2>4. D = IF c = v.choice THEN V \cup {u} ELSE V
      BY <1>3 DEF VotesFor
    <2>5. \A w \in V : before[w] \in Int /\ after[w] = before[w] /\ after[w] \in Int
      <3> HIDE DEF V, D
      <3> QED
        BY <2>3
    <2>6. SumFunctionOnSet(after, V) = SumFunctionOnSet(before, V)
      <3> HIDE DEF V, D, before, after
      <3> QED
        BY <2>1, <2>5, SumSame
    <2>7. CASE c = v.choice
      <3>1. after[u] = v.weight
        <4> HIDE DEF V, D
        <4> QED
          BY <1>3, <2>4, <2>7
      <3>2. SumFunctionOnSet(after, V \cup {u}) = after[u] + SumFunctionOnSet(after, V)
        <4> HIDE DEF V, D, after
        <4>1. \A w \in V \cup {u} : after[w] \in Int
          BY <1>1, <2>5, <3>1
        <4> QED
          BY <2>1, <4>1, SumAdd
      <3>3. SumFunctionOnSet(before, V) = t[c] /\ t[c] \in Nat
        BY <1>2, <2>2
      <3> HIDE DEF V, D, before, after
      <3>4. SumFunctionOnSet(after, D) = v.weight + t[c]
        BY <2>4, <2>6, <2>7, <3>1, <3>2, <3>3
      <3>5. s[c] = SumFunctionOnSet(after, D)
        BY <1>1, <1>2, <2>7, <3>3, <3>4
      <3> QED
        BY <3>5 DEF D, after
    <2>8. CASE c # v.choice
      <3>1. s[c] = t[c]
        BY <1>2, <2>8
      <3> HIDE DEF V, D, before, after
      <3>2. s[c] = SumFunctionOnSet(after, D)
        BY <2>2, <2>4, <2>6, <2>8, <3>1
      <3> QED
        BY <3>2 DEF D, after
    <2> QED
      BY <2>7, <2>8
  <1> QED
    BY <1>4, <1>5 DEF Matches

\* The vote a handler writes is none of the empty rows.
LEMMA TotalsNext ==
  ASSUME IInv, VoterInv, TotalsMatchVotes, [Next]_vars
  PROVE  TotalsMatchVotes'
  <1>1. \A p \in Proposal : Matches(total[p], ballot[p])
    BY DEF TotalsMatchVotes, Matches
  <1>2. CASE UNCHANGED <<total, ballot>>
    BY <1>2 DEF TotalsMatchVotes, VotesFor
  <1>3. ASSUME NEW h \in Handler, InsertVote(h), ~HasVoted(handler[h].p, handler[h].by)
        PROVE  TotalsMatchVotes'
    <2> DEFINE i == handler[h]
               p == i.p
               u == i.by
               v == [choice |-> i.choice, weight |-> i.weight]
    <2>1. i \in Locals /\ p \in Proposal
      BY <1>3, WorksOnPublished DEF InsertVote, At
    <2>2. u \in Voter
      BY <1>3 DEF InsertVote, At, VoterInv
    <2>3. i.choice \in Choice /\ i.weight \in Nat /\ v \in Vote /\ v.choice = i.choice /\ v.weight = i.weight
      BY <2>1 DEF Locals, Vote
    <2>4. total \in [Proposal -> Totals] /\ ballot \in [Proposal -> [Voter -> Vote \cup {None}]]
      BY DEF IInv, TypeOK
    <2>5. ballot[p][u] = None
      BY <1>3 DEF HasVoted
    <2> DEFINE d == [ballot[p] EXCEPT ![u] = v]
               s == [total[p] EXCEPT ![v.choice] = @ + v.weight, !["votes"] = @ + 1]
    <2>6. ballot' = [ballot EXCEPT ![p] = d]
      BY <1>3 DEF InsertVote
    <2>7. total' = [total EXCEPT ![p] = s]
      BY <1>3, <2>3 DEF InsertVote
    <2>8. Matches(s, d)
      <3>1. v # None
        BY <2>3, GovernanceConstants
      <3> HIDE DEF i, v
      <3> QED
        BY <1>1, <2>1, <2>2, <2>3, <2>4, <2>5, <3>1, VoteCounted
    <2> HIDE DEF d, s
    <2>9. ASSUME NEW q \in Proposal PROVE Matches(total'[q], ballot'[q])
      <3>1. CASE q = p
        BY <2>1, <2>4, <2>6, <2>7, <2>8, <3>1
      <3>2. CASE q # p
        BY <1>1, <2>4, <2>6, <2>7, <3>2
      <3> QED
        BY <3>1, <3>2
    <2> QED
      BY <2>9 DEF TotalsMatchVotes, Matches, VotesFor
  <1>4. ASSUME NEW h \in Handler, Continue(h) PROVE TotalsMatchVotes'
    <2>1. (InsertVote(h) /\ ~HasVoted(handler[h].p, handler[h].by)) \/ UNCHANGED <<total, ballot>>
      BY <1>4 DEF Continue, InsertVote, WeighVote, Tally, Close, ApplySetting, ApplyFine, MarkExecuted,
         MarkRejected, SetRejected, Veto, Cancel, SetStatus, row
    <2> QED
      BY <1>2, <1>3, <2>1
  <1>5. ASSUME NEW h \in Handler, NEW p \in Proposal,
               StartClose(h, p) \/ (\E u \in Voter : Request(h, p, u)) \/ Die(h)
        PROVE  UNCHANGED <<total, ballot>>
    BY <1>5 DEF StartClose, Request, StartVote, Execute, StartVeto, StartCancel, Die, row
  <1>6. CASE Next
    <2>1. \/ \E h \in Handler : Continue(h)
          \/ UNCHANGED <<total, ballot>>
      BY <1>6, <1>5 DEF Next, CreateProposal, PassDeadline, EnactRules, ChangeMembership, Die, row
    <2> QED
      BY <1>2, <1>4, <2>1
  <1> QED
    BY <1>2, <1>6 DEF vars, row

LEMMA TotalsInit == Init => VoterInv /\ TotalsMatchVotes
  <1> SUFFICES ASSUME Init PROVE VoterInv /\ TotalsMatchVotes
    OBVIOUS
  <1>1. VoterInv
    BY IdleLocals DEF Init, VoterInv
  <1>2. ASSUME NEW p \in Proposal PROVE Matches(total[p], ballot[p])
    <2>1. {u \in Voter : ballot[p][u] # None} = {} /\ \A c \in Choice : VotesFor(ballot[p], c) = {}
      BY DEF Init, VotesFor
    <2>2. \A c \in Counter : total[p][c] = 0
      BY DEF Init, Zero
    <2>3. Cardinality({}) = 0
      BY FS_EmptySet
    <2>4. \A f : SumFunctionOnSet(f, {}) = 0
      BY SumEmpty
    <2> QED
      BY <2>1, <2>2, <2>3, <2>4 DEF Matches, Counter
  <1> QED
    BY <1>1, <1>2 DEF TotalsMatchVotes, Matches

-----------------------------------------------------------------------------
(* Theorems. *)

\* IInv holds always: types, and what every handler between two of its steps
\* still knows about the proposal it found (service.ts, all operations).
THEOREM GovernanceInvariant == Spec => []IInv
  BY InitInv, NextInv, PTL DEF Spec

\* service.ts, executeProposal and autoExecute: "executed" is only written
\* for a change that took effect.
THEOREM ExecutedWasApplied == Spec => []ExecutedMeansApplied
  <1>1. IInv => ExecutedMeansApplied
    BY DEF IInv
  <1> QED
    BY <1>1, GovernanceInvariant, PTL

\* service.ts, closeAndMaybeExecute: a change takes effect only on a count of
\* cast votes that reached the published threshold.
THEOREM MandateRequired == Spec => []AppliedOnMandate
  <1>1. IInv => AppliedOnMandate
    <2> SUFFICES ASSUME IInv, NEW p \in Proposal, applied[p] > 0
                 PROVE  \E t \in mandate[p] : AtMost(t, total[p]) /\ ThresholdReached(t, published[p])
      BY DEF AppliedOnMandate
    <2>1. PICK t \in mandate[p] : TRUE
      BY DEF IInv, MandateInv
    <2>2. AtMost(t, total[p]) /\ ThresholdReached(t, published[p])
      BY DEF IInv, MandateInv
    <2> QED
      BY <2>2
  <1> QED
    BY <1>1, GovernanceInvariant, PTL

\* wallet-fine.ts: however many executions of one proposal run or are retried,
\* the fine is taken once.
THEOREM FineTakenOnce == Spec => []FineAtMostOnce
  <1>1. IInv => FineAtMostOnce
    BY DEF IInv, FineInv, FineAtMostOnce
  <1> QED
    BY <1>1, GovernanceInvariant, PTL

\* repo.ts, insertVote: whatever votes race, the aggregate columns of a proposal
\* are the sums of its Vote rows, and voteCount their number.
THEOREM TotalsAreVotes == Spec => []TotalsMatchVotes
  <1>1. Init => VoterInv /\ TotalsMatchVotes
    BY TotalsInit
  <1>2. IInv /\ (VoterInv /\ TotalsMatchVotes) /\ [Next]_vars => (VoterInv /\ TotalsMatchVotes)'
    BY VoterNext, TotalsNext
  <1> QED
    BY <1>1, <1>2, GovernanceInvariant, PTL DEF Spec
=============================================================================
