---------------------------- MODULE MCGovernance ----------------------------
(* Governance with one proposal and two or three citizens. *)
EXTENDS Governance, TLC

CONSTANTS p1, sovereign, deputy, citizen

Settings == [p \in Proposal |-> "setting"]
Fines == [p \in Proposal |-> "fine"]

RulesOf(mode, strategy, weights) ==
    [mode |-> mode, veto |-> TRUE, quorum |-> 5000, threshold |-> 6000, strategy |-> strategy,
     weights |-> weights, allowed |-> {"setting", "fine"}]

Equal == [u \in Voter |-> 1]
Heavy == [u \in Voter |-> IF u = deputy THEN 4 ELSE 1]

AutoDao == RulesOf("auto_dao", "one_person_one_vote", Equal)
Consultation == RulesOf("consultation", "one_person_one_vote", Equal)
WeightedAutoDao == RulesOf("auto_dao", "by_node_weight", Heavy)

OnlyAutoDao == {AutoDao}
OnlyConsultation == {Consultation}
BothModes == {AutoDao, Consultation}
OnlyWeighted == {WeightedAutoDao}

\* Any stage, or one before a proposal is declared passed.
Anywhere == Stage
BeforePassed == {"weigh", "insert", "tally", "close"}

Requests == Permutations(Handler \ {Cron})
=============================================================================
