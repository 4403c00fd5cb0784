--------------------------- MODULE MCPeriodTicks ---------------------------
(* PeriodTicks with two overlapping jobs over two citizens, or over a guild. *)
EXTENDS PeriodTicks, TLC

CONSTANTS alice, bob, root, guild, dues

CitizenWallets == {alice, bob, root}
CitizenOpening == [w \in CitizenWallets |-> CASE w = root -> 2 [] w = alice -> 1 [] OTHER -> 0]
NoSubs == [s \in {} |-> guild]

MemberWallets == {alice, guild, root}
MemberOpening == [w \in MemberWallets |-> IF w = root THEN 0 ELSE 1]
GuildPays == [s \in {dues} |-> guild]

Symmetric == Permutations(Run) \cup Permutations(Citizen)
=============================================================================
