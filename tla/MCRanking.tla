----------------------------- MODULE MCRanking ------------------------------
(* Two default metrics and one of the operator's own, over two disciplines  *)
(* and a team that come and go as the super administrator has them: what    *)
(* rosters and assignments do to a discipline is the run of MCRoster.       *)
EXTENDS Ranking, TLC

CONSTANTS champion, third, own, first, bronze, alfa, futsal, xadrez, root, a1, a2, a3

MCMetric == {champion, third, own}
MCDefault == {champion, third}
MCStandard == champion :> first @@ third :> bronze
MCPosition == {first, bronze}
MCTeam == {alfa}
MCAccount == {root}
MCDiscipline == {futsal, xadrez}
MCAward == {a1, a2, a3}
Symmetric == Permutations(MCAward) \cup Permutations(MCDiscipline)
=============================================================================
