------------------------------ MODULE MCRoster ------------------------------
(* One athlete of two teams and two disciplines, one of them of another     *)
(* edition too; the first super administrator and two more accounts.       *)
EXTENDS Roster, TLC

CONSTANTS root, ana, gil, futsal, xadrez, alfa, beta, a1

MCAccount == {root, ana, gil}
MCMember == {ana, gil}
MCDiscipline == {futsal, xadrez}
MCTeam == {alfa, beta}
MCAthlete == {a1}
MCElsewhere == {xadrez}
MCCatalog == {beta}
Symmetric == Permutations(MCMember)
=============================================================================
