-------------------------- MODULE MCMatchOperation --------------------------
(* A match by sets that takes two or three points, one by periods with a   *)
(* clock and an overtime, one whose result is declared: long enough to be  *)
(* decided, undone and decided again, and to go on under other rules.      *)
EXTENDS MatchOperation, TLC

BestOfThree ==
    [mode |-> "sets", setsToWin |-> 2, setPoints |-> 1, decidingPoints |-> 1, minAdvantage |-> 1,
     periodCount |-> 1, overtimePeriods |-> 0, hasClock |-> FALSE, mayEndTied |-> FALSE,
     points |-> {1}, stoppedPoints |-> {}]
LongSet ==
    [BestOfThree EXCEPT !.setsToWin = 1, !.decidingPoints = 2, !.minAdvantage = 2]
Football ==
    [mode |-> "periods", setsToWin |-> 1, setPoints |-> 0, decidingPoints |-> 0, minAdvantage |-> 0,
     periodCount |-> 2, overtimePeriods |-> 1, hasClock |-> TRUE, mayEndTied |-> TRUE,
     points |-> {1}, stoppedPoints |-> {}]
Judo ==
    [Football EXCEPT !.mode = "result", !.periodCount = 1, !.overtimePeriods = 0, !.hasClock = FALSE,
                     !.mayEndTied = FALSE]

AnnouncedSides == {{"home"}, Side}
Actors == Permutations(Actor)

Regulations == {BestOfThree, LongSet, Football, Judo}
(* A match goes on with more sets to win, or by the clock instead of by    *)
(* declaration, with ties that now may stand.                              *)
Replacements ==
    [r \in Regulations |-> CASE r = LongSet -> {BestOfThree} [] r = Judo -> {Football} [] OTHER -> {}]
Events == [m \in Mode |-> IF m = "sets" THEN 3 ELSE 2]
=============================================================================
