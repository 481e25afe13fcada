------------------------ MODULE MatchOperation_proofs ------------------------
(***************************************************************************)
(* Theorems about the operation of a match, for any operators, regulations,*)
(* lease, scores typed in and numbers of events.                           *)
(*                                                                         *)
(* The invariant is the type with ResultIsSound.  The soundness of a       *)
(* result is inductive over the types alone: each way to end a match       *)
(* writes score, winner, tiebreak and recount together, and what writes    *)
(* one of them later leaves a mark (ending, late).  Unbegun says where a   *)
(* match starts from whatever its rules become.  SetsInv, beside it,       *)
(* bounds the sets of every standing an undo may put back.  ChainInv and   *)
(* SetsCount say how the active events lead from one standing to the next, *)
(* so that induction along their numbers gives what the score earned; but  *)
(* for what a closed set needs, they do not speak of the rules, which may  *)
(* be replaced at any moment.                                              *)
(***************************************************************************)
EXTENDS MatchOperation, FiniteSetTheorems, WellFoundedInduction, TLAPS

IInv == TypeOK /\ ResultIsSound

-----------------------------------------------------------------------------
(* Lemmas about scores and regulations                                     *)

LEMMA Sides ==
    /\ Side = {"home", "away"} /\ None \notin Side
    /\ Other("home") = "away" /\ Other("away") = "home"
    /\ \A s \in Side : Other(s) \in Side /\ Other(s) # s
  <1>1. \A s \in Side : \E t \in Side : t # s
    BY DEF Side
  <1>2. \A s \in Side : Other(s) \in Side /\ Other(s) # s
    BY <1>1 DEF Other
  <1> QED
    BY <1>2, NoneAssumption DEF Side

\* The numbers of the regulation in force.
LEMMA Rules ==
    ASSUME TypeOK
    PROVE  /\ rules.mode \in Mode
           /\ rules.setsToWin \in Nat /\ rules.setPoints \in Nat /\ rules.decidingPoints \in Nat
           /\ rules.minAdvantage \in Nat /\ rules.periodCount \in Nat /\ rules.overtimePeriods \in Nat
           /\ rules.hasClock \in BOOLEAN /\ rules.mayEndTied \in BOOLEAN
           /\ rules.points \subseteq Nat /\ rules.stoppedPoints \subseteq Nat
  <1>1. rules \in RegulationType
    BY RegulationAssumption DEF TypeOK
  <1> QED
    BY <1>1 DEF RegulationType, ScoringPoints, SecondaryPoints

\* The leading side of a score that is not tied is one, and leads.
LEMMA Leads ==
    ASSUME NEW sc \in Score
    PROVE  /\ Leader(sc) \in Side \cup {None}
           /\ Tied(sc) <=> Leader(sc) = None
           /\ LeaderEntry(sc) \in Side \cup {None}
  <1>1. CASE Tied(sc)
    BY <1>1, Sides DEF Leader, LeaderEntry
  <1>2. CASE ~Tied(sc)
    <2>1. \E s \in Side : sc[s] > sc[Other(s)]
      <3>1. sc["home"] \in Nat /\ sc["away"] \in Nat /\ sc["home"] # sc["away"]
        BY <1>2, Sides DEF Score, Tied
      <3> QED
        BY <3>1, Sides
    <2>2. Leader(sc) \in Side
      BY <1>2, <2>1 DEF Leader
    <2> QED
      BY <1>2, <2>2, Sides DEF LeaderEntry
  <1> QED
    BY <1>1, <1>2

\* What a period closed with is a score.
LEMMA Closed ==
    ASSUME TypeOK, NEW p \in Nat \ {0}, NEW final \in Score
    PROVE  /\ DOMAIN Close(p, final) \subseteq Nat \ {0}
           /\ \A q \in DOMAIN Close(p, final) : Close(p, final)[q] \in Score
  BY DEF Close, TypeOK

\* A side's score after a point, and the standing an event is recorded on.
LEMMA Counting ==
    ASSUME NEW sc \in Score, NEW s \in Side, NEW n \in Nat
    PROVE  [sc EXCEPT ![s] = @ + n] \in Score
  BY DEF Score

LEMMA Recorded ==
    ASSUME TypeOK, NEW side \in Side \cup {None}, NEW points \in Nat, NEW declares \in BOOLEAN,
           NEW after \in Score, Record(side, points, declares, after)
    PROVE  events' \subseteq Event /\ lastSequence' \in Nat /\ score' \in Score
  <1> DEFINE event == [sequence |-> lastSequence + 1, active |-> TRUE, side |-> side, points |-> points,
                       declares |-> declares,
                       before |-> [score |-> score, part |-> part, period |-> period], after |-> after]
  <1>1. [score |-> score, part |-> part, period |-> period] \in Standing
    BY DEF TypeOK, Standing
  <1>2. event \in Event
    BY <1>1 DEF TypeOK, Event
  <1>3. events' = events \cup {event} /\ lastSequence' = lastSequence + 1 /\ score' = after
    BY DEF Record
  <1> HIDE DEF event
  <1> QED
    BY <1>2, <1>3 DEF TypeOK

-----------------------------------------------------------------------------
(* Types                                                                   *)

\* The part of the type an action at the table can disturb.
BoardOK ==
    /\ score \in Score /\ part \in Score
    /\ period \in Nat \ {0}
    /\ DOMAIN results \subseteq Nat \ {0} /\ \A p \in DOMAIN results : results[p] \in Score
    /\ events \subseteq Event
    /\ lastSequence \in Nat

LEMMA ZeroScore == Zero \in Score
  BY DEF Zero, Score

LEMMA PointType ==
    ASSUME TypeOK, NEW s \in Side, NEW n \in rules.points \cup rules.stoppedPoints, Point(s, n)
    PROVE  BoardOK'
  <1>1. n \in Nat
    BY Rules
  <1>2. CASE rules.mode = "sets"
    <2> DEFINE points == [part EXCEPT ![s] = @ + n]
               closes == Wins(s, period, points)
               after == [score EXCEPT ![s] = @ + (IF closes THEN 1 ELSE 0)]
               goesOn == closes /\ ~MatchDecided(after)
    <2>1. points \in Score
      BY <1>1, Counting DEF TypeOK
    <2>2. after \in Score
      <3>1. (IF closes THEN 1 ELSE 0) \in Nat
        OBVIOUS
      <3> HIDE DEF closes
      <3> QED
        BY <3>1, Counting DEF TypeOK
    <2>3. /\ Record(s, n, FALSE, after)
          /\ part' = IF goesOn THEN Zero ELSE points
          /\ period' = IF goesOn THEN period + 1 ELSE period
          /\ results' = IF closes THEN Close(period, points) ELSE results
      BY <1>2 DEF Point, ScoreInSets
    <2> HIDE DEF points, closes, after, goesOn
    <2>4. events' \subseteq Event /\ lastSequence' \in Nat /\ score' \in Score
      BY <1>1, <2>2, <2>3, Recorded
    <2>5. part' \in Score /\ period' \in Nat \ {0}
      BY <2>1, <2>3, ZeroScore DEF TypeOK
    <2>6. DOMAIN results' \subseteq Nat \ {0} /\ \A p \in DOMAIN results' : results'[p] \in Score
      <3>1. CASE closes
        BY <2>1, <2>3, <3>1, Closed DEF TypeOK
      <3>2. CASE ~closes
        BY <2>3, <3>2 DEF TypeOK
      <3> QED
        BY <3>1, <3>2
    <2> QED
      BY <2>4, <2>5, <2>6 DEF BoardOK
  <1>3. CASE rules.mode # "sets"
    <2>1. /\ Record(s, n, FALSE, [score EXCEPT ![s] = @ + n])
          /\ part' = [part EXCEPT ![s] = @ + n]
          /\ UNCHANGED <<period, results>>
      BY <1>3 DEF Point, ScoreInPeriod
    <2>2. [score EXCEPT ![s] = @ + n] \in Score /\ part' \in Score
      BY <1>1, <2>1, Counting DEF TypeOK
    <2>3. events' \subseteq Event /\ lastSequence' \in Nat /\ score' \in Score
      BY <1>1, <2>1, <2>2, Recorded
    <2> QED
      BY <2>1, <2>2, <2>3 DEF BoardOK, TypeOK
  <1> QED
    BY <1>2, <1>3

LEMMA RegisterType ==
    ASSUME TypeOK, NEW a \in Actor, RegisterEvent(a)
    PROVE  BoardOK'
  <1>1. ASSUME NEW s \in Side, NEW n \in rules.points \cup rules.stoppedPoints, Point(s, n)
        PROVE  BoardOK'
    BY <1>1, PointType
  <1>2. ASSUME Declare
        PROVE  BoardOK'
    <2>1. PICK w \in Side \cup {None} : Record(None, 0, TRUE, [s \in Side |-> IF s = w THEN 1 ELSE 0])
      BY <1>2 DEF Declare
    <2>2. [s \in Side |-> IF s = w THEN 1 ELSE 0] \in Score
      BY DEF Score
    <2>3. events' \subseteq Event /\ lastSequence' \in Nat /\ score' \in Score
      BY <2>1, <2>2, Recorded
    <2> QED
      BY <1>2, <2>3 DEF Declare, BoardOK, TypeOK
  <1>3. ASSUME Note
        PROVE  BoardOK'
    <2>1. Record(None, 0, FALSE, score) /\ score \in Score
      BY <1>3 DEF Note, TypeOK
    <2>2. events' \subseteq Event /\ lastSequence' \in Nat /\ score' \in Score
      BY <2>1, Recorded
    <2> QED
      BY <1>3, <2>2 DEF Note, BoardOK, TypeOK
  <1> QED
    BY <1>1, <1>2, <1>3 DEF RegisterEvent

\* Registering records an event, whichever it is.
LEMMA Registered ==
    ASSUME NEW a \in Actor, RegisterEvent(a)
    PROVE  \E side, points, declares, after : Record(side, points, declares, after)
  <1>1. ASSUME NEW s \in Side, NEW n, Point(s, n)
        PROVE  \E declares, after : Record(s, n, declares, after)
    BY <1>1 DEF Point, ScoreInSets, ScoreInPeriod
  <1>2. CASE Declare \/ Note
    BY <1>2 DEF Declare, Note
  <1> QED
    BY <1>1, <1>2 DEF RegisterEvent

\* Undoing puts back a standing that was one.
LEMMA UndoType ==
    ASSUME TypeOK, NEW e \in events, Restore(e), UNCHANGED lastSequence
    PROVE  BoardOK'
  <1>1. e \in Event /\ e.before \in Standing
    BY DEF TypeOK, Event
  <1>2. [e EXCEPT !.active = FALSE] \in Event
    <2>1. \A v \in BOOLEAN : [e EXCEPT !.active = v] \in Event
      BY <1>1 DEF Event
    <2> QED
      BY <2>1
  <1>3. events' \subseteq Event
    BY <1>2 DEF Restore, TypeOK
  <1>4. score' \in Score /\ part' \in Score /\ period' \in Nat \ {0}
    BY <1>1 DEF Restore, Standing
  <1>5. DOMAIN results' \subseteq Nat \ {0} /\ \A p \in DOMAIN results' : results'[p] \in Score
    BY DEF Restore, ResultsWithout, TypeOK
  <1> QED
    BY <1>3, <1>4, <1>5 DEF BoardOK, TypeOK

\* A match that has not begun has no event and no parcial.
LEMMA NothingBegun ==
    ASSUME TypeOK, ~Begun
    PROVE  lastSequence = 0 /\ DOMAIN results = {}
  <1>1. lastSequence \in Nat /\ ~(lastSequence > 0) /\ DOMAIN results = {}
    BY DEF TypeOK, Begun
  <1> QED
    BY <1>1

\* Whether a tie may stand is a yes or no.
LEMMA TieRule ==
    ASSUME TypeOK
    PROVE  TieMayStand \in BOOLEAN
  BY DEF TieMayStand

LEMMA MaxOfTwo ==
    ASSUME NEW m \in Int, NEW n \in Int
    PROVE  Max({m, n}) \in {m, n} /\ Max({m, n}) >= m /\ Max({m, n}) >= n
  <1>1. \E x \in {m, n} : \A y \in {m, n} : x >= y
    BY m >= n \/ n >= m
  <1> QED
    BY <1>1 DEF Max

LEMMA MaxOfNats == \A m, n \in Nat : Max({m, n}) \in Nat
  BY MaxOfTwo

\* A sheet holds a score, and parcials numbered from one.
LEMMA SheetType ==
    ASSUME TypeOK, NEW sheet \in Sheets
    PROVE  /\ sheet.score \in Score
           /\ DOMAIN sheet.results \subseteq Nat \ {0}
           /\ \A p \in DOMAIN sheet.results : sheet.results[p] \in Score
           /\ DOMAIN sheet.results # {} => Cardinality(DOMAIN sheet.results) \in Nat \ {0}
  <1>1. CASE rules.mode = "sets"
    <2>1. PICK w \in SetSheets : sheet = SheetOfSets(w)
      BY <1>1 DEF Sheets
    <2>2. PICK n \in rules.setsToWin..(2 * rules.setsToWin - 1) : w \in [1..n -> Side]
      BY DEF SetSheets
    <2>3. n \in Nat /\ DOMAIN w = 1..n
      BY <2>2, Rules
    <2>4. IsFiniteSet(DOMAIN w) /\ Cardinality(DOMAIN w) = n
      BY <2>3, FS_Interval
    <2>5. \A s \in Side : Cardinality({i \in DOMAIN w : w[i] = s}) \in Nat
      <3> TAKE s \in Side
      <3>1. IsFiniteSet({i \in DOMAIN w : w[i] = s})
        BY <2>4, FS_Subset
      <3> QED
        BY <3>1, FS_CardinalityType
    <2>6. \A i \in DOMAIN w : Max({SetTarget(i), rules.minAdvantage}) \in Nat
      <3> TAKE i \in DOMAIN w
      <3>1. SetTarget(i) \in Nat /\ rules.minAdvantage \in Nat
        BY <2>3, Rules DEF SetTarget
      <3> QED
        BY <3>1, MaxOfNats
    <2>7. sheet.score \in Score
      BY <2>1, <2>5 DEF SheetOfSets, Score
    <2>8. /\ DOMAIN sheet.results = DOMAIN w
          /\ \A i \in DOMAIN w :
               sheet.results[i] = [s \in Side |-> IF w[i] = s THEN Max({SetTarget(i), rules.minAdvantage}) ELSE 0]
      BY <2>1 DEF SheetOfSets
    <2>9. \A i \in DOMAIN w : sheet.results[i] \in Score
      <3> TAKE i \in DOMAIN w
      <3> DEFINE most == Max({SetTarget(i), rules.minAdvantage})
      <3>1. most \in Nat
        BY <2>6
      <3>2. sheet.results[i] = [s \in Side |-> IF w[i] = s THEN most ELSE 0]
        BY <2>8
      <3> HIDE DEF most
      <3> QED
        BY <3>1, <3>2 DEF Score
    <2> QED
      BY <2>3, <2>4, <2>7, <2>8, <2>9
  <1>2. CASE rules.mode # "sets"
    <2>1. PICK sc \in TypedScore : \/ sheet = [score |-> sc, results |-> << >>]
                                   \/ sheet = [score |-> sc, results |-> <<sc>>]
      BY <1>2 DEF Sheets
    <2>2. sc \in Score
      BY BoundAssumption DEF TypedScore, Score
    <2>3. CASE sheet = [score |-> sc, results |-> << >>]
      BY <2>2, <2>3
    <2>4. CASE sheet = [score |-> sc, results |-> <<sc>>]
      <3>1. DOMAIN sheet.results = 1..1 /\ sheet.results[1] = sc /\ sheet.score = sc
        BY <2>4
      <3>2. 1..1 = {1}
        OBVIOUS
      <3>3. Cardinality({1}) = 1
        BY FS_Singleton, Zenon
      <3> QED
        BY <2>2, <3>1, <3>2, <3>3
    <2> QED
      BY <2>1, <2>3, <2>4
  <1> QED
    BY <1>1, <1>2


\* Every action keeps the types.
LEMMA TypeStep ==
    ASSUME TypeOK, [Next]_vars
    PROVE  TypeOK'
  <1>1. ASSUME NEW a \in Actor, ClaimOperator(a) \/ ReleaseOperator(a) \/ Start(a)
        PROVE  TypeOK'
    <2>1. TakenBy(a) \in Lock /\ None \in Lock \cup {None}
      BY DEF TakenBy, Lock, TypeOK
    <2>2. lock' \in Lock \cup {None}
      BY <1>1, <2>1 DEF ClaimOperator, ReleaseOperator, Start
    <2>3. CASE Start(a)
      BY <2>2, <2>3 DEF Start, TypeOK, Status, discipline, board, outcome
    <2> QED
      BY <1>1, <2>2, <2>3 DEF ClaimOperator, ReleaseOperator, TypeOK, discipline, board, outcome
  <1>2. ASSUME NEW a \in Actor, NEW p \in BOOLEAN, SetPaused(a, p)
        PROVE  TypeOK'
    <2>1. paused' \in BOOLEAN
      BY <1>2 DEF SetPaused
    <2> QED
      BY <1>2, <2>1 DEF SetPaused, TypeOK, discipline, board, outcome
  <1>3. ASSUME NEW a \in Actor, AdvancePeriod(a)
        PROVE  TypeOK'
    <2>1. part \in Score /\ period \in Nat \ {0} /\ results' = Close(period, part)
      BY <1>3 DEF AdvancePeriod, TypeOK
    <2>2. DOMAIN results' \subseteq Nat \ {0} /\ \A q \in DOMAIN results' : results'[q] \in Score
      BY <2>1, Closed
    <2>3. paused' \in BOOLEAN
      BY <1>3 DEF AdvancePeriod
    <2> QED
      BY <1>3, <2>1, <2>2, <2>3, ZeroScore DEF AdvancePeriod, TypeOK, discipline, outcome
  <1>4. ASSUME NEW a \in Actor, RegisterEvent(a)
        PROVE  TypeOK'
    <2>1. BoardOK'
      BY <1>4, RegisterType
    <2> QED
      BY <1>4, <2>1 DEF RegisterEvent, TypeOK, BoardOK, discipline, outcome
  <1>5. ASSUME NEW a \in Actor, UndoEvent(a)
        PROVE  TypeOK'
    <2>1. BoardOK'
      BY <1>5, UndoType DEF UndoEvent
    <2>2. late' \in BOOLEAN
      BY <1>5 DEF UndoEvent, Official, TypeOK
    <2> QED
      BY <1>5, <2>1, <2>2 DEF UndoEvent, TypeOK, BoardOK, discipline, outcome
  <1>6. ASSUME NEW a \in Actor, Finish(a)
        PROVE  TypeOK'
    <2>1. PICK broken \in Broken(score) :
            /\ Ends("finish", [score |-> score, winner |-> WinnerOf(score, broken)])
            /\ tiebreak' = broken
      BY <1>6 DEF Finish
    <2>2. broken \in Side \cup {None} /\ WinnerOf(score, broken) \in Side \cup {None}
      BY Leads DEF Broken, WinnerOf, TypeOK
    <2>3. /\ winner' \in Side \cup {None} /\ counted' \in Result /\ late' = FALSE /\ ending' = "finish"
          /\ tieStands' \in BOOLEAN
      BY <2>1, <2>2, TieRule DEF Ends, Result, TypeOK
    <2>4. part \in Score /\ period \in Nat \ {0}
          /\ results' = IF rules.mode = "sets" THEN results ELSE Close(period, part)
      BY <1>6 DEF Finish, TypeOK
    <2>5. DOMAIN results' \subseteq Nat \ {0} /\ \A q \in DOMAIN results' : results'[q] \in Score
      BY <2>4, Closed DEF TypeOK
    <2> QED
      BY <1>6, <2>1, <2>2, <2>3, <2>5 DEF Finish, TypeOK, Status, discipline
  <1>7. ASSUME Update
        PROVE  TypeOK'
    BY <1>7 DEF Update, CanTransition, TypeOK, Status, board, discipline
  <1>8. ASSUME WalkOver
        PROVE  TypeOK'
    <2>1. PICK w \in sides, known \in SUBSET Side :
            /\ sides' = sides \cup known
            /\ score' = [s \in Side |-> IF s = w THEN 1 ELSE 0]
            /\ Ends("walkover", [score |-> [s \in Side |-> IF s = w THEN 1 ELSE 0], winner |-> w])
      BY <1>8 DEF WalkOver
    <2>2. score' \in Score /\ w \in Side
      BY <2>1 DEF Score, TypeOK
    <2>3. /\ winner' \in Side /\ counted' \in Result /\ late' = FALSE /\ ending' = "walkover"
          /\ tieStands' \in BOOLEAN
      BY <2>1, <2>2, TieRule DEF Ends, Result
    <2> QED
      BY <1>8, <2>1, <2>2, <2>3 DEF WalkOver, TypeOK, Status, discipline
  <1>9. ASSUME Delete
        PROVE  TypeOK'
    BY <1>9 DEF Delete, TypeOK, Status, discipline, board, outcome
  <1>10. ASSUME CorrectResult
         PROVE  TypeOK'
    <2>1. PICK sc \in TypedScore :
            /\ Ends("correction",
                    [score |-> sc, winner |-> IF MustBreak(sc) THEN tiebreak ELSE LeaderEntry(sc)])
            /\ score' = sc
            /\ tiebreak' = IF MustBreak(sc) THEN tiebreak ELSE None
      BY <1>10 DEF CorrectResult
    <2>2. sc \in Score
      BY BoundAssumption DEF TypedScore, Score
    <2>3. (IF MustBreak(sc) THEN tiebreak ELSE LeaderEntry(sc)) \in Side \cup {None}
      BY <2>2, Leads DEF TypeOK
    <2>4. /\ winner' \in Side \cup {None} /\ counted' \in Result
          /\ late' = FALSE /\ ending' = "correction" /\ tieStands' \in BOOLEAN
      BY <2>1, <2>2, <2>3, TieRule DEF Ends, Result
    <2> QED
      BY <1>10, <2>1, <2>2, <2>4 DEF CorrectResult, TypeOK, Status, discipline
  <1>11. ASSUME RecordResult
         PROVE  TypeOK'
    <2>1. PICK sheet \in Sheets :
            /\ \E broken \in Broken(sheet.score) :
                 /\ Ends("sheet", [score |-> sheet.score, winner |-> WinnerOf(sheet.score, broken)])
                 /\ tiebreak' = broken
            /\ score' = sheet.score
            /\ results' = sheet.results
            /\ period' = IF DOMAIN sheet.results = {} THEN Max({1, PeriodCount})
                         ELSE Cardinality(DOMAIN sheet.results)
      BY <1>11 DEF RecordResult
    <2>2. PICK broken \in Broken(sheet.score) :
            /\ Ends("sheet", [score |-> sheet.score, winner |-> WinnerOf(sheet.score, broken)])
            /\ tiebreak' = broken
      BY <2>1
    <2>3. sheet.score \in Score
      BY SheetType
    <2>4. broken \in Side \cup {None} /\ WinnerOf(sheet.score, broken) \in Side \cup {None}
      BY <2>3, Leads DEF Broken, WinnerOf, TypeOK
    <2>5. /\ winner' \in Side \cup {None} /\ counted' \in Result
          /\ late' = FALSE /\ ending' = "sheet" /\ tieStands' \in BOOLEAN
      BY <2>2, <2>3, <2>4, TieRule DEF Ends, Result
    <2>6. period' \in Nat \ {0}
      <3>1. PeriodCount \in Int
        BY Rules DEF PeriodCount
      <3>2. Max({1, PeriodCount}) \in Nat \ {0}
        BY <3>1, MaxOfTwo
      <3> QED
        BY <2>1, <3>2, SheetType
    <2>7. DOMAIN results' \subseteq Nat \ {0} /\ \A q \in DOMAIN results' : results'[q] \in Score
      BY <2>1, SheetType
    <2> QED
      BY <1>11, <2>1, <2>2, <2>3, <2>4, <2>5, <2>6, <2>7, ZeroScore DEF RecordResult, TypeOK, Status, discipline
  <1>12. ASSUME Tick
         PROVE  TypeOK'
    BY <1>12, BoundAssumption DEF Tick, TypeOK, discipline, board, outcome
  <1>13. CASE UNCHANGED vars
    BY <1>13 DEF vars, discipline, board, outcome, TypeOK
  <1>14. ASSUME DisciplineUpdate
         PROVE  TypeOK'
    <2>1. rules' \in Regulation
      BY <1>14, BoundAssumption DEF DisciplineUpdate, TypeOK
    <2>2. recast' \in {"never", "length", "anew"}
      BY <1>14 DEF DisciplineUpdate, Recast, Begun, TypeOK
    <2> QED
      BY <1>14, <2>1, <2>2 DEF DisciplineUpdate, TypeOK, board, outcome
  <1> QED
    BY <1>1, <1>2, <1>3, <1>4, <1>5, <1>6, <1>7, <1>8, <1>9, <1>10, <1>11, <1>12, <1>13, <1>14 DEF Next, Step

-----------------------------------------------------------------------------
(* Results                                                                 *)

\* A score, its winner and its tiebreak, as the three ways to enter them agree.
LEMMA Entered ==
    ASSUME NEW sc \in Score, sides = Side, NEW broken \in Broken(sc), rules \in RegulationType
    PROVE  /\ ~Tied(sc) => WinnerOf(sc, broken) = Leader(sc)
           /\ MustBreak(sc) => broken # None /\ WinnerOf(sc, broken) = broken
           /\ Tied(sc) /\ ~MustBreak(sc) => WinnerOf(sc, broken) = None
  <1>1. CASE MustBreak(sc)
    BY <1>1, Sides DEF Broken, WinnerOf, MustBreak
  <1>2. CASE ~MustBreak(sc)
    <2>1. broken = None /\ WinnerOf(sc, broken) = LeaderEntry(sc)
      BY <1>2 DEF Broken, WinnerOf
    <2>2. LeaderEntry(sc) = Leader(sc)
      BY Leads, Sides DEF LeaderEntry
    <2> QED
      BY <1>2, <2>1, <2>2, Leads
  <1> QED
    BY <1>1, <1>2

\* Every action keeps a sound result sound, or leaves its mark.
LEMMA ResultStep ==
    ASSUME TypeOK, ResultIsSound, [Next]_vars
    PROVE  ResultIsSound'
  <1>0. rules \in RegulationType
    BY RegulationAssumption DEF TypeOK
  <1>1. ASSUME NEW a \in Actor, ClaimOperator(a) \/ ReleaseOperator(a) \/ UndoEvent(a)
        PROVE  ResultIsSound'
    <2>1. CASE ClaimOperator(a) \/ ReleaseOperator(a)
      BY <2>1 DEF ClaimOperator, ReleaseOperator, ResultIsSound, Official, Tied, Leader,
                  discipline, board, outcome
    <2>2. CASE UndoEvent(a)
      <3>1. Official' => late'
        BY <2>2 DEF UndoEvent, Official
      <3> QED
        BY <3>1 DEF ResultIsSound
    <2> QED
      BY <1>1, <2>1, <2>2
  <1>2. ASSUME NEW a \in Actor,
               \/ Start(a) \/ AdvancePeriod(a) \/ RegisterEvent(a)
               \/ \E p \in BOOLEAN : SetPaused(a, p)
        PROVE  ResultIsSound'
    <2>1. ~Official'
      BY <1>2 DEF Start, AdvancePeriod, RegisterEvent, SetPaused, Official
    <2> QED
      BY <2>1 DEF ResultIsSound
  <1>3. ASSUME NEW a \in Actor, Finish(a)
        PROVE  ResultIsSound'
    <2>1. PICK broken \in Broken(score) :
            /\ Ends("finish", [score |-> score, winner |-> WinnerOf(score, broken)])
            /\ tiebreak' = broken
      BY <1>3 DEF Finish
    <2>2. /\ score' = score /\ sides' = sides /\ ending' = "finish" /\ tieStands' = TieMayStand
          /\ counted' = [score |-> score, winner |-> WinnerOf(score, broken)]
          /\ winner' = WinnerOf(score, broken)
      BY <1>3, <2>1 DEF Finish, Ends
    <2>3. score \in Score
      BY DEF TypeOK
    <2> QED
      BY <1>0, <2>1, <2>2, <2>3, Entered DEF ResultIsSound, Tied, MustBreak, Leader
  <1>4. ASSUME Update
        PROVE  ResultIsSound'
    <2>1. CASE status \in {"FINISHED", "WALKOVER"}
      <3>1. sides' = sides /\ status' = status /\ ending' = ending
        BY <1>4, <2>1 DEF Update, CanTransition, MayDefine
      <3> QED
        BY <1>4, <3>1 DEF Update, ResultIsSound, Official, Tied, Leader, board
    <2>2. CASE status = "LIVE"
      <3>1. Official' => ending' = "update"
        BY <1>4, <2>2 DEF Update, CanTransition, Official
      <3> QED
        BY <3>1 DEF ResultIsSound
    <2>3. CASE status \in Status \ {"FINISHED", "WALKOVER", "LIVE"}
      <3>1. ~Official'
        BY <1>4, <2>3 DEF Update, CanTransition, Official, Status
      <3> QED
        BY <3>1 DEF ResultIsSound
    <2> QED
      BY <2>1, <2>2, <2>3 DEF TypeOK
  <1>5. ASSUME WalkOver
        PROVE  ResultIsSound'
    <2>1. PICK w \in sides :
            /\ score' = [s \in Side |-> IF s = w THEN 1 ELSE 0]
            /\ Ends("walkover", [score |-> [s \in Side |-> IF s = w THEN 1 ELSE 0], winner |-> w])
            /\ status' = "WALKOVER"
      BY <1>5 DEF WalkOver
    <2>2. counted' = [score |-> score', winner |-> winner'] /\ ending' = "walkover"
      BY <2>1 DEF Ends
    <2> QED
      BY <2>1, <2>2 DEF ResultIsSound
  <1>6. ASSUME Delete
        PROVE  ResultIsSound'
    <2>1. ~Official'
      BY <1>6 DEF Delete, Official
    <2> QED
      BY <2>1 DEF ResultIsSound
  <1>7. ASSUME CorrectResult
        PROVE  ResultIsSound'
    <2>1. PICK sc \in TypedScore :
            /\ MustBreak(sc) => tiebreak # None
            /\ Ends("correction",
                    [score |-> sc, winner |-> IF MustBreak(sc) THEN tiebreak ELSE LeaderEntry(sc)])
            /\ score' = sc
            /\ tiebreak' = IF MustBreak(sc) THEN tiebreak ELSE None
      BY <1>7 DEF CorrectResult
    <2>2. sc \in Score
      BY BoundAssumption DEF TypedScore, Score
    <2>3. /\ winner' = IF MustBreak(sc) THEN tiebreak ELSE LeaderEntry(sc)
          /\ counted' = [score |-> score', winner |-> winner']
          /\ ending' = "correction" /\ tieStands' = TieMayStand
      BY <2>1 DEF Ends
    <2>4. sides' = sides
      BY <1>7 DEF CorrectResult
    <2>5. sides = Side => LeaderEntry(sc) = Leader(sc)
      BY <2>2, Leads, Sides DEF LeaderEntry
    <2>6. MustBreak(sc) <=> Tied(sc) /\ ~TieMayStand
      BY DEF MustBreak
    <2>7. Tied(sc) <=> Leader(sc) = None
      BY <2>2, Leads
    <2> HIDE DEF MustBreak, Tied, Leader
    <2>8. /\ Tied(score)' <=> Tied(sc)
          /\ Leader(score)' = Leader(sc)
      BY <2>1, <2>4 DEF Tied, Leader
    <2> QED
      BY <2>1, <2>3, <2>4, <2>5, <2>6, <2>7, <2>8 DEF ResultIsSound
  <1>8. ASSUME RecordResult
        PROVE  ResultIsSound'
    <2>1. PICK sheet \in Sheets :
            /\ \E broken \in Broken(sheet.score) :
                 /\ Ends("sheet", [score |-> sheet.score, winner |-> WinnerOf(sheet.score, broken)])
                 /\ tiebreak' = broken
            /\ score' = sheet.score
      BY <1>8 DEF RecordResult
    <2>2. PICK broken \in Broken(sheet.score) :
            /\ Ends("sheet", [score |-> sheet.score, winner |-> WinnerOf(sheet.score, broken)])
            /\ tiebreak' = broken
      BY <2>1
    <2>3. /\ sides' = sides /\ sides = Side /\ ending' = "sheet" /\ tieStands' = TieMayStand
          /\ counted' = [score |-> score', winner |-> winner']
          /\ winner' = WinnerOf(sheet.score, broken)
      BY <1>8, <2>1, <2>2 DEF RecordResult, Ends
    <2>4. sheet.score \in Score
      BY SheetType
    <2>5. /\ ~Tied(sheet.score) => winner' = Leader(sheet.score)
          /\ Tied(sheet.score) /\ ~TieMayStand => winner' # None /\ winner' = tiebreak'
          /\ Tied(sheet.score) /\ TieMayStand => winner' = None
      BY <1>0, <2>2, <2>3, <2>4, Entered DEF MustBreak
    <2>6. /\ Tied(score)' <=> Tied(sheet.score)
          /\ Leader(score)' = Leader(sheet.score)
      BY <2>1, <2>3 DEF Tied, Leader
    <2> QED
      BY <2>3, <2>5, <2>6 DEF ResultIsSound
  <1>9. CASE DisciplineUpdate \/ Tick \/ UNCHANGED vars
    BY <1>9 DEF DisciplineUpdate, Tick, vars, board, outcome, ResultIsSound, Official, Tied, Leader
  <1> QED
    BY <1>1, <1>2, <1>3, <1>4, <1>5, <1>6, <1>7, <1>8, <1>9 DEF Next, Step

-----------------------------------------------------------------------------
(* The theorems                                                            *)

LEMMA InitInv == Init => IInv
  <1> SUFFICES ASSUME Init PROVE IInv
    OBVIOUS
  <1>1. results \in [{} -> Score] /\ DOMAIN results = {}
    BY DEF Init
  <1>2. TypeOK
    <2>1. /\ rules \in Regulation /\ status \in Status /\ sides \subseteq Side
          /\ score \in Score /\ part \in Score /\ period \in Nat \ {0}
      BY ZeroScore, AnnouncedAssumption DEF Init, Status
    <2>2. DOMAIN results \subseteq Nat \ {0} /\ \A p \in DOMAIN results : results[p] \in Score
      BY <1>1
    <2>3. paused \in BOOLEAN /\ started \in BOOLEAN /\ late \in BOOLEAN
      BY DEF Init
    <2>4. /\ lock \in Lock \cup {None} /\ events \subseteq Event /\ lastSequence \in Nat
          /\ winner \in Side \cup {None} /\ tiebreak \in Side \cup {None}
          /\ counted \in Result \cup {None}
      BY DEF Init
    <2>5. /\ now \in 0..MaxTime
          /\ ending \in {"none", "finish", "update", "walkover", "sheet", "correction"}
      BY BoundAssumption DEF Init
    <2>6. tieStands \in BOOLEAN /\ recast \in {"never", "length", "anew"}
      BY DEF Init
    <2> QED
      BY <2>1, <2>2, <2>3, <2>4, <2>5, <2>6 DEF TypeOK
  <1>3. ResultIsSound
    BY DEF Init, ResultIsSound, Official
  <1> QED
    BY <1>2, <1>3 DEF IInv

LEMMA SpecInv == Spec => []IInv
  <1>1. IInv /\ [Next]_vars => IInv'
    BY TypeStep, ResultStep DEF IInv
  <1> QED
    BY <1>1, InitInv, PTL DEF Spec

\* Scores, periods, parcials, events, lock and outcome keep their types.
THEOREM TypeCorrect == Spec => []TypeOK
  <1>1. IInv => TypeOK
    BY DEF IInv
  <1> QED
    BY <1>1, SpecInv, PTL

\* However a match came to its end and whatever was done before, its result
\* names the winner its score or tiebreak gives and is the one counted, but
\* for an end through match/update and an undo after the end.
THEOREM ResultIsSoundHolds == Spec => []ResultIsSound
  <1>1. IInv => ResultIsSound
    BY DEF IInv
  <1> QED
    BY <1>1, SpecInv, PTL

\* No handler reopens an official result or forgets an event.
THEOREM NoWayBackHolds == Spec => NoWayBack
  <1>1. ASSUME IInv, [Next]_vars
        PROVE  /\ Official => Official'
               /\ lastSequence' >= lastSequence
               /\ \A e \in events : e \in events' \/ [e EXCEPT !.active = FALSE] \in events'
    <2>0. TypeOK /\ lastSequence \in Nat
      BY <1>1 DEF IInv, TypeOK
    <2>1. Official => Official'
      <3> SUFFICES ASSUME Official PROVE Official'
        OBVIOUS
      <3>1. ASSUME NEW a \in Actor, Step(a)
            PROVE  Official'
        BY <3>1 DEF Step, ClaimOperator, ReleaseOperator, Start, SetPaused, AdvancePeriod, RegisterEvent,
                    UndoEvent, Finish, Official
      <3>2. CASE Update
        BY <3>2 DEF Update, CanTransition, Official
      <3>3. CASE WalkOver \/ CorrectResult \/ RecordResult \/ DisciplineUpdate \/ Tick \/ UNCHANGED vars
        BY <3>3 DEF WalkOver, CorrectResult, RecordResult, DisciplineUpdate, Tick, vars, Official
      <3>4. CASE Delete
        BY <3>4 DEF Delete, Official
      <3> QED
        BY <1>1, <3>1, <3>2, <3>3, <3>4 DEF Next
    <2>2. CASE UNCHANGED <<events, lastSequence>>
      BY <2>0, <2>1, <2>2
    <2>3. ASSUME NEW a \in Actor, RegisterEvent(a)
          PROVE  lastSequence' >= lastSequence /\ events \subseteq events'
      <3>1. \E side, points, declares, after : Record(side, points, declares, after)
        BY <2>3, Registered
      <3>2. lastSequence' = lastSequence + 1 /\ events \subseteq events'
        BY <3>1 DEF Record
      <3> QED
        BY <2>0, <3>2
    <2>4. ASSUME NEW a \in Actor, UndoEvent(a)
          PROVE  /\ lastSequence' >= lastSequence
                 /\ \A e \in events : e \in events' \/ [e EXCEPT !.active = FALSE] \in events'
      <3>1. PICK undone \in events : events' = (events \ {undone}) \cup {[undone EXCEPT !.active = FALSE]}
        BY <2>4 DEF UndoEvent, Restore
      <3>2. lastSequence' = lastSequence
        BY <2>4 DEF UndoEvent
      <3>3. \A e \in events : e \in events' \/ [e EXCEPT !.active = FALSE] \in events'
        BY <3>1, Zenon
      <3> QED
        BY <2>0, <3>2, <3>3
    <2>5. CASE \/ \E a \in Actor : \/ ClaimOperator(a) \/ ReleaseOperator(a) \/ Start(a)
                                   \/ (\E p \in BOOLEAN : SetPaused(a, p))
                                   \/ AdvancePeriod(a) \/ Finish(a)
               \/ Update \/ WalkOver \/ Delete \/ CorrectResult \/ RecordResult
               \/ DisciplineUpdate \/ Tick \/ UNCHANGED vars
      <3>1. UNCHANGED <<events, lastSequence>>
        BY <2>5 DEF ClaimOperator, ReleaseOperator, Start, SetPaused, AdvancePeriod, Finish, Update,
                    WalkOver, Delete, CorrectResult, RecordResult, DisciplineUpdate, Tick, vars
      <3> QED
        BY <2>2, <3>1
    <2> QED
      BY <1>1, <2>1, <2>3, <2>4, <2>5 DEF Next, Step
  <1>2. IInv /\ [Next]_vars =>
          [/\ Official => Official'
           /\ lastSequence' >= lastSequence
           /\ \A e \in events : e \in events' \/ [e EXCEPT !.active = FALSE] \in events']_vars
    BY <1>1
  <1> QED
    BY <1>2, SpecInv, PTL DEF Spec, NoWayBack

-----------------------------------------------------------------------------
(* The end of a match by sets                                              *)

\* A standing of a match by sets that nobody has won more than once: while it
\* is open, its set is at most one more than those won.
Playable(sc, p) ==
    /\ sc["home"] <= rules.setsToWin /\ sc["away"] <= rules.setsToWin
    /\ sc["home"] < rules.setsToWin \/ sc["away"] < rules.setsToWin
    /\ ~MatchDecided(sc) => p <= sc["home"] + sc["away"] + 1

\* Before an event is recorded or a period closed, nothing has been played.
Unbegun ==
    /\ lastSequence = 0 => events = {}
    /\ ByTheTable /\ ~Begun => score = Zero /\ period = 1 /\ recast = "never"

\* What is typed in over the table ends the match for good; before that the
\* standing is playable, as is every standing an undo may put back.
SetsInv ==
    /\ ~ByTheTable => Official
    /\ Unbegun
    /\ ByTheTable /\ recast = "never" /\ rules.mode = "sets" =>
          /\ Playable(score, period)
          /\ \A e \in events : Playable(e.before.score, e.before.period)
          /\ DOMAIN results \subseteq 1..(2 * rules.setsToWin - 1)

\* Actions that leave the board alone and type nothing in.
LEMMA SetsSame ==
    ASSUME SetsInv, UNCHANGED <<discipline, score, period, results, events, lastSequence>>,
           ByTheTable' => ByTheTable, ~ByTheTable' => Official'
    PROVE  SetsInv'
  <1>0. Unbegun'
    BY DEF SetsInv, Unbegun, Begun, discipline
  <1>1. ASSUME ByTheTable', recast' = "never", rules'.mode = "sets"
        PROVE  /\ Playable(score, period)'
               /\ \A e \in events' : Playable(e.before.score, e.before.period)'
               /\ DOMAIN results' \subseteq 1..(2 * rules'.setsToWin - 1)
    <2>1. rules' = rules /\ score' = score /\ period' = period /\ events' = events /\ recast' = recast
      BY DEF discipline
    <2>2. /\ Playable(score, period)
          /\ \A e \in events : Playable(e.before.score, e.before.period)
          /\ DOMAIN results \subseteq 1..(2 * rules.setsToWin - 1)
      BY <1>1, <2>1 DEF SetsInv
    <2> QED
      BY <2>1, <2>2 DEF Playable, MatchDecided
  <1> QED
    BY <1>0, <1>1 DEF SetsInv

\* Rules that are won by another number of sets than the match began with
\* leave their mark; before it began, any rules find it playable.
LEMMA SetsRules ==
    ASSUME TypeOK, SetsInv, DisciplineUpdate
    PROVE  SetsInv'
  <1>1. /\ UNCHANGED <<status, score, period, results, events, lastSequence, ending>>
        /\ recast' = Recast(rules') /\ rules' \in RegulationType
    BY BoundAssumption, RegulationAssumption DEF DisciplineUpdate, board, outcome, TypeOK
  <1>2. Unbegun'
    BY <1>1 DEF SetsInv, Unbegun, Begun, ByTheTable, Recast
  <1>3. ASSUME ByTheTable', recast' = "never", rules'.mode = "sets"
        PROVE  /\ Playable(score, period)'
               /\ \A e \in events' : Playable(e.before.score, e.before.period)'
               /\ DOMAIN results' \subseteq 1..(2 * rules'.setsToWin - 1)
    <2>1. CASE Begun
      <3>1. recast = "never" /\ rules.mode = "sets" /\ rules'.setsToWin = rules.setsToWin
        BY <1>1, <1>3, <2>1 DEF Recast, TypeOK
      <3>2. /\ Playable(score, period)
            /\ \A e \in events : Playable(e.before.score, e.before.period)
            /\ DOMAIN results \subseteq 1..(2 * rules.setsToWin - 1)
        BY <1>1, <1>3, <3>1 DEF SetsInv, ByTheTable
      <3> QED
        BY <1>1, <3>1, <3>2 DEF Playable, MatchDecided
    <2>2. CASE ~Begun
      <3>1. score = Zero /\ period = 1 /\ events = {} /\ DOMAIN results = {}
        <4>1. lastSequence = 0 /\ DOMAIN results = {}
          BY <2>2, NothingBegun
        <4>2. ByTheTable
          BY <1>1, <1>3 DEF ByTheTable
        <4> QED
          BY <2>2, <4>1, <4>2 DEF SetsInv, Unbegun
      <3>2. score["home"] = 0 /\ score["away"] = 0 /\ rules'.setsToWin \in Nat \ {0}
        BY <1>1, <3>1, Sides DEF Zero, RegulationType
      <3> QED
        BY <1>1, <3>1, <3>2 DEF Playable
    <2> QED
      BY <2>1, <2>2
  <1> QED
    BY <1>1, <1>2, <1>3 DEF SetsInv, ByTheTable, Official

\* An event keeps the standing it was recorded on.
LEMMA SetsRecord ==
    ASSUME TypeOK, SetsInv, ByTheTable, recast = "never", rules.mode = "sets",
           UNCHANGED <<rules, ending>>,
           NEW side, NEW points, NEW declares, NEW after, Record(side, points, declares, after)
    PROVE  \A e \in events' : Playable(e.before.score, e.before.period)'
  <1>1. \A e \in events' : e \in events \/ e.before = [score |-> score, part |-> part, period |-> period]
    BY DEF Record
  <1>2. rules' = rules
    OBVIOUS
  <1>3. \A e \in events' : Playable(e.before.score, e.before.period)
    BY <1>1 DEF SetsInv
  <1> QED
    BY <1>2, <1>3 DEF Playable, MatchDecided

\* A point counts only while the match is open, and closes one set at most.
LEMMA SetsPoint ==
    ASSUME TypeOK, SetsInv, ByTheTable, recast = "never", rules.mode = "sets",
           UNCHANGED <<rules, ending>>, NEW s \in Side, NEW n, Point(s, n)
    PROVE  Playable(score, period)' /\ DOMAIN results' \subseteq 1..(2 * rules.setsToWin - 1)
  <1> DEFINE points == [part EXCEPT ![s] = @ + n]
             closes == Wins(s, period, points)
             after == [score EXCEPT ![s] = @ + (IF closes THEN 1 ELSE 0)]
             goesOn == closes /\ ~MatchDecided(after)
  <1>1. /\ ~MatchDecided(score)
        /\ score' = after
        /\ period' = IF goesOn THEN period + 1 ELSE period
        /\ results' = IF closes THEN Close(period, points) ELSE results
    BY DEF Point, ScoreInSets, Record
  <1> HIDE DEF points
  <1>2. /\ score["home"] \in Nat /\ score["away"] \in Nat /\ period \in Nat \ {0}
        /\ rules.setsToWin \in Nat \ {0}
        /\ score = [t \in Side |-> score[t]]
    BY Sides, RegulationAssumption DEF TypeOK, Score, RegulationType, ScoringPoints, SecondaryPoints
  <1>3. score["home"] < rules.setsToWin /\ score["away"] < rules.setsToWin
    BY <1>1, <1>2, Sides DEF MatchDecided
  <1>4. period <= score["home"] + score["away"] + 1
    BY <1>1 DEF SetsInv, Playable
  <1>5. period \in 1..(2 * rules.setsToWin - 1)
    BY <1>2, <1>3, <1>4
  <1>6. DOMAIN results' \subseteq 1..(2 * rules.setsToWin - 1)
    <2>1. DOMAIN results \subseteq 1..(2 * rules.setsToWin - 1)
      BY DEF SetsInv
    <2> HIDE DEF closes
    <2> QED
      BY <1>1, <1>5, <2>1 DEF Close
  <1>7. Playable(after, period')
    <2>1. CASE ~closes
      <3>1. after = score
        <4>1. score \in [Side -> Nat] /\ after = [score EXCEPT ![s] = @ + 0]
          BY <2>1 DEF TypeOK, Score
        <4> HIDE DEF after
        <4> QED
          BY <4>1
      <3>2. period' = period
        BY <1>1, <2>1
      <3> QED
        BY <3>1, <3>2 DEF SetsInv
    <2>2. CASE closes
      <3>1. after = [score EXCEPT ![s] = @ + 1]
        BY <2>2
      <3>2. /\ s = "home" => after["home"] = score["home"] + 1 /\ after["away"] = score["away"]
            /\ s = "away" => after["away"] = score["away"] + 1 /\ after["home"] = score["home"]
        BY <1>2, <3>1, Sides
      <3>3. s = "home" \/ s = "away"
        BY Sides
      <3>4. ~MatchDecided(after) => period' = period + 1
        BY <1>1, <2>2
      <3> HIDE DEF after
      <3> QED
        BY <1>2, <1>3, <1>4, <3>2, <3>3, <3>4 DEF Playable
    <2> QED
      BY <2>1, <2>2
  <1> QED
    BY <1>1, <1>6, <1>7 DEF Playable, MatchDecided

LEMMA SetsStep ==
    ASSUME TypeOK, SetsInv, [Next]_vars
    PROVE  SetsInv'
  <1>1. ASSUME NEW a \in Actor, \/ ClaimOperator(a) \/ ReleaseOperator(a)
                                \/ \E p \in BOOLEAN : SetPaused(a, p)
        PROVE  SetsInv'
    BY <1>1, SetsSame DEF ClaimOperator, ReleaseOperator, SetPaused, SetsInv, ByTheTable, Official, board,
                          outcome
  <1>2. ASSUME NEW a \in Actor, Start(a)
        PROVE  SetsInv'
    BY <1>2, SetsSame DEF Start, SetsInv, ByTheTable, Official, discipline, board, outcome
  <1>3. ASSUME NEW a \in Actor, AdvancePeriod(a)
        PROVE  SetsInv'
    <2>1. Begun'
      BY <1>3 DEF AdvancePeriod, Close, Begun
    <2> QED
      BY <1>3, <2>1 DEF AdvancePeriod, SetsInv, Unbegun, ByTheTable, Official, discipline, outcome
  <1>4. ASSUME NEW a \in Actor, RegisterEvent(a)
        PROVE  SetsInv'
    <2>1. UNCHANGED <<rules, recast, status, ending>> /\ ~Official
      BY <1>4 DEF RegisterEvent, discipline, outcome, Official
    <2>2. ByTheTable /\ ByTheTable'
      BY <2>1 DEF SetsInv, ByTheTable
    <2>4. lastSequence' > 0
      <3>1. \E side, points, declares, after : Record(side, points, declares, after)
        BY <1>4, Registered
      <3> QED
        BY <3>1 DEF Record, TypeOK
    <2>3. ASSUME rules.mode = "sets", recast = "never"
          PROVE  /\ Playable(score, period)'
                 /\ \A e \in events' : Playable(e.before.score, e.before.period)'
                 /\ DOMAIN results' \subseteq 1..(2 * rules.setsToWin - 1)
      <3>1. ASSUME NEW s \in Side, NEW n \in rules.points \cup rules.stoppedPoints, Point(s, n)
            PROVE  /\ Playable(score, period)'
                   /\ \A e \in events' : Playable(e.before.score, e.before.period)'
                   /\ DOMAIN results' \subseteq 1..(2 * rules.setsToWin - 1)
        <4>1. \E after : Record(s, n, FALSE, after)
          BY <2>3, <3>1 DEF Point, ScoreInSets
        <4>2. \A e \in events' : Playable(e.before.score, e.before.period)'
          BY <2>1, <2>2, <2>3, <4>1, SetsRecord
        <4>3. Playable(score, period)' /\ DOMAIN results' \subseteq 1..(2 * rules.setsToWin - 1)
          BY <2>1, <2>2, <2>3, <3>1, SetsPoint
        <4> QED
          BY <4>2, <4>3
      <3>2. ~Declare
        BY <2>3 DEF Declare
      <3>3. ASSUME Note
            PROVE  /\ Playable(score, period)'
                   /\ \A e \in events' : Playable(e.before.score, e.before.period)'
                   /\ DOMAIN results' \subseteq 1..(2 * rules.setsToWin - 1)
        <4>1. Record(None, 0, FALSE, score) /\ UNCHANGED <<part, period, results>> /\ score' = score
          BY <3>3 DEF Note, Record
        <4>2. \A e \in events' : Playable(e.before.score, e.before.period)'
          BY <2>1, <2>2, <2>3, <4>1, SetsRecord
        <4>3. Playable(score, period) /\ DOMAIN results \subseteq 1..(2 * rules.setsToWin - 1)
          BY <2>2, <2>3 DEF SetsInv
        <4> QED
          BY <2>1, <4>1, <4>2, <4>3 DEF Playable, MatchDecided
      <3> QED
        BY <1>4, <3>1, <3>2, <3>3 DEF RegisterEvent
    <2> QED
      BY <2>1, <2>2, <2>3, <2>4 DEF SetsInv, Unbegun, Begun
  <1>5. ASSUME NEW a \in Actor, UndoEvent(a)
        PROVE  SetsInv'
    <2>1. PICK undone \in events : Restore(undone)
      BY <1>5 DEF UndoEvent
    <2>2. UNCHANGED <<rules, recast, status, ending, lastSequence>>
      BY <1>5 DEF UndoEvent, discipline, outcome
    <2>6. Unbegun'
      <3>1. lastSequence > 0
        BY <2>1 DEF SetsInv, Unbegun, TypeOK
      <3> QED
        BY <2>2, <3>1 DEF Unbegun, Begun
    <2>3. DOMAIN results' \subseteq DOMAIN results
      BY <2>1 DEF Restore, ResultsWithout
    <2>4. \A e \in events' : \E f \in events : e.before = f.before
      <3>1. undone \in Event
        BY DEF TypeOK
      <3>2. [undone EXCEPT !.active = FALSE].before = undone.before
        BY <3>1 DEF Event
      <3> QED
        BY <2>1, <3>2 DEF Restore
    <2>5. ASSUME ByTheTable, recast = "never", rules.mode = "sets"
          PROVE  /\ Playable(score, period)'
                 /\ \A e \in events' : Playable(e.before.score, e.before.period)'
                 /\ DOMAIN results' \subseteq 1..(2 * rules.setsToWin - 1)
      <3>1. /\ \A e \in events : Playable(e.before.score, e.before.period)
            /\ DOMAIN results \subseteq 1..(2 * rules.setsToWin - 1)
        BY <2>5 DEF SetsInv
      <3>2. \A e \in events' : Playable(e.before.score, e.before.period)
        BY <2>4, <3>1
      <3>3. Playable(score', period')
        BY <2>1, <3>1 DEF Restore
      <3> QED
        BY <2>2, <2>3, <3>1, <3>2, <3>3 DEF Playable, MatchDecided
    <2> QED
      BY <2>2, <2>5, <2>6 DEF SetsInv, ByTheTable, Official
  <1>6. ASSUME NEW a \in Actor, Finish(a)
        PROVE  SetsInv'
    <2>1. /\ UNCHANGED <<discipline, score, period, events, lastSequence>>
          /\ ending' = "finish" /\ ~Official
      BY <1>6 DEF Finish, Ends, Official
    <2>2. ByTheTable /\ ByTheTable'
      BY <2>1 DEF SetsInv, ByTheTable
    <2>3. CASE rules.mode = "sets"
      <3>1. results' = results
        BY <1>6, <2>3 DEF Finish
      <3> QED
        BY <2>1, <2>2, <3>1, SetsSame
    <2>4. CASE rules.mode # "sets"
      <3>1. Begun'
        BY <1>6, <2>4 DEF Finish, Close, Begun
      <3> QED
        BY <2>1, <2>2, <2>4, <3>1 DEF SetsInv, Unbegun, discipline
    <2> QED
      BY <2>3, <2>4
  <1>7. CASE Update
    <2>1. UNCHANGED <<discipline, score, period, events, results, lastSequence>>
      BY <1>7 DEF Update, board
    <2>2. (ByTheTable' => ByTheTable) /\ (~ByTheTable' => Official')
      BY <1>7 DEF Update, CanTransition, Official, ByTheTable, SetsInv
    <2> QED
      BY <2>1, <2>2, SetsSame
  <1>8. CASE WalkOver \/ CorrectResult \/ RecordResult
    <2>1. ~ByTheTable' /\ Official'
      BY <1>8 DEF WalkOver, CorrectResult, RecordResult, Ends, ByTheTable, Official
    <2>2. UNCHANGED <<events, lastSequence>>
      BY <1>8 DEF WalkOver, CorrectResult, RecordResult
    <2> QED
      BY <2>1, <2>2 DEF SetsInv, Unbegun
  <1>9. CASE Delete
    BY <1>9, SetsSame DEF Delete, SetsInv, ByTheTable, Official, discipline, board, outcome
  <1>10. CASE Tick \/ UNCHANGED vars
    BY <1>10, SetsSame DEF Tick, vars, SetsInv, ByTheTable, Official, discipline, board, outcome
  <1>11. CASE DisciplineUpdate
    BY <1>11, SetsRules
  <1> QED
    BY <1>1, <1>2, <1>3, <1>4, <1>5, <1>6, <1>7, <1>8, <1>9, <1>10, <1>11 DEF Next, Step

LEMMA SetsInit ==
    Init => SetsInv
  <1> SUFFICES ASSUME Init PROVE SetsInv
    OBVIOUS
  <1>1. rules.setsToWin \in Nat \ {0}
    BY RegulationAssumption DEF Init, RegulationType, ScoringPoints, SecondaryPoints
  <1>2. score["home"] = 0 /\ score["away"] = 0 /\ period = 1 /\ events = {} /\ ending = "none"
    BY Sides DEF Init, Zero
  <1>3. DOMAIN results = {}
    BY DEF Init
  <1>4. Unbegun
    BY DEF Init, Unbegun
  <1> QED
    BY <1>1, <1>2, <1>3, <1>4 DEF SetsInv, ByTheTable, Playable

\* A match by sets whose score nobody typed in ends with one side at the sets
\* to win, and no set is won after that, whatever is undone and played again.
THEOREM NoSetAfterTheEndHolds == Spec => []NoSetAfterTheEnd
  <1>1. Init => SetsInv
    BY SetsInit
  <1>2. TypeOK /\ SetsInv => NoSetAfterTheEnd
    <2> SUFFICES ASSUME TypeOK, SetsInv, ByTheTable, recast = "never", rules.mode = "sets"
                 PROVE  /\ \A s \in Side : score[s] <= rules.setsToWin
                        /\ \E s \in Side : score[s] < rules.setsToWin
                        /\ Cardinality(DOMAIN results) <= 2 * rules.setsToWin - 1
      BY DEF NoSetAfterTheEnd
    <2>1. Playable(score, period) /\ DOMAIN results \subseteq 1..(2 * rules.setsToWin - 1)
      BY DEF SetsInv
    <2>2. 2 * rules.setsToWin - 1 \in Nat
      BY RegulationAssumption DEF TypeOK, RegulationType, ScoringPoints, SecondaryPoints
    <2>3. \A m \in Nat : IsFiniteSet(1..m) /\ Cardinality(1..m) = m
      BY FS_Interval
    <2>4. Cardinality(DOMAIN results) <= 2 * rules.setsToWin - 1
      BY <2>1, <2>2, <2>3, FS_Subset
    <2> QED
      BY <2>1, <2>4, Sides DEF Playable
  <1>3. IInv /\ SetsInv /\ [Next]_vars => SetsInv'
    BY SetsStep DEF IInv
  <1>4. IInv => TypeOK
    BY DEF IInv
  <1> QED
    BY <1>1, <1>2, <1>3, <1>4, SpecInv, PTL DEF Spec

-----------------------------------------------------------------------------
(* Induction and sums                                                      *)

\* Induction, for a set of numbers in the place of a predicate.
LEMMA NatSet ==
    ASSUME NEW S, 0 \in S, \A n \in Nat : n \in S => n + 1 \in S
    PROVE  \A n \in Nat : n \in S
  <1> DEFINE T == {n \in Nat : n \notin S}
  <1> SUFFICES ASSUME T # {} PROVE FALSE
    OBVIOUS
  <1>1. T \subseteq Nat
    OBVIOUS
  <1>2. PICK x \in T : \A y \in T : ~(<<y, x>> \in OpToRel(<, Nat))
    <2> HIDE DEF T
    <2> QED
      BY <1>1, NatLessThanWellFounded, WFMin
  <1>3. \A y \in T : ~(y < x)
    BY <1>1, <1>2 DEF OpToRel
  <1>4. x \in Nat /\ x # 0
    OBVIOUS
  <1>5. x - 1 \in Nat /\ x - 1 < x
    BY <1>4
  <1>6. x - 1 \in S
    BY <1>3, <1>5
  <1>7. (x - 1) + 1 \in S /\ (x - 1) + 1 = x
    BY <1>4, <1>5, <1>6
  <1> QED
    BY <1>7

\* A run of sums: the first n of them.
Sums(points, anew, n, g) ==
    /\ g \in [0..n -> Nat]
    /\ g[0] = 0
    /\ \A i \in 1..n : g[i] = (IF i \in anew THEN 0 ELSE g[i - 1]) + points[i]

LEMMA SumsExist ==
    ASSUME NEW points \in [Nat -> Nat], NEW anew
    PROVE  \A n \in Nat : \E g : Sums(points, anew, n, g)
  <1> DEFINE S == {n \in Nat : \E g : Sums(points, anew, n, g)}
  <1>1. 0 \in S
    <2> DEFINE g == [i \in 0..0 |-> 0]
    <2>1. Sums(points, anew, 0, g)
      BY DEF Sums
    <2> QED
      BY <2>1
  <1>2. ASSUME NEW n \in Nat, n \in S PROVE n + 1 \in S
    <2>1. PICK g : Sums(points, anew, n, g)
      BY <1>2
    <2> DEFINE last == (IF n + 1 \in anew THEN 0 ELSE g[n]) + points[n + 1]
               h == [i \in 0..(n + 1) |-> IF i = n + 1 THEN last ELSE g[i]]
    <2>2. \A i \in 0..n : g[i] \in Nat /\ i \in Nat /\ i # n + 1 /\ i \in 0..(n + 1)
      BY <2>1 DEF Sums
    <2>3. points[n + 1] \in Nat /\ g[n] \in Nat /\ last \in Nat
      BY <2>2
    <2>4. h \in [0..(n + 1) -> Nat]
      <3>1. \A i \in 0..(n + 1) : (IF i = n + 1 THEN last ELSE g[i]) \in Nat
        <4> TAKE i \in 0..(n + 1)
        <4>1. i = n + 1 \/ i \in 0..n
          OBVIOUS
        <4> QED
          BY <4>1, <2>2, <2>3
      <3> QED
        BY <3>1
    <2>5. h[0] = 0
      BY <2>1, <2>2 DEF Sums
    <2>6. ASSUME NEW i \in 1..(n + 1) PROVE h[i] = (IF i \in anew THEN 0 ELSE h[i - 1]) + points[i]
      <3>1. CASE i = n + 1
        <4>1. h[n + 1] = last /\ h[n] = g[n] /\ i - 1 = n
          BY <3>1, <2>2
        <4> HIDE DEF h
        <4> QED
          BY <3>1, <4>1
      <3>2. CASE i # n + 1
        <4>1. i \in 1..n /\ i \in 0..n /\ i - 1 \in 0..n
          BY <3>2
        <4>2. h[i] = g[i] /\ h[i - 1] = g[i - 1]
          BY <4>1, <2>2
        <4>3. g[i] = (IF i \in anew THEN 0 ELSE g[i - 1]) + points[i]
          BY <4>1, <2>1 DEF Sums
        <4> HIDE DEF h
        <4> QED
          BY <4>2, <4>3
      <3> QED
        BY <3>1, <3>2
    <2>7. Sums(points, anew, n + 1, h)
      <3> HIDE DEF h
      <3> QED
        BY <2>4, <2>5, <2>6 DEF Sums
    <2> QED
      BY <2>7
  <1> HIDE DEF S
  <1>3. \A n \in Nat : n \in S
    BY <1>1, <1>2, NatSet
  <1> QED
    BY <1>3 DEF S

LEMMA SumsAgree ==
    ASSUME NEW points \in [Nat -> Nat], NEW anew,
           NEW m \in Nat, NEW n \in Nat, NEW g, NEW h,
           Sums(points, anew, m, g), Sums(points, anew, n, h),
           NEW k \in Nat, k <= m, k <= n
    PROVE  g[k] = h[k]
  <1> DEFINE S == {i \in Nat : i <= m /\ i <= n => g[i] = h[i]}
  <1>1. 0 \in S
    BY DEF Sums
  <1>2. ASSUME NEW i \in Nat, i \in S PROVE i + 1 \in S
    <2> SUFFICES ASSUME i + 1 <= m, i + 1 <= n PROVE g[i + 1] = h[i + 1]
      OBVIOUS
    <2>1. g[i] = h[i]
      BY <1>2
    <2>2. i + 1 \in 1..m /\ i + 1 \in 1..n /\ (i + 1) - 1 = i
      OBVIOUS
    <2>3. /\ g[i + 1] = (IF i + 1 \in anew THEN 0 ELSE g[i]) + points[i + 1]
          /\ h[i + 1] = (IF i + 1 \in anew THEN 0 ELSE h[i]) + points[i + 1]
      BY <2>2 DEF Sums
    <2> QED
      BY <2>1, <2>3
  <1> HIDE DEF S
  <1>3. k \in S
    BY <1>1, <1>2, NatSet
  <1> QED
    BY <1>3 DEF S

\* The recursion of SumTo defines the sums of a sequence of points.
LEMMA SumToIs ==
    ASSUME NEW points \in [Nat -> Nat], NEW anew
    PROVE  /\ SumTo(points, anew)[0] = 0
           /\ \A n \in Nat : /\ SumTo(points, anew)[n] \in Nat
                             /\ SumTo(points, anew)[n + 1]
                                  = (IF n + 1 \in anew THEN 0 ELSE SumTo(points, anew)[n]) + points[n + 1]
  <1> DEFINE run(n) == CHOOSE g : Sums(points, anew, n, g)
             f == [n \in Nat |-> run(n)[n]]
             F(g) == [n \in Nat |-> IF n = 0 THEN 0 ELSE (IF n \in anew THEN 0 ELSE g[n - 1]) + points[n]]
  <1>1. \A n \in Nat : Sums(points, anew, n, run(n))
    BY SumsExist
  <1> HIDE DEF run
  <1>2. \A n \in Nat : f[n] = run(n)[n] /\ f[n] \in Nat
    BY <1>1 DEF Sums
  <1>3. f[0] = 0
    BY <1>1, <1>2 DEF Sums
  <1>4. \A n \in Nat : f[n + 1] = (IF n + 1 \in anew THEN 0 ELSE f[n]) + points[n + 1]
    <2> TAKE n \in Nat
    <2>1. n + 1 \in Nat /\ n + 1 \in 1..(n + 1) /\ (n + 1) - 1 = n /\ n <= n + 1
      OBVIOUS
    <2>2. run(n + 1)[n + 1] = (IF n + 1 \in anew THEN 0 ELSE run(n + 1)[n]) + points[n + 1]
      BY <1>1, <2>1 DEF Sums
    <2>3. run(n + 1)[n] = run(n)[n]
      BY <1>1, <2>1, SumsAgree
    <2> HIDE DEF f
    <2> QED
      BY <1>2, <2>1, <2>2, <2>3
  <1>5. f = F(f)
    <2>1. \A n \in Nat : f[n] = IF n = 0 THEN 0 ELSE (IF n \in anew THEN 0 ELSE f[n - 1]) + points[n]
      <3> TAKE n \in Nat
      <3>1. CASE n = 0
        BY <3>1, <1>3
      <3>2. CASE n # 0
        <4>1. n - 1 \in Nat /\ (n - 1) + 1 = n
          BY <3>2
        <4> HIDE DEF f
        <4> QED
          BY <3>2, <4>1, <1>4
      <3> QED
        BY <3>1, <3>2
    <2>2. f = [n \in Nat |-> f[n]]
      OBVIOUS
    <2> HIDE DEF f
    <2> QED
      BY <2>1, <2>2, Zenon
  <1>6. SumTo(points, anew) = CHOOSE g : g = F(g)
    BY DEF SumTo
  <1>7. SumTo(points, anew) = F(SumTo(points, anew))
    <2> HIDE DEF f, F
    <2> QED
      BY <1>5, <1>6
  <1> DEFINE sum == SumTo(points, anew)
  <1>8. \A n \in Nat : sum[n] = IF n = 0 THEN 0 ELSE (IF n \in anew THEN 0 ELSE sum[n - 1]) + points[n]
    <2> HIDE DEF sum
    <2>1. sum = [n \in Nat |-> IF n = 0 THEN 0 ELSE (IF n \in anew THEN 0 ELSE sum[n - 1]) + points[n]]
      BY <1>7 DEF sum
    <2> QED
      BY <2>1
  <1> HIDE DEF sum
  <1>9. sum[0] = 0
    BY <1>8
  <1>10. \A n \in Nat : sum[n + 1] = (IF n + 1 \in anew THEN 0 ELSE sum[n]) + points[n + 1]
    <2> TAKE n \in Nat
    <2>1. n + 1 \in Nat /\ n + 1 # 0 /\ (n + 1) - 1 = n
      OBVIOUS
    <2> QED
      BY <1>8, <2>1
  <1>11. \A n \in Nat : sum[n] \in Nat
    <2> DEFINE S == {n \in Nat : sum[n] \in Nat}
    <2>1. 0 \in S
      BY <1>9
    <2>2. \A n \in Nat : n \in S => n + 1 \in S
      BY <1>10
    <2> HIDE DEF S
    <2>3. \A n \in Nat : n \in S
      BY <2>1, <2>2, NatSet
    <2> QED
      BY <2>3 DEF S
  <1> QED
    BY <1>9, <1>10, <1>11 DEF sum
-----------------------------------------------------------------------------
(* The score is what the active events earned                              *)

\* The standing sc is the one before the n-th event: as the latest active
\* event below n left it.
FollowsOn(sc, n) ==
    \/ sc = Zero /\ \A f \in Active : f.sequence >= n
    \/ \E f \in Active : /\ f.sequence < n /\ sc = f.after
                         /\ \A g \in Active : g.sequence < n => g.sequence <= f.sequence

Numbered ==
    /\ \A e \in events : e.sequence \in 1..lastSequence
    /\ \A e, f \in Active : e.sequence = f.sequence => e = f

\* What an event adds that declares nothing, where no sets are counted.
Adds ==
    recast # "anew" /\ rules.mode # "sets" =>
       \A e \in events :
          ~e.declares =>
            \A s \in Side : e.after[s] = e.before.score[s] + (IF e.side = s THEN e.points ELSE 0)

\* Until a result is typed in, the active events form a chain.
Chain ==
    ByTheTable =>
       /\ \A e \in Active : FollowsOn(e.before.score, e.sequence)
       /\ FollowsOn(score, lastSequence + 1)

ChainInv == Numbered /\ Adds /\ Chain

\* Actions that leave the events alone keep the chain, or type a result in.
LEMMA ChainSame ==
    ASSUME ChainInv, UNCHANGED <<discipline, events, lastSequence>>,
           ByTheTable' => ByTheTable /\ score' = score
    PROVE  ChainInv'
  <1>1. Active' = Active
    BY DEF Active
  <1>2. Numbered' /\ Adds'
    BY <1>1 DEF ChainInv, Numbered, Adds, discipline
  <1>3. Chain'
    BY <1>1 DEF ChainInv, Chain, FollowsOn
  <1> QED
    BY <1>2, <1>3 DEF ChainInv

\* Rules replaced after an event count it as those before did, or leave their
\* mark.
LEMMA ChainRules ==
    ASSUME TypeOK, SetsInv, ChainInv, DisciplineUpdate
    PROVE  ChainInv'
  <1>1. UNCHANGED <<score, results, events, lastSequence, ending>> /\ recast' = Recast(rules')
    BY DEF DisciplineUpdate, board, outcome
  <1>2. Active' = Active
    BY <1>1 DEF Active
  <1>3. Numbered' /\ Chain'
    BY <1>1, <1>2 DEF ChainInv, Numbered, Chain, FollowsOn, ByTheTable
  <1>4. Adds'
    <2> SUFFICES ASSUME recast' # "anew", rules'.mode # "sets", events # {}
                 PROVE  recast # "anew" /\ rules.mode # "sets"
      BY <1>1 DEF ChainInv, Adds
    <2>1. Begun
      BY DEF SetsInv, Unbegun, Begun, TypeOK
    <2> QED
      BY <1>1, <2>1 DEF Recast
  <1> QED
    BY <1>3, <1>4 DEF ChainInv

\* A new event follows the standing it was recorded on.
LEMMA ChainRecord ==
    ASSUME TypeOK, ChainInv, ByTheTable, UNCHANGED <<discipline, ending>>,
           NEW side \in Side \cup {None}, NEW points \in Nat, NEW declares \in BOOLEAN,
           NEW after \in Score, Record(side, points, declares, after),
           rules.mode # "sets" /\ ~declares =>
             \A s \in Side : after[s] = score[s] + (IF side = s THEN points ELSE 0)
    PROVE  ChainInv'
  <1>0. PICK new :
          new = [sequence |-> lastSequence + 1, active |-> TRUE, side |-> side, points |-> points,
                 declares |-> declares,
                 before |-> [score |-> score, part |-> part, period |-> period], after |-> after]
    OBVIOUS
  <1>1. events' = events \cup {new} /\ lastSequence' = lastSequence + 1 /\ score' = after
    BY <1>0 DEF Record
  <1>2. /\ new.sequence = lastSequence + 1 /\ new.active = TRUE /\ new.side = side /\ new.points = points
        /\ new.declares = declares /\ new.before.score = score /\ new.after = after
    BY <1>0
  <1>3. lastSequence \in Nat
    BY DEF TypeOK
  <1>4. Active' = Active \cup {new} /\ Active \subseteq events
    BY <1>1, <1>2 DEF Active
  <1>5. \A e \in events : e.sequence \in Nat /\ e.sequence < lastSequence + 1
    BY <1>3 DEF ChainInv, Numbered
  <1>6. Numbered'
    BY <1>1, <1>2, <1>3, <1>4, <1>5 DEF ChainInv, Numbered
  <1>7. Adds'
    BY <1>1, <1>2 DEF ChainInv, Adds, discipline
  <1>8. \A e \in Active : FollowsOn(e.before.score, e.sequence)'
    BY <1>2, <1>3, <1>4, <1>5 DEF ChainInv, Chain, FollowsOn
  <1>9. FollowsOn(score, lastSequence + 1)'
    BY <1>1, <1>2, <1>3, <1>4, <1>5 DEF FollowsOn
  <1>10. FollowsOn(new.before.score, new.sequence)'
    BY <1>2, <1>3, <1>4, <1>5 DEF ChainInv, Chain, FollowsOn
  <1>11. Chain'
    BY <1>4, <1>8, <1>9, <1>10 DEF Chain
  <1> QED
    BY <1>6, <1>7, <1>11 DEF ChainInv

\* Undoing the latest event leaves the standing of the one before it.
LEMMA UndoneEvent ==
    ASSUME TypeOK, NEW e \in events, Latest(e), Restore(e)
    PROVE  /\ Active' = Active \ {e}
           /\ \A f \in events' :
                 \E g \in events : /\ f.sequence = g.sequence /\ f.declares = g.declares
                                   /\ f.before = g.before /\ f.after = g.after
                                   /\ f.side = g.side /\ f.points = g.points
  <1>1. e \in Event /\ e.active = TRUE
    BY DEF TypeOK, Latest, Active
  <1> DEFINE gone == [e EXCEPT !.active = FALSE]
  <1>2. /\ gone.sequence = e.sequence /\ gone.declares = e.declares /\ gone.before = e.before
        /\ gone.after = e.after /\ gone.side = e.side /\ gone.points = e.points /\ gone.active = FALSE
    BY <1>1 DEF Event
  <1>3. events' = (events \ {e}) \cup {gone}
    BY DEF Restore
  <1> HIDE DEF gone
  <1> QED
    BY <1>1, <1>2, <1>3 DEF Active

LEMMA ChainUndo ==
    ASSUME TypeOK, ChainInv, NEW e \in events, Latest(e), Restore(e),
           UNCHANGED <<discipline, ending, lastSequence>>
    PROVE  ChainInv'
  <1>1. Active' = Active \ {e}
    BY UndoneEvent
  <1>2. \A f \in events' :
           \E g \in events : /\ f.sequence = g.sequence /\ f.declares = g.declares
                             /\ f.before = g.before /\ f.after = g.after
                             /\ f.side = g.side /\ f.points = g.points
    BY UndoneEvent
  <1>3. Adds'
    BY <1>2 DEF ChainInv, Adds, discipline
  <1>4. Numbered'
    BY <1>1, <1>2 DEF ChainInv, Numbered
  <1>5. e \in Active /\ \A f \in Active : f.sequence <= e.sequence
    BY DEF Latest
  <1>6. \A f \in Active : f.sequence \in Nat /\ f.sequence <= lastSequence
    BY DEF ChainInv, Numbered, Active
  <1>7. \A f \in Active' : f.sequence < e.sequence
    BY <1>1, <1>5, <1>6 DEF ChainInv, Numbered
  <1>8. ASSUME ByTheTable PROVE \A f \in Active' : FollowsOn(f.before.score, f.sequence)'
    BY <1>1, <1>5, <1>6, <1>7, <1>8 DEF ChainInv, Chain, FollowsOn
  <1>9. ASSUME ByTheTable PROVE FollowsOn(score, lastSequence + 1)'
    <2>1. score' = e.before.score
      BY DEF Restore
    <2>2. FollowsOn(e.before.score, e.sequence)
      BY <1>5, <1>9 DEF ChainInv, Chain
    <2>3. lastSequence' = lastSequence /\ lastSequence \in Nat
      BY DEF TypeOK
    <2> QED
      BY <1>1, <1>5, <1>6, <1>7, <2>1, <2>2, <2>3 DEF FollowsOn
  <1> QED
    BY <1>3, <1>4, <1>8, <1>9 DEF ChainInv, Chain, ByTheTable

LEMMA ChainRegister ==
    ASSUME TypeOK, ChainInv, ByTheTable, NEW a \in Actor, RegisterEvent(a)
    PROVE  ChainInv'
  <1>1. UNCHANGED <<discipline, ending>>
    BY DEF RegisterEvent, outcome
  <1>2. score \in Score /\ score = [s \in Side |-> score[s]] /\ \A s \in Side : score[s] \in Nat
    BY DEF TypeOK, Score
  <1>3. ASSUME NEW s \in Side, NEW n \in rules.points \cup rules.stoppedPoints, Point(s, n)
        PROVE  ChainInv'
    <2>1. n \in Nat
      BY Rules
    <2>2. CASE rules.mode = "sets"
      <3> DEFINE gain == IF Wins(s, period, [part EXCEPT ![s] = @ + n]) THEN 1 ELSE 0
      <3>1. Record(s, n, FALSE, [score EXCEPT ![s] = @ + gain])
        BY <1>3, <2>2 DEF Point, ScoreInSets
      <3>2. gain \in Nat
        OBVIOUS
      <3> HIDE DEF gain
      <3>3. [score EXCEPT ![s] = @ + gain] \in Score
        BY <1>2, <3>2, Counting
      <3> QED
        BY <1>1, <2>1, <2>2, <3>1, <3>3, ChainRecord
    <2>3. CASE rules.mode # "sets"
      <3>1. Record(s, n, FALSE, [score EXCEPT ![s] = @ + n])
        BY <1>3, <2>3 DEF Point, ScoreInPeriod
      <3>2. [score EXCEPT ![s] = @ + n] \in Score
        BY <1>2, <2>1, Counting
      <3>3. \A t \in Side : [score EXCEPT ![s] = @ + n][t] = score[t] + (IF s = t THEN n ELSE 0)
        BY <1>2, <2>1
      <3> QED
        BY <1>1, <2>1, <3>1, <3>2, <3>3, ChainRecord
    <2> QED
      BY <2>2, <2>3
  <1>4. ASSUME Declare
        PROVE  ChainInv'
    <2>1. PICK w \in Side \cup {None} : Record(None, 0, TRUE, [s \in Side |-> IF s = w THEN 1 ELSE 0])
      BY <1>4 DEF Declare
    <2>2. [s \in Side |-> IF s = w THEN 1 ELSE 0] \in Score
      BY DEF Score
    <2> QED
      BY <1>1, <2>1, <2>2, ChainRecord
  <1>5. ASSUME Note
        PROVE  ChainInv'
    <2>1. Record(None, 0, FALSE, score)
      BY <1>5 DEF Note
    <2>2. \A s \in Side : score[s] = score[s] + (IF None = s THEN 0 ELSE 0)
      BY <1>2
    <2> QED
      BY <1>1, <1>2, <2>1, <2>2, ChainRecord
  <1> QED
    BY <1>3, <1>4, <1>5 DEF RegisterEvent

LEMMA ChainStep ==
    ASSUME TypeOK, SetsInv, ChainInv, [Next]_vars
    PROVE  ChainInv'
  <1>1. ASSUME NEW a \in Actor, \/ ClaimOperator(a) \/ ReleaseOperator(a) \/ Start(a)
                                \/ \E p \in BOOLEAN : SetPaused(a, p)
        PROVE  ChainInv'
    BY <1>1, ChainSame DEF ClaimOperator, ReleaseOperator, Start, SetPaused, ByTheTable, board, outcome
  <1>2. ASSUME NEW a \in Actor, AdvancePeriod(a)
        PROVE  ChainInv'
    BY <1>2, ChainSame DEF AdvancePeriod, ByTheTable, outcome
  <1>3. ASSUME NEW a \in Actor, RegisterEvent(a)
        PROVE  ChainInv'
    <2>1. ByTheTable
      BY <1>3 DEF RegisterEvent, SetsInv, Official
    <2> QED
      BY <1>3, <2>1, ChainRegister
  <1>4. ASSUME NEW a \in Actor, UndoEvent(a)
        PROVE  ChainInv'
    <2>1. PICK e \in events : Latest(e) /\ Restore(e)
      BY <1>4 DEF UndoEvent
    <2>2. UNCHANGED <<discipline, ending, lastSequence>>
      BY <1>4 DEF UndoEvent, outcome
    <2> QED
      BY <2>1, <2>2, ChainUndo
  <1>5. ASSUME NEW a \in Actor, Finish(a)
        PROVE  ChainInv'
    <2>1. ByTheTable
      BY <1>5 DEF Finish, SetsInv, Official
    <2> QED
      BY <1>5, <2>1, ChainSame DEF Finish
  <1>6. CASE Update
    <2>1. ByTheTable' => ByTheTable
      BY <1>6 DEF Update, SetsInv, Official, ByTheTable
    <2> QED
      BY <1>6, <2>1, ChainSame DEF Update, board
  <1>7. CASE WalkOver \/ CorrectResult \/ RecordResult
    <2>1. ~ByTheTable'
      BY <1>7 DEF WalkOver, CorrectResult, RecordResult, Ends, ByTheTable
    <2> QED
      BY <1>7, <2>1, ChainSame DEF WalkOver, CorrectResult, RecordResult
  <1>8. CASE Delete \/ Tick \/ UNCHANGED vars
    BY <1>8, ChainSame DEF Delete, Tick, vars, ByTheTable, board, outcome
  <1>9. CASE DisciplineUpdate
    BY <1>9, ChainRules
  <1> QED
    BY <1>1, <1>2, <1>3, <1>4, <1>5, <1>6, <1>7, <1>8, <1>9 DEF Next, Step

\* Where no sets are counted: the standing before the n-th event is the sum
\* of the points below it since the latest declaration there, by induction
\* along the numbers of the events.
LEMMA PointsEarned ==
    ASSUME TypeOK, ChainInv, ByTheTable, recast # "anew", rules.mode # "sets", NEW s \in Side
    PROVE  score[s] = Earned(s)
  <1> DEFINE points == [n \in Nat |-> PointsAt(s, n)]
             S == {n \in Nat : \A sc : FollowsOn(sc, n + 1) => sc[s] = SumTo(points, Declared)[n]}
  <1>1. \A e \in Active : /\ e \in events /\ e.sequence \in Nat /\ e.sequence >= 1
                          /\ e.points \in Nat /\ e.after[s] \in Nat
    BY DEF TypeOK, Event, Score, ChainInv, Numbered, Active
  <1>2. \A n \in Nat : PointsAt(s, n) \in Nat
    BY <1>1 DEF PointsAt
  <1>3. points \in [Nat -> Nat] /\ \A n \in Nat : points[n] = PointsAt(s, n)
    BY <1>2
  <1> HIDE DEF points
  <1>4. 0 \in S
    <2> SUFFICES ASSUME NEW sc, FollowsOn(sc, 0 + 1) PROVE sc[s] = SumTo(points, Declared)[0]
      OBVIOUS
    <2>1. sc = Zero
      BY <1>1 DEF FollowsOn
    <2> QED
      BY <1>3, <2>1, SumToIs DEF Zero
  <1>5. ASSUME NEW n \in Nat, n \in S PROVE n + 1 \in S
    <2> SUFFICES ASSUME NEW sc, FollowsOn(sc, (n + 1) + 1)
                 PROVE  sc[s] = SumTo(points, Declared)[n + 1]
      OBVIOUS
    <2>0. points[n + 1] = PointsAt(s, n + 1)
      BY <1>3
    <2>1. /\ SumTo(points, Declared)[n + 1]
               = (IF n + 1 \in Declared THEN 0 ELSE SumTo(points, Declared)[n]) + PointsAt(s, n + 1)
          /\ SumTo(points, Declared)[n] \in Nat
      BY <1>3, <2>0, SumToIs
    <2>2. CASE \E e \in Active : e.sequence = n + 1
      <3>1. PICK e \in Active : e.sequence = n + 1
        BY <2>2
      <3>2. \A f \in Active : f.sequence = n + 1 => f = e
        BY <3>1 DEF ChainInv, Numbered
      <3>3. sc = e.after
        BY <1>1, <3>1, <3>2 DEF FollowsOn
      <3>4. PointsAt(s, n + 1) = IF e.declares THEN e.after[s] ELSE IF e.side = s THEN e.points ELSE 0
        <4>1. {f \in Active : f.sequence = n + 1 /\ (f.declares \/ f.side = s)}
                = IF e.declares \/ e.side = s THEN {e} ELSE {}
          BY <3>1, <3>2
        <4> QED
          BY <4>1 DEF PointsAt
      <3>5. n + 1 \in Declared <=> e.declares
        BY <3>1, <3>2 DEF Declared
      <3>6. CASE e.declares
        BY <1>1, <2>1, <3>1, <3>3, <3>4, <3>5, <3>6
      <3>7. CASE ~e.declares
        <4>1. FollowsOn(e.before.score, n + 1)
          BY <3>1 DEF ChainInv, Chain
        <4>2. e.before.score[s] = SumTo(points, Declared)[n]
          BY <1>5, <4>1
        <4>3. sc[s] = e.before.score[s] + (IF e.side = s THEN e.points ELSE 0)
          BY <1>1, <3>1, <3>3, <3>7 DEF ChainInv, Adds
        <4> QED
          BY <2>1, <3>4, <3>5, <3>7, <4>2, <4>3
      <3> QED
        BY <3>6, <3>7
    <2>3. CASE \A e \in Active : e.sequence # n + 1
      <3>1. FollowsOn(sc, n + 1)
        BY <1>1, <2>3 DEF FollowsOn
      <3>2. sc[s] = SumTo(points, Declared)[n]
        BY <1>5, <3>1
      <3>3. PointsAt(s, n + 1) = 0 /\ n + 1 \notin Declared
        BY <2>3 DEF PointsAt, Declared
      <3> QED
        BY <2>1, <3>2, <3>3
    <2> QED
      BY <2>2, <2>3
  <1> HIDE DEF S
  <1>6. lastSequence \in S
    BY <1>4, <1>5, NatSet DEF TypeOK
  <1>7. FollowsOn(score, lastSequence + 1)
    BY DEF ChainInv, Chain
  <1>8. score[s] = SumTo(points, Declared)[lastSequence]
    BY <1>6, <1>7 DEF S
  <1> QED
    BY <1>8 DEF points, Earned

\* By sets: the sets a score counts, those a side won of the first n, and the
\* set that is being played while the match is open.
Total(sc) == sc["home"] + sc["away"]
WonBy(s, n) == {p \in 1..n : results[p][s] > results[p][Other(s)]}
SetsWon(sc) == \A s \in Side : sc[s] = Cardinality(WonBy(s, Total(sc)))
OpenAt(sc, p) == ~MatchDecided(sc) => p = Total(sc) + 1
NoMore(sc, sd) == \A s \in Side : sc[s] <= sd[s]

\* The sets an event found closed are among those of now, and what it closed
\* is the next one.
Reopens(e) ==
    /\ NoMore(e.before.score, score)
    /\ SetsWon(e.before.score)
    /\ OpenAt(e.before.score, e.before.period)
    /\ \/ e.after = e.before.score
       \/ /\ e.before.period = Total(e.before.score) + 1
          /\ \E s \in Side : e.after = [e.before.score EXCEPT ![s] = @ + 1]

\* The parcials on the board are the sets the score counts, and those every
\* active event found.
SetsCount ==
    ByTheTable /\ recast # "anew" /\ rules.mode = "sets" =>
       /\ DOMAIN results = 1..Total(score)
       /\ SetsWon(score)
       /\ OpenAt(score, period)
       /\ \A e \in Active : Reopens(e)
       /\ \A e, f \in Active :
             e.sequence < f.sequence => NoMore(e.before.score, f.before.score)

LEMMA Totals ==
    \A sc \in Score : /\ sc["home"] \in Nat /\ sc["away"] \in Nat /\ Total(sc) \in Nat
                      /\ \A s \in Side : [sc EXCEPT ![s] = @ + 1] \in Score
                                         /\ Total([sc EXCEPT ![s] = @ + 1]) = Total(sc) + 1
  <1> TAKE sc \in Score
  <1>1. sc["home"] \in Nat /\ sc["away"] \in Nat /\ sc = [s \in Side |-> sc[s]]
    BY Sides DEF Score
  <1>2. ASSUME NEW s \in Side
        PROVE  [sc EXCEPT ![s] = @ + 1] \in Score /\ Total([sc EXCEPT ![s] = @ + 1]) = Total(sc) + 1
    <2>1. [sc EXCEPT ![s] = @ + 1] \in Score
      BY Counting
    <2>2. s = "home" \/ s = "away"
      BY Sides
    <2> QED
      BY <1>1, <2>1, <2>2, Sides DEF Total
  <1> QED
    BY <1>1, <1>2 DEF Total

\* Of two scores, one that is no more for either side counts no more sets.
LEMMA NoMoreSets ==
    \A sc, sd \in Score : /\ NoMore(sc, sc)
                          /\ NoMore(sc, sd) => Total(sc) <= Total(sd)
                          /\ \A s \in Side : NoMore(sc, [sc EXCEPT ![s] = @ + 1])
                          /\ \A se \in Score : NoMore(sc, sd) /\ NoMore(sd, se) => NoMore(sc, se)
  <1> TAKE sc, sd \in Score
  <1>1. \A s \in Side : sc[s] \in Nat /\ sd[s] \in Nat /\ sc = [t \in Side |-> sc[t]]
    BY DEF Score
  <1>2. NoMore(sc, sc)
    BY <1>1 DEF NoMore
  <1>3. NoMore(sc, sd) => Total(sc) <= Total(sd)
    BY <1>1, Sides DEF NoMore, Total
  <1>4. \A s \in Side : NoMore(sc, [sc EXCEPT ![s] = @ + 1])
    BY <1>1 DEF NoMore
  <1>5. ASSUME NEW se \in Score, NoMore(sc, sd), NoMore(sd, se)
        PROVE  NoMore(sc, se)
    BY <1>1, <1>5 DEF NoMore, Score
  <1> QED
    BY <1>2, <1>3, <1>4, <1>5

\* Sets that stay on the board stay won by the same side.
LEMMA WonStays ==
    ASSUME NEW n \in Nat, \A p \in 1..n : results'[p] = results[p]
    PROVE  \A s \in Side : WonBy(s, n)' = WonBy(s, n)
  BY DEF WonBy

LEMMA SetsWonStays ==
    ASSUME NEW sc \in Score, NEW n \in Nat, Total(sc) <= n,
           \A p \in 1..n : results'[p] = results[p],
           SetsWon(sc)
    PROVE  SetsWon(sc)'
  <1>1. Total(sc) \in Nat /\ \A p \in 1..Total(sc) : results'[p] = results[p]
    BY Totals
  <1>2. \A s \in Side : WonBy(s, Total(sc))' = WonBy(s, Total(sc))
    BY <1>1, WonStays
  <1> QED
    BY <1>2 DEF SetsWon, Total

\* A set is won by one side, and one more set is one more won by it.
LEMMA OneMoreSet ==
    ASSUME TypeOK, NEW s \in Side, NEW n, n = Total(score),
           NEW final \in Score, Wins(s, n + 1, final),
           NEW after, after = [score EXCEPT ![s] = @ + 1],
           results' = Close(n + 1, final),
           DOMAIN results = 1..n, SetsWon(score)
    PROVE  /\ after \in Score
           /\ DOMAIN results' = 1..(n + 1)
           /\ \A p \in 1..n : results'[p] = results[p]
           /\ SetsWon(after)'
  <1>1. n \in Nat /\ score \in Score /\ Total(after) = n + 1 /\ after \in Score
    BY Totals DEF TypeOK
  <1>2. results' = [q \in (1..n) \cup {n + 1} |-> IF q = n + 1 THEN final ELSE results[q]]
    BY DEF Close
  <1>3. (1..n) \cup {n + 1} = 1..(n + 1)
    BY <1>1
  <1>4. /\ DOMAIN results' = 1..(n + 1)
        /\ results'[n + 1] = final
        /\ \A p \in 1..n : results'[p] = results[p]
    <2>1. results' = [q \in 1..(n + 1) |-> IF q = n + 1 THEN final ELSE results[q]]
      BY <1>2, <1>3, Zenon
    <2>2. n + 1 \in 1..(n + 1) /\ \A p \in 1..n : p \in 1..(n + 1) /\ p # n + 1
      BY <1>1
    <2> QED
      BY <2>1, <2>2
  <1>5. \A t \in Side : WonBy(t, n)' = WonBy(t, n)
    BY <1>1, <1>4, WonStays
  <1>6. final[s] \in Nat /\ final[Other(s)] \in Nat /\ final[s] > final[Other(s)]
    BY Sides DEF Wins, Score
  <1>7. WonBy(s, n + 1)' = WonBy(s, n) \cup {n + 1}
    <2>1. results'[n + 1][s] > results'[n + 1][Other(s)]
      BY <1>4, <1>6
    <2>2. WonBy(s, n + 1)' = WonBy(s, n)' \cup {n + 1}
      BY <1>1, <2>1 DEF WonBy
    <2> QED
      BY <2>2, <1>5
  <1>8. \A t \in Side \ {s} : WonBy(t, n + 1)' = WonBy(t, n)
    <2> TAKE t \in Side \ {s}
    <2>1. t = Other(s) /\ Other(t) = s
      BY Sides
    <2>2. ~(results'[n + 1][t] > results'[n + 1][Other(t)])
      BY <1>4, <1>6, <2>1
    <2>3. WonBy(t, n + 1)' = WonBy(t, n)'
      BY <1>1, <2>2 DEF WonBy
    <2> QED
      BY <2>3, <1>5
  <1>9. IsFiniteSet(1..n) /\ \A t \in Side : WonBy(t, n) \subseteq 1..n
    BY <1>1, FS_Interval DEF WonBy
  <1>10. n + 1 \notin WonBy(s, n) /\ IsFiniteSet(WonBy(s, n))
    BY <1>1, <1>9, FS_Subset
  <1>11. Cardinality(WonBy(s, n) \cup {n + 1}) = Cardinality(WonBy(s, n)) + 1
    BY <1>10, FS_AddElement
  <1>12. \A t \in Side : score[t] = Cardinality(WonBy(t, n))
    BY DEF SetsWon
  <1>13. \A t \in Side : after[t] = IF t = s THEN score[t] + 1 ELSE score[t]
    BY <1>1 DEF Score
  <1>14. \A t \in Side : after[t] = Cardinality(WonBy(t, n + 1)')
    BY <1>7, <1>8, <1>11, <1>12, <1>13
  <1>15. SetsWon(after)'
    BY <1>1, <1>14 DEF SetsWon
  <1> QED
    BY <1>1, <1>4, <1>15

\* A point adds the set it closes to the board, or changes only the set.
LEMMA SetsCountPoint ==
    ASSUME TypeOK, ChainInv, SetsCount, ByTheTable, recast # "anew", rules.mode = "sets",
           UNCHANGED <<rules, ending>>, NEW s \in Side, NEW m \in Nat, Point(s, m)
    PROVE  SetsCount'
  <1> DEFINE points == [part EXCEPT ![s] = @ + m]
             closes == Wins(s, period, points)
             goesOn(sc) == closes /\ ~MatchDecided(sc)
  <1>0. PICK before, n, after, final :
           /\ before = score /\ n = Total(score)
           /\ after = [score EXCEPT ![s] = @ + (IF closes THEN 1 ELSE 0)]
           /\ final = points
    OBVIOUS
  <1>1. /\ ~MatchDecided(score)
        /\ Record(s, m, FALSE, after)
        /\ score' = after
        /\ period' = IF goesOn(after) THEN period + 1 ELSE period
        /\ results' = IF closes THEN Close(period, points) ELSE results
    BY <1>0 DEF Point, ScoreInSets, Record
  <1>2. points \in Score
    BY Counting DEF TypeOK
  <1> HIDE DEF points
  <1>3. /\ DOMAIN results = 1..n /\ SetsWon(before) /\ period = n + 1
        /\ \A e \in Active : Reopens(e)
        /\ \A e, f \in Active :
              e.sequence < f.sequence => NoMore(e.before.score, f.before.score)
    BY <1>0, <1>1 DEF SetsCount, OpenAt
  <1>4. n \in Nat /\ before \in Score /\ Total(before) = n
    BY <1>0, Totals DEF TypeOK
  <1>5. PICK new :
          new = [sequence |-> lastSequence + 1, active |-> TRUE, side |-> s, points |-> m,
                 declares |-> FALSE,
                 before |-> [score |-> score, part |-> part, period |-> period], after |-> after]
    OBVIOUS
  <1>6. /\ new.sequence = lastSequence + 1 /\ new.active = TRUE
        /\ new.before.score = before /\ new.before.period = n + 1 /\ new.after = after
    BY <1>0, <1>3, <1>5
  <1>7. Active' = Active \cup {new} /\ lastSequence' = lastSequence + 1
    BY <1>1, <1>5, <1>6 DEF Record, Active
  <1>8. \A e \in Active : e \in events /\ e.before.score \in Score
    BY DEF Active, TypeOK, Event, Standing
  \* What the board becomes, the set being closed or not.
  <1>9. /\ after \in Score /\ DOMAIN results' = 1..Total(after)
        /\ \A p \in 1..n : results'[p] = results[p]
        /\ SetsWon(after)' /\ NoMore(before, after)
        /\ OpenAt(after, period')
        /\ after = before \/ after = [before EXCEPT ![s] = @ + 1]
    <2>1. CASE closes
      <3>1. after = [score EXCEPT ![s] = @ + 1] /\ results' = Close(n + 1, final)
        BY <1>0, <1>1, <1>3, <2>1
      <3>2. Wins(s, n + 1, final) /\ final \in Score
        BY <1>0, <1>2, <1>3, <2>1
      <3>3. /\ after \in Score /\ Total(after) = n + 1
            /\ DOMAIN results' = 1..(n + 1)
            /\ \A p \in 1..n : results'[p] = results[p]
            /\ SetsWon(after)'
        <4>1. n = Total(score) /\ SetsWon(score) /\ DOMAIN results = 1..n
          BY <1>0 DEF SetsCount
        <4>2. final \in Score /\ Wins(s, n + 1, final)
          BY <3>2
        <4>3. after = [score EXCEPT ![s] = @ + 1] /\ results' = Close(n + 1, final)
          BY <3>1
        <4>4. TypeOK /\ s \in Side
          OBVIOUS
        <4> HIDE DEF closes, goesOn
        <4>5. /\ after \in Score /\ DOMAIN results' = 1..(n + 1)
              /\ \A p \in 1..n : results'[p] = results[p]
              /\ SetsWon(after)'
          BY <4>1, <4>2, <4>3, <4>4, OneMoreSet
        <4>6. Total(after) = n + 1
          BY <4>1, <4>3, <4>4, Totals DEF TypeOK
        <4> QED
          BY <4>5, <4>6
      <3>4. OpenAt(after, period')
        BY <1>1, <1>3, <1>4, <2>1, <3>3 DEF OpenAt
      <3>5. after = [before EXCEPT ![s] = @ + 1]
        BY <1>0, <3>1
      <3>6. DOMAIN results' = 1..Total(after) /\ NoMore(before, after)
        BY <1>4, <3>3, <3>5, NoMoreSets
      <3> QED
        BY <3>3, <3>4, <3>5, <3>6
    <2>2. CASE ~closes
      <3>1. after = [before EXCEPT ![s] = @ + 0]
        BY <1>0, <2>2
      <3>2. after = before
        BY <1>4, <3>1 DEF Score
      <3>3. results' = results /\ period' = period
        BY <1>1, <2>2
      <3>4. SetsWon(before)'
        BY <1>3, <1>4, <3>3, SetsWonStays
      <3>5. OpenAt(after, period')
        BY <1>3, <1>4, <3>2, <3>3 DEF OpenAt
      <3>6. NoMore(before, after)
        BY <1>4, <3>2, NoMoreSets
      <3> QED
        BY <1>3, <1>4, <3>2, <3>3, <3>4, <3>5, <3>6
    <2> QED
      BY <2>1, <2>2
  <1> HIDE DEF closes, goesOn
  <1>10. OpenAt(score, period)'
    BY <1>1, <1>9 DEF OpenAt, MatchDecided
  <1>11. SetsWon(score)' /\ DOMAIN results' = 1..Total(score')
    BY <1>1, <1>9 DEF SetsWon
  <1>12. ASSUME NEW e \in Active
         PROVE  Reopens(e)' /\ NoMore(e.before.score, before)
    <2>1. /\ NoMore(e.before.score, before)
          /\ SetsWon(e.before.score)
          /\ OpenAt(e.before.score, e.before.period)
          /\ \/ e.after = e.before.score
             \/ /\ e.before.period = Total(e.before.score) + 1
                /\ \E t \in Side : e.after = [e.before.score EXCEPT ![t] = @ + 1]
      BY <1>0, <1>3 DEF Reopens
    <2>2. SetsWon(e.before.score)'
      <3>1. Total(e.before.score) <= n
        BY <1>4, <1>8, <2>1, NoMoreSets
      <3> QED
        BY <1>4, <1>8, <1>9, <2>1, <3>1, SetsWonStays
    <2>3. NoMore(e.before.score, score')
      BY <1>1, <1>4, <1>8, <1>9, <2>1, NoMoreSets
    <2>4. OpenAt(e.before.score, e.before.period)'
      BY <2>1 DEF OpenAt, MatchDecided
    <2> QED
      BY <2>1, <2>2, <2>3, <2>4 DEF Reopens, Total
  <1>13. Reopens(new)'
    <2>1. SetsWon(before)'
      BY <1>3, <1>4, <1>9, SetsWonStays
    <2>2. OpenAt(before, n + 1)'
      BY <1>4 DEF OpenAt
    <2> QED
      BY <1>1, <1>4, <1>6, <1>9, <2>1, <2>2 DEF Reopens
  <1>14. \A e \in Active : ~(lastSequence + 1 < e.sequence) /\ e.sequence # lastSequence + 1
    BY DEF ChainInv, Numbered, Active, TypeOK
  <1>15. \A e \in Active' : Reopens(e)'
    BY <1>7, <1>12, <1>13
  <1>16. \A e, f \in Active' :
            e.sequence < f.sequence => NoMore(e.before.score, f.before.score)
    <2> TAKE e, f \in Active'
    <2> HAVE e.sequence < f.sequence
    <2>1. e \in Active
      BY <1>6, <1>7, <1>14
    <2>2. CASE f \in Active
      BY <1>3, <2>1, <2>2
    <2>3. CASE f = new
      BY <1>4, <1>6, <1>12, <2>1, <2>3
    <2> QED
      BY <1>7, <2>2, <2>3
  <1> QED
    BY <1>10, <1>11, <1>15, <1>16 DEF SetsCount, Total

\* Notes leave the board as it is; the note itself may be undone.
LEMMA SetsCountNote ==
    ASSUME TypeOK, ChainInv, SetsCount, ByTheTable, recast # "anew", rules.mode = "sets",
           UNCHANGED <<rules, ending>>, Note
    PROVE  SetsCount'
  <1>1. Record(None, 0, FALSE, score) /\ UNCHANGED <<part, period, results>> /\ score' = score
    BY DEF Note, Record
  <1>2. PICK new :
          new = [sequence |-> lastSequence + 1, active |-> TRUE, side |-> None, points |-> 0,
                 declares |-> FALSE,
                 before |-> [score |-> score, part |-> part, period |-> period], after |-> score]
    OBVIOUS
  <1>3. /\ new.sequence = lastSequence + 1 /\ new.active = TRUE
        /\ new.before.score = score /\ new.before.period = period /\ new.after = score
    BY <1>2
  <1>4. Active' = Active \cup {new}
    BY <1>1, <1>2, <1>3 DEF Record, Active
  <1>5. /\ DOMAIN results = 1..Total(score) /\ SetsWon(score) /\ OpenAt(score, period)
        /\ \A e \in Active : Reopens(e)
        /\ \A e, f \in Active :
              e.sequence < f.sequence => NoMore(e.before.score, f.before.score)
    BY DEF SetsCount
  <1>6. \A sc, p : (SetsWon(sc)' <=> SetsWon(sc)) /\ (OpenAt(sc, p)' <=> OpenAt(sc, p))
    BY <1>1 DEF SetsWon, WonBy, OpenAt, MatchDecided, Total
  <1>7. \A e \in Active : Reopens(e)'
    BY <1>1, <1>5, <1>6 DEF Reopens, Total
  <1>8. \A sc : Total(sc)' = Total(sc)
    BY DEF Total
  <1>9. NoMore(score, score)
    BY NoMoreSets DEF TypeOK
  <1>10. Reopens(new)'
    <2>1. SetsWon(new.before.score)' /\ OpenAt(new.before.score, new.before.period)'
      BY <1>3, <1>5, <1>6
    <2> QED
      BY <1>1, <1>3, <1>9, <2>1 DEF Reopens, Total
  <1>11. \A e \in Active : ~(lastSequence + 1 < e.sequence) /\ e.sequence # lastSequence + 1
    BY DEF ChainInv, Numbered, Active, TypeOK
  <1>12. \A e, f \in Active' :
            e.sequence < f.sequence => NoMore(e.before.score, f.before.score)
    <2> TAKE e, f \in Active'
    <2> HAVE e.sequence < f.sequence
    <2>1. CASE f \in Active
      <3>1. e \in Active
        BY <1>3, <1>4, <1>11, <2>1
      <3> QED
        BY <1>5, <2>1, <3>1
    <2>2. CASE f = new
      <3>1. CASE e \in Active
        BY <1>3, <1>5, <2>2, <3>1 DEF Reopens
      <3>2. CASE e = new
        BY <1>3, <1>9, <2>2, <3>2
      <3> QED
        BY <1>4, <3>1, <3>2
    <2> QED
      BY <1>4, <2>1, <2>2
  <1>13. SetsWon(score)' /\ OpenAt(score, period)' /\ DOMAIN results' = 1..Total(score)'
    BY <1>1, <1>5 DEF SetsWon, WonBy, OpenAt, MatchDecided, Total
  <1> QED
    BY <1>4, <1>7, <1>10, <1>12, <1>13 DEF SetsCount, Total

\* Undoing the latest event takes back the set it closed, and no other.
LEMMA SetsCountUndo ==
    ASSUME TypeOK, ChainInv, SetsCount, NEW e \in events, Latest(e), Restore(e),
           UNCHANGED <<discipline, ending, lastSequence>>
    PROVE  SetsCount'
  <1> SUFFICES ASSUME ByTheTable, recast # "anew", rules.mode = "sets" PROVE SetsCount'
    BY DEF SetsCount, ByTheTable, discipline
  <1>1. Active' = Active \ {e} /\ e \in Active /\ \A f \in Active : f.sequence <= e.sequence
    BY UndoneEvent DEF Latest
  <1>2. /\ DOMAIN results = 1..Total(score)
        /\ \A f \in Active : Reopens(f)
        /\ \A f, g \in Active :
              f.sequence < g.sequence => NoMore(f.before.score, g.before.score)
    BY DEF SetsCount
  <1>3. \A f \in Active : f \in events /\ f.sequence \in Nat /\ f.sequence < lastSequence + 1
    BY DEF ChainInv, Numbered, Active, TypeOK
  <1>4. score = e.after
    <2>1. FollowsOn(score, lastSequence + 1)
      BY DEF ChainInv, Chain
    <2>2. \A f \in Active : f.sequence = e.sequence => f = e
      BY <1>1 DEF ChainInv, Numbered
    <2>3. ~(\A f \in Active : f.sequence >= lastSequence + 1)
      BY <1>1, <1>3 DEF TypeOK
    <2>4. PICK f \in Active : score = f.after /\ e.sequence <= f.sequence
      BY <1>1, <1>3, <2>1, <2>3 DEF FollowsOn
    <2>5. f.sequence = e.sequence
      BY <1>1, <1>3, <2>4
    <2> QED
      BY <2>2, <2>4, <2>5
  <1>5. e \in Event /\ e.before \in Standing /\ \A f \in Active : f.before.score \in Score
    BY <1>3 DEF TypeOK, Event, Standing
  <1>6. PICK before, n : before = e.before.score /\ n = Total(before)
    OBVIOUS
  <1>7. before \in Score /\ n \in Nat
    BY <1>5, <1>6, Totals DEF Standing
  <1>8. SetsWon(before) /\ OpenAt(before, e.before.period)
    BY <1>1, <1>2, <1>6 DEF Reopens
  <1>9. score' = before /\ period' = e.before.period /\ results' = ResultsWithout(e)
    BY <1>6 DEF Restore
  \* The parcials that stay.
  <1>10. DOMAIN results' = 1..n /\ \A p \in 1..n : results'[p] = results[p]
    <2> DEFINE closedSet == \E s \in Side : e.after[s] # e.before.score[s]
    <2>1. results' = [p \in {q \in DOMAIN results : ~(closedSet /\ q = e.before.period)} |-> results[p]]
      BY <1>9 DEF ResultsWithout
    <2>2. CASE e.after = before
      <3>1. ~closedSet
        BY <1>6, <2>2
      <3>2. DOMAIN results = 1..n
        BY <1>2, <1>4, <1>6, <2>2
      <3> QED
        BY <2>1, <3>1, <3>2
    <2>3. CASE e.after # before
      <3>1. PICK s \in Side : e.after = [before EXCEPT ![s] = @ + 1] /\ e.before.period = n + 1
        BY <1>1, <1>2, <1>6, <2>3 DEF Reopens
      <3>2. closedSet
        <4>1. e.after[s] = before[s] + 1 /\ before[s] \in Nat
          BY <1>7, <3>1 DEF Score
        <4>2. e.after[s] # before[s]
          BY <4>1
        <4> QED
          BY <1>6, <4>2
      <3>3. Total(score) = n + 1
        BY <1>4, <1>6, <1>7, <3>1, Totals
      <3>4. e.before.period = n + 1
        BY <3>1
      <3>5. {q \in DOMAIN results : ~(closedSet /\ q = e.before.period)} = 1..n
        <4>1. {q \in DOMAIN results : ~(closedSet /\ q = e.before.period)}
                = {q \in 1..(n + 1) : q # n + 1}
          BY <1>2, <3>2, <3>3, <3>4
        <4>2. {q \in 1..(n + 1) : q # n + 1} = 1..n
          BY <1>7
        <4> QED
          BY <4>1, <4>2
      <3> HIDE DEF closedSet
      <3>6. results' = [p \in 1..n |-> results[p]]
        BY <2>1, <3>5
      <3> QED
        BY <3>6
    <2> QED
      BY <2>2, <2>3
  <1>11. SetsWon(score)' /\ DOMAIN results' = 1..Total(score')
    <2>1. SetsWon(before)'
      BY <1>6, <1>7, <1>8, <1>10, SetsWonStays
    <2> QED
      BY <1>6, <1>9, <1>10, <2>1 DEF SetsWon
  <1>12. OpenAt(score, period)'
    BY <1>8, <1>9 DEF OpenAt, MatchDecided, discipline
  <1>13. ASSUME NEW f \in Active' PROVE Reopens(f)'
    <2>1. f \in Active /\ f.sequence < e.sequence
      BY <1>1, <1>3 DEF ChainInv, Numbered
    <2>2. NoMore(f.before.score, before) /\ Total(f.before.score) <= n
      <3>1. NoMore(f.before.score, before)
        BY <1>1, <1>2, <1>6, <2>1
      <3> QED
        BY <1>5, <1>6, <1>7, <2>1, <3>1, NoMoreSets
    <2>3. /\ SetsWon(f.before.score)
          /\ OpenAt(f.before.score, f.before.period)
          /\ \/ f.after = f.before.score
             \/ /\ f.before.period = Total(f.before.score) + 1
                /\ \E s \in Side : f.after = [f.before.score EXCEPT ![s] = @ + 1]
      BY <1>2, <2>1 DEF Reopens
    <2>4. SetsWon(f.before.score)'
      BY <1>5, <1>7, <1>10, <2>1, <2>2, <2>3, SetsWonStays
    <2>5. OpenAt(f.before.score, f.before.period)'
      BY <2>3 DEF OpenAt, MatchDecided, discipline
    <2>6. NoMore(f.before.score, score')
      BY <1>6, <1>9, <2>2
    <2> QED
      BY <2>3, <2>4, <2>5, <2>6 DEF Reopens, Total
  <1>14. \A f, g \in Active' :
            f.sequence < g.sequence => NoMore(f.before.score, g.before.score)
    BY <1>1, <1>2
  <1> QED
    BY <1>11, <1>12, <1>13, <1>14 DEF SetsCount, Total

LEMMA SetsCountSame ==
    ASSUME SetsCount, UNCHANGED <<discipline, events>>,
           ByTheTable' => ByTheTable /\ score' = score,
           ByTheTable' /\ rules.mode = "sets" => UNCHANGED <<period, results>>
    PROVE  SetsCount'
  <1> SUFFICES ASSUME ByTheTable', recast # "anew", rules.mode = "sets" PROVE SetsCount'
    BY DEF SetsCount, discipline
  <1>1. UNCHANGED <<rules, events, score, period, results>> /\ Active' = Active /\ ByTheTable
    BY DEF Active, discipline
  <1>2. \A sc, p : (SetsWon(sc)' <=> SetsWon(sc)) /\ (OpenAt(sc, p)' <=> OpenAt(sc, p))
    BY <1>1 DEF SetsWon, WonBy, OpenAt, MatchDecided, Total
  <1>3. SetsWon(score)' /\ OpenAt(score, period)' /\ DOMAIN results' = 1..Total(score)'
    BY <1>1 DEF SetsCount, SetsWon, WonBy, Wins, SetTarget, OpenAt, MatchDecided, Total
  <1>4. \A e \in Active' : Reopens(e)'
    BY <1>1, <1>2 DEF SetsCount, Reopens, Total
  <1>5. \A e, f \in Active' :
            e.sequence < f.sequence => NoMore(e.before.score, f.before.score)
    BY <1>1 DEF SetsCount
  <1> QED
    BY <1>3, <1>4, <1>5 DEF SetsCount, Total

\* A match that goes on by sets under other rules is open at the same set, or
\* leaves its mark: a closed set is open again only where a decided match gets
\* more sets to win.
LEMMA SetsCountRules ==
    ASSUME TypeOK, SetsInv, SetsCount, DisciplineUpdate
    PROVE  SetsCount'
  <1>1. /\ UNCHANGED <<score, period, results, events, lastSequence, ending>>
        /\ recast' = Recast(rules') /\ rules' \in RegulationType /\ rules \in RegulationType
    BY BoundAssumption, RegulationAssumption DEF DisciplineUpdate, board, outcome, TypeOK
  <1> SUFFICES ASSUME ByTheTable, recast' # "anew", rules'.mode = "sets" PROVE SetsCount'
    BY <1>1 DEF SetsCount, ByTheTable
  <1>2. Active' = Active /\ \A sc : SetsWon(sc)' <=> SetsWon(sc)
    BY <1>1 DEF Active, SetsWon, WonBy, Total
  <1>3. CASE ~Begun
    <2>1. score = Zero /\ period = 1 /\ events = {} /\ DOMAIN results = {}
      <3>1. lastSequence = 0 /\ DOMAIN results = {}
        BY <1>3, NothingBegun
      <3> QED
        BY <1>3, <3>1 DEF SetsInv, Unbegun
    <2>2. Total(score) = 0 /\ 1..0 = {}
      BY <2>1, Sides DEF Total, Zero
    <2>3. \A s \in Side : WonBy(s, 0) = {}
      BY <2>2 DEF WonBy
    <2>4. SetsWon(score)
      BY <2>1, <2>2, <2>3, FS_EmptySet DEF SetsWon, Zero
    <2>5. Active = {}
      BY <2>1 DEF Active
    <2> QED
      BY <1>1, <1>2, <2>1, <2>2, <2>4, <2>5 DEF SetsCount, OpenAt, Total
  <1>4. CASE Begun
    <2>1. /\ recast # "anew" /\ rules.mode = "sets"
          /\ MatchDecided(score) => rules'.setsToWin <= rules.setsToWin
      BY <1>1, <1>4 DEF Recast, RegulationType
    <2>2. /\ DOMAIN results = 1..Total(score) /\ SetsWon(score) /\ OpenAt(score, period)
          /\ \A e \in Active : Reopens(e)
          /\ \A e, f \in Active :
                e.sequence < f.sequence => NoMore(e.before.score, f.before.score)
      BY <2>1 DEF SetsCount
    <2>3. score \in Score /\ \A e \in Active : e.before.score \in Score
      BY DEF Active, TypeOK, Event, Standing
    <2>4. ASSUME NEW sc \in Score, NoMore(sc, score), NEW p, OpenAt(sc, p)
          PROVE  OpenAt(sc, p)'
      <3>1. MatchDecided(sc) => MatchDecided(score)
        BY <1>1, <2>3, <2>4 DEF MatchDecided, NoMore, Score, RegulationType
      <3>2. MatchDecided(sc) => MatchDecided(sc)'
        BY <1>1, <2>1, <2>4, <3>1 DEF MatchDecided, Score, RegulationType
      <3> QED
        BY <2>4, <3>2 DEF OpenAt, Total
    <2>5. OpenAt(score, period)'
      <3>1. NoMore(score, score)
        BY <2>3, NoMoreSets
      <3> QED
        BY <1>1, <2>2, <2>3, <2>4, <3>1 DEF OpenAt, MatchDecided, Total
    <2>6. ASSUME NEW e \in Active PROVE Reopens(e)'
      <3>1. Reopens(e)
        BY <2>2
      <3>2. OpenAt(e.before.score, e.before.period)'
        BY <2>3, <2>4, <3>1 DEF Reopens
      <3> QED
        BY <1>1, <1>2, <3>1, <3>2 DEF Reopens, Total
    <2> QED
      BY <1>1, <1>2, <2>2, <2>5, <2>6 DEF SetsCount, Total
  <1> QED
    BY <1>3, <1>4

LEMMA SetsCountStep ==
    ASSUME TypeOK, SetsInv, ChainInv, SetsCount, [Next]_vars
    PROVE  SetsCount'
  <1>1. ASSUME NEW a \in Actor, \/ ClaimOperator(a) \/ ReleaseOperator(a) \/ Start(a)
                                \/ \E p \in BOOLEAN : SetPaused(a, p)
        PROVE  SetsCount'
    BY <1>1, SetsCountSame DEF ClaimOperator, ReleaseOperator, Start, SetPaused, ByTheTable, board, outcome
  <1>2. ASSUME NEW a \in Actor, AdvancePeriod(a)
        PROVE  SetsCount'
    BY <1>2, SetsCountSame DEF AdvancePeriod, ByTheTable, outcome
  <1>3. ASSUME NEW a \in Actor, RegisterEvent(a)
        PROVE  SetsCount'
    <2>1. ByTheTable /\ UNCHANGED <<rules, recast, ending>>
      BY <1>3 DEF RegisterEvent, SetsInv, Official, discipline, outcome
    <2>2. CASE rules.mode # "sets" \/ recast = "anew"
      BY <2>1, <2>2 DEF SetsCount
    <2>3. CASE rules.mode = "sets" /\ recast # "anew"
      <3>1. ASSUME NEW s \in Side, NEW n \in rules.points \cup rules.stoppedPoints, Point(s, n)
            PROVE  SetsCount'
        <4>1. n \in Nat
          BY Rules
        <4> QED
          BY <2>1, <2>3, <3>1, <4>1, SetsCountPoint
      <3>2. ~Declare
        BY <2>3 DEF Declare
      <3>3. CASE Note
        BY <2>1, <2>3, <3>3, SetsCountNote
      <3> QED
        BY <1>3, <3>1, <3>2, <3>3 DEF RegisterEvent
    <2> QED
      BY <2>2, <2>3
  <1>4. ASSUME NEW a \in Actor, UndoEvent(a)
        PROVE  SetsCount'
    <2>1. PICK e \in events : Latest(e) /\ Restore(e)
      BY <1>4 DEF UndoEvent
    <2>2. UNCHANGED <<discipline, ending, lastSequence>>
      BY <1>4 DEF UndoEvent, outcome
    <2> QED
      BY <2>1, <2>2, SetsCountUndo
  <1>5. ASSUME NEW a \in Actor, Finish(a)
        PROVE  SetsCount'
    <2>1. ByTheTable
      BY <1>5 DEF Finish, SetsInv, Official
    <2> QED
      BY <1>5, <2>1, SetsCountSame DEF Finish
  <1>6. CASE Update
    <2>1. ByTheTable' => ByTheTable
      BY <1>6 DEF Update, SetsInv, Official, ByTheTable
    <2> QED
      BY <1>6, <2>1, SetsCountSame DEF Update, board
  <1>7. CASE WalkOver \/ CorrectResult \/ RecordResult
    <2>1. ~ByTheTable'
      BY <1>7 DEF WalkOver, CorrectResult, RecordResult, Ends, ByTheTable
    <2> QED
      BY <1>7, <2>1, SetsCountSame DEF WalkOver, CorrectResult, RecordResult
  <1>8. CASE Delete \/ Tick \/ UNCHANGED vars
    BY <1>8, SetsCountSame DEF Delete, Tick, vars, ByTheTable, board, outcome
  <1>9. CASE DisciplineUpdate
    BY <1>9, SetsCountRules
  <1> QED
    BY <1>1, <1>2, <1>3, <1>4, <1>5, <1>6, <1>7, <1>8, <1>9 DEF Next, Step

EarnedInv == SetsInv /\ ChainInv /\ SetsCount

LEMMA EarnedInit ==
    Init => ChainInv /\ SetsCount
  <1> SUFFICES ASSUME Init PROVE ChainInv /\ SetsCount
    OBVIOUS
  <1>1. /\ events = {} /\ Active = {} /\ lastSequence = 0 /\ score = Zero /\ period = 1
        /\ DOMAIN results = {}
    BY DEF Init, Active
  <1>2. ChainInv
    BY <1>1 DEF ChainInv, Numbered, Adds, Chain, FollowsOn
  <1>3. Total(score) = 0 /\ 1..0 = {}
    BY <1>1, Sides DEF Total, Zero
  <1>4. SetsWon(score)
    <2>1. \A s \in Side : WonBy(s, 0) = {}
      BY <1>3 DEF WonBy
    <2> QED
      BY <1>1, <1>3, <2>1, FS_EmptySet DEF SetsWon, Zero
  <1> QED
    BY <1>1, <1>2, <1>3, <1>4 DEF SetsCount, OpenAt

LEMMA EarnedIs ==
    ASSUME TypeOK, EarnedInv
    PROVE  ScoreIsEarned
  <1> SUFFICES ASSUME ByTheTable, recast # "anew", NEW s \in Side
               PROVE  score[s] = IF rules.mode = "sets"
                                 THEN Cardinality({p \in DOMAIN results :
                                                     results[p][s] > results[p][Other(s)]})
                                 ELSE Earned(s)
    BY DEF ScoreIsEarned
  <1>1. CASE rules.mode # "sets"
    BY <1>1, PointsEarned DEF EarnedInv
  <1>2. CASE rules.mode = "sets"
    <2>1. DOMAIN results = 1..Total(score) /\ SetsWon(score)
      BY <1>2 DEF EarnedInv, SetsCount
    <2> QED
      BY <1>2, <2>1 DEF SetsWon, WonBy
  <1> QED
    BY <1>1, <1>2

\* Whatever is registered, undone, postponed, taken up again and played under
\* other rules, the score is what the active events earned, until a result is
\* typed in over it: the sets the parcials show as won, or the points since the
\* latest declaration.  The rules may even change the sets to win, but for more
\* of them in a match already decided, and for counting sets or not.
THEOREM ScoreIsEarnedHolds == Spec => []ScoreIsEarned
  <1>1. Init => EarnedInv
    BY SetsInit, EarnedInit DEF EarnedInv
  <1>2. IInv /\ EarnedInv /\ [Next]_vars => EarnedInv'
    BY SetsStep, ChainStep, SetsCountStep DEF IInv, EarnedInv
  <1>3. IInv /\ EarnedInv => ScoreIsEarned
    BY EarnedIs DEF IInv
  <1> QED
    BY <1>1, <1>2, <1>3, SpecInv, PTL DEF Spec

=============================================================================
