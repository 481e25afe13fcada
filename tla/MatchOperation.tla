--------------------------- MODULE MatchOperation ---------------------------
(***************************************************************************)
(* One match as MatchActionHandler operates it: the status, the lock of    *)
(* the operating device, the events and their undoing, the clock's         *)
(* periods, and the four ways to an official result.  The write path runs  *)
(* the actions of an edition one at a time (ActionPipeline), so a handler  *)
(* is one step; what interleaves is which device acts, and time.           *)
(*                                                                         *)
(* A participant is the side it plays on.  Texts, times of day, athletes   *)
(* and the echoes of server values that a client must send back unchanged  *)
(* are left out; a reason that must be given is given.                     *)
(***************************************************************************)
EXTENDS Integers, FiniteSetsExt

CONSTANTS
    Actor,          \* an operator: a staff member on one device
    Regulation,     \* the regulations a match may be played under
    None,
    Announced,      \* the sets of participants a match may be scheduled with
    Lease,          \* OPERATOR_LOCK_MS
    MaxTime, MaxScore,      \* bounds: clock, scores typed in
    MaxEvents,              \* bound on the events, by mode of the regulation
    MayBecome               \* bound: the regulations that may replace one

Side == {"home", "away"}
Other(s) == CHOOSE t \in Side : t # s
Score == [Side -> Nat]
Zero == [s \in Side |-> 0]

Mode == {"sets", "periods", "result"}

\* parseScoring and parseSecondary: what an event of either kind may add.
ScoringPoints == Nat \ {0}
SecondaryPoints == Nat

RegulationType ==
    [mode: Mode, setsToWin: Nat \ {0}, setPoints: Nat, decidingPoints: Nat,
     minAdvantage: Nat, periodCount: Nat, overtimePeriods: Nat, hasClock: BOOLEAN,
     mayEndTied: BOOLEAN,       \* a draw is allowed and the phase is no knockout
     points: SUBSET ScoringPoints,
     stoppedPoints: SUBSET SecondaryPoints] \* allowed with the clock stopped or not

\* parseCompletion: sets are won with positive numbers, and nobody draws them.
Completion(r) ==
    r.mode = "sets" => /\ {r.setPoints, r.decidingPoints, r.minAdvantage} \subseteq Nat \ {0}
                       /\ r.overtimePeriods = 0 /\ ~r.mayEndTied

ASSUME RegulationAssumption == /\ Regulation \subseteq RegulationType
                               /\ \A r \in Regulation : Completion(r)
ASSUME AnnouncedAssumption == Announced \subseteq SUBSET Side
ASSUME NoneAssumption == None \notin Actor \cup Side
ASSUME BoundAssumption == Lease \in Nat /\ MaxTime \in Nat /\ MaxScore \in Nat
                          /\ MaxEvents \in [Mode -> Nat]
                          /\ MayBecome \in [Regulation -> SUBSET Regulation]

VARIABLES
    rules,      \* the regulation of the match's discipline
    status,
    sides,      \* the sides whose participant is known
    score, part, period, results,   \* match score, score of the period, its number, closed periods
    paused,
    lock,       \* the operator and its heartbeat
    events, lastSequence,
    winner, tiebreak, started,
    counted,    \* the result the last recomputeTournament counted
    now,
    ending,     \* history: how the match ended last
    tieStands,  \* history: under the rules of that end a tie could stand
    late,       \* history: an event was undone after the end
    recast      \* history: what became of the way to win after the match had begun

board == <<score, part, period, results>>
outcome == <<winner, tiebreak, counted, ending, tieStands>>
discipline == <<rules, recast>>
vars == <<discipline, status, sides, board, paused, lock, events, lastSequence, outcome, started, now, late>>

Status == {"SCHEDULED", "LIVE", "FINISHED", "POSTPONED", "CANCELLED", "WALKOVER", "DELETED"}
Official == status \in {"FINISHED", "WALKOVER"}
Standing == [score: Score, part: Score, period: Nat \ {0}]
Event == [sequence: Nat, active: BOOLEAN, side: Side \cup {None}, points: Nat, declares: BOOLEAN,
          before: Standing, after: Score]
Lock == [by: Actor, heartbeat: Nat]
Result == [score: Score, winner: Side \cup {None}]

TypeOK ==
    /\ rules \in Regulation
    /\ status \in Status
    /\ sides \subseteq Side
    /\ score \in Score /\ part \in Score
    /\ period \in Nat \ {0}
    /\ DOMAIN results \subseteq Nat \ {0} /\ \A p \in DOMAIN results : results[p] \in Score
    /\ paused \in BOOLEAN /\ started \in BOOLEAN /\ late \in BOOLEAN
    /\ lock \in Lock \cup {None}
    /\ events \subseteq Event
    /\ lastSequence \in Nat
    /\ winner \in Side \cup {None}
    /\ tiebreak \in Side \cup {None}
    /\ counted \in Result \cup {None}
    /\ now \in 0..MaxTime
    /\ ending \in {"none", "finish", "update", "walkover", "sheet", "correction"}
    /\ tieStands \in BOOLEAN
    /\ recast \in {"never", "length", "anew"}

(* schedule: a participant is known, or a label stands for it.             *)
Init ==
    /\ rules \in Regulation
    /\ status = "SCHEDULED"
    /\ sides \in Announced
    /\ score = Zero /\ part = Zero /\ period = 1 /\ results = << >>
    /\ paused = TRUE /\ started = FALSE
    /\ lock = None
    /\ events = {} /\ lastSequence = 0
    /\ winner = None /\ tiebreak = None /\ counted = None
    /\ now = 0
    /\ ending = "none" /\ tieStands = FALSE /\ late = FALSE /\ recast = "never"

Tick ==
    /\ now < MaxTime
    /\ now' = now + 1
    /\ UNCHANGED <<discipline, status, sides, board, paused, lock, events, lastSequence, outcome, started, late>>
-----------------------------------------------------------------------------
(* THE OPERATOR LOCK *)

Fresh == lock # None /\ lock.heartbeat >= now - Lease

(* assertOperator: the same person on the same device, with a fresh lock.  *)
Holds(a) == Fresh /\ lock.by = a

(* Nobody else has a fresh lock.                                           *)
MayTake(a) == Fresh => lock.by = a
TakenBy(a) == [by |-> a, heartbeat |-> now]

(* claimOperator: whatever the status; force takes the lock from anybody.  *)
ClaimOperator(a) ==
    /\ status # "DELETED"
    /\ \E force \in BOOLEAN : force \/ MayTake(a)
    /\ lock' = TakenBy(a)
    /\ UNCHANGED <<discipline, status, sides, board, paused, events, lastSequence, outcome, started, now, late>>

ReleaseOperator(a) ==
    /\ Holds(a)
    /\ lock' = None
    /\ UNCHANGED <<discipline, status, sides, board, paused, events, lastSequence, outcome, started, now, late>>
-----------------------------------------------------------------------------
(* STATUS *)

TieMayStand == rules.mode # "sets" /\ rules.mayEndTied

Start(a) ==
    /\ status \in {"SCHEDULED", "POSTPONED"}
    /\ sides = Side
    /\ MayTake(a)
    /\ status' = "LIVE"
    /\ started' = TRUE
    /\ paused' = FALSE
    /\ lock' = TakenBy(a)
    /\ UNCHANGED <<discipline, sides, board, events, lastSequence, outcome, now, late>>

(* Mutant: a finished match may be reopened.                               *)
CanTransitionBack(from) ==
    CASE from = "SCHEDULED" -> {"SCHEDULED", "LIVE", "POSTPONED", "CANCELLED", "WALKOVER"}
      [] from = "LIVE" -> {"LIVE", "FINISHED", "POSTPONED", "WALKOVER"}
      [] from = "POSTPONED" -> {"POSTPONED", "SCHEDULED", "CANCELLED", "WALKOVER"}
      [] from = "FINISHED" -> {"FINISHED", "LIVE"}
      [] OTHER -> {from}

CanTransition(from) ==
    CASE from = "SCHEDULED" -> {"SCHEDULED", "LIVE", "POSTPONED", "CANCELLED", "WALKOVER"}
      [] from = "LIVE" -> {"LIVE", "FINISHED", "POSTPONED", "WALKOVER"}
      [] from = "POSTPONED" -> {"POSTPONED", "SCHEDULED", "CANCELLED", "WALKOVER"}
      [] OTHER -> {from}

Ends(how, result) ==
    /\ ending' = how
    /\ tieStands' = TieMayStand
    /\ late' = FALSE
    /\ winner' = result.winner
    /\ counted' = result

(* participanteDefinido: only while the match is scheduled.                *)
MayDefine(known) == known # {} => status = "SCHEDULED"

(* update to W.O.: the default score 1 x 0, its winner, and a recount.     *)
WalkOver ==
    \E w \in sides, known \in SUBSET Side :
        LET result == [score |-> [s \in Side |-> IF s = w THEN 1 ELSE 0], winner |-> w] IN
        /\ "WALKOVER" \in CanTransition(status)
        /\ MayDefine(known)
        /\ sides' = sides \cup known
        /\ status' = "WALKOVER"
        /\ score' = result.score
        /\ Ends("walkover", result)
        /\ UNCHANGED <<discipline, part, period, results, paused, lock, events, lastSequence,
                       tiebreak, started, now>>

(* update to any other status, the participants too while it is scheduled: *)
(* no lock is asked for, nothing is recounted.                             *)
Update ==
    \E to \in CanTransition(status) \ {"WALKOVER"}, known \in SUBSET Side :
        /\ status # "DELETED"
        /\ MayDefine(known)
        /\ status' = to
        /\ sides' = sides \cup known
        /\ ending' = IF to = "FINISHED" /\ status = "LIVE" THEN "update" ELSE ending
        /\ UNCHANGED <<discipline, board, paused, lock, events, lastSequence, winner, tiebreak, counted,
                       tieStands, started, now, late>>

Delete ==
    /\ status = "SCHEDULED"
    /\ lastSequence = 0
    /\ ~started
    /\ status' = "DELETED"
    /\ lock' = None
    /\ UNCHANGED <<discipline, sides, board, paused, events, lastSequence, outcome, started, now, late>>
-----------------------------------------------------------------------------
(* THE TABLE *)

Stopped == rules.hasClock /\ paused

(* updateClock pauses and resumes; without a clock nothing is ever paused. *)
SetPaused(a, p) ==
    /\ status = "LIVE"
    /\ Holds(a)
    /\ paused' = (rules.hasClock /\ p)
    /\ UNCHANGED <<discipline, status, sides, board, lock, events, lastSequence, outcome, started, now, late>>

LastPeriod == rules.periodCount + (IF rules.mode = "periods" THEN rules.overtimePeriods ELSE 0)

Close(p, final) == [q \in DOMAIN results \cup {p} |-> IF q = p THEN final ELSE results[q]]

(* updateClock to the next period: the running one is closed.              *)
AdvancePeriod(a) ==
    /\ status = "LIVE"
    /\ Holds(a)
    /\ rules.mode # "sets"
    /\ period + 1 <= LastPeriod
    /\ results' = Close(period, part)
    /\ period' = period + 1
    /\ part' = Zero
    /\ \E p \in BOOLEAN : paused' = (rules.hasClock /\ p)
    /\ UNCHANGED <<discipline, status, sides, score, lock, events, lastSequence, outcome, started, now, late>>

SetTarget(p) == IF p >= 2 * rules.setsToWin - 1 THEN rules.decidingPoints ELSE rules.setPoints

(* setWinner: the side that reached the target with the advantage.         *)
Wins(s, p, points) ==
    /\ points[s] >= SetTarget(p)
    /\ points[s] - points[Other(s)] >= rules.minAdvantage
    /\ points[s] > points[Other(s)]

MatchDecided(sc) == \E s \in Side : sc[s] >= rules.setsToWin

Record(side, points, declares, after) ==
    /\ events' = events \cup
          {[sequence |-> lastSequence + 1, active |-> TRUE, side |-> side, points |-> points,
            declares |-> declares, before |-> [score |-> score, part |-> part, period |-> period],
            after |-> after]}
    /\ lastSequence' = lastSequence + 1
    /\ score' = after

(* A point in a match by sets may close the set, and with it the match.    *)
ScoreInSets(s, n) ==
    LET points == [part EXCEPT ![s] = @ + n]
        closes == Wins(s, period, points)
        after == [score EXCEPT ![s] = @ + (IF closes THEN 1 ELSE 0)]
        goesOn == closes /\ ~MatchDecided(after)
    IN  /\ Record(s, n, FALSE, after)
        /\ part' = IF goesOn THEN Zero ELSE points
        /\ period' = IF goesOn THEN period + 1 ELSE period
        /\ results' = IF closes THEN Close(period, points) ELSE results

(* Otherwise it counts for the period and for the match.                   *)
ScoreInPeriod(s, n) ==
    /\ Record(s, n, FALSE, [score EXCEPT ![s] = @ + n])
    /\ part' = [part EXCEPT ![s] = @ + n]
    /\ UNCHANGED <<period, results>>

(* An event that scores nothing, or one that declares the result.          *)
Note == Record(None, 0, FALSE, score) /\ UNCHANGED <<part, period, results>>
Declare ==
    /\ rules.mode = "result"
    /\ ~Stopped
    /\ \E w \in Side \cup (IF rules.mayEndTied THEN {None} ELSE {}) :
          Record(None, 0, TRUE, [s \in Side |-> IF s = w THEN 1 ELSE 0])
    /\ UNCHANGED <<part, period, results>>

(* A stopped clock lets only secondary events add to the score.            *)
Scoring == IF Stopped THEN rules.stoppedPoints ELSE rules.points \cup rules.stoppedPoints

(* Mutant: the point after the match is decided still counts.              *)
PointAfterTheEnd(s, n) ==
    /\ n \in Scoring
    /\ IF rules.mode = "sets" THEN ScoreInSets(s, n) ELSE ScoreInPeriod(s, n)
Point(s, n) ==
    /\ n \in Scoring
    /\ rules.mode = "sets" => ~MatchDecided(score)
    /\ IF rules.mode = "sets" THEN ScoreInSets(s, n) ELSE ScoreInPeriod(s, n)

RegisterEvent(a) ==
    /\ status = "LIVE"
    /\ Holds(a)
    /\ lastSequence < MaxEvents[rules.mode]
    /\ \/ \E s \in Side, n \in rules.points \cup rules.stoppedPoints : Point(s, n)
       \/ Declare
       \/ Note
    /\ UNCHANGED <<discipline, status, sides, paused, lock, outcome, started, now, late>>

Active == {e \in events : e.active}
Latest(e) == e \in Active /\ \A f \in Active : f.sequence <= e.sequence

(* By sets only the set the event closed reopens; otherwise every period   *)
(* from the event's own on does.                                           *)
ResultsWithout(e) ==
    LET closedSet == \E s \in Side : e.after[s] # e.before.score[s]
        reopened(p) == IF rules.mode = "sets" THEN closedSet /\ p = e.before.period
                       ELSE p >= e.before.period
    IN  [p \in {q \in DOMAIN results : ~reopened(q)} |-> results[p]]

Restore(e) ==
    /\ events' = (events \ {e}) \cup {[e EXCEPT !.active = FALSE]}
    /\ score' = e.before.score
    /\ part' = e.before.part
    /\ period' = e.before.period
    /\ results' = ResultsWithout(e)

(* Mutant: any active event may be undone.                                 *)
UndoAnyEvent(a) ==
    /\ Holds(a)
    /\ \E e \in Active : Restore(e)
    /\ late' = (late \/ Official)
    /\ UNCHANGED <<discipline, status, sides, paused, lock, lastSequence, outcome, started, now>>
(* The latest active event goes and the standing before it returns: the    *)
(* status is not asked, the winner stays, nothing is recounted.            *)
UndoEvent(a) ==
    /\ Holds(a)
    /\ \E e \in events : Latest(e) /\ Restore(e)
    /\ late' = (late \/ Official)
    /\ UNCHANGED <<discipline, status, sides, paused, lock, lastSequence, outcome, started, now>>
-----------------------------------------------------------------------------
(* OFFICIAL RESULTS *)

Tied(sc) == sc["home"] = sc["away"]
MustBreak(sc) == Tied(sc) /\ ~TieMayStand
Leader(sc) == IF Tied(sc) THEN None ELSE CHOOSE s \in Side : sc[s] > sc[Other(s)]
(* The entry on the leading side: none while it is a label.                *)
LeaderEntry(sc) == IF Leader(sc) \in sides THEN Leader(sc) ELSE None

(* parseTiebreak: a tie that may not stand is broken for a participant.    *)
Broken(sc) == IF MustBreak(sc) THEN sides ELSE {None}
WinnerOf(sc, broken) == IF broken # None THEN broken ELSE LeaderEntry(sc)

Finish(a) ==
    /\ status = "LIVE"
    /\ Holds(a)
    /\ \E broken \in Broken(score) :
          /\ Ends("finish", [score |-> score, winner |-> WinnerOf(score, broken)])
          /\ tiebreak' = broken
    /\ status' = "FINISHED"
    /\ paused' = TRUE
    /\ results' = IF rules.mode = "sets" THEN results ELSE Close(period, part)
    /\ UNCHANGED <<discipline, sides, score, part, period, lock, events, lastSequence, started, now>>

TypedScore == [Side -> 0..MaxScore]

(* Mutant: a corrected result that is tied has no winner.                  *)
CorrectWithoutTiebreak ==
    /\ Official
    /\ \E sc \in TypedScore :
          /\ Ends("correction", [score |-> sc, winner |-> LeaderEntry(sc)])
          /\ score' = sc
          /\ tiebreak' = IF MustBreak(sc) THEN tiebreak ELSE None
    /\ status' = "FINISHED"
    /\ UNCHANGED <<discipline, sides, part, period, results, paused, lock, events, lastSequence, started, now>>

(* correctResult, the matches that depend on it being unplayed: any score; *)
(* a tie that may not stand keeps the tiebreak on record or is refused.    *)
CorrectResult ==
    /\ Official
    /\ \E sc \in TypedScore :
          /\ MustBreak(sc) => tiebreak # None
          /\ Ends("correction",
                  [score |-> sc, winner |-> IF MustBreak(sc) THEN tiebreak ELSE LeaderEntry(sc)])
          /\ score' = sc
          /\ tiebreak' = IF MustBreak(sc) THEN tiebreak ELSE None
    /\ status' = "FINISHED"
    /\ UNCHANGED <<discipline, sides, part, period, results, paused, lock, events, lastSequence, started, now>>

(* The sheets recordResult accepts: by sets, the sets in order until the   *)
(* match is decided, each with a valid score; otherwise a score, with      *)
(* parcials that add up to it or none.                                     *)
SetSheets ==
    {w \in UNION {[1..n -> Side] : n \in rules.setsToWin..(2 * rules.setsToWin - 1)} :
        \E s \in Side :
            /\ w[Cardinality(DOMAIN w)] = s
            /\ Cardinality({i \in DOMAIN w : w[i] = s}) = rules.setsToWin
            /\ Cardinality({i \in DOMAIN w : w[i] # s}) < rules.setsToWin}
SheetOfSets(w) ==
    [score |-> [s \in Side |-> Cardinality({i \in DOMAIN w : w[i] = s})],
     results |-> [i \in DOMAIN w |->
                    [s \in Side |-> IF w[i] = s THEN Max({SetTarget(i), rules.minAdvantage}) ELSE 0]]]
Sheets ==
    IF rules.mode = "sets" THEN {SheetOfSets(w) : w \in SetSheets}
    ELSE UNION {{[score |-> sc, results |-> << >>], [score |-> sc, results |-> <<sc>>]} :
                  sc \in TypedScore}

PeriodCount == IF rules.mode = "sets" THEN 2 * rules.setsToWin - 1 ELSE rules.periodCount

RecordResult ==
    /\ \/ status \in {"SCHEDULED", "POSTPONED"}
       \/ status = "LIVE" /\ Active = {}
    /\ sides = Side
    /\ \E sheet \in Sheets :
          /\ \E broken \in Broken(sheet.score) :
                /\ Ends("sheet", [score |-> sheet.score, winner |-> WinnerOf(sheet.score, broken)])
                /\ tiebreak' = broken
          /\ score' = sheet.score
          /\ results' = sheet.results
          /\ period' = IF DOMAIN sheet.results = {} THEN Max({1, PeriodCount})
                       ELSE Cardinality(DOMAIN sheet.results)
    /\ status' = "FINISHED"
    /\ part' = Zero
    /\ paused' = TRUE
    /\ lock' = None
    /\ UNCHANGED <<discipline, sides, events, lastSequence, started, now>>
-----------------------------------------------------------------------------
(* THE RULES *)

Begun == lastSequence > 0 \/ DOMAIN results # {}

(* After the match had begun, it came to be won by other than it was, or a *)
(* decided match by more sets ("anew"); or by another number of sets.      *)
Recast(new) ==
    CASE ~Begun \/ recast = "anew" -> recast
      [] Begun /\ recast # "anew"
           /\ \/ (rules.mode = "sets") # (new.mode = "sets")
              \/ rules.mode = "sets" /\ MatchDecided(score) /\ new.setsToWin > rules.setsToWin -> "anew"
      [] OTHER -> IF rules.mode = "sets" /\ new.setsToWin # rules.setsToWin THEN "length" ELSE recast

(* discipline/update: no match is asked about, and every handler above     *)
(* reads the rules again.  While they cannot be read, none of them acts.   *)
DisciplineUpdate ==
    /\ rules' \in MayBecome[rules]
    /\ recast' = Recast(rules')
    /\ UNCHANGED <<status, sides, board, paused, lock, events, lastSequence, outcome, started, now, late>>
-----------------------------------------------------------------------------
Step(a) ==
    \/ ClaimOperator(a) \/ ReleaseOperator(a) \/ Start(a)
    \/ (\E p \in BOOLEAN : SetPaused(a, p)) \/ AdvancePeriod(a)
    \/ RegisterEvent(a) \/ UndoEvent(a) \/ Finish(a)

Next ==
    \/ \E a \in Actor : Step(a)
    \/ Update \/ WalkOver \/ Delete \/ CorrectResult \/ RecordResult
    \/ DisciplineUpdate \/ Tick

Spec == Init /\ [][Next]_vars
-----------------------------------------------------------------------------
(* PROPERTIES *)

(* The score was not typed in over what the table wrote. *)
ByTheTable == ending \in {"none", "finish", "update"}

(* What the n-th event, as long as it is active, gives side s.             *)
PointsAt(s, n) ==
    LET nth == {e \in Active : e.sequence = n /\ (e.declares \/ e.side = s)}
        e == CHOOSE f \in nth : TRUE
    IN  IF nth = {} THEN 0 ELSE IF e.declares THEN e.after[s] ELSE e.points
(* The sums of the points, from the latest of the numbers in anew on.      *)
SumTo(points, anew) ==
    LET sum[n \in Nat] == IF n = 0 THEN 0
                          ELSE (IF n \in anew THEN 0 ELSE sum[n - 1]) + points[n] IN sum
Declared == {e.sequence : e \in {f \in Active : f.declares}}
Earned(s) == SumTo([n \in Nat |-> PointsAt(s, n)], Declared)[lastSequence]

(* Through events, declarations, sets that close, undoing, postponing,     *)
(* restarting and rules replaced at any moment, the score is what the      *)
(* active events earned: the sets the parcials show as won, or the points  *)
(* since the latest declaration (registerEvent and undoEvent).  Only rules *)
(* that come to count sets, or no longer do, or more of them in a match    *)
(* already decided, take the score away from the table.                    *)
ScoreIsEarned ==
    ByTheTable /\ recast # "anew" =>
        \A s \in Side :
            score[s] = IF rules.mode = "sets"
                       THEN Cardinality({p \in DOMAIN results : results[p][s] > results[p][Other(s)]})
                       ELSE Earned(s)

(* A match by sets ends with one side at the sets to win, and no set is    *)
(* won after that, unless it came to be won by another number of sets.     *)
NoSetAfterTheEnd ==
    ByTheTable /\ recast = "never" /\ rules.mode = "sets" =>
        /\ \A s \in Side : score[s] <= rules.setsToWin
        /\ \E s \in Side : score[s] < rules.setsToWin
        /\ Cardinality(DOMAIN results) <= 2 * rules.setsToWin - 1

(* An official result whose participants are known names the winner its    *)
(* score or tiebreak gives under the rules it ended by, and the standings  *)
(* counted exactly that: the only gaps are an end through match/update and *)
(* an undo after the end.                                                  *)
ResultIsSound ==
    Official /\ sides = Side /\ ending # "update" /\ ~late =>
        /\ counted = [score |-> score, winner |-> winner]
        /\ ~Tied(score) /\ ending # "walkover" => winner = Leader(score)
        /\ status = "FINISHED" /\ Tied(score) /\ ~tieStands => winner # None /\ winner = tiebreak
        /\ status = "FINISHED" /\ Tied(score) /\ tieStands => winner = None

(* An official result is never reopened, an undone event stays undone, and *)
(* the events of a match are never fewer.                                  *)
NoWayBack ==
    [][ /\ Official => Official'
        /\ lastSequence' >= lastSequence
        /\ \A e \in events : e \in events' \/ [e EXCEPT !.active = FALSE] \in events']_vars

(* Stated by the comment on the disabled legacy route: the canonical       *)
(* actions, which alone end a match, recount the tournament.               *)
EndIsCounted == Official => counted # None

(* Stated by the refusal of recordResult: only a match without registered  *)
(* events takes its result from the sheet.                                 *)
SheetNeedsNoEvents == ending = "sheet" => Active = {}

(* Stated by the comment in registerEvent: no point wins the closed set    *)
(* again and writes over its parcial.                                      *)
NoSetWonTwice ==
    [][rules.mode = "sets" /\ lastSequence' > lastSequence =>
         \A p \in DOMAIN results : results'[p] = results[p]]_vars
=============================================================================
