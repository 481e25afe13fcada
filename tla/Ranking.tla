------------------------------ MODULE Ranking -------------------------------
(***************************************************************************)
(* The overall ranking of one edition: its metrics, the awards given to    *)
(* teams, its closing and reopening, as RankingActionHandler runs them.    *)
(*                                                                         *)
(* The edition, its disciplines, teams, athletes and staff are those of    *)
(* module Roster: an award is of a team that takes part and of a           *)
(* discipline the edition has, a discipline with awards is not deleted,    *)
(* and a request runs under a scope of module Staff.  A handler is one     *)
(* step, as there; a request that is refused has no effect.  Points and    *)
(* notes decide nothing, and metrics of one name are left out.             *)
(***************************************************************************)
EXTENDS Roster, Sequences

CONSTANTS
    Metric,         \* IDs of metrics
    Default,        \* those of the default catalog
    Standard,       \* the position each of those rewards
    Position,       \* positions of the podium
    Manual,         \* a metric that rewards no position
    Award,          \* IDs of awards, a key of all editions
    MaxList,        \* bound on the awards of one request
    MaxClosures     \* bound on the closures kept

ASSUME DefaultAssumption ==
    /\ Default \subseteq Metric
    /\ Standard \in [Default -> Position]
    /\ \A m, n \in Default : Standard[m] = Standard[n] => m = n
ASSUME ManualAssumption == Manual \notin Position

VARIABLES
    metric,         \* overall_metrics of the edition, removed ones included
    award,          \* overall_awards, revoked ones included
    closure         \* overall_closures, oldest first: reopened or not

rankingVars == <<metric, award, closure>>
vars == <<rosterVars, rankingVars>>

MetricRow == [state: {"none", "active", "removed"}, position: Position \cup {Manual}]
Target == [team: Team, discipline: Discipline, metric: Metric]
AwardRow == [state: {"none"}] \cup [state: {"active", "revoked"}, of: Target]

NoMetric == [state |-> "none", position |-> Manual]
NoAward == [state |-> "none"]

RankingTypeOK ==
    /\ metric \in [Metric -> MetricRow]
    /\ award \in [Award -> AwardRow]
    /\ closure \in Seq(BOOLEAN)

TypeOK == RosterTypeOK /\ RankingTypeOK

ActiveMetrics == {m \in Metric : metric[m].state = "active"}
ActiveAwards == {a \in Award : award[a].state = "active"}

\* Mutant: seeding looks only for the rows of the defaults.
SeedAlways(rows) ==
    [m \in Metric |-> IF m \in Default /\ rows[m].state = "none"
                        THEN [state |-> "active", position |-> Standard[m]]
                        ELSE rows[m]]

\* createMany with skipDuplicates: a default that was removed stays removed.
SeedDefaultMetrics(rows) ==
    IF \E m \in Metric : rows[m].state = "active" THEN rows
    ELSE [m \in Metric |-> IF m \in Default /\ rows[m].state = "none"
                             THEN [state |-> "active", position |-> Standard[m]]
                             ELSE rows[m]]

\* An edition is created with the default catalog, and with none before that
\* routine existed.
Init ==
    /\ RosterInit
    /\ \/ metric = SeedDefaultMetrics([m \in Metric |-> NoMetric])
       \/ metric = [m \in Metric |-> NoMetric]
    /\ award = [a \in Award |-> NoAward]
    /\ closure = <<>>

IsRankingClosed == \E i \in DOMAIN closure : ~closure[i]

-----------------------------------------------------------------------------
(* Metrics: only while the ranking is open.                                *)

AddMetric(m, position) ==
    /\ ~IsRankingClosed
    /\ metric[m].state = "none"
    /\ metric' = [metric EXCEPT ![m] = [state |-> "active", position |-> position]]
    /\ UNCHANGED <<award, closure>>

\* null makes the metric manual, an absent position keeps it.
UpdateMetric(m, position) ==
    /\ ~IsRankingClosed
    /\ m \in ActiveMetrics
    /\ metric' = [metric EXCEPT ![m].position = position]
    /\ UNCHANGED <<award, closure>>

\* Mutant: awards of the metric are not looked for.
RemoveMetricInUse(m) ==
    /\ ~IsRankingClosed
    /\ m \in ActiveMetrics
    /\ metric' = [metric EXCEPT ![m].state = "removed"]
    /\ UNCHANGED <<award, closure>>

RemoveMetric(m) ==
    /\ ~IsRankingClosed
    /\ m \in ActiveMetrics
    /\ \A a \in ActiveAwards : award[a].of.metric # m
    /\ metric' = [metric EXCEPT ![m].state = "removed"]
    /\ UNCHANGED <<award, closure>>

Seed ==
    /\ ~IsRankingClosed
    /\ metric' = SeedDefaultMetrics(metric)
    /\ UNCHANGED <<award, closure>>

-----------------------------------------------------------------------------
(* Awards, also after the closing: a reason is asked for then, and sent.   *)

Requested == [id: Award, of: Target]
Lists == UNION {[1..n -> Requested] : n \in 1..MaxList}

\* What the transaction reads when it comes to the element i of the list: the
\* awards there were, and those it has inserted.
Before(list, i) == {list[j].of : j \in 1..(i - 1)}

Standing == {award[a].of : a \in ActiveAwards}

\* Mutant: an element is compared with the table as it was before the list.
AcceptableAlone(list, i) ==
    /\ \A j \in 1..(i - 1) : list[j].id # list[i].id
    /\ award[list[i].id].state = "none"
    /\ list[i].of.team \in taking
    /\ list[i].of.discipline \in offered
    /\ list[i].of.metric \in ActiveMetrics
    /\ list[i].of \notin Standing

Acceptable(list, i) ==
    /\ \A j \in 1..(i - 1) : list[j].id # list[i].id
    /\ award[list[i].id].state = "none"
    /\ list[i].of.team \in taking
    /\ list[i].of.discipline \in offered
    /\ list[i].of.metric \in ActiveMetrics
    /\ list[i].of \notin Standing \cup Before(list, i)

\* One element that is refused rolls the whole list back.
AddAwards(list) ==
    /\ \A i \in DOMAIN list : Acceptable(list, i)
    /\ award' = [a \in Award |->
                   IF \E i \in DOMAIN list : list[i].id = a
                     THEN [state |-> "active",
                           of |-> list[CHOOSE i \in DOMAIN list : list[i].id = a].of]
                     ELSE award[a]]
    /\ UNCHANGED <<metric, closure>>

RevokeAward(a) ==
    /\ a \in ActiveAwards
    /\ award' = [award EXCEPT ![a].state = "revoked"]
    /\ UNCHANGED <<metric, closure>>

-----------------------------------------------------------------------------
(* Closing.                                                                *)

\* Mutant: a closed ranking may be closed.
CloseAgain ==
    /\ Len(closure) < MaxClosures
    /\ closure' = Append(closure, FALSE)
    /\ UNCHANGED <<metric, award>>

Close ==
    /\ ~IsRankingClosed
    /\ Len(closure) < MaxClosures
    /\ closure' = Append(closure, FALSE)
    /\ UNCHANGED <<metric, award>>

\* The newest closure that is open.
Reopen ==
    /\ \E i \in DOMAIN closure :
         /\ ~closure[i]
         /\ \A j \in (i + 1)..Len(closure) : closure[j]
         /\ closure' = [closure EXCEPT ![i] = TRUE]
    /\ UNCHANGED <<metric, award>>

-----------------------------------------------------------------------------
(* The edition.                                                            *)

\* ranking/... is no global action and none of a manager or a responsible:
\* authorize lets the full scope through.
RankingBy(u) ==
    /\ Full \in Scopes(u)
    /\ \/ \E m \in Metric : \/ \E p \in Position \cup {Manual} : AddMetric(m, p) \/ UpdateMetric(m, p)
                            \/ RemoveMetric(m)
       \/ Seed
       \/ \E list \in Lists : AddAwards(list)
       \/ \E a \in Award : RevokeAward(a)
       \/ Close \/ Reopen
    /\ UNCHANGED rosterVars

\* discipline/delete counts the awards too, revoked ones among them.
AwardsImpede ==
    \A a \in Award : award[a].state # "none" => award[a].of.discipline \notin offered \ offered'

Next ==
    \/ RosterNext /\ AwardsImpede /\ UNCHANGED rankingVars
    \/ \E u \in Account : RankingBy(u)

Spec == Init /\ [][Next]_vars

-----------------------------------------------------------------------------
(* Properties                                                              *)

\* No team scores one metric of one discipline twice: neither an award that
\* stands nor an earlier element of the same list is awarded again.
NothingScoresTwice ==
    \A a, b \in ActiveAwards : award[a].of = award[b].of => a = b

\* What scores stands on something the edition still has: removing a metric is
\* refused while awards of it stand, deleting a discipline while any was ever
\* given in it, and no order of removals and awards gets around both.
ScoresStand ==
    \A a \in Award : award[a].state # "none" =>
        /\ award[a].of.team \in taking
        /\ award[a].of.discipline \in offered
        /\ metric[award[a].of.metric].state # "none"
        /\ a \in ActiveAwards => award[a].of.metric \in ActiveMetrics

\* Seeding decides nothing for those who set the ranking up: no metric that was
\* removed comes back, and a ranking in which some metric scores gets another
\* one only from an operator who names it, so no position of the podium comes
\* to be rewarded twice behind anybody's back (seedDefaultOverallMetrics).
SeedingRespectsChoices ==
    [][/\ \A m \in Metric : metric[m].state = "removed" => metric'[m].state = "removed"
       /\ ActiveMetrics # {} /\ ~(ActiveMetrics' \subseteq ActiveMetrics) =>
            \E m \in Metric, p \in Position \cup {Manual} : AddMetric(m, p)]_vars

\* A ranking is closed by one closure at a time, the last of them, so that one
\* reopening opens it.
OneClosureAtATime ==
    \A i \in DOMAIN closure : i < Len(closure) => closure[i]

=============================================================================
