------------------------------- MODULE Bracket -------------------------------
(***************************************************************************)
(* The knockout of one category, as EditionActionRecalculationService      *)
(* builds it from results and MatchActionHandler disturbs it.              *)
(*                                                                         *)
(* Every official result recomputes the category inside its transaction,   *)
(* so an action here is one committed edition action.  The classification  *)
(* phase is its table (the entries in the order of their ranks) and how    *)
(* much of it is played; a match keeps what the bracket reads of it.       *)
(***************************************************************************)
EXTENDS Integers, Sequences, FiniteSetsExt, Functions

CONSTANTS
    Entry, None,
    Tables,     \* orders the classification may end in: sequences of entries
    Rules,      \* advancement: qualifiers (perGroup and bestThirds), crossing, third
    Keys        \* published first rounds: slot -> the two positions of its label

NoKey == << >>      \* nothing is published
Third == <<0, 1>>   \* the match for the third place, outside the rounds
Place == {Third} \cup ((Nat \ {0}) \X (Nat \ {0}))

ASSUME EntryAssumption == None \notin Entry
ASSUME TableAssumption == \A t \in Tables :
    t \in Seq(Entry) /\ IsInjective(t) /\ \A r \in Rules : r.qualifiers <= Len(t)
ASSUME RuleAssumption ==
    Rules \subseteq [qualifiers: Nat, crossing: {"padrao", "sequencial"}, third: BOOLEAN]
ASSUME KeyAssumption == Keys \subseteq Seq(Nat \X Nat)

VARIABLES
    rule, published,    \* the advancement and the published key
    table, played,      \* the classification: its order; none, some or all of it
    matches,            \* the matches ...-advanced: a function of places
    byes,               \* progressionByes: [round, slot, entry]
    status,             \* of the category
    byHand,             \* history: a setup wrote it, no progression has since
    deleted             \* history: a match of the key as it stands was deleted

vars == <<rule, published, table, played, matches, byes, status, byHand, deleted>>

TournamentStatus == {"DRAFT", "SCHEDULED", "ONGOING", "FINISHED", "CANCELLED"}
MatchStatus == {"SCHEDULED", "LIVE", "POSTPONED", "CANCELLED", "FINISHED", "WALKOVER"}
Side == Entry \cup {None}
NoLabel == << >>
Match == [status: MatchStatus, a: Side, b: Side, winner: Side,
          label: (Nat \X Nat) \cup {NoLabel}]

TypeOK ==
    /\ rule \in Rules /\ published \in Keys \cup {NoKey}
    /\ table \in Tables /\ played \in {"none", "some", "all"}
    /\ DOMAIN matches \subseteq Place
    /\ \A p \in DOMAIN matches : matches[p] \in Match
    /\ byes \subseteq [round: Nat \ {0}, slot: Nat \ {0}, entry: Entry]
    /\ status \in TournamentStatus
    /\ byHand \in BOOLEAN /\ deleted \in BOOLEAN

Scheduled(a, b, label) ==
    [status |-> "SCHEDULED", a |-> a, b |-> b, winner |-> None, label |-> label]

Power[k \in Nat] == IF k = 0 THEN 1 ELSE 2 * Power[k - 1]

(* A published key is in the agenda, all rounds of it, before any result:  *)
(* a label stands for who is still to be decided.                          *)
Agenda(key, withThird) ==
    LET size == Len(key)
        later == {p \in (2..size) \X (1..size) : p[2] * Power[p[1] - 1] <= size}
        first == {1} \X DOMAIN key
    IN  [p \in first \cup later \cup (IF withThird /\ key # NoKey THEN {Third} ELSE {}) |->
            Scheduled(None, None, IF p \in first THEN key[p[2]] ELSE NoLabel)]

Init ==
    /\ rule \in Rules
    /\ published \in {key \in Keys : 2 * Len(key) = rule.qualifiers} \cup {NoKey}
    /\ table \in Tables /\ played = "none"
    /\ matches = Agenda(published, rule.third)
    /\ byes = {}
    /\ status \in TournamentStatus /\ byHand = TRUE
    /\ deleted = FALSE
-----------------------------------------------------------------------------
(* THE PROGRESSION, over a state c of the category                         *)

Official(m) == m.status \in {"FINISHED", "WALKOVER"}
Known(m) == m.a # None /\ m.b # None

RoundOf(ms, r) == {p \in DOMAIN ms : p[1] = r}
RoundsOf(ms) == {p[1] : p \in DOMAIN ms \ {Third}}
(* definida: every match of the round has its two participants.            *)
Defined(ms) == {r \in RoundsOf(ms) : \A p \in RoundOf(ms, r) : Known(ms[p])}

(* A pairing is a sequence of [a, b], b = None being a bye.                *)
SequentialPairs(entries) ==
    [i \in 1..((Len(entries) + 1) \div 2) |->
        [a |-> entries[2 * i - 1],
         b |-> IF 2 * i <= Len(entries) THEN entries[2 * i] ELSE None]]

(* The least power of two that seats n entries, of two or more.            *)
PowerAbove(n) == Power[CHOOSE k \in 1..n : Power[k - 1] < n /\ n <= Power[k]]

(* Mutant: the mirror of a position is one too low.                        *)
SeedPairsOffByOne(entries) ==
    IF Len(entries) < 2 THEN << >>
    ELSE LET size == PowerAbove(Len(entries))
         IN  [i \in 1..(size \div 2) |->
                 [a |-> entries[i],
                  b |-> IF size - i \in 1..Len(entries) THEN entries[size - i] ELSE None]]
(* The first against the last, the second against the last but one.        *)
SeedPairs(entries) ==
    IF Len(entries) < 2 THEN << >>
    ELSE IF rule.crossing = "sequencial" THEN SequentialPairs(entries)
    ELSE LET size == PowerAbove(Len(entries))
         IN  [i \in 1..(size \div 2) |->
                 [a |-> entries[i],
                  b |-> IF size + 1 - i <= Len(entries) THEN entries[size + 1 - i] ELSE None]]

(* paresDaChavePublicada: all labels of the agenda's first round resolve,  *)
(* to different entries, or the seeding decides.                           *)
PublishedPairs(c) ==
    [s \in {p[2] : p \in RoundOf(c.matches, 1)} |->
        LET label == c.matches[<<1, s>>].label
        IN  [a |-> c.table[label[1]], b |-> c.table[label[2]]]]

Resolves(c) ==
    LET first == RoundOf(c.matches, 1)
        labels == {c.matches[p].label : p \in first}
        positions == UNION {Range(l) : l \in labels}
    IN  /\ first # {} /\ NoLabel \notin labels
        /\ positions \subseteq DOMAIN c.table
        /\ Cardinality(positions) = 2 * Cardinality(first)

FirstPairs(c) ==
    IF Resolves(c) THEN PublishedPairs(c)
    ELSE SeedPairs(SubSeq(c.table, 1, rule.qualifiers))

(* createRound: a match of the agenda still scheduled gets its             *)
(* participants, one that has left SCHEDULED is not touched.               *)
CreateRound(ms, r, pairs) ==
    LET full == {<<r, s>> : s \in {i \in DOMAIN pairs : pairs[i].b # None}}
    IN  [p \in DOMAIN ms \cup full |->
            IF p \in full /\ (p \in DOMAIN ms => ms[p].status = "SCHEDULED")
            THEN Scheduled(pairs[p[2]].a, pairs[p[2]].b, NoLabel)
            ELSE ms[p]]

ByesOf(r, pairs) ==
    {[round |-> r, slot |-> s, entry |-> pairs[s].a] :
        s \in {i \in DOMAIN pairs : pairs[i].b = None}}
StoreByes(bs, r, pairs) == {bye \in bs : bye.round # r} \cup ByesOf(r, pairs)

CreateFirstRound(c) ==
    LET pairs == FirstPairs(c)
    IN  IF c.played # "all" \/ (\A s \in DOMAIN pairs : pairs[s].b = None) THEN c
        ELSE [c EXCEPT !.matches = CreateRound(c.matches, 1, pairs),
                       !.byes = StoreByes(c.byes, 1, pairs),
                       !.status = "ONGOING", !.byHand = FALSE]

InOrder(S) == [i \in 1..Cardinality(S) |-> CHOOSE x \in S : Cardinality({y \in S : y < x}) = i - 1]

ByesAt(c, r) == {bye \in c.byes : bye.round = r}
Slots(c, r) == {p[2] : p \in RoundOf(c.matches, r)} \cup {bye.slot : bye \in ByesAt(c, r)}
(* Who leaves a slot for the next round: a winner, or the entry of a bye.  *)
Passing(c, r, s) ==
    IF <<r, s>> \in DOMAIN c.matches THEN c.matches[<<r, s>>].winner
    ELSE (CHOOSE bye \in ByesAt(c, r) : bye.slot = s).entry

(* Mutant: whoever passed without playing is forgotten.                    *)
WinnersWhoPlayed(c, r) ==
    LET slots == {p[2] : p \in RoundOf(c.matches, r)}
    IN  [i \in 1..Cardinality(slots) |-> Passing(c, r, InOrder(slots)[i])]
(* The winners of a round in the order of the slots, byes among them.      *)
Winners(c, r) ==
    [i \in 1..Cardinality(Slots(c, r)) |-> Passing(c, r, InOrder(Slots(c, r))[i])]

Loser(m) == IF m.winner = m.a THEN m.b ELSE m.a

(* The match for the third place is created, or its labels are replaced.   *)
ThirdPlace(ms, r) ==
    LET semis == InOrder({p[2] : p \in RoundOf(ms, r)})
        loser(i) == Loser(ms[<<r, semis[i]>>])
    IN  IF Third \in DOMAIN ms /\ (ms[Third].status # "SCHEDULED" \/ Known(ms[Third]))
        THEN ms
        ELSE [p \in DOMAIN ms \cup {Third} |->
                 IF p = Third THEN Scheduled(loser(1), loser(2), NoLabel) ELSE ms[p]]

NextRound(c, r) ==
    LET winners == Winners(c, r)
        pairs == SequentialPairs(winners)
        created == CreateRound(c.matches, r + 1, pairs)
        third == rule.third /\ Len(winners) = 2 /\ Cardinality(RoundOf(c.matches, r)) = 2
    IN  [c EXCEPT !.matches = IF third THEN ThirdPlace(created, r) ELSE created,
                  !.byes = StoreByes(c.byes, r + 1, pairs),
                  !.status = "ONGOING", !.byHand = FALSE]

ThirdPending(ms) == Third \in DOMAIN ms /\ ~Official(ms[Third])

(* A round is settled when all its matches are official and have winners.  *)
Settled(c, r) ==
    /\ \A p \in RoundOf(c.matches, r) : Official(c.matches[p])
    /\ None \notin Range(Winners(c, r))

ProgressKnockout(c) ==
    LET last == Max(Defined(c.matches))
    IN  IF Defined(c.matches) = {} THEN CreateFirstRound(c)
        ELSE IF ~Settled(c, last) THEN c
        ELSE IF Len(Winners(c, last)) > 1 THEN NextRound(c, last)
        ELSE IF ThirdPending(c.matches) THEN c
        ELSE [c EXCEPT !.status = "FINISHED", !.byHand = FALSE]

(* syncStatusWithMatches: whoever recomputes has just made a result        *)
(* official, so the category has started.                                  *)
SyncStatus(c) == IF c.status = "SCHEDULED" THEN [c EXCEPT !.status = "ONGOING"] ELSE c

RecomputeTournament(ms, bs, order, part) ==
    LET c == SyncStatus(ProgressKnockout(
                 [matches |-> ms, byes |-> bs, table |-> order, played |-> part,
                  status |-> status, byHand |-> byHand]))
    IN  /\ matches' = c.matches /\ byes' = c.byes
        /\ status' = c.status /\ byHand' = c.byHand
        /\ table' = order /\ played' = part
        /\ UNCHANGED rule
-----------------------------------------------------------------------------
(* THE ACTIONS OF THE EDITION *)

(* A result of the classification, possibly the last one.                  *)
ClassificationResult ==
    /\ played # "all"
    /\ \E order \in Tables, part \in {"some", "all"} : RecomputeTournament(matches, byes, order, part)
    /\ UNCHANGED <<published, deleted>>

(* dependentMatches of a result of the classification: the whole key.      *)
CorrectClassification ==
    /\ played # "none"
    /\ \A p \in DOMAIN matches : matches[p].status = "SCHEDULED"
    /\ \E order \in Tables : RecomputeTournament(NoKey, byes, order, played)
    /\ deleted' = FALSE
    /\ UNCHANGED published

(* match/update: a change of status decides nothing and recounts nothing.  *)
Update(p) ==
    /\ \E to \in CASE matches[p].status = "SCHEDULED" -> {"LIVE", "POSTPONED", "CANCELLED"}
                   [] matches[p].status = "LIVE" -> {"FINISHED", "POSTPONED"}
                   [] matches[p].status = "POSTPONED" -> {"SCHEDULED", "CANCELLED"}
                   [] OTHER -> {} :
          matches' = [matches EXCEPT ![p].status = to]
    /\ UNCHANGED <<rule, published, table, played, byes, status, byHand, deleted>>

(* match/delete: a match still to come, of the key too; nothing is         *)
(* recounted.  Update makes a match live as start does, but leaves neither *)
(* startedAt nor an event behind, the two other things delete asks for.    *)
Delete(p) ==
    /\ matches[p].status = "SCHEDULED"
    /\ matches' = Restrict(matches, DOMAIN matches \ {p})
    /\ deleted' = TRUE
    /\ UNCHANGED <<rule, published, table, played, byes, status, byHand>>

Decide(p, ms, how, winner) ==
    /\ RecomputeTournament([ms EXCEPT ![p].status = how, ![p].winner = winner], byes, table, played)
    /\ UNCHANGED <<published, deleted>>

(* match/finish on a live match, match/recordResult on one still to come.  *)
Finish(p) ==
    /\ matches[p].status \in {"SCHEDULED", "LIVE", "POSTPONED"}
    /\ Known(matches[p])
    /\ \E winner \in {matches[p].a, matches[p].b} : Decide(p, matches, "FINISHED", winner)

WalkOver(p) ==
    /\ matches[p].status \in {"SCHEDULED", "LIVE", "POSTPONED"}
    /\ \E winner \in {matches[p].a, matches[p].b} \ {None} : Decide(p, matches, "WALKOVER", winner)

(* Mutant: the third place is not counted among the dependents.            *)
DependentsInRounds(p) ==
    IF p = Third THEN {} ELSE {q \in DOMAIN matches : q[1] > p[1]}
(* dependentMatches of a match of the key: all later rounds, and the third *)
(* place unless the match is of the last round.                            *)
Dependents(p) ==
    LET later == {q \in DOMAIN matches : q[1] > p[1]}
    IN  IF p = Third THEN {} ELSE later \cup (IF later = {} THEN {} ELSE {Third} \cap DOMAIN matches)

(* Mutant: the key is cut back and not built again.                        *)
CorrectWithoutRecount(p) ==
    /\ Official(matches[p])
    /\ \A q \in Dependents(p) : matches[q].status = "SCHEDULED"
    /\ matches' = Restrict(matches, DOMAIN matches \ Dependents(p))
    /\ UNCHANGED <<rule, published, table, played, byes, status, byHand, deleted>>
Correct(p) ==
    /\ Official(matches[p])
    /\ \A q \in Dependents(p) : matches[q].status = "SCHEDULED"
    /\ \E winner \in {matches[p].a, matches[p].b} :
          Decide(p, Restrict(matches, DOMAIN matches \ Dependents(p)), "FINISHED", winner)

(* category/update: whatever status the setup carries is written, matches  *)
(* and byes stay.  (Once a match was operated the setup may not change the *)
(* advancement; before, one that does leads where another Init starts.)    *)
CategoryUpdate ==
    /\ status' \in TournamentStatus /\ byHand' = TRUE
    /\ UNCHANGED <<rule, published, table, played, matches, byes, deleted>>

(* category/generateMatches: the key is thrown away with the schedule, and *)
(* the status is again the setup's.                                        *)
GenerateMatches ==
    /\ matches' = NoKey /\ byes' = {} /\ played' = "none"
    /\ published' = NoKey /\ deleted' = FALSE
    /\ status' \in TournamentStatus /\ byHand' = TRUE
    /\ UNCHANGED <<rule, table>>

Next ==
    \/ ClassificationResult \/ CorrectClassification
    \/ \E p \in DOMAIN matches : Update(p) \/ Delete(p) \/ Finish(p) \/ WalkOver(p) \/ Correct(p)
    \/ CategoryUpdate \/ GenerateMatches

Spec == Init /\ [][Next]_vars
-----------------------------------------------------------------------------
(* PROPERTIES *)

Category == [matches |-> matches, byes |-> byes, table |-> table, played |-> played,
             status |-> status, byHand |-> byHand]
Qualified == Range(SubSeq(table, 1, rule.qualifiers))
Rounds == RoundsOf(matches)
Seats(r, e) ==
    {p \in RoundOf(matches, r) : e \in {matches[p].a, matches[p].b}}
        \cup {bye \in byes : bye.round = r /\ bye.entry = e}

(* Corrections included, who plays in a later round are the winners of the *)
(* round before it, pair by pair, and the third place is between the       *)
(* losers of the semifinals: no result leaves a stale opponent behind.     *)
(* (This and the next three hold until a match of the key is deleted.)     *)
WinnersAdvance ==
    ~deleted =>
    /\ \A p \in DOMAIN matches : p[1] > 1 /\ Known(matches[p]) =>
          LET pairs == SequentialPairs(Winners(Category, p[1] - 1))
          IN  p[2] \in DOMAIN pairs /\ pairs[p[2]] = [a |-> matches[p].a, b |-> matches[p].b]
    /\ Third \in DOMAIN matches /\ Known(matches[Third]) =>
          {matches[Third].a, matches[Third].b} =
              {Loser(matches[p]) : p \in RoundOf(matches, Max(Rounds) - 1)}

(* A seeded key seats every qualified entry exactly once in its first      *)
(* round, on a match or on a bye.                                          *)
SeededOnce ==
    published = NoKey /\ 1 \in Rounds /\ ~deleted =>
        \A e \in Entry : Cardinality(Seats(1, e)) = IF e \in Qualified THEN 1 ELSE 0

Beaten(e) ==
    \E p \in DOMAIN matches \ {Third} :
        Official(matches[p]) /\ matches[p].winner # None /\ e = Loser(matches[p])

(* A seeded category is over when the final is: all but one of the         *)
(* qualified entries were beaten, and the third place is decided.  (Unless *)
(* a setup said Encerrado: no handler asks whether the final was played.)  *)
EndsWithTheFinal ==
    published = NoKey /\ status = "FINISHED" /\ ~byHand /\ ~deleted =>
        /\ Cardinality({e \in Qualified : ~Beaten(e)}) = 1
        /\ ~ThirdPending(matches)

(* A seeded key never waits for nothing: when its last round is settled    *)
(* the category is over or the third place has no winner yet, so no result *)
(* is lost for the progression, the correction of one included.  (A match  *)
(* that match/update calls Encerrada has no winner.  A setup that writes   *)
(* another status takes the end back; the next result recounted is enough  *)
(* to write it again.)                                                     *)
NeverStuck ==
    published = NoKey /\ Rounds # {} /\ Settled(Category, Max(Rounds)) /\ ~deleted =>
        \/ status = "FINISHED" \/ byHand
        \/ Third \in DOMAIN matches /\ matches[Third].winner = None

(* No entry has two seats in one round.                                    *)
NoHalfKey == \A r \in Rounds, e \in Entry : Cardinality(Seats(r, e)) <= 1

(* The key the organisation published decides who meets in the first       *)
(* round, whatever the seeding would do.                                   *)
PublishedKeyRules ==
    published # NoKey /\ 1 \in Defined(matches) =>
        \A s \in DOMAIN published :
            /\ <<1, s>> \in DOMAIN matches
            /\ matches[<<1, s>>].a = table[published[s][1]]
            /\ matches[<<1, s>>].b = table[published[s][2]]
=============================================================================
