------------------------------- MODULE Category -------------------------------
(***************************************************************************)
(* The structure of one category under CategoryActionHandler: its entries, *)
(* phases and groups, the matches that hang on them, and the standings the *)
(* recalculation last stored.                                              *)
(*                                                                         *)
(* The database is external: deleting a phase deletes its matches and      *)
(* rows, deleting a group or an entry leaves a null behind.  An action is  *)
(* one committed edition action.  Of the matches only what decides their   *)
(* place and whether they were operated is kept (MatchOperation has their  *)
(* life); the ones the knockout creates are Bracket's.                     *)
(***************************************************************************)
EXTENDS Integers, Sequences, FiniteSetsExt, Functions

CONSTANTS
    Entry, PhaseId, GroupName,
    Label,              \* the text that stands for a participant to be decided
    None,
    Scheduled, Generated,   \* match identifiers: chosen freely, and those a generation replaces
    Setups,             \* the setups a client may send
    MayLeave,           \* the entries who may be taken out of the edition
    Pairs               \* the pairs of sides a match may be made with

Side == Entry \cup {Label, None}
PhaseType == {"GROUP", "LEAGUE", "KNOCKOUT"}

PhaseRow == [id: PhaseId, type: PhaseType, qualifiers: Nat, groups: SUBSET GroupName]

(* A setup as parseSetup returns it; the advancement is compared and       *)
(* stored as the qualifiers of a phase are, the format follows from the    *)
(* phases, the name is only stored, and of the byes who has one is kept.   *)
IsSetup(s) ==
    /\ DOMAIN s.seeds \subseteq s.participants /\ s.participants \subseteq Entry
    /\ s.phases \in Seq(PhaseRow) /\ s.phases # << >>
    /\ \A i, j \in DOMAIN s.phases : s.phases[i].id = s.phases[j].id => i = j
    /\ DOMAIN s.assignments \subseteq s.participants
    /\ \A p \in DOMAIN s.assignments : \E i \in DOMAIN s.phases : s.assignments[p] \in s.phases[i].groups
    /\ s.byes # None => s.byes \subseteq s.participants
    /\ s.draft \in BOOLEAN

ASSUME SetupAssumption == \A s \in Setups : IsSetup(s)
ASSUME NoneAssumption == {Label, None} \cap Entry = {} /\ None \notin GroupName /\ Label # None
ASSUME MatchAssumption == Scheduled \cap Generated = {}
ASSUME LeaveAssumption == MayLeave \subseteq Entry
ASSUME PairAssumption == Pairs \subseteq (Entry \cup {Label}) \X (Entry \cup {Label})
                         /\ \A x \in Pairs : x[1] = x[2] => x[1] = Label

VARIABLES
    exists,
    draft,      \* whether its status is DRAFT
    seeds,      \* entries and their seeds: a function of the participants
    phases,     \* in their order: [id, type, qualifiers, groups]
    members,    \* group entries: <<phase, group, entry>>
    byes,       \* the stored config: None, or who has a bye
    found,      \* who is in the edition, outside the category
    matches,    \* a function of the identifiers in use
    rows,       \* the stored standings: <<phase, entry, match it counts>>
    stale       \* history: since the last recount, official matches were
                \* regenerated or a match/update ended a live one

structure == <<seeds, phases, members>>
vars == <<exists, draft, structure, byes, found, matches, rows, stale>>

MatchStatus == {"SCHEDULED", "LIVE", "POSTPONED", "CANCELLED", "FINISHED", "WALKOVER"}
Match == [phase: PhaseId, group: GroupName \cup {None}, a: Side, b: Side,
          status: MatchStatus, touched: BOOLEAN]    \* touched: started once, or with events

PhasesOf(ps) == {ps[i].id : i \in DOMAIN ps}
PhaseOf(ps, id) == ps[CHOOSE i \in DOMAIN ps : ps[i].id = id]

TypeOK ==
    /\ exists \in BOOLEAN /\ draft \in BOOLEAN /\ stale \in BOOLEAN
    /\ DOMAIN seeds \subseteq Entry
    /\ phases \in Seq(PhaseRow)
    /\ \A i, j \in DOMAIN phases : phases[i].id = phases[j].id => i = j
    /\ \A i \in DOMAIN phases : phases[i].type # "GROUP" => phases[i].groups = {}
    /\ members \subseteq PhaseId \X GroupName \X (DOMAIN seeds)
    /\ \A x \in members : x[1] \in PhasesOf(phases) /\ x[2] \in PhaseOf(phases, x[1]).groups
    /\ \A x, y \in members : x[3] = y[3] => x = y
    /\ DOMAIN matches \subseteq Scheduled \cup Generated
    /\ \A m \in DOMAIN matches :
          /\ matches[m] \in Match
          /\ {matches[m].a, matches[m].b} \subseteq DOMAIN seeds \cup {Label, None}
          /\ matches[m].phase \in PhasesOf(phases)
          /\ matches[m].group # None => matches[m].group \in PhaseOf(phases, matches[m].phase).groups
    /\ rows \subseteq PhasesOf(phases) \X (DOMAIN seeds) \X (Scheduled \cup Generated)
    /\ byes # None => byes \subseteq Entry
    /\ found \subseteq Entry
    /\ exists <=> phases # << >>
    /\ ~exists => DOMAIN seeds = {} /\ DOMAIN matches = {}

Init ==
    /\ exists = FALSE /\ draft = TRUE
    /\ seeds = << >> /\ phases = << >> /\ members = {}
    /\ byes = None /\ found = Entry
    /\ matches = << >> /\ rows = {}
    /\ stale = FALSE
-----------------------------------------------------------------------------
(* STRUCTURE *)

(* structureSignature: what is stored.                                     *)
Structure ==
    [participants |-> seeds,
     phases |-> [i \in DOMAIN phases |->
        [id |-> phases[i].id, type |-> phases[i].type, qualifiers |-> phases[i].qualifiers,
         groups |-> [g \in phases[i].groups |-> {x[3] : x \in {y \in members : y[1] = phases[i].id /\ y[2] = g}}]]]]

Assigned(s, g) == {p \in DOMAIN s.assignments : s.assignments[p] = g}

(* Mutant: a participant without a seed is left out of the comparison.     *)
RequestedOfSeeded(s) ==
    [participants |-> s.seeds,
     phases |-> [i \in DOMAIN s.phases |->
        [id |-> s.phases[i].id, type |-> s.phases[i].type, qualifiers |-> s.phases[i].qualifiers,
         groups |-> [g \in s.phases[i].groups |-> Assigned(s, g)]]]]
(* requestedStructureSignature: what a setup asks for.                     *)
Requested(s) ==
    [participants |-> [p \in s.participants |-> IF p \in DOMAIN s.seeds THEN s.seeds[p] ELSE None],
     phases |-> [i \in DOMAIN s.phases |->
        [id |-> s.phases[i].id, type |-> s.phases[i].type, qualifiers |-> s.phases[i].qualifiers,
         groups |-> [g \in s.phases[i].groups |-> Assigned(s, g)]]]]

Official(m) == m.status \in {"FINISHED", "WALKOVER"}
Operated == \E m \in DOMAIN matches : matches[m].status \in {"LIVE", "FINISHED", "WALKOVER"}

(* Mutant: the matches a generation will replace are gone already.         *)
UnchangedIfStillOperated(s) ==
    (\E m \in DOMAIN matches \ Generated : matches[m].status \in {"LIVE", "FINISHED", "WALKOVER"}) =>
        Requested(s) = Structure
(* assertOperatedStructureUnchanged.                                       *)
UnchangedIfOperated(s) == Operated => Requested(s) = Structure

(* reconcileEntries: a seed that is not given stays as it was.             *)
Seeds(s) ==
    [p \in s.participants |->
        IF p \in DOMAIN s.seeds THEN s.seeds[p]
        ELSE IF p \in DOMAIN seeds THEN seeds[p] ELSE None]

(* Only a phase of groups has groups.                                      *)
Phases(s) ==
    [i \in DOMAIN s.phases |->
        [s.phases[i] EXCEPT !.groups = IF s.phases[i].type = "GROUP" THEN @ ELSE {}]]

(* groupsByName: the last phase with a group of that name has it.          *)
Members(s) ==
    LET with(g) == {i \in DOMAIN s.phases : g \in Phases(s)[i].groups}
    IN  {<<s.phases[Max(with(s.assignments[p]))].id, s.assignments[p], p>> :
            p \in {q \in DOMAIN s.assignments : with(s.assignments[q]) # {}}}

(* What the foreign keys leave of the matches ms and of the standings.     *)
SideLeft(s, side) == IF side \in Entry \ s.participants THEN None ELSE side
Cascade(s, ms) ==
    [m \in {n \in DOMAIN ms : ms[n].phase \in PhasesOf(s.phases)} |->
        [ms[m] EXCEPT !.a = SideLeft(s, @), !.b = SideLeft(s, @),
                      !.group = IF @ \in PhaseOf(Phases(s), ms[m].phase).groups THEN @ ELSE None]]
RowsLeft(s) == {x \in rows : x[1] \in PhasesOf(s.phases) /\ x[2] \in s.participants}

ReconcileSetup(s) ==
    /\ seeds' = Seeds(s)
    /\ phases' = Phases(s)
    /\ members' = Members(s)
    /\ rows' = RowsLeft(s)

(* The setup the snapshot shows, which a client edits and sends back.      *)
Shown ==
    [participants |-> DOMAIN seeds,
     seeds |-> Restrict(seeds, {p \in DOMAIN seeds : seeds[p] # None}),
     phases |-> phases,
     assignments |-> [p \in {x[3] : x \in members} |-> (CHOOSE x \in members : x[3] = p)[2]],
     byes |-> byes, draft |-> draft]
Sent == Setups \cup (IF exists THEN {Shown} ELSE {})

(* What refuses a setup: parseSetup, the participants reconcileEntries     *)
(* does not find in the edition, and the frozen structure.                 *)
Accepted(s) ==
    /\ IsSetup(s)
    /\ s.participants \subseteq found
    /\ UnchangedIfOperated(s)

(* tournamentConfig, but for a generation, which forgets them.             *)
Byes(s) == IF s.byes = None THEN byes ELSE s.byes
-----------------------------------------------------------------------------
(* THE ACTIONS ON THE CATEGORY *)

Create ==
    /\ ~exists
    /\ exists' = TRUE
    /\ \E s \in Setups : Accepted(s) /\ ReconcileSetup(s) /\ draft' = s.draft /\ byes' = s.byes
    /\ UNCHANGED <<found, matches, stale>>

Update ==
    /\ exists
    /\ \E s \in Sent :
          /\ Accepted(s)
          /\ ReconcileSetup(s)
          /\ draft' = s.draft
          /\ byes' = Byes(s)
          /\ matches' = Cascade(s, matches)
    /\ UNCHANGED <<exists, found, stale>>

(* The names a match may be put under, and where a name leads: to a group  *)
(* of that name, in whichever phase, otherwise to the phase.               *)
Places(ps) ==
    LET grouped == {x \in PhasesOf(ps) \X GroupName : x[2] \in PhaseOf(ps, x[1]).groups}
    IN  grouped \cup (PhasesOf(ps) \X {None})

NewMatch(place, pair) ==
    [phase |-> place[1], group |-> place[2], a |-> pair[1], b |-> pair[2],
     status |-> "SCHEDULED", touched |-> FALSE]

Playable(pair, entries) == {pair[1], pair[2]} \subseteq entries

(* Mutant: all matches of the category give way.                           *)
ReplacedAll == DOMAIN matches
(* The matches that give way are those with a generated identifier.        *)
Replaced == DOMAIN matches \cap Generated

(* generateMatches, a reason being given if some were operated: nothing is *)
(* recounted.  The client names the new matches.                           *)
GenerateMatches ==
    /\ exists
    /\ \E s \in Sent, new \in SUBSET ((Scheduled \ DOMAIN matches) \cup Generated) :
          /\ Accepted(s)
          /\ ReconcileSetup(s)
          /\ draft' = s.draft
          /\ \E place \in [new -> Places(Phases(s))],
                pair \in [new -> {x \in Pairs : Playable(x, s.participants)}] :
                LET kept == Cascade(s, Restrict(matches, DOMAIN matches \ Replaced))
                IN  matches' = [m \in DOMAIN kept \cup new |->
                                  IF m \in new THEN NewMatch(place[m], pair[m]) ELSE kept[m]]
    /\ byes' = None
    /\ stale' = (stale \/ \E m \in Replaced : Official(matches[m]))
    /\ UNCHANGED <<exists, found>>

(* Only a draft without matches and entries goes.                          *)
Delete ==
    /\ exists /\ draft
    /\ DOMAIN seeds = {} /\ DOMAIN matches = {}
    /\ exists' = FALSE
    /\ phases' = << >> /\ members' = {} /\ byes' = None /\ rows' = {}
    /\ UNCHANGED <<draft, seeds, found, matches, stale>>

(* athlete/update takes somebody out of the edition, or out of the rosters *)
(* of an individual discipline, and back, whatever they are entered in.    *)
RosterChanges ==
    /\ \E e \in MayLeave : found' \in {found \ {e}, found \cup {e}}
    /\ UNCHANGED <<exists, draft, structure, byes, matches, rows, stale>>
-----------------------------------------------------------------------------
(* THE ACTIONS ON A MATCH *)

Schedule(m) ==
    /\ exists
    /\ m \notin DOMAIN matches
    /\ \E place \in Places(phases), pair \in Pairs :
          /\ Playable(pair, DOMAIN seeds \cup {Label})
          /\ matches' = [n \in DOMAIN matches \cup {m} |->
                            IF n = m THEN NewMatch(place, pair) ELSE matches[n]]
    /\ UNCHANGED <<exists, draft, structure, byes, found, rows, stale>>

Remove(m) ==
    /\ matches[m].status = "SCHEDULED" /\ ~matches[m].touched
    /\ matches' = Restrict(matches, DOMAIN matches \ {m})
    /\ UNCHANGED <<exists, draft, structure, byes, found, rows, stale>>

Start(m) ==
    /\ matches[m].status \in {"SCHEDULED", "POSTPONED"}
    /\ {matches[m].a, matches[m].b} \subseteq DOMAIN seeds
    /\ matches' = [matches EXCEPT ![m].status = "LIVE", ![m].touched = TRUE]
    /\ UNCHANGED <<exists, draft, structure, byes, found, rows, stale>>

(* An event in a match that an update had put live.                       *)
RegisterEvent(m) ==
    /\ matches[m].status = "LIVE"
    /\ matches' = [matches EXCEPT ![m].touched = TRUE]
    /\ UNCHANGED <<exists, draft, structure, byes, found, rows, stale>>

(* Whose match counts where: in a phase of groups for the group that has   *)
(* both entries, being the match's own if it has one, otherwise for all.   *)
Counts(ms, m, e) ==
    LET phase == PhaseOf(phases, ms[m].phase)
        both == {ms[m].a, ms[m].b}
        group(g) == {x[3] : x \in {y \in members : y[1] = phase.id /\ y[2] = g}}
    IN  /\ Official(ms[m])
        /\ e \in both
        /\ CASE phase.type = "KNOCKOUT" -> FALSE
             [] phase.groups # {} -> \E g \in phase.groups : both \subseteq group(g) /\ ms[m].group \in {g, None}
             [] OTHER -> both \subseteq DOMAIN seeds

Standings(ms) ==
    {x \in {<<ms[m].phase, e, m>> : m \in DOMAIN ms, e \in DOMAIN seeds} : Counts(ms, x[3], x[2])}

(* Mutant: the rows of before are not deleted.                             *)
RecomputeAndKeep(ms) ==
    /\ rows' = rows \cup Standings(ms)
    /\ draft' = draft
    /\ stale' = FALSE
(* recomputeTournament stores the rows of all phases; the knockout may end *)
(* the draft (Bracket).                                                    *)
RecomputeTournament(ms) ==
    /\ rows' = Standings(ms)
    /\ draft' \in {draft} \cup {FALSE : i \in {j \in DOMAIN phases : phases[j].type = "KNOCKOUT"}}
    /\ stale' = FALSE

(* finish of a live match, whoever plays, and recordResult, of one between *)
(* two entries.                                                            *)
End(m) ==
    /\ \/ matches[m].status = "LIVE"
       \/ /\ matches[m].status \in {"SCHEDULED", "POSTPONED"}
          /\ {matches[m].a, matches[m].b} \subseteq DOMAIN seeds
    /\ matches' = [matches EXCEPT ![m].status = "FINISHED"]
    /\ RecomputeTournament(matches')
    /\ UNCHANGED <<exists, structure, byes, found>>

(* correctResult, which takes the knockout matches that depend on it away. *)
CorrectResult(m) ==
    /\ Official(matches[m])
    /\ \E gone \in SUBSET {n \in Replaced \ {m} : matches[n].status = "SCHEDULED"} :
          matches' = [n \in DOMAIN matches \ gone |->
                        IF n = m THEN [matches[n] EXCEPT !.status = "FINISHED"] ELSE matches[n]]
    /\ RecomputeTournament(matches')
    /\ UNCHANGED <<exists, structure, byes, found>>

(* canTransition. *)
Transitions ==
    [SCHEDULED |-> {"SCHEDULED", "LIVE", "POSTPONED", "CANCELLED", "WALKOVER"},
     LIVE |-> {"LIVE", "FINISHED", "POSTPONED", "WALKOVER"},
     POSTPONED |-> {"POSTPONED", "SCHEDULED", "CANCELLED", "WALKOVER"},
     FINISHED |-> {"FINISHED"}, CANCELLED |-> {"CANCELLED"}, WALKOVER |-> {"WALKOVER"}]

(* As a patch may leave match x but for its status: while it is scheduled  *)
(* it may be put in another place and an entry named for a side.           *)
PlacesFor(x) == {<<x.phase, x.group>>} \cup Places(phases)
SidesFor(x) ==
    {<<x.a, x.b>>} \cup {p \in Pairs : p[1] \in DOMAIN seeds \cup {x.a} /\ p[2] \in DOMAIN seeds \cup {x.b}}
Moved(x, place, pair) ==
    [x EXCEPT !.phase = place[1], !.group = place[2], !.a = pair[1], !.b = pair[2]]
Patched(x) ==
    IF x.status # "SCHEDULED" THEN {x}
    ELSE {Moved(x, place, pair) : place \in PlacesFor(x), pair \in SidesFor(x)}

(* match/update, which recounts nothing but a walkover: neither a live     *)
(* match it ends nor one it puts live.                                     *)
UpdateMatch(m) ==
    /\ \E x \in Patched(matches[m]), to \in Transitions[matches[m].status] :
          /\ matches' = [matches EXCEPT ![m] = [x EXCEPT !.status = to]]
          /\ IF to = "WALKOVER"
             THEN /\ {matches[m].a, matches[m].b} \cap DOMAIN seeds # {}
                  /\ RecomputeTournament(matches')
             ELSE /\ stale' = (stale \/ (to = "FINISHED" /\ matches[m].status = "LIVE"))
                  /\ UNCHANGED <<draft, rows>>
    /\ UNCHANGED <<exists, structure, byes, found>>

Next ==
    \/ Create \/ Update \/ GenerateMatches \/ Delete \/ RosterChanges
    \/ \E m \in Scheduled \cup Generated : Schedule(m)
    \/ \E m \in DOMAIN matches :
          Remove(m) \/ Start(m) \/ RegisterEvent(m) \/ UpdateMatch(m) \/ End(m) \/ CorrectResult(m)

Spec == Init /\ [][Next]_vars
-----------------------------------------------------------------------------
(* PROPERTIES *)

(* Once a match was operated the category keeps its structure, whatever    *)
(* setups are sent, by an update or with a generation: the two signatures  *)
(* are built from different sources and reconcileSetup rewrites it all.    *)
StructureFrozen == [][Operated => Structure' = Structure]_vars

(* Operated matches stay where they are and between whom they were; only   *)
(* generated ones give way, to another generation.                         *)
OperatedMatchesStay ==
    [][\A m \in DOMAIN matches :
          matches[m].status \in {"LIVE", "FINISHED", "WALKOVER"} =>
              \/ m \in Generated
              \/ /\ m \in DOMAIN matches'
                 /\ LET n == matches'[m] IN
                    /\ <<n.phase, n.group, n.a, n.b>> =
                       <<matches[m].phase, matches[m].group, matches[m].a, matches[m].b>>]_vars

DistinctGroups ==
    \A i, j \in DOMAIN phases : phases[i].groups \cap phases[j].groups # {} => i = j

(* A client that sends back the setup it was shown changes nothing:        *)
(* entries, phases, groups, matches and standings survive their rewriting; *)
(* and nothing refuses it but an entry who left the edition and a bye kept *)
(* for somebody no longer entered.  (Group names must differ between       *)
(* phases; names identify entries.)                                        *)
EchoIsHarmless ==
    exists /\ DistinctGroups /\ (byes = None \/ byes \subseteq DOMAIN seeds) =>
        /\ DOMAIN seeds \subseteq found => Accepted(Shown)
        /\ Requested(Shown) = Structure
        /\ Seeds(Shown) = seeds /\ Phases(Shown) = phases /\ Members(Shown) = members
        /\ Byes(Shown) = byes
        /\ Cascade(Shown, matches) = matches
        /\ RowsLeft(Shown) = rows

(* Stated by a comment of parseSetup of the standings it accepts: that it  *)
(* does not refuse what the server itself emitted.                         *)
EchoIsAccepted == exists => Accepted(Shown)

(* The stored standings count exactly the official matches, although no    *)
(* action on the structure recounts them, nor an update that moves a match *)
(* or a correction's loss of others: only a generation that replaced       *)
(* official matches and an update that ended a live one leave them behind, *)
(* until the next result.                                                  *)
StandingsAreCurrent == ~stale => rows = Standings(matches)

(* Stated by the comment of match/schedule: a side of a match is an entry  *)
(* or a label, for otherwise nobody could operate it.                      *)
NoGhostMatch ==
    \A m \in DOMAIN matches : matches[m].a # None /\ matches[m].b # None

(* Stated by the refusal of the frozen structure, with the meaning the     *)
(* tests of match/delete give to operated: a match that was started once   *)
(* keeps its place and its sides.                                          *)
TouchedMatchesStay ==
    [][\A m \in DOMAIN matches \ Generated :
          matches[m].touched =>
              /\ m \in DOMAIN matches'
              /\ matches'[m].a = matches[m].a /\ matches'[m].b = matches[m].b]_vars
=============================================================================
