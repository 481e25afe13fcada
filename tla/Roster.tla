------------------------------- MODULE Roster -------------------------------
(***************************************************************************)
(* The catalog of an edition and its rosters: CatalogActionHandler, with   *)
(* the authorization each action passes under the scopes of module Staff.  *)
(*                                                                         *)
(* One edition is followed.  Elsewhere are the disciplines other editions  *)
(* use; a global team may exist before it takes part here.  Names, rules,  *)
(* logos and the archiving of a team that takes part decide nothing here.  *)
(***************************************************************************)
EXTENDS Staff

CONSTANTS
    Athlete,
    Elsewhere,      \* disciplines linked to other editions
    Catalog,        \* the global teams before the edition
    Shelved,        \* those archived in the catalog
    Keep            \* a field the patch does not carry

ASSUME ElsewhereAssumption == Elsewhere \subseteq Discipline /\ Catalog \subseteq Team
ASSUME ShelvedAssumption == Shelved \subseteq Catalog
ASSUME KeepAssumption == /\ Keep \notin Team \cup {None}
                         /\ \A b \in BOOLEAN : Keep # b
                         /\ \A modalities \in SUBSET Discipline : Keep # modalities

VARIABLES
    disciplines,    \* the global disciplines
    teams,          \* the global teams
    link,           \* edition_athletes: team and removal, or nothing
    roster          \* edition_rosters: team and status, or nothing

catalogVars == <<offered, taking, disciplines, teams>>
athleteVars == <<link, roster>>
rosterVars == <<staffVars, catalogVars, athleteVars>>

NoLink == [here |-> FALSE, team |-> None, removed |-> FALSE]
NoRoster == [team |-> None, status |-> "absent"]

RosterTypeOK ==
    /\ StaffTypeOK
    /\ offered \subseteq disciplines /\ disciplines \subseteq Discipline
    /\ taking \subseteq teams /\ teams \subseteq Team
    /\ link \in [Athlete -> [here: BOOLEAN, team: Team \cup {None}, removed: BOOLEAN]]
    /\ roster \in [Athlete \X Discipline ->
                     [team: Team \cup {None}, status: {"absent", "ACTIVE", "WITHDRAWN"}]]

RosterInit ==
    /\ StaffInit
    /\ offered = {} /\ disciplines = Elsewhere
    /\ taking = {} /\ teams = Catalog
    /\ link = [a \in Athlete |-> NoLink]
    /\ roster = [e \in Athlete \X Discipline |-> NoRoster]

-----------------------------------------------------------------------------
(* Disciplines and teams.                                                  *)

\* discipline/update creates what is missing; a manager sends it for the rules
\* of its own discipline alone, and changes nothing here.
DisciplineUpdate(u, d) ==
    /\ Full \in Scopes(u)
    /\ offered' = offered \cup {d}
    /\ disciplines' = disciplines \cup {d}
    /\ UNCHANGED <<taking, teams, athleteVars, staffVars>>

\* Mutant: only what is active impedes a deletion.
ActiveImpediments(d) == \/ \E a \in Athlete : roster[<<a, d>>].status = "ACTIVE"
                        \/ \E r \in roles : r.scope = d /\ ~r.revoked

\* Rosters and assignments are counted, withdrawn and revoked ones too, and so
\* are awards, which module Ranking adds, and categories.
Impediments(d) == \/ \E a \in Athlete : roster[<<a, d>>] # NoRoster
                  \/ \E r \in roles : r.scope = d

DisciplineDelete(u, d) ==
    /\ Full \in Scopes(u)
    /\ d \in offered
    /\ ~Impediments(d)
    /\ offered' = offered \ {d}
    /\ disciplines' = IF d \in Elsewhere THEN disciplines ELSE disciplines \ {d}
    /\ UNCHANGED <<taking, teams, athleteVars, staffVars>>

TeamCreate(u, t) ==
    /\ Full \in Scopes(u)
    /\ t \notin teams
    /\ teams' = teams \cup {t}
    /\ taking' = taking \cup {t}
    /\ UNCHANGED <<offered, disciplines, athleteVars, staffVars>>

TeamAttach(u, t) ==
    /\ Full \in Scopes(u)
    /\ t \in teams \ Shelved
    /\ taking' = taking \cup {t}
    /\ UNCHANGED <<offered, disciplines, teams, athleteVars, staffVars>>

-----------------------------------------------------------------------------
(* Athletes.                                                               *)

RosterOf(a) == {d \in offered : roster[<<a, d>>] # NoRoster}

\* Mutant: the team the athlete is in is not looked at.
AuthorizeByPayload(t, a, team) ==
    /\ team \in {t, Keep}
    /\ ~link[a].here => team = t

\* authorizeTeamManager: the team the payload names, and on an update the team
\* the athlete is in.
AuthorizeTeamManager(t, a, team) ==
    /\ team \in {t, Keep}
    /\ link[a].here => link[a].team = t
    /\ ~link[a].here => team = t

\* Which actions a manager of a discipline may send does not matter here: see
\* OutOfDiscipline.
Authorize(scope, a, team) == scope.kind = "team" => AuthorizeTeamManager(scope.of, a, team)

\* What commits under the scope of a discipline names that discipline in its
\* result; the actions on athletes name none, and all those of a manager are
\* rolled back when their handler has returned.
OutOfDiscipline(scope) == scope.kind = "discipline"

Status(removed) == IF removed THEN "WITHDRAWN" ELSE "ACTIVE"

\* Mutant: rows that are not listed are withdrawn where they are.
SyncListed(a, team, modalities, removed) ==
    LET listed == IF modalities = Keep THEN RosterOf(a) ELSE modalities
    IN  roster' = [e \in DOMAIN roster |->
          CASE e[1] = a /\ e[2] \in listed ->
                 [team |-> team, status |-> Status(removed)]
            [] e[1] = a /\ e[2] \in RosterOf(a) \ listed ->
                 [roster[e] EXCEPT !.status = "WITHDRAWN"]
            [] OTHER -> roster[e]]

\* syncRosters: without modalities every row follows the athlete; with them
\* the others are withdrawn and those listed are written.
SyncRosters(a, team, modalities, removed) ==
    LET listed == IF modalities = Keep THEN RosterOf(a) ELSE modalities
    IN  roster' = [e \in DOMAIN roster |->
          CASE e[1] = a /\ e[2] \in listed ->
                 [team |-> team, status |-> Status(removed)]
            [] e[1] = a /\ e[2] \in RosterOf(a) \ listed ->
                 [team |-> team, status |-> "WITHDRAWN"]
            [] OTHER -> roster[e]]

AthleteCreate(u, scope, a, team, modalities, removed) ==
    /\ ~link[a].here
    /\ modalities # Keep
    /\ Authorize(scope, a, team)
    /\ team \in taking \cup {None}
    /\ modalities \subseteq offered
    /\ link' = [link EXCEPT ![a] = [here |-> TRUE, team |-> team, removed |-> removed]]
    /\ SyncRosters(a, team, modalities, removed)
    /\ UNCHANGED <<catalogVars, staffVars>>

Patched(value, current) == IF value = Keep THEN current ELSE value

AthleteUpdate(u, scope, a, team, modalities, removed) ==
    /\ link[a].here
    /\ Authorize(scope, a, team)
    /\ Patched(team, link[a].team) \in taking \cup {None}
    /\ modalities # Keep => modalities \subseteq offered
    /\ link' = [link EXCEPT ![a].team = Patched(team, @), ![a].removed = Patched(removed, @)]
    /\ SyncRosters(a, Patched(team, link[a].team), modalities, Patched(removed, link[a].removed))
    /\ UNCHANGED <<catalogVars, staffVars>>

ActOnAthlete(u, scope, a) ==
    /\ scope \in Scopes(u) /\ ~OutOfDiscipline(scope)
    /\ \E modalities \in (SUBSET Discipline) \cup {Keep} :
         \/ \E team \in Team \cup {None}, removed \in BOOLEAN :
              AthleteCreate(u, scope, a, team, modalities, removed)
         \/ \E team \in Team \cup {None, Keep}, removed \in BOOLEAN \cup {Keep} :
              AthleteUpdate(u, scope, a, team, modalities, removed)

CatalogBy(u) ==
    \/ \E d \in Discipline : DisciplineUpdate(u, d) \/ DisciplineDelete(u, d)
    \/ \E t \in Team : TeamAttach(u, t) \/ TeamCreate(u, t)
    \/ \E scope \in Scopes(u), a \in Athlete : ActOnAthlete(u, scope, a)

RosterNext ==
    \/ StaffNext /\ UNCHANGED <<disciplines, teams, athleteVars>>
    \/ \E u \in Account : CatalogBy(u)

RosterSpec == RosterInit /\ [][RosterNext]_rosterVars

-----------------------------------------------------------------------------
(* Properties                                                              *)

\* The two tables of an athlete agree however its updates follow each other:
\* every row of the roster is in the team the athlete is in, and a removed
\* athlete is active in no discipline.
RostersFollowTheAthlete ==
    \A a \in Athlete, d \in Discipline :
      roster[<<a, d>>] # NoRoster =>
        /\ link[a].here
        /\ roster[<<a, d>>].team = link[a].team
        /\ link[a].removed => roster[<<a, d>>].status = "WITHDRAWN"

\* Nothing of the edition refers to a discipline that was deleted: rosters and
\* assignments, withdrawn or revoked, keep it, and other editions keep the
\* global one.
NothingInUseDisappears ==
    /\ Elsewhere \cup offered \subseteq disciplines
    /\ \A r \in roles : r.role = "DISCIPLINE_MANAGER" => r.scope \in offered
    /\ \A a \in Athlete, d \in Discipline : roster[<<a, d>>] # NoRoster => d \in offered

TeamScope(t) == [kind |-> "team", of |-> t]

\* A responsible of a team neither takes an athlete from another team nor gives
\* one away, and touches no other athlete: authorizeTeamManager looks at where
\* the athlete is as well as at the payload.
TeamsKeepTheirAthletes ==
    [][athleteVars' # athleteVars =>
         \A t \in Team, a \in Athlete :
           \/ /\ link[a].here => link[a].team = t
              /\ link'[a].team = t
              /\ \A b \in Athlete \ {a}, d \in Discipline :
                   link'[b] = link[b] /\ roster'[<<b, d>>] = roster[<<b, d>>]
           \/ \A u \in Account : ~ActOnAthlete(u, TeamScope(t), a)]_rosterVars

\* Whatever grants, replacements, revocations and removals an account does that
\* is no super administrator, nobody becomes a super administrator or an
\* administrator of the edition by them.
NoEscalation ==
    [][\/ super' # super
       \/ \E r \in roles' \ roles : r.role = "EDITION_ADMIN" /\ ~r.revoked
       => \A u \in Account \ super : ~StaffBy(u)]_rosterVars

=============================================================================
