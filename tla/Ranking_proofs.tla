---------------------------- MODULE Ranking_proofs ----------------------------
(***************************************************************************)
(* Theorems about the staff, the rosters and the overall ranking of an     *)
(* edition, for any number of accounts, assignments, disciplines, teams,   *)
(* athletes, metrics and awards, lists of any length and any number of     *)
(* closings.                                                               *)
(*                                                                         *)
(* First the edition by itself.  Its inductive invariant is the type,      *)
(* NothingInUseDisappears and RostersFollowTheAthlete, each needed for the *)
(* next: syncRosters goes through the rows of disciplines on offer, and    *)
(* would leave a row of a deleted one behind.  NoEscalation and            *)
(* TeamsKeepTheirAthletes are about a single step and need the types alone.*)
(*                                                                         *)
(* Then the ranking over it: RosterUndisturbed carries all of the above to *)
(* the composition, and its own inductive invariant is the conjunction of  *)
(* the types, ScoresStand and NothingScoresTwice.  OneClosureAtATime is    *)
(* inductive above the type of the closures.                               *)
(*                                                                         *)
(* Last, the tables of the phases (module Standings), for any groups, any  *)
(* matches and any regulation.  That a stored table is the one of the last *)
(* recount is inductive; that its order is the regulation's is an          *)
(* induction over the criteria, from the last to the first, in which a     *)
(* place is 1 and the number of those above.                               *)
(***************************************************************************)
EXTENDS Ranking, Standings, FiniteSetTheorems, SequenceTheorems, WellFoundedInduction, TLAPS

LinkRow == [here: BOOLEAN, team: Team \cup {None}, removed: BOOLEAN]
RosterRow == [team: Team \cup {None}, status: {"absent", "ACTIVE", "WITHDRAWN"}]

RosterInv ==
    /\ RosterTypeOK
    /\ NothingInUseDisappears
    /\ RostersFollowTheAthlete

-----------------------------------------------------------------------------
(* Lemmas about the staff                                                  *)

\* Ending a row changes nothing else in it.
LEMMA Ending ==
    ASSUME NEW S, NEW R, NEW T, NEW r \in [staff: S, role: R, scope: T, revoked: BOOLEAN]
    PROVE  [r EXCEPT !.revoked = TRUE]
             = [staff |-> r.staff, role |-> r.role, scope |-> r.scope, revoked |-> TRUE]
  <1>1. \A end \in BOOLEAN :
          [r EXCEPT !.revoked = end]
             = [staff |-> r.staff, role |-> r.role, scope |-> r.scope, revoked |-> end]
    OBVIOUS
  <1>2. TRUE \in BOOLEAN
    OBVIOUS
  <1> QED
    BY <1>1, <1>2, Zenon

\* Every row says for whom, as what, where, and whether it ended.
LEMMA Rows ==
    ASSUME StaffTypeOK
    PROVE  /\ \A r \in roles : /\ r.staff \in exists
                               /\ r.role \in {x.role : x \in Row}
                               /\ r.scope \in Discipline \cup Team \cup {None}
                               /\ r.revoked \in BOOLEAN
                               /\ [r EXCEPT !.revoked = TRUE]
                                    = [staff |-> r.staff, role |-> r.role,
                                       scope |-> r.scope, revoked |-> TRUE]
           /\ \A asked \in Asked : /\ asked.role \in {x.role : x \in Row}
                                   /\ asked.scope \in Discipline \cup Team \cup {None}
  <1>1. \A r \in roles : r \in [staff: exists, role: {x.role : x \in Row},
                                scope: Discipline \cup Team \cup {None}, revoked: BOOLEAN]
    BY DEF StaffTypeOK
  <1>2. \A x \in Row : x.scope \in Discipline \cup Team \cup {None}
    BY DEF Row
  <1>3. \A asked \in Asked : \E x \in Row : asked = [role |-> x.role, scope |-> x.scope]
    BY DEF Asked
  <1>4. \A asked \in Asked : /\ asked.role \in {x.role : x \in Row}
                             /\ asked.scope \in Discipline \cup Team \cup {None}
    BY <1>2, <1>3
  <1>5. \A r \in roles : [r EXCEPT !.revoked = TRUE]
                            = [staff |-> r.staff, role |-> r.role, scope |-> r.scope, revoked |-> TRUE]
    BY <1>1, Ending
  <1>6. \A r \in roles : /\ r.staff \in exists
                         /\ r.role \in {x.role : x \in Row}
                         /\ r.scope \in Discipline \cup Team \cup {None}
                         /\ r.revoked \in BOOLEAN
    BY <1>1
  <1> QED
    BY <1>4, <1>5, <1>6

\* What an action of the staff leaves: rows that were there, the row it asked
\* for, or one that ended.
LEMMA StaffRows ==
    ASSUME StaffTypeOK, NEW u \in Account, StaffBy(u)
    PROVE  /\ \A r \in roles' :
                \/ r \in roles
                \/ \E given \in roles : r = [given EXCEPT !.revoked = TRUE]
                \/ \E s \in exists', asked \in Asked :
                     /\ r = Assignment(s, asked)
                     /\ ScopeExists(asked) /\ MayAdminister(u, s, asked.role)
           /\ super' # super => u \in super
  <1>1. ASSUME NEW s \in Member, NEW asked \in Asked, StaffGrant(u, s, asked)
        PROVE  /\ super' = super
               /\ \A r \in roles' : r \in roles \/ (/\ r = Assignment(s, asked) /\ s \in exists'
                                                   /\ ScopeExists(asked)
                                                   /\ MayAdminister(u, s, asked.role))
    BY <1>1 DEF StaffGrant, Store
  <1>2. ASSUME NEW given \in roles, NEW asked \in Asked, StaffReplace(u, given, asked)
        PROVE  /\ super' = super
               /\ \A r \in roles' : \/ r \in roles
                                    \/ r = [given EXCEPT !.revoked = TRUE]
                                    \/ /\ r = Assignment(given.staff, asked)
                                       /\ given.staff \in exists'
                                       /\ ScopeExists(asked)
                                       /\ MayAdminister(u, given.staff, asked.role)
    BY <1>2, Rows DEF StaffReplace, Store, Revoke
  <1>3. ASSUME NEW given \in roles, NEW asked \in Asked, StaffRevoke(u, given, asked)
        PROVE  /\ super' = super
               /\ \A r \in roles' : r \in roles \/ r = [given EXCEPT !.revoked = TRUE]
    BY <1>3 DEF StaffRevoke, Revoke
  <1>4. ASSUME NEW s \in Member, StaffRemove(u, s)
        PROVE  super' = super /\ roles' \subseteq roles
    BY <1>4 DEF StaffRemove
  <1>5. ASSUME NEW s \in Member, PromoteSuperAdmin(u, s)
        PROVE  u \in super /\ roles' = roles
    BY <1>5 DEF PromoteSuperAdmin
  <1>6. CASE \E s \in Member : \/ \E asked \in Asked : StaffGrant(u, s, asked)
                               \/ StaffRemove(u, s)
                               \/ PromoteSuperAdmin(u, s)
    BY <1>1, <1>4, <1>5, <1>6
  <1>7. CASE \E given \in roles, asked \in Asked : \/ StaffReplace(u, given, asked)
                                                   \/ StaffRevoke(u, given, asked)
    BY <1>2, <1>3, <1>7
  <1> QED
    BY <1>6, <1>7 DEF StaffBy

\* The accounts an action of the staff leaves: those with a row, a session or
\* the office of a super administrator.
LEMMA StaffAccounts ==
    ASSUME StaffTypeOK, NEW u \in Account, StaffBy(u)
    PROVE  /\ exists' \subseteq Account /\ super' \subseteq exists' /\ trace' \subseteq exists'
           /\ \A r \in roles' : r.staff \in exists'
  <1>1. ASSUME NEW s \in Member, NEW asked \in Asked, StaffGrant(u, s, asked)
        PROVE  /\ exists' \subseteq Account /\ super' \subseteq exists' /\ trace' \subseteq exists'
               /\ \A r \in roles' : r.staff \in exists'
    BY <1>1, Rows, RootAssumption DEF StaffGrant, Store, Assignment, StaffTypeOK
  <1>2. ASSUME NEW given \in roles, NEW asked \in Asked, StaffReplace(u, given, asked)
        PROVE  /\ exists' \subseteq Account /\ super' \subseteq exists' /\ trace' \subseteq exists'
               /\ \A r \in roles' : r.staff \in exists'
    BY <1>2, Rows DEF StaffReplace, Store, Revoke, Assignment, StaffTypeOK
  <1>3. ASSUME NEW given \in roles, NEW asked \in Asked, StaffRevoke(u, given, asked)
        PROVE  /\ exists' \subseteq Account /\ super' \subseteq exists' /\ trace' \subseteq exists'
               /\ \A r \in roles' : r.staff \in exists'
    BY <1>3, Rows DEF StaffRevoke, Revoke, StaffTypeOK
  <1>4. ASSUME NEW s \in Member, StaffRemove(u, s)
        PROVE  /\ exists' \subseteq Account /\ super' \subseteq exists' /\ trace' \subseteq exists'
               /\ \A r \in roles' : r.staff \in exists'
    BY <1>4, Rows DEF StaffRemove, StaffTypeOK
  <1>5. ASSUME NEW s \in Member, PromoteSuperAdmin(u, s)
        PROVE  /\ exists' \subseteq Account /\ super' \subseteq exists' /\ trace' \subseteq exists'
               /\ \A r \in roles' : r.staff \in exists'
    BY <1>5, Rows, RootAssumption DEF PromoteSuperAdmin, StaffTypeOK
  <1> QED
    BY <1>1, <1>2, <1>3, <1>4, <1>5 DEF StaffBy

\* The steps of the staff keep the types, and a manager's discipline on offer.
LEMMA StaffStep ==
    ASSUME RosterInv, StaffNext, UNCHANGED <<disciplines, teams, athleteVars>>
    PROVE  RosterInv'
  <1>0. StaffTypeOK /\ UNCHANGED <<offered, taking>>
    BY DEF RosterInv, RosterTypeOK, StaffNext
  <1>1. /\ StaffTypeOK'
        /\ \A r \in roles' : r.role = "DISCIPLINE_MANAGER" => r.scope \in offered
    <2>1. ASSUME NEW u \in Account, StaffBy(u)
          PROVE  /\ StaffTypeOK'
                 /\ \A r \in roles' : r.role = "DISCIPLINE_MANAGER" => r.scope \in offered
      <3> SUFFICES ASSUME NEW r \in roles'
                   PROVE  /\ r \in [staff: exists', role: {x.role : x \in Row},
                                    scope: Discipline \cup Team \cup {None}, revoked: BOOLEAN]
                          /\ r.role = "DISCIPLINE_MANAGER" => r.scope \in offered
        BY <1>0, <2>1, StaffAccounts DEF StaffTypeOK
      <3>1. r.staff \in exists'
        BY <1>0, <2>1, StaffAccounts
      <3>2. CASE r \in roles
        BY <1>0, <3>1, <3>2 DEF StaffTypeOK, RosterInv, NothingInUseDisappears
      <3>3. CASE \E given \in roles : r = [given EXCEPT !.revoked = TRUE]
        <4>1. PICK given \in roles : r = [given EXCEPT !.revoked = TRUE]
          BY <3>3
        <4>2. r = [staff |-> given.staff, role |-> given.role, scope |-> given.scope, revoked |-> TRUE]
          BY <1>0, <4>1, Rows
        <4> QED
          BY <1>0, <3>1, <4>2, Rows DEF RosterInv, NothingInUseDisappears
      <3>4. CASE \E s \in exists', asked \in Asked :
                    r = Assignment(s, asked) /\ ScopeExists(asked)
        <4>1. PICK s \in exists', asked \in Asked : r = Assignment(s, asked) /\ ScopeExists(asked)
          BY <3>4
        <4> QED
          BY <1>0, <4>1, Rows DEF Assignment, ScopeExists
      <3> QED
        BY <1>0, <2>1, <3>2, <3>3, <3>4, StaffRows
    <2>2. ASSUME NEW s \in Member, LeaveTrace(s)
          PROVE  /\ StaffTypeOK'
                 /\ \A r \in roles' : r.role = "DISCIPLINE_MANAGER" => r.scope \in offered
      BY <1>0, <2>2 DEF LeaveTrace, StaffTypeOK, RosterInv, NothingInUseDisappears
    <2> QED
      BY <2>1, <2>2 DEF StaffNext
  <1>2. RosterTypeOK'
    BY <1>0, <1>1 DEF RosterInv, RosterTypeOK, athleteVars
  <1>3. NothingInUseDisappears'
    BY <1>0, <1>1 DEF RosterInv, NothingInUseDisappears, athleteVars
  <1>4. RostersFollowTheAthlete'
    BY DEF RosterInv, RostersFollowTheAthlete, athleteVars
  <1> QED
    BY <1>2, <1>3, <1>4 DEF RosterInv

-----------------------------------------------------------------------------
(* Lemmas about the catalog and the athletes                               *)

\* The places of other athletes stay, and those of this one are in his team,
\* and withdrawn when he is removed, or were none and are none.
FollowedBy(a, team, modalities, removed) ==
    /\ \A b \in Athlete \ {a}, d \in Discipline : roster'[<<b, d>>] = roster[<<b, d>>]
    /\ \A d \in Discipline :
         \/ /\ roster'[<<a, d>>].team = team
            /\ removed => roster'[<<a, d>>].status = "WITHDRAWN"
            /\ d \in RosterOf(a) \/ (modalities # Keep /\ d \in modalities)
         \/ roster'[<<a, d>>] = roster[<<a, d>>] /\ d \notin RosterOf(a)

\* An athlete's row and his places in the rosters, after an action on him:
\* the one is written, the others follow it or are left to another athlete.
LEMMA Synced ==
    ASSUME RosterTypeOK, NEW a \in Athlete, NEW team \in Team \cup {None},
           NEW modalities \in (SUBSET Discipline) \cup {Keep}, NEW removed \in BOOLEAN,
           SyncRosters(a, team, modalities, removed)
    PROVE  /\ roster' \in [Athlete \X Discipline -> RosterRow]
           /\ FollowedBy(a, team, modalities, removed)
  <1> DEFINE listed == IF modalities = Keep THEN RosterOf(a) ELSE modalities
  <1>1. roster' = [e \in DOMAIN roster |->
          CASE e[1] = a /\ e[2] \in listed ->
                 [team |-> team, status |-> Status(removed)]
            [] e[1] = a /\ e[2] \in RosterOf(a) \ listed ->
                 [team |-> team, status |-> "WITHDRAWN"]
            [] OTHER -> roster[e]]
    BY DEF SyncRosters
  <1>2. DOMAIN roster = Athlete \X Discipline /\ roster \in [Athlete \X Discipline -> RosterRow]
    BY DEF RosterTypeOK, RosterRow
  <1>3. \A d \in listed : d \in RosterOf(a) \/ (modalities # Keep /\ d \in modalities)
    OBVIOUS
  <1>4. /\ [team |-> team, status |-> Status(removed)] \in RosterRow
        /\ [team |-> team, status |-> "WITHDRAWN"] \in RosterRow
        /\ removed => Status(removed) = "WITHDRAWN"
    BY DEF Status, RosterRow
  <1> HIDE DEF listed
  <1>5. \A b \in Athlete, d \in Discipline :
          roster'[<<b, d>>] = CASE b = a /\ d \in listed -> [team |-> team, status |-> Status(removed)]
                            [] b = a /\ d \in RosterOf(a) \ listed -> [team |-> team, status |-> "WITHDRAWN"]
                            [] OTHER -> roster[<<b, d>>]
    BY <1>1, <1>2
  <1>6. \A b \in Athlete \ {a}, d \in Discipline : roster'[<<b, d>>] = roster[<<b, d>>]
    BY <1>5
  <1>7. \A d \in Discipline :
          \/ /\ roster'[<<a, d>>].team = team
             /\ removed => roster'[<<a, d>>].status = "WITHDRAWN"
             /\ d \in RosterOf(a) \/ (modalities # Keep /\ d \in modalities)
             /\ roster'[<<a, d>>] \in RosterRow
          \/ roster'[<<a, d>>] = roster[<<a, d>>] /\ d \notin RosterOf(a)
    <2> SUFFICES ASSUME NEW d \in Discipline
                 PROVE \/ /\ roster'[<<a, d>>].team = team
                          /\ removed => roster'[<<a, d>>].status = "WITHDRAWN"
                          /\ d \in RosterOf(a) \/ (modalities # Keep /\ d \in modalities)
                          /\ roster'[<<a, d>>] \in RosterRow
                       \/ roster'[<<a, d>>] = roster[<<a, d>>] /\ d \notin RosterOf(a)
      OBVIOUS
    <2>1. CASE d \in listed
      BY <1>3, <1>4, <1>5, <2>1
    <2>2. CASE d \in RosterOf(a) \ listed
      BY <1>4, <1>5, <2>2
    <2>3. CASE d \notin listed /\ d \notin RosterOf(a)
      BY <1>5, <2>3
    <2> QED
      BY <2>1, <2>2, <2>3
  <1>8. roster' \in [Athlete \X Discipline -> RosterRow]
    <2> SUFFICES ASSUME NEW e \in Athlete \X Discipline PROVE roster'[e] \in RosterRow
      BY <1>1, <1>2
    <2>1. e[1] \in Athlete /\ e[2] \in Discipline /\ e = <<e[1], e[2]>>
      OBVIOUS
    <2>2. roster[e] \in RosterRow
      BY <1>2
    <2> QED
      BY <1>6, <1>7, <2>1, <2>2
  <1> QED
    BY <1>6, <1>7, <1>8 DEF FollowedBy

\* The row of an athlete whose team and removal are written.
LEMMA Rewritten ==
    ASSUME NEW row \in LinkRow, NEW team \in Team \cup {None}, NEW gone \in BOOLEAN
    PROVE  [row EXCEPT !.team = team, !.removed = gone]
             = [here |-> row.here, team |-> team, removed |-> gone]
  <1> DEFINE moved == [row EXCEPT !.team = team]
             written == [moved EXCEPT !.removed = gone]
  <1>1. moved \in LinkRow /\ moved.here = row.here /\ moved.team = team
    BY DEF LinkRow
  <1> HIDE DEF moved
  <1>2. /\ written \in LinkRow /\ written.here = moved.here /\ written.team = moved.team
        /\ written.removed = gone
    BY <1>1 DEF LinkRow
  <1>3. written = [row EXCEPT !.team = team, !.removed = gone]
    BY DEF moved
  <1> HIDE DEF written
  <1>4. written = [here |-> row.here, team |-> team, removed |-> gone]
    BY <1>1, <1>2 DEF LinkRow
  <1> QED
    BY <1>3, <1>4

\* A field of a patch, or the one that is there.
LEMMA Patch ==
    ASSUME RosterTypeOK, NEW a \in Athlete,
           NEW team \in Team \cup {None, Keep}, NEW removed \in BOOLEAN \cup {Keep}
    PROVE  /\ Patched(team, link[a].team) \in Team \cup {None}
           /\ Patched(removed, link[a].removed) \in BOOLEAN
           /\ link[a] \in LinkRow
  BY DEF RosterTypeOK, Patched, LinkRow

\* An action on an athlete writes his row and his places, for a team and a
\* removal that are then his own.
LEMMA AthleteWritten ==
    ASSUME RosterTypeOK, NEW u \in Account, NEW scope, NEW a \in Athlete, ActOnAthlete(u, scope, a)
    PROVE  \E team \in Team \cup {None}, removed \in BOOLEAN,
              modalities \in (SUBSET Discipline) \cup {Keep}, sent \in Team \cup {None, Keep} :
             /\ link' = [link EXCEPT ![a] = [here |-> TRUE, team |-> team, removed |-> removed]]
             /\ SyncRosters(a, team, modalities, removed)
             /\ modalities # Keep => modalities \subseteq offered
             /\ ~link[a].here => modalities # Keep
             /\ Authorize(scope, a, sent)
             /\ team = Patched(sent, link[a].team)
             /\ UNCHANGED <<catalogVars, staffVars>>
  <1>1. PICK modalities \in (SUBSET Discipline) \cup {Keep} :
          \/ \E team \in Team \cup {None}, removed \in BOOLEAN :
               AthleteCreate(u, scope, a, team, modalities, removed)
          \/ \E team \in Team \cup {None, Keep}, removed \in BOOLEAN \cup {Keep} :
               AthleteUpdate(u, scope, a, team, modalities, removed)
    BY DEF ActOnAthlete
  <1>2. ASSUME NEW team \in Team \cup {None}, NEW removed \in BOOLEAN,
               AthleteCreate(u, scope, a, team, modalities, removed)
        PROVE  /\ link' = [link EXCEPT ![a] = [here |-> TRUE, team |-> team, removed |-> removed]]
               /\ SyncRosters(a, team, modalities, removed)
               /\ modalities # Keep /\ modalities \subseteq offered
               /\ Authorize(scope, a, team)
               /\ team \in Team \cup {None, Keep}
               /\ team = Patched(team, link[a].team)
               /\ UNCHANGED <<catalogVars, staffVars>>
    BY <1>2, KeepAssumption DEF AthleteCreate, Patched
  <1>3. ASSUME NEW sent \in Team \cup {None, Keep}, NEW removed \in BOOLEAN \cup {Keep},
               AthleteUpdate(u, scope, a, sent, modalities, removed)
        PROVE  /\ link' = [link EXCEPT ![a] = [here |-> TRUE, team |-> Patched(sent, link[a].team),
                                               removed |-> Patched(removed, link[a].removed)]]
               /\ SyncRosters(a, Patched(sent, link[a].team), modalities,
                              Patched(removed, link[a].removed))
               /\ link[a].here
               /\ modalities # Keep => modalities \subseteq offered
               /\ Authorize(scope, a, sent)
               /\ UNCHANGED <<catalogVars, staffVars>>
    <2>1. /\ link[a].here
          /\ link' = [link EXCEPT ![a].team = Patched(sent, link[a].team),
                                  ![a].removed = Patched(removed, link[a].removed)]
      BY <1>3 DEF AthleteUpdate
    <2>2. link[a] \in LinkRow /\ link \in [Athlete -> LinkRow]
      BY DEF RosterTypeOK, LinkRow
    <2>3. link' = [link EXCEPT ![a] = [here |-> TRUE, team |-> Patched(sent, link[a].team),
                                       removed |-> Patched(removed, link[a].removed)]]
      <3>1. link' = [link EXCEPT ![a] = [link[a] EXCEPT !.team = Patched(sent, link[a].team),
                                                        !.removed = Patched(removed, link[a].removed)]]
        BY <2>1, <2>2
      <3>2. [link[a] EXCEPT !.team = Patched(sent, link[a].team),
                            !.removed = Patched(removed, link[a].removed)]
              = [here |-> TRUE, team |-> Patched(sent, link[a].team),
                 removed |-> Patched(removed, link[a].removed)]
        <4>1. link[a].here = TRUE
          BY <2>1, <2>2 DEF LinkRow
        <4>2. Patched(sent, link[a].team) \in Team \cup {None} /\ Patched(removed, link[a].removed) \in BOOLEAN
          BY Patch
        <4> QED
          BY <2>2, <4>1, <4>2, Rewritten
      <3> QED
        BY <3>1, <3>2
    <2> QED
      BY <1>3, <2>1, <2>3 DEF AthleteUpdate
  <1>4. CASE \E team \in Team \cup {None}, removed \in BOOLEAN :
                AthleteCreate(u, scope, a, team, modalities, removed)
    <2>1. PICK team \in Team \cup {None}, removed \in BOOLEAN :
                AthleteCreate(u, scope, a, team, modalities, removed)
      BY <1>4
    <2> QED
      BY <1>2, <2>1
  <1>5. CASE \E sent \in Team \cup {None, Keep}, removed \in BOOLEAN \cup {Keep} :
                AthleteUpdate(u, scope, a, sent, modalities, removed)
    <2>1. PICK sent \in Team \cup {None, Keep}, removed \in BOOLEAN \cup {Keep} :
                AthleteUpdate(u, scope, a, sent, modalities, removed)
      BY <1>5
    <2>2. Patched(sent, link[a].team) \in Team \cup {None} /\ Patched(removed, link[a].removed) \in BOOLEAN
      BY Patch
    <2> QED
      BY <1>3, <2>1, <2>2
  <1> QED
    BY <1>1, <1>4, <1>5

\* An action on an athlete keeps the invariant.
LEMMA AthleteStep ==
    ASSUME RosterInv, NEW u \in Account, NEW scope, NEW a \in Athlete, ActOnAthlete(u, scope, a)
    PROVE  RosterInv'
  <1> USE DEF RosterInv
  <1>1. PICK team \in Team \cup {None}, removed \in BOOLEAN,
             modalities \in (SUBSET Discipline) \cup {Keep}, sent \in Team \cup {None, Keep} :
             /\ link' = [link EXCEPT ![a] = [here |-> TRUE, team |-> team, removed |-> removed]]
             /\ SyncRosters(a, team, modalities, removed)
             /\ modalities # Keep => modalities \subseteq offered
             /\ ~link[a].here => modalities # Keep
             /\ UNCHANGED <<catalogVars, staffVars>>
    BY AthleteWritten
  <1>2. roster' \in [Athlete \X Discipline -> RosterRow] /\ FollowedBy(a, team, modalities, removed)
    <2>1. RosterTypeOK /\ SyncRosters(a, team, modalities, removed)
      BY <1>1
    <2> QED
      BY <2>1, Synced
  <1>3. link' \in [Athlete -> LinkRow] /\ link'[a] = [here |-> TRUE, team |-> team, removed |-> removed]
        /\ \A b \in Athlete \ {a} : link'[b] = link[b]
    BY <1>1 DEF RosterTypeOK, LinkRow
  <1>4. RosterTypeOK'
    BY <1>1, <1>2, <1>3 DEF RosterTypeOK, StaffTypeOK, catalogVars, staffVars, LinkRow, RosterRow
  <1>5. \A d \in Discipline : roster[<<a, d>>] # NoRoster => d \in RosterOf(a)
    BY DEF NothingInUseDisappears, RosterOf
  <1>6. \A d \in Discipline : roster'[<<a, d>>] # NoRoster =>
            /\ roster'[<<a, d>>].team = team
            /\ removed => roster'[<<a, d>>].status = "WITHDRAWN"
            /\ d \in RosterOf(a) \/ (modalities # Keep /\ d \in modalities)
    BY <1>2, <1>5 DEF FollowedBy
  <1>7. \A d \in Discipline : d \in RosterOf(a) \/ (modalities # Keep /\ d \in modalities) => d \in offered
    BY <1>1 DEF RosterOf
  <1>8. NothingInUseDisappears'
    BY <1>1, <1>2, <1>6, <1>7 DEF NothingInUseDisappears, FollowedBy, catalogVars, staffVars
  <1>9. RostersFollowTheAthlete'
    BY <1>2, <1>3, <1>6 DEF RostersFollowTheAthlete, FollowedBy
  <1> QED
    BY <1>4, <1>8, <1>9

\* Disciplines and teams come and go without a row being left behind.
LEMMA CatalogStep ==
    ASSUME RosterInv,
           \/ \E u \in Account, d \in Discipline : DisciplineUpdate(u, d) \/ DisciplineDelete(u, d)
           \/ \E u \in Account, t \in Team : TeamAttach(u, t) \/ TeamCreate(u, t)
    PROVE  RosterInv'
  <1> USE DEF RosterInv
  <1>1. ASSUME NEW u \in Account, NEW d \in Discipline, DisciplineUpdate(u, d)
        PROVE  RosterInv'
    <2>1. RosterTypeOK'
      BY <1>1 DEF DisciplineUpdate, RosterTypeOK, StaffTypeOK, staffVars, athleteVars
    <2>2. NothingInUseDisappears'
      BY <1>1 DEF DisciplineUpdate, NothingInUseDisappears, staffVars, athleteVars
    <2>3. RostersFollowTheAthlete'
      BY <1>1 DEF DisciplineUpdate, RostersFollowTheAthlete, athleteVars
    <2> QED
      BY <2>1, <2>2, <2>3
  <1>2. ASSUME NEW u \in Account, NEW d \in Discipline, DisciplineDelete(u, d)
        PROVE  RosterInv'
    <2>1. RosterTypeOK'
      BY <1>2 DEF DisciplineDelete, RosterTypeOK, StaffTypeOK, staffVars, athleteVars
    <2>2. NothingInUseDisappears'
      BY <1>2 DEF DisciplineDelete, Impediments, NothingInUseDisappears, staffVars, athleteVars
    <2>3. RostersFollowTheAthlete'
      BY <1>2 DEF DisciplineDelete, RostersFollowTheAthlete, athleteVars
    <2> QED
      BY <2>1, <2>2, <2>3
  <1>3. ASSUME NEW u \in Account, NEW t \in Team, TeamAttach(u, t) \/ TeamCreate(u, t)
        PROVE  RosterInv'
    <2>1. RosterTypeOK'
      BY <1>3 DEF TeamAttach, TeamCreate, RosterTypeOK, StaffTypeOK, staffVars, athleteVars
    <2>2. NothingInUseDisappears'
      BY <1>3 DEF TeamAttach, TeamCreate, NothingInUseDisappears, staffVars, athleteVars
    <2>3. RostersFollowTheAthlete'
      BY <1>3 DEF TeamAttach, TeamCreate, RostersFollowTheAthlete, athleteVars
    <2> QED
      BY <2>1, <2>2, <2>3
  <1> QED
    BY <1>1, <1>2, <1>3

-----------------------------------------------------------------------------
(* The invariant                                                           *)

\* An edition starts with rows of their types, and none of anything deleted.
LEMMA RosterInitInv == RosterInit => RosterInv
  <1> SUFFICES ASSUME RosterInit PROVE RosterInv
    OBVIOUS
  <1>1. RosterTypeOK
    BY RootAssumption, ElsewhereAssumption DEF RosterInit, StaffInit, RosterTypeOK, StaffTypeOK, NoLink, NoRoster
  <1>2. NothingInUseDisappears
    BY DEF RosterInit, StaffInit, NothingInUseDisappears
  <1>3. RostersFollowTheAthlete
    BY DEF RosterInit, RostersFollowTheAthlete
  <1> QED
    BY <1>1, <1>2, <1>3 DEF RosterInv

\* Every action on the staff, the catalog and the athletes keeps the invariant.
LEMMA RosterStep == RosterInv /\ [RosterNext]_rosterVars => RosterInv'
  <1> SUFFICES ASSUME RosterInv, [RosterNext]_rosterVars PROVE RosterInv'
    OBVIOUS
  <1>1. CASE StaffNext /\ UNCHANGED <<disciplines, teams, athleteVars>>
    BY <1>1, StaffStep
  <1>2. ASSUME NEW u \in Account, CatalogBy(u)
        PROVE  RosterInv'
    <2>1. CASE \E scope \in Scopes(u), a \in Athlete : ActOnAthlete(u, scope, a)
      BY <2>1, AthleteStep
    <2>2. CASE \/ \E d \in Discipline : DisciplineUpdate(u, d) \/ DisciplineDelete(u, d)
               \/ \E t \in Team : TeamAttach(u, t) \/ TeamCreate(u, t)
      BY <2>2, CatalogStep
    <2> QED
      BY <1>2, <2>1, <2>2 DEF CatalogBy
  <1>3. CASE UNCHANGED rosterVars
    BY <1>3 DEF rosterVars, staffVars, catalogVars, athleteVars, RosterInv, RosterTypeOK, StaffTypeOK,
                NothingInUseDisappears, RostersFollowTheAthlete
  <1> QED
    BY <1>1, <1>2, <1>3 DEF RosterNext

\* So it holds in every state of the edition.
LEMMA RosterSpecInv == RosterSpec => []RosterInv
  BY RosterInitInv, RosterStep, PTL DEF RosterSpec

-----------------------------------------------------------------------------
(* The theorems                                                            *)

\* The tables of the staff, the catalog and the athletes hold what they may.
THEOREM RosterTypeCorrect == RosterSpec => []RosterTypeOK
  <1>1. RosterInv => RosterTypeOK
    BY DEF RosterInv
  <1> QED
    BY <1>1, RosterSpecInv, PTL

\* No row refers to a discipline that was deleted: discipline/delete counts
\* the rows before it deletes, and every row is for a discipline on offer.
THEOREM NothingInUseDisappearsHolds == RosterSpec => []NothingInUseDisappears
  <1>1. RosterInv => NothingInUseDisappears
    BY DEF RosterInv
  <1> QED
    BY <1>1, RosterSpecInv, PTL

\* However the updates of an athlete follow each other, his places are in his
\* team, and withdrawn once he is removed: syncRosters leaves none behind.
THEOREM RostersFollowTheAthleteHolds == RosterSpec => []RostersFollowTheAthlete
  <1>1. RosterInv => RostersFollowTheAthlete
    BY DEF RosterInv
  <1> QED
    BY <1>1, RosterSpecInv, PTL

\* No grant, replacement, revocation or removal by an account that is no super
\* administrator makes one, or an administrator of the edition.
THEOREM NoEscalationHolds == RosterSpec => NoEscalation
  <1>1. ASSUME RosterInv, NEW u \in Account \ super, StaffBy(u)
        PROVE  super' = super /\ ~\E r \in roles' \ roles : r.role = "EDITION_ADMIN" /\ ~r.revoked
    <2>1. StaffTypeOK
      BY <1>1 DEF RosterInv, RosterTypeOK
    <2>2. super' = super
      BY <1>1, <2>1, StaffRows
    <2>3. ASSUME NEW r \in roles' \ roles, r.role = "EDITION_ADMIN", ~r.revoked
          PROVE  FALSE
      <3>1. CASE \E given \in roles : r = [given EXCEPT !.revoked = TRUE]
        BY <2>1, <2>3, <3>1, Rows
      <3>2. CASE \E s \in exists', asked \in Asked :
                    r = Assignment(s, asked) /\ MayAdminister(u, s, asked.role)
        BY <1>1, <2>3, <3>2 DEF Assignment, MayAdminister
      <3> QED
        BY <1>1, <2>1, <2>3, <3>1, <3>2, StaffRows
    <2> QED
      BY <2>2, <2>3
  <1>2. RosterInv /\ [RosterNext]_rosterVars =>
          [\/ super' # super
           \/ \E r \in roles' \ roles : r.role = "EDITION_ADMIN" /\ ~r.revoked
           => \A u \in Account \ super : ~StaffBy(u)]_rosterVars
    BY <1>1
  <1> QED
    BY <1>2, RosterSpecInv, PTL DEF RosterSpec, NoEscalation

\* A responsible of a team acts on an athlete that is in it or was nowhere, and
\* that is in it afterwards.
THEOREM TeamsKeepTheirAthletesHolds == RosterSpec => TeamsKeepTheirAthletes
  <1>1. ASSUME RosterInv, NEW t \in Team, NEW a \in Athlete, NEW u \in Account,
               ActOnAthlete(u, TeamScope(t), a)
        PROVE  /\ link[a].here => link[a].team = t
               /\ link'[a].team = t
               /\ \A b \in Athlete \ {a}, d \in Discipline :
                    link'[b] = link[b] /\ roster'[<<b, d>>] = roster[<<b, d>>]
    <2>1. RosterTypeOK
      BY <1>1 DEF RosterInv
    <2>2. PICK team \in Team \cup {None}, removed \in BOOLEAN,
               modalities \in (SUBSET Discipline) \cup {Keep}, sent \in Team \cup {None, Keep} :
             /\ link' = [link EXCEPT ![a] = [here |-> TRUE, team |-> team, removed |-> removed]]
             /\ SyncRosters(a, team, modalities, removed)
             /\ Authorize(TeamScope(t), a, sent)
             /\ team = Patched(sent, link[a].team)
      BY <1>1, <2>1, AthleteWritten
    <2>3. AuthorizeTeamManager(t, a, sent)
      BY <2>2 DEF Authorize, TeamScope, Full
    <2>4. team = t /\ (link[a].here => link[a].team = t)
      BY <2>2, <2>3, KeepAssumption DEF AuthorizeTeamManager, Patched
    <2>5. FollowedBy(a, team, modalities, removed)
      BY <2>1, <2>2, Synced
    <2>6. link'[a].team = team /\ \A b \in Athlete \ {a} : link'[b] = link[b]
      BY <2>1, <2>2 DEF RosterTypeOK
    <2> QED
      BY <2>4, <2>5, <2>6 DEF FollowedBy
  <1>2. RosterInv /\ [RosterNext]_rosterVars =>
          [athleteVars' # athleteVars =>
             \A t \in Team, a \in Athlete :
               \/ /\ link[a].here => link[a].team = t
                  /\ link'[a].team = t
                  /\ \A b \in Athlete \ {a}, d \in Discipline :
                       link'[b] = link[b] /\ roster'[<<b, d>>] = roster[<<b, d>>]
               \/ \A u \in Account : ~ActOnAthlete(u, TeamScope(t), a)]_rosterVars
    BY <1>1
  <1> QED
    BY <1>2, RosterSpecInv, PTL DEF RosterSpec, TeamsKeepTheirAthletes

-----------------------------------------------------------------------------
(* THE RANKING *)

-----------------------------------------------------------------------------
(* Lemmas on seeding and on lists of awards.                               *)

\* Seeding keeps rows that are there, active or removed, and adds active ones.
LEMMA SeedKeeps ==
    ASSUME NEW rows \in [Metric -> MetricRow]
    PROVE  /\ SeedDefaultMetrics(rows) \in [Metric -> MetricRow]
           /\ \A m \in Metric : rows[m].state # "none" => SeedDefaultMetrics(rows)[m] = rows[m]
           /\ \A m \in Metric : SeedDefaultMetrics(rows)[m] # rows[m] =>
                SeedDefaultMetrics(rows)[m].state = "active"
           /\ (\E m \in Metric : rows[m].state = "active") => SeedDefaultMetrics(rows) = rows
  <1>1. \A m \in Default : m \in Metric /\ Standard[m] \in Position
    BY DefaultAssumption
  <1>2. \A m \in Default : [state |-> "active", position |-> Standard[m]] \in MetricRow
    BY <1>1 DEF MetricRow
  <1> QED
    BY <1>1, <1>2 DEF SeedDefaultMetrics

\* Every element of a list that is added names an award and a target.
LEMMA ListElements ==
    ASSUME NEW list \in Lists
    PROVE  \A i \in DOMAIN list : list[i].id \in Award /\ list[i].of \in Target /\ i \in Nat
  <1>1. PICK n \in 1..MaxList : list \in [1..n -> Requested]
    BY DEF Lists
  <1> QED
    BY <1>1 DEF Requested

\* What adding a list does: the awards it names are new, active and of their
\* own target each, the others stay.
LEMMA Added ==
    ASSUME RankingTypeOK, NEW list \in Lists, AddAwards(list), NEW a \in Award
    PROVE  \/ award'[a] = award[a] /\ \A i \in DOMAIN list : list[i].id # a
           \/ \E i \in DOMAIN list :
                /\ list[i].id = a
                /\ award'[a] = [state |-> "active", of |-> list[i].of]
                /\ Acceptable(list, i)
  <1>1. award'[a] = IF \E i \in DOMAIN list : list[i].id = a
                      THEN [state |-> "active",
                            of |-> list[CHOOSE i \in DOMAIN list : list[i].id = a].of]
                      ELSE award[a]
    BY DEF AddAwards
  <1>2. CASE \A i \in DOMAIN list : list[i].id # a
    BY <1>1, <1>2
  <1>3. CASE \E i \in DOMAIN list : list[i].id = a
    <2> DEFINE k == CHOOSE i \in DOMAIN list : list[i].id = a
    <2>1. k \in DOMAIN list /\ list[k].id = a
      BY <1>3
    <2>2. award'[a] = [state |-> "active", of |-> list[k].of]
      BY <1>1, <1>3
    <2>3. Acceptable(list, k)
      BY <2>1 DEF AddAwards
    <2> QED
      BY <2>1, <2>2, <2>3
  <1> QED
    BY <1>2, <1>3

-----------------------------------------------------------------------------
(* Types                                                                   *)

\* A ranking starts with rows of their types.
LEMMA TypeInit ==
    Init => RankingTypeOK
  <1> SUFFICES ASSUME Init PROVE RankingTypeOK
    OBVIOUS
  <1>1. [m \in Metric |-> NoMetric] \in [Metric -> MetricRow]
    BY DEF NoMetric, MetricRow
  <1>2. metric \in [Metric -> MetricRow]
    BY <1>1, SeedKeeps DEF Init
  <1>3. award \in [Award -> AwardRow]
    BY DEF Init, NoAward, AwardRow
  <1>4. closure \in Seq(BOOLEAN)
    BY DEF Init
  <1> QED
    BY <1>2, <1>3, <1>4 DEF RankingTypeOK

\* Every action on the ranking keeps the types of its rows.
LEMMA TypeStep ==
    RankingTypeOK /\ [Next]_vars => RankingTypeOK'
  <1> SUFFICES ASSUME RankingTypeOK, [Next]_vars PROVE RankingTypeOK'
    OBVIOUS
  <1> USE DEF RankingTypeOK
  <1>1. ASSUME NEW m \in Metric, NEW p \in Position \cup {Manual}, AddMetric(m, p) PROVE RankingTypeOK'
    BY <1>1 DEF AddMetric, MetricRow
  <1>2. ASSUME NEW m \in Metric, NEW p \in Position \cup {Manual}, UpdateMetric(m, p) PROVE RankingTypeOK'
    BY <1>2 DEF UpdateMetric, MetricRow
  <1>3. ASSUME NEW m \in Metric, RemoveMetric(m) PROVE RankingTypeOK'
    BY <1>3 DEF RemoveMetric, MetricRow
  <1>4. CASE Seed
    BY <1>4, SeedKeeps DEF Seed
  <1>5. ASSUME NEW list \in Lists, AddAwards(list) PROVE RankingTypeOK'
    <2>1. ASSUME NEW a \in Award PROVE award'[a] \in AwardRow
      <3>1. CASE award'[a] = award[a]
        BY <3>1
      <3>2. ASSUME NEW i \in DOMAIN list, award'[a] = [state |-> "active", of |-> list[i].of]
            PROVE  award'[a] \in AwardRow
        BY <3>2, ListElements DEF AwardRow
      <3> QED
        BY <1>5, Added, <3>1, <3>2
    <2>2. award' = [a \in Award |-> award'[a]]
      BY <1>5 DEF AddAwards
    <2> QED
      BY <1>5, <2>1, <2>2 DEF AddAwards
  <1>6. ASSUME NEW a \in Award, RevokeAward(a) PROVE RankingTypeOK'
    <2>1. award[a] \in [state: {"active", "revoked"}, of: Target]
      BY <1>6 DEF RevokeAward, ActiveAwards, AwardRow
    <2>2. [award[a] EXCEPT !.state = "revoked"] \in AwardRow
      BY <2>1 DEF AwardRow
    <2> QED
      BY <1>6, <2>2 DEF RevokeAward
  <1>7. CASE Close
    BY <1>7 DEF Close
  <1>8. CASE Reopen
    BY <1>8 DEF Reopen
  <1>9. CASE UNCHANGED rankingVars
    BY <1>9 DEF rankingVars
  <1> QED
    BY <1>1, <1>2, <1>3, <1>4, <1>5, <1>6, <1>7, <1>8, <1>9 DEF Next, RankingBy, vars

\* The ranking runs over the edition of module Roster and disturbs none of it:
\* what is proved of rosters and staff holds of every behaviour with a ranking.
THEOREM RosterUndisturbed == Spec => RosterSpec
  <1>1. Init => RosterInit
    BY DEF Init
  <1>2. [Next]_vars => [RosterNext]_rosterVars
    BY DEF Next, RankingBy, vars
  <1> QED
    BY <1>1, <1>2, PTL DEF Spec, RosterSpec

\* So the rows of the ranking have their types in every state.
LEMMA RankingTypes == Spec => []RankingTypeOK
  BY TypeInit, TypeStep, PTL DEF Spec

\* The rows of the ranking keep their types whatever the requests, and so do
\* those of the edition below it.
THEOREM TypeCorrect == Spec => []TypeOK
  <1>2. TypeOK <=> RosterTypeOK /\ RankingTypeOK
    BY DEF TypeOK
  <1> QED
    BY RankingTypes, <1>2, RosterUndisturbed, RosterTypeCorrect, PTL

-----------------------------------------------------------------------------
(* What scores stands, and once                                            *)

RankingInv == RankingTypeOK /\ ScoresStand /\ NothingScoresTwice

\* Teams that take part go on taking part.
LEMMA TeamsStay ==
    RosterNext => taking \subseteq taking'
  <1>1. StaffNext => taking' = taking
    BY DEF StaffNext
  <1>2. ASSUME NEW d \in Discipline, NEW u \in Account, DisciplineUpdate(u, d) \/ DisciplineDelete(u, d)
        PROVE  taking' = taking
    BY <1>2 DEF DisciplineUpdate, DisciplineDelete
  <1>3. ASSUME NEW t \in Team, NEW u \in Account, TeamCreate(u, t) \/ TeamAttach(u, t)
        PROVE  taking \subseteq taking'
    BY <1>3 DEF TeamCreate, TeamAttach
  <1>4. ASSUME NEW u \in Account, NEW scope, NEW a \in Athlete, ActOnAthlete(u, scope, a)
        PROVE  taking' = taking
    <2>1. UNCHANGED catalogVars
      BY <1>4 DEF ActOnAthlete, AthleteCreate, AthleteUpdate
    <2> QED
      BY <2>1 DEF catalogVars
  <1> QED
    BY <1>1, <1>2, <1>3, <1>4 DEF RosterNext, CatalogBy

\* Metrics only go when no active award is of them, and none comes to nothing.
LEMMA StandsStep ==
    RankingInv /\ [Next]_vars => ScoresStand'
  <1> SUFFICES ASSUME RankingInv, [Next]_vars, NEW a \in Award, award'[a].state # "none"
               PROVE  /\ award'[a].of.team \in taking'
                      /\ award'[a].of.discipline \in offered'
                      /\ metric'[award'[a].of.metric].state # "none"
                      /\ award'[a].state = "active" => metric'[award'[a].of.metric].state = "active"
    <2>1. \A a \in Award : award'[a].state = "active" <=> a \in ActiveAwards'
      BY DEF ActiveAwards
    <2>2. ASSUME RankingInv, [Next]_vars
          PROVE  \A a \in Award : award'[a].state # "none" => award'[a].of.metric \in Metric
      <3>1. RankingTypeOK'
        BY <2>2, TypeStep DEF RankingInv
      <3>2. \A a \in Award : award'[a] \in AwardRow
        BY <3>1 DEF RankingTypeOK
      <3> QED
        BY <3>2 DEF AwardRow, Target
    <2> QED
      BY <2>1, <2>2 DEF ScoresStand, ActiveAwards, ActiveMetrics
  <1>t. RankingTypeOK
    BY DEF RankingInv
  <1>o. ASSUME award[a].state # "none"
        PROVE  /\ award[a].of \in Target
               /\ award[a].of.team \in taking
               /\ award[a].of.discipline \in offered
               /\ award[a].of.metric \in Metric
               /\ metric[award[a].of.metric].state # "none"
               /\ award[a].state = "active" => metric[award[a].of.metric].state = "active"
    <2>1. award[a] \in AwardRow
      BY <1>t DEF RankingTypeOK
    <2>2. award[a].of \in Target
      BY <2>1, <1>o DEF AwardRow
    <2> QED
      BY <2>2, <1>o DEF RankingInv, ScoresStand, ActiveAwards, ActiveMetrics, Target
  <1> DEFINE Stands == /\ award'[a].of.team \in taking'
                       /\ award'[a].of.discipline \in offered'
                       /\ metric'[award'[a].of.metric].state # "none"
                       /\ award'[a].state = "active" => metric'[award'[a].of.metric].state = "active"
  <1> DEFINE Same == offered' = offered /\ taking' = taking
  <1>s. UNCHANGED rosterVars => Same
    BY DEF rosterVars, catalogVars
  <1>1. ASSUME NEW m \in Metric, NEW p \in Position \cup {Manual}, AddMetric(m, p), Same PROVE Stands
    BY <1>1, <1>o, <1>t DEF AddMetric, RankingTypeOK
  <1>2. ASSUME NEW m \in Metric, NEW p \in Position \cup {Manual}, UpdateMetric(m, p), Same PROVE Stands
    BY <1>2, <1>o, <1>t DEF UpdateMetric, RankingTypeOK, MetricRow
  <1>3. ASSUME NEW m \in Metric, RemoveMetric(m), Same PROVE Stands
    <2>1. award' = award /\ Same
      BY <1>3 DEF RemoveMetric
    <2>2. award[a].state = "active" => award[a].of.metric # m
      BY <1>3 DEF RemoveMetric, ActiveAwards
    <2>3. metric'[award[a].of.metric].state
            = IF award[a].of.metric = m THEN "removed" ELSE metric[award[a].of.metric].state
      BY <1>3, <2>1, <1>o, <1>t DEF RemoveMetric, RankingTypeOK, MetricRow
    <2> QED
      BY <2>1, <2>2, <2>3, <1>o
  <1>4. ASSUME Seed, Same PROVE Stands
    <2>1. metric' = SeedDefaultMetrics(metric) /\ award' = award /\ Same
      BY <1>4 DEF Seed
    <2> QED
      BY <2>1, <1>o, <1>t, SeedKeeps DEF RankingTypeOK
  <1>5. ASSUME NEW list \in Lists, AddAwards(list), Same PROVE Stands
    <2>1. metric' = metric /\ Same
      BY <1>5 DEF AddAwards
    <2>2. CASE award'[a] = award[a]
      BY <2>1, <2>2, <1>o
    <2>3. ASSUME NEW i \in DOMAIN list, Acceptable(list, i),
                 award'[a] = [state |-> "active", of |-> list[i].of]
          PROVE  Stands
      BY <2>1, <2>3 DEF Acceptable, ActiveMetrics
    <2> QED
      BY <1>5, <1>t, Added, <2>2, <2>3
  <1>6. ASSUME NEW b \in Award, RevokeAward(b), Same PROVE Stands
    <2>1. award[b].state = "active"
      BY <1>6 DEF RevokeAward, ActiveAwards
    <2>2. award[a].state # "none" /\ award'[a].of = award[a].of
      BY <1>6, <2>1, <1>t DEF RevokeAward, RankingTypeOK, AwardRow
    <2>3. award'[a].state = "active" => award[a].state = "active"
      BY <1>6, <2>1, <1>t DEF RevokeAward, RankingTypeOK, AwardRow
    <2> QED
      BY <1>6, <2>2, <2>3, <1>o DEF RevokeAward
  <1>7. ASSUME Close \/ Reopen, Same PROVE Stands
    BY <1>7, <1>o DEF Close, Reopen
  <1>8. ASSUME RosterNext, AwardsImpede, UNCHANGED rankingVars PROVE Stands
    <2>1. taking \subseteq taking' /\ award' = award /\ metric' = metric
      BY <1>8, TeamsStay DEF rankingVars
    <2>2. award[a].of.discipline \notin offered \ offered'
      BY <1>8, <2>1 DEF AwardsImpede
    <2> QED
      BY <2>1, <2>2, <1>o
  <1>9. ASSUME UNCHANGED vars PROVE Stands
    BY <1>9, <1>o DEF vars, rankingVars, rosterVars, catalogVars
  <1>10. ASSUME NEW u \in Account, RankingBy(u) PROVE Stands
    <2> HIDE DEF Stands
    <2>1. Same
      BY <1>s, <1>10 DEF RankingBy
    <2>2. CASE \E m \in Metric : \/ \E p \in Position \cup {Manual} : AddMetric(m, p) \/ UpdateMetric(m, p)
                              \/ RemoveMetric(m)
      BY <1>1, <1>2, <1>3, <2>1, <2>2
    <2>3. CASE Seed \/ Close \/ Reopen
      BY <1>4, <1>7, <2>1, <2>3
    <2>4. CASE (\E list \in Lists : AddAwards(list)) \/ \E b \in Award : RevokeAward(b)
      BY <1>5, <1>6, <2>1, <2>4
    <2> QED
      BY <1>10, <2>2, <2>3, <2>4 DEF RankingBy
  <1>11. Stands
    <2> HIDE DEF Stands
    <2> QED
      BY <1>8, <1>9, <1>10 DEF Next
  <1> QED
    BY <1>11

\* Two awards of one list differ by Before, a new one and an old by Standing.
LEMMA OnceStep ==
    RankingInv /\ [Next]_vars => NothingScoresTwice'
  <1> SUFFICES ASSUME RankingInv, [Next]_vars, NEW a \in Award, NEW b \in Award,
                      award'[a].state = "active", award'[b].state = "active",
                      award'[a].of = award'[b].of
               PROVE  a = b
    BY DEF NothingScoresTwice, ActiveAwards
  <1>o. ASSUME award[a].state = "active", award[b].state = "active", award[a].of = award[b].of
        PROVE  a = b
    BY <1>o DEF RankingInv, NothingScoresTwice, ActiveAwards
  <1>1. CASE UNCHANGED award
    BY <1>1, <1>o
  <1>2. ASSUME NEW list \in Lists, AddAwards(list) PROVE a = b
    <2>t. RankingTypeOK
      BY DEF RankingInv
    <2> DEFINE New(x, i) == /\ i \in DOMAIN list
                            /\ list[i].id = x
                            /\ award'[x] = [state |-> "active", of |-> list[i].of]
                            /\ Acceptable(list, i)
    <2>1. \A x \in Award : award'[x] = award[x] \/ \E i \in DOMAIN list : New(x, i)
      BY <1>2, <2>t, Added
    <2>2. ASSUME NEW x \in Award, NEW y \in Award, NEW i, New(x, i),
                 award[y].state = "active", award[y].of = list[i].of
          PROVE  FALSE
      BY <2>2 DEF Acceptable, Standing, ActiveAwards
    <2>3. ASSUME NEW i, NEW j, New(a, i), New(b, j) PROVE a = b
      <3>1. i \in Nat /\ j \in Nat /\ list[i].of = list[j].of
        BY <2>3, ListElements
      <3>2. CASE i = j
        BY <2>3, <3>2
      <3>3. CASE i < j
        <4>1. i \in 1..(j - 1)
          <5>1. PICK n \in 1..MaxList : list \in [1..n -> Requested]
            BY DEF Lists
          <5> QED
            BY <5>1, <3>1, <3>3, <2>3
        <4>2. list[j].of \in Before(list, j)
          BY <4>1, <3>1 DEF Before
        <4> QED
          BY <4>2, <2>3 DEF Acceptable
      <3>4. CASE j < i
        <4>1. j \in 1..(i - 1)
          <5>1. PICK n \in 1..MaxList : list \in [1..n -> Requested]
            BY DEF Lists
          <5> QED
            BY <5>1, <3>1, <3>4, <2>3
        <4>2. list[i].of \in Before(list, i)
          BY <4>1, <3>1 DEF Before
        <4> QED
          BY <4>2, <2>3 DEF Acceptable
      <3> QED
        BY <3>1, <3>2, <3>3, <3>4
    <2>4. CASE award'[a] = award[a] /\ award'[b] = award[b]
      BY <2>4, <1>o
    <2>5. ASSUME NEW i, New(a, i), award'[b] = award[b] PROVE a = b
      <3>1. award[b].state = "active" /\ award[b].of = list[i].of
        BY <2>5
      <3> QED
        BY <3>1, <2>5, <2>2
    <2>6. ASSUME NEW j, New(b, j), award'[a] = award[a] PROVE a = b
      <3>1. award[a].state = "active" /\ award[a].of = list[j].of
        BY <2>6
      <3> QED
        BY <3>1, <2>6, <2>2
    <2> QED
      BY <2>1, <2>3, <2>4, <2>5, <2>6
  <1>3. ASSUME NEW c \in Award, RevokeAward(c) PROVE a = b
    <2>1. award[c] \in [state: {"active", "revoked"}, of: Target]
      BY <1>3 DEF RankingInv, RevokeAward, ActiveAwards, RankingTypeOK, AwardRow
    <2>2. \A x \in Award : award'[x].state = "active" => x # c /\ award'[x] = award[x]
      BY <1>3, <2>1 DEF RevokeAward, RankingInv, RankingTypeOK
    <2> QED
      BY <2>2, <1>o
  <1> QED
    BY <1>1, <1>2, <1>3 DEF Next, RankingBy, vars, rankingVars, AddMetric, UpdateMetric, RemoveMetric, Seed,
       Close, Reopen

\* What scores is of what is there, and once, in every state.
LEMMA RankingInvariant ==
    Spec => []RankingInv
  <1>1. Init => RankingInv
    <2> SUFFICES ASSUME Init PROVE ScoresStand /\ NothingScoresTwice
      BY TypeInit DEF RankingInv
    <2>1. \A a \in Award : award[a].state = "none"
      BY DEF Init, NoAward
    <2> QED
      BY <2>1 DEF ScoresStand, NothingScoresTwice, ActiveAwards
  <1>2. RankingInv /\ [Next]_vars => RankingInv'
    BY TypeStep, StandsStep, OnceStep DEF RankingInv
  <1> QED
    BY <1>1, <1>2, PTL DEF Spec

\* No team ever scores one metric of one discipline twice, in one list of
\* awards or in several.
THEOREM NothingScoresTwiceHolds == Spec => []NothingScoresTwice
  <1>1. RankingInv => NothingScoresTwice
    BY DEF RankingInv
  <1> QED
    BY <1>1, RankingInvariant, PTL

\* An award that stands is of an active metric and of a discipline the edition
\* has, a revoked one of a metric and a discipline that are still there.
THEOREM ScoresStandHolds == Spec => []ScoresStand
  <1>1. RankingInv => ScoresStand
    BY DEF RankingInv
  <1> QED
    BY <1>1, RankingInvariant, PTL

-----------------------------------------------------------------------------
(* Closing                                                                 *)

\* Every action keeps all closures but the last reopened.
LEMMA ClosureStep ==
    RankingTypeOK /\ OneClosureAtATime /\ [Next]_vars => OneClosureAtATime'
  <1> SUFFICES ASSUME RankingTypeOK, OneClosureAtATime, [Next]_vars PROVE OneClosureAtATime'
    OBVIOUS
  <1>1. CASE UNCHANGED closure
    BY <1>1 DEF OneClosureAtATime
  <1>2. CASE Close
    <2>1. closure' = Append(closure, FALSE) /\ closure \in Seq(BOOLEAN)
      BY <1>2 DEF Close, RankingTypeOK
    <2>2. \A i \in DOMAIN closure : closure[i]
      BY <1>2 DEF Close, IsRankingClosed
    <2>3. ASSUME NEW i \in DOMAIN closure', i < Len(closure') PROVE closure'[i]
      <3>1. /\ Len(closure) \in Nat
            /\ DOMAIN closure = 1..Len(closure)
            /\ DOMAIN closure' = 1..(Len(closure) + 1)
            /\ Len(closure') = Len(closure) + 1
            /\ \A j \in 1..Len(closure) : closure'[j] = closure[j]
        BY <2>1
      <3> QED
        BY <3>1, <2>2, <2>3
    <2> QED
      BY <2>3 DEF OneClosureAtATime
  <1>3. CASE Reopen
    <2>1. PICK k \in DOMAIN closure : closure' = [closure EXCEPT ![k] = TRUE]
      BY <1>3 DEF Reopen
    <2>2. Len(closure') = Len(closure) /\ DOMAIN closure' = DOMAIN closure
      BY <2>1 DEF RankingTypeOK
    <2> QED
      BY <2>1, <2>2 DEF OneClosureAtATime, RankingTypeOK
  <1> QED
    BY <1>1, <1>2, <1>3 DEF Next, RankingBy, vars, rankingVars, AddMetric, UpdateMetric, RemoveMetric,
       Seed, AddAwards, RevokeAward

\* At most one closure is open, and it is the last: one reopening opens the
\* ranking, after any number of closings.
THEOREM OneClosureAtATimeHolds == Spec => []OneClosureAtATime
  <1>1. Init => OneClosureAtATime
    BY DEF Init, OneClosureAtATime
  <1> QED
    BY <1>1, RankingTypes, ClosureStep, PTL DEF Spec

-----------------------------------------------------------------------------
(* Seeding                                                                 *)

\* Every step respects the metrics that were removed.
LEMMA ChoicesStep ==
    RankingTypeOK /\ [Next]_vars =>
      [/\ \A m \in Metric : metric[m].state = "removed" => metric'[m].state = "removed"
       /\ ActiveMetrics # {} /\ ~(ActiveMetrics' \subseteq ActiveMetrics) =>
            \E m \in Metric, p \in Position \cup {Manual} : AddMetric(m, p)]_vars
  <1> SUFFICES ASSUME RankingTypeOK, [Next]_vars
               PROVE  /\ \A m \in Metric : metric[m].state = "removed" => metric'[m].state = "removed"
                      /\ ActiveMetrics # {} /\ ~(ActiveMetrics' \subseteq ActiveMetrics) =>
                           \E m \in Metric, p \in Position \cup {Manual} : AddMetric(m, p)
    OBVIOUS
  <1>1. CASE UNCHANGED metric
    BY <1>1 DEF ActiveMetrics
  <1>2. ASSUME NEW n \in Metric, NEW q \in Position \cup {Manual}, AddMetric(n, q)
        PROVE  /\ \A m \in Metric : metric[m].state = "removed" => metric'[m].state = "removed"
               /\ \E m \in Metric, p \in Position \cup {Manual} : AddMetric(m, p)
    <2>1. \A m \in Metric : metric[m].state = "removed" => metric'[m].state = "removed"
      BY <1>2 DEF AddMetric, RankingTypeOK
    <2> QED
      BY <1>2, <2>1
  <1> DEFINE Kept == \A m \in Metric :
                       /\ metric[m].state = "removed" => metric'[m].state = "removed"
                       /\ metric'[m].state = "active" => metric[m].state = "active"
  <1>3. ASSUME NEW n \in Metric, NEW q \in Position \cup {Manual}, UpdateMetric(n, q) PROVE Kept
    BY <1>3 DEF UpdateMetric, RankingTypeOK, MetricRow
  <1>4. ASSUME NEW n \in Metric, RemoveMetric(n) PROVE Kept
    BY <1>4 DEF RemoveMetric, RankingTypeOK, MetricRow
  <1>5. Kept => ActiveMetrics' \subseteq ActiveMetrics
    BY DEF ActiveMetrics
  <1>6. CASE Seed
    <2>1. metric' = SeedDefaultMetrics(metric) /\ metric \in [Metric -> MetricRow]
      BY <1>6 DEF Seed, RankingTypeOK
    <2>2. \A m \in Metric : metric[m].state = "removed" => metric'[m].state = "removed"
      BY <2>1, SeedKeeps
    <2>3. ActiveMetrics # {} => metric' = metric
      BY <2>1, SeedKeeps DEF ActiveMetrics
    <2> QED
      BY <2>2, <2>3 DEF ActiveMetrics
  <1> QED
    BY <1>1, <1>2, <1>3, <1>4, <1>5, <1>6 DEF Next, RankingBy, vars, rankingVars, AddAwards,
       RevokeAward, Close, Reopen

\* Seeding never brings back a metric that was removed, and adds none to a
\* ranking that scores, whatever the default catalog is.
THEOREM SeedingRespectsChoicesHolds == Spec => SeedingRespectsChoices
  BY RankingTypes, ChoicesStep, PTL DEF Spec, SeedingRespectsChoices

-----------------------------------------------------------------------------
(* THE TABLES OF THE PHASES *)

\* What holds of zero and passes from a number to the next holds of all.
LEMMA CountUp ==
    ASSUME NEW T, 0 \in T, \A n \in Nat : n \in T => n + 1 \in T
    PROVE  Nat \subseteq T
<1> SUFFICES ASSUME Nat \ T # {} PROVE FALSE
  OBVIOUS
<1>1. PICK x \in Nat \ T : \A y \in Nat \ T : ~ (<<y, x>> \in OpToRel(<, Nat))
  BY NatLessThanWellFounded, WFMin
<1>2. \A y \in Nat \ T : ~ (y < x)
  BY <1>1 DEF OpToRel
<1>3. x # 0 /\ x - 1 \in Nat
  OBVIOUS
<1>4. x - 1 \in T
  BY <1>2, <1>3
<1> QED  BY <1>3, <1>4

-----------------------------------------------------------------------------
(* SUMS *)

\* What a sum is computed by: one element less at a time.
Sums(S, fun, g) ==
  g = [s \in SUBSET S |-> IF s = {} THEN 0
                          ELSE fun[CHOOSE x \in s : TRUE] + g[s \ {CHOOSE x \in s : TRUE}]]

\* There is such a computation for the subsets of a finite set.
LEMMA SumsExist ==
    ASSUME NEW S, IsFiniteSet(S), NEW fun
    PROVE  \E g : Sums(S, fun, g)
<1> DEFINE One(s) == CHOOSE x \in s : TRUE
           Small(n) == {s \in SUBSET S : Cardinality(s) <= n}
           Upto(n, g) == g = [s \in Small(n) |-> IF s = {} THEN 0 ELSE fun[One(s)] + g[s \ {One(s)}]]
           T == {n \in Nat : \E g : Upto(n, g)}
<1>0. \A s \in SUBSET S : IsFiniteSet(s) /\ Cardinality(s) \in Nat
  BY FS_Subset, FS_CardinalityType
<1>1. \A s \in SUBSET S : s # {} => One(s) \in s /\ Cardinality(s \ {One(s)}) = Cardinality(s) - 1
  BY <1>0, FS_RemoveElement
<1>2. 0 \in T
  <2> DEFINE g == [s \in Small(0) |-> 0]
  <2>1. \A s \in Small(0) : s = {}
    BY <1>0, FS_EmptySet
  <2>2. Upto(0, g)
    BY <2>1
  <2> QED  BY <2>2
<1>3. ASSUME NEW n \in Nat, n \in T PROVE n + 1 \in T
  <2>1. PICK g : Upto(n, g)
    BY <1>3
  <2> DEFINE h == [s \in Small(n + 1) |->
                     IF s \in Small(n) THEN g[s] ELSE fun[One(s)] + g[s \ {One(s)}]]
  <2>2. \A s \in Small(n + 1) : s # {} => s \ {One(s)} \in Small(n)
    BY <1>0, <1>1
  <2>3. Small(n) \subseteq Small(n + 1)
    BY <1>0
  <2>4. {} \in Small(n)
    BY FS_EmptySet
  <2>5. ASSUME NEW s \in Small(n + 1)
        PROVE  h[s] = IF s = {} THEN 0 ELSE fun[One(s)] + h[s \ {One(s)}]
    <3> HIDE DEF One, Small
    <3>1. CASE s \in Small(n)
      <4>1. h[s] = g[s]
        BY <3>1
      <4>2. g[s] = IF s = {} THEN 0 ELSE fun[One(s)] + g[s \ {One(s)}]
        BY <2>1, <3>1
      <4>3. s # {} => h[s \ {One(s)}] = g[s \ {One(s)}]
        BY <2>2, <2>3
      <4> QED  BY <4>1, <4>2, <4>3
    <3>2. CASE s \notin Small(n)
      <4>1. s # {}
        BY <2>4, <3>2
      <4>2. h[s] = fun[One(s)] + g[s \ {One(s)}]
        BY <3>2
      <4>3. h[s \ {One(s)}] = g[s \ {One(s)}]
        BY <2>2, <2>3, <4>1
      <4> QED  BY <4>1, <4>2, <4>3
    <3> QED  BY <3>1, <3>2
  <2>6. Upto(n + 1, h)
    <3> HIDE DEF One, Small
    <3>1. DOMAIN h = Small(n + 1) /\ h = [s \in Small(n + 1) |-> h[s]]
      OBVIOUS
    <3> HIDE DEF h
    <3> QED  BY <2>5, <3>1
  <2> HIDE DEF h, Small
  <2> QED  BY <2>6
<1>4. Nat \subseteq T
  <2> HIDE DEF T
  <2> QED  BY <1>2, <1>3, CountUp
<1>5. Cardinality(S) \in Nat /\ Small(Cardinality(S)) = SUBSET S
  <2>1. Cardinality(S) \in Nat /\ \A s \in SUBSET S : Cardinality(s) <= Cardinality(S)
    BY FS_CardinalityType, FS_Subset
  <2> QED  BY <2>1
<1>6. PICK g : Upto(Cardinality(S), g)
  BY <1>4, <1>5
<1>7. Sums(S, fun, g)
  <2> HIDE DEF Small
  <2> QED  BY <1>5, <1>6 DEF Sums
<1> QED  BY <1>7

\* Sums of numbers are numbers, and two sums differ by at most what their
\* terms differ by, as often as there are terms.
LEMMA SumsTyped ==
    ASSUME NEW S, IsFiniteSet(S), NEW a \in [S -> Int], NEW b \in [S -> Int], NEW m \in Nat,
           \A x \in S : a[x] - b[x] \in -m .. m,
           NEW g, Sums(S, a, g), NEW h, Sums(S, b, h)
    PROVE  g[S] \in Int /\ h[S] \in Int /\ g[S] - h[S] \in -(m * Cardinality(S)) .. m * Cardinality(S)
<1> DEFINE One(s) == CHOOSE x \in s : TRUE
           Fine(s) == g[s] \in Int /\ h[s] \in Int /\ g[s] - h[s] \in -(m * Cardinality(s)) .. m * Cardinality(s)
           T == {n \in Nat : \A s \in SUBSET S : Cardinality(s) = n => Fine(s)}
<1>0. \A s \in SUBSET S : IsFiniteSet(s) /\ Cardinality(s) \in Nat
  BY FS_Subset, FS_CardinalityType
<1>1. \A s \in SUBSET S : s # {} => One(s) \in s /\ Cardinality(s \ {One(s)}) = Cardinality(s) - 1
  BY <1>0, FS_RemoveElement
<1>2. 0 \in T
  <2> SUFFICES ASSUME NEW s \in SUBSET S, Cardinality(s) = 0 PROVE Fine(s)
    OBVIOUS
  <2>1. s = {}
    BY <1>0, FS_EmptySet
  <2>2. g[s] = 0 /\ h[s] = 0
    BY <2>1 DEF Sums
  <2> QED  BY <2>2
<1>3. ASSUME NEW n \in Nat, n \in T PROVE n + 1 \in T
  <2> SUFFICES ASSUME NEW s \in SUBSET S, Cardinality(s) = n + 1 PROVE Fine(s)
    BY <1>3
  <2>1. s # {}
    <3>1. Cardinality({}) = 0
      BY FS_EmptySet
    <3>2. Cardinality(s) # 0
      OBVIOUS
    <3> QED  BY <3>1, <3>2
  <2> DEFINE x == One(s)
             t == s \ {x}
  <2>2. x \in S /\ t \in SUBSET S /\ Cardinality(t) = n
    BY <1>1, <2>1
  <2>3. Fine(t)
    BY <1>3, <2>2
  <2>4. g[s] = a[x] + g[t] /\ h[s] = b[x] + h[t]
    BY <2>1 DEF Sums
  <2>5. a[x] \in Int /\ b[x] \in Int /\ a[x] - b[x] \in -m .. m
    BY <2>2
  <2>6. m * (n + 1) = m * n + m /\ m * n \in Int
    OBVIOUS
  <2> HIDE DEF x, t
  <2> QED  BY <2>2, <2>3, <2>4, <2>5, <2>6
<1>4. Nat \subseteq T
  <2> HIDE DEF T
  <2> QED  BY <1>2, <1>3, CountUp
<1> QED  BY <1>0, <1>4

\* The sum of the library is such a computation.
LEMMA SumIs ==
    ASSUME NEW S, IsFiniteSet(S), NEW fun, DOMAIN fun = S
    PROVE  \E g : Sums(S, fun, g) /\ SumFunction(fun) = g[S]
<1> DEFINE F(f) == [s \in SUBSET S |-> IF s = {} THEN 0
                          ELSE fun[CHOOSE x \in s : TRUE] + f[s \ {CHOOSE x \in s : TRUE}]]
           g == CHOOSE f : f = F(f)
<1>1. SumFunction(fun) = g[S]
  BY DEF SumFunction, SumFunctionOnSet, FoldFunctionOnSet, MapThenFoldSet
<1>2. PICK f : Sums(S, fun, f)
  BY SumsExist
<1>3. f = F(f)
  BY <1>2 DEF Sums
<1>4. g = F(g)
  <2> HIDE DEF F
  <2> QED  BY <1>3
<1>5. Sums(S, fun, g)
  <2> HIDE DEF g
  <2> QED  BY <1>4 DEF Sums
<1> QED  BY <1>1, <1>5

-----------------------------------------------------------------------------
(* ROWS *)

IsRule(r) == {r.win, r.draw, r.loss} \subseteq Nat /\ \E S : r.tiebreakers \in Seq(S)

MatchesWith(e, matches) == {f \in matches : e \in {f.home, f.away}}

\* Results that are numbers and, for an entry, too close for goals to outweigh half a point.
Scored(matches, res, margin) ==
  /\ IsFiniteSet(matches) /\ margin \in Nat
  /\ \A f \in matches :
        /\ {res[f].scoreA, res[f].scoreB, res[f].cardsA, res[f].cardsB} \subseteq Nat
        /\ res[f].scoreA - res[f].scoreB \in -margin .. margin
  /\ \A e : 2 * margin * Cardinality(MatchesWith(e, matches)) < 500

\* What is known of a row.
CountedRow(row) ==
  /\ {row.points, row.won, row.scoreFor, row.scoreAgainst, row.disciplinary} \subseteq Int
  /\ row.scoreFor - row.scoreAgainst \in -249 .. 249

\* More of the same weighs at least as much.
LEMMA TimesLess ==
    ASSUME NEW m \in Nat, NEW a \in Nat, NEW b \in Nat, a <= b
    PROVE  m * a <= m * b
<1>1. b - a \in Nat /\ m * b = m * a + m * (b - a)
  OBVIOUS
<1>2. m * (b - a) \in Nat /\ m * a \in Nat
  BY <1>1
<1> QED  BY <1>1, <1>2

\* The sum of numbers is a number.
LEMMA SumTyped ==
    ASSUME NEW S, IsFiniteSet(S), NEW a \in [S -> Int]
    PROVE  SumFunction(a) \in Int
<1>1. PICK g : Sums(S, a, g) /\ SumFunction(a) = g[S]
  BY SumIs
<1>2. \A x \in S : a[x] - a[x] \in -0 .. 0
  OBVIOUS
<1>3. g[S] \in Int
  BY <1>1, <1>2, SumsTyped
<1> QED  BY <1>1, <1>3

\* A row counts in numbers, and its balance stays below half a point.
LEMMA AccumulateTyped ==
    ASSUME NEW block, NEW matches, NEW r, NEW res, NEW margin,
           IsRule(r), Scored(matches, res, margin), NEW e \in block
    PROVE  CountedRow(Accumulate(block, matches, r, res)[e])
<1> DEFINE mine == {f \in matches : e \in {f.home, f.away} /\ {f.home, f.away} \subseteq block}
           won == Cardinality({f \in mine : res[f].winner = e})
           drawn == Cardinality({f \in mine : res[f].winner \notin {f.home, f.away}})
           lost == Cardinality(mine) - won - drawn
           for == [f \in mine |-> res[f][IF f.home = e THEN "scoreA" ELSE "scoreB"]]
           against == [f \in mine |-> res[f][IF f.home = e THEN "scoreB" ELSE "scoreA"]]
           cards == [f \in mine |-> res[f][IF f.home = e THEN "cardsA" ELSE "cardsB"]]
           row == Accumulate(block, matches, r, res)[e]
<1>1. /\ row.won = won
      /\ row.points = won * r.win + drawn * r.draw + lost * r.loss
      /\ row.scoreFor = SumFunction(for)
      /\ row.scoreAgainst = SumFunction(against)
      /\ row.disciplinary = SumFunction(cards)
  BY DEF Accumulate
<1>2. IsFiniteSet(mine) /\ IsFiniteSet(MatchesWith(e, matches))
      /\ Cardinality(mine) \in Nat /\ Cardinality(MatchesWith(e, matches)) \in Nat
      /\ Cardinality(mine) <= Cardinality(MatchesWith(e, matches))
  <2>1. mine \subseteq MatchesWith(e, matches) /\ MatchesWith(e, matches) \subseteq matches
    BY DEF MatchesWith
  <2>2. IsFiniteSet(MatchesWith(e, matches))
    BY <2>1, FS_Subset DEF Scored
  <2> HIDE DEF mine
  <2> QED  BY <2>1, <2>2, FS_Subset, FS_CardinalityType
<1>3. won \in Int /\ drawn \in Int /\ lost \in Int
  <2>1. IsFiniteSet({f \in mine : res[f].winner = e})
        /\ IsFiniteSet({f \in mine : res[f].winner \notin {f.home, f.away}})
    BY <1>2, FS_Subset
  <2>2. won \in Nat /\ drawn \in Nat
    BY <2>1, FS_CardinalityType
  <2> HIDE DEF won, drawn
  <2> QED  BY <1>2, <2>2
<1>4. for \in [mine -> Int] /\ against \in [mine -> Int] /\ cards \in [mine -> Int]
  <2>1. \A f \in mine : {res[f].scoreA, res[f].scoreB, res[f].cardsA, res[f].cardsB} \subseteq Int
    BY DEF Scored
  <2> HIDE DEF mine
  <2> QED  BY <2>1
<1>5. \A f \in mine : for[f] - against[f] \in -margin .. margin
  <2> TAKE f \in mine
  <2>1. res[f].scoreA \in Int /\ res[f].scoreB \in Int /\ res[f].scoreA - res[f].scoreB \in -margin .. margin
    BY DEF Scored
  <2>2. for[f] - against[f] = res[f].scoreA - res[f].scoreB \/ for[f] - against[f] = res[f].scoreB - res[f].scoreA
    BY <2>1
  <2> HIDE DEF for, against
  <2> QED  BY <2>1, <2>2 DEF Scored
<1>6. row.points \in Int
  <2> HIDE DEF won, drawn, lost, row
  <2>1. won * r.win \in Int /\ drawn * r.draw \in Int /\ lost * r.loss \in Int
    BY <1>3 DEF IsRule
  <2> QED  BY <1>1, <2>1
<1>7. SumFunction(for) \in Int /\ SumFunction(against) \in Int /\ SumFunction(cards) \in Int
  <2> HIDE DEF for, against, cards, mine
  <2> QED  BY <1>2, <1>4, SumTyped
<1>8. SumFunction(for) - SumFunction(against) \in -(margin * Cardinality(mine)) .. margin * Cardinality(mine)
  <2> HIDE DEF mine
  <2>1. PICK g : Sums(mine, for, g) /\ SumFunction(for) = g[mine]
    BY <1>2, SumIs
  <2>2. PICK h : Sums(mine, against, h) /\ SumFunction(against) = h[mine]
    BY <1>2, SumIs
  <2> HIDE DEF for, against
  <2>3. margin \in Nat
    BY DEF Scored
  <2> QED  BY <1>2, <1>4, <1>5, <2>1, <2>2, <2>3, SumsTyped
<1>9. margin * Cardinality(mine) \in 0 .. 249
  <2> DEFINE c == Cardinality(MatchesWith(e, matches))
             n == Cardinality(mine)
  <2>1. margin \in Nat /\ n \in Nat /\ c \in Nat /\ n <= c /\ 2 * margin * c < 500
    BY <1>2 DEF Scored
  <2> HIDE DEF n, c
  <2>2. margin * n <= margin * c /\ margin * n \in Nat
    BY <2>1, TimesLess
  <2>3. margin * c \in Nat /\ 2 * margin * c = 2 * (margin * c)
    BY <2>1
  <2>4. margin * n \in 0 .. 249
    BY <2>1, <2>2, <2>3
  <2> QED  BY <2>4 DEF n
<1> HIDE DEF row, won, for, against, cards, mine
<1>10. SumFunction(for) - SumFunction(against) \in -249 .. 249
  BY <1>7, <1>8, <1>9
<1> QED  BY <1>1, <1>3, <1>6, <1>7, <1>10 DEF CountedRow, row

-----------------------------------------------------------------------------
(* PLACES AND TIES *)

\* The definition of placed in RankBlock, and of tied in TiedWith.
Placed(block, matches, r, stats, criteria, res, placed) ==
  placed = [k \in 1 .. Len(criteria) + 1 |->
             [tied \in SUBSET block |->
               IF Cardinality(tied) <= 1 \/ k > Len(criteria) \/ criteria[k] = "sorteio"
               THEN [e \in tied |-> 1 + Cardinality({d \in tied : d < e})]
               ELSE Behind(tied, BucketValue(tied, k, matches, r, stats, criteria, res), placed[k + 1])]]

\* Such a function exists, from the last criterion to the first.
LEMMA PlacedExists ==
    ASSUME NEW block, NEW matches, NEW r, NEW stats, NEW criteria, Len(criteria) \in Nat, NEW res
    PROVE  \E placed : Placed(block, matches, r, stats, criteria, res, placed)
<1> DEFINE L == Len(criteria)
           Last(k, tied) == Cardinality(tied) <= 1 \/ k > L \/ criteria[k] = "sorteio"
           Drawn(tied) == [e \in tied |-> 1 + Cardinality({d \in tied : d < e})]
           At(k, next) == [tied \in SUBSET block |->
                             IF Last(k, tied) THEN Drawn(tied)
                             ELSE Behind(tied, BucketValue(tied, k, matches, r, stats, criteria, res), next)]
           From(n, g) == \A k \in (L + 1 - n) .. (L + 1) : g[k] = At(k, g[k + 1])
           T == {n \in Nat : n <= L => \E g : From(n, g)}
<1>0. L \in Nat
  OBVIOUS
<1> HIDE DEF L
<1>1. 0 \in T
  <2> DEFINE g == [k \in {L + 1} |-> At(L + 1, 0)]
  <2>1. \A x : At(L + 1, x) = At(L + 1, 0)
    <3> TAKE x
    <3>1. \A tied : Last(L + 1, tied)
      BY <1>0
    <3> HIDE DEF Last, Drawn
    <3> QED  BY <3>1
  <2> HIDE DEF At
  <2>2. g[L + 1] = At(L + 1, g[L + 1 + 1])
    BY <2>1
  <2>3. \A k \in (L + 1 - 0) .. (L + 1) : k = L + 1
    BY <1>0
  <2>4. From(0, g)
    <3> HIDE DEF g
    <3> QED  BY <2>2, <2>3
  <2> HIDE DEF From
  <2> QED  BY <2>4
<1> HIDE DEF At
<1>2. ASSUME NEW n \in Nat, n \in T PROVE n + 1 \in T
  <2> SUFFICES ASSUME n + 1 <= L PROVE \E g : From(n + 1, g)
    OBVIOUS
  <2>1. PICK g : From(n, g)
    BY <1>0, <1>2
  <2> DEFINE k0 == L + 1 - (n + 1)
             h == [k \in k0 .. (L + 2) |-> IF k = k0 THEN At(k0, g[k0 + 1]) ELSE g[k]]
  <2>2. \A k \in k0 .. (L + 1) : h[k] = At(k, h[k + 1])
    <3> TAKE k \in k0 .. (L + 1)
    <3>1. k0 \in Int /\ k0 <= L + 1 /\ L - n = k0 /\ (L + 1) - n = k0 + 1 /\ k \in Int
      BY <1>0
    <3> HIDE DEF k0
    <3>2. k + 1 \in k0 .. (L + 2) /\ k + 1 # k0
      BY <3>1, <1>0
    <3>3. h[k + 1] = g[k + 1]
      BY <3>2
    <3>4. CASE k = k0
      <4>1. h[k] = At(k0, g[k0 + 1])
        BY <3>1, <3>4, <1>0
      <4> QED  BY <3>3, <3>4, <4>1
    <3>5. CASE k # k0
      <4>1. k \in k0 + 1 .. (L + 1) /\ k \in k0 .. (L + 2)
        BY <3>1, <3>5, <1>0
      <4>2. h[k] = g[k]
        BY <3>5, <4>1
      <4>3. k \in (L + 1 - n) .. (L + 1)
        BY <3>1, <4>1, <1>0
      <4>4. g[k] = At(k, g[k + 1])
        BY <2>1, <4>3
      <4> QED  BY <3>3, <4>2, <4>4
    <3> QED  BY <3>4, <3>5
  <2>3. From(n + 1, h)
    <3> HIDE DEF h
    <3> QED  BY <2>2
  <2> HIDE DEF From
  <2> QED  BY <2>3
<1>3. PICK g : From(L, g)
  <2> HIDE DEF T
  <2>1. L \in T
    BY <1>0, <1>1, <1>2, CountUp
  <2> QED  BY <2>1 DEF T
<1> DEFINE h == [k \in 1 .. L + 1 |-> g[k]]
<1>4. \A k \in 1 .. L + 1 : g[k] = At(k, g[k + 1])
  BY <1>0, <1>3
<1>5. \A k \in 1 .. L + 1 : h[k] = At(k, h[k + 1])
  <2> TAKE k \in 1 .. L + 1
  <2>1. CASE k = L + 1
    <3>1. At(k, g[k + 1]) = At(k, h[k + 1])
      <4>1. \A tied : Last(k, tied)
        BY <1>0, <2>1
      <4> HIDE DEF Last, Drawn, h
      <4> QED  BY <4>1 DEF At
    <3> QED  BY <3>1, <1>4
  <2>2. CASE k # L + 1
    <3>1. k + 1 \in 1 .. L + 1
      BY <1>0, <2>2
    <3> QED  BY <3>1, <1>4
  <2> QED  BY <2>1, <2>2
<1>6. h = [k \in 1 .. L + 1 |-> At(k, h[k + 1])]
  <2>1. h = [k \in 1 .. L + 1 |-> h[k]]
    OBVIOUS
  <2> HIDE DEF h
  <2> QED  BY <1>5, <2>1, Zenon
<1>7. Placed(block, matches, r, stats, criteria, res, h)
  <2> HIDE DEF h
  <2> QED  BY <1>6 DEF Placed, At, L
<1> QED  BY <1>7

\* What ranks a block satisfies the definition of placed.
LEMMA RankBlockIs ==
    ASSUME NEW block, NEW matches, NEW r, NEW stats, NEW criteria, Len(criteria) \in Nat, NEW res
    PROVE  \E placed : /\ Placed(block, matches, r, stats, criteria, res, placed)
                       /\ RankBlock(block, matches, r, stats, criteria, res) = placed[1][block]
<1> DEFINE F(placed) ==
             [k \in 1 .. Len(criteria) + 1 |->
               [tied \in SUBSET block |->
                 IF Cardinality(tied) <= 1 \/ k > Len(criteria) \/ criteria[k] = "sorteio"
                 THEN [e \in tied |-> 1 + Cardinality({d \in tied : d < e})]
                 ELSE Behind(tied, BucketValue(tied, k, matches, r, stats, criteria, res), placed[k + 1])]]
           placed == CHOOSE g : g = F(g)
<1>1. RankBlock(block, matches, r, stats, criteria, res) = placed[1][block]
  BY DEF RankBlock
<1>2. PICK g : Placed(block, matches, r, stats, criteria, res, g)
  BY PlacedExists
<1>3. g = F(g)
  BY <1>2 DEF Placed
<1>4. placed = F(placed)
  <2> HIDE DEF F
  <2> QED  BY <1>3
<1>5. Placed(block, matches, r, stats, criteria, res, placed)
  <2> HIDE DEF placed
  <2> QED  BY <1>4 DEF Placed
<1> QED  BY <1>1, <1>5

\* The definition of tied in TiedWith.
Tied(e, block, stats, matches, r, res, tied) ==
  tied = [k \in 0 .. Len(Criteria(r)) + 1 |->
            IF k = 0 THEN block
            ELSE {d \in tied[k - 1] : Merit(k - 1, d, tied[k - 1], stats, matches, r, res)
                                      = Merit(k - 1, e, tied[k - 1], stats, matches, r, res)}]

\* Whom an entry is still tied with is defined at every criterion.
LEMMA TiedExists ==
    ASSUME NEW e, NEW block, NEW stats, NEW matches, NEW r, NEW res, Len(Criteria(r)) \in Nat
    PROVE  \E tied : Tied(e, block, stats, matches, r, res, tied)
<1> DEFINE K == Len(Criteria(r))
           Kept(k, before) == {d \in before : Merit(k, d, before, stats, matches, r, res)
                                              = Merit(k, e, before, stats, matches, r, res)}
           At(k, before) == IF k = 0 THEN block ELSE Kept(k - 1, before)
           Upto(n, g) == \A k \in 0 .. n : g[k] = At(k, g[k - 1])
           T == {n \in Nat : \E g : Upto(n, g)}
<1>0. K \in Nat
  OBVIOUS
<1> HIDE DEF K, Kept
<1>1. 0 \in T
  <2> DEFINE g == [k \in {0} |-> block]
  <2>1. Upto(0, g)
    OBVIOUS
  <2> QED  BY <2>1
<1>2. ASSUME NEW n \in Nat, n \in T PROVE n + 1 \in T
  <2>1. PICK g : Upto(n, g)
    BY <1>2
  <2> DEFINE h == [k \in -1 .. n + 1 |-> IF k = n + 1 THEN At(n + 1, g[n]) ELSE g[k]]
  <2>2. \A k \in 0 .. n + 1 : h[k] = At(k, h[k - 1])
    <3> HIDE DEF At
    <3> TAKE k \in 0 .. n + 1
    <3>1. h[k - 1] = g[k - 1]
      OBVIOUS
    <3>2. CASE k = n + 1
      <4>1. k - 1 = n /\ h[k] = At(n + 1, g[n])
        BY <3>2
      <4> HIDE DEF h
      <4> QED  BY <3>1, <3>2, <4>1
    <3>3. CASE k # n + 1
      <4>1. k \in 0 .. n /\ h[k] = g[k]
        BY <3>3
      <4> HIDE DEF h
      <4> QED  BY <2>1, <3>1, <4>1
    <3> QED  BY <3>2, <3>3
  <2>3. Upto(n + 1, h)
    <3> HIDE DEF h, At
    <3> QED  BY <2>2
  <2> HIDE DEF Upto
  <2> QED  BY <2>3
<1>3. PICK g : Upto(K + 1, g)
  <2> HIDE DEF T
  <2>1. K + 1 \in T
    BY <1>0, <1>1, <1>2, CountUp
  <2> QED  BY <2>1 DEF T
<1> DEFINE h == [k \in 0 .. K + 1 |-> g[k]]
<1>4. \A k \in 0 .. K + 1 : h[k] = At(k, h[k - 1])
  <2> TAKE k \in 0 .. K + 1
  <2>1. k = 0 \/ k - 1 \in 0 .. K + 1
    BY <1>0
  <2>2. g[k] = At(k, g[k - 1])
    BY <1>3
  <2> QED  BY <2>1, <2>2
<1>5. h = [k \in 0 .. K + 1 |-> At(k, h[k - 1])]
  <2>1. h = [k \in 0 .. K + 1 |-> h[k]]
    OBVIOUS
  <2> HIDE DEF h, At
  <2> QED  BY <1>4, <2>1, Zenon
<1>6. Tied(e, block, stats, matches, r, res, h)
  <2> HIDE DEF h
  <2> QED  BY <1>5 DEF Tied, Kept, K
<1> QED  BY <1>6

\* TiedWith satisfies the definition of tied.
LEMMA TiedWithIs ==
    ASSUME NEW e, NEW block, NEW stats, NEW matches, NEW r, NEW res, Len(Criteria(r)) \in Nat
    PROVE  Tied(e, block, stats, matches, r, res, TiedWith(e, block, stats, matches, r, res))
<1> DEFINE F(tied) ==
             [k \in 0 .. Len(Criteria(r)) + 1 |->
                IF k = 0 THEN block
                ELSE {d \in tied[k - 1] : Merit(k - 1, d, tied[k - 1], stats, matches, r, res)
                                          = Merit(k - 1, e, tied[k - 1], stats, matches, r, res)}]
           tied == CHOOSE g : g = F(g)
<1>1. TiedWith(e, block, stats, matches, r, res) = tied
  BY DEF TiedWith
<1>2. PICK g : Tied(e, block, stats, matches, r, res, g)
  BY TiedExists
<1>3. g = F(g)
  BY <1>2 DEF Tied
<1>4. tied = F(tied)
  <2> HIDE DEF F
  <2> QED  BY <1>3
<1>5. Tied(e, block, stats, matches, r, res, tied)
  <2> HIDE DEF tied
  <2> QED  BY <1>4 DEF Tied
<1> QED  BY <1>1, <1>5

-----------------------------------------------------------------------------
(* CRITERIA *)

\* A set of numbers has a least one.
LEMMA LeastExists ==
    ASSUME NEW S \in SUBSET Nat, S # {}
    PROVE  Min(S) \in S /\ \A x \in S : Min(S) <= x
<1>1. PICK x \in S : \A y \in S : ~ (<<y, x>> \in OpToRel(<, Nat))
  BY NatLessThanWellFounded, WFMin
<1>2. \A y \in S : ~ (y < x)
  BY <1>1 DEF OpToRel
<1>3. \A y \in S : x <= y
  BY <1>2
<1> QED  BY <1>3 DEF Min

\* The criteria are those of the rule, up to the draw.
LEMMA CriteriaAre ==
    ASSUME NEW r, IsRule(r)
    PROVE  /\ Len(Criteria(r)) \in 0 .. Len(r.tiebreakers) /\ Len(r.tiebreakers) \in Nat
           /\ \A k \in 1 .. Len(Criteria(r)) :
                 Criteria(r)[k] = r.tiebreakers[k] /\ r.tiebreakers[k] # "sorteio"
           /\ \/ Len(Criteria(r)) = Len(r.tiebreakers)
              \/ r.tiebreakers[Len(Criteria(r)) + 1] = "sorteio"
<1> DEFINE t == r.tiebreakers
           draws == {i \in DOMAIN t : t[i] = "sorteio"}
           last == IF draws = {} THEN Len(t) ELSE Min(draws) - 1
<1>1. PICK S : t \in Seq(S) /\ Len(t) \in Nat /\ DOMAIN t = 1 .. Len(t)
  BY DEF IsRule
<1>2. Criteria(r) = SubSeq(t, 1, last)
  BY DEF Criteria
<1> HIDE DEF t
<1>3. draws # {} => Min(draws) \in draws /\ \A x \in draws : Min(draws) <= x
  <2>1. draws \in SUBSET Nat
    BY <1>1
  <2> HIDE DEF draws
  <2> QED  BY <2>1, LeastExists
<1>4. last \in 0 .. Len(t)
  BY <1>1, <1>3
<1>5. \A k \in 1 .. last : t[k] # "sorteio"
  <2> SUFFICES ASSUME NEW k \in 1 .. last, t[k] = "sorteio" PROVE FALSE
    OBVIOUS
  <2>1. k \in draws
    BY <1>1, <1>4
  <2>2. Min(draws) <= k /\ Min(draws) \in Nat /\ last = Min(draws) - 1
    BY <1>1, <1>3, <2>1
  <2> HIDE DEF last
  <2> QED  BY <1>4, <2>2
<1>6. last = Len(t) \/ t[last + 1] = "sorteio"
  BY <1>1, <1>3
<1> HIDE DEF last
<1>7. Len(SubSeq(t, 1, last)) = last /\ \A k \in 1 .. last : SubSeq(t, 1, last)[k] = t[k]
  BY <1>1, <1>4
<1> QED  BY <1>1, <1>2, <1>4, <1>5, <1>6, <1>7 DEF t

-----------------------------------------------------------------------------
(* THE ORDER *)

\* What is given of a block: its matches are scored, and its rows count them.
Given(block, stats, matches, r, res, margin) ==
  /\ IsFiniteSet(block) /\ block \subseteq Nat
  /\ IsRule(r) /\ Scored(matches, res, margin)
  /\ \A e \in block : CountedRow(stats[e])

\* What is compared is a number.
LEMMA ValueTyped ==
    ASSUME NEW c, NEW row, NEW mini, CountedRow(row), CountedRow(mini)
    PROVE  CriterionValue(c, row, mini) \in Int
<1>1. /\ row.won \in Int /\ row.scoreFor \in Int /\ row.scoreAgainst \in Int /\ row.disciplinary \in Int
      /\ mini.points \in Int /\ mini.scoreFor \in Int /\ mini.scoreAgainst \in Int
  BY DEF CountedRow
<1>2. CASE c = "confronto-direto"
  BY <1>1, <1>2 DEF CriterionValue
<1>3. CASE c = "vitorias"
  BY <1>1, <1>3 DEF CriterionValue
<1>4. CASE c \in {"saldo", "marcados", "sofridos", "fair-play"}
  BY <1>1, <1>4 DEF CriterionValue
<1>5. CASE c \notin {"confronto-direto", "vitorias", "saldo", "marcados", "sofridos", "fair-play"}
  BY <1>5 DEF CriterionValue
<1> QED  BY <1>2, <1>3, <1>4, <1>5

\* Merits are pairs of numbers.
LEMMA MeritTyped ==
    ASSUME NEW block, NEW stats, NEW matches, NEW r, NEW res, NEW margin,
           Given(block, stats, matches, r, res, margin),
           NEW tied \in SUBSET block, NEW e \in tied, NEW k \in 0 .. Len(Criteria(r))
    PROVE  Merit(k, e, tied, stats, matches, r, res) \in Int \X Int
<1> DEFINE mini == Accumulate(tied, matches, r, res)[e]
<1>1. CountedRow(mini) /\ CountedRow(stats[e])
  BY AccumulateTyped DEF Given
<1> HIDE DEF mini
<1>2. CriterionValue(Criteria(r)[k], stats[e], mini) \in Int
  BY <1>1, ValueTyped
<1>3. stats[e].points \in Int /\ mini.points \in Int /\ mini.scoreFor - mini.scoreAgainst \in Int
  BY <1>1 DEF CountedRow
<1> QED  BY <1>2, <1>3 DEF Merit, mini

\* Half a point weighs more than any two balances differ.
LEMMA PointsOutweigh ==
    ASSUME NEW p \in Int, NEW f \in Int, NEW a \in Int, f - a \in -249 .. 249,
           NEW q \in Int, NEW g \in Int, NEW b \in Int, g - b \in -249 .. 249
    PROVE  /\ p * 500 + f - a \in Int
           /\ p * 500 + f - a > q * 500 + g - b <=> p > q \/ (p = q /\ f - a > g - b)
           /\ p * 500 + f - a = q * 500 + g - b <=> p = q /\ f - a = g - b
  OBVIOUS

\* The buckets are those of equal merit, and better merit goes first: in a
\* mini-table half a point weighs more than any two balances differ.
LEMMA ValueIsMerit ==
    ASSUME NEW block, NEW stats, NEW matches, NEW r, NEW res, NEW margin,
           Given(block, stats, matches, r, res, margin),
           NEW tied \in SUBSET block, NEW d \in tied, NEW e \in tied, NEW k \in 1 .. Len(Criteria(r))
    PROVE  LET value == BucketValue(tied, k, matches, r, stats, r.tiebreakers, res)
               merit(x) == Merit(k, x, tied, stats, matches, r, res)
           IN /\ value[d] \in Int /\ value[e] \in Int
              /\ value[d] > value[e] <=> More(merit(d), merit(e))
              /\ value[d] = value[e] <=> merit(d) = merit(e)
<1> DEFINE c == Criteria(r)[k]
           mini(x) == Accumulate(tied, matches, r, res)[x]
           value == BucketValue(tied, k, matches, r, stats, r.tiebreakers, res)
           merit(x) == Merit(k, x, tied, stats, matches, r, res)
<1>1. c = r.tiebreakers[k]
  BY CriteriaAre DEF Given
<1>2. \A x \in tied : CountedRow(mini(x)) /\ CountedRow(stats[x])
  BY AccumulateTyped DEF Given
<1>3. \A x \in tied : value[x] = CriterionValue(c, stats[x], mini(x))
  BY <1>1 DEF BucketValue
<1>4. \A x \in tied : merit(x) = IF c = "confronto-direto"
                                 THEN <<mini(x).points, mini(x).scoreFor - mini(x).scoreAgainst>>
                                 ELSE <<CriterionValue(c, stats[x], mini(x)), 0>>
  <2> QED  BY CriteriaAre DEF Merit, Given
<1> HIDE DEF c, mini, value, merit
<1>5. CASE c = "confronto-direto"
  <2>1. \A x \in tied : value[x] = mini(x).points * 500 + mini(x).scoreFor - mini(x).scoreAgainst
    BY <1>3, <1>5 DEF CriterionValue
  <2>2. \A x \in tied : mini(x).points \in Int /\ mini(x).scoreFor \in Int /\ mini(x).scoreAgainst \in Int
                        /\ mini(x).scoreFor - mini(x).scoreAgainst \in -249 .. 249
    BY <1>2 DEF CountedRow
  <2>3. \A x \in tied : merit(x)[1] = mini(x).points /\ merit(x)[2] = mini(x).scoreFor - mini(x).scoreAgainst
    BY <1>4, <1>5
  <2>4. merit(d) = merit(e) <=> merit(d)[1] = merit(e)[1] /\ merit(d)[2] = merit(e)[2]
    BY <1>4, <1>5
  <2> DEFINE p == mini(d).points  f == mini(d).scoreFor  a == mini(d).scoreAgainst
             q == mini(e).points  g == mini(e).scoreFor  b == mini(e).scoreAgainst
  <2>5. /\ p \in Int /\ f \in Int /\ a \in Int /\ f - a \in -249 .. 249
        /\ q \in Int /\ g \in Int /\ b \in Int /\ g - b \in -249 .. 249
    BY <2>2
  <2>6. value[d] = p * 500 + f - a /\ value[e] = q * 500 + g - b
    BY <2>1
  <2>7. merit(d)[1] = p /\ merit(d)[2] = f - a /\ merit(e)[1] = q /\ merit(e)[2] = g - b
    BY <2>3
  <2> HIDE DEF p, f, a, q, g, b
  <2>8. value[d] \in Int /\ value[e] \in Int
    BY <2>5, <2>6
  <2>9. value[d] > value[e] <=> More(merit(d), merit(e))
    BY <2>5, <2>6, <2>7, PointsOutweigh DEF More
  <2>10. value[d] = value[e] <=> merit(d) = merit(e)
    <3>1. p * 500 + f - a = q * 500 + g - b <=> p = q /\ f - a = g - b
      BY <2>5, PointsOutweigh
    <3> QED  BY <2>4, <2>6, <2>7, <3>1
  <2> QED  BY <2>8, <2>9, <2>10 DEF value, merit
<1>6. CASE c # "confronto-direto"
  <2>1. \A x \in tied : value[x] \in Int
    BY <1>2, <1>3, ValueTyped
  <2>2. \A x \in tied : merit(x) = <<value[x], 0>>
    BY <1>3, <1>4, <1>6
  <2> QED  BY <2>1, <2>2 DEF More, value, merit
<1> QED  BY <1>5, <1>6

\* Those above an entry by the k-th criterion or one after it.
AboveFrom(k, e, tied, stats, matches, r, res) ==
  {d \in tied[k] :
     \/ \E j \in k .. Len(Criteria(r)) :
           d \in tied[j] /\ More(Merit(j, d, tied[j], stats, matches, r, res),
                                 Merit(j, e, tied[j], stats, matches, r, res))
     \/ d \in tied[Len(Criteria(r)) + 1] /\ d < e}

\* Ties shrink, and an entry stays tied with itself.
LEMMA TiedShrinks ==
    ASSUME NEW e, NEW block, NEW stats, NEW matches, NEW r, NEW res, NEW tied,
           Len(Criteria(r)) \in Nat, e \in block,
           Tied(e, block, stats, matches, r, res, tied)
    PROVE  /\ tied[0] = block
           /\ \A k \in 0 .. Len(Criteria(r)) :
                 tied[k + 1] = {d \in tied[k] : Merit(k, d, tied[k], stats, matches, r, res)
                                                = Merit(k, e, tied[k], stats, matches, r, res)}
           /\ \A k \in 0 .. Len(Criteria(r)) + 1 : e \in tied[k] /\ tied[k] \subseteq block
           /\ \A k \in 0 .. Len(Criteria(r)) + 1 : \A j \in k .. Len(Criteria(r)) + 1 : tied[j] \subseteq tied[k]
<1> DEFINE K == Len(Criteria(r))
           merit(k, d) == Merit(k, d, tied[k], stats, matches, r, res)
           T == {n \in Nat : n <= K + 1 => e \in tied[n] /\ tied[n] \subseteq block
                                           /\ \A k \in 0 .. n : tied[n] \subseteq tied[k]}
<1>1. tied[0] = block
  BY DEF Tied
<1>2. \A k \in 0 .. K : tied[k + 1] = {d \in tied[k] : merit(k, d) = merit(k, e)}
  <2> TAKE k \in 0 .. K
  <2>1. k + 1 \in 0 .. K + 1 /\ k + 1 # 0 /\ (k + 1) - 1 = k
    OBVIOUS
  <2>2. \A i \in 0 .. K + 1 : i # 0 => tied[i] = {d \in tied[i - 1] : merit(i - 1, d) = merit(i - 1, e)}
    BY DEF Tied
  <2> HIDE DEF merit
  <2> QED  BY <2>1, <2>2
<1> HIDE DEF merit, K
<1>3. 0 \in T
  BY <1>1
<1>4. ASSUME NEW n \in Nat, n \in T PROVE n + 1 \in T
  <2> SUFFICES ASSUME n + 1 <= K + 1
               PROVE  e \in tied[n + 1] /\ tied[n + 1] \subseteq block
                      /\ \A k \in 0 .. n + 1 : tied[n + 1] \subseteq tied[k]
    OBVIOUS
  <2>1. K \in Nat
    BY DEF K
  <2>2. n \in 0 .. K /\ n <= K + 1
    BY <2>1
  <2>3. tied[n + 1] = {d \in tied[n] : merit(n, d) = merit(n, e)}
    BY <1>2, <2>2
  <2>4. e \in tied[n] /\ tied[n] \subseteq block /\ \A k \in 0 .. n : tied[n] \subseteq tied[k]
    BY <1>4, <2>2
  <2> QED  BY <2>3, <2>4
<1>5. Nat \subseteq T
  <2> HIDE DEF T
  <2> QED  BY <1>3, <1>4, CountUp
<1>6. K \in Nat
  BY DEF K
<1>7. \A k \in 0 .. K + 1 : e \in tied[k] /\ tied[k] \subseteq block
  BY <1>5, <1>6
<1>8. \A k \in 0 .. K + 1 : \A j \in k .. K + 1 : tied[j] \subseteq tied[k]
  BY <1>5, <1>6
<1> QED  BY <1>1, <1>2, <1>7, <1>8 DEF K, merit

\* Above an entry are those with better merit, and those that are above it
\* among the still tied.
LEMMA AboveSplits ==
    ASSUME NEW e, NEW block, NEW stats, NEW matches, NEW r, NEW res, NEW margin, NEW tied,
           Given(block, stats, matches, r, res, margin), e \in block,
           Tied(e, block, stats, matches, r, res, tied), NEW k \in 0 .. Len(Criteria(r))
    PROVE  LET better == {d \in tied[k] : More(Merit(k, d, tied[k], stats, matches, r, res),
                                               Merit(k, e, tied[k], stats, matches, r, res))}
               rest   == AboveFrom(k + 1, e, tied, stats, matches, r, res)
           IN /\ AboveFrom(k, e, tied, stats, matches, r, res) = better \cup rest
              /\ better \cap rest = {}
              /\ IsFiniteSet(better) /\ IsFiniteSet(rest)
<1> DEFINE K == Len(Criteria(r))
           merit(i, d) == Merit(i, d, tied[i], stats, matches, r, res)
           better == {d \in tied[k] : More(merit(k, d), merit(k, e))}
           rest == {d \in tied[k + 1] : \/ \E j \in k + 1 .. K : d \in tied[j] /\ More(merit(j, d), merit(j, e))
                                        \/ d \in tied[K + 1] /\ d < e}
           all == {d \in tied[k] : \/ \E j \in k .. K : d \in tied[j] /\ More(merit(j, d), merit(j, e))
                                   \/ d \in tied[K + 1] /\ d < e}
<1>1. rest = AboveFrom(k + 1, e, tied, stats, matches, r, res) /\ all = AboveFrom(k, e, tied, stats, matches, r, res)
  BY DEF AboveFrom
<1>2. K \in Nat
  BY CriteriaAre DEF Given
<1>3. /\ tied[k + 1] = {d \in tied[k] : merit(k, d) = merit(k, e)}
      /\ tied[k] \subseteq block
      /\ \A j \in k + 1 .. K + 1 : tied[j] \subseteq tied[k + 1]
      /\ e \in tied[k]
  BY <1>2, TiedShrinks
<1>4. \A d \in tied[k] : merit(k, d) \in Int \X Int
  BY <1>3, MeritTyped
<1> HIDE DEF merit, K
<1>5. all = better \cup rest
  <2>1. ASSUME NEW d \in all PROVE d \in better \cup rest
    <3>1. CASE \E j \in k .. K : d \in tied[j] /\ More(merit(j, d), merit(j, e))
      <4>1. PICK j \in k .. K : d \in tied[j] /\ More(merit(j, d), merit(j, e))
        BY <3>1
      <4>2. CASE j = k
        BY <4>1, <4>2
      <4>3. CASE j # k
        <5>1. j \in k + 1 .. K /\ j \in k + 1 .. K + 1
          BY <1>2, <4>3
        <5>2. d \in tied[k + 1]
          BY <1>3, <4>1, <5>1
        <5> QED  BY <4>1, <5>1, <5>2
      <4> QED  BY <4>2, <4>3
    <3>2. CASE d \in tied[K + 1] /\ d < e
      <4>1. K + 1 \in k + 1 .. K + 1
        BY <1>2 DEF K
      <4>2. d \in tied[k + 1]
        BY <1>3, <3>2, <4>1
      <4> QED  BY <3>2, <4>2
    <3> QED  BY <3>1, <3>2
  <2>2. better \subseteq all
    <3>1. k \in k .. K
      BY <1>2 DEF K
    <3> QED  BY <3>1
  <2>3. rest \subseteq all
    <3>1. \A j \in k + 1 .. K : j \in k .. K
      BY <1>2
    <3>2. tied[k + 1] \subseteq tied[k]
      BY <1>3
    <3> QED  BY <3>1, <3>2
  <2> QED  BY <2>1, <2>2, <2>3
<1>6. better \cap rest = {}
  <2>1. \A d \in tied[k + 1] : d \in tied[k] /\ merit(k, d) = merit(k, e)
    BY <1>3
  <2>2. ~ More(merit(k, e), merit(k, e))
    BY <1>3, <1>4 DEF More
  <2> QED  BY <2>1, <2>2
<1>7. IsFiniteSet(better) /\ IsFiniteSet(rest)
  <2>1. better \subseteq block /\ rest \subseteq block
    BY <1>3
  <2>2. IsFiniteSet(block)
    BY DEF Given
  <2> HIDE DEF better, rest
  <2> QED  BY <2>1, <2>2, FS_Subset
<1> QED  BY <1>1, <1>5, <1>6, <1>7 DEF merit, K

\* The place of an entry in a block, given the places in its buckets.
PlaceIn(placed, k, tied, e, matches, r, stats, criteria, res) ==
  IF Cardinality(tied) <= 1 \/ k > Len(criteria) \/ criteria[k] = "sorteio"
  THEN 1 + Cardinality({d \in tied : d < e})
  ELSE LET value == BucketValue(tied, k, matches, r, stats, criteria, res)
       IN Cardinality({d \in tied : value[d] > value[e]})
          + placed[k + 1][{d \in tied : value[d] = value[e]}][e]

\* Placed at one criterion, unfolded once.
LEMMA PlacedAt ==
    ASSUME NEW block, NEW matches, NEW r, NEW stats, NEW criteria, Len(criteria) \in Nat, NEW res, NEW placed,
           Placed(block, matches, r, stats, criteria, res, placed),
           NEW k \in 1 .. Len(criteria) + 1, NEW tied \in SUBSET block, NEW e \in tied
    PROVE  placed[k][tied][e] = PlaceIn(placed, k, tied, e, matches, r, stats, criteria, res)
<1> DEFINE last(i, t) == Cardinality(t) <= 1 \/ i > Len(criteria) \/ criteria[i] = "sorteio"
           drawn(t) == [x \in t |-> 1 + Cardinality({d \in t : d < x})]
           split(i, t) == Behind(t, BucketValue(t, i, matches, r, stats, criteria, res), placed[i + 1])
<1>1. placed = [i \in 1 .. Len(criteria) + 1 |->
                 [t \in SUBSET block |-> IF last(i, t) THEN drawn(t) ELSE split(i, t)]]
  BY DEF Placed
<1> HIDE DEF last, drawn, split
<1>2. placed[k] = [t \in SUBSET block |-> IF last(k, t) THEN drawn(t) ELSE split(k, t)]
  BY <1>1
<1>3. placed[k][tied] = IF last(k, tied) THEN drawn(tied) ELSE split(k, tied)
  BY <1>2
<1>4. drawn(tied)[e] = 1 + Cardinality({d \in tied : d < e})
  BY DEF drawn
<1>5. split(k, tied)[e] = LET value == BucketValue(tied, k, matches, r, stats, criteria, res)
                          IN Cardinality({d \in tied : value[d] > value[e]})
                             + placed[k + 1][{d \in tied : value[d] = value[e]}][e]
  BY DEF split, Behind
<1> QED  BY <1>3, <1>4, <1>5 DEF last, PlaceIn

\* A place counts those above, from the last criterion back to the first.
LEMMA PlaceCounts ==
    ASSUME NEW e, NEW block, NEW stats, NEW matches, NEW r, NEW res, NEW margin, NEW tied, NEW placed,
           Given(block, stats, matches, r, res, margin), e \in block,
           Tied(e, block, stats, matches, r, res, tied),
           Placed(tied[1], matches, r, stats, r.tiebreakers, res, placed)
    PROVE  placed[1][tied[1]][e] = 1 + Cardinality(AboveFrom(1, e, tied, stats, matches, r, res))
<1> DEFINE K == Len(Criteria(r))
           L == Len(r.tiebreakers)
           merit(k, d) == Merit(k, d, tied[k], stats, matches, r, res)
           value(k) == BucketValue(tied[k], k, matches, r, stats, r.tiebreakers, res)
           above(k) == AboveFrom(k, e, tied, stats, matches, r, res)
           Counts(k) == placed[k][tied[k]][e] = 1 + Cardinality(above(k))
           T == {n \in Nat : n <= K => Counts(K + 1 - n)}
<1>1. /\ K \in Nat /\ L \in Nat /\ K <= L
      /\ \A k \in 1 .. K : r.tiebreakers[k] # "sorteio"
      /\ K = L \/ r.tiebreakers[K + 1] = "sorteio"
  <2>1. IsRule(r)
    BY DEF Given
  <2> QED  BY <2>1, CriteriaAre
<1>2. /\ tied[0] = block
      /\ \A k \in 0 .. K : tied[k + 1] = {d \in tied[k] : merit(k, d) = merit(k, e)}
      /\ \A k \in 0 .. K + 1 : e \in tied[k] /\ tied[k] \subseteq block
      /\ \A k \in 0 .. K + 1 : \A j \in k .. K + 1 : tied[j] \subseteq tied[k]
  BY <1>1, TiedShrinks
<1>3. \A k \in 1 .. K + 1 : tied[k] \in SUBSET tied[1] /\ IsFiniteSet(tied[k]) /\ Cardinality(tied[k]) \in Nat
  <2> TAKE k \in 1 .. K + 1
  <2>1. IsFiniteSet(block)
    BY DEF Given
  <2>2. tied[k] \subseteq block /\ tied[k] \subseteq tied[1]
    BY <1>1, <1>2
  <2> QED  BY <2>1, <2>2, FS_Subset, FS_CardinalityType
<1>4. \A k \in 1 .. K + 1 :
        placed[k][tied[k]][e] =
          IF Cardinality(tied[k]) <= 1 \/ k > L \/ r.tiebreakers[k] = "sorteio"
          THEN 1 + Cardinality({d \in tied[k] : d < e})
          ELSE Cardinality({d \in tied[k] : value(k)[d] > value(k)[e]})
               + placed[k + 1][{d \in tied[k] : value(k)[d] = value(k)[e]}][e]
  <2> TAKE k \in 1 .. K + 1
  <2>1. k \in 1 .. L + 1
    BY <1>1
  <2>2. e \in tied[k]
    BY <1>1, <1>2
  <2>3. L \in Nat
    BY <1>1
  <2>4. tied[k] \in SUBSET tied[1]
    BY <1>3
  <2>5. placed[k][tied[k]][e] = PlaceIn(placed, k, tied[k], e, matches, r, stats, r.tiebreakers, res)
    BY <2>1, <2>2, <2>3, <2>4, PlacedAt
  <2> QED  BY <2>5 DEF PlaceIn
<1>5. \A k \in 1 .. K : \A d \in tied[k] : /\ value(k)[d] > value(k)[e] <=> More(merit(k, d), merit(k, e))
                                           /\ value(k)[d] = value(k)[e] <=> merit(k, d) = merit(k, e)
  <2> TAKE k \in 1 .. K
  <2> TAKE d \in tied[k]
  <2>1. e \in tied[k] /\ tied[k] \in SUBSET block
    BY <1>1, <1>2
  <2> QED  BY <2>1, ValueIsMerit
<1>6. 0 \in T
  <2>1. above(K + 1) = {d \in tied[K + 1] : d < e}
    BY <1>1 DEF AboveFrom
  <2>2. placed[K + 1][tied[K + 1]][e] = 1 + Cardinality({d \in tied[K + 1] : d < e})
    <3>1. K + 1 \in 1 .. K + 1 /\ (K + 1 > L \/ r.tiebreakers[K + 1] = "sorteio")
      BY <1>1
    <3> HIDE DEF value, K, L
    <3> QED  BY <1>4, <3>1
  <2>3. K + 1 - 0 = K + 1
    BY <1>1
  <2> HIDE DEF above
  <2> QED  BY <2>1, <2>2, <2>3
<1>7. \A k \in 1 .. K :
        LET better == {d \in tied[k] : More(merit(k, d), merit(k, e))}
        IN /\ above(k) = better \cup above(k + 1)
           /\ better \cap above(k + 1) = {}
           /\ IsFiniteSet(better) /\ IsFiniteSet(above(k + 1))
  <2> TAKE k \in 1 .. K
  <2>1. k \in 0 .. K
    BY <1>1
  <2> QED  BY <2>1, AboveSplits
<1>8. \A k \in 1 .. K : above(k) \subseteq tied[k] /\ e \notin above(k)
  <2> TAKE k \in 1 .. K
  <2>1. ASSUME NEW j \in k .. K PROVE ~ More(merit(j, e), merit(j, e))
    <3>1. j \in 0 .. K /\ j \in 0 .. K + 1
      BY <1>1
    <3>2. e \in tied[j] /\ tied[j] \in SUBSET block
      BY <1>2, <3>1
    <3>3. merit(j, e) \in Int \X Int
      BY <3>1, <3>2, MeritTyped
    <3> HIDE DEF merit
    <3> QED  BY <3>3 DEF More
  <2>2. ~ (e < e)
    BY DEF Given
  <2>3. above(k) = {d \in tied[k] : \/ \E j \in k .. K : d \in tied[j] /\ More(merit(j, d), merit(j, e))
                                    \/ d \in tied[K + 1] /\ d < e}
    BY DEF AboveFrom
  <2> HIDE DEF above, merit, K
  <2> QED  BY <2>1, <2>2, <2>3
<1> HIDE DEF merit, value, above, K, L
<1>9. ASSUME NEW n \in Nat, n \in T PROVE n + 1 \in T
  <2> SUFFICES ASSUME n + 1 <= K PROVE Counts(K + 1 - (n + 1))
    OBVIOUS
  <2> DEFINE k == K + 1 - (n + 1)
             better == {d \in tied[k] : More(merit(k, d), merit(k, e))}
  <2>1. k \in 1 .. K /\ k \in 1 .. K + 1 /\ k + 1 = K + 1 - n /\ k \in 0 .. K /\ k \in 0 .. K + 1 /\ k <= L
    BY <1>1
  <2> HIDE DEF k
  <2>2. placed[k + 1][tied[k + 1]][e] = 1 + Cardinality(above(k + 1))
    BY <1>1, <1>9, <2>1
  <2>3. Counts(k)
    <3>1. CASE Cardinality(tied[k]) <= 1
      <4>1. tied[k] = {e}
        <5>1. e \in tied[k] /\ IsFiniteSet(tied[k]) /\ Cardinality(tied[k]) \in Nat
          BY <1>2, <1>3, <2>1
        <5>2. IsFiniteSet(tied[k] \ {e}) /\ Cardinality(tied[k] \ {e}) = Cardinality(tied[k]) - 1
          BY <5>1, FS_RemoveElement
        <5>3. Cardinality(tied[k] \ {e}) \in Nat
          BY <5>2, FS_CardinalityType
        <5>4. Cardinality(tied[k] \ {e}) = 0
          BY <5>1, <5>2, <5>3, <3>1
        <5>5. tied[k] \ {e} = {}
          BY <5>2, <5>4, FS_EmptySet
        <5> QED  BY <5>1, <5>5
      <4>2. above(k) = {}
        BY <1>8, <2>1, <4>1
      <4>3. {d \in tied[k] : d < e} = {}
        <5>1. ~ (e < e)
          BY DEF Given
        <5> QED  BY <4>1, <5>1
      <4>4. placed[k][tied[k]][e] = 1 + Cardinality({d \in tied[k] : d < e})
        BY <1>4, <2>1, <3>1
      <4> QED  BY <4>2, <4>3, <4>4
    <3>2. CASE ~ (Cardinality(tied[k]) <= 1)
      <4>1. placed[k][tied[k]][e] = Cardinality({d \in tied[k] : value(k)[d] > value(k)[e]})
                                    + placed[k + 1][{d \in tied[k] : value(k)[d] = value(k)[e]}][e]
        <5>1. ~ (Cardinality(tied[k]) <= 1 \/ k > L \/ r.tiebreakers[k] = "sorteio")
          BY <1>1, <2>1, <3>2
        <5> QED  BY <1>4, <2>1, <5>1
      <4>2. {d \in tied[k] : value(k)[d] > value(k)[e]} = better
        BY <1>5, <2>1
      <4>3. {d \in tied[k] : value(k)[d] = value(k)[e]} = tied[k + 1]
        BY <1>2, <1>5, <2>1
      <4>4. Cardinality(above(k)) = Cardinality(better) + Cardinality(above(k + 1))
        <5>1. /\ above(k) = better \cup above(k + 1) /\ better \cap above(k + 1) = {}
              /\ IsFiniteSet(better) /\ IsFiniteSet(above(k + 1))
          BY <1>7, <2>1
        <5> HIDE DEF better
        <5>2. Cardinality({}) = 0
          BY FS_EmptySet
        <5>3. Cardinality(better \cup above(k + 1))
              = Cardinality(better) + Cardinality(above(k + 1)) - Cardinality(better \cap above(k + 1))
          BY <5>1, FS_Union
        <5>4. Cardinality(better) \in Nat /\ Cardinality(above(k + 1)) \in Nat
          BY <5>1, FS_CardinalityType
        <5>5. Cardinality(above(k)) = Cardinality(better \cup above(k + 1))
              /\ Cardinality(better \cap above(k + 1)) = 0
          BY <5>1, <5>2
        <5> QED  BY <5>3, <5>4, <5>5
      <4>5. Cardinality(better) \in Nat /\ Cardinality(above(k + 1)) \in Nat
        <5>1. IsFiniteSet(better) /\ IsFiniteSet(above(k + 1))
          BY <1>7, <2>1
        <5> QED  BY <5>1, FS_CardinalityType
      <4> HIDE DEF better
      <4>6. placed[k][tied[k]][e] = Cardinality(better) + placed[k + 1][tied[k + 1]][e]
        BY <4>1, <4>2, <4>3
      <4>7. placed[k][tied[k]][e] = Cardinality(better) + (1 + Cardinality(above(k + 1)))
        BY <2>2, <4>6
      <4> QED  BY <4>4, <4>5, <4>7
    <3> QED  BY <3>1, <3>2
  <2> QED  BY <2>3 DEF k
<1>10. K \in T
  <2> HIDE DEF T
  <2> QED  BY <1>1, <1>6, <1>9, CountUp
<1>11. Counts(1)
  <2>1. K + 1 - K = 1 /\ K <= K
    BY <1>1
  <2> QED  BY <1>10, <2>1
<1> QED  BY <1>11 DEF above

\* A row: the rank of the regulation, and what is counted.
RowOf(row, e, block, matches, r, res) ==
  row.rank = ReferenceRank(e, block, matches, r, res) /\ row.counts = Accumulate(block, matches, r, res)[e]

\* The rank of an entry in its block is the one of the regulation.
LEMMA RankIs ==
    ASSUME NEW block, IsFiniteSet(block), block \subseteq Nat, NEW matches, NEW r, NEW res, NEW margin,
           IsRule(r), Scored(matches, res, margin), NEW e \in block
    PROVE  RowOf(ComputeStandings(block, matches, r, res)[e], e, block, matches, r, res)
<1> DEFINE stats == Accumulate(block, matches, r, res)
           tied == TiedWith(e, block, stats, matches, r, res)
           merit(d) == Merit(0, d, tied[0], stats, matches, r, res)
           better == {d \in tied[0] : More(merit(d), merit(e))}
           rest == AboveFrom(1, e, tied, stats, matches, r, res)
           points == [d \in block |-> stats[d].points]
           inside == [t \in SUBSET block |-> RankBlock(t, matches, r, stats, r.tiebreakers, res)]
           rank == Behind(block, points, inside)
           row == ComputeStandings(block, matches, r, res)[e]
<1>1. row.rank = rank[e] /\ row.counts = stats[e]
  BY DEF ComputeStandings
<1>2. rank[e] = Cardinality({d \in block : points[d] > points[e]})
                + inside[{d \in block : points[d] = points[e]}][e]
  BY DEF Behind
<1> HIDE DEF row, rank
<1>3. Given(block, stats, matches, r, res, margin)
  BY AccumulateTyped DEF Given
<1>4. Len(Criteria(r)) \in Nat /\ Len(r.tiebreakers) \in Nat
  BY CriteriaAre
<1> HIDE DEF stats
<1>5. Tied(e, block, stats, matches, r, res, tied)
  BY <1>4, TiedWithIs
<1> HIDE DEF tied
<1>6. tied[0] = block /\ tied[1] = {d \in block : merit(d) = merit(e)} /\ tied[1] \subseteq block
  <2>1. 0 \in 0 .. Len(Criteria(r)) /\ 0 + 1 = 1 /\ 1 \in 0 .. Len(Criteria(r)) + 1
    BY <1>4
  <2>2. tied[0] = block /\ tied[1] \subseteq block
    BY <1>4, <1>5, <2>1, TiedShrinks
  <2>3. \A k \in 0 .. Len(Criteria(r)) :
          tied[k + 1] = {d \in tied[k] : Merit(k, d, tied[k], stats, matches, r, res)
                                         = Merit(k, e, tied[k], stats, matches, r, res)}
    BY <1>4, <1>5, TiedShrinks
  <2>4. tied[0 + 1] = {d \in tied[0] : merit(d) = merit(e)}
    BY <2>1, <2>3
  <2> QED  BY <2>1, <2>2, <2>4
<1>7. \A d \in block : merit(d) = <<stats[d].points, 0>> /\ points[d] = stats[d].points /\ points[d] \in Int
  BY <1>3 DEF Merit, Given, CountedRow
<1>8. {d \in block : points[d] > points[e]} = better
  <2> HIDE DEF merit, points
  <2>1. \A d \in block : points[d] > points[e] <=> More(merit(d), merit(e))
    BY <1>7 DEF More
  <2> QED  BY <1>6, <2>1
<1>9. {d \in block : points[d] = points[e]} = tied[1]
  <2> HIDE DEF merit, points
  <2>1. ASSUME NEW d \in block PROVE points[d] = points[e] <=> merit(d) = merit(e)
    <3>1. merit(d) = <<points[d], 0>> /\ merit(e) = <<points[e], 0>>
      BY <1>7
    <3> QED  BY <3>1
  <2> QED  BY <1>6, <2>1
<1>10. inside[tied[1]] = RankBlock(tied[1], matches, r, stats, r.tiebreakers, res)
  BY <1>6
<1>11. RankBlock(tied[1], matches, r, stats, r.tiebreakers, res)[e] = 1 + Cardinality(rest)
  <2>1. PICK placed : /\ Placed(tied[1], matches, r, stats, r.tiebreakers, res, placed)
                      /\ RankBlock(tied[1], matches, r, stats, r.tiebreakers, res) = placed[1][tied[1]]
    BY <1>4, RankBlockIs
  <2> QED  BY <1>3, <1>5, <2>1, PlaceCounts
<1>12. Above(e, block, stats, matches, r, res) = AboveFrom(0, e, tied, stats, matches, r, res)
  BY <1>6 DEF Above, AboveFrom, tied
<1>13. Cardinality(Above(e, block, stats, matches, r, res)) = Cardinality(better) + Cardinality(rest)
       /\ Cardinality(better) \in Nat /\ Cardinality(rest) \in Nat
  <2>1. 0 \in 0 .. Len(Criteria(r)) /\ 0 + 1 = 1
    BY <1>4
  <2>2. /\ AboveFrom(0, e, tied, stats, matches, r, res) = better \cup rest
        /\ better \cap rest = {} /\ IsFiniteSet(better) /\ IsFiniteSet(rest)
    <3>1. rest = AboveFrom(0 + 1, e, tied, stats, matches, r, res)
      BY <2>1
    <3> HIDE DEF rest
    <3> QED  BY <1>3, <1>5, <2>1, <3>1, AboveSplits
  <2> HIDE DEF better, rest
  <2>3. Cardinality(better \cup rest) = Cardinality(better) + Cardinality(rest) - Cardinality(better \cap rest)
    BY <2>2, FS_Union
  <2>4. Cardinality(better) \in Nat /\ Cardinality(rest) \in Nat
    BY <2>2, FS_CardinalityType
  <2>5. Cardinality(better \cap rest) = 0
    BY <2>2, FS_EmptySet
  <2>6. Cardinality(Above(e, block, stats, matches, r, res)) = Cardinality(better \cup rest)
    BY <1>12, <2>2
  <2> QED  BY <2>3, <2>4, <2>5, <2>6
<1>14. ReferenceRank(e, block, matches, r, res) = 1 + Cardinality(Above(e, block, stats, matches, r, res))
  BY DEF ReferenceRank, stats
<1> HIDE DEF better, rest, inside, points
<1>15. rank[e] = Cardinality(better) + (1 + Cardinality(rest))
  BY <1>2, <1>8, <1>9, <1>10, <1>11
<1>16. row.rank = ReferenceRank(e, block, matches, r, res)
  BY <1>1, <1>13, <1>14, <1>15
<1> QED  BY <1>1, <1>16 DEF RowOf, row, stats

-----------------------------------------------------------------------------
(* THE STORED TABLE *)

\* Results of matches of the phase, as its sheets may write them.
Recorded(res) == DOMAIN res \subseteq layout.matches /\ \A f \in DOMAIN res : res[f] \in layout.outcomes[f]

\* Somebody won.
Drawless(res) == \A f \in DOMAIN res : res[f].winner # Nobody

\* The inductive invariant: the table is that of the last recount, which counted all results.
StandingsInv ==
  /\ layout \in Layouts /\ config \in layout.configs
  /\ Recorded(results) /\ (config.discipline \in Decisive => Drawless(results))
  /\ counted.results = results /\ IsRule(counted.rule)
  /\ table = TableOf(counted.rule, counted.results)

\* Three criteria are a list.
LEMMA ListOfThree ==
    ASSUME NEW S, NEW a \in S, NEW b \in S, NEW c \in S
    PROVE  <<a, b, c>> \in Seq(S)
  OBVIOUS

\* Five criteria are a list.
LEMMA ListOfFive ==
    ASSUME NEW S, NEW a \in S, NEW b \in S, NEW c \in S, NEW d \in S, NEW e \in S
    PROVE  <<a, b, c, d, e>> \in Seq(S)
  OBVIOUS

\* Six criteria are a list.
LEMMA ListOfSix ==
    ASSUME NEW S, NEW a \in S, NEW b \in S, NEW c \in S, NEW d \in S, NEW e \in S, NEW f \in S
    PROVE  <<a, b, c, d, e, f>> \in Seq(S)
  OBVIOUS

\* Every regulation counts in numbers and lists its criteria.
LEMMA RegulationIsRule ==
    ASSUME layout \in Layouts, config \in layout.configs
    PROVE  IsRule(ResolveActionRegulation(config))
<1>1. \A r \in config.standings : IsRule(r)
  BY LayoutAssumption DEF LayoutAssumption, IsRule
<1> DEFINE S == Tiebreakers
<1>2. Collective \in Seq(S)
  BY ListOfSix DEF Collective, Tiebreakers
<1>3. \A d \in DOMAIN Defaults : IsRule(Defaults[d])
  <2>1. /\ <<"confronto-direto", "saldo", "marcados", "fair-play", "sorteio">> \in Seq(S)
        /\ <<"confronto-direto", "vitorias", "saldo", "marcados", "sorteio">> \in Seq(S)
    BY ListOfFive DEF Tiebreakers
  <2>2. <<"confronto-direto", "vitorias", "sorteio">> \in Seq(S) /\ <<"vitorias", "marcados", "sorteio">> \in Seq(S)
    BY ListOfThree DEF Tiebreakers
  <2>3. \A w, d, l \in Nat : \A t \in Seq(S) : IsRule(Rule(w, d, l, t))
    BY DEF Rule, IsRule
  <2> HIDE DEF S
  <2>4. IsRule(Rule(6, 2, 0, Collective))
    BY <1>2, <2>3
  <2>5. IsRule(Rule(4, 0, 2, <<"confronto-direto", "saldo", "marcados", "fair-play", "sorteio">>))
    BY <2>1, <2>3
  <2>6. IsRule(Rule(6, 0, 0, <<"confronto-direto", "vitorias", "saldo", "marcados", "sorteio">>))
    BY <2>1, <2>3
  <2>7. IsRule(Rule(2, 1, 0, <<"confronto-direto", "vitorias", "sorteio">>))
    BY <2>2, <2>3
  <2>8. IsRule(Rule(6, 2, 0, <<"vitorias", "marcados", "sorteio">>))
    BY <2>2, <2>3
  <2> QED  BY <2>4, <2>5, <2>6, <2>7, <2>8 DEF Defaults
<1>4. IsRule(Generic)
  BY <1>2 DEF Generic, Rule, IsRule
<1> QED  BY <1>1, <1>3, <1>4 DEF ResolveActionRegulation

\* The matches that count in a block are scored.
LEMMA BlockScored ==
    ASSUME layout \in Layouts, NEW res, Recorded(res), NEW block
    PROVE  \E margin : Scored(BlockMatches(block, res), res, margin)
<1> DEFINE matches == BlockMatches(block, res)
<1>1. matches \subseteq DOMAIN res /\ matches \subseteq layout.matches
  BY DEF BlockMatches, MatchesOf, Recorded
<1>2. IsFiniteSet(layout.matches)
  BY LayoutAssumption DEF LayoutAssumption
<1>3. PICK margin \in 0 .. 250 :
        /\ \A f \in layout.matches : \A o \in layout.outcomes[f] : o.scoreA - o.scoreB \in -margin .. margin
        /\ \A e \in UNION {{f.home, f.away} : f \in layout.matches} :
              2 * margin * Cardinality({f \in layout.matches : e \in {f.home, f.away}}) < 500
  BY MarginAssumption DEF MarginAssumption
<1> HIDE DEF matches
<1>4. IsFiniteSet(matches)
  BY <1>1, <1>2, FS_Subset
<1>5. \A f \in matches :
        /\ {res[f].scoreA, res[f].scoreB, res[f].cardsA, res[f].cardsB} \subseteq Nat
        /\ res[f].scoreA - res[f].scoreB \in -margin .. margin
  <2> TAKE f \in matches
  <2>1. f \in layout.matches /\ res[f] \in layout.outcomes[f]
    BY <1>1 DEF Recorded
  <2>2. \A o \in layout.outcomes[f] : {o.scoreA, o.scoreB, o.cardsA, o.cardsB} \subseteq Nat
    BY <2>1, LayoutAssumption DEF LayoutAssumption
  <2> QED  BY <1>3, <2>1, <2>2
<1>6. \A e : 2 * margin * Cardinality(MatchesWith(e, matches)) < 500
  <2> TAKE e
  <2> DEFINE all == {f \in layout.matches : e \in {f.home, f.away}}
  <2>1. MatchesWith(e, matches) \subseteq all /\ IsFiniteSet(all)
    BY <1>1, <1>2, FS_Subset DEF MatchesWith
  <2>2. CASE all = {}
    <3>1. MatchesWith(e, matches) = {}
      BY <2>1, <2>2
    <3>2. Cardinality(MatchesWith(e, matches)) = 0
      BY <3>1, FS_EmptySet
    <3> QED  BY <3>2
  <2>3. CASE all # {}
    <3>1. 2 * margin * Cardinality(all) < 500
      BY <1>3, <2>3
    <3> DEFINE n == Cardinality(MatchesWith(e, matches))
               c == Cardinality(all)
    <3>2. n \in Nat /\ c \in Nat /\ n <= c
      <4> HIDE DEF all
      <4>1. IsFiniteSet(MatchesWith(e, matches))
        BY <2>1, FS_Subset
      <4> QED  BY <2>1, <4>1, FS_Subset, FS_CardinalityType
    <3>3. 2 * margin * c < 500
      BY <3>1
    <3> HIDE DEF n, c
    <3>4. margin * n <= margin * c /\ margin * n \in Nat /\ margin * c \in Nat
      BY <3>2, TimesLess
    <3>5. 2 * margin * n = 2 * (margin * n) /\ 2 * margin * c = 2 * (margin * c)
      BY <3>2
    <3>6. 2 * margin * n < 500
      BY <3>3, <3>4, <3>5
    <3> QED  BY <3>6 DEF n
  <2> QED  BY <2>2, <2>3
<1>7. margin \in Nat
  OBVIOUS
<1> QED  BY <1>4, <1>5, <1>6, <1>7 DEF Scored, matches

\* Blocks are finite and share no entry.
LEMMA BlocksAre ==
    ASSUME layout \in Layouts
    PROVE  /\ \A block \in Blocks : IsFiniteSet(block) /\ block \subseteq Nat \ {Nobody}
           /\ \A b, c \in Blocks : b \cap c # {} => b = c
<1>1. \A group \in Range(layout.groups) \cup {layout.entries} :
         group \subseteq Nat \ {Nobody} /\ IsFiniteSet(group)
  BY LayoutAssumption DEF LayoutAssumption
<1>2. \A g, h \in DOMAIN layout.groups : g # h => layout.groups[g] \cap layout.groups[h] = {}
  BY LayoutAssumption DEF LayoutAssumption
<1>3. \A block \in Blocks : block \in Range(layout.groups) \cup {layout.entries}
  BY DEF Blocks
<1>4. \A b, c \in Blocks : b \cap c # {} => b = c
  BY <1>2 DEF Blocks, Range
<1> QED  BY <1>1, <1>3, <1>4

\* The row of an entry is that of its block.
LEMMA TableOfAt ==
    ASSUME layout \in Layouts, NEW r, NEW res, NEW block \in Blocks, NEW e \in block
    PROVE  TableOf(r, res)[e] = ComputeStandings(block, BlockMatches(block, res), r, res)[e]
<1>1. (CHOOSE b \in Blocks : e \in b) = block
  BY BlocksAre
<1>2. e \in UNION Blocks
  OBVIOUS
<1> QED  BY <1>1, <1>2 DEF TableOf

\* A phase starts with a table that counts nothing.
LEMMA StandingsStart == StandingsInit => StandingsInv
<1> SUFFICES ASSUME StandingsInit PROVE StandingsInv
  OBVIOUS
<1>1. layout \in Layouts /\ config \in layout.configs
  BY DEF StandingsInit
<1>2. results = << >> /\ counted = [results |-> results, rule |-> ResolveActionRegulation(config)]
      /\ table = TableOf(counted.rule, results)
  BY DEF StandingsInit
<1>3. DOMAIN results = {}
  BY <1>2
<1> QED  BY <1>1, <1>2, <1>3, RegulationIsRule DEF StandingsInv, Recorded, Drawless

\* A step that leaves phase, results and table alone keeps the invariant.
LEMMA Untouched ==
    ASSUME StandingsInv, layout' = layout, config' \in layout.configs,
           config'.discipline = config.discipline,
           results' = results, table' = table, counted' = counted
    PROVE  StandingsInv'
<1>1. TableOf(counted.rule, counted.results)' = TableOf(counted.rule, counted.results)
  BY DEF TableOf, Blocks, BlockMatches, MatchesOf, Grouped
<1>2. Recorded(results)' /\ Drawless(results)' = Drawless(results)
  BY DEF StandingsInv, Recorded, Drawless
<1> QED  BY <1>1, <1>2 DEF StandingsInv

\* Every step ends with the table of the last recount.
LEMMA StandingsKept == StandingsInv /\ [StandingsNext]_standingsVars => StandingsInv'
<1> SUFFICES ASSUME StandingsInv, [StandingsNext]_standingsVars PROVE StandingsInv'
  OBVIOUS
<1> USE DEF StandingsInv
<1>1. ASSUME NEW f \in layout.matches, NEW outcome \in layout.outcomes[f], RecordResult(f, outcome)
      PROVE  StandingsInv'
  <2>1. layout' = layout /\ config' = config
    BY <1>1 DEF RecordResult
  <2>2. results' = [g \in DOMAIN results \cup {f} |-> IF g = f THEN outcome ELSE results[g]]
    BY <1>1 DEF RecordResult
  <2>3. counted' = [results |-> results', rule |-> ResolveActionRegulation(config)]
        /\ table' = TableOf(counted'.rule, results')
    BY <1>1 DEF RecordResult, Recount
  <2>4. Recorded(results)'
    BY <2>1, <2>2 DEF Recorded
  <2>5. IsRule(counted'.rule)
    BY <2>3, RegulationIsRule
  <2>6. counted'.results = results'
    BY <2>3
  <2>7. table' = TableOf(counted.rule, counted.results)'
    BY <2>1, <2>3, <2>6 DEF TableOf, Blocks, BlockMatches, MatchesOf, Grouped
  <2>8. config.discipline \in Decisive => Drawless(results)'
    BY <1>1, <2>2 DEF RecordResult, Drawless
  <2> QED  BY <2>1, <2>4, <2>5, <2>6, <2>7, <2>8
<1>2. ASSUME NEW c \in layout.configs, RulesUpdate(c) PROVE StandingsInv'
  <2>1. /\ layout' = layout /\ config' = c /\ c.discipline = config.discipline
        /\ results' = results /\ table' = table /\ counted' = counted
    BY <1>2 DEF RulesUpdate
  <2> QED  BY <2>1, Untouched
<1>3. CASE UNCHANGED standingsVars
  <2>1. layout' = layout /\ config' = config /\ results' = results /\ table' = table /\ counted' = counted
    BY <1>3 DEF standingsVars
  <2> QED  BY <2>1, Untouched
<1> QED  BY <1>1, <1>2, <1>3 DEF StandingsNext

\* The stored table is always that of the last recount.
LEMMA StandingsHold == StandingsSpec => []StandingsInv
<1> QED  BY StandingsStart, StandingsKept, PTL DEF StandingsSpec

\* The order of the regulation: bucket by bucket, the recount arrives at
\* what pairwise comparison by points and criteria says, in every state.
THEOREM RankedByTheRegulationHolds == StandingsSpec => []RankedByTheRegulation
<1>1. StandingsInv => RankedByTheRegulation
  <2> SUFFICES ASSUME StandingsInv, NEW block \in Blocks, NEW e \in block
               PROVE  table[e].rank = ReferenceRank(e, block, BlockMatches(block, counted.results),
                                                    counted.rule, counted.results)
    BY DEF RankedByTheRegulation
  <2> DEFINE r == counted.rule
             res == counted.results
             matches == BlockMatches(block, res)
  <2>1. layout \in Layouts /\ Recorded(res) /\ IsRule(r) /\ table = TableOf(r, res)
    BY DEF StandingsInv
  <2> HIDE DEF r, res
  <2>2. table[e] = ComputeStandings(block, matches, r, res)[e]
    BY <2>1, TableOfAt
  <2>3. IsFiniteSet(block) /\ block \subseteq Nat
    BY <2>1, BlocksAre
  <2>4. PICK margin : Scored(matches, res, margin)
    BY <2>1, BlockScored
  <2> HIDE DEF matches
  <2>5. ComputeStandings(block, matches, r, res)[e].rank = ReferenceRank(e, block, matches, r, res)
    <3>1. IsRule(r) /\ IsFiniteSet(block) /\ block \subseteq Nat /\ Scored(matches, res, margin)
      BY <2>1, <2>3, <2>4
    <3>2. RowOf(ComputeStandings(block, matches, r, res)[e], e, block, matches, r, res)
      BY <3>1, RankIs
    <3> QED  BY <3>2 DEF RowOf
  <2> QED  BY <2>2, <2>5 DEF matches, r, res
<1> QED  BY <1>1, StandingsHold, PTL

-----------------------------------------------------------------------------
(* LISTS *)

\* A strict total order, and a list of a set in it.
Orders(S, R) ==
  /\ \A x \in S : <<x, x>> \notin R
  /\ \A x, y, z \in S : <<x, y>> \in R /\ <<y, z>> \in R => <<x, z>> \in R
  /\ \A x, y \in S : x # y => <<x, y>> \in R \/ <<y, x>> \in R

ListOf(S, R, n, f) ==
  /\ f \in [1 .. n -> S]
  /\ \A i, j \in 1 .. n : i < j => <<f[i], f[j]>> \in R
  /\ \A x \in S : \E i \in 1 .. n : f[i] = x

Below(S, R, x) == {y \in S : <<y, x>> \in R}

\* How many are below an element tells it apart from all others.
LEMMA BelowGrows ==
    ASSUME NEW S, IsFiniteSet(S), NEW R, Orders(S, R)
    PROVE  /\ \A x \in S : Cardinality(Below(S, R, x)) \in 0 .. Cardinality(S) - 1
           /\ \A x, y \in S : <<x, y>> \in R => Cardinality(Below(S, R, x)) < Cardinality(Below(S, R, y))
           /\ \A x, y \in S : Cardinality(Below(S, R, x)) = Cardinality(Below(S, R, y)) => x = y
<1>1. \A x \in S : IsFiniteSet(Below(S, R, x)) /\ Cardinality(Below(S, R, x)) \in Nat /\ Below(S, R, x) \subseteq S
  BY FS_Subset, FS_CardinalityType DEF Below
<1>2. \A x \in S : Cardinality(Below(S, R, x)) \in 0 .. Cardinality(S) - 1
  <2> TAKE x \in S
  <2>1. Below(S, R, x) \in SUBSET (S \ {x})
    BY DEF Below, Orders
  <2>2. IsFiniteSet(S \ {x}) /\ Cardinality(S \ {x}) = Cardinality(S) - 1
    BY FS_RemoveElement
  <2>3. Cardinality(Below(S, R, x)) <= Cardinality(S \ {x})
    BY <2>1, <2>2, FS_Subset
  <2>4. Cardinality(S) \in Nat
    BY FS_CardinalityType
  <2> QED  BY <1>1, <2>2, <2>3, <2>4
<1>3. ASSUME NEW x \in S, NEW y \in S, <<x, y>> \in R
      PROVE  Cardinality(Below(S, R, x)) < Cardinality(Below(S, R, y))
  <2>1. Below(S, R, x) \cup {x} \in SUBSET Below(S, R, y)
    BY <1>3 DEF Below, Orders
  <2>2. x \notin Below(S, R, x)
    BY DEF Below, Orders
  <2>3. Cardinality(Below(S, R, x) \cup {x}) = Cardinality(Below(S, R, x)) + 1
    BY <1>1, <2>2, FS_AddElement
  <2>4. Cardinality(Below(S, R, x) \cup {x}) <= Cardinality(Below(S, R, y))
    BY <1>1, <2>1, FS_Subset
  <2> QED  BY <1>1, <2>3, <2>4
<1>4. ASSUME NEW x \in S, NEW y \in S, Cardinality(Below(S, R, x)) = Cardinality(Below(S, R, y)), x # y
      PROVE  FALSE
  <2>1. <<x, y>> \in R \/ <<y, x>> \in R
    BY <1>4 DEF Orders
  <2>2. Cardinality(Below(S, R, x)) \in Nat /\ Cardinality(Below(S, R, y)) \in Nat
    BY <1>1
  <2> QED  BY <1>3, <1>4, <2>1, <2>2
<1> QED  BY <1>2, <1>3, <1>4

\* A finite set in a strict total order is a list of its elements.
LEMMA InOrderLists ==
    ASSUME NEW S, IsFiniteSet(S), NEW R, Orders(S, R)
    PROVE  ListOf(S, R, Cardinality(S), InOrder(S, R))
<1> DEFINE c == Cardinality(S)
           below(x) == Cardinality(Below(S, R, x))
           h == [x \in S |-> below(x)]
           f == InOrder(S, R)
<1>1. c \in Nat /\ IsFiniteSet(0 .. c - 1) /\ Cardinality(0 .. c - 1) = c
  <2>1. c \in Nat
    BY FS_CardinalityType
  <2> QED  BY <2>1, FS_Interval
<1>2. /\ \A x \in S : below(x) \in 0 .. c - 1
      /\ \A x, y \in S : <<x, y>> \in R => below(x) < below(y)
      /\ \A x, y \in S : below(x) = below(y) => x = y
  BY BelowGrows
<1>3. f = [i \in 1 .. c |-> CHOOSE x \in S : below(x) = i - 1]
  BY DEF InOrder, Below
<1> HIDE DEF below, c, f
<1>4. h \in Injection(S, 0 .. c - 1)
  BY <1>2 DEF Injection, IsInjective
<1>5. h \in Surjection(S, 0 .. c - 1)
  <2> HIDE DEF h
  <2> QED  BY <1>1, <1>4, FS_Injection DEF c
<1>6. \A k \in 0 .. c - 1 : \E x \in S : below(x) = k
  BY <1>5 DEF Surjection
<1>7. \A i \in 1 .. c : f[i] \in S /\ below(f[i]) = i - 1
  <2> TAKE i \in 1 .. c
  <2>1. i - 1 \in 0 .. c - 1
    BY <1>1
  <2>2. \E x \in S : below(x) = i - 1
    BY <1>6, <2>1
  <2>3. f[i] = CHOOSE x \in S : below(x) = i - 1
    BY <1>3
  <2> QED  BY <2>2, <2>3
<1>8. \A i, j \in 1 .. c : i < j => <<f[i], f[j]>> \in R
  <2> TAKE i, j \in 1 .. c
  <2> SUFFICES ASSUME i < j PROVE <<f[i], f[j]>> \in R
    OBVIOUS
  <2>1. f[i] \in S /\ f[j] \in S /\ below(f[i]) = i - 1 /\ below(f[j]) = j - 1
    BY <1>7
  <2>2. f[i] # f[j] /\ ~ (below(f[j]) < below(f[i]))
    BY <2>1
  <2>3. <<f[j], f[i]>> \notin R
    BY <1>2, <2>1, <2>2
  <2> QED  BY <2>1, <2>2, <2>3 DEF Orders
<1>9. ASSUME NEW x \in S PROVE \E i \in 1 .. c : f[i] = x
  <2>1. below(x) + 1 \in 1 .. c /\ (below(x) + 1) - 1 = below(x)
    BY <1>1, <1>2
  <2>2. f[below(x) + 1] \in S /\ below(f[below(x) + 1]) = below(x)
    BY <1>7, <2>1
  <2>3. f[below(x) + 1] = x
    BY <1>2, <2>2
  <2> QED  BY <2>1, <2>3
<1>10. f \in [1 .. c -> S]
  BY <1>3, <1>7
<1> QED  BY <1>8, <1>9, <1>10 DEF ListOf, c, f

\* It is the only one.
LEMMA ListedOnce ==
    ASSUME NEW S, IsFiniteSet(S), NEW R, Orders(S, R), NEW n \in Nat, NEW g, ListOf(S, R, n, g)
    PROVE  n = Cardinality(S) /\ InOrder(S, R) = g
<1>1. g \in [1 .. n -> S]
      /\ (\A i, j \in 1 .. n : i < j => <<g[i], g[j]>> \in R)
      /\ (\A x \in S : \E i \in 1 .. n : g[i] = x)
  BY DEF ListOf
<1>2. \A i, j \in 1 .. n : g[i] = g[j] => i = j
  <2> SUFFICES ASSUME NEW i \in 1 .. n, NEW j \in 1 .. n, g[i] = g[j], i # j PROVE FALSE
    OBVIOUS
  <2>1. i < j \/ j < i
    OBVIOUS
  <2>2. <<g[i], g[i]>> \in R
    BY <1>1, <2>1
  <2> QED  BY <1>1, <2>2 DEF Orders
<1>3. n = Cardinality(S)
  <2>1. g \in Surjection(1 .. n, S) /\ g \in Injection(1 .. n, S)
    BY <1>1, <1>2 DEF Surjection, Injection, IsInjective
  <2>2. IsFiniteSet(1 .. n) /\ Cardinality(1 .. n) = n
    BY FS_Interval
  <2> QED  BY <2>1, <2>2, FS_Surjection
<1>4. ASSUME NEW i \in 1 .. n PROVE Cardinality(Below(S, R, g[i])) = i - 1
  <2> DEFINE B == Below(S, R, g[i])
             h == [j \in 1 .. i - 1 |-> g[j]]
  <2>1. \A j \in 1 .. n : g[j] \in B <=> j < i
    <3> TAKE j \in 1 .. n
    <3>1. CASE j < i
      BY <1>1, <3>1 DEF Below
    <3>2. CASE j = i
      BY <1>1, <3>2 DEF Below, Orders
    <3>3. CASE i < j
      <4>1. <<g[i], g[j]>> \in R /\ g[i] \in S /\ g[j] \in S
        BY <1>1, <3>3
      <4>2. <<g[j], g[i]>> \notin R
        BY <4>1 DEF Orders
      <4> QED  BY <3>3, <4>2 DEF Below
    <3> QED  BY <3>1, <3>2, <3>3
  <2>2. B \subseteq S
    BY DEF Below
  <2> HIDE DEF B
  <2>3. \A x \in B : \E j \in 1 .. i - 1 : h[j] = x
    <3> TAKE x \in B
    <3>1. PICK j \in 1 .. n : g[j] = x
      BY <1>1, <2>2
    <3>2. j \in 1 .. i - 1
      BY <2>1, <3>1
    <3> QED  BY <3>1, <3>2
  <2>4. \A j \in 1 .. i - 1 : j \in 1 .. n /\ h[j] = g[j] /\ h[j] \in B
    BY <2>1
  <2>5. h \in Surjection(1 .. i - 1, B) /\ h \in Injection(1 .. i - 1, B)
    <3>1. h \in [1 .. i - 1 -> B]
      BY <2>4
    <3>2. \A j, k \in 1 .. i - 1 : h[j] = h[k] => j = k
      BY <1>2, <2>4
    <3> HIDE DEF h
    <3> QED  BY <2>3, <3>1, <3>2 DEF Surjection, Injection, IsInjective
  <2>6. IsFiniteSet(1 .. i - 1) /\ Cardinality(1 .. i - 1) = i - 1
    BY FS_Interval
  <2> HIDE DEF h
  <2>7. Cardinality(B) = i - 1
    BY <2>5, <2>6, FS_Surjection
  <2> QED  BY <2>7 DEF B
<1>5. \A i \in 1 .. n : InOrder(S, R)[i] = g[i]
  <2> TAKE i \in 1 .. n
  <2>1. InOrder(S, R)[i] = CHOOSE x \in S : Cardinality(Below(S, R, x)) = i - 1
    BY <1>3 DEF InOrder, Below
  <2>2. g[i] \in S /\ Cardinality(Below(S, R, g[i])) = i - 1
    BY <1>1, <1>4
  <2>3. \A x \in S : Cardinality(Below(S, R, x)) = i - 1 => x = g[i]
    BY <2>2, BelowGrows
  <2> QED  BY <2>1, <2>2, <2>3
<1>6. InOrder(S, R) = [i \in 1 .. n |-> InOrder(S, R)[i]]
  <2> DEFINE F(i) == CHOOSE x \in S : Cardinality({y \in S : <<y, x>> \in R}) = i - 1
  <2>1. InOrder(S, R) = [i \in 1 .. n |-> F(i)]
    BY <1>3 DEF InOrder
  <2> HIDE DEF F
  <2> QED  BY <2>1
<1>7. InOrder(S, R) = g
  BY <1>1, <1>5, <1>6
<1> QED  BY <1>3, <1>7


-----------------------------------------------------------------------------
(* THE PUBLISHED KEY *)

\* The order of the places of a list.
Upwards(S) == {p \in S \X S : p[1] < p[2]}

\* The places of a list are in a strict total order.
LEMMA UpwardsOrders ==
    ASSUME NEW S, S \subseteq Nat
    PROVE  Orders(S, Upwards(S))
<1>1. \A x, y \in S : <<x, y>> \in Upwards(S) <=> x < y
  BY DEF Upwards
<1>2. \A x \in S : <<x, x>> \notin Upwards(S)
  BY <1>1
<1>3. \A x, y, z \in S : <<x, y>> \in Upwards(S) /\ <<y, z>> \in Upwards(S) => <<x, z>> \in Upwards(S)
  BY <1>1
<1>4. \A x, y \in S : x # y => <<x, y>> \in Upwards(S) \/ <<y, x>> \in Upwards(S)
  BY <1>1
<1> QED  BY <1>2, <1>3, <1>4 DEF Orders

Filled(list, n) == {i \in 1 .. n : list[i] # Nobody}

\* A list without its gaps, place by place.
LEMMA PresentIs ==
    ASSUME NEW n \in Nat, NEW list, DOMAIN list = 1 .. n,
           NEW c \in Nat, NEW g, ListOf(Filled(list, n), Upwards(Filled(list, n)), c, g)
    PROVE  Present(list) = [i \in 1 .. c |-> list[g[i]]]
<1> DEFINE F == Filled(list, n)
<1>1. F \subseteq Nat /\ IsFiniteSet(F)
  <2>1. F \in SUBSET (1 .. n) /\ IsFiniteSet(1 .. n)
    BY FS_Interval DEF Filled
  <2> QED  BY <2>1, FS_Subset
<1>2. InOrder(F, Upwards(F)) = g
  <2> HIDE DEF F
  <2>1. Orders(F, Upwards(F))
    BY <1>1, UpwardsOrders
  <2>2. ListOf(F, Upwards(F), c, g)
    BY DEF F
  <2> QED  BY <1>1, <2>1, <2>2, ListedOnce
<1>3. DOMAIN g = 1 .. c
  BY DEF ListOf
<1>4. {i \in DOMAIN list : list[i] # Nobody} = F
  BY DEF Filled
<1>5. Present(list) = [i \in DOMAIN InOrder(F, Upwards(F)) |-> list[InOrder(F, Upwards(F))[i]]]
  BY <1>4, Zenon DEF Present, Upwards
<1> QED  BY <1>2, <1>3, <1>5, Zenon

\* w is the list a, then u up to the place b, with gaps from there on.
Extended(w, a, n, u, m, b) ==
  /\ DOMAIN w = 1 .. n + b
  /\ \A i \in 1 .. n : w[i] = a[i]
  /\ \A i \in 1 .. b : w[n + i] = IF i <= m THEN u[i] ELSE Nobody

\* Without their gaps, the list w is the list a and then the first k of u.
Continued(a, n, u, w, k) ==
  \E c \in Nat : \E head \in [1 .. c -> {a[i] : i \in 1 .. n}] :
     /\ Present(a) = head
     /\ Present(w) = [i \in 1 .. c + k |-> IF i <= c THEN head[i] ELSE u[i - c]]

\* Gaps left out, a list of labels that ends in one without gaps is the
\* list of the first ones followed by as many of the last as there are.
LEMMA PresentExtended ==
    ASSUME NEW n \in Nat, NEW m \in Nat, NEW b \in Nat, NEW a, DOMAIN a = 1 .. n,
           NEW u, \A i \in 1 .. m : u[i] # Nobody, NEW w, Extended(w, a, n, u, m, b),
           NEW k \in Nat, k = IF b <= m THEN b ELSE m
    PROVE  Continued(a, n, u, w, k)
<1> DEFINE A == Filled(a, n)
           W == Filled(w, n + b)
           c == Cardinality(A)
           index == InOrder(A, Upwards(A))
           g == [i \in 1 .. c + k |-> IF i <= c THEN index[i] ELSE n + (i - c)]
           head == [i \in 1 .. c |-> a[index[i]]]
<1>1. IsFiniteSet(A) /\ A \subseteq Nat
  <2>1. A \in SUBSET (1 .. n) /\ IsFiniteSet(1 .. n)
    BY FS_Interval DEF Filled
  <2> QED  BY <2>1, FS_Subset
<1>2. c \in Nat
  BY <1>1, FS_CardinalityType
<1>3. ListOf(A, Upwards(A), c, index)
  <2>1. Orders(A, Upwards(A))
    BY <1>1, UpwardsOrders
  <2> QED  BY <1>1, <2>1, InOrderLists
<1>4. Present(a) = head
  BY <1>2, <1>3, PresentIs
<1>5. /\ \A i \in 1 .. c : index[i] \in 1 .. n /\ a[index[i]] # Nobody
      /\ \A i, j \in 1 .. c : i < j => index[i] < index[j]
      /\ \A x \in 1 .. n : a[x] # Nobody => \E i \in 1 .. c : index[i] = x
  <2> HIDE DEF c, index
  <2>1. \A i \in 1 .. c : index[i] \in A
    BY <1>3 DEF ListOf
  <2>2. \A i, j \in 1 .. c : i < j => index[i] < index[j]
    BY <1>3, <2>1 DEF ListOf, Upwards
  <2>3. \A x \in A : \E i \in 1 .. c : index[i] = x
    BY <1>3 DEF ListOf
  <2> QED  BY <2>1, <2>2, <2>3 DEF Filled
<1> HIDE DEF c, index, A
<1>6. /\ DOMAIN w = 1 .. n + b
      /\ \A i \in 1 .. n : w[i] = a[i]
      /\ \A i \in 1 .. b : w[n + i] = IF i <= m THEN u[i] ELSE Nobody
  BY DEF Extended
<1>7. ASSUME NEW i \in 1 .. c + k
      PROVE  /\ g[i] \in 1 .. n + b /\ w[g[i]] # Nobody
             /\ w[g[i]] = IF i <= c THEN head[i] ELSE u[i - c]
             /\ i <= c => g[i] = index[i] /\ g[i] <= n
             /\ i > c => g[i] = n + (i - c)
  <2>1. CASE i <= c
    <3>1. i \in 1 .. c /\ g[i] = index[i] /\ head[i] = a[index[i]]
      BY <1>2, <2>1
    <3>2. index[i] \in 1 .. n /\ a[index[i]] # Nobody /\ w[index[i]] = a[index[i]]
      BY <1>5, <1>6, <3>1
    <3> HIDE DEF g, head
    <3> QED  BY <1>2, <2>1, <3>1, <3>2
  <2>2. CASE i > c
    <3>1. i - c \in 1 .. k /\ g[i] = n + (i - c)
      BY <1>2, <2>2
    <3> DEFINE j == i - c
    <3>2. j \in 1 .. b /\ j \in 1 .. m /\ j <= m
      BY <3>1
    <3> HIDE DEF j
    <3>3. w[n + j] = u[j] /\ u[j] # Nobody
      BY <1>6, <3>2
    <3>4. n + j \in 1 .. n + b
      BY <3>2
    <3>5. g[i] = n + j /\ w[g[i]] = u[j] /\ u[j] = u[i - c]
      BY <3>1, <3>3 DEF j
    <3> HIDE DEF g, head
    <3>6. ~ (i <= c)
      BY <1>2, <2>2
    <3> QED  BY <3>1, <3>3, <3>4, <3>5, <3>6
  <2> QED  BY <1>2, <2>1, <2>2
<1>8. DOMAIN g = 1 .. c + k
  OBVIOUS
<1>9. ListOf(W, Upwards(W), c + k, g)
  <2>1. \A i \in 1 .. c + k : g[i] \in W
    <3> HIDE DEF g
    <3> QED  BY <1>7 DEF Filled
  <2>2. g \in [1 .. c + k -> W]
    <3> HIDE DEF W
    <3> QED  BY <2>1
  <2>3. \A i, j \in 1 .. c + k : i < j => g[i] < g[j]
    <3> HIDE DEF g, head
    <3> TAKE i, j \in 1 .. c + k
    <3> SUFFICES ASSUME i < j PROVE g[i] < g[j]
      OBVIOUS
    <3>1. CASE j <= c
      <4>1. i \in 1 .. c /\ j \in 1 .. c /\ g[i] = index[i] /\ g[j] = index[j]
        BY <1>2, <1>7, <3>1
      <4> QED  BY <1>5, <4>1
    <3>2. CASE i <= c /\ j > c
      BY <1>2, <1>7, <3>2
    <3>3. CASE i > c
      <4>1. j > c
        BY <1>2, <3>3
      <4> QED  BY <1>2, <1>7, <3>3, <4>1
    <3> QED  BY <1>2, <3>1, <3>2, <3>3
  <2>4. \A i, j \in 1 .. c + k : i < j => <<g[i], g[j]>> \in Upwards(W)
    <3> HIDE DEF g, W
    <3> QED  BY <2>1, <2>3 DEF Upwards
  <2>5. ASSUME NEW x \in W PROVE \E i \in 1 .. c + k : g[i] = x
    <3> HIDE DEF head
    <3>1. x \in 1 .. n + b /\ w[x] # Nobody
      BY DEF Filled
    <3>2. CASE x <= n
      <4>1. PICK i \in 1 .. c : index[i] = x
        BY <1>5, <1>6, <3>1, <3>2
      <4>2. i \in 1 .. c + k /\ i <= c
        BY <1>2
      <4> QED  BY <4>1, <4>2
    <3>3. CASE x > n
      <4> DEFINE j == x - n
      <4>1. j \in 1 .. b /\ n + j = x
        BY <3>1, <3>3
      <4> HIDE DEF j
      <4>2. j <= m
        BY <1>6, <3>1, <4>1
      <4>3. c + j \in 1 .. c + k /\ ~ (c + j <= c) /\ (c + j) - c = j
        BY <1>2, <4>1, <4>2
      <4>4. g[c + j] = n + j
        BY <4>3
      <4> QED  BY <4>1, <4>3, <4>4
    <3> QED  BY <3>1, <3>2, <3>3
  <2> HIDE DEF g, W
  <2> QED  BY <2>2, <2>4, <2>5 DEF ListOf
<1>10. Present(w) = [i \in 1 .. c + k |-> w[g[i]]]
  <2>1. n + b \in Nat /\ c + k \in Nat
    BY <1>2
  <2> HIDE DEF g
  <2> QED  BY <1>6, <1>9, <2>1, PresentIs
<1>11. Present(w) = [i \in 1 .. c + k |-> IF i <= c THEN head[i] ELSE u[i - c]]
  <2> HIDE DEF g, head
  <2> QED  BY <1>7, <1>10
<1>12. head \in [1 .. c -> {a[i] : i \in 1 .. n}]
  BY <1>5
<1> HIDE DEF head
<1> QED  BY <1>2, <1>4, <1>11, <1>12 DEF Continued


\* What orders the next ones of the groups: numbers, and never the same.
Slots(e) ==
  /\ QualifierSlot(e)[1] \in Int /\ QualifierSlot(e)[2] \in Int /\ QualifierSlot(e)[3] \in Int
  /\ QualifierSlot(e)[4] = -e

\* The best next ones are in a strict total order.
LEMMA BetterThirdOrders ==
    ASSUME NEW S, S \subseteq Nat, \A e \in S : Slots(e)
    PROVE  Orders(S, BetterThird(S))
<1> DEFINE s(e, i) == QualifierSlot(e)[i]
           better(x, y) == \/ s(x, 1) > s(y, 1)
                           \/ s(x, 1) = s(y, 1) /\ s(x, 2) > s(y, 2)
                           \/ s(x, 1) = s(y, 1) /\ s(x, 2) = s(y, 2) /\ s(x, 3) > s(y, 3)
                           \/ s(x, 1) = s(y, 1) /\ s(x, 2) = s(y, 2) /\ s(x, 3) = s(y, 3) /\ s(x, 4) > s(y, 4)
<1>1. \A e \in S : s(e, 1) \in Int /\ s(e, 2) \in Int /\ s(e, 3) \in Int /\ s(e, 4) = -e /\ e \in Int
  BY DEF Slots
<1>2. ASSUME NEW x \in S, NEW y \in S PROVE <<x, y>> \in BetterThird(S) <=> better(x, y)
  <2> DEFINE first(i) == s(x, i) > s(y, i) /\ \A j \in 1 .. i - 1 : s(x, j) = s(y, j)
  <2>1. <<x, y>> \in BetterThird(S) <=> \E i \in 1 .. 4 : first(i)
    BY DEF BetterThird
  <2>2. (\E i \in 1 .. 4 : first(i)) <=> first(1) \/ first(2) \/ first(3) \/ first(4)
    <3> HIDE DEF first
    <3> QED  OBVIOUS
  <2>3. 1 .. 1 - 1 = {} /\ 1 .. 2 - 1 = {1} /\ 1 .. 3 - 1 = {1, 2} /\ 1 .. 4 - 1 = {1, 2, 3}
    OBVIOUS
  <2> HIDE DEF s
  <2>4. first(1) \/ first(2) \/ first(3) \/ first(4) <=> better(x, y)
    BY <2>3, Zenon
  <2> QED  BY <2>1, <2>2, <2>4
<1> HIDE DEF s
<1>3. \A x \in S : ~ better(x, x)
  BY <1>1
<1>4. \A x, y, z \in S : better(x, y) /\ better(y, z) => better(x, z)
  BY <1>1
<1>5. \A x, y \in S : x # y => better(x, y) \/ better(y, x)
  BY <1>1
<1> HIDE DEF better
<1> QED  BY <1>2, <1>3, <1>4, <1>5 DEF Orders

\* Numbers in every row.
Numbers(row) == {row.points, row.scoreFor, row.scoreAgainst} \subseteq Int

\* What the stored table counts of an entry are numbers.
LEMMA CountsTyped ==
    ASSUME StandingsInv, NEW e \in DOMAIN table
    PROVE  Numbers(table[e].counts)
<1> DEFINE r == counted.rule
           res == counted.results
<1>1. layout \in Layouts /\ Recorded(res) /\ IsRule(r) /\ table = TableOf(r, res)
  BY DEF StandingsInv
<1> HIDE DEF r, res
<1>2. PICK block \in Blocks : e \in block
  BY <1>1 DEF TableOf
<1>3. table[e] = ComputeStandings(block, BlockMatches(block, res), r, res)[e]
  BY <1>1, <1>2, TableOfAt
<1>4. IsFiniteSet(block) /\ block \subseteq Nat
  BY <1>1, BlocksAre
<1>5. PICK margin : Scored(BlockMatches(block, res), res, margin)
  BY <1>1, BlockScored
<1>6. RowOf(ComputeStandings(block, BlockMatches(block, res), r, res)[e], e, block, BlockMatches(block, res), r, res)
  BY <1>1, <1>2, <1>4, <1>5, RankIs
<1>7. CountedRow(Accumulate(block, BlockMatches(block, res), r, res)[e])
  BY <1>1, <1>2, <1>5, AccumulateTyped
<1>8. CountedRow(table[e].counts)
  BY <1>3, <1>6, <1>7 DEF RowOf
<1> QED  BY <1>8 DEF CountedRow, Numbers

\* The next ones of the groups are finitely many, and in order.
LEMMA NextAreOrdered ==
    ASSUME StandingsInv, Grouped
    PROVE  /\ NextInGroup \subseteq Nat \ {Nobody} /\ IsFiniteSet(NextInGroup)
           /\ Orders(NextInGroup, BetterThird(NextInGroup))
<1>1. layout \in Layouts /\ table = TableOf(counted.rule, counted.results)
  BY DEF StandingsInv
<1>2. DOMAIN table = UNION Blocks /\ Blocks = Range(layout.groups)
  BY <1>1 DEF TableOf, Blocks
<1>3. layout.groups \in Seq(Range(layout.groups))
  BY <1>1, LayoutAssumption DEF LayoutAssumption
<1>4. IsFiniteSet(Blocks)
  <2> DEFINE W == Len(layout.groups)
  <2>1. W \in Nat /\ DOMAIN layout.groups = 1 .. W /\ IsFiniteSet(1 .. W)
    BY <1>3, FS_Interval
  <2>2. \A block \in Blocks : \E i \in 1 .. W : layout.groups[i] = block
    BY <1>2, <2>1 DEF Range
  <2>3. [i \in 1 .. W |-> layout.groups[i]] \in Surjection(1 .. W, Blocks)
    <3> HIDE DEF W
    <3>1. \A i \in 1 .. W : layout.groups[i] \in Blocks
      BY <1>2, <2>1 DEF Range
    <3> QED  BY <2>2, <3>1 DEF Surjection
  <2> QED  BY <2>1, <2>3, FS_Surjection
<1>5. NextInGroup \subseteq UNION Blocks
  <2>1. ASSUME NEW group PROVE AtPosition(group, layout.perGroup + 1) \in DOMAIN table \cup {Nobody}
    BY DEF AtPosition
  <2> QED  BY <1>2, <2>1 DEF NextInGroup
<1>6. IsFiniteSet(UNION Blocks) /\ UNION Blocks \subseteq Nat \ {Nobody}
  BY <1>1, <1>4, BlocksAre, FS_UNION
<1>7. NextInGroup \subseteq Nat \ {Nobody} /\ IsFiniteSet(NextInGroup)
  <2>1. NextInGroup \in SUBSET UNION Blocks
    BY <1>5
  <2> QED  BY <1>6, <2>1, FS_Subset
<1>8. \A e \in NextInGroup : Slots(e)
  <2> TAKE e \in NextInGroup
  <2>1. Numbers(table[e].counts)
    BY <1>2, <1>5, CountsTyped
  <2>2. QualifierSlot(e) = <<table[e].counts.points,
                             table[e].counts.scoreFor - table[e].counts.scoreAgainst,
                             table[e].counts.scoreFor, -e>>
    BY DEF QualifierSlot
  <2> QED  BY <2>1, <2>2 DEF Slots, Numbers
<1>9. Orders(NextInGroup, BetterThird(NextInGroup))
  <2>1. NextInGroup \subseteq Nat
    BY <1>7
  <2> QED  BY <1>8, <2>1, BetterThirdOrders
<1> QED  BY <1>7, <1>9

\* The first of every group, then the second of every group, as the seeding reads them.
Direct ==
  [i \in 1 .. layout.perGroup * Len(layout.groups) |->
     AtPosition(layout.groups[((i - 1) % Len(layout.groups)) + 1], ((i - 1) \div Len(layout.groups)) + 1)]

LabelOfGroup(group, position) ==
  ResolveColocacao([tipo |-> "grupo", grupo |-> group, posicao |-> position], MapaDeColocacoes)

LabelOfThird(position) ==
  ResolveColocacao([tipo |-> "melhor-terceiro", posicao |-> position], MapaDeColocacoes)

\* A label of a group names who the seeding finds at that position.
LEMMA LabelIsPosition ==
    ASSUME NEW group \in DOMAIN layout.groups, NEW position
    PROVE  LabelOfGroup(group, position) = AtPosition(layout.groups[group], position)
<1> DEFINE ranks(g) == {table[e].rank : e \in layout.groups[g] \cap DOMAIN table}
           places(g) == [p \in ranks(g) |-> AtPosition(layout.groups[g], p)]
<1>1. MapaDeColocacoes.porGrupo[group] = places(group)
  BY DEF MapaDeColocacoes
<1>2. LabelOfGroup(group, position) = IF position \in ranks(group) THEN places(group)[position] ELSE Nobody
  <2>1. LabelOfGroup(group, position)
        = IF position \in DOMAIN MapaDeColocacoes.porGrupo[group]
          THEN MapaDeColocacoes.porGrupo[group][position] ELSE Nobody
    BY DEF LabelOfGroup, ResolveColocacao
  <2>2. DOMAIN places(group) = ranks(group)
    OBVIOUS
  <2> HIDE DEF places, ranks
  <2> QED  BY <1>1, <2>1, <2>2
<1>3. CASE position \in ranks(group)
  BY <1>2, <1>3
<1>4. CASE position \notin ranks(group)
  <2>1. {e \in layout.groups[group] \cap DOMAIN table : table[e].rank = position} = {}
    BY <1>4
  <2>2. AtPosition(layout.groups[group], position) = Nobody
    BY <2>1, Zenon DEF AtPosition
  <2> QED  BY <1>2, <1>4, <2>2
<1> QED  BY <1>3, <1>4

\* Labels that run past the best next ones name nobody.
LEMMA LabelIsThird ==
    ASSUME NEW position
    PROVE  LabelOfThird(position) = IF position \in DOMAIN ThirdSlots THEN ThirdSlots[position] ELSE Nobody
<1>1. MapaDeColocacoes.terceiros = ThirdSlots
  BY DEF MapaDeColocacoes, ThirdSlots
<1>2. LabelOfThird(position) = IF position \in DOMAIN MapaDeColocacoes.terceiros
                               THEN MapaDeColocacoes.terceiros[position] ELSE Nobody
  BY DEF LabelOfThird, ResolveColocacao
<1> QED  BY <1>1, <1>2

\* One list after the other, place by place.
LEMMA Joined ==
    ASSUME NEW p \in Nat, NEW q \in Nat, NEW s \in Seq(Nat), NEW t \in Seq(Nat), Len(s) = p, Len(t) = q
    PROVE  s \o t = [i \in 1 .. p + q |-> IF i <= p THEN s[i] ELSE t[i - p]]
<1>1. /\ s \o t \in Seq(Nat) /\ Len(s \o t) = p + q
      /\ \A i \in 1 .. p + q : (s \o t)[i] = IF i <= p THEN s[i] ELSE t[i - p]
  BY ConcatProperties
<1> DEFINE j == s \o t
<1> HIDE DEF j
<1>2. j = [i \in 1 .. p + q |-> j[i]]
  <2>1. j \in Seq(Nat) /\ Len(j) = p + q
    BY <1>1 DEF j
  <2>2. j \in [1 .. p + q -> Nat]
    BY <2>1
  <2> QED  BY <2>2
<1> QED  BY <1>1, <1>2 DEF j

\* Two readings of the table agree: the places a published key stands for
\* by label are the seeds, in their order, whatever the table holds.
THEOREM KeyAgreesWithSeedingHolds == StandingsSpec => []KeyAgreesWithSeeding
<1>1. ASSUME StandingsInv, Grouped
      PROVE  Present([i \in 1 .. layout.perGroup * Len(layout.groups) |->
                        LabelOfGroup(((i - 1) % Len(layout.groups)) + 1, ((i - 1) \div Len(layout.groups)) + 1)]
                     \o [i \in 1 .. layout.bestThirds |-> LabelOfThird(i)]) = CollectQualifiers
  <2> DEFINE W == Len(layout.groups)
             n == layout.perGroup * W
             b == layout.bestThirds
             m == Cardinality(NextInGroup)
             k == IF b <= m THEN b ELSE m
             labels == [i \in 1 .. n |-> LabelOfGroup(((i - 1) % W) + 1, ((i - 1) \div W) + 1)]
             thirds == [i \in 1 .. b |-> LabelOfThird(i)]
  <2>1. layout \in Layouts
    BY <1>1 DEF StandingsInv
  <2>2. layout.groups \in Seq(Range(layout.groups)) /\ layout.perGroup \in Nat /\ b \in Nat
    BY <2>1, LayoutAssumption DEF LayoutAssumption
  <2>3. W \in Nat \ {0} /\ DOMAIN layout.groups = 1 .. W
    BY <1>1, <2>2 DEF Grouped
  <2>4. n \in Nat
    BY <2>2, <2>3
  <2>5. Direct = labels
    <3>1. ASSUME NEW i \in 1 .. n
          PROVE  LabelOfGroup(((i - 1) % W) + 1, ((i - 1) \div W) + 1)
                 = AtPosition(layout.groups[((i - 1) % W) + 1], ((i - 1) \div W) + 1)
      <4>1. ((i - 1) % W) + 1 \in DOMAIN layout.groups
        <5> HIDE DEF W, n
        <5>1. i - 1 \in Int /\ (i - 1) % W \in 0 .. W - 1
          BY <2>3, <2>4
        <5> QED  BY <2>3, <5>1
      <4> QED  BY <4>1, LabelIsPosition
    <3> QED  BY <3>1, Zenon DEF Direct
  <2>6. \A i \in 1 .. n : Direct[i] \in Nat
    <3>1. DOMAIN table \subseteq Nat
      <4>1. table = TableOf(counted.rule, counted.results)
        BY <1>1 DEF StandingsInv
      <4> QED  BY <2>1, <4>1, BlocksAre DEF TableOf
    <3>2. ASSUME NEW group, NEW position PROVE AtPosition(group, position) \in Nat
      BY <3>1 DEF AtPosition, Nobody
    <3> QED  BY <3>2 DEF Direct
  <2>7. /\ m \in Nat /\ DOMAIN ThirdSlots = 1 .. m /\ ThirdSlots \in [1 .. m -> NextInGroup]
        /\ \A i \in 1 .. m : ThirdSlots[i] \in NextInGroup
    <3>1. ListOf(NextInGroup, BetterThird(NextInGroup), m, ThirdSlots) /\ m \in Nat
      BY <1>1, NextAreOrdered, InOrderLists, FS_CardinalityType DEF ThirdSlots
    <3> HIDE DEF m
    <3> QED  BY <3>1 DEF ListOf
  <2>8. \A i \in 1 .. m : ThirdSlots[i] \in Nat /\ ThirdSlots[i] # Nobody
    BY <1>1, <2>7, NextAreOrdered
  <2> HIDE DEF W, n, b, m, k
  <2>9. \A i \in 1 .. b : thirds[i] = IF i <= m THEN ThirdSlots[i] ELSE Nobody
    <3> TAKE i \in 1 .. b
    <3>1. thirds[i] = IF i \in DOMAIN ThirdSlots THEN ThirdSlots[i] ELSE Nobody
      BY LabelIsThird
    <3>2. i \in DOMAIN ThirdSlots <=> i <= m
      BY <2>2, <2>7
    <3> QED  BY <3>1, <3>2
  <2> DEFINE w == labels \o thirds
  <2>10. Extended(w, Direct, n, ThirdSlots, m, b)
    <3>1. labels \in Seq(Nat) /\ Len(labels) = n
      <4>1. Direct \in [1 .. n -> Nat]
        <5>1. DOMAIN Direct = 1 .. n /\ Direct = [i \in DOMAIN Direct |-> Direct[i]]
          BY DEF Direct, n, W
        <5> QED  BY <2>6, <5>1
      <4> HIDE DEF labels
      <4> QED  BY <2>4, <2>5, <4>1
    <3>2. thirds \in Seq(Nat) /\ Len(thirds) = b
      <4>1. \A i \in 1 .. b : thirds[i] \in Nat
        BY <2>2, <2>7, <2>8, <2>9 DEF Nobody
      <4>2. thirds \in [1 .. b -> Nat]
        BY <4>1
      <4> HIDE DEF thirds
      <4> QED  BY <2>2, <4>2
    <3> HIDE DEF labels, thirds
    <3>3. DOMAIN w = 1 .. n + b /\ (\A i \in 1 .. n : w[i] = labels[i])
          /\ \A i \in 1 .. b : w[n + i] = thirds[i]
      <4>1. w = [i \in 1 .. n + b |-> IF i <= n THEN labels[i] ELSE thirds[i - n]]
        <5>1. n \in Nat /\ b \in Nat
          BY <2>2, <2>4
        <5> QED  BY <3>1, <3>2, <5>1, Joined
      <4>2. \A i \in 1 .. b : n + i \in 1 .. n + b /\ ~ (n + i <= n) /\ (n + i) - n = i
        BY <2>2, <2>4
      <4>3. \A i \in 1 .. n : i \in 1 .. n + b /\ i <= n
        BY <2>2, <2>4
      <4> HIDE DEF w
      <4> QED  BY <4>1, <4>2, <4>3
    <3> HIDE DEF w
    <3> QED  BY <2>5, <2>9, <3>3 DEF Extended
  <2> HIDE DEF labels, thirds, w
  <2>11. k \in Nat /\ k = IF b <= m THEN b ELSE m
    BY <2>2, <2>7 DEF k
  <2>12. DOMAIN Direct = 1 .. n
    BY DEF Direct, n, W
  <2>13. PICK c \in Nat : \E head \in [1 .. c -> {Direct[i] : i \in 1 .. n}] :
              /\ Present(Direct) = head
              /\ Present(w) = [i \in 1 .. c + k |-> IF i <= c THEN head[i] ELSE ThirdSlots[i - c]]
    <3>1. Continued(Direct, n, ThirdSlots, w, k)
      <4>1. b \in Nat
        BY <2>2 DEF b
      <4> QED  BY <2>4, <2>7, <2>8, <2>10, <2>11, <2>12, <4>1, PresentExtended
    <3> QED  BY <3>1 DEF Continued
  <2>14. PICK head \in [1 .. c -> {Direct[i] : i \in 1 .. n}] :
              /\ Present(Direct) = head
              /\ Present(w) = [i \in 1 .. c + k |-> IF i <= c THEN head[i] ELSE ThirdSlots[i - c]]
    BY <2>13
  <2>15. CollectQualifiers = head \o SubSeq(ThirdSlots, 1, k)
    <3>1. DirectSlots = Present(Direct)
      BY DEF DirectSlots, Direct
    <3>2. ThirdSlots \in Seq(Nat) /\ Len(ThirdSlots) = m
      <4>1. ThirdSlots \in [1 .. m -> Nat]
        BY <2>7, <2>8
      <4> QED  BY <2>7, <4>1
    <3>3. Min({b, m}) = k
      <4>1. k \in {b, m} /\ \A y \in {b, m} : k <= y
        BY <2>2, <2>7 DEF k
      <4>2. \A x \in {b, m} : (\A y \in {b, m} : x <= y) => x = k
        BY <2>2, <2>7, <4>1
      <4> QED  BY <4>1, <4>2 DEF Min
    <3> QED  BY <1>1, <2>14, <3>1, <3>2, <3>3 DEF CollectQualifiers, b
  <2>16. head \o SubSeq(ThirdSlots, 1, k) = [i \in 1 .. c + k |-> IF i <= c THEN head[i] ELSE ThirdSlots[i - c]]
    <3> DEFINE tail == SubSeq(ThirdSlots, 1, k)
    <3>1. head \in Seq(Nat) /\ Len(head) = c
      <4>1. \A i \in 1 .. c : head[i] \in Nat
        BY <2>6
      <4>2. head \in [1 .. c -> Nat]
        BY <4>1
      <4> QED  BY <4>2
    <3>2. ThirdSlots \in Seq(Nat) /\ Len(ThirdSlots) = m
      <4>1. ThirdSlots \in [1 .. m -> Nat]
        BY <2>7, <2>8
      <4> QED  BY <2>7, <4>1
    <3>3. tail \in Seq(Nat) /\ Len(tail) = k /\ \A i \in 1 .. k : tail[i] = ThirdSlots[i]
      <4>1. k <= m
        BY <2>2, <2>7 DEF k
      <4> QED  BY <2>7, <2>11, <3>2, <4>1
    <3> HIDE DEF tail
    <3>4. head \o tail = [i \in 1 .. c + k |-> IF i <= c THEN head[i] ELSE tail[i - c]]
      <4>1. k \in Nat
        BY <2>11
      <4> QED  BY <3>1, <3>3, <4>1, Joined
    <3>5. \A i \in 1 .. c + k : ~ (i <= c) => tail[i - c] = ThirdSlots[i - c]
      <4>1. k \in Nat
        BY <2>11
      <4>2. \A i \in 1 .. c + k : ~ (i <= c) => i - c \in 1 .. k
        BY <4>1
      <4> QED  BY <3>3, <4>2
    <3>6. head \o tail = [i \in 1 .. c + k |-> IF i <= c THEN head[i] ELSE ThirdSlots[i - c]]
      BY <3>4, <3>5
    <3> QED  BY <3>6 DEF tail
  <2> QED  BY <2>14, <2>15, <2>16 DEF w, labels, thirds, W, n, b
<1>2. StandingsInv => KeyAgreesWithSeeding
  BY <1>1 DEF KeyAgreesWithSeeding, LabelOfGroup, LabelOfThird
<1> QED  BY <1>2, StandingsHold, PTL

-----------------------------------------------------------------------------
(* A BETTER RESULT *)

\* A sum grows with its terms.
LEMMA SumsGrow ==
    ASSUME NEW S, IsFiniteSet(S), NEW a \in [S -> Int], NEW b \in [S -> Int], \A x \in S : a[x] <= b[x]
    PROVE  SumFunction(a) <= SumFunction(b)
<1>1. PICK g : Sums(S, a, g) /\ SumFunction(a) = g[S]
  BY SumIs
<1>2. PICK h : Sums(S, b, h) /\ SumFunction(b) = h[S]
  BY SumIs
<1> DEFINE One(s) == CHOOSE x \in s : TRUE
           Fine(s) == g[s] \in Int /\ h[s] \in Int /\ g[s] <= h[s]
           T == {n \in Nat : \A s \in SUBSET S : Cardinality(s) = n => Fine(s)}
<1>3. \A s \in SUBSET S : IsFiniteSet(s) /\ Cardinality(s) \in Nat
  BY FS_Subset, FS_CardinalityType
<1>4. \A s \in SUBSET S : s # {} => One(s) \in s /\ Cardinality(s \ {One(s)}) = Cardinality(s) - 1
  BY <1>3, FS_RemoveElement
<1>5. 0 \in T
  <2> SUFFICES ASSUME NEW s \in SUBSET S, Cardinality(s) = 0 PROVE Fine(s)
    OBVIOUS
  <2>1. s = {}
    BY <1>3, FS_EmptySet
  <2>2. g[s] = 0 /\ h[s] = 0
    BY <1>1, <1>2, <2>1 DEF Sums
  <2> QED  BY <2>2
<1>6. ASSUME NEW n \in Nat, n \in T PROVE n + 1 \in T
  <2> SUFFICES ASSUME NEW s \in SUBSET S, Cardinality(s) = n + 1 PROVE Fine(s)
    BY <1>6
  <2>1. s # {}
    <3>1. Cardinality({}) = 0
      BY FS_EmptySet
    <3>2. Cardinality(s) # 0
      OBVIOUS
    <3> QED  BY <3>1, <3>2
  <2> DEFINE x == One(s)
             t == s \ {x}
  <2>2. x \in S /\ t \in SUBSET S /\ Cardinality(t) = n
    BY <1>4, <2>1
  <2>3. Fine(t)
    BY <1>6, <2>2
  <2>4. g[s] = a[x] + g[t] /\ h[s] = b[x] + h[t]
    BY <1>1, <1>2, <2>1 DEF Sums
  <2>5. a[x] \in Int /\ b[x] \in Int /\ a[x] <= b[x]
    BY <2>2
  <2> HIDE DEF x, t
  <2> QED  BY <2>2, <2>3, <2>4, <2>5
<1>7. Nat \subseteq T
  <2> HIDE DEF T
  <2> QED  BY <1>5, <1>6, CountUp
<1>8. Fine(S)
  <2>1. S \in SUBSET S /\ Cardinality(S) \in T
    BY <1>3, <1>7
  <2> QED  BY <2>1
<1> QED  BY <1>1, <1>2, <1>8

\* The matches of x inside a block, those of them it won, those nobody did, and its side of a count.
MatchesIn(x, block, matches) == {f \in matches : x \in {f.home, f.away} /\ {f.home, f.away} \subseteq block}

Won(x, mine, res) == {f \in mine : res[f].winner = x}
Drew(mine, res) == {f \in mine : res[f].winner \notin {f.home, f.away}}
Side(x, mine, res, here, there) == [f \in mine |-> res[f][IF f.home = x THEN here ELSE there]]

\* From res to new, x is no worse off in any of its matches.
NoWorse(x, mine, res, new) ==
  /\ Won(x, mine, res) \subseteq Won(x, mine, new)
  /\ Drew(mine, res) \subseteq Won(x, mine, new) \cup Drew(mine, new)
  /\ \A f \in mine :
        /\ Side(x, mine, res, "scoreA", "scoreB")[f] <= Side(x, mine, new, "scoreA", "scoreB")[f]
        /\ Side(x, mine, new, "scoreB", "scoreA")[f] <= Side(x, mine, res, "scoreB", "scoreA")[f]
        /\ Side(x, mine, new, "cardsA", "cardsB")[f] <= Side(x, mine, res, "cardsA", "cardsB")[f]

\* The points of a rule tell a win from a draw from a defeat, or nothing is drawn.
Tells(r, matches, res) ==
  \/ r.loss < r.draw /\ r.draw < r.win
  \/ r.loss < r.win /\ \A f \in matches : res[f].winner \in {f.home, f.away}

\* A row that is as good in every respect.
AsGood(row, than) ==
  /\ row.points >= than.points /\ row.won >= than.won /\ row.scoreFor >= than.scoreFor
  /\ row.scoreAgainst <= than.scoreAgainst /\ row.disciplinary <= than.disciplinary

\* More wins, and more matches not lost, are at least as many points, and as many only if they are no more.
LEMMA PointsGrow ==
    ASSUME NEW n \in Nat, NEW w \in Nat, NEW u \in Nat, NEW v \in Nat, NEW x \in Nat,
           w <= v, w + u <= v + x,
           NEW win \in Nat, NEW draw \in Nat, NEW loss \in Nat,
           (loss < draw /\ draw < win) \/ (loss < win /\ u = 0 /\ x = 0)
    PROVE  /\ w * win + u * draw + (n - w - u) * loss <= v * win + x * draw + (n - v - x) * loss
           /\ w * win + u * draw + (n - w - u) * loss = v * win + x * draw + (n - v - x) * loss
              => w = v /\ w + u = v + x
<1> DEFINE p(a, b) == a * win + b * draw + (n - a - b) * loss
<1>1. CASE loss < draw /\ draw < win
  <2>1. \A a, b \in Nat : p(a, b) = a * (win - draw) + (a + b) * (draw - loss) + n * loss
    OBVIOUS
  <2> DEFINE i == v - w   j == (v + x) - (w + u)   y == win - draw   z == draw - loss
  <2>2. i \in Nat /\ j \in Nat /\ y \in Nat \ {0} /\ z \in Nat \ {0}
    BY <1>1
  <2>3. v * y = w * y + i * y /\ (v + x) * z = (w + u) * z + j * z
    BY <2>2
  <2>4. p(v, x) = p(w, u) + i * y + j * z /\ p(w, u) \in Int
    <3>1. p(v, x) = v * y + (v + x) * z + n * loss /\ p(w, u) = w * y + (w + u) * z + n * loss
      BY <2>1
    <3>2. v * y \in Int /\ (v + x) * z \in Int /\ w * y \in Int /\ (w + u) * z \in Int /\ n * loss \in Int
          /\ i * y \in Int /\ j * z \in Int
      BY <2>2
    <3> HIDE DEF p, i, j, y, z
    <3> QED  BY <2>3, <3>1, <3>2
  <2> HIDE DEF p, y, z
  <2>5. i * y \in Nat /\ j * z \in Nat /\ (i * y = 0 => i = 0) /\ (j * z = 0 => j = 0)
    BY <2>2
  <2>6. p(w, u) <= p(v, x) /\ (p(w, u) = p(v, x) => i = 0 /\ j = 0)
    BY <2>4, <2>5
  <2> QED  BY <2>6 DEF p, i, j
<1>2. CASE loss < win /\ u = 0 /\ x = 0
  <2> DEFINE i == v - w   y == win - loss
  <2>1. i \in Nat /\ y \in Nat \ {0}
    BY <1>2
  <2>2. p(w, u) = w * y + n * loss /\ p(v, x) = v * y + n * loss
    BY <1>2
  <2>3. v * y = w * y + i * y
    BY <2>1
  <2>4. i * y \in Nat /\ (i * y = 0 => i = 0) /\ w * y \in Int /\ n * loss \in Int /\ v * y \in Int
    BY <2>1
  <2> HIDE DEF p, y
  <2>5. p(w, u) <= p(v, x) /\ (p(w, u) = p(v, x) => i = 0)
    BY <2>2, <2>3, <2>4
  <2> QED  BY <1>2, <2>5 DEF p, i
<1> QED  BY <1>1, <1>2

\* As good a row, and one of as many points only with the same matches won and drawn.
RowGrows(x, mine, row, than, res, new) ==
  /\ AsGood(row, than)
  /\ row.points = than.points => Won(x, mine, res) = Won(x, mine, new) /\ Drew(mine, res) = Drew(mine, new)

\* A row with better results is as good, and has as many points only if nobody wins more.
LEMMA CountsGrow ==
    ASSUME NEW block, NEW matches, NEW r, NEW res, NEW new, NEW m, NEW n,
           IsRule(r), Scored(matches, res, m), Scored(matches, new, n),
           Tells(r, matches, res), Tells(r, matches, new),
           NEW x \in block, NoWorse(x, MatchesIn(x, block, matches), res, new)
    PROVE  RowGrows(x, MatchesIn(x, block, matches), Accumulate(block, matches, r, new)[x],
                    Accumulate(block, matches, r, res)[x], res, new)
<1> DEFINE mine == MatchesIn(x, block, matches)
           won(a) == Cardinality(Won(x, mine, a))
           drew(a) == Cardinality(Drew(mine, a))
           sum(a, here, there) == SumFunction(Side(x, mine, a, here, there))
           row(a) == Accumulate(block, matches, r, a)[x]
           played == Cardinality(mine)
<1>1. \A a : /\ row(a).won = won(a)
             /\ row(a).points = won(a) * r.win + drew(a) * r.draw + (played - won(a) - drew(a)) * r.loss
             /\ row(a).scoreFor = sum(a, "scoreA", "scoreB")
             /\ row(a).scoreAgainst = sum(a, "scoreB", "scoreA")
             /\ row(a).disciplinary = sum(a, "cardsA", "cardsB")
  BY DEF Accumulate, MatchesIn, Won, Drew, Side
<1>2. IsFiniteSet(mine) /\ mine \subseteq matches /\ played \in Nat
  <2>1. mine \in SUBSET matches /\ IsFiniteSet(matches)
    BY DEF MatchesIn, Scored
  <2> HIDE DEF mine
  <2> QED  BY <2>1, FS_Subset, FS_CardinalityType
<1>3. \A f \in mine : x \in {f.home, f.away}
  BY DEF MatchesIn
<1> HIDE DEF mine, row
<1>4. \A a : /\ IsFiniteSet(Won(x, mine, a)) /\ IsFiniteSet(Drew(mine, a))
             /\ won(a) \in Nat /\ drew(a) \in Nat
             /\ IsFiniteSet(Won(x, mine, a) \cup Drew(mine, a))
             /\ Cardinality(Won(x, mine, a) \cup Drew(mine, a)) = won(a) + drew(a)
  <2> TAKE a
  <2>1. IsFiniteSet(Won(x, mine, a)) /\ IsFiniteSet(Drew(mine, a))
    <3>1. Won(x, mine, a) \in SUBSET mine /\ Drew(mine, a) \in SUBSET mine
      BY DEF Won, Drew
    <3> QED  BY <1>2, <3>1, FS_Subset
  <2>2. Won(x, mine, a) \cap Drew(mine, a) = {}
    BY <1>3 DEF Won, Drew
  <2>3. won(a) \in Nat /\ drew(a) \in Nat
    BY <2>1, FS_CardinalityType
  <2>4. Cardinality({}) = 0
    BY FS_EmptySet
  <2>5. /\ IsFiniteSet(Won(x, mine, a) \cup Drew(mine, a))
        /\ Cardinality(Won(x, mine, a) \cup Drew(mine, a)) = won(a) + drew(a) - Cardinality({})
    BY <2>1, <2>2, FS_Union
  <2> QED  BY <2>1, <2>3, <2>4, <2>5
<1>5. /\ Won(x, mine, res) \in SUBSET Won(x, mine, new)
      /\ Won(x, mine, res) \cup Drew(mine, res) \in SUBSET (Won(x, mine, new) \cup Drew(mine, new))
  BY DEF NoWorse, mine
<1>6. won(res) <= won(new) /\ won(res) + drew(res) <= won(new) + drew(new)
      /\ (won(res) = won(new) => Won(x, mine, res) = Won(x, mine, new))
      /\ (won(res) + drew(res) = won(new) + drew(new)
            => Won(x, mine, res) \cup Drew(mine, res) = Won(x, mine, new) \cup Drew(mine, new))
  <2>1. /\ Cardinality(Won(x, mine, res)) <= Cardinality(Won(x, mine, new))
        /\ Cardinality(Won(x, mine, new)) = Cardinality(Won(x, mine, res))
             => Won(x, mine, new) = Won(x, mine, res)
    BY <1>4, <1>5, FS_Subset
  <2>2. /\ Cardinality(Won(x, mine, res) \cup Drew(mine, res)) <= Cardinality(Won(x, mine, new) \cup Drew(mine, new))
        /\ Cardinality(Won(x, mine, new) \cup Drew(mine, new)) = Cardinality(Won(x, mine, res) \cup Drew(mine, res))
             => Won(x, mine, new) \cup Drew(mine, new) = Won(x, mine, res) \cup Drew(mine, res)
    BY <1>4, <1>5, FS_Subset
  <2> QED  BY <1>4, <2>1, <2>2
<1>7. (r.loss < r.draw /\ r.draw < r.win) \/ (r.loss < r.win /\ drew(res) = 0 /\ drew(new) = 0)
  <2>1. CASE r.loss < r.draw /\ r.draw < r.win
    BY <2>1
  <2>2. CASE ~ (r.loss < r.draw /\ r.draw < r.win)
    <3>1. r.loss < r.win /\ Drew(mine, res) = {} /\ Drew(mine, new) = {}
      BY <1>2, <2>2 DEF Tells, Drew
    <3> QED  BY <3>1, FS_EmptySet
  <2> QED  BY <2>1, <2>2
<1>8. row(res).points <= row(new).points
      /\ (row(res).points = row(new).points => won(res) = won(new) /\ won(res) + drew(res) = won(new) + drew(new))
  <2> DEFINE w == won(res)  u == drew(res)  v == won(new)  y == drew(new)
             win == r.win  draw == r.draw  loss == r.loss
  <2>1. /\ played \in Nat /\ w \in Nat /\ u \in Nat /\ v \in Nat /\ y \in Nat /\ w <= v /\ w + u <= v + y
        /\ win \in Nat /\ draw \in Nat /\ loss \in Nat
        /\ (loss < draw /\ draw < win) \/ (loss < win /\ u = 0 /\ y = 0)
    BY <1>2, <1>4, <1>6, <1>7 DEF IsRule
  <2>2. /\ row(res).points = w * win + u * draw + (played - w - u) * loss
        /\ row(new).points = v * win + y * draw + (played - v - y) * loss
    BY <1>1
  <2> HIDE DEF w, u, v, y, played, win, draw, loss
  <2>3. /\ w * win + u * draw + (played - w - u) * loss <= v * win + y * draw + (played - v - y) * loss
        /\ w * win + u * draw + (played - w - u) * loss = v * win + y * draw + (played - v - y) * loss
             => w = v /\ w + u = v + y
    BY <2>1, PointsGrow
  <2>4. row(res).points <= row(new).points /\ (row(res).points = row(new).points => w = v /\ w + u = v + y)
    BY <2>2, <2>3
  <2> QED  BY <2>4 DEF w, u, v, y
<1>9. row(res).points = row(new).points
         => Won(x, mine, res) = Won(x, mine, new) /\ Drew(mine, res) = Drew(mine, new)
  <2> SUFFICES ASSUME row(res).points = row(new).points
               PROVE  Won(x, mine, res) = Won(x, mine, new) /\ Drew(mine, res) = Drew(mine, new)
    OBVIOUS
  <2>1. Won(x, mine, res) = Won(x, mine, new)
        /\ Won(x, mine, res) \cup Drew(mine, res) = Won(x, mine, new) \cup Drew(mine, new)
    BY <1>6, <1>8
  <2>2. Won(x, mine, res) \cap Drew(mine, res) = {} /\ Won(x, mine, new) \cap Drew(mine, new) = {}
    BY <1>3 DEF Won, Drew
  <2> QED  BY <2>1, <2>2
<1>10. ASSUME NEW a \in {res, new} PROVE
         /\ Side(x, mine, a, "scoreA", "scoreB") \in [mine -> Int]
         /\ Side(x, mine, a, "scoreB", "scoreA") \in [mine -> Int]
         /\ Side(x, mine, a, "cardsA", "cardsB") \in [mine -> Int]
  <2>1. \A f \in mine : {a[f].scoreA, a[f].scoreB, a[f].cardsA, a[f].cardsB} \subseteq Int
    BY <1>2, <1>10 DEF Scored
  <2> QED  BY <2>1 DEF Side
<1>11. /\ sum(res, "scoreA", "scoreB") <= sum(new, "scoreA", "scoreB")
       /\ sum(new, "scoreB", "scoreA") <= sum(res, "scoreB", "scoreA")
       /\ sum(new, "cardsA", "cardsB") <= sum(res, "cardsA", "cardsB")
  <2>1. \A f \in mine :
        /\ Side(x, mine, res, "scoreA", "scoreB")[f] <= Side(x, mine, new, "scoreA", "scoreB")[f]
        /\ Side(x, mine, new, "scoreB", "scoreA")[f] <= Side(x, mine, res, "scoreB", "scoreA")[f]
        /\ Side(x, mine, new, "cardsA", "cardsB")[f] <= Side(x, mine, res, "cardsA", "cardsB")[f]
    BY DEF NoWorse, mine
  <2>2. sum(res, "scoreA", "scoreB") <= sum(new, "scoreA", "scoreB")
    BY <1>2, <1>10, <2>1, SumsGrow
  <2>3. sum(new, "scoreB", "scoreA") <= sum(res, "scoreB", "scoreA")
    BY <1>2, <1>10, <2>1, SumsGrow
  <2>4. sum(new, "cardsA", "cardsB") <= sum(res, "cardsA", "cardsB")
    BY <1>2, <1>10, <2>1, SumsGrow
  <2> QED  BY <2>2, <2>3, <2>4
<1>12. CountedRow(row(res)) /\ CountedRow(row(new))
  BY AccumulateTyped DEF row
<1>13. AsGood(row(new), row(res))
  <2> HIDE DEF won, drew, sum
  <2>1. row(new).scoreFor >= row(res).scoreFor /\ row(new).scoreAgainst <= row(res).scoreAgainst
        /\ row(new).disciplinary <= row(res).disciplinary /\ row(new).won >= row(res).won
        /\ row(new).points >= row(res).points
    BY <1>1, <1>6, <1>8, <1>11, <1>12 DEF CountedRow
  <2> QED  BY <2>1 DEF AsGood
<1> QED  BY <1>9, <1>13 DEF RowGrows, row, mine

\* A criterion other than the mini-table prefers the row that is as good.
LEMMA CriterionGrows ==
    ASSUME NEW c, c # "confronto-direto", NEW row, NEW than, NEW mini, NEW other,
           CountedRow(row), CountedRow(than), AsGood(row, than)
    PROVE  CriterionValue(c, than, mini) <= CriterionValue(c, row, other)
<1>1. /\ row.won \in Int /\ row.scoreFor \in Int /\ row.scoreAgainst \in Int /\ row.disciplinary \in Int
      /\ than.won \in Int /\ than.scoreFor \in Int /\ than.scoreAgainst \in Int /\ than.disciplinary \in Int
  BY DEF CountedRow
<1>2. /\ row.won >= than.won /\ row.scoreFor >= than.scoreFor
      /\ row.scoreAgainst <= than.scoreAgainst /\ row.disciplinary <= than.disciplinary
  BY DEF AsGood
<1>3. CASE c = "vitorias"
  BY <1>1, <1>2, <1>3 DEF CriterionValue
<1>4. CASE c = "saldo"
  BY <1>1, <1>2, <1>4 DEF CriterionValue
<1>5. CASE c = "marcados"
  BY <1>1, <1>2, <1>5 DEF CriterionValue
<1>6. CASE c = "sofridos"
  BY <1>1, <1>2, <1>6 DEF CriterionValue
<1>7. CASE c = "fair-play"
  BY <1>1, <1>2, <1>7 DEF CriterionValue
<1>8. CASE c \notin {"vitorias", "saldo", "marcados", "sofridos", "fair-play"}
  BY <1>8 DEF CriterionValue
<1> QED  BY <1>3, <1>4, <1>5, <1>6, <1>7, <1>8

\* The opposite of More, for pairs of numbers.
AtMost(u, v) == u[1] < v[1] \/ (u[1] = v[1] /\ u[2] <= v[2])

\* Ties by a list of merits, one after the other.
TiesBy(K, block, tied, merit, e) ==
  /\ tied[0] = block
  /\ \A k \in 0 .. K : tied[k + 1] = {d \in tied[k] : merit[k][d] = merit[k][e]}

\* Before somebody by the first merit that separates them, or by the draw.
Ahead(K, tied, merit, e, d) ==
  \/ \E k \in 0 .. K : d \in tied[k] /\ More(merit[k][d], merit[k][e])
  \/ d \in tied[K + 1] /\ d < e

\* Who is above after e got better and he did not was above already.
LEMMA AboveBefore ==
    ASSUME NEW K \in Nat, NEW block, NEW e \in block, NEW d \in block,
           NEW tied, NEW merit, TiesBy(K, block, tied, merit, e),
           NEW then, NEW worth, TiesBy(K, block, then, worth, e),
           \A k \in 0 .. K : d \in then[k] =>
              /\ merit[k][d] \in Int \X Int /\ worth[k][d] \in Int \X Int
              /\ merit[k][e] \in Int \X Int /\ worth[k][e] \in Int \X Int
              /\ AtMost(worth[k][d], merit[k][d]) /\ AtMost(merit[k][e], worth[k][e]),
           Ahead(K, then, worth, e, d)
    PROVE  Ahead(K, tied, merit, e, d)
<1> DEFINE above(n) == \E k \in 0 .. K : k < n /\ d \in tied[k] /\ More(merit[k][d], merit[k][e])
           T == {n \in Nat : n <= K + 1 /\ d \in then[n] => above(n) \/ d \in tied[n]}
<1>1. ASSUME NEW p \in Int \X Int, NEW q \in Int \X Int, NEW x \in Int \X Int, NEW y \in Int \X Int,
             AtMost(x, p), AtMost(q, y)
      PROVE  (More(x, y) => More(p, q)) /\ (x = y => More(p, q) \/ p = q)
  <2>1. /\ p = <<p[1], p[2]>> /\ q = <<q[1], q[2]>> /\ x = <<x[1], x[2]>> /\ y = <<y[1], y[2]>>
        /\ p[1] \in Int /\ p[2] \in Int /\ q[1] \in Int /\ q[2] \in Int
        /\ x[1] \in Int /\ x[2] \in Int /\ y[1] \in Int /\ y[2] \in Int
    OBVIOUS
  <2>2. More(x, y) => More(p, q)
    BY <1>1, <2>1 DEF AtMost, More
  <2>3. x = y => More(p, q) \/ (p[1] = q[1] /\ p[2] = q[2])
    BY <1>1, <2>1 DEF AtMost, More
  <2> QED  BY <2>1, <2>2, <2>3
<1>2. 0 \in T
  BY DEF TiesBy
<1>3. ASSUME NEW n \in Nat, n \in T PROVE n + 1 \in T
  <2> SUFFICES ASSUME n + 1 <= K + 1, d \in then[n + 1] PROVE above(n + 1) \/ d \in tied[n + 1]
    OBVIOUS
  <2>1. n \in 0 .. K /\ n <= K + 1
    OBVIOUS
  <2>2. d \in then[n] /\ worth[n][d] = worth[n][e]
    BY <2>1 DEF TiesBy
  <2>3. above(n) \/ d \in tied[n]
    BY <1>3, <2>1, <2>2
  <2>4. CASE above(n)
    BY <2>4
  <2>5. CASE d \in tied[n]
    <3>1. More(merit[n][d], merit[n][e]) \/ merit[n][d] = merit[n][e]
      BY <1>1, <2>1, <2>2
    <3>2. CASE More(merit[n][d], merit[n][e])
      BY <2>1, <2>5, <3>2
    <3>3. CASE merit[n][d] = merit[n][e]
      BY <2>1, <2>5, <3>3 DEF TiesBy
    <3> QED  BY <3>1, <3>2, <3>3
  <2> QED  BY <2>3, <2>4, <2>5
<1>4. Nat \subseteq T
  <2> HIDE DEF T
  <2> QED  BY <1>2, <1>3, CountUp
<1>5. \A n \in 0 .. K + 1 : d \in then[n] => Ahead(K, tied, merit, e, d) \/ d \in tied[n]
  <2> TAKE n \in 0 .. K + 1
  <2>1. n \in T
    BY <1>4
  <2> QED  BY <2>1 DEF Ahead
<1>6. CASE \E k \in 0 .. K : d \in then[k] /\ More(worth[k][d], worth[k][e])
  <2>1. PICK k \in 0 .. K : d \in then[k] /\ More(worth[k][d], worth[k][e])
    BY <1>6
  <2>2. More(merit[k][d], merit[k][e])
    BY <1>1, <2>1
  <2>3. Ahead(K, tied, merit, e, d) \/ d \in tied[k]
    BY <1>5, <2>1
  <2> QED  BY <2>2, <2>3 DEF Ahead
<1>7. CASE d \in then[K + 1] /\ d < e
  <2>1. Ahead(K, tied, merit, e, d) \/ d \in tied[K + 1]
    BY <1>5, <1>7
  <2> QED  BY <1>7, <2>1 DEF Ahead
<1> QED  BY <1>6, <1>7 DEF Ahead

\* A result in favour of e.
Favoured(f, e, x, y) ==
  /\ {x.winner, y.winner} \subseteq {f.home, f.away, Nobody}
  /\ x.winner = e => y.winner = e
  /\ x.winner = Nobody => y.winner \in {e, Nobody}
  /\ f.home = e => /\ x.scoreA <= y.scoreA /\ y.scoreB <= x.scoreB
                   /\ y.cardsA <= x.cardsA /\ x.cardsB <= y.cardsB
  /\ f.away = e => /\ x.scoreB <= y.scoreB /\ y.scoreA <= x.scoreA
                   /\ y.cardsB <= x.cardsB /\ x.cardsA <= y.cardsA

\* What changed from res to new favours e.
Changed(e, matches, res, new) ==
  \A f \in matches :
     /\ f.home # f.away /\ Nobody \notin {f.home, f.away}
     /\ IF e \in {f.home, f.away} THEN Favoured(f, e, res[f], new[f]) ELSE new[f] = res[f]

\* Then e is no worse off, and nobody else is better off.
LEMMA NobodyElse ==
    ASSUME NEW e, NEW matches, NEW res, NEW new, NEW m, NEW n, Changed(e, matches, res, new),
           Scored(matches, res, m), Scored(matches, new, n), NEW block, NEW x
    PROVE  /\ x = e => NoWorse(x, MatchesIn(x, block, matches), res, new)
           /\ x # e => NoWorse(x, MatchesIn(x, block, matches), new, res)
<1> DEFINE mine == MatchesIn(x, block, matches)
<1>1. \A f \in mine : f \in matches /\ x \in {f.home, f.away}
  BY DEF MatchesIn
<1>2. \A f \in mine : {res[f].scoreA, res[f].scoreB, res[f].cardsA, res[f].cardsB,
                       new[f].scoreA, new[f].scoreB, new[f].cardsA, new[f].cardsB} \subseteq Nat
  BY <1>1 DEF Scored
<1>3. \A f \in mine : /\ f.home # f.away /\ Nobody \notin {f.home, f.away}
                      /\ e \in {f.home, f.away} => Favoured(f, e, res[f], new[f])
                      /\ e \notin {f.home, f.away} => new[f] = res[f]
  BY <1>1 DEF Changed
<1> HIDE DEF mine
<1>4. ASSUME x = e PROVE NoWorse(x, mine, res, new)
  <2>1. \A f \in mine : Favoured(f, x, res[f], new[f])
    BY <1>1, <1>3, <1>4
  <2>2. Won(x, mine, res) \subseteq Won(x, mine, new)
    BY <2>1 DEF Won, Favoured
  <2>3. Drew(mine, res) \subseteq Won(x, mine, new) \cup Drew(mine, new)
    BY <1>3, <2>1 DEF Won, Drew, Favoured
  <2>4. ASSUME NEW f \in mine
        PROVE  /\ Side(x, mine, res, "scoreA", "scoreB")[f] <= Side(x, mine, new, "scoreA", "scoreB")[f]
               /\ Side(x, mine, new, "scoreB", "scoreA")[f] <= Side(x, mine, res, "scoreB", "scoreA")[f]
               /\ Side(x, mine, new, "cardsA", "cardsB")[f] <= Side(x, mine, res, "cardsA", "cardsB")[f]
    <3>1. CASE f.home = x
      BY <2>1, <3>1 DEF Side, Favoured
    <3>2. CASE f.home # x
      <4>1. f.away = x
        BY <1>1, <3>2
      <4> QED  BY <2>1, <3>2, <4>1 DEF Side, Favoured
    <3> QED  BY <3>1, <3>2
  <2> QED  BY <2>2, <2>3, <2>4 DEF NoWorse
<1>5. ASSUME x # e PROVE NoWorse(x, mine, new, res)
  <2>1. ASSUME NEW f \in mine
        PROVE  /\ new[f].winner = x => res[f].winner = x
               /\ new[f].winner \notin {f.home, f.away} => res[f].winner = x \/ res[f].winner \notin {f.home, f.away}
    <3>1. CASE e \notin {f.home, f.away}
      BY <1>3, <3>1
    <3>2. CASE e \in {f.home, f.away}
      BY <1>1, <1>3, <1>5, <3>2 DEF Favoured
    <3> QED  BY <3>1, <3>2
  <2>2. Won(x, mine, new) \subseteq Won(x, mine, res)
    BY <2>1 DEF Won
  <2>3. Drew(mine, new) \subseteq Won(x, mine, res) \cup Drew(mine, res)
    BY <2>1 DEF Won, Drew
  <2>4. ASSUME NEW f \in mine
        PROVE  /\ Side(x, mine, new, "scoreA", "scoreB")[f] <= Side(x, mine, res, "scoreA", "scoreB")[f]
               /\ Side(x, mine, res, "scoreB", "scoreA")[f] <= Side(x, mine, new, "scoreB", "scoreA")[f]
               /\ Side(x, mine, res, "cardsA", "cardsB")[f] <= Side(x, mine, new, "cardsA", "cardsB")[f]
    <3>1. CASE e \notin {f.home, f.away}
      BY <1>2, <1>3, <3>1 DEF Side
    <3>2. CASE e = f.away /\ x = f.home
      BY <1>3, <3>2 DEF Side, Favoured
    <3>3. CASE e = f.home /\ x = f.away
      BY <1>3, <3>3 DEF Side, Favoured
    <3> QED  BY <1>1, <1>5, <3>1, <3>2, <3>3
  <2> QED  BY <2>2, <2>3, <2>4 DEF NoWorse
<1> QED  BY <1>4, <1>5 DEF mine

\* Points are a matter of who won.
LEMMA WinnersTell ==
    ASSUME NEW block, NEW matches, NEW r, NEW res, NEW new, NEW x \in block,
           \A f \in MatchesIn(x, block, matches) : new[f].winner = res[f].winner
    PROVE  Accumulate(block, matches, r, new)[x].points = Accumulate(block, matches, r, res)[x].points
<1> DEFINE mine == MatchesIn(x, block, matches)
           won(a) == Cardinality(Won(x, mine, a))
           drew(a) == Cardinality(Drew(mine, a))
<1>1. \A a : Accumulate(block, matches, r, a)[x].points
             = won(a) * r.win + drew(a) * r.draw + (Cardinality(mine) - won(a) - drew(a)) * r.loss
  BY DEF Accumulate, MatchesIn, Won, Drew
<1> HIDE DEF mine
<1>2. Won(x, mine, new) = Won(x, mine, res) /\ Drew(mine, new) = Drew(mine, res)
  BY DEF Won, Drew, mine
<1> QED  BY <1>1, <1>2

\* In a table that tells who won, as many points as before are the same winners.
LEMMA WinnersStay ==
    ASSUME NEW e, NEW matches, NEW res, NEW new, Changed(e, matches, res, new), NEW block, NEW x,
           Won(e, MatchesIn(e, block, matches), res) = Won(e, MatchesIn(e, block, matches), new),
           Drew(MatchesIn(e, block, matches), res) = Drew(MatchesIn(e, block, matches), new)
    PROVE  \A f \in MatchesIn(x, block, matches) : new[f].winner = res[f].winner
<1> SUFFICES ASSUME NEW f \in MatchesIn(x, block, matches) PROVE new[f].winner = res[f].winner
  OBVIOUS
<1>1. f \in matches /\ {f.home, f.away} \subseteq block
  BY DEF MatchesIn
<1>2. CASE e \notin {f.home, f.away}
  BY <1>1, <1>2 DEF Changed
<1>3. CASE e \in {f.home, f.away}
  <2>1. f \in MatchesIn(e, block, matches)
    BY <1>1, <1>3 DEF MatchesIn
  <2>2. /\ res[f].winner = e <=> new[f].winner = e
        /\ res[f].winner \notin {f.home, f.away} <=> new[f].winner \notin {f.home, f.away}
    BY <2>1 DEF Won, Drew
  <2>3. {res[f].winner, new[f].winner} \subseteq {f.home, f.away, Nobody} /\ Nobody \notin {f.home, f.away}
    BY <1>1, <1>3 DEF Changed, Favoured
  <2> QED  BY <1>3, <2>2, <2>3
<1> QED  BY <1>2, <1>3

\* After the points only the mini-table depends on who is tied, and it comes first or never.
LEMMA MeritAlone ==
    ASSUME NEW r, IsRule(r), HeadToHeadFirst(r), NEW k \in 0 .. Len(Criteria(r)), k # 1,
           NEW x, NEW stats, NEW matches, NEW res, NEW S, NEW R
    PROVE  Merit(k, x, S, stats, matches, r, res) = Merit(k, x, R, stats, matches, r, res)
<1>1. CASE k = 0
  BY <1>1 DEF Merit
<1>2. CASE k # 0
  <2>1. k \in 1 .. Len(r.tiebreakers) /\ Criteria(r)[k] = r.tiebreakers[k] /\ DOMAIN r.tiebreakers = 1 .. Len(r.tiebreakers)
    BY <1>2, CriteriaAre DEF IsRule
  <2>2. Criteria(r)[k] # "confronto-direto"
    BY <2>1 DEF HeadToHeadFirst
  <2> DEFINE c == Criteria(r)[k]
             mini(Q) == Accumulate(Q, matches, r, res)[x]
  <2>3. \A Q : Merit(k, x, Q, stats, matches, r, res) = <<CriterionValue(c, stats[x], mini(Q)), 0>>
    BY <1>2, <2>2 DEF Merit
  <2>4. \A p, q : CriterionValue(c, stats[x], p) = CriterionValue(c, stats[x], q)
    BY <2>2 DEF CriterionValue
  <2> QED  BY <2>3, <2>4
<1> QED  BY <1>1, <1>2

\* Points alike, a merit is at most that of better results.
LEMMA MeritGrows ==
    ASSUME NEW block, NEW matches, NEW r, NEW res, NEW new, NEW m, NEW n, NEW was, NEW is,
           Given(block, was, matches, r, res, m), Given(block, is, matches, r, new, n),
           NEW S \in SUBSET block, NEW x \in S, NEW k \in 0 .. Len(Criteria(r)),
           AsGood(is[x], was[x]), is[x].points = was[x].points,
           AsGood(Accumulate(S, matches, r, new)[x], Accumulate(S, matches, r, res)[x]),
           Accumulate(S, matches, r, new)[x].points = Accumulate(S, matches, r, res)[x].points
    PROVE  AtMost(Merit(k, x, S, was, matches, r, res), Merit(k, x, S, is, matches, r, new))
<1> DEFINE p == Accumulate(S, matches, r, res)[x]
           q == Accumulate(S, matches, r, new)[x]
           c == Criteria(r)[k]
<1>1. CountedRow(p) /\ CountedRow(q) /\ CountedRow(was[x]) /\ CountedRow(is[x])
  BY AccumulateTyped DEF Given
<1>2. AsGood(q, p) /\ q.points = p.points
  OBVIOUS
<1> HIDE DEF p, q
<1>3. CASE k = 0
  BY <1>3 DEF Merit, AtMost
<1>4. CASE k # 0 /\ c = "confronto-direto"
  <2>1. /\ Merit(k, x, S, was, matches, r, res) = <<p.points, p.scoreFor - p.scoreAgainst>>
        /\ Merit(k, x, S, is, matches, r, new) = <<q.points, q.scoreFor - q.scoreAgainst>>
    BY <1>4 DEF Merit, p, q
  <2>2. p.scoreFor - p.scoreAgainst <= q.scoreFor - q.scoreAgainst
    <3>1. p.scoreFor \in Int /\ p.scoreAgainst \in Int /\ q.scoreFor \in Int /\ q.scoreAgainst \in Int
      BY <1>1 DEF CountedRow
    <3>2. q.scoreFor >= p.scoreFor /\ q.scoreAgainst <= p.scoreAgainst
      BY <1>2 DEF AsGood
    <3> QED  BY <3>1, <3>2
  <2>3. /\ p.scoreFor - p.scoreAgainst \in Int /\ q.scoreFor - q.scoreAgainst \in Int
    <3>1. p.scoreFor \in Int /\ p.scoreAgainst \in Int /\ q.scoreFor \in Int /\ q.scoreAgainst \in Int
      BY <1>1 DEF CountedRow
    <3> QED  BY <3>1
  <2> QED  BY <1>2, <2>1, <2>2, <2>3 DEF AtMost
<1>5. CASE k # 0 /\ c # "confronto-direto"
  <2>1. /\ Merit(k, x, S, was, matches, r, res) = <<CriterionValue(c, was[x], p), 0>>
        /\ Merit(k, x, S, is, matches, r, new) = <<CriterionValue(c, is[x], q), 0>>
    BY <1>5 DEF Merit, p, q
  <2> DEFINE u == CriterionValue(c, was[x], p)  v == CriterionValue(c, is[x], q)
  <2>2. u <= v
    BY <1>1, <1>5, CriterionGrows
  <2>3. u \in Int /\ v \in Int
    BY <1>1, ValueTyped
  <2> HIDE DEF u, v
  <2>4. u < v \/ u = v
    BY <2>2, <2>3
  <2> QED  BY <2>1, <2>4 DEF AtMost, u, v
<1> QED  BY <1>3, <1>4, <1>5

\* What a favourable change leaves of the rows of a block: e has one as good as before, everybody else had.
RowsFavour(e, block, matches, r, res, new) ==
  /\ AsGood(Accumulate(block, matches, r, new)[e], Accumulate(block, matches, r, res)[e])
  /\ \A x \in block \ {e} : AsGood(Accumulate(block, matches, r, res)[x], Accumulate(block, matches, r, new)[x])

\* A change in favour of e does so, and leaves its points only if it leaves every winner.
LEMMA RowsFavoured ==
    ASSUME NEW e, NEW matches, NEW r, NEW res, NEW new, NEW m, NEW n, Changed(e, matches, res, new),
           IsRule(r), Scored(matches, res, m), Scored(matches, new, n),
           Tells(r, matches, res), Tells(r, matches, new), NEW block, e \in block
    PROVE  /\ RowsFavour(e, block, matches, r, res, new)
           /\ Accumulate(block, matches, r, new)[e].points = Accumulate(block, matches, r, res)[e].points
                => \A x : \A f \in MatchesIn(x, block, matches) : new[f].winner = res[f].winner
<1>1. RowGrows(e, MatchesIn(e, block, matches), Accumulate(block, matches, r, new)[e],
               Accumulate(block, matches, r, res)[e], res, new)
  <2>1. NoWorse(e, MatchesIn(e, block, matches), res, new)
    BY NobodyElse
  <2> QED  BY <2>1, CountsGrow
<1>2. ASSUME NEW x \in block \ {e}
      PROVE  AsGood(Accumulate(block, matches, r, res)[x], Accumulate(block, matches, r, new)[x])
  <2>1. NoWorse(x, MatchesIn(x, block, matches), new, res)
    BY NobodyElse
  <2>2. RowGrows(x, MatchesIn(x, block, matches), Accumulate(block, matches, r, res)[x],
                 Accumulate(block, matches, r, new)[x], new, res)
    BY <2>1, CountsGrow
  <2> QED  BY <2>2 DEF RowGrows
<1>3. ASSUME Accumulate(block, matches, r, new)[e].points = Accumulate(block, matches, r, res)[e].points, NEW x
      PROVE  \A f \in MatchesIn(x, block, matches) : new[f].winner = res[f].winner
  <2>1. /\ Won(e, MatchesIn(e, block, matches), res) = Won(e, MatchesIn(e, block, matches), new)
        /\ Drew(MatchesIn(e, block, matches), res) = Drew(MatchesIn(e, block, matches), new)
    BY <1>1, <1>3 DEF RowGrows
  <2> QED  BY <2>1, WinnersStay
<1> QED  BY <1>1, <1>2, <1>3 DEF RowGrows, RowsFavour

\* Who is above an entry after a change in its favour was above it before.
LEMMA AboveShrinks ==
    ASSUME NEW block, IsFiniteSet(block), block \subseteq Nat, NEW e \in block,
           NEW matches, NEW r, NEW res, NEW new, NEW m, NEW n,
           IsRule(r), HeadToHeadFirst(r), Scored(matches, res, m), Scored(matches, new, n),
           Tells(r, matches, res), Tells(r, matches, new), Changed(e, matches, res, new)
    PROVE  Above(e, block, Accumulate(block, matches, r, new), matches, r, new)
             \subseteq Above(e, block, Accumulate(block, matches, r, res), matches, r, res)
<1> DEFINE K == Len(Criteria(r))
           was == Accumulate(block, matches, r, res)
           is == Accumulate(block, matches, r, new)
           tied == TiedWith(e, block, was, matches, r, res)
           then == TiedWith(e, block, is, matches, r, new)
           old(k, x) == Merit(k, x, tied[k], was, matches, r, res)
           now(k, x) == Merit(k, x, then[k], is, matches, r, new)
<1>1. K \in Nat
  BY CriteriaAre
<1>2. Given(block, was, matches, r, res, m) /\ Given(block, is, matches, r, new, n)
  BY AccumulateTyped DEF Given
<1>3. RowsFavour(e, block, matches, r, res, new)
      /\ (is[e].points = was[e].points
            => \A x : \A f \in MatchesIn(x, block, matches) : new[f].winner = res[f].winner)
  BY RowsFavoured
<1>4. /\ Above(e, block, was, matches, r, res)
           = {d \in block : \/ \E k \in 0 .. K : d \in tied[k] /\ More(old(k, d), old(k, e))
                            \/ d \in tied[K + 1] /\ d < e}
      /\ Above(e, block, is, matches, r, new)
           = {d \in block : \/ \E k \in 0 .. K : d \in then[k] /\ More(now(k, d), now(k, e))
                            \/ d \in then[K + 1] /\ d < e}
  BY DEF Above
<1> HIDE DEF was, is
<1>5. Tied(e, block, was, matches, r, res, tied) /\ Tied(e, block, is, matches, r, new, then)
  BY <1>1, TiedWithIs
<1> HIDE DEF tied, then
<1>6. /\ tied[0] = block
      /\ \A k \in 0 .. K : tied[k + 1] = {d \in tied[k] : old(k, d) = old(k, e)}
      /\ \A k \in 0 .. K + 1 : e \in tied[k] /\ tied[k] \subseteq block
      /\ \A k \in 0 .. K + 1 : \A j \in k .. K + 1 : tied[j] \subseteq tied[k]
  BY <1>1, <1>5, TiedShrinks
<1>7. /\ then[0] = block
      /\ \A k \in 0 .. K : then[k + 1] = {d \in then[k] : now(k, d) = now(k, e)}
      /\ \A k \in 0 .. K + 1 : e \in then[k] /\ then[k] \subseteq block
      /\ \A k \in 0 .. K + 1 : \A j \in k .. K + 1 : then[j] \subseteq then[k]
  BY <1>1, <1>5, TiedShrinks
<1>8. /\ \A x : old(0, x) = <<was[x].points, 0>> /\ now(0, x) = <<is[x].points, 0>>
      /\ \A x \in block : was[x].points \in Int /\ is[x].points \in Int
  BY <1>2 DEF Merit, Given, CountedRow
<1>9. /\ \A x \in block \ {e} : AsGood(was[x], is[x]) /\ is[x].points <= was[x].points
      /\ AsGood(is[e], was[e]) /\ was[e].points <= is[e].points
  <2>1. AsGood(is[e], was[e]) /\ \A x \in block \ {e} : AsGood(was[x], is[x])
    BY <1>3 DEF RowsFavour, was, is
  <2> QED  BY <1>8, <2>1 DEF AsGood
<1>10. SUFFICES ASSUME NEW d \in block, d \in Above(e, block, is, matches, r, new)
                PROVE  d \in Above(e, block, was, matches, r, res)
  BY <1>4 DEF was, is
<1>11. (\E k \in 0 .. K : d \in then[k] /\ More(now(k, d), now(k, e))) \/ (d \in then[K + 1] /\ d < e)
  BY <1>4, <1>10
<1>12. \A k \in 0 .. K : \A x \in then[k] : now(k, x) \in Int \X Int
  <2> TAKE k \in 0 .. K
  <2> TAKE x \in then[k]
  <2>1. then[k] \in SUBSET block
    BY <1>1, <1>7
  <2> QED  BY <1>2, <2>1, MeritTyped
<1>13. d # e
  <2>1. \A k \in 0 .. K : ~ More(now(k, e), now(k, e))
    <3> TAKE k \in 0 .. K
    <3>1. now(k, e) \in Int \X Int
      BY <1>1, <1>7, <1>12
    <3> HIDE DEF now
    <3> QED  BY <3>1 DEF More
  <2>2. ~ (e < e)
    OBVIOUS
  <2> HIDE DEF now
  <2> QED  BY <1>11, <2>1, <2>2
<1> HIDE DEF K
<1>14. CASE was[e].points # is[e].points
  <2>1. is[d].points >= is[e].points
    <3>1. then[1] = {x \in then[0] : now(0, x) = now(0, e)}
      BY <1>1, <1>7
    <3>2. d \in then[1] => is[d].points = is[e].points
      BY <1>8, <3>1
    <3>3. \A k \in 1 .. K + 1 : d \in then[k] => d \in then[1]
      BY <1>1, <1>7
    <3>4. More(now(0, d), now(0, e)) => is[d].points >= is[e].points
      BY <1>8 DEF More
    <3>5. \A k \in 0 .. K : k = 0 \/ k \in 1 .. K + 1
      BY <1>1
    <3>6. K + 1 \in 1 .. K + 1 /\ is[e].points >= is[e].points
      BY <1>1, <1>8
    <3> HIDE DEF now
    <3> QED  BY <1>11, <3>2, <3>3, <3>4, <3>5, <3>6
  <2>2. was[d].points > was[e].points
    <3>1. is[d].points \in Int /\ was[d].points \in Int /\ is[e].points \in Int /\ was[e].points \in Int
      BY <1>8
    <3>2. is[d].points <= was[d].points /\ was[e].points <= is[e].points
      BY <1>9, <1>13
    <3> QED  BY <1>14, <2>1, <3>1, <3>2
  <2>3. More(old(0, d), old(0, e))
    BY <1>8, <2>2 DEF More
  <2>4. d \in tied[0] /\ 0 \in 0 .. K
    BY <1>1, <1>6
  <2> QED  BY <1>4, <2>3, <2>4 DEF K
<1>15. CASE was[e].points = is[e].points
  <2>1. \A x : \A f \in MatchesIn(x, block, matches) : new[f].winner = res[f].winner
    BY <1>3, <1>15
  <2>2. \A S \in SUBSET block : \A x \in S :
           Accumulate(S, matches, r, new)[x].points = Accumulate(S, matches, r, res)[x].points
    <3> TAKE S \in SUBSET block
    <3> TAKE x \in S
    <3>1. \A f \in MatchesIn(x, S, matches) : new[f].winner = res[f].winner
      BY <2>1 DEF MatchesIn
    <3> QED  BY <3>1, WinnersTell
  <2>3. \A x \in block : is[x].points = was[x].points
    BY <2>2 DEF was, is
  <2> DEFINE T == tied[1]
             S(k) == IF k = 1 THEN T ELSE block
             merit == [k \in 0 .. K |-> [x \in block |-> Merit(k, x, S(k), was, matches, r, res)]]
             worth == [k \in 0 .. K |-> [x \in block |-> Merit(k, x, S(k), is, matches, r, new)]]
  <2>4. then[1] = T /\ T \in SUBSET block /\ e \in T
    <3>1. then[1] = {x \in block : is[x].points = is[e].points}
          /\ tied[1] = {x \in block : was[x].points = was[e].points}
      <4>1. then[0 + 1] = {x \in block : now(0, x) = now(0, e)} /\ tied[0 + 1] = {x \in block : old(0, x) = old(0, e)}
        BY <1>1, <1>6, <1>7
      <4> QED  BY <1>8, <4>1
    <3> QED  BY <2>3, <3>1
  <2> HIDE DEF T
  <2>5. \A k \in 0 .. K : \A x \in block : merit[k][x] = old(k, x) /\ worth[k][x] = now(k, x)
    <3> TAKE k \in 0 .. K
    <3> TAKE x \in block
    <3>1. merit[k][x] = Merit(k, x, S(k), was, matches, r, res) /\ worth[k][x] = Merit(k, x, S(k), is, matches, r, new)
      OBVIOUS
    <3>2. CASE k = 1
      BY <2>4, <3>1, <3>2 DEF T
    <3>3. CASE k # 1
      BY <3>1, <3>3, MeritAlone DEF K
    <3> QED  BY <3>2, <3>3
  <2>6. \A k \in 0 .. K : e \in S(k) /\ S(k) \in SUBSET block /\ (d \in then[k] => d \in S(k))
    BY <1>1, <1>7, <2>4
  <2>7. \A k \in 0 .. K : d \in then[k] =>
           /\ merit[k][d] \in Int \X Int /\ worth[k][d] \in Int \X Int
           /\ merit[k][e] \in Int \X Int /\ worth[k][e] \in Int \X Int
           /\ AtMost(worth[k][d], merit[k][d]) /\ AtMost(merit[k][e], worth[k][e])
    <3> SUFFICES ASSUME NEW k \in 0 .. K, d \in then[k]
                 PROVE  /\ merit[k][d] \in Int \X Int /\ worth[k][d] \in Int \X Int
                        /\ merit[k][e] \in Int \X Int /\ worth[k][e] \in Int \X Int
                        /\ AtMost(worth[k][d], merit[k][d]) /\ AtMost(merit[k][e], worth[k][e])
      OBVIOUS
    <3> DEFINE Q == S(k)
    <3>1. e \in Q /\ d \in Q /\ Q \in SUBSET block
      BY <2>6
    <3>2. \A x \in Q : /\ merit[k][x] = Merit(k, x, Q, was, matches, r, res)
                       /\ worth[k][x] = Merit(k, x, Q, is, matches, r, new)
      BY <3>1
    <3> HIDE DEF Q, merit, worth
    <3>3. k \in 0 .. Len(Criteria(r))
      BY DEF K
    <3>4. \A x \in Q : merit[k][x] \in Int \X Int /\ worth[k][x] \in Int \X Int
      <4> TAKE x \in Q
      <4>1. Merit(k, x, Q, was, matches, r, res) \in Int \X Int
        BY <1>2, <3>1, <3>3, MeritTyped
      <4>2. Merit(k, x, Q, is, matches, r, new) \in Int \X Int
        BY <1>2, <3>1, <3>3, MeritTyped
      <4> QED  BY <3>2, <4>1, <4>2
    <3>5. RowsFavour(e, Q, matches, r, res, new)
      BY <3>1, RowsFavoured
    <3>6. AtMost(merit[k][e], worth[k][e])
      <4>1. AsGood(Accumulate(Q, matches, r, new)[e], Accumulate(Q, matches, r, res)[e])
        BY <3>5 DEF RowsFavour
      <4>2. AtMost(Merit(k, e, Q, was, matches, r, res), Merit(k, e, Q, is, matches, r, new))
        BY <1>2, <1>9, <2>2, <2>3, <3>1, <3>3, <4>1, MeritGrows
      <4> QED  BY <3>1, <3>2, <4>2
    <3>7. AtMost(worth[k][d], merit[k][d])
      <4>1. AsGood(Accumulate(Q, matches, r, res)[d], Accumulate(Q, matches, r, new)[d])
        BY <1>13, <3>1, <3>5 DEF RowsFavour
      <4>2. AsGood(was[d], is[d]) /\ was[d].points = is[d].points
            /\ Accumulate(Q, matches, r, res)[d].points = Accumulate(Q, matches, r, new)[d].points
        BY <1>9, <1>13, <2>2, <2>3, <3>1
      <4>3. AtMost(Merit(k, d, Q, is, matches, r, new), Merit(k, d, Q, was, matches, r, res))
        BY <1>2, <3>1, <3>3, <4>1, <4>2, MeritGrows
      <4> QED  BY <3>1, <3>2, <4>3
    <3> QED  BY <3>1, <3>4, <3>6, <3>7
  <2> HIDE DEF merit, worth, S
  <2>8. TiesBy(K, block, tied, merit, e) /\ TiesBy(K, block, then, worth, e)
    <3>1. \A k \in 0 .. K : k \in 0 .. K + 1
      BY <1>1
    <3>2. ASSUME NEW k \in 0 .. K
          PROVE  /\ tied[k + 1] = {x \in tied[k] : merit[k][x] = merit[k][e]}
                 /\ then[k + 1] = {x \in then[k] : worth[k][x] = worth[k][e]}
      <4>1. tied[k] \subseteq block /\ then[k] \subseteq block
        BY <1>6, <1>7, <3>1 DEF K
      <4>2. tied[k + 1] = {x \in tied[k] : old(k, x) = old(k, e)} /\ then[k + 1] = {x \in then[k] : now(k, x) = now(k, e)}
        BY <1>6, <1>7 DEF K
      <4> HIDE DEF old, now
      <4>3. e \in block /\ \A x \in block : merit[k][x] = old(k, x) /\ worth[k][x] = now(k, x)
        BY <2>5
      <4>4. \A x \in tied[k] : merit[k][x] = merit[k][e] <=> old(k, x) = old(k, e)
        BY <4>1, <4>3
      <4>5. \A x \in then[k] : worth[k][x] = worth[k][e] <=> now(k, x) = now(k, e)
        BY <4>1, <4>3
      <4>6. tied[k + 1] = {x \in tied[k] : merit[k][x] = merit[k][e]}
        BY <4>2, <4>4
      <4>7. then[k + 1] = {x \in then[k] : worth[k][x] = worth[k][e]}
        BY <4>2, <4>5
      <4> QED  BY <4>6, <4>7
    <3> QED  BY <1>6, <1>7, <3>2 DEF TiesBy
  <2>9. Ahead(K, then, worth, e, d)
    <3> HIDE DEF now, old
    <3>1. (\E k \in 0 .. K : d \in then[k] /\ More(now(k, d), now(k, e))) \/ (d \in then[K + 1] /\ d < e)
      BY <1>11 DEF K
    <3> QED  BY <2>5, <3>1 DEF Ahead
  <2>10. Ahead(K, tied, merit, e, d)
    BY <1>1, <2>7, <2>8, <2>9, AboveBefore
  <2>11. (\E k \in 0 .. K : d \in tied[k] /\ More(old(k, d), old(k, e))) \/ (d \in tied[K + 1] /\ d < e)
    <3> HIDE DEF old
    <3> QED  BY <2>5, <2>10 DEF Ahead
  <2> QED  BY <1>4, <2>11 DEF K
<1> QED  BY <1>14, <1>15

\* So its rank does not rise.
LEMMA RankStays ==
    ASSUME NEW block, IsFiniteSet(block), block \subseteq Nat, NEW e \in block,
           NEW matches, NEW r, NEW res, NEW new, NEW m, NEW n,
           IsRule(r), HeadToHeadFirst(r), Scored(matches, res, m), Scored(matches, new, n),
           Tells(r, matches, res), Tells(r, matches, new), Changed(e, matches, res, new)
    PROVE  ReferenceRank(e, block, matches, r, new) <= ReferenceRank(e, block, matches, r, res)
<1> DEFINE before == Above(e, block, Accumulate(block, matches, r, res), matches, r, res)
           after == Above(e, block, Accumulate(block, matches, r, new), matches, r, new)
<1>1. after \subseteq before
  BY AboveShrinks
<1>2. before \subseteq block
  BY DEF Above
<1>3. ReferenceRank(e, block, matches, r, new) = 1 + Cardinality(after)
      /\ ReferenceRank(e, block, matches, r, res) = 1 + Cardinality(before)
  BY DEF ReferenceRank
<1> HIDE DEF before, after
<1>4. IsFiniteSet(before) /\ IsFiniteSet(after)
  BY <1>1, <1>2, FS_Subset
<1>5. Cardinality(after) <= Cardinality(before) /\ Cardinality(after) \in Nat /\ Cardinality(before) \in Nat
  BY <1>1, <1>4, FS_Subset, FS_CardinalityType
<1> QED  BY <1>3, <1>5

\* An improvement of one result of e is a change that favours it.
LEMMA ImprovedChanges ==
    ASSUME StandingsInv, StandingsInv', layout' = layout,
           NEW f \in DOMAIN results, NEW e \in {f.home, f.away}, Improved(f, e),
           DOMAIN results' = DOMAIN results, \A g \in DOMAIN results : g # f => results'[g] = results[g],
           NEW matches, matches \subseteq DOMAIN results
    PROVE  Changed(e, matches, results, results')
<1> DEFINE new == results'
<1>1. \A g \in DOMAIN results : /\ g \in layout.matches /\ results[g] \in layout.outcomes[g]
                                /\ new[g] \in layout.outcomes[g]
  BY DEF StandingsInv, Recorded
<1>2. layout \in Layouts
  BY DEF StandingsInv
<1>3. \A g \in layout.matches : /\ g.home # g.away /\ Nobody \notin {g.home, g.away}
                                /\ \A o \in layout.outcomes[g] :
                                      /\ o.winner \in {g.home, g.away, Nobody}
                                      /\ {o.scoreA, o.scoreB, o.cardsA, o.cardsB} \subseteq Nat
  BY <1>2, LayoutAssumption DEF LayoutAssumption
<1> HIDE DEF new
<1>4. ASSUME NEW g \in matches, e \in {g.home, g.away} PROVE Favoured(g, e, results[g], new[g])
  <2>1. g \in DOMAIN results /\ g.home # g.away
    BY <1>1, <1>3
  <2>2. /\ {results[g].winner, new[g].winner} \subseteq {g.home, g.away, Nobody}
        /\ {results[g].scoreA, results[g].scoreB, results[g].cardsA, results[g].cardsB} \subseteq Nat
        /\ Nobody \notin {g.home, g.away}
    BY <1>1, <1>3
  <2>3. CASE g # f
    <3>1. new[g] = results[g]
      BY <2>1, <2>3 DEF new
    <3> QED  BY <2>2, <3>1 DEF Favoured
  <2>4. CASE g = f
    <3> DEFINE worth(w) == IF w = e THEN 2 ELSE IF w = Nobody THEN 1 ELSE 0
               x == results[f]
               y == new[f]
    <3>1. worth(y.winner) >= worth(x.winner)
      BY DEF Improved, new
    <3>2. x.winner = e => y.winner = e
      BY <3>1
    <3>3. x.winner = Nobody => y.winner \in {e, Nobody}
      BY <1>4, <2>2, <3>1
    <3>4. f.home = e => /\ x.scoreA <= y.scoreA /\ y.scoreB <= x.scoreB
                        /\ y.cardsA <= x.cardsA /\ x.cardsB <= y.cardsB
      BY <2>2, <2>4 DEF Improved, new
    <3>5. f.away = e => /\ x.scoreB <= y.scoreB /\ y.scoreA <= x.scoreA
                        /\ y.cardsB <= x.cardsB /\ x.cardsA <= y.cardsA
      BY <2>1, <2>2, <2>4 DEF Improved, new
    <3> QED  BY <2>2, <2>4, <3>2, <3>3, <3>4, <3>5 DEF Favoured
  <2> QED  BY <2>3, <2>4
<1>5. ASSUME NEW g \in matches, e \notin {g.home, g.away} PROVE new[g] = results[g]
  BY <1>5 DEF new
<1>6. \A g \in matches : g.home # g.away /\ Nobody \notin {g.home, g.away}
  BY <1>1, <1>3
<1> QED  BY <1>4, <1>5, <1>6 DEF Changed, new

\* A rule that rewards tells who won, for a decisive discipline records no draw.
LEMMA RewardingTells ==
    ASSUME layout \in Layouts, NEW r, Rewarding(r), NEW res, Recorded(res),
           config.discipline \in Decisive => Drawless(res), NEW matches, matches \subseteq DOMAIN res
    PROVE  Tells(r, matches, res)
<1>1. \A f \in matches : res[f].winner \in {f.home, f.away, Nobody}
  BY LayoutAssumption DEF LayoutAssumption, Recorded
<1>2. CASE config.discipline \in Decisive
  <2>1. \A f \in matches : res[f].winner \in {f.home, f.away}
    BY <1>1, <1>2 DEF Drawless
  <2> QED  BY <1>2, <2>1 DEF Rewarding, Tells
<1>3. CASE config.discipline \notin Decisive
  BY <1>3 DEF Rewarding, Tells
<1> QED  BY <1>2, <1>3

\* A recount after a correction in favour of e does not lower e.
LEMMA BetterResultStep ==
    ASSUME StandingsInv, StandingsInv', RankedByTheRegulation, RankedByTheRegulation',
           [StandingsNext]_standingsVars,
           NEW f \in DOMAIN results, NEW e \in {f.home, f.away} \cap DOMAIN table,
           results'[f] # results[f], counted'.rule = counted.rule,
           Rewarding(counted.rule), HeadToHeadFirst(counted.rule), Improved(f, e)
    PROVE  table'[e].rank <= table[e].rank
<1> DEFINE new == results'
           r == counted.rule
<1>1. /\ layout' = layout /\ config' = config /\ DOMAIN new = DOMAIN results
      /\ \A g \in DOMAIN results : g # f => new[g] = results[g]
  <2>1. ASSUME NEW g \in layout.matches, NEW o \in layout.outcomes[g], RecordResult(g, o)
        PROVE  /\ layout' = layout /\ config' = config /\ DOMAIN new = DOMAIN results
               /\ \A h \in DOMAIN results : h # f => new[h] = results[h]
    <3>1. new = [h \in DOMAIN results \cup {g} |-> IF h = g THEN o ELSE results[h]]
      BY <2>1 DEF RecordResult
    <3>2. g = f
      BY <3>1
    <3> QED  BY <2>1, <3>1, <3>2 DEF RecordResult
  <2>2. ASSUME NEW c \in layout.configs, RulesUpdate(c) PROVE FALSE
    BY <2>2 DEF RulesUpdate
  <2>3. CASE UNCHANGED standingsVars
    BY <2>3 DEF standingsVars
  <2> QED  BY <2>1, <2>2, <2>3 DEF StandingsNext
<1>2. /\ layout \in Layouts /\ Recorded(results) /\ Recorded(new) /\ IsRule(r)
      /\ counted.results = results /\ counted'.results = new /\ table = TableOf(r, results)
      /\ config.discipline \in Decisive => Drawless(results) /\ Drawless(new)
  BY <1>1 DEF StandingsInv, Recorded, Drawless
<1>3. PICK block \in Blocks : e \in block
  BY <1>2 DEF TableOf
<1> DEFINE matches == BlockMatches(block, results)
<1>4. matches \subseteq DOMAIN results /\ BlockMatches(block, new) = matches
  BY <1>1 DEF BlockMatches, MatchesOf
<1>5. table[e].rank = ReferenceRank(e, block, matches, r, results)
  BY <1>2, <1>3 DEF RankedByTheRegulation
<1>6. table'[e].rank = ReferenceRank(e, block, matches, r, new)
  <2>1. block \in Blocks'
    BY <1>1, <1>3 DEF Blocks, Grouped
  <2>2. BlockMatches(block, counted.results)' = BlockMatches(block, counted'.results)
    BY <1>1 DEF BlockMatches, MatchesOf, Grouped
  <2>3. table'[e].rank = ReferenceRank(e, block, BlockMatches(block, counted.results)', counted'.rule, counted'.results)
    BY <1>3, <2>1 DEF RankedByTheRegulation
  <2> QED  BY <1>2, <1>4, <2>2, <2>3
<1>7. PICK m : Scored(matches, results, m)
  BY <1>2, BlockScored
<1>8. PICK n : Scored(matches, new, n)
  BY <1>2, <1>4, BlockScored
<1>9. IsFiniteSet(block) /\ block \subseteq Nat
  BY <1>2, <1>3, BlocksAre
<1> HIDE DEF matches, new, r
<1>10. Changed(e, matches, results, new)
  BY <1>1, <1>4, ImprovedChanges DEF new
<1>11. Tells(r, matches, results) /\ Tells(r, matches, new)
  BY <1>1, <1>2, <1>4, RewardingTells DEF r
<1>12. ReferenceRank(e, block, matches, r, new) <= ReferenceRank(e, block, matches, r, results)
  BY <1>2, <1>3, <1>7, <1>8, <1>9, <1>10, <1>11, RankStays DEF r
<1> QED  BY <1>5, <1>6, <1>12

\* Correcting a result in favour of an entry never lowers it, whatever the block, the regulation
\* that rewards wins and compares the tied first or never, and the results already there.
THEOREM BetterResultNeverLowersHolds == StandingsSpec => BetterResultNeverLowers
<1>1. /\ StandingsInv /\ StandingsInv' /\ RankedByTheRegulation /\ RankedByTheRegulation'
      /\ [StandingsNext]_standingsVars
      => [\A f \in DOMAIN results : \A e \in {f.home, f.away} \cap DOMAIN table :
            results'[f] # results[f] /\ counted'.rule = counted.rule
              /\ Rewarding(counted.rule) /\ HeadToHeadFirst(counted.rule) /\ Improved(f, e)
            => table'[e].rank <= table[e].rank]_standingsVars
  BY BetterResultStep
<1> QED  BY <1>1, StandingsHold, RankedByTheRegulationHolds, PTL DEF StandingsSpec, BetterResultNeverLowers

=============================================================================
