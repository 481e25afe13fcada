--------------------------- MODULE EditionContext ---------------------------
(***************************************************************************)
(* Competitions and editions, which of them is active, and the revision    *)
(* each edition has: the bootstrap of an empty system, the actions of      *)
(* ContextActionHandler on competitions and editions, and the other        *)
(* actions reduced to what they change and whose revision they count.      *)
(*                                                                         *)
(* Every action runs alone in its serializable transaction (module         *)
(* ActionPipeline).  The bootstrap does not: it reads committed rows, and  *)
(* only the unique indexes on active rows stand behind it.  A name, a year *)
(* or the whole content of an edition is one of a few values.              *)
(***************************************************************************)
EXTENDS Integers

CONSTANTS
    Competition, Edition,
    Shared,         \* global rows that editions link: teams, athletes, disciplines
    Value,          \* what a row may say
    Year,
    Status,         \* what an edition may be said to be: in planning, under way...
    Active,         \* the route of the active edition
    NoEdition,
    MaxRevision     \* bound on the revision of an edition

ASSUME ValueAssumption == Value # {} /\ Year \subseteq Nat /\ Year # {}
ASSUME StatusAssumption == {"PLANNING", "ONGOING"} \subseteq Status
ASSUME RouteAssumption == Active \notin Edition /\ NoEdition \notin Edition
ASSUME RevisionAssumption == MaxRevision \in Nat

VARIABLES
    competition,    \* rows of competitions
    edition,        \* rows of competition_editions
    shared,         \* what the global rows say
    linked,         \* the global rows an edition shows
    promoted,       \* the second super administrator there may be
    counted         \* bootstraps that found no competition

context == <<competition, edition, shared, linked, promoted, counted>>

CompetitionRow == [here: BOOLEAN, active: BOOLEAN, name: Value]
EditionRow == [here: BOOLEAN, of: Competition, active: BOOLEAN, year: Year,
               status: Status, content: Value, revision: 0..MaxRevision]

ContextTypeOK ==
    /\ competition \in [Competition -> CompetitionRow]
    /\ edition \in [Edition -> EditionRow]
    /\ shared \in [Shared -> Value]
    /\ linked \in [Edition -> SUBSET Shared]
    /\ promoted \in BOOLEAN
    /\ counted \in 0..2

First == CHOOSE v \in Value : TRUE

ContextInit ==
    /\ competition = [c \in Competition |-> [here |-> FALSE, active |-> FALSE, name |-> First]]
    /\ \E c \in Competition, y \in Year :
         edition = [e \in Edition |-> [here |-> FALSE, of |-> c, active |-> FALSE,
                                       year |-> y, status |-> "PLANNING",
                                       content |-> First, revision |-> 0]]
    /\ shared = [x \in Shared |-> First]
    /\ linked = [e \in Edition |-> {}]
    /\ promoted = FALSE
    /\ counted = 0

Competitions == {c \in Competition : competition[c].here}
Editions == {e \in Edition : edition[e].here}
EditionsOf(c) == {e \in Editions : edition[e].of = c}

-----------------------------------------------------------------------------
(* ActiveEditionResolver.                                                  *)

ActiveCompetitions == {c \in Competitions : competition[c].active}
ActiveEditions(c) == {e \in EditionsOf(c) : edition[e].active}

Resolve(route) ==
    IF route # Active THEN IF route \in Editions THEN route ELSE NoEdition
    ELSE LET found == {e \in Edition : \E c \in Competition :
                          ActiveCompetitions = {c} /\ ActiveEditions(c) = {e}}
         IN  IF found # {} THEN CHOOSE e \in found : TRUE ELSE NoEdition

-----------------------------------------------------------------------------
(* What the mapper shows of an edition.                                    *)

Card(e) == [id |-> e, of |-> edition[e].of, active |-> edition[e].active,
            year |-> edition[e].year, status |-> edition[e].status]

Rows(e) == {<<x, shared[x]>> : x \in linked[e]}

Own(e) == [content |-> edition[e].content, rows |-> Rows(e)]

\* The accounts with the global flag, for the full scope alone.
SuperAdmins(variant) == variant = "full" /\ promoted

\* Everybody sees the edition asked for and its competition, the full scope all
\* of them and the super administrators.
View(e, variant) ==
    IF variant = "public"
    THEN [of |-> e, competitions |-> {<<edition[e].of, competition[edition[e].of]>>},
          editions |-> {Card(e)}, own |-> Own(e), promoted |-> SuperAdmins(variant)]
    ELSE [of |-> e, competitions |-> {<<c, competition[c]>> : c \in Competitions},
          editions |-> {Card(f) : f \in Editions}, own |-> Own(e), promoted |-> SuperAdmins(variant)]

-----------------------------------------------------------------------------
(* Activation, inside of an action: one competition and one edition of it. *)

CompetitionsWith(c) == [d \in Competition |-> [competition[d] EXCEPT !.active = (d = c)]]

\* The action counts in the revision of every edition affected.
Revised(rows, affected) ==
    [e \in Edition |-> IF e \in affected THEN [rows[e] EXCEPT !.revision = @ + 1] ELSE rows[e]]

EditionsWith(e) == [f \in Edition |-> [edition[f] EXCEPT !.active = (f = e)]]

NoRoom(affected) == \E e \in affected : edition[e].revision = MaxRevision

Affects(rows, affected) ==
    /\ ~NoRoom(affected)
    /\ edition' = Revised(rows, affected)

AffectsOne(rows, e) == Affects(rows, {e})

-----------------------------------------------------------------------------
(* Bootstrap of an empty system.                                           *)

\* count() of a transaction that reads what is committed.
BootstrapCount ==
    /\ Competitions = {}
    /\ counted < 2
    /\ counted' = counted + 1
    /\ UNCHANGED <<competition, edition, shared, linked, promoted>>

\* Mutant: there are no unique indexes on active rows.
AnyActive(competitions, editions) == TRUE

OneActive(competitions, editions) ==
    /\ \A c, d \in Competition : competitions[c].active /\ competitions[d].active => c = d
    /\ \A e, f \in Edition : editions[e].active /\ editions[f].active => e = f

Founded(c, e, y, status, active) ==
    /\ competition' = [(IF active THEN CompetitionsWith(c) ELSE competition)
                         EXCEPT ![c] = [here |-> TRUE, active |-> active, name |-> First]]
    /\ Affects([(IF active THEN EditionsWith(e) ELSE edition)
                  EXCEPT ![e] = [here |-> TRUE, of |-> c, active |-> active, year |-> y,
                                 status |-> status, content |-> First, revision |-> 0]],
               Editions \cup {e})

BootstrapCreate(c, e, y) ==
    /\ counted > 0
    /\ counted' = counted - 1
    /\ c \notin Competitions /\ e \notin Editions
    /\ LET competitions == [competition EXCEPT ![c] = [here |-> TRUE, active |-> TRUE, name |-> First]]
           editions == [edition EXCEPT ![e] = [here |-> TRUE, of |-> c, active |-> TRUE, year |-> y,
                                               status |-> "PLANNING", content |-> First,
                                               revision |-> 0]]
       IN  IF OneActive(competitions, editions)
             THEN competition' = competitions /\ edition' = editions
             ELSE UNCHANGED <<competition, edition>>
    /\ UNCHANGED <<shared, linked, promoted>>

-----------------------------------------------------------------------------
(* Actions of the super administrator.                                     *)

UniqueYear(e, c, y) == \A f \in EditionsOf(c) \ {e} : edition[f].year # y

CompetitionCreate(c, e, y, status, active) ==
    /\ Editions # {}
    /\ c \notin Competitions /\ e \notin Editions
    /\ Founded(c, e, y, status, active)
    /\ UNCHANGED <<shared, linked, promoted, counted>>

CompetitionRename(c, name) ==
    /\ c \in Competitions
    /\ competition' = [competition EXCEPT ![c].name = name]
    /\ Affects(edition, Editions)
    /\ UNCHANGED <<shared, linked, promoted, counted>>

Newest(c) == {e \in EditionsOf(c) : \A f \in EditionsOf(c) : edition[f].year <= edition[e].year}

\* The edition that is active already, or the newest of the competition.
CompetitionActivate(c) ==
    /\ \E e \in IF ActiveEditions(c) # {} THEN ActiveEditions(c) ELSE Newest(c) :
         Affects(EditionsWith(e), Editions)
    /\ competition' = CompetitionsWith(c)
    /\ UNCHANGED <<shared, linked, promoted, counted>>

EditionCreate(c, e, y, status, active) ==
    /\ c \in Competitions /\ e \notin Editions
    /\ UniqueYear(e, c, y)
    /\ competition' = IF active THEN CompetitionsWith(c) ELSE competition
    /\ Affects([(IF active THEN EditionsWith(e) ELSE edition)
                  EXCEPT ![e] = [here |-> TRUE, of |-> c, active |-> active, year |-> y,
                                 status |-> status, content |-> First, revision |-> 0]],
               Editions \cup {e})
    /\ UNCHANGED <<shared, linked, promoted, counted>>

\* The competition and the active flag cannot be patched.
EditionUpdate(e, y, status) ==
    /\ e \in Editions
    /\ UniqueYear(e, edition[e].of, y)
    /\ Affects([edition EXCEPT ![e].year = y, ![e].status = status], Editions)
    /\ UNCHANGED <<competition, shared, linked, promoted, counted>>

EditionActivate(e) ==
    /\ e \in Editions
    /\ competition' = CompetitionsWith(edition[e].of)
    /\ Affects(EditionsWith(e), Editions)
    /\ UNCHANGED <<shared, linked, promoted, counted>>

PromoteSuperAdmin ==
    /\ Editions # {}
    /\ promoted' = TRUE
    /\ Affects(edition, Editions)
    /\ UNCHANGED <<competition, shared, linked, counted>>

-----------------------------------------------------------------------------
(* Actions of an edition.                                                  *)

\* The recount of a category of which a match was played.
Recounted(status) == IF status = "PLANNING" THEN "ONGOING" ELSE status

\* Whatever names no edition but its own: categories, matches, ranking, rosters.
\* A result moves the edition out of planning.
EditionAction(e, v, played) ==
    /\ e \in Editions
    /\ AffectsOne([edition EXCEPT ![e].content = v,
                                  ![e].status = IF played THEN Recounted(@) ELSE @], e)
    /\ UNCHANGED <<competition, shared, linked, promoted, counted>>

\* team/create, team/attach, athlete/create, discipline/update of a missing one.
Link(e, x) ==
    /\ e \in Editions
    /\ linked' = [linked EXCEPT ![e] = @ \cup {x}]
    /\ AffectsOne(edition, e)
    /\ UNCHANGED <<competition, shared, promoted, counted>>

\* discipline/delete.
Unlink(e, x) ==
    /\ x \in linked[e]
    /\ linked' = [linked EXCEPT ![e] = @ \ {x}]
    /\ AffectsOne(edition, e)
    /\ UNCHANGED <<competition, shared, promoted, counted>>

Linking(x) == {e \in Edition : x \in linked[e]}

\* Mutant: only the edition of the route counts it.
SharedUpdateHere(e, x, v) ==
    /\ x \in linked[e]
    /\ shared' = [shared EXCEPT ![x] = v]
    /\ AffectsOne(edition, e)
    /\ UNCHANGED <<competition, linked, promoted, counted>>

\* team/update, athlete/update, discipline/update of what all editions share.
SharedUpdate(e, x, v) ==
    /\ x \in linked[e]
    /\ shared' = [shared EXCEPT ![x] = v]
    /\ Affects(edition, Linking(x))
    /\ UNCHANGED <<competition, linked, promoted, counted>>

ContextNext ==
    \/ BootstrapCount
    \/ \E c \in Competition, e \in Edition, y \in Year :
         \/ BootstrapCreate(c, e, y)
         \/ \E status \in Status, active \in BOOLEAN :
              CompetitionCreate(c, e, y, status, active) \/ EditionCreate(c, e, y, status, active)
    \/ \E c \in Competition : CompetitionActivate(c) \/ \E v \in Value : CompetitionRename(c, v)
    \/ PromoteSuperAdmin
    \/ \E e \in Edition :
         \/ EditionActivate(e)
         \/ \E y \in Year, status \in Status : EditionUpdate(e, y, status)
         \/ \E v \in Value, played \in BOOLEAN : EditionAction(e, v, played)
         \/ \E x \in Shared : Link(e, x) \/ Unlink(e, x) \/ \E v \in Value : SharedUpdate(e, x, v)

-----------------------------------------------------------------------------
(* Properties                                                              *)

\* As soon as there is an edition there is exactly one active one, and it is of
\* the one active competition, so that the route of the active edition always
\* resolves, however activations, creations and racing bootstraps follow each
\* other.
OneActivePair ==
    /\ Editions # {} => Resolve(Active) # NoEdition
    /\ \A e \in Editions : edition[e].active => e = Resolve(Active)

\* A snapshot but for whether another edition, in planning, has begun: the first
\* result of an edition writes that into the list of editions that every full
\* snapshot carries, and counts in its own revision alone.  A public snapshot
\* lists its own edition only, and nothing of it is left out.
Settled(view, variant) ==
    IF variant = "public" THEN view
    ELSE [view EXCEPT !.editions =
            {[card EXCEPT !.status = IF @ = "ONGOING" /\ card.id # view.of THEN "PLANNING" ELSE @] : card \in @}]

\* No action changes what a snapshot of an edition shows, public or full,
\* without counting in its revision, which the cache key and the ETag stand for,
\* but for what Settled leaves out.
RevisionTellsTheView ==
    [][\A e \in Editions :
         \/ edition'[e].revision > edition[e].revision
         \/ \A variant \in {"public", "full"} :
              Settled(View(e, variant), variant)' = Settled(View(e, variant), variant)]_context

\* It does not tell the whole view: refuted by the first result of another edition.
RevisionTellsAll ==
    [][\A e \in Editions :
         View(e, "full")' # View(e, "full") => edition'[e].revision > edition[e].revision]_context

=============================================================================
