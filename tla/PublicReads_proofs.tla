-------------------------- MODULE PublicReads_proofs --------------------------
(***************************************************************************)
(* Theorems about the active edition, the revisions and what reads keep,   *)
(* for any number of competitions, editions, shared rows, browsers and     *)
(* flights, and any bound on revisions.                                    *)
(*                                                                         *)
(* They build on each other.  Pair, which is inductive, gives the one      *)
(* active edition; with it a bootstrap that creates finds no edition, so   *)
(* that every step tells what it changes by a revision (Tells); hence a    *)
(* snapshot that is not of the current revision can never be confused with *)
(* one that is (CopiesAgree), and a single flight brings nothing older     *)
(* than what was shown (LiveNeverGoesBack).                                *)
(***************************************************************************)
EXTENDS PublicReads, TLAPS

-----------------------------------------------------------------------------
(* The active edition                                                      *)

PairOf(competitions, editions) ==
    /\ \A c \in Competition : competitions[c].active => competitions[c].here
    /\ \A e \in Edition : /\ editions[e].active => editions[e].here
                          /\ editions[e].here => competitions[editions[e].of].here
                          /\ editions[e].active => competitions[editions[e].of].active
                          /\ ~editions[e].here => editions[e].revision = 0
    /\ OneActive(competitions, editions)
    /\ (\E c \in Competition : competitions[c].here) \/ (\E e \in Edition : editions[e].here)
         => \E e \in Edition : editions[e].active

Pair == PairOf(competition, edition)

\* Only an edition that is there shows global rows.
LinkedHere == \A e \in Edition : linked[e] # {} => e \in Editions

ContextInv == ContextTypeOK /\ Pair /\ LinkedHere

\* The alias resolves to the active edition, wherever there is one.
LEMMA PairResolves ==
    ContextInv => OneActivePair
  <1> SUFFICES ASSUME ContextInv PROVE OneActivePair
    OBVIOUS
  <1> USE DEF ContextInv, ContextTypeOK, CompetitionRow, EditionRow
  <1>1. ASSUME NEW e \in Edition, edition[e].active PROVE Resolve(Active) = e
    <2> DEFINE c == edition[e].of
    <2>1. c \in Competition /\ competition[c].active /\ competition[c].here /\ edition[e].here
      BY <1>1 DEF Pair, PairOf
    <2>2. ActiveCompetitions = {c}
      BY <2>1 DEF ActiveCompetitions, Competitions, Pair, PairOf, OneActive
    <2>3. ActiveEditions(c) = {e}
      BY <1>1, <2>1 DEF ActiveEditions, EditionsOf, Editions, Pair, PairOf, OneActive
    <2>4. \A d \in Competition : ActiveCompetitions = {d} => d = c
      BY <2>2
    <2>5. {f \in Edition : \E d \in Competition :
             ActiveCompetitions = {d} /\ ActiveEditions(d) = {f}} = {e}
      BY <2>1, <2>2, <2>3, <2>4
    <2> QED
      BY <2>5 DEF Resolve
  <1>2. Editions # {} => \E e \in Edition : edition[e].active
    BY DEF Pair, PairOf, Editions
  <1>3. \A e \in Edition : e # NoEdition
    BY RouteAssumption
  <1> QED
    BY <1>1, <1>2, <1>3 DEF OneActivePair, Editions

-----------------------------------------------------------------------------
(* Steps                                                                   *)

\* The revision of a row changes without the rest.
LEMMA RevisionAlone ==
    ASSUME NEW row \in EditionRow, NEW k, NEW new, new = [row EXCEPT !.revision = k]
    PROVE  /\ new.here = row.here /\ new.of = row.of /\ new.active = row.active
           /\ new.year = row.year /\ new.status = row.status /\ new.content = row.content /\ new.revision = k
  BY DEF EditionRow

\* What counting in the revisions does to rows that have the revisions there
\* are.
LEMMA AffectsFields ==
    ASSUME ContextTypeOK, NEW rows \in [Edition -> EditionRow], NEW A \in SUBSET Edition,
           \A e \in Edition : rows[e].revision = edition[e].revision,
           Affects(rows, A)
    PROVE  /\ edition' \in [Edition -> EditionRow]
           /\ \A e \in Edition :
                /\ edition'[e].here = rows[e].here
                /\ edition'[e].of = rows[e].of
                /\ edition'[e].active = rows[e].active
                /\ edition'[e].year = rows[e].year
                /\ edition'[e].status = rows[e].status
                /\ edition'[e].content = rows[e].content
                /\ e \in A => edition'[e].revision = edition[e].revision + 1
                /\ e \notin A => edition'[e] = rows[e]
  <1>1. \A e \in Edition : edition[e].revision \in 0..MaxRevision
    BY DEF ContextTypeOK, EditionRow
  <1>2. \A e \in A : edition[e].revision + 1 \in 0..MaxRevision
    BY <1>1, RevisionAssumption DEF Affects, NoRoom
  <1>3. \A e \in Edition : edition'[e] = IF e \in A THEN [rows[e] EXCEPT !.revision = @ + 1]
                                                      ELSE rows[e]
    BY DEF Affects, Revised
  <1>4. edition' = [e \in Edition |-> edition'[e]]
    BY DEF Affects, Revised
  <1>5. ASSUME NEW e \in Edition, e \in A
        PROVE  /\ edition'[e] = [rows[e] EXCEPT !.revision = edition[e].revision + 1]
               /\ edition'[e] \in EditionRow
    <2>1. edition'[e] = [rows[e] EXCEPT !.revision = edition[e].revision + 1]
      BY <1>3, <1>5
    <2>2. rows[e] \in EditionRow
      OBVIOUS
    <2>3. [rows[e] EXCEPT !.revision = edition[e].revision + 1] \in EditionRow
      BY <2>2, <1>2, <1>5 DEF EditionRow
    <2> QED
      BY <2>1, <2>3
  <1>6. edition' \in [Edition -> EditionRow]
    BY <1>3, <1>4, <1>5
  <1>7. ASSUME NEW e \in Edition
        PROVE  /\ edition'[e].here = rows[e].here
               /\ edition'[e].of = rows[e].of
               /\ edition'[e].active = rows[e].active
               /\ edition'[e].year = rows[e].year
               /\ edition'[e].status = rows[e].status
               /\ edition'[e].content = rows[e].content
               /\ e \in A => edition'[e].revision = edition[e].revision + 1
               /\ e \notin A => edition'[e] = rows[e]
    <2>1. rows[e] \in EditionRow
      OBVIOUS
    <2>2. CASE e \in A
      <3>1. edition'[e] = [rows[e] EXCEPT !.revision = edition[e].revision + 1]
        BY <2>2, <1>5
      <3> QED
        BY <2>1, <2>2, <3>1, RevisionAlone
    <2>3. CASE e \notin A
      BY <2>3, <1>3
    <2> QED
      BY <2>2, <2>3
  <1> QED
    BY <1>6, <1>7

\* What the properties compare of a snapshot.
Shows(e, variant) == Settled(View(e, variant), variant)

\* No revision goes back, no edition disappears, and an edition whose revision
\* stays is shown as it was.
Tells ==
    /\ \A e \in Edition : edition'[e].revision >= edition[e].revision
    /\ \A e \in Editions :
         /\ edition'[e].here
         /\ \/ edition'[e].revision > edition[e].revision
            \/ \A variant \in {"public", "full"} : Shows(e, variant)' = Shows(e, variant)

\* What a step owes that writes rows and counts in some revisions.
LEMMA StepOf ==
    ASSUME ContextInv, NEW rows \in [Edition -> EditionRow], NEW A \in SUBSET Edition,
           \A e \in Edition : rows[e].revision = edition[e].revision,
           Affects(rows, A),
           competition' \in [Competition -> CompetitionRow],
           PairOf(competition', rows),
           \A e \in A \cup Editions : rows[e].here,
           shared' \in [Shared -> Value], linked' \in [Edition -> SUBSET Shared],
           promoted' \in BOOLEAN, counted' \in 0..2,
           \A e \in Edition : linked'[e] # {} => e \in A \cup Editions,
           \A e \in Editions \ A, variant \in {"public", "full"} :
             Shows(e, variant)' = Shows(e, variant)
    PROVE  ContextInv' /\ Tells
  <1>1. ContextTypeOK
    BY DEF ContextInv
  <1>2. /\ edition' \in [Edition -> EditionRow]
        /\ \A e \in Edition :
             /\ edition'[e].here = rows[e].here
             /\ edition'[e].of = rows[e].of
             /\ edition'[e].active = rows[e].active
             /\ e \in A => edition'[e].revision = edition[e].revision + 1
             /\ e \notin A => edition'[e].revision = edition[e].revision
    BY <1>1, AffectsFields
  <1>3. PairOf(competition', edition')
    BY <1>2 DEF PairOf, OneActive
  <1>4. \A e \in Edition : edition[e].revision \in Nat
    BY <1>1 DEF ContextTypeOK, EditionRow
  <1>5. Tells
    BY <1>2, <1>4 DEF Tells, Editions
  <1>6. LinkedHere'
    BY <1>2 DEF LinkedHere, Editions
  <1> QED
    BY <1>2, <1>3, <1>5, <1>6 DEF ContextInv, ContextTypeOK, Pair

\* A card as another edition's full snapshot is compared by.
CardFor(card, e) ==
    [card EXCEPT !.status = IF @ = "ONGOING" /\ card.id # e THEN "PLANNING" ELSE @]

Full(e, competitions, cards, own, super) ==
    [of |-> e, competitions |-> competitions, editions |-> cards, own |-> own, promoted |-> super]

\* What is compared of a full snapshot.
LEMMA SettledFull ==
    ASSUME NEW e, NEW competitions, NEW cards, NEW own, NEW super
    PROVE  Settled(Full(e, competitions, cards, own, super), "full") =
             Full(e, competitions, {CardFor(card, e) : card \in cards}, own, super)
  <1> DEFINE view == Full(e, competitions, cards, own, super)
  <1>1. view.of = e /\ view.editions = cards
    BY DEF Full
  <1>2. Settled(view, "full") = [view EXCEPT !.editions = {CardFor(card, e) : card \in @}]
    BY <1>1 DEF Settled, CardFor
  <1> QED
    BY <1>2 DEF Full

\* A snapshot depends on the rows of its edition and on the cards of all; that
\* another edition begins shows nowhere.
LEMMA SameView ==
    ASSUME NEW e \in Edition, NEW variant \in {"public", "full"},
           competition' = competition, promoted' = promoted, Rows(e)' = Rows(e),
           edition'[e].content = edition[e].content,
           \A f \in Edition :
             /\ edition'[f].here = edition[f].here
             /\ edition'[f].of = edition[f].of
             /\ edition'[f].active = edition[f].active
             /\ edition'[f].year = edition[f].year
             /\ \/ edition'[f].status = edition[f].status
                \/ f # e /\ edition[f].status = "PLANNING" /\ edition'[f].status = "ONGOING"
    PROVE  Shows(e, variant)' = Shows(e, variant)
  <1>1. Editions' = Editions /\ Editions \subseteq Edition
    BY DEF Editions
  <1>2. Card(e)' = Card(e)
    BY DEF Card
  <1>3. ASSUME NEW f \in Edition PROVE CardFor(Card(f), e)' = CardFor(Card(f), e)
    BY DEF Card, CardFor
  <1>5. Own(e)' = Own(e)
    BY DEF Own
  <1>6. {<<c, competition[c]>> : c \in Competitions}' = {<<c, competition[c]>> : c \in Competitions}
    BY DEF Competitions
  <1>7. SuperAdmins(variant)' = SuperAdmins(variant)
    BY DEF SuperAdmins
  <1>8. CASE variant = "full"
    <2> DEFINE cards == {Card(f) : f \in Editions}
               all == {<<c, competition[c]>> : c \in Competitions}
    <2>1. View(e, "full") = Full(e, all, cards, Own(e), SuperAdmins("full"))
      BY DEF View, Full
    <2>2. View(e, "full")' = Full(e, all', cards', Own(e)', SuperAdmins("full")')
      BY DEF View, Full
    <2>3. Shows(e, "full") = Full(e, all, {CardFor(card, e) : card \in cards}, Own(e), SuperAdmins("full"))
      BY <2>1, SettledFull DEF Shows
    <2>4. Shows(e, "full")' =
            Full(e, all', {CardFor(card, e) : card \in cards'}, Own(e)', SuperAdmins("full")')
      <3> HIDE DEF cards, all
      <3>1. Shows(e, "full")' = Settled(View(e, "full")', "full")
        BY DEF Shows, Settled
      <3> QED
        BY <2>2, <3>1, SettledFull
    <2>5. {CardFor(card, e) : card \in cards'} = {CardFor(card, e) : card \in cards}
      BY <1>1, <1>3
    <2> HIDE DEF cards
    <2> QED
      BY <1>5, <1>6, <1>7, <1>8, <2>3, <2>4, <2>5
  <1>9. CASE variant = "public"
    <2>1. View(e, "public")' = View(e, "public")
      BY <1>2, <1>5, <1>7, <1>9 DEF View
    <2>2. Shows(e, "public") = View(e, "public") /\ Shows(e, "public")' = View(e, "public")'
      BY DEF Shows, Settled
    <2> QED
      BY <1>9, <2>1, <2>2
  <1> QED
    BY <1>8, <1>9

\* Activating an edition with its competition leaves one pair.
LEMMA Activated ==
    ASSUME ContextInv, NEW e \in Editions
    PROVE  /\ EditionsWith(e) \in [Edition -> EditionRow]
           /\ CompetitionsWith(edition[e].of) \in [Competition -> CompetitionRow]
           /\ \A f \in Edition : /\ EditionsWith(e)[f].revision = edition[f].revision
                                 /\ EditionsWith(e)[f].here = edition[f].here
                                 /\ EditionsWith(e)[f].of = edition[f].of
                                 /\ EditionsWith(e)[f].active = (f = e)
           /\ \A c \in Competition : /\ CompetitionsWith(edition[e].of)[c].here = competition[c].here
                                    /\ CompetitionsWith(edition[e].of)[c].active = (c = edition[e].of)
           /\ PairOf(CompetitionsWith(edition[e].of), EditionsWith(e))
  <1>1. /\ edition \in [Edition -> EditionRow] /\ competition \in [Competition -> CompetitionRow]
        /\ e \in Edition /\ edition[e].here /\ edition[e].of \in Competition
        /\ competition[edition[e].of].here
    BY DEF ContextInv, ContextTypeOK, Pair, PairOf, Editions, EditionRow
  <1>2. \A f \in Edition : /\ EditionsWith(e)[f] \in EditionRow
                           /\ EditionsWith(e)[f].revision = edition[f].revision
                           /\ EditionsWith(e)[f].here = edition[f].here
                           /\ EditionsWith(e)[f].of = edition[f].of
                           /\ EditionsWith(e)[f].active = (f = e)
    BY <1>1 DEF EditionsWith, EditionRow
  <1>3. \A c \in Competition : /\ CompetitionsWith(edition[e].of)[c] \in CompetitionRow
                              /\ CompetitionsWith(edition[e].of)[c].here = competition[c].here
                              /\ CompetitionsWith(edition[e].of)[c].active = (c = edition[e].of)
    BY <1>1 DEF CompetitionsWith, CompetitionRow
  <1>4. EditionsWith(e) \in [Edition -> EditionRow]
    BY <1>2 DEF EditionsWith
  <1>5. CompetitionsWith(edition[e].of) \in [Competition -> CompetitionRow]
    BY <1>3 DEF CompetitionsWith
  <1>6. PairOf(CompetitionsWith(edition[e].of), EditionsWith(e))
    <2> DEFINE C == CompetitionsWith(edition[e].of)
               E == EditionsWith(e)
    <2>1. \A c \in Competition : C[c].active => C[c].here
      BY <1>1, <1>3
    <2>2. \A f \in Edition : /\ edition[f].here => competition[edition[f].of].here
                             /\ edition[f].of \in Competition
                             /\ ~edition[f].here => edition[f].revision = 0
      BY <1>1 DEF ContextInv, Pair, PairOf, EditionRow
    <2>3. \A f \in Edition : /\ E[f].active => E[f].here
                             /\ E[f].here => C[E[f].of].here
                             /\ E[f].active => C[E[f].of].active
                             /\ ~E[f].here => E[f].revision = 0
      BY <1>1, <1>2, <1>3, <2>2
    <2>4. OneActive(C, E)
      BY <1>2, <1>3 DEF OneActive
    <2>5. \E f \in Edition : E[f].active
      BY <1>1, <1>2
    <2> HIDE DEF C, E
    <2>6. PairOf(C, E)
      BY <2>1, <2>3, <2>4, <2>5 DEF PairOf
    <2> QED
      BY <2>6 DEF C, E
  <1> QED
    BY <1>2, <1>3, <1>4, <1>5, <1>6

\* The rows of editions with a new one, activated or not.
Opening(e, c, y, status, active) ==
    [(IF active THEN EditionsWith(e) ELSE edition)
       EXCEPT ![e] = [here |-> TRUE, of |-> c, active |-> active, year |-> y,
                      status |-> status, content |-> First, revision |-> 0]]

\* What is there and what is active when the new edition is of competition c.
OpenedIn(c, active, competitions) ==
    \A d \in Competition :
      /\ competitions[d].here <=> (d = c \/ competition[d].here)
      /\ active => (competitions[d].active <=> d = c)
      /\ ~active => (competitions[d].active <=> competition[d].active)

\* A new edition, activated or not, beside those there are.
LEMMA Opened ==
    ASSUME ContextInv, NEW e \in Edition, ~edition[e].here, NEW c \in Competition, NEW y \in Year, NEW status \in Status,
           NEW active \in BOOLEAN, \E f \in Edition : edition[f].active,
           NEW competitions, OpenedIn(c, active, competitions)
    PROVE  /\ Opening(e, c, y, status, active) \in [Edition -> EditionRow]
           /\ \A f \in Edition : Opening(e, c, y, status, active)[f].revision = edition[f].revision
           /\ \A f \in Editions \cup {e} : Opening(e, c, y, status, active)[f].here
           /\ PairOf(competitions, Opening(e, c, y, status, active))
  <1>1. /\ edition \in [Edition -> EditionRow]
        /\ edition[e].revision = 0
        /\ \A f \in Edition : edition[f].of \in Competition /\ edition[f] \in EditionRow
    BY DEF ContextInv, ContextTypeOK, Pair, PairOf, EditionRow
  <1>2. First \in Value /\ 0 \in 0..MaxRevision
    BY ValueAssumption, RevisionAssumption DEF First
  <1>3. \A f \in Edition : /\ EditionsWith(e)[f] \in EditionRow
                           /\ EditionsWith(e)[f].revision = edition[f].revision
                           /\ EditionsWith(e)[f].here = edition[f].here
                           /\ EditionsWith(e)[f].of = edition[f].of
                           /\ EditionsWith(e)[f].active = (f = e)
    BY <1>1 DEF EditionsWith, EditionRow
  <1>4. EditionsWith(e) \in [Edition -> EditionRow]
    BY <1>3 DEF EditionsWith
  <1> DEFINE base == IF active THEN EditionsWith(e) ELSE edition
             new == [here |-> TRUE, of |-> c, active |-> active, year |-> y,
                     status |-> status, content |-> First, revision |-> 0]
             rows == Opening(e, c, y, status, active)
  <1>5. base \in [Edition -> EditionRow]
    BY <1>1, <1>4
  <1>6. new \in EditionRow
    BY <1>2 DEF EditionRow
  <1>7. rows \in [Edition -> EditionRow] /\ rows[e] = new /\ \A f \in Edition \ {e} : rows[f] = base[f]
    BY <1>5, <1>6 DEF Opening
  <1>8. \A f \in Edition \ {e} : /\ rows[f].revision = edition[f].revision
                                /\ rows[f].here = edition[f].here
                                /\ rows[f].of = edition[f].of
                                /\ rows[f].active = IF active THEN FALSE ELSE edition[f].active
    <2> SUFFICES ASSUME NEW f \in Edition \ {e}
                 PROVE  /\ rows[f].revision = edition[f].revision
                        /\ rows[f].here = edition[f].here
                        /\ rows[f].of = edition[f].of
                        /\ rows[f].active = IF active THEN FALSE ELSE edition[f].active
      OBVIOUS
    <2>1. rows[f] = base[f]
      BY <1>7
    <2> HIDE DEF rows
    <2>2. CASE active
      <3>1. base[f] = EditionsWith(e)[f] /\ EditionsWith(e)[f].active = FALSE
        BY <1>3, <2>2
      <3> QED
        BY <1>3, <2>1, <2>2, <3>1
    <2>3. CASE ~active
      BY <2>1, <2>3
    <2> QED
      BY <2>2, <2>3
  <1>9. rows[e].here = TRUE /\ rows[e].of = c /\ rows[e].active = active /\ rows[e].revision = 0
    BY <1>7
  <1> HIDE DEF base, new, rows
  <1>10. PairOf(competitions, rows)
    <2>1. \A f \in Edition : /\ edition[f].active => edition[f].here
                             /\ edition[f].here => competition[edition[f].of].here
                             /\ edition[f].active => competition[edition[f].of].active
                             /\ ~edition[f].here => edition[f].revision = 0
      BY DEF ContextInv, Pair, PairOf
    <2>2. \A d \in Competition : competition[d].active => competition[d].here
      BY DEF ContextInv, Pair, PairOf
    <2>3. OneActive(competition, edition)
      BY DEF ContextInv, Pair, PairOf
    <2>4. \A d \in Competition : competitions[d].active => competitions[d].here
      BY <2>2 DEF OpenedIn
    <2>5. \A f \in Edition : /\ rows[f].active => rows[f].here
                             /\ rows[f].here => competitions[rows[f].of].here
                             /\ rows[f].active => competitions[rows[f].of].active
                             /\ ~rows[f].here => rows[f].revision = 0
      <3> SUFFICES ASSUME NEW f \in Edition
                   PROVE  /\ rows[f].active => rows[f].here
                          /\ rows[f].here => competitions[rows[f].of].here
                          /\ rows[f].active => competitions[rows[f].of].active
                          /\ ~rows[f].here => rows[f].revision = 0
        OBVIOUS
      <3>1. CASE f = e
        <4>1. competitions[c].here
          BY DEF OpenedIn
        <4>2. active => competitions[c].active
          BY DEF OpenedIn
        <4> QED
          BY <1>9, <3>1, <4>1, <4>2
      <3>2. CASE f # e
        <4>1. /\ rows[f].revision = edition[f].revision
              /\ rows[f].here = edition[f].here
              /\ rows[f].of = edition[f].of
              /\ rows[f].active = IF active THEN FALSE ELSE edition[f].active
          BY <1>8, <3>2
        <4>2. edition[f].of \in Competition
          BY <1>1
        <4>3. competition[edition[f].of].here => competitions[edition[f].of].here
          BY <4>2 DEF OpenedIn
        <4>4. ~active /\ competition[edition[f].of].active => competitions[edition[f].of].active
          BY <4>2 DEF OpenedIn
        <4>5. rows[f].active => ~active /\ edition[f].active
          BY <4>1
        <4> QED
          BY <2>1, <4>1, <4>3, <4>4, <4>5
      <3> QED
        BY <3>1, <3>2
    <2>6. OneActive(competitions, rows)
      <3>1. CASE active
        <4>1. \A d \in Competition : competitions[d].active => d = c
          BY <3>1 DEF OpenedIn
        <4>2. \A f \in Edition : rows[f].active => f = e
          BY <1>8, <3>1
        <4> QED
          BY <4>1, <4>2 DEF OneActive
      <3>2. CASE ~active
        <4>1. \A d \in Competition : competitions[d].active => competition[d].active
          BY <3>2 DEF OpenedIn
        <4>2. \A f \in Edition : rows[f].active => f # e /\ edition[f].active
          BY <1>8, <1>9, <3>2
        <4> QED
          BY <2>3, <4>1, <4>2 DEF OneActive
      <3> QED
        BY <3>1, <3>2
    <2>7. \E f \in Edition : rows[f].active
      BY <1>8, <1>9, <2>1
    <2> QED
      BY <2>4, <2>5, <2>6, <2>7 DEF PairOf
  <1>11. \A f \in Edition : rows[f].revision = edition[f].revision
    BY <1>1, <1>8, <1>9
  <1>12. \A f \in Editions \cup {e} : rows[f].here
    BY <1>8, <1>9 DEF Editions
  <1> QED
    BY <1>7, <1>10, <1>11, <1>12 DEF rows

\* Whatever leaves competitions and editions as they are but for what an
\* edition says or its year keeps the pair.
LEMMA PairStays ==
    ASSUME ContextInv, NEW competitions, NEW rows,
           \A c \in Competition : /\ competitions[c].here = competition[c].here
                                 /\ competitions[c].active = competition[c].active,
           \A e \in Edition : /\ rows[e].here = edition[e].here
                             /\ rows[e].of = edition[e].of
                             /\ rows[e].active = edition[e].active
                             /\ rows[e].revision = edition[e].revision
    PROVE  PairOf(competitions, rows)
  <1>1. \A e \in Edition : edition[e].of \in Competition
    BY DEF ContextInv, ContextTypeOK, EditionRow
  <1> QED
    BY <1>1 DEF ContextInv, Pair, PairOf, OneActive

\* Every action of the context keeps the pair and tells what it changes.
LEMMA ContextStep ==
    ContextInv /\ ContextNext => ContextInv' /\ Tells
  <1> SUFFICES ASSUME ContextInv, ContextNext PROVE ContextInv' /\ Tells
    OBVIOUS
  <1>1. /\ ContextTypeOK
        /\ edition \in [Edition -> EditionRow] /\ competition \in [Competition -> CompetitionRow]
        /\ shared \in [Shared -> Value] /\ linked \in [Edition -> SUBSET Shared]
        /\ promoted \in BOOLEAN /\ counted \in 0..2
    BY DEF ContextInv, ContextTypeOK
  <1>2. First \in Value
    BY ValueAssumption DEF First
  <1>3. /\ \A f \in Edition : edition[f].revision \in Nat /\ edition[f].of \in Competition
        /\ Editions \subseteq Edition /\ \A f \in Edition : f \in Editions <=> edition[f].here
        /\ \A f \in Edition : linked[f] # {} => f \in Editions
    BY <1>1 DEF EditionRow, Editions, ContextInv, LinkedHere
  <1>4. PairOf(competition, edition)
    BY DEF ContextInv, Pair
  <1>5. Editions # {} => \E f \in Edition : edition[f].active
    BY <1>3, <1>4 DEF PairOf
  <1>6. \A f \in Edition : edition[f].here => competition[edition[f].of].here
    BY <1>4 DEF PairOf
  <1>7. CASE BootstrapCount
    <2>1. UNCHANGED <<competition, edition, shared, linked, promoted>> /\ counted' \in 0..2
          /\ \A f \in Edition : linked'[f] # {} => f \in Editions \cup Editions
      BY <1>1, <1>3, <1>7 DEF BootstrapCount
    <2>2. ContextInv'
      BY <1>1, <2>1, <1>4 DEF ContextInv, ContextTypeOK, Pair, LinkedHere, Editions
    <2>3. \A e \in Editions, variant \in {"public", "full"} : Shows(e, variant)' = Shows(e, variant)
      BY <1>3, <2>1, SameView DEF Rows
    <2> QED
      BY <1>3, <2>1, <2>2, <2>3 DEF Tells
  <1>8. ASSUME NEW c \in Competition, NEW e \in Edition, NEW y \in Year, BootstrapCreate(c, e, y)
        PROVE  ContextInv' /\ Tells
    <2> DEFINE row == [here |-> TRUE, of |-> c, active |-> TRUE, year |-> y,
                       status |-> "PLANNING", content |-> First, revision |-> 0]
               competitions == [competition EXCEPT ![c] = [here |-> TRUE, active |-> TRUE, name |-> First]]
               editions == [edition EXCEPT ![e] = row]
    <2>1. /\ c \notin Competitions /\ e \notin Editions /\ counted' \in 0..2
          /\ UNCHANGED <<shared, linked, promoted>>
      BY <1>1, <1>8 DEF BootstrapCreate
    <2>2. CASE UNCHANGED <<competition, edition>>
      <3>1. ContextInv'
        BY <1>1, <1>4, <2>1, <2>2 DEF ContextInv, ContextTypeOK, Pair, LinkedHere, Editions
      <3>2. \A f \in Editions, variant \in {"public", "full"} : Shows(f, variant)' = Shows(f, variant)
        BY <1>3, <2>1, <2>2, SameView DEF Rows
      <3> QED
        BY <1>3, <2>2, <3>1, <3>2 DEF Tells
    <2>3. CASE /\ OneActive(competitions, editions)
               /\ competition' = competitions /\ edition' = editions
      <3>1. row \in EditionRow
        BY <1>2, RevisionAssumption, StatusAssumption DEF EditionRow
      <3>2. edition' \in [Edition -> EditionRow] /\ edition'[e] = row
            /\ \A f \in Edition \ {e} : edition'[f] = edition[f]
        BY <1>1, <2>3, <3>1
      <3>3. competition' \in [Competition -> CompetitionRow]
            /\ competition'[c].here /\ competition'[c].active
            /\ \A d \in Competition \ {c} : competition'[d] = competition[d]
        BY <1>1, <1>2, <2>3 DEF CompetitionRow
      <3>4. \A f \in Edition : ~edition[f].active
        <4> SUFFICES ASSUME NEW f \in Edition, edition[f].active PROVE FALSE
          OBVIOUS
        <4>1. f # e
          BY <1>3, <1>4, <2>1 DEF PairOf
        <4>2. edition'[f].active /\ edition'[e].active
          BY <3>2, <4>1
        <4> QED
          BY <2>3, <4>1, <4>2 DEF OneActive
      <3>5. /\ \A f \in Edition : ~edition[f].here
            /\ \A d \in Competition : ~competition[d].here
        BY <1>4, <3>4 DEF PairOf
      <3>6. \A f \in Edition : edition[f].revision = 0
        BY <1>4, <3>5 DEF PairOf
      <3>7. edition'[e].here /\ edition'[e].active /\ edition'[e].of = c /\ edition'[e].revision = 0
        BY <3>2
      <3>8. PairOf(competition', edition')
        <4>1. OneActive(competition', edition')
          BY <2>3
        <4>2. \A d \in Competition : competition'[d].active => competition'[d].here
          BY <1>4, <3>3 DEF PairOf
        <4>3. \A f \in Edition \ {e} : ~edition'[f].here /\ ~edition'[f].active /\ edition'[f].revision = 0
          BY <3>2, <3>4, <3>5, <3>6
        <4> QED
          BY <3>3, <3>7, <4>1, <4>2, <4>3 DEF PairOf
      <3>9. Tells
        <4>1. \A f \in Edition : edition'[f].revision = 0
          BY <3>2, <3>6, <3>7
        <4>2. Editions = {}
          BY <3>5 DEF Editions
        <4> QED
          BY <3>6, <4>1, <4>2 DEF Tells
      <3>10. \A f \in Edition : linked[f] = {}
        BY <1>3, <3>5
      <3> QED
        BY <1>1, <2>1, <3>2, <3>3, <3>8, <3>9, <3>10
           DEF ContextInv, ContextTypeOK, Pair, LinkedHere
    <2> QED
      BY <1>8, <2>2, <2>3 DEF BootstrapCreate
  <1>9. ASSUME NEW c \in Competition, NEW e \in Edition, NEW y \in Year,
               NEW status \in Status, NEW active \in BOOLEAN, CompetitionCreate(c, e, y, status, active)
        PROVE  ContextInv' /\ Tells
    <2> DEFINE rows == Opening(e, c, y, status, active)
    <2>1. /\ c \notin Competitions /\ ~edition[e].here /\ \E f \in Edition : edition[f].active
          /\ Affects(rows, Editions \cup {e}) /\ UNCHANGED <<shared, linked, promoted, counted>>
      BY <1>3, <1>5, <1>9 DEF CompetitionCreate, Founded, Opening
    <2>2. \A d \in Competition : /\ CompetitionsWith(c)[d] \in CompetitionRow
                                /\ CompetitionsWith(c)[d].here = competition[d].here
                                /\ CompetitionsWith(c)[d].active = (d = c)
      BY <1>1 DEF CompetitionsWith, CompetitionRow
    <2>3. CompetitionsWith(c) \in [Competition -> CompetitionRow]
      BY <2>2 DEF CompetitionsWith
    <2>4. ~competition[c].here /\ ~competition[c].active
      BY <1>4, <2>1 DEF Competitions, PairOf
    <2>5. [here |-> TRUE, active |-> active, name |-> First] \in CompetitionRow
      BY <1>2 DEF CompetitionRow
    <2>6. /\ competition' \in [Competition -> CompetitionRow]
          /\ competition'[c].here = TRUE /\ competition'[c].active = active
          /\ \A d \in Competition \ {c} :
               competition'[d] = IF active THEN CompetitionsWith(c)[d] ELSE competition[d]
      BY <1>1, <1>9, <2>3, <2>5 DEF CompetitionCreate, Founded
    <2>7. OpenedIn(c, active, competition')
      <3> SUFFICES ASSUME NEW d \in Competition
                   PROVE  /\ competition'[d].here <=> (d = c \/ competition[d].here)
                          /\ active => (competition'[d].active <=> d = c)
                          /\ ~active => (competition'[d].active <=> competition[d].active)
        BY DEF OpenedIn
      <3>1. competition[d].here \in BOOLEAN /\ competition[d].active \in BOOLEAN
        BY <1>1 DEF CompetitionRow
      <3>2. CASE d = c
        BY <2>4, <2>6, <3>1, <3>2
      <3>3. CASE d # c
        BY <2>2, <2>6, <3>1, <3>3
      <3> QED
        BY <3>2, <3>3
    <2> HIDE DEF rows
    <2>8. /\ rows \in [Edition -> EditionRow]
          /\ \A f \in Edition : rows[f].revision = edition[f].revision
          /\ \A f \in Editions \cup {e} : rows[f].here
          /\ PairOf(competition', rows)
      BY <2>1, <2>7, Opened DEF rows
    <2> QED
      BY <1>1, <1>3, <2>1, <2>6, <2>8, StepOf
  <1>10. ASSUME NEW c \in Competition, NEW e \in Edition, NEW y \in Year,
                NEW status \in Status, NEW active \in BOOLEAN, EditionCreate(c, e, y, status, active)
         PROVE  ContextInv' /\ Tells
    <2> DEFINE rows == Opening(e, c, y, status, active)
    <2>1. /\ competition[c].here /\ ~edition[e].here
          /\ Affects(rows, Editions \cup {e}) /\ UNCHANGED <<shared, linked, promoted, counted>>
          /\ competition' = IF active THEN CompetitionsWith(c) ELSE competition
      BY <1>3, <1>10 DEF EditionCreate, Competitions, Opening
    <2>2. \E f \in Edition : edition[f].active
      BY <1>4, <2>1 DEF PairOf
    <2>3. \A d \in Competition : /\ CompetitionsWith(c)[d] \in CompetitionRow
                                /\ CompetitionsWith(c)[d].here = competition[d].here
                                /\ CompetitionsWith(c)[d].active = (d = c)
      BY <1>1 DEF CompetitionsWith, CompetitionRow
    <2>4. CompetitionsWith(c) \in [Competition -> CompetitionRow]
      BY <2>3 DEF CompetitionsWith
    <2>5. OpenedIn(c, active, competition')
      <3> SUFFICES ASSUME NEW d \in Competition
                   PROVE  /\ competition'[d].here <=> (d = c \/ competition[d].here)
                          /\ active => (competition'[d].active <=> d = c)
                          /\ ~active => (competition'[d].active <=> competition[d].active)
        BY DEF OpenedIn
      <3>1. competition[d].here \in BOOLEAN /\ competition[d].active \in BOOLEAN
        BY <1>1 DEF CompetitionRow
      <3>2. competition'[d].here = competition[d].here
        BY <2>1, <2>3
      <3>3. competition'[d].active = IF active THEN d = c ELSE competition[d].active
        BY <2>1, <2>3
      <3> QED
        BY <2>1, <3>1, <3>2, <3>3
    <2> HIDE DEF rows
    <2>6. /\ rows \in [Edition -> EditionRow]
          /\ \A f \in Edition : rows[f].revision = edition[f].revision
          /\ \A f \in Editions \cup {e} : rows[f].here
          /\ PairOf(competition', rows)
      BY <2>1, <2>2, <2>5, Opened DEF rows
    <2>7. competition' \in [Competition -> CompetitionRow]
      BY <1>1, <2>1, <2>4
    <2> QED
      BY <1>1, <1>3, <2>1, <2>6, <2>7, StepOf
  <1>11. ASSUME NEW c \in Competition, CompetitionActivate(c)
         PROVE  ContextInv' /\ Tells
    <2>1. PICK e \in IF ActiveEditions(c) # {} THEN ActiveEditions(c) ELSE Newest(c) :
            Affects(EditionsWith(e), Editions)
      BY <1>11 DEF CompetitionActivate
    <2>2. e \in Editions /\ edition[e].of = c
      BY <2>1 DEF ActiveEditions, Newest, EditionsOf
    <2>3. competition' = CompetitionsWith(edition[e].of) /\ UNCHANGED <<shared, linked, promoted, counted>>
      BY <1>11, <2>2 DEF CompetitionActivate
    <2>4. /\ EditionsWith(e) \in [Edition -> EditionRow]
          /\ competition' \in [Competition -> CompetitionRow]
          /\ \A f \in Edition : /\ EditionsWith(e)[f].revision = edition[f].revision
                                /\ EditionsWith(e)[f].here = edition[f].here
          /\ PairOf(competition', EditionsWith(e))
      BY <2>2, <2>3, Activated
    <2>5. /\ Editions \in SUBSET Edition
          /\ \A f \in Editions \cup Editions : EditionsWith(e)[f].here
          /\ \A f \in Editions \ Editions, variant \in {"public", "full"} :
               Shows(f, variant)' = Shows(f, variant)
      BY <1>3, <2>4
    <2>6. shared' \in [Shared -> Value] /\ linked' \in [Edition -> SUBSET Shared]
          /\ promoted' \in BOOLEAN /\ counted' \in 0..2
          /\ \A f \in Edition : linked'[f] # {} => f \in Editions \cup Editions
      BY <1>1, <1>3, <2>3
    <2> QED
      BY <2>1, <2>4, <2>5, <2>6, StepOf
  <1>12. ASSUME NEW c \in Competition, NEW v \in Value, CompetitionRename(c, v)
         PROVE  ContextInv' /\ Tells
    <2>1. /\ competition' = [competition EXCEPT ![c].name = v] /\ Affects(edition, Editions)
          /\ UNCHANGED <<shared, linked, promoted, counted>>
      BY <1>12 DEF CompetitionRename
    <2>2. \A d \in Competition : /\ competition'[d] \in CompetitionRow
                                /\ competition'[d].here = competition[d].here
                                /\ competition'[d].active = competition[d].active
      BY <1>1, <2>1 DEF CompetitionRow
    <2>3. competition' \in [Competition -> CompetitionRow]
      BY <1>1, <2>1, <2>2
    <2>4. PairOf(competition', edition)
      BY <2>2, PairStays
    <2> QED
      BY <1>1, <1>3, <2>1, <2>3, <2>4, StepOf
  <1>13. CASE PromoteSuperAdmin
    <2>1. promoted' = TRUE /\ Affects(edition, Editions) /\ UNCHANGED <<competition, shared, linked, counted>>
      BY <1>13 DEF PromoteSuperAdmin
    <2> QED
      BY <1>1, <1>3, <1>4, <2>1, StepOf
  <1>14. ASSUME NEW e \in Edition, EditionActivate(e)
         PROVE  ContextInv' /\ Tells
    <2>1. /\ e \in Editions /\ competition' = CompetitionsWith(edition[e].of)
          /\ Affects(EditionsWith(e), Editions) /\ UNCHANGED <<shared, linked, promoted, counted>>
      BY <1>14 DEF EditionActivate
    <2>2. /\ EditionsWith(e) \in [Edition -> EditionRow]
          /\ competition' \in [Competition -> CompetitionRow]
          /\ \A f \in Edition : /\ EditionsWith(e)[f].revision = edition[f].revision
                                /\ EditionsWith(e)[f].here = edition[f].here
          /\ PairOf(competition', EditionsWith(e))
      BY <2>1, Activated
    <2>3. /\ Editions \in SUBSET Edition
          /\ \A f \in Editions \cup Editions : EditionsWith(e)[f].here
          /\ \A f \in Editions \ Editions, variant \in {"public", "full"} :
               Shows(f, variant)' = Shows(f, variant)
      BY <1>3, <2>2
    <2>4. shared' \in [Shared -> Value] /\ linked' \in [Edition -> SUBSET Shared]
          /\ promoted' \in BOOLEAN /\ counted' \in 0..2
          /\ \A f \in Edition : linked'[f] # {} => f \in Editions \cup Editions
      BY <1>1, <1>3, <2>1
    <2> QED
      BY <2>1, <2>2, <2>3, <2>4, StepOf
  <1>15. ASSUME NEW e \in Edition, NEW y \in Year, NEW status \in Status, EditionUpdate(e, y, status)
         PROVE  ContextInv' /\ Tells
    <2> DEFINE rows == [edition EXCEPT ![e].year = y, ![e].status = status]
    <2>1. Affects(rows, Editions) /\ UNCHANGED <<competition, shared, linked, promoted, counted>>
      BY <1>15 DEF EditionUpdate
    <2>2. \A f \in Edition : /\ rows[f] \in EditionRow
                             /\ rows[f].here = edition[f].here /\ rows[f].of = edition[f].of
                             /\ rows[f].active = edition[f].active
                             /\ rows[f].revision = edition[f].revision
      BY <1>1 DEF EditionRow
    <2>3. rows \in [Edition -> EditionRow]
      BY <1>1, <2>2
    <2> HIDE DEF rows
    <2>4. PairOf(competition, rows)
      BY <2>2, PairStays
    <2> QED
      BY <1>1, <1>3, <2>1, <2>2, <2>3, <2>4, StepOf
  <1>16. ASSUME NEW e \in Edition, NEW v \in Value, NEW played \in BOOLEAN, EditionAction(e, v, played)
         PROVE  ContextInv' /\ Tells
    <2> DEFINE rows == [edition EXCEPT ![e].content = v,
                                  ![e].status = IF played THEN Recounted(@) ELSE @]
    <2>1. Affects(rows, {e}) /\ e \in Editions /\ UNCHANGED <<competition, shared, linked, promoted, counted>>
      BY <1>16 DEF EditionAction, AffectsOne
    <2>2. \A f \in Edition : /\ rows[f] \in EditionRow
                             /\ rows[f].here = edition[f].here /\ rows[f].of = edition[f].of
                             /\ rows[f].active = edition[f].active /\ rows[f].year = edition[f].year
                             /\ rows[f].revision = edition[f].revision
                             /\ f # e => /\ rows[f].content = edition[f].content
                                         /\ rows[f].status = edition[f].status
                             /\ \/ rows[f].status = edition[f].status
                                \/ edition[f].status = "PLANNING" /\ rows[f].status = "ONGOING"
      BY <1>1, StatusAssumption DEF EditionRow, Recounted
    <2>3. rows \in [Edition -> EditionRow]
      BY <1>1, <2>2
    <2> HIDE DEF rows
    <2>4. PairOf(competition', rows)
      BY <2>1, <2>2, PairStays
    <2>5. \A f \in Edition : /\ edition'[f].here = rows[f].here /\ edition'[f].of = rows[f].of
                             /\ edition'[f].active = rows[f].active /\ edition'[f].year = rows[f].year
                             /\ edition'[f].status = rows[f].status
                             /\ edition'[f].content = rows[f].content
      BY <1>1, <2>1, <2>2, <2>3, AffectsFields
    <2>6. \A f \in Editions \ {e}, variant \in {"public", "full"} : Shows(f, variant)' = Shows(f, variant)
      BY <1>3, <2>1, <2>2, <2>5, SameView DEF Rows
    <2> QED
      BY <1>1, <1>3, <2>1, <2>2, <2>3, <2>4, <2>6, StepOf
  <1>17. ASSUME NEW A \in SUBSET Edition, Affects(edition, A), A \subseteq Editions,
                UNCHANGED <<competition, promoted, counted>>,
                shared' \in [Shared -> Value], linked' \in [Edition -> SUBSET Shared],
                \A f \in Edition : linked'[f] # {} => f \in Editions,
                \A f \in Editions \ A : Rows(f)' = Rows(f)
         PROVE  ContextInv' /\ Tells
    <2>1. PairOf(competition', edition)
      BY <1>4, <1>17
    <2>2. \A f \in Edition : /\ edition'[f].here = edition[f].here /\ edition'[f].of = edition[f].of
                             /\ edition'[f].active = edition[f].active /\ edition'[f].year = edition[f].year
                             /\ edition'[f].status = edition[f].status
                             /\ edition'[f].content = edition[f].content
      BY <1>1, <1>17, AffectsFields
    <2>3. \A f \in Editions \ A, variant \in {"public", "full"} : Shows(f, variant)' = Shows(f, variant)
      BY <1>3, <1>17, <2>2, SameView
    <2> QED
      BY <1>1, <1>3, <1>17, <2>1, <2>3, StepOf
  <1>18. ASSUME NEW e \in Edition, NEW x \in Shared, Link(e, x)
         PROVE  ContextInv' /\ Tells
    <2>1. /\ Affects(edition, {e}) /\ {e} \subseteq Editions /\ linked' = [linked EXCEPT ![e] = @ \cup {x}]
          /\ UNCHANGED <<competition, shared, promoted, counted>>
      BY <1>18 DEF Link, AffectsOne
    <2>2. /\ linked' \in [Edition -> SUBSET Shared] /\ \A f \in Edition \ {e} : linked'[f] = linked[f]
          /\ \A f \in Edition : linked'[f] # {} => f \in Editions
      BY <1>1, <1>3, <2>1
    <2>3. \A f \in Editions \ {e} : Rows(f)' = Rows(f)
      BY <1>3, <2>1, <2>2 DEF Rows
    <2> QED
      BY <1>1, <1>17, <2>1, <2>2, <2>3
  <1>19. ASSUME NEW e \in Edition, NEW x \in Shared, Unlink(e, x)
         PROVE  ContextInv' /\ Tells
    <2>1. /\ Affects(edition, {e}) /\ {e} \subseteq Editions /\ linked' = [linked EXCEPT ![e] = @ \ {x}]
          /\ UNCHANGED <<competition, shared, promoted, counted>>
      BY <1>3, <1>19 DEF Unlink, AffectsOne
    <2>2. /\ linked' \in [Edition -> SUBSET Shared] /\ \A f \in Edition \ {e} : linked'[f] = linked[f]
          /\ \A f \in Edition : linked'[f] # {} => f \in Editions
      BY <1>1, <1>3, <2>1
    <2>3. \A f \in Editions \ {e} : Rows(f)' = Rows(f)
      BY <1>3, <2>1, <2>2 DEF Rows
    <2> QED
      BY <1>1, <1>17, <2>1, <2>2, <2>3
  <1>20. ASSUME NEW e \in Edition, NEW x \in Shared, NEW v \in Value, SharedUpdate(e, x, v)
         PROVE  ContextInv' /\ Tells
    <2>1. /\ Affects(edition, Linking(x)) /\ shared' = [shared EXCEPT ![x] = v]
          /\ UNCHANGED <<competition, linked, promoted, counted>>
      BY <1>20 DEF SharedUpdate
    <2>2. Linking(x) \in SUBSET Edition /\ Linking(x) \subseteq Editions
      BY <1>3 DEF Linking
    <2>3. shared' \in [Shared -> Value] /\ \A y \in Shared \ {x} : shared'[y] = shared[y]
      BY <1>1, <2>1
    <2>4. ASSUME NEW f \in Editions \ Linking(x) PROVE Rows(f)' = Rows(f)
      <3>1. f \in Edition /\ x \notin linked[f] /\ linked[f] \subseteq Shared
        BY <1>1, <1>3 DEF Linking
      <3> QED
        BY <2>1, <2>3, <3>1 DEF Rows
    <2> QED
      BY <1>1, <1>3, <1>17, <2>1, <2>2, <2>3, <2>4
  <1> QED
    BY <1>7, <1>8, <1>9, <1>10, <1>11, <1>12, <1>13, <1>14, <1>15, <1>16, <1>18, <1>19, <1>20
       DEF ContextNext

-----------------------------------------------------------------------------
(* Reads                                                                   *)

Shape ==
    /\ reader = [r \in Reader |-> reader[r]]
    /\ \A r \in Reader : reader[r] = [at |-> reader[r].at, route |-> reader[r].route,
                                     key |-> reader[r].key, made |-> reader[r].made]
    /\ copy = [r \in Reader |-> copy[r]]

\* The snapshots that are kept anywhere, and what makes each a sound one.
Known == cache \cup {copy[r] : r \in {q \in Reader : copy[q] # Nothing}}
               \cup {reader[r].made : r \in {q \in Reader : reader[q].at = "made"}}

Sound(x) ==
    \E e \in Editions, variant \in {"public", "full"}, n \in Nat :
      /\ x.tag = [of |-> e, revision |-> n, variant |-> variant]
      /\ x.content.of = e
      /\ n <= edition[e].revision
      /\ n = edition[e].revision => Settled(x.content, variant) = Shows(e, variant)

\* What two snapshots of one tag have in common.
Same(x, y) == Settled(x.content, x.tag.variant) = Settled(y.content, x.tag.variant)

CopiesInv ==
    /\ \A x \in Known : Sound(x)
    /\ \A x, y \in Known : x.tag = y.tag => Same(x, y)

\* One flight of an edition at most, which starts when there is no entry and
\* brings nothing older than what was shown.
LiveInv ==
    \A e \in Spectated :
      /\ \/ flight[e] = {}
         \/ flight[e] = {Checking}
         \/ /\ live[e] = NoLive
            /\ \/ flight[e] = {Fetching}
               \/ \E n \in Nat : seen[e] <= n /\ n <= edition[About[e]].revision /\ flight[e] = {Fetched(n)}
      /\ live[e] # NoLive => seen[e] <= live[e] /\ live[e] <= edition[About[e]].revision
      /\ seen[e] <= edition[About[e]].revision

Inv == TypeOK /\ ContextInv /\ Shape /\ CopiesInv /\ LiveInv

LEMMA KnownIs ==
    \A x : x \in Known <=> \/ x \in cache
                           \/ \E r \in Reader : copy[r] # Nothing /\ x = copy[r]
                           \/ \E r \in Reader : reader[r].at = "made" /\ x = reader[r].made
  BY DEF Known

LEMMA InitInv ==
    Init => Inv
  <1> SUFFICES ASSUME Init PROVE Inv
    OBVIOUS
  <1>1. First \in Value
    BY ValueAssumption DEF First
  <1>2. /\ 0 \in 0..MaxRevision
        /\ \A c \in Competition : competition[c] = [here |-> FALSE, active |-> FALSE, name |-> First]
        /\ \A e \in Edition : /\ edition[e].here = FALSE /\ edition[e].active = FALSE
                              /\ edition[e].revision = 0
    BY RevisionAssumption DEF Init, ContextInit
  <1>3. ContextTypeOK
    <2>1. competition \in [Competition -> CompetitionRow]
      BY <1>1 DEF Init, ContextInit, CompetitionRow
    <2>2. edition \in [Edition -> EditionRow]
      BY <1>1, <1>2, StatusAssumption DEF Init, ContextInit, EditionRow
    <2>3. shared \in [Shared -> Value] /\ linked \in [Edition -> SUBSET Shared]
      BY <1>1 DEF Init, ContextInit
    <2>4. promoted = FALSE /\ counted = 0
      BY DEF Init, ContextInit
    <2>5. promoted \in BOOLEAN
      BY <2>4
    <2>6. counted \in 0..2
      BY <2>4
    <2> QED
      BY <2>1, <2>2, <2>3, <2>5, <2>6 DEF ContextTypeOK
  <1>4. Editions = {} /\ Competitions = {}
    BY <1>2 DEF Editions, Competitions
  <1>5. Pair /\ LinkedHere
    BY <1>2 DEF Init, ContextInit, Pair, PairOf, OneActive, LinkedHere
  <1>6. \A r \in Reader : reader[r] = Idle /\ copy[r] = Nothing
    BY DEF Init
  <1>7. Shape
    BY <1>6 DEF Init, Shape, Idle
  <1>8. Known = {}
    BY <1>6 DEF Init, Known, Idle
  <1>9. CopiesInv
    BY <1>8 DEF CopiesInv
  <1>10. LiveInv
    BY <1>2, SpectatedAssumption DEF Init, LiveInv, NoLive
  <1>11. TypeOK
    BY <1>2, <1>3, <1>6 DEF Init, TypeOK, Idle, NoLive
  <1> QED
    BY <1>3, <1>5, <1>7, <1>9, <1>10, <1>11 DEF Inv, ContextInv

\* What is kept stays sound while the context moves on.
LEMMA ContextKeepsReads ==
    Inv /\ ContextNext /\ UNCHANGED readVars => Inv'
  <1> SUFFICES ASSUME Inv, ContextNext, UNCHANGED readVars PROVE Inv'
    OBVIOUS
  <1>1. ContextInv' /\ Tells
    BY ContextStep DEF Inv
  <1>2. UNCHANGED <<cache, reader, copy, live, flight, seen>>
    BY DEF readVars
  <1>3. \A e \in Edition : edition[e].revision \in Nat /\ edition'[e].revision \in Nat
    BY <1>1 DEF Inv, ContextInv, ContextTypeOK, EditionRow
  <1>4. Known' = Known
    BY <1>2 DEF Known
  <1>5. ASSUME NEW x, Sound(x) PROVE Sound(x)'
    <2>1. PICK e \in Editions, variant \in {"public", "full"}, n \in Nat :
            /\ x.tag = [of |-> e, revision |-> n, variant |-> variant]
            /\ x.content.of = e
            /\ n <= edition[e].revision
            /\ n = edition[e].revision => Settled(x.content, variant) = Shows(e, variant)
      BY <1>5 DEF Sound
    <2>2. e \in Edition /\ e \in Editions'
      BY <1>1, <2>1 DEF Tells, Editions
    <2>3. n <= edition'[e].revision
      BY <1>1, <1>3, <2>1, <2>2 DEF Tells
    <2>4. n = edition'[e].revision => Settled(x.content, variant) = Shows(e, variant)'
      <3> SUFFICES ASSUME n = edition'[e].revision
                   PROVE  Settled(x.content, variant) = Shows(e, variant)'
        OBVIOUS
      <3>1. n = edition[e].revision /\ edition'[e].revision = edition[e].revision
        BY <1>1, <1>3, <2>1, <2>2 DEF Tells
      <3>2. Shows(e, variant)' = Shows(e, variant)
        BY <1>1, <1>3, <2>1, <2>2, <3>1 DEF Tells
      <3> QED
        BY <2>1, <3>1, <3>2
    <2> QED
      BY <2>1, <2>2, <2>3, <2>4 DEF Sound
  <1>6. CopiesInv'
    BY <1>4, <1>5 DEF Inv, CopiesInv
  <1>7. LiveInv'
    <2> SUFFICES ASSUME NEW e \in Spectated
                 PROVE  /\ \/ flight'[e] = {}
                           \/ flight'[e] = {Checking}
                           \/ /\ live'[e] = NoLive
                              /\ \/ flight'[e] = {Fetching}
                                 \/ \E n \in Nat : /\ seen'[e] <= n /\ n <= edition'[About[e]].revision
                                                    /\ flight'[e] = {Fetched(n)}
                        /\ live'[e] # NoLive => seen'[e] <= live'[e] /\ live'[e] <= edition'[About[e]].revision
                        /\ seen'[e] <= edition'[About[e]].revision
      BY DEF LiveInv
    <2>1. /\ About[e] \in Edition /\ edition[About[e]].revision \in Nat /\ edition'[About[e]].revision \in Nat
          /\ edition'[About[e]].revision >= edition[About[e]].revision
      BY <1>1, <1>3, SpectatedAssumption DEF Tells
    <2>2. seen[e] \in Nat /\ live[e] \in Int
      BY RevisionAssumption DEF Inv, TypeOK, NoLive
    <2> QED
      BY <1>2, <2>1, <2>2 DEF Inv, LiveInv
  <1> QED
    BY <1>1, <1>2, <1>6, <1>7 DEF Inv, ContextInv, TypeOK, Shape

\* A snapshot that is made now agrees with all there are.
LEMMA SnapshotFits ==
    ASSUME Inv, NEW e \in Editions, NEW variant \in {"public", "full"}
    PROVE  /\ Sound(Snapshot(e, variant))
           /\ \A y \in Known : y.tag = Snapshot(e, variant).tag => Same(y, Snapshot(e, variant))
  <1>1. e \in Edition /\ edition[e].revision \in Nat
    BY DEF Inv, ContextInv, ContextTypeOK, EditionRow, Editions
  <1>2. View(e, variant).of = e
    BY DEF View
  <1>3. /\ Snapshot(e, variant).tag = [of |-> e, revision |-> edition[e].revision, variant |-> variant]
        /\ Snapshot(e, variant).content = View(e, variant)
    BY DEF Snapshot, Tag
  <1>4. Sound(Snapshot(e, variant))
    BY <1>1, <1>2, <1>3 DEF Sound, Shows
  <1>5. ASSUME NEW y \in Known, y.tag = Snapshot(e, variant).tag
        PROVE  Same(y, Snapshot(e, variant))
    <2>1. PICK f \in Editions, other \in {"public", "full"}, n \in Nat :
            /\ y.tag = [of |-> f, revision |-> n, variant |-> other]
            /\ n = edition[f].revision => Settled(y.content, other) = Shows(f, other)
      <3>1. Sound(y)
        BY DEF Inv, CopiesInv
      <3> QED
        BY <3>1 DEF Sound
    <2>2. f = e /\ other = variant /\ n = edition[e].revision
      BY <1>3, <1>5, <2>1
    <2>3. y.tag.variant = variant /\ Settled(y.content, variant) = Shows(e, variant)
      BY <2>1, <2>2
    <2> QED
      BY <1>3, <2>3 DEF Same, Shows
  <1> QED
    BY <1>4, <1>5

\* What is kept grows by a snapshot made now, at most.
LEMMA KnownGrows ==
    ASSUME Inv, UNCHANGED context, NEW z,
           \A x \in Known' : x \in Known \/ x = z,
           z \in Known \/ \E e \in Editions, variant \in {"public", "full"} : z = Snapshot(e, variant)
    PROVE  CopiesInv'
  <1>1. UNCHANGED <<competition, edition, shared, linked, promoted, counted>>
    BY DEF context
  <1>2. \A x : Sound(x)' <=> Sound(x)
    BY <1>1 DEF Sound, Shows, Editions, View, Competitions, Card, Own, Rows, SuperAdmins
  <1>3. Sound(z) /\ \A y \in Known : y.tag = z.tag => Same(y, z)
    BY SnapshotFits DEF Inv, CopiesInv
  <1>4. \A x \in Known : Sound(x)
    BY DEF Inv, CopiesInv
  <1>5. \A x, y \in Known : x.tag = y.tag => Same(x, y)
    BY DEF Inv, CopiesInv
  <1>6. \A x \in Known' : Sound(x)'
    BY <1>2, <1>3, <1>4
  <1>7. ASSUME NEW x \in Known', NEW y \in Known', x.tag = y.tag PROVE Same(x, y)
    BY <1>3, <1>5, <1>7 DEF Same
  <1> QED
    BY <1>6, <1>7 DEF CopiesInv

\* A request moves on: whatever it made is the only new snapshot.
LEMMA ReaderMoves ==
    ASSUME Inv, NEW r \in Reader, NEW new, NEW z,
           reader' = [reader EXCEPT ![r] = new],
           new = [at |-> new.at, route |-> new.route, key |-> new.key, made |-> new.made],
           new.at \in {"idle", "resolved", "missed", "made"},
           new.at = "made" => new.made = z,
           copy' = copy \/ copy' = [copy EXCEPT ![r] = z] ,
           \A x \in cache' : x \in Known \/ x = z,
           UNCHANGED <<context, live, flight, seen>>,
           z \in Known \/ \E e \in Editions, variant \in {"public", "full"} : z = Snapshot(e, variant)
    PROVE  Inv'
  <1>1. UNCHANGED <<competition, edition, shared, linked, promoted, counted, live, flight, seen>>
    BY DEF context
  <1>2. reader'[r] = new /\ \A q \in Reader \ {r} : reader'[q] = reader[q]
    BY DEF Inv, Shape
  <1>3. \A q \in Reader : copy'[q] = copy[q] \/ copy'[q] = z
    BY DEF Inv, Shape
  <1>4. Shape'
    BY <1>2 DEF Inv, Shape
  <1>5. \A q \in Reader : reader'[q].at \in {"idle", "resolved", "missed", "made"}
    BY <1>2 DEF Inv, TypeOK
  <1>6. ASSUME NEW x \in Known' PROVE x \in Known \/ x = z
    <2>1. \/ x \in cache'
          \/ \E q \in Reader : copy'[q] # Nothing /\ x = copy'[q]
          \/ \E q \in Reader : reader'[q].at = "made" /\ x = reader'[q].made
      BY DEF Known
    <2>2. CASE \E q \in Reader : copy'[q] # Nothing /\ x = copy'[q]
      BY <1>3, <2>2, KnownIs
    <2>3. CASE \E q \in Reader : reader'[q].at = "made" /\ x = reader'[q].made
      BY <1>2, <2>3, KnownIs
    <2> QED
      BY <2>1, <2>2, <2>3
  <1>7. CopiesInv'
    BY <1>6, KnownGrows
  <1>8. LiveInv'
    BY <1>1 DEF Inv, LiveInv
  <1>9. TypeOK'
    BY <1>1, <1>5 DEF Inv, TypeOK, ContextTypeOK
  <1>10. ContextInv'
    BY <1>1 DEF Inv, ContextInv, ContextTypeOK, Pair, PairOf, OneActive, LinkedHere, Editions
  <1> QED
    BY <1>4, <1>7, <1>8, <1>9, <1>10 DEF Inv

\* A request moves on that made nothing.
LEMMA ReaderTurns ==
    ASSUME Inv, NEW r \in Reader, NEW new,
           reader' = [reader EXCEPT ![r] = new],
           new = [at |-> new.at, route |-> new.route, key |-> new.key, made |-> new.made],
           new.at \in {"idle", "resolved", "missed"},
           UNCHANGED <<context, cache, copy, live, flight, seen>>
    PROVE  Inv'
  <1>1. reader'[r] = new /\ \A q \in Reader \ {r} : reader'[q] = reader[q]
    BY DEF Inv, Shape
  <1>2. Shape'
    BY <1>1 DEF Inv, Shape
  <1>3. UNCHANGED <<competition, edition, shared, linked, promoted, counted>>
    BY DEF context
  <1>4. \A x : x \in Known' => x \in Known
    BY <1>1, KnownIs DEF Known
  <1>5. CopiesInv'
    <2>1. \A x : Sound(x)' <=> Sound(x)
      BY <1>3 DEF Sound, Shows, Editions, View, Competitions, Card, Own, Rows, SuperAdmins
    <2> QED
      BY <1>4, <2>1 DEF Inv, CopiesInv
  <1>6. LiveInv'
    BY <1>3 DEF Inv, LiveInv
  <1>7. TypeOK'
    BY <1>1, <1>3 DEF Inv, TypeOK, ContextTypeOK
  <1>8. ContextInv'
    BY <1>3 DEF Inv, ContextInv, ContextTypeOK, Pair, PairOf, OneActive, LinkedHere, Editions
  <1> QED
    BY <1>2, <1>5, <1>6, <1>7, <1>8 DEF Inv

\* What resolves is there.
LEMMA Resolved ==
    ASSUME NEW route, Resolve(route) # NoEdition PROVE Resolve(route) \in Editions
  <1>1. CASE route # Active
    BY <1>1 DEF Resolve
  <1>2. CASE route = Active
    <2> DEFINE found == {e \in Edition : \E c \in Competition :
                           ActiveCompetitions = {c} /\ ActiveEditions(c) = {e}}
    <2>1. found # {} /\ Resolve(route) = CHOOSE e \in found : TRUE
      BY <1>2 DEF Resolve
    <2>2. Resolve(route) \in found
      BY <2>1
    <2> QED
      BY <2>2 DEF ActiveEditions, EditionsOf
  <1> QED
    BY <1>1, <1>2

\* An answer leaves the request idle, and a copy that is kept or sent.
LEMMA Answered ==
    ASSUME Inv, NEW r \in Reader, NEW z, Answer(r, z),
           \A x \in cache' : x \in Known \/ x = z,
           UNCHANGED <<context, live, flight, seen>>,
           z \in Known \/ \E e \in Editions, variant \in {"public", "full"} : z = Snapshot(e, variant)
    PROVE  Inv'
  <1>1. /\ Idle = [at |-> Idle.at, route |-> Idle.route, key |-> Idle.key, made |-> Idle.made]
        /\ Idle.at = "idle"
    BY DEF Idle
  <1>2. reader' = [reader EXCEPT ![r] = Idle]
    BY DEF Answer
  <1>3. copy' = copy \/ copy' = [copy EXCEPT ![r] = z]
    <2>1. copy = [q \in Reader |-> copy[q]]
      BY DEF Inv, Shape
    <2>2. CASE copy[r] # Nothing /\ copy[r].tag = z.tag
      <3>1. copy' = [copy EXCEPT ![r] = copy[r]]
        BY <2>2 DEF Answer
      <3> QED
        BY <2>1, <3>1
    <2>3. CASE ~(copy[r] # Nothing /\ copy[r].tag = z.tag)
      BY <2>3 DEF Answer
    <2> QED
      BY <2>2, <2>3
  <1> QED
    BY <1>1, <1>2, <1>3, ReaderMoves

\* Reads of snapshots keep the invariant.
LEMMA ReaderStep ==
    ASSUME Inv, NEW r \in Reader,
           \/ \E route \in Edition \cup {Active} : ResolveForCache(r, route) \/ PrivateSnapshot(r, route)
           \/ ReadPublicCache(r) \/ Generate(r) \/ WritePublicCache(r)
    PROVE  Inv' /\ UNCHANGED <<context, seen>>
  <1>1. ASSUME NEW route, ResolveForCache(r, route) PROVE Inv' /\ UNCHANGED <<context, seen>>
    <2> DEFINE new == [at |-> "resolved", route |-> route,
                       key |-> Tag(Resolve(route), "public"), made |-> Nothing]
    <2>1. reader' = [reader EXCEPT ![r] = new] /\ UNCHANGED <<context, cache, copy, live, flight, seen>>
      BY <1>1 DEF ResolveForCache
    <2>2. new = [at |-> new.at, route |-> new.route, key |-> new.key, made |-> new.made] /\ new.at = "resolved"
      OBVIOUS
    <2> HIDE DEF new
    <2> QED
      BY <2>1, <2>2, ReaderTurns
  <1>2. ASSUME NEW route, PrivateSnapshot(r, route) PROVE Inv' /\ UNCHANGED <<context, seen>>
    <2> DEFINE z == Snapshot(Resolve(route), "full")
    <2>1. Answer(r, z) /\ UNCHANGED <<context, cache, live, flight, seen>>
      BY <1>2 DEF PrivateSnapshot
    <2>2. Resolve(route) \in Editions
      BY <1>2, Resolved DEF PrivateSnapshot
    <2>3. \E e \in Editions, variant \in {"public", "full"} : z = Snapshot(e, variant)
      BY <2>2
    <2>4. \A x \in cache' : x \in Known
      BY <2>1, KnownIs
    <2> HIDE DEF z
    <2> QED
      BY <2>1, <2>3, <2>4, Answered
  <1>3. CASE ReadPublicCache(r)
    <2>1. UNCHANGED <<context, cache, live, flight, seen>>
      BY <1>3 DEF ReadPublicCache
    <2>2. \A x \in cache' : x \in Known
      BY <2>1, KnownIs
    <2>3. ASSUME NEW x \in cache, Answer(r, x) PROVE Inv'
      <3>1. x \in Known
        BY KnownIs
      <3> QED
        BY <2>1, <2>2, <2>3, <3>1, Answered
    <2>4. ASSUME reader' = [reader EXCEPT ![r].at = "missed"], UNCHANGED copy
          PROVE  Inv'
      <3> DEFINE new == [at |-> "missed", route |-> reader[r].route, key |-> reader[r].key,
                         made |-> reader[r].made]
      <3>1. reader[r] = [at |-> reader[r].at, route |-> reader[r].route,
                         key |-> reader[r].key, made |-> reader[r].made]
        BY DEF Inv, Shape
      <3>2. [reader[r] EXCEPT !.at = "missed"] = new
        BY <3>1
      <3>3. reader' = [reader EXCEPT ![r] = new]
        BY <2>4, <3>2
      <3>4. new = [at |-> new.at, route |-> new.route, key |-> new.key, made |-> new.made] /\ new.at = "missed"
        OBVIOUS
      <3> HIDE DEF new
      <3> QED
        BY <2>1, <2>4, <3>3, <3>4, ReaderTurns
    <2> QED
      BY <1>3, <2>1, <2>3, <2>4 DEF ReadPublicCache
  <1>4. CASE Generate(r)
    <2> DEFINE e == Resolve(reader[r].route)
               z == Snapshot(e, "public")
               new == [at |-> "made", route |-> reader[r].route, key |-> reader[r].key, made |-> z]
    <2>1. UNCHANGED <<context, cache, copy, live, flight, seen>>
      BY <1>4 DEF Generate
    <2>2. \A x \in cache' : x \in Known
      BY <2>1, KnownIs
    <2>3. CASE e = NoEdition
      <3>1. /\ Idle = [at |-> Idle.at, route |-> Idle.route, key |-> Idle.key, made |-> Idle.made]
            /\ Idle.at = "idle"
        BY DEF Idle
      <3>2. reader' = [reader EXCEPT ![r] = Idle]
        BY <1>4, <2>3 DEF Generate
      <3> QED
        BY <2>1, <3>1, <3>2, ReaderTurns
    <2>4. CASE e # NoEdition
      <3>1. e \in Editions
        BY <2>4, Resolved
      <3>6. reader' = [reader EXCEPT ![r] = new]
        BY <1>4, <2>4 DEF Generate
      <3>7. /\ new = [at |-> new.at, route |-> new.route, key |-> new.key, made |-> new.made]
            /\ new.at = "made" /\ new.made = z
        OBVIOUS
      <3>8. \E f \in Editions, variant \in {"public", "full"} : z = Snapshot(f, variant)
        BY <3>1
      <3> HIDE DEF new, z
      <3> QED
        BY <2>1, <2>2, <3>6, <3>7, <3>8, ReaderMoves
    <2> QED
      BY <2>3, <2>4
  <1>5. CASE WritePublicCache(r)
    <2> DEFINE z == reader[r].made
    <2>1. /\ reader[r].at = "made" /\ cache' \in {cache, Keep(z)} /\ Answer(r, z)
          /\ UNCHANGED <<context, live, flight, seen>>
      BY <1>5 DEF WritePublicCache, KeyGenerated
    <2>2. z \in Known
      BY <2>1, KnownIs
    <2>3. \A x \in cache' : x \in Known
      BY <2>1, <2>2, KnownIs DEF Keep
    <2> HIDE DEF z
    <2> QED
      BY <2>1, <2>2, <2>3, Answered
  <1> QED
    BY <1>1, <1>2, <1>3, <1>4, <1>5

\* The steps of a flight and of its cache keep the invariant, and none shows
\* less than was shown.
LEMMA LiveStep ==
    ASSUME Inv, NEW e \in Spectated,
           \/ LiveHit(e) \/ Fly(e) \/ DoubleCheck(e) \/ Fetch(e) \/ SetLive(e)
           \/ FailFlight(e) \/ ExpireLive(e)
    PROVE  /\ Inv' /\ UNCHANGED context
           /\ \A f \in Spectated : seen'[f] >= seen[f]
  <1>1. UNCHANGED <<context, cache, reader, copy>>
    BY DEF LiveHit, Fly, DoubleCheck, Fetch, SetLive, FailFlight, ExpireLive
  <1>2. UNCHANGED <<competition, edition, shared, linked, promoted, counted>>
    BY <1>1 DEF context
  <1>3. /\ live \in [Spectated -> {NoLive} \cup 0..MaxRevision]
        /\ flight \in [Spectated -> SUBSET Flight]
        /\ seen \in [Spectated -> 0..MaxRevision]
    BY DEF Inv, TypeOK
  <1>4. /\ About[e] \in Edition /\ edition[About[e]].revision \in 0..MaxRevision /\ MaxRevision \in Nat
    BY SpectatedAssumption, RevisionAssumption DEF Inv, ContextInv, ContextTypeOK, EditionRow
  <1>5. /\ Checking \in Flight /\ Fetching \in Flight
        /\ \A n \in 0..MaxRevision : Fetched(n) \in Flight
    BY DEF Flight, Checking, Fetching, Fetched
  <1>6. /\ Checking # Fetching
        /\ \A n : Fetched(n) # Checking /\ Fetched(n) # Fetching
        /\ \A n : Fetched(n).at = "set" /\ Fetched(n).brings = n
        /\ Checking.at = "check" /\ Fetching.at = "fetch"
    BY DEF Checking, Fetching, Fetched
  <1> DEFINE Good(fl, lv, sn) ==
               /\ \/ fl = {}
                  \/ fl = {Checking}
                  \/ /\ lv = NoLive
                     /\ \/ fl = {Fetching}
                        \/ \E n \in Nat : sn <= n /\ n <= edition[About[e]].revision /\ fl = {Fetched(n)}
               /\ lv # NoLive => sn <= lv /\ lv <= edition[About[e]].revision
               /\ sn <= edition[About[e]].revision
  <1>7. Good(flight[e], live[e], seen[e])
    BY DEF Inv, LiveInv
  <1>8. ASSUME NEW fl \in SUBSET Flight, NEW lv \in {NoLive} \cup 0..MaxRevision, NEW sn \in 0..MaxRevision,
               flight' = [flight EXCEPT ![e] = fl], live' = [live EXCEPT ![e] = lv],
               seen' = [seen EXCEPT ![e] = sn],
               Good(fl, lv, sn), sn >= seen[e]
        PROVE  Inv' /\ \A f \in Spectated : seen'[f] >= seen[f]
    <2>1. /\ flight'[e] = fl /\ live'[e] = lv /\ seen'[e] = sn
          /\ \A f \in Spectated \ {e} : /\ flight'[f] = flight[f] /\ live'[f] = live[f]
                                        /\ seen'[f] = seen[f]
      BY <1>3, <1>8
    <2>2. LiveInv'
      BY <1>2, <1>8, <2>1 DEF Inv, LiveInv
    <2>3. TypeOK'
      BY <1>1, <1>2, <1>3, <1>8 DEF Inv, TypeOK, ContextTypeOK
    <2>4. Known' = Known
      BY <1>1 DEF Known
    <2>5. CopiesInv'
      <3>1. \A x : Sound(x)' <=> Sound(x)
        BY <1>2 DEF Sound, Shows, Editions, View, Competitions, Card, Own, Rows, SuperAdmins
      <3> QED
        BY <2>4, <3>1 DEF Inv, CopiesInv
    <2>6. ContextInv' /\ Shape'
      BY <1>1, <1>2 DEF Inv, Shape, ContextInv, ContextTypeOK, Pair, PairOf, OneActive, LinkedHere, Editions
    <2>7. \A f \in Spectated : seen'[f] >= seen[f]
      BY <1>3, <1>8, <2>1
    <2> QED
      BY <2>2, <2>3, <2>5, <2>6, <2>7 DEF Inv
  <1>9. flight = [flight EXCEPT ![e] = flight[e]] /\ live = [live EXCEPT ![e] = live[e]]
        /\ seen = [seen EXCEPT ![e] = seen[e]]
    BY <1>3
  <1>10. /\ flight[e] \in SUBSET Flight /\ live[e] \in {NoLive} \cup 0..MaxRevision
         /\ seen[e] \in 0..MaxRevision
    BY <1>3
  <1> HIDE DEF Good
  <1>11. CASE LiveHit(e)
    <2>1. live[e] # NoLive /\ seen' = [seen EXCEPT ![e] = live[e]] /\ UNCHANGED <<live, flight>>
      BY <1>11 DEF LiveHit, Serve
    <2>2. live[e] \in 0..MaxRevision /\ live[e] >= seen[e]
      BY <1>7, <1>10, <2>1 DEF Good
    <2>3. Good(flight[e], live[e], live[e])
      BY <1>4, <1>7, <2>1, <2>2 DEF Good
    <2> QED
      BY <1>1, <1>8, <1>9, <1>10, <2>1, <2>2, <2>3
  <1>12. CASE Fly(e)
    <2>1. flight' = [flight EXCEPT ![e] = {Checking}] /\ UNCHANGED <<live, seen>>
      BY <1>12 DEF Fly
    <2>2. Good({Checking}, live[e], seen[e])
      BY <1>7 DEF Good
    <2>3. seen[e] >= seen[e] /\ {Checking} \in SUBSET Flight
      BY <1>5, <1>10
    <2> QED
      BY <1>1, <1>8, <1>9, <1>10, <2>1, <2>2, <2>3
  <1>13. CASE DoubleCheck(e)
    <2>1. flight[e] = {Checking} /\ UNCHANGED live
      BY <1>6, <1>7, <1>13 DEF DoubleCheck, Good
    <2>2. ASSUME live[e] # NoLive, Landed(e, Checking), Serve(e, live[e])
          PROVE  Inv' /\ \A f \in Spectated : seen'[f] >= seen[f]
      <3>1. flight' = [flight EXCEPT ![e] = {}] /\ seen' = [seen EXCEPT ![e] = live[e]]
        BY <2>1, <2>2 DEF Landed, Serve
      <3>2. live[e] \in 0..MaxRevision /\ live[e] >= seen[e]
        BY <1>7, <1>10, <2>2 DEF Good
      <3>3. Good({}, live[e], live[e])
        BY <1>4, <1>7, <2>2, <3>2 DEF Good
      <3>4. {} \in SUBSET Flight
        OBVIOUS
      <3> QED
        BY <1>8, <1>9, <1>10, <2>1, <3>1, <3>2, <3>3, <3>4
    <2>3. ASSUME live[e] = NoLive, flight' = [flight EXCEPT ![e] = (@ \ {Checking}) \cup {Fetching}],
                 UNCHANGED seen
          PROVE  Inv' /\ \A f \in Spectated : seen'[f] >= seen[f]
      <3>1. flight' = [flight EXCEPT ![e] = {Fetching}]
        BY <2>1, <2>3
      <3>2. Good({Fetching}, live[e], seen[e])
        BY <1>7, <2>3 DEF Good
      <3>3. seen[e] >= seen[e] /\ {Fetching} \in SUBSET Flight
        BY <1>5, <1>10
      <3> QED
        BY <1>8, <1>9, <1>10, <2>1, <2>3, <3>1, <3>2, <3>3
    <2> QED
      BY <1>1, <1>13, <2>2, <2>3 DEF DoubleCheck
  <1>14. CASE Fetch(e)
    <2> DEFINE n == edition[About[e]].revision
    <2>1. flight[e] = {Fetching} /\ live[e] = NoLive
      BY <1>6, <1>7, <1>14 DEF Fetch, Good
    <2>2. flight' = [flight EXCEPT ![e] = {Fetched(n)}] /\ UNCHANGED <<live, seen>>
      BY <1>14, <2>1 DEF Fetch
    <2>3. Good({Fetched(n)}, live[e], seen[e])
      BY <1>4, <1>7, <2>1 DEF Good
    <2>4. seen[e] >= seen[e] /\ {Fetched(n)} \in SUBSET Flight
      BY <1>4, <1>5, <1>10
    <2> QED
      BY <1>1, <1>8, <1>9, <1>10, <2>2, <2>3, <2>4
  <1>15. CASE SetLive(e)
    <2>1. PICK f \in flight[e] : /\ f.at = "set" /\ live' = [live EXCEPT ![e] = f.brings]
                                /\ Landed(e, f) /\ Serve(e, f.brings)
      BY <1>15 DEF SetLive
    <2>2. PICK n \in Nat : seen[e] <= n /\ n <= edition[About[e]].revision /\ flight[e] = {Fetched(n)}
      BY <1>6, <1>7, <2>1 DEF Good
    <2>3. f = Fetched(n) /\ f.brings = n
      BY <1>6, <2>1, <2>2
    <2>4. flight' = [flight EXCEPT ![e] = {}] /\ live' = [live EXCEPT ![e] = n]
          /\ seen' = [seen EXCEPT ![e] = n]
      BY <2>1, <2>2, <2>3 DEF Landed, Serve
    <2>5. n \in 0..MaxRevision /\ n >= seen[e] /\ {} \in SUBSET Flight
      BY <1>4, <1>10, <2>2
    <2>6. Good({}, n, n)
      BY <1>4, <2>2 DEF Good
    <2> QED
      BY <1>1, <1>8, <2>4, <2>5, <2>6
  <1>16. CASE FailFlight(e)
    <2>1. flight' = [flight EXCEPT ![e] = {}] /\ UNCHANGED <<live, seen>>
      BY <1>16 DEF FailFlight
    <2>2. Good({}, live[e], seen[e])
      BY <1>7 DEF Good
    <2>3. seen[e] >= seen[e] /\ {} \in SUBSET Flight
      BY <1>10
    <2> QED
      BY <1>1, <1>8, <1>9, <1>10, <2>1, <2>2, <2>3
  <1>17. CASE ExpireLive(e)
    <2>1. live' = [live EXCEPT ![e] = NoLive] /\ UNCHANGED <<flight, seen>>
      BY <1>17 DEF ExpireLive
    <2>2. Good(flight[e], NoLive, seen[e])
      BY <1>7 DEF Good
    <2>3. seen[e] >= seen[e] /\ NoLive \in {NoLive} \cup 0..MaxRevision
      BY <1>10
    <2> QED
      BY <1>1, <1>8, <1>9, <1>10, <2>1, <2>2, <2>3
  <1> QED
    BY <1>1, <1>11, <1>12, <1>13, <1>14, <1>15, <1>16, <1>17

\* Every step.
LEMMA NextStep ==
    Inv /\ [Next]_vars =>
      /\ Inv'
      /\ \A e \in Spectated : seen'[e] >= seen[e]
      /\ UNCHANGED context \/ Tells
  <1> SUFFICES ASSUME Inv, [Next]_vars
               PROVE  /\ Inv'
                      /\ \A e \in Spectated : seen'[e] >= seen[e]
                      /\ UNCHANGED context \/ Tells
    OBVIOUS
  <1>1. \A e \in Spectated : seen[e] \in Nat
    BY DEF Inv, TypeOK
  <1>2. CASE ContextNext /\ UNCHANGED readVars
    BY <1>1, <1>2, ContextKeepsReads, ContextStep DEF Inv, readVars
  <1>3. ASSUME NEW r \in Reader,
               \/ \E route \in Edition \cup {Active} : ResolveForCache(r, route) \/ PrivateSnapshot(r, route)
               \/ ReadPublicCache(r) \/ Generate(r) \/ WritePublicCache(r)
        PROVE  /\ Inv' /\ UNCHANGED context /\ \A e \in Spectated : seen'[e] >= seen[e]
    BY <1>1, <1>3, ReaderStep
  <1>4. ASSUME NEW e \in Spectated,
               \/ LiveHit(e) \/ Fly(e) \/ DoubleCheck(e) \/ Fetch(e) \/ SetLive(e)
               \/ FailFlight(e) \/ ExpireLive(e)
        PROVE  /\ Inv' /\ UNCHANGED context /\ \A f \in Spectated : seen'[f] >= seen[f]
    BY <1>4, LiveStep
  <1>5. ASSUME NEW C, C \subseteq cache, cache' = C, UNCHANGED <<context, reader, copy, live, flight, seen>>
        PROVE  Inv'
    <2>1. UNCHANGED <<competition, edition, shared, linked, promoted, counted>>
      BY <1>5 DEF context
    <2>2. \A x : x \in Known' => x \in Known
      BY <1>5 DEF Known
    <2>3. CopiesInv'
      <3>1. \A x : Sound(x)' <=> Sound(x)
        BY <2>1 DEF Sound, Shows, Editions, View, Competitions, Card, Own, Rows, SuperAdmins
      <3> QED
        BY <2>2, <3>1 DEF Inv, CopiesInv
    <2>4. TypeOK' /\ Shape' /\ LiveInv'
      BY <1>5, <2>1 DEF Inv, TypeOK, ContextTypeOK, Shape, LiveInv
    <2>5. ContextInv'
      BY <2>1 DEF Inv, ContextInv, ContextTypeOK, Pair, PairOf, OneActive, LinkedHere, Editions
    <2> QED
      BY <2>3, <2>4, <2>5 DEF Inv
  <1>6. ASSUME NEW x \in cache, ExpireSnapshot(x)
        PROVE  /\ Inv' /\ UNCHANGED context /\ \A e \in Spectated : seen'[e] >= seen[e]
    <2>1. cache \ {x} \subseteq cache /\ cache' = cache \ {x}
          /\ UNCHANGED <<context, reader, copy, live, flight, seen>>
      BY <1>6 DEF ExpireSnapshot
    <2> QED
      BY <1>1, <1>5, <2>1
  <1>7. CASE UNCHANGED vars
    <2>1. UNCHANGED <<context, cache, reader, copy, live, flight, seen>> /\ cache \subseteq cache
      BY <1>7 DEF vars, readVars
    <2> QED
      BY <1>1, <1>5, <2>1
  <1> QED
    BY <1>2, <1>3, <1>4, <1>6, <1>7 DEF Next

-----------------------------------------------------------------------------
(* Theorems                                                                *)

LEMMA SpecInv ==
    Spec => []Inv
  <1>1. Inv /\ [Next]_vars => Inv'
    BY NextStep
  <1> QED
    BY InitInv, <1>1, PTL DEF Spec

\* Every reachable state of the context, of the requests and of the flights
\* has its type.
THEOREM TypeCorrect ==
    Spec => []TypeOK
  <1>1. Inv => TypeOK
    BY DEF Inv
  <1> QED
    BY <1>1, SpecInv, PTL

\* As soon as there is an edition there is exactly one active pair, for any
\* activations, creations and racing bootstraps.
THEOREM OneActivePairHolds ==
    Spec => []OneActivePair
  <1>1. Inv => OneActivePair
    BY PairResolves DEF Inv
  <1> QED
    BY <1>1, SpecInv, PTL

\* No action changes a snapshot without its revision.
THEOREM RevisionTellsTheViewHolds ==
    Spec => RevisionTellsTheView
  <1>1. Inv /\ [Next]_vars =>
          [\A e \in Editions :
             \/ edition'[e].revision > edition[e].revision
             \/ \A variant \in {"public", "full"} :
                  Settled(View(e, variant), variant)' = Settled(View(e, variant), variant)]_context
    <2> SUFFICES ASSUME Inv, [Next]_vars, Tells
                 PROVE  \A e \in Editions :
                          \/ edition'[e].revision > edition[e].revision
                          \/ \A variant \in {"public", "full"} :
                               Settled(View(e, variant), variant)' = Settled(View(e, variant), variant)
      BY NextStep
    <2> QED
      BY DEF Tells, Shows
  <1> QED
    BY <1>1, SpecInv, PTL DEF Spec, RevisionTellsTheView

\* The cache, the requests, the browsers and the database never differ about
\* what an edition shows at one revision.
THEOREM CopiesAgreeHolds ==
    Spec => []CopiesAgree
  <1>1. ASSUME Inv PROVE CopiesAgree
    <2>1. ASSUME NEW x \in Known PROVE x.content.of = x.tag.of
      <3>1. PICK e \in Editions, variant \in {"public", "full"}, n \in Nat :
              x.tag = [of |-> e, revision |-> n, variant |-> variant] /\ x.content.of = e
        BY <1>1 DEF Inv, CopiesInv, Sound
      <3>2. x.tag.of = e
        BY <3>1
      <3> QED
        BY <3>1, <3>2
    <2>2. ASSUME NEW x \in Known, NEW y \in Known, x.tag = y.tag PROVE Same(x, y)
      BY <1>1, <2>2 DEF Inv, CopiesInv
    <2>3. ASSUME NEW x \in Known, x.tag = Snapshot(x.tag.of, x.tag.variant).tag
          PROVE  Same(x, Snapshot(x.tag.of, x.tag.variant))
      <3>1. PICK e \in Editions, variant \in {"public", "full"}, n \in Nat :
              x.tag = [of |-> e, revision |-> n, variant |-> variant]
        BY <1>1 DEF Inv, CopiesInv, Sound
      <3>2. x.tag.of = e /\ x.tag.variant = variant
        BY <3>1
      <3> QED
        BY <1>1, <2>3, <3>2, SnapshotFits
    <2> QED
      BY <2>1, <2>2, <2>3 DEF CopiesAgree, Known, Same
  <1> QED
    BY <1>1, SpecInv, PTL

\* What is shown of the live matches of an edition never goes back.
THEOREM LiveNeverGoesBackHolds ==
    Spec => LiveNeverGoesBack
  <1>1. Inv /\ [Next]_vars => [\A k \in Spectated : seen'[k] >= seen[k]]_vars
    BY NextStep
  <1> QED
    BY <1>1, SpecInv, PTL DEF Spec, LiveNeverGoesBack
=============================================================================
