-------------------------- MODULE Category_proofs --------------------------
(***************************************************************************)
(* Proofs about Category, for every set of entries, phases, groups and     *)
(* matches and every set of setups a client may send.                      *)
(*                                                                         *)
(* Everything rests on FrozenReconcile: a setup with the signature of what *)
(* is stored is written back as it was, although the signature and the     *)
(* writing derive groups and members from it by different rules.           *)
(***************************************************************************)
EXTENDS Category, SequenceTheorems, WellFoundedInduction, TLAPS

\* Seeds and matches are functions, of whatever was written into them.
Shape ==
    /\ seeds = [p \in DOMAIN seeds |-> seeds[p]]
    /\ matches = [m \in DOMAIN matches |-> matches[m]]

IInv == TypeOK /\ Shape

(* Some phase is the last of those that have a group. *)
LEMMA MaxExists ==
    ASSUME NEW n \in Nat, NEW S \in SUBSET (1 .. n), S # {}
    PROVE  Max(S) \in S
<1> DEFINE T == {n - i : i \in S}
<1>1. T \subseteq Nat /\ T # {}
  <2>1. \A i \in S : n - i \in Nat
    OBVIOUS
  <2> QED  BY <2>1
<1>2. PICK x \in T : \A y \in T : ~ (<<y, x>> \in OpToRel(<, Nat))
  <2> HIDE DEF T
  <2> QED  BY <1>1, NatLessThanWellFounded, WFMin
<1>3. \A y \in T : ~ (y < x)
  BY <1>1, <1>2 DEF OpToRel
<1>4. PICK i \in S : x = n - i
  OBVIOUS
<1>5. \A j \in S : i >= j
  <2> TAKE j \in S
  <2>1. n - j \in T
    OBVIOUS
  <2> QED  BY <2>1, <1>3, <1>4
<1> QED  BY <1>5 DEF Max

(* A phase is found by its identifier. *)
LEMMA PhaseOfIs ==
    ASSUME NEW ps, \A i, j \in DOMAIN ps : ps[i].id = ps[j].id => i = j,
           NEW i \in DOMAIN ps
    PROVE  PhaseOf(ps, ps[i].id) = ps[i]
  BY DEF PhaseOf

-----------------------------------------------------------------------------
(* WHAT A SETUP IS WRITTEN AS *)

(* The phases of a setup are written in their order, without the groups of *)
(* a phase that has none.                                                  *)
LEMMA PhasesWritten ==
    ASSUME NEW s, IsSetup(s)
    PROVE  /\ Phases(s) \in Seq(PhaseRow)
           /\ Phases(s) # << >>
           /\ DOMAIN Phases(s) = DOMAIN s.phases
           /\ \A i \in DOMAIN s.phases :
                 /\ Phases(s)[i].id = s.phases[i].id
                 /\ Phases(s)[i].type = s.phases[i].type
                 /\ Phases(s)[i].qualifiers = s.phases[i].qualifiers
                 /\ Phases(s)[i].groups = IF s.phases[i].type = "GROUP" THEN s.phases[i].groups ELSE {}
           /\ PhasesOf(Phases(s)) = PhasesOf(s.phases)
           /\ \A i, j \in DOMAIN Phases(s) : Phases(s)[i].id = Phases(s)[j].id => i = j
<1>1. s.phases \in Seq(PhaseRow) /\ s.phases # << >>
  BY DEF IsSetup
<1>2. /\ DOMAIN s.phases = 1 .. Len(s.phases)
      /\ Len(s.phases) \in Nat \ {0}
      /\ \A i \in DOMAIN s.phases : s.phases[i] \in PhaseRow
  BY <1>1, LenProperties, ElementOfSeq, EmptySeq
<1>3. /\ DOMAIN Phases(s) = DOMAIN s.phases
      /\ \A i \in DOMAIN s.phases :
            Phases(s)[i] = [s.phases[i] EXCEPT !.groups = IF s.phases[i].type = "GROUP" THEN @ ELSE {}]
  BY DEF Phases
<1>4. \A i \in DOMAIN s.phases :
         /\ Phases(s)[i] \in PhaseRow
         /\ Phases(s)[i].id = s.phases[i].id
         /\ Phases(s)[i].type = s.phases[i].type
         /\ Phases(s)[i].qualifiers = s.phases[i].qualifiers
         /\ Phases(s)[i].groups = IF s.phases[i].type = "GROUP" THEN s.phases[i].groups ELSE {}
  BY <1>2, <1>3 DEF PhaseRow
<1>5. Phases(s) \in [1 .. Len(s.phases) -> PhaseRow]
  BY <1>2, <1>4 DEF Phases
<1>6. Phases(s) \in Seq(PhaseRow)
  BY <1>2, <1>5, SeqDef
<1>7. Phases(s) # << >>
  BY <1>2, <1>3
<1>8. PhasesOf(Phases(s)) = PhasesOf(s.phases)
  BY <1>3, <1>4 DEF PhasesOf
<1>9. \A i, j \in DOMAIN Phases(s) : Phases(s)[i].id = Phases(s)[j].id => i = j
  BY <1>3, <1>4 DEF IsSetup
<1> QED  BY <1>3, <1>4, <1>6, <1>7, <1>8, <1>9

\* The phases that have a group of a name, once written.
With(s, g) == {i \in DOMAIN s.phases : g \in Phases(s)[i].groups}

(* The last phase with a group of that name is one of them. *)
LEMMA LastWith ==
    ASSUME NEW s, IsSetup(s), NEW g, With(s, g) # {}
    PROVE  Max(With(s, g)) \in With(s, g)
<1>1. Len(s.phases) \in Nat /\ DOMAIN s.phases = 1 .. Len(s.phases)
  BY LenProperties DEF IsSetup
<1> QED  BY <1>1, MaxExists DEF With

LEMMA MembersAre ==
    ASSUME NEW s
    PROVE  Members(s) = {<<s.phases[Max(With(s, s.assignments[p]))].id, s.assignments[p], p>> :
                            p \in {q \in DOMAIN s.assignments : With(s, s.assignments[q]) # {}}}
  BY DEF Members, With

(* Who is assigned to a group is written into one phase that has it. *)
LEMMA MembersWritten ==
    ASSUME NEW s, IsSetup(s)
    PROVE  /\ \A x \in Members(s) :
                 /\ x[3] \in DOMAIN s.assignments /\ x[2] = s.assignments[x[3]]
                 /\ \E i \in DOMAIN s.phases : x = <<s.phases[i].id, x[2], x[3]>> /\ x[2] \in Phases(s)[i].groups
           /\ \A x, y \in Members(s) : x[3] = y[3] => x = y
           /\ \A p \in DOMAIN s.assignments, i \in DOMAIN s.phases :
                 s.assignments[p] \in Phases(s)[i].groups =>
                    \E x \in Members(s) : x[3] = p
<1>1. ASSUME NEW x \in Members(s)
      PROVE  /\ x[3] \in DOMAIN s.assignments /\ x[2] = s.assignments[x[3]]
             /\ \E i \in DOMAIN s.phases : x = <<s.phases[i].id, x[2], x[3]>> /\ x[2] \in Phases(s)[i].groups
             /\ x[1] = s.phases[Max(With(s, s.assignments[x[3]]))].id
             /\ x = <<x[1], x[2], x[3]>>
  <2>1. PICK p \in DOMAIN s.assignments :
           /\ With(s, s.assignments[p]) # {}
           /\ x = <<s.phases[Max(With(s, s.assignments[p]))].id, s.assignments[p], p>>
    BY MembersAre
  <2>2. Max(With(s, s.assignments[p])) \in With(s, s.assignments[p])
    BY <2>1, LastWith
  <2>3. x[3] = p /\ x[2] = s.assignments[p] /\ x[1] = s.phases[Max(With(s, s.assignments[p]))].id
    BY <2>1
  <2> QED  BY <2>1, <2>2, <2>3 DEF With
<1>2. \A x, y \in Members(s) : x[3] = y[3] => x = y
  BY <1>1
<1>3. ASSUME NEW p \in DOMAIN s.assignments, NEW i \in DOMAIN s.phases,
             s.assignments[p] \in Phases(s)[i].groups
      PROVE  \E x \in Members(s) : x[3] = p
  <2>1. With(s, s.assignments[p]) # {}
    BY <1>3 DEF With
  <2>2. <<s.phases[Max(With(s, s.assignments[p]))].id, s.assignments[p], p>> \in Members(s)
    BY <2>1, MembersAre
  <2> QED  BY <2>2
<1> QED  BY <1>1, <1>2, <1>3

-----------------------------------------------------------------------------
(* A SETUP WITH THE SIGNATURE OF WHAT IS STORED *)

\* The entries stored in a group of a phase, as the signature lists them.
Stored(i, g) == {x[3] : x \in {y \in members : y[1] = phases[i].id /\ y[2] = g}}

(* What the equality of the two signatures says. *)
LEMMA SameSignature ==
    ASSUME NEW s, Requested(s) = Structure
    PROVE  /\ seeds = [p \in s.participants |-> IF p \in DOMAIN s.seeds THEN s.seeds[p] ELSE None]
           /\ DOMAIN s.phases = DOMAIN phases
           /\ \A i \in DOMAIN phases :
                 /\ s.phases[i].id = phases[i].id
                 /\ s.phases[i].type = phases[i].type
                 /\ s.phases[i].qualifiers = phases[i].qualifiers
                 /\ s.phases[i].groups = phases[i].groups
                 /\ \A g \in phases[i].groups : Assigned(s, g) = Stored(i, g)
<1> DEFINE Asked(i) == [id |-> s.phases[i].id, type |-> s.phases[i].type, qualifiers |-> s.phases[i].qualifiers,
                        groups |-> [g \in s.phases[i].groups |-> Assigned(s, g)]]
           Kept(i) == [id |-> phases[i].id, type |-> phases[i].type, qualifiers |-> phases[i].qualifiers,
                       groups |-> [g \in phases[i].groups |-> Stored(i, g)]]
<1>1. seeds = [p \in s.participants |-> IF p \in DOMAIN s.seeds THEN s.seeds[p] ELSE None]
  <2>1. Requested(s).participants = Structure.participants
    OBVIOUS
  <2> QED  BY <2>1 DEF Requested, Structure
<1>2. [i \in DOMAIN s.phases |-> Asked(i)] = [i \in DOMAIN phases |-> Kept(i)]
  <2>1. Requested(s).phases = Structure.phases
    OBVIOUS
  <2> QED  BY <2>1 DEF Requested, Structure, Stored
<1>3. DOMAIN s.phases = DOMAIN phases /\ \A i \in DOMAIN phases : Asked(i) = Kept(i)
  <2> HIDE DEF Asked, Kept
  <2>1. DOMAIN s.phases = DOMAIN phases
    BY <1>2, Zenon
  <2>2. \A i \in DOMAIN phases : Asked(i) = Kept(i)
    <3> TAKE i \in DOMAIN phases
    <3>1. [j \in DOMAIN s.phases |-> Asked(j)][i] = Asked(i)
      BY <2>1
    <3>2. [j \in DOMAIN phases |-> Kept(j)][i] = Kept(i)
      OBVIOUS
    <3> QED  BY <1>2, <3>1, <3>2
  <2> QED  BY <2>1, <2>2
<1>4. ASSUME NEW i \in DOMAIN phases
      PROVE  /\ s.phases[i].id = phases[i].id
             /\ s.phases[i].type = phases[i].type
             /\ s.phases[i].qualifiers = phases[i].qualifiers
             /\ [g \in s.phases[i].groups |-> Assigned(s, g)] = [g \in phases[i].groups |-> Stored(i, g)]
  <2>1. /\ Asked(i).id = Kept(i).id
        /\ Asked(i).type = Kept(i).type
        /\ Asked(i).qualifiers = Kept(i).qualifiers
        /\ Asked(i).groups = Kept(i).groups
    <3> HIDE DEF Asked, Kept
    <3> QED  BY <1>3
  <2> QED  BY <2>1
<1>5. ASSUME NEW i \in DOMAIN phases
      PROVE  /\ s.phases[i].groups = phases[i].groups
             /\ \A g \in phases[i].groups : Assigned(s, g) = Stored(i, g)
  <2>1. [g \in s.phases[i].groups |-> Assigned(s, g)] = [g \in phases[i].groups |-> Stored(i, g)]
    BY <1>4
  <2>2. s.phases[i].groups = phases[i].groups
    BY <2>1, Zenon
  <2>3. ASSUME NEW g \in phases[i].groups
        PROVE  Assigned(s, g) = Stored(i, g)
    <3>1. [h \in s.phases[i].groups |-> Assigned(s, h)][g] = Assigned(s, g)
      BY <2>2
    <3>2. [h \in phases[i].groups |-> Stored(i, h)][g] = Stored(i, g)
      OBVIOUS
    <3> QED  BY <2>1, <3>1, <3>2
  <2> QED  BY <2>2, <2>3
<1> QED  BY <1>1, <1>3, <1>4, <1>5

(* The rewriting leaves everything as it was. *)
LEMMA FrozenReconcile ==
    ASSUME IInv, NEW s, IsSetup(s), Requested(s) = Structure
    PROVE  /\ s.participants = DOMAIN seeds
           /\ Seeds(s) = seeds
           /\ Phases(s) = phases
           /\ Members(s) = members
           /\ RowsLeft(s) = rows
<1>1. /\ seeds = [p \in s.participants |-> IF p \in DOMAIN s.seeds THEN s.seeds[p] ELSE None]
      /\ s.participants = DOMAIN seeds
  BY SameSignature, Zenon
<1>2. Seeds(s) = seeds
  <2>1. ASSUME NEW p \in s.participants
        PROVE  (IF p \in DOMAIN s.seeds THEN s.seeds[p]
                ELSE IF p \in DOMAIN seeds THEN seeds[p] ELSE None) = seeds[p]
    <3>1. seeds[p] = IF p \in DOMAIN s.seeds THEN s.seeds[p] ELSE None
      BY <1>1
    <3> QED  BY <1>1, <3>1
  <2>2. seeds = [p \in s.participants |-> seeds[p]]
    BY <1>1 DEF IInv, Shape
  <2> QED  BY <2>1, <2>2 DEF Seeds
<1>3. Phases(s) = phases
  <2>1. phases \in Seq(PhaseRow)
    BY DEF IInv, TypeOK
  <2>2. /\ DOMAIN phases = 1 .. Len(phases)
        /\ \A i \in DOMAIN phases : phases[i] \in PhaseRow
        /\ phases = [i \in 1 .. Len(phases) |-> phases[i]]
    BY <2>1, LenProperties, ElementOfSeq
  <2>3. DOMAIN s.phases = DOMAIN phases
    BY SameSignature
  <2>4. ASSUME NEW i \in DOMAIN phases
        PROVE  [s.phases[i] EXCEPT !.groups = IF s.phases[i].type = "GROUP" THEN @ ELSE {}] = phases[i]
    <3>1. s.phases[i] \in PhaseRow
      BY <2>3, ElementOfSeq, LenProperties DEF IsSetup
    <3>2. /\ s.phases[i].id = phases[i].id
          /\ s.phases[i].type = phases[i].type
          /\ s.phases[i].qualifiers = phases[i].qualifiers
          /\ s.phases[i].groups = phases[i].groups
      BY SameSignature
    <3>3. phases[i] \in PhaseRow
      BY <2>2
    <3>4. phases[i].type # "GROUP" => phases[i].groups = {}
      BY DEF IInv, TypeOK
    <3> QED  BY <3>1, <3>2, <3>3, <3>4 DEF PhaseRow
  <2> QED  BY <2>2, <2>3, <2>4 DEF Phases
<1>4. Members(s) = members
  <2>1. ASSUME NEW p \in DOMAIN s.assignments, NEW i \in DOMAIN phases,
               s.assignments[p] \in phases[i].groups
        PROVE  <<phases[i].id, s.assignments[p], p>> \in members
    <3>1. p \in Assigned(s, s.assignments[p])
      BY DEF Assigned
    <3>2. p \in Stored(i, s.assignments[p])
      BY <2>1, <3>1, SameSignature
    <3>3. PICK x \in members : x[1] = phases[i].id /\ x[2] = s.assignments[p] /\ x[3] = p
      BY <3>2 DEF Stored
    <3>4. x = <<x[1], x[2], x[3]>>
      BY DEF IInv, TypeOK
    <3> QED  BY <3>3, <3>4
  <2>2. ASSUME NEW x \in Members(s)
        PROVE  x \in members
    <3>1. /\ x[3] \in DOMAIN s.assignments /\ x[2] = s.assignments[x[3]]
          /\ \E i \in DOMAIN s.phases : x = <<s.phases[i].id, x[2], x[3]>> /\ x[2] \in Phases(s)[i].groups
      BY MembersWritten
    <3>2. PICK i \in DOMAIN phases : x = <<phases[i].id, x[2], x[3]>> /\ x[2] \in phases[i].groups
      BY <1>3, <3>1, SameSignature
    <3> QED  BY <2>1, <3>1, <3>2
  <2>3. ASSUME NEW x \in members
        PROVE  x \in Members(s)
    <3>1. /\ x[1] \in PhasesOf(phases) /\ x[2] \in PhaseOf(phases, x[1]).groups
          /\ x = <<x[1], x[2], x[3]>>
          /\ \A i, j \in DOMAIN phases : phases[i].id = phases[j].id => i = j
      BY DEF IInv, TypeOK
    <3>2. PICK i \in DOMAIN phases : x[1] = phases[i].id
      BY <3>1 DEF PhasesOf
    <3>3. x[2] \in phases[i].groups
      BY <3>1, <3>2, PhaseOfIs
    <3>4. x[3] \in Stored(i, x[2])
      BY <3>2 DEF Stored
    <3>5. x[3] \in DOMAIN s.assignments /\ s.assignments[x[3]] = x[2]
      BY <3>3, <3>4, SameSignature DEF Assigned
    <3>6. s.assignments[x[3]] \in Phases(s)[i].groups /\ i \in DOMAIN s.phases
      BY <1>3, <3>3, <3>5, SameSignature
    <3>7. PICK y \in Members(s) : y[3] = x[3]
      BY <3>5, <3>6, MembersWritten
    <3>8. y \in members
      BY <2>2
    <3>9. y = x
      BY <3>7, <3>8 DEF IInv, TypeOK
    <3> QED  BY <3>7, <3>9
  <2> QED  BY <2>2, <2>3
<1>5. RowsLeft(s) = rows
  <2>1. PhasesOf(s.phases) = PhasesOf(phases)
    BY <1>3, PhasesWritten
  <2>2. \A x \in rows : x[1] \in PhasesOf(phases) /\ x[2] \in DOMAIN seeds
    BY DEF IInv, TypeOK
  <2> QED  BY <1>1, <2>1, <2>2 DEF RowsLeft
<1> QED  BY <1>1, <1>2, <1>3, <1>4, <1>5

(* Nor do the foreign keys take anything from the matches. *)
LEMMA FrozenCascade ==
    ASSUME IInv, NEW s, IsSetup(s), Requested(s) = Structure,
           NEW ms, DOMAIN ms \subseteq DOMAIN matches, \A m \in DOMAIN ms : ms[m] = matches[m]
    PROVE  Cascade(s, ms) = [m \in DOMAIN ms |-> ms[m]]
<1>1. s.participants = DOMAIN seeds /\ Phases(s) = phases /\ PhasesOf(s.phases) = PhasesOf(phases)
  BY FrozenReconcile, PhasesWritten
<1>2. {n \in DOMAIN ms : ms[n].phase \in PhasesOf(s.phases)} = DOMAIN ms
  BY <1>1 DEF IInv, TypeOK
<1>3. ASSUME NEW m \in DOMAIN ms
      PROVE  [ms[m] EXCEPT !.a = SideLeft(s, @), !.b = SideLeft(s, @),
                !.group = IF @ \in PhaseOf(Phases(s), ms[m].phase).groups THEN @ ELSE None] = ms[m]
  <2>1. /\ ms[m] \in Match
        /\ {ms[m].a, ms[m].b} \subseteq DOMAIN seeds \cup {Label, None}
        /\ ms[m].group # None => ms[m].group \in PhaseOf(phases, ms[m].phase).groups
    BY DEF IInv, TypeOK
  <2>2. SideLeft(s, ms[m].a) = ms[m].a /\ SideLeft(s, ms[m].b) = ms[m].b
    BY <1>1, <2>1, NoneAssumption DEF SideLeft
  <2>3. (IF ms[m].group \in PhaseOf(Phases(s), ms[m].phase).groups THEN ms[m].group ELSE None) = ms[m].group
    BY <1>1, <2>1
  <2> QED  BY <2>1, <2>2, <2>3 DEF Match
<1> QED  BY <1>2, <1>3 DEF Cascade

-----------------------------------------------------------------------------
(* TYPES *)

\* The part of TypeOK that is about the matches.
Placed(ms, ps, entries) ==
    /\ DOMAIN ms \subseteq Scheduled \cup Generated
    /\ \A m \in DOMAIN ms :
          /\ ms[m] \in Match
          /\ {ms[m].a, ms[m].b} \subseteq entries \cup {Label, None}
          /\ ms[m].phase \in PhasesOf(ps)
          /\ ms[m].group # None => ms[m].group \in PhaseOf(ps, ms[m].phase).groups

(* And the part about the structure and the standings. *)
StructureOK ==
    /\ DOMAIN seeds \subseteq Entry
    /\ seeds = [p \in DOMAIN seeds |-> seeds[p]]
    /\ phases \in Seq(PhaseRow)
    /\ \A i, j \in DOMAIN phases : phases[i].id = phases[j].id => i = j
    /\ \A i \in DOMAIN phases : phases[i].type # "GROUP" => phases[i].groups = {}
    /\ members \subseteq PhaseId \X GroupName \X (DOMAIN seeds)
    /\ \A x \in members : x[1] \in PhasesOf(phases) /\ x[2] \in PhaseOf(phases, x[1]).groups
    /\ \A x, y \in members : x[3] = y[3] => x = y
    /\ rows \subseteq PhasesOf(phases) \X (DOMAIN seeds) \X (Scheduled \cup Generated)

\* The part about what is kept or happens beside them.
BesideOK ==
    /\ byes # None => byes \subseteq Entry
    /\ found \subseteq Entry

LEMMA InvParts ==
    IInv <=> /\ BesideOK
             /\ exists \in BOOLEAN /\ draft \in BOOLEAN /\ stale \in BOOLEAN
             /\ StructureOK
             /\ Placed(matches, phases, DOMAIN seeds)
             /\ matches = [m \in DOMAIN matches |-> matches[m]]
             /\ exists <=> phases # << >>
             /\ ~exists => DOMAIN seeds = {} /\ DOMAIN matches = {}
  BY DEF IInv, TypeOK, Shape, StructureOK, Placed, BesideOK

(* What a setup is written as is a structure. *)
LEMMA ReconcileType ==
    ASSUME IInv, NEW s, IsSetup(s), ReconcileSetup(s)
    PROVE  /\ StructureOK'
           /\ phases' # << >>
           /\ phases' = Phases(s) /\ PhasesOf(phases)' = PhasesOf(s.phases)
           /\ DOMAIN seeds' = s.participants
<1>1. /\ seeds' = Seeds(s) /\ phases' = Phases(s) /\ members' = Members(s) /\ rows' = RowsLeft(s)
  BY DEF ReconcileSetup
<1>2. /\ DOMAIN seeds' = s.participants
      /\ seeds' = [p \in DOMAIN seeds' |-> seeds'[p]]
      /\ s.participants \subseteq Entry
  BY <1>1 DEF Seeds, IsSetup
<1>3. /\ phases' \in Seq(PhaseRow) /\ phases' # << >>
      /\ DOMAIN phases' = DOMAIN s.phases
      /\ PhasesOf(phases') = PhasesOf(s.phases)
      /\ \A i, j \in DOMAIN phases' : phases'[i].id = phases'[j].id => i = j
      /\ \A i \in DOMAIN phases' : phases'[i].type # "GROUP" => phases'[i].groups = {}
      /\ \A i \in DOMAIN phases' : phases'[i].id = s.phases[i].id
  BY <1>1, PhasesWritten
<1>4. \A i \in DOMAIN phases' : phases'[i] \in PhaseRow
  BY <1>3, ElementOfSeq, LenProperties
<1>5. ASSUME NEW x \in members'
      PROVE  /\ x \in PhaseId \X GroupName \X (DOMAIN seeds')
             /\ x[1] \in PhasesOf(phases') /\ x[2] \in PhaseOf(phases', x[1]).groups
  <2>1. /\ x[3] \in DOMAIN s.assignments
        /\ \E i \in DOMAIN s.phases : x = <<s.phases[i].id, x[2], x[3]>> /\ x[2] \in Phases(s)[i].groups
    BY <1>1, MembersWritten
  <2>2. PICK i \in DOMAIN phases' : x = <<phases'[i].id, x[2], x[3]>> /\ x[2] \in phases'[i].groups
    BY <1>1, <1>3, <2>1
  <2>3. x[1] = phases'[i].id
    BY <2>2
  <2>4. phases'[i].id \in PhaseId /\ phases'[i].groups \subseteq GroupName
    BY <1>4 DEF PhaseRow
  <2>5. x[3] \in DOMAIN seeds'
    BY <1>2, <2>1 DEF IsSetup
  <2>6. PhaseOf(phases', x[1]) = phases'[i]
    BY <1>3, <2>3, PhaseOfIs
  <2>7. x[1] \in PhasesOf(phases')
    BY <2>3 DEF PhasesOf
  <2> QED  BY <2>2, <2>4, <2>5, <2>6, <2>7
<1>6. \A x, y \in members' : x[3] = y[3] => x = y
  BY <1>1, MembersWritten
<1>7. rows' \subseteq PhasesOf(phases') \X (DOMAIN seeds') \X (Scheduled \cup Generated)
  <2>1. ASSUME NEW x \in rows'
        PROVE  x \in PhasesOf(phases') \X (DOMAIN seeds') \X (Scheduled \cup Generated)
    <3>1. x \in rows /\ x[1] \in PhasesOf(s.phases) /\ x[2] \in s.participants
      BY <1>1 DEF RowsLeft
    <3>2. x \in PhasesOf(phases) \X (DOMAIN seeds) \X (Scheduled \cup Generated)
      BY <3>1 DEF IInv, TypeOK
    <3> QED  BY <1>2, <1>3, <3>1, <3>2
  <2> QED  BY <2>1
<1>8. StructureOK'
  BY <1>2, <1>3, <1>5, <1>6, <1>7 DEF StructureOK
<1> QED  BY <1>1, <1>2, <1>3, <1>8

(* What the foreign keys leave are matches of the new structure. *)
LEMMA CascadeType ==
    ASSUME NEW s, IsSetup(s), NEW ms,
           DOMAIN ms \subseteq Scheduled \cup Generated, \A m \in DOMAIN ms : ms[m] \in Match
    PROVE  /\ Placed(Cascade(s, ms), Phases(s), s.participants)
           /\ Cascade(s, ms) = [m \in DOMAIN Cascade(s, ms) |-> Cascade(s, ms)[m]]
           /\ DOMAIN Cascade(s, ms) \subseteq DOMAIN ms
           /\ \A m \in DOMAIN Cascade(s, ms) : Cascade(s, ms)[m].status = ms[m].status
<1>1. /\ DOMAIN Cascade(s, ms) = {n \in DOMAIN ms : ms[n].phase \in PhasesOf(s.phases)}
      /\ Cascade(s, ms) = [m \in DOMAIN Cascade(s, ms) |-> Cascade(s, ms)[m]]
      /\ \A m \in DOMAIN Cascade(s, ms) : Cascade(s, ms)[m] =
            [ms[m] EXCEPT !.a = SideLeft(s, @), !.b = SideLeft(s, @),
                          !.group = IF @ \in PhaseOf(Phases(s), ms[m].phase).groups THEN @ ELSE None]
  BY DEF Cascade
<1>2. ASSUME NEW m \in DOMAIN Cascade(s, ms)
      PROVE  /\ Cascade(s, ms)[m] \in Match
             /\ {Cascade(s, ms)[m].a, Cascade(s, ms)[m].b} \subseteq s.participants \cup {Label, None}
             /\ Cascade(s, ms)[m].phase = ms[m].phase
             /\ Cascade(s, ms)[m].status = ms[m].status
             /\ Cascade(s, ms)[m].group # None => Cascade(s, ms)[m].group \in PhaseOf(Phases(s), ms[m].phase).groups
  <2> DEFINE grp == IF ms[m].group \in PhaseOf(Phases(s), ms[m].phase).groups THEN ms[m].group ELSE None
  <2>1. m \in DOMAIN ms /\ ms[m] \in Match
    BY <1>1
  <2>2. ms[m].a \in Side /\ ms[m].b \in Side /\ ms[m].group \in GroupName \cup {None}
    BY <2>1 DEF Match
  <2>3. /\ {SideLeft(s, ms[m].a), SideLeft(s, ms[m].b)} \subseteq s.participants \cup {Label, None}
        /\ {SideLeft(s, ms[m].a), SideLeft(s, ms[m].b)} \subseteq Side
    BY <2>2 DEF SideLeft, Side
  <2>4. grp \in GroupName \cup {None} /\ (grp # None => grp \in PhaseOf(Phases(s), ms[m].phase).groups)
    BY <2>2
  <2>5. Cascade(s, ms)[m] = [ms[m] EXCEPT !.a = SideLeft(s, ms[m].a), !.b = SideLeft(s, ms[m].b), !.group = grp]
    BY <1>1
  <2> HIDE DEF grp
  <2> QED  BY <2>1, <2>3, <2>4, <2>5 DEF Match
<1>3. PhasesOf(Phases(s)) = PhasesOf(s.phases)
  BY PhasesWritten
<1> QED  BY <1>1, <1>2, <1>3 DEF Placed

(* What the snapshot shows is a setup, if the byes kept are of entries. *)
LEMMA ShownIsSetup ==
    ASSUME IInv, exists, byes = None \/ byes \subseteq DOMAIN seeds
    PROVE  IsSetup(Shown)
<1>1. /\ Shown.participants = DOMAIN seeds
      /\ DOMAIN Shown.seeds \subseteq DOMAIN seeds
      /\ Shown.phases = phases
      /\ DOMAIN Shown.assignments = {x[3] : x \in members}
      /\ \A p \in {x[3] : x \in members} : Shown.assignments[p] = (CHOOSE x \in members : x[3] = p)[2]
      /\ Shown.byes = byes /\ Shown.draft = draft
  BY DEF Shown, Restrict
<1>2. ASSUME NEW p \in DOMAIN Shown.assignments
      PROVE  p \in DOMAIN seeds /\ \E i \in DOMAIN phases : Shown.assignments[p] \in phases[i].groups
  <2>1. PICK x \in members : x[3] = p /\ Shown.assignments[p] = x[2]
    BY <1>1
  <2>2. x[3] \in DOMAIN seeds /\ x[1] \in PhasesOf(phases) /\ x[2] \in PhaseOf(phases, x[1]).groups
    BY DEF IInv, TypeOK
  <2>3. PICK i \in DOMAIN phases : x[1] = phases[i].id
    BY <2>2 DEF PhasesOf
  <2>4. PhaseOf(phases, x[1]) = phases[i]
    BY <2>3, PhaseOfIs DEF IInv, TypeOK
  <2> QED  BY <2>1, <2>2, <2>4
<1> QED  BY <1>1, <1>2 DEF IsSetup, IInv, TypeOK

LEMMA InvPartsNext ==
    IInv' <=> /\ BesideOK'
              /\ exists' \in BOOLEAN /\ draft' \in BOOLEAN /\ stale' \in BOOLEAN
              /\ StructureOK'
              /\ Placed(matches', phases', DOMAIN seeds')
              /\ matches' = [m \in DOMAIN matches' |-> matches'[m]]
              /\ exists' <=> phases' # << >>
              /\ ~exists' => DOMAIN seeds' = {} /\ DOMAIN matches' = {}
  BY DEF IInv, TypeOK, Shape, StructureOK, Placed, BesideOK

(* What is stored of the byes of a setup. *)
LEMMA ByesType ==
    ASSUME BesideOK, NEW s, IsSetup(s),
           byes' \in {None, s.byes, Byes(s)}, found' = found
    PROVE  BesideOK'
  BY DEF BesideOK, Byes, IsSetup

(* A new match is put where the structure has a place. *)
LEMMA NewMatchType ==
    ASSUME NEW ps \in Seq(PhaseRow), \A i, j \in DOMAIN ps : ps[i].id = ps[j].id => i = j,
           NEW place \in Places(ps), NEW pair \in Pairs,
           NEW entries, {pair[1], pair[2]} \subseteq entries \cup {Label}
    PROVE  /\ NewMatch(place, pair) \in Match
           /\ {NewMatch(place, pair).a, NewMatch(place, pair).b} \subseteq entries \cup {Label, None}
           /\ NewMatch(place, pair).phase \in PhasesOf(ps)
           /\ NewMatch(place, pair).group # None =>
                 NewMatch(place, pair).group \in PhaseOf(ps, NewMatch(place, pair).phase).groups
           /\ NewMatch(place, pair).status = "SCHEDULED"
<1>1. \A i \in DOMAIN ps : ps[i].id \in PhaseId /\ ps[i].groups \subseteq GroupName
  <2>1. \A i \in DOMAIN ps : ps[i] \in PhaseRow
    BY ElementOfSeq, LenProperties
  <2> QED  BY <2>1 DEF PhaseRow
<1>2. /\ place[1] \in PhasesOf(ps)
      /\ \/ place[2] \in GroupName /\ place[2] \in PhaseOf(ps, place[1]).groups
         \/ place[2] = None
  BY DEF Places
<1>3. place[1] \in PhaseId
  BY <1>1, <1>2 DEF PhasesOf
<1>4. pair[1] \in Side /\ pair[2] \in Side
  BY PairAssumption DEF Side
<1>5. NewMatch(place, pair) \in Match
  BY <1>2, <1>3, <1>4 DEF NewMatch, Match, MatchStatus
<1> QED  BY <1>2, <1>5 DEF NewMatch

(* An action on a match leaves the structure. *)
LEMMA MatchStep ==
    ASSUME IInv, UNCHANGED <<exists, structure, byes, found>>, draft' \in BOOLEAN, stale' \in BOOLEAN,
           rows' \subseteq PhasesOf(phases) \X (DOMAIN seeds) \X (Scheduled \cup Generated),
           Placed(matches', phases, DOMAIN seeds),
           matches' = [m \in DOMAIN matches' |-> matches'[m]],
           exists
    PROVE  IInv'
<1>1. seeds' = seeds /\ phases' = phases /\ members' = members /\ exists' = exists
  BY DEF structure
<1>2. StructureOK /\ BesideOK /\ (exists => phases # << >>)
  BY InvParts
<1>3. StructureOK' /\ BesideOK'
  BY <1>1, <1>2 DEF StructureOK, BesideOK
<1> QED  BY <1>1, <1>2, <1>3, InvPartsNext

LEMMA RowsAndMatches ==
    ASSUME IInv
    PROVE  /\ rows \subseteq PhasesOf(phases) \X (DOMAIN seeds) \X (Scheduled \cup Generated)
           /\ Placed(matches, phases, DOMAIN seeds)
           /\ draft \in BOOLEAN /\ stale \in BOOLEAN
           /\ \A m \in DOMAIN matches : exists
  BY DEF IInv, TypeOK, Placed

(* The rows a recount stores are of the structure. *)
LEMMA StandingsType ==
    ASSUME NEW ms, Placed(ms, phases, DOMAIN seeds)
    PROVE  Standings(ms) \subseteq PhasesOf(phases) \X (DOMAIN seeds) \X (Scheduled \cup Generated)
  BY DEF Standings, Placed

\* A match of the structure.
InPlace(x) ==
    /\ x \in Match
    /\ {x.a, x.b} \subseteq DOMAIN seeds \cup {Label, None}
    /\ x.phase \in PhasesOf(phases)
    /\ x.group # None => x.group \in PhaseOf(phases, x.phase).groups

(* Another match of the structure in the place of one. *)
LEMMA StatusStep ==
    ASSUME IInv, NEW m \in DOMAIN matches, NEW x, InPlace(x),
           NEW ms, ms = [matches EXCEPT ![m] = x]
    PROVE  /\ Placed(ms, phases, DOMAIN seeds)
           /\ ms = [n \in DOMAIN ms |-> ms[n]]
           /\ DOMAIN ms = DOMAIN matches
           /\ ms[m] = x
           /\ \A n \in DOMAIN ms \ {m} : ms[n] = matches[n]
<1>1. Placed(matches, phases, DOMAIN seeds)
  BY RowsAndMatches
<1>2. /\ DOMAIN ms = DOMAIN matches
      /\ ms = [n \in DOMAIN ms |-> ms[n]]
      /\ \A n \in DOMAIN ms \ {m} : ms[n] = matches[n]
      /\ ms[m] = x
  OBVIOUS
<1>3. Placed(ms, phases, DOMAIN seeds)
  BY <1>1, <1>2 DEF Placed, InPlace
<1> QED  BY <1>2, <1>3

\* The official matches of both are the same, in the same places.
SameOfficial(ms, ns) ==
    /\ \A m \in DOMAIN ms : Official(ms[m]) => m \in DOMAIN ns /\ ns[m] = ms[m]
    /\ \A m \in DOMAIN ns : Official(ns[m]) => m \in DOMAIN ms /\ ns[m] = ms[m]

\* What a match's operation leaves of another's place.
Kept(ms, ns) ==
    \A m \in DOMAIN ms : ms[m].status \in {"LIVE", "FINISHED", "WALKOVER"} =>
        \/ m \in Generated
        \/ /\ m \in DOMAIN ns
           /\ <<ns[m].phase, ns[m].group, ns[m].a, ns[m].b>> =
              <<ms[m].phase, ms[m].group, ms[m].a, ms[m].b>>

(* A status and the mark of an operated match leave it where it is. *)
LEMMA StatusIsInPlace ==
    ASSUME IInv, NEW x, InPlace(x), NEW to \in MatchStatus, NEW t \in BOOLEAN
    PROVE  /\ InPlace([x EXCEPT !.status = to, !.touched = t])
           /\ InPlace([x EXCEPT !.status = to])
           /\ InPlace([x EXCEPT !.touched = t])
           /\ LET y == [x EXCEPT !.status = to]
              IN  /\ y.status = to
                  /\ <<y.phase, y.group, y.a, y.b>> = <<x.phase, x.group, x.a, x.b>>
           /\ LET y == [x EXCEPT !.touched = t]
              IN  /\ y.status = x.status
                  /\ <<y.phase, y.group, y.a, y.b>> = <<x.phase, x.group, x.a, x.b>>
           /\ LET y == [x EXCEPT !.status = to, !.touched = t]
              IN  /\ y.status = to
                  /\ <<y.phase, y.group, y.a, y.b>> = <<x.phase, x.group, x.a, x.b>>
  BY DEF InPlace, Match

LEMMA MatchesInPlace ==
    ASSUME IInv, NEW m \in DOMAIN matches
    PROVE  InPlace(matches[m])
  BY DEF IInv, TypeOK, InPlace

(* A patch puts a match in a place, and moves only a scheduled one. *)
LEMMA PatchedIsInPlace ==
    ASSUME IInv, NEW m \in DOMAIN matches, NEW x \in Patched(matches[m])
    PROVE  /\ InPlace(x)
           /\ x.status = matches[m].status
           /\ matches[m].status # "SCHEDULED" => x = matches[m]
<1> DEFINE old == matches[m]
<1>1. InPlace(old)
  BY MatchesInPlace
<1>2. CASE old.status # "SCHEDULED"
  BY <1>1, <1>2 DEF Patched
<1>3. CASE old.status = "SCHEDULED"
  <2>1. Patched(old) = {Moved(old, place, pair) : place \in PlacesFor(old), pair \in SidesFor(old)}
    BY <1>3 DEF Patched
  <2>2. PICK place \in PlacesFor(old), pair \in SidesFor(old) : x = Moved(old, place, pair)
    <3> HIDE DEF old
    <3>1. x \in Patched(old)
      BY DEF old
    <3> QED  BY <2>1, <3>1
  <2>3. /\ place[1] \in PhasesOf(phases)
        /\ place[2] \in GroupName \cup {None}
        /\ place[2] # None => place[2] \in PhaseOf(phases, place[1]).groups
    <3>1. CASE place = <<old.phase, old.group>>
      BY <1>1, <3>1 DEF InPlace, Match
    <3>2. CASE place \in Places(phases)
      BY <3>2 DEF Places
    <3> QED  BY <3>1, <3>2 DEF PlacesFor
  <2>4. {pair[1], pair[2]} \subseteq DOMAIN seeds \cup {Label, None}
    <3>1. {old.a, old.b} \subseteq DOMAIN seeds \cup {Label, None}
      BY <1>1 DEF InPlace
    <3> QED  BY <3>1 DEF SidesFor
  <2>5. DOMAIN seeds \subseteq Entry /\ PhasesOf(phases) \subseteq PhaseId
    <3>1. DOMAIN seeds \subseteq Entry /\ phases \in Seq(PhaseRow)
      BY DEF IInv, TypeOK
    <3>2. \A i \in DOMAIN phases : phases[i] \in PhaseRow
      BY <3>1, ElementOfSeq, LenProperties
    <3> QED  BY <3>1, <3>2 DEF PhasesOf, PhaseRow
  <2>6. pair[1] \in Side /\ pair[2] \in Side /\ place[1] \in PhaseId
    BY <2>3, <2>4, <2>5 DEF Side
  <2>7. old \in Match
    BY <1>1 DEF InPlace
  <2> HIDE DEF old
  <2>8. /\ x \in Match /\ x.status = old.status
        /\ x.a = pair[1] /\ x.b = pair[2] /\ x.phase = place[1] /\ x.group = place[2]
    BY <2>2, <2>3, <2>6, <2>7 DEF Match, Moved
  <2>9. InPlace(x)
    BY <2>3, <2>4, <2>8 DEF InPlace
  <2> QED  BY <1>3, <2>8, <2>9 DEF old
<1> QED  BY <1>2, <1>3

(* What match/update writes. *)
LEMMA UpdateStep ==
    ASSUME IInv, NEW m \in DOMAIN matches, UpdateMatch(m)
    PROVE  /\ Placed(matches', phases, DOMAIN seeds)
           /\ matches' = [n \in DOMAIN matches' |-> matches'[n]]
           /\ Kept(matches, matches')
           /\ \/ RecomputeTournament(matches')
              \/ /\ rows' = rows /\ draft' = draft /\ stale' \in BOOLEAN
                 /\ ~stale' => ~stale /\ SameOfficial(matches, matches')
<1>1. PICK x \in Patched(matches[m]), to \in Transitions[matches[m].status] :
         /\ matches' = [matches EXCEPT ![m] = [x EXCEPT !.status = to]]
         /\ IF to = "WALKOVER"
            THEN /\ {matches[m].a, matches[m].b} \cap DOMAIN seeds # {}
                 /\ RecomputeTournament(matches')
            ELSE /\ stale' = (stale \/ (to = "FINISHED" /\ matches[m].status = "LIVE"))
                 /\ UNCHANGED <<draft, rows>>
  BY DEF UpdateMatch
<1>2. InPlace(x) /\ x.status = matches[m].status /\ (matches[m].status # "SCHEDULED" => x = matches[m])
  BY PatchedIsInPlace
<1>3. matches[m].status \in MatchStatus
  BY MatchesInPlace DEF InPlace, Match
<1>4. /\ to \in MatchStatus
      /\ to = "FINISHED" => matches[m].status \in {"LIVE", "FINISHED"}
      /\ matches[m].status = "FINISHED" => to = "FINISHED"
      /\ matches[m].status = "WALKOVER" => to = "WALKOVER"
  BY <1>3 DEF Transitions, MatchStatus
<1> DEFINE y == [x EXCEPT !.status = to]
<1>5. InPlace(y) /\ y.status = to /\ <<y.phase, y.group, y.a, y.b>> = <<x.phase, x.group, x.a, x.b>>
  BY <1>2, <1>4, StatusIsInPlace
<1>6. matches' = [matches EXCEPT ![m] = y]
  BY <1>1
<1>7. to = matches[m].status /\ x = matches[m] => y = matches[m]
  BY <1>2 DEF InPlace, Match
<1> HIDE DEF y
<1>8. /\ Placed(matches', phases, DOMAIN seeds)
      /\ matches' = [n \in DOMAIN matches' |-> matches'[n]]
      /\ DOMAIN matches' = DOMAIN matches
      /\ matches'[m] = y
      /\ \A n \in DOMAIN matches' \ {m} : matches'[n] = matches[n]
  BY <1>5, <1>6, StatusStep
<1>9. Kept(matches, matches')
  BY <1>2, <1>5, <1>8 DEF Kept
<1>10. ASSUME to # "WALKOVER"
       PROVE  /\ rows' = rows /\ draft' = draft /\ stale' \in BOOLEAN
              /\ ~stale' => ~stale /\ SameOfficial(matches, matches')
  <2>1. /\ rows' = rows /\ draft' = draft
        /\ stale' = (stale \/ (to = "FINISHED" /\ matches[m].status = "LIVE"))
    BY <1>1, <1>10
  <2>2. stale' \in BOOLEAN
    BY <2>1, RowsAndMatches
  <2>3. ASSUME ~stale'
        PROVE  ~stale /\ SameOfficial(matches, matches')
    <3>1. ~stale /\ ~(to = "FINISHED" /\ matches[m].status = "LIVE")
      BY <2>1, <2>3
    <3>2. CASE matches[m].status = "FINISHED"
      <4>1. matches'[m] = matches[m]
        BY <1>2, <1>4, <1>7, <1>8, <3>2
      <4> QED  BY <1>8, <3>1, <4>1 DEF SameOfficial
    <3>3. CASE matches[m].status # "FINISHED"
      <4>1. ~Official(matches[m]) /\ ~Official(matches'[m])
        BY <1>4, <1>5, <1>8, <1>10, <3>1, <3>3 DEF Official
      <4> QED  BY <1>8, <3>1, <4>1 DEF SameOfficial
    <3> QED  BY <3>2, <3>3
  <2> QED  BY <2>1, <2>2, <2>3
<1> QED  BY <1>1, <1>8, <1>9, <1>10

(* What correctResult writes. *)
LEMMA CorrectStep ==
    ASSUME IInv, NEW m \in DOMAIN matches, CorrectResult(m)
    PROVE  /\ Placed(matches', phases, DOMAIN seeds)
           /\ matches' = [n \in DOMAIN matches' |-> matches'[n]]
           /\ Kept(matches, matches')
<1>1. PICK gone \in SUBSET {n \in Replaced \ {m} : matches[n].status = "SCHEDULED"} :
         matches' = [n \in DOMAIN matches \ gone |->
                       IF n = m THEN [matches[n] EXCEPT !.status = "FINISHED"] ELSE matches[n]]
  BY DEF CorrectResult
<1>2. /\ DOMAIN matches' = DOMAIN matches \ gone
      /\ m \in DOMAIN matches'
      /\ matches'[m] = [matches[m] EXCEPT !.status = "FINISHED"]
      /\ \A n \in DOMAIN matches' \ {m} : matches'[n] = matches[n]
      /\ matches' = [n \in DOMAIN matches' |-> matches'[n]]
      /\ gone \subseteq Generated
  BY <1>1 DEF Replaced
<1>3. "FINISHED" \in MatchStatus
  BY DEF MatchStatus
<1>4. /\ InPlace(matches'[m])
      /\ <<matches'[m].phase, matches'[m].group, matches'[m].a, matches'[m].b>> =
         <<matches[m].phase, matches[m].group, matches[m].a, matches[m].b>>
  <2> DEFINE y == [matches[m] EXCEPT !.status = "FINISHED"]
  <2>1. InPlace(matches[m])
    BY MatchesInPlace
  <2>2. /\ InPlace(y)
        /\ <<y.phase, y.group, y.a, y.b>> =
           <<matches[m].phase, matches[m].group, matches[m].a, matches[m].b>>
    BY <1>3, <2>1, StatusIsInPlace
  <2>3. matches'[m] = y
    BY <1>2
  <2> HIDE DEF y
  <2> QED  BY <2>2, <2>3
<1>5. Placed(matches', phases, DOMAIN seeds)
  <2>1. Placed(matches, phases, DOMAIN seeds)
    BY RowsAndMatches
  <2>2. DOMAIN matches' \subseteq Scheduled \cup Generated
    BY <1>2, <2>1 DEF Placed
  <2>3. ASSUME NEW n \in DOMAIN matches'
        PROVE  InPlace(matches'[n])
    <3>1. CASE n = m
      BY <1>4, <3>1
    <3>2. CASE n # m
      <4>1. matches'[n] = matches[n] /\ n \in DOMAIN matches
        BY <1>2, <3>2
      <4>2. InPlace(matches[n])
        BY <4>1, MatchesInPlace
      <4> QED  BY <4>1, <4>2
    <3> QED  BY <3>1, <3>2
  <2> QED  BY <2>2, <2>3 DEF Placed, InPlace
<1>6. Kept(matches, matches')
  BY <1>2, <1>4 DEF Kept
<1> QED  BY <1>2, <1>5, <1>6

(* What the operations on a match write: matches of the structure, the     *)
(* operated ones where they were.                                          *)
LEMMA Operations ==
    ASSUME IInv, NEW m \in DOMAIN matches,
           Start(m) \/ RegisterEvent(m) \/ UpdateMatch(m) \/ End(m) \/ CorrectResult(m)
    PROVE  /\ Placed(matches', phases, DOMAIN seeds)
           /\ matches' = [n \in DOMAIN matches' |-> matches'[n]]
           /\ Kept(matches, matches')
<1> DEFINE Same(y) == <<y.phase, y.group, y.a, y.b>> =
                      <<matches[m].phase, matches[m].group, matches[m].a, matches[m].b>>
<1>1. InPlace(matches[m])
  BY MatchesInPlace
<1>2. ASSUME NEW y, InPlace(y), Same(y), matches' = [matches EXCEPT ![m] = y]
      PROVE  /\ Placed(matches', phases, DOMAIN seeds)
             /\ matches' = [n \in DOMAIN matches' |-> matches'[n]]
             /\ Kept(matches, matches')
  <2>1. /\ Placed(matches', phases, DOMAIN seeds)
        /\ matches' = [n \in DOMAIN matches' |-> matches'[n]]
        /\ DOMAIN matches' = DOMAIN matches
        /\ matches'[m] = y
        /\ \A n \in DOMAIN matches' \ {m} : matches'[n] = matches[n]
    BY <1>2, StatusStep
  <2> QED  BY <1>2, <2>1 DEF Kept
<1>3. {"LIVE", "FINISHED"} \subseteq MatchStatus
  BY DEF MatchStatus
<1>4. CASE Start(m)
  <2> DEFINE y == [matches[m] EXCEPT !.status = "LIVE", !.touched = TRUE]
  <2>1. InPlace(y) /\ Same(y)
    BY <1>1, <1>3, StatusIsInPlace
  <2>2. matches' = [matches EXCEPT ![m] = y]
    BY <1>4 DEF Start
  <2> HIDE DEF y, Same
  <2> QED  BY <1>2, <2>1, <2>2
<1>5. CASE RegisterEvent(m)
  <2> DEFINE y == [matches[m] EXCEPT !.touched = TRUE]
  <2>1. InPlace(y) /\ Same(y)
    BY <1>1, <1>3, StatusIsInPlace
  <2>2. matches' = [matches EXCEPT ![m] = y]
    BY <1>5 DEF RegisterEvent
  <2> HIDE DEF y, Same
  <2> QED  BY <1>2, <2>1, <2>2
<1>6. CASE End(m)
  <2> DEFINE y == [matches[m] EXCEPT !.status = "FINISHED"]
  <2>1. InPlace(y) /\ Same(y)
    BY <1>1, <1>3, StatusIsInPlace
  <2>2. matches' = [matches EXCEPT ![m] = y]
    BY <1>6 DEF End
  <2> HIDE DEF y, Same
  <2> QED  BY <1>2, <2>1, <2>2
<1>7. CASE UpdateMatch(m)
  BY <1>7, UpdateStep
<1>8. CASE CorrectResult(m)
  BY <1>8, CorrectStep
<1> QED  BY <1>4, <1>5, <1>6, <1>7, <1>8

(* And what they count: everything, or what was counted is as it was but   *)
(* for the end of a match by an update.                                    *)
LEMMA WhatIsCounted ==
    ASSUME IInv, NEW m \in DOMAIN matches,
           Start(m) \/ RegisterEvent(m) \/ UpdateMatch(m) \/ End(m) \/ CorrectResult(m)
    PROVE  /\ rows' \in {rows, Standings(matches')} /\ draft' \in BOOLEAN /\ stale' \in BOOLEAN
           /\ ~stale' => \/ rows' = Standings(matches')
                         \/ ~stale /\ rows' = rows /\ SameOfficial(matches, matches')
<1>1. draft \in BOOLEAN /\ stale \in BOOLEAN
  BY RowsAndMatches
<1>2. ASSUME RecomputeTournament(matches')
      PROVE  rows' = Standings(matches') /\ draft' \in BOOLEAN /\ stale' \in BOOLEAN
  BY <1>1, <1>2 DEF RecomputeTournament
<1>3. CASE Start(m) \/ RegisterEvent(m)
  <2>1. rows' = rows /\ draft' = draft /\ stale' = stale
    BY <1>3 DEF Start, RegisterEvent
  <2>2. PICK y : matches' = [matches EXCEPT ![m] = y] /\ ~Official(y) /\ ~Official(matches[m])
    <3>1. CASE Start(m)
      <4> DEFINE y == [matches[m] EXCEPT !.status = "LIVE", !.touched = TRUE]
      <4>1. y.status = "LIVE" /\ matches' = [matches EXCEPT ![m] = y] /\ ~Official(matches[m])
        BY <3>1, MatchesInPlace DEF Start, InPlace, Match, Official
      <4> HIDE DEF y
      <4> QED  BY <4>1 DEF Official
    <3>2. CASE RegisterEvent(m)
      <4> DEFINE y == [matches[m] EXCEPT !.touched = TRUE]
      <4>1. y.status = "LIVE" /\ matches' = [matches EXCEPT ![m] = y] /\ ~Official(matches[m])
        BY <3>2, MatchesInPlace DEF RegisterEvent, InPlace, Match, Official
      <4> HIDE DEF y
      <4> QED  BY <4>1 DEF Official
    <3> QED  BY <1>3, <3>1, <3>2
  <2>3. SameOfficial(matches, matches')
    BY <2>2 DEF SameOfficial
  <2> QED  BY <1>1, <2>1, <2>3
<1>4. CASE End(m) \/ CorrectResult(m)
  <2>1. RecomputeTournament(matches')
    BY <1>4 DEF End, CorrectResult
  <2> QED  BY <1>2, <2>1
<1>5. CASE UpdateMatch(m)
  BY <1>1, <1>2, <1>5, UpdateStep
<1> QED  BY <1>3, <1>4, <1>5

(* The types are inductive. *)
LEMMA InvInit == Init => IInv
<1> SUFFICES ASSUME Init PROVE IInv
  OBVIOUS
<1>1. /\ exists = FALSE /\ draft = TRUE /\ stale = FALSE
      /\ seeds = << >> /\ phases = << >> /\ members = {} /\ matches = << >> /\ rows = {}
  BY DEF Init
<1>2. DOMAIN seeds = {} /\ DOMAIN phases = {} /\ DOMAIN matches = {} /\ phases \in Seq(PhaseRow)
  BY <1>1, EmptySeq
<1>3. StructureOK
  BY <1>1, <1>2 DEF StructureOK
<1>4. Placed(matches, phases, DOMAIN seeds) /\ matches = [m \in DOMAIN matches |-> matches[m]]
  BY <1>1, <1>2 DEF Placed
<1>5. BesideOK
  BY DEF Init, BesideOK
<1> QED  BY <1>1, <1>2, <1>3, <1>4, <1>5, InvParts

LEMMA InvNext == IInv /\ [Next]_vars => IInv'
<1> SUFFICES ASSUME IInv, [Next]_vars PROVE IInv'
  OBVIOUS
<1>1. CASE Create
  <2>1. PICK s \in Setups : IsSetup(s) /\ ReconcileSetup(s) /\ draft' = s.draft /\ byes' = s.byes
    BY <1>1 DEF Create, Accepted
  <2>2. IsSetup(s)
    BY <2>1
  <2>3. StructureOK' /\ phases' # << >>
    BY <2>1, <2>2, ReconcileType
  <2>4. DOMAIN matches = {} /\ matches' = matches /\ matches = [m \in DOMAIN matches |-> matches[m]]
    BY <1>1, InvParts DEF Create
  <2>5. Placed(matches', phases', DOMAIN seeds')
    BY <2>4 DEF Placed
  <2>6. exists' = TRUE /\ draft' \in BOOLEAN /\ stale' \in BOOLEAN
    BY <1>1, <2>1, RowsAndMatches DEF Create, IsSetup
  <2>7. BesideOK'
    BY <1>1, <2>1, InvParts, ByesType DEF Create
  <2> QED  BY <2>3, <2>4, <2>5, <2>6, <2>7, InvPartsNext
<1>2. CASE Update
  <2>1. PICK s \in Sent : /\ IsSetup(s) /\ ReconcileSetup(s) /\ matches' = Cascade(s, matches)
                          /\ draft' = s.draft /\ byes' = Byes(s)
    BY <1>2 DEF Update, Accepted
  <2>2. IsSetup(s)
    BY <2>1
  <2>3. StructureOK' /\ phases' # << >> /\ phases' = Phases(s) /\ DOMAIN seeds' = s.participants
    BY <2>1, <2>2, ReconcileType
  <2>4. DOMAIN matches \subseteq Scheduled \cup Generated /\ \A m \in DOMAIN matches : matches[m] \in Match
    BY RowsAndMatches DEF Placed
  <2>5. Placed(matches', phases', DOMAIN seeds') /\ matches' = [m \in DOMAIN matches' |-> matches'[m]]
    BY <2>1, <2>2, <2>3, <2>4, CascadeType
  <2>6. exists' = TRUE /\ draft' \in BOOLEAN /\ stale' \in BOOLEAN
    BY <1>2, <2>1, RowsAndMatches DEF Update, IInv, TypeOK, IsSetup
  <2>7. BesideOK'
    BY <1>2, <2>1, InvParts, ByesType DEF Update
  <2> QED  BY <2>3, <2>5, <2>6, <2>7, InvPartsNext
<1>3. CASE GenerateMatches
  <2>1. PICK s \in Sent, new \in SUBSET ((Scheduled \ DOMAIN matches) \cup Generated) :
           /\ IsSetup(s) /\ ReconcileSetup(s) /\ draft' = s.draft
           /\ \E place \in [new -> Places(Phases(s))],
                 pair \in [new -> {x \in Pairs : Playable(x, s.participants)}] :
                 LET kept == Cascade(s, Restrict(matches, DOMAIN matches \ Replaced))
                 IN  matches' = [m \in DOMAIN kept \cup new |->
                                   IF m \in new THEN NewMatch(place[m], pair[m]) ELSE kept[m]]
    BY <1>3 DEF GenerateMatches, Accepted
  <2> DEFINE left == Restrict(matches, DOMAIN matches \ Replaced)
             kept == Cascade(s, left)
  <2>2. PICK place \in [new -> Places(Phases(s))],
             pair \in [new -> {x \in Pairs : Playable(x, s.participants)}] :
             matches' = [m \in DOMAIN kept \cup new |-> IF m \in new THEN NewMatch(place[m], pair[m]) ELSE kept[m]]
    BY <2>1
  <2>3. IsSetup(s)
    BY <2>1
  <2>4. StructureOK' /\ phases' # << >> /\ phases' = Phases(s) /\ DOMAIN seeds' = s.participants
    BY <2>1, <2>3, ReconcileType
  <2>5. DOMAIN left \subseteq Scheduled \cup Generated /\ \A m \in DOMAIN left : left[m] \in Match
    BY RowsAndMatches DEF Placed, Restrict
  <2>6. Placed(kept, phases', DOMAIN seeds')
    <3> HIDE DEF left
    <3> QED  BY <2>3, <2>4, <2>5, CascadeType
  <2> HIDE DEF kept
  <2>7. ASSUME NEW m \in new
        PROVE  /\ NewMatch(place[m], pair[m]) \in Match
               /\ {NewMatch(place[m], pair[m]).a, NewMatch(place[m], pair[m]).b}
                     \subseteq DOMAIN seeds' \cup {Label, None}
               /\ NewMatch(place[m], pair[m]).phase \in PhasesOf(phases')
               /\ NewMatch(place[m], pair[m]).group # None =>
                     NewMatch(place[m], pair[m]).group \in PhaseOf(phases', NewMatch(place[m], pair[m]).phase).groups
    <3>1. place[m] \in Places(phases') /\ pair[m] \in Pairs /\ Playable(pair[m], DOMAIN seeds')
      BY <2>4
    <3>2. {pair[m][1], pair[m][2]} \subseteq DOMAIN seeds' \cup {Label}
      BY <3>1 DEF Playable
    <3>3. phases' \in Seq(PhaseRow) /\ \A i, j \in DOMAIN phases' : phases'[i].id = phases'[j].id => i = j
      BY <2>4 DEF StructureOK
    <3> QED  BY <3>1, <3>2, <3>3, NewMatchType
  <2>8. /\ DOMAIN matches' = DOMAIN kept \cup new
        /\ matches' = [m \in DOMAIN matches' |-> matches'[m]]
        /\ \A m \in DOMAIN matches' : matches'[m] = IF m \in new THEN NewMatch(place[m], pair[m]) ELSE kept[m]
    BY <2>2
  <2>9. Placed(matches', phases', DOMAIN seeds')
    <3>1. /\ DOMAIN kept \subseteq Scheduled \cup Generated
          /\ \A m \in DOMAIN kept :
                /\ kept[m] \in Match
                /\ {kept[m].a, kept[m].b} \subseteq DOMAIN seeds' \cup {Label, None}
                /\ kept[m].phase \in PhasesOf(phases')
                /\ kept[m].group # None => kept[m].group \in PhaseOf(phases', kept[m].phase).groups
      BY <2>6 DEF Placed
    <3>2. DOMAIN matches' \subseteq Scheduled \cup Generated
      BY <2>8, <3>1
    <3>3. ASSUME NEW m \in DOMAIN matches'
          PROVE  /\ matches'[m] \in Match
                 /\ {matches'[m].a, matches'[m].b} \subseteq DOMAIN seeds' \cup {Label, None}
                 /\ matches'[m].phase \in PhasesOf(phases')
                 /\ matches'[m].group # None => matches'[m].group \in PhaseOf(phases', matches'[m].phase).groups
      <4>1. CASE m \in new
        <5>1. matches'[m] = NewMatch(place[m], pair[m])
          BY <2>8, <4>1
        <5> QED  BY <2>7, <4>1, <5>1
      <4>2. CASE m \notin new
        <5>1. m \in DOMAIN kept /\ matches'[m] = kept[m]
          BY <2>8, <4>2
        <5> QED  BY <3>1, <5>1
      <4> QED  BY <4>1, <4>2
    <3> QED  BY <3>2, <3>3 DEF Placed
  <2>10. exists' = TRUE /\ draft' \in BOOLEAN /\ stale' \in BOOLEAN
    BY <1>3, <2>1, RowsAndMatches DEF GenerateMatches, IInv, TypeOK, IsSetup
  <2>11. BesideOK'
    BY <1>3, <2>3, InvParts, ByesType DEF GenerateMatches
  <2> QED  BY <2>4, <2>8, <2>9, <2>10, <2>11, InvPartsNext
<1>4. CASE Delete
  <2>1. /\ exists' = FALSE /\ phases' = << >> /\ members' = {} /\ rows' = {}
        /\ DOMAIN seeds = {} /\ DOMAIN matches = {}
        /\ draft' = draft /\ seeds' = seeds /\ matches' = matches /\ stale' = stale
    BY <1>4 DEF Delete
  <2>2. StructureOK'
    <3>1. phases' \in Seq(PhaseRow) /\ DOMAIN phases' = {}
      BY <2>1, EmptySeq
    <3>2. seeds = [p \in DOMAIN seeds |-> seeds[p]]
      BY DEF IInv, Shape
    <3> QED  BY <2>1, <3>1, <3>2 DEF StructureOK
  <2>3. Placed(matches', phases', DOMAIN seeds') /\ matches' = [m \in DOMAIN matches' |-> matches'[m]]
    BY <2>1 DEF Placed, IInv, Shape
  <2>4. BesideOK'
    BY <1>4, InvParts DEF Delete, BesideOK
  <2> QED  BY <2>1, <2>2, <2>3, <2>4, RowsAndMatches, InvPartsNext
<1>5. ASSUME NEW m \in Scheduled \cup Generated, Schedule(m)
      PROVE  IInv'
  <2>1. PICK place \in Places(phases), pair \in Pairs :
           /\ Playable(pair, DOMAIN seeds \cup {Label})
           /\ matches' = [n \in DOMAIN matches \cup {m} |->
                             IF n = m THEN NewMatch(place, pair) ELSE matches[n]]
    BY <1>5 DEF Schedule
  <2>2. /\ NewMatch(place, pair) \in Match
        /\ {NewMatch(place, pair).a, NewMatch(place, pair).b} \subseteq DOMAIN seeds \cup {Label, None}
        /\ NewMatch(place, pair).phase \in PhasesOf(phases)
        /\ NewMatch(place, pair).group # None =>
              NewMatch(place, pair).group \in PhaseOf(phases, NewMatch(place, pair).phase).groups
    <3>1. phases \in Seq(PhaseRow) /\ \A i, j \in DOMAIN phases : phases[i].id = phases[j].id => i = j
      BY InvParts DEF StructureOK
    <3>2. {pair[1], pair[2]} \subseteq DOMAIN seeds \cup {Label}
      BY <2>1 DEF Playable
    <3> QED  BY <3>1, <3>2, NewMatchType
  <2>3. /\ DOMAIN matches' = DOMAIN matches \cup {m}
        /\ matches' = [n \in DOMAIN matches' |-> matches'[n]]
        /\ \A n \in DOMAIN matches' : matches'[n] = IF n = m THEN NewMatch(place, pair) ELSE matches[n]
    BY <2>1
  <2>4. Placed(matches', phases, DOMAIN seeds)
    BY <2>2, <2>3, RowsAndMatches DEF Placed
  <2> QED  BY <1>5, <2>3, <2>4, RowsAndMatches, MatchStep DEF Schedule
<1>6. ASSUME NEW m \in DOMAIN matches, Remove(m)
      PROVE  IInv'
  <2>1. matches' = [n \in DOMAIN matches \ {m} |-> matches[n]]
    BY <1>6 DEF Remove, Restrict
  <2>2. Placed(matches', phases, DOMAIN seeds) /\ matches' = [n \in DOMAIN matches' |-> matches'[n]]
    BY <2>1, RowsAndMatches DEF Placed
  <2> QED  BY <1>6, <2>2, RowsAndMatches, MatchStep DEF Remove
<1>7. ASSUME NEW m \in DOMAIN matches,
             Start(m) \/ RegisterEvent(m) \/ UpdateMatch(m) \/ End(m) \/ CorrectResult(m)
      PROVE  IInv'
  <2>1. Placed(matches', phases, DOMAIN seeds) /\ matches' = [n \in DOMAIN matches' |-> matches'[n]]
    BY <1>7, Operations
  <2>2. UNCHANGED <<exists, structure, byes, found>>
    BY <1>7 DEF Start, RegisterEvent, UpdateMatch, End, CorrectResult
  <2>3. rows' \in {rows, Standings(matches')} /\ draft' \in BOOLEAN /\ stale' \in BOOLEAN
    BY <1>7, WhatIsCounted, RowsAndMatches
  <2>4. rows' \subseteq PhasesOf(phases) \X (DOMAIN seeds) \X (Scheduled \cup Generated)
    BY <2>1, <2>3, RowsAndMatches, StandingsType
  <2> QED  BY <2>1, <2>2, <2>3, <2>4, RowsAndMatches, MatchStep
<1>8. CASE RosterChanges
  <2>1. /\ exists' = exists /\ draft' = draft /\ stale' = stale /\ rows' = rows /\ byes' = byes
        /\ seeds' = seeds /\ phases' = phases /\ members' = members /\ matches' = matches
    BY <1>8 DEF RosterChanges, structure
  <2>2. found' \subseteq Entry
    BY <1>8, InvParts, LeaveAssumption DEF RosterChanges, BesideOK
  <2>3. BesideOK' /\ StructureOK'
    BY <2>1, <2>2, InvParts DEF BesideOK, StructureOK
  <2> QED  BY <2>1, <2>3, InvParts, InvPartsNext DEF Placed
<1>9. CASE UNCHANGED vars
  BY <1>9 DEF vars, structure, IInv, TypeOK, Shape
<1> QED  BY <1>1, <1>2, <1>3, <1>4, <1>5, <1>6, <1>7, <1>8, <1>9 DEF Next

LEMMA Invariant == Spec => []IInv
  BY InvInit, InvNext, PTL DEF Spec

(* Every state is of the types: a member is in one group, which its phase  *)
(* has, a match in a place of the structure, between entries of it.        *)
THEOREM TypeCorrect == Spec => []TypeOK
  BY Invariant, PTL DEF IInv

-----------------------------------------------------------------------------
(* THE PROPERTIES *)

(* While a match is operated every action writes back the structure it     *)
(* found, with the standings on it.                                        *)
LEMMA OperatedStep ==
    ASSUME IInv, Next, Operated
    PROVE  /\ UNCHANGED structure
           /\ (Update \/ GenerateMatches) => rows' = rows
<1>1. exists /\ DOMAIN matches # {}
  BY RowsAndMatches DEF Operated
<1>2. ASSUME NEW s \in Sent, Accepted(s), ReconcileSetup(s)
      PROVE  UNCHANGED structure /\ rows' = rows
  <2>1. IsSetup(s) /\ Requested(s) = Structure
    BY <1>2 DEF Accepted, UnchangedIfOperated
  <2> QED  BY <1>2, <2>1, FrozenReconcile DEF ReconcileSetup, structure
<1>3. CASE Create
  BY <1>1, <1>3 DEF Create
<1>4. CASE Update
  BY <1>2, <1>4 DEF Update
<1>5. CASE GenerateMatches
  BY <1>2, <1>5 DEF GenerateMatches
<1>6. CASE Delete
  BY <1>1, <1>6 DEF Delete
<1>7. ASSUME NEW m, \/ Schedule(m) \/ Remove(m) \/ Start(m) \/ RegisterEvent(m)
                    \/ UpdateMatch(m) \/ End(m) \/ CorrectResult(m)
      PROVE  UNCHANGED structure
  BY <1>7 DEF Schedule, Remove, Start, RegisterEvent, UpdateMatch, End, CorrectResult
<1>8. (Update \/ GenerateMatches) => rows' = rows
  BY <1>4, <1>5
<1>9. CASE RosterChanges
  BY <1>9 DEF RosterChanges
<1> QED  BY <1>3, <1>4, <1>5, <1>6, <1>7, <1>8, <1>9 DEF Next

(* Once a match was operated no setup changes the structure of a category. *)
THEOREM StructureFrozenHolds == Spec => StructureFrozen
<1>1. IInv /\ [Next]_vars => [Operated => Structure' = Structure]_vars
  <2> SUFFICES ASSUME IInv, Next, Operated
               PROVE  Structure' = Structure
    OBVIOUS
  <2>1. seeds' = seeds /\ phases' = phases /\ members' = members
    BY OperatedStep DEF structure
  <2> QED  BY <2>1 DEF Structure
<1> QED  BY <1>1, Invariant, PTL DEF Spec, StructureFrozen

(* A match that was operated keeps its place and its sides, unless it was  *)
(* generated and a generation replaces it.                                 *)
THEOREM OperatedMatchesStayHolds == Spec => OperatedMatchesStay
<1> DEFINE Stays(m) == /\ m \in DOMAIN matches'
                       /\ <<matches'[m].phase, matches'[m].group, matches'[m].a, matches'[m].b>> =
                          <<matches[m].phase, matches[m].group, matches[m].a, matches[m].b>>
<1>1. IInv /\ [Next]_vars =>
         [\A m \in DOMAIN matches :
             matches[m].status \in {"LIVE", "FINISHED", "WALKOVER"} =>
                \/ m \in Generated
                \/ /\ m \in DOMAIN matches'
                   /\ LET n == matches'[m] IN
                      /\ <<n.phase, n.group, n.a, n.b>> =
                         <<matches[m].phase, matches[m].group, matches[m].a, matches[m].b>>]_vars
  <2> SUFFICES ASSUME IInv, Next, NEW m \in DOMAIN matches,
                      matches[m].status \in {"LIVE", "FINISHED", "WALKOVER"}, m \notin Generated
               PROVE  Stays(m)
    OBVIOUS
  <2>1. Operated /\ exists
    BY RowsAndMatches DEF Operated
  <2>2. CASE Create
    BY <2>1, <2>2 DEF Create
  <2>3. CASE Update
    <3>1. PICK s \in Sent : IsSetup(s) /\ UnchangedIfOperated(s) /\ matches' = Cascade(s, matches)
      BY <2>3 DEF Update, Accepted
    <3>2. Cascade(s, matches) = [n \in DOMAIN matches |-> matches[n]]
      BY <2>1, <3>1, FrozenCascade DEF UnchangedIfOperated
    <3> QED  BY <3>1, <3>2
  <2>4. CASE GenerateMatches
    <3> DEFINE left == Restrict(matches, DOMAIN matches \ Replaced)
    <3>1. PICK s \in Sent, new \in SUBSET ((Scheduled \ DOMAIN matches) \cup Generated) :
             /\ IsSetup(s) /\ UnchangedIfOperated(s)
             /\ \E place, pair :
                   matches' = [n \in DOMAIN Cascade(s, left) \cup new |->
                                 IF n \in new THEN NewMatch(place[n], pair[n]) ELSE Cascade(s, left)[n]]
      BY <2>4 DEF GenerateMatches, Accepted
    <3>2. /\ DOMAIN left = DOMAIN matches \ Replaced
          /\ \A n \in DOMAIN left : left[n] = matches[n]
      BY DEF Restrict
    <3>3. Cascade(s, left) = [n \in DOMAIN left |-> left[n]]
      <4> HIDE DEF left
      <4> QED  BY <2>1, <3>1, <3>2, FrozenCascade DEF UnchangedIfOperated
    <3>4. m \in DOMAIN left /\ m \notin new
      BY <3>2, <3>1 DEF Replaced
    <3>5. m \in DOMAIN matches' /\ matches'[m] = matches[m]
      <4> HIDE DEF left
      <4> QED  BY <3>1, <3>2, <3>3, <3>4
    <3> QED  BY <3>5
  <2>5. CASE Delete
    BY <2>5 DEF Delete
  <2>6. ASSUME NEW n \in Scheduled \cup Generated, Schedule(n)
        PROVE  Stays(m)
    BY <2>6 DEF Schedule
  <2>7. ASSUME NEW n \in DOMAIN matches, Remove(n)
        PROVE  Stays(m)
    BY <2>7 DEF Remove, Restrict
  <2>8. ASSUME NEW n \in DOMAIN matches,
               Start(n) \/ RegisterEvent(n) \/ UpdateMatch(n) \/ End(n) \/ CorrectResult(n)
        PROVE  Stays(m)
    BY <2>8, Operations DEF Kept
  <2>9. CASE RosterChanges
    BY <2>9 DEF RosterChanges
  <2> QED  BY <2>2, <2>3, <2>4, <2>5, <2>6, <2>7, <2>8, <2>9 DEF Next
<1> QED  BY <1>1, Invariant, PTL DEF Spec, OperatedMatchesStay

(* A client that sends back what it was shown changes nothing.             *)
THEOREM EchoIsHarmlessHolds == Spec => []EchoIsHarmless
<1>1. IInv => EchoIsHarmless
  <2> SUFFICES ASSUME IInv, exists, DistinctGroups, byes = None \/ byes \subseteq DOMAIN seeds
               PROVE  /\ DOMAIN seeds \subseteq found => Accepted(Shown)
                      /\ Requested(Shown) = Structure
                      /\ Seeds(Shown) = seeds /\ Phases(Shown) = phases /\ Members(Shown) = members
                      /\ Byes(Shown) = byes
                      /\ Cascade(Shown, matches) = matches
                      /\ RowsLeft(Shown) = rows
    BY DEF EchoIsHarmless
  <2>1. /\ Shown.participants = DOMAIN seeds
        /\ Shown.phases = phases
        /\ DOMAIN Shown.seeds = {p \in DOMAIN seeds : seeds[p] # None}
        /\ \A p \in DOMAIN Shown.seeds : Shown.seeds[p] = seeds[p]
        /\ DOMAIN Shown.assignments = {x[3] : x \in members}
        /\ \A p \in {x[3] : x \in members} : Shown.assignments[p] = (CHOOSE x \in members : x[3] = p)[2]
    BY DEF Shown, Restrict
  <2>2. \A x \in members : Shown.assignments[x[3]] = x[2]
    <3> TAKE x \in members
    <3>1. PICK y \in members : y[3] = x[3] /\ Shown.assignments[x[3]] = y[2]
      BY <2>1
    <3> QED  BY <3>1 DEF IInv, TypeOK
  <2>3. ASSUME NEW i \in DOMAIN phases, NEW g \in phases[i].groups
        PROVE  Assigned(Shown, g) = Stored(i, g)
    <3>1. ASSUME NEW p \in Assigned(Shown, g)
          PROVE  p \in Stored(i, g)
      <4>1. PICK x \in members : x[3] = p /\ x[2] = g
        BY <2>1, <2>2 DEF Assigned
      <4>2. x[1] \in PhasesOf(phases) /\ g \in PhaseOf(phases, x[1]).groups
        BY <4>1 DEF IInv, TypeOK
      <4>3. PICK j \in DOMAIN phases : x[1] = phases[j].id
        BY <4>2 DEF PhasesOf
      <4>4. g \in phases[j].groups
        BY <4>2, <4>3, PhaseOfIs DEF IInv, TypeOK
      <4>5. i = j
        BY <4>4 DEF DistinctGroups
      <4> QED  BY <4>1, <4>3, <4>5 DEF Stored
    <3>2. ASSUME NEW p \in Stored(i, g)
          PROVE  p \in Assigned(Shown, g)
      <4>1. PICK x \in members : x[3] = p /\ x[2] = g
        BY DEF Stored
      <4> QED  BY <2>1, <2>2, <4>1 DEF Assigned
    <3> QED  BY <3>1, <3>2
  <2>4. Requested(Shown) = Structure
    <3>1. [p \in Shown.participants |-> IF p \in DOMAIN Shown.seeds THEN Shown.seeds[p] ELSE None] = seeds
      <4>1. seeds = [p \in DOMAIN seeds |-> seeds[p]]
        BY DEF IInv, Shape
      <4> QED  BY <2>1, <4>1
    <3>2. \A i \in DOMAIN phases :
             [g \in phases[i].groups |-> Assigned(Shown, g)] = [g \in phases[i].groups |-> Stored(i, g)]
      BY <2>3
    <3>3. [i \in DOMAIN phases |->
              [id |-> phases[i].id, type |-> phases[i].type, qualifiers |-> phases[i].qualifiers,
               groups |-> [g \in phases[i].groups |-> Assigned(Shown, g)]]] =
          [i \in DOMAIN phases |->
              [id |-> phases[i].id, type |-> phases[i].type, qualifiers |-> phases[i].qualifiers,
               groups |-> [g \in phases[i].groups |-> Stored(i, g)]]]
      BY <3>2, Zenon
    <3> QED  BY <2>1, <3>1, <3>3, Zenon DEF Requested, Structure, Stored
  <2>5. IsSetup(Shown)
    BY ShownIsSetup
  <2>6. Cascade(Shown, matches) = matches
    BY <2>4, <2>5, FrozenCascade DEF IInv, Shape
  <2>7. DOMAIN seeds \subseteq found => Accepted(Shown)
    BY <2>1, <2>4, <2>5 DEF Accepted, UnchangedIfOperated
  <2>8. Byes(Shown) = byes
    BY DEF Byes, Shown
  <2> QED  BY <2>4, <2>5, <2>6, <2>7, <2>8, FrozenReconcile
<1> QED  BY <1>1, Invariant, PTL

-----------------------------------------------------------------------------
(* THE STANDINGS *)

(* The standings depend on nothing else. *)
LEMMA StandingsDepend ==
    ASSUME NEW ms, NEW ns, SameOfficial(ms, ns)
    PROVE  Standings(ms) = Standings(ns)
<1>1. ASSUME NEW x \in Standings(ms)
      PROVE  x \in Standings(ns)
  <2>1. PICK m \in DOMAIN ms, e \in DOMAIN seeds : x = <<ms[m].phase, e, m>> /\ Counts(ms, m, e)
    BY DEF Standings
  <2>2. m \in DOMAIN ns /\ ns[m] = ms[m]
    BY <2>1 DEF Counts, SameOfficial
  <2>3. Counts(ns, m, e)
    BY <2>1, <2>2 DEF Counts
  <2>4. x = <<ns[m].phase, e, m>> /\ x[3] = m /\ x[2] = e
    BY <2>1, <2>2
  <2> QED  BY <2>2, <2>3, <2>4 DEF Standings
<1>2. ASSUME NEW x \in Standings(ns)
      PROVE  x \in Standings(ms)
  <2>1. PICK m \in DOMAIN ns, e \in DOMAIN seeds : x = <<ns[m].phase, e, m>> /\ Counts(ns, m, e)
    BY DEF Standings
  <2>2. m \in DOMAIN ms /\ ns[m] = ms[m]
    BY <2>1 DEF Counts, SameOfficial
  <2>3. Counts(ms, m, e)
    BY <2>1, <2>2 DEF Counts
  <2>4. x = <<ms[m].phase, e, m>> /\ x[3] = m /\ x[2] = e
    BY <2>1, <2>2
  <2> QED  BY <2>2, <2>3, <2>4 DEF Standings
<1> QED  BY <1>1, <1>2

(* Without official matches there are none. *)
LEMMA NoStandings ==
    ASSUME NEW ms, \A m \in DOMAIN ms : ~Official(ms[m])
    PROVE  Standings(ms) = {}
  BY DEF Standings, Counts

(* On the structure as it was, a recount counts what it would have. *)
LEMMA StandingsOnTheSame ==
    ASSUME UNCHANGED structure
    PROVE  Standings(matches)' = Standings(matches')
<1>1. seeds' = seeds /\ phases' = phases /\ members' = members
  BY DEF structure
<1> QED  BY <1>1 DEF Standings, Counts

LEMMA StandingsStep ==
    ASSUME IInv, StandingsAreCurrent, [Next]_vars
    PROVE  StandingsAreCurrent'
<1> SUFFICES ASSUME ~stale' PROVE rows' = Standings(matches)'
  BY DEF StandingsAreCurrent
<1>1. ASSUME UNCHANGED structure, SameOfficial(matches, matches'), rows' = rows, ~stale
      PROVE  rows' = Standings(matches)'
  BY <1>1, StandingsOnTheSame, StandingsDepend DEF StandingsAreCurrent
<1>2. ASSUME \A m \in DOMAIN matches' : ~Official(matches'[m])
      PROVE  Standings(matches)' = {}
  BY <1>2 DEF Standings, Counts, Official
<1>3. ASSUME NEW s, rows = {}, ReconcileSetup(s)
      PROVE  rows' = {}
  BY <1>3 DEF ReconcileSetup, RowsLeft
<1>4. ASSUME ~Operated, ~stale
      PROVE  rows = {} /\ \A m \in DOMAIN matches : ~Official(matches[m])
  <2>1. \A m \in DOMAIN matches : ~Official(matches[m])
    BY <1>4 DEF Operated, Official
  <2> QED  BY <1>4, <2>1, NoStandings DEF StandingsAreCurrent
<1>5. CASE Create
  <2>1. PICK s \in Setups : ReconcileSetup(s)
    BY <1>5 DEF Create
  <2>2. ~Operated /\ ~stale /\ DOMAIN matches = {} /\ matches' = matches
    BY <1>5, InvParts DEF Create, Operated
  <2> QED  BY <1>2, <1>3, <1>4, <2>1, <2>2
<1>6. CASE Update
  <2>1. PICK s \in Sent : /\ IsSetup(s) /\ ReconcileSetup(s) /\ UnchangedIfOperated(s)
                          /\ matches' = Cascade(s, matches)
    BY <1>6 DEF Update, Accepted
  <2>2. ~stale /\ IsSetup(s)
    BY <1>6, <2>1 DEF Update
  <2>3. CASE Operated
    <3>1. Cascade(s, matches) = [m \in DOMAIN matches |-> matches[m]]
      BY <2>1, <2>2, <2>3, FrozenCascade DEF UnchangedIfOperated
    <3>2. SameOfficial(matches, matches')
      BY <2>1, <3>1 DEF SameOfficial
    <3>3. UNCHANGED structure /\ rows' = rows
      BY <1>6, <2>3, OperatedStep DEF Next
    <3> QED  BY <1>1, <2>2, <3>2, <3>3
  <2>4. CASE ~Operated
    <3>1. rows = {} /\ \A m \in DOMAIN matches : ~Official(matches[m])
      BY <1>4, <2>2, <2>4
    <3>2. \A m \in DOMAIN matches' : m \in DOMAIN matches /\ matches'[m].status = matches[m].status
      BY <2>1, <2>2, CascadeType, RowsAndMatches DEF Placed
    <3> QED  BY <1>2, <1>3, <2>1, <3>1, <3>2 DEF Official
  <2> QED  BY <2>3, <2>4
<1>7. CASE GenerateMatches
  <2> DEFINE left == Restrict(matches, DOMAIN matches \ Replaced)
  <2>1. PICK s \in Sent, new \in SUBSET ((Scheduled \ DOMAIN matches) \cup Generated) :
           /\ IsSetup(s) /\ ReconcileSetup(s) /\ UnchangedIfOperated(s)
           /\ \E place, pair :
                 matches' = [n \in DOMAIN Cascade(s, left) \cup new |->
                               IF n \in new THEN NewMatch(place[n], pair[n]) ELSE Cascade(s, left)[n]]
    BY <1>7 DEF GenerateMatches, Accepted
  <2>2. /\ DOMAIN left = DOMAIN matches \ Replaced
        /\ \A n \in DOMAIN left : left[n] = matches[n]
    BY DEF Restrict
  <2>3. ~stale /\ IsSetup(s) /\ \A m \in Replaced : ~Official(matches[m])
    BY <1>7, <2>1 DEF GenerateMatches
  <2> HIDE DEF left
  <2>4. \A n \in new : n \in DOMAIN matches' /\ ~Official(matches'[n])
    BY <2>1 DEF NewMatch, Official
  <2>5. /\ DOMAIN matches' = DOMAIN Cascade(s, left) \cup new
        /\ \A n \in DOMAIN matches' \ new : matches'[n] = Cascade(s, left)[n]
    BY <2>1
  <2>6. CASE Operated
    <3>1. Cascade(s, left) = [n \in DOMAIN left |-> left[n]]
      BY <2>1, <2>2, <2>3, <2>6, FrozenCascade DEF UnchangedIfOperated
    <3>2. \A n \in DOMAIN matches' \ new : n \in DOMAIN matches /\ matches'[n] = matches[n]
      BY <2>2, <2>5, <3>1
    <3>3. ASSUME NEW n \in DOMAIN matches, Official(matches[n])
          PROVE  n \in DOMAIN matches' /\ matches'[n] = matches[n]
      <4>1. n \notin Replaced
        BY <2>3, <3>3
      <4>2. n \in DOMAIN left /\ n \notin new
        BY <2>1, <2>2, <4>1 DEF Replaced
      <4> QED  BY <2>2, <2>5, <3>1, <4>2
    <3>4. SameOfficial(matches, matches')
      BY <2>4, <3>2, <3>3 DEF SameOfficial
    <3>5. UNCHANGED structure /\ rows' = rows
      BY <1>7, <2>6, OperatedStep DEF Next
    <3> QED  BY <1>1, <2>3, <3>4, <3>5
  <2>7. CASE ~Operated
    <3>1. rows = {} /\ \A m \in DOMAIN matches : ~Official(matches[m])
      BY <1>4, <2>3, <2>7
    <3>2. DOMAIN left \subseteq Scheduled \cup Generated /\ \A m \in DOMAIN left : left[m] \in Match
      BY <2>2, RowsAndMatches DEF Placed
    <3>3. \A m \in DOMAIN Cascade(s, left) : m \in DOMAIN left /\ Cascade(s, left)[m].status = left[m].status
      BY <2>3, <3>2, CascadeType
    <3>4. \A m \in DOMAIN matches' : ~Official(matches'[m])
      BY <2>2, <2>4, <2>5, <3>1, <3>3 DEF Official
    <3> QED  BY <1>2, <1>3, <2>1, <3>1, <3>4
  <2> QED  BY <2>6, <2>7
<1>8. CASE Delete
  BY <1>2, <1>8 DEF Delete
<1>9. ASSUME NEW m \in Scheduled \cup Generated, Schedule(m)
      PROVE  rows' = Standings(matches)'
  <2>1. PICK place, pair : matches' = [n \in DOMAIN matches \cup {m} |->
                              IF n = m THEN NewMatch(place, pair) ELSE matches[n]]
    BY <1>9 DEF Schedule
  <2>2. m \notin DOMAIN matches /\ UNCHANGED structure /\ rows' = rows /\ ~stale
    BY <1>9 DEF Schedule
  <2>3. SameOfficial(matches, matches')
    BY <2>1, <2>2 DEF SameOfficial, Official, NewMatch
  <2> QED  BY <1>1, <2>2, <2>3
<1>10. ASSUME NEW m \in DOMAIN matches, Remove(m)
       PROVE  rows' = Standings(matches)'
  <2>1. matches' = [n \in DOMAIN matches \ {m} |-> matches[n]] /\ ~Official(matches[m])
    BY <1>10 DEF Remove, Restrict, Official
  <2>2. SameOfficial(matches, matches')
    BY <2>1 DEF SameOfficial
  <2> QED  BY <1>1, <1>10, <2>2 DEF Remove
<1>11. ASSUME NEW m \in DOMAIN matches,
              Start(m) \/ RegisterEvent(m) \/ UpdateMatch(m) \/ End(m) \/ CorrectResult(m)
       PROVE  rows' = Standings(matches)'
  <2>1. UNCHANGED structure
    BY <1>11 DEF Start, RegisterEvent, UpdateMatch, End, CorrectResult
  <2>2. CASE rows' = Standings(matches')
    BY <2>1, <2>2, StandingsOnTheSame
  <2>3. CASE ~stale /\ rows' = rows /\ SameOfficial(matches, matches')
    BY <1>1, <2>1, <2>3
  <2> QED  BY <1>11, <2>2, <2>3, WhatIsCounted
<1>12. CASE RosterChanges
  <2>1. UNCHANGED structure /\ matches' = matches /\ rows' = rows /\ ~stale
    BY <1>12 DEF RosterChanges
  <2> QED  BY <1>1, <2>1 DEF SameOfficial
<1>13. CASE UNCHANGED vars
  BY <1>13, StandingsOnTheSame DEF vars, structure, StandingsAreCurrent
<1> QED  BY <1>5, <1>6, <1>7, <1>8, <1>9, <1>10, <1>11, <1>12, <1>13 DEF Next

(* The stored standings count the official matches, except after a         *)
(* generation that replaced some or an update that ended one.              *)
THEOREM StandingsAreCurrentHolds == Spec => []StandingsAreCurrent
<1>1. Init => StandingsAreCurrent
  <2> SUFFICES ASSUME Init PROVE StandingsAreCurrent
    OBVIOUS
  <2>1. DOMAIN matches = {} /\ rows = {}
    BY DEF Init
  <2> QED  BY <2>1, NoStandings DEF StandingsAreCurrent
<1>2. IInv /\ StandingsAreCurrent /\ [Next]_vars => StandingsAreCurrent'
  BY StandingsStep
<1> QED  BY <1>1, <1>2, Invariant, PTL DEF Spec
=============================================================================
