----------------------------- MODULE MCCategory -----------------------------
(* Three entries and setups that differ in what the code looks at: a phase *)
(* of one group before a knockout, two phases that repeat a group's name   *)
(* with a bye, a league that still names a group, with one participant     *)
(* less, and a draft of nobody.                                            *)
EXTENDS Category, TLC

CONSTANTS ana, bia, caio, p1, p2, g, h

Phase(id, type, groups) == [id |-> id, type |-> type, qualifiers |-> 1, groups |-> groups]

OneGroup ==
    [participants |-> {ana, bia, caio}, seeds |-> ana :> 1 @@ bia :> 2,
     phases |-> <<Phase(p1, "GROUP", {g}), Phase(p2, "KNOCKOUT", {})>>,
     assignments |-> ana :> g @@ bia :> g @@ caio :> g, byes |-> None, draft |-> FALSE]
Repeated ==
    [OneGroup EXCEPT !.phases = <<Phase(p2, "GROUP", {g}), Phase(p1, "GROUP", {g, h})>>,
                     !.assignments[caio] = h, !.byes = {caio}]
League ==
    [OneGroup EXCEPT !.participants = {ana, bia}, !.seeds = ana :> 2,
                     !.phases = <<Phase(p1, "LEAGUE", {g})>>, !.assignments = ana :> g @@ bia :> g]
Nobody ==
    [participants |-> {}, seeds |-> << >>,
     phases |-> <<Phase(p1, "LEAGUE", {})>>, assignments |-> << >>, byes |-> None, draft |-> TRUE]

AllSetups == {OneGroup, Repeated, League, Nobody}
SomePairs == {<<ana, bia>>, <<Label, caio>>}
=============================================================================
