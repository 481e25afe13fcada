----------------------------- MODULE MCStandings -----------------------------
EXTENDS Standings

Outcome(scoreA, scoreB, winner, cardsA, cardsB) ==
  [scoreA |-> scoreA, scoreB |-> scoreB, winner |-> winner, cardsA |-> cardsA, cardsB |-> cardsB]

Match(home, away, group) == [home |-> home, away |-> away, group |-> group]

\* Home win, away win, draw.
Plain(f) == {Outcome(1, 0, f.home, 0, 0), Outcome(0, 1, f.away, 0, 0), Outcome(0, 0, Nobody, 0, 0)}

\* With a bigger win, a walkover without goals and a card.
Varied(f) == {Outcome(1, 0, f.home, 0, 0), Outcome(3, 1, f.home, 1, 0), Outcome(0, 0, f.away, 0, 0),
              Outcome(1, 2, f.away, 0, 0), Outcome(1, 1, Nobody, 0, 0)}

Config(discipline, standings) == [discipline |-> discipline, standings |-> standings]

\* A group of four that all meet: enough for three tied entries, or two pairs of tied ones.
Four ==
  LET matches == {Match(1, 2, 1), Match(3, 4, 1), Match(1, 3, 1), Match(4, 2, 1), Match(1, 4, 1), Match(2, 3, 1)}
  IN [type |-> "GROUP", groups |-> <<{1, 2, 3, 4}>>, entries |-> 1 .. 4, perGroup |-> 2, bestThirds |-> 1,
      matches |-> matches,
      outcomes |-> [f \in matches |-> 
        CASE f = Match(1, 4, 1) -> {Outcome(1, 0, 1, 0, 0), Outcome(2, 0, 1, 0, 0)}
          [] f = Match(4, 2, 1) -> {Outcome(0, 1, 2, 0, 0)}
          [] OTHER -> Plain(f)],
      configs |-> {Config("Futsal", {}), Config("Volei", {})}]

\* Two groups of unequal size; one match was scheduled in the phase without its group.
\* Rules may change on the way: the mini-table in the middle, or a criterion nobody knows.
Two ==
  LET matches == {Match(1, 4, 1), Match(4, 5, 1), Match(5, 1, 0), Match(2, 3, 2)}
  IN [type |-> "GROUP", groups |-> <<{1, 4, 5}, {2, 3}>>, entries |-> 1 .. 5, perGroup |-> 1, bestThirds |-> 1,
      matches |-> matches, outcomes |-> [f \in matches |-> Varied(f)],
      configs |-> {Config("Basquete", {}), Config("Xadrez", {}),
                   Config("Basquete", {Rule(4, 2, 0, <<"sofridos", "confronto-direto", "fair-play">>)}),
                   Config("Xadrez", {Rule(2, 1, 0, <<"marcados", "gols">>)})}]

\* A league that still carries the groups of its past, in a discipline without a preset and one
\* that never compares the tied among themselves.
League ==
  LET matches == {Match(1, 2, 1), Match(2, 3, 0), Match(3, 1, 2)}
  IN [type |-> "LEAGUE", groups |-> <<{1, 2}, {3}>>, entries |-> 1 .. 3, perGroup |-> 2, bestThirds |-> 1,
      matches |-> matches, outcomes |-> [f \in matches |-> Varied(f)],
      configs |-> {Config("Atletismo", {}), Config("Natacao", {})}]

MCLayouts == {Four, Two, League}
=============================================================================
