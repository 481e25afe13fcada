------------------------------ MODULE Standings ------------------------------
(***************************************************************************)
(* The standings of a classification phase and who qualifies from it:      *)
(* edition-action-recalculation.service.ts, from the official matches to   *)
(* phase_standings, to the seeds of the knockout and to the positions the  *)
(* labels of a published key stand for.  The regulation of the discipline  *)
(* (action-regulation.ts) is data, and discipline/update may change it     *)
(* between two recounts.                                                   *)
(*                                                                         *)
(* Entries are numbers in the order of their identifiers.  Points are      *)
(* counted in halves, for chess gives half a point for a draw.             *)
(***************************************************************************)
EXTENDS Integers, Sequences, FiniteSetsExt, Functions

CONSTANT Layouts        \* phases: type, groups in order of name, matches, who qualifies, and
                        \* configurations of the discipline: its preset, or standings of its own

VARIABLES layout,       \* the phase of this behaviour
          config,       \* the configuration in force
          results,      \* of each official match: its result
          table,        \* of an entry: its row of phase_standings, counts and rank
          counted       \* history: results and rule of the last recount

standingsVars == <<layout, config, results, table, counted>>

Nobody == 0

\* The groups of a phase are finite and share no entry; a match is between two entries and won by
\* one of them or by nobody; results are numbers, and so are the points of a regulation.
LayoutAssumption ==
  \A l \in Layouts :
    /\ \A group \in Range(l.groups) \cup {l.entries} : group \subseteq Nat \ {Nobody} /\ IsFiniteSet(group)
    /\ \A g, h \in DOMAIN l.groups : g # h => l.groups[g] \cap l.groups[h] = {}
    /\ l.groups \in Seq(Range(l.groups)) /\ {l.perGroup, l.bestThirds} \subseteq Nat
    /\ IsFiniteSet(l.matches)
    /\ \A f \in l.matches : f.home # f.away /\ Nobody \notin {f.home, f.away}
    /\ \A f \in l.matches : \A o \in l.outcomes[f] :
          /\ o.winner \in {f.home, f.away, Nobody}
          /\ {o.scoreA, o.scoreB, o.cardsA, o.cardsB} \subseteq Nat
    /\ \A c \in l.configs : \A r \in c.standings :
          {r.win, r.draw, r.loss} \subseteq Nat /\ r.tiebreakers \in Seq(STRING)
ASSUME LayoutAssumption

\* No two entries can be half a point's weight apart in goals: the widest margin, over the matches
\* of an entry, is what the balance of a mini-table can reach.
MarginAssumption ==
  \A l \in Layouts : \E margin \in 0 .. 250 :
    /\ \A f \in l.matches : \A o \in l.outcomes[f] : o.scoreA - o.scoreB \in -margin .. margin
    /\ \A e \in UNION {{f.home, f.away} : f \in l.matches} :
          2 * margin * Cardinality({f \in l.matches : e \in {f.home, f.away}}) < 500
ASSUME MarginAssumption

-----------------------------------------------------------------------------
(* Regulations                                                             *)

Collective == <<"confronto-direto", "vitorias", "saldo", "marcados", "fair-play", "sorteio">>

Rule(win, draw, loss, tiebreakers) ==
  [win |-> win, draw |-> draw, loss |-> loss, tiebreakers |-> tiebreakers]

Defaults == [
  Futsal   |-> Rule(6, 2, 0, Collective),
  Handebol |-> Rule(6, 2, 0, Collective),
  Basquete |-> Rule(4, 0, 2, <<"confronto-direto", "saldo", "marcados", "fair-play", "sorteio">>),
  Volei    |-> Rule(6, 0, 0, <<"confronto-direto", "vitorias", "saldo", "marcados", "sorteio">>),
  Xadrez   |-> Rule(2, 1, 0, <<"confronto-direto", "vitorias", "sorteio">>),
  Natacao  |-> Rule(6, 2, 0, <<"vitorias", "marcados", "sorteio">>)]

\* Presets whose completion allows no draw, and sets, which know none.
Decisive == {"Basquete", "Volei", "Natacao"}

Generic == Rule(6, 2, 0, Collective)

Tiebreakers == {"confronto-direto", "vitorias", "saldo", "marcados", "sofridos",
                "fair-play", "sorteio"}

\* Own standings are refused, with the action that needs them, if a criterion is unknown.
Accepted(c) ==
  c.standings # {} => \A r \in c.standings :
                        r.tiebreakers # <<>> /\ Range(r.tiebreakers) \subseteq Tiebreakers

ResolveActionRegulation(c) ==
  IF c.standings # {} THEN CHOOSE r \in c.standings : TRUE
  ELSE IF c.discipline \in DOMAIN Defaults THEN Defaults[c.discipline]
  ELSE Generic

-----------------------------------------------------------------------------
(* Counting: a row is a sum over the matches of an entry within a block.   *)

MatchesOf(group, res) ==
  {f \in DOMAIN res :
     \/ f.group = group
     \/ f.group = 0 /\ {f.home, f.away} \subseteq layout.groups[group]}

Accumulate(block, matches, r, res) ==
  [e \in block |->
    LET mine  == {f \in matches : e \in {f.home, f.away} /\ {f.home, f.away} \subseteq block}
        won   == Cardinality({f \in mine : res[f].winner = e})
        drawn == Cardinality({f \in mine : res[f].winner \notin {f.home, f.away}})
        lost  == Cardinality(mine) - won - drawn
        sum(atHome, abroad) ==
          SumFunction([f \in mine |-> res[f][IF f.home = e THEN atHome ELSE abroad]])
    IN [played |-> Cardinality(mine), won |-> won, drawn |-> drawn, lost |-> lost,
        points |-> won * r.win + drawn * r.draw + lost * r.loss,
        scoreFor |-> sum("scoreA", "scoreB"), scoreAgainst |-> sum("scoreB", "scoreA"),
        disciplinary |-> sum("cardsA", "cardsB")]]

\* Mutant: the balance is turned around.
CriterionTurned(criterion, row, mini) ==
  CASE criterion = "confronto-direto" -> mini.points * 500 + mini.scoreFor - mini.scoreAgainst
    [] criterion = "saldo" -> row.scoreAgainst - row.scoreFor
    [] OTHER -> 0

\* Higher is better.  In the mini-table a point weighs as much as a thousand goals.
CriterionValue(criterion, row, mini) ==
  CASE criterion = "confronto-direto" -> mini.points * 500 + mini.scoreFor - mini.scoreAgainst
    [] criterion = "vitorias"  -> row.won
    [] criterion = "saldo"     -> row.scoreFor - row.scoreAgainst
    [] criterion = "marcados"  -> row.scoreFor
    [] criterion = "sofridos"  -> -row.scoreAgainst
    [] criterion = "fair-play" -> -row.disciplinary
    [] OTHER -> 0

\* Mutant: the mini-table keeps the matches against entries that are no longer tied.
ValueOverAll(tied, k, matches, r, stats, criteria, res) ==
  LET mini == Accumulate(DOMAIN stats, matches, r, res)
  IN [e \in tied |-> CriterionValue(criteria[k], stats[e], mini[e])]

\* What the buckets are made by: an entry's value for the k-th criterion, in a block of tied ones.
BucketValue(tied, k, matches, r, stats, criteria, res) ==
  LET mini == Accumulate(tied, matches, r, res)
  IN [e \in tied |-> CriterionValue(criteria[k], stats[e], mini[e])]

\* Behind the better buckets comes the bucket of an entry; inside it, the order of the rest.
Behind(tied, value, within) ==
  [e \in tied |-> Cardinality({d \in tied : value[d] > value[e]})
                  + within[{d \in tied : value[d] = value[e]}][e]]

\* The place of each entry in a block of tied ones; placed[k] knows the criteria from the k-th on.
RankBlock(block, matches, r, stats, criteria, res) ==
  LET placed[k \in 1 .. Len(criteria) + 1] ==
        [tied \in SUBSET block |->
           IF Cardinality(tied) <= 1 \/ k > Len(criteria) \/ criteria[k] = "sorteio"
           THEN [e \in tied |-> 1 + Cardinality({d \in tied : d < e})]
           ELSE Behind(tied, BucketValue(tied, k, matches, r, stats, criteria, res), placed[k + 1])]
  IN placed[1][block]

ComputeStandings(block, matches, r, res) ==
  LET stats == Accumulate(block, matches, r, res)
      rank  == Behind(block, [e \in block |-> stats[e].points],
                      [tied \in SUBSET block |-> RankBlock(tied, matches, r, stats, r.tiebreakers, res)])
  IN [e \in block |-> [rank |-> rank[e], counts |-> stats[e]]]

Grouped == layout.type = "GROUP" /\ layout.groups # <<>>

\* A league is one table of all entries, whatever groups it still carries.
Blocks == IF Grouped THEN Range(layout.groups) ELSE {layout.entries}

BlockMatches(block, res) ==
  IF Grouped THEN MatchesOf(CHOOSE g \in DOMAIN layout.groups : layout.groups[g] = block, res)
             ELSE DOMAIN res

TableOf(r, res) ==
  LET computed(block) == ComputeStandings(block, BlockMatches(block, res), r, res)
  IN [e \in UNION Blocks |-> computed(CHOOSE b \in Blocks : e \in b)[e]]

-----------------------------------------------------------------------------
(* Who qualifies.  Positions are read off the stored table.                *)

\* group.entries ... find: the entry of a group that the table ranks there, or Nobody.
AtPosition(group, position) ==
  LET here == {e \in group \cap DOMAIN table : table[e].rank = position}
  IN IF here = {} THEN Nobody ELSE CHOOSE e \in here : TRUE

QualifierSlot(e) ==
  LET counts == table[e].counts
  IN <<counts.points, counts.scoreFor - counts.scoreAgainst, counts.scoreFor, -e>>

NextInGroup == {AtPosition(group, layout.perGroup + 1) : group \in Range(layout.groups)} \ {Nobody}

\* The order of the best next ones, among those given.
BetterThird(among) ==
  {p \in among \X among :
     \E i \in 1 .. 4 : /\ QualifierSlot(p[1])[i] > QualifierSlot(p[2])[i]
                       /\ \A j \in 1 .. i - 1 : QualifierSlot(p[1])[j] = QualifierSlot(p[2])[j]}

\* A set in the order of a strict total order.
InOrder(S, order) ==
  [i \in 1 .. Cardinality(S) |->
     CHOOSE x \in S : Cardinality({y \in S : <<y, x>> \in order}) = i - 1]

\* A list without its gaps.
Present(list) ==
  LET filled == {i \in DOMAIN list : list[i] # Nobody}
      index  == InOrder(filled, {p \in filled \X filled : p[1] < p[2]})
  IN [n \in DOMAIN index |-> list[index[n]]]

\* Row by row: the first of every group, then the second of every group.
DirectSlots ==
  LET width == Len(layout.groups)
  IN Present([i \in 1 .. layout.perGroup * width |->
                AtPosition(layout.groups[((i - 1) % width) + 1], ((i - 1) \div width) + 1)])

ThirdSlots == InOrder(NextInGroup, BetterThird(NextInGroup))

\* The seeds of the knockout: by position, then by group, then the best of the next position.
CollectQualifiers ==
  IF ~Grouped
  THEN LET through == {e \in DOMAIN table : table[e].rank <= layout.perGroup}
       IN InOrder(through, {p \in through \X through : table[p[1]].rank < table[p[2]].rank})
  ELSE DirectSlots \o SubSeq(ThirdSlots, 1, Min({layout.bestThirds, Len(ThirdSlots)}))

\* Mutant: the best of the last direct position instead of the next.
MapaOneBefore ==
  LET last == {AtPosition(group, layout.perGroup) : group \in Range(layout.groups)} \ {Nobody}
  IN [porGrupo  |-> [g \in DOMAIN layout.groups |->
        [position \in {table[e].rank : e \in layout.groups[g] \cap DOMAIN table} |->
           AtPosition(layout.groups[g], position)]],
      terceiros |-> InOrder(last, BetterThird(last))]

\* The second reading of the table, for the labels of a published key.
MapaDeColocacoes ==
  [porGrupo  |-> [g \in DOMAIN layout.groups |->
      [position \in {table[e].rank : e \in layout.groups[g] \cap DOMAIN table} |->
         AtPosition(layout.groups[g], position)]],
   terceiros |-> InOrder(NextInGroup, BetterThird(NextInGroup))]

\* A label names a position of a group, or one among the best of the next position.
ResolveColocacao(label, mapa) ==
  IF label.tipo = "melhor-terceiro"
  THEN IF label.posicao \in DOMAIN mapa.terceiros THEN mapa.terceiros[label.posicao] ELSE Nobody
  ELSE IF label.posicao \in DOMAIN mapa.porGrupo[label.grupo]
       THEN mapa.porGrupo[label.grupo][label.posicao] ELSE Nobody

-----------------------------------------------------------------------------

StandingsInit ==
  /\ layout \in Layouts
  /\ config \in {c \in layout.configs : Accepted(c)}
  /\ results = <<>>
  /\ counted = [results |-> results, rule |-> ResolveActionRegulation(config)]
  /\ table = TableOf(counted.rule, results)

Recount(res) ==
  /\ Accepted(config)
  /\ counted' = [results |-> res, rule |-> ResolveActionRegulation(config)]
  /\ table' = TableOf(counted'.rule, res)

\* Finishes, sheets, walkovers and corrections: a result becomes official, and all is recounted.
RecordResult(f, outcome) ==
  /\ f \in DOMAIN results => results[f] # outcome
  /\ outcome.winner = Nobody => config.discipline \notin Decisive
  /\ results' = [g \in DOMAIN results \cup {f} |-> IF g = f THEN outcome ELSE results[g]]
  /\ Recount(results')
  /\ UNCHANGED <<layout, config>>

\* discipline/update stores the configuration as it comes and recounts nothing.
RulesUpdate(c) ==
  /\ c # config /\ c.discipline = config.discipline
  /\ config' = c
  /\ UNCHANGED <<layout, results, table, counted>>

StandingsNext ==
  \/ \E f \in layout.matches : \E outcome \in layout.outcomes[f] : RecordResult(f, outcome)
  \/ \E c \in layout.configs : RulesUpdate(c)

StandingsSpec == StandingsInit /\ [][StandingsNext]_standingsVars

-----------------------------------------------------------------------------
(* The order the regulation describes, criterion by criterion.             *)

\* Criteria count down to the draw; what is tied on all of them is drawn by identifier.
Criteria(r) ==
  LET draws == {i \in DOMAIN r.tiebreakers : r.tiebreakers[i] = "sorteio"}
  IN SubSeq(r.tiebreakers, 1, IF draws = {} THEN Len(r.tiebreakers) ELSE Min(draws) - 1)

\* What an entry shows for the k-th criterion among those it is still tied with.
Merit(k, e, tied, stats, matches, r, res) ==
  LET mini == Accumulate(tied, matches, r, res)[e]
  IN IF k = 0 THEN <<stats[e].points, 0>>
     ELSE IF Criteria(r)[k] = "confronto-direto" THEN <<mini.points, mini.scoreFor - mini.scoreAgainst>>
     ELSE <<CriterionValue(Criteria(r)[k], stats[e], mini), 0>>

More(u, v) == u[1] > v[1] \/ (u[1] = v[1] /\ u[2] > v[2])

\* Those an entry is still tied with, after the points and the first k - 1 criteria.
TiedWith(e, block, stats, matches, r, res) ==
  LET tied[k \in 0 .. Len(Criteria(r)) + 1] ==
        IF k = 0 THEN block
        ELSE LET before == tied[k - 1]
             IN {d \in before : Merit(k - 1, d, before, stats, matches, r, res)
                                = Merit(k - 1, e, before, stats, matches, r, res)}
  IN tied

\* d is above e: the first criterion that separates them does, among all still tied with both.
Above(e, block, stats, matches, r, res) ==
  LET tied == TiedWith(e, block, stats, matches, r, res)
  IN {d \in block :
        \/ \E k \in 0 .. Len(Criteria(r)) :
              d \in tied[k] /\ More(Merit(k, d, tied[k], stats, matches, r, res),
                                    Merit(k, e, tied[k], stats, matches, r, res))
        \/ d \in tied[Len(Criteria(r)) + 1] /\ d < e}

ReferenceRank(e, block, matches, r, res) ==
  1 + Cardinality(Above(e, block, Accumulate(block, matches, r, res), matches, r, res))

-----------------------------------------------------------------------------
(* Properties                                                              *)

\* Bucket by bucket, the recount arrives at the order the regulation describes: by points, then by
\* each criterion among those still tied, the mini-table over exactly these; and what is
\* stored is that order for the results and the rule of the last recount.
RankedByTheRegulation ==
  \A block \in Blocks : \A e \in block :
    table[e].rank = ReferenceRank(e, block, BlockMatches(block, counted.results),
                                  counted.rule, counted.results)

\* The best thirds a published key names by label are those the seeding takes, and so is every
\* position of a group: two functions read the table, and a comment promises they agree.
KeyAgreesWithSeeding ==
  Grouped =>
    LET place(group, position) ==
          ResolveColocacao([tipo |-> "grupo", grupo |-> group, posicao |-> position], MapaDeColocacoes)
        third(position) ==
          ResolveColocacao([tipo |-> "melhor-terceiro", posicao |-> position], MapaDeColocacoes)
        byLabel == [i \in 1 .. layout.perGroup * Len(layout.groups) |->
                      place(((i - 1) % Len(layout.groups)) + 1, ((i - 1) \div Len(layout.groups)) + 1)]
        labelled == byLabel \o [i \in 1 .. layout.bestThirds |-> third(i)]
    IN Present(labelled) = CollectQualifiers

\* Correcting a result in favour of an entry, all else equal, never lowers it, for a regulation that
\* has points for it and compares the tied among themselves before anything else, or never does.
Improved(f, e) ==
  LET side(res, here, there) == IF f.home = e THEN res[f][here] ELSE res[f][there]
      worth(res) == IF res[f].winner = e THEN 2 ELSE IF res[f].winner = Nobody THEN 1 ELSE 0
  IN /\ worth(results') >= worth(results)
     /\ side(results', "scoreA", "scoreB") >= side(results, "scoreA", "scoreB")
     /\ side(results', "scoreB", "scoreA") <= side(results, "scoreB", "scoreA")
     /\ side(results', "cardsA", "cardsB") <= side(results, "cardsA", "cardsB")
     /\ side(results', "cardsB", "cardsA") >= side(results, "cardsB", "cardsA")

Rewarding(r) ==
  IF config.discipline \in Decisive THEN r.loss < r.win ELSE r.loss < r.draw /\ r.draw < r.win

HeadToHeadFirst(r) ==
  \A i \in DOMAIN r.tiebreakers : r.tiebreakers[i] = "confronto-direto" => i = 1

BetterResultNeverLowers ==
  [][\A f \in DOMAIN results : \A e \in {f.home, f.away} \cap DOMAIN table :
       results'[f] # results[f] /\ counted'.rule = counted.rule
         /\ Rewarding(counted.rule) /\ HeadToHeadFirst(counted.rule) /\ Improved(f, e)
       => table'[e].rank <= table[e].rank]_standingsVars
=============================================================================
