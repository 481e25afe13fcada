--------------------------- MODULE MCPublicReads ----------------------------
(* Two editions of two competitions, one team both may show, one browser.  *)
EXTENDS PublicReads, FiniteSets, TLC

CONSTANTS c1, c2, e1, e2, x1, v1, v2, r1

MCCompetition == {c1, c2}
MCEdition == {e1, e2}
MCShared == {x1}
MCValue == {v1, v2}
MCReader == {r1}
MCSpectated == {"live"}
MCAbout == [k \in MCSpectated |-> e1]

NoSnapshots == \A r \in Reader : reader[r] = Idle /\ copy[r] = Nothing
NoFlights == \A k \in Spectated : live[k] = NoLive /\ flight[k] = {} /\ seen[k] = 0

\* Snapshots and live matches share nothing but the database: a behaviour uses
\* the one or the other.
OnePart == NoSnapshots \/ NoFlights

\* Reads go on over the first revisions only: the last ones are for the
\* actions that need a longer history.
UpTo(first, second) == edition'[e1].revision <= first /\ edition'[e2].revision <= second

\* A world in which little may be said.
Simple ==
    /\ \A c \in Competition : competition'[c].name = First
    /\ \A e \in Edition : edition'[e].content = First /\ edition'[e].year = 1 /\ linked'[e] = {}
    /\ ~promoted' /\ shared' = shared

\* There the second edition may have one revision more beside snapshots, for
\* its first result, which a snapshot of the other may miss; and there the
\* flights are, that bring revisions and nothing of what they say, before the
\* second edition counts any.
Early == /\ NoSnapshots' \/ UpTo(1, 1) \/ (UpTo(1, 2) /\ Simple)
         /\ NoFlights' \/ (UpTo(2, 0) /\ Simple)

\* One entry of the snapshot cache at a time; the others have expired.
Room == Cardinality(cache) <= 1

Symmetric == Permutations(MCCompetition)
=============================================================================
