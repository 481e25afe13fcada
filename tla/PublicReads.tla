---------------------------- MODULE PublicReads -----------------------------
(***************************************************************************)
(* The reads of an edition and what they keep: the public snapshot, cached *)
(* in Redis by edition and revision (EditionSnapshotsService), the private *)
(* one, the ETag a browser sends back, and the questions PublicService     *)
(* answers (the live matches of an edition, its schedule of a day, the     *)
(* bracket of a tournament), each cached under a key without a revision    *)
(* for a few seconds behind SingleFlightService.                           *)
(*                                                                         *)
(* Reads interleave with the actions of module EditionContext at every     *)
(* await.  Redis may fail: a read of the snapshot cache is then a miss and *)
(* a write is lost.  One process serves the reads, as docker-compose runs  *)
(* it.                                                                     *)
(***************************************************************************)
EXTENDS EditionContext

CONSTANTS
    Spectated,      \* the keys of the questions that are followed
    About,          \* the edition each of them is about
    Reader,         \* browsers that ask for snapshots, one request at a time
    Nothing         \* no copy yet

ASSUME SpectatedAssumption == About \in [Spectated -> Edition]

VARIABLES
    cache,          \* edition-snapshot:public:<edition>:<revision>, with its content
    reader,         \* requests for the public snapshot
    copy,           \* the snapshot a browser holds, with its ETag
    live,           \* the entry of each key, as the revision its content was read at
    flight,         \* what the single flight of a key is at
    seen            \* the last content that was answered

readVars == <<cache, reader, copy, live, flight, seen>>
vars == <<context, readVars>>

Tag(e, variant) == [of |-> e, revision |-> edition[e].revision, variant |-> variant]
Snapshot(e, variant) == [tag |-> Tag(e, variant), content |-> View(e, variant)]

Idle == [at |-> "idle", route |-> NoEdition, key |-> Nothing, made |-> Nothing]

NoLive == -1

Flight == [at: {"check", "fetch", "set"}, brings: {NoLive} \cup 0..MaxRevision]
Checking == [at |-> "check", brings |-> NoLive]
Fetching == [at |-> "fetch", brings |-> NoLive]
Fetched(revision) == [at |-> "set", brings |-> revision]

\* The types of what does not depend on the contents of a snapshot.
TypeOK ==
    /\ ContextTypeOK
    /\ \A r \in Reader : reader[r].at \in {"idle", "resolved", "missed", "made"}
    /\ live \in [Spectated -> {NoLive} \cup 0..MaxRevision]
    /\ flight \in [Spectated -> SUBSET Flight]
    /\ seen \in [Spectated -> 0..MaxRevision]

Init ==
    /\ ContextInit
    /\ cache = {}
    /\ reader = [r \in Reader |-> Idle]
    /\ copy = [r \in Reader |-> Nothing]
    /\ live = [e \in Spectated |-> NoLive]
    /\ flight = [e \in Spectated |-> {}]
    /\ seen = [e \in Spectated |-> 0]

-----------------------------------------------------------------------------
(* The public snapshot.                                                    *)

\* The browser has a copy with that ETag (304), or takes the one it is sent.
Answer(r, snapshot) ==
    /\ reader' = [reader EXCEPT ![r] = Idle]
    /\ copy' = [copy EXCEPT ![r] = IF @ # Nothing /\ @.tag = snapshot.tag THEN @ ELSE snapshot]

\* The first transaction resolves the route, and the key of the cache with it.
ResolveForCache(r, route) ==
    /\ reader[r].at = "idle"
    /\ Resolve(route) # NoEdition
    /\ reader' = [reader EXCEPT ![r] = [at |-> "resolved", route |-> route,
                                        key |-> Tag(Resolve(route), "public"), made |-> Nothing]]
    /\ UNCHANGED <<context, cache, copy, live, flight, seen>>

ReadPublicCache(r) ==
    /\ reader[r].at = "resolved"
    /\ \/ \E x \in cache : x.tag = reader[r].key /\ Answer(r, x)
       \/ reader' = [reader EXCEPT ![r].at = "missed"] /\ UNCHANGED copy
    /\ UNCHANGED <<context, cache, live, flight, seen>>

\* The second transaction resolves the route again and builds what it is now.
Generate(r) ==
    /\ reader[r].at = "missed"
    /\ LET e == Resolve(reader[r].route) IN
         IF e # NoEdition
           THEN reader' = [reader EXCEPT ![r] = [at |-> "made", route |-> @.route, key |-> @.key,
                                                 made |-> Snapshot(e, "public")]]
           ELSE reader' = [reader EXCEPT ![r] = Idle]
    /\ UNCHANGED <<context, cache, copy, live, flight, seen>>

Keep(x) == {y \in cache : y.tag # x.tag} \cup {x}

\* Mutant: the content is stored under the key resolved before it was read.
KeyResolvedFirst(r) == [reader[r].made EXCEPT !.tag = reader[r].key]

KeyGenerated(r) == reader[r].made

WritePublicCache(r) ==
    /\ reader[r].at = "made"
    /\ cache' \in {cache, Keep(KeyGenerated(r))}
    /\ Answer(r, reader[r].made)
    /\ UNCHANGED <<context, live, flight, seen>>

ExpireSnapshot(x) ==
    /\ cache' = cache \ {x}
    /\ UNCHANGED <<context, reader, copy, live, flight, seen>>

\* A browser with the full scope asks within one transaction.
PrivateSnapshot(r, route) ==
    /\ reader[r].at = "idle"
    /\ Resolve(route) # NoEdition
    /\ Answer(r, Snapshot(Resolve(route), "full"))
    /\ UNCHANGED <<context, cache, live, flight, seen>>

-----------------------------------------------------------------------------
(* The live matches, the schedule and the brackets.                        *)

Serve(k, revision) == seen' = [seen EXCEPT ![k] = revision]

LiveHit(k) ==
    /\ live[k] # NoLive
    /\ Serve(k, live[k])
    /\ UNCHANGED <<context, cache, reader, copy, live, flight>>

\* Mutant: every request flies on its own.
FlyAlways(k) ==
    /\ flight' = [flight EXCEPT ![k] = @ \cup {Checking}]
    /\ UNCHANGED <<context, cache, reader, copy, live, seen>>

\* A request that found no entry, now or long ago, joins the flight there is
\* or starts one.
Fly(k) ==
    /\ flight[k] = {}
    /\ flight' = [flight EXCEPT ![k] = {Checking}]
    /\ UNCHANGED <<context, cache, reader, copy, live, seen>>

Landed(k, at) == flight' = [flight EXCEPT ![k] = @ \ {at}]

\* The flight looks into Redis again before it reads the database.
DoubleCheck(k) ==
    /\ Checking \in flight[k]
    /\ \/ live[k] # NoLive /\ Landed(k, Checking) /\ Serve(k, live[k])
       \/ /\ live[k] = NoLive
          /\ flight' = [flight EXCEPT ![k] = (@ \ {Checking}) \cup {Fetching}]
          /\ UNCHANGED seen
    /\ UNCHANGED <<context, cache, reader, copy, live>>

\* Each question reads what it needs of its edition as it is now; one about an
\* edition or a tournament that is gone fails the flight.
Fetch(k) ==
    /\ Fetching \in flight[k] /\ About[k] \in Editions
    /\ flight' = [flight EXCEPT ![k] = (@ \ {Fetching}) \cup {Fetched(edition[About[k]].revision)}]
    /\ UNCHANGED <<context, cache, reader, copy, live, seen>>

\* Everybody who joined gets the answer, and the flight is forgotten.
SetLive(k) ==
    /\ \E f \in flight[k] :
         /\ f.at = "set"
         /\ live' = [live EXCEPT ![k] = f.brings]
         /\ Landed(k, f)
         /\ Serve(k, f.brings)
    /\ UNCHANGED <<context, cache, reader, copy>>

\* A failure of the database or of Redis fails the flight for all of them.
FailFlight(k) ==
    /\ flight[k] # {}
    /\ flight' = [flight EXCEPT ![k] = {}]
    /\ UNCHANGED <<context, cache, reader, copy, live, seen>>

ExpireLive(k) ==
    /\ live[k] # NoLive
    /\ live' = [live EXCEPT ![k] = NoLive]
    /\ UNCHANGED <<context, cache, reader, copy, flight, seen>>

Next ==
    \/ ContextNext /\ UNCHANGED readVars
    \/ \E r \in Reader : \/ \E route \in Edition \cup {Active} :
                              ResolveForCache(r, route) \/ PrivateSnapshot(r, route)
                         \/ ReadPublicCache(r) \/ Generate(r) \/ WritePublicCache(r)
    \/ \E x \in cache : ExpireSnapshot(x)
    \/ \E k \in Spectated : \/ LiveHit(k) \/ Fly(k)
                            \/ DoubleCheck(k) \/ Fetch(k) \/ SetLive(k)
                            \/ FailFlight(k) \/ ExpireLive(k)

Spec == Init /\ [][Next]_vars

-----------------------------------------------------------------------------
(* Properties                                                              *)

\* Whatever a browser, the cache, a request under way and the database have of
\* an edition at one revision and for one scope is the same snapshot, and one of
\* that edition: though the key is resolved in one transaction and the content
\* read in another, the cache never gives one revision the content of another,
\* and a 304 confirms no copy that has become wrong, but for what Settled leaves
\* out of the copies with the full scope.
CopiesAgree ==
    LET known == cache \cup {copy[r] : r \in {q \in Reader : copy[q] # Nothing}}
                       \cup {reader[r].made : r \in {q \in Reader : reader[q].at = "made"}}
    IN  \A x \in known :
          /\ x.content.of = x.tag.of
          /\ \A y \in known \cup {Snapshot(x.tag.of, x.tag.variant)} :
               x.tag = y.tag => Settled(x.content, x.tag.variant) = Settled(y.content, x.tag.variant)

\* The live matches, a schedule or a bracket never go back in what they answer: a flight
\* that read the database long ago writes over nothing newer, because while it
\* lasts no other request of the process reads the database.
LiveNeverGoesBack == [][\A k \in Spectated : seen'[k] >= seen[k]]_vars

=============================================================================
