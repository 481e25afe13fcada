--------------------------- MODULE RevisionStream ---------------------------
(***************************************************************************)
(* The revision stream GET /editions/:id/stream: revisions committed by    *)
(* the write path, their publication to Redis streams, and one SSE         *)
(* connection with its reconnections, as RealtimeService and               *)
(* EditionRealtimeController serve it.                                     *)
(*                                                                         *)
(* Redis is external: publishEditionRevision adds an event to the stream   *)
(* of its edition and to that of "active" in one MULTI, so one log stands  *)
(* for them all, an id being the position in it; MAXLEN and EXPIRE forget  *)
(* a prefix.  Publications are not awaited: they settle in any order or    *)
(* are lost.                                                               *)
(***************************************************************************)
EXTENDS Integers, Sequences

CONSTANTS
    Edition, Active, None,
    Asked,          \* the value of a query that has not read the database yet
    Routes,         \* the routes a client may ask for
    MaxRevision,    \* bound on the revisions of an edition
    MaxLog          \* bound on the events that reach Redis

View == [edition: Edition, revision: Nat]

ASSUME EditionAssumption == /\ Active \notin Edition
                            /\ None \notin Edition \cup {Active} \cup View
                            /\ Asked \notin View \cup {None}
ASSUME RoutesAssumption == Routes \subseteq Edition \cup {Active}
ASSUME BoundAssumption == MaxRevision \in Nat /\ MaxLog \in Nat

VARIABLES
    revision, active,   \* the committed database
    pending,            \* publications started and not settled
    log, gone,          \* the Redis stream, and how much of it is forgotten
    route,              \* what the client asked for
    link,               \* the connection: down, prepared, resolved, open
    cursor, current,    \* of the connection: last id read, last revision emitted
    lookup,             \* resolveStreamEvent in flight (the last one: switchMap)
    recon,              \* the reconciliation in flight (the last one: switchMap)
    told, heard         \* the client: last revision, and Last-Event-ID

database == <<revision, active>>
redis == <<pending, log, gone>>
server == <<link, cursor, current, lookup, recon>>
client == <<told, heard>>
vars == <<database, redis, route, server, client>>

TypeOK ==
    /\ revision \in [Edition -> 0..MaxRevision]
    /\ active \in Edition \cup {None}
    /\ pending \subseteq View
    /\ log \in Seq(View) /\ Len(log) <= MaxLog
    /\ gone \in 0..Len(log)
    /\ route \in Routes
    /\ link \in {"down", "prepared", "resolved", "open"}
    /\ cursor \in 0..Len(log)
    /\ current \in View \cup {None}
    /\ lookup \in [id: 1..Len(log), view: View \cup {Asked}] \cup {None}
    /\ recon \in View \cup {Asked, None}
    /\ told \in View \cup {None}
    /\ heard \in 0..Len(log) \cup {None}
    /\ link = "open" => current # None /\ told # None

Init ==
    /\ revision = [e \in Edition |-> 0]
    /\ active \in Edition \cup {None}
    /\ pending = {} /\ log = << >> /\ gone = 0
    /\ route \in Routes
    /\ link = "down" /\ cursor = 0 /\ current = None
    /\ lookup = None /\ recon = None
    /\ told = None /\ heard = None

ViewOf(e) == [edition |-> e, revision |-> revision[e]]
(* resolveEditionInTransaction: the alias is the active edition, if any.   *)
Truth == IF route # Active THEN ViewOf(route)
         ELSE IF active = None THEN None ELSE ViewOf(active)
-----------------------------------------------------------------------------
(* THE WRITE PATH AND REDIS *)

Bump(S) ==
    /\ \A e \in S : revision[e] < MaxRevision
    /\ revision' = [e \in Edition |-> IF e \in S THEN revision[e] + 1 ELSE revision[e]]
    /\ pending' = pending \cup {[edition |-> e, revision |-> revision[e] + 1] : e \in S}

Commit(e) ==
    /\ Bump({e})
    /\ UNCHANGED <<active, log, gone, route, server, client>>

Activate(e) ==
    /\ Bump(Edition)
    /\ active' = e
    /\ UNCHANGED <<log, gone, route, server, client>>

(* publishEditionRevision, or its failure.                                 *)
Publish(event) ==
    /\ pending' = pending \ {event}
    /\ \/ Len(log) < MaxLog /\ log' = Append(log, event)
       \/ UNCHANGED log
    /\ UNCHANGED <<database, gone, route, server, client>>

(* MAXLEN trims, the time to live ends, Redis restarts empty.              *)
Forget ==
    /\ gone' \in (gone + 1)..Len(log)
    /\ UNCHANGED <<database, pending, log, route, server, client>>

InStream(i) == route = Active \/ log[i].edition = route
Kept == {i \in (gone + 1)..Len(log) : InStream(i)}
(* The last id Redis keeps, or the beginning.                              *)
LatestStreamId == {i \in Kept \cup {0} : \A j \in Kept : j <= i}
-----------------------------------------------------------------------------
(* THE CONNECTION *)

(* prepareEditionStream first fixes the cursor: Last-Event-ID, or the end  *)
(* of the stream.                                                          *)
Connect ==
    /\ link = "down"
    /\ cursor' \in IF heard # None THEN {heard} ELSE LatestStreamId
    /\ link' = "prepared"
    /\ UNCHANGED <<database, redis, route, current, lookup, recon, client>>

(* Then it reads the revision; without an active edition the request fails.*)
ReadRevision ==
    /\ link = "prepared"
    /\ link' = IF Truth = None THEN "down" ELSE "resolved"
    /\ current' = Truth
    /\ UNCHANGED <<database, redis, route, cursor, lookup, recon, client>>

Tell(id, view) ==
    /\ told' = view
    /\ heard' = id

(* Mutant: the events are read from the end of the stream, not from the    *)
(* cursor.                                                                 *)
OpenAtTheEnd ==
    /\ link = "resolved"
    /\ link' = "open"
    /\ cursor' \in LatestStreamId
    /\ Tell(cursor', current)
    /\ UNCHANGED <<database, redis, route, current, lookup, recon>>
(* The baseline is the first message; reading starts behind the cursor.    *)
Open ==
    /\ link = "resolved"
    /\ link' = "open"
    /\ Tell(cursor, current)
    /\ UNCHANGED <<database, redis, route, cursor, current, lookup, recon>>

(* Mutant: whatever arrives is emitted.                                    *)
ShouldEmitAlways(view) == TRUE
(* Mutant: revisions of different editions are compared.                   *)
ShouldEmitHigher(view) == view.revision > current.revision
(* shouldEmitRevision: another edition, or a higher revision.              *)
ShouldEmit(view) ==
    view.edition # current.edition \/ view.revision > current.revision

Emit(id, view) ==
    IF ShouldEmit(view) THEN current' = view /\ Tell(id, view)
    ELSE UNCHANGED <<current, client>>

(* The next event: on an edition's route it is offered as it is, on        *)
(* "active" the active edition is looked up, and an older lookup dropped.  *)
ReadEvent ==
    /\ link = "open"
    /\ \E i \in {j \in Kept : j > cursor} :
          /\ \A j \in Kept : j > cursor => i <= j
          /\ cursor' = i
          /\ IF route # Active
             THEN Emit(i, log[i]) /\ UNCHANGED lookup
             ELSE lookup' = [id |-> i, view |-> Asked] /\ UNCHANGED <<current, client>>
    /\ UNCHANGED <<database, redis, route, link, recon>>

(* The lookup reads the database, or fails and the event is dropped.       *)
LookUp ==
    /\ lookup # None
    /\ lookup.view = Asked
    /\ \/ Truth # None /\ lookup' = [lookup EXCEPT !.view = Truth]
       \/ lookup' = None
    /\ UNCHANGED <<database, redis, route, link, cursor, current, recon, client>>

AnswerLookup ==
    /\ lookup # None
    /\ lookup.view # Asked
    /\ Emit(lookup.id, lookup.view)
    /\ lookup' = None
    /\ UNCHANGED <<database, redis, route, link, cursor, recon>>

(* Every HEARTBEAT_INTERVAL a reconciliation replaces the one in flight.   *)
Reconcile ==
    /\ link = "open"
    /\ recon' = Asked
    /\ UNCHANGED <<database, redis, route, link, cursor, current, lookup, client>>

Heartbeat == heard' = cursor /\ UNCHANGED <<current, told>>

ReadReconciliation ==
    /\ recon = Asked
    /\ Truth # None
    /\ recon' = Truth
    /\ UNCHANGED <<database, redis, route, link, cursor, current, lookup, client>>

(* No active edition, or no answer from the database: a heartbeat is sent. *)
FailReconciliation ==
    /\ recon = Asked
    /\ recon' = None
    /\ Heartbeat
    /\ UNCHANGED <<database, redis, route, link, cursor, lookup>>

AnswerReconciliation ==
    /\ recon \notin {None, Asked}
    /\ IF ShouldEmit(recon) THEN current' = recon /\ Tell(cursor, recon) ELSE Heartbeat
    /\ recon' = None
    /\ UNCHANGED <<database, redis, route, link, cursor, lookup>>

(* The connection, or the process that serves it, is lost.                 *)
Drop ==
    /\ link # "down"
    /\ link' = "down"
    /\ lookup' = None /\ recon' = None /\ current' = None
    /\ UNCHANGED <<database, redis, route, cursor, client>>
-----------------------------------------------------------------------------
Next ==
    \/ \E e \in Edition : Commit(e) \/ Activate(e)
    \/ \E event \in pending : Publish(event)
    \/ Forget
    \/ Connect \/ ReadRevision \/ Open \/ Drop
    \/ ReadEvent \/ LookUp \/ AnswerLookup
    \/ Reconcile \/ ReadReconciliation \/ FailReconciliation \/ AnswerReconciliation

Spec == Init /\ [][Next]_vars

(* An open connection is reconciled on a timer, and again and again a      *)
(* query succeeds before the next tick replaces it; EventSource reconnects *)
(* by itself.  Publication, delivery of events and lookups are not owed.   *)
FairSpec ==
    /\ Spec
    /\ WF_vars(Connect) /\ WF_vars(ReadRevision) /\ WF_vars(Open)
    /\ WF_vars(Reconcile)
    /\ SF_vars(ReadReconciliation) /\ SF_vars(AnswerReconciliation)
-----------------------------------------------------------------------------
(* PROPERTIES *)

(* On the route of an edition the client's revision never goes back,       *)
(* though events are published out of order, replayed after Last-Event-ID  *)
(* and overtaken by reconciliations, over any number of connections.       *)
RevisionNeverGoesBack ==
    [][route # Active /\ told # None => told'.revision >= told.revision]_vars

(* On the route of an edition no event is passed over: whatever Redis      *)
(* keeps at or before the cursor is at most the revision the connection    *)
(* emitted, so neither a reconnection nor the order of cursor and revision *)
(* in prepareEditionStream loses one.                                      *)
NoEventPassedOver ==
    route # Active /\ link = "open" =>
        \A i \in Kept : i <= cursor => log[i].revision <= current.revision

(* A connection that stays up ends at the truth, whatever was lost or late *)
(* and however the alias moved: the switch of edition is followed.         *)
Converges == <>[](link = "open") => <>[](Truth # None => told = Truth)
=============================================================================
