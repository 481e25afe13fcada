------------------------ MODULE RevisionStream_proofs ------------------------
(***************************************************************************)
(* Theorems about the revision stream, for any number of editions, any     *)
(* number of revisions and events, and one client with any number of       *)
(* connections.                                                            *)
(*                                                                         *)
(* The inductive invariant is the type, LinkInv and, on the route of an    *)
(* edition, RouteInv: nothing that was published, read or told is ahead of *)
(* the database; a revision emitted covers every event up to the cursor;   *)
(* and a revision the client was told does not exceed the one of the       *)
(* connection that is about to open.                                       *)
(***************************************************************************)
EXTENDS RevisionStream, TLAPS

\* What a connection holds: queries only while it is open, a revision from
\* the moment it was read.
LinkInv ==
    /\ link # "open" => lookup = None /\ recon = None
    /\ link \in {"resolved", "open"} => current # None

\* A view of the edition that was asked for, not ahead of the database.
Behind(v) == v.edition = route /\ v.revision <= revision[route]

\* No publication is ahead of the database.
Published ==
    /\ \A i \in 1..Len(log) : log[i].revision <= revision[log[i].edition]
    /\ \A event \in pending : event.revision <= revision[event.edition]

\* On the route of an edition: what is held is behind the database, and an
\* open connection emits what its client was told.
Held ==
    /\ lookup = None
    /\ current # None => Behind(current)
    /\ told # None => Behind(told)
    /\ recon \notin {None, Asked} => Behind(recon)
    /\ link = "open" => told = current
    /\ link = "resolved" /\ told # None => told.revision <= current.revision

\* What was emitted covers the events up to the cursor.
Covered ==
    link \in {"resolved", "open"} =>
        \A i \in Kept : i <= cursor => log[i].revision <= current.revision

IInv ==
    /\ TypeOK
    /\ LinkInv
    /\ Published
    /\ route # Active => Held /\ Covered

-----------------------------------------------------------------------------
(* Lemmas                                                                  *)

\* The truth about a route is a view of an edition, or none; a view is never
\* taken for none nor for a query that is still to be answered.
LEMMA TruthIsAView ==
    ASSUME TypeOK
    PROVE  /\ Truth \in View \cup {None}
           /\ route # Active => Truth = ViewOf(route) /\ Truth \in View
           /\ \A v \in View : v # None /\ v # Asked
           /\ Asked # None
  <1>1. \A e \in Edition : ViewOf(e) \in View
    BY BoundAssumption DEF TypeOK, View, ViewOf
  <1>2. route # Active => route \in Edition
    BY RoutesAssumption DEF TypeOK
  <1>3. active # None => active \in Edition
    BY DEF TypeOK
  <1> QED
    BY <1>1, <1>2, <1>3, EditionAssumption DEF Truth

\* The kept events are positions of the log; the end of the stream is one of
\* them or the beginning.
LEMMA KeptIsLogged ==
    ASSUME TypeOK
    PROVE  /\ Kept \subseteq 1..Len(log)
           /\ LatestStreamId \subseteq 0..Len(log)
           /\ \A i \in Kept : i \in Nat /\ log[i] \in View /\ log[i].revision \in Nat
  <1>1. Len(log) \in Nat /\ gone \in Nat
    BY DEF TypeOK
  <1>2. Kept \subseteq 1..Len(log)
    BY <1>1 DEF Kept
  <1>3. Kept \cup {0} \subseteq 0..Len(log)
    BY <1>1, <1>2
  <1>4. LatestStreamId \subseteq Kept \cup {0}
    BY DEF LatestStreamId
  <1>5. \A i \in 1..Len(log) : log[i] \in View
    BY DEF TypeOK
  <1>6. \A i \in Kept : i \in Nat /\ log[i] \in View /\ log[i].revision \in Nat
    BY <1>1, <1>2, <1>5 DEF View
  <1> QED
    BY <1>2, <1>3, <1>4, <1>6

\* The initial states satisfy the invariant.
LEMMA InitInv == ASSUME Init PROVE IInv
  BY BoundAssumption, EditionAssumption, RoutesAssumption
  DEF Init, IInv, TypeOK, LinkInv, Published, Held, Covered, View

\* A step of the write path raises revisions and announces no more than that.
LEMMA BumpStep ==
    ASSUME IInv, NEW S \in SUBSET Edition, Bump(S), active' \in Edition \cup {None},
           UNCHANGED <<log, gone, route, server, client>>
    PROVE  IInv'
  <1> USE DEF IInv
  <1>1. /\ \A e \in Edition : revision[e] \in Nat /\ revision'[e] \in Nat
        /\ \A e \in Edition : revision[e] <= revision'[e]
    BY BoundAssumption DEF Bump, TypeOK
  <1>2. revision' \in [Edition -> 0..MaxRevision]
    BY BoundAssumption DEF Bump, TypeOK
  <1>3. /\ pending' \subseteq View
        /\ \A event \in pending' : event.revision <= revision'[event.edition]
    <2> SUFFICES ASSUME NEW event \in pending'
                 PROVE  event \in View /\ event.revision <= revision'[event.edition]
      OBVIOUS
    <2>1. CASE event \in pending
      <3>1. event \in View /\ event.edition \in Edition /\ event.revision \in Nat
        BY <2>1 DEF TypeOK, View
      <3> QED
        BY <2>1, <3>1, <1>1 DEF Published
    <2>2. CASE event \notin pending
      <3>1. PICK e \in S : event = [edition |-> e, revision |-> revision[e] + 1]
        BY <2>2 DEF Bump
      <3>2. revision'[e] = revision[e] + 1
        BY <3>1 DEF Bump
      <3> QED
        BY <3>1, <3>2, <1>1 DEF View
    <2> QED
      BY <2>1, <2>2
  <1>4. TypeOK'
    BY <1>2, <1>3 DEF TypeOK, server, client
  <1>5. LinkInv'
    BY DEF LinkInv, server
  <1>6. Published'
    <2>1. \A i \in 1..Len(log) : log[i] \in View
      BY DEF TypeOK
    <2>2. \A i \in 1..Len(log) : log[i].edition \in Edition /\ log[i].revision \in Nat
      BY <2>1 DEF View
    <2> QED
      BY <1>1, <1>3, <2>2 DEF Published
  <1>7. ASSUME route # Active PROVE Held' /\ Covered'
    <2>1. route \in Edition
      BY <1>7, RoutesAssumption DEF TypeOK
    <2>2. \A v \in View : Behind(v) => Behind(v)'
      BY <1>1, <2>1 DEF Behind, View
    <2>3. Held'
      BY <1>7, <2>2, TruthIsAView DEF Held, TypeOK, server, client
    <2>4. Covered'
      BY <1>7 DEF Covered, Kept, InStream, server
    <2> QED
      BY <2>3, <2>4
  <1> QED
    BY <1>4, <1>5, <1>6, <1>7

\* Publication, its failure and the forgetting of a prefix.
LEMMA RedisStep ==
    ASSUME IInv, (\E event \in pending : Publish(event)) \/ Forget
    PROVE  IInv'
  <1> USE DEF IInv
  <1>0. Len(log) \in Nat /\ gone \in 0..Len(log)
    BY DEF TypeOK
  <1>1. ASSUME Forget PROVE IInv'
    <2>1. gone' \in 0..Len(log) /\ gone <= gone'
      BY <1>0, <1>1 DEF Forget
    <2>2. TypeOK'
      BY <1>1, <2>1 DEF Forget, TypeOK, database, server, client
    <2>3. Kept' \subseteq Kept
      BY <1>1, <1>0, <2>1 DEF Forget, Kept, InStream
    <2>4. Covered => Covered'
      BY <1>1, <2>3 DEF Forget, Covered, server
    <2>5. LinkInv' /\ Published' /\ (Held => Held')
      BY <1>1 DEF Forget, LinkInv, Published, Held, Behind, database, server, client
    <2> QED
      BY <2>2, <2>4, <2>5, <1>1 DEF Forget
  <1>2. ASSUME NEW event \in pending, Publish(event) PROVE IInv'
    <2>1. event \in View /\ event.revision <= revision[event.edition]
      BY DEF TypeOK, Published
    <2>2. UNCHANGED <<database, gone, route, server, client>> /\ pending' \subseteq pending
      BY <1>2 DEF Publish
    <2>3. LinkInv' /\ (Held => Held')
      BY <2>2 DEF LinkInv, Held, Behind, database, server, client
    <2>4. CASE UNCHANGED log
      <3>1. TypeOK'
        BY <2>2, <2>4 DEF TypeOK, database, server, client
      <3>2. Published' /\ (Covered => Covered')
        BY <2>2, <2>4 DEF Published, Covered, Kept, InStream, database, server
      <3> QED
        BY <2>2, <2>3, <3>1, <3>2
    <2>5. CASE Len(log) < MaxLog /\ log' = Append(log, event)
      <3>1. /\ log' \in Seq(View) /\ Len(log') = Len(log) + 1
            /\ \A i \in 1..Len(log) : log'[i] = log[i]
            /\ log'[Len(log) + 1] = event
        BY <2>1, <2>5 DEF TypeOK
      <3>2. Len(log') <= MaxLog /\ 0..Len(log) \subseteq 0..Len(log') /\ 1..Len(log) \subseteq 1..Len(log')
        BY <3>1, <2>5, <1>0, BoundAssumption
      <3>3. TypeOK'
        <4>1. lookup \in [id : 1..Len(log'), view : View \cup {Asked}] \cup {None}
          BY <3>2 DEF TypeOK
        <4> QED
          BY <2>2, <3>1, <3>2, <4>1 DEF TypeOK, database, server, client
      <3>4. Published'
        BY <2>1, <2>2, <3>1, <1>0 DEF Published, database
      <3>5. Covered => Covered'
        <4>1. cursor \in 0..Len(log) /\ cursor' = cursor /\ link' = link /\ current' = current
          BY <2>2 DEF TypeOK, server
        <4>2. \A i \in Kept' : i <= cursor => i \in Kept /\ log'[i] = log[i]
          BY <2>2, <3>1, <1>0, <4>1 DEF Kept, InStream
        <4> QED
          BY <4>1, <4>2 DEF Covered
      <3> QED
        BY <2>2, <2>3, <3>3, <3>4, <3>5
    <2> QED
      BY <2>4, <2>5, <1>2 DEF Publish
  <1> QED
    BY <1>1, <1>2

\* Emitting a view that is behind the database keeps what a connection owes;
\* the revision does not fall.
LEMMA Emitted ==
    ASSUME TypeOK, LinkInv, link = "open", NEW id \in 0..Len(log), NEW view \in View, Emit(id, view)
    PROVE  /\ current' \in View /\ told' \in View \cup {None} /\ heard' \in 0..Len(log) \cup {None}
           /\ told' = current' \/ (told' = told /\ current' = current)
           /\ current' \in {current, view}
           /\ current.edition = view.edition =>
                /\ view.revision <= current'.revision
                /\ current.revision <= current'.revision
  <1>1. current \in View
    BY DEF LinkInv, TypeOK
  <1>2. current.revision \in Nat /\ view.revision \in Nat
    BY <1>1 DEF View
  <1>3. CASE ShouldEmit(view)
    <2>1. current' = view /\ told' = view /\ heard' = id
      BY <1>3 DEF Emit, Tell
    <2> QED
      BY <2>1, <1>2, <1>3 DEF ShouldEmit
  <1>4. CASE ~ShouldEmit(view)
    <2>1. current' = current /\ told' = told /\ heard' = heard
      BY <1>4 DEF Emit, client
    <2> QED
      BY <2>1, <1>1, <1>2, <1>4 DEF ShouldEmit, TypeOK
  <1> QED
    BY <1>3, <1>4

\* A connection is prepared, reads the revision, opens, or is lost.
LEMMA LinkStep ==
    ASSUME IInv, Connect \/ ReadRevision \/ Open \/ Drop
    PROVE  IInv'
  <1> USE DEF IInv
  <1>0. UNCHANGED <<database, redis, route>>
    BY DEF Connect, ReadRevision, Open, Drop
  <1>1. Published' /\ Kept' = Kept /\ \A v : Behind(v)' = Behind(v)
    BY <1>0 DEF Published, Kept, InStream, Behind, database, redis
  <1>2. ASSUME Connect PROVE IInv'
    <2>1. cursor' \in 0..Len(log)
      BY <1>2, KeptIsLogged DEF Connect, TypeOK
    <2>2. UNCHANGED <<current, lookup, recon, told, heard>> /\ link = "down" /\ link' = "prepared"
      BY <1>2 DEF Connect, client
    <2>3. TypeOK'
      BY <1>0, <2>1, <2>2 DEF TypeOK, database, redis
    <2>4. LinkInv' /\ Covered' /\ (Held => Held')
      BY <1>1, <2>2 DEF LinkInv, Covered, Held
    <2> QED
      BY <1>0, <1>1, <2>3, <2>4
  <1>3. ASSUME ReadRevision PROVE IInv'
    <2>1. /\ current' = Truth /\ link = "prepared"
          /\ UNCHANGED <<cursor, lookup, recon, told, heard>>
          /\ link' = IF Truth = None THEN "down" ELSE "resolved"
      BY <1>3 DEF ReadRevision, client
    <2>2. TypeOK'
      BY <1>0, <2>1, TruthIsAView DEF TypeOK, database, redis
    <2>3. LinkInv'
      BY <2>1 DEF LinkInv
    <2>4. ASSUME route # Active PROVE Held' /\ Covered'
      <3>1. current' = ViewOf(route) /\ current' \in View /\ current' # None /\ route \in Edition
        BY <2>1, <2>4, TruthIsAView, RoutesAssumption DEF TypeOK
      <3>2. current'.revision = revision[route] /\ current'.edition = route /\ revision[route] \in Nat
        BY <3>1 DEF ViewOf, View
      <3>3. Behind(current')
        BY <3>2 DEF Behind
      <3>4. Held'
        BY <1>1, <2>1, <2>4, <3>2, <3>3 DEF Held, Behind
      <3>5. \A i \in Kept : log[i].revision <= revision[route]
        BY <2>4, KeptIsLogged DEF Kept, InStream, Published
      <3>6. Covered'
        BY <1>0, <1>1, <3>2, <3>5 DEF Covered, redis
      <3> QED
        BY <3>4, <3>6
    <2> QED
      BY <1>0, <1>1, <2>2, <2>3, <2>4
  <1>4. ASSUME Open PROVE IInv'
    <2>1. /\ link = "resolved" /\ link' = "open" /\ told' = current /\ heard' = cursor
          /\ UNCHANGED <<cursor, current, lookup, recon>>
      BY <1>4 DEF Open, Tell
    <2>2. current # None
      BY <2>1 DEF LinkInv
    <2>3. TypeOK'
      BY <1>0, <2>1, <2>2 DEF TypeOK, database, redis
    <2>4. LinkInv' /\ (Covered => Covered') /\ (Held => Held')
      BY <1>0, <1>1, <2>1, <2>2 DEF LinkInv, Covered, Held, redis
    <2> QED
      BY <1>0, <1>1, <2>3, <2>4
  <1>5. ASSUME Drop PROVE IInv'
    <2>1. /\ link' = "down" /\ lookup' = None /\ recon' = None /\ current' = None
          /\ UNCHANGED <<cursor, told, heard>>
      BY <1>5 DEF Drop, client
    <2>2. TypeOK'
      BY <1>0, <2>1 DEF TypeOK, database, redis
    <2>3. LinkInv' /\ Covered' /\ (Held => Held')
      BY <1>1, <2>1 DEF LinkInv, Covered, Held
    <2> QED
      BY <1>0, <1>1, <2>2, <2>3
  <1> QED
    BY <1>2, <1>3, <1>4, <1>5

\* Events are read, looked up and answered.
LEMMA EventStep ==
    ASSUME IInv, ReadEvent \/ LookUp \/ AnswerLookup
    PROVE  IInv'
  <1> USE DEF IInv
  <1>0. UNCHANGED <<database, redis, route, link, recon>> /\ Len(log) \in Nat /\ cursor \in Nat
    BY DEF ReadEvent, LookUp, AnswerLookup, TypeOK
  <1>1. Published' /\ Kept' = Kept /\ \A v : Behind(v)' = Behind(v)
    BY <1>0 DEF Published, Kept, InStream, Behind, database, redis
  <1>2. ASSUME ReadEvent PROVE IInv'
    <2>0. link = "open"
      BY <1>2 DEF ReadEvent
    <2>1. PICK i \in Kept : /\ i > cursor
                            /\ \A j \in Kept : j > cursor => i <= j
                            /\ cursor' = i
                            /\ IF route # Active
                                 THEN Emit(i, log[i]) /\ UNCHANGED lookup
                                 ELSE lookup' = [id |-> i, view |-> Asked] /\ UNCHANGED <<current, client>>
      BY <1>2 DEF ReadEvent
    <2>2. i \in 1..Len(log) /\ log[i] \in View /\ i \in 0..Len(log)
      BY <2>1, KeptIsLogged DEF TypeOK
    <2>3. CASE route = Active
      <3>1. TypeOK'
        BY <1>0, <2>1, <2>2, <2>3 DEF TypeOK, database, redis, client
      <3>2. LinkInv'
        BY <1>0, <2>0, <2>1, <2>3 DEF LinkInv
      <3> QED
        BY <1>0, <1>1, <2>3, <3>1, <3>2
    <2>4. CASE route # Active
      <3>0. Emit(i, log[i]) /\ lookup' = lookup /\ log[i].edition = route
        BY <2>1, <2>4 DEF Kept, InStream
      <3>1. /\ current' \in View /\ told' \in View \cup {None} /\ heard' \in 0..Len(log) \cup {None}
            /\ told' = current' \/ (told' = told /\ current' = current)
            /\ current' \in {current, log[i]}
            /\ current.edition = log[i].edition =>
                 /\ log[i].revision <= current'.revision
                 /\ current.revision <= current'.revision
        BY <2>0, <2>2, <3>0, Emitted
      <3>2. current \in View /\ current # None /\ told = current /\ Behind(current) /\ current.edition = route
        BY <2>0, <2>4 DEF LinkInv, TypeOK, Held, Behind
      <3>3. Behind(log[i])
        BY <2>2, <3>0 DEF Published, Behind
      <3>4. TypeOK'
        <4>1. told' \in View /\ told' # None /\ current' # None /\ cursor' \in 0..Len(log)
          BY <2>1, <2>2, <3>1, <3>2, TruthIsAView
        <4> QED
          BY <1>0, <3>0, <3>1, <4>1 DEF TypeOK, database, redis
      <3>5. LinkInv'
        BY <1>0, <2>0, <3>1, TruthIsAView DEF LinkInv
      <3>6. Held'
        BY <1>0, <1>1, <2>0, <2>4, <3>0, <3>1, <3>2, <3>3 DEF Held
      <3>7. Covered'
        <4> SUFFICES ASSUME NEW j \in Kept, j <= i PROVE log[j].revision <= current'.revision
          BY <1>0, <1>1, <2>1 DEF Covered, redis
        <4>1. j \in Nat /\ log[j].revision \in Nat
          BY KeptIsLogged
        <4>2. current'.revision \in Nat /\ current.revision \in Nat
          BY <3>1, <3>2 DEF View
        <4>3. CASE j > cursor
          BY <4>1, <4>3, <2>1, <2>2, <3>0, <3>1, <3>2
        <4>4. CASE j <= cursor
          <5>1. log[j].revision <= current.revision
            BY <4>4, <2>0, <2>4 DEF Covered
          <5> QED
            BY <5>1, <4>1, <4>2, <3>0, <3>1, <3>2
        <4> QED
          BY <4>1, <4>3, <4>4, <1>0
      <3> QED
        BY <1>0, <1>1, <3>4, <3>5, <3>6, <3>7
    <2> QED
      BY <2>3, <2>4
  <1>3. ASSUME LookUp PROVE IInv'
    <2>1. /\ lookup # None /\ UNCHANGED <<cursor, current, told, heard>>
          /\ lookup' = None \/ (lookup' = [lookup EXCEPT !.view = Truth] /\ Truth # None)
      BY <1>3 DEF LookUp, client
    <2>2. link = "open" /\ lookup \in [id : 1..Len(log), view : View \cup {Asked}]
      BY <2>1 DEF LinkInv, TypeOK
    <2>3. lookup' \in [id : 1..Len(log), view : View \cup {Asked}] \cup {None}
      BY <2>1, <2>2, TruthIsAView
    <2>4. TypeOK'
      BY <1>0, <2>1, <2>3 DEF TypeOK, database, redis
    <2>5. LinkInv' /\ route = Active
      BY <1>0, <2>1, <2>2 DEF LinkInv, Held
    <2> QED
      BY <1>0, <1>1, <2>4, <2>5
  <1>4. ASSUME AnswerLookup PROVE IInv'
    <2>1. lookup # None /\ lookup.view # Asked /\ Emit(lookup.id, lookup.view) /\ lookup' = None /\ cursor' = cursor
      BY <1>4 DEF AnswerLookup
    <2>2. link = "open" /\ lookup.id \in 0..Len(log) /\ lookup.view \in View /\ route = Active
      BY <2>1 DEF LinkInv, TypeOK, Held
    <2>3. /\ current' \in View /\ told' \in View \cup {None} /\ heard' \in 0..Len(log) \cup {None}
          /\ told' = current' \/ (told' = told /\ current' = current)
      BY <2>1, <2>2, Emitted
    <2>4. TypeOK'
      BY <1>0, <2>1, <2>2, <2>3, TruthIsAView DEF TypeOK, database, redis
    <2>5. LinkInv'
      BY <1>0, <2>1, <2>2, <2>3, TruthIsAView DEF LinkInv
    <2> QED
      BY <1>0, <1>1, <2>2, <2>4, <2>5
  <1> QED
    BY <1>2, <1>3, <1>4

\* The reconciliation is asked, reads, fails or answers.
LEMMA ReconcileStep ==
    ASSUME IInv, Reconcile \/ ReadReconciliation \/ FailReconciliation \/ AnswerReconciliation
    PROVE  IInv'
  <1> USE DEF IInv
  <1>0. UNCHANGED <<database, redis, route, link, cursor, lookup>> /\ cursor \in 0..Len(log)
    BY DEF Reconcile, ReadReconciliation, FailReconciliation, AnswerReconciliation, TypeOK
  <1>1. Published' /\ Kept' = Kept /\ \A v : Behind(v)' = Behind(v)
    BY <1>0 DEF Published, Kept, InStream, Behind, database, redis
  <1>2. link = "open"
    BY TruthIsAView DEF LinkInv, Reconcile, ReadReconciliation, FailReconciliation, AnswerReconciliation
  <1>3. ASSUME current' = current, told' = told, heard' \in {heard, cursor},
               recon' \in {Asked, None, Truth},
               recon' \in View \cup {Asked, None}
        PROVE  IInv'
    <2>1. TypeOK'
      BY <1>0, <1>3 DEF TypeOK, database, redis
    <2>2. LinkInv' /\ (Covered => Covered')
      BY <1>0, <1>1, <1>2, <1>3 DEF LinkInv, Covered, redis
    <2>3. route # Active => Behind(Truth)
      <3> SUFFICES ASSUME route # Active PROVE Behind(Truth)
        OBVIOUS
      <3>1. Truth = ViewOf(route) /\ revision[route] \in Nat
        BY TruthIsAView, RoutesAssumption DEF TypeOK
      <3> QED
        BY <3>1 DEF Behind, ViewOf
    <2>4. route # Active /\ Held => Held'
      BY <1>0, <1>1, <1>3, <2>3 DEF Held
    <2> QED
      BY <1>0, <1>1, <2>1, <2>2, <2>4
  <1>4. ASSUME Reconcile \/ ReadReconciliation \/ FailReconciliation PROVE IInv'
    BY <1>3, <1>4, TruthIsAView DEF Reconcile, ReadReconciliation, FailReconciliation, Heartbeat, client
  <1>5. ASSUME AnswerReconciliation PROVE IInv'
    <2>1. recon \in View /\ recon \notin {None, Asked} /\ recon' = None
      BY <1>5 DEF AnswerReconciliation, TypeOK
    <2>2. CASE ~ShouldEmit(recon)
      BY <1>3, <1>5, <2>1, <2>2 DEF AnswerReconciliation, Heartbeat
    <2>3. CASE ShouldEmit(recon)
      <3>1. current' = recon /\ told' = recon /\ heard' = cursor
        BY <1>5, <2>3 DEF AnswerReconciliation, Tell
      <3>2. TypeOK' /\ LinkInv'
        BY <1>0, <2>1, <3>1, TruthIsAView DEF TypeOK, LinkInv, database, redis
      <3>3. ASSUME route # Active PROVE Held' /\ Covered'
        <4>1. Behind(recon) /\ Behind(current) /\ current \in View
          BY <2>1, <3>3, <1>2 DEF Held, LinkInv, TypeOK
        <4>2. current.revision < recon.revision /\ current.revision \in Nat /\ recon.revision \in Nat
          BY <2>1, <2>3, <4>1 DEF Behind, ShouldEmit, View
        <4>3. Held'
          BY <1>0, <1>1, <1>2, <2>1, <3>1, <3>3, <4>1 DEF Held
        <4>4. \A i \in Kept : log[i].revision \in Nat
          BY KeptIsLogged
        <4>5. Covered'
          BY <1>0, <1>1, <1>2, <3>1, <3>3, <4>2, <4>4 DEF Covered, redis
        <4> QED
          BY <4>3, <4>5
      <3> QED
        BY <1>0, <1>1, <3>2, <3>3
    <2> QED
      BY <2>2, <2>3
  <1> QED
    BY <1>4, <1>5

\* Every step preserves the invariant.
LEMMA NextStep == ASSUME IInv, [Next]_vars PROVE IInv'
  <1>1. CASE UNCHANGED vars
    BY <1>1 DEF IInv, TypeOK, LinkInv, Published, Held, Covered, Behind, Kept, InStream,
                vars, database, redis, server, client
  <1>2. ASSUME NEW e \in Edition, Commit(e) \/ Activate(e) PROVE IInv'
    <2>1. /\ active' \in Edition \cup {None}
          /\ UNCHANGED <<log, gone, route, server, client>>
          /\ Bump({e}) \/ Bump(Edition)
      BY <1>2 DEF Commit, Activate, IInv, TypeOK
    <2>2. CASE Bump({e})
      BY <2>1, <2>2, BumpStep
    <2>3. CASE Bump(Edition)
      BY <2>1, <2>3, BumpStep
    <2> QED
      BY <2>1, <2>2, <2>3
  <1>3. CASE (\E event \in pending : Publish(event)) \/ Forget
    BY <1>3, RedisStep
  <1>4. CASE Connect \/ ReadRevision \/ Open \/ Drop
    BY <1>4, LinkStep
  <1>5. CASE ReadEvent \/ LookUp \/ AnswerLookup
    BY <1>5, EventStep
  <1>6. CASE Reconcile \/ ReadReconciliation \/ FailReconciliation \/ AnswerReconciliation
    BY <1>6, ReconcileStep
  <1> QED
    BY <1>1, <1>2, <1>3, <1>4, <1>5, <1>6 DEF Next

\* The invariant holds throughout.
LEMMA SpecInv == Spec => []IInv
  <1> QED
    BY InitInv, NextStep, PTL DEF Spec

-----------------------------------------------------------------------------
(* Theorems                                                                *)

\* Every state is of its type: a cursor points into the stream, an open
\* connection has emitted a revision and its client was told one.
THEOREM TypeCorrect == Spec => []TypeOK
  <1>1. IInv => TypeOK
    BY DEF IInv
  <1> QED
    BY <1>1, SpecInv, PTL

\* On the route of an edition no kept event at or before the cursor is newer
\* than what the connection emitted (readEvents, prepareEditionStream).
THEOREM NoEventPassedOverHolds == Spec => []NoEventPassedOver
  <1>1. IInv => NoEventPassedOver
    BY DEF IInv, Covered, NoEventPassedOver
  <1> QED
    BY <1>1, SpecInv, PTL

\* On the route of an edition the revisions a client is told never decrease,
\* over all its connections (shouldEmitRevision, the baseline, Last-Event-ID).
THEOREM RevisionNeverGoesBackHolds == Spec => RevisionNeverGoesBack
  <1>1. ASSUME IInv, [Next]_vars, route # Active, told # None
        PROVE  told'.revision >= told.revision
    <2>1. told \in View /\ told.revision \in Nat
      BY <1>1 DEF IInv, TypeOK, View
    <2>2. CASE told' = told
      BY <2>1, <2>2
    <2>3. CASE Open
      <3>1. told' = current /\ current \in View /\ told.revision <= current.revision
        BY <1>1, <2>3 DEF Open, Tell, IInv, Held, LinkInv, TypeOK
      <3> QED
        BY <3>1, <2>1 DEF View
    <2>4. CASE told' # told /\ (ReadEvent \/ AnswerReconciliation)
      <3>1. link = "open" /\ told = current /\ current.edition = route
        <4>1. link = "open"
          BY <1>1, <2>4, TruthIsAView DEF ReadEvent, AnswerReconciliation, IInv, LinkInv
        <4> QED
          BY <1>1, <4>1 DEF IInv, Held, LinkInv, Behind
      <3>2. PICK view \in View : told' = view /\ view.edition = route /\ ShouldEmit(view)
        <4>1. CASE ReadEvent
          <5>1. PICK i \in Kept : Emit(i, log[i])
            BY <1>1, <4>1 DEF ReadEvent
          <5>2. log[i] \in View /\ log[i].edition = route
            BY <1>1, <5>1, KeptIsLogged DEF IInv, TypeOK, Kept, InStream
          <5> QED
            BY <5>1, <5>2, <2>4 DEF Emit, Tell, client
        <4>2. CASE AnswerReconciliation
          <5>1. recon \in View /\ recon.edition = route
            BY <1>1, <4>2 DEF AnswerReconciliation, IInv, TypeOK, Held, Behind
          <5> QED
            BY <5>1, <4>2, <2>4 DEF AnswerReconciliation, Tell, Heartbeat
        <4> QED
          BY <2>4, <4>1, <4>2
      <3> QED
        BY <2>1, <3>1, <3>2 DEF ShouldEmit, View
    <2>5. AnswerLookup => told' = told
      BY <1>1 DEF AnswerLookup, IInv, Held
    <2>6. told' = told \/ Open \/ ReadEvent \/ AnswerLookup \/ AnswerReconciliation
      BY <1>1 DEF Next, Commit, Activate, Publish, Forget, Connect, ReadRevision, Drop, LookUp,
                  Reconcile, ReadReconciliation, FailReconciliation, Heartbeat, vars, client
    <2> QED
      BY <2>2, <2>3, <2>4, <2>5, <2>6
  <1>2. IInv /\ [Next]_vars => [route # Active /\ told # None => told'.revision >= told.revision]_vars
    BY <1>1
  <1> QED
    BY <1>2, SpecInv, PTL DEF Spec, RevisionNeverGoesBack
=============================================================================
