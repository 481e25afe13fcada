------------------------ MODULE ActionPipeline_proofs ------------------------
(***************************************************************************)
(* Proofs about ActionPipeline, for every set of editions, deliveries and  *)
(* keys and every bound on attempts and crashes.                           *)
(***************************************************************************)
EXTENDS ActionPipeline, TLAPS

Resolving == {"edition", "replay", "update", "commit", "committed"}

(* TypeOK and what it rests on: a delivery may begin an attempt only while *)
(* it has one left, it has an edition once it holds its request lock.      *)
TypeInv ==
    /\ TypeOK
    /\ \A r \in Request : pc[r] \in {"new", "begin"} => attempt[r] < MaxAttempts
    /\ \A r \in Request : pc[r] \in Resolving => target[r] \in Edition

(* What a delivery asks for is well formed. *)
LEMMA JobFields ==
    ASSUME NEW r \in Request
    PROVE  /\ Job[r].key \in Key
           /\ Job[r].body \in Body
           /\ Job[r].actor \in Actor
           /\ Job[r].route \in Route
           /\ Job[r].everywhere \in BOOLEAN
           /\ Job[r].activates \in Edition \cup {None}
           /\ Job[r].activates # None => Job[r].everywhere
  BY JobAssumption DEF JobType

(* Every fixed answer is an answer. *)
LEMMA SaysType ==
    /\ NoAnswer \in Answer
    /\ \A outcome \in Outcome : Says(outcome) \in Answer
  BY DEF NoAnswer, Says, Answer, Outcome

(* The end of a transaction keeps the types when the delivery moves to a   *)
(* phase that needs no edition.                                            *)
LEMMA LeaveType ==
    ASSUME TypeInv, NEW r \in Request, NEW phase \in Phase, NEW ans \in Answer,
           Leave(r, phase, ans),
           UNCHANGED <<db, snap, attempt, outbox, published, crashes>>,
           target' = target,
           phase \in {"begin", "done"},
           phase = "begin" => attempt[r] < MaxAttempts
    PROVE  TypeInv'
  BY DEF TypeInv, TypeOK, Leave, Resolving, Phase

(* Whoever is in a cycle of waits is updating rows. *)
LEMMA DeadlockedUpdates ==
    ASSUME NEW r \in Request, Deadlocked(r)
    PROVE  pc[r] = "update"
  <1>1. PICK S \in SUBSET Request : r \in S /\ \A s \in S : \E t \in S \ {s} : WaitsFor(s, t)
    BY DEF Deadlocked
  <1> QED
    BY <1>1 DEF WaitsFor

(* A delivery that stays in its transaction, with its edition and locks.   *)
LEMMA MoveType ==
    ASSUME TypeInv, NEW r \in Request, NEW e \in Edition, NEW locks \in SUBSET Lock,
           NEW phase \in Phase, phase \notin {"new", "begin"},
           pc' = [pc EXCEPT ![r] = phase],
           target' = [target EXCEPT ![r] = e],
           held' = [held EXCEPT ![r] = locks],
           UNCHANGED <<db, snap, attempt, answer, outbox, published, crashes>>
    PROVE  TypeInv'
  BY DEF TypeInv, TypeOK, Resolving

(* Answers taken from a receipt are answers. *)
LEMMA FromReceiptType ==
    ASSUME NEW r \in Request, NEW x \in Receipt
    PROVE  FromReceipt(r, x) \in Answer
  BY SaysType DEF FromReceipt, Answer, Outcome, Receipt

(* The edition of the response and the editions touched are editions.      *)
LEMMA ResponseType ==
    ASSUME NEW r \in Request, target[r] \in Edition
    PROVE  /\ ResponseEdition(r) \in Edition
           /\ Touched(r) \subseteq Edition
           /\ ResponseEdition(r) \in Touched(r)
           /\ target[r] \in Touched(r)
  BY JobFields DEF ResponseEdition, Touched

(* What a commit installs is a database. *)
LEMMA CommitType ==
    ASSUME TypeInv, NEW r \in Request, Commit(r)
    PROVE  db' \in Database
  <1>1. target[r] \in Edition
    BY DEF TypeInv, Commit, Resolving
  <1> DEFINE a == [request |-> r, edition |-> ResponseEdition(r), touched |-> Touched(r)]
  <1>2. a \in Applied
    BY <1>1, ResponseType DEF Applied
  <1>3. NewRevision(r) \in [Edition -> Nat]
    BY DEF NewRevision, TypeInv, TypeOK, Database
  <1>4. NewReceipt(r) \in Receipt
    BY <1>1, <1>3, ResponseType, JobFields DEF NewReceipt, Receipt
  <1>5. (IF Job[r].activates # None THEN Job[r].activates ELSE db.active) \in Edition \cup {None}
    BY JobFields DEF TypeInv, TypeOK, Database
  <1>6. db' = [revision |-> NewRevision(r),
               active |-> IF Job[r].activates # None THEN Job[r].activates ELSE db.active,
               receipts |-> db.receipts \cup {NewReceipt(r)},
               applied |-> db.applied \cup {a}]
    BY DEF Commit
  <1>7. db.receipts \subseteq Receipt /\ db.applied \subseteq Applied
    BY DEF TypeInv, TypeOK, Database
  <1> HIDE DEF a
  <1> QED
    BY <1>2, <1>3, <1>4, <1>5, <1>6, <1>7 DEF Database

(* The initial states are typed. *)
LEMMA TypeInit == Init => TypeInv
  <1> SUFFICES ASSUME Init PROVE TypeInv
    OBVIOUS
  <1>1. db \in Database
    BY DEF Init, Database
  <1> QED
    BY <1>1, SaysType, BoundAssumption
    DEF Init, TypeInv, TypeOK, Phase, Event, Resolving

(* Every step keeps the types. *)
LEMMA TypeStep == TypeInv /\ [Next]_vars => TypeInv'
  <1> SUFFICES ASSUME TypeInv, [Next]_vars PROVE TypeInv'
    OBVIOUS
  <1>1. ASSUME NEW r \in Request, Begin(r) PROVE TypeInv'
    <2>1. attempt[r] + 1 \in 0..MaxAttempts
      BY <1>1, BoundAssumption DEF Begin, TypeInv, TypeOK
    <2> QED
      BY <1>1, <2>1 DEF Begin, TypeInv, TypeOK, Phase, Resolving
  <1>2. ASSUME NEW r \in Request, EnterRoute(r) PROVE TypeInv'
    <2>1. <<"request", Job[r].route>> \in Lock
      BY JobFields DEF Lock
    <2>2. Resolved(r) \in Edition \cup {None}
      BY JobFields, LatestAssumption DEF Resolved, Route, TypeInv, TypeOK, Database
    <2>3. CASE RouteReceipts(r) # {}
      <3> PICK x \in RouteReceipts(r) :
              IF x.body # Job[r].body
              THEN /\ Leave(r, "done", Says("conflict"))
                   /\ UNCHANGED target
              ELSE /\ pc' = [pc EXCEPT ![r] = "replay"]
                   /\ target' = [target EXCEPT ![r] = x.edition]
                   /\ held' = [held EXCEPT ![r] = {<<"request", Job[r].route>>}]
                   /\ UNCHANGED answer
        BY <1>2, <2>3 DEF EnterRoute
      <3>1. x.edition \in Edition
        BY DEF RouteReceipts, TypeInv, TypeOK, Database, Receipt
      <3>2. CASE x.body # Job[r].body
        BY <1>2, <3>2, LeaveType, SaysType DEF EnterRoute, Phase, Outcome
      <3>3. CASE x.body = Job[r].body
        BY <1>2, <2>1, <3>1, <3>3, MoveType DEF EnterRoute, Phase
      <3> QED
        BY <3>2, <3>3
    <2>4. CASE RouteReceipts(r) = {} /\ Resolved(r) = None
      BY <1>2, <2>4, LeaveType, SaysType DEF EnterRoute, Phase, Outcome
    <2>5. CASE RouteReceipts(r) = {} /\ Resolved(r) # None
      BY <1>2, <2>1, <2>2, <2>5, MoveType DEF EnterRoute, Phase
    <2> QED
      BY <2>3, <2>4, <2>5
  <1>3. ASSUME NEW r \in Request, ReplayRoute(r) PROVE TypeInv'
    <2> PICK x \in RouteReceipts(r) : Leave(r, "done", FromReceipt(r, x))
      BY <1>3 DEF ReplayRoute
    <2>1. x \in Receipt
      BY DEF RouteReceipts, TypeInv, TypeOK, Database
    <2> QED
      BY <1>3, <2>1, FromReceiptType, LeaveType DEF ReplayRoute, Phase
  <1>4. ASSUME NEW r \in Request, EnterEdition(r) PROVE TypeInv'
    <2>1. CASE EditionReceipts(r) # {}
      <3> PICK x \in EditionReceipts(r) :
              Leave(r, "done",
                    IF x.body # Job[r].body THEN Says("conflict") ELSE FromReceipt(r, x))
        BY <1>4, <2>1 DEF EnterEdition
      <3>1. x \in Receipt
        BY DEF EditionReceipts, TypeInv, TypeOK, Database
      <3> QED
        BY <1>4, <3>1, FromReceiptType, SaysType, LeaveType DEF EnterEdition, Phase, Outcome
    <2>2. CASE EditionReceipts(r) = {}
      <3>1. target[r] \in Edition
        BY <1>4 DEF EnterEdition, TypeInv, Resolving
      <3>2. held[r] \cup {<<"edition", target[r]>>} \in SUBSET Lock
        BY <3>1 DEF Lock, TypeInv, TypeOK
      <3>3. target' = [target EXCEPT ![r] = target[r]]
        BY <1>4 DEF EnterEdition, TypeInv, TypeOK
      <3> QED
        BY <1>4, <2>2, <3>1, <3>2, <3>3, MoveType DEF EnterEdition, Phase
    <2> QED
      BY <2>1, <2>2
  <1>5. ASSUME NEW r \in Request, Refuse(r) PROVE TypeInv'
    BY <1>5, SaysType, LeaveType DEF Refuse, Phase, Outcome
  <1>6. ASSUME NEW r \in Request, UpdateRevision(r) PROVE TypeInv'
    <2> PICK e \in RowsLeft(r) : TakeRow(r, e)
      BY <1>6 DEF UpdateRevision
    <2>1. target[r] \in Edition
      BY <1>6 DEF UpdateRevision, TypeInv, Resolving
    <2>2. e \in Edition
      BY <2>1, ResponseType DEF RowsLeft
    <2>3. held[r] \cup {<<"row", e>>} \in SUBSET Lock
      BY <2>2 DEF Lock, TypeInv, TypeOK
    <2>4. target' = [target EXCEPT ![r] = target[r]]
      BY <1>6 DEF TakeRow, TypeInv, TypeOK
    <2> QED
      BY <1>6, <2>1, <2>3, <2>4, MoveType DEF UpdateRevision, TakeRow, Phase
  <1>7. ASSUME NEW r \in Request, SerializationFailure(r) PROVE TypeInv'
    BY <1>7, SaysType, LeaveType DEF SerializationFailure, Phase, Outcome
  <1>8. ASSUME NEW r \in Request, TransactionTimeout(r) PROVE TypeInv'
    BY <1>8, SaysType, LeaveType DEF TransactionTimeout, Phase, Outcome
  <1>9. ASSUME NEW r \in Request, ReceiptCollision(r) PROVE TypeInv'
    BY <1>9, SaysType, LeaveType DEF ReceiptCollision, Phase, Outcome
  <1>10. ASSUME NEW r \in Request, Commit(r) PROVE TypeInv'
    <2>1. db' \in Database
      BY <1>10, CommitType
    <2>2. /\ pc[r] = "commit"
          /\ snap' = [snap EXCEPT ![r] = db']
          /\ pc' = [pc EXCEPT ![r] = "committed"]
          /\ held' = [held EXCEPT ![r] = {}]
          /\ answer' = [answer EXCEPT ![r] = answer[r]]
          /\ UNCHANGED <<attempt, target, outbox, published, crashes>>
      BY <1>10 DEF Commit, Leave
    <2> QED
      BY <2>1, <2>2 DEF TypeInv, TypeOK, Phase, Resolving
  <1>11. ASSUME NEW r \in Request, Reply(r) PROVE TypeInv'
    <2>1. target[r] \in Edition
      BY <1>11 DEF Reply, TypeInv, Resolving
    <2>2. \A e \in Edition : snap[r].revision[e] \in Nat
      BY DEF TypeInv, TypeOK, Database
    <2>3. {[edition |-> e, revision |-> snap[r].revision[e]] : e \in Touched(r)} \subseteq Event
      BY <2>1, <2>2, ResponseType DEF Event
    <2>4. [outcome |-> "ok", revision |-> snap[r].revision[ResponseEdition(r)]] \in Answer
      BY <2>1, <2>2, ResponseType DEF Answer, Outcome
    <2> QED
      BY <1>11, <2>3, <2>4 DEF Reply, TypeInv, TypeOK, Phase, Resolving
  <1>12. CASE Publish
    BY <1>12 DEF Publish, TypeInv, TypeOK
  <1>13. CASE Crash
    <2>1. crashes + 1 \in 0..MaxCrashes
      BY <1>13, BoundAssumption DEF Crash, TypeInv, TypeOK
    <2> QED
      BY <1>13, <2>1, SaysType DEF Crash, InFlight, TypeInv, TypeOK, Phase, Outcome, Resolving
  <1>14. CASE UNCHANGED vars
    BY <1>14 DEF vars, TypeInv, TypeOK, Resolving
  <1>15. ASSUME NEW r \in Request, DeadlockVictim(r) PROVE TypeInv'
    <2>2. ASSUME NEW phase \in {"begin", "done"}, NEW ans \in Answer, Leave(r, phase, ans),
                 phase = "begin" => attempt[r] < MaxAttempts
          PROVE  TypeInv'
      BY <1>15, <2>2 DEF DeadlockVictim, Leave, TypeInv, TypeOK, Phase, Resolving
    <2> QED
      BY <1>15, <2>2, SaysType DEF DeadlockVictim, Outcome
  <1> QED
    BY <1>1, <1>2, <1>3, <1>4, <1>5, <1>6, <1>7, <1>8, <1>9, <1>10, <1>11, <1>12, <1>13, <1>14, <1>15
    DEF Next, Step

(* Every variable keeps its type in every state execute can reach: no      *)
(* delivery begins more than MAX_SERIALIZABLE_RETRIES attempts.            *)
THEOREM TypeCorrect == Spec => []TypeOK
  <1>1. TypeInv => TypeOK
    BY DEF TypeInv
  <1> QED
    BY <1>1, TypeInit, TypeStep, PTL DEF Spec

-----------------------------------------------------------------------------
(* EXACTLY ONCE *)

Open(r) == pc[r] \in {"route", "edition", "replay", "update", "commit"}

(* The row of the edition is still what the snapshot of r shows. *)
Fresh(r, e) == snap[r].revision[e] = db.revision[e]

Unseen(r) == db.receipts \ snap[r].receipts

(* Revisions only grow past an open snapshot. *)
SnapshotsTrail ==
    \A r \in Request, e \in Edition : Open(r) => snap[r].revision[e] <= db.revision[e]

(* The heart of the argument: while a row is unchanged since a snapshot,   *)
(* the alias is unchanged too, and no receipt the snapshot lacks was left  *)
(* by a request that came in by this edition, or by the alias while it     *)
(* stood for this edition.                                                 *)
FreshRowsHideNothing ==
    \A r \in Request, e \in Edition : Open(r) /\ Fresh(r, e) =>
        /\ snap[r].active = db.active
        /\ \A x \in Unseen(r) :
              /\ x.route # e
              /\ x.route = Active => db.active \in Edition /\ db.active # e

(* Past the request lock the snapshot has no receipt of this route and key *)
(* and the edition is the one it resolves.                                 *)
RouteChecked ==
    \A r \in Request : pc[r] \in {"edition", "update", "commit"} =>
        /\ RouteReceipts(r) = {}
        /\ target[r] = Resolved(r)

(* A row lock is held by one open writer and keeps its row fresh.          *)
RowsProtected ==
    \A r \in Request, e \in Edition : <<"row", e>> \in held[r] =>
        /\ pc[r] \in {"update", "commit"}
        /\ Fresh(r, e)
        /\ \A s \in Request : <<"row", e>> \in held[s] => s = r

AllRowsTaken ==
    \A r \in Request : pc[r] = "commit" => RowsLeft(r) = {}

(* Every mutation left its receipt. *)
MutationsHaveReceipts ==
    \A a \in db.applied : \E x \in db.receipts :
        x.key = JobOf(a).key /\ x.route = JobOf(a).route

IInv ==
    /\ TypeInv
    /\ SnapshotsTrail
    /\ FreshRowsHideNothing
    /\ RouteChecked
    /\ RowsProtected
    /\ AllRowsTaken
    /\ MutationsHaveReceipts
    /\ ExactlyOnce

(* The invariant holds initially. *)
LEMMA IInvInit == Init => IInv
  <1> SUFFICES ASSUME Init PROVE IInv
    OBVIOUS
  <1>1. TypeInv
    BY TypeInit
  <1>2. db.applied = {} /\ \A r \in Request : pc[r] = "new" /\ held[r] = {}
    BY DEF Init
  <1> QED
    BY <1>1, <1>2 DEF IInv, SnapshotsTrail, FreshRowsHideNothing, RouteChecked, RowsProtected,
       AllRowsTaken, MutationsHaveReceipts, ExactlyOnce, Open

(* A committing writer has every row it touches, unchanged since its       *)
(* snapshot.                                                               *)
LEMMA CommitIsFresh ==
    ASSUME IInv, NEW r \in Request, pc[r] = "commit"
    PROVE  /\ target[r] \in Edition
           /\ \A e \in Touched(r) : <<"row", e>> \in held[r] /\ Fresh(r, e)
           /\ snap[r].active = db.active
  <1>1. target[r] \in Edition
    BY DEF IInv, TypeInv, Resolving
  <1>2. \A e \in Touched(r) : e \in Edition /\ <<"row", e>> \in held[r]
    BY <1>1, ResponseType DEF IInv, AllRowsTaken, RowsLeft, RowsHeld
  <1>3. \A e \in Touched(r) : Fresh(r, e)
    BY <1>2 DEF IInv, RowsProtected
  <1>4. snap[r].active = db.active
    BY <1>1, <1>2, <1>3, ResponseType DEF IInv, FreshRowsHideNothing, Open
  <1> QED
    BY <1>1, <1>2, <1>3, <1>4

(* No mutation of this route and key is in the database when one commits.  *)
LEMMA CommitIsFirst ==
    ASSUME IInv, NEW r \in Request, pc[r] = "commit",
           NEW x \in db.receipts, x.key = Job[r].key, x.route = Job[r].route
    PROVE  FALSE
  <1>1. /\ target[r] \in Edition
        /\ \A e \in Touched(r) : Fresh(r, e)
        /\ snap[r].active = db.active
    BY CommitIsFresh
  <1>2. RouteReceipts(r) = {} /\ target[r] = Resolved(r) /\ Open(r)
    BY DEF IInv, RouteChecked, Open
  <1>3. x \in Unseen(r)
    BY <1>2 DEF RouteReceipts, Unseen
  <1>4. \A e \in Touched(r) :
            /\ x.route # e
            /\ x.route = Active => db.active \in Edition /\ db.active # e
    BY <1>1, <1>2, <1>3, ResponseType DEF IInv, FreshRowsHideNothing
  <1>5. CASE Job[r].route # Active
    BY <1>1, <1>2, <1>4, <1>5, ResponseType DEF Resolved
  <1>6. CASE Job[r].route = Active
    <2>1. target[r] \in Touched(r)
      BY <1>1, ResponseType
    <2>2. db.active \in Edition /\ db.active # target[r]
      BY <1>4, <1>6, <2>1
    <2>3. target[r] = db.active
      BY <1>1, <1>2, <1>6, <2>2, EditionAssumption DEF Resolved
    <2> QED
      BY <2>2, <2>3
  <1> QED
    BY <1>5, <1>6

(* Leaving the transaction, with nothing committed. *)
LEMMA LeaveKeeps ==
    ASSUME IInv, TypeInv', NEW r \in Request, NEW phase \in {"begin", "done"}, NEW ans,
           Leave(r, phase, ans), UNCHANGED <<db, snap, target>>
    PROVE  IInv'
  <1> USE DEF Leave
  <1>0. /\ pc' = [pc EXCEPT ![r] = phase]
        /\ held' = [held EXCEPT ![r] = {}]
        /\ pc \in [Request -> Phase]
        /\ held \in [Request -> SUBSET Lock]
    BY DEF IInv, TypeInv, TypeOK
  <1>1. \A s \in Request : Open(s)' => Open(s)
    BY <1>0 DEF Open
  <1>2. SnapshotsTrail' /\ FreshRowsHideNothing'
    BY <1>1 DEF IInv, SnapshotsTrail, FreshRowsHideNothing, Fresh, Unseen
  <1>3. RouteChecked'
    BY <1>0 DEF IInv, RouteChecked, RouteReceipts, Resolved
  <1>4. RowsProtected'
    BY <1>0 DEF IInv, RowsProtected, Fresh
  <1>5. AllRowsTaken'
    BY <1>0 DEF IInv, AllRowsTaken, RowsLeft, RowsHeld, Touched, ResponseEdition
  <1>6. MutationsHaveReceipts' /\ ExactlyOnce'
    BY DEF IInv, MutationsHaveReceipts, ExactlyOnce, JobOf
  <1> QED
    BY <1>2, <1>3, <1>4, <1>5, <1>6 DEF IInv

(* Staying in the transaction without a row: the phases before the writes. *)
LEMMA AdvanceKeeps ==
    ASSUME IInv, TypeInv', NEW r \in Request, NEW phase \in {"edition", "replay", "update"},
           NEW locks, \A e \in Edition : <<"row", e>> \notin locks,
           pc[r] \in {"route", "edition"},
           pc' = [pc EXCEPT ![r] = phase],
           held' = [held EXCEPT ![r] = locks],
           \A s \in Request \ {r} : target'[s] = target[s],
           phase # "replay" => RouteReceipts(r) = {} /\ target'[r] = Resolved(r),
           UNCHANGED <<db, snap>>
    PROVE  IInv'
  <1>0. /\ pc \in [Request -> Phase]
        /\ held \in [Request -> SUBSET Lock]
    BY DEF IInv, TypeInv, TypeOK
  <1>1. \A s \in Request : Open(s)' => Open(s)
    BY <1>0 DEF Open
  <1>2. SnapshotsTrail' /\ FreshRowsHideNothing'
    BY <1>1 DEF IInv, SnapshotsTrail, FreshRowsHideNothing, Fresh, Unseen
  <1>3. RouteChecked'
    BY <1>0 DEF IInv, RouteChecked, RouteReceipts, Resolved
  <1>4. RowsProtected'
    BY <1>0 DEF IInv, RowsProtected, Fresh
  <1>5. AllRowsTaken'
    BY <1>0 DEF IInv, AllRowsTaken, RowsLeft, RowsHeld, Touched, ResponseEdition
  <1>6. MutationsHaveReceipts' /\ ExactlyOnce'
    BY DEF IInv, MutationsHaveReceipts, ExactlyOnce, JobOf
  <1> QED
    BY <1>2, <1>3, <1>4, <1>5, <1>6 DEF IInv

(* A new attempt sees all there is. *)
LEMMA BeginKeeps ==
    ASSUME IInv, TypeInv', NEW r \in Request, Begin(r)
    PROVE  IInv'
  <1>0. /\ pc' = [pc EXCEPT ![r] = "route"]
        /\ snap' = [snap EXCEPT ![r] = db]
        /\ pc[r] \in {"new", "begin"}
        /\ UNCHANGED <<db, target, held>>
        /\ pc \in [Request -> Phase]
        /\ snap \in [Request -> Database]
        /\ db \in Database
    BY DEF IInv, TypeInv, TypeOK, Begin
  <1>1. snap'[r] = db /\ \A s \in Request \ {r} : snap'[s] = snap[s] /\ (Open(s)' <=> Open(s))
    BY <1>0 DEF Open
  <1>2. \A e \in Edition : db.revision[e] \in Nat
    BY <1>0 DEF Database
  <1>3. SnapshotsTrail'
    BY <1>0, <1>1, <1>2 DEF IInv, SnapshotsTrail
  <1>4. FreshRowsHideNothing'
    BY <1>0, <1>1 DEF IInv, FreshRowsHideNothing, Fresh, Unseen
  <1>5. RouteChecked'
    BY <1>0, <1>1 DEF IInv, RouteChecked, RouteReceipts, Resolved
  <1>6. RowsProtected'
    BY <1>0, <1>1 DEF IInv, RowsProtected, Fresh
  <1>7. AllRowsTaken'
    BY <1>0 DEF IInv, AllRowsTaken, RowsLeft, RowsHeld, Touched, ResponseEdition
  <1>8. MutationsHaveReceipts' /\ ExactlyOnce'
    BY <1>0 DEF IInv, MutationsHaveReceipts, ExactlyOnce, JobOf
  <1> QED
    BY <1>3, <1>4, <1>5, <1>6, <1>7, <1>8 DEF IInv

(* A row is taken only when it is free and unchanged. *)
LEMMA UpdateKeeps ==
    ASSUME IInv, TypeInv', NEW r \in Request, UpdateRevision(r)
    PROVE  IInv'
  <1> PICK e \in RowsLeft(r) :
          /\ Free(<<"row", e>>)
          /\ db.revision[e] = snap[r].revision[e]
          /\ TakeRow(r, e)
    BY DEF UpdateRevision
  <1>0. /\ pc' = [pc EXCEPT ![r] = IF RowsLeft(r) = {e} THEN "commit" ELSE "update"]
        /\ held' = [held EXCEPT ![r] = @ \cup {<<"row", e>>}]
        /\ UNCHANGED <<db, snap, target>>
        /\ pc[r] = "update"
        /\ pc \in [Request -> Phase]
        /\ held \in [Request -> SUBSET Lock]
    BY DEF UpdateRevision, TakeRow, IInv, TypeInv, TypeOK
  <1>1. \A s \in Request : Open(s)' => Open(s)
    BY <1>0 DEF Open
  <1>2. SnapshotsTrail' /\ FreshRowsHideNothing'
    BY <1>0, <1>1 DEF IInv, SnapshotsTrail, FreshRowsHideNothing, Fresh, Unseen
  <1>3. RouteChecked'
    BY <1>0 DEF IInv, RouteChecked, RouteReceipts, Resolved
  <1>4. RowsProtected'
    BY <1>0 DEF IInv, RowsProtected, Fresh, Free
  <1>5. AllRowsTaken'
    <2> SUFFICES ASSUME NEW s \in Request, pc'[s] = "commit" PROVE RowsLeft(s)' = {}
      BY DEF AllRowsTaken
    <2>1. CASE s = r
      <3>1. RowsLeft(r) = {e}
        BY <1>0, <2>1
      <3>2. e \in Edition
        BY <1>0, ResponseType DEF RowsLeft, IInv, TypeInv, Resolving
      <3>3. RowsHeld(r)' = RowsHeld(r) \cup {e}
        BY <1>0, <3>2 DEF RowsHeld
      <3>4. Touched(r)' = Touched(r)
        BY <1>0 DEF Touched, ResponseEdition
      <3> QED
        BY <2>1, <3>1, <3>3, <3>4 DEF RowsLeft
    <2>2. CASE s # r
      BY <1>0, <2>2 DEF IInv, AllRowsTaken, RowsLeft, RowsHeld, Touched, ResponseEdition
    <2> QED
      BY <2>1, <2>2
  <1>6. MutationsHaveReceipts' /\ ExactlyOnce'
    BY <1>0 DEF IInv, MutationsHaveReceipts, ExactlyOnce, JobOf
  <1> QED
    BY <1>2, <1>3, <1>4, <1>5, <1>6 DEF IInv

(* A commit bumps the row of every edition it touches, so no other open    *)
(* snapshot still finds one of them fresh; and it is the first of its key. *)
LEMMA CommitKeeps ==
    ASSUME IInv, TypeInv', NEW r \in Request, Commit(r)
    PROVE  IInv'
  <1> DEFINE a == [request |-> r, edition |-> ResponseEdition(r), touched |-> Touched(r)]
  <1>0. /\ pc[r] = "commit"
        /\ pc' = [pc EXCEPT ![r] = "committed"]
        /\ held' = [held EXCEPT ![r] = {}]
        /\ snap' = [snap EXCEPT ![r] = db']
        /\ UNCHANGED target
        /\ db'.revision = NewRevision(r)
        /\ db'.active = IF Job[r].activates # None THEN Job[r].activates ELSE db.active
        /\ db'.receipts = db.receipts \cup {NewReceipt(r)}
        /\ db'.applied = db.applied \cup {a}
        /\ pc \in [Request -> Phase]
        /\ held \in [Request -> SUBSET Lock]
        /\ snap \in [Request -> Database]
        /\ db \in Database
    BY DEF Commit, Leave, IInv, TypeInv, TypeOK
  <1>1. /\ target[r] \in Edition
        /\ \A e \in Touched(r) : <<"row", e>> \in held[r] /\ Fresh(r, e)
        /\ snap[r].active = db.active
    BY <1>0, CommitIsFresh
  <1>2. \A e \in Edition : /\ db.revision[e] \in Nat
                          /\ \A s \in Request : snap[s].revision[e] \in Nat
                          /\ db'.revision[e] =
                               IF e \in Touched(r) THEN db.revision[e] + 1 ELSE db.revision[e]
    BY <1>0 DEF NewRevision, Database
  <1>3. \A s \in Request : Open(s)' => s # r /\ Open(s) /\ snap'[s] = snap[s]
    BY <1>0 DEF Open
  <1>4. SnapshotsTrail'
    BY <1>2, <1>3 DEF IInv, SnapshotsTrail
  <1>5. \A s \in Request, e \in Edition :
            Open(s)' /\ Fresh(s, e)' => Fresh(s, e) /\ e \notin Touched(r)
    <2> SUFFICES ASSUME NEW s \in Request, NEW e \in Edition, Open(s)', Fresh(s, e)'
                 PROVE  Fresh(s, e) /\ e \notin Touched(r)
      OBVIOUS
    <2>1. snap[s].revision[e] <= db.revision[e] /\ snap'[s] = snap[s]
      BY <1>3 DEF IInv, SnapshotsTrail
    <2>2. snap[s].revision[e] = db'.revision[e]
      BY <2>1 DEF Fresh
    <2> QED
      BY <1>2, <2>1, <2>2 DEF Fresh
  <1>6. FreshRowsHideNothing'
    <2> SUFFICES ASSUME NEW s \in Request, NEW e \in Edition, Open(s)', Fresh(s, e)'
                 PROVE  /\ snap'[s].active = db'.active
                        /\ \A x \in Unseen(s)' :
                              /\ x.route # e
                              /\ x.route = Active => db'.active \in Edition /\ db'.active # e
      BY DEF FreshRowsHideNothing
    <2>1. /\ Fresh(s, e) /\ e \notin Touched(r)
          /\ snap'[s] = snap[s] /\ Open(s)
      BY <1>3, <1>5
    <2>2. ~Job[r].everywhere /\ Job[r].activates = None /\ Touched(r) = {target[r]}
      BY <2>1, JobFields DEF Touched, ResponseEdition
    <2>3. db'.active = db.active /\ snap[s].active = db.active
      BY <1>0, <2>1, <2>2 DEF IInv, FreshRowsHideNothing
    <2>4. \A x \in Unseen(s) :
              /\ x.route # e
              /\ x.route = Active => db.active \in Edition /\ db.active # e
      BY <2>1 DEF IInv, FreshRowsHideNothing
    <2>5. target[r] = Resolved(r) /\ target[r] # e
      BY <1>0, <2>1, <2>2 DEF IInv, RouteChecked
    <2>6. NewReceipt(r).route = Job[r].route
      BY DEF NewReceipt
    <2>7. Job[r].route # e
      BY <2>5, EditionAssumption DEF Resolved
    <2>8. Job[r].route = Active => db.active = target[r]
      BY <1>1, <2>2, <2>5, EditionAssumption DEF Resolved
    <2>9. \A x \in Unseen(s)' : x \in Unseen(s) \/ x = NewReceipt(r)
      BY <1>0, <2>1 DEF Unseen
    <2> QED
      BY <1>1, <2>1, <2>3, <2>4, <2>5, <2>6, <2>7, <2>8, <2>9
  <1>7. RouteChecked'
    BY <1>0 DEF IInv, RouteChecked, RouteReceipts, Resolved
  <1>8. RowsProtected'
    <2> SUFFICES ASSUME NEW s \in Request, NEW e \in Edition, <<"row", e>> \in held'[s]
                 PROVE  /\ pc'[s] \in {"update", "commit"}
                        /\ Fresh(s, e)'
                        /\ \A t \in Request : <<"row", e>> \in held'[t] => t = s
      BY DEF RowsProtected
    <2>1. s # r /\ <<"row", e>> \in held[s]
      BY <1>0
    <2>2. e \notin Touched(r)
      BY <1>1, <2>1 DEF IInv, RowsProtected
    <2>3. pc[s] \in {"update", "commit"} /\ Fresh(s, e)
      BY <2>1 DEF IInv, RowsProtected
    <2>4. \A t \in Request : <<"row", e>> \in held'[t] => t = s
      BY <1>0, <2>1 DEF IInv, RowsProtected
    <2> QED
      BY <1>0, <1>2, <2>1, <2>2, <2>3, <2>4 DEF Fresh
  <1>9. AllRowsTaken'
    BY <1>0 DEF IInv, AllRowsTaken, RowsLeft, RowsHeld, Touched, ResponseEdition
  <1>10. MutationsHaveReceipts'
    <2>1. NewReceipt(r).key = JobOf(a).key /\ NewReceipt(r).route = JobOf(a).route
      BY DEF NewReceipt, JobOf
    <2> QED
      BY <1>0, <2>1 DEF IInv, MutationsHaveReceipts, JobOf
  <1>11. ExactlyOnce'
    <2>1. \A b \in db.applied : ~(JobOf(b).key = Job[r].key /\ JobOf(b).route = Job[r].route)
      BY <1>0, CommitIsFirst DEF IInv, MutationsHaveReceipts
    <2>2. JobOf(a) = Job[r]
      BY DEF JobOf
    <2> HIDE DEF a
    <2> QED
      BY <1>0, <2>1, <2>2 DEF IInv, ExactlyOnce, JobOf
  <1> QED
    BY <1>4, <1>6, <1>7, <1>8, <1>9, <1>10, <1>11 DEF IInv

(* A crash rolls every open transaction back. *)
LEMMA CrashKeeps ==
    ASSUME IInv, TypeInv', Crash
    PROVE  IInv'
  <1>0. /\ \A s \in Request : pc'[s] \in {"new", "done"} /\ held'[s] = {}
        /\ UNCHANGED <<db, snap, target>>
    BY DEF Crash, InFlight
  <1>1. \A s \in Request : ~Open(s)'
    BY <1>0 DEF Open
  <1> QED
    BY <1>0, <1>1 DEF IInv, SnapshotsTrail, FreshRowsHideNothing, RouteChecked, RowsProtected,
       AllRowsTaken, MutationsHaveReceipts, ExactlyOnce, JobOf

(* Steps that touch neither the database nor a transaction. *)
LEMMA IdleKeeps ==
    ASSUME IInv, TypeInv', UNCHANGED <<db, snap, target, held>>,
           \A s \in Request : pc'[s] = pc[s] \/ (pc[s] = "committed" /\ pc'[s] = "done")
    PROVE  IInv'
  <1>1. \A s \in Request : Open(s)' <=> Open(s)
    BY DEF Open
  <1>2. SnapshotsTrail' /\ FreshRowsHideNothing'
    BY <1>1 DEF IInv, SnapshotsTrail, FreshRowsHideNothing, Fresh, Unseen
  <1>3. RouteChecked' /\ RowsProtected'
    BY DEF IInv, RouteChecked, RouteReceipts, Resolved, RowsProtected, Fresh
  <1>4. AllRowsTaken' /\ MutationsHaveReceipts' /\ ExactlyOnce'
    BY DEF IInv, AllRowsTaken, RowsLeft, RowsHeld, Touched, ResponseEdition,
       MutationsHaveReceipts, ExactlyOnce, JobOf
  <1> QED
    BY <1>2, <1>3, <1>4 DEF IInv

(* Every step keeps the invariant. *)
LEMMA IInvStep == IInv /\ [Next]_vars => IInv'
  <1> SUFFICES ASSUME IInv, [Next]_vars PROVE IInv'
    OBVIOUS
  <1>0. TypeInv'
    BY TypeStep DEF IInv
  <1>1. ASSUME NEW r \in Request, Begin(r) PROVE IInv'
    BY <1>0, <1>1, BeginKeeps
  <1>2. ASSUME NEW r \in Request, EnterRoute(r) PROVE IInv'
    <2> DEFINE lock == {<<"request", Job[r].route>>}
    <2>1. \A e \in Edition : <<"row", e>> \notin lock
      OBVIOUS
    <2>2. target \in [Request -> Edition \cup {None}]
      BY DEF IInv, TypeInv, TypeOK
    <2>3. CASE RouteReceipts(r) # {}
      <3> PICK x \in RouteReceipts(r) :
              IF x.body # Job[r].body
              THEN /\ Leave(r, "done", Says("conflict"))
                   /\ UNCHANGED target
              ELSE /\ pc' = [pc EXCEPT ![r] = "replay"]
                   /\ target' = [target EXCEPT ![r] = x.edition]
                   /\ held' = [held EXCEPT ![r] = lock]
                   /\ UNCHANGED answer
        BY <1>2, <2>3 DEF EnterRoute
      <3>1. CASE x.body # Job[r].body
        BY <1>0, <1>2, <3>1, LeaveKeeps DEF EnterRoute
      <3>2. CASE x.body = Job[r].body
        BY <1>0, <1>2, <2>1, <2>2, <3>2, AdvanceKeeps DEF EnterRoute
      <3> QED
        BY <3>1, <3>2
    <2>4. CASE RouteReceipts(r) = {} /\ Resolved(r) = None
      BY <1>0, <1>2, <2>4, LeaveKeeps DEF EnterRoute
    <2>5. CASE RouteReceipts(r) = {} /\ Resolved(r) # None
      BY <1>0, <1>2, <2>1, <2>2, <2>5, AdvanceKeeps DEF EnterRoute
    <2> QED
      BY <2>3, <2>4, <2>5
  <1>3. ASSUME NEW r \in Request, ReplayRoute(r) PROVE IInv'
    BY <1>0, <1>3, LeaveKeeps DEF ReplayRoute
  <1>4. ASSUME NEW r \in Request, EnterEdition(r) PROVE IInv'
    <2>1. CASE EditionReceipts(r) # {}
      BY <1>0, <1>4, <2>1, LeaveKeeps DEF EnterEdition
    <2>2. CASE EditionReceipts(r) = {}
      <3> DEFINE locks == held[r] \cup {<<"edition", target[r]>>}
      <3>1. \A e \in Edition : <<"row", e>> \notin locks
        BY <1>4 DEF EnterEdition, IInv, RowsProtected
      <3>2. RouteReceipts(r) = {} /\ target[r] = Resolved(r)
        BY <1>4 DEF EnterEdition, IInv, RouteChecked
      <3> QED
        BY <1>0, <1>4, <2>2, <3>1, <3>2, AdvanceKeeps DEF EnterEdition
    <2> QED
      BY <2>1, <2>2
  <1>5. ASSUME NEW r \in Request, Refuse(r) PROVE IInv'
    BY <1>0, <1>5, LeaveKeeps DEF Refuse
  <1>6. ASSUME NEW r \in Request, UpdateRevision(r) PROVE IInv'
    BY <1>0, <1>6, UpdateKeeps
  <1>7. ASSUME NEW r \in Request, SerializationFailure(r) PROVE IInv'
    BY <1>0, <1>7, LeaveKeeps DEF SerializationFailure
  <1>8. ASSUME NEW r \in Request, TransactionTimeout(r) PROVE IInv'
    BY <1>0, <1>8, LeaveKeeps DEF TransactionTimeout
  <1>9. ASSUME NEW r \in Request, ReceiptCollision(r) PROVE IInv'
    BY <1>0, <1>9, LeaveKeeps DEF ReceiptCollision
  <1>10. ASSUME NEW r \in Request, Commit(r) PROVE IInv'
    BY <1>0, <1>10, CommitKeeps
  <1>11. ASSUME NEW r \in Request, Reply(r) PROVE IInv'
    <2>1. pc[r] = "committed" /\ pc' = [pc EXCEPT ![r] = "done"] /\ pc \in [Request -> Phase]
      BY <1>11 DEF Reply, IInv, TypeInv, TypeOK
    <2> QED
      BY <1>0, <1>11, <2>1, IdleKeeps DEF Reply
  <1>12. CASE Publish
    BY <1>0, <1>12, IdleKeeps DEF Publish
  <1>13. CASE Crash
    BY <1>0, <1>13, CrashKeeps
  <1>14. CASE UNCHANGED vars
    BY <1>0, <1>14, IdleKeeps DEF vars
  <1>15. ASSUME NEW r \in Request, DeadlockVictim(r) PROVE IInv'
    BY <1>0, <1>15, DeadlockedUpdates, LeaveKeeps DEF DeadlockVictim
  <1> QED
    BY <1>1, <1>2, <1>3, <1>4, <1>5, <1>6, <1>7, <1>8, <1>9, <1>10, <1>11, <1>12, <1>13, <1>14, <1>15
    DEF Next, Step

(* Two mutations of one route and Idempotency-Key never both commit, for   *)
(* any number of deliveries, editions, activations, retries and crashes.   *)
THEOREM ExactlyOnceHolds == Spec => []ExactlyOnce
  <1>1. IInv => ExactlyOnce
    BY DEF IInv
  <1> QED
    BY <1>1, IInvInit, IInvStep, PTL DEF Spec

(* A transaction that waited for the locks commits only on rows and an     *)
(* alias that nobody changed since the snapshot it took before waiting.    *)
THEOREM NoStaleCommitHolds == Spec => []NoStaleCommit
  <1>1. IInv => NoStaleCommit
    BY CommitIsFresh DEF NoStaleCommit, Fresh
  <1> QED
    BY <1>1, IInvInit, IInvStep, PTL DEF Spec

-----------------------------------------------------------------------------
(***************************************************************************)
(* THE LEDGER                                                              *)
(*                                                                         *)
(* The write path implements the ledger: a commit is the entry of the      *)
(* ledger, an answer is read off an entry, everything else stutters.  That *)
(* the entry is the first of its route is IInv; LInv adds that a delivery  *)
(* is answered once, that an edition has one receipt per key, numbered no  *)
(* higher than its revision, and that whoever is about to answer has the   *)
(* receipt he answers from.                                                *)
(***************************************************************************)
\* A receipt of what the delivery asked for: key, body and actor.
Quotable(r, x) ==
    x.key = Job[r].key /\ x.body = Job[r].body /\ x.actor = Job[r].actor

AnsweredOnce == \A r \in Request : pc[r] # "done" => answer[r] = NoAnswer

OneReceiptPerKey ==
    \A x, y \in db.receipts : x.key = y.key /\ x.edition = y.edition => x = y

ReceiptsTrail == \A x \in db.receipts : x.revision <= db.revision[x.edition]

SnapshotsAreCommitted == \A r \in Request : snap[r].receipts \subseteq db.receipts

\* A replay runs on a receipt whose body was compared.
ReplayIsChecked ==
    \A r \in Request : pc[r] = "replay" =>
        \E x \in RouteReceipts(r) : x.edition = target[r] /\ x.body = Job[r].body

\* What a commit leaves for its reply: its receipt and revisions of its own.
ReplyIsCommitted ==
    \A r \in Request : pc[r] = "committed" =>
        /\ \E x \in db.receipts :
              Quotable(r, x) /\ x.revision = snap[r].revision[ResponseEdition(r)]
        /\ \A e \in Edition : snap[r].revision[e] <= db.revision[e]

LInv ==
    /\ AnsweredOnce
    /\ OneReceiptPerKey
    /\ ReceiptsTrail
    /\ SnapshotsAreCommitted
    /\ ReplayIsChecked
    /\ ReplyIsCommitted
    /\ AnswersAreReceipts
    /\ PublishedAfterCommit

\* A step of the ledger, or none that it shows.
LedgerStep == [Ledger!Next]_<<db.receipts, answer>>

-----------------------------------------------------------------------------
(* Lemmas                                                                  *)

\* The invariant holds initially, and the initial state is the ledger's.
LEMMA LInvInit ==
    ASSUME Init
    PROVE  LInv /\ Ledger!Init
  <1>1. /\ db.receipts = {} /\ outbox = {} /\ published = {}
        /\ \A r \in Request : pc[r] = "new" /\ answer[r] = NoAnswer /\ snap[r] = db
        /\ answer = [r \in Request |-> NoAnswer]
    BY DEF Init
  <1>2. LInv
    BY <1>1 DEF LInv, AnsweredOnce, OneReceiptPerKey, ReceiptsTrail, SnapshotsAreCommitted,
       ReplayIsChecked, ReplyIsCommitted, AnswersAreReceipts, PublishedAfterCommit, NoAnswer
  <1>3. Ledger!Init
    BY <1>1 DEF Ledger!Init, NoAnswer
  <1> QED
    BY <1>2, <1>3

\* What the parts of the state are, for the steps below.
LEMMA Fields ==
    ASSUME IInv
    PROVE  /\ pc \in [Request -> Phase]
           /\ answer \in [Request -> Answer]
           /\ target \in [Request -> Edition \cup {None}]
           /\ snap \in [Request -> Database]
           /\ db \in Database
           /\ db.receipts \subseteq Receipt
           /\ \A e \in Edition : db.revision[e] \in Nat
           /\ \A r \in Request : pc[r] \in Resolving => target[r] \in Edition
           /\ outbox \subseteq Event /\ published \subseteq Event
  BY DEF IInv, TypeInv, TypeOK, Database

\* The parts about the database hold while neither it nor a snapshot moves.
LEMMA StillKeeps ==
    ASSUME LInv, UNCHANGED <<db, snap>>
    PROVE  OneReceiptPerKey' /\ ReceiptsTrail' /\ SnapshotsAreCommitted'
  BY DEF LInv, OneReceiptPerKey, ReceiptsTrail, SnapshotsAreCommitted

\* A delivery leaves its transaction without committing: it goes on undecided,
\* is refused, or quotes a receipt.
LEMMA LeaveAnswers ==
    ASSUME IInv, LInv, NEW r \in Request, NEW phase \in {"begin", "done"}, NEW ans,
           pc[r] # "done", Leave(r, phase, ans), UNCHANGED <<db, snap, target, outbox, published>>,
           \/ ans = NoAnswer
           \/ phase = "done" /\ \E outcome \in {"refused", "conflict", "error", "exhausted"} :
                                    ans = Says(outcome)
           \/ phase = "done" /\ \E x \in db.receipts :
                  Quotable(r, x) /\ ans = [outcome |-> "ok", revision |-> x.revision]
    PROVE  LInv' /\ LedgerStep
  <1>0. /\ pc' = [pc EXCEPT ![r] = phase]
        /\ answer' = [answer EXCEPT ![r] = ans]
        /\ answer[r] = NoAnswer
        /\ pc \in [Request -> Phase] /\ answer \in [Request -> Answer]
    BY Fields DEF Leave, LInv, AnsweredOnce
  <1>1. OneReceiptPerKey' /\ ReceiptsTrail' /\ SnapshotsAreCommitted'
    BY StillKeeps
  <1>2. AnsweredOnce'
    BY <1>0 DEF LInv, AnsweredOnce
  <1>3. ReplayIsChecked' /\ ReplyIsCommitted'
    <2>1. \A s \in Request : pc'[s] \in {"replay", "committed"} => pc'[s] = pc[s]
      BY <1>0
    <2> QED
      BY <2>1 DEF LInv, ReplayIsChecked, ReplyIsCommitted, RouteReceipts, ResponseEdition
  <1>4. PublishedAfterCommit'
    BY DEF LInv, PublishedAfterCommit
  <1>5. AnswersAreReceipts'
    <2>1. ans.outcome = "ok" => \E x \in db.receipts : Quotable(r, x) /\ x.revision = ans.revision
      BY DEF NoAnswer, Says
    <2> QED
      BY <1>0, <2>1 DEF LInv, AnswersAreReceipts, Quotable
  <1>6. LedgerStep
    <2>1. CASE ans = NoAnswer
      BY <1>0, <2>1 DEF LedgerStep
    <2>2. ASSUME NEW outcome \in {"refused", "conflict", "error", "exhausted"}, ans = Says(outcome)
          PROVE  LedgerStep
      <3>1. answer' = [s \in Request |->
                          IF s \in {r} THEN [outcome |-> outcome, revision |-> 0] ELSE answer[s]]
        BY <1>0, <2>2 DEF Says
      <3>2. {r} \in SUBSET Request /\ \A s \in {r} : Ledger!Undecided(s)
        BY <1>0 DEF Ledger!Undecided, NoAnswer
      <3>3. Ledger!Fail
        BY <3>1, <3>2 DEF Ledger!Fail
      <3> QED
        BY <3>3 DEF LedgerStep, Ledger!Next
    <2>3. ASSUME NEW x \in db.receipts, Quotable(r, x), ans = [outcome |-> "ok", revision |-> x.revision]
          PROVE  LedgerStep
      <3>1. Ledger!Undecided(r) /\ Ledger!AskedFor(r, x)
        BY <1>0, <2>3 DEF Ledger!Undecided, Ledger!AskedFor, Quotable, NoAnswer
      <3>2. Ledger!Succeed
        BY <1>0, <2>3, <3>1 DEF Ledger!Succeed
      <3> QED
        BY <3>2 DEF LedgerStep, Ledger!Next
    <2> QED
      BY <2>1, <2>2, <2>3
  <1> QED
    BY <1>1, <1>2, <1>3, <1>4, <1>5, <1>6 DEF LInv

\* A delivery moves on inside its transaction.
LEMMA AdvanceStutters ==
    ASSUME IInv, LInv, NEW r \in Request, NEW phase \in {"edition", "replay", "update", "commit"},
           pc[r] # "done", pc' = [pc EXCEPT ![r] = phase],
           \A s \in Request \ {r} : target'[s] = target[s],
           phase = "replay" =>
                \E x \in RouteReceipts(r) : x.edition = target'[r] /\ x.body = Job[r].body,
           UNCHANGED <<db, snap, answer, outbox, published>>
    PROVE  LInv' /\ LedgerStep
  <1>0. pc \in [Request -> Phase]
    BY Fields
  <1>1. OneReceiptPerKey' /\ ReceiptsTrail' /\ SnapshotsAreCommitted'
    BY StillKeeps
  <1>2. AnsweredOnce'
    BY <1>0 DEF LInv, AnsweredOnce
  <1>3. ReplayIsChecked' /\ ReplyIsCommitted'
    BY <1>0 DEF LInv, ReplayIsChecked, ReplyIsCommitted, RouteReceipts, ResponseEdition
  <1>4. PublishedAfterCommit' /\ AnswersAreReceipts'
    BY DEF LInv, PublishedAfterCommit, AnswersAreReceipts
  <1> QED
    BY <1>1, <1>2, <1>3, <1>4 DEF LInv, LedgerStep

\* A receipt answers its own actor, once its body was compared.
LEMMA ReceiptAnswers ==
    ASSUME NEW r \in Request, NEW x \in db.receipts, x.key = Job[r].key, x.body = Job[r].body
    PROVE  \/ FromReceipt(r, x) = Says("refused")
           \/ /\ Quotable(r, x)
              /\ FromReceipt(r, x) = [outcome |-> "ok", revision |-> x.revision]
  BY DEF FromReceipt, Quotable

-----------------------------------------------------------------------------
(* The steps                                                               *)

\* An attempt begins on what is committed.
LEMMA BeginStutters ==
    ASSUME IInv, LInv, NEW r \in Request, Begin(r)
    PROVE  LInv' /\ LedgerStep
  <1>0. /\ pc \in [Request -> Phase] /\ snap \in [Request -> Database]
        /\ pc' = [pc EXCEPT ![r] = "route"] /\ snap' = [snap EXCEPT ![r] = db]
        /\ pc[r] \in {"new", "begin"}
        /\ UNCHANGED <<db, target, answer, outbox, published>>
    BY Fields DEF Begin
  <1>1. OneReceiptPerKey' /\ ReceiptsTrail' /\ SnapshotsAreCommitted'
    BY <1>0 DEF LInv, OneReceiptPerKey, ReceiptsTrail, SnapshotsAreCommitted
  <1>2. AnsweredOnce'
    BY <1>0 DEF LInv, AnsweredOnce
  <1>3. \A s \in Request : pc'[s] # "route" => s # r /\ pc'[s] = pc[s] /\ snap'[s] = snap[s]
    BY <1>0
  <1>4. ReplayIsChecked' /\ ReplyIsCommitted'
    BY <1>0, <1>3 DEF LInv, ReplayIsChecked, ReplyIsCommitted, RouteReceipts, ResponseEdition
  <1>5. PublishedAfterCommit' /\ AnswersAreReceipts'
    BY <1>0 DEF LInv, PublishedAfterCommit, AnswersAreReceipts
  <1> QED
    BY <1>0, <1>1, <1>2, <1>4, <1>5 DEF LInv, LedgerStep

\* The request lock: a conflict, a refusal, a replay, or the edition.
LEMMA EnterRouteAnswers ==
    ASSUME IInv, LInv, NEW r \in Request, EnterRoute(r)
    PROVE  LInv' /\ LedgerStep
  <1>0. /\ pc[r] = "route" /\ UNCHANGED <<db, snap, outbox, published>>
        /\ target \in [Request -> Edition \cup {None}]
    BY Fields DEF EnterRoute
  <1>1. CASE RouteReceipts(r) # {}
    <2>1. PICK x \in RouteReceipts(r) :
              IF x.body # Job[r].body
              THEN /\ Leave(r, "done", Says("conflict"))
                   /\ UNCHANGED target
              ELSE /\ pc' = [pc EXCEPT ![r] = "replay"]
                   /\ target' = [target EXCEPT ![r] = x.edition]
                   /\ held' = [held EXCEPT ![r] = {<<"request", Job[r].route>>}]
                   /\ UNCHANGED answer
      BY <1>1 DEF EnterRoute
    <2>2. CASE x.body # Job[r].body
      BY <1>0, <2>1, <2>2, LeaveAnswers
    <2>3. CASE x.body = Job[r].body
      BY <1>0, <2>1, <2>3, AdvanceStutters
    <2> QED
      BY <2>2, <2>3
  <1>2. CASE RouteReceipts(r) = {} /\ Resolved(r) = None
    BY <1>0, <1>2, LeaveAnswers DEF EnterRoute
  <1>3. CASE RouteReceipts(r) = {} /\ Resolved(r) # None
    BY <1>0, <1>3, AdvanceStutters DEF EnterRoute
  <1> QED
    BY <1>1, <1>2, <1>3

\* The answer by route quotes the one receipt of the key and the edition.
LEMMA ReplayAnswers ==
    ASSUME IInv, LInv, NEW r \in Request, ReplayRoute(r)
    PROVE  LInv' /\ LedgerStep
  <1>1. PICK x \in RouteReceipts(r) : x.edition = target[r] /\ Leave(r, "done", FromReceipt(r, x))
    BY DEF ReplayRoute
  <1>2. PICK y \in RouteReceipts(r) : y.edition = target[r] /\ y.body = Job[r].body
    BY DEF ReplayRoute, LInv, ReplayIsChecked
  <1>3. x \in db.receipts /\ y \in db.receipts /\ x.key = Job[r].key /\ y.key = Job[r].key
    BY <1>1, <1>2 DEF RouteReceipts, LInv, SnapshotsAreCommitted
  <1>4. x.body = Job[r].body
    BY <1>1, <1>2, <1>3 DEF LInv, OneReceiptPerKey
  <1>5. \/ FromReceipt(r, x) = Says("refused")
        \/ Quotable(r, x) /\ FromReceipt(r, x) = [outcome |-> "ok", revision |-> x.revision]
    BY <1>3, <1>4, ReceiptAnswers
  <1>6. pc[r] = "replay" /\ UNCHANGED <<db, snap, target, outbox, published>>
    BY DEF ReplayRoute
  <1> QED
    BY <1>1, <1>3, <1>5, <1>6, LeaveAnswers

\* The answer by edition, or the handler runs.
LEMMA EnterEditionAnswers ==
    ASSUME IInv, LInv, NEW r \in Request, EnterEdition(r)
    PROVE  LInv' /\ LedgerStep
  <1>0. pc[r] = "edition" /\ UNCHANGED <<db, snap, target, outbox, published>>
    BY DEF EnterEdition
  <1>1. CASE EditionReceipts(r) # {}
    <2>1. PICK x \in EditionReceipts(r) :
              Leave(r, "done", IF x.body # Job[r].body THEN Says("conflict") ELSE FromReceipt(r, x))
      BY <1>1 DEF EnterEdition
    <2>2. x \in db.receipts /\ x.key = Job[r].key
      BY <2>1 DEF EditionReceipts, LInv, SnapshotsAreCommitted
    <2>3. CASE x.body # Job[r].body
      BY <1>0, <2>1, <2>3, LeaveAnswers
    <2>4. CASE x.body = Job[r].body
      <3>1. \/ FromReceipt(r, x) = Says("refused")
            \/ Quotable(r, x) /\ FromReceipt(r, x) = [outcome |-> "ok", revision |-> x.revision]
        BY <2>2, <2>4, ReceiptAnswers
      <3>2. Leave(r, "done", FromReceipt(r, x))
        BY <2>1, <2>4
      <3> QED
        BY <1>0, <2>2, <3>1, <3>2, LeaveAnswers
    <2> QED
      BY <2>3, <2>4
  <1>2. CASE EditionReceipts(r) = {}
    BY <1>0, <1>2, AdvanceStutters DEF EnterEdition
  <1> QED
    BY <1>1, <1>2

\* A commit makes the entry: the first of its route and of its edition.
LEMMA CommitEnters ==
    ASSUME IInv, IInv', LInv, NEW r \in Request, Commit(r)
    PROVE  LInv' /\ LedgerStep
  <1> DEFINE x == NewReceipt(r)
  <1>0. /\ pc[r] = "commit" /\ ~ReceiptTaken(r)
        /\ pc' = [pc EXCEPT ![r] = "committed"]
        /\ snap' = [snap EXCEPT ![r] = db']
        /\ answer' = [answer EXCEPT ![r] = answer[r]]
        /\ db'.revision = NewRevision(r)
        /\ db'.receipts = db.receipts \cup {x}
        /\ UNCHANGED <<target, outbox, published>>
    BY DEF Commit, Leave
  <1>1. /\ pc \in [Request -> Phase] /\ snap \in [Request -> Database]
        /\ target[r] \in Edition /\ db.receipts \subseteq Receipt
        /\ \A e \in Edition : db.revision[e] \in Nat
        /\ outbox \subseteq Event /\ published \subseteq Event
        /\ answer \in [Request -> Answer]
    BY <1>0, Fields DEF Resolving
  <1>2. ResponseEdition(r) \in Edition /\ ResponseEdition(r) \in Touched(r)
    BY <1>1, ResponseType
  <1>3. \A e \in Edition :
            /\ db'.revision[e] \in Nat
            /\ db.revision[e] <= db'.revision[e]
            /\ e \in Touched(r) => db.revision[e] < db'.revision[e]
    BY <1>0, <1>1 DEF NewRevision
  <1>4. /\ Quotable(r, x) /\ x.route = Job[r].route
        /\ x.edition = ResponseEdition(r) /\ x.revision = db'.revision[ResponseEdition(r)]
    BY <1>0 DEF NewReceipt, Quotable
  <1>5. \A y \in db.receipts : y.key = x.key => y.edition # x.edition /\ y.route # x.route
    BY <1>0, <1>4, CommitIsFirst DEF ReceiptTaken, Quotable
  <1>6. \A y \in db.receipts : y.edition \in Edition /\ y.revision \in Nat
    BY <1>1 DEF Receipt
  <1>7. answer' = answer
    BY <1>0, <1>1
  <1> HIDE DEF x
  <1>8. AnsweredOnce' /\ OneReceiptPerKey'
    BY <1>0, <1>1, <1>5, <1>7 DEF LInv, AnsweredOnce, OneReceiptPerKey
  <1>9. ReceiptsTrail'
    <2> SUFFICES ASSUME NEW y \in db'.receipts PROVE y.revision <= db'.revision[y.edition]
      BY DEF ReceiptsTrail
    <2>1. CASE y \in db.receipts
      <3>1. y.revision <= db.revision[y.edition]
        BY <2>1 DEF LInv, ReceiptsTrail
      <3> QED
        BY <1>1, <1>3, <1>6, <2>1, <3>1
    <2>2. CASE y = x
      BY <1>2, <1>3, <1>4, <2>2
    <2> QED
      BY <1>0, <2>1, <2>2
  <1>10. SnapshotsAreCommitted'
    BY <1>0, <1>1 DEF LInv, SnapshotsAreCommitted
  <1>11. ReplayIsChecked'
    BY <1>0, <1>1 DEF LInv, ReplayIsChecked, RouteReceipts
  <1>12. ReplyIsCommitted'
    <2> SUFFICES ASSUME NEW s \in Request, pc'[s] = "committed"
                 PROVE  /\ \E y \in db'.receipts :
                              Quotable(s, y) /\ y.revision = snap'[s].revision[ResponseEdition(s)]
                        /\ \A e \in Edition : snap'[s].revision[e] <= db'.revision[e]
      BY <1>0 DEF ReplyIsCommitted, ResponseEdition
    <2>1. CASE s = r
      <3>1. snap'[r] = db' /\ x \in db'.receipts
        BY <1>0, <1>1
      <3>2. x.revision = snap'[r].revision[ResponseEdition(r)]
        BY <1>4, <3>1
      <3>3. \A e \in Edition : snap'[r].revision[e] <= db'.revision[e]
        BY <1>3, <3>1
      <3> QED
        BY <1>4, <2>1, <3>1, <3>2, <3>3
    <2>2. CASE s # r
      <3>1. pc[s] = "committed" /\ snap'[s] = snap[s]
        BY <1>0, <1>1, <2>2
      <3>2. \A e \in Edition : snap[s].revision[e] \in Nat
        BY <1>1 DEF Database
      <3>3. PICK y \in db.receipts :
                Quotable(s, y) /\ y.revision = snap[s].revision[ResponseEdition(s)]
        BY <3>1 DEF LInv, ReplyIsCommitted
      <3>4. \A e \in Edition : snap[s].revision[e] <= db.revision[e]
        BY <3>1 DEF LInv, ReplyIsCommitted
      <3>5. \A e \in Edition : snap'[s].revision[e] <= db'.revision[e]
        BY <1>1, <1>3, <3>1, <3>2, <3>4
      <3>6. y \in db'.receipts
        BY <1>0
      <3> QED
        BY <3>1, <3>3, <3>5, <3>6
    <2> QED
      BY <2>1, <2>2
  <1>13. AnswersAreReceipts'
    BY <1>0, <1>7 DEF LInv, AnswersAreReceipts
  <1>14. PublishedAfterCommit'
    <2> SUFFICES ASSUME NEW event \in outbox \cup published
                 PROVE  event.revision <= db'.revision[event.edition]
      BY <1>0 DEF PublishedAfterCommit
    <2>1. event.edition \in Edition /\ event.revision \in Nat
      BY <1>1 DEF Event
    <2>2. event.revision <= db.revision[event.edition]
      BY DEF LInv, PublishedAfterCommit
    <2> QED
      BY <1>1, <1>3, <2>1, <2>2
  <1>15. Ledger!Execute
    <2>1. \A y \in db.receipts : y.edition = x.edition => y.revision < x.revision
      <3>1. \A y \in db.receipts : y.revision <= db.revision[y.edition]
        BY DEF LInv, ReceiptsTrail
      <3>2. x.edition \in Edition /\ db.revision[x.edition] < x.revision /\ x.revision \in Nat
        BY <1>2, <1>3, <1>4
      <3> QED
        BY <1>1, <1>6, <3>1, <3>2
    <2>2. x \in db'.receipts \ db.receipts
      BY <1>0, <1>5
    <2>3. Ledger!NoEntry(x)
      BY <1>5 DEF Ledger!NoEntry
    <2>4. Ledger!Undecided(r) /\ Ledger!AskedFor(r, x)
      BY <1>0, <1>4 DEF Ledger!Undecided, Ledger!AskedFor, Quotable, LInv, AnsweredOnce, NoAnswer
    <2> QED
      BY <1>0, <1>4, <1>7, <2>1, <2>2, <2>3, <2>4 DEF Ledger!Execute
  <1> QED
    BY <1>8, <1>9, <1>10, <1>11, <1>12, <1>13, <1>14, <1>15 DEF LInv, LedgerStep, Ledger!Next

\* The reply quotes the receipt of its own commit, and announces it.
LEMMA ReplyAnswers ==
    ASSUME IInv, LInv, NEW r \in Request, Reply(r)
    PROVE  LInv' /\ LedgerStep
  <1> DEFINE rev == snap[r].revision[ResponseEdition(r)]
  <1>0. /\ pc[r] = "committed" /\ pc' = [pc EXCEPT ![r] = "done"]
        /\ answer' = [answer EXCEPT ![r] = [outcome |-> "ok", revision |-> rev]]
        /\ answer[r] = NoAnswer
        /\ UNCHANGED <<db, snap, target, published>>
        /\ pc \in [Request -> Phase] /\ answer \in [Request -> Answer]
        /\ target[r] \in Edition
    BY Fields DEF Reply, LInv, AnsweredOnce, Resolving
  <1>1. PICK x \in db.receipts : Quotable(r, x) /\ x.revision = rev
    BY <1>0 DEF LInv, ReplyIsCommitted
  <1> HIDE DEF rev
  <1>2. OneReceiptPerKey' /\ ReceiptsTrail' /\ SnapshotsAreCommitted'
    BY <1>0, StillKeeps
  <1>3. AnsweredOnce' /\ ReplayIsChecked' /\ ReplyIsCommitted'
    BY <1>0 DEF LInv, AnsweredOnce, ReplayIsChecked, ReplyIsCommitted, RouteReceipts, ResponseEdition
  <1>4. AnswersAreReceipts'
    BY <1>0, <1>1 DEF LInv, AnswersAreReceipts, Quotable
  <1>5. PublishedAfterCommit'
    <2>1. Touched(r) \subseteq Edition
      BY <1>0, ResponseType
    <2>2. \A e \in Touched(r) : snap[r].revision[e] <= db.revision[e]
      BY <1>0, <2>1 DEF LInv, ReplyIsCommitted
    <2>3. outbox' = outbox \cup {[edition |-> e, revision |-> snap[r].revision[e]] : e \in Touched(r)}
      BY DEF Reply
    <2> QED
      BY <1>0, <2>2, <2>3 DEF LInv, PublishedAfterCommit
  <1>6. Ledger!Succeed
    <2>1. Ledger!Undecided(r) /\ Ledger!AskedFor(r, x)
      BY <1>0, <1>1 DEF Ledger!Undecided, Ledger!AskedFor, Quotable, NoAnswer
    <2>2. answer' = [answer EXCEPT ![r] = [outcome |-> "ok", revision |-> x.revision]]
      BY <1>0, <1>1
    <2> QED
      BY <1>0, <2>1, <2>2 DEF Ledger!Succeed
  <1> QED
    BY <1>2, <1>3, <1>4, <1>5, <1>6 DEF LInv, LedgerStep, Ledger!Next

\* A crash fails all that was in flight; a publication settles.
LEMMA CrashAnswers ==
    ASSUME IInv, LInv, Crash
    PROVE  LInv' /\ LedgerStep
  <1>0. /\ UNCHANGED <<db, snap, target, published>> /\ outbox' = {}
        /\ pc' = [r \in Request |-> IF r \in InFlight THEN "done" ELSE pc[r]]
        /\ answer' = [r \in Request |-> IF r \in InFlight THEN Says("lost") ELSE answer[r]]
        /\ \A r \in InFlight : r \in Request /\ answer[r] = NoAnswer
        /\ answer \in [Request -> Answer]
    BY Fields DEF Crash, InFlight, LInv, AnsweredOnce
  <1>1. OneReceiptPerKey' /\ ReceiptsTrail' /\ SnapshotsAreCommitted'
    BY <1>0, StillKeeps
  <1>2. \A r \in Request : pc'[r] \in {"new", "done"} /\ (pc'[r] # "done" => r \notin InFlight)
    BY <1>0 DEF InFlight
  <1>3. AnsweredOnce'
    BY <1>0, <1>2 DEF LInv, AnsweredOnce
  <1>4. ReplayIsChecked' /\ ReplyIsCommitted'
    BY <1>2 DEF ReplayIsChecked, ReplyIsCommitted
  <1>5. AnswersAreReceipts' /\ PublishedAfterCommit'
    BY <1>0 DEF LInv, AnswersAreReceipts, PublishedAfterCommit, Says
  <1>6. CASE InFlight = {}
    <2>1. answer' = answer
      BY <1>0, <1>6
    <2> QED
      BY <1>0, <1>1, <1>3, <1>4, <1>5, <2>1 DEF LInv, LedgerStep
  <1>7. CASE InFlight # {}
    <2>1. answer' = [r \in Request |->
                        IF r \in InFlight THEN [outcome |-> "lost", revision |-> 0] ELSE answer[r]]
      BY <1>0 DEF Says
    <2>2. InFlight \in SUBSET Request /\ \A r \in InFlight : Ledger!Undecided(r)
      BY <1>0 DEF Ledger!Undecided, NoAnswer
    <2>3. Ledger!Fail
      BY <1>0, <1>7, <2>1, <2>2 DEF Ledger!Fail
    <2> QED
      BY <1>1, <1>3, <1>4, <1>5, <2>3 DEF LInv, LedgerStep, Ledger!Next
  <1> QED
    BY <1>6, <1>7

\* Every step keeps the invariant, and is one of the ledger or hidden from it.
LEMMA LInvStep ==
    ASSUME IInv, LInv, [Next]_vars
    PROVE  LInv' /\ LedgerStep
  <1>0. IInv'
    BY IInvStep
  <1>1. ASSUME NEW r \in Request, Begin(r) PROVE LInv' /\ LedgerStep
    BY <1>1, BeginStutters
  <1>2. ASSUME NEW r \in Request, EnterRoute(r) PROVE LInv' /\ LedgerStep
    BY <1>2, EnterRouteAnswers
  <1>3. ASSUME NEW r \in Request, ReplayRoute(r) PROVE LInv' /\ LedgerStep
    BY <1>3, ReplayAnswers
  <1>4. ASSUME NEW r \in Request, EnterEdition(r) PROVE LInv' /\ LedgerStep
    BY <1>4, EnterEditionAnswers
  <1>5. ASSUME NEW r \in Request, Refuse(r) PROVE LInv' /\ LedgerStep
    BY <1>5, LeaveAnswers DEF Refuse
  <1>6. ASSUME NEW r \in Request, UpdateRevision(r) PROVE LInv' /\ LedgerStep
    <2>1. PICK e \in RowsLeft(r) : TakeRow(r, e)
      BY <1>6 DEF UpdateRevision
    <2>2. pc[r] = "update" /\ UNCHANGED <<db, snap, target, answer, outbox, published>>
      BY <1>6, <2>1 DEF UpdateRevision, TakeRow
    <2>3. PICK phase \in {"update", "commit"} : pc' = [pc EXCEPT ![r] = phase]
      BY <2>1 DEF TakeRow
    <2> QED
      BY <2>2, <2>3, AdvanceStutters
  <1>7. ASSUME NEW r \in Request, SerializationFailure(r) PROVE LInv' /\ LedgerStep
    BY <1>7, LeaveAnswers DEF SerializationFailure
  <1>8. ASSUME NEW r \in Request, DeadlockVictim(r) PROVE LInv' /\ LedgerStep
    <2>1. pc[r] = "update"
      BY <1>8, DeadlockedUpdates DEF DeadlockVictim
    <2> QED
      BY <1>8, <2>1, LeaveAnswers DEF DeadlockVictim
  <1>9. ASSUME NEW r \in Request, TransactionTimeout(r) PROVE LInv' /\ LedgerStep
    BY <1>9, LeaveAnswers DEF TransactionTimeout
  <1>10. ASSUME NEW r \in Request, ReceiptCollision(r) PROVE LInv' /\ LedgerStep
    BY <1>10, LeaveAnswers DEF ReceiptCollision
  <1>11. ASSUME NEW r \in Request, Commit(r) PROVE LInv' /\ LedgerStep
    BY <1>0, <1>11, CommitEnters
  <1>12. ASSUME NEW r \in Request, Reply(r) PROVE LInv' /\ LedgerStep
    BY <1>12, ReplyAnswers
  <1>13. CASE Crash
    BY <1>13, CrashAnswers
  <1>14. CASE Publish \/ UNCHANGED vars
    <2>1. /\ UNCHANGED <<db, snap, pc, target, answer>>
          /\ outbox' \cup published' \subseteq outbox \cup published
      BY <1>14 DEF Publish, vars
    <2> QED
      BY <2>1 DEF LInv, LedgerStep, AnsweredOnce, OneReceiptPerKey, ReceiptsTrail,
         SnapshotsAreCommitted, ReplayIsChecked, RouteReceipts, ReplyIsCommitted, ResponseEdition,
         AnswersAreReceipts, PublishedAfterCommit
  <1> QED
    BY <1>1, <1>2, <1>3, <1>4, <1>5, <1>6, <1>7, <1>8, <1>9, <1>10, <1>11, <1>12, <1>13, <1>14
    DEF Next, Step

\* Both invariants hold throughout.
LEMMA SpecLInv == Spec => [](IInv /\ LInv)
  <1>1. Init => IInv /\ LInv
    BY IInvInit, LInvInit
  <1>2. IInv /\ LInv /\ [Next]_vars => (IInv /\ LInv)'
    BY IInvStep, LInvStep
  <1> QED
    BY <1>1, <1>2, PTL DEF Spec

-----------------------------------------------------------------------------
(* Theorems                                                                *)

\* A success that was answered, first or replayed, is a receipt of the same
\* key, body and actor with that revision (receiptEnvelope, toEnvelope).
THEOREM AnswersAreReceiptsHolds == Spec => []AnswersAreReceipts
  <1>1. LInv => AnswersAreReceipts
    BY DEF LInv
  <1> QED
    BY <1>1, SpecLInv, PTL

\* No event is started, or in Redis, whose revision was not committed
\* (publishEditionRevision after the transaction).
THEOREM PublishedAfterCommitHolds == Spec => []PublishedAfterCommit
  <1>1. LInv => PublishedAfterCommit
    BY DEF LInv
  <1> QED
    BY <1>1, SpecLInv, PTL

\* execute implements the ledger: every step of a delivery is an entry, the
\* first of its route and key, an answer read off an entry, a failure, or
\* nothing a client sees.
THEOREM LedgerImplemented == Spec => ImplementsLedger
  <1>1. Init => Ledger!Init
    BY LInvInit
  <1>2. IInv /\ LInv /\ [Next]_vars => [Ledger!Next]_<<db.receipts, answer>>
    BY LInvStep DEF LedgerStep
  <1> QED
    BY <1>1, <1>2, SpecLInv, PTL DEF Spec, ImplementsLedger, Ledger!Spec
=============================================================================
