--------------------------- MODULE ActionPipeline ---------------------------
(***************************************************************************)
(* The canonical write path POST /editions/:id/actions, as                 *)
(* EditionActionsService.execute runs it: one SERIALIZABLE transaction per *)
(* attempt, two advisory locks, an idempotency receipt, one revision bump  *)
(* per affected edition, and a publication that leaves the transaction.    *)
(*                                                                         *)
(* PostgreSQL is external.  What execute relies on is modelled: a          *)
(* SERIALIZABLE transaction reads the database as it was at its FIRST      *)
(* statement, and that statement is the SELECT that waits for the advisory *)
(* lock, so a request that waits works on a snapshot taken before the wait;*)
(* a row that changed after the snapshot cannot be updated; row locks and  *)
(* advisory locks are held until the transaction ends.                     *)
(***************************************************************************)
EXTENDS Integers

CONSTANTS
    Edition,        \* edition ids: numbers, so that they have the sort order of the code
    Key, Body, Actor,
    Request,        \* deliveries of a request; a resent request is another delivery
    Job,            \* what each delivery asks for
    Active,         \* the route alias "active"
    None,
    Latest,         \* the edition of the latest start date
    MaxAttempts,    \* MAX_SERIALIZABLE_RETRIES
    MaxCrashes      \* bound on the crashes of the API process

Route == Edition \cup {Active}

JobType == [key: Key, body: Body, actor: Actor, route: Route,
            everywhere: BOOLEAN,                  \* touches every edition
            activates: Edition \cup {None}]       \* the edition it makes active

ASSUME EditionAssumption == Edition \subseteq Nat /\ Active \notin Edition /\ None \notin Edition
ASSUME LatestAssumption == Latest \in Edition
ASSUME JobAssumption ==
    /\ Job \in [Request -> JobType]
    /\ \A r \in Request : Job[r].activates # None => Job[r].everywhere
ASSUME BoundAssumption == MaxAttempts \in Nat \ {0} /\ MaxCrashes \in Nat

VARIABLES
    db,         \* the committed database
    snap,       \* the snapshot each transaction reads
    pc,         \* where each delivery is in execute
    attempt,    \* attempts begun
    target,     \* the edition the attempt resolved
    held,       \* advisory and row locks of the open transaction
    answer,     \* what the client was told
    outbox,     \* publications started and not yet settled
    published,  \* events that reached Redis
    crashes

vars == <<db, snap, pc, attempt, target, held, answer, outbox, published, crashes>>

Receipt == [edition: Edition, key: Key, route: Route, body: Body, actor: Actor, revision: Nat]
Applied == [request: Request, edition: Edition, touched: SUBSET Edition]
Event == [edition: Edition, revision: Nat]
Database == [revision: [Edition -> Nat], active: Edition \cup {None},
             receipts: SUBSET Receipt, applied: SUBSET Applied]
Lock == ({"request"} \X Route) \cup ({"edition", "row"} \X Edition)
Phase == {"new", "begin", "route", "edition", "replay", "update", "commit", "committed", "done"}
Outcome == {"none", "ok", "refused", "conflict", "error", "exhausted", "lost"}
Answer == [outcome: Outcome, revision: Nat]
NoAnswer == [outcome |-> "none", revision |-> 0]
Says(outcome) == [outcome |-> outcome, revision |-> 0]

TypeOK ==
    /\ db \in Database
    /\ snap \in [Request -> Database]
    /\ pc \in [Request -> Phase]
    /\ attempt \in [Request -> 0..MaxAttempts]
    /\ target \in [Request -> Edition \cup {None}]
    /\ held \in [Request -> SUBSET Lock]
    /\ answer \in [Request -> Answer]
    /\ outbox \subseteq Event
    /\ published \subseteq Event
    /\ crashes \in 0..MaxCrashes

Init ==
    /\ db \in [revision: {[e \in Edition |-> 0]}, active: Edition \cup {None},
               receipts: {{}}, applied: {{}}]
    /\ snap = [r \in Request |-> db]
    /\ pc = [r \in Request |-> "new"]
    /\ attempt = [r \in Request |-> 0]
    /\ target = [r \in Request |-> None]
    /\ held = [r \in Request |-> {}]
    /\ answer = [r \in Request |-> NoAnswer]
    /\ outbox = {}
    /\ published = {}
    /\ crashes = 0

Free(lock) == \A s \in Request : lock \notin held[s]

(* The response belongs to the edition the action activated, otherwise to  *)
(* the edition it ran in; the response edition is always affected.         *)
ResponseEdition(r) == IF Job[r].activates # None THEN Job[r].activates ELSE target[r]
Touched(r) == IF Job[r].everywhere THEN Edition ELSE {ResponseEdition(r)}
RowsHeld(r) == {e \in Edition : <<"row", e>> \in held[r]}
RowsLeft(r) == Touched(r) \ RowsHeld(r)

(* The order in which the edition rows are locked: the handler of an       *)
(* activation first retires the active edition, then activates its own;    *)
(* the revisions follow in sorted order.                                   *)
Retired(r) == IF Job[r].activates = None THEN {} ELSE {snap[r].active} \ {None, Job[r].activates}
NextRow(r, e) ==
    /\ e \in RowsLeft(r)
    /\ IF Retired(r) \cap RowsLeft(r) # {} THEN e \in Retired(r)
       ELSE IF Job[r].activates \in RowsLeft(r) THEN e = Job[r].activates
       ELSE \A f \in RowsLeft(r) : e <= f

(* The end of a transaction: every lock goes, and the delivery moves on.   *)
Leave(r, phase, ans) ==
    /\ pc' = [pc EXCEPT ![r] = phase]
    /\ held' = [held EXCEPT ![r] = {}]
    /\ answer' = [answer EXCEPT ![r] = ans]

(* An attempt opens its transaction: its first statement is the request    *)
(* lock, and that statement takes the snapshot before it waits.            *)
Begin(r) ==
    /\ pc[r] \in {"new", "begin"}
    /\ snap' = [snap EXCEPT ![r] = db]
    /\ attempt' = [attempt EXCEPT ![r] = @ + 1]
    /\ pc' = [pc EXCEPT ![r] = "route"]
    /\ UNCHANGED <<db, target, held, answer, outbox, published, crashes>>

(* Mutant: the receipt is sought under the resolved edition only.          *)
RouteReceiptsIgnored(r) == {}

(* The receipts the snapshot shows for this route and key (routeReceipt).  *)
RouteReceipts(r) == {x \in snap[r].receipts : x.key = Job[r].key /\ x.route = Job[r].route}

(* resolveEditionForAction: an id is itself, the alias is the active       *)
(* edition, and an action that is global falls back to the latest edition. *)
Resolved(r) ==
    IF Job[r].route # Active THEN Job[r].route
    ELSE IF snap[r].active # None THEN snap[r].active
    ELSE IF Job[r].everywhere THEN Latest ELSE None

(* The request lock is granted and the route receipt is looked up.         *)
EnterRoute(r) ==
    /\ pc[r] = "route"
    /\ Free(<<"request", Job[r].route>>)
    /\ IF RouteReceipts(r) # {}
       THEN \E x \in RouteReceipts(r) :
              IF x.body # Job[r].body
              THEN /\ Leave(r, "done", Says("conflict"))
                   /\ UNCHANGED target
              ELSE /\ pc' = [pc EXCEPT ![r] = "replay"]
                   /\ target' = [target EXCEPT ![r] = x.edition]
                   /\ held' = [held EXCEPT ![r] = {<<"request", Job[r].route>>}]
                   /\ UNCHANGED answer
       ELSE IF Resolved(r) = None
            THEN /\ Leave(r, "done", Says("refused"))
                 /\ UNCHANGED target
            ELSE /\ pc' = [pc EXCEPT ![r] = "edition"]
                 /\ target' = [target EXCEPT ![r] = Resolved(r)]
                 /\ held' = [held EXCEPT ![r] = {<<"request", Job[r].route>>}]
                 /\ UNCHANGED answer
    /\ UNCHANGED <<db, snap, attempt, outbox, published, crashes>>

(* Mutant: any actor may replay the receipt.                               *)
FromReceiptOfAnyone(r, x) == [outcome |-> "ok", revision |-> x.revision]
(* Mutant: a replay carries the revision of today, not the recorded one.   *)
FromCurrentRevision(r, x) ==
    IF x.actor # Job[r].actor THEN Says("refused")
    ELSE [outcome |-> "ok", revision |-> snap[r].revision[x.edition]]

(* A receipt answers its own actor with the revision it recorded, and      *)
(* nobody else (receiptEnvelope).                                          *)
FromReceipt(r, x) ==
    IF x.actor # Job[r].actor THEN Says("refused")
    ELSE [outcome |-> "ok", revision |-> x.revision]

(* A route receipt was found: the edition lock, then the recorded answer.  *)
ReplayRoute(r) ==
    /\ pc[r] = "replay"
    /\ Free(<<"edition", target[r]>>)
    /\ \E x \in RouteReceipts(r) :
          /\ x.edition = target[r]
          /\ Leave(r, "done", FromReceipt(r, x))
    /\ UNCHANGED <<db, snap, attempt, target, outbox, published, crashes>>

(* The receipt of (edition, key), the unique index of the receipts table.  *)
EditionReceipts(r) == {x \in snap[r].receipts : x.key = Job[r].key /\ x.edition = target[r]}

(* The edition lock is granted: an existing receipt answers, otherwise the *)
(* handler runs on the snapshot and its writes wait for the commit.        *)
EnterEdition(r) ==
    /\ pc[r] = "edition"
    /\ Free(<<"edition", target[r]>>)
    /\ IF EditionReceipts(r) # {}
       THEN \E x \in EditionReceipts(r) :
              Leave(r, "done",
                    IF x.body # Job[r].body THEN Says("conflict") ELSE FromReceipt(r, x))
       ELSE /\ pc' = [pc EXCEPT ![r] = "update"]
            /\ held' = [held EXCEPT ![r] = @ \cup {<<"edition", target[r]>>}]
            /\ UNCHANGED answer
    /\ UNCHANGED <<db, snap, attempt, target, outbox, published, crashes>>

(* authorize, the handler or the check of the discipline scope refuses.    *)
Refuse(r) ==
    /\ pc[r] \in {"edition", "replay"}
    /\ Free(<<"edition", target[r]>>)
    /\ Leave(r, "done", Says("refused"))
    /\ UNCHANGED <<db, snap, attempt, target, outbox, published, crashes>>

TakeRow(r, e) ==
    /\ held' = [held EXCEPT ![r] = @ \cup {<<"row", e>>}]
    /\ pc' = [pc EXCEPT ![r] = IF RowsLeft(r) = {e} THEN "commit" ELSE "update"]
    /\ UNCHANGED <<db, snap, attempt, target, answer, published, crashes>>

(* Mutant: READ COMMITTED, an update takes the row as it is now.           *)
UpdateReadCommitted(r) ==
    /\ pc[r] = "update"
    /\ \E e \in RowsLeft(r) : Free(<<"row", e>>) /\ TakeRow(r, e)
    /\ UNCHANGED outbox
(* Mutant: the event is published inside the transaction.                  *)
UpdateAndPublish(r) ==
    /\ pc[r] = "update"
    /\ \E e \in RowsLeft(r) :
          /\ Free(<<"row", e>>)
          /\ db.revision[e] = snap[r].revision[e]
          /\ TakeRow(r, e)
          /\ outbox' = outbox \cup {[edition |-> e, revision |-> db.revision[e] + 1]}

(* The edition rows are updated one by one, revision + 1 on each: the next *)
(* row, once nobody else has it, provided it is as the snapshot shows it.  *)
UpdateRevision(r) ==
    /\ pc[r] = "update"
    /\ \E e \in RowsLeft(r) :
          /\ NextRow(r, e)
          /\ Free(<<"row", e>>)
          /\ db.revision[e] = snap[r].revision[e]
          /\ TakeRow(r, e)
    /\ UNCHANGED outbox

(* Mutant: session-level advisory locks, which outlive the transaction.    *)
FailureKeepsLocks(r) ==
    /\ pc[r] \in {"edition", "replay", "update", "commit"}
    /\ db.applied # snap[r].applied
    /\ attempt[r] < MaxAttempts
    /\ pc' = [pc EXCEPT ![r] = "begin"]
    /\ UNCHANGED <<db, snap, attempt, target, held, answer, outbox, published, crashes>>

(* P2034: PostgreSQL ends the transaction because another one committed    *)
(* after its snapshot (a changed row, or a dangerous read-write cycle).    *)
SerializationFailure(r) ==
    /\ pc[r] \in {"edition", "replay", "update", "commit"}
    /\ db.applied # snap[r].applied
    /\ IF attempt[r] < MaxAttempts
       THEN Leave(r, "begin", NoAnswer)
       ELSE Leave(r, "done", Says("exhausted"))
    /\ UNCHANGED <<db, snap, attempt, target, outbox, published, crashes>>

(* A set of deliveries that wait for rows of one another: an activation    *)
(* and another global action may take the same two rows in opposite order. *)
WaitsFor(r, s) ==
    /\ pc[r] = "update"
    /\ \E e \in RowsLeft(r) : NextRow(r, e) /\ <<"row", e>> \in held[s]
Deadlocked(r) ==
    \E S \in SUBSET Request :
        r \in S /\ \A s \in S : \E t \in S \ {s} : WaitsFor(s, t)

(* PostgreSQL breaks the cycle at one of them; whether the client maps the *)
(* error to P2034, which is retried, is its own affair.                    *)
DeadlockVictim(r) ==
    /\ Deadlocked(r)
    /\ \/ Leave(r, "done", Says("error"))
       \/ attempt[r] < MaxAttempts /\ Leave(r, "begin", NoAnswer)
       \/ attempt[r] = MaxAttempts /\ Leave(r, "done", Says("exhausted"))
    /\ UNCHANGED <<db, snap, attempt, target, outbox, published, crashes>>

(* The transaction outlives its timeout, or its connection: no retry.      *)
TransactionTimeout(r) ==
    /\ pc[r] \in {"route", "edition", "replay", "update", "commit"}
    /\ Leave(r, "done", Says("error"))
    /\ UNCHANGED <<db, snap, attempt, target, outbox, published, crashes>>

ReceiptTaken(r) ==
    \E x \in db.receipts : x.edition = ResponseEdition(r) /\ x.key = Job[r].key

(* P2002: another request already left a receipt with this key under the   *)
(* response edition.                                                       *)
ReceiptCollision(r) ==
    /\ pc[r] = "commit"
    /\ ReceiptTaken(r)
    /\ Leave(r, "done", Says("conflict"))
    /\ UNCHANGED <<db, snap, attempt, target, outbox, published, crashes>>

NewRevision(r) == [e \in Edition |-> IF e \in Touched(r) THEN db.revision[e] + 1 ELSE db.revision[e]]
NewReceipt(r) ==
    [edition |-> ResponseEdition(r), key |-> Job[r].key, route |-> Job[r].route,
     body |-> Job[r].body, actor |-> Job[r].actor,
     revision |-> NewRevision(r)[ResponseEdition(r)]]

(* The mutation, its audit row, the revisions and the receipt commit       *)
(* together.                                                               *)
Commit(r) ==
    /\ pc[r] = "commit"
    /\ ~ReceiptTaken(r)
    /\ db' = [revision |-> NewRevision(r),
              active |-> IF Job[r].activates # None THEN Job[r].activates ELSE db.active,
              receipts |-> db.receipts \cup {NewReceipt(r)},
              applied |-> db.applied \cup
                  {[request |-> r, edition |-> ResponseEdition(r), touched |-> Touched(r)]}]
    /\ snap' = [snap EXCEPT ![r] = db']
    /\ Leave(r, "committed", answer[r])
    /\ UNCHANGED <<attempt, target, outbox, published, crashes>>

(* Back from $transaction: the publications start, unawaited, and the      *)
(* envelope built inside the transaction is the answer.                    *)
Reply(r) ==
    /\ pc[r] = "committed"
    /\ outbox' = outbox \cup {[edition |-> e, revision |-> snap[r].revision[e]] : e \in Touched(r)}
    /\ pc' = [pc EXCEPT ![r] = "done"]
    /\ answer' = [answer EXCEPT ![r] =
          [outcome |-> "ok", revision |-> snap[r].revision[ResponseEdition(r)]]]
    /\ UNCHANGED <<db, snap, attempt, target, held, published, crashes>>

(* A publication settles: Redis has the event, or a warning is logged.     *)
Publish ==
    \E event \in outbox :
        /\ outbox' = outbox \ {event}
        /\ published' \in {published, published \cup {event}}
        /\ UNCHANGED <<db, snap, pc, attempt, target, held, answer, crashes>>

InFlight == {r \in Request : pc[r] \notin {"new", "done"}}

(* The API process dies: open transactions roll back, answers and started  *)
(* publications are lost, the database and Redis stay.                     *)
Crash ==
    /\ crashes < MaxCrashes
    /\ crashes' = crashes + 1
    /\ pc' = [r \in Request |-> IF r \in InFlight THEN "done" ELSE pc[r]]
    /\ answer' = [r \in Request |-> IF r \in InFlight THEN Says("lost") ELSE answer[r]]
    /\ held' = [r \in Request |-> {}]
    /\ outbox' = {}
    /\ UNCHANGED <<db, snap, attempt, target, published>>

Step(r) ==
    \/ Begin(r) \/ EnterRoute(r) \/ ReplayRoute(r) \/ EnterEdition(r) \/ Refuse(r)
    \/ UpdateRevision(r) \/ SerializationFailure(r) \/ DeadlockVictim(r)
    \/ TransactionTimeout(r) \/ ReceiptCollision(r) \/ Commit(r) \/ Reply(r)

Next == (\E r \in Request : Step(r)) \/ Publish \/ Crash

Spec == Init /\ [][Next]_vars

(* A delivery that has arrived keeps being served: the event loop and the  *)
(* database run every ready statement, and a lock is handed over once it   *)
(* is free.  Arrival itself, refusals, timeouts and crashes are not owed.  *)
Progress(r) ==
    \/ (pc[r] = "begin" /\ Begin(r)) \/ EnterRoute(r) \/ ReplayRoute(r) \/ EnterEdition(r)
    \/ UpdateRevision(r) \/ SerializationFailure(r) \/ DeadlockVictim(r)
    \/ ReceiptCollision(r) \/ Commit(r) \/ Reply(r)

FairSpec == Spec /\ \A r \in Request : WF_vars(Progress(r))
-----------------------------------------------------------------------------
(* PROPERTIES *)

JobOf(a) == Job[a.request]

(* At most one mutation per route and Idempotency-Key, whatever deliveries *)
(* of it overlap, crash or retry, and though the alias "active" may change *)
(* its edition between them (routeReceipt and existingReceipt of execute). *)
ExactlyOnce ==
    \A a, b \in db.applied :
        JobOf(a).key = JobOf(b).key /\ JobOf(a).route = JobOf(b).route => a = b

(* A transaction about to commit works on rows nobody changed since its    *)
(* snapshot, although the snapshot was taken before it waited for the      *)
(* locks: no revision, and nothing a revision stands for, is lost.         *)
NoStaleCommit ==
    \A r \in Request : pc[r] = "commit" =>
        /\ \A e \in Touched(r) : snap[r].revision[e] = db.revision[e]
        /\ snap[r].active = db.active

(* A success answered, first or replayed, is a receipt in the database for *)
(* the same key, body and actor, with that revision.                       *)
AnswersAreReceipts ==
    \A r \in Request : answer[r].outcome = "ok" =>
        \E x \in db.receipts :
            /\ x.key = Job[r].key /\ x.body = Job[r].body /\ x.actor = Job[r].actor
            /\ x.revision = answer[r].revision

(* Nothing is announced, nor about to be, that was not committed.          *)
PublishedAfterCommit ==
    \A event \in outbox \cup published : event.revision <= db.revision[event.edition]

(* Request locks, edition locks and rows keep nobody waiting for ever:     *)
(* every delivery that arrived is answered.                                *)
EveryRequestAnswered == \A r \in Request : pc[r] # "new" ~> pc[r] = "done"

(* The write path implements the ledger of ActionLedger.                   *)
Ledger == INSTANCE ActionLedger WITH ledger <- db.receipts, answers <- answer
ImplementsLedger == Ledger!Spec
=============================================================================
