---------------------------- MODULE ActionLedger ----------------------------
(***************************************************************************)
(* What the write path promises a client, without locks, snapshots or      *)
(* retries: a ledger to which every (route, idempotency key) adds at most  *)
(* one entry, entries of an edition numbered upwards, and success answered *)
(* only with the number of an entry made for that very request.            *)
(***************************************************************************)
EXTENDS Integers

CONSTANTS Request, Job

VARIABLES
    ledger,     \* the entries made so far
    answers     \* what each delivery was told

NoEntry(x) == \A y \in ledger :
    y.key = x.key => y.route # x.route /\ y.edition # x.edition

(* The entry records exactly what the delivery asked for. *)
AskedFor(r, x) ==
    /\ x.key = Job[r].key
    /\ x.body = Job[r].body
    /\ x.actor = Job[r].actor

Undecided(r) == answers[r].outcome = "none"

Init ==
    /\ ledger = {}
    /\ answers = [r \in Request |-> [outcome |-> "none", revision |-> 0]]

(* One entry, new for its route and key, numbered above its edition's.     *)
Execute ==
    /\ \E x \in ledger' \ ledger :
          /\ NoEntry(x)
          /\ \E r \in Request : Undecided(r) /\ AskedFor(r, x) /\ x.route = Job[r].route
          /\ \A y \in ledger : y.edition = x.edition => y.revision < x.revision
          /\ ledger' = ledger \cup {x}
    /\ UNCHANGED answers

Succeed ==
    /\ \E r \in Request, x \in ledger :
          /\ Undecided(r)
          /\ AskedFor(r, x)
          /\ answers' = [answers EXCEPT ![r] = [outcome |-> "ok", revision |-> x.revision]]
    /\ UNCHANGED ledger

(* Refusals and failures carry no number; a crash fails several at once.   *)
Fail ==
    /\ \E S \in SUBSET Request, outcome \in {"refused", "conflict", "error", "exhausted", "lost"} :
          /\ S # {}
          /\ \A r \in S : Undecided(r)
          /\ answers' = [r \in Request |->
                IF r \in S THEN [outcome |-> outcome, revision |-> 0] ELSE answers[r]]
    /\ UNCHANGED ledger

Next == Execute \/ Succeed \/ Fail

Spec == Init /\ [][Next]_<<ledger, answers>>
=============================================================================
