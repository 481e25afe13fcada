--------------------------- MODULE Sessions_proofs ---------------------------
(***************************************************************************)
(* Theorems about the refresh sessions of an account, for any number of    *)
(* requests, replicas, sessions and changes of password.                   *)
(*                                                                         *)
(* Everything about rows rests on Exclusive: between its first statement   *)
(* and its commit a rotation or a revocation holds the advisory lock of    *)
(* the account, so the rows it read stay as they were, save for sessions   *)
(* that logins add.                                                        *)
(***************************************************************************)
EXTENDS Sessions, TLAPS

\* Inside the transaction that took the advisory lock.
Inside == {"locked", "found", "replaced", "rows"}

Exclusive ==
    /\ \A r \in Request : at[r] \in Inside <=> lock = r
    /\ \A r \in Request : at[r] \in {"found", "replaced"} => job[r] = "refresh"
    /\ \A r \in Request : job[r] = "refresh" => tok[r] \in Token

\* Whoever is about to be given a token was identified, and what he was
\* identified as is still so.
Identified ==
    /\ account.exists \/ account = Absent
    /\ access # {} => account.exists
    /\ \A r \in Request : job[r] \in {"login", "refresh"} => seen[r].known
    /\ \A r \in Request : seen[r].known => account.exists
    /\ \A r \in Request : seen[r].known /\ ~seen[r].pending => ~account.pending
    /\ \A r \in Request : seen[r].super => account.super
    /\ \A r \in Request : job[r] = "change" => account.exists

\* A row that was ever used is of a line whose first row was.
Lines ==
    \A t \in Token : session[t].state # "free" =>
        session[t].root \in Token /\ session[session[t].root].state # "free"

\* A revocation goes through rows that were used.
RowsUsed == \A r \in Request, t \in Token : t \in rows[r] => session[t].state # "free"

\* The row a rotation is replacing stays live until it commits.
ReplacingLive == \A r \in Request : at[r] = "replaced" => tok[r] \in Token /\ Live(tok[r])

\* Why a session of an earlier password may be live.
Excused(t) ==
    session[t].epoch < account.epoch => torn \/ session[t].late \/ \E q \in Request : Revoking(q)

\* The same with another's revocation than that of r.
ExcusedBeside(r, t) ==
    session[t].epoch < account.epoch =>
        torn \/ session[t].late \/ \E q \in Request \ {r} : Revoking(q)

\* What the rows of a revocation miss are logins since.
OnlyLoginsMissed ==
    \A r \in Request : at[r] = "rows" =>
        \A t \in Token : Live(t) /\ t \notin rows[r] =>
            session[t].from = NoToken /\ ExcusedBeside(r, t)

IInv ==
    /\ TypeOK
    /\ Exclusive
    /\ Identified /\ TokensNeverAhead
    /\ Lines /\ RowsUsed /\ ReplacingLive /\ OneLivePerLogin
    /\ OnlyLoginsMissed /\ OldSessionsLeave

-----------------------------------------------------------------------------
(* Types                                                                   *)

\* The identity a request resolves, and the session it starts, are typed.
LEMMA Typed ==
    ASSUME TypeOK
    PROVE  /\ ResolveIdentity \in Identity
           /\ Nameless \in Identity
           /\ \A id \in Identity : IssueSession(id) \in AccessToken
           /\ \A t \in Token, id \in Identity : Start(t, id) \in Session
           /\ \A t, old \in Token : Opened(old, session[old]) \in Session
  <1>1. ResolveIdentity \in Identity /\ Nameless \in Identity
    BY BoundAssumption DEF TypeOK, Account, ResolveIdentity, Identity, Nameless
  <1>2. \A id \in Identity : IssueSession(id) \in AccessToken
    BY DEF IssueSession, AccessToken, Identity
  <1>3. \A t \in Token, id \in Identity : Start(t, id) \in Session
    BY DEF Start, Opened, Session, Identity, TypeOK, Account
  <1>4. \A t, old \in Token : Opened(old, session[old]) \in Session
    BY DEF Opened, Session, TypeOK
  <1> QED
    BY <1>1, <1>2, <1>3, <1>4

\* An account that is created, by whom or for what role, is one.
LEMMA NewAccount ==
    /\ Absent \in Account
    /\ \A super, entitled \in BOOLEAN :
          [exists |-> TRUE, super |-> super, entitled |-> entitled, pending |-> TRUE, epoch |-> 0]
            \in Account
  BY BoundAssumption DEF Account, Absent

\* The initial states satisfy the invariant.
LEMMA InitInv == ASSUME Init PROVE IInv
  <1>1. \A t \in Token : session[t] = Free
    BY DEF Init
  <1>2. TypeOK
    <2>1. Free \in Session /\ Nameless \in Identity
      BY BoundAssumption DEF Session, Free, Identity, Nameless
    <2>2. session \in [Token -> Session] /\ seen \in [Request -> Identity]
      BY <2>1 DEF Init
    <2> QED
      BY <2>2, NewAccount DEF Init, TypeOK
  <1>3. Exclusive
    BY NobodyAssumption DEF Init, Exclusive, Inside
  <1>4. Identified /\ TokensNeverAhead
    BY DEF Init, Identified, TokensNeverAhead, Absent, Nameless
  <1>5. Lines /\ RowsUsed /\ ReplacingLive /\ OneLivePerLogin
    BY <1>1 DEF Init, Lines, RowsUsed, ReplacingLive, OneLivePerLogin, Live, Free
  <1>6. OnlyLoginsMissed /\ OldSessionsLeave
    BY <1>1 DEF Init, OnlyLoginsMissed, OldSessionsLeave, Live, Free
  <1> QED
    BY <1>2, <1>3, <1>4, <1>5, <1>6 DEF IInv

\* The requests as a step of one of them leaves them.
Moved(r) ==
    /\ \A q \in Request \ {r} : /\ at'[q] = at[q] /\ job'[q] = job[q] /\ tok'[q] = tok[q]
                                /\ seen'[q] = seen[q] /\ rows'[q] = rows[q]

\* A request ends: nothing of it is left, and its lock is free.
LEMMA Ended ==
    ASSUME TypeOK, NEW r \in Request, End(r)
    PROVE  /\ Moved(r)
           /\ at'[r] = "idle" /\ job'[r] = "none" /\ seen'[r] = Nameless
           /\ at' \in [Request -> {"idle", "read", "wait", "locked", "found", "replaced",
                                   "rows", "swept", "audited"}]
           /\ job' \in [Request -> {"none", "login", "refresh", "logout", "change"}]
           /\ tok' \in [Request -> Token \cup {NoToken}]
           /\ seen' \in [Request -> Identity]
           /\ rows' \in [Request -> SUBSET Token]
  BY Typed DEF End, TypeOK, Moved

-----------------------------------------------------------------------------
(* The account moves outside of /auth, or by a change of password          *)

\* Boot, promotion and the roles: an account appears pending, and loses
\* neither its existence nor its super administrator.
LEMMA AccountStep ==
    ASSUME IInv,
           \/ \E b \in Replica : BootCount(b) \/ BootCreate(b) \/ Restart(b)
           \/ Upsert \/ Promote
    PROVE  IInv'
  <1> USE DEF IInv
  <1>0. UNCHANGED <<session, lock, job, at, tok, seen, rows, access, torn>>
    BY DEF BootCount, BootCreate, Restart, Upsert, Promote, local
  <1>1. account \in Account
    BY DEF TypeOK
  <1>2. /\ account' \in Account
        /\ account'.epoch = account.epoch
        /\ account.exists => account'.exists /\ account'.pending = account.pending
        /\ account.super => account'.super
        /\ account'.exists \/ account' = Absent
    <2>1. CASE \E b \in Replica : BootCount(b) \/ Restart(b)
      BY <1>1, <2>1 DEF BootCount, Restart, Identified
    <2>2. CASE \E b \in Replica : BootCreate(b)
      <3>1. CASE account.exists
        BY <1>1, <2>2, <3>1 DEF BootCreate
      <3>2. CASE ~account.exists
        <4>1. account' = [Absent EXCEPT !.exists = TRUE, !.super = TRUE, !.pending = TRUE]
          BY <2>2, <3>2 DEF BootCreate
        <4> QED
          BY <3>2, <4>1, NewAccount DEF Identified, Absent
      <3> QED
        BY <3>1, <3>2
    <2>3. CASE Upsert
      <3>1. CASE account.exists
        <4>1. account' = [account EXCEPT !.exists = TRUE, !.entitled = ~account.entitled]
          BY <2>3, <3>1 DEF Upsert
        <4> QED
          BY <1>1, <3>1, <4>1 DEF Account
      <3>2. CASE ~account.exists
        <4>1. account' = [[Absent EXCEPT !.pending = TRUE]
                             EXCEPT !.exists = TRUE, !.entitled = ~account.entitled]
          BY <2>3, <3>2 DEF Upsert
        <4>2. account = Absent /\ ~account.entitled
          BY <3>2 DEF Identified, Absent
        <4> QED
          BY <3>2, <4>1, <4>2, NewAccount DEF Absent
      <3> QED
        BY <3>1, <3>2
    <2>4. CASE Promote
      <3>1. CASE account.exists
        <4>1. account' = [account EXCEPT !.super = TRUE]
          BY <2>4, <3>1 DEF Promote
        <4> QED
          BY <1>1, <3>1, <4>1 DEF Account
      <3>2. CASE ~account.exists
        <4>1. account' = [Absent EXCEPT !.exists = TRUE, !.super = TRUE, !.pending = TRUE]
          BY <2>4, <3>2 DEF Promote
        <4> QED
          BY <3>2, <4>1, NewAccount DEF Identified, Absent
      <3> QED
        BY <3>1, <3>2
    <2> QED
      BY <2>1, <2>2, <2>3, <2>4
  <1>3. boot' \in [Replica -> {"off", "counted", "up"}]
    BY DEF TypeOK, BootCount, BootCreate, Restart, Upsert, Promote
  <1>4. TypeOK'
    BY <1>0, <1>2, <1>3 DEF TypeOK
  <1>5. Exclusive' /\ Identified' /\ TokensNeverAhead'
    BY <1>0, <1>2 DEF Exclusive, Identified, TokensNeverAhead, Admits
  <1>6. Lines' /\ RowsUsed' /\ ReplacingLive' /\ OneLivePerLogin'
    BY <1>0 DEF Lines, RowsUsed, ReplacingLive, OneLivePerLogin, Live
  <1>7. OnlyLoginsMissed' /\ OldSessionsLeave'
    BY <1>0, <1>2 DEF OnlyLoginsMissed, OldSessionsLeave, ExcusedBeside, Live, Revoking
  <1> QED
    BY <1>4, <1>5, <1>6, <1>7

-----------------------------------------------------------------------------
(* Steps that leave the account, the sessions and the tokens alone         *)

\* A request goes on or ends, and nothing else moves: what holds of it after
\* the step is what the invariant asks of the place it has reached.
LEMMA QuietStep ==
    ASSUME IInv, TypeOK', Exclusive', NEW r \in Request, Moved(r),
           UNCHANGED <<account, session, access>>,
           torn => torn', Revoking(r) => Revoking(r)' \/ torn',
           seen'[r] \in {seen[r], Nameless, ResolveIdentity},
           job'[r] \in {"login", "refresh"} => seen'[r].known,
           job'[r] = "change" => account.exists,
           at'[r] = "replaced" => tok'[r] \in Token /\ Live(tok'[r]),
           \A t \in Token : t \in rows'[r] => session[t].state # "free",
           at'[r] = "rows" => \A t \in Token : Live(t) => t \in rows'[r]
    PROVE  IInv'
  <1> USE DEF IInv
  <1>1. Identified'
    <2>1. seen'[r].known => account.exists
      <3>1. seen[r].known => account.exists
        BY DEF Identified
      <3>2. ResolveIdentity.known => account.exists
        <4>1. ResolveIdentity.known <=> account.super \/ account.entitled
          BY DEF ResolveIdentity
        <4>2. account = Absent => ~account.super /\ ~account.entitled
          BY DEF Absent
        <4> QED
          BY <4>1, <4>2 DEF Identified
      <3> QED
        BY <3>1, <3>2 DEF Nameless
    <2>2. seen'[r].known /\ ~seen'[r].pending => ~account.pending
      BY DEF Identified, ResolveIdentity, Nameless
    <2>3. seen'[r].super => account.super
      BY DEF Identified, ResolveIdentity, Nameless
    <2> QED
      BY <2>1, <2>2, <2>3 DEF Identified, Moved
  <1>2. TokensNeverAhead'
    BY DEF TokensNeverAhead, Admits
  <1>3. Lines' /\ RowsUsed' /\ OneLivePerLogin'
    BY DEF Lines, RowsUsed, OneLivePerLogin, Live, Moved
  <1>4. ReplacingLive'
    BY DEF ReplacingLive, Live, Moved
  <1>5. \A q \in Request : Revoking(q) => Revoking(q)' \/ torn'
    BY DEF Revoking, Moved
  <1>6. torn => torn'
    OBVIOUS
  <1>7. OldSessionsLeave'
    BY <1>5, <1>6 DEF OldSessionsLeave, Live
  <1>8. OnlyLoginsMissed'
    <2> SUFFICES ASSUME NEW q \in Request, at'[q] = "rows", NEW t \in Token, Live(t),
                        t \notin rows'[q]
                 PROVE  session[t].from = NoToken /\ ExcusedBeside(q, t)'
      BY DEF OnlyLoginsMissed, Live
    <2>1. q # r
      OBVIOUS
    <2>2. session[t].from = NoToken /\ ExcusedBeside(q, t)
      BY <2>1 DEF OnlyLoginsMissed, Moved
    <2> QED
      BY <1>5, <1>6, <2>2 DEF ExcusedBeside
  <1> QED
    BY <1>1, <1>2, <1>3, <1>4, <1>7, <1>8

\* A request starts: it has read the account, or found the row of a token.
LEMMA StartStep ==
    ASSUME IInv, NEW r \in Request,
           LoginRead(r) \/ ChangeRead(r) \/ (\E t \in Token : RefreshRead(r, t) \/ LogoutFind(r, t))
    PROVE  IInv'
  <1> USE DEF IInv
  <1>1. /\ at[r] = "idle" /\ at'[r] \in {"read", "wait"}
        /\ UNCHANGED <<account, boot, session, lock, access, torn, rows>>
        /\ Moved(r)
        /\ seen'[r] \in {seen[r], ResolveIdentity}
        /\ job'[r] \in {"login", "refresh"} => seen'[r].known
        /\ job'[r] = "change" => account.exists
    <2>1. /\ at[r] = "idle" /\ at'[r] \in {"read", "wait"}
          /\ UNCHANGED <<account, boot, session, lock, access, torn, rows>>
          /\ Moved(r)
      BY DEF LoginRead, ChangeRead, RefreshRead, LogoutFind, Go, database, TypeOK, Moved
    <2>2. seen'[r] \in {seen[r], ResolveIdentity}
      BY DEF LoginRead, ChangeRead, RefreshRead, LogoutFind, TypeOK
    <2>3. job'[r] \in {"login", "refresh"} => seen'[r].known
      BY DEF LoginRead, ChangeRead, RefreshRead, LogoutFind, TypeOK
    <2>4. job'[r] = "change" => account.exists
      BY DEF LoginRead, ChangeRead, RefreshRead, LogoutFind, TypeOK, Identified
    <2> QED
      BY <2>1, <2>2, <2>3, <2>4
  <1>2. TypeOK'
    <2>1. at' \in [Request -> {"idle", "read", "wait", "locked", "found", "replaced",
                              "rows", "swept", "audited"}]
      <3>1. at' = [at EXCEPT ![r] = "read"] \/ at' = [at EXCEPT ![r] = "wait"]
        BY DEF LoginRead, ChangeRead, RefreshRead, LogoutFind, Go
      <3> QED
        BY <3>1 DEF TypeOK
    <2>2. /\ job' \in [Request -> {"none", "login", "refresh", "logout", "change"}]
          /\ tok' \in [Request -> Token \cup {NoToken}]
      BY DEF LoginRead, ChangeRead, RefreshRead, LogoutFind, TypeOK
    <2>3. seen' \in [Request -> Identity]
      BY Typed DEF LoginRead, ChangeRead, RefreshRead, LogoutFind, TypeOK
    <2> QED
      BY <1>1, <2>1, <2>2, <2>3 DEF TypeOK
  <1>3. Exclusive'
    <2>1. job'[r] = "refresh" => tok'[r] \in Token
      BY DEF LoginRead, ChangeRead, RefreshRead, LogoutFind, TypeOK
    <2> QED
      BY <1>1, <2>1 DEF Exclusive, Inside, Moved
  <1>4. ~Revoking(r)
    BY <1>1 DEF Revoking
  <1>5. \A t \in Token : t \in rows'[r] => session[t].state # "free"
    BY <1>1 DEF RowsUsed
  <1> QED
    BY <1>1, <1>2, <1>3, <1>4, <1>5, QuietStep

\* The lock is granted, the row is found and replaced, the rows are counted,
\* the revocation is audited.
LEMMA GoStep ==
    ASSUME IInv, NEW r \in Request, NEW to \in {"locked", "found", "replaced", "rows", "audited"},
           TypeOK', Exclusive',
           Go(r, to), UNCHANGED <<account, session, job, tok, seen, access, torn>>,
           \A q \in Request \ {r} : rows'[q] = rows[q],
           Revoking(r) => to \in {"locked", "rows"},
           to = "replaced" => tok[r] \in Token /\ Live(tok[r]),
           to = "rows" => \A t \in Token : t \in rows'[r] <=> Live(t),
           to # "rows" => rows'[r] = rows[r]
    PROVE  IInv'
  <1>1. Moved(r) /\ at'[r] = to
    BY DEF IInv, TypeOK, Go, Moved
  <1>2. Revoking(r) => Revoking(r)'
    BY <1>1 DEF Revoking
  <1>3. (job'[r] \in {"login", "refresh"} => seen'[r].known) /\ (job'[r] = "change" => account.exists)
    BY DEF IInv, Identified
  <1>4. \A t \in Token : t \in rows'[r] => session[t].state # "free"
    BY DEF IInv, RowsUsed, Live
  <1> QED
    BY <1>1, <1>2, <1>3, <1>4, QuietStep

\* A request ends without having done anything: refused, failed or dead.
LEMMA EndStep ==
    ASSUME IInv, NEW r \in Request, End(r), lock' = Unlocked(r),
           UNCHANGED <<account, boot, session, access>>, torn' = (torn \/ Revoking(r))
    PROVE  IInv'
  <1>1. /\ Moved(r) /\ at'[r] = "idle" /\ job'[r] = "none" /\ seen'[r] = Nameless
        /\ TypeOK' /\ rows'[r] = {}
    <2>1. Moved(r) /\ at'[r] = "idle" /\ job'[r] = "none" /\ seen'[r] = Nameless
      BY Ended DEF IInv
    <2>2. rows'[r] = {}
      BY DEF IInv, TypeOK, End
    <2>3. torn' \in BOOLEAN /\ lock' \in Request \cup {Nobody}
      BY DEF IInv, TypeOK, Unlocked
    <2>4. TypeOK'
      BY <2>3, Ended DEF IInv, TypeOK
    <2> QED
      BY <2>1, <2>2, <2>4
  <1>2. Exclusive'
    BY <1>1, NobodyAssumption DEF IInv, Exclusive, Inside, Unlocked, Moved
  <1>3. ~Revoking(r)'
    BY <1>1 DEF Revoking
  <1> QED
    BY <1>1, <1>2, <1>3, QuietStep

\* The steps of a request that write nothing but its place.
LEMMA RequestStep ==
    ASSUME IInv, NEW r \in Request,
           \/ TakeLock(r) \/ RotateFind(r) \/ RotateReplace(r) \/ RevokeRows(r) \/ ChangeAudit(r)
           \/ Fail(r)
    PROVE  IInv'
  <1> USE DEF IInv
  <1>1. CASE TakeLock(r)
    <2>1. TypeOK'
      BY <1>1 DEF TakeLock, Go, TypeOK
    <2>2. Exclusive'
      BY <1>1, NobodyAssumption DEF TakeLock, Go, TypeOK, Exclusive, Inside
    <2> QED
      BY <1>1, <2>1, <2>2, GoStep DEF TakeLock
  <1>2. CASE RotateFind(r) /\ Live(tok[r])
    <2>1. at[r] = "locked" /\ job[r] = "refresh" /\ Go(r, "found")
          /\ UNCHANGED <<database, job, tok, seen, rows, access, torn>>
      BY <1>2 DEF RotateFind
    <2>2. TypeOK' /\ Exclusive'
      BY <2>1 DEF Go, TypeOK, Exclusive, Inside, database
    <2> QED
      BY <2>1, <2>2, GoStep DEF database, Revoking
  <1>3. CASE RotateReplace(r) /\ Live(tok[r])
    <2>1. at[r] = "found" /\ job[r] = "refresh" /\ Go(r, "replaced")
          /\ UNCHANGED <<database, job, tok, seen, rows, access, torn>>
      BY <1>3 DEF RotateReplace, Exclusive
    <2>2. TypeOK' /\ Exclusive'
      BY <2>1 DEF Go, TypeOK, Exclusive, Inside, database
    <2>3. tok[r] \in Token
      BY <2>1 DEF Exclusive
    <2> QED
      BY <1>3, <2>1, <2>2, <2>3, GoStep DEF database, Revoking
  <1>4. CASE (RotateFind(r) \/ RotateReplace(r)) /\ ~Live(tok[r])
    <2>1. Refuse(r) /\ ~Revoking(r)
      BY <1>4 DEF RotateFind, RotateReplace, Revoking, Exclusive
    <2> QED
      BY <2>1, EndStep DEF Refuse, TypeOK
  <1>5. CASE RevokeRows(r)
    <2>1. /\ at[r] = "locked" /\ Go(r, "rows") /\ job[r] \in {"logout", "change"}
          /\ rows' = [rows EXCEPT ![r] = RowsToRevoke(r)]
          /\ UNCHANGED <<database, job, tok, seen, access, torn>>
      BY <1>5 DEF RevokeRows
    <2>2. TypeOK' /\ Exclusive'
      BY <2>1 DEF Go, TypeOK, Exclusive, Inside, database, RowsToRevoke
    <2>3. \A t \in Token : t \in rows'[r] <=> Live(t)
      BY <2>1 DEF TypeOK, RowsToRevoke
    <2> QED
      BY <2>1, <2>2, <2>3, GoStep DEF database, TypeOK
  <1>6. CASE ChangeAudit(r)
    <2>1. at[r] = "swept" /\ Go(r, "audited") /\ UNCHANGED <<database, job, tok, seen, rows, access, torn>>
      BY <1>6 DEF ChangeAudit
    <2>2. TypeOK' /\ Exclusive'
      BY <2>1 DEF Go, TypeOK, Exclusive, Inside, database
    <2> QED
      BY <2>1, <2>2, GoStep DEF database, Revoking
  <1>7. CASE Fail(r)
    BY <1>7, EndStep DEF Fail
  <1> QED
    BY <1>1, <1>2, <1>3, <1>4, <1>5, <1>6, <1>7

-----------------------------------------------------------------------------
(* Steps that issue a token                                                *)

\* Who was identified is given a token that claims no more than he may.
LEMMA Issued ==
    ASSUME IInv, NEW r \in Request, seen[r].known, access' = access \cup {IssueSession(seen[r])},
           End(r), UNCHANGED account
    PROVE  Identified' /\ TokensNeverAhead' /\ access' \subseteq AccessToken
  <1> USE DEF IInv
  <1>0. Moved(r) /\ at'[r] = "idle" /\ job'[r] = "none" /\ seen'[r] = Nameless
    BY Ended
  <1>1. account.exists /\ (~seen[r].pending => ~account.pending) /\ (seen[r].super => account.super)
    BY DEF Identified
  <1>2. Identified'
    BY <1>0, <1>1 DEF Identified, Moved, Nameless
  <1>3. TokensNeverAhead'
    BY <1>1 DEF TokensNeverAhead, Admits, IssueSession
  <1>4. IssueSession(seen[r]) \in AccessToken
    BY Typed DEF TypeOK
  <1> QED
    BY <1>2, <1>3, <1>4 DEF TypeOK

\* A login, or the end of a change of password, starts a session.
LEMMA InsertStep ==
    ASSUME IInv, NEW r \in Request, NEW t \in Token, Fresh(t),
           ~Revoking(r), at[r] \notin Inside,
           session' = [session EXCEPT ![t] = Start(t, seen[r])],
           access' = access \cup {IssueSession(seen[r])}, seen[r].known,
           End(r), UNCHANGED <<account, boot, lock, torn>>
    PROVE  IInv'
  <1> USE DEF IInv
  <1>0. Moved(r) /\ at'[r] = "idle" /\ job'[r] = "none" /\ seen'[r] = Nameless
    BY Ended
  <1>1. seen[r] \in Identity /\ Start(t, seen[r]) \in Session
    BY Typed DEF TypeOK
  <1>2. Identified' /\ TokensNeverAhead' /\ access' \subseteq AccessToken
    BY Issued
  <1>3. TypeOK'
    BY <1>1, <1>2, Ended DEF TypeOK
  <1>4. Exclusive'
    BY <1>0 DEF Exclusive, Inside, Moved
  <1>5. /\ session[t].state = "free" /\ session'[t].state = "live"
        /\ session'[t].root = t /\ session'[t].from = NoToken
        /\ session'[t].epoch = seen[r].epoch
        /\ session'[t].late = (seen[r].epoch # account.epoch)
        /\ \A u \in Token \ {t} : session'[u] = session[u]
    BY DEF Fresh, Start, Opened, TypeOK
  <1>6. Lines'
    <2> SUFFICES ASSUME NEW u \in Token, session'[u].state # "free"
                 PROVE  session'[u].root \in Token /\ session'[session'[u].root].state # "free"
      BY DEF Lines
    <2>1. CASE u = t
      BY <1>5, <2>1
    <2>2. CASE u # t
      <3>1. session[u].root \in Token /\ session[session[u].root].state # "free"
        BY <1>5, <2>2 DEF Lines
      <3> QED
        BY <1>5, <2>2, <3>1
    <2> QED
      BY <2>1, <2>2
  <1>7. ReplacingLive' /\ RowsUsed'
    <2>1. rows'[r] = {}
      BY DEF End, TypeOK
    <2> QED
      BY <1>0, <1>5, <2>1 DEF ReplacingLive, RowsUsed, Live, Moved
  <1>8. OneLivePerLogin'
    <2>1. \A u \in Token \ {t} : session[u].state # "free" => session[u].root # t
      BY <1>5 DEF Lines
    <2>2. \A u \in Token \ {t} : Live(u)' => Live(u) /\ session'[u].root = session[u].root
                                             /\ session[u].root # t
      BY <1>5, <2>1 DEF Live
    <2> QED
      BY <1>5, <2>2 DEF OneLivePerLogin
  <1>9. \A q \in Request : Revoking(q) <=> Revoking(q)'
    BY <1>0 DEF Revoking, Moved
  <1>10. OnlyLoginsMissed'
    <2> SUFFICES ASSUME NEW q \in Request, at'[q] = "rows", NEW u \in Token, Live(u)',
                        u \notin rows'[q]
                 PROVE  session'[u].from = NoToken /\ ExcusedBeside(q, u)'
      BY DEF OnlyLoginsMissed
    <2>1. q # r /\ at[q] = "rows" /\ rows'[q] = rows[q]
      BY <1>0 DEF Moved
    <2>2. CASE u = t
      BY <1>1, <1>5, <2>2 DEF ExcusedBeside, Identity, TypeOK, Account
    <2>3. CASE u # t
      <3>1. Live(u) /\ session'[u] = session[u]
        BY <1>5, <2>3 DEF Live
      <3>2. session[u].from = NoToken /\ ExcusedBeside(q, u)
        BY <2>1, <3>1 DEF OnlyLoginsMissed
      <3> QED
        BY <1>9, <3>1, <3>2 DEF ExcusedBeside
    <2> QED
      BY <2>2, <2>3
  <1>11. OldSessionsLeave'
    <2> SUFFICES ASSUME NEW u \in Token, Live(u)', session'[u].epoch < account.epoch
                 PROVE  torn \/ session'[u].late \/ \E q \in Request : Revoking(q)'
      BY DEF OldSessionsLeave
    <2>1. CASE u = t
      BY <1>1, <1>5, <2>1 DEF Identity, TypeOK, Account
    <2>2. CASE u # t
      BY <1>5, <1>9, <2>2 DEF OldSessionsLeave, Live
    <2> QED
      BY <2>1, <2>2
  <1> QED
    BY <1>2, <1>3, <1>4, <1>6, <1>7, <1>8, <1>10, <1>11

\* A rotation commits: the new row takes the place of the old in its line.
LEMMA RotateStep ==
    ASSUME IInv, NEW r \in Request, RotateCommit(r)
    PROVE  IInv'
  <1> USE DEF IInv
  <1>0. Moved(r) /\ at'[r] = "idle" /\ job'[r] = "none" /\ seen'[r] = Nameless
    BY Ended DEF RotateCommit
  <1> DEFINE old == tok[r]
  <1>1. PICK t \in Token : Fresh(t) /\ session' = Rotated(t, old)
    BY DEF RotateCommit
  <1>2. /\ at[r] = "replaced" /\ job[r] = "refresh" /\ seen[r].known /\ lock = r
        /\ lock' = Nobody
        /\ End(r) /\ access' = access \cup {IssueSession(seen[r])}
        /\ UNCHANGED <<account, boot, torn>>
    BY DEF RotateCommit, Exclusive, Inside, Identified, Unlocked
  <1>3. old \in Token /\ Live(old)
    BY <1>2 DEF ReplacingLive
  <1> HIDE DEF old
  <1>4. session[t].state = "free" /\ t # old
    BY <1>1, <1>3 DEF Fresh, Live
  <1>5. /\ session'[t] = Opened(old, session[old])
        /\ session'[old] = [session[old] EXCEPT !.state = "revoked"]
        /\ \A u \in Token \ {t, old} : session'[u] = session[u]
        /\ session' \in [Token -> Session]
    <2>1. [session[old] EXCEPT !.state = "revoked"] \in Session
      BY <1>3 DEF TypeOK, Session
    <2>2. Opened(old, session[old]) \in Session
      BY <1>1, <1>3, Typed
    <2> QED
      BY <1>1, <1>3, <1>4, <2>1, <2>2 DEF Rotated, TypeOK
  <1>6. /\ session'[t].state = "live" /\ session'[t].root = session[old].root
        /\ session'[t].epoch = session[old].epoch /\ session'[t].late = session[old].late
        /\ session'[old].state = "revoked" /\ session'[old].root = session[old].root
    BY <1>3, <1>5 DEF Opened, TypeOK, Session
  <1>7. Identified' /\ TokensNeverAhead' /\ access' \subseteq AccessToken
    BY <1>2, Issued
  <1>8. TypeOK'
    BY <1>2, <1>5, <1>7, Ended DEF TypeOK
  <1>9. Exclusive'
    BY <1>0, <1>2, NobodyAssumption DEF Exclusive, Inside, Moved
  <1>10. \A q \in Request : at'[q] \notin Inside
    BY <1>9, <1>2, NobodyAssumption DEF Exclusive
  <1>11. Lines'
    <2>1. \A u \in Token : session[u].state # "free" => session'[u].state # "free"
      BY <1>4, <1>5, <1>6
    <2>2. session[old].state # "free" /\ session[old].root \in Token
          /\ session[session[old].root].state # "free"
      BY <1>3 DEF Live, Lines
    <2> SUFFICES ASSUME NEW u \in Token, session'[u].state # "free"
                 PROVE  session'[u].root \in Token /\ session'[session'[u].root].state # "free"
      BY DEF Lines
    <2>3. CASE u \in {t, old}
      BY <1>6, <2>1, <2>2, <2>3
    <2>4. CASE u \notin {t, old}
      <3>1. session'[u] = session[u]
        BY <1>5, <2>4
      <3>2. session[u].root \in Token /\ session[session[u].root].state # "free"
        BY <3>1 DEF Lines
      <3> QED
        BY <2>1, <3>1, <3>2
    <2> QED
      BY <2>3, <2>4
  <1>12. OneLivePerLogin'
    <2>1. \A u \in Token : Live(u)' /\ u # t => Live(u) /\ u # old /\ session'[u].root = session[u].root
      BY <1>5, <1>6 DEF Live
    <2>2. \A u \in Token : Live(u)' /\ u # t => session[u].root # session[old].root
      BY <1>3, <2>1 DEF OneLivePerLogin
    <2> QED
      BY <1>6, <2>1, <2>2 DEF OneLivePerLogin
  <1>13. ReplacingLive' /\ OnlyLoginsMissed' /\ RowsUsed'
    <2>1. rows'[r] = {}
      BY <1>2 DEF End, TypeOK
    <2>2. RowsUsed'
      <3>1. \A u \in Token : session[u].state # "free" => session'[u].state # "free"
        BY <1>4, <1>5, <1>6
      <3> QED
        BY <1>0, <2>1, <3>1 DEF RowsUsed, Moved
    <2> QED
      BY <1>10, <2>2 DEF ReplacingLive, OnlyLoginsMissed, Inside
  <1>14. OldSessionsLeave'
    <2>1. \A q \in Request : Revoking(q) => Revoking(q)'
      BY <1>0, <1>2 DEF Revoking, Moved
    <2> SUFFICES ASSUME NEW u \in Token, Live(u)', session'[u].epoch < account.epoch
                 PROVE  torn \/ session'[u].late \/ \E q \in Request : Revoking(q)'
      BY <1>2 DEF OldSessionsLeave
    <2>2. PICK v \in Token : Live(v) /\ session'[u].epoch = session[v].epoch
                             /\ session'[u].late = session[v].late
      BY <1>3, <1>5, <1>6 DEF Live
    <2>3. torn \/ session[v].late \/ \E q \in Request : Revoking(q)
      BY <2>2 DEF OldSessionsLeave
    <2> QED
      BY <2>1, <2>2, <2>3
  <1> QED
    BY <1>7, <1>8, <1>9, <1>11, <1>12, <1>13, <1>14

-----------------------------------------------------------------------------
(* Revocation and the change of password                                   *)

\* A revocation commits: what it leaves live are logins since it began.
LEMMA RevokeStep ==
    ASSUME IInv, NEW r \in Request, RevokeCommit(r)
    PROVE  IInv' /\ \A t \in Token : Live(t)' => session'[t].from = NoToken
  <1> USE DEF IInv
  <1>1. /\ at[r] = "rows" /\ lock = r /\ lock' = Nobody
        /\ session' = [t \in Token |-> IF t \in rows[r]
                                         THEN [session[t] EXCEPT !.state = "revoked"]
                                         ELSE session[t]]
        /\ torn' = (torn /\ \E t \in Token : Live(t) /\ t \notin rows[r])
        /\ UNCHANGED <<account, boot, access>>
        /\ \/ End(r)
           \/ Go(r, "swept") /\ job[r] = "change" /\ UNCHANGED <<job, tok, seen, rows>>
    BY DEF RevokeCommit, Exclusive, Inside, Unlocked
  <1>2. \A t \in Token : /\ session'[t] \in Session
                         /\ session'[t].root = session[t].root
                         /\ session'[t].epoch = session[t].epoch
                         /\ session'[t].late = session[t].late
                         /\ session'[t].from = session[t].from
                         /\ session[t].state # "free" => session'[t].state # "free"
                         /\ session'[t].state # "free" => t \in rows[r] \/ session[t].state # "free"
                         /\ Live(t)' => Live(t) /\ t \notin rows[r]
    BY <1>1 DEF TypeOK, Session, Live
  <1>3. \A t \in Token : Live(t)' => session'[t].from = NoToken /\ ExcusedBeside(r, t)
    BY <1>1, <1>2 DEF OnlyLoginsMissed
  <1>4. /\ Moved(r) /\ at'[r] \in {"idle", "swept"} /\ job'[r] \in {"none", "change"}
        /\ seen'[r] \in {seen[r], Nameless} /\ (job'[r] = "change" => job[r] = "change")
    BY <1>1, Ended DEF Go, TypeOK, Moved
  <1>5. TypeOK'
    <2>1. session' \in [Token -> Session]
      BY <1>1, <1>2
    <2>2. at' \in [Request -> {"idle", "read", "wait", "locked", "found", "replaced",
                              "rows", "swept", "audited"}]
      BY <1>1, Ended DEF Go, TypeOK
    <2>3. /\ job' \in [Request -> {"none", "login", "refresh", "logout", "change"}]
          /\ tok' \in [Request -> Token \cup {NoToken}]
          /\ seen' \in [Request -> Identity]
          /\ rows' \in [Request -> SUBSET Token]
      BY <1>1, Ended DEF TypeOK
    <2> QED
      BY <1>1, <2>1, <2>2, <2>3 DEF TypeOK
  <1>6. Exclusive'
    BY <1>1, <1>4, NobodyAssumption DEF Exclusive, Inside, Moved
  <1>7. Identified' /\ TokensNeverAhead'
    BY <1>1, <1>4 DEF Identified, TokensNeverAhead, Admits, Moved, Nameless
  <1>8. \A q \in Request : at'[q] \notin Inside
    BY <1>1, <1>6, NobodyAssumption DEF Exclusive
  <1>9. ReplacingLive' /\ OnlyLoginsMissed'
    BY <1>8 DEF ReplacingLive, OnlyLoginsMissed, Inside
  <1>10. OneLivePerLogin'
    BY <1>2 DEF OneLivePerLogin
  <1>11. OldSessionsLeave'
    <2> SUFFICES ASSUME NEW t \in Token, Live(t)', session'[t].epoch < account.epoch
                 PROVE  torn' \/ session'[t].late \/ \E q \in Request : Revoking(q)'
      BY <1>1 DEF OldSessionsLeave
    <2>1. torn \/ session[t].late \/ \E q \in Request \ {r} : Revoking(q)
      BY <1>2, <1>3 DEF ExcusedBeside
    <2>2. torn => torn'
      BY <1>1, <1>2
    <2>3. \A q \in Request \ {r} : Revoking(q) => Revoking(q)'
      BY <1>4 DEF Moved, Revoking
    <2> QED
      BY <1>2, <2>1, <2>2, <2>3
  <1>12. Lines' /\ RowsUsed'
    <2>1. rows'[r] \in {rows[r], {}}
      BY <1>1 DEF End, TypeOK
    <2> QED
      BY <1>2, <1>4, <2>1 DEF Lines, RowsUsed, Moved
  <1> QED
    BY <1>3, <1>5, <1>6, <1>7, <1>9, <1>10, <1>11, <1>12

\* The new password: whoever changed it is revoking.
LEMMA ChangeStep ==
    ASSUME IInv, NEW r \in Request, ChangeUpdate(r)
    PROVE  IInv'
  <1> USE DEF IInv
  <1>1. /\ job[r] = "change" /\ at[r] = "read" /\ account.exists
        /\ account.epoch < MaxChanges
        /\ account' = [account EXCEPT !.pending = FALSE, !.epoch = account.epoch + 1]
        /\ seen' = [seen EXCEPT ![r].pending = FALSE, ![r].epoch = account.epoch + 1]
        /\ at' = [at EXCEPT ![r] = "wait"]
        /\ UNCHANGED <<boot, session, lock, job, tok, rows, access, torn>>
    BY DEF ChangeUpdate, Go, Identified
  <1>2. /\ account' \in Account /\ account'.exists /\ ~account'.pending
        /\ account'.super = account.super /\ account'.epoch = account.epoch + 1
    <2>1. account \in Account /\ account.epoch + 1 \in 0..MaxChanges
      BY <1>1, BoundAssumption DEF TypeOK, Account
    <2>2. DOMAIN account = {"exists", "super", "entitled", "pending", "epoch"}
      BY <2>1 DEF Account
    <2> QED
      BY <1>1, <2>1, <2>2 DEF Account
  <1>3. seen'[r] \in Identity /\ seen'[r].known = seen[r].known /\ seen'[r].super = seen[r].super
        /\ \A q \in Request \ {r} : seen'[q] = seen[q] /\ at'[q] = at[q]
    <2>1. account.epoch + 1 \in 0..MaxChanges /\ seen[r] \in Identity
      BY <1>1, BoundAssumption DEF TypeOK, Account
    <2>2. seen'[r] = [seen[r] EXCEPT !.pending = FALSE, !.epoch = account.epoch + 1]
          /\ \A q \in Request \ {r} : seen'[q] = seen[q]
      BY <1>1 DEF TypeOK
    <2>3. \A q \in Request \ {r} : at'[q] = at[q]
      BY <1>1 DEF TypeOK
    <2> QED
      BY <2>1, <2>2, <2>3 DEF Identity
  <1>4. seen' \in [Request -> Identity]
    BY <1>1, <1>3 DEF TypeOK
  <1>5. TypeOK'
    BY <1>1, <1>2, <1>4 DEF TypeOK
  <1>6. Exclusive' /\ at'[r] = "wait"
    BY <1>1 DEF Exclusive, Inside, TypeOK
  <1>7. Identified' /\ TokensNeverAhead'
    BY <1>1, <1>2, <1>3 DEF Identified, TokensNeverAhead, Admits
  <1>8. Revoking(r)'
    BY <1>1, <1>6 DEF Revoking
  <1>9. Lines' /\ RowsUsed' /\ ReplacingLive' /\ OneLivePerLogin' /\ OldSessionsLeave'
    BY <1>1, <1>3, <1>6, <1>8 DEF Lines, RowsUsed, ReplacingLive, OneLivePerLogin, OldSessionsLeave, Live
  <1>10. OnlyLoginsMissed'
    <2>1. \A q \in Request : at'[q] = "rows" => q # r /\ at[q] = "rows"
      BY <1>3, <1>6
    <2> QED
      BY <1>1, <1>8, <2>1 DEF OnlyLoginsMissed, ExcusedBeside, Live
  <1> QED
    BY <1>5, <1>6, <1>7, <1>9, <1>10

\* Without an identity the change ends without a session.
LEMMA ChangeEndStep ==
    ASSUME IInv, NEW r \in Request, ChangeCreate(r)
    PROVE  IInv'
  <1> USE DEF IInv
  <1>1. at[r] = "audited" /\ ~Revoking(r) /\ at[r] \notin Inside /\ lock # r
        /\ End(r) /\ UNCHANGED <<account, boot, lock, torn>>
    BY DEF ChangeCreate, Revoking, Inside, Exclusive
  <1>2. CASE seen[r].known
    BY <1>1, <1>2, InsertStep DEF ChangeCreate
  <1>3. CASE ~seen[r].known
    BY <1>1, <1>3, EndStep DEF ChangeCreate, Unlocked, TypeOK
  <1> QED
    BY <1>2, <1>3

-----------------------------------------------------------------------------
\* Every step preserves the invariant.
LEMMA NextStep == ASSUME IInv, [Next]_vars PROVE IInv'
  <1>1. CASE UNCHANGED vars
    BY <1>1 DEF IInv, TypeOK, Exclusive, Identified, TokensNeverAhead, Lines, RowsUsed, ReplacingLive,
       OneLivePerLogin, OnlyLoginsMissed, OldSessionsLeave, ExcusedBeside, Revoking, Live, Admits,
       vars, database, local
  <1>2. CASE \/ \E b \in Replica : BootCount(b) \/ BootCreate(b) \/ Restart(b)
             \/ Upsert \/ Promote
    BY <1>2, AccountStep
  <1>3. ASSUME NEW r \in Request,
               \/ LoginRead(r) \/ ChangeRead(r)
               \/ \E t \in Token : RefreshRead(r, t) \/ LogoutFind(r, t)
        PROVE  IInv'
    BY <1>3, StartStep
  <1>4. ASSUME NEW r \in Request, LoginCreate(r) PROVE IInv'
    <2>1. /\ ~Revoking(r) /\ at[r] \notin Inside /\ seen[r].known
          /\ End(r) /\ UNCHANGED <<account, boot, lock, torn>>
          /\ access' = access \cup {IssueSession(seen[r])}
      BY <1>4 DEF LoginCreate, Revoking, Inside, IInv, Identified
    <2> QED
      BY <1>4, <2>1, InsertStep DEF LoginCreate
  <1>5. ASSUME NEW r \in Request,
               \/ TakeLock(r) \/ RotateFind(r) \/ RotateReplace(r) \/ RevokeRows(r) \/ ChangeAudit(r)
               \/ Fail(r)
        PROVE  IInv'
    BY <1>5, RequestStep
  <1>6. ASSUME NEW r \in Request, RotateCommit(r) PROVE IInv'
    BY <1>6, RotateStep
  <1>7. ASSUME NEW r \in Request, RevokeCommit(r) PROVE IInv'
    BY <1>7, RevokeStep
  <1>8. ASSUME NEW r \in Request, ChangeUpdate(r) PROVE IInv'
    BY <1>8, ChangeStep
  <1>9. ASSUME NEW r \in Request, ChangeCreate(r) PROVE IInv'
    BY <1>9, ChangeEndStep
  <1> QED
    BY <1>1, <1>2, <1>3, <1>4, <1>5, <1>6, <1>7, <1>8, <1>9 DEF Next, Step

\* The invariant holds throughout.
LEMMA SpecInv == Spec => []IInv
  <1> QED
    BY InitInv, NextStep, PTL DEF Spec

-----------------------------------------------------------------------------
(* Theorems                                                                *)

\* Every state is of its type.
THEOREM TypeCorrect == Spec => []TypeOK
  <1>1. IInv => TypeOK
    BY DEF IInv
  <1> QED
    BY <1>1, SpecInv, PTL

\* However many refreshes of one token overlap, fail and are sent again, a login
\* has one live session at most (RefreshSessionsService.rotate).
THEOREM OneLivePerLoginHolds == Spec => []OneLivePerLogin
  <1>1. IInv => OneLivePerLogin
    BY DEF IInv
  <1> QED
    BY <1>1, SpecInv, PTL

\* A revocation of all sessions leaves no rotated one live, whatever rotations
\* overlap it (revokeAllForStaff, lockStaffSessions).
THEOREM RevocationIsFinalHolds == Spec => RevocationIsFinal
  <1>1. IInv /\ [Next]_vars =>
          [\A r \in Request :
             RevokeCommit(r) => \A t \in Token : Live(t)' => session'[t].from = NoToken]_vars
    BY RevokeStep
  <1> QED
    BY <1>1, SpecInv, PTL DEF Spec, RevocationIsFinal

\* A session of an earlier password is live only for the reasons the change of
\* password leaves open (changePassword, login).
THEOREM OldSessionsLeaveHolds == Spec => []OldSessionsLeave
  <1>1. IInv => OldSessionsLeave
    BY DEF IInv
  <1> QED
    BY <1>1, SpecInv, PTL

\* No access token claims more than its account may do (issueSession).
THEOREM TokensNeverAheadHolds == Spec => []TokensNeverAhead
  <1>1. IInv => TokensNeverAhead
    BY DEF IInv
  <1> QED
    BY <1>1, SpecInv, PTL
=============================================================================
