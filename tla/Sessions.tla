------------------------------ MODULE Sessions ------------------------------
(***************************************************************************)
(* One account and its refresh sessions: the bootstrap of the first super  *)
(* administrator, invitation and promotion, login, refresh, logout and     *)
(* change of password, as AuthService, RefreshSessionsService and          *)
(* SuperAdminBootstrapService run them.  Requests interleave at every      *)
(* statement that reaches the database and may die at each of them.        *)
(*                                                                         *)
(* A password is the number of times it was changed (epoch): a login with  *)
(* the wrong one has no effect.  A token that expired is one nobody        *)
(* presents.  The unique index on rotatedFromId is a second net that is    *)
(* left out: what holds here holds by the code.                            *)
(***************************************************************************)
EXTENDS Integers, FiniteSets

CONSTANTS
    Request,        \* requests to /auth in flight at once
    Replica,        \* replicas of the API that boot
    Nobody,         \* holder of a free advisory lock
    MaxSessions,    \* bound on the refresh sessions ever created
    MaxChanges      \* bound on the changes of password

ASSUME NobodyAssumption == Nobody \notin Request
ASSUME BoundAssumption == MaxSessions \in Nat /\ MaxChanges \in Nat

Token == 1..MaxSessions
NoToken == 0

VARIABLES
    account,    \* the row of staff, with its active roles as one flag
    boot,       \* what each replica knows of the first account
    session,    \* the rows of refresh_sessions, by token
    access,     \* the access tokens ever answered
    lock,       \* holder of pg_advisory_xact_lock('refresh-sessions:<staff>')
    job, at,    \* each request: which route, and how far
    tok, seen,  \* the refresh token it presented, the identity it resolved
    rows,       \* the rows its revocation goes through
    torn        \* a change died between the new password and the revocation

database == <<account, boot, session, lock>>
local == <<job, at, tok, seen, rows>>
vars == <<database, local, access, torn>>

Account == [exists: BOOLEAN, super: BOOLEAN, entitled: BOOLEAN,
            pending: BOOLEAN, epoch: 0..MaxChanges]
Session == [state: {"free", "live", "revoked"}, from: Token \cup {NoToken},
            root: Token \cup {NoToken}, epoch: 0..MaxChanges, late: BOOLEAN]
Identity == [known: BOOLEAN, super: BOOLEAN, pending: BOOLEAN, epoch: 0..MaxChanges]
AccessToken == [pending: BOOLEAN, super: BOOLEAN]

Free == [state |-> "free", from |-> NoToken, root |-> NoToken, epoch |-> 0, late |-> FALSE]
Absent == [exists |-> FALSE, super |-> FALSE, entitled |-> FALSE, pending |-> FALSE, epoch |-> 0]
Nameless == [known |-> FALSE, super |-> FALSE, pending |-> FALSE, epoch |-> 0]

TypeOK ==
    /\ account \in Account
    /\ boot \in [Replica -> {"off", "counted", "up"}]
    /\ session \in [Token -> Session]
    /\ access \subseteq AccessToken
    /\ lock \in Request \cup {Nobody}
    /\ job \in [Request -> {"none", "login", "refresh", "logout", "change"}]
    /\ at \in [Request -> {"idle", "read", "wait", "locked", "found", "replaced",
                           "rows", "swept", "audited"}]
    /\ tok \in [Request -> Token \cup {NoToken}]
    /\ seen \in [Request -> Identity]
    /\ rows \in [Request -> SUBSET Token]
    /\ torn \in BOOLEAN

Init ==
    /\ account = Absent
    /\ boot = [b \in Replica |-> "off"]
    /\ session = [t \in Token |-> Free]
    /\ access = {}
    /\ lock = Nobody
    /\ job = [r \in Request |-> "none"]
    /\ at = [r \in Request |-> "idle"]
    /\ tok = [r \in Request |-> NoToken]
    /\ seen = [r \in Request |-> Nameless]
    /\ rows = [r \in Request |-> {}]
    /\ torn = FALSE

-----------------------------------------------------------------------------
(* The account, outside of /auth.                                          *)

\* A replica boots and counts the super administrators.
BootCount(b) ==
    /\ boot[b] = "off"
    /\ boot' = [boot EXCEPT ![b] = IF account.super THEN "up" ELSE "counted"]
    /\ UNCHANGED <<account, session, lock, local, access, torn>>

\* Mutant: the account is written over instead of inserted.
BootUpsert(b) ==
    /\ boot[b] = "counted"
    /\ boot' = [boot EXCEPT ![b] = "up"]
    /\ account' = [account EXCEPT !.exists = TRUE, !.super = TRUE, !.pending = TRUE]
    /\ UNCHANGED <<session, lock, local, access, torn>>

\* After hashing it inserts the account; a taken e-mail is an error it survives.
BootCreate(b) ==
    /\ boot[b] = "counted"
    /\ boot' = [boot EXCEPT ![b] = "up"]
    /\ account' = IF account.exists THEN account
                  ELSE [Absent EXCEPT !.exists = TRUE, !.super = TRUE, !.pending = TRUE]
    /\ UNCHANGED <<session, lock, local, access, torn>>

\* A deploy restarts a replica.
Restart(b) ==
    /\ boot' = [boot EXCEPT ![b] = "off"]
    /\ UNCHANGED <<account, session, lock, local, access, torn>>

\* staff/upsert creates the account, grants it a role or takes the role away.
Upsert ==
    /\ account' = [(IF account.exists THEN account ELSE [Absent EXCEPT !.pending = TRUE])
                     EXCEPT !.exists = TRUE, !.entitled = ~account.entitled]
    /\ UNCHANGED <<boot, session, lock, local, access, torn>>

Promote ==
    /\ account' = IF account.exists THEN [account EXCEPT !.super = TRUE]
                  ELSE [Absent EXCEPT !.exists = TRUE, !.super = TRUE, !.pending = TRUE]
    /\ UNCHANGED <<boot, session, lock, local, access, torn>>

-----------------------------------------------------------------------------
(* What the steps of a request share.                                      *)

Live(t) == session[t].state = "live"

\* resolveIdentity: a super administrator, or a role in an active edition.
ResolveIdentity == [known |-> account.super \/ account.entitled, super |-> account.super,
                    pending |-> account.pending, epoch |-> account.epoch]

IssueSession(id) == [pending |-> id.pending, super |-> id.super]

Fresh(t) == session[t].state = "free" /\ \A u \in 1..(t - 1) : session[u].state # "free"

\* A session goes on the line of another, or starts one with a password.
Opened(from, line) ==
    [state |-> "live", from |-> from, root |-> line.root, epoch |-> line.epoch, late |-> line.late]

Start(t, id) ==
    Opened(NoToken, [root |-> t, epoch |-> id.epoch, late |-> id.epoch # account.epoch])

Go(r, to) == at' = [at EXCEPT ![r] = to]

End(r) ==
    /\ at' = [at EXCEPT ![r] = "idle"]
    /\ job' = [job EXCEPT ![r] = "none"]
    /\ tok' = [tok EXCEPT ![r] = NoToken]
    /\ seen' = [seen EXCEPT ![r] = Nameless]
    /\ rows' = [rows EXCEPT ![r] = {}]

\* The transaction of r ends, and with it its advisory lock.
Unlocked(r) == IF lock = r THEN Nobody ELSE lock

\* Rows another transaction has written and not committed.
Held(t, r) == \E q \in Request \ {r} : \/ at[q] = "replaced" /\ tok[q] = t
                                       \/ at[q] = "rows" /\ t \in rows[q]

\* JwtAuthGuard: a pending account reaches only the routes that allow it.
Admits(token, allowsPending) == token.pending => allowsPending

-----------------------------------------------------------------------------
(* login                                                                   *)

LoginRead(r) ==
    /\ at[r] = "idle"
    /\ account.exists
    /\ ResolveIdentity.known
    /\ job' = [job EXCEPT ![r] = "login"]
    /\ Go(r, "read")
    /\ seen' = [seen EXCEPT ![r] = ResolveIdentity]
    /\ UNCHANGED <<database, tok, rows, access, torn>>

\* bcrypt has compared the hash that was read: the row is not read again.
LoginCreate(r) ==
    /\ job[r] = "login" /\ at[r] = "read"
    /\ \E t \in Token :
         /\ Fresh(t)
         /\ session' = [session EXCEPT ![t] = Start(t, seen[r])]
    /\ access' = access \cup {IssueSession(seen[r])}
    /\ End(r)
    /\ UNCHANGED <<account, boot, lock, torn>>

-----------------------------------------------------------------------------
(* refresh                                                                 *)

RefreshRead(r, t) ==
    /\ at[r] = "idle"
    /\ session[t].state # "free"
    /\ ResolveIdentity.known
    /\ job' = [job EXCEPT ![r] = "refresh"]
    /\ Go(r, "wait")
    /\ tok' = [tok EXCEPT ![r] = t]
    /\ seen' = [seen EXCEPT ![r] = ResolveIdentity]
    /\ UNCHANGED <<database, rows, access, torn>>

\* Mutant: nobody waits for the lock.
TakeLockAtOnce(r) ==
    /\ at[r] = "wait"
    /\ lock' = r
    /\ Go(r, "locked")
    /\ UNCHANGED <<account, boot, session, job, tok, seen, rows, access, torn>>

\* lockStaffSessions, the first statement of rotate, revoke and revokeAllForStaff.
TakeLock(r) ==
    /\ at[r] = "wait"
    /\ lock = Nobody
    /\ lock' = r
    /\ Go(r, "locked")
    /\ UNCHANGED <<account, boot, session, job, tok, seen, rows, access, torn>>

Refuse(r) == /\ End(r)
             /\ lock' = Unlocked(r)
             /\ UNCHANGED <<account, boot, session, access, torn>>

\* findUnique of the current session inside the transaction.
RotateFind(r) ==
    /\ job[r] = "refresh" /\ at[r] = "locked"
    /\ \/ /\ Live(tok[r])
          /\ Go(r, "found")
          /\ UNCHANGED <<database, job, tok, seen, rows, access, torn>>
       \/ ~Live(tok[r]) /\ Refuse(r)

\* updateMany with the conditions again; a row somebody holds is waited for.
RotateReplace(r) ==
    /\ at[r] = "found"
    /\ ~Held(tok[r], r)
    /\ \/ /\ Live(tok[r])
          /\ Go(r, "replaced")
          /\ UNCHANGED <<database, job, tok, seen, rows, access, torn>>
       \/ ~Live(tok[r]) /\ Refuse(r)

\* Mutant: the token that was presented stays live.
ReplacementKeepingOld(t, old) ==
    [session EXCEPT ![t] = Opened(old, session[old])]

Rotated(t, old) ==
    [session EXCEPT ![old].state = "revoked", ![t] = Opened(old, session[old])]

\* The replacement is inserted and the transaction commits.
RotateCommit(r) ==
    /\ at[r] = "replaced"
    /\ \E t \in Token :
         /\ Fresh(t)
         /\ session' = Rotated(t, tok[r])
    /\ access' = access \cup {IssueSession(seen[r])}
    /\ lock' = Unlocked(r)
    /\ End(r)
    /\ UNCHANGED <<account, boot, torn>>

-----------------------------------------------------------------------------
(* logout                                                                  *)

\* revoke finds the account by the token, in whatever state its row is.
LogoutFind(r, t) ==
    /\ at[r] = "idle"
    /\ session[t].state # "free"
    /\ job' = [job EXCEPT ![r] = "logout"]
    /\ Go(r, "wait")
    /\ tok' = [tok EXCEPT ![r] = t]
    /\ UNCHANGED <<database, seen, rows, access, torn>>

\* Mutant: only the session that was presented is revoked.
RowsOfPresented(r) == {t \in Token : Live(t) /\ t = tok[r]}

RowsToRevoke(r) == {t \in Token : Live(t)}

\* updateMany of every session of the account: it goes through the rows that
\* were committed when it began, and waits for those that are held.
RevokeRows(r) ==
    /\ job[r] \in {"logout", "change"} /\ at[r] = "locked"
    /\ rows' = [rows EXCEPT ![r] = RowsToRevoke(r)]
    /\ Go(r, "rows")
    /\ UNCHANGED <<database, job, tok, seen, access, torn>>

RevokeCommit(r) ==
    /\ at[r] = "rows"
    /\ \A t \in rows[r] : ~Held(t, r)
    /\ session' = [t \in Token |-> IF t \in rows[r]
                                     THEN [session[t] EXCEPT !.state = "revoked"]
                                     ELSE session[t]]
    /\ lock' = Unlocked(r)
    /\ torn' = (torn /\ \E t \in Token : Live(t) /\ t \notin rows[r])
    /\ \/ job[r] = "logout" /\ End(r)
       \/ /\ job[r] = "change"
          /\ Go(r, "swept")
          /\ UNCHANGED <<job, tok, seen, rows>>
    /\ UNCHANGED <<account, boot, access>>

-----------------------------------------------------------------------------
(* change-password                                                         *)

\* Allowed while the change is pending; the roles are not asked for yet.
ChangeRead(r) ==
    /\ at[r] = "idle"
    /\ \E a \in access : Admits(a, TRUE)
    /\ job' = [job EXCEPT ![r] = "change"]
    /\ Go(r, "read")
    /\ seen' = [seen EXCEPT ![r] = ResolveIdentity]
    /\ UNCHANGED <<database, tok, rows, access, torn>>

ChangeUpdate(r) ==
    /\ job[r] = "change" /\ at[r] = "read"
    /\ account.epoch < MaxChanges
    /\ account' = [account EXCEPT !.pending = FALSE, !.epoch = @ + 1]
    /\ seen' = [seen EXCEPT ![r].pending = FALSE, ![r].epoch = account.epoch + 1]
    /\ Go(r, "wait")
    /\ UNCHANGED <<boot, session, lock, job, tok, rows, access, torn>>

ChangeAudit(r) ==
    /\ at[r] = "swept"
    /\ Go(r, "audited")
    /\ UNCHANGED <<database, job, tok, seen, rows, access, torn>>

\* The identity is that of the row read at the start: without one the answer
\* is a refusal, after the change.
ChangeCreate(r) ==
    /\ at[r] = "audited"
    /\ \/ /\ seen[r].known
          /\ \E t \in Token :
               /\ Fresh(t)
               /\ session' = [session EXCEPT ![t] = Start(t, seen[r])]
          /\ access' = access \cup {IssueSession(seen[r])}
       \/ ~seen[r].known /\ UNCHANGED <<session, access>>
    /\ End(r)
    /\ UNCHANGED <<account, boot, lock, torn>>

-----------------------------------------------------------------------------
\* A change between the new password and the end of the old sessions.
Revoking(r) == job[r] = "change" /\ at[r] \in {"wait", "locked", "rows"}

\* A statement fails or the process dies: the transaction rolls back.
Fail(r) ==
    /\ at[r] # "idle"
    /\ torn' = (torn \/ Revoking(r))
    /\ End(r)
    /\ lock' = Unlocked(r)
    /\ UNCHANGED <<account, boot, session, access>>

Step(r) ==
    \/ LoginCreate(r) \/ TakeLock(r)
    \/ RotateFind(r) \/ RotateReplace(r) \/ RotateCommit(r)
    \/ RevokeRows(r) \/ RevokeCommit(r)
    \/ ChangeUpdate(r) \/ ChangeAudit(r) \/ ChangeCreate(r)

Next ==
    \/ \E b \in Replica : BootCount(b) \/ BootCreate(b) \/ Restart(b)
    \/ Upsert \/ Promote
    \/ \E r \in Request : \/ LoginRead(r) \/ ChangeRead(r)
                          \/ \E t \in Token : RefreshRead(r, t) \/ LogoutFind(r, t)
                          \/ Step(r) \/ Fail(r)

Spec == Init /\ [][Next]_vars

-----------------------------------------------------------------------------
(* Properties                                                              *)

\* However refreshes of one token overlap with each other and with failures,
\* a login leaves one live session at most: rotate revokes the session it
\* replaces in the transaction that inserts the other.
OneLivePerLogin ==
    \A t, u \in Token : Live(t) /\ Live(u) /\ session[t].root = session[u].root => t = u

\* After a logout or a change of password has revoked the sessions of the
\* account, no session that came of a refresh is live: a rotation in flight
\* cannot carry an old login past revokeAllForStaff.
RevocationIsFinal ==
    [][\A r \in Request :
         RevokeCommit(r) => \A t \in Token : Live(t)' => session'[t].from = NoToken]_vars

\* A session opened with an earlier password is live only while the change is
\* still revoking, after a change that died there, or when its login had read
\* the old hash before the change wrote the new one.
OldSessionsLeave ==
    \A t \in Token :
      Live(t) /\ session[t].epoch < account.epoch =>
        torn \/ session[t].late \/ \E r \in Request : Revoking(r)

\* No token ever issued claims more than the account may do: one without the
\* mark of a pending change exists only after the change, whatever replicas
\* boot, and one of a super administrator only for a super administrator.
TokensNeverAhead ==
    \A a \in access : /\ Admits(a, FALSE) => ~account.pending
                      /\ a.super => account.super

=============================================================================
