------------------------------- MODULE Staff --------------------------------
(***************************************************************************)
(* Who may do what in the active edition: the accounts of the staff, their *)
(* role assignments, the scope resolveScope gives a request, authorize,    *)
(* and the actions staff/upsert, staff/remove and staff/promoteSuperAdmin. *)
(*                                                                         *)
(* Every action runs alone in its serializable transaction (module         *)
(* ActionPipeline), so a handler is one step.  An assignment is told by    *)
(* what it says: equal revoked ones are one.  Names, passwords and the     *)
(* identity check on names are left out.                                   *)
(***************************************************************************)
EXTENDS Integers, FiniteSets

CONSTANTS
    Account,        \* e-mails of the staff
    Root,           \* the super administrator the system starts with
    Member,         \* e-mails the forms of the staff are filled with
    Discipline, Team,
    None,
    MaxGrants       \* bound on super administrators and assignments kept

ASSUME RootAssumption == Root \in Account /\ Member \subseteq Account
ASSUME NoneAssumption == None \notin Discipline \cup Team

VARIABLES
    exists, super,  \* the accounts there are, those of super administrators
    roles,          \* edition_staff_roles of the edition
    trace,          \* accounts with a session, an audit record or other history
    offered,        \* the disciplines linked to the edition
    taking          \* the teams linked to the edition

staffVars == <<exists, super, roles, trace>>

Row == [staff: Account, role: {"EDITION_ADMIN"}, scope: {None}, revoked: BOOLEAN]
       \cup [staff: Account, role: {"DISCIPLINE_MANAGER"}, scope: Discipline, revoked: BOOLEAN]
       \cup [staff: Account, role: {"TEAM_MANAGER"}, scope: Team, revoked: BOOLEAN]

\* What an upsert may ask for.
Asked == {[role |-> r.role, scope |-> r.scope] : r \in Row}

StaffTypeOK ==
    /\ super \subseteq exists /\ exists \subseteq Account
    /\ trace \subseteq exists
    /\ roles \subseteq [staff: exists, role: {r.role : r \in Row},
                        scope: Discipline \cup Team \cup {None}, revoked: BOOLEAN]

StaffInit ==
    /\ exists = {Root} /\ super = {Root} /\ trace = {Root}
    /\ roles = {}

-----------------------------------------------------------------------------
(* Scopes.                                                                 *)

Held(u, role) == {r \in roles : r.staff = u /\ r.role = role /\ ~r.revoked}

Full == [kind |-> "full", of |-> None]

\* The scopes a request of u may run under, one for each choice of the headers
\* X-Edition-Role and X-Edition-Discipline-Id.  A responsible of a team has no
\* header: that role counts when the same account has not the edition itself.
ResolveScope(u) ==
    IF u \in super THEN {Full}
    ELSE LET admin == Held(u, "EDITION_ADMIN") # {} IN
         {Full : r \in Held(u, "EDITION_ADMIN")}
         \cup {[kind |-> "discipline", of |-> r.scope] : r \in Held(u, "DISCIPLINE_MANAGER")}
         \cup (IF admin THEN {}
               ELSE {[kind |-> "team", of |-> r.scope] : r \in Held(u, "TEAM_MANAGER")})

\* A request carries a token: the account has signed in, a trace already, and
\* the audit record of the action adds nothing to it.
Scopes(u) == IF u \in trace THEN ResolveScope(u) ELSE {}

\* Mutant: the role and the office of the member are not looked at.
MayAdministerAny(u, s, role) == TRUE

\* authorizeEditionAdminStaff: only the two lesser roles, never on an equal.
MayAdminister(u, s, role) ==
    \/ u \in super
    \/ /\ role \in {"DISCIPLINE_MANAGER", "TEAM_MANAGER"}
       /\ s \notin super
       /\ Held(s, "EDITION_ADMIN") = {}

-----------------------------------------------------------------------------
(* Actions.                                                                *)

ScopeExists(asked) ==
    /\ asked.role = "DISCIPLINE_MANAGER" => asked.scope \in offered
    /\ asked.role = "TEAM_MANAGER" => asked.scope \in taking

\* The assignment named by the client already says what is asked; the team of
\* a responsible is not compared.
AlreadyMatches(given, asked) ==
    /\ ~given.revoked
    /\ given.role = asked.role
    /\ asked.role = "DISCIPLINE_MANAGER" => given.scope = asked.scope

Assignment(s, asked) == [staff |-> s, role |-> asked.role, scope |-> asked.scope, revoked |-> FALSE]

Revoke(given) == (roles \ {given}) \cup {[given EXCEPT !.revoked = TRUE]}

\* The index on active assignments without a discipline is older than the role
\* of a team: an account is responsible for one team at a time, and a second
\* one is a conflict that rolls the action back.
ActiveKeysUnique(rows) ==
    \A a, b \in rows :
      /\ a.staff = b.staff /\ a.role = b.role
      /\ ~a.revoked /\ ~b.revoked
      /\ a.role # "DISCIPLINE_MANAGER"
      => a = b

Store(rows) == roles' = rows /\ ActiveKeysUnique(rows)

\* staff/upsert without the ID of an assignment: a grant.
StaffGrant(u, s, asked) ==
    /\ Full \in Scopes(u)
    /\ MayAdminister(u, s, asked.role)
    /\ ScopeExists(asked)
    /\ Store(roles \cup {Assignment(s, asked)})
    /\ exists' = exists \cup {s}
    /\ UNCHANGED <<super, trace>>

\* With it: the assignment is replaced by what is asked, unless it matches.
StaffReplace(u, given, asked) ==
    /\ Full \in Scopes(u)
    /\ MayAdminister(u, given.staff, asked.role)
    /\ ScopeExists(asked)
    /\ Store(IF AlreadyMatches(given, asked) THEN roles
             ELSE Revoke(given) \cup {Assignment(given.staff, asked)})
    /\ UNCHANGED <<exists, super, trace>>

\* With revoked: the assignment ends, whatever role the member is sent with.
StaffRevoke(u, given, asked) ==
    /\ Full \in Scopes(u)
    /\ MayAdminister(u, given.staff, asked.role)
    /\ ScopeExists(asked)
    /\ roles' = Revoke(given)
    /\ UNCHANGED <<exists, super, trace>>

\* staff/remove deletes the assignments, and the account if it left no trace.
StaffRemove(u, s) ==
    /\ Full \in Scopes(u)
    /\ s \in exists /\ s # u
    /\ s \in super => u \in super
    /\ \E r \in roles : r.staff = s
    /\ roles' = {r \in roles : r.staff # s}
    /\ exists' = IF s \in super \cup trace THEN exists ELSE exists \ {s}
    /\ UNCHANGED <<super, trace>>

PromoteSuperAdmin(u, s) ==
    /\ u \in super /\ u \in trace
    /\ super' = super \cup {s}
    /\ exists' = exists \cup {s}
    /\ UNCHANGED <<roles, trace>>

\* A session, an operated match, a role in another edition.
LeaveTrace(s) ==
    /\ s \in exists
    /\ trace' = trace \cup {s}
    /\ UNCHANGED <<exists, super, roles>>

StaffBy(u) ==
    \/ \E s \in Member : \/ \E asked \in Asked : StaffGrant(u, s, asked)
                         \/ StaffRemove(u, s)
                         \/ PromoteSuperAdmin(u, s)
    \/ \E given \in roles, asked \in Asked : \/ StaffReplace(u, given, asked)
                                             \/ StaffRevoke(u, given, asked)

StaffNext ==
    /\ \/ \E u \in Account : StaffBy(u)
       \/ \E s \in Member : LeaveTrace(s)
    /\ Cardinality(roles') + Cardinality(super') <= MaxGrants
    /\ UNCHANGED <<offered, taking>>

=============================================================================
