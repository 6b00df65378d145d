---------------------------- MODULE AdminControl ----------------------------
(***************************************************************************)
(* Bootstrap and administrative creation (security.py, user_security.py,   *)
(* routers/admin.py): who may create what, and the audit history.          *)
(*                                                                         *)
(* Every handler reads its authority first and writes later: bootstrap     *)
(* looks for its own audit event, then for an administrator, then hashes a *)
(* password; the others read the actor's User row.  The flush of the new   *)
(* row takes SQLite's write lock and checks the unique name; the audit     *)
(* event joins the same transaction.                                       *)
(***************************************************************************)
EXTENDS Naturals, FiniteSets, Bags

CONSTANTS
    Requests,    \* handler invocations that may be in flight together
    Names,       \* of users, channels, identities and their sources
    Nobody,      \* no request: the lock is free; no user: no actor
    MaxRequests  \* bound: requests started

ASSUME BoundAssumption == MaxRequests \in Nat
ASSUME NobodyAssumption == Nobody \notin Requests \cup Names

VARIABLES
    user,      \* users by name: "none", "plain", "admin" (is_admin and
               \* is_active) or "disabled" (is_admin only)
    rows,      \* the other rows: a bag of <<kind, name>>
    audit,     \* admin_audit_events: a set of [seq, action, name, actor]
    lock,      \* the request in a write transaction
    op,        \* per request: what it does, how far it is
    started,
    ruled      \* history: per request, the users that have been active
               \* administrators since it began

vars == <<user, rows, audit, lock, op, started, ruled>>

Kinds == {"channel", "identity", "source", "token"}
Actions == {"bootstrap", "user.admin", "user.plain"} \cup Kinds
NoOp == [at |-> "idle", action |-> "channel", name |-> Nobody, actor |-> Nobody,
         reopened |-> FALSE]

Bootstrapped == \E e \in audit : e.action = "bootstrap"
Admins == {n \in Names : user[n] = "admin"}

Init ==
    /\ user = [n \in Names |-> "none"]
    /\ rows = EmptyBag
    /\ audit = {}
    /\ lock = Nobody
    /\ op = [r \in Requests |-> NoOp]
    /\ started = 0
    /\ ruled = [r \in Requests |-> {}]

Begin(r, at, action, name, actor) ==
    /\ op[r].at = "idle"
    /\ started < MaxRequests
    /\ started' = started + 1
    /\ op' = [op EXCEPT ![r] = [at |-> at, action |-> action, name |-> name,
                                actor |-> actor, reopened |-> Bootstrapped]]
    /\ ruled' = [ruled EXCEPT ![r] = Admins]
    /\ UNCHANGED <<user, rows, audit, lock>>

End(r) == op' = [op EXCEPT ![r] = NoOp]

(* A request to /admin/bootstrap/administrator with the right token. *)
BeginBootstrap(r, name) == Begin(r, "require_admin", "bootstrap", name, Nobody)

(* Mutant of RequireAdmin: the audit history is not consulted. *)
RequireTokenOnly(r) ==
    /\ op[r].at = "require_admin"
    /\ op' = [op EXCEPT ![r].at = "existing"]
    /\ UNCHANGED <<user, rows, audit, lock, started, ruled>>

(* require_admin: 409 once an administrator.bootstrap event exists. *)
RequireAdmin(r) ==
    /\ op[r].at = "require_admin"
    /\ IF Bootstrapped THEN End(r) ELSE op' = [op EXCEPT ![r].at = "existing"]
    /\ UNCHANGED <<user, rows, audit, lock, started, ruled>>

(* 409 while any user has is_admin. *)
ExistingAdmin(r) ==
    /\ op[r].at = "existing"
    /\ IF \E n \in Names : user[n] \in {"admin", "disabled"}
         THEN End(r) ELSE op' = [op EXCEPT ![r].at = "insert"]
    /\ UNCHANGED <<user, rows, audit, lock, started, ruled>>

(* A request of a signed-in user, before the session dependencies. *)
BeginCreate(r, action, name, actor) ==
    /\ user[actor] \in {"plain", "admin"}
    /\ Begin(r, "privilege", action, name, actor)

(* Mutant of Privilege: any signed-in user. *)
PrivilegeOfAnyone(r) ==
    /\ op[r].at = "privilege"
    /\ op' = [op EXCEPT ![r].at = "insert"]
    /\ UNCHANGED <<user, rows, audit, lock, started, ruled>>

(* require_csrf_administrator reads the actor's User row: 403 or go on. *)
Privilege(r) ==
    /\ op[r].at = "privilege"
    /\ IF user[op[r].actor] = "admin"
         THEN op' = [op EXCEPT ![r].at = IF op[r].action \in {"source", "token"}
                                         THEN "owner" ELSE "insert"]
         ELSE End(r)
    /\ UNCHANGED <<user, rows, audit, lock, started, ruled>>

(* create_source, create_token: the service identity, here the one of the  *)
(* same name, is read first; 404 if there is none.                         *)
Owner(r) ==
    /\ op[r].at = "owner"
    /\ IF <<"identity", op[r].name>> \in BagToSet(rows)
         THEN op' = [op EXCEPT ![r].at = "insert"] ELSE End(r)
    /\ UNCHANGED <<user, rows, audit, lock, started, ruled>>

(* Only an access token has no unique name. *)
Taken(r) ==
    IF op[r].action \in Kinds
    THEN op[r].action # "token" /\ <<op[r].action, op[r].name>> \in BagToSet(rows)
    ELSE user[op[r].name] # "none"

(* Mutant of Insert: the name is not unique. *)
InsertDuplicate(r) ==
    /\ op[r].at = "insert"
    /\ lock = Nobody
    /\ op' = [op EXCEPT ![r].at = "commit"]
    /\ lock' = r
    /\ UNCHANGED <<user, rows, audit, started, ruled>>

(* session.flush(): the INSERT takes the write lock; a name that is taken  *)
(* raises IntegrityError, and the rollback answers 409.                    *)
Insert(r) ==
    /\ op[r].at = "insert"
    /\ lock = Nobody
    /\ IF Taken(r) THEN End(r) /\ UNCHANGED lock
       ELSE op' = [op EXCEPT ![r].at = "commit"] /\ lock' = r
    /\ UNCHANGED <<user, rows, audit, started, ruled>>

(* The lock was not to be had in 5 seconds: 500. *)
LockTimeout(r) ==
    /\ op[r].at = "insert"
    /\ lock # Nobody
    /\ End(r)
    /\ UNCHANGED <<user, rows, audit, lock, started, ruled>>

Role(action) == IF action = "user.plain" THEN "plain" ELSE "admin"

Rule(now) == ruled' = [r \in Requests |-> ruled[r] \cup {n \in Names : now[n] = "admin"}]

(* The row and the _audit event become visible together. *)
Commit(r) ==
    /\ op[r].at = "commit"
    /\ LET o == op[r]
       IN  /\ IF o.action \in Kinds
                THEN rows' = rows (+) SetToBag({<<o.action, o.name>>}) /\ UNCHANGED user
                ELSE user' = [user EXCEPT ![o.name] = Role(o.action)] /\ UNCHANGED rows
           /\ audit' = audit \cup {[seq |-> Cardinality(audit), action |-> o.action,
                                    name |-> o.name, actor |-> o.actor]}
    /\ Rule(user')
    /\ lock' = Nobody
    /\ End(r)
    /\ UNCHANGED started

(* The process stops: an open transaction is rolled back. *)
Crash ==
    /\ \E r \in Requests : op[r].at # "idle"
    /\ op' = [r \in Requests |-> NoOp]
    /\ lock' = Nobody
    /\ UNCHANGED <<user, rows, audit, started, ruled>>

(* The operator, in the database: no route changes is_admin or is_active.  *)
Operate(n, role) ==
    /\ lock = Nobody
    /\ user[n] # "none"
    /\ user' = [user EXCEPT ![n] = role]
    /\ Rule(user')
    /\ UNCHANGED <<rows, audit, lock, op, started>>

Next ==
    \/ Crash
    \/ \E n \in Names : \E role \in {"plain", "admin", "disabled"} : Operate(n, role)
    \/ \E r \in Requests :
          \/ \E n \in Names : BeginBootstrap(r, n)
          \/ \E n, actor \in Names, action \in Actions \ {"bootstrap"} :
                BeginCreate(r, action, n, actor)
          \/ RequireAdmin(r) \/ ExistingAdmin(r) \/ Privilege(r) \/ Owner(r)
          \/ Insert(r) \/ LockTimeout(r) \/ Commit(r)

Spec == Init /\ [][Next]_vars

-----------------------------------------------------------------------------
(* Whatever becomes of the administrators it created (demoted, disabled),  *)
(* bootstrap does not reopen: a bootstrap request that arrives after one   *)
(* has committed never reaches its own INSERT (docs/security.md:39).       *)
BootstrapStaysClosed ==
    \A r \in Requests :
        op[r].action = "bootstrap" /\ op[r].at \in {"insert", "commit"} => ~op[r].reopened

(* The audit history accounts for every user, channel, identity, source    *)
(* and token exactly once, whatever names concurrent requests fight for    *)
(* and wherever the process stops, and a source or token has an identity.  *)
EveryRowHasOneEvent ==
    LET Events(actions, n) == Cardinality({e \in audit : e.action \in actions /\ e.name = n})
        Count(kind, n) ==
            IF <<kind, n>> \in BagToSet(rows) THEN rows[<<kind, n>>] ELSE 0
    IN  \A n \in Names :
          /\ \A kind \in Kinds : Events({kind}, n) = Count(kind, n)
          /\ \A kind \in Kinds \ {"token"} : Count(kind, n) <= 1
          /\ Count("source", n) + Count("token", n) > 0 => Count("identity", n) = 1
          /\ Events(Actions \ Kinds, n) = (IF user[n] # "none" THEN 1 ELSE 0)

(* docs/security.md:41: privilege is checked against the database, so what *)
(* an actor commits, the actor was an active administrator for at some     *)
(* moment of that request, not merely when the session was opened.         *)
ActorsHeldThePrivilege ==
    \A r \in Requests :
        op[r].at = "commit" /\ op[r].action # "bootstrap" => op[r].actor \in ruled[r]

=============================================================================
