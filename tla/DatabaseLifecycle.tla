-------------------------- MODULE DatabaseLifecycle --------------------------
(***************************************************************************)
(* The database file between releases: Alembic's upgrade to head, the      *)
(* snapshot tool app/backup.py, recovery from a snapshot, and the schema   *)
(* check that precedes every start of the application.                     *)
(*                                                                         *)
(* In SQLite's legacy transaction mode a DDL statement commits by itself   *)
(* unless a DML statement has opened a transaction, and Alembic treats     *)
(* SQLite as having no transactional DDL: of one revision, everything up   *)
(* to the first DML statement is committed statement by statement, the     *)
(* rest and the new alembic_version at once.  A statement that has taken   *)
(* effect cannot be repeated.                                              *)
(***************************************************************************)
EXTENDS Naturals, Sequences, FiniteSets, SequencesExt

CONSTANTS
    Creators,    \* runs of "backup create" that may overlap
    Sessions,    \* web sessions
    MaxCrashes   \* bound: times everything that runs is stopped

ASSUME BoundAssumption == MaxCrashes \in Nat

VARIABLES
    db,        \* the database file: schema objects, version, rows
    step,      \* the upgrade: 0 when it does not run, or its next statement
    failed,    \* why the last upgrade stopped, if it did
    up,        \* the application serves
    creator,   \* per run of "backup create": how far it is, its partial file
    copy,      \* the backup destination
    manifest,  \* the manifest beside it
    pending,   \* the database was restored; its sessions are not revoked yet
    ended,     \* history: sessions that were logged out or revoked
    overlapped, \* history: two runs of "backup create" wrote to one destination
    disturbed, \* history: an upgrade was interrupted, or locked out, or
               \* copied while it ran
    crashes

files == <<db, copy, manifest>>
history == <<ended, overlapped, disturbed, crashes>>
vars == <<files, step, failed, up, creator, pending, history>>

-----------------------------------------------------------------------------
(* The schema is the set of objects the statements create.  The indexes of *)
(* a table are one object here.                                            *)
Object(kind, name) == <<kind, name>>
Created(tables) ==
    [k \in 1 .. 2 * Len(tables) |->
        Object(IF k % 2 = 1 THEN "table" ELSE "index", tables[(k + 1) \div 2])]

(* The self-committed statements of each revision, in order. *)
Baseline ==
    Created(<<"users", "service_identities", "channels", "devices", "sources",
              "subscriptions", "notifications", "deliveries", "access_tokens",
              "preferences">>)
HumanAuthentication ==
    <<Object("column", "password_hash")>> \o Created(<<"web_sessions">>)
(* The rows are updated before the table is rebuilt as NOT NULL; without   *)
(* rows the temporary table is created outside of any transaction.         *)
CsrfMutations(rows) ==
    <<Object("column", "csrf_token")>>
        \o (IF rows = {} THEN <<Object("temporary", "web_sessions")>> ELSE <<>>)
AdministratorAuthorization ==
    <<Object("column", "is_admin"), Object("index", "is_admin")>>
        \o Created(<<"admin_audit_events">>)
(* Mutant of LoginAbuseControls: generated against a stale schema. *)
LoginAbuseAutogenerated ==
    Created(<<"login_rate_buckets", "login_security_events", "web_sessions">>)
LoginAbuseControls == Created(<<"login_rate_buckets", "login_security_events">>)

(* Mutant of NotificationIdempotency: the column and its constraint are    *)
(* added to the table in place.                                            *)
NotificationInPlace ==
    <<Object("column", "idempotency_digest"), Object("index", "idempotency_digest")>>
NotificationIdempotency == <<Object("temporary", "notifications")>>

Latest == 6
Statements(version, rows) ==
    CASE version = 1 -> Baseline
      [] version = 2 -> HumanAuthentication
      [] version = 3 -> CsrfMutations(rows)
      [] version = 4 -> AdministratorAuthorization
      [] version = 5 -> LoginAbuseControls
      [] version = 6 -> NotificationIdempotency

(* What the closing transaction of a revision makes of the schema. *)
Rebuilt(version, schema) ==
    {o \in schema : o[1] # "temporary"} \cup
        IF version = 6 THEN {Object("column", "idempotency_digest"),
                             Object("index", "idempotency_digest")} ELSE {}

SchemaOf[version \in 0 .. Latest] ==
    Rebuilt(version, UNION {ToSet(Statements(v, {})) : v \in 1 .. version})

Tables == {o \in SchemaOf[Latest] : o[1] = "table"}

(* A database some complete upgrade left, with what users did to it. *)
Clean(version, rows, live, delivered) ==
    [schema |-> SchemaOf[version], version |-> version, rows |-> rows,
     live |-> live, delivered |-> delivered]

None == [version |-> Latest + 1]   \* no such file
NoCreator == [at |-> "idle", partial |-> None]

Init ==
    /\ \E version \in 0 .. Latest, rows \in SUBSET Sessions, delivered \in BOOLEAN :
          /\ version < 2 => rows = {}
          /\ version < 1 => ~delivered
          /\ db = Clean(version, rows, rows, delivered)
    /\ step = 0
    /\ failed = "no"
    /\ up = FALSE
    /\ creator = [c \in Creators |-> NoCreator]
    /\ copy = None
    /\ manifest = None
    /\ pending = FALSE
    /\ ended = {}
    /\ overlapped = FALSE
    /\ disturbed = FALSE
    /\ crashes = 0

-----------------------------------------------------------------------------
(* alembic upgrade head *)

Target == db.version + 1
Ddl == Statements(Target, db.rows)

BeginUpgrade ==
    /\ ~up /\ step = 0 /\ db.version < Latest
    /\ step' = 1
    /\ failed' = "no"
    /\ UNCHANGED <<files, up, creator, pending, history>>

(* One self-committed statement; what exists cannot be created again. *)
Statement ==
    /\ step # 0 /\ step <= Len(Ddl)
    /\ IF Ddl[step] \in db.schema
         THEN step' = 0 /\ failed' = "exists" /\ UNCHANGED db
         ELSE /\ db' = [db EXCEPT !.schema = @ \cup {Ddl[step]}]
              /\ step' = step + 1
              /\ UNCHANGED failed
    /\ UNCHANGED <<copy, manifest, up, creator, pending, history>>

(* The closing transaction.  Revision 0003 revokes every session.  0006    *)
(* drops the old notifications table while foreign_keys is ON, which fails *)
(* when a delivery refers to one of its rows; the rollback leaves the      *)
(* temporary table behind.                                                 *)
CloseRevision ==
    /\ step # 0 /\ step = Len(Ddl) + 1
    /\ IF Target = 6 /\ db.delivered
         THEN step' = 0 /\ failed' = "referenced" /\ UNCHANGED <<db, ended>>
         ELSE /\ db' = [db EXCEPT !.schema = Rebuilt(Target, @),
                                  !.version = Target,
                                  !.live = IF Target = 3 THEN {} ELSE @]
              /\ ended' = IF Target = 3 THEN ended \cup db.live ELSE ended
              /\ step' = IF Target = Latest THEN 0 ELSE 1
              /\ UNCHANGED failed
    /\ UNCHANGED <<copy, manifest, up, creator, pending, overlapped, disturbed, crashes>>

(* A backup that is being copied holds a shared lock, against which no     *)
(* statement can commit: after the driver's 5 seconds it fails, "database  *)
(* is locked", and the upgrade stops.                                      *)
LockedOut ==
    /\ step # 0
    /\ \E c \in Creators : creator[c].at = "copy"
    /\ step' = 0
    /\ failed' = "locked"
    /\ disturbed' = TRUE
    /\ UNCHANGED <<files, up, creator, pending, ended, overlapped, crashes>>

-----------------------------------------------------------------------------
(* The application *)

(* verify_schema: the tables, and one column for each later revision. *)
VerifySchema ==
    /\ Tables \subseteq db.schema
    /\ {Object("column", c) : c \in {"password_hash", "is_admin", "csrf_token",
                                     "idempotency_digest"}} \subseteq db.schema

(* lifespan; a recovered database is opened only after its sessions were   *)
(* revoked (docs/backup-recovery.md, steps 4 and 6).                       *)
Start ==
    /\ ~up /\ step = 0 /\ ~pending
    /\ VerifySchema
    /\ up' = TRUE
    /\ UNCHANGED <<files, step, failed, creator, pending, history>>

Stop ==
    /\ up
    /\ up' = FALSE
    /\ UNCHANGED <<files, step, failed, creator, pending, history>>

(* What users do, as far as the schema or a recovery can tell. *)
Serve ==
    /\ up
    /\ \/ \E s \in Sessions \ (db.rows \cup ended) :
             /\ db' = [db EXCEPT !.rows = @ \cup {s}, !.live = @ \cup {s}]
             /\ UNCHANGED ended
       \/ \E s \in db.live :
             /\ db' = [db EXCEPT !.live = @ \ {s}]
             /\ ended' = ended \cup {s}
       \/ ~db.delivered /\ db' = [db EXCEPT !.delivered = TRUE] /\ UNCHANGED ended
    /\ UNCHANGED <<copy, manifest, step, failed, up, creator, pending,
                   overlapped, disturbed, crashes>>

-----------------------------------------------------------------------------
(* backup.py *)

Goto(c, at) == creator' = [creator EXCEPT ![c].at = at]
GiveUp(c) == creator' = [creator EXCEPT ![c] = NoCreator]

(* Neither the destination nor its manifest may exist. *)
CheckFree(c) ==
    /\ creator[c].at = "idle"
    /\ copy = None /\ manifest = None
    /\ Goto(c, "copy")
    /\ overlapped' = (overlapped \/ \E d \in Creators \ {c} : creator[d].at # "idle")
    /\ UNCHANGED <<files, step, failed, up, pending, ended, disturbed, crashes>>

(* The Online Backup API copies one committed state to a partial file. *)
Snapshot(c) ==
    /\ creator[c].at = "copy"
    /\ creator' = [creator EXCEPT ![c] = [at |-> "verify", partial |-> db]]
    /\ disturbed' = (disturbed \/ step # 0)
    /\ UNCHANGED <<files, step, failed, up, pending, ended, overlapped, crashes>>

(* _validate_schema: every table this release knows, and a revision. *)
ValidSchema(file) == Tables \subseteq file.schema /\ file.version # 0

Verify(c) ==
    /\ creator[c].at = "verify"
    /\ IF ValidSchema(creator[c].partial) THEN Goto(c, "replace") ELSE GiveUp(c)
    /\ UNCHANGED <<files, step, failed, up, pending, history>>

(* os.replace(partial, target) overwrites whatever is there by now. *)
Replace(c) ==
    /\ creator[c].at = "replace"
    /\ copy' = creator[c].partial
    /\ Goto(c, "manifest")
    /\ UNCHANGED <<db, manifest, step, failed, up, pending, history>>

(* _write_manifest refuses a manifest that exists, ... *)
CheckManifest(c) ==
    /\ creator[c].at = "manifest"
    /\ IF manifest = None THEN Goto(c, "describe") ELSE GiveUp(c)
    /\ UNCHANGED <<files, step, failed, up, pending, history>>

(* Mutant of WriteManifest: it describes the database as it is by now. *)
WriteManifestOfSource(c) ==
    /\ creator[c].at = "describe"
    /\ manifest' = db
    /\ GiveUp(c)
    /\ UNCHANGED <<db, copy, step, failed, up, pending, history>>

(* ... and describes the verified partial file. *)
WriteManifest(c) ==
    /\ creator[c].at = "describe"
    /\ manifest' = creator[c].partial
    /\ GiveUp(c)
    /\ UNCHANGED <<db, copy, step, failed, up, pending, history>>

(* The operator moves the pair, or what there is of it, out of the way. *)
Archive ==
    /\ copy # None
    /\ \A c \in Creators : creator[c].at = "idle"
    /\ copy' = None /\ manifest' = None
    /\ UNCHANGED <<db, step, failed, up, creator, pending, history>>

(* The operator puts a verified copy in the place of the database. *)
Restore ==
    /\ ~up /\ step = 0
    /\ copy # None /\ ValidSchema(copy)
    /\ db' = copy
    /\ failed' = "no"
    /\ pending' = TRUE
    /\ UNCHANGED <<copy, manifest, step, up, creator, history>>

(* Mutant of RevokeRestored: the UPDATE is not committed. *)
RevokeNothing ==
    /\ pending
    /\ pending' = FALSE
    /\ UNCHANGED <<files, step, failed, up, creator, history>>

(* revoke-restored-sessions: every unrevoked row, in one UPDATE. *)
RevokeRestored ==
    /\ pending
    /\ Object("table", "web_sessions") \in db.schema
    /\ db' = [db EXCEPT !.live = {}]
    /\ ended' = ended \cup db.live
    /\ pending' = FALSE
    /\ UNCHANGED <<copy, manifest, step, failed, up, creator, overlapped, disturbed, crashes>>

-----------------------------------------------------------------------------
(* The host stops: uncommitted work is lost, files stay. *)
Crash ==
    /\ crashes < MaxCrashes
    /\ crashes' = crashes + 1
    /\ disturbed' = (disturbed \/ step # 0)
    /\ step' = 0
    /\ up' = FALSE
    /\ creator' = [c \in Creators |-> NoCreator]
    /\ UNCHANGED <<files, failed, pending, ended, overlapped>>

Next ==
    \/ BeginUpgrade \/ Statement \/ CloseRevision \/ LockedOut
    \/ Start \/ Stop \/ Serve
    \/ \E c \in Creators :
          CheckFree(c) \/ Snapshot(c) \/ Verify(c) \/ Replace(c)
             \/ CheckManifest(c) \/ WriteManifest(c)
    \/ Archive \/ Restore \/ RevokeRestored
    \/ Crash

Spec == Init /\ [][Next]_vars

-----------------------------------------------------------------------------
(* The application never serves from a half-upgraded database: although    *)
(* verify_schema looks at the tables and four columns only, whatever was   *)
(* interrupted, copied and restored before, what passes it has every       *)
(* column, index and constraint of head.                                   *)
ServesCompleteSchemaOnly ==
    up => db.version = Latest /\ db.schema = SchemaOf[Latest]

(* A manifest describes the copy it lies beside, wherever a run of "backup *)
(* create" stops, unless two runs overlapped on one destination.           *)
ManifestDescribesTheCopy ==
    manifest # None /\ ~overlapped => copy = manifest

(* docs/backup-recovery.md, "a historical database can restore historical  *)
(* security decisions": a session that was logged out or revoked after the *)
(* snapshot is not alive in the application that serves its restored copy. *)
EndedSessionsStayEnded == up => db.live \cap ended = {}

(* Unless it is interrupted, or locked out by a backup being copied, an    *)
(* upgrade stops half way only on what an earlier one left that was (or on *)
(* a snapshot taken while one ran: its verification looks for tables       *)
(* only), or in revision 0006 with deliveries in the database, or on the   *)
(* temporary table that leaves.                                            *)
FailuresAreExplained ==
    /\ failed = "exists" => disturbed \/ (db.version = 5 /\ db.delivered)
    /\ failed = "referenced" => db.version = 5 /\ db.delivered

(* src/backend/alembic/versions/0006: "Batch mode keeps this migration     *)
(* portable to the SQLite test/development database": an upgrade nothing   *)
(* interrupts does not fail.                                               *)
UpgradeSucceeds == failed # "no" => disturbed
==============================================================================
