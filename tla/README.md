# GoreeCloud Notify: TLA+ verification

GoreeCloud Notify is a self-hosted notification service: producers publish
notifications with a token, the server fans each one out to the users who
subscribe to its channel, and users follow their inbox in a web client, a
Flutter client and an Android foreground service. This directory holds TLA+
models of its server, of the protocol its clients speak, of the life of its
database between releases and of the tools that accept a release, the TLC
configurations that check them, and TLAPS proofs of the safety properties the
runs check, all but those of one client.

In this file `src/` is the root of the repository, as in `PROJECT.json`; `app/`
stands for `src/backend/app/`, and `docs/` and `README.md` are the repository's own.

## How to run

    tlc -workers 2 -config <file>.cfg <module>      # a row of the table of runs
    tlapm <module>Proofs.tla                        # a row of the table of theorems
    tlasany <module>.tla                            # parse

`PROJECT.json` lists the runs, which lines of the source each definition
stands for, the hazards the properties are aimed at, and for every property a
mutant of the model that breaks it.

## The system

One uvicorn process (FastAPI), one SQLite file. Plain `def` handlers run in a
thread pool, so they interleave; the ntfy publish route and the inbox stream
are `async def` and run on the event loop, also when they call the database.
SQLAlchemy drives SQLite in its legacy transaction mode, and every model here
rests on what that means:

- a SELECT outside a transaction sees the rows that are committed at that
  moment and keeps nothing locked; two SELECTs of one handler may see two
  different databases;
- the first INSERT, UPDATE or DELETE of a handler waits for the one write lock
  (at most 5 seconds, then `OperationalError` and a 500) and keeps it until
  COMMIT or ROLLBACK, so the rest of that transaction reads what no one else
  can change;
- `expire_on_commit=False` and `autoflush=False` (app/database.py): a handler
  goes on using the row it has read, however old;
- no table is AUTOINCREMENT: when the newest row is deleted, its id is given
  to the next one.

| Component | State | Operations | Talks to |
|---|---|---|---|
| Ingestion: app/routers/notifications.py, app/notification_service.py | `notifications`, unique (source, digest of the key) | publish, replay, conflict; history reads | tokens, fanout |
| Fanout and inbox queries: app/delivery_service.py | `deliveries` | fan out, list, list after a cursor, counts, read, unread, acknowledge, delete | ingestion calls it in its own transaction |
| Inbox routes and stream: app/routers/inbox.py | one generator per connection: cursor, last counts, time of the last count | SSE events, mutations | polls the tables and the session |
| Subscriptions: app/routers/subscriptions.py | `subscriptions`, unique (user, channel) | subscribe, unsubscribe, list | fanout reads them |
| Login abuse controls: app/login_security.py | `login_rate_buckets`, `login_security_events` | check, record failure, success or refusal, clean up | login |
| Web sessions: app/user_security.py, app/routers/session.py | `web_sessions`, `users` | login, rehash, session check with its touch, expiry, logout | every cookie request, the stream |
| Administration: app/routers/admin.py, app/security.py | `users`, `channels`, `service_identities`, `sources`, `access_tokens`, `admin_audit_events` | bootstrap, create, reset password, issue and revoke tokens | sessions, ingestion |
| Web client: src/frontend/src/useInboxStream.ts, App.tsx | cursor, displayed and pending deliveries, counts, an EventSource | load counts and list, merge, mark as read, receive, refetch, reconnect | inbox routes |
| Flutter client: src/client/lib/main.dart | cursor, displayed deliveries | list, refresh, remove, the loop of its stream | inbox routes |
| Android service: src/client/android-overlay | stored session and cursor, service thread | enable, disable, restart, notify | inbox routes |
| Process: app/database.py, deps.py, request_limits.py, observability.py | the event loop, 15 connections, the write lock, body bytes so far | receive, start a handler, check a connection out, close a session, time out | every request and stream |
| Migrations: src/backend/alembic | schema, `alembic_version` | upgrade to head | the database file |
| Backup: app/backup.py | database file, copy, manifest | create, verify, revoke restored sessions | the database file |
| Retention preview: app/retention_service.py | none | several counting queries | the tables |
| Preflight: src/deploy/target/preflight.py | the entries of one run | host checks, network walk, report | the target |
| Evidence validators: src/deploy/recovery, monitoring, acceptance | documents, manifest | accept or refuse | the operator's files |
| Rehearsal: src/deploy/monitoring/monitor_client.py | the ntfy topic | probe, alert, assert | a disposable stack |
| Readiness and licence tools: src/deploy/readiness, src/tools | none | compare with constants | a checkout, a disposable stack |

What is hard in it:

- every decision is a SELECT followed, without a lock, by the write it leads
  to: duplicate publishes, subscription toggles, ownership of a delivery,
  bootstrap, session checks and resets, login limits;
- publishing must survive duplicates, lost answers, a locked database and a
  crash between its statements, and answer every one of them alike;
- the stream reads rows and counts with separate queries and then yields them
  over many awaits, while its clients lose connections and resume with a
  cursor over ids that may be reused;
- a client puts together what it shows from a stream, lists and counts that were
  read at different moments and arrive in any order, or not at all;
- time: windows, blocks, time to live and idle expiry are computed from
  timestamps that are written late or only now and then;
- some database calls block the event loop, which threads need to give their
  connections back;
- schema changes commit statement by statement, and an upgrade, a backup or a
  recovery can stop, or be overtaken, between any two of its steps;
- a release is accepted on documents that were gathered one after the other,
  at a target that may have changed in between.

## Modules

| Module | Models | How it corresponds to the code |
|---|---|---|
| `IngestLog` | what publishing promises | an append-only log with one notification per source and key, deliveries for the audience of one instant, truthful answers, "created" said once |
| `Ingest` | the publish handler, its producers and its faults | one action per statement of `persist_notification_idempotent` (`Lookup`, `Insert`, `Fanout`, `Commit`, `Relookup`), the token check, the answer; the other handlers appear by what they commit |
| `IngestProofs`, `InboxStreamProofs`, `InboxMutationsProofs`, `LoginThrottleProofs`, `WebSessionsProofs`, `AdminControlProofs`, `DatabaseLifecycleProofs`, `AcceptanceProofs` | TLAPS proofs about the module each is named after; `IngestProofs` also holds those about `Subscriptions`, which publishing reads, `InboxStreamProofs` those about `EventLoop`, in which the stream runs, and `AcceptanceProofs` those about what `Acceptance` composes. A module extended beside another has names of its own (`ToggleSpec`, `ProcessSpec`) | see Proofs |
| `DeliveryTable` | the `deliveries` table | operators for row ids, inserts and the queries of delivery_service.py, used by the two modules below |
| `InboxStream` | the server's side of the stream: table, session, generator, wire | `Ready`, `Check`, `List`, `ReadState`, `Emit` and `EmitState` cut `_inbox_event_stream` where other handlers can commit: at its queries and its yields |
| `WebInbox` | the web client of one stream | `LoadState` and `ReadList` are the two requests it sends at once, `ApplyPage` the merge with what is pending, `Handled` the three event handlers with the refetch of the list; `MarkShown`, `ReadCounts` and `ShowCounts` are the awaits of `mutateDelivery`; `Connect`, `Reconnecting`, `Offline` and `Online` are the EventSource, which an answer other than 200 closes for good, and the hook around it |
| `FlutterInbox` | the Flutter client of one stream | `ReadFirstList`, `Refresh` and `ShowList` are `_refresh`, `Started` is `_startStream`, `Connect`, `Receive`, `EndOfStream` and `Drop` the loop of `stream` |
| `InboxMutations` | read, unread, acknowledge, delete | `Select` is `_owned_inbox_row`; `Update` and `DeleteRow` are the flush by primary key; `Assign` gives the columns it sends |
| `Subscriptions` | subscribe, unsubscribe | `OwnedSubscription`, then `Write` in the transaction that commits it |
| `LoginThrottle` | the three recording functions and the check | `Cleaned`, `Fetched`, `Current`, `Failed` and `Forgiven` are `_cleanup`, `_bucket`, `_reset_if_elapsed` and the updates; one recording is one action because its first statement is a DELETE, which takes the lock |
| `WebSessions` | login, session check, logout, reset | each SELECT and each UPDATE of `require_user_session` and `principal_session_is_active` is an action |
| `AdminControl` | bootstrap, creating users, channels, identities, sources and tokens, audit | `RequireAdmin`, `ExistingAdmin`, `Privilege` and `Owner` (the identity of a source or token) are the SELECTs; `Insert` is the flush, `Commit` makes the row and its event visible; rows are a bag, because tokens have no unique name |
| `EventLoop` | the process: loop, worker threads, pool, write lock, body limit | a step of the loop needs `loop = Nobody`; what blocks on the loop keeps `loop`. `Authorise` and `Checkout` take a connection, `Flush` the lock; `Commit`, `Teardown` and `FinishTurn` give them back; `PoolTimeout` and `BusyTimeout` end waits |
| `DatabaseLifecycle` | migrations, backup, recovery, the schema check | `Statement` is one DDL statement that commits by itself, `CloseRevision` the transaction that ends a revision; the actions of one run of "backup create" are its file operations; `Start` is `verify_schema` |
| `Preflight` | preflight.py | `StartPreflight` runs the host checks; `NetworkCheck` is one request of the walk with the handling of its exceptions; `ToolDies` is an exception that is not handled; `WriteReport` |
| `RecoveryEvidence`, `MonitoringEvidence`, `BrowserEvidence` | the three evidence validators | one operator per section of `validate_evidence`; a document has the statements it denies, its form, and the values that are compared with one another |
| `MonitorRehearsal` | monitor_client.py | one action per command; `evaluate` is two, the probe and the alert |
| `Acceptance` | gathering evidence for one gate, the manifest, validate_pre_cutover_acceptance.py | `Verify` compares digests, `Judge` reads the files again and judges them; the operator's and the target's steps are around them |

`MCIngest`, `MCUserRequests`, `MCWebSessions` and `MCAcceptance` give names to
the model values and functions of a run and state its symmetry; `MCUserRequests`
explores `InboxMutations` and `Subscriptions`, which share no state, one at a
time. The variables marked "history" record
what properties compare with; no guard reads them, except that `Begin` of
AdminControl notes whether bootstrap was already closed.

How the modules compose: `Ingest` instantiates `IngestLog`, and the substitution
is the refinement mapping: the log's `notifs` and `deliveries` are the committed
ones. `Acceptance` extends `Preflight` and instantiates the three validators
and `MonitorRehearsal`; what the tools report is true of `deployed`, `service`
and `lack`, which the target's own actions change. `InboxStream` and
`InboxMutations` extend `DeliveryTable`; `WebInbox` and `FlutterInbox` extend
`InboxStream`, and share its table, session, generator and wire. `Ingest` takes subscriptions, accounts
and deletions as single steps, which is what `Subscriptions` and
`InboxMutations` show their commits to be.

## Runs

| Run | Asks | Instance |
|---|---|---|
| `ingest` | do racing, failing, repeated publishes implement the log, and is each retried one answered? | 2 producers, 1 source, 1 key (or none), 2 payloads, 1 user; 1 fault |
| `web_stream` | can the web client miss a delivery, or be sent one twice? | 2 notifications, batches of 2, lists of 1, 1 deletion or read mark, its own marks, 1 fault, rows of another user in between |
| `web_live` | is everything shown in the end, do the counts settle, is a revoked client signed out? | 2 notifications, batches and lists of 1, 1 deletion or read mark, 1 fault |
| `flutter_inbox` | can a Flutter client that has a cursor miss a delivery, and what is still sent after a revocation? | 3 notifications, batches of 2, 1 deletion or read mark, 1 fault or refresh |
| `user_requests` | do concurrent mutations undo or misdirect one another? did each answered toggle take effect? | 2 users, 2 requests at a time, 4 in all, 2 notifications; 3 toggles at a time, 5 in all |
| `login_throttle` | how far can the limits be overshot or escaped? | 2 attempts at a time, 2 accounts, limits 3 and 2, window, cooldown and time to live of 2 minutes, 4 minutes |
| `web_sessions` | is revocation complete and final, is expiry justified? | 1 login and 2 cookie requests at a time, 2 sessions, 1 reset, 4 minutes; lifetime 4, idle 3, touch 2 |
| `admin_control` | does bootstrap stay closed, is every row audited once, was every actor entitled? | 2 requests at a time, 4 in all, 2 names |
| `event_loop` | does every wait end, and who waits on whom? | 2 threaded requests, 1 ntfy publish, 1 stream, 2 connections, bodies of 2 chunks at most against a limit of 1 |
| `database_lifecycle` | what can be served, restored or left behind? | any starting revision, 1 session, 2 overlapping backups, 2 crashes |
| `acceptance` | can a candidate be accepted that was not examined, and what do the rehearsal's alerts prove? | 2 revisions, one defective; 1 deployment, 2 outages, 2 sessions, backups or alerts, 2 browser checks; rehearsal: 4 changes, 3 messages |

One more run ends in a counterexample: the property is a sentence of the
repository, and the code does otherwise.

| Run | Sentence | What the code does |
|---|---|---|
| `broken_upgrade` | src/backend/alembic/versions/0006_notification_idempotency.py:20, "Batch mode keeps this migration portable to the SQLite test/development database" | batch mode drops and rebuilds `notifications` while alembic/env.py's engine enforces foreign keys; with any delivery in the database the DROP fails, the rollback leaves `_alembic_tmp_notifications`, and every retry fails on it. The tests upgrade databases that have users and sessions, but none that has a delivery |

### Divergences without a run

They are visible in the models. The properties of the passing runs name them
instead of hiding them, in their conditions or in the comment above them.

- After an answer other than 200 (a 500 from a full pool or a locked database, a
  502 from the gateway) a browser closes its EventSource for good
  (useInboxStream.ts:187-192). The web client says "Live updates reconnecting;
  loaded results may be stale until recovery" (App.tsx:393), polls `/me` and
  never connects again, unless the network goes and comes back (`Connect` of
  WebInbox; `Stranded` in its liveness properties).
- A streamed delivery is pending in the web client until a list has it, and
  lists keep what is pending (App.tsx:211; `Merged`). If another client deletes
  it before the next list is read, it stays on a live client, where
  USER-MANUAL.md:35 has the client "reconcile against authoritative delivery
  state".
- The counts that the web client asks for after its own mark are shown when they
  arrive (App.tsx:478; `ShowCounts`), also over newer ones of the stream, which the
  stream does not send again: README.md:23's "authoritative counts" are then wrong
  until the next change. `CountsConverge` is checked with `Marks` FALSE.
- A Flutter client whose first list was empty, or failed, sends no cursor
  (main.dart:872), and the server starts its stream at the newest delivery: what
  came after the list, or during a reconnection, is not sent, in spite of
  README.md:23's "persisted replay cursors" and "reconnect recovery" (`start` in
  the properties of FlutterInbox).
- A list replaces what the Flutter client displays (main.dart:851; `ShowList`);
  read before a streamed delivery and applied after it, it takes the delivery off
  the screen until the next list.
- A Flutter client whose session ended goes on showing its inbox: the loop of its
  stream ends at the 401 without a word (`Connect` of FlutterInbox;
  main.dart:262).
- A failed verification whose recording meets a locked database, or a crash, is
  answered 500 and counted by no bucket (`RecordingFails` of LoginThrottle;
  login_security.py:202-224). The properties about limits are about the
  verifications that were answered.
- A publish that committed can be answered 500: `session.refresh` checks a
  connection out again and may not get one (notification_service.py:139,
  `CheckoutAgain` and `PoolTimeout` of EventLoop). A producer with a key may ask
  again; an ntfy publish has none, and waits on the loop.
- A delivery's owner is checked by a SELECT, and the row is changed by primary
  key in a later transaction; if the row is deleted and its id reused in
  between, another user's delivery changes
  (docs/end-user-authentication-and-delivery-state.md:93; `reused` of
  InboxMutations).
- A login that verified the old password before a reset committed creates its
  session after it (docs/security.md:44), and may write its rehash after it and
  so restore the old password (docs/security.md:43; `CreateSession` and
  `Rehash` of WebSessions).
- Two bootstrap requests in flight together, with different usernames, both
  pass both checks and both commit (docs/security.md:39; AdminControl).
- The second of two concurrent first subscriptions fails the unique constraint
  and is answered 500 (`Write` of Subscriptions), where docs/subscriptions.md:13
  calls repeating it idempotent.
- `_cleanup` deletes a bucket by the time to live alone, and config.py asks only
  that each setting be positive: a cooldown or a window longer than the time to
  live is cut short (app/config.py; the conditions of the last two theorems of
  LoginThrottle). The defaults are far from it.
- A delivery that gets the id of a deleted one is never streamed to a client
  whose cursor is that id (`reused` of InboxStream;
  docs/target-production-acceptance.md:83).
- A snapshot taken while an upgrade runs can verify and yet not be upgradable,
  and two overlapping runs of "backup create" with one destination overwrite
  each other's copy (`disturbed` and `overlapped` of DatabaseLifecycle). The
  candidate's snapshot tool asks for the tables of its own release and so
  refuses an older database, which docs/release-deployment.md:69 wants it to copy.
- An upgrade that meets a running backup at a locked database stops half way
  (`LockedOut` of DatabaseLifecycle), as after a crash.
- The aggregate validator reads each file once for its digest and again to judge
  it (`rewritten` of Acceptance). A deployment between the opening of a browser
  session and its checks, or during the preflight's walk, is invisible to all
  validators (the last conjunct of `AcceptedCandidateWasExamined`). The
  preflight ends without a report when a connection is closed before its answer.
- docs/pre-cutover-acceptance-evidence.md and pre_cutover_acceptance_contract.json
  speak of monitoring evidence of schema version 2, the validator asks for 3;
  notify_monitoring_contract.json says that ntfy was retired, the aggregate
  validator requires it active. Neither version is compared.
- docs/retention.md:23 says the preview needs `X-GoreeCloud-Admin-Token`, while
  app/routers/retention.py:23 requires an administrator's session.

### What the properties say

- `OneNotificationPerKey`, `AnswersAgree`, `ImplementsLog`
  (docs/idempotent-ingestion.md): one notification per source and key; every
  answer ever given for the key names it and tells the truth about its content;
  each publish reaches exactly the audience of one instant.
- `ViewIsComplete`: a web client that shows "live", and has neither an error nor
  a request under way, displays every delivery up to its cursor that its last
  list speaks for. `ReconnectReplays`, `NothingIsReplayed`: what lies between its
  cursor and the open stream's is on the wire, and nothing it has is sent again.
- `RevocationStopsTheStream`: a revoked session is sent at most the rest of one
  batch. `RevokedClientSignsOut`: and is signed out in the end, also when its
  EventSource is closed, because it polls while it says "reconnecting".
- `EveryDeliveryIsShown`, `CountsConverge`: nothing stays unshown unless the
  client says that it may (by its state, an error or "load more"), and a count
  read too early is corrected in a client whose user marks nothing.
- `NothingIsMissed`, `EveryDeliveryIsGot`: a Flutter client whose stream was
  started with a cursor has got what is at or below its cursor, and gets the
  rest whatever fails.
- `AcknowledgementSticks`, `DeletedStaysDeleted`, `OnlyOwnDeliveries`: what a
  user has been told about a delivery stays true whatever was in flight.
- `AnsweredAsAsked`: a toggle that is answered took effect while it ran, even if
  it wrote nothing because of a row it had read earlier.
- `OvershootIsInFlight`, `AnsweredGuessesAreBounded`, `BlockOutlastsArrivals`,
  `UnrelatedHistoryIsKept`: a limit is exceeded only by attempts that were being
  verified; of failures that were answered, any stretch as long as the window
  sees at most what two windows can count, less two: 2 * (limit + attempts in flight - 2). The bound is reached,
  and is for a cooldown that is not shorter than the window. A block is lifted
  early only by such an attempt;
  a success forgives only its own account.
- `ResetEndsEverySession`, `RevokedStaysRevoked`, `ExpiryIsJustified`: a reset
  ends every session there was, late writes of `last_seen_at` revive nothing,
  and a session expires idle only if it was left unused for more than the idle
  time less the touch interval.
- `BootstrapStaysClosed`, `EveryRowHasOneEvent`, `ActorsHeldThePrivilege`: a
  bootstrap that arrives after one committed is refused whatever became of its
  administrator; the audit history has one event for each row; whoever commits
  was an administrator at some moment of the request.
- `CircularWaitNeedsAFailure`: the loop waits for a holder of the write lock that
  itself waits for the loop only if that holder's transaction failed; the busy
  timeout then ends the wait. `IdleClientsHoldNothing`: neither a stream between
  turns nor a request whose body is not complete keeps a connection.
  `EveryCallEnds`: every request whose body arrived is answered, every turn ends,
  although the loop may come to wait for connections that only it can return.
- `ServesCompleteSchemaOnly`: `verify_schema` looks at the tables and four
  columns, and that is enough: what passes it has the whole schema of head,
  whatever was interrupted, copied and restored before. `ManifestDescribesTheCopy`,
  `EndedSessionsStayEnded`: a manifest describes the copy beside it wherever a
  backup stops, and recovery revives no session that was ended.
  `FailuresAreExplained`: an upgrade whose statement is refused met what an
  interruption left, or failed in revision 0006 with deliveries; the only other
  way to fail is the lock of a running backup.
- `AcceptedCandidateWasExamined`, `JudgedAsPinned`, `RestoredFromTheNamedSnapshot`:
  what is accepted is a revision that ran at the final origin while each gate's
  evidence was gathered, at an installation that falls short of nothing; what
  was judged is what the manifest pinned; the snapshot named in recovery evidence
  holds what was restored. The operator may name any candidate, mix pieces of
  different work, repeat failed checks and exchange files.
- `AlertsTellWhatHappened`: a validated DOWN means that the application was
  stopped and not that the way to it broke, and the RECOVERED behind it that it
  came up afterwards, in whatever order commands run, fail and are repeated.

### Bounds, and why they are enough

- Two requests in flight show every race of one handler's read with another's
  write; toggles are three, `web_sessions` has two besides a login. In
  `user_requests` either module is explored while the other is in its initial
  state: they share no variable and no property speaks of both.
- One fault per run of `ingest` is any one of lock timeout, failed transaction,
  lost answer, crash or duplicate of an answered request; retries are not
  bounded, and two producers with the same key are duplicates of each other
  besides. The instance with two faults has 1.2 million states and passes as
  well; it takes too long to be a run here. `MCInit` uses that payloads, and
  producers, are interchangeable.
- In `web_stream` one of two notifications is in the list or the state and the
  other overtakes it, or both come in one batch; a list of one is full with one
  delivery, so that "load more" matters; a fault is a failed request, a lost
  connection or a time offline, at any moment. `web_live` is the same with batches
  of one and no other user. Deleting and marking read share one bound, since each
  is one change the stream has not counted yet. The generator's five-second
  interval is abstracted to a choice at each turn.
- In `flutter_inbox` one of three deliveries makes the cursor, one is lost with a
  connection and one comes in the same batch; revocation may come between the
  two of a batch. A refresh counts as a fault does: it moves no cursor, and the two
  together (3.2 million states) pass as well but take too long for a run. A list
  of 100 is never full.
- In `login_throttle` the limits (3 and 2) and the two-minute windows are small
  multiples of the clock's step and keep the order of the real settings. The
  clock runs for twice the window and the cooldown, enough for a block to be
  placed, to run out and to be placed again.
- In `web_sessions` lifetime > idle > touch, as config.py demands.
- In `event_loop` two connections are fewer than the four tasks, so the pool runs
  out; a body is refused at its second chunk.
- In `database_lifecycle` two crashes interrupt an upgrade and its retry, or a
  backup and the recovery from it.
- In `acceptance` evidence of one gate is gathered (`focus`), the files of the
  other gates are sound ones of either revision, because gates meet only in
  the manifest. One deployment is enough for two revisions to be seen during
  the work; a manifest is assembled once and a drill ends when its evidence is
  written. Acceptance is reached for every gate. The installation falls short
  of at most one thing, of each kind a validator or the preflight tells apart.

Deadlock checking is off because producers, users and the bounds do stop.

### Fairness

- `Ingest`: weak fairness of each handler's next step (the thread pool runs what
  it has started) and of the producer's retry, which docs/idempotent-ingestion.md
  asks of producers. Not of faults, other requests or the database's other
  writers. Nothing stronger is needed for the lock, because only finitely many
  transactions compete in an instance.
- `WebInbox`: weak fairness of the generator (a loop) and of the client's own
  steps: an answer that is not lost arrives, the browser reads what is there,
  opens an EventSource that is not closed again after a break, and polls by its
  timers. Strong fairness of a turn in which the counts are due, because the
  interval is measured on a clock that keeps running. Nothing is assumed about
  publishers, users or the network: a client that is offline may stay so.
- `FlutterInbox`: weak fairness of the generator and of the client's loop, which
  waits for nothing but an answer or three seconds.
- `EventLoop`: strong fairness of the loop's steps, because asyncio takes ready
  callbacks in the order in which they became ready, although a ready step is
  disabled whenever another holds the loop; weak fairness of a thread, or of what
  runs on the loop, including the two timeouts. Clients owe nothing: a body may
  never arrive.

## Proofs

Each theorem holds for every value of the constants that satisfies the named
assumptions of its module, where a run shows the same property on one instance.

| Module | Theorem | States |
|---|---|---|
| `IngestProofs` | `TypeCorrect`, `AtMostOncePerKey`, `AnswersAlwaysAgree`, `Refinement` | `TypeOK`, `OneNotificationPerKey`, `AnswersAgree`, `ImplementsLog` |
| | `TogglesTakeEffect`, of `Subscriptions` | `AnsweredAsAsked` |
| `InboxMutationsProofs` | `TypeCorrect`, `AcknowledgementsStick`, `DeletionsStick`, `DeliveriesAreOwn` | `TypeOK`, `AcknowledgementSticks`, `DeletedStaysDeleted`, `OnlyOwnDeliveries` |
| `InboxStreamProofs` | `TypeCorrect`, `NothingReplayed`, `RevocationStops` | `TypeOK`, `NothingIsReplayed`, `RevocationStopsTheStream` |
| | `ViewsAreComplete`, `ReconnectionsReplay`, of `WebInbox`, as the three above | `ViewIsComplete`, `ReconnectReplays` |
| | `CircularWaits`, `IdleClientsHoldNoConnection`, of `EventLoop` | `CircularWaitNeedsAFailure`, `IdleClientsHoldNothing` |
| `LoginThrottleProofs` | `OvershootIsBounded` | `OvershootIsInFlight` |
| | `BlocksOutlastArrivals`, with `Cooldown <= Ttl` | `BlockOutlastsArrivals` |
| | `LoginsForgiveTheirAccount`, with `Window <= Ttl` | `UnrelatedHistoryIsKept` |
| | `AnsweredGuessesBounded`, with `Window <= Cooldown` and `Window <= Ttl` | `AnsweredGuessesAreBounded` |
| `WebSessionsProofs` | `TypeCorrect`, `ResetsEndSessions`, `RevocationIsFinal`, `ExpiriesAreJustified` | `TypeOK`, `ResetEndsEverySession`, `RevokedStaysRevoked`, `ExpiryIsJustified` |
| `AdminControlProofs` | `BootstrapIsFinal`, `CommitsAreAuthorised`, `HistoryIsComplete` | `BootstrapStaysClosed`, `ActorsHeldThePrivilege`, `EveryRowHasOneEvent` |
| `DatabaseLifecycleProofs` | `OnlyCompleteSchemasAreServed`, `UpgradesFailAsExplained`, `RecoveryRevivesNoSession`, `ManifestsDescribeTheirCopy` | `ServesCompleteSchemaOnly`, `FailuresAreExplained`, `EndedSessionsStayEnded`, `ManifestDescribesTheCopy` |
| `AcceptanceProofs` | `Examined`, `PinnedIsJudged`, `NamedSnapshot`, `AlertsAreTrue` | `AcceptedCandidateWasExamined`, `JudgedAsPinned`, `RestoredFromTheNamedSnapshot`, `AlertsTellWhatHappened` |

Every module follows one pattern: an inductive invariant (`IInv` of publishing,
`ToggleInv` of a toggle, `ProcessInv` of the process, `Evidence` and `DrillHolds` of acceptance, `Inv` elsewhere,
with `GuessInv` on top of it for the guesses), a lemma for each action that keeps it, and the
theorems from it. Hardly a property is inductive as it stands; what the
invariants add is the argument.

**Ingestion.** `OneNotificationPerKey` fails at `Commit` unless
the key is known to be free there, and it is free because it was when `Insert`
took the lock and no one else commits while the lock is held. The invariant
`IInv` therefore adds: a request holds the lock exactly between its insert and
the end of its transaction (`LockHeld`); the lock's holder has a free key
(`KeyIsFree`); what fanout read is still the audience (`FanIsCurrent`); only
keyed requests look keys up (`KeyedLookups`); a pending result, and every answer
given, is true of the notification it names (`ResultsTruthful`,
`AnswersTruthful`), which stays so because the log only grows; and "created" is
pending or said once (`CreatedOnce`), which the refinement needs at `Respond`.
`NextIInv` has a step for every action. In the refinement `Commit` is the
publish, `Respond` is the answer, the other handlers' commits are the log's
rearrangements and dismissals, and every other step changes nothing it can see.
Assumed: "nobody" is not a producer, "no key" is not a key, permissions and
channels are of their types, the bound is a number.

**The deliveries table.** Both modules about it begin with what its queries
return: the largest id is one (from the library's pigeonhole principle, as
there is no induction over data), the next row id is free, a fanout adds one
row for each user above all others, and `ListAfter` is an ascending prefix of
the ids above the cursor (ranks are a permutation).

**Mutations.** What a request confirms is what its SELECT saw, and by the time
it writes, another delivery may have the id. The invariant follows each
delivery by its user and note, which are never used twice: where a delivery
that a request saw can still be, and which confirmed acknowledgements and
deletions a late write can still meet. `AcknowledgementSticks` needs no
exception for reused ids, although `OnlyOwnDeliveries` does. Assumed: user ids
are integers, bounds are numbers.

**The stream.** A delivery travels from the table through a batch and the wire, or
through a list, to the web client while the table changes under it. Ids ascend
from the client's cursor to the wire, the stream's cursor and its batch
(`Ascending`), which is why nothing is replayed; what the stream sends after a
revocation is counted with what it still holds (`Quota`); and `Connected` says
which stages of client and generator go together.

That the view is complete is no matter of the cursor alone, because the cursor
comes from the counts, which are read beside the list. `NothingIsSkipped` says of
the stream: at every place on the way, what lies between two cursors is ahead on
the way, except rows whose id had been used before. `PageIsTrue` says of a list
that has been read that its rows are those of the table, if their ids are new.
`ViewFollows` joins them: for a client that is live, has no error and no list
still to be read, what is at or below its cursor, and not left to "load more", is
displayed; or, when a list is about to be applied, it is in that list, or displayed
and pending, which the list preserves. What establishes this is a list that is
read while the client is live: `ready` and `state` give up the list of before and
ask for another, and what that one lacks of its range is above the cursor.
Assumed: the user is not among the others, limits are positive, bounds are
numbers.

**Login limits.** A bucket at its limit is blocked; while that block lasts, its
failures and the attempts it has let through stay, together, within the limit
and the attempts there are (`Limited`): an attempt is let through only by a
bucket that does not block it, and one that is recorded is no longer in flight.
`Dated` relates what `_cleanup` compares with what windows and blocks compare.

How many guesses a source gets through is harder, because the bucket forgets.
`GuessInv` relates the bucket to the recorded failures that are younger than a
window, seen from any minute t: those since t are fewer than the failures it
counts if its window was opened before t (`Counted`), and otherwise exceed them
by at most what the windows before it left (`Forgotten`). A window that is given
up because it is over was opened before t, so its first failure does not count;
and if it had reached the limit, with a block that still ran, the attempt that
gives it up was let through before the block and is not counted either
(`ForgottenIs`). A block that has run out, or a bucket that was cleaned up,
leaves nothing: both take a window without failures, which is where the cooldown
and the time to live have to be as long. A limit of one and one attempt at a
time give one failure, and the statement has that case.

Assumed: settings are positive, the attempts are finitely many, the bound on the
clock is a number; and, for the theorems the table says so of, how the window,
the cooldown and the time to live compare. The defaults satisfy all three
comparisons (config.py:110-124: 5 minutes, 5 minutes, 24 hours), and config.py
checks none.

**Sessions.** A request acts on what it read of its session some steps ago. The
invariant says that this is not later than what the row says now, and that a
session found expired is still expired when it is ended (`ReadsHold`);
`last_seen_at` trails the last use by less than the touch interval
(`SeenInTime`). Assumed: touch < idle, as config.py checks, and the bounds are
numbers.

**Administration.** A request that is about to write has checked what it relies on
(`Authorised`, `Owned`, `Closed`, `Locked`: one conjunct for each check), the
administrators of now have been administrators during every request
(`Ruling`), and the events are counted by name against the rows (`Accounted`).
Only the holder of the lock has a name that is known to be free. Assumed:
"nobody" is neither a request nor a name.

**The process.** The lock is held inside a transaction or by one that failed
(`LockIsInATransaction`), and a connection by a task that is being handled
(`HoldersAreAtWork`): the second checkout of a handler after its commit, and
of a turn after its touch, are included. Assumed: "nobody" is no task, and the pool is not empty.

**Subscriptions.** What a request remembers of the row since it began includes the
row as it is now (`ToggleInv`), and a write is itself remembered; so an answer
that agrees with no state of that time would have to disagree with the row it
was taken from. It assumes nothing: a request that fails because another one has
added the row is a step like any other, and it is not answered.

**The database file.** The invariant speaks of every file, in use, copied or half
copied: its schema is that of its version, or that and a beginning of the next
revision (`AllReached`). It rests on a fact about the revisions, proved
statement by statement: what each creates is new, and the same whatever
rows there are. `verify_schema` then suffices because a beginning of revision
6 lacks the column it looks for. The rows that keep revision 6 from passing, and
the temporary table it leaves, are followed by `Undisturbed`; sessions, and
the manifest with its copy, have invariants of their own (`Revived`,
`Manifested`). Assumed: the bound is a number.

**Acceptance.** The invariant `Evidence` follows a document from the work to the
verdict. `FileHolds` says what a file is worth: if it would pass its validator,
its candidate was seen at the place it names, and if it is of the gate that was
worked on, the installation lacks nothing the validator looks at, a defective
candidate was not the only revision seen, and a restore was from the snapshot it
names (`Backed`). Files may be exchanged, so the same is said of what the manifest
pinned (`ManifestHolds`), and `CheckHolds` carries it from the comparison of
digests to the judgement, as long as no file is replaced between them. While
evidence is gathered, `SessionsHold` and `BackupsHold` say what the operator's
drill shows so far, and `WalkHolds` what the preflight's walk shows at each
request if every entry so far passed. For each validator a lemma (`RecoveryNotices`, `MonitoringNotices`,
`BrowserNotices`) says that an accepted document leaves no shortcoming that
the validator looks at. Assumed: the contracts demand at least one check, as
_load_contract does, and an installation falls short of what its gate or the
manifest states. A shortcoming that no document speaks of is not found, and the
theorem does not say so.

For the rehearsal `DrillHolds` says that a DOWN, published or about to be, has an
outage behind it, and a RECOVERED after it the end of one; the probe and the alert are
two steps and only what the probe saw is carried from one to the other.

### Only model-checked

- Liveness: `EveryRequestIsAnswered`, `EveryDeliveryIsShown`, `CountsConverge`,
  `RevokedClientSignsOut`, `EveryDeliveryIsGot`, `EveryCallEnds`. The proof system
  does not do fairness.
- The Flutter client: `NothingIsMissed`.
- `UpgradeSucceeds`, which the run `broken_upgrade` refutes.

Every other property of a run is a theorem. The type invariants of
`InboxMutations` and `WebSessions` are theorems and no part of a run. The conditions under which some are
proved (the comparisons of settings) hold in the run's instance.

## Not modelled

- The Android service: its hazard is the platform's service lifecycle, which is
  not in this repository. The web panels: requests one after the other, whose
  errors are shown.
- The retention preview: separate counting queries of a report that changes
  nothing and that nothing acts on.
- Token scopes and expiry, and the ntfy route's choice of a source for a topic:
  conditions of a query. That choice can become ambiguous (409) when an
  administrator adds a second source to an identity.
- Of the web client: filters and search, "load more" (whose page is appended, and
  of which `ViewIsComplete` says nothing), its own deletions (the awaits of a
  mark, with the row gone), alerts. Of the Flutter client: the cursor that a
  response moves when it ends inside an event (main.dart:292).
- Text: titles, bodies, slugs, priorities, the wording of answers, and the list's
  filters. Passwords and CSRF tokens are opaque. The request log.
- Downgrades of the schema, which no procedure in docs/ uses.
- deploy/readiness, tools/dependency_license_inventory.py and
  validate-device-acceptance.py: scripts that compare a checkout, a disposable
  stack or one document with constants.
- The operator is taken to write the deployed revision into monitoring evidence, as
  the tools print no revision to copy: that the candidate was seen is, for that
  gate, assumed of the operator and not shown by the validator.
- In recovery evidence `alembic_revision_after_restore` and the times of capture
  are not compared with anything by the validators, and so not by the model.

## Plan

1. `Ingest` with `IngestLog` and its proofs; `DeliveryTable`, `InboxStream` with
   `WebInbox` and `FlutterInbox`, `InboxMutations`, `Subscriptions`,
   `LoginThrottle`, `WebSessions`, `AdminControl` (done).
2. `EventLoop`, `DatabaseLifecycle`, and `Acceptance` with the modules it
   composes (done).
3. `SubscriptionFanout`: `Subscriptions` step by step beside publishing; after an
   answered unsubscribe no later publish delivers (docs/subscriptions.md:21). It
   would take the place of `Subscriptions` in `user_requests`.
4. `ProducerTokens`: issue, scopes, expiry and revocation, composed with
   `Ingest`'s authorisation and the ntfy route's resolution of topics.

Theorems worth proving next: `NothingIsMissed` of the Flutter client, from what
`NothingIsSkipped` already says of the stream; for a cooldown shorter than the
window, how many guesses a source gets through.
