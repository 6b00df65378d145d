------------------------------ MODULE EventLoop ------------------------------
(***************************************************************************)
(* One uvicorn process: an event loop, the worker threads of synchronous   *)
(* handlers, the connection pool and SQLite's write lock.                  *)
(*                                                                         *)
(* Requests are native publishes and reads: their dependency and their     *)
(* handler run in worker threads, but the loop starts each of them and     *)
(* closes the session afterwards (get_db).  Posts are ntfy publishes: the  *)
(* handler is a coroutine whose blocking database calls run on the loop.   *)
(* Streams are event streams: every turn of the generator runs on the      *)
(* loop, with a session of its own.  What runs on the loop and waits for a *)
(* connection or for the write lock keeps everything else waiting.         *)
(***************************************************************************)
EXTENDS Naturals, FiniteSets

CONSTANTS
    Requests,   \* HTTP requests of synchronous handlers
    Posts,      \* HTTP requests of publish_ntfy_compatible
    Streams,    \* clients of the event stream
    Nobody,     \* no task
    PoolSize,   \* connections of the pool, overflow included
    BodyLimit   \* request_body_limit, in chunks

ASSUME NobodyAssumption == Nobody \notin Requests \cup Posts \cup Streams
ASSUME SizeAssumption == PoolSize \in Nat \ {0} /\ BodyLimit \in Nat

Calls == Requests \cup Posts
Tasks == Calls \cup Streams

VARIABLES
    at,        \* per task: where it is
    received,  \* per call: chunks of its body so far
    aborted,   \* per call: the client went away before its body was complete
    answer,    \* per task: what the client was sent
    loop,      \* the task whose code the loop executes, or Nobody
    conn,      \* the tasks that hold a connection
    lock       \* the task that holds the write lock, or Nobody

processVars == <<at, received, aborted, answer, loop, conn, lock>>
body == <<received, aborted>>
database == <<conn, lock>>

Goto(t, place) == at' = [at EXCEPT ![t] = place]
Answer(t, status) == answer' = [answer EXCEPT ![t] = status]
ReleaseLock(t) == lock' = IF lock = t THEN Nobody ELSE lock

ProcessInit ==
    /\ at = [t \in Tasks |-> IF t \in Streams THEN "connect" ELSE "headers"]
    /\ received = [t \in Calls |-> 0]
    /\ aborted = [t \in Calls |-> FALSE]
    /\ answer = [t \in Tasks |-> "none"]
    /\ loop = Nobody
    /\ conn = {}
    /\ lock = Nobody

-----------------------------------------------------------------------------
(* RequestBodyLimitMiddleware: the whole body is received before the       *)
(* application sees the request.                                           *)

(* A declared length beyond the limit is refused unread. *)
Declared(t) ==
    /\ loop = Nobody /\ at[t] = "headers"
    /\ \/ Goto(t, "done") /\ Answer(t, "413")
       \/ Goto(t, "body") /\ UNCHANGED answer
    /\ UNCHANGED <<body, loop, database>>

ReceiveChunk(t) ==
    /\ loop = Nobody /\ at[t] = "body"
    /\ received' = [received EXCEPT ![t] = @ + 1]
    /\ IF received'[t] > BodyLimit
         THEN Goto(t, "done") /\ Answer(t, "413")
         ELSE at' \in {at, [at EXCEPT ![t] = "arrived"]} /\ UNCHANGED answer
    /\ UNCHANGED <<aborted, loop, database>>

Disconnect(t) ==
    /\ loop = Nobody /\ at[t] = "body"
    /\ aborted' = [aborted EXCEPT ![t] = TRUE]
    /\ Goto(t, "arrived")
    /\ UNCHANGED <<received, answer, loop, database>>

-----------------------------------------------------------------------------
(* Steps of the loop for a call: start the dependency, start the handler,  *)
(* close the session and finish the response.                              *)

(* FastAPI reads a declared body before the dependencies: an incomplete    *)
(* one is answered with 400 there.                                         *)
StartDependency(t) ==
    /\ loop = Nobody /\ at[t] = "arrived"
    /\ IF t \in Requests /\ aborted[t]
         THEN Goto(t, "done") /\ Answer(t, "400")
         ELSE Goto(t, "dependency") /\ UNCHANGED answer
    /\ UNCHANGED <<body, loop, database>>

(* publish_ntfy_compatible reads the body itself: ClientDisconnect. *)
StartHandler(t) ==
    /\ loop = Nobody /\ at[t] = "authorised"
    /\ Goto(t, IF t \in Posts /\ aborted[t] THEN "failed" ELSE "handler")
    /\ loop' = IF t \in Posts /\ ~aborted[t] THEN t ELSE Nobody
    /\ UNCHANGED <<body, answer, database>>

(* get_db's session.close() rolls back what was not committed;             *)
(* RequestObservabilityMiddleware turns the exception into an answer.      *)
Teardown(t) ==
    /\ loop = Nobody /\ at[t] \in {"returned", "failed"}
    /\ Goto(t, "done")
    /\ Answer(t, IF at[t] = "returned" THEN "ok" ELSE "500")
    /\ conn' = conn \ {t}
    /\ ReleaseLock(t)
    /\ UNCHANGED <<body, loop>>

-----------------------------------------------------------------------------
(* What a call does with the database: in a worker thread, or, in the      *)
(* handler of a Post, on the loop.                                         *)

Leave(t) == loop' = IF loop = t THEN Nobody ELSE loop

(* require_scope: the first query checks a connection out.  It stays with  *)
(* the session until commit or close.                                      *)
Authorise(t) ==
    /\ at[t] = "dependency"
    /\ Cardinality(conn) < PoolSize
    /\ conn' = conn \cup {t}
    /\ at' \in {[at EXCEPT ![t] = "authorised"], [at EXCEPT ![t] = "returned"]}
    /\ UNCHANGED <<body, answer, loop, lock>>

(* A handler that only reads, or rejects the request. *)
HandleRead(t) ==
    /\ at[t] = "handler"
    /\ Goto(t, "returned")
    /\ Leave(t)
    /\ UNCHANGED <<body, answer, database>>

(* The flush of the INSERT takes the write lock. *)
Flush(t) ==
    /\ at[t] = "handler" /\ lock = Nobody
    /\ lock' = t
    /\ Goto(t, "writing")
    /\ UNCHANGED <<body, answer, loop, conn>>

(* Mutant of Commit: the transaction is left to the end of the request. *)
CommitInTeardown(t) ==
    /\ at[t] = "writing"
    /\ Goto(t, "returned")
    /\ Leave(t)
    /\ UNCHANGED <<body, answer, database>>

(* session.commit() ends the transaction and returns the connection; the   *)
(* handler goes on to session.refresh, and a Post keeps the loop.          *)
Commit(t) ==
    /\ at[t] = "writing"
    /\ Goto(t, "again")
    /\ lock' = Nobody
    /\ conn' = conn \ {t}
    /\ UNCHANGED <<body, answer, loop>>

(* The INSERT of a request with a key meets the unique constraint: the     *)
(* rollback returns the connection, and the handler looks the winner up.   *)
LoseRace(t) ==
    /\ at[t] = "handler" /\ lock = Nobody /\ t \in Requests
    /\ Goto(t, "again")
    /\ conn' = conn \ {t}
    /\ UNCHANGED <<body, answer, loop, lock>>

(* The refresh, or the second lookup, checks a connection out once more.   *)
CheckoutAgain(t) ==
    /\ at[t] = "again"
    /\ Cardinality(conn) < PoolSize
    /\ conn' = conn \cup {t}
    /\ Goto(t, "returned")
    /\ Leave(t)
    /\ UNCHANGED <<body, answer, lock>>

(* An exception after the flush: nothing is rolled back before close. *)
TransactionFails(t) ==
    /\ at[t] = "writing"
    /\ Goto(t, "failed")
    /\ Leave(t)
    /\ UNCHANGED <<body, answer, database>>

-----------------------------------------------------------------------------
(* Streams: inbox_stream authenticates, _inbox_event_stream polls.         *)

StartTurn(s) ==
    /\ loop = Nobody /\ at[s] \in {"connect", "idle"}
    /\ loop' = s
    /\ Goto(s, IF at[s] = "connect" THEN "connecting" ELSE "turn")
    /\ UNCHANGED <<body, answer, database>>

Checkout(s) ==
    /\ at[s] \in {"connecting", "turn", "listing"} /\ s \notin conn
    /\ Cardinality(conn) < PoolSize
    /\ conn' = conn \cup {s}
    /\ UNCHANGED <<at, body, answer, loop, lock>>

(* What ends a turn: the response has started, and the loop is free. *)
Yield(s) ==
    /\ loop' = Nobody
    /\ Goto(s, "idle")
    /\ Answer(s, "started")

(* Mutant of FinishTurn: the session is a dependency of the request. *)
FinishTurnPinned(s) ==
    /\ at[s] \in {"connecting", "turn", "listing"} /\ s \in conn
    /\ Yield(s)
    /\ UNCHANGED <<body, database>>

(* The session block ends before the next event is yielded. *)
FinishTurn(s) ==
    /\ at[s] \in {"connecting", "turn", "listing"} /\ s \in conn
    /\ Yield(s)
    /\ conn' = conn \ {s}
    /\ UNCHANGED <<body, lock>>

(* The check of the session found that it must write last_seen_at, or a    *)
(* revocation.                                                             *)
MustWrite(s) ==
    /\ at[s] \in {"connecting", "turn"} /\ s \in conn
    /\ Goto(s, "touching")
    /\ UNCHANGED <<body, answer, loop, database>>

(* It takes the write lock for a moment; the commit returns the            *)
(* connection.  A turn that goes on needs one again for its list.          *)
Touch(s) ==
    /\ at[s] = "touching" /\ lock = Nobody
    /\ conn' = conn \ {s}
    /\ \/ Yield(s)
       \/ answer[s] = "started" /\ Goto(s, "listing") /\ UNCHANGED <<answer, loop>>
    /\ UNCHANGED <<body, lock>>

(* The client goes away; it may come back. *)
Hangup(s) ==
    /\ at[s] = "idle" /\ loop = Nobody
    /\ Goto(s, "connect")
    /\ Answer(s, "none")
    /\ UNCHANGED <<body, loop, database>>

(* An exception ends the turn.  Before the response has started it becomes *)
(* a 500, afterwards it breaks the stream; the client connects again.      *)
BreakStream(s) ==
    /\ Goto(s, "connect")
    /\ Answer(s, IF answer[s] = "started" THEN "broken" ELSE "500")
    /\ loop' = Nobody
    /\ conn' = conn \ {s}

-----------------------------------------------------------------------------
WaitsForConnection(t) ==
    t \notin conn /\ at[t] \in {"dependency", "again", "connecting", "turn", "listing"}
        /\ Cardinality(conn) = PoolSize
WaitsForLock(t) ==
    at[t] \in {"handler", "touching"} /\ lock \notin {Nobody, t}

(* Mutant of PoolTimeout: the pool is built without a timeout. *)
PoolWaits(t) == FALSE /\ UNCHANGED processVars

(* QueuePool's timeout of 30 s.  For a Post at "again" it is the loop that  *)
(* waits, and a publish that committed is answered with 500.               *)
PoolTimeout(t) ==
    /\ WaitsForConnection(t)
    /\ IF t \in Streams
         THEN BreakStream(t)
         ELSE Goto(t, "failed") /\ Leave(t) /\ UNCHANGED <<answer, conn>>
    /\ UNCHANGED <<body, lock>>

(* SQLite's busy timeout of 5 s: "database is locked". *)
BusyTimeout(t) ==
    /\ WaitsForLock(t)
    /\ IF t \in Streams
         THEN BreakStream(t)
         ELSE Goto(t, "failed") /\ Leave(t) /\ UNCHANGED <<answer, conn>>
    /\ UNCHANGED <<body, lock>>

-----------------------------------------------------------------------------
LoopStep(t) ==
    \/ t \in Calls /\ (StartDependency(t) \/ StartHandler(t) \/ Teardown(t))
    \/ t \in Streams /\ StartTurn(t)
DatabaseStep(t) ==
    \/ t \in Calls /\ (Authorise(t) \/ HandleRead(t) \/ Flush(t) \/ Commit(t)
                          \/ TransactionFails(t) \/ LoseRace(t) \/ CheckoutAgain(t))
    \/ t \in Streams /\ (Checkout(t) \/ FinishTurn(t) \/ MustWrite(t) \/ Touch(t))
    \/ PoolTimeout(t) \/ BusyTimeout(t)
CallerStep(t) ==
    \/ t \in Calls /\ (Declared(t) \/ ReceiveChunk(t) \/ Disconnect(t))
    \/ t \in Streams /\ Hangup(t)

ProcessNext == \E t \in Tasks : LoopStep(t) \/ DatabaseStep(t) \/ CallerStep(t)

(* The loop takes ready callbacks in the order in which they became ready, *)
(* so none is passed over for ever; a thread, and what runs on the loop,   *)
(* goes on; a wait for a connection or the lock succeeds or times out.     *)
(* Clients owe nothing.                                                    *)
ProcessFairness ==
    \A t \in Tasks : SF_processVars(LoopStep(t)) /\ WF_processVars(DatabaseStep(t))

ProcessSpec == ProcessInit /\ [][ProcessNext]_processVars /\ ProcessFairness

-----------------------------------------------------------------------------
(* Tasks that cannot go on before the loop is free. *)
NeedsLoop(t) == at[t] \in {"arrived", "authorised", "returned", "failed"}

(* The loop and the write lock: the loop may have to wait for a thread     *)
(* that is about to commit, but it waits for a holder that itself waits    *)
(* for the loop only if that holder's transaction failed and has not been  *)
(* closed.                                                                 *)
CircularWaitNeedsAFailure ==
    loop # Nobody /\ WaitsForLock(loop) /\ NeedsLoop(lock) => at[lock] = "failed"

(* routers/inbox.py: "a request-scoped yield dependency cannot pin a       *)
(* SQLAlchemy Session for the lifetime of the SSE connection": neither a   *)
(* stream between its turns nor a client that has not sent its body keeps  *)
(* a connection, whatever failed before.                                   *)
IdleClientsHoldNothing ==
    \A t \in conn : at[t] \notin {"connect", "idle", "headers", "body", "done"}

(* Every request whose body arrived is answered and every stream gets a    *)
(* turn or learns that it failed, although the loop can come to wait for   *)
(* connections that only the loop can return: those of requests that wait  *)
(* for their teardown, while a stream, or an ntfy publish that has         *)
(* committed, waits for a connection on the loop.                          *)
EveryCallEnds ==
    /\ \A t \in Calls : at[t] = "arrived" ~> at[t] = "done"
    /\ \A s \in Streams : at[s] = "turn" ~> at[s] \in {"idle", "connect"}
==============================================================================
