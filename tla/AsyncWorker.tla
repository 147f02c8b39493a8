----------------------------- MODULE AsyncWorker -----------------------------
(***************************************************************************)
(* The LLE async worker (src/src/lle/core/async_worker.c): one consumer    *)
(* thread, a FIFO request queue guarded by queue_mutex + queue_cond, and a *)
(* completion callback run on the worker thread.                           *)
(*                                                                         *)
(* Two actors interleave: the client (the shell's main thread, which calls *)
(* start / submit / shutdown / wait / destroy) and the worker thread       *)
(* (lle_async_worker_thread).  Every section the code runs under           *)
(* queue_mutex is one atomic step; the unlocked stretches of the worker    *)
(* loop (dispatch, the callback) are steps of their own, so the client's   *)
(* calls interleave with them.                                             *)
(***************************************************************************)
EXTENDS Naturals, Sequences

CONSTANTS
    MaxQueue,       \* LLE_ASYNC_MAX_QUEUE_SIZE
    MaxRequests,    \* bound: ids handed out by submit (next_request_id - 1)
    MaxStarts,      \* bound: calls of lle_async_worker_start
    Kinds,          \* request types submitted: subset of {"git_status", "custom"}
    NoRequest,      \* model value: the worker holds no request
    ClientJoinsBeforeDestroy
        \* TRUE: the client calls wait only after shutdown and destroy only
        \* once no worker thread exists (the documented lifecycle).
        \* FALSE: it calls them in any order the API accepts.

ASSUME MaxQueue \in Nat \ {0} /\ MaxRequests \in Nat /\ MaxStarts \in Nat
ASSUME Kinds \subseteq {"git_status", "custom"} /\ ClientJoinsBeforeDestroy \in BOOLEAN

VARIABLES
    worker,             \* "alive" after lle_async_worker_init, "freed" after destroy
    running,            \* worker->running
    shutdown_requested, \* worker->shutdown_requested
    queue,              \* queue_head .. queue_tail, as a sequence of requests
    next_request_id,    \* worker->next_request_id
    total_requests,     \* worker->total_requests
    total_completed,    \* worker->total_completed
    total_timeouts,     \* worker->total_timeouts
    wpc,                \* where the worker thread is in its loop ("none": no thread)
    inflight,           \* the request the worker thread dequeued, with its response
    mpc,                \* client: "idle", or "joining" inside pthread_join
    ret,                \* return code of the client's last call
    starts,             \* calls of start so far (bounded by MaxStarts)
    delivered           \* history: responses passed to on_complete, in order

vars == <<worker, running, shutdown_requested, queue, next_request_id,
          total_requests, total_completed, total_timeouts, wpc, inflight,
          mpc, ret, starts, delivered>>

Codes == {"SUCCESS", "INVALID_PARAMETER", "INVALID_STATE",
          "RESOURCE_EXHAUSTED", "SYSTEM_CALL", "FEATURE_NOT_AVAILABLE", "PENDING"}
Request == [id : Nat, kind : Kinds]
Response == [id : Nat, kind : Kinds, result : Codes, timedOut : BOOLEAN]

-----------------------------------------------------------------------------
(* lle_async_worker_init: the state after a successful init.               *)
Init ==
    /\ worker = "alive"
    /\ running = FALSE
    /\ shutdown_requested = FALSE
    /\ queue = <<>>
    /\ next_request_id = 1
    /\ total_requests = 0
    /\ total_completed = 0
    /\ total_timeouts = 0
    /\ wpc = "none"
    /\ inflight = NoRequest
    /\ mpc = "idle"
    /\ ret = "SUCCESS"
    /\ starts = 0
    /\ delivered = <<>>

(* pthread_cond_signal(&queue_cond): wakes the worker if it is waiting.    *)
Signal == wpc' = IF wpc = "blocked" THEN "top" ELSE wpc

(* The client is on the main thread and not inside pthread_join.           *)
ClientReady == mpc = "idle" /\ worker = "alive"

-----------------------------------------------------------------------------
(* Client calls                                                             *)

(* lle_async_worker_start: refuse if running; else set running, clear     *)
(* shutdown_requested, and create the thread; if pthread_create fails,     *)
(* clear running again.                                                    *)
Start ==
    /\ ClientReady
    /\ starts < MaxStarts
    /\ starts' = starts + 1
    /\ \/ /\ running
          /\ ret' = "INVALID_PARAMETER"
          /\ UNCHANGED <<running, shutdown_requested, wpc>>
       \/ /\ ~running
          /\ shutdown_requested' = FALSE
          /\ \/ running' = TRUE /\ wpc' = "top" /\ ret' = "SUCCESS"
             \/ running' = FALSE /\ wpc' = wpc /\ ret' = "SYSTEM_CALL"
    /\ UNCHANGED <<worker, queue, next_request_id, total_requests,
                   total_completed, total_timeouts, inflight, mpc, delivered>>

(* Mutant: the queue-size check is missing, a full queue still accepts.   *)
Submit_NoCapacityCheck(k) ==
    /\ ClientReady
    /\ next_request_id <= MaxRequests
    /\ running /\ ~shutdown_requested
    /\ queue' = Append(queue, [id |-> next_request_id, kind |-> k])
    /\ next_request_id' = next_request_id + 1
    /\ total_requests' = total_requests + 1
    /\ Signal
    /\ ret' = "SUCCESS"
    /\ UNCHANGED <<worker, running, shutdown_requested, total_completed,
                   total_timeouts, inflight, mpc, starts, delivered>>

(* lle_async_worker_submit: under the lock, refuse when not running or     *)
(* shutting down, refuse when the queue is full, else assign the next id,  *)
(* append at the tail, count it and signal the worker.                     *)
Submit(k) ==
    /\ ClientReady
    /\ next_request_id <= MaxRequests
    /\ \/ /\ ~running \/ shutdown_requested
          /\ ret' = "INVALID_STATE"
          /\ UNCHANGED <<queue, next_request_id, total_requests, wpc>>
       \/ /\ running /\ ~shutdown_requested
          /\ Len(queue) >= MaxQueue
          /\ ret' = "RESOURCE_EXHAUSTED"
          /\ UNCHANGED <<queue, next_request_id, total_requests, wpc>>
       \/ /\ running /\ ~shutdown_requested
          /\ Len(queue) < MaxQueue
          /\ queue' = Append(queue, [id |-> next_request_id, kind |-> k])
          /\ next_request_id' = next_request_id + 1
          /\ total_requests' = total_requests + 1
          /\ Signal
          /\ ret' = "SUCCESS"
    /\ UNCHANGED <<worker, running, shutdown_requested, total_completed,
                   total_timeouts, inflight, mpc, starts, delivered>>

(* Mutant: shutdown sets the flag but does not signal queue_cond.         *)
Shutdown_NoSignal ==
    /\ ClientReady
    /\ shutdown_requested' = TRUE
    /\ ret' = "SUCCESS"
    /\ UNCHANGED <<worker, running, queue, next_request_id, total_requests,
                   total_completed, total_timeouts, inflight, mpc, starts,
                   delivered, wpc>>

(* lle_async_worker_shutdown: set the flag and signal, under the lock.     *)
Shutdown ==
    /\ ClientReady
    /\ shutdown_requested' = TRUE
    /\ Signal
    /\ ret' = "SUCCESS"
    /\ UNCHANGED <<worker, running, queue, next_request_id, total_requests,
                   total_completed, total_timeouts, inflight, mpc, starts,
                   delivered>>

(* lle_async_worker_wait, first half: read running under the lock; if it  *)
(* was set, block in pthread_join.                                         *)
Wait ==
    /\ ClientReady
    /\ ClientJoinsBeforeDestroy => shutdown_requested
    /\ \/ running /\ mpc' = "joining" /\ UNCHANGED ret
       \/ ~running /\ ret' = "SUCCESS" /\ UNCHANGED mpc
    /\ UNCHANGED <<worker, running, shutdown_requested, queue, next_request_id,
                   total_requests, total_completed, total_timeouts, wpc,
                   inflight, starts, delivered>>

(* lle_async_worker_wait, second half: pthread_join returns once the       *)
(* thread has left its loop; then running is cleared under the lock.       *)
Join ==
    /\ mpc = "joining"
    /\ wpc = "exited"
    /\ wpc' = "none"
    /\ running' = FALSE
    /\ mpc' = "idle"
    /\ ret' = "SUCCESS"
    /\ UNCHANGED <<worker, shutdown_requested, queue, next_request_id,
                   total_requests, total_completed, total_timeouts, inflight,
                   starts, delivered>>

(* lle_async_worker_destroy: free the queued requests (no callback), then *)
(* the mutex, the condition variable and the worker itself.  It neither    *)
(* stops nor joins the thread.                                             *)
Destroy ==
    /\ ClientReady
    /\ ClientJoinsBeforeDestroy => wpc = "none"
    /\ worker' = "freed"
    /\ queue' = <<>>
    /\ ret' = "SUCCESS"
    /\ UNCHANGED <<running, shutdown_requested, next_request_id,
                   total_requests, total_completed, total_timeouts, wpc,
                   inflight, mpc, starts, delivered>>

-----------------------------------------------------------------------------
(* Worker thread: lle_async_worker_thread                                   *)

WorkerUnchanged == UNCHANGED <<worker, running, shutdown_requested,
                               next_request_id, total_requests, total_timeouts,
                               mpc, ret, starts>>

(* Lock; queue empty and no shutdown: pthread_cond_wait.                   *)
WorkerBlock ==
    /\ wpc = "top"
    /\ queue = <<>> /\ ~shutdown_requested
    /\ wpc' = "blocked"
    /\ WorkerUnchanged
    /\ UNCHANGED <<queue, total_completed, inflight, delivered>>

(* Mutant: the loop leaves as soon as shutdown is requested.              *)
WorkerExit_OnShutdown ==
    /\ wpc = "top"
    /\ shutdown_requested
    /\ wpc' = "exited"
    /\ WorkerUnchanged
    /\ UNCHANGED <<queue, total_completed, inflight, delivered>>

(* Lock; shutdown requested and queue empty: unlock and leave the loop.    *)
WorkerExit ==
    /\ wpc = "top"
    /\ shutdown_requested /\ queue = <<>>
    /\ wpc' = "exited"
    /\ WorkerUnchanged
    /\ UNCHANGED <<queue, total_completed, inflight, delivered>>

(* Mutant: the worker unlinks queue_tail instead of queue_head.           *)
WorkerDequeue_Tail ==
    /\ wpc = "top"
    /\ queue # <<>>
    /\ inflight' = [id |-> queue[Len(queue)].id, kind |-> queue[Len(queue)].kind,
                     result |-> "PENDING", timedOut |-> FALSE]
    /\ queue' = SubSeq(queue, 1, Len(queue) - 1)
    /\ wpc' = "dispatch"
    /\ WorkerUnchanged
    /\ UNCHANGED <<total_completed, delivered>>

(* Lock; queue non-empty: unlink the head, decrement queue_size, unlock.   *)
WorkerDequeue ==
    /\ wpc = "top"
    /\ queue # <<>>
    /\ inflight' = [id |-> Head(queue).id, kind |-> Head(queue).kind,
                     result |-> "PENDING", timedOut |-> FALSE]
    /\ queue' = Tail(queue)
    /\ wpc' = "dispatch"
    /\ WorkerUnchanged
    /\ UNCHANGED <<total_completed, delivered>>

(* Mutant: the unimplemented request type returns straight to the         *)
(* callback and skips the total_completed update.                         *)
Dispatch_CustomSkipsCount ==
    /\ wpc = "dispatch"
    /\ \/ /\ inflight.kind = "git_status"
          /\ \E t \in BOOLEAN :
                inflight' = [inflight EXCEPT !.result = "SUCCESS", !.timedOut = t]
          /\ wpc' = "count"
       \/ /\ inflight.kind = "custom"
          /\ inflight' = [inflight EXCEPT !.result = "FEATURE_NOT_AVAILABLE"]
          /\ wpc' = "callback"
    /\ WorkerUnchanged
    /\ UNCHANGED <<queue, total_completed, delivered>>

(* Unlocked: build the response.  A git-status request runs the git probes *)
(* (lle_async_get_git_status), each bounded by timeout_ms; any of them may *)
(* time out.  The probes fold a timeout into "command failed", and the     *)
(* function returns LLE_SUCCESS on every path.  Custom requests are not    *)
(* implemented.                                                            *)
Dispatch ==
    /\ wpc = "dispatch"
    /\ \/ /\ inflight.kind = "git_status"
          /\ \E t \in BOOLEAN :
                inflight' = [inflight EXCEPT !.result = "SUCCESS", !.timedOut = t]
       \/ /\ inflight.kind = "custom"
          /\ inflight' = [inflight EXCEPT !.result = "FEATURE_NOT_AVAILABLE"]
    /\ wpc' = "count"
    /\ WorkerUnchanged
    /\ UNCHANGED <<queue, total_completed, delivered>>

(* Lock; total_completed++; unlock (before the callback, so it sees it).   *)
Count ==
    /\ wpc = "count"
    /\ total_completed' = total_completed + 1
    /\ wpc' = "callback"
    /\ WorkerUnchanged
    /\ UNCHANGED <<queue, inflight, delivered>>

(* on_complete(&response, user_data); free(request); back to the top.      *)
Callback ==
    /\ wpc = "callback"
    /\ delivered' = Append(delivered, inflight)
    /\ inflight' = NoRequest
    /\ wpc' = "top"
    /\ WorkerUnchanged
    /\ UNCHANGED <<queue, total_completed>>

-----------------------------------------------------------------------------
Client ==
    \/ Start
    \/ \E k \in Kinds : Submit(k)
    \/ Shutdown
    \/ Wait
    \/ Join
    \/ Destroy

WorkerThread ==
    \/ WorkerBlock
    \/ WorkerExit
    \/ WorkerDequeue
    \/ Dispatch
    \/ Count
    \/ Callback

Next == Client \/ WorkerThread

(* The worker is a pthread the OS keeps scheduling: its steps are weakly   *)
(* fair, and pthread_join returns once the thread has finished.  The       *)
(* client may stop calling at any point.  A spurious wakeup of             *)
(* pthread_cond_wait re-runs the while test and returns to a state         *)
(* WorkerBlock left, so it is not a separate step.                         *)
Fairness ==
    /\ WF_vars(WorkerBlock) /\ WF_vars(WorkerExit) /\ WF_vars(WorkerDequeue)
    /\ WF_vars(Dispatch) /\ WF_vars(Count) /\ WF_vars(Callback)
    /\ WF_vars(Join)

Spec == Init /\ [][Next]_vars /\ Fairness

-----------------------------------------------------------------------------
(* Properties                                                               *)

TypeOK ==
    /\ worker \in {"alive", "freed"}
    /\ running \in BOOLEAN /\ shutdown_requested \in BOOLEAN
    /\ queue \in Seq(Request) /\ Len(queue) <= MaxQueue
    /\ next_request_id \in 1..(MaxRequests + 1)
    /\ {total_requests, total_completed, total_timeouts} \subseteq 0..MaxRequests
    /\ wpc \in {"none", "top", "blocked", "dispatch", "count", "callback", "exited"}
    /\ inflight \in Response \cup {NoRequest}
    /\ mpc \in {"idle", "joining"}
    /\ ret \in Codes
    /\ starts \in 0..MaxStarts
    /\ delivered \in Seq(Response)

(* Requests dequeued by the worker and not yet counted as completed.       *)
Uncounted == IF wpc \in {"dispatch", "count"} THEN 1 ELSE 0

(* Spec 8.7 and 5: the counters the submit path and the worker thread      *)
(* update under the lock account for every request at every instant:      *)
(* total_requests = completed + pending + in flight, and total_completed   *)
(* already includes the request whose callback is running, so a callback   *)
(* that reads the statistics sees its own completion.                      *)
StatsAccounting ==
    worker = "alive" =>
        /\ total_requests = total_completed + Len(queue) + Uncounted
        /\ total_completed = Len(delivered) + (IF wpc = "callback" THEN 1 ELSE 0)
        /\ total_requests = next_request_id - 1

(* Shutdown drains the queue: whenever no worker thread exists (never     *)
(* started, failed to start, or joined by wait), every request submit      *)
(* accepted has had its completion callback, so nothing is left for       *)
(* destroy to free silently.                                               *)
DrainedWhenNoThread ==
    wpc = "none" => Len(delivered) = next_request_id - 1 /\ queue = <<>>

(* The worker implements the FIFO service: the requests in the queue and   *)
(* the one the thread holds are the accepted-but-unanswered ones, in id    *)
(* order, and the callbacks are the answers.  Checked with its liveness:  *)
(* every accepted request is eventually answered.                          *)
Service == INSTANCE AsyncService WITH
    accepted <- (IF inflight = NoRequest THEN <<>> ELSE <<inflight.id>>)
                    \o [i \in DOMAIN queue |-> queue[i].id],
    answered <- [i \in DOMAIN delivered |-> delivered[i].id]

ServiceRefinement == Service!Spec

(* lle_async_worker_wait after lle_async_worker_shutdown returns: once the *)
(* client is blocked in pthread_join, the worker thread leaves its loop    *)
(* and the join completes (no lost wakeup of the condition variable).      *)
JoinReturns == (mpc = "joining") ~> (mpc = "idle")

(* Spec 4.5 and 8 (async timeout scenario): a git-status request whose     *)
(* probe timed out is answered with a non-success result and counted in    *)
(* total_timeouts.                                                         *)
TimeoutReported ==
    \A i \in DOMAIN delivered :
        delivered[i].timedOut => delivered[i].result # "SUCCESS" /\ total_timeouts > 0

=============================================================================
