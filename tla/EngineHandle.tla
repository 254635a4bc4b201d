---------------------------- MODULE EngineHandle ----------------------------
(***************************************************************************)
(* packages/ferric/src/engine-handle.ts with its worker script worker.ts:  *)
(* one engine on one worker thread behind promises.  An action is one      *)
(* synchronous run of the main thread (a public call up to its first       *)
(* await, a listener, one continuation) or one request that the worker     *)
(* serves.                                                                 *)
(***************************************************************************)
EXTENDS Naturals, Sequences, FiniteSets

CONSTANTS
  Calls,        \* the calls a host makes on the handle
  Runs,         \* those of them that are run()
  Signalled,    \* the runs that carry an AbortSignal
  Endless,      \* the runs whose rules never come to an end
  Unsendable,   \* requests whose postMessage may throw
  InitReq       \* the request __init of create()

Requests == Calls \cup {InitReq}

ASSUME HandleAssumption ==
  /\ InitReq \notin Calls
  /\ Signalled \subseteq Runs /\ Endless \subseteq Runs /\ Runs \subseteq Calls
  /\ Unsendable \subseteq Requests

VARIABLES
  stage,      \* of create(): "new", "init", "cleanup", "ready", "failed", "leaked"
  owned,      \* this.worker is not null
  listening,  \* the three worker listeners are attached
  closed,     \* this.closed
  closing,    \* of closePromise: "no", "scheduled", "terminating", "ok", "failed"
  target,     \* close() found a worker to terminate
  pending,    \* the keys of this.pending
  snapshot,   \* the entries that close() took out of this.pending
  result,     \* how the promise of a request settled
  aborted,    \* signal.aborted
  watching,   \* runs whose abort listener is registered
  flag,       \* runs whose shared abort flag is set
  thread,     \* the worker: "up", "threw", "exited" (event to come), "gone"
  workerEngine, \* of the worker script: "null" or "ready"
  inbox,      \* requests the worker has not served
  outbox      \* answers the main thread has not received

hostVars == <<stage, owned, listening, closed, closing, target>>
runVars == <<aborted, watching, flag>>
workerVars == <<thread, workerEngine, inbox, outbox>>
handleVars == <<hostVars, pending, snapshot, result, runVars, workerVars>>

Verdicts == {"ok", "partial", "error", "sendError", "workerError", "exited",
             "aborted", "closed", "closing"}

HandleTypeOK ==
  /\ stage \in {"new", "init", "cleanup", "ready", "failed", "leaked"}
  /\ owned \in BOOLEAN /\ listening \in BOOLEAN /\ closed \in BOOLEAN /\ target \in BOOLEAN
  /\ closing \in {"no", "scheduled", "terminating", "ok", "failed"}
  /\ pending \subseteq Requests /\ snapshot \subseteq Requests
  /\ result \in [Requests -> Verdicts \cup {"none", "pending"}]
  /\ aborted \subseteq Signalled /\ watching \subseteq Signalled /\ flag \subseteq Signalled
  /\ thread \in {"none", "up", "threw", "exited", "gone"}
  /\ workerEngine \in {"null", "ready"}
  /\ inbox \in Seq(Requests)
  /\ outbox \in Seq(Requests \X {"ok", "partial", "error"})

HandleInit ==
  /\ stage = "new" /\ closing = "no"
  /\ owned = FALSE /\ listening = FALSE /\ closed = FALSE /\ target = FALSE
  /\ pending = {} /\ snapshot = {}
  /\ result = [r \in Requests |-> "none"]
  /\ aborted = {} /\ watching = {} /\ flag = {}
  /\ thread = "none" /\ workerEngine = "null" /\ inbox = <<>> /\ outbox = <<>>

(* Reject the promises of R. *)
Rejected(R, verdict) == [r \in Requests |-> IF r \in R THEN verdict ELSE result[r]]

(* Register a request and send it; a throwing postMessage is rolled back.  *)
(* A message to a dead worker is lost.                                     *)
Send(r) ==
  /\ result' = [result EXCEPT ![r] = "pending"]
  /\ pending' = pending \cup {r}
  /\ inbox' = IF thread \in {"threw", "exited", "gone"} THEN inbox ELSE Append(inbox, r)
SendThrows(r) ==
  /\ r \in Unsendable
  /\ result' = [result EXCEPT ![r] = "sendError"]
  /\ UNCHANGED <<pending, inbox>>

-----------------------------------------------------------------------------
(* create() *)

Create ==
  /\ stage = "new"
  /\ stage' = "init"
  /\ owned' = TRUE /\ listening' = TRUE
  /\ thread' = "up"
  /\ Send(InitReq) \/ SendThrows(InitReq)
  /\ UNCHANGED <<closed, closing, target, snapshot, runVars, workerEngine, outbox>>

Acknowledged == result[InitReq] = "ok"

Created ==
  /\ stage = "init"
  /\ Acknowledged
  /\ stage' = "ready"
  /\ UNCHANGED <<owned, listening, closed, closing, target, pending, snapshot, result, runVars, workerVars>>

(* terminate() of a worker: it dies, unless it is dead already. *)
Terminated == IF thread \in {"up", "threw"} THEN "exited" ELSE thread

(* cleanupFailedCreate() up to its await. *)
CleanupFailedCreate ==
  /\ stage = "init"
  /\ result[InitReq] \notin {"ok", "pending"}
  /\ stage' = "cleanup"
  /\ closed' = TRUE
  /\ result' = Rejected(pending, result[InitReq])
  /\ pending' = {}
  /\ thread' = Terminated
  /\ UNCHANGED <<owned, listening, closing, target, snapshot, runVars, workerEngine, inbox, outbox>>

\* Mutant: create() rejects before the worker is gone.
NotAwaited == TRUE

(* terminate() resolves after the exit event. *)
TerminationOver == thread = "gone"

(* terminate() may fail; create() rejects with the first error all the same. *)
CleanupReturns(failed) ==
  /\ stage = "cleanup"
  /\ failed \/ TerminationOver
  /\ stage' = IF failed THEN "leaked" ELSE "failed"
  /\ owned' = FALSE /\ listening' = FALSE
  /\ UNCHANGED <<closed, closing, target, pending, snapshot, result, runVars, workerVars>>

-----------------------------------------------------------------------------
(* Calls on the handle. *)

(* call(): every method but run() and close(). *)
Call(c) ==
  /\ stage = "ready" /\ c \notin Runs /\ result[c] = "none"
  /\ IF closed \/ ~owned
     THEN /\ result' = [result EXCEPT ![c] = "closed"]
          /\ UNCHANGED <<pending, inbox>>
     ELSE Send(c) \/ SendThrows(c)
  /\ UNCHANGED <<hostVars, snapshot, runVars, thread, workerEngine, outbox>>

Watch(c) == watching \cup ({c} \cap Signalled)

(* run(): the abort listener is registered before the request is sent, and *)
(* taken back when the send fails.                                         *)
Run(c) ==
  /\ stage = "ready" /\ c \in Runs /\ result[c] = "none"
  /\ IF closed \/ ~owned
     THEN /\ result' = [result EXCEPT ![c] = "closed"]
          /\ UNCHANGED <<pending, inbox, watching>>
     ELSE IF c \in aborted
     THEN /\ result' = [result EXCEPT ![c] = "aborted"]
          /\ UNCHANGED <<pending, inbox, watching>>
     ELSE \/ Send(c) /\ watching' = Watch(c)
          \/ SendThrows(c) /\ UNCHANGED watching
  /\ UNCHANGED <<hostVars, snapshot, aborted, flag, thread, workerEngine, outbox>>

(* The host aborts a signal; the listener is called once. *)
Abort(c) ==
  /\ c \in Signalled \ aborted
  /\ aborted' = aborted \cup {c}
  /\ flag' = flag \cup ({c} \cap watching)
  /\ watching' = watching \ {c}
  /\ UNCHANGED <<hostVars, pending, snapshot, result, workerVars>>

StopListening(c) == watching \ {c}

(* The finally block of run(). *)
RunReturns(c) ==
  /\ c \in watching
  /\ result[c] # "pending"
  /\ watching' = StopListening(c)
  /\ UNCHANGED <<hostVars, pending, snapshot, result, aborted, flag, workerVars>>

\* Mutant: the entries are dropped with the map.
CloseForgets == {}

(* close(): what is pending moves out of reach of the listeners. *)
CloseSnapshot == pending
MapCleared == {}

Close ==
  /\ stage = "ready"
  /\ closing = "no"
  /\ closing' = "scheduled"
  /\ closed' = TRUE
  /\ snapshot' = CloseSnapshot
  /\ pending' = MapCleared
  /\ target' = owned
  /\ owned' = FALSE
  /\ UNCHANGED <<stage, listening, result, runVars, workerVars>>

RejectAtEnd(failed) == snapshot

(* The continuation of close(): terminate the worker the handle had. *)
CloseTerminates ==
  /\ closing = "scheduled"
  /\ IF target
     THEN closing' = "terminating" /\ thread' = Terminated /\ UNCHANGED <<result, snapshot>>
     ELSE /\ closing' = "ok"
          /\ result' = Rejected(RejectAtEnd(FALSE), "closing")
          /\ snapshot' = snapshot \ RejectAtEnd(FALSE)
          /\ UNCHANGED thread
  /\ UNCHANGED <<stage, owned, listening, closed, target, pending, runVars, workerEngine, inbox, outbox>>

(* terminate() has returned, or failed. *)
CloseReturns(failed) ==
  /\ closing = "terminating"
  /\ failed \/ TerminationOver
  /\ closing' = IF failed THEN "failed" ELSE "ok"
  /\ result' = Rejected(RejectAtEnd(failed), "closing")
  /\ snapshot' = snapshot \ RejectAtEnd(failed)
  /\ UNCHANGED <<stage, owned, listening, closed, target, pending, runVars, workerVars>>

-----------------------------------------------------------------------------
(* The listeners of the handle. *)

OnMessage ==
  /\ outbox # <<>> /\ listening
  /\ LET r == Head(outbox)[1]
     IN  /\ result' = IF r \in pending
                      THEN [result EXCEPT ![r] = Head(outbox)[2]] ELSE result
         /\ pending' = pending \ {r}
  /\ outbox' = Tail(outbox)
  /\ UNCHANGED <<hostVars, snapshot, runVars, thread, workerEngine, inbox>>

(* "error" is followed by "exit"; only the latter takes the worker away. *)
OnError ==
  /\ thread = "threw"
  /\ thread' = "exited"
  /\ result' = IF listening THEN Rejected(pending, "workerError") ELSE result
  /\ pending' = IF listening THEN {} ELSE pending
  /\ UNCHANGED <<hostVars, snapshot, runVars, workerEngine, inbox, outbox>>

\* Mutant: a worker that exits rejects nothing.
ExitIgnored == {}

ExitRejects == pending

OnExit ==
  /\ thread = "exited"
  /\ thread' = "gone"
  /\ inbox' = <<>> /\ outbox' = <<>>
  /\ result' = IF listening THEN Rejected(ExitRejects, "exited") ELSE result
  /\ pending' = IF listening THEN pending \ ExitRejects ELSE pending
  /\ owned' = IF listening THEN FALSE ELSE owned
  /\ UNCHANGED <<stage, listening, closed, closing, target, snapshot, runVars, workerEngine>>

-----------------------------------------------------------------------------
(* The worker script. *)

(* handleInit(): a failing __init may leave an engine behind. *)
ServedInit(v) == IF v = "ok" THEN {"ready"} ELSE {"null", "ready"}

(* A request is served to its end; an exception becomes an error answer.   *)
Serve ==
  /\ thread = "up" /\ inbox # <<>>
  /\ LET r == Head(inbox)
     IN  \E v \in {"ok", "partial", "error"} :
           /\ v = "partial" => r \in flag
           /\ r \in Endless => v = "partial"
           /\ r # InitReq /\ workerEngine = "null" => v = "error"
           /\ outbox' = Append(outbox, <<r, v>>)
           /\ workerEngine' \in IF r = InitReq THEN ServedInit(v) ELSE {workerEngine}
  /\ inbox' = Tail(inbox)
  /\ UNCHANGED <<hostVars, pending, snapshot, result, runVars, thread>>

(* An uncaught exception, or process.exit() in the worker. *)
Crash ==
  /\ thread = "up"
  /\ thread' \in {"threw", "exited"}
  /\ inbox' = <<>>
  /\ UNCHANGED <<hostVars, pending, snapshot, result, runVars, workerEngine, outbox>>

Finished ==
  /\ \/ stage \in {"failed", "leaked"}
     \/ stage = "ready" /\ closing \in {"ok", "failed"}
  /\ UNCHANGED handleVars

Host ==
  \/ Create \/ Close
  \/ \E c \in Calls : Call(c) \/ Run(c) \/ Abort(c)

(* What goes on by itself. *)
Progress ==
  \/ Created \/ CleanupFailedCreate \/ CleanupReturns(FALSE)
  \/ CloseTerminates \/ CloseReturns(FALSE)
  \/ (\E c \in Calls : RunReturns(c))
  \/ OnMessage \/ OnError \/ OnExit \/ Serve

HandleNext ==
  \/ Host \/ Progress \/ Crash \/ Finished
  \/ CleanupReturns(TRUE) \/ CloseReturns(TRUE)

HandleSpec == HandleInit /\ [][HandleNext]_handleVars
HandleFairSpec == HandleSpec /\ WF_handleVars(Progress)

-----------------------------------------------------------------------------
(* Properties. *)

\* An unsettled promise has exactly one owner that will settle it: the pending map,
\* which the listeners serve, or the snapshot that close() took; what is settled has
\* none (call, run, close and the three listeners).
NoLostCall ==
  \A r \in Requests :
    result[r] = "pending" <=> (r \in pending /\ r \notin snapshot) \/ (r \in snapshot /\ r \notin pending)

\* create() rejects only when its worker is gone (or could not be terminated),
\* nothing is pending and the handle refuses calls; it resolves only with an engine
\* in the worker.
CreateIsAtomic ==
  /\ stage = "failed" => thread = "gone"
  /\ stage \in {"failed", "leaked"} =>
       /\ closed /\ ~owned /\ pending = {}
       /\ result[InitReq] \in {"sendError", "error", "workerError", "exited"}
  /\ stage = "ready" => workerEngine = "ready"

\* When close() settles, every call has: none is left to a worker that is gone, also
\* when the termination failed.
CloseBarrier ==
  closing \in {"ok", "failed"} => \A r \in Requests : result[r] # "pending"

\* No request that was still unanswered when close() began is reported as served.
ClosedMeansClosed ==
  [][\A r \in snapshot : result'[r] # result[r] => result'[r] = "closing"]_handleVars

\* A handle on which close() has begun, or whose worker is gone, owns no call: what
\* arrives later finds nobody.
DeadOwnsNothing ==
  closed \/ thread = "gone" => pending = {}

\* close() ends, and with it every call, even behind a run that never ends.
CloseEndsAll ==
  closing = "scheduled" ~> \A r \in Requests : result[r] # "pending"

\* Every call settles; it is left waiting only at or behind an endless run that nobody
\* aborts, so an abort ends even such a run (the shared flag of run()).
CallsSettle ==
  \A r \in Requests :
    result[r] = "pending" ~>
      \/ result[r] # "pending"
      \/ thread = "up" /\ inbox # <<>> /\ Head(inbox) \in Endless \ flag

\* The abort listener of a run goes away when the run has settled.
ListenersRemoved ==
  \A c \in Signalled : result[c] \notin {"none", "pending"} ~> c \notin watching
=============================================================================
