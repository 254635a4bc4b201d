------------------------- MODULE EngineHandleProofs -------------------------
(***************************************************************************)
(* What EngineHandle promises, for any calls, runs and signals.            *)
(***************************************************************************)
EXTENDS EngineHandle, TLAPS

\* Who may have a claim on a request: before create() has settled only __init is
\* out, and once close() has begun the map is empty and its former entries are in
\* the snapshot until the end of close().
StageInv ==
  /\ stage = "new" => thread = "none" /\ pending = {}
  /\ thread = "none" => stage = "new"
  /\ ~listening => closed \/ stage = "new"
  /\ stage \in {"new", "init"} => ~closed
  /\ stage \in {"cleanup", "failed", "leaked"} => closed
  /\ closed => pending = {}
  /\ closing = "no" => snapshot = {}
  /\ closing # "no" => stage = "ready" /\ closed
  /\ closing \in {"ok", "failed"} => snapshot = {}
  /\ thread = "gone" => pending = {} /\ (closed \/ ~owned)
  /\ stage \in {"failed", "leaked"} => ~owned
  /\ stage = "failed" => thread = "gone"

\* What is known of __init: it waits alone in the inbox or not at all, its answer is
\* never partial, and an ok, on the way or received, means that the worker has its
\* engine.
InitInv ==
  /\ \A i \in DOMAIN inbox : inbox[i] = InitReq =>
       /\ stage = "init" /\ thread = "up"
       /\ inbox = <<InitReq>> /\ outbox = <<>> /\ result[InitReq] = "pending"
  /\ \A i \in DOMAIN outbox : outbox[i][1] = InitReq =>
       /\ outbox[i][2] # "partial"
       /\ outbox[i][2] = "ok" => workerEngine = "ready"
  /\ result[InitReq] = "ok" => workerEngine = "ready"
  /\ stage = "new" => inbox = <<>> /\ outbox = <<>> /\ result[InitReq] = "none"
  /\ stage = "init" =>
       result[InitReq] \in {"pending", "ok", "sendError", "error", "workerError", "exited"}
  /\ stage \in {"cleanup", "failed", "leaked"} =>
       result[InitReq] \in {"sendError", "error", "workerError", "exited"}
  /\ stage = "ready" => result[InitReq] = "ok"

\* The inductive invariant.
HandleInv == HandleTypeOK /\ NoLostCall /\ StageInv /\ InitInv

-----------------------------------------------------------------------------

\* What registering and sending a request, or failing to, does to the tables.
LEMMA SendTyped ==
  ASSUME HandleTypeOK, NEW r \in Requests, Send(r) \/ SendThrows(r)
  PROVE  /\ result' \in [Requests -> Verdicts \cup {"none", "pending"}]
         /\ pending' \subseteq Requests
         /\ inbox' \in Seq(Requests)
         /\ \A i \in DOMAIN inbox' : inbox'[i] = r \/ (i \in DOMAIN inbox /\ inbox'[i] = inbox[i])
<1>1. CASE Send(r)
  BY <1>1 DEF Send, HandleTypeOK
<1>2. CASE SendThrows(r)
  BY <1>2 DEF SendThrows, HandleTypeOK, Verdicts
<1> QED BY <1>1, <1>2

\* create() puts __init out, or rolls back a send that throws.
LEMMA CreateKeeps ==
  ASSUME HandleInv, Create
  PROVE  HandleInv'
<1>1. HandleTypeOK'
  <2>1. InitReq \in Requests
    BY DEF Requests
  <2>2. /\ result' \in [Requests -> Verdicts \cup {"none", "pending"}]
        /\ pending' \subseteq Requests /\ inbox' \in Seq(Requests)
    BY <2>1, SendTyped DEF HandleInv, Create
  <2> QED BY <2>2 DEF HandleInv, HandleTypeOK, Create, runVars
<1>2. NoLostCall'
  BY DEF HandleInv, HandleTypeOK, NoLostCall, StageInv, Create, Send, SendThrows
<1>3. StageInv'
  BY DEF HandleInv, StageInv, Create
<1>4. InitInv'
  BY DEF HandleInv, HandleTypeOK, InitInv, Requests, Create, Send, SendThrows
<1> QED BY <1>1, <1>2, <1>3, <1>4 DEF HandleInv

\* create() resolves when __init has been acknowledged.
LEMMA CreatedKeeps ==
  ASSUME HandleInv, Created
  PROVE  HandleInv'
<1>1. HandleTypeOK'
  BY DEF HandleInv, HandleTypeOK, Created, runVars, workerVars
<1>2. NoLostCall'
  BY DEF HandleInv, NoLostCall, Created
<1>3. StageInv'
  BY DEF HandleInv, StageInv, Created, workerVars
<1>4. InitInv'
  BY DEF HandleInv, InitInv, Created, Acknowledged, workerVars
<1> QED BY <1>1, <1>2, <1>3, <1>4 DEF HandleInv

\* A failed create() rejects what is pending and terminates the worker.
LEMMA CleanupFailedCreateKeeps ==
  ASSUME HandleInv, CleanupFailedCreate
  PROVE  HandleInv'
<1>1. HandleTypeOK'
  BY DEF HandleInv, HandleTypeOK, Requests, CleanupFailedCreate, Rejected, Terminated, runVars
<1>2. NoLostCall'
  BY DEF HandleInv, NoLostCall, StageInv, CleanupFailedCreate, Rejected
<1>3. StageInv'
  BY DEF HandleInv, StageInv, CleanupFailedCreate, Terminated
<1>4. InitInv'
  BY DEF HandleInv, InitInv, Requests, CleanupFailedCreate, Rejected
<1> QED BY <1>1, <1>2, <1>3, <1>4 DEF HandleInv

\* A failed create() rejects after the termination, or after its failure.
LEMMA CleanupReturnsKeeps ==
  ASSUME HandleInv, NEW failed \in BOOLEAN, CleanupReturns(failed)
  PROVE  HandleInv'
<1>1. HandleTypeOK'
  BY DEF HandleInv, HandleTypeOK, CleanupReturns, runVars, workerVars
<1>2. NoLostCall'
  BY DEF HandleInv, NoLostCall, CleanupReturns
<1>3. StageInv'
  BY DEF HandleInv, StageInv, CleanupReturns, TerminationOver, workerVars
<1>4. InitInv'
  BY DEF HandleInv, InitInv, CleanupReturns, workerVars
<1> QED BY <1>1, <1>2, <1>3, <1>4 DEF HandleInv

\* A call is registered and sent, refused, or rolled back.
LEMMA CallKeeps ==
  ASSUME HandleInv, NEW c \in Calls, Call(c)
  PROVE  HandleInv'
<1>0. c \in Requests /\ c # InitReq /\ stage = "ready"
  BY HandleAssumption DEF Call, Requests
<1>a. /\ result' \in [Requests -> Verdicts \cup {"none", "pending"}]
      /\ pending' \subseteq Requests /\ inbox' \in Seq(Requests)
      /\ \A i \in DOMAIN inbox' : inbox'[i] = c \/ (i \in DOMAIN inbox /\ inbox'[i] = inbox[i])
  <2>1. CASE Send(c) \/ SendThrows(c)
    BY <1>0, <2>1, SendTyped DEF HandleInv
  <2>2. CASE ~(Send(c) \/ SendThrows(c))
    BY <1>0, <2>2 DEF HandleInv, HandleTypeOK, Call, Verdicts
  <2> QED BY <2>1, <2>2
<1>1. HandleTypeOK'
  BY <1>a DEF HandleInv, HandleTypeOK, Call, hostVars, runVars
<1>2. NoLostCall'
  BY DEF HandleInv, HandleTypeOK, NoLostCall, StageInv, Call, Send, SendThrows
<1>3. StageInv'
  BY DEF HandleInv, StageInv, Call, hostVars
<1>4. InitInv'
  <2>1. result'[InitReq] = result[InitReq]
    BY <1>0 DEF HandleInv, HandleTypeOK, Requests, Call, Send, SendThrows
  <2> QED BY <1>0, <1>a, <2>1 DEF HandleInv, InitInv, Call, hostVars, runVars, workerVars
<1> QED BY <1>1, <1>2, <1>3, <1>4 DEF HandleInv

\* run() is a call that may be aborted before it is sent.
LEMMA RunKeeps ==
  ASSUME HandleInv, NEW c \in Calls, Run(c)
  PROVE  HandleInv'
<1>0. c \in Requests /\ c # InitReq /\ stage = "ready"
  BY HandleAssumption DEF Run, Requests
<1>a. /\ result' \in [Requests -> Verdicts \cup {"none", "pending"}]
      /\ pending' \subseteq Requests /\ inbox' \in Seq(Requests)
      /\ \A i \in DOMAIN inbox' : inbox'[i] = c \/ (i \in DOMAIN inbox /\ inbox'[i] = inbox[i])
  <2>1. CASE Send(c) \/ SendThrows(c)
    BY <1>0, <2>1, SendTyped DEF HandleInv
  <2>2. CASE ~(Send(c) \/ SendThrows(c))
    BY <1>0, <2>2 DEF HandleInv, HandleTypeOK, Run, Verdicts
  <2> QED BY <2>1, <2>2
<1>1. HandleTypeOK'
  BY <1>a DEF HandleInv, HandleTypeOK, Run, Watch, hostVars
<1>2. NoLostCall'
  BY DEF HandleInv, HandleTypeOK, NoLostCall, StageInv, Run, Send, SendThrows
<1>3. StageInv'
  BY DEF HandleInv, StageInv, Run, hostVars
<1>4. InitInv'
  <2>1. result'[InitReq] = result[InitReq]
    BY <1>0 DEF HandleInv, HandleTypeOK, Requests, Run, Send, SendThrows
  <2> QED BY <1>0, <1>a, <2>1 DEF HandleInv, InitInv, Run, hostVars, runVars, workerVars
<1> QED BY <1>1, <1>2, <1>3, <1>4 DEF HandleInv

\* An abort touches the flag and the listener of its run only.
LEMMA AbortKeeps ==
  ASSUME HandleInv, NEW c \in Calls, Abort(c)
  PROVE  HandleInv'
<1>1. HandleTypeOK'
  BY DEF HandleInv, HandleTypeOK, Abort, hostVars, workerVars
<1>2. NoLostCall'
  BY DEF HandleInv, NoLostCall, Abort
<1>3. StageInv'
  BY DEF HandleInv, StageInv, Abort, hostVars, workerVars
<1>4. InitInv'
  BY DEF HandleInv, InitInv, Abort, hostVars, workerVars
<1> QED BY <1>1, <1>2, <1>3, <1>4 DEF HandleInv

\* The finally block of run() takes the listener away.
LEMMA RunReturnsKeeps ==
  ASSUME HandleInv, NEW c \in Calls, RunReturns(c)
  PROVE  HandleInv'
<1>1. HandleTypeOK'
  BY DEF HandleInv, HandleTypeOK, RunReturns, StopListening, hostVars, workerVars
<1>2. NoLostCall'
  BY DEF HandleInv, NoLostCall, RunReturns
<1>3. StageInv'
  BY DEF HandleInv, StageInv, RunReturns, hostVars, workerVars
<1>4. InitInv'
  BY DEF HandleInv, InitInv, RunReturns, hostVars, workerVars
<1> QED BY <1>1, <1>2, <1>3, <1>4 DEF HandleInv

\* close() moves the pending entries into its snapshot.
LEMMA CloseKeeps ==
  ASSUME HandleInv, Close
  PROVE  HandleInv'
<1>1. HandleTypeOK'
  BY DEF HandleInv, HandleTypeOK, Close, CloseSnapshot, MapCleared, runVars, workerVars
<1>2. NoLostCall'
  BY DEF HandleInv, NoLostCall, StageInv, Close, CloseSnapshot, MapCleared
<1>3. StageInv'
  BY DEF HandleInv, StageInv, Close, MapCleared, workerVars
<1>4. InitInv'
  BY DEF HandleInv, InitInv, Close, workerVars
<1> QED BY <1>1, <1>2, <1>3, <1>4 DEF HandleInv

\* The continuation of close() terminates the worker, or ends when there is none.
LEMMA CloseTerminatesKeeps ==
  ASSUME HandleInv, CloseTerminates
  PROVE  HandleInv'
<1>1. HandleTypeOK'
  BY DEF HandleInv, HandleTypeOK, Verdicts, CloseTerminates, Rejected, Terminated, runVars
<1>2. NoLostCall'
  BY DEF HandleInv, NoLostCall, StageInv, CloseTerminates, Rejected
<1>3. StageInv'
  BY DEF HandleInv, StageInv, CloseTerminates, RejectAtEnd, Terminated
<1>4. InitInv'
  BY DEF HandleInv, NoLostCall, StageInv, InitInv, Requests, CloseTerminates, Rejected,
     RejectAtEnd
<1> QED BY <1>1, <1>2, <1>3, <1>4 DEF HandleInv

\* close() rejects its snapshot, whether or not the termination succeeded.
LEMMA CloseReturnsKeeps ==
  ASSUME HandleInv, NEW failed \in BOOLEAN, CloseReturns(failed)
  PROVE  HandleInv'
<1>1. HandleTypeOK'
  BY DEF HandleInv, HandleTypeOK, Verdicts, CloseReturns, Rejected, runVars, workerVars
<1>2. NoLostCall'
  BY DEF HandleInv, NoLostCall, StageInv, CloseReturns, Rejected
<1>3. StageInv'
  BY DEF HandleInv, StageInv, CloseReturns, RejectAtEnd, workerVars
<1>4. InitInv'
  BY DEF HandleInv, NoLostCall, StageInv, InitInv, Requests, CloseReturns, Rejected, RejectAtEnd,
     workerVars
<1> QED BY <1>1, <1>2, <1>3, <1>4 DEF HandleInv

\* An answer settles the entry it finds in the pending map, if any.
LEMMA OnMessageKeeps ==
  ASSUME HandleInv, OnMessage
  PROVE  HandleInv'
<1>1. HandleTypeOK'
  BY DEF HandleInv, HandleTypeOK, Verdicts, OnMessage, hostVars, runVars
<1>2. NoLostCall'
  <2> DEFINE r == Head(outbox)[1]
  <2>1. r \in Requests /\ Head(outbox)[2] # "pending"
    BY DEF HandleInv, HandleTypeOK, OnMessage
  <2>2. CASE r \in pending
    BY <2>1, <2>2 DEF HandleInv, HandleTypeOK, NoLostCall, StageInv, OnMessage
  <2>3. CASE r \notin pending
    BY <2>1, <2>3 DEF HandleInv, NoLostCall, OnMessage
  <2> QED BY <2>2, <2>3
<1>3. StageInv'
  BY DEF HandleInv, StageInv, OnMessage, hostVars
<1>4. InitInv'
  BY DEF HandleInv, HandleTypeOK, NoLostCall, StageInv, InitInv, OnMessage, hostVars
<1> QED BY <1>1, <1>2, <1>3, <1>4 DEF HandleInv

\* A worker error rejects every pending entry.
LEMMA OnErrorKeeps ==
  ASSUME HandleInv, OnError
  PROVE  HandleInv'
<1>1. HandleTypeOK'
  BY DEF HandleInv, HandleTypeOK, Verdicts, OnError, Rejected, hostVars, runVars
<1>2. NoLostCall'
  BY DEF HandleInv, NoLostCall, StageInv, OnError, Rejected
<1>3. StageInv'
  BY DEF HandleInv, StageInv, OnError, hostVars
<1>4. InitInv'
  BY DEF HandleInv, NoLostCall, StageInv, InitInv, Requests, OnError, Rejected, hostVars
<1> QED BY <1>1, <1>2, <1>3, <1>4 DEF HandleInv

\* An exit rejects every pending entry and takes the worker away.
LEMMA OnExitKeeps ==
  ASSUME HandleInv, OnExit
  PROVE  HandleInv'
<1>1. HandleTypeOK'
  <2>1. inbox' \in Seq(Requests) /\ outbox' \in Seq(Requests \X {"ok", "partial", "error"})
    BY DEF OnExit
  <2>2. CASE listening
    BY <2>1, <2>2 DEF HandleInv, HandleTypeOK, Verdicts, OnExit, Rejected, runVars
  <2>3. CASE ~listening
    BY <2>1, <2>3 DEF HandleInv, HandleTypeOK, OnExit, runVars
  <2> QED BY <2>2, <2>3 DEF HandleInv, HandleTypeOK
<1>2. NoLostCall'
  BY DEF HandleInv, NoLostCall, StageInv, OnExit, Rejected, ExitRejects
<1>3. StageInv'
  BY DEF HandleInv, StageInv, OnExit, ExitRejects
<1>4. InitInv'
  BY DEF HandleInv, NoLostCall, StageInv, InitInv, Requests, OnExit, Rejected, ExitRejects
<1> QED BY <1>1, <1>2, <1>3, <1>4 DEF HandleInv

\* The worker answers the first request of its inbox.
LEMMA ServeKeeps ==
  ASSUME HandleInv, Serve
  PROVE  HandleInv'
<1>1. HandleTypeOK'
  BY DEF HandleInv, HandleTypeOK, Serve, ServedInit, hostVars, runVars
<1>2. NoLostCall'
  BY DEF HandleInv, NoLostCall, Serve
<1>3. StageInv'
  BY DEF HandleInv, StageInv, Serve, hostVars
<1>4. InitInv'
  BY HandleAssumption DEF HandleInv, HandleTypeOK, InitInv, Serve, ServedInit, hostVars
<1> QED BY <1>1, <1>2, <1>3, <1>4 DEF HandleInv

\* The worker dies with what it had not served.
LEMMA CrashKeeps ==
  ASSUME HandleInv, Crash
  PROVE  HandleInv'
<1>1. HandleTypeOK'
  BY DEF HandleInv, HandleTypeOK, Crash, hostVars, runVars
<1>2. NoLostCall'
  BY DEF HandleInv, NoLostCall, Crash
<1>3. StageInv'
  BY HandleAssumption DEF HandleInv, HandleTypeOK, NoLostCall, StageInv, InitInv,
      Requests, Crash, hostVars, runVars, workerVars
<1>4. InitInv'
  BY HandleAssumption DEF HandleInv, HandleTypeOK, NoLostCall, StageInv, InitInv,
      Requests, Crash, hostVars, runVars, workerVars
<1> QED BY <1>1, <1>2, <1>3, <1>4 DEF HandleInv

-----------------------------------------------------------------------------

\* A new handle satisfies the invariant.
LEMMA HandleStarts == HandleInit => HandleInv
<1> SUFFICES ASSUME HandleInit PROVE HandleInv
  OBVIOUS
<1>1. HandleTypeOK
  <2>1. inbox \in Seq(Requests) /\ outbox \in Seq(Requests \X {"ok", "partial", "error"})
    BY DEF HandleInit
  <2>2. result \in [Requests -> Verdicts \cup {"none", "pending"}]
    BY DEF HandleInit
  <2> QED BY <2>1, <2>2 DEF HandleInit, HandleTypeOK
<1>2. NoLostCall /\ StageInv /\ InitInv
  BY DEF HandleInit, NoLostCall, StageInv, InitInv, Requests
<1> QED BY <1>1, <1>2 DEF HandleInv

\* Every step keeps the invariant, one case per action.
LEMMA HandleSteps == HandleInv /\ [HandleNext]_handleVars => HandleInv'
<1> SUFFICES ASSUME HandleInv, [HandleNext]_handleVars PROVE HandleInv'
  OBVIOUS
<1>1. CASE Host
  BY <1>1, CreateKeeps, CloseKeeps, CallKeeps, RunKeeps, AbortKeeps DEF Host
<1>2. CASE Progress
  BY <1>2, CreatedKeeps, CleanupFailedCreateKeeps, CleanupReturnsKeeps, CloseTerminatesKeeps,
     CloseReturnsKeeps, RunReturnsKeeps, OnMessageKeeps, OnErrorKeeps, OnExitKeeps, ServeKeeps
     DEF Progress
<1>3. CASE Crash \/ CleanupReturns(TRUE) \/ CloseReturns(TRUE)
  BY <1>3, CrashKeeps, CleanupReturnsKeeps, CloseReturnsKeeps
<1>4. CASE Finished \/ UNCHANGED handleVars
  BY <1>4 DEF Finished, handleVars, hostVars, runVars, workerVars, HandleInv, HandleTypeOK,
     NoLostCall, StageInv, InitInv
<1> QED BY <1>1, <1>2, <1>3, <1>4 DEF HandleNext

\* The inductive invariant holds in every behaviour of a handle.
THEOREM HandleInvariance == HandleSpec => []HandleInv
BY HandleStarts, HandleSteps, PTL DEF HandleSpec

\* No promise of a handle is forgotten and none is settled twice: what is unsettled is
\* in the pending map or in the snapshot of close(), never in both, whatever the
\* worker, the signals and the callers do (call, run, close and the listeners).
THEOREM NothingLost == HandleSpec => []NoLostCall
<1>1. HandleInv => NoLostCall
  BY DEF HandleInv
<1> QED BY <1>1, HandleInvariance, PTL

\* create() rejects with its worker gone, nothing pending and the reason of the failed
\* initialisation, and resolves only when the worker has an engine.
THEOREM AtomicCreate == HandleSpec => []CreateIsAtomic
<1>1. HandleInv => CreateIsAtomic
  BY DEF HandleInv, CreateIsAtomic, StageInv, InitInv
<1> QED BY <1>1, HandleInvariance, PTL

\* When close() has settled, no call is left unsettled, also when the worker could not
\* be terminated.
THEOREM CloseSettlesAll == HandleSpec => []CloseBarrier
<1>1. HandleInv => CloseBarrier
  BY DEF HandleInv, CloseBarrier, NoLostCall, StageInv
<1> QED BY <1>1, HandleInvariance, PTL

\* A closed handle, or one whose worker is gone, owns no call.
THEOREM DeadHandle == HandleSpec => []DeadOwnsNothing
<1>1. HandleInv => DeadOwnsNothing
  BY DEF HandleInv, DeadOwnsNothing, StageInv
<1> QED BY <1>1, HandleInvariance, PTL

\* An answer that arrives after close() has begun reaches nobody: what was unanswered
\* then ends as closed, by close() itself.
THEOREM LateAnswersUnheard == HandleSpec => ClosedMeansClosed
<1> DEFINE Late == \A r \in snapshot : result'[r] # result[r] => result'[r] = "closing"
<1>1. HandleInv /\ [HandleNext]_handleVars => [Late]_handleVars
  <2> SUFFICES ASSUME HandleInv, [HandleNext]_handleVars, NEW r \in snapshot
               PROVE  result'[r] # result[r] => result'[r] = "closing"
    OBVIOUS
  <2>1. /\ closing \in {"scheduled", "terminating"} /\ stage = "ready"
        /\ pending = {} /\ r \in Requests /\ result[r] = "pending"
    BY DEF HandleInv, HandleTypeOK, NoLostCall, StageInv
  <2>2. CASE Host
    BY <2>1, <2>2, HandleAssumption DEF HandleInv, HandleTypeOK, Host, Create, Close, Call, Run,
       Abort, Send, SendThrows, Requests
  <2>3. CASE \E failed \in BOOLEAN : CloseReturns(failed)
    BY <2>1, <2>3 DEF CloseReturns, Rejected, RejectAtEnd
  <2>4. CASE CloseTerminates
    BY <2>1, <2>4 DEF CloseTerminates, Rejected, RejectAtEnd
  <2>5. CASE OnMessage \/ OnError \/ OnExit
    BY <2>1, <2>5 DEF OnMessage, OnError, OnExit, Rejected, ExitRejects
  <2>6. CASE Progress
    BY <2>1, <2>3, <2>4, <2>5, <2>6 DEF Progress, Created, CleanupFailedCreate, CleanupReturns,
       RunReturns, Serve
  <2>7. CASE Crash \/ Finished \/ CleanupReturns(TRUE) \/ UNCHANGED handleVars
    BY <2>1, <2>7 DEF Crash, Finished, CleanupReturns, handleVars
  <2> QED BY <2>2, <2>3, <2>6, <2>7 DEF HandleNext
<1> QED BY <1>1, HandleInvariance, PTL DEF HandleSpec, ClosedMeansClosed
=============================================================================
