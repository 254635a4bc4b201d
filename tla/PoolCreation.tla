---------------------------- MODULE PoolCreation ----------------------------
(***************************************************************************)
(* EnginePool.create() of packages/ferric/src/engine-pool.ts: all workers    *)
(* are started and sent their specs in one synchronous run; then create()     *)
(* waits for every answer, publishes the pool, or takes everything down.      *)
(* An action is one synchronous run of the main thread or one event of a      *)
(* worker.  Once the pool is published only the failure of a slot is kept     *)
(* here; the rest of its life is EnginePool.                                  *)
(***************************************************************************)
EXTENDS Naturals, Sequences, FiniteSets, FiniteSetsExt

CONSTANT Threads      \* options.threads

ASSUME ThreadsAssumption == Threads \in Nat \ {0}

Slots == 1 .. Threads

VARIABLES
  creationStage,  \* of create(): "new", "init", "cleanup", "published", "failed"
  slot,           \* slot[s]: state, listening, hooked (onTerminal), waiting (pending holds __init)
  init,           \* the promise of initSlot(): "none", "pending", "ok", "rejected"
  all,            \* Promise.all(initPromises): NoError while pending, Done, or an error
  handled,        \* init promises that have a rejection handler
  reported,       \* the error create() rejects with
  terminalError,
  worker,         \* the thread: "none", "up", "threw", "exited" (event to come), "gone"
  wire,           \* "none", "posted", or an answer not received: "ok", "error"
  refused,        \* workers whose terminate() was rejected
  broken          \* history: the failures of initialisation, in order

poolVars == <<creationStage, slot, init, all, handled, reported, terminalError>>
threadVars == <<worker, wire, refused>>
creationVars == <<poolVars, threadVars, broken>>

NoError == <<"none", 0>>
Done == <<"done", 0>>
Errors == {"construct", "send", "answer", "died"} \X Slots

SlotStates == [state : {"none", "running", "failed", "terminating", "closed"},
               error : Errors \cup {NoError},
               listening : BOOLEAN, hooked : BOOLEAN, waiting : BOOLEAN]

CreationTypeOK ==
  /\ creationStage \in {"new", "init", "cleanup", "published", "failed"}
  /\ slot \in [Slots -> SlotStates]
  /\ init \in [Slots -> {"none", "pending", "ok", "rejected"}]
  /\ all \in Errors \cup {NoError, Done}
  /\ handled \subseteq Slots
  /\ reported \in Errors \cup {NoError} /\ terminalError \in Errors \cup {NoError}
  /\ worker \in [Slots -> {"none", "up", "threw", "exited", "gone"}]
  /\ wire \in [Slots -> {"none", "posted", "ok", "error"}]
  /\ refused \subseteq Slots
  /\ broken \in Seq(Errors)

NewSlot == [state |-> "running", error |-> NoError, listening |-> TRUE,
            hooked |-> FALSE, waiting |-> FALSE]
NoSlot == [NewSlot EXCEPT !.state = "none", !.listening = FALSE]

CreationInit ==
  /\ creationStage = "new" /\ all = NoError /\ handled = {} /\ refused = {} /\ broken = <<>>
  /\ reported = NoError /\ terminalError = NoError
  /\ slot = [s \in Slots |-> NoSlot]
  /\ init = [s \in Slots |-> "none"]
  /\ worker = [s \in Slots |-> "none"]
  /\ wire = [s \in Slots |-> "none"]

-----------------------------------------------------------------------------
(* The helpers of the pool. *)

\* failSlot(): nothing when the slot is not running any more.
FailSlot(c, error) ==
  IF c.state # "running" THEN c
  ELSE [c EXCEPT !.state = "failed", !.error = error, !.hooked = FALSE,
                 !.listening = FALSE, !.waiting = FALSE]

\* terminateSlot() up to its await.
TerminateSlot(c) ==
  IF c.state \in {"running", "failed"} THEN [c EXCEPT !.state = "terminating"] ELSE c

\* The cleanup of every slot that was created.
TakenDown(slots) ==
  [s \in Slots |-> IF slots[s].state = "none" THEN slots[s]
                   ELSE TerminateSlot(FailSlot(slots[s], reported'))]

\* terminate() of a worker.
Killed(w) == IF w \in {"up", "threw"} THEN "exited" ELSE w

\* void initPromise.catch(...) for every promise there is.
SwallowRejections(promises) == handled \cup promises

\* The catch block of createValidated() up to its await, with the slots, the
\* promises and the threads as the synchronous run has left them.
Unwind(error, slots, promises, threads) ==
  /\ creationStage' = "cleanup"
  /\ reported' = error
  /\ slot' = TakenDown(slots)
  /\ handled' = SwallowRejections({s \in Slots : promises[s] # "none"})
  /\ init' = [s \in Slots |-> IF slots[s].state = "running" /\ slots[s].waiting
                              THEN "rejected" ELSE promises[s]]
  /\ worker' = [s \in Slots |-> IF slots[s].state = "none" THEN "none" ELSE Killed(threads[s])]

-----------------------------------------------------------------------------
(* create() *)

\* The loop: the first k workers start, those of unsent have a postMessage that
\* throws and is rolled back, and the constructor of the next worker throws
\* unless k is the number of threads.
Start(k, unsent) ==
  /\ creationStage = "new"
  /\ LET slots == [s \in Slots |-> IF s <= k THEN [NewSlot EXCEPT !.waiting = s \notin unsent]
                                   ELSE NoSlot]
         promises == [s \in Slots |-> IF s > k THEN "none"
                                      ELSE IF s \in unsent THEN "rejected" ELSE "pending"]
         threads == [s \in Slots |-> IF s <= k THEN "up" ELSE "none"]
     IN /\ wire' = [s \in Slots |-> IF s <= k /\ s \notin unsent THEN "posted" ELSE "none"]
        /\ IF k < Threads
             THEN /\ Unwind(<<"construct", k + 1>>, slots, promises, threads)
                  /\ broken' = <<<<"construct", k + 1>>>>
                  /\ UNCHANGED all
             ELSE /\ creationStage' = "init"
                  /\ slot' = slots /\ init' = promises /\ worker' = threads
                  /\ handled' = Slots
                  /\ all' = IF unsent = {} THEN NoError ELSE <<"send", Min(unsent)>>
                  /\ broken' = IF unsent = {} THEN <<>> ELSE <<<<"send", Min(unsent)>>>>
                  /\ UNCHANGED reported
  /\ UNCHANGED <<terminalError, refused>>

\* Promise.all has rejected with the first failure.
InitFailed ==
  /\ creationStage = "init"
  /\ all \in Errors
  /\ Unwind(all, slot, init, worker)
  /\ UNCHANGED <<all, terminalError, wire, refused, broken>>

\* Mutant: the constructor does not look for slots that have failed before.
IgnoresFailed == NoError

\* The constructor's terminalError: the error of the first slot that failed after
\* its worker had answered.
Prefailed ==
  LET failed == {s \in Slots : slot[s].state = "failed"}
  IN IF failed = {} THEN NoError ELSE slot[Min(failed)].error

\* The constructor of the pool and the test after it.
Publish ==
  /\ creationStage = "init"
  /\ all = Done
  /\ terminalError' = Prefailed
  /\ LET slots == [s \in Slots |-> IF slot[s].state = "running"
                                   THEN [slot[s] EXCEPT !.hooked = TRUE] ELSE slot[s]]
     IN IF Prefailed = NoError
          THEN /\ creationStage' = "published"
               /\ slot' = slots
               /\ UNCHANGED <<init, handled, reported, worker>>
          ELSE Unwind(Prefailed, slots, init, worker)
  /\ UNCHANGED <<all, wire, refused, broken>>

\* terminate() settles; the finally clause runs either way.
TerminateReturns(s) ==
  /\ slot[s].state = "terminating"
  /\ slot' = [slot EXCEPT ![s] = [@ EXCEPT !.state = "closed", !.hooked = FALSE, !.listening = FALSE]]
  /\ \/ worker' = [worker EXCEPT ![s] = "gone"] /\ UNCHANGED refused
     \/ worker' = [worker EXCEPT ![s] = "up"] /\ refused' = refused \cup {s}
  /\ UNCHANGED <<creationStage, init, all, handled, reported, terminalError, wire, broken>>

\* Mutant: the error is thrown without waiting for the terminations.
Unawaited == TRUE

\* await Promise.all(slots.map(...)).
AllTerminated == \A s \in Slots : slot[s].state \in {"none", "closed"}

\* throw error.
Rethrow ==
  /\ creationStage = "cleanup"
  /\ AllTerminated
  /\ creationStage' = "failed"
  /\ UNCHANGED <<slot, init, all, handled, reported, terminalError, threadVars, broken>>

-----------------------------------------------------------------------------
(* The workers. *)

\* The worker's answer to __init.
Answer(s) ==
  /\ worker[s] = "up" /\ wire[s] = "posted"
  /\ \E a \in {"ok", "error"} : wire' = [wire EXCEPT ![s] = a]
  /\ UNCHANGED <<poolVars, worker, refused, broken>>

\* An uncaught exception or an exit of the thread; external.
CreationCrash(s) ==
  /\ worker[s] = "up" /\ s \notin refused
  /\ \E w \in {"threw", "exited"} : worker' = [worker EXCEPT ![s] = w]
  /\ UNCHANGED <<poolVars, wire, refused, broken>>

\* Promise.all keeps its first rejection.
FirstFailure(error) == IF all = NoError THEN error ELSE all

\* The init promise of s is rejected while create() waits.
InitRejected(s, error) ==
  /\ init' = [init EXCEPT ![s] = "rejected"]
  /\ all' = FirstFailure(error)
  /\ broken' = Append(broken, error)

\* The message listener.
CreationOnMessage(s) ==
  /\ wire[s] \in {"ok", "error"}
  /\ wire' = [wire EXCEPT ![s] = "none"]
  /\ IF slot[s].listening /\ slot[s].state = "running" /\ slot[s].waiting
       THEN /\ slot' = [slot EXCEPT ![s].waiting = FALSE]
            /\ IF wire[s] = "error"
                 THEN InitRejected(s, <<"answer", s>>)
                 ELSE /\ init' = [init EXCEPT ![s] = "ok"]
                      /\ all' = IF all = NoError /\ \A t \in Slots \ {s} : init[t] = "ok"
                                THEN Done ELSE all
                      /\ UNCHANGED broken
       ELSE UNCHANGED <<slot, init, all, broken>>
  /\ UNCHANGED <<creationStage, handled, reported, terminalError, worker, refused>>

\* handleSlotTerminal(), when the constructor has installed it.
TerminalAfter(s, error) ==
  IF slot[s].hooked /\ terminalError = NoError THEN error ELSE terminalError

\* The error the slot fails with: before publication its own, afterwards the
\* pool's first.
SlotError(s, error) == IF slot[s].hooked THEN TerminalAfter(s, error) ELSE error

\* signalSlotFailure().
SignalSlotFailure(s) ==
  IF slot[s].listening /\ slot[s].state = "running"
    THEN /\ terminalError' = TerminalAfter(s, <<"died", s>>)
         /\ slot' = [slot EXCEPT ![s] = FailSlot(@, SlotError(s, <<"died", s>>))]
         /\ IF slot[s].waiting THEN InitRejected(s, <<"died", s>>)
            ELSE UNCHANGED <<init, all, broken>>
    ELSE UNCHANGED <<slot, terminalError, init, all, broken>>

\* The error listener, and the exit listener.
CreationOnError(s) ==
  /\ worker[s] = "threw"
  /\ worker' = [worker EXCEPT ![s] = "exited"]
  /\ SignalSlotFailure(s)
  /\ UNCHANGED <<creationStage, handled, reported, wire, refused>>
CreationOnExit(s) ==
  /\ worker[s] = "exited"
  /\ worker' = [worker EXCEPT ![s] = "gone"]
  /\ SignalSlotFailure(s)
  /\ UNCHANGED <<creationStage, handled, reported, wire, refused>>

\* create() has settled; the workers may have come to rest.
Settled == creationStage \in {"published", "failed"} /\ UNCHANGED creationVars

\* The start of the workers, wherever it fails.
Starts == \E k \in 0 .. Threads : \E unsent \in SUBSET (1 .. k) : Start(k, unsent)

\* What the event loop and living workers bring about by themselves.
CreationProgress ==
  \/ Starts \/ InitFailed \/ Publish \/ Rethrow
  \/ \E s \in Slots : TerminateReturns(s) \/ Answer(s) \/ CreationOnMessage(s) \/ CreationOnError(s) \/ CreationOnExit(s)

CreationNext == CreationProgress \/ Settled \/ \E s \in Slots : CreationCrash(s)

CreationSpec == CreationInit /\ [][CreationNext]_creationVars
CreationFairSpec == CreationSpec /\ WF_creationVars(CreationProgress)

-----------------------------------------------------------------------------
(* Properties *)

\* createValidated(): a pool is published only when every worker has answered, and
\* no failure falls between the two regimes: a slot of a published pool that has
\* failed, whether before or after the constructor ran, is known to the pool as
\* its terminal error, and every slot that fails then fails with that first error,
\* although each died of its own.
PublishedWhole ==
  creationStage = "published" =>
    /\ \A s \in Slots : init[s] = "ok" /\ ~slot[s].waiting
    /\ \A s \in Slots : slot[s].state = "failed" => slot[s].error = terminalError
    /\ (terminalError = NoError) <=> \A s \in Slots : slot[s].state = "running"
    /\ \A s \in Slots : slot[s].state = "running" => slot[s].listening /\ slot[s].hooked

\* "Ignore best-effort cleanup failures while unwinding create()": when create()
\* rejects, every worker it started is down, save those whose terminate() was
\* itself rejected, no listener is left on one and no initialisation is open.
NothingLeaks ==
  creationStage = "failed" =>
    \A s \in Slots :
      /\ worker[s] \in {"none", "gone"} \/ s \in refused
      /\ ~slot[s].listening /\ ~slot[s].hooked /\ ~slot[s].waiting
      /\ init[s] # "pending"

\* throw error: the host sees what failed first, not the failure of a sibling that
\* came later or that the cleanup caused; without a failed initialisation it is
\* the error of a worker that died after its answer.
FirstErrorReported ==
  creationStage \in {"cleanup", "failed"} =>
    IF broken # <<>> THEN reported = broken[1]
    ELSE reported[1] = "died" /\ init[reported[2]] = "ok"

\* "A Worker constructor can throw after earlier initialization promises were
\* created but before Promise.all() attached its handlers": no rejection of an
\* initialisation is ever left without a handler, which would end the process.
NoUnhandledRejection == \A s \in Slots : init[s] = "rejected" => s \in handled

\* Once called, create() settles, whatever dies and in whatever order.
CreationSettles == <>(creationStage \in {"published", "failed"})
=============================================================================
