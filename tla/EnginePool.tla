------------------------------ MODULE EnginePool ------------------------------
(***************************************************************************)
(* The scheduler of packages/ferric/src/engine-pool.ts: a fixed set of      *)
(* worker slots, each with one request in flight at a time, a FIFO of root  *)
(* calls (evaluate() requests and do() lease admissions), and an exclusive  *)
(* lease that reserves a whole slot for one do() callback.                  *)
(*                                                                          *)
(* JavaScript runs to completion, so one action is one synchronous run of   *)
(* the main thread: a public call up to its first await, an event listener, *)
(* an abort listener, or one promise continuation.  The actions may happen  *)
(* in any order, which includes every order the microtask queue can give.   *)
(*                                                                          *)
(* Requests are pairs: <<t, 0>> is the root request of call t, <<t, i>> the *)
(* i-th proxy call made by the callback of call t.                          *)
(***************************************************************************)
EXTENDS Integers, Sequences, FiniteSets

CONSTANTS NSlots,         \* number of worker threads
          Tasks,          \* the public calls made on the pool
          Kind,           \* Kind[t]: which public method call t is
          Parent,         \* Parent[t]: the do() call whose callback makes call t
          MaxCalls,       \* bound: proxy calls one callback makes
          QueueCapacity,  \* EnginePoolOptions.queueCapacity
          Unsendable,     \* requests whose postMessage throws (not clonable)
          Abortable,      \* calls whose AbortSignal may fire
          MayCrash,       \* slots whose worker thread may die
          None            \* "undefined"

Slots    == 0 .. NSlots - 1
Requests == Tasks \X (0 .. MaxCalls)
Calls    == Tasks \X (1 .. MaxCalls)
Root(t)  == <<t, 0>>

ASSUME PoolAssumption ==
  /\ NSlots \in Nat \ {0}
  /\ MaxCalls \in Nat
  /\ QueueCapacity \in Nat
  /\ Kind \in [Tasks -> {"evaluate", "do", "close"}]
  /\ Parent \in [Tasks -> Tasks \cup {None}]
  /\ None \notin Tasks
  /\ None \notin Slots
  /\ Unsendable \subseteq Requests
  /\ \A t \in Abortable : t \in Tasks /\ Kind[t] # "close"
  /\ MayCrash \subseteq Slots

VARIABLES
  slot,           \* WorkerSlot records
  worker,         \* the worker threads (external)
  roundRobin,     \* this.roundRobin
  closed,         \* this.closed
  closeFailed,    \* some terminateSlot() of finishClose() rejected
  terminalError,  \* this.terminalError: the slot whose failure came first
  phase,          \* where each public call is
  lease,          \* WorkerLease records, one per do() call
  aborted,        \* AbortSignal.aborted of each call
  home,           \* the slot pickSlot() gave each call
  result,         \* how the promise of each request settled
  untracked       \* settled proxy calls whose settleLeaseCall() has not run

poolVars == <<roundRobin, closed, closeFailed, terminalError>>
vars == <<slot, worker, poolVars, phase, lease, aborted, home, result, untracked>>

Verdicts ==
  {"ok", "workerError", "sendError", "callbackError", "aborted", "closed",
   "terminal", "queueFull", "reentrant", "inactive", "closeFailed"}
SlotRecord ==
  [state : {"running", "failed", "terminating", "closed"},
   pending : SUBSET Requests, inflight : Int, queue : Seq(Tasks),
   activeLease : Tasks \cup {None}, rejected : Nat, listening : BOOLEAN,
   posted : SUBSET Requests,     \* sent to the worker and not answered yet
   closing : {"open", "lease", "pending", "ready", "terminating", "done"},
   awaits : Tasks \cup {None}]   \* the lease finishClose() captured
LeaseRecord ==
  [active : BOOLEAN, released : BOOLEAN, queue : Seq(Calls), pendingCalls : Int]
Phases == {"idle", "waiting", "admitted", "callback", "releasing", "abandoning", "done"}

TypeOK ==
  /\ slot \in [Slots -> SlotRecord]
  /\ worker \in [Slots -> {"up", "threw", "exited", "gone"}]
  /\ roundRobin \in Slots
  /\ closed \in BOOLEAN
  /\ closeFailed \in BOOLEAN
  /\ terminalError \in Slots \cup {None}
  /\ phase \in [Tasks -> Phases]
  /\ lease \in [Tasks -> LeaseRecord]
  /\ aborted \in [Tasks -> BOOLEAN]
  /\ home \in [Tasks -> Slots \cup {None}]
  /\ result \in [Requests -> Verdicts \cup {"none", "pending"}]
  /\ untracked \in SUBSET Calls

\* createSlot() for every thread, then the constructor: create() publishes a
\* pool only when every slot is still running.
Init ==
  /\ slot = [s \in Slots |->
       [state |-> "running", pending |-> {}, inflight |-> 0, queue |-> <<>>,
        activeLease |-> None, rejected |-> 0, listening |-> TRUE, posted |-> {},
        closing |-> "open", awaits |-> None]]
  /\ worker = [s \in Slots |-> "up"]
  /\ roundRobin = 0
  /\ closed = FALSE
  /\ closeFailed = FALSE
  /\ terminalError = None
  /\ phase = [t \in Tasks |-> "idle"]
  /\ lease = [t \in Tasks |->
       [active |-> FALSE, released |-> FALSE, queue |-> <<>>, pendingCalls |-> 0]]
  /\ aborted = [t \in Tasks |-> FALSE]
  /\ home = [t \in Tasks |-> None]
  /\ result = [r \in Requests |-> "none"]
  /\ untracked = {}

-----------------------------------------------------------------------------
(***************************************************************************)
(* The private helpers.  Each takes and returns the part of the state they  *)
(* share, h: the record of one slot and the tables of phases, leases and    *)
(* promises; a handler is a composition of helpers, committed once.         *)
(***************************************************************************)
Here(s) ==
  [slot |-> slot[s], phase |-> phase, lease |-> lease, result |-> result,
   untracked |-> untracked]

Commit(s, h) ==
  /\ slot' = [slot EXCEPT ![s] = h.slot]
  /\ phase' = h.phase
  /\ lease' = h.lease
  /\ result' = h.result
  /\ untracked' = h.untracked

Elems(q) == {q[i] : i \in 1 .. Len(q)}

\* Resolve or reject the promises of the requests in R.  The continuation of a
\* root request ends its public call; that of a proxy call is the reaction
\* trackLeaseCall() registered, which runs later.
Settle(h, R, verdict) ==
  [h EXCEPT
     !.result = [r \in Requests |-> IF r \in R THEN verdict ELSE h.result[r]],
     !.phase = [t \in Tasks |-> IF Root(t) \in R THEN "done" ELSE h.phase[t]],
     !.untracked = h.untracked \cup (R \cap Calls)]

\* markLeaseReleased() of every lease in T.
MarkReleased(h, T) ==
  [h EXCEPT !.lease = [t \in Tasks |->
     IF t \in T THEN [h.lease[t] EXCEPT !.active = FALSE, !.released = TRUE]
                ELSE h.lease[t]]]

\* rejectQueuedWork() of the root calls in T.
RejectQueued(h, T, verdict) ==
  Settle(MarkReleased(h, {t \in T : Kind[t] = "do"}), {Root(t) : t \in T}, verdict)

\* notifyPendingDrained(): wake finishClose() when nothing is pending.
NotifyPendingDrained(h) ==
  IF h.slot.pending = {} /\ h.slot.closing = "pending"
    THEN [h EXCEPT !.slot = [h.slot EXCEPT !.closing = "ready"]]
    ELSE h

\* dispatchRequest() whose postMessage returns.  A message to a dead worker is
\* lost.
Dispatch(s, h, r) ==
  [h EXCEPT !.slot = [h.slot EXCEPT
     !.pending = h.slot.pending \cup {r},
     !.inflight = h.slot.inflight + 1,
     !.posted = IF worker[s] = "up" THEN h.slot.posted \cup {r} ELSE h.slot.posted]]

\* dispatchRequest() of the requests in R, whose postMessage throws: each
\* registration is undone, so what is left is the rejection and the wake-up.  The
\* catch also has a branch for an entry that is settled by then, by an event that
\* the worker delivers while postMessage runs (engine-pool.ts:706-711).  Events of
\* worker_threads come from the event loop only, so it has no states here.
SendFailed(h, R) ==
  IF R = {} THEN h ELSE NotifyPendingDrained(Settle(h, R, "sendError"))

\* Give the slot to the lease of call t and resolve its admission.
Admit(h, t) ==
  [h EXCEPT !.slot = [h.slot EXCEPT !.activeLease = t],
            !.lease = [h.lease EXCEPT ![t] = [h.lease[t] EXCEPT !.active = TRUE]],
            !.phase = [h.phase EXCEPT ![t] = "admitted"]]

\* Mutant: takes the youngest entry instead of the oldest.
LastOf(q, I) ==
  IF I = {} THEN Len(q) + 1 ELSE CHOOSE i \in I : \A j \in I : i >= j

\* The first index of q in I, or the index behind its end.
FirstOf(q, I) ==
  IF I = {} THEN Len(q) + 1 ELSE CHOOSE i \in I : \A j \in I : i <= j

\* Mutant: looks at the head of the owner FIFO without shifting it.
DrainOwnerPeek(s, h) ==
  LET q == h.lease[h.slot.activeLease].queue
  IN IF q = <<>> THEN h ELSE Dispatch(s, h, Head(q))

\* drainQueue() while a lease is active: send its first proxy call that can be
\* sent, reject those in front of it; the lease keeps the slot.
DrainOwner(s, h) ==
  LET t == h.slot.activeLease
      q == h.lease[t].queue
      k == FirstOf(q, {i \in 1 .. Len(q) : q[i] \notin Unsendable})
      skipped == {q[i] : i \in 1 .. k - 1}
      tail == [h.lease[t] EXCEPT !.queue = SubSeq(q, k + 1, Len(q))]
      rest == [SendFailed(h, skipped) EXCEPT !.lease = [h.lease EXCEPT ![t] = tail]]
  IN IF k > Len(q) THEN rest ELSE Dispatch(s, rest, q[k])

\* drainQueue() without a lease: drop aborted calls and requests that cannot be
\* sent, then admit one lease or send one request.
DrainRoot(s, h) ==
  LET q == h.slot.queue
      k == FirstOf(q, {i \in 1 .. Len(q) :
             ~aborted[q[i]] /\ (Kind[q[i]] = "do" \/ Root(q[i]) \notin Unsendable)})
      front == {q[i] : i \in 1 .. k - 1}
      late == {t \in front : aborted[t]}
      tail == [h EXCEPT !.slot = [h.slot EXCEPT !.queue = SubSeq(q, k + 1, Len(q))]]
      rest == SendFailed(RejectQueued(tail, late, "aborted"), {Root(t) : t \in front \ late})
  IN IF k > Len(q) THEN rest
     ELSE IF Kind[q[k]] = "do" THEN Admit(rest, q[k])
     ELSE Dispatch(s, rest, Root(q[k]))

\* Mutant: an active lease keeps the slot but its own FIFO is not served.
DrainQueueRootOnly(s, h) ==
  IF h.slot.state # "running" \/ h.slot.inflight # 0 \/ h.slot.activeLease # None
    THEN h ELSE DrainRoot(s, h)

DrainQueue(s, h) ==
  IF h.slot.state # "running" \/ h.slot.inflight # 0 THEN h
  ELSE IF h.slot.activeLease # None THEN DrainOwner(s, h)
  ELSE DrainRoot(s, h)

\* dispatchRequest(), followed by drainQueue() when the send was rolled back.
DispatchRequest(s, h, r) ==
  IF r \in Unsendable THEN DrainQueue(s, SendFailed(h, {r})) ELSE Dispatch(s, h, r)

\* queuedOnSlot(): waiting entries share one budget across both FIFOs.
QueuedOnSlot(s) ==
  Len(slot[s].queue)
    + IF slot[s].activeLease = None THEN 0 ELSE Len(lease[slot[s].activeLease].queue)

QueueFull(s) == ~(QueuedOnSlot(s) < QueueCapacity)

-----------------------------------------------------------------------------
(***************************************************************************)
(* evaluate() and do(), up to their first await.                            *)
(***************************************************************************)
\* The code of a callback runs from its start; what it leaves behind may run on.
Callable(t) ==
  /\ phase[t] = "idle"
  /\ Parent[t] # None => phase[Parent[t]] \in {"callback", "releasing"}

\* Mutant: the reentrancy check is missing.
NeverReenters(t) == FALSE

\* assertNotInActiveCallback(): context.active holds while the callback runs.
Reenters(t) == Parent[t] # None /\ phase[Parent[t]] = "callback"

\* The checks evaluate(), do(), sendToSlot() and acquireLease() make in order.
RootRefusal(t) ==
  CASE Reenters(t)           -> "reentrant"
    [] closed                -> "closed"
    [] terminalError # None  -> "terminal"
    [] aborted[t]            -> "aborted"
    [] OTHER                 -> "none"

\* Mutant: a lease between two proxy calls is taken for a free slot.
SlotIdle(s) == slot[s].inflight = 0 /\ slot[s].queue = <<>>

\* Neither in-flight work, nor a lease, nor a queue in front of the new call.
SlotFree(s) ==
  /\ slot[s].inflight = 0
  /\ slot[s].activeLease = None
  /\ slot[s].queue = <<>>

RefuseRoot(t) ==
  /\ Kind[t] # "close" /\ Callable(t)
  /\ RootRefusal(t) # "none"
  /\ phase' = [phase EXCEPT ![t] = "done"]
  /\ result' = [result EXCEPT ![Root(t)] = RootRefusal(t)]
  /\ UNCHANGED <<slot, worker, poolVars, lease, aborted, home, untracked>>

\* An accepted or overflowing call: pickSlot() has advanced the round robin.
PickSlot(t) ==
  /\ Kind[t] # "close" /\ Callable(t)
  /\ RootRefusal(t) = "none"
  /\ roundRobin' = (roundRobin + 1) % NSlots
  /\ home' = [home EXCEPT ![t] = roundRobin]
  /\ UNCHANGED <<worker, closed, closeFailed, terminalError, aborted>>

RejectFull(t) ==
  LET s == roundRobin
  IN /\ PickSlot(t)
     /\ ~SlotFree(s) /\ QueueFull(s)
     /\ slot' = [slot EXCEPT ![s].rejected = @ + 1]
     /\ phase' = [phase EXCEPT ![t] = "done"]
     /\ result' = [result EXCEPT ![Root(t)] = "queueFull"]
     /\ UNCHANGED <<lease, untracked>>

\* The call is accepted: its promise is pending.
Accepted(h, t) ==
  [h EXCEPT !.phase = [h.phase EXCEPT ![t] = "waiting"],
            !.result = [h.result EXCEPT ![Root(t)] = "pending"]]

EnqueueRoot(t) ==
  LET s == roundRobin
  IN /\ PickSlot(t)
     /\ ~SlotFree(s) /\ ~QueueFull(s)
     /\ Commit(s, [Accepted(Here(s), t) EXCEPT
                     !.slot = [slot[s] EXCEPT !.queue = Append(slot[s].queue, t)]])

EvaluateNow(t) ==
  LET s == roundRobin
  IN /\ Kind[t] = "evaluate"
     /\ PickSlot(t)
     /\ SlotFree(s)
     /\ Commit(s, DispatchRequest(s, Accepted(Here(s), t), Root(t)))

AdmitNow(t) ==
  LET s == roundRobin
  IN /\ Kind[t] = "do"
     /\ PickSlot(t)
     /\ SlotFree(s)
     /\ Commit(s, Admit(Accepted(Here(s), t), t))

-----------------------------------------------------------------------------
(***************************************************************************)
(* The life of a do() callback and its proxy calls.                         *)
(***************************************************************************)
StartCallback(t) ==
  /\ phase[t] = "admitted"
  /\ ~aborted[t]
  /\ phase' = [phase EXCEPT ![t] = "callback"]
  /\ UNCHANGED <<slot, worker, poolVars, lease, aborted, home, result, untracked>>

\* Abort raced with admission: releaseLease() without starting the callback.
AbandonLease(t) ==
  /\ phase[t] = "admitted"
  /\ aborted[t]
  /\ phase' = [phase EXCEPT ![t] = "abandoning"]
  /\ lease' = [lease EXCEPT ![t].active = FALSE]
  /\ UNCHANGED <<slot, worker, poolVars, aborted, home, result, untracked>>

\* The pool observes that the callback settled.  A callback awaits the pool
\* calls it made; it may or may not await its proxy calls.
CallbackSettles(t) ==
  /\ phase[t] = "callback"
  /\ \A u \in Tasks : Parent[u] = t => phase[u] \in {"idle", "done"}
  /\ phase' = [phase EXCEPT ![t] = "releasing"]
  /\ lease' = [lease EXCEPT ![t].active = FALSE]
  /\ UNCHANGED <<slot, worker, poolVars, aborted, home, result, untracked>>

\* The rest of releaseLease() once waitForLeaseCalls() resolved, and the
\* delivery of do()'s outcome; an abort that came first keeps the promise.
FinishRelease(t) ==
  LET s == home[t]
      freed == [Here(s) EXCEPT !.slot = [slot[s] EXCEPT
                  !.activeLease = IF slot[s].activeLease = t THEN None ELSE slot[s].activeLease]]
  IN /\ phase[t] \in {"releasing", "abandoning"}
     /\ lease[t].pendingCalls = 0
     /\ \E verdict \in IF phase[t] = "abandoning" THEN {"aborted"}
                        ELSE IF result[Root(t)] = "pending" THEN {"ok", "callbackError"}
                        ELSE {result[Root(t)]} :
          Commit(s, Settle(DrainQueue(s, MarkReleased(freed, {t})), {Root(t)}, verdict))
     /\ UNCHANGED <<worker, poolVars, aborted, home>>

\* The checks of withActiveLease() and sendOnLease(), in order.
CallRefusal(t) ==
  LET sl == slot[home[t]]
  IN CASE ~lease[t].active \/ lease[t].released \/ sl.activeLease # t -> "inactive"
       [] sl.state = "failed"   -> "terminal"
       [] sl.state # "running"  -> "closed"
       [] aborted[t]            -> "aborted"
       [] OTHER                 -> "none"

\* The callback of t, or what it left running, makes its i-th proxy call.
Invokes(t, i) ==
  /\ phase[t] \in {"callback", "releasing"}
  /\ result[<<t, i>>] = "none"
  /\ i > 1 => result[<<t, i - 1>>] # "none"
  /\ UNCHANGED <<worker, poolVars, aborted, home>>

RefuseCall(t, i) ==
  /\ Invokes(t, i)
  /\ CallRefusal(t) # "none"
  /\ result' = [result EXCEPT ![<<t, i>>] = CallRefusal(t)]
  /\ UNCHANGED <<slot, phase, lease, untracked>>

\* Mutant: an empty owner FIFO is taken for an idle worker.
CallFreeIgnoringInflight(t) == lease[t].queue = <<>>

CallFree(t) == slot[home[t]].inflight = 0 /\ lease[t].queue = <<>>

RejectCallFull(t, i) ==
  /\ Invokes(t, i)
  /\ CallRefusal(t) = "none"
  /\ ~CallFree(t) /\ QueueFull(home[t])
  /\ slot' = [slot EXCEPT ![home[t]].rejected = @ + 1]
  /\ result' = [result EXCEPT ![<<t, i>>] = "queueFull"]
  /\ UNCHANGED <<phase, lease, untracked>>

\* Mutant: the call is not counted.
AcceptedCallUntracked(h, t, i) == 
  [h EXCEPT !.result = [h.result EXCEPT ![<<t, i>>] = "pending"]]

\* An accepted proxy call: its promise is pending and trackLeaseCall() counts it.
AcceptedCall(h, t, i) ==
  [h EXCEPT !.result = [h.result EXCEPT ![<<t, i>>] = "pending"],
            !.lease = [h.lease EXCEPT ![t] =
               [h.lease[t] EXCEPT !.pendingCalls = h.lease[t].pendingCalls + 1]]]

EnqueueCall(t, i) ==
  LET s == home[t]
      h == AcceptedCall(Here(s), t, i)
  IN /\ Invokes(t, i)
     /\ CallRefusal(t) = "none"
     /\ ~CallFree(t) /\ ~QueueFull(s)
     /\ Commit(s, [h EXCEPT !.lease = [h.lease EXCEPT ![t] =
                     [h.lease[t] EXCEPT !.queue = Append(h.lease[t].queue, <<t, i>>)]]])

CallNow(t, i) ==
  LET s == home[t]
  IN /\ Invokes(t, i)
     /\ CallRefusal(t) = "none"
     /\ CallFree(t)
     /\ Commit(s, DispatchRequest(s, AcceptedCall(Here(s), t, i), <<t, i>>))

\* settleLeaseCall(), the reaction to a settled proxy call.
SettleLeaseCall(t, i) ==
  /\ <<t, i>> \in untracked
  /\ untracked' = untracked \ {<<t, i>>}
  /\ lease' = [lease EXCEPT ![t].pendingCalls = @ - 1]
  /\ UNCHANGED <<slot, worker, poolVars, phase, aborted, home, result>>

-----------------------------------------------------------------------------
(***************************************************************************)
(* The abort listeners.  Abort of a request already sent only raises the    *)
(* shared flag the worker polls, which BatchedRun.tla models.               *)
(***************************************************************************)
\* onAbort of a queued request or lease.
AbortQueued(t) ==
  LET s == home[t]
      q == slot[s].queue
  IN /\ t \in Abortable /\ ~aborted[t]
     /\ aborted' = [aborted EXCEPT ![t] = TRUE]
     /\ phase[t] = "waiting"
     /\ \E i \in 1 .. Len(q) :
          /\ q[i] = t
          /\ Commit(s, DrainQueue(s, RejectQueued(
               [Here(s) EXCEPT !.slot = [slot[s] EXCEPT
                  !.queue = SubSeq(q, 1, i - 1) \o SubSeq(q, i + 1, Len(q))]],
               {t}, "aborted")))
     /\ UNCHANGED <<worker, poolVars, home>>

\* onAbort of do(): the public promise rejects, the callback and its lease go on.
AbortCallback(t) ==
  /\ t \in Abortable /\ ~aborted[t]
  /\ aborted' = [aborted EXCEPT ![t] = TRUE]
  /\ phase[t] = "callback"
  /\ result' = [result EXCEPT ![Root(t)] = "aborted"]
  /\ UNCHANGED <<slot, worker, poolVars, phase, lease, home, untracked>>

\* Before the call, between admission and callback, or after dispatch.  Once the
\* callback has settled nothing reads the signal any more.
AbortSignalOnly(t) ==
  /\ t \in Abortable /\ ~aborted[t]
  /\ aborted' = [aborted EXCEPT ![t] = TRUE]
  /\ phase[t] \in {"idle", "admitted", "waiting"}
  /\ phase[t] = "waiting" => t \notin Elems(slot[home[t]].queue)
  /\ UNCHANGED <<slot, worker, poolVars, phase, lease, home, result, untracked>>

-----------------------------------------------------------------------------
(***************************************************************************)
(* Worker threads and the listeners on their events.                        *)
(***************************************************************************)
\* The worker answers a request: the "message" listener.
OnMessage(s, r) ==
  LET sl == [slot[s] EXCEPT !.posted = slot[s].posted \ {r}]
      known == slot[s].state = "running" /\ r \in slot[s].pending
      taken == [Here(s) EXCEPT !.slot =
                  [sl EXCEPT !.pending = sl.pending \ {r}, !.inflight = sl.inflight - 1]]
  IN /\ r \in slot[s].posted
     /\ slot[s].listening
     /\ \E verdict \in {"ok", "workerError"} :
          Commit(s, IF known
                      THEN DrainQueue(s, NotifyPendingDrained(Settle(taken, {r}, verdict)))
                      ELSE [Here(s) EXCEPT !.slot = sl])
     /\ UNCHANGED <<worker, poolVars, aborted, home>>

\* The thread dies: of an uncaught exception, or by leaving.
Crash(s) ==
  /\ s \in MayCrash
  /\ worker[s] = "up"
  /\ \E how \in {"threw", "exited"} : worker' = [worker EXCEPT ![s] = how]
  /\ UNCHANGED <<slot, poolVars, phase, lease, aborted, home, result, untracked>>

\* failSlot(): make the slot unusable, then reject all the work it owns.
FailSlot(s) ==
  LET sl == slot[s]
      t == sl.activeLease
      owned == IF t = None THEN {} ELSE Elems(lease[t].queue)
      down == [Here(s) EXCEPT
                 !.slot = [sl EXCEPT !.state = "failed", !.listening = FALSE,
                                     !.pending = {}, !.inflight = 0, !.queue = <<>>],
                 !.lease = IF t = None THEN lease
                           ELSE [lease EXCEPT ![t] = [lease[t] EXCEPT !.queue = <<>>]]]
  IN NotifyPendingDrained(
       Settle(RejectQueued(down, Elems(sl.queue), "terminal"), owned \cup sl.pending, "terminal"))

\* Mutant: the first failure rejects the waiting calls of every slot.
HandleSlotTerminalEverywhere(s) ==
  /\ terminalError' = IF terminalError = None THEN s ELSE terminalError
  /\ Commit(s, RejectQueued(FailSlot(s),
       {t \in Tasks : phase[t] = "waiting" /\ Kind[t] # "close"}, "terminal"))

\* signalSlotFailure() and handleSlotTerminal() of a running slot.
HandleSlotTerminal(s) ==
  /\ terminalError' = IF terminalError = None THEN s ELSE terminalError
  /\ Commit(s, FailSlot(s))

Handled == <<slot, terminalError, phase, lease, result, untracked>>

\* The "error" event, and its listener.
OnError(s) ==
  /\ worker[s] = "threw"
  /\ worker' = [worker EXCEPT ![s] = "exited"]
  /\ \/ /\ slot[s].listening /\ slot[s].state = "running"
        /\ HandleSlotTerminal(s)
     \/ /\ ~(slot[s].listening /\ slot[s].state = "running")
        /\ UNCHANGED Handled
  /\ UNCHANGED <<roundRobin, closed, closeFailed, aborted, home>>

\* The "exit" event, and its listener.
OnExit(s) ==
  /\ worker[s] = "exited"
  /\ worker' = [worker EXCEPT ![s] = "gone"]
  /\ \/ /\ slot[s].listening /\ slot[s].state = "running"
        /\ HandleSlotTerminal(s)
     \/ /\ slot[s].listening /\ slot[s].state = "terminating"
        /\ Commit(s, NotifyPendingDrained(
             [Here(s) EXCEPT !.slot =
                [slot[s] EXCEPT !.state = "closed", !.listening = FALSE]]))
        /\ UNCHANGED terminalError
     \/ /\ ~(slot[s].listening /\ slot[s].state \in {"running", "terminating"})
        /\ UNCHANGED Handled
  /\ UNCHANGED <<roundRobin, closed, closeFailed, aborted, home>>

-----------------------------------------------------------------------------
(***************************************************************************)
(* close() and finishClose().                                               *)
(***************************************************************************)
\* Mutant: requests in flight are not waited for.
WaitForNothing(sl) == "ready"

\* waitForPending(), as the state finishClose() waits in.
WaitForPending(sl) == IF sl.pending = {} THEN "ready" ELSE "pending"

RefuseClose(t) ==
  /\ Kind[t] = "close" /\ Callable(t)
  /\ Reenters(t)
  /\ phase' = [phase EXCEPT ![t] = "done"]
  /\ result' = [result EXCEPT ![Root(t)] = "reentrant"]
  /\ UNCHANGED <<slot, worker, poolVars, lease, aborted, home, untracked>>

\* Mutant: every unsettled root call counts as queued.
WaitingRoots == {t \in Tasks : phase[t] = "waiting" /\ Kind[t] # "close"}

\* The root calls finishClose() takes out of the FIFOs.
QueuedRoots == UNION {Elems(slot[s].queue) : s \in Slots}

\* The first close(): finishClose() up to the first await of every slot.
CloseFirst(t) ==
  LET h == RejectQueued(Here(0), QueuedRoots, "closed")
  IN /\ Kind[t] = "close" /\ Callable(t)
     /\ ~Reenters(t)
     /\ ~closed
     /\ closed' = TRUE
     /\ slot' = [s \in Slots |->
          [slot[s] EXCEPT
             !.queue = <<>>,
             !.awaits = slot[s].activeLease,
             !.closing = IF slot[s].activeLease = None
                           THEN WaitForPending(slot[s]) ELSE "lease"]]
     /\ phase' = [h.phase EXCEPT ![t] = "waiting"]
     /\ result' = [h.result EXCEPT ![Root(t)] = "pending"]
     /\ lease' = h.lease
     /\ UNCHANGED <<worker, roundRobin, closeFailed, terminalError, aborted, home, untracked>>

\* A later close() shares the promise of the first.
CloseAgain(t) ==
  /\ Kind[t] = "close" /\ Callable(t)
  /\ ~Reenters(t)
  /\ closed
  /\ phase' = [phase EXCEPT ![t] = "waiting"]
  /\ result' = [result EXCEPT ![Root(t)] = "pending"]
  /\ UNCHANGED <<slot, worker, poolVars, lease, aborted, home, untracked>>

\* Mutant: close() does not wait for the callback.
CloseLeaseIgnored(s) ==
  /\ slot[s].closing = "lease"
  /\ slot' = [slot EXCEPT ![s].closing = WaitForPending(slot[s])]
  /\ UNCHANGED <<worker, poolVars, phase, lease, aborted, home, result, untracked>>

\* releasedPromise of the captured lease resolved.
CloseLeaseReleased(s) ==
  /\ slot[s].closing = "lease"
  /\ lease[slot[s].awaits].released
  /\ slot' = [slot EXCEPT ![s].closing = WaitForPending(slot[s])]
  /\ UNCHANGED <<worker, poolVars, phase, lease, aborted, home, result, untracked>>

\* terminateSlot() up to its await; terminate() stops a living thread.
TerminateSlot(s) ==
  /\ slot[s].closing = "ready"
  /\ slot[s].state \in {"running", "failed"}
  /\ slot' = [slot EXCEPT ![s] =
       [slot[s] EXCEPT !.state = "terminating", !.closing = "terminating"]]
  /\ worker' = [worker EXCEPT ![s] = IF @ = "up" THEN "exited" ELSE @]
  /\ UNCHANGED <<poolVars, phase, lease, aborted, home, result, untracked>>

\* The finally block of terminateSlot(), after terminate() resolved or rejected.
TerminateReturns(s) ==
  /\ slot[s].closing = "terminating"
  /\ \/ worker[s] = "gone" /\ UNCHANGED closeFailed
     \/ closeFailed' = TRUE
  /\ Commit(s, NotifyPendingDrained(
       [Here(s) EXCEPT !.slot =
          [slot[s] EXCEPT !.state = "closed", !.listening = FALSE, !.closing = "done"]]))
  /\ UNCHANGED <<worker, roundRobin, closed, terminalError, aborted, home>>

\* Promise.allSettled() of the slots: the shared promise settles.
FinishClose(t) ==
  /\ Kind[t] = "close"
  /\ phase[t] = "waiting"
  /\ \A s \in Slots : slot[s].closing = "done"
  /\ phase' = [phase EXCEPT ![t] = "done"]
  /\ result' = [result EXCEPT ![Root(t)] = IF closeFailed THEN "closeFailed" ELSE "ok"]
  /\ UNCHANGED <<slot, worker, poolVars, lease, aborted, home, untracked>>

-----------------------------------------------------------------------------
Admission(t) ==
  RefuseRoot(t) \/ RejectFull(t) \/ EnqueueRoot(t) \/ EvaluateNow(t) \/ AdmitNow(t)
LeaseStep(t) ==
  StartCallback(t) \/ AbandonLease(t) \/ CallbackSettles(t) \/ FinishRelease(t)
CallStep(t, i) ==
  \/ RefuseCall(t, i) \/ RejectCallFull(t, i) \/ EnqueueCall(t, i) \/ CallNow(t, i)
  \/ SettleLeaseCall(t, i)
Abort(t) == AbortQueued(t) \/ AbortCallback(t) \/ AbortSignalOnly(t)
WorkerStep(s) ==
  (\E r \in Requests : OnMessage(s, r)) \/ Crash(s) \/ OnError(s) \/ OnExit(s)
CloseCall(t) == RefuseClose(t) \/ CloseFirst(t) \/ CloseAgain(t) \/ FinishClose(t)
CloseStep(s) == CloseLeaseReleased(s) \/ TerminateSlot(s) \/ TerminateReturns(s)

\* Every call has settled, or belongs to a callback that never ran it.
Finished ==
  /\ \A t \in Tasks :
       phase[t] = "done" \/ (phase[t] = "idle" /\ Parent[t] # None /\ phase[Parent[t]] = "done")
  /\ UNCHANGED vars

Next ==
  \/ \E t \in Tasks : Admission(t) \/ LeaseStep(t) \/ Abort(t) \/ CloseCall(t)
  \/ \E t \in Tasks, i \in 1 .. MaxCalls : CallStep(t, i)
  \/ \E s \in Slots : WorkerStep(s) \/ CloseStep(s)
  \/ Finished

Spec == Init /\ [][Next]_vars

(***************************************************************************)
(* What goes on by itself: promise reactions and events are delivered, a    *)
(* living worker answers, a callback settles once its proxy calls have.  No *)
(* call is made, no signal aborted and no worker crashed by obligation.  The *)
(* event loop is fair to each of these steps; fairness to their disjunction *)
(* is the weaker assumption, and enough.                                     *)
(***************************************************************************)
CallsSettled(t) == \A i \in 1 .. MaxCalls : result[<<t, i>>] # "pending"

Progress ==
  \/ \E t \in Tasks :
       \/ StartCallback(t) \/ AbandonLease(t) \/ FinishRelease(t) \/ FinishClose(t)
       \/ CallsSettled(t) /\ CallbackSettles(t)
       \/ \E i \in 1 .. MaxCalls : SettleLeaseCall(t, i)
  \/ \E s \in Slots :
       \/ worker[s] = "up" /\ \E r \in slot[s].posted : OnMessage(s, r)
       \/ OnError(s) \/ OnExit(s) \/ CloseStep(s)

\* ENABLED <<Progress>>_vars, written out.
Due ==
  \/ \E t \in Tasks :
       \/ phase[t] = "admitted"
       \/ /\ phase[t] = "callback" /\ CallsSettled(t)
          /\ \A u \in Tasks : Parent[u] = t => phase[u] \in {"idle", "done"}
       \/ phase[t] \in {"releasing", "abandoning"} /\ lease[t].pendingCalls = 0
       \/ Kind[t] = "close" /\ phase[t] = "waiting" /\ \A s \in Slots : slot[s].closing = "done"
  \/ untracked # {}
  \/ \E s \in Slots :
       \/ worker[s] = "up" /\ slot[s].listening /\ slot[s].posted # {}
       \/ worker[s] \in {"threw", "exited"}
       \/ slot[s].closing = "lease" /\ lease[slot[s].awaits].released
       \/ slot[s].closing \in {"ready", "terminating"}

\* WF_vars(Progress).
Fairness == <>[]Due => []<><<Progress>>_vars

FairSpec == Spec /\ Fairness

-----------------------------------------------------------------------------
(***************************************************************************)
(* Properties.                                                              *)
(***************************************************************************)
\* A slot has at most one request in flight, and inflight counts exactly what
\* is registered in pending, across responses, rolled-back sends and failures
\* (dispatchRequest, the "message" listener, failSlot).
OneInFlight ==
  \A s \in Slots :
    /\ slot[s].inflight = (IF slot[s].pending = {} THEN 0 ELSE 1)
    /\ \A r1, r2 \in slot[s].pending : r1 = r2

\* While a do() lease owns a slot, only its own proxy calls are in flight there,
\* and without a lease only root requests are: no unrelated call can run on the
\* worker between two proxy calls of a callback.
LeaseExclusive ==
  \A s \in Slots, r \in Requests :
    r \in slot[s].pending =>
      IF slot[s].activeLease = None THEN r[2] = 0
      ELSE r[2] # 0 /\ r[1] = slot[s].activeLease

\* Only a running slot owns work: a failed or terminating worker has nothing in
\* flight or queued, and a slot is never terminated under an admitted lease.
OnlyRunningOwnsWork ==
  \A s \in Slots :
    /\ slot[s].state # "running" => slot[s].pending = {} /\ slot[s].queue = <<>>
    /\ slot[s].state \in {"terminating", "closed"} => slot[s].activeLease = None

\* What makes the two properties above inductive.  For one slot sl with index s,
\* under the phases ph, leases ls and homes hm of the calls: the in-flight counter
\* is exact; queued calls wait, belong to this slot and are queued once; a root
\* request in flight is not queued as well; the active lease belongs to a call past
\* admission and is not released; and the close protocol has drained each resource
\* before it moves past the step that waits for it.
LeasePhases == {"admitted", "callback", "releasing", "abandoning"}
FlightInv(sl) ==
  /\ sl.inflight = (IF sl.pending = {} THEN 0 ELSE 1)
  /\ \A r1, r2 \in sl.pending : r1 = r2
QueueInv(s, sl, ph, hm) ==
  /\ \A i \in 1 .. Len(sl.queue) :
       /\ hm[sl.queue[i]] = s
       /\ Kind[sl.queue[i]] # "close"
       /\ ph[sl.queue[i]] = "waiting"
       /\ Root(sl.queue[i]) \notin sl.pending
  /\ \A i, j \in 1 .. Len(sl.queue) : sl.queue[i] = sl.queue[j] => i = j
OwnerInv(s, sl, ph, ls, hm) ==
  /\ \A t \in Tasks : Root(t) \in sl.pending => hm[t] = s /\ ph[t] = "waiting"
  /\ sl.activeLease # None =>
       /\ hm[sl.activeLease] = s
       /\ ph[sl.activeLease] \in LeasePhases
       /\ ~ls[sl.activeLease].released
CloseInv(sl) ==
  /\ sl.state # "running" => sl.pending = {} /\ sl.queue = <<>>
  /\ sl.state \in {"terminating", "closed"} => sl.closing \in {"terminating", "done"}
  /\ sl.closing # "open" => sl.queue = <<>>
  /\ sl.closing = "lease" => sl.awaits # None /\ sl.activeLease \in {sl.awaits, None}
  /\ sl.closing \notin {"open", "lease"} => sl.activeLease = None
  /\ sl.closing \notin {"open", "lease", "pending"} => sl.pending = {}
SlotInv(s, sl, ph, ls, hm) ==
  FlightInv(sl) /\ QueueInv(s, sl, ph, hm) /\ OwnerInv(s, sl, ph, ls, hm) /\ CloseInv(sl)
TaskInv(ph, ls, hm) ==
  \A t \in Tasks :
    /\ ph[t] \in LeasePhases => Kind[t] = "do"
    /\ ph[t] \in {"idle", "waiting"} => ~ls[t].released
    /\ ph[t] \notin {"idle", "done"} /\ Kind[t] # "close" => hm[t] \in Slots
SlotsInv ==
  /\ \A s \in Slots : SlotInv(s, slot[s], phase, lease, home)
  /\ TaskInv(phase, lease, home)
  /\ \A s \in Slots :
       /\ slot[s].closing = "open" <=> ~closed
       /\ slot[s].state = "failed" => terminalError # None

\* No accepted request is lost or owned twice: a pending promise belongs to one
\* place that will settle it (a root or owner FIFO, the pending map, an admitted
\* lease, or the close barrier), and nothing settled is still owned.
NoLostWork ==
  /\ \A t \in Tasks : Kind[t] # "close" =>
       LET inQueue == {p \in Slots \X (1 .. QueueCapacity) :
                         p[2] <= Len(slot[p[1]].queue) /\ slot[p[1]].queue[p[2]] = t}
           inFlight == {s \in Slots : Root(t) \in slot[s].pending}
           leased == {s \in Slots : slot[s].activeLease = t}
       IN Cardinality(inQueue) + Cardinality(inFlight) + Cardinality(leased)
            = IF phase[t] \in {"idle", "done"} THEN 0 ELSE 1
  /\ \A c \in Calls :
       LET inQueue == {i \in 1 .. Len(lease[c[1]].queue) : lease[c[1]].queue[i] = c}
           inFlight == {s \in Slots : c \in slot[s].pending}
       IN Cardinality(inQueue) + Cardinality(inFlight)
            = IF result[c] = "pending" THEN 1 ELSE 0

\* A running slot never idles in front of waiting work: every path that frees the
\* worker, the lease or a queue place ends in drainQueue().
WorkConserving ==
  \A s \in Slots :
    slot[s].state = "running" /\ slot[s].inflight = 0 => QueuedOnSlot(s) = 0 \/
      (slot[s].activeLease # None /\ lease[slot[s].activeLease].queue = <<>>)

\* The two FIFOs of a slot together never hold more than queueCapacity entries.
QueueBounded == \A s \in Slots : QueuedOnSlot(s) <= QueueCapacity

\* The proxy calls of a callback are served in invocation order: when one is in
\* flight, every earlier accepted one has settled.
OwnerCallsInOrder ==
  \A s \in Slots, t \in Tasks, i \in 1 .. MaxCalls :
    <<t, i>> \in slot[s].pending => \A j \in 1 .. i - 1 : result[<<t, j>>] # "pending"

\* A lease is released, and do() delivers its callback's outcome, only when every
\* accepted proxy call has settled and been counted.
ReleaseAfterDrain ==
  \A t \in Tasks :
    lease[t].released =>
      /\ lease[t].pendingCalls = 0
      /\ \A i \in 1 .. MaxCalls : result[<<t, i>>] # "pending" /\ <<t, i>> \notin untracked

\* close() settles only when every worker is terminated and every call the pool
\* admitted has ended; no callback outlives the barrier.
CloseBarrier ==
  \A c \in Tasks :
    Kind[c] = "close" /\ result[Root(c)] \in {"ok", "closeFailed"} =>
      /\ \A s \in Slots : slot[s].state = "closed"
      /\ \A t \in Tasks : Kind[t] # "close" => phase[t] \in {"idle", "done"}

\* Root calls of a slot start in FIFO order: a call that is sent or admitted in a
\* step leaves nothing ahead of it waiting.
Starts(s, t) ==
  \/ Root(t) \in slot'[s].pending \ slot[s].pending
  \/ slot'[s].activeLease = t /\ slot[s].activeLease # t
RootCallsInOrder ==
  [][\A s \in Slots, t \in Tasks :
       Starts(s, t) =>
         LET q == slot[s].queue
         IN \A i \in 1 .. Len(q) :
              \/ \E j \in 1 .. i : q[j] = t
              \/ phase'[q[i]] = "done" /\ (aborted[q[i]] \/ Root(q[i]) \in Unsendable)]_vars

\* The failure of one worker rejects the work of its own slot only: accepted work
\* of a healthy slot keeps its place (failSlot).
FailureIsolated ==
  [][\A r \in Requests :
       result[r] = "pending" /\ result'[r] = "terminal" => slot'[home[r[1]]].state = "failed"]_vars

\* close() rejects queued root calls only: what was sent or admitted may settle,
\* and owner calls stay valid after close() begins (finishClose).
CloseIsGraceful ==
  [][\A r \in Requests :
       result[r] = "pending" /\ result'[r] = "closed" =>
         r[2] = 0 /\ r[1] \in Elems(slot[home[r[1]]].queue)]_vars

\* Every call that the pool takes on ends, close() included: no lost wake-up, no
\* reentrant call waiting for its own callback, no close() waiting for a dead
\* worker.
EveryCallEnds == \A t \in Tasks : phase[t] # "idle" ~> phase[t] = "done"
=============================================================================
