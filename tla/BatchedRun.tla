------------------------------ MODULE BatchedRun ------------------------------
(***************************************************************************)
(* The batched run of the worker scripts (packages/ferric/src/worker.ts and   *)
(* pool-worker.ts).  The worker cuts one logical run into native calls of at  *)
(* most RunBatchSize firings and reads, between two of them, the abort flag   *)
(* the main thread may raise at any time.  The worker serves one request at a *)
(* time, so nothing but the flag interleaves with a run.                      *)
(***************************************************************************)
EXTENDS RuleEngine

CONSTANT RunBatchSize

ASSUME BatchAssumption == RunBatchSize \in Nat \ {0}

VARIABLES
  engine,       \* the native engine
  pc,           \* "idle", the head of the "loop", in "native" code, or "after" it
  limit,        \* normalizedLimit
  remaining,
  totalFired,
  firstChunk,
  batchLimit,   \* the count limit of the native call
  rulesFired,   \* what the native call has fired
  abort,        \* the shared flag
  outcome,      \* haltReason of the last run, or "none"
  late,         \* history: firings since the flag was raised
  noted         \* history: diagnostics recorded since the run began

loopVars == <<limit, remaining, firstChunk, batchLimit>>
batchVars == <<engine, pc, loopVars, totalFired, rulesFired, abort, outcome, late, noted>>

Reasons == {"AgendaEmpty", "LimitReached", "HaltRequested", "ActionError"}

BatchTypeOK ==
  /\ engine \in Engines
  /\ pc \in {"idle", "loop", "native", "after"}
  /\ limit \in Nat \cup {Unlimited}
  /\ remaining \in Nat \cup {Unlimited}
  /\ totalFired \in Nat
  /\ firstChunk \in BOOLEAN
  /\ batchLimit \in Nat
  /\ rulesFired \in Nat
  /\ abort \in BOOLEAN
  /\ outcome \in Reasons \cup {"none"}
  /\ late \in Nat
  /\ noted \in SUBSET Activations

\* An engine with its rules loaded and any of them on the agenda.
BatchInit ==
  /\ \E new \in SUBSET Activations :
       engine = [agenda |-> new, unused |-> Activations \ new, focus |-> <<Main>>,
                 halted |-> FALSE, diagnostics |-> {}, ordinal |-> 0]
  /\ pc = "idle"
  /\ limit = Unlimited
  /\ remaining = Unlimited
  /\ totalFired = 0
  /\ firstChunk = TRUE
  /\ batchLimit = 0
  /\ rulesFired = 0
  /\ abort = FALSE
  /\ outcome = "none"
  /\ late = 0
  /\ noted = {}

\* The message loop posts the result of a run before it takes the next request.
PostResult ==
  /\ pc = "idle" /\ outcome # "none"
  /\ limit' = Unlimited
  /\ totalFired' = 0
  /\ outcome' = "none"
  /\ UNCHANGED <<engine, pc, remaining, firstChunk, batchLimit, rulesFired, abort, late, noted>>

\* handleMethod(): every other request that changes the engine.
HostCall ==
  /\ pc = "idle" /\ outcome = "none"
  /\ \/ Changed(engine, engine')
     \/ Reset(engine, engine')
     \/ Stepped(engine, engine')
     \/ engine' \in {Cleared(engine), [engine EXCEPT !.halted = TRUE],
                     [engine EXCEPT !.diagnostics = {}]}
  /\ UNCHANGED <<pc, loopVars, totalFired, rulesFired, abort, outcome, late, noted>>

\* batchedRun() up to its loop, with the flag buffer of this request.
Requested(l) ==
  /\ pc = "idle" /\ outcome = "none"
  /\ pc' = "loop"
  /\ limit' = l
  /\ remaining' = l
  /\ totalFired' = 0
  /\ UNCHANGED <<firstChunk, batchLimit, rulesFired, abort, outcome, late, noted>>

RunRequest(l) == Requested(l) /\ UNCHANGED engine

\* normalizeEvaluateLimit(): zero means no limit.
EvaluateLimit(l) == IF l = 0 THEN Unlimited ELSE l

\* handleEvaluate() up to its run: reset() and the asserts of the request.
EvaluateRequest(l) == Requested(EvaluateLimit(l)) /\ Reset(engine, engine')

\* The main thread's onAbort.
RaiseAbort ==
  /\ pc # "idle" /\ ~abort
  /\ abort' = TRUE
  /\ UNCHANGED <<engine, pc, loopVars, totalFired, rulesFired, outcome, late, noted>>

\* batchedRun() returns n firings and a reason; its locals and the flag are gone.
BatchReturn(reason, n) ==
  /\ pc' = "idle"
  /\ outcome' = reason
  /\ totalFired' = n
  /\ remaining' = Unlimited
  /\ firstChunk' = TRUE
  /\ batchLimit' = 0
  /\ rulesFired' = 0
  /\ abort' = FALSE
  /\ late' = 0
  /\ noted' = {}
  /\ UNCHANGED limit

\* The abort check at the head of the loop, which a zero limit does not reach.
AbortBeforeChunk ==
  /\ pc = "loop"
  /\ Within(0, remaining)
  /\ abort
  /\ BatchReturn("HaltRequested", totalFired)
  /\ UNCHANGED engine

\* The engine as run() or __continueRun() finds it: only the first call starts a
\* logical run.
ChunkEntry(e) == IF firstChunk THEN Started(e) ELSE e

\* Mutant: the whole run is one native call.
OneBatch(n) == IF n = Unlimited THEN RunBatchSize * RunBatchSize ELSE n

\* Math.min(remaining, RUN_BATCH_SIZE).
BatchLimit(n) == IF Within(RunBatchSize, n) THEN RunBatchSize ELSE n

\* engine.run(batchLimit) or nativeContinueRun(engine, batchLimit); run(0) when
\* the limit is zero.
SubmitChunk ==
  /\ pc = "loop"
  /\ ~(Within(0, remaining) /\ abort)
  /\ pc' = "native"
  /\ engine' = ChunkEntry(engine)
  /\ noted' = IF firstChunk THEN {} ELSE noted
  /\ firstChunk' = FALSE
  /\ batchLimit' = BatchLimit(remaining)
  /\ rulesFired' = 0
  /\ UNCHANGED <<limit, remaining, totalFired, abort, outcome, late>>

\* One turn of run_inner().  A failed activation ends the native call and the run.
Fire ==
  /\ pc = "native"
  /\ rulesFired < batchLimit
  /\ ~engine.halted
  /\ \E d \in 1 .. Len(engine.focus), a \in engine.agenda, failed \in BOOLEAN :
       /\ Selects(engine, d, a)
       /\ RightHandSide(engine, d, a, failed, engine')
       /\ IF failed
            THEN BatchReturn("ActionError", totalFired + rulesFired + 1)
            ELSE /\ rulesFired' = rulesFired + 1
                 /\ noted' = IF a \in engine'.diagnostics THEN noted \cup {a} ELSE noted
                 /\ late' = IF abort THEN late + 1 ELSE late
                 /\ UNCHANGED <<pc, outcome, loopVars, totalFired, abort>>

\* run_inner() returns a terminal reason, which ends the batches.
NativeReturns(reason) ==
  /\ pc = "native"
  /\ rulesFired < batchLimit
  /\ BatchReturn(reason, totalFired + rulesFired)
ObeyHalt == engine.halted /\ NativeReturns("HaltRequested") /\ UNCHANGED engine
RunDry ==
  /\ ~engine.halted
  /\ NothingToFire(engine)
  /\ NativeReturns("AgendaEmpty")
  /\ engine' = Quiescent(engine)

\* run_inner() returns LimitReached for its own limit.
ChunkFull ==
  /\ pc = "native"
  /\ ~(rulesFired < batchLimit)
  /\ pc' = "after"
  /\ totalFired' = totalFired + rulesFired
  /\ remaining' = IF remaining = Unlimited THEN Unlimited ELSE remaining - rulesFired
  /\ rulesFired' = 0
  /\ UNCHANGED <<engine, limit, firstChunk, batchLimit, abort, outcome, late, noted>>

\* Mutant: host cancellation is looked at before the caller's limit.
LimitReachedUnlessAborted == ~Within(0, remaining) /\ ~abort

\* Mutant: the limit of the native call is taken for the caller's.
ChunkIsRun == TRUE

\* The caller's limit has precedence over abort and halt.
LimitReached == ~Within(0, remaining)

\* What follows a full chunk, in order: the caller's limit, the abort flag, the
\* latch of a halt that the chunk's own limit hid, the next chunk.
AfterChunk ==
  /\ pc = "after"
  /\ \/ LimitReached /\ BatchReturn("LimitReached", totalFired)
     \/ ~LimitReached /\ (abort \/ engine.halted) /\ BatchReturn("HaltRequested", totalFired)
     \/ /\ ~LimitReached /\ ~abort /\ ~engine.halted
        /\ pc' = "loop"
        /\ UNCHANGED <<outcome, loopVars, totalFired, rulesFired, abort, late, noted>>
  /\ UNCHANGED engine

BatchNext ==
  \/ PostResult \/ HostCall
  \/ \E l \in Limits : RunRequest(l) \/ EvaluateRequest(l)
  \/ RaiseAbort
  \/ AbortBeforeChunk \/ SubmitChunk \/ Fire \/ ObeyHalt \/ RunDry \/ ChunkFull \/ AfterChunk

BatchSpec == BatchInit /\ [][BatchNext]_batchVars

-----------------------------------------------------------------------------
(***************************************************************************)
(* Properties.                                                              *)
(***************************************************************************)
RunStatus ==
  CASE pc = "idle" -> "idle"
    [] pc = "loop" /\ firstChunk -> "requested"
    [] OTHER -> "running"
RunFired == totalFired + rulesFired
Whole == INSTANCE EngineRun WITH status <- RunStatus, fired <- RunFired

\* The chunks add up to one logical run: the host sees the firings, the reason, the
\* latch, the focus stack and the diagnostics of a synchronous run(limit), or a
\* cancellation between two of its firings that leaves the engine alone.
Implements == Whole!Spec

\* Once the flag is up the worker fires no more than one batch.
AbortIsPrompt == late <= RunBatchSize

\* The counters agree with the engine through every chunk: the ordinal of the last
\* firing is the number of firings, the diagnostics are all of this run and only of
\* it, and no chunk can overshoot the caller's limit.
RunAccounting ==
  pc \in {"native", "after"} =>
    /\ engine.ordinal = totalFired + rulesFired
    /\ engine.diagnostics = noted
    /\ limit # Unlimited => totalFired + rulesFired <= limit

\* The reason a run returns is true when it returns.
ReasonIsTrue ==
  [][pc # "idle" /\ pc' = "idle" =>
       CASE outcome' = "LimitReached"  -> limit # Unlimited /\ totalFired' = limit
         [] outcome' = "AgendaEmpty"   -> engine'.focus = <<>> /\ ~engine'.halted
         [] outcome' = "HaltRequested" -> engine'.halted \/ abort
         [] outcome' = "ActionError"   -> engine'.diagnostics # {}]_batchVars

\* What makes these inductive: outside native code the run's count and what remains
\* add up to the limit, a chunk is cut to both bounds, only the first chunk is
\* fresh, and a raised flag is never carried past the head of the loop.
LoopInv ==
  /\ pc = "idle" => firstChunk /\ ~abort
  /\ pc # "idle" => (remaining = Unlimited <=> limit = Unlimited)
  /\ pc # "idle" /\ limit # Unlimited => totalFired + remaining = limit
  /\ pc = "loop" /\ firstChunk => totalFired = 0
  /\ pc \in {"native", "after"} => ~firstChunk
  /\ pc = "native" => /\ rulesFired <= batchLimit
                      /\ batchLimit <= RunBatchSize
                      /\ remaining # Unlimited => batchLimit <= remaining
                      /\ late <= rulesFired
  /\ pc # "native" => rulesFired = 0
  /\ ~abort \/ pc = "loop" => late = 0
  /\ pc # "idle" /\ ~firstChunk =>
       engine.ordinal = totalFired + rulesFired /\ engine.diagnostics = noted
=============================================================================
