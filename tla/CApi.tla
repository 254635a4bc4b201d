------------------------------- MODULE CApi -------------------------------
(***************************************************************************)
(* The C API over one raw engine handle: admission of one runtime call at  *)
(* a time, the state that outlives a call (the continuation of a logical   *)
(* run, borrowed output snapshots, error channels), the callback of        *)
(* serialize, contained panics and destruction.                            *)
(*                                                                         *)
(* The host keeps its half of the contract: it calls a live handle only,   *)
(* and it calls free when no other thread is inside a call.                *)
(***************************************************************************)
EXTENDS Naturals, Sequences, FiniteSets

CONSTANTS
  Nobody,       \* no thread
  CapiThreads,  \* host threads that share the handle
  Channels,     \* output channels
  Texts,        \* captured output, other than none
  NulTexts,     \* the texts that contain a NUL byte
  MaxAlloc,     \* bound on the C strings lent to the host
  MaxNest       \* bound on calls in progress on one thread

ASSUME CApiAssumption ==
  /\ NulTexts \subseteq Texts
  /\ MaxAlloc \in Nat /\ MaxNest \in Nat

VARIABLES
  handle,   \* "live" or "freed"
  active,   \* call_active
  ready,    \* logical_run_continuation_ready
  err,      \* the engine's error slot: whose failure it reports, or Nobody
  global,   \* per thread: the thread-local error slot
  cache,    \* output_cstrings: per channel a snapshot, or None
  rt,       \* the runtime engine, reduced to what calls tell apart
  calls,    \* per thread: the calls in progress, the innermost last
  nextId,   \* the next C string's address
  held,     \* per channel: the address the host may still read, 0 if none
  last      \* how the last admitted call that may change the engine ended

capiVars == <<handle, active, ready, err, global, cache, rt, calls, nextId, held,
          last>>

None == [kind |-> "none"]

Empty == [kind |-> "empty"]

Text(x) == [kind |-> "text", text |-> x]

-----------------------------------------------------------------------------
(* The exports, by the access they take. *)

\* borrow_engine_mut: ends the logical run on admission.
Writers ==
  {"load", "reset", "run", "runEx", "step", "write", "clearOutput", "clear"}

\* borrow_engine_checked: leaves the logical run alone.
Readers == {"getOutput", "outputCopy", "query", "serialize"}

\* The error accessors take the diagnostics mutex only.
Diagnostic == {"lastError", "clearError"}

Ops == Writers \cup Readers \cup Diagnostic \cup {"continue", "free"}

Frame(op, arg) == [op |-> op, arg |-> arg, at |-> "work", code |-> "ok",
                   ptr |-> 0, need |-> 0, wrote |-> 0]

Top(t) == calls[t][Len(calls[t])]

SetTop(t, f) == [calls EXCEPT ![t][Len(calls[t])] = f]

\* The failure of a call of t with n calls of t in progress.
Failure(t, n) == [kind |-> "failure", thread |-> t, depth |-> n]

\* The failure of the innermost call of t.
Mark(t) == Failure(t, Len(calls[t]))

-----------------------------------------------------------------------------
(* Errors. *)

\* Both slots name the current failure.
SetEngineError(t) == err' = t /\ global' = [global EXCEPT ![t] = Mark(t)]

CapiNoError == UNCHANGED <<err, global>>

-----------------------------------------------------------------------------
(* The runtime, external to the API: any result its operations may have.   *)
(* Of its state the API depends on the captured output.                    *)

Silent == [c \in Channels |-> Empty]

Rt0 == [out |-> Silent]

\* Evaluation may capture output and reset or clear the engine.
Printed(r) ==
  {r} \cup {[r EXCEPT !.out[c] = Text(x)] : c \in Channels, x \in Texts}

Evaluated(r) == Printed(r) \cup {Rt0}

-----------------------------------------------------------------------------
(* Copies into the caller's buffer. n: the bytes of the text; cap: the     *)
(* buffer's bytes, or None for a null buffer of length zero.               *)

\* The text fits with its terminator.
Fits(cap, n) == cap >= n + 1

\* copy_str_to_buffer and copy_error_to_buffer.
CopyToBuffer(cap, n) ==
  IF cap = None THEN [code |-> "ok", need |-> n + 1, wrote |-> 0]
  ELSE IF cap.len = 0
    THEN [code |-> "error", need |-> n + 1, wrote |-> 0]
  ELSE IF Fits(cap.len, n)
    THEN [code |-> "ok", need |-> n + 1, wrote |-> n + 1]
  ELSE [code |-> "error", need |-> n + 1, wrote |-> cap.len]

Buffer(n) == [kind |-> "buffer", len |-> n]

Buffers == {None} \cup {Buffer(n) : n \in {0, 2, 3}}

\* Every text of the model has two bytes.
TextLen == 2

-----------------------------------------------------------------------------
CapiInit ==
  /\ handle = "live"
  /\ active = FALSE /\ ready = FALSE
  /\ err = Nobody /\ global = [t \in CapiThreads |-> None]
  /\ cache = [c \in Channels |-> None]
  /\ rt = Rt0
  /\ calls = [t \in CapiThreads |-> <<>>]
  /\ nextId = 1
  /\ held = [c \in Channels |-> 0]
  /\ last = "none"

\* The arguments a property is about; the others are chosen in the body.
Args(op) ==
  IF op = "outputCopy" THEN Buffers ELSE {None}

\* The host may call when the thread is outside the API or in a callback.
MayCall(t) ==
  /\ handle = "live"
  /\ Len(calls[t]) < MaxNest
  /\ calls[t] # <<>> => Top(t).at = "callback"
  /\ \A u \in CapiThreads :
       calls[u] # <<>> => calls[u][Len(calls[u])].op # "free"

\* borrow_engine_mut ends the logical run, after admission.
ReadyAfterEntry(op, admitted) ==
  IF admitted /\ op \in Writers THEN FALSE ELSE ready

\* Mutant: a free does not ask for admission.
FreeEnters(op) == op = "free" \/ ~active

\* enter_engine_call: the flag was clear.
Admissible(op) == ~active

\* The host enters an export that needs the engine: it is admitted, or
\* rejected as overlapping or reentrant.
Enter(t, op) ==
  /\ MayCall(t)
  /\ op \notin Diagnostic
  /\ op = "free" => \A u \in CapiThreads \ {t} : calls[u] = <<>>
  /\ LET admitted == Admissible(op) IN
     /\ \E a \in Args(op) :
          calls' = [calls EXCEPT ![t] = Append(@,
            [Frame(op, a) EXCEPT
               !.at = IF admitted THEN "work" ELSE "return",
               !.code = IF admitted THEN "ok" ELSE "error"])]
     /\ active' = TRUE
     /\ ready' = ReadyAfterEntry(op, admitted)
     /\ last' = IF admitted /\ op \in Writers THEN "in progress" ELSE last
     /\ IF admitted THEN CapiNoError
        ELSE /\ err' = t
             /\ global' = [global EXCEPT ![t] = Failure(t, Len(calls[t]) + 1)]
  /\ UNCHANGED <<handle, cache, rt, nextId, held>>

-----------------------------------------------------------------------------
(* The body of an admitted call. *)

Working(t, op) == calls[t] # <<>> /\ Top(t).at = "work" /\ Top(t).op = op

Succeed(t) == calls' = SetTop(t, [Top(t) EXCEPT !.at = "leave"]) /\ CapiNoError

Fail(t) ==
  /\ calls' = SetTop(t, [Top(t) EXCEPT !.at = "leave", !.code = "error"])
  /\ SetEngineError(t)

Outcome(t) == Succeed(t) \/ Fail(t)

\* How a call that may change the engine ended, for the contract of the
\* continuation.
Ended(how) == last' = how

\* load_string, assert_string: the first error is reported; what was loaded
\* before it stays.
Load(t) ==
  /\ Working(t, "load")
  /\ rt' \in Evaluated(rt)
  /\ Outcome(t)
  /\ Ended("ended")
  /\ UNCHANGED <<handle, active, ready, cache, nextId, held>>

\* Structured assertions, retract, halt, push_input, clear_action_diagnostics:
\* they succeed or fail and leave output and snapshots alone.
Write(t) ==
  /\ Working(t, "write")
  /\ Outcome(t)
  /\ Ended("ended")
  /\ UNCHANGED <<handle, active, ready, cache, rt, nextId, held>>

NoSnapshots == [c \in Channels |-> None]

\* reset drops every snapshot when it succeeds; one that fails part way has
\* silenced the channels and kept the snapshots.
ResetEngine(t) ==
  /\ Working(t, "reset")
  /\ rt' \in Evaluated(Rt0)
  /\ \/ Succeed(t) /\ cache' = NoSnapshots /\ held' = [c \in Channels |-> 0]
     \/ Fail(t) /\ UNCHANGED <<cache, held>>
  /\ Ended("ended")
  /\ UNCHANGED <<handle, active, ready, nextId>>

Clear(t) ==
  /\ Working(t, "clear")
  /\ rt' = Rt0
  /\ cache' = NoSnapshots /\ held' = [c \in Channels |-> 0]
  /\ Succeed(t)
  /\ Ended("ended")
  /\ UNCHANGED <<handle, active, ready, nextId>>

\* clear_output
ClearOutput(t) ==
  /\ Working(t, "clearOutput")
  /\ \E c \in Channels :
       /\ rt' = [rt EXCEPT !.out[c] = Empty]
       /\ cache' = [cache EXCEPT ![c] = None]
       /\ held' = [held EXCEPT ![c] = 0]
  /\ Succeed(t)
  /\ Ended("ended")
  /\ UNCHANGED <<handle, active, ready, nextId>>

\* prune_cleared_output_snapshots: drop the snapshots of silent channels.
Prune(r) == [c \in Channels |-> IF r.out[c] = Empty THEN None ELSE cache[c]]

\* A channel cleared while rules ran ends the host's right to its snapshot.
HeldAfterRun(r) == [c \in Channels |-> IF r.out[c] = Empty THEN 0 ELSE held[c]]

\* run and step: never continuable.
RunOrStep(t) ==
  /\ Working(t, "run") \/ Working(t, "step")
  /\ rt' \in Evaluated(rt)
  /\ \/ Succeed(t) /\ cache' = Prune(rt') /\ held' = HeldAfterRun(rt')
     \/ Fail(t) /\ UNCHANGED <<cache, held>>
  /\ Ended("ended")
  /\ UNCHANGED <<handle, active, ready, nextId>>

\* The continuation is set by a chunk that reached its limit only.
Continuable(ok, limit) == ok /\ limit

\* The chunk shared by run_ex and continue_run_ex.
Chunk(t) ==
  /\ rt' \in Evaluated(rt)
  /\ \E ok, limit \in BOOLEAN :
       /\ ready' = Continuable(ok, limit)
       /\ IF ok THEN /\ Succeed(t)
                     /\ cache' = Prune(rt') /\ held' = HeldAfterRun(rt')
                ELSE Fail(t) /\ UNCHANGED <<cache, held>>
       /\ Ended(IF ok /\ limit THEN "limit" ELSE "ended")
  /\ UNCHANGED <<handle, active, nextId>>

RunEx(t) == Working(t, "runEx") /\ Chunk(t)

\* continue_run_ex refuses without a chunk that reached its limit.
ContinueRunEx(t) ==
  /\ Working(t, "continue")
  /\ \/ ready /\ Chunk(t)
     \/ /\ ~ready
        /\ Fail(t)
        /\ UNCHANGED <<handle, active, ready, cache, rt, nextId, held, last>>

-----------------------------------------------------------------------------
(* Reading calls. *)

Reading == UNCHANGED <<handle, active, ready, rt, last>>

\* get_output lends a snapshot; one that still says the same is lent again.
GetOutput(t) ==
  /\ Working(t, "getOutput")
  /\ \E c \in Channels :
     \/ /\ rt.out[c] = Empty
        /\ Succeed(t)
        /\ UNCHANGED <<cache, nextId, held>>
     \/ /\ rt.out[c] # Empty /\ rt.out[c].text \in NulTexts
        /\ cache' = [cache EXCEPT ![c] = None]
        /\ held' = [held EXCEPT ![c] = 0]
        /\ Fail(t)
        /\ UNCHANGED nextId
     \/ /\ rt.out[c] # Empty /\ rt.out[c].text \notin NulTexts
        /\ LET again == cache[c] # None /\ cache[c].text = rt.out[c].text
               id == IF again THEN cache[c].id ELSE nextId
           IN /\ again \/ nextId <= MaxAlloc
              /\ nextId' = IF again THEN nextId ELSE nextId + 1
              /\ cache' = [cache EXCEPT
                   ![c] = [kind |-> "snapshot", id |-> id,
                           text |-> rt.out[c].text]]
              /\ held' = [held EXCEPT ![c] = id]
              /\ calls' = SetTop(t, [Top(t) EXCEPT !.at = "leave", !.ptr = id])
              /\ CapiNoError
  /\ Reading

\* A copy call ends with the code of the copy.
Copied(t, r) ==
  LET f == [Top(t) EXCEPT !.at = "leave", !.code = r.code,
                          !.need = r.need, !.wrote = r.wrote]
  IN /\ calls' = SetTop(t, f)
     /\ IF r.code = "ok" THEN CapiNoError ELSE SetEngineError(t)

\* get_output_copy
OutputCopy(t) ==
  /\ Working(t, "outputCopy")
  /\ \E c \in Channels :
       IF rt.out[c] = Empty THEN Fail(t)
       ELSE Copied(t, CopyToBuffer(Top(t).arg, TextLen))
  /\ Reading /\ UNCHANGED <<cache, nextId, held>>

\* Every query of facts, names, counts and the agenda: what each returns is
\* the subject of module CValues.
Query(t) ==
  /\ Working(t, "query")
  /\ Outcome(t)
  /\ Reading /\ UNCHANGED <<cache, nextId, held>>

\* serialize: the host's allocator runs while the call is admitted.
SerializeCallback(t) ==
  /\ Working(t, "serialize")
  /\ calls' = SetTop(t, [Top(t) EXCEPT !.at = "callback"])
  /\ CapiNoError
  /\ Reading /\ UNCHANGED <<cache, nextId, held>>

\* The allocator returns memory or null; without an allocator, or when the
\* engine cannot be encoded, it is not called.
SerializeEnd(t) ==
  /\ calls[t] # <<>> /\ Top(t).op = "serialize"
  /\ Top(t).at \in {"work", "callback"}
  /\ Outcome(t)
  /\ Reading /\ UNCHANGED <<cache, nextId, held>>

-----------------------------------------------------------------------------
(* Leaving. *)

\* Drop of EngineCallGuard, on return and on unwinding alike.
ReleaseGuard(t, unwinding) == active' = FALSE

Leave(t) ==
  /\ calls[t] # <<>> /\ Top(t).at = "leave"
  /\ ReleaseGuard(t, FALSE)
  /\ calls' = SetTop(t, [Top(t) EXCEPT !.at = "return"])
  /\ UNCHANGED <<handle, ready, err, global, cache, rt, nextId, held, last>>

\* A panic unwinds through the guard to the generated wrapper.
Panic(t) ==
  /\ calls[t] # <<>> /\ Top(t).at = "work" /\ Top(t).op # "free"
  /\ ReleaseGuard(t, TRUE)
  /\ rt' \in {rt} \cup (IF Top(t).op \in Readers THEN {} ELSE {Rt0})
  /\ IF Top(t).op = "continue" THEN ready' = FALSE /\ Ended("ended")
     ELSE /\ ready' = ready
          /\ last' = IF Top(t).op \in Writers THEN "ended" ELSE last
  /\ calls' = SetTop(t, [Top(t) EXCEPT !.at = "contain"])
  /\ UNCHANGED <<handle, err, global, cache, nextId, held>>

\* boundary::invoke: both channels learn of the panic; the caller gets the
\* sentinel.
Contain(t) ==
  /\ calls[t] # <<>> /\ Top(t).at = "contain"
  /\ SetEngineError(t)
  /\ calls' = SetTop(t, [Top(t) EXCEPT !.at = "return",
                                       !.code = "error"])
  /\ UNCHANGED <<handle, active, ready, cache, rt, nextId, held, last>>

\* free and free_unchecked: the guard is disarmed and the allocation goes.
Free(t) ==
  /\ Working(t, "free")
  /\ handle' = "freed"
  /\ cache' = NoSnapshots /\ held' = [c \in Channels |-> 0]
  /\ calls' = SetTop(t, [Top(t) EXCEPT !.at = "return"])
  /\ UNCHANGED <<active, ready, err, global, rt, nextId, last>>

\* last_error, last_error_copy and clear_error need no admission.
Diagnose(t, op) ==
  /\ MayCall(t)
  /\ op \in Diagnostic
  /\ err' = IF op = "clearError" THEN Nobody ELSE err
  /\ UNCHANGED <<handle, active, ready, global, cache, rt, calls, nextId, held,
                 last>>

ReturnToHost(t) ==
  /\ calls[t] # <<>> /\ Top(t).at = "return"
  /\ calls' = [calls EXCEPT ![t] = SubSeq(@, 1, Len(@) - 1)]
  /\ UNCHANGED <<handle, active, ready, err, global, cache, rt, nextId, held,
                 last>>

CapiNext ==
  \E t \in CapiThreads :
    \/ \E op \in Ops : Enter(t, op) \/ Diagnose(t, op)
    \/ Load(t) \/ Write(t) \/ ResetEngine(t) \/ Clear(t) \/ ClearOutput(t)
    \/ RunOrStep(t) \/ RunEx(t) \/ ContinueRunEx(t)
    \/ GetOutput(t) \/ OutputCopy(t) \/ Query(t)
    \/ SerializeCallback(t) \/ SerializeEnd(t)
    \/ Leave(t) \/ Panic(t) \/ Contain(t) \/ Free(t) \/ ReturnToHost(t)

CapiSpec == CapiInit /\ [][CapiNext]_capiVars

-----------------------------------------------------------------------------
(* Properties *)

Frames(t) == {calls[t][i] : i \in DOMAIN calls[t]}

\* The calls that hold the engine: between admission and the drop of their
\* guard, the callback of serialize included.
Admitted ==
  {<<t, i>> \in CapiThreads \X (1..MaxNest) :
     /\ i <= Len(calls[t])
     /\ calls[t][i].at \in {"work", "callback", "leave"}}

\* Whatever the interleaving, callback or panic, at most one call holds the
\* engine, and the flag is set exactly while one does: a call is rejected
\* only because another is really inside, and a panic never locks the handle.
Exclusive ==
  /\ Cardinality(Admitted) <= 1
  /\ handle = "live" => (active <=> Admitted # {})

\* A free from a callback or while a call is inside is rejected: no call is
\* inside an engine that was destroyed.
NoUseAfterFree ==
  handle = "freed" =>
    \A t \in CapiThreads : \A f \in Frames(t) : f.op = "free" /\ f.at = "return"

\* The contract of continue_run_ex: a continuation is possible exactly when
\* the last call that reached the engine, reads aside, was a chunk that
\* reached its limit; rejected calls, reads and error accessors between
\* chunks do not end the logical run, and every other call does, also one
\* that fails or panics.
ContinuationContract == ready <=> last = "limit"

\* A pointer lent by get_output stays readable until the contract ends it:
\* runs, loads and reads between do not free it.
LentPointerLives ==
  \A c \in Channels :
    held[c] # 0 => cache[c] # None /\ cache[c].id = held[c]

\* A copy never writes past the caller's buffer, and reports success only
\* for a complete text with its terminator.
CopiesFit ==
  \A t \in CapiThreads : \A f \in Frames(t) :
    f.op = "outputCopy" /\ f.arg # None =>
      /\ f.wrote <= f.arg.len
      /\ f.at = "return" /\ f.code = "ok" => f.wrote = f.need

\* A failing call leaves its own message in the thread's error slot when it
\* returns, whatever other threads and nested calls reported meanwhile.
OwnErrorAtReturn ==
  \A t \in CapiThreads :
    calls[t] # <<>> /\ Top(t).at = "return" /\ Top(t).code # "ok" =>
      global[t] = Mark(t)
=============================================================================
