------------------------------ MODULE EngineRun ------------------------------
(***************************************************************************)
(* One logical run of the rule engine: what run(limit) of the runtime does   *)
(* in one synchronous call, and what a host that cancels it may see.  The    *)
(* runtime is a single thread; a run is shown firing by firing.              *)
(***************************************************************************)
EXTENDS RuleEngine

VARIABLES
  engine,   \* the engine
  status,   \* "idle", "requested" or "running"
  limit,    \* RunLimit of the current or last run
  fired,    \* its rules_fired
  abort,    \* the host wants this run cancelled
  outcome   \* HaltReason of the last run, or "none"

vars == <<engine, status, limit, fired, abort, outcome>>

Reasons == {"AgendaEmpty", "LimitReached", "HaltRequested", "ActionError"}

TypeOK ==
  /\ engine \in Engines
  /\ status \in {"idle", "requested", "running"}
  /\ limit \in Nat \cup {Unlimited}
  /\ fired \in Nat
  /\ abort \in BOOLEAN
  /\ outcome \in Reasons \cup {"none"}

\* An engine with its rules loaded and any of them on the agenda.
Init ==
  /\ \E new \in SUBSET Activations :
       engine = [agenda |-> new, unused |-> Activations \ new, focus |-> <<Main>>,
                 halted |-> FALSE, diagnostics |-> {}, ordinal |-> 0]
  /\ status = "idle"
  /\ limit = Unlimited
  /\ fired = 0
  /\ abort = FALSE
  /\ outcome = "none"

\* The host takes the result of the last run.
TakeResult ==
  /\ status = "idle" /\ outcome # "none"
  /\ limit' = Unlimited
  /\ fired' = 0
  /\ outcome' = "none"
  /\ UNCHANGED <<engine, status, abort>>

\* Everything else a host calls while no run is on: assert, retract, load, focus;
\* reset, clear, step, halt and clearDiagnostics.
HostCall ==
  /\ status = "idle" /\ outcome = "none"
  /\ \/ Changed(engine, engine')
     \/ Reset(engine, engine')
     \/ Stepped(engine, engine')
     \/ engine' \in {Cleared(engine), [engine EXCEPT !.halted = TRUE],
                     [engine EXCEPT !.diagnostics = {}]}
  /\ UNCHANGED <<status, limit, fired, abort, outcome>>

\* run(limit), or a one-shot evaluation: reset, assert the facts of the request and
\* run, where a limit of 0 means none.
Requested(l) ==
  /\ status = "idle" /\ outcome = "none"
  /\ status' = "requested"
  /\ limit' = l
  /\ fired' = 0
  /\ UNCHANGED <<abort, outcome>>

RunCall(l) == Requested(l) /\ UNCHANGED engine

EvaluateCall(l) ==
  /\ Requested(IF l = 0 THEN Unlimited ELSE l)
  /\ Reset(engine, engine')

Begin ==
  /\ status = "requested"
  /\ status' = "running"
  /\ engine' = Started(engine)
  /\ UNCHANGED <<limit, fired, abort, outcome>>

Fire ==
  /\ status = "running"
  /\ Within(fired, limit)
  /\ ~engine.halted
  /\ \E d \in 1 .. Len(engine.focus), a \in engine.agenda, failed \in BOOLEAN :
       /\ Selects(engine, d, a)
       /\ RightHandSide(engine, d, a, failed, engine')
       /\ status' = IF failed THEN "idle" ELSE "running"
       /\ outcome' = IF failed THEN "ActionError" ELSE outcome
       /\ abort' = IF failed THEN FALSE ELSE abort
  /\ fired' = fired + 1
  /\ UNCHANGED limit

Return(reason) ==
  /\ status = "running"
  /\ status' = "idle"
  /\ outcome' = reason
  /\ abort' = FALSE
  /\ UNCHANGED <<limit, fired>>

\* The loop's exits in the order it tries them; the limit comes first.
ReachLimit == ~Within(fired, limit) /\ Return("LimitReached") /\ UNCHANGED engine
ObeyHalt ==
  /\ Within(fired, limit)
  /\ engine.halted
  /\ Return("HaltRequested")
  /\ UNCHANGED engine
RunDry ==
  /\ Within(fired, limit)
  /\ ~engine.halted
  /\ NothingToFire(engine)
  /\ Return("AgendaEmpty")
  /\ engine' = Quiescent(engine)

\* Host cancellation: the flag may rise at any time; the run may end between two
\* firings, or before it starts, with the result of a halt.  It leaves the engine
\* alone and never takes the place of a limit already reached.
RaiseAbort ==
  /\ status # "idle" /\ ~abort
  /\ abort' = TRUE
  /\ UNCHANGED <<engine, status, limit, fired, outcome>>

Cancel ==
  /\ abort
  /\ status # "idle"
  /\ Within(fired, limit)
  /\ status' = "idle"
  /\ outcome' = "HaltRequested"
  /\ abort' = FALSE
  /\ UNCHANGED <<engine, limit, fired>>

Next ==
  \/ TakeResult \/ HostCall
  \/ \E l \in Limits : RunCall(l) \/ EvaluateCall(l)
  \/ Begin \/ Fire \/ ReachLimit \/ ObeyHalt \/ RunDry
  \/ RaiseAbort \/ Cancel

Spec == Init /\ [][Next]_vars
=============================================================================
