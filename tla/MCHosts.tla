------------------------------ MODULE MCHosts ------------------------------
(***************************************************************************)
(* The hosts' side of the engine for TLC: the worker behind an EngineHandle  *)
(* and the batched run of its script, the creation of an EnginePool, and the *)
(* three faces of the C API.  The components share no state: a behaviour     *)
(* takes one of them, named by part, and the others rest in one of their     *)
(* initial states.                                                           *)
(***************************************************************************)
EXTENDS EngineHandle, PoolCreation, BatchedRun, CApi, CValues, TLC

CONSTANT Parts      \* the components of a run

VARIABLE part

vars == <<part, handleVars, creationVars, batchVars, capiVars, cqueryVars, cvaluesVars>>

-----------------------------------------------------------------------------
(* The instances. *)

\* Activations of two modules, ranked so that those of the module under MAIN come
\* first.
CONSTANTS a1, a2, a3, main, sub
MCRank == [a \in Activations |-> CASE a = a1 -> 1 [] a = a2 -> 2 [] a = a3 -> 3]
MCModuleOf == [a \in Activations |-> IF a \in {a2, a3} THEN sub ELSE main]

\* An ordered fact of two fields, one that C cannot represent, a template fact.
MCFactShapes ==
  {[type |-> "ordered", fields |-> <<"a", "b">>],
   [type |-> "ordered", fields |-> <<"void">>],
   [type |-> "template", fields |-> <<"b", "a">>]}

\* All memories of three cells, arrays of at most two.
Cell(t, p, n) == [tag |-> t, ptr |-> p, len |-> n]
MCHeaps ==
  [Cells -> {Cell("scalar", 0, 0), Cell("text", 1, 0), Cell("text", 0, 0),
             Cell("bad", 0, 0), Cell("multi", 0, 0), Cell("multi", 0, 1)}
            \cup {Cell("multi", p, 1) : p \in Cells}
            \cup {Cell("multi", 1, 2), Cell("multi", 2, 2)}]

\* Trees of two levels.
Leaf(k) == [kind |-> k, elems |-> <<>>]
Leaves == {Leaf("scalar"), Leaf("text"), Leaf("address")}
Multi(s) == [kind |-> "multi", elems |-> s]
Pairs == {Multi(<<>>)} \cup {Multi(<<x, y>>) : x, y \in Leaves}
MCValues == Leaves \cup Pairs \cup {Multi(<<x, y>>) : x, y \in Pairs}

\* The host's threads differ in nothing.
Symmetry == Permutations(CapiThreads)

-----------------------------------------------------------------------------
(* One component at a time. *)

AtRest == CHOOSE h \in MCHeaps : \A c \in Cells : h[c].tag = "scalar"

Init ==
  /\ part \in Parts
  /\ HandleInit /\ CreationInit /\ BatchInit /\ CapiInit /\ CQueryInit /\ CValuesInit
  /\ part # "batched" => engine.agenda = {}
  /\ part # "values" => heap = AtRest

Next ==
  \/ part = "handle" /\ HandleNext
     /\ UNCHANGED <<part, creationVars, batchVars, capiVars, cqueryVars, cvaluesVars>>
  \/ part = "creation" /\ CreationNext
     /\ UNCHANGED <<part, handleVars, batchVars, capiVars, cqueryVars, cvaluesVars>>
  \/ part = "batched" /\ BatchNext
     /\ UNCHANGED <<part, handleVars, creationVars, capiVars, cqueryVars, cvaluesVars>>
  \/ part = "calls" /\ CapiNext
     /\ UNCHANGED <<part, handleVars, creationVars, batchVars, cqueryVars, cvaluesVars>>
  \/ part = "queries" /\ CQueryNext
     /\ UNCHANGED <<part, handleVars, creationVars, batchVars, capiVars, cvaluesVars>>
  \/ part = "values" /\ CValuesNext
     /\ UNCHANGED <<part, handleVars, creationVars, batchVars, capiVars, cqueryVars>>

Spec == Init /\ [][Next]_vars

\* The event loops of the two TypeScript hosts (see the modules).
FairSpec ==
  Spec /\ WF_handleVars(Progress) /\ WF_creationVars(part = "creation" /\ CreationProgress)

-----------------------------------------------------------------------------
(* Properties. *)

\* Whatever the worker does, the promises of both hosts settle: close() ends and
\* takes every call with it, calls are answered unless they stand behind an
\* endless run that nobody aborts, abort listeners go away, and create() of a
\* pool is accepted or rejected.
HostsSettle ==
  /\ CloseEndsAll /\ CallsSettle /\ ListenersRemoved
  /\ (part = "creation" => CreationSettles)

\* However the calls of the host's threads and callbacks interleave, fail and
\* panic, the handle of the C API admits one at a time, survives until nobody is
\* inside, continues exactly a run that hit its limit, keeps what it lent, and
\* leaves a failing call its own message.
CallsContained ==
  /\ Exclusive /\ NoUseAfterFree /\ ContinuationContract /\ LentPointerLives
  /\ OwnErrorAtReturn

\* Memory across the C boundary: texts and ids stay inside the caller's buffers,
\* an enumeration that the engine changes under way never reads outside, blocks
\* are freed exactly once whatever fails half way, and cyclic memory is refused.
MemoryKept ==
  /\ CopiesFit /\ NoReadOutside /\ WalkFaithful /\ IdsFit
  /\ Balanced /\ NoDoubleFree /\ CopyRefusesCycles /\ AssertBounded
=============================================================================
