--------------------------- MODULE BatchedRunProofs ---------------------------
(***************************************************************************)
(* Proofs about BatchedRun, for any activations, modules, limits and batch    *)
(* size: its inductive invariant, and that it implements EngineRun.           *)
(***************************************************************************)
EXTENDS BatchedRun, TLAPS

\* The inductive invariant: AbortIsPrompt needs the bound of a chunk that LoopInv
\* states, and LoopInv needs the types for its arithmetic.
IInv == BatchTypeOK /\ LoopInv /\ AbortIsPrompt

-----------------------------------------------------------------------------
(* Every operation returns an engine.                                        *)

\* A stack that pushes extend is a stack.
LEMMA RefocusedType ==
  ASSUME NEW f \in Seq(Modules)
  PROVE  Refocused(f) \subseteq Seq(Modules)
<1>1. SUFFICES ASSUME NEW g \in Refocused(f)
               PROVE  g \in Seq(Modules)
  OBVIOUS
<1> DEFINE P == {[1 .. n -> Modules] : n \in 0 .. MaxDepth - Len(f)}
<1>2. PICK p \in UNION P : g = f \o p BY Zenon DEF Refocused
<1>3. PICK S \in P : p \in S BY Zenon
<1>4. PICK n \in 0 .. MaxDepth - Len(f) : S = [1 .. n -> Modules] BY Zenon
<1>5. n \in Nat BY EngineAssumption
<1>6. p \in Seq(Modules) BY <1>3, <1>4, <1>5
<1>7. QED BY <1>2, <1>6

\* MAIN alone is a stack, and so are its extensions.
LEMMA MainType == <<Main>> \in Seq(Modules) /\ Refocused(<<Main>>) \subseteq Seq(Modules)
<1>1. <<Main>> \in Seq(Modules) BY EngineAssumption
<1>2. QED BY <1>1, RefocusedType

\* An engine with some of its fields replaced is an engine.
LEMMA EngineUpdate ==
  ASSUME NEW e \in Engines, NEW ag \in SUBSET Activations, NEW un \in SUBSET Activations,
         NEW f \in Seq(Modules), NEW h \in BOOLEAN, NEW x \in SUBSET Activations, NEW n \in Nat
  PROVE  [agenda |-> ag, unused |-> un, focus |-> f, halted |-> h,
          diagnostics |-> x, ordinal |-> n] \in Engines
BY DEF Engines

\* The host's changes of facts and focus.
LEMMA ChangedType ==
  ASSUME NEW e \in Engines, NEW g, Changed(e, g)
  PROVE  g \in Engines
<1>1. e.focus \in Seq(Modules) BY DEF Engines
<1>2. PICK gone \in SUBSET e.agenda, new \in SUBSET e.unused, halt \in BOOLEAN,
           f \in Refocused(e.focus) \cup {<<m>> : m \in Modules} :
        \E failing \in SUBSET (e.unused \ new) :
          g = [e EXCEPT !.agenda = (@ \ gone) \cup new, !.unused = @ \ new, !.focus = f,
                        !.halted = @ \/ halt, !.diagnostics = @ \cup failing]
  BY DEF Changed
<1>3. PICK failing \in SUBSET (e.unused \ new) :
        g = [e EXCEPT !.agenda = (@ \ gone) \cup new, !.unused = @ \ new, !.focus = f,
                      !.halted = @ \/ halt, !.diagnostics = @ \cup failing]
  BY <1>2
<1>4. f \in Seq(Modules)
  <2>1. ASSUME NEW m \in Modules PROVE <<m>> \in Seq(Modules) OBVIOUS
  <2>2. Refocused(e.focus) \subseteq Seq(Modules) BY <1>1, RefocusedType
  <2>3. CASE f \in Refocused(e.focus) BY <2>2, <2>3
  <2>4. CASE f \in {<<m>> : m \in Modules}
    <3>1. PICK m \in Modules : f = <<m>> BY <2>4
    <3>2. QED BY <3>1, <2>1
  <2>5. QED BY <2>3, <2>4
<1> DEFINE h == e.halted \/ halt
<1>5. g = [e EXCEPT !.agenda = (@ \ gone) \cup new, !.unused = @ \ new, !.focus = f,
                    !.halted = h, !.diagnostics = @ \cup failing]
  BY <1>3
<1>6. h \in BOOLEAN OBVIOUS
<1> HIDE DEF h
<1>7. g = [agenda |-> (e.agenda \ gone) \cup new, unused |-> e.unused \ new, focus |-> f,
           halted |-> h, diagnostics |-> e.diagnostics \cup failing, ordinal |-> e.ordinal]
  BY <1>5 DEF Engines
<1>8. /\ (e.agenda \ gone) \cup new \in SUBSET Activations
      /\ e.unused \ new \in SUBSET Activations
      /\ e.diagnostics \cup failing \in SUBSET Activations
      /\ e.ordinal \in Nat
  BY DEF Engines
<1>9. QED BY <1>4, <1>6, <1>7, <1>8, EngineUpdate

\* reset().
LEMMA ResetType ==
  ASSUME NEW e \in Engines, NEW g, Reset(e, g)
  PROVE  g \in Engines
<1>1. PICK new \in SUBSET e.unused, halt \in BOOLEAN, f \in Refocused(<<Main>>) :
        \E failing \in SUBSET (e.unused \ new) :
          g = [e EXCEPT !.agenda = new, !.unused = @ \ new, !.focus = f,
                        !.halted = halt, !.diagnostics = failing]
  BY DEF Reset
<1>2. PICK failing \in SUBSET (e.unused \ new) :
        g = [e EXCEPT !.agenda = new, !.unused = @ \ new, !.focus = f,
                      !.halted = halt, !.diagnostics = failing]
  BY <1>1
<1>3. f \in Seq(Modules) BY MainType
<1>4. g = [agenda |-> new, unused |-> e.unused \ new, focus |-> f,
           halted |-> halt, diagnostics |-> failing, ordinal |-> e.ordinal]
  BY <1>2 DEF Engines
<1>5. /\ new \in SUBSET Activations
      /\ e.unused \ new \in SUBSET Activations
      /\ failing \in SUBSET Activations
      /\ e.ordinal \in Nat
  BY DEF Engines
<1>6. QED BY <1>3, <1>4, <1>5, EngineUpdate

\* A run or a step that finds the focus stack empty puts MAIN on it.
LEMMA FocusType ==
  ASSUME NEW f \in Seq(Modules)
  PROVE  (IF f = <<>> THEN <<Main>> ELSE f) \in Seq(Modules)
BY MainType

\* The start of a run.
LEMMA StartedType ==
  ASSUME NEW e \in Engines
  PROVE  /\ Started(e) \in Engines
         /\ Started(e).ordinal = 0 /\ Started(e).diagnostics = {}
<1> DEFINE f == IF e.focus = <<>> THEN <<Main>> ELSE e.focus
<1>1. f \in Seq(Modules)
  <2>1. e.focus \in Seq(Modules) BY DEF Engines
  <2>2. QED BY <2>1, FocusType
<1>2. Started(e) = [e EXCEPT !.ordinal = 0, !.halted = FALSE, !.diagnostics = {}, !.focus = f]
  BY Zenon DEF Started
<1> HIDE DEF f
<1>3. e.agenda \in SUBSET Activations /\ e.unused \in SUBSET Activations BY DEF Engines
<1>4. Started(e) = [agenda |-> e.agenda, unused |-> e.unused, focus |-> f, halted |-> FALSE,
                    diagnostics |-> {}, ordinal |-> 0]
  BY <1>2 DEF Engines
<1>5. {} \in SUBSET Activations /\ FALSE \in BOOLEAN /\ 0 \in Nat OBVIOUS
<1>6. Started(e) \in Engines BY <1>1, <1>3, <1>4, <1>5, EngineUpdate
<1>7. QED BY <1>4, <1>6

\* The firing of an activation: the ordinal grows by one and only its own
\* diagnostic may be added.
LEMMA RightHandSideType ==
  ASSUME NEW e \in Engines, NEW d \in 1 .. Len(e.focus), NEW a \in e.agenda,
         NEW failed \in BOOLEAN, NEW g, RightHandSide(e, d, a, failed, g)
  PROVE  /\ g \in Engines
         /\ g.ordinal = e.ordinal + 1
         /\ g.diagnostics \in {e.diagnostics, e.diagnostics \cup {a}}
         /\ failed => a \in g.diagnostics
<1>1. PICK gone \in SUBSET e.agenda, new \in SUBSET e.unused,
           f \in Refocused(SubSeq(e.focus, 1, d)) \cup Refocused(<<Main>>),
           halt \in BOOLEAN, diagnosed \in BOOLEAN :
        g = [e EXCEPT !.agenda = (@ \ (gone \cup {a})) \cup new,
                      !.unused = @ \ new,
                      !.focus = f,
                      !.halted = @ \/ halt,
                      !.diagnostics = IF failed \/ diagnosed THEN @ \cup {a} ELSE @,
                      !.ordinal = @ + 1]
  BY DEF RightHandSide
<1>2. e.focus \in Seq(Modules) BY DEF Engines
<1>3. SubSeq(e.focus, 1, d) \in Seq(Modules) BY <1>2
<1>4. f \in Seq(Modules) BY <1>3, RefocusedType, MainType
<1> DEFINE h == e.halted \/ halt
           x == IF failed \/ diagnosed THEN e.diagnostics \cup {a} ELSE e.diagnostics
<1>5. g = [e EXCEPT !.agenda = (@ \ (gone \cup {a})) \cup new, !.unused = @ \ new,
                    !.focus = f, !.halted = h, !.diagnostics = x, !.ordinal = @ + 1]
  BY <1>1
<1>6. h \in BOOLEAN OBVIOUS
<1>7. x \in {e.diagnostics, e.diagnostics \cup {a}} /\ (failed => a \in x)
  OBVIOUS
<1>8. x \in SUBSET Activations BY <1>7 DEF Engines
<1> HIDE DEF h, x
<1>9. g = [agenda |-> (e.agenda \ (gone \cup {a})) \cup new, unused |-> e.unused \ new,
           focus |-> f, halted |-> h, diagnostics |-> x, ordinal |-> e.ordinal + 1]
  BY <1>5 DEF Engines
<1>10. /\ (e.agenda \ (gone \cup {a})) \cup new \in SUBSET Activations
       /\ e.unused \ new \in SUBSET Activations
       /\ e.ordinal + 1 \in Nat
  BY DEF Engines
<1>11. g \in Engines BY <1>4, <1>6, <1>8, <1>9, <1>10, EngineUpdate
<1>12. g.ordinal = e.ordinal + 1 /\ g.diagnostics = x BY <1>9
<1>13. QED BY <1>7, <1>11, <1>12

\* clear(), halt() and the end of the pop loop.
LEMMA PlainTypes ==
  ASSUME NEW e \in Engines
  PROVE  /\ Cleared(e) \in Engines
         /\ [e EXCEPT !.halted = TRUE] \in Engines
         /\ [e EXCEPT !.diagnostics = {}] \in Engines
         /\ Quiescent(e) \in Engines
<1>1. <<>> \in Seq(Modules) /\ <<Main>> \in Seq(Modules) /\ {} \in SUBSET Activations BY MainType
<1>2. Cleared(e) \in Engines
  <2> DEFINE f == <<Main>>
  <2>1. Cleared(e) = [e EXCEPT !.agenda = {}, !.focus = f, !.halted = FALSE, !.diagnostics = {}]
    BY DEF Cleared
  <2>2. f \in Seq(Modules) BY <1>1
  <2> HIDE DEF f
  <2>3. QED BY <1>1, <2>1, <2>2 DEF Engines
<1>3. [e EXCEPT !.halted = TRUE] \in Engines BY DEF Engines
<1>4. Quiescent(e) \in Engines BY <1>1 DEF Quiescent, Engines
<1>5. [e EXCEPT !.diagnostics = {}] \in Engines BY <1>1 DEF Engines
<1>6. QED BY <1>2, <1>3, <1>4, <1>5

\* step().
LEMMA SteppedType ==
  ASSUME NEW e \in Engines, NEW g, Stepped(e, g)
  PROVE  g \in Engines
<1> DEFINE f == IF e.focus = <<>> THEN <<Main>> ELSE e.focus
           s == StepEntry(e)
           z == [s EXCEPT !.ordinal = 0]
<1>1. s \in Engines
  <2>1. e.focus \in Seq(Modules) BY DEF Engines
  <2>2. f \in Seq(Modules) BY <2>1, FocusType
  <2>3. s = [e EXCEPT !.diagnostics = {}, !.focus = f] BY Zenon DEF StepEntry
  <2> HIDE DEF f, s
  <2>4. QED BY <2>2, <2>3 DEF Engines
<1>2. \/ NothingToFire(s) /\ g = Quiescent(s)
      \/ \E d \in 1 .. Len(s.focus), a \in s.agenda, failed \in BOOLEAN :
           Selects(s, d, a) /\ RightHandSide(z, d, a, failed, g)
  BY DEF Stepped
<1> HIDE DEF s
<1>3. z \in Engines /\ z.focus = s.focus /\ z.agenda = s.agenda BY <1>1 DEF Engines
<1>4. Quiescent(s) \in Engines BY <1>1, PlainTypes
<1> HIDE DEF z
<1>5. CASE g = Quiescent(s) BY <1>4, <1>5
<1>6. ASSUME NEW d \in 1 .. Len(s.focus), NEW a \in s.agenda, NEW failed \in BOOLEAN,
             RightHandSide(z, d, a, failed, g)
      PROVE  g \in Engines
  <2>1. d \in 1 .. Len(z.focus) /\ a \in z.agenda BY <1>3
  <2>2. QED BY <1>3, <1>6, <2>1, RightHandSideType
<1>7. QED BY <1>2, <1>5, <1>6


-----------------------------------------------------------------------------
(* The invariant.                                                            *)

\* A chunk is cut to the batch size and to what remains.
LEMMA BatchLimitBounds ==
  ASSUME NEW n \in Nat \cup {Unlimited}
  PROVE  /\ BatchLimit(n) \in Nat
         /\ BatchLimit(n) <= RunBatchSize
         /\ n # Unlimited => BatchLimit(n) <= n
<1>1. RunBatchSize \in Nat /\ Unlimited \notin Nat BY BatchAssumption, EngineAssumption
<1>2. CASE Within(RunBatchSize, n) BY <1>1, <1>2 DEF Within, BatchLimit
<1>3. CASE ~Within(RunBatchSize, n) BY <1>1, <1>3 DEF Within, BatchLimit
<1>4. QED BY <1>2, <1>3

\* A return ends the run with the state of an idle worker.
LEMMA ReturnInv ==
  ASSUME IInv, NEW reason \in Reasons, NEW n \in Nat, BatchReturn(reason, n), engine' \in Engines
  PROVE  IInv'
<1>1. BatchTypeOK' BY DEF IInv, BatchTypeOK, BatchReturn
<1>2. LoopInv' BY DEF IInv, LoopInv, BatchReturn
<1>3. AbortIsPrompt' BY BatchAssumption DEF AbortIsPrompt, BatchReturn
<1>4. QED BY <1>1, <1>2, <1>3 DEF IInv

\* The requests: a new count and a new limit, on an engine of any kind.
LEMMA RequestedInv ==
  ASSUME IInv, NEW l \in Nat \cup {Unlimited}, Requested(l), engine' \in Engines
  PROVE  IInv'
<1>1. BatchTypeOK' BY DEF IInv, BatchTypeOK, Requested
<1>2. LoopInv' BY EngineAssumption DEF IInv, BatchTypeOK, LoopInv, Requested
<1>3. AbortIsPrompt' BY DEF IInv, AbortIsPrompt, Requested
<1>4. QED BY <1>1, <1>2, <1>3 DEF IInv

\* The result is posted.
LEMMA PostResultInv == IInv /\ PostResult => IInv'
<1> SUFFICES ASSUME IInv, PostResult PROVE IInv' OBVIOUS
<1>1. BatchTypeOK' BY DEF IInv, BatchTypeOK, PostResult
<1>2. LoopInv' BY DEF IInv, LoopInv, PostResult
<1>3. AbortIsPrompt' BY DEF IInv, AbortIsPrompt, PostResult
<1>4. QED BY <1>1, <1>2, <1>3 DEF IInv

\* The other requests.
LEMMA HostCallInv == IInv /\ HostCall => IInv'
<1> SUFFICES ASSUME IInv, HostCall PROVE IInv' OBVIOUS
<1>1. engine \in Engines BY DEF IInv, BatchTypeOK
<1>2. engine' \in Engines
  BY <1>1, ChangedType, ResetType, SteppedType, PlainTypes DEF HostCall
<1>3. BatchTypeOK' BY <1>2 DEF IInv, BatchTypeOK, HostCall, loopVars
<1>4. LoopInv' BY DEF IInv, LoopInv, HostCall, loopVars
<1>5. AbortIsPrompt' BY DEF IInv, AbortIsPrompt, HostCall
<1>6. QED BY <1>3, <1>4, <1>5 DEF IInv

\* A chunk is submitted: only the first starts the ordinal and the diagnostics anew.
LEMMA SubmitInv == IInv /\ SubmitChunk => IInv'
<1> SUFFICES ASSUME IInv, SubmitChunk PROVE IInv' OBVIOUS
<1>1. engine \in Engines BY DEF IInv, BatchTypeOK
<1>2. /\ engine' \in Engines
      /\ firstChunk => engine'.ordinal = 0 /\ engine'.diagnostics = {}
      /\ ~firstChunk => engine' = engine
  BY <1>1, StartedType DEF SubmitChunk, ChunkEntry
<1>3. remaining \in Nat \cup {Unlimited} BY DEF IInv, BatchTypeOK
<1>4. /\ batchLimit' \in Nat
      /\ batchLimit' <= RunBatchSize
      /\ remaining # Unlimited => batchLimit' <= remaining
  BY <1>3, BatchLimitBounds DEF SubmitChunk
<1>5. BatchTypeOK' BY <1>2, <1>4 DEF IInv, BatchTypeOK, SubmitChunk
<1>6. LoopInv'
  <2>1. rulesFired' = 0 /\ ~firstChunk' /\ pc' = "native" /\ late' = late /\ late = 0
    BY DEF IInv, LoopInv, SubmitChunk
  <2>2. engine'.ordinal = totalFired' + rulesFired' /\ engine'.diagnostics = noted'
    <3>1. CASE firstChunk BY <1>2, <2>1, <3>1 DEF IInv, BatchTypeOK, LoopInv, SubmitChunk
    <3>2. CASE ~firstChunk BY <1>2, <2>1, <3>2 DEF IInv, BatchTypeOK, LoopInv, SubmitChunk
    <3>3. QED BY <3>1, <3>2
  <2>3. QED BY <1>4, <2>1, <2>2 DEF IInv, LoopInv, SubmitChunk
<1>7. AbortIsPrompt' BY DEF IInv, AbortIsPrompt, SubmitChunk
<1>8. QED BY <1>5, <1>6, <1>7 DEF IInv

\* A firing: the ordinal, the count of the chunk and the diagnostics move together.
LEMMA FireInv == IInv /\ Fire => IInv'
<1> SUFFICES ASSUME IInv, Fire PROVE IInv' OBVIOUS
<1>1. engine \in Engines BY DEF IInv, BatchTypeOK
<1>2. PICK d \in 1 .. Len(engine.focus), a \in engine.agenda, failed \in BOOLEAN :
        /\ RightHandSide(engine, d, a, failed, engine')
        /\ IF failed
             THEN BatchReturn("ActionError", totalFired + rulesFired + 1)
             ELSE /\ rulesFired' = rulesFired + 1
                  /\ noted' = IF a \in engine'.diagnostics THEN noted \cup {a} ELSE noted
                  /\ late' = IF abort THEN late + 1 ELSE late
                  /\ UNCHANGED <<pc, outcome, loopVars, totalFired, abort>>
  BY DEF Fire
<1>3. /\ engine' \in Engines
      /\ engine'.ordinal = engine.ordinal + 1
      /\ engine'.diagnostics \in {engine.diagnostics, engine.diagnostics \cup {a}}
  BY <1>1, <1>2, RightHandSideType
<1>4. CASE failed
  <2>1. totalFired + rulesFired + 1 \in Nat BY DEF IInv, BatchTypeOK
  <2>2. BatchReturn("ActionError", totalFired + rulesFired + 1) BY <1>2, <1>4
  <2>3. QED BY <1>3, <2>1, <2>2, ReturnInv DEF Reasons
<1>5. CASE ~failed
  <2>1. /\ pc = "native" /\ rulesFired < batchLimit
        /\ rulesFired' = rulesFired + 1
        /\ noted' = IF a \in engine'.diagnostics THEN noted \cup {a} ELSE noted
        /\ late' = IF abort THEN late + 1 ELSE late
        /\ UNCHANGED <<pc, outcome, limit, remaining, firstChunk, batchLimit, totalFired, abort>>
    BY <1>2, <1>5 DEF Fire, loopVars
  <2>2. a \in Activations BY <1>1 DEF Engines
  <2>3. noted' \in SUBSET Activations /\ late' \in Nat
    BY <2>1, <2>2 DEF IInv, BatchTypeOK
  <2>4. BatchTypeOK' BY <1>3, <2>1, <2>3 DEF IInv, BatchTypeOK
  <2>5. ~firstChunk /\ engine.ordinal = totalFired + rulesFired /\ engine.diagnostics = noted
    BY <2>1 DEF IInv, LoopInv
  <2>6. engine'.diagnostics = noted' BY <1>3, <2>1, <2>5
  <2>7. engine'.ordinal = totalFired' + rulesFired' BY <1>3, <2>1, <2>5 DEF IInv, BatchTypeOK
  <2>8. late' <= rulesFired' /\ rulesFired' <= batchLimit /\ batchLimit <= RunBatchSize
        /\ (~abort => late' = 0)
    BY <2>1 DEF IInv, BatchTypeOK, LoopInv
  <2>9. LoopInv' BY <2>1, <2>5, <2>6, <2>7, <2>8 DEF IInv, LoopInv
  <2>10. AbortIsPrompt'
    BY <2>4, <2>8, BatchAssumption, <2>1 DEF AbortIsPrompt, IInv, BatchTypeOK
  <2>11. QED BY <2>4, <2>9, <2>10 DEF IInv
<1>6. QED BY <1>4, <1>5

\* The native call returns at its own limit: what it fired moves to the total.
LEMMA ChunkFullInv == IInv /\ ChunkFull => IInv'
<1> SUFFICES ASSUME IInv, ChunkFull PROVE IInv' OBVIOUS
<1>1. remaining # Unlimited => rulesFired <= remaining
  BY DEF IInv, BatchTypeOK, LoopInv, ChunkFull
<1>2. remaining' \in Nat \cup {Unlimited} BY <1>1 DEF IInv, BatchTypeOK, ChunkFull
<1>3. BatchTypeOK' BY <1>2 DEF IInv, BatchTypeOK, ChunkFull
<1>4. /\ limit # Unlimited => totalFired' + remaining' = limit
      /\ remaining' = Unlimited <=> limit = Unlimited
  BY <1>1, EngineAssumption DEF IInv, BatchTypeOK, LoopInv, ChunkFull
<1>5. engine'.ordinal = totalFired' + rulesFired' /\ engine'.diagnostics = noted'
  BY DEF IInv, BatchTypeOK, LoopInv, ChunkFull
<1>6. LoopInv' BY <1>4, <1>5 DEF IInv, LoopInv, ChunkFull
<1>7. AbortIsPrompt' BY DEF IInv, AbortIsPrompt, ChunkFull
<1>8. QED BY <1>3, <1>6, <1>7 DEF IInv

\* What follows a full chunk.
LEMMA AfterChunkInv == IInv /\ AfterChunk => IInv'
<1> SUFFICES ASSUME IInv, AfterChunk PROVE IInv' OBVIOUS
<1>1. engine' \in Engines /\ totalFired \in Nat BY DEF IInv, BatchTypeOK, AfterChunk
<1>2. CASE BatchReturn("LimitReached", totalFired) BY <1>1, <1>2, ReturnInv DEF Reasons
<1>3. CASE BatchReturn("HaltRequested", totalFired) BY <1>1, <1>3, ReturnInv DEF Reasons
<1>4. CASE /\ ~abort
           /\ pc' = "loop"
           /\ UNCHANGED <<outcome, loopVars, totalFired, rulesFired, abort, late, noted>>
  <2>1. BatchTypeOK' BY <1>1, <1>4 DEF IInv, BatchTypeOK, loopVars
  <2>2. LoopInv' BY <1>4 DEF IInv, LoopInv, loopVars, AfterChunk
  <2>3. AbortIsPrompt' BY <1>4 DEF IInv, AbortIsPrompt
  <2>4. QED BY <2>1, <2>2, <2>3 DEF IInv
<1>5. QED BY <1>2, <1>3, <1>4 DEF AfterChunk

\* The flag rises.
LEMMA RaiseAbortInv == IInv /\ RaiseAbort => IInv'
<1> SUFFICES ASSUME IInv, RaiseAbort PROVE IInv' OBVIOUS
<1>1. BatchTypeOK' BY DEF IInv, BatchTypeOK, RaiseAbort, loopVars
<1>2. LoopInv' BY DEF IInv, LoopInv, RaiseAbort, loopVars
<1>3. AbortIsPrompt' BY DEF IInv, AbortIsPrompt, RaiseAbort
<1>4. QED BY <1>1, <1>2, <1>3 DEF IInv

\* The initial states.
LEMMA InitInv == BatchInit => IInv
<1> SUFFICES ASSUME BatchInit PROVE IInv OBVIOUS
<1>1. PICK new \in SUBSET Activations :
        engine = [agenda |-> new, unused |-> Activations \ new, focus |-> <<Main>>,
                  halted |-> FALSE, diagnostics |-> {}, ordinal |-> 0]
  BY DEF BatchInit
<1>2. engine \in Engines BY <1>1, MainType DEF Engines
<1>3. BatchTypeOK BY <1>2 DEF BatchInit, BatchTypeOK
<1>4. LoopInv BY DEF BatchInit, LoopInv
<1>5. AbortIsPrompt BY BatchAssumption DEF BatchInit, AbortIsPrompt
<1>6. QED BY <1>3, <1>4, <1>5 DEF IInv

\* Every step.
LEMMA StepInv == IInv /\ [BatchNext]_batchVars => IInv'
<1> SUFFICES ASSUME IInv, [BatchNext]_batchVars PROVE IInv' OBVIOUS
<1>1. engine \in Engines BY DEF IInv, BatchTypeOK
<1>2. totalFired \in Nat /\ totalFired + rulesFired \in Nat BY DEF IInv, BatchTypeOK
<1>3. ASSUME NEW l \in Limits, RunRequest(l) PROVE IInv'
  <2>1. l \in Nat \cup {Unlimited} BY EngineAssumption
  <2>2. QED BY <1>1, <1>3, <2>1, RequestedInv DEF RunRequest
<1>4. ASSUME NEW l \in Limits, EvaluateRequest(l) PROVE IInv'
  <2>1. EvaluateLimit(l) \in Nat \cup {Unlimited} BY EngineAssumption DEF EvaluateLimit
  <2>2. engine' \in Engines BY <1>1, <1>4, ResetType DEF EvaluateRequest
  <2>3. QED BY <1>4, <2>1, <2>2, RequestedInv DEF EvaluateRequest
<1>5. CASE AbortBeforeChunk
  BY <1>1, <1>2, <1>5, ReturnInv DEF AbortBeforeChunk, Reasons
<1>6. CASE ObeyHalt
  BY <1>1, <1>2, <1>6, ReturnInv DEF ObeyHalt, NativeReturns, Reasons
<1>7. CASE RunDry
  <2>1. engine' \in Engines BY <1>1, <1>7, PlainTypes DEF RunDry
  <2>2. QED BY <1>2, <1>7, <2>1, ReturnInv DEF RunDry, NativeReturns, Reasons
<1>8. CASE UNCHANGED batchVars
  BY <1>8 DEF batchVars, loopVars, IInv, BatchTypeOK, LoopInv, AbortIsPrompt
<1>9. QED
  BY <1>3, <1>4, <1>5, <1>6, <1>7, <1>8, HostCallInv, SubmitInv, FireInv, ChunkFullInv,
     AfterChunkInv, RaiseAbortInv, PostResultInv DEF BatchNext

\* The invariant holds of every behaviour of the worker.
THEOREM Invariance == BatchSpec => []IInv
BY InitInv, StepInv, PTL DEF BatchSpec

\* The loop invariant of batchedRun(): count and remainder add up to the limit
\* between native calls, a chunk is cut to both bounds, and only the first chunk
\* starts the ordinal and the diagnostics anew.
THEOREM LoopCorrect == BatchSpec => []LoopInv
<1>1. IInv => LoopInv BY DEF IInv
<1>2. QED BY <1>1, Invariance, PTL

\* Cancellation is prompt whatever the limit: once the flag is up at most
\* RUN_BATCH_SIZE rules fire.
THEOREM PromptAbort == BatchSpec => []AbortIsPrompt
<1>1. IInv => AbortIsPrompt BY DEF IInv
<1>2. QED BY <1>1, Invariance, PTL

\* The chunks never overshoot the caller's limit, and ordinals and diagnostics run
\* on from chunk to chunk.
THEOREM Accounting == BatchSpec => []RunAccounting
<1>1. IInv => RunAccounting
  <2>1. SUFFICES ASSUME IInv, pc \in {"native", "after"}
                 PROVE  /\ engine.ordinal = totalFired + rulesFired
                        /\ engine.diagnostics = noted
                        /\ limit # Unlimited => totalFired + rulesFired <= limit
    BY DEF RunAccounting
  <2>2. pc # "idle" /\ ~firstChunk BY <2>1 DEF IInv, LoopInv
  <2>3. engine.ordinal = totalFired + rulesFired /\ engine.diagnostics = noted
    BY <2>1, <2>2 DEF IInv, LoopInv
  <2>4. ASSUME limit # Unlimited PROVE totalFired + rulesFired <= limit
    <3>1. remaining # Unlimited /\ totalFired + remaining = limit
      BY <2>1, <2>2, <2>4 DEF IInv, LoopInv
    <3>2. rulesFired <= remaining
      BY <2>1, <2>2, <3>1 DEF IInv, BatchTypeOK, LoopInv
    <3>3. QED BY <2>1, <3>1, <3>2 DEF IInv, BatchTypeOK
  <2>5. QED BY <2>3, <2>4
<1>2. QED BY <1>1, Invariance, PTL

-----------------------------------------------------------------------------
(* The refinement.                                                           *)

\* Both specifications are built on the same engine.
LEMMA SameEngine ==
  /\ \A e, g : Whole!Changed(e, g) <=> Changed(e, g)
  /\ \A e, g : Whole!Reset(e, g) <=> Reset(e, g)
  /\ \A e, g : Whole!Stepped(e, g) <=> Stepped(e, g)
  /\ \A e : Whole!Cleared(e) = Cleared(e)
  /\ \A e : Whole!Started(e) = Started(e)
  /\ \A e : Whole!Quiescent(e) = Quiescent(e)
  /\ \A e : Whole!NothingToFire(e) <=> NothingToFire(e)
  /\ \A e, d, a : Whole!Selects(e, d, a) <=> Selects(e, d, a)
  /\ \A e, d, a, failed, g :
       Whole!RightHandSide(e, d, a, failed, g) <=> RightHandSide(e, d, a, failed, g)
  /\ \A n, l : Whole!Within(n, l) <=> Within(n, l)
<1>1. \A f : Whole!Refocused(f) = Refocused(f) BY Zenon DEF Whole!Refocused, Refocused
<1>2. \A e, g : Whole!Changed(e, g) <=> Changed(e, g)
  <2> SUFFICES ASSUME NEW e, NEW g PROVE Whole!Changed(e, g) <=> Changed(e, g) OBVIOUS
  <2> DEFINE Some(S) ==
               \E gone \in SUBSET e.agenda, new \in SUBSET e.unused, halt \in BOOLEAN, f \in S :
                 \E failing \in SUBSET (e.unused \ new) :
                   g = [e EXCEPT !.agenda = (@ \ gone) \cup new, !.unused = @ \ new, !.focus = f,
                                 !.halted = @ \/ halt, !.diagnostics = @ \cup failing]
             stacks == Refocused(e.focus) \cup {<<m>> : m \in Modules}
             same == Whole!Refocused(e.focus) \cup {<<m>> : m \in Modules}
  <2>1. Changed(e, g) <=> Some(stacks) BY DEF Changed
  <2>2. same = stacks BY <1>1
  <2>3. Whole!Changed(e, g) <=> Some(same) BY DEF Whole!Changed
  <2> HIDE DEF same, stacks, Some
  <2>4. QED BY <2>1, <2>2, <2>3
<1>3. \A e, g : Whole!Reset(e, g) <=> Reset(e, g) BY <1>1, Zenon DEF Whole!Reset, Reset
<1>4. \A e : Whole!Cleared(e) = Cleared(e) BY Zenon DEF Whole!Cleared, Cleared
<1>5. \A e : Whole!Started(e) = Started(e) BY Zenon DEF Whole!Started, Started
<1>6. \A e : Whole!Quiescent(e) = Quiescent(e) BY Zenon DEF Whole!Quiescent, Quiescent
<1>7. \A e, d : Whole!InFocus(e, d) = InFocus(e, d) BY Zenon DEF Whole!InFocus, InFocus
<1>8. \A e : Whole!NothingToFire(e) <=> NothingToFire(e)
  BY <1>7, Zenon DEF Whole!NothingToFire, NothingToFire
<1>9. \A e, d, a : Whole!Selects(e, d, a) <=> Selects(e, d, a)
  BY <1>7, Zenon DEF Whole!Selects, Selects
<1>10. \A e, d, a, failed, g :
         Whole!RightHandSide(e, d, a, failed, g) <=> RightHandSide(e, d, a, failed, g)
  <2> SUFFICES ASSUME NEW e, NEW d, NEW a, NEW failed, NEW g
               PROVE  Whole!RightHandSide(e, d, a, failed, g) <=> RightHandSide(e, d, a, failed, g)
    OBVIOUS
  <2> DEFINE stacks == Refocused(SubSeq(e.focus, 1, d)) \cup Refocused(<<Main>>)
             Fired(gone, new, f, halt, diagnosed) ==
               g = [e EXCEPT !.agenda = (@ \ (gone \cup {a})) \cup new,
                             !.unused = @ \ new,
                             !.focus = f,
                             !.halted = @ \/ halt,
                             !.diagnostics = IF failed \/ diagnosed THEN @ \cup {a} ELSE @,
                             !.ordinal = @ + 1]
             Some(S) == \E gone \in SUBSET e.agenda, new \in SUBSET e.unused, f \in S,
                           halt \in BOOLEAN, diagnosed \in BOOLEAN :
                             Fired(gone, new, f, halt, diagnosed)
             same == Whole!Refocused(SubSeq(e.focus, 1, d)) \cup Whole!Refocused(<<Main>>)
  <2>1. RightHandSide(e, d, a, failed, g) <=> Some(stacks) BY DEF RightHandSide
  <2>2. same = stacks BY <1>1
  <2>3. Whole!RightHandSide(e, d, a, failed, g) <=> Some(same) BY DEF Whole!RightHandSide
  <2> HIDE DEF same, stacks, Some
  <2>4. QED BY <2>1, <2>2, <2>3
<1>11. \A e : Whole!StepEntry(e) = StepEntry(e) BY Zenon DEF Whole!StepEntry, StepEntry
<1>12. \A e, g : Whole!Stepped(e, g) <=> Stepped(e, g)
  <2> SUFFICES ASSUME NEW e, NEW g PROVE Whole!Stepped(e, g) <=> Stepped(e, g) OBVIOUS
  <2>1. Whole!Stepped(e, g) <=>
          \/ Whole!NothingToFire(StepEntry(e)) /\ g = Whole!Quiescent(StepEntry(e))
          \/ \E d \in 1 .. Len(StepEntry(e).focus), a \in StepEntry(e).agenda, failed \in BOOLEAN :
               /\ Whole!Selects(StepEntry(e), d, a)
               /\ Whole!RightHandSide([StepEntry(e) EXCEPT !.ordinal = 0], d, a, failed, g)
    BY <1>11, Zenon DEF Whole!Stepped
  <2>2. Stepped(e, g) <=>
          \/ NothingToFire(StepEntry(e)) /\ g = Quiescent(StepEntry(e))
          \/ \E d \in 1 .. Len(StepEntry(e).focus), a \in StepEntry(e).agenda, failed \in BOOLEAN :
               /\ Selects(StepEntry(e), d, a)
               /\ RightHandSide([StepEntry(e) EXCEPT !.ordinal = 0], d, a, failed, g)
    BY Zenon DEF Stepped
  <2>3. QED BY <1>6, <1>8, <1>9, <1>10, <2>1, <2>2, Zenon
<1>13. \A n, l : Whole!Within(n, l) <=> Within(n, l) BY Zenon DEF Whole!Within, Within
<1>14. QED BY <1>2, <1>3, <1>4, <1>5, <1>6, <1>8, <1>9, <1>10, <1>12, <1>13

\* The mapped status.
LEMMA StatusCases ==
  /\ pc = "idle" <=> RunStatus = "idle"
  /\ pc = "loop" /\ firstChunk => RunStatus = "requested"
  /\ pc # "idle" /\ ~(pc = "loop" /\ firstChunk) => RunStatus = "running"
BY DEF RunStatus

\* The mapped status after a step.
LEMMA NextStatusCases ==
  /\ pc' = "idle" <=> RunStatus' = "idle"
  /\ pc' = "loop" /\ firstChunk' => RunStatus' = "requested"
  /\ pc' # "idle" /\ ~(pc' = "loop" /\ firstChunk') => RunStatus' = "running"
BY DEF RunStatus

\* What remains of the worker's loop is what is left of the run's limit.
LEMMA WithinLimit ==
  ASSUME IInv, pc # "idle", NEW n \in Nat
  PROVE  Within(n, remaining) <=> Within(totalFired + n, limit)
BY DEF IInv, BatchTypeOK, LoopInv, Within

\* A return of batchedRun() is a return of the run that fires n rules in all.
LEMMA ReturnMaps ==
  ASSUME NEW reason, NEW n \in Nat, BatchReturn(reason, n)
  PROVE  /\ RunStatus' = "idle" /\ RunFired' = n
         /\ outcome' = reason /\ abort' = FALSE /\ limit' = limit
BY NextStatusCases DEF BatchReturn, RunFired

\* The requests map to the host's calls.
LEMMA RequestsMap ==
  ASSUME IInv, IInv'
  PROVE  /\ PostResult => Whole!TakeResult
         /\ HostCall => Whole!HostCall
         /\ \A l \in Limits : RunRequest(l) => Whole!RunCall(l)
         /\ \A l \in Limits : EvaluateRequest(l) => Whole!EvaluateCall(l)
<1>0. ASSUME PostResult PROVE Whole!TakeResult
  <2>1. RunStatus = "idle" /\ RunStatus' = "idle" BY <1>0, StatusCases, NextStatusCases DEF PostResult
  <2>2. RunFired' = 0 BY <1>0 DEF PostResult, RunFired, IInv, LoopInv
  <2>3. QED BY <1>0, <2>1, <2>2 DEF PostResult, Whole!TakeResult
<1>1. ASSUME HostCall PROVE Whole!HostCall
  <2>1. RunStatus = "idle" /\ RunStatus' = "idle" BY <1>1, StatusCases, NextStatusCases DEF HostCall
  <2>2. RunFired' = RunFired BY <1>1 DEF HostCall, RunFired
  <2>3. \/ Whole!Changed(engine, engine')
        \/ Whole!Reset(engine, engine')
        \/ Whole!Stepped(engine, engine')
        \/ engine' \in {Whole!Cleared(engine), [engine EXCEPT !.halted = TRUE],
                        [engine EXCEPT !.diagnostics = {}]}
    BY <1>1, SameEngine DEF HostCall
  <2>4. QED BY <1>1, <2>1, <2>2, <2>3 DEF HostCall, loopVars, Whole!HostCall
<1>2. ASSUME NEW l, Requested(l) PROVE Whole!Requested(l)
  <2>1. pc = "idle" /\ pc' = "loop" /\ firstChunk' BY <1>2 DEF Requested, IInv, LoopInv
  <2>2. RunStatus = "idle" /\ RunStatus' = "requested"
    BY <2>1, StatusCases, NextStatusCases
  <2>3. RunFired' = 0 BY <1>2, <2>1 DEF Requested, RunFired, IInv, LoopInv
  <2>4. QED BY <1>2, <2>2, <2>3 DEF Requested, Whole!Requested
<1>3. ASSUME NEW l \in Limits, RunRequest(l) PROVE Whole!RunCall(l)
  BY <1>2, <1>3 DEF RunRequest, Whole!RunCall
<1>4. ASSUME NEW l \in Limits, EvaluateRequest(l) PROVE Whole!EvaluateCall(l)
  <2>1. Whole!Requested(EvaluateLimit(l)) BY <1>2, <1>4 DEF EvaluateRequest
  <2>2. Whole!Reset(engine, engine') BY <1>4, SameEngine DEF EvaluateRequest
  <2>3. QED BY <2>1, <2>2, Zenon DEF EvaluateLimit, Whole!EvaluateCall
<1>5. QED BY <1>0, <1>1, <1>3, <1>4

\* The flag and its two readers.
LEMMA AbortMaps ==
  ASSUME IInv, IInv'
  PROVE  /\ RaiseAbort => Whole!RaiseAbort
         /\ AbortBeforeChunk => Whole!Cancel
<1>1. ASSUME RaiseAbort PROVE Whole!RaiseAbort
  <2>1. RunStatus # "idle" /\ RunStatus' = RunStatus /\ RunFired' = RunFired
    BY <1>1, StatusCases DEF RaiseAbort, loopVars, RunStatus, RunFired
  <2>2. QED BY <1>1, <2>1 DEF RaiseAbort, loopVars, Whole!RaiseAbort
<1>2. ASSUME AbortBeforeChunk PROVE Whole!Cancel
  <2>1. pc = "loop" /\ rulesFired = 0 /\ totalFired \in Nat
    BY <1>2 DEF AbortBeforeChunk, IInv, BatchTypeOK, LoopInv
  <2>2. RunStatus # "idle" /\ RunFired = totalFired BY <2>1, StatusCases DEF RunFired
  <2>3. Within(0, remaining) <=> Within(totalFired + 0, limit) BY <2>1, WithinLimit
  <2>4. Whole!Within(RunFired, limit) BY <1>2, <2>1, <2>2, <2>3, SameEngine DEF AbortBeforeChunk
  <2>5. BatchReturn("HaltRequested", totalFired) BY <1>2 DEF AbortBeforeChunk
  <2>6. /\ RunStatus' = "idle" /\ RunFired' = totalFired
        /\ outcome' = "HaltRequested" /\ abort' = FALSE /\ limit' = limit
    BY <2>1, <2>5, ReturnMaps
  <2>7. QED BY <1>2, <2>2, <2>4, <2>6 DEF AbortBeforeChunk, Whole!Cancel
<1>3. QED BY <1>1, <1>2

\* The submission of the first chunk begins the run; that of another, and the
\* return of a full chunk, are internal.
LEMMA ChunkMaps ==
  ASSUME IInv, IInv'
  PROVE  /\ SubmitChunk => Whole!Begin \/ UNCHANGED Whole!vars
         /\ ChunkFull => UNCHANGED Whole!vars
<1>1. ASSUME SubmitChunk PROVE Whole!Begin \/ UNCHANGED Whole!vars
  <2>1. pc = "loop" /\ pc' = "native" /\ rulesFired = 0 /\ rulesFired' = 0
        /\ totalFired' = totalFired
    BY <1>1 DEF SubmitChunk, IInv, LoopInv
  <2>2. RunStatus' = "running" /\ RunFired' = RunFired
    BY <2>1, NextStatusCases DEF RunFired
  <2>3. CASE firstChunk
    <3>1. engine' = Whole!Started(engine) BY <1>1, <2>3, SameEngine DEF SubmitChunk, ChunkEntry
    <3>2. RunStatus = "requested" BY <2>1, <2>3, StatusCases
    <3>3. QED BY <1>1, <2>2, <3>1, <3>2 DEF SubmitChunk, Whole!Begin
  <2>4. CASE ~firstChunk
    <3>1. engine' = engine BY <1>1, <2>4 DEF SubmitChunk, ChunkEntry
    <3>2. RunStatus = "running" BY <2>1, <2>4, StatusCases
    <3>3. QED BY <1>1, <2>2, <3>1, <3>2 DEF SubmitChunk, Whole!vars
  <2>5. QED BY <2>3, <2>4
<1>2. ASSUME ChunkFull PROVE UNCHANGED Whole!vars
  <2>1. RunFired' = RunFired BY <1>2 DEF ChunkFull, RunFired, IInv, BatchTypeOK
  <2>2. pc = "native" /\ pc' = "after" BY <1>2 DEF ChunkFull
  <2>3. RunStatus = "running" /\ RunStatus' = "running"
    BY <2>2, StatusCases, NextStatusCases
  <2>4. QED BY <1>2, <2>1, <2>3 DEF ChunkFull, Whole!vars
<1>3. QED BY <1>1, <1>2

\* In native code, below the chunk's limit, the run is below its own.
LEMMA NativeWithin ==
  ASSUME IInv, pc = "native", rulesFired < batchLimit
  PROVE  /\ Whole!Within(RunFired, limit)
         /\ RunStatus = "running"
         /\ totalFired + rulesFired \in Nat
<1>1. rulesFired \in Nat /\ totalFired \in Nat BY DEF IInv, BatchTypeOK
<1>2. Within(rulesFired, remaining) BY DEF IInv, BatchTypeOK, LoopInv, Within
<1>3. Within(totalFired + rulesFired, limit) BY <1>1, <1>2, WithinLimit
<1>4. RunStatus = "running" BY StatusCases
<1>5. QED BY <1>1, <1>3, <1>4, SameEngine DEF RunFired

\* A firing of the native call is a firing of the run.
LEMMA FireMaps ==
  ASSUME IInv, IInv', Fire
  PROVE  Whole!Fire
<1>1. pc = "native" /\ rulesFired < batchLimit /\ ~engine.halted BY DEF Fire
<1>2. /\ Whole!Within(RunFired, limit)
      /\ RunStatus = "running"
      /\ totalFired + rulesFired \in Nat
  BY <1>1, NativeWithin
<1>3. PICK d \in 1 .. Len(engine.focus), a \in engine.agenda, failed \in BOOLEAN :
        /\ Selects(engine, d, a)
        /\ RightHandSide(engine, d, a, failed, engine')
        /\ IF failed
             THEN BatchReturn("ActionError", totalFired + rulesFired + 1)
             ELSE /\ rulesFired' = rulesFired + 1
                  /\ UNCHANGED <<pc, outcome, loopVars, totalFired, abort>>
  BY DEF Fire
<1>4. Whole!Selects(engine, d, a) /\ Whole!RightHandSide(engine, d, a, failed, engine')
  BY <1>3, SameEngine
<1>5. /\ RunStatus' = IF failed THEN "idle" ELSE "running"
      /\ outcome' = IF failed THEN "ActionError" ELSE outcome
      /\ abort' = IF failed THEN FALSE ELSE abort
      /\ RunFired' = RunFired + 1
      /\ limit' = limit
  <2>1. CASE failed
    <3>1. BatchReturn("ActionError", totalFired + rulesFired + 1) BY <1>3, <2>1
    <3>2. totalFired + rulesFired + 1 \in Nat BY <1>2
    <3>3. QED BY <2>1, <3>1, <3>2, ReturnMaps DEF RunFired
  <2>2. CASE ~failed
    <3>1. /\ rulesFired' = rulesFired + 1 /\ pc' = "native" /\ totalFired' = totalFired
          /\ outcome' = outcome /\ limit' = limit /\ abort' = abort
      BY <1>1, <1>3, <2>2 DEF loopVars
    <3>2. RunStatus' = "running" BY <3>1, NextStatusCases
    <3>3. RunFired' = RunFired + 1 BY <3>1 DEF RunFired, IInv, BatchTypeOK
    <3>4. QED BY <2>2, <3>1, <3>2, <3>3
  <2>3. QED BY <2>1, <2>2
<1>6. QED BY <1>1, <1>2, <1>3, <1>4, <1>5 DEF Whole!Fire

\* The terminal reasons of the native call are those of the run.
LEMMA NativeMaps ==
  ASSUME IInv, IInv'
  PROVE  /\ ObeyHalt => Whole!ObeyHalt
         /\ RunDry => Whole!RunDry
<1>1. ASSUME NEW reason, NativeReturns(reason)
      PROVE  Whole!Within(RunFired, limit) /\ Whole!Return(reason)
  <2>1. pc = "native" /\ rulesFired < batchLimit BY <1>1 DEF NativeReturns
  <2>2. /\ Whole!Within(RunFired, limit)
        /\ RunStatus = "running"
        /\ totalFired + rulesFired \in Nat
    BY <2>1, NativeWithin
  <2>3. BatchReturn(reason, totalFired + rulesFired) BY <1>1 DEF NativeReturns
  <2>4. /\ RunStatus' = "idle" /\ RunFired' = totalFired + rulesFired
        /\ outcome' = reason /\ abort' = FALSE /\ limit' = limit
    BY <2>2, <2>3, ReturnMaps
  <2>5. QED BY <2>2, <2>4 DEF Whole!Return, RunFired
<1>2. ASSUME ObeyHalt PROVE Whole!ObeyHalt
  BY <1>1, <1>2 DEF ObeyHalt, Whole!ObeyHalt
<1>3. ASSUME RunDry PROVE Whole!RunDry
  <2>1. Whole!NothingToFire(engine) /\ engine' = Whole!Quiescent(engine)
    BY <1>3, SameEngine DEF RunDry
  <2>2. QED BY <1>1, <1>3, <2>1 DEF RunDry, Whole!RunDry
<1>4. QED BY <1>2, <1>3

\* What follows a full chunk: the run's limit, a cancellation, a halt, or nothing.
LEMMA AfterChunkMaps ==
  ASSUME IInv, IInv', AfterChunk
  PROVE  Whole!ReachLimit \/ Whole!Cancel \/ Whole!ObeyHalt \/ UNCHANGED Whole!vars
<1>1. /\ pc = "after" /\ rulesFired = 0 /\ totalFired \in Nat /\ engine' = engine
      /\ ~firstChunk
  BY DEF AfterChunk, IInv, BatchTypeOK, LoopInv
<1>2. RunStatus = "running" /\ RunFired = totalFired BY <1>1, StatusCases DEF RunFired
<1>3. LimitReached <=> ~Whole!Within(RunFired, limit)
  <2>1. Within(0, remaining) <=> Within(totalFired + 0, limit) BY <1>1, WithinLimit
  <2>2. totalFired + 0 = RunFired BY <1>1, <1>2
  <2>3. QED BY <2>1, <2>2, SameEngine DEF LimitReached
<1>4. ASSUME NEW reason, BatchReturn(reason, totalFired)
      PROVE  /\ RunStatus' = "idle" /\ RunFired' = RunFired
             /\ outcome' = reason /\ abort' = FALSE /\ limit' = limit
  BY <1>1, <1>2, <1>4, ReturnMaps
<1>5. CASE LimitReached /\ BatchReturn("LimitReached", totalFired)
  BY <1>1, <1>2, <1>3, <1>4, <1>5 DEF Whole!ReachLimit, Whole!Return
<1>6. CASE ~LimitReached /\ (abort \/ engine.halted) /\ BatchReturn("HaltRequested", totalFired)
  <2>1. CASE abort BY <1>1, <1>2, <1>3, <1>4, <1>6, <2>1 DEF Whole!Cancel
  <2>2. CASE engine.halted
    BY <1>1, <1>2, <1>3, <1>4, <1>6, <2>2 DEF Whole!ObeyHalt, Whole!Return
  <2>3. QED BY <1>6, <2>1, <2>2
<1>7. CASE /\ pc' = "loop"
           /\ UNCHANGED <<outcome, loopVars, totalFired, rulesFired, abort, late, noted>>
  <2>1. firstChunk' = firstChunk /\ limit' = limit BY <1>7 DEF loopVars
  <2>2. RunStatus' = "running" BY <1>1, <1>7, <2>1, NextStatusCases
  <2>3. RunFired' = RunFired BY <1>7 DEF RunFired
  <2>4. QED BY <1>1, <1>2, <1>7, <2>1, <2>2, <2>3 DEF Whole!vars
<1>8. QED BY <1>5, <1>6, <1>7 DEF AfterChunk

\* Every step of the worker is a step of the run, or internal.
LEMMA StepMaps == IInv /\ IInv' /\ [BatchNext]_batchVars => [Whole!Next]_(Whole!vars)
<1> SUFFICES ASSUME IInv, IInv', [BatchNext]_batchVars PROVE [Whole!Next]_(Whole!vars) OBVIOUS
<1>1. CASE UNCHANGED batchVars
  BY <1>1 DEF batchVars, loopVars, Whole!vars, RunStatus, RunFired
<1>2. CASE \E l \in Limits : RunRequest(l) \/ EvaluateRequest(l)
  BY <1>2, RequestsMap DEF Whole!Next
<1>3. CASE PostResult \/ HostCall BY <1>3, RequestsMap DEF Whole!Next
<1>4. CASE RaiseAbort \/ AbortBeforeChunk BY <1>4, AbortMaps DEF Whole!Next
<1>5. CASE SubmitChunk \/ ChunkFull BY <1>5, ChunkMaps DEF Whole!Next
<1>6. CASE Fire BY <1>6, FireMaps DEF Whole!Next
<1>7. CASE ObeyHalt \/ RunDry BY <1>7, NativeMaps DEF Whole!Next
<1>8. CASE AfterChunk BY <1>8, AfterChunkMaps DEF Whole!Next
<1>9. QED BY <1>1, <1>2, <1>3, <1>4, <1>5, <1>6, <1>7, <1>8 DEF BatchNext

\* The batched run of the workers implements one synchronous logical run of the
\* engine with cancellation, for every batch size, limit, focus stack and agenda.
THEOREM Refinement == BatchSpec => Implements
<1>1. BatchInit => Whole!Init
  <2> SUFFICES ASSUME BatchInit PROVE Whole!Init OBVIOUS
  <2>1. RunStatus = "idle" BY StatusCases DEF BatchInit
  <2>2. RunFired = 0 BY DEF BatchInit, RunFired
  <2>3. QED BY <2>1, <2>2 DEF BatchInit, Whole!Init
<1>2. QED BY <1>1, StepMaps, Invariance, PTL DEF BatchSpec, Implements, Whole!Spec

-----------------------------------------------------------------------------
(* The reasons.                                                              *)

\* Each return gives its reason under that reason's condition.
LEMMA ReturnsTruly ==
  ASSUME IInv, IInv', [BatchNext]_batchVars, pc # "idle", pc' = "idle"
  PROVE  \/ /\ outcome' = "LimitReached"
            /\ limit # Unlimited /\ totalFired' = limit
         \/ outcome' = "AgendaEmpty" /\ engine'.focus = <<>> /\ ~engine'.halted
         \/ outcome' = "HaltRequested" /\ (engine'.halted \/ abort)
         \/ outcome' = "ActionError" /\ engine'.diagnostics # {}
<1>1. engine \in Engines BY DEF IInv, BatchTypeOK
<1>2. CASE AbortBeforeChunk BY <1>2 DEF AbortBeforeChunk, BatchReturn
<1>3. CASE ObeyHalt BY <1>3 DEF ObeyHalt, NativeReturns, BatchReturn
<1>4. CASE RunDry
  <2>1. engine'.focus = <<>> /\ engine'.halted = engine.halted
    BY <1>1, <1>4 DEF RunDry, Quiescent, Engines
  <2>2. QED BY <1>4, <2>1 DEF RunDry, NativeReturns, BatchReturn
<1>5. CASE AfterChunk
  <2>1. CASE LimitReached /\ BatchReturn("LimitReached", totalFired)
    <3>1. limit # Unlimited /\ totalFired = limit
      BY <2>1 DEF IInv, BatchTypeOK, LoopInv, LimitReached, Within
    <3>2. QED BY <2>1, <3>1 DEF BatchReturn
  <2>2. CASE ~LimitReached /\ (abort \/ engine.halted) /\ BatchReturn("HaltRequested", totalFired)
    BY <1>5, <2>2 DEF BatchReturn, AfterChunk
  <2>3. QED BY <1>5, <2>1, <2>2 DEF AfterChunk
<1>6. CASE Fire
  <2>1. PICK d \in 1 .. Len(engine.focus), a \in engine.agenda, failed \in BOOLEAN :
          /\ RightHandSide(engine, d, a, failed, engine')
          /\ IF failed
               THEN BatchReturn("ActionError", totalFired + rulesFired + 1)
               ELSE UNCHANGED <<pc, outcome, loopVars, totalFired, abort>>
    BY <1>6 DEF Fire
  <2>2. failed BY <2>1
  <2>3. a \in engine'.diagnostics BY <1>1, <2>1, <2>2, RightHandSideType
  <2>4. QED BY <2>1, <2>2, <2>3 DEF BatchReturn
<1>7. ~(UNCHANGED batchVars) BY DEF batchVars
<1>8. ~(PostResult \/ HostCall \/ RaiseAbort \/ SubmitChunk \/ ChunkFull)
  BY DEF PostResult, HostCall, RaiseAbort, SubmitChunk, ChunkFull
<1>9. \A l \in Limits : ~(RunRequest(l) \/ EvaluateRequest(l))
  BY DEF RunRequest, EvaluateRequest, Requested
<1>10. QED BY <1>2, <1>3, <1>4, <1>5, <1>6, <1>7, <1>8, <1>9 DEF BatchNext

\* The reason the worker reports is true of the run and of the engine it leaves,
\* although the native calls see only their own limits.
THEOREM TrueReasons == BatchSpec => ReasonIsTrue
<1>1. IInv /\ IInv' /\ [BatchNext]_batchVars =>
        [pc # "idle" /\ pc' = "idle" =>
           CASE outcome' = "LimitReached"  -> limit # Unlimited /\ totalFired' = limit
             [] outcome' = "AgendaEmpty"   -> engine'.focus = <<>> /\ ~engine'.halted
             [] outcome' = "HaltRequested" -> engine'.halted \/ abort
             [] outcome' = "ActionError"   -> engine'.diagnostics # {}]_batchVars
  BY ReturnsTruly
<1>2. QED BY <1>1, Invariance, PTL DEF BatchSpec, ReasonIsTrue
=============================================================================
