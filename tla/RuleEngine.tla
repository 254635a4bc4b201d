----------------------------- MODULE RuleEngine -----------------------------
(***************************************************************************)
(* The part of the runtime engine (crates/ferric-rules-runtime/src/engine.rs) *)
(* that a run reads and writes: the agenda, the focus stack, the halt latch, *)
(* the action diagnostics and the firing ordinal.  An activation is an       *)
(* identity with the module of its rule and its rank in the conflict set;    *)
(* what an operation does to working memory shows as any change of the       *)
(* agenda, and what it puts in focus as pushes on the focus stack.           *)
(***************************************************************************)
EXTENDS Integers, Sequences

CONSTANTS
  Activations,   \* the activations that may ever reach the agenda
  Modules,
  Main,          \* the module MAIN
  ModuleOf,      \* the module of an activation's rule
  Rank,          \* its place in the order of the agenda, lowest first
  Unlimited,     \* RunLimit::Unlimited
  Limits,        \* the limits callers pass
  MaxDepth       \* bound: the depth to which calls fill the focus stack

ASSUME EngineAssumption ==
  /\ Main \in Modules
  /\ ModuleOf \in [Activations -> Modules]
  /\ Rank \in [Activations -> Nat]
  /\ \A a, b \in Activations : Rank[a] = Rank[b] => a = b
  /\ Unlimited \notin Nat
  /\ Limits \subseteq Nat \cup {Unlimited}
  /\ MaxDepth \in Nat

\* unused: activations the network has not produced yet.  A fired or retracted
\* activation does not come back; the same match gives a new one.
Engines ==
  [agenda : SUBSET Activations, unused : SUBSET Activations, focus : Seq(Modules),
   halted : BOOLEAN, diagnostics : SUBSET Activations, ordinal : Nat]

\* The stacks that calls of push_focus() make of f: a module is not pushed on top
\* of itself.
Refocused(f) ==
  {g \in {f \o p : p \in UNION {[1 .. n -> Modules] : n \in 0 .. MaxDepth - Len(f)}} :
     \A i \in Len(f) + 1 .. Len(g) : i > 1 => g[i] # g[i - 1]}

\* What assert, retract and load, set_focus() and push_focus() of a host may do to
\* the engine: e becomes g.  The test conditions of new matches are evaluated on the
\* way; one may call halt, and the candidates whose test fails leave diagnostics.
Changed(e, g) ==
  \E gone \in SUBSET e.agenda, new \in SUBSET e.unused, halt \in BOOLEAN,
     f \in Refocused(e.focus) \cup {<<m>> : m \in Modules} :
       \E failing \in SUBSET (e.unused \ new) :
         g = [e EXCEPT !.agenda = (@ \ gone) \cup new, !.unused = @ \ new, !.focus = f,
                       !.halted = @ \/ halt, !.diagnostics = @ \cup failing]

\* reset() clears the latch and the diagnostics, puts MAIN in focus and asserts the
\* initial facts, whose matches may take the focus.
Reset(e, g) ==
  \E new \in SUBSET e.unused, halt \in BOOLEAN, f \in Refocused(<<Main>>) :
    \E failing \in SUBSET (e.unused \ new) :
      g = [e EXCEPT !.agenda = new, !.unused = @ \ new, !.focus = f,
                    !.halted = halt, !.diagnostics = failing]

\* clear() drops the rules with everything else.
Cleared(e) ==
  [e EXCEPT !.agenda = {}, !.focus = <<Main>>, !.halted = FALSE, !.diagnostics = {}]

\* run_inner() with clear_execution_state: a new logical run.
Started(e) ==
  [e EXCEPT !.ordinal = 0, !.halted = FALSE, !.diagnostics = {},
            !.focus = IF @ = <<>> THEN <<Main>> ELSE @]

\* pop_next_focus_activation(): modules with nothing to do are popped off the
\* focus stack down to depth d, where a is the first activation of the agenda.
InFocus(e, d) == {a \in e.agenda : ModuleOf[a] = e.focus[d]}
Selects(e, d, a) ==
  /\ d \in 1 .. Len(e.focus)
  /\ \A j \in d + 1 .. Len(e.focus) : InFocus(e, j) = {}
  /\ a \in InFocus(e, d)
  /\ \A b \in InFocus(e, d) : Rank[a] <= Rank[b]
NothingToFire(e) == \A d \in 1 .. Len(e.focus) : InFocus(e, d) = {}

\* The engine after the pop loop has found nothing.
Quiescent(e) == [e EXCEPT !.focus = <<>>]

\* execute_activation_actions(): the right-hand side of a fires with the focus
\* stack cut to depth d.  It may change the agenda, push or reset the focus, and
\* call halt; a source-level reset keeps the latch and the diagnostics.  Match-time
\* errors leave a diagnostic without failing the activation.
RightHandSide(e, d, a, failed, g) ==
  \E gone \in SUBSET e.agenda, new \in SUBSET e.unused,
     f \in Refocused(SubSeq(e.focus, 1, d)) \cup Refocused(<<Main>>),
     halt \in BOOLEAN, diagnosed \in BOOLEAN :
       g = [e EXCEPT !.agenda = (@ \ (gone \cup {a})) \cup new,
                     !.unused = @ \ new,
                     !.focus = f,
                     !.halted = @ \/ halt,
                     !.diagnostics = IF failed \/ diagnosed THEN @ \cup {a} ELSE @,
                     !.ordinal = @ + 1]

\* step(): one activation, under no limit and without reading the latch.
StepEntry(e) ==
  [e EXCEPT !.diagnostics = {}, !.focus = IF @ = <<>> THEN <<Main>> ELSE @]
Stepped(e, g) ==
  LET s == StepEntry(e)
  IN \/ NothingToFire(s) /\ g = Quiescent(s)
     \/ \E d \in 1 .. Len(s.focus), a \in s.agenda, failed \in BOOLEAN :
          Selects(s, d, a) /\ RightHandSide([s EXCEPT !.ordinal = 0], d, a, failed, g)

\* n firings have not used up limit l.
Within(n, l) == l # Unlimited => n < l
=============================================================================
