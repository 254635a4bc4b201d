---------------------------- MODULE ControlFlow ----------------------------
(***************************************************************************)
(* Structured control on the right-hand side of a rule and in callable     *)
(* bodies: if, switch, progn, while, loop-for-count, progn$ / foreach and  *)
(* the fact queries, break and return, local binds, and the loop budget    *)
(* that a firing shares with everything it evaluates.                      *)
(*                                                                         *)
(* The runtime has two executors for the same forms. The action executor   *)
(* (actions.rs) runs the actions of a rule and masks outer locals while a  *)
(* loop name is in scope; the expression evaluator (evaluator.rs) runs     *)
(* operands and callable bodies and reads loop names from an immutable     *)
(* frame. An operand of an action moves the rule's locals into the         *)
(* evaluator and back.                                                     *)
(*                                                                         *)
(* The program is left to Next: a body does one of the actions below, in   *)
(* any order, within what the loader accepts (SourceBreak, SourceReturn,   *)
(* BindRejected). A break or a return that a funcall names at run time is  *)
(* not seen by the loader and may be raised in any expression.             *)
(***************************************************************************)
EXTENDS Integers, Sequences, FiniteSets, SequencesExt

CONSTANTS
  MaxIterations,  \* config.max_action_loop_iterations
  MaxDepth,       \* MAX_EXPRESSION_DEPTH
  Spans,          \* lengths of a loop's range, a list, a query's candidates
  Vals,           \* values a bind may give; 0 unbinds
  Modes,          \* query forms: first, all, delayed, result
  Forms,          \* forms and operands the program uses
  Fuel,           \* bound on the forms and binds one root executes
  MaxRoots        \* bound on the firings and evaluations of the host

ASSUME ControlFlowAssumption ==
  /\ MaxIterations \in Nat /\ MaxDepth \in Nat /\ Spans \subseteq Nat
  /\ Vals \subseteq Nat /\ Modes \subseteq {"first", "all", "delayed", "result"}
  /\ Fuel \in Nat /\ MaxRoots \in Nat

VARIABLES
  stack,      \* forms under way, the innermost last
  locals,     \* CallableLocals of the evaluations under way, innermost last
  rhs,        \* runtime_bindings of the firing
  compact,    \* compact_facts of the firing
  sig,        \* the control signal or error that unwinds, or "none"
  targets,    \* length of active_query_targets
  active,     \* action_loop_budget_active
  remaining,  \* action_loop_iterations_remaining
  iters,      \* iterations since the outermost root began (history)
  raised,     \* where the signal was raised and whether source says so (history)
  fuel, roots

controlVars == <<stack, locals, rhs, compact, sig, targets, active, remaining,
          iters, raised, fuel, roots>>
data == <<locals, rhs, compact, targets>>
budget == <<active, remaining, iters>>

Names == {"x", "x-index"}
Unbound == [name \in Names |-> 0]
Quiet == [target |-> 0, source |-> FALSE]

Loops == {"while", "count", "progn$", "query"}
Boundaries == {"firing", "root", "call"}

\* A frame with the fields its form leaves alone.
Frame(k, act) ==
  [k |-> k, act |-> act, phase |-> "body", names |-> {}, protect |-> {},
   n |-> 0, pos |-> 0, mode |-> "all", sel |-> <<>>,
   env |-> Unbound, cmp |-> Unbound, saved |-> Unbound,
   cmpSaved |-> Unbound, added |-> {}, guarded |-> {},
   kept |-> 0, held |-> FALSE, owns |-> FALSE, brk |-> FALSE, ret |-> FALSE,
   mine |-> Unbound]

Top == stack[Len(stack)]
SetTop(f) == [stack EXCEPT ![Len(stack)] = f]
Env == locals[Len(locals)]
SetEnv(e) == [locals EXCEPT ![Len(locals)] = e]
NewLocals(values, open) ==
  [values |-> values, lexical |-> {}, protected |-> {}, open |-> open]

\* The frame that holds the base scope of frame i: its firing, root or callable.
Base(i) ==
  CHOOSE b \in 1..i :
    /\ stack[b].k \in Boundaries
    /\ \A j \in (b + 1)..i : stack[j].k \notin Boundaries

Running == sig = "none" /\ stack # <<>>

-----------------------------------------------------------------------------
(* The loop budget *)

begin_action_loop_budget ==
  active' = TRUE /\ remaining' = MaxIterations

begin_action_loop_budget_if_inactive == ~active

end_action_loop_budget == active' = FALSE /\ UNCHANGED remaining

take_action_loop_iteration == active /\ remaining > 0

\* An iteration of the top frame begins when the budget has one left.
Consume ==
  /\ remaining' = IF remaining > 0 THEN remaining - 1 ELSE 0
  /\ iters' = iters + 1
  /\ UNCHANGED active

-----------------------------------------------------------------------------
(* Reading and writing names *)

\* ordinary_binding: a local value, unless the name is lexical, else the frame.
ordinary_binding(x) ==
  IF Env.values[x] # 0 /\ x \notin Env.lexical
  THEN Env.values[x] ELSE Top.env[x]

CompactRead(x) == IF Top.act THEN compact[x] ELSE Top.cmp[x]

\* dispatch_local_bind refuses the variable of an active loop.
ProtectedName(x) == x \in Env.protected

\* Frames of the current activation, from its base to the top.
Activation == IF stack = <<>> THEN {} ELSE Base(Len(stack))..Len(stack)

\* validate_query_predicate: no local bind anywhere in a predicate.
PredicateBind ==
  \E i \in Activation : stack[i].k = "query" /\ stack[i].phase = "pred"

\* validate_query_member_rebinding, for the actions of a rule.
MemberBind(x) ==
  /\ stack[Base(Len(stack))].k = "firing"
  /\ \E i \in Activation : stack[i].k = "query" /\ x \in stack[i].names

\* validate_iterator_binds: no bind of an iteration variable in a callable.
IteratorBind(x) ==
  /\ stack[Base(Len(stack))].k = "call"
  /\ \E i \in Activation : x \in stack[i].protect

\* What no accepted program does.
BindRejected(x) == PredicateBind \/ MemberBind(x) \/ IteratorBind(x)

-----------------------------------------------------------------------------
(* Scopes *)

\* Mutant: leaving a scope removes the name also when an outer loop holds it.
ScopeExitAll(f) ==
  [Env EXCEPT !.lexical = @ \ f.names, !.protected = @ \ f.guarded]

\* with_callable_local_scope on the way out, on every exit.
ScopeExit(f) ==
  [Env EXCEPT !.lexical = @ \ f.added, !.protected = @ \ f.guarded]

\* with_callable_local_scope on the way in: names already lexical are not added.
ScopeEnter(f) ==
  [Env EXCEPT !.lexical = @ \cup f.names, !.protected = @ \cup f.protect]

\* with_local_scope on the way out.
Restore(f, values) ==
  [x \in Names |-> IF x \in f.names THEN f.saved[x] ELSE values[x]]

\* with_local_scope on the way in.
Mask(f, values) ==
  [x \in Names |-> IF x \in f.names THEN 0 ELSE values[x]]

\* with_compact_scope on the way out; only queries have one.
CompactRestore(f) ==
  IF f.k = "query"
  THEN [x \in Names |-> IF x \in f.names THEN f.cmpSaved[x] ELSE compact[x]]
  ELSE compact

\* The names of frame f, with the value its current iteration gives them.
Bound(f, outer) == [x \in Names |-> IF x \in f.names THEN f.pos ELSE outer[x]]

\* Frame f enters the scope of its current iteration or candidate.
EnterScope(f) ==
  LET outer == stack[Len(stack) - 1]
      g == [f EXCEPT !.env = Bound(f, outer.env),
                     !.cmp = IF f.k = "query" THEN Bound(f, outer.cmp)
                             ELSE outer.cmp,
                     !.mine = Unbound] IN
  IF f.act
  THEN /\ stack' = SetTop([g EXCEPT !.saved = rhs, !.cmpSaved = compact])
       /\ rhs' = Mask(f, rhs)
       /\ compact' = IF f.k = "query" THEN Bound(f, compact) ELSE compact
       /\ UNCHANGED locals
  ELSE /\ stack' = SetTop([g EXCEPT !.added = f.names \ Env.lexical,
                                    !.guarded = f.protect \ Env.protected])
       /\ locals' = SetEnv(ScopeEnter(f))
       /\ UNCHANGED <<rhs, compact>>

\* Frame f is in the scope it entered, not in its head.
InScope(f) == f.phase # "head" /\ f.names # {}

LeaveScope(f) ==
  /\ rhs' = IF f.act /\ InScope(f) THEN Restore(f, rhs) ELSE rhs
  /\ compact' = IF f.act /\ InScope(f) THEN CompactRestore(f) ELSE compact
  /\ locals' = IF ~f.act /\ InScope(f) THEN SetEnv(ScopeExit(f)) ELSE locals

-----------------------------------------------------------------------------
(* Entering forms *)

\* A form inside a form: an operand has one expression, a body any number.
MayRun ==
  /\ Running /\ fuel > 0
  /\ Top.phase = "body"
  /\ Top.k \in {"operand", "head"} => Top.pos = 0

AtAction == MayRun /\ Top.act
AtExpression == MayRun /\ ~Top.act

\* The stack once the top frame has started its operand's expression.
Started == IF Top.k \in {"operand", "head"}
           THEN SetTop([Top EXCEPT !.pos = 1]) ELSE stack

Depth == Cardinality({i \in DOMAIN stack : ~stack[i].act})

\* eval_inner: the evaluator's frames are limited, the action executor's are not.
eval_inner(f) ==
  IF ~f.act /\ Depth >= MaxDepth
  THEN sig' = "error" /\ stack' = Started
  ELSE sig' = sig /\ stack' = Append(Started, f)

Form(k) ==
  [Frame(k, Top.act) EXCEPT !.phase = "head", !.env = Top.env, !.cmp = Top.cmp,
     !.kept = targets, !.brk = Top.brk, !.ret = Top.ret]

Enter(f) ==
  /\ f.k \in Forms
  /\ eval_inner(f)
  /\ fuel' = fuel - 1
  /\ UNCHANGED <<data, budget, raised, roots>>

\* if, switch and progn, whose bodies are those of the form they stand in.
ActionIf == AtAction /\ Enter(Form("block"))
ExpressionIf == AtExpression /\ Enter(Form("block"))

ActionWhile == AtAction /\ Enter(Form("while"))
ExpressionWhile == AtExpression /\ Enter(Form("while"))

\* loop-for-count, with a variable or without; an empty range has no iteration.
CountForm(n, names) ==
  [Form("count") EXCEPT !.n = n, !.names = names, !.protect = names]

ActionLoopForCount(n, names) == AtAction /\ Enter(CountForm(n, names))
ExpressionLoopForCount(n, names) == AtExpression /\ Enter(CountForm(n, names))

\* progn$ and foreach: the element is protected, the index is an ordinary name.
PrognForm(n) ==
  [Form("progn$") EXCEPT !.n = n, !.names = Names, !.protect = {"x"}]

ActionProgn(n) == AtAction /\ Enter(PrognForm(n))
ExpressionProgn(n) == AtExpression /\ Enter(PrognForm(n))

\* A query with n candidates. Result forms have no body and belong to the
\* evaluator, also when an action discards their value.
QueryForm(n, mode) ==
  [Form("query") EXCEPT !.n = n, !.names = {"x"}, !.mode = mode]

ActionQuery(n, mode) ==
  AtAction /\ mode # "result" /\ Enter(QueryForm(n, mode))
ExpressionQuery(n, mode) == AtExpression /\ Enter(QueryForm(n, mode))

\* The frame of an operand: it can neither break nor return, says the loader.
OperandFrame(k) ==
  [Frame(k, FALSE) EXCEPT !.env = Top.env,
     !.cmp = IF Top.act THEN compact ELSE Top.cmp]

\* A form still evaluates its operands: a query's restrictions come before its
\* candidates.
HeadOpen(f) == f.phase = "head" /\ ~f.held

\* eval_runtime_expr: an action's operand, or a head of an action's form, is
\* evaluated with the rule's locals moved out of the action executor.
eval_runtime_expr ==
  /\ Running /\ fuel > 0 /\ Top.act /\ "operand" \in Forms
  /\ HeadOpen(Top) \/ Top.phase \in {"pred", "body"}
  /\ stack' = Append(stack, OperandFrame("operand"))
  /\ locals' = Append(locals, NewLocals(rhs, TRUE))
  /\ rhs' = Unbound
  /\ fuel' = fuel - 1
  /\ UNCHANGED <<compact, targets, budget, sig, raised, roots>>

\* A head of one of the evaluator's forms that is an expression of its own.
ExpressionHead ==
  /\ Running /\ fuel > 0 /\ ~Top.act
  /\ HeadOpen(Top) \/ Top.phase = "pred"
  /\ Enter(OperandFrame("head"))

\* execute_callable_body: the body has locals of its own over its parameters.
execute_callable_body ==
  /\ AtExpression /\ "call" \in Forms
  /\ LET f == [Frame("call", FALSE) EXCEPT !.env["x"] = 1, !.ret = TRUE] IN
       /\ eval_inner(f)
       /\ locals' = IF Depth >= MaxDepth THEN locals
                    ELSE Append(locals, NewLocals(Unbound, TRUE))
  /\ fuel' = fuel - 1
  /\ UNCHANGED <<rhs, compact, targets, budget, raised, roots>>

\* eval_with_budget: an expression of the host, or a test that matching runs
\* inside a firing. It owns the budget only when none was active.
eval_with_budget(nested) ==
  /\ IF nested THEN AtExpression /\ "test" \in Forms ELSE stack = <<>> /\ roots > 0
  /\ LET owns == begin_action_loop_budget_if_inactive IN
       /\ stack' = Append(IF nested THEN Started ELSE stack,
                     [Frame("root", FALSE) EXCEPT !.owns = owns])
       /\ IF owns THEN begin_action_loop_budget
          ELSE UNCHANGED <<active, remaining>>
  /\ iters' = IF nested THEN iters ELSE 0
  /\ locals' = Append(locals, NewLocals(Unbound, FALSE))
  /\ fuel' = IF nested THEN fuel - 1 ELSE Fuel
  /\ roots' = IF nested THEN roots ELSE roots - 1
  /\ UNCHANGED <<rhs, compact, targets, sig, raised>>

\* A test of a rule's conditions, run while an action asserts a fact.
evaluate_test_condition == eval_with_budget(TRUE)

\* execute_actions of a firing.
execute_actions ==
  /\ stack = <<>> /\ roots > 0
  /\ stack' = <<[Frame("firing", TRUE) EXCEPT !.ret = TRUE]>>
  /\ begin_action_loop_budget
  /\ iters' = 0 /\ rhs' = Unbound /\ compact' = Unbound
  /\ fuel' = Fuel /\ roots' = roots - 1
  /\ UNCHANGED <<locals, targets, sig, raised>>

-----------------------------------------------------------------------------
(* Binds and signals *)

\* The scope a bind of x belongs to: the innermost loop of the action executor
\* that has the name, or the base.
BindScope(x) ==
  LET own == {i \in Activation : stack[i].act /\ x \in stack[i].names
                                 /\ stack[i].phase # "head"} IN
  IF own = {} THEN Base(Len(stack)) ELSE CHOOSE i \in own : \A j \in own : j <= i

Noted(x, v) == [stack EXCEPT ![BindScope(x)].mine[x] = v]

\* bind as an action; v = 0 unbinds and goes through the evaluator.
ActionBind(x, v) ==
  /\ AtAction /\ ~BindRejected(x)
  /\ rhs' = [rhs EXCEPT ![x] = v]
  /\ stack' = Noted(x, v)
  /\ fuel' = fuel - 1
  /\ UNCHANGED <<locals, compact, targets, sig, budget, raised, roots>>

dispatch_local_bind(x, v) ==
  /\ AtExpression /\ ~BindRejected(x)
  /\ fuel' = fuel - 1
  /\ IF ~Env.open \/ ProtectedName(x)
     THEN sig' = "error" /\ stack' = Started /\ UNCHANGED locals
     ELSE /\ locals' = SetEnv([Env EXCEPT !.values[x] = v])
          /\ stack' = [Noted(x, v) EXCEPT ![Len(stack)].pos =
                         IF Top.k \in {"operand", "head"} THEN 1 ELSE @]
          /\ UNCHANGED sig
  /\ UNCHANGED <<rhs, compact, targets, budget, raised, roots>>

\* A loop of this activation in whose body the top frame stands; in the action
\* executor a query's predicate counts as well.
Catching(f) ==
  f.k \in Loops /\ (f.phase = "body" \/ (f.phase = "pred" /\ f.act))

BreakTarget ==
  LET loops == {i \in Activation : Catching(stack[i])} IN
  IF loops = {} THEN 0 ELSE CHOOSE i \in loops : \A j \in loops : j <= i

ReturnTarget == IF stack[Base(Len(stack))].k = "call" \/ Top.act
                THEN Base(Len(stack)) ELSE 0

Raise(signal, source) ==
  /\ sig' = signal
  /\ raised' = [source |-> source,
                target |-> IF signal = "break" THEN BreakTarget ELSE ReturnTarget]
  /\ fuel' = fuel - 1
  /\ UNCHANGED <<stack, data, budget, roots>>

\* validate_break_call: break is an action of a loop's body.
SourceBreak == Top.brk

\* validate_sequence_expansion: return is an action of a rule or a callable.
SourceReturn == Top.ret

Break == MayRun /\ SourceBreak /\ Raise("break", TRUE)
Return == MayRun /\ SourceReturn /\ Raise("return", TRUE)

\* break and return named by a funcall, and any evaluation that fails.
FuncallBreak == AtExpression /\ "funcall" \in Forms /\ Raise("break", FALSE)
FuncallReturn == AtExpression /\ "funcall" \in Forms /\ Raise("return", FALSE)
Fail == AtExpression /\ Raise("error", FALSE)

-----------------------------------------------------------------------------
(* Running a form *)

\* The top form is over and leaves nothing behind.
Pop == stack' = Front(stack)

Keep == UNCHANGED <<fuel, roots, raised>>

\* The action or expression that a body has next is absent: the body ends.
LoopBody(f) == [f EXCEPT !.phase = "body", !.brk = TRUE]

\* The first case whose value equals the selector's, the default, or a branch.
TakeBranch == stack' = SetTop([Top EXCEPT !.phase = "body"])

\* The condition of an if or the selector of a switch; an absent branch ends it.
BlockStep ==
  /\ Running /\ Top.k = "block"
  /\ IF Top.phase = "head"
     THEN TakeBranch \/ Pop
     ELSE Pop
  /\ UNCHANGED <<data, budget, sig>> /\ Keep

\* The condition of a while is evaluated again after every body.
WhileStep ==
  /\ Running /\ Top.k = "while"
  /\ IF Top.phase = "body"
     THEN stack' = SetTop([Top EXCEPT !.phase = "head", !.brk = FALSE])
          /\ UNCHANGED <<sig, budget>>
     ELSE \/ Pop /\ UNCHANGED <<sig, budget>>
          \/ /\ take_action_loop_iteration
             /\ Consume /\ stack' = SetTop(LoopBody(Top)) /\ UNCHANGED sig
          \/ /\ ~take_action_loop_iteration
             /\ sig' = "error" /\ UNCHANGED <<stack, budget>>
  /\ UNCHANGED data /\ Keep

\* The next iteration of a counted loop or a list, the first from the head.
IterationStep ==
  /\ Running /\ Top.k \in {"count", "progn$"}
  /\ UNCHANGED targets /\ Keep
  /\ IF Top.pos = Top.n
     THEN Pop /\ LeaveScope(Top) /\ UNCHANGED <<budget, sig>>
     ELSE IF Top.k = "count" /\ ~take_action_loop_iteration
     THEN sig' = "error" /\ UNCHANGED <<stack, locals, rhs, compact, budget>>
     ELSE /\ LET f == [LoopBody(Top) EXCEPT !.pos = @ + 1] IN
               IF Top.phase = "head" THEN EnterScope(f)
               ELSE /\ stack' = SetTop([f EXCEPT !.env = Bound(f, Top.env)])
                    /\ UNCHANGED <<locals, rhs, compact>>
          /\ IF Top.k = "count" THEN Consume ELSE UNCHANGED budget
          /\ UNCHANGED sig

\* A query's restrictions: each evaluated one retains its target.
RetainTarget ==
  /\ Running /\ Top.k = "query" /\ HeadOpen(Top)
  /\ targets' = targets + 1
  /\ stack' = SetTop([Top EXCEPT !.held = TRUE])
  /\ UNCHANGED <<locals, rhs, compact, sig, budget>> /\ Keep

\* The end of a query truncates the retained targets.
QueryOver(f) == Pop /\ targets' = f.kept

\* Candidates in order: the predicate of each one runs in the member's scope.
NextCandidate ==
  /\ Running /\ Top.k = "query" /\ Top.phase = "head" /\ Top.held
  /\ UNCHANGED sig /\ Keep
  /\ IF Top.pos < Top.n
     THEN /\ EnterScope([Top EXCEPT !.pos = @ + 1, !.phase = "pred"])
          /\ UNCHANGED <<targets, budget>>
     ELSE IF Top.sel = <<>>
     THEN QueryOver(Top) /\ UNCHANGED <<locals, rhs, compact, budget>>
     ELSE FALSE

\* Once a delayed query has its tuples, each body costs an iteration.
NextSelected ==
  /\ Running /\ Top.k = "query" /\ Top.phase = "head"
  /\ Top.pos = Top.n /\ Top.sel # <<>>
  /\ UNCHANGED targets /\ Keep
  /\ IF take_action_loop_iteration
     THEN /\ \E f \in {[LoopBody(Top) EXCEPT !.pos = Head(Top.sel)]} :
               \E g \in {[f EXCEPT !.sel = Tail(@)]} : EnterScope(g)
          /\ Consume /\ UNCHANGED sig
     ELSE sig' = "error" /\ UNCHANGED <<stack, locals, rhs, compact, budget>>

\* The predicate decides: skip the tuple, remember it, stop, or run the body.
PredicateStep(matched) ==
  /\ Running /\ Top.k = "query" /\ Top.phase = "pred"
  /\ UNCHANGED <<budget, sig>> /\ Keep
  /\ IF matched /\ Top.mode \in {"all", "first"}
     THEN stack' = SetTop(LoopBody(Top)) /\ UNCHANGED data
     ELSE /\ LeaveScope(Top)
          /\ IF matched /\ Top.mode = "result"
             THEN QueryOver(Top)
             ELSE /\ stack' = SetTop([Top EXCEPT !.phase = "head",
                                !.sel = IF matched THEN Append(@, Top.pos) ELSE @])
                  /\ UNCHANGED targets

\* A body of a query is over. A delayed query has selected up to its last tuple.
QueryBodyStep ==
  /\ Running /\ Top.k = "query" /\ Top.phase = "body"
  /\ LeaveScope(Top)
  /\ IF Top.mode = "first" \/ (Top.mode = "delayed" /\ Top.sel = <<>>)
     THEN QueryOver(Top)
     ELSE /\ stack' = SetTop([Top EXCEPT !.phase = "head", !.brk = FALSE,
                        !.pos = IF Top.mode = "delayed" THEN Top.n ELSE @])
          /\ UNCHANGED targets
  /\ UNCHANGED <<budget, sig>> /\ Keep

\* An expression of an operand has its value; the rule's locals move back.
OperandStep ==
  /\ Running /\ Top.k \in {"operand", "head"}
  /\ Pop
  /\ IF Top.k = "operand"
     THEN rhs' = Env.values /\ locals' = Front(locals)
     ELSE UNCHANGED <<rhs, locals>>
  /\ UNCHANGED <<compact, targets, budget, sig>> /\ Keep

\* The end of a root: the owner of the budget ends it.
EndBudget(f) ==
  IF f.k = "firing" \/ f.owns
  THEN end_action_loop_budget /\ UNCHANGED iters ELSE UNCHANGED budget

\* The body of a callable, a root or a firing is over.
BoundaryStep ==
  /\ Running /\ Top.k \in Boundaries
  /\ Pop
  /\ EndBudget(Top)
  /\ locals' = IF Top.k = "firing" THEN locals ELSE Front(locals)
  /\ UNCHANGED <<rhs, compact, targets, sig>> /\ Keep

-----------------------------------------------------------------------------
(* Unwinding *)

\* What a loop makes of a signal: a break of its body ends there.
Catches(f) == sig = "break" /\ Catching(f)

UnwindForm ==
  /\ stack # <<>> /\ sig # "none"
  /\ Top.k \in Loops \cup {"block"}
  /\ LeaveScope(Top)
  /\ Pop
  /\ targets' = IF Top.k = "query" THEN Top.kept ELSE targets
  /\ sig' = IF Catches(Top) THEN "none" ELSE sig
  /\ raised' = IF Catches(Top) THEN Quiet ELSE raised
  /\ UNCHANGED <<budget, fuel, roots>>

\* eval_action_expression: a return that leaves an action's operand is an error;
\* the locals move back on this way as well.
UnwindOperand ==
  /\ stack # <<>> /\ sig # "none" /\ Top.k \in {"operand", "head"}
  /\ Pop
  /\ IF Top.k = "operand"
     THEN /\ rhs' = Env.values /\ locals' = Front(locals)
          /\ sig' = IF sig = "return" THEN "error" ELSE sig
     ELSE UNCHANGED <<rhs, locals, sig>>
  /\ UNCHANGED <<compact, targets, budget, raised, fuel, roots>>

\* execute_callable_exprs: a return ends here, a break is an error.
CallableOutcome ==
  CASE sig = "return" -> "none" [] sig = "break" -> "error" [] OTHER -> sig

\* A callable, a root (which contains every signal as an error of its own) or
\* the firing (which records the error and stops).
UnwindBoundary ==
  /\ stack # <<>> /\ sig # "none" /\ Top.k \in Boundaries
  /\ Pop
  /\ EndBudget(Top)
  /\ locals' = IF Top.k = "firing" THEN locals ELSE Front(locals)
  /\ sig' = IF Top.k = "call" THEN CallableOutcome ELSE "none"
  /\ raised' = IF Top.k = "call" /\ sig = "error" THEN raised ELSE Quiet
  /\ UNCHANGED <<rhs, compact, targets, fuel, roots>>

-----------------------------------------------------------------------------
ControlInit ==
  /\ stack = <<>> /\ locals = <<>> /\ rhs = Unbound /\ compact = Unbound
  /\ sig = "none" /\ targets = 0
  /\ active = FALSE /\ remaining = 0 /\ iters = 0
  /\ raised = Quiet /\ fuel = 0 /\ roots = MaxRoots

\* One step of the executors. Each of them is one thread that goes on.
Step ==
  \/ ActionIf \/ ExpressionIf \/ ActionWhile \/ ExpressionWhile
  \/ \E n \in Spans : \E names \in {{}, {"x"}} :
       ActionLoopForCount(n, names) \/ ExpressionLoopForCount(n, names)
  \/ \E n \in Spans : ActionProgn(n) \/ ExpressionProgn(n)
  \/ \E n \in Spans, m \in Modes : ActionQuery(n, m) \/ ExpressionQuery(n, m)
  \/ eval_runtime_expr \/ ExpressionHead \/ execute_callable_body
  \/ evaluate_test_condition
  \/ \E x \in Names, v \in Vals : ActionBind(x, v) \/ dispatch_local_bind(x, v)
  \/ Break \/ Return \/ FuncallBreak \/ FuncallReturn \/ Fail
  \/ BlockStep \/ WhileStep \/ IterationStep
  \/ RetainTarget \/ NextCandidate \/ NextSelected \/ QueryBodyStep
  \/ \E matched \in BOOLEAN : PredicateStep(matched)
  \/ OperandStep \/ BoundaryStep
  \/ UnwindForm \/ UnwindOperand \/ UnwindBoundary

ControlNext == Step \/ execute_actions \/ eval_with_budget(FALSE)

ControlSpec == ControlInit /\ [][ControlNext]_controlVars

-----------------------------------------------------------------------------
(* Properties *)

\* The budget belongs to the outermost firing or evaluation: it is active
\* exactly while one is under way, and what it evaluates on the way, tests run
\* by matching included, adds its iterations to the same total.
LoopBudget ==
  /\ active <=> stack # <<>>
  /\ iters <= MaxIterations

\* The value lexical scoping gives x: that of the innermost form that has the
\* name, where a rule's own bind in the scope of an action's loop goes first.
LexicalValue(x) ==
  LET binders == {i \in Activation : /\ stack[i].k \notin Boundaries
                                     /\ stack[i].phase # "head"
                                     /\ x \in stack[i].names}
      i == IF binders = {} THEN Base(Len(stack))
           ELSE CHOOSE b \in binders : \A j \in binders : j <= b IN
  IF (i = Base(Len(stack)) \/ stack[i].act) /\ stack[i].mine[x] # 0
  THEN stack[i].mine[x] ELSE stack[i].env[x]

\* Masking, moving and restoring locals on both executors' ways in and out,
\* broken loops and queries included, amounts to lexical scoping: an expression
\* reads the innermost scope's value, and a loop that reuses an outer loop's
\* name leaves the outer one as it was.
ReadsLexical ==
  Running /\ ~Top.act /\ Top.phase = "body" =>
    \A x \in Names : ordinary_binding(x) = LexicalValue(x)

\* A compact reference ?f:slot follows the innermost query of the activation
\* that has the member, also when a loop reuses the variable and after a query
\* that a break ended.
CompactFollowsQuery ==
  Running /\ Top.phase = "body" =>
    \A x \in Names :
      LET qs == {i \in Activation : /\ stack[i].k = "query" /\ x \in stack[i].names
                                    /\ stack[i].phase # "head"} IN
      CompactRead(x) = IF qs = {} THEN 0
                       ELSE stack[CHOOSE q \in qs : \A j \in qs : j <= q].pos

\* Every query that ended in any way has released the templates it retained,
\* and those under way still hold theirs.
TargetsRetained ==
  targets = Cardinality({i \in DOMAIN stack : stack[i].held})

\* A break ends the innermost loop whose body raised it, never one whose
\* condition or restriction did, and never one of a caller; a return ends the
\* callable, or the rule, that raised it and no other.
SignalsLand ==
  (sig \in {"break", "return"} /\ sig' = "none") =>
    (raised.target = Len(stack)
     \/ (raised.target = 0 /\ Top.k \in {"root", "firing"}))

\* A break or a return that the loader accepted in the source is never an
\* error when it runs.
SourceControlAccepted ==
  (sig \in {"break", "return"} /\ raised.source) =>
    (sig' # "error" /\ (sig' = "none" => raised.target # 0))

\* While a loop of the evaluator runs, no bind of its activation changes the
\* loop's variable, neither now nor for after the loop.
IterationVariableFixed ==
  (Running /\ ~Top.act /\ Len(locals') = Len(locals)) =>
    \A x \in Names :
      (\E i \in Activation : /\ ~stack[i].act /\ stack[i].phase = "body"
                             /\ x \in stack[i].protect)
      => locals'[Len(locals)].values[x] = Env.values[x]

=============================================================================
