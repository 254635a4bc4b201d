--------------------------- MODULE SlotEvaluation ---------------------------
(***************************************************************************)
(* How the slots of a template fact get their values, for every way a fact *)
(* is made: by the host, by a deffacts seed, by a top-level assertion, by  *)
(* load-facts, by assert, modify and duplicate in a body.  Slots given and *)
(* omitted defaults are evaluated in turn, an expression may itself assert *)
(* facts, define a template, read a dynamic default, run a loop or ask for *)
(* clear, and every one of them may fail or return.  Evaluations nest; the *)
(* stack holds the ones under way, the last one being the innermost.       *)
(***************************************************************************)
EXTENDS Integers, Sequences, SequencesExt, FiniteSets

CONSTANTS
  Requests,          \* slots given to a source assertion: sequences of [at, n]
  HostRequests,      \* slots given by the host: sequences of [at, value]
  Defaults,          \* defaults a template may have: a sequence, one for each slot
  EvalMaxDepth,      \* MAX_EXPRESSION_DEPTH
  EvalMaxIterations  \* max_action_loop_iterations

ASSUME SlotEvaluationAssumption == EvalMaxDepth \in Nat /\ EvalMaxIterations \in Nat

VARIABLES evalStack,   \* evaluations under way
          evalResult,  \* what the innermost expression gave, not yet looked at
          defaults,    \* defaults of the templates
          evalActive,  \* active_fact_initializers
          evalHeld,    \* number of active_templates
          floor,       \* eval_depth_floor
          evalBudget,  \* the loop budget: whether it is active, and what is left
          cleared,     \* whether the last step removed the facts, which moves fact_epoch
          last,        \* how the last root ended
          facts,       \* the fact just published, with what was given
          used,        \* iterations taken under the current root
          stray,       \* whether a return was raised in a default
          ran          \* whether the current root evaluated an expression
evalVars == <<evalStack, evalResult, defaults, evalActive, evalHeld, floor, evalBudget, cleared, last, facts, used, stray, ran>>

\* Values and other outcomes of an expression.
One(a) == [kind |-> "one", of |-> <<a>>]
Many(s) == [kind |-> "many", of |-> s]
Void == [kind |-> "void", of |-> <<>>]
Failed == [kind |-> "error", of |-> <<>>]
EvalReturn == [kind |-> "return", of |-> <<>>]
EvalNone == [kind |-> "none", of |-> <<>>]
IsValue(v) == v.kind \in {"one", "many", "void"}

\* Slot 1 is single-field, slot 2 is a multislot.
Slots == 1 .. 2
IsMulti(s) == s = 2

\* What validate_slot decides: a void value stands for ?NONE, "bad" violates
\* the constraints of its slot.
validate_slot(s, v) ==
  /\ v.kind = IF IsMulti(s) THEN "many" ELSE "one"
  /\ \A i \in DOMAIN v.of : v.of[i] # "bad"

EvalFields(outs) == FlattenSeq([i \in DOMAIN outs |-> outs[i].of])

\* The value of a slot from the results of its expressions.
evaluate_expressions(s, policy, outs) ==
  IF IsMulti(s)
  THEN IF policy = "reject" /\ \E i \in DOMAIN outs : outs[i] = Void
       THEN Failed
       ELSE Many(EvalFields(outs))
  ELSE LET v == IF policy = "nil" /\ outs[1] = Void THEN One("nil") ELSE outs[1]
       IN IF v.kind \in {"many", "void"} THEN Failed ELSE v

\* deftemplate-slot-default-value reports what the expressions give.
evaluate_dynamic_raw(s, outs) ==
  IF ~IsMulti(s) /\ Len(outs) = 1 THEN outs[1] ELSE Many(EvalFields(outs))

Policy(kind, from) == IF kind = "define" THEN "reject" ELSE IF from = "dynamic" THEN "nil" ELSE "omit"

-----------------------------------------------------------------------------
(* Sources of slots.                                                       *)

Supplied(s, v) == [at |-> s, from |-> "supplied", n |-> 0, value |-> v]
Exprs(s, n) == [at |-> s, from |-> "fields", n |-> n, value |-> EvalNone]
Static(s, v) == [at |-> s, from |-> "static", n |-> 0, value |-> v]
Dynamic(s, n) == [at |-> s, from |-> "dynamic", n |-> n, value |-> EvalNone]

\* A default is [dynamic |-> BOOLEAN, n |-> expressions, value |-> static value].
DefaultSource(s) ==
  IF defaults[s].dynamic THEN Dynamic(s, defaults[s].n) ELSE Static(s, defaults[s].value)

Known(given) == \A i \in DOMAIN given : given[i].at \in Slots
NoDuplicate(given) == \A i, j \in DOMAIN given : given[i].at = given[j].at => i = j
GivenFor(given, s) == {i \in DOMAIN given : given[i].at = s}

\* Sources of a prepared fact; none if an override is unknown or repeated.
prepared_sources(given) ==
  IF ~Known(given) \/ ~NoDuplicate(given) THEN <<>>
  ELSE [s \in Slots |->
          IF GivenFor(given, s) = {} THEN DefaultSource(s)
          ELSE Exprs(s, given[CHOOSE i \in GivenFor(given, s) : TRUE].n)]

\* What slot_overrides accepts before any expression is evaluated.
SlotOverrides(given) ==
  /\ Known(given) /\ NoDuplicate(given)
  /\ \A i \in DOMAIN given : ~IsMulti(given[i].at) => given[i].n = 1

\* prepare_template_initializer also refuses an omitted static default that is
\* invalid, the void of ?NONE above all.
prepare_template_initializer(given) ==
  /\ SlotOverrides(given)
  /\ \A s \in Slots : (GivenFor(given, s) = {} /\ ~defaults[s].dynamic)
                        => validate_slot(s, defaults[s].value)

\* The value the host gives, as the slot stores it.
HostValue(s, v) == IF IsMulti(s) /\ v.kind = "one" THEN Many(v.of) ELSE v

\* Sources of a host assertion; none if it is refused at once.
assert_template_with_result(given) ==
  LET valid == /\ Known(given) /\ NoDuplicate(given)
               /\ \A i \in DOMAIN given : validate_slot(given[i].at, HostValue(given[i].at, given[i].value))
               /\ \A s \in Slots : (GivenFor(given, s) = {} /\ ~defaults[s].dynamic)
                                     => validate_slot(s, defaults[s].value)
  IN IF ~valid THEN <<>>
     ELSE [s \in Slots |->
             IF GivenFor(given, s) # {}
             THEN LET g == given[CHOOSE i \in GivenFor(given, s) : TRUE]
                  IN Supplied(s, HostValue(s, g.value))
             ELSE IF defaults[s].dynamic THEN Dynamic(s, defaults[s].n)
             ELSE Supplied(s, defaults[s].value)]

-----------------------------------------------------------------------------
(* Evaluations: entering and leaving.                                      *)

Prepared == {"seed", "command", "file"}
Assembling == Prepared \cup {"host", "assert", "modify"}

\* The slots a target of modify has.
Target == <<One("x"), Many(<<"x">>)>>

EvalTop == evalStack[Len(evalStack)]
Below == SubSeq(evalStack, 1, Len(evalStack) - 1)
Item == EvalTop.sources[EvalTop.next]
EvalSetTop(fr) == Append(Below, fr)
Idle == evalStack = <<>>

\* How often an evaluation is counted as a fact initializer: prepared facts and
\* the syntax effects count themselves and their slots, a static default is
\* not counted.
Counted(kind) ==
  CASE kind \in Prepared \cup {"assert"} -> 2
    [] kind \in {"host", "modify", "raw"} -> 1
    [] OTHER -> 0

\* Whether the frame's slot expressions stand in a dynamic default's context.
InDefault(fr) == fr.open /\ fr.sources[fr.next].from = "dynamic" /\ fr.kind # "raw"

OwnsBudget(kind) == kind \in Prepared \cup {"host", "assert", "define", "body"} /\ ~evalBudget.on
EvalFrame(kind, sources, given, depth) ==
  [kind |-> kind, sources |-> sources, given |-> given, next |-> 1, open |-> FALSE, outs |-> <<>>,
   values |-> IF kind = "modify" THEN Target ELSE <<EvalNone, EvalNone>>,
   got |-> <<>>, depth |-> depth, owns |-> OwnsBudget(kind), floor |-> floor]

\* Owners begin the budget; the others go on with the one there is.
begin_budget(kind) == IF OwnsBudget(kind) THEN [on |-> TRUE, left |-> EvalMaxIterations] ELSE evalBudget

\* Nested evaluations go on at the depth of the expression that opened them:
\* assert, modify and raw in its context, the others from the depth floor.
NestedDepth(kind) == EvalTop.depth + 1

EvalEnter(kind, sources, given, depth) ==
  /\ evalStack' = Append(evalStack, EvalFrame(kind, sources, given, depth))
  /\ evalActive' = evalActive + Counted(kind)
  /\ evalHeld' = evalHeld + (IF kind \in Assembling THEN 1 ELSE 0)
  /\ floor' = IF kind \in {"raw", "body"} \/ Idle THEN floor ELSE EvalTop.depth + 1
  /\ evalBudget' = begin_budget(kind)

\* What a frame makes of an outcome that leaves it: a return or an error of a
\* default is contained, build turns a failed load into FALSE, an evaluation at
\* a root of its own reports an error.
contain_control_signals(fr, v) ==
  CASE fr.kind = "define" /\ ~IsValue(v) -> IF Below = <<>> THEN Failed ELSE One("FALSE")
    [] v = EvalReturn /\ (fr.kind \in Prepared \cup {"raw"} \/ InDefault(fr)) -> Failed
    [] OTHER -> v

\* The counter after a frame is left: the code counts down before it looks at
\* the result, for the frame and for a default it is in.
CountedDown(fr, v) == evalActive - Counted(fr.kind) - (IF InDefault(fr) THEN 1 ELSE 0)

EndsBudgetOwned(fr) == fr.owns

Leave(v) ==
  /\ evalStack' = Below
  /\ evalActive' = CountedDown(EvalTop, v)
  /\ evalHeld' = evalHeld - (IF EvalTop.kind \in Assembling THEN 1 ELSE 0)
  /\ floor' = EvalTop.floor
  /\ evalBudget' = IF EndsBudgetOwned(EvalTop) THEN [evalBudget EXCEPT !.on = FALSE] ELSE evalBudget
  /\ LET out == contain_control_signals(EvalTop, v)
     IN IF Below = <<>>
        THEN evalResult' = EvalNone /\ last' = [root |-> EvalTop.kind, outcome |-> out,
                                                late |-> EvalTop.open]
        ELSE evalResult' = out /\ UNCHANGED last

-----------------------------------------------------------------------------
(* Roots.                                                                  *)

NewRoot ==
  /\ Idle /\ evalResult = EvalNone
  /\ facts' = {} /\ used' = 0 /\ stray' = FALSE /\ ran' = FALSE /\ cleared' = FALSE
  /\ last' = [root |-> "none", outcome |-> EvalNone, late |-> FALSE]
  /\ UNCHANGED evalResult

Refused(kind) ==
  /\ Idle
  /\ last' = [root |-> kind, outcome |-> Failed, late |-> FALSE]
  /\ facts' = {} /\ used' = 0 /\ stray' = FALSE /\ ran' = FALSE /\ cleared' = FALSE
  /\ UNCHANGED <<evalStack, evalResult, defaults, evalActive, evalHeld, floor, evalBudget>>

\* assert_template of the host.
HostAssert ==
  \E given \in HostRequests :
    LET sources == assert_template_with_result(given)
    IN \/ NewRoot /\ sources # <<>> /\ EvalEnter("host", sources, given, floor) /\ UNCHANGED defaults
       \/ sources = <<>> /\ Refused("host")

\* A deffacts of a reset, as it was prepared or as a snapshot restored it.
Seed ==
  \E given \in Requests :
    LET sources == prepared_sources(given)
    IN \/ NewRoot /\ sources # <<>> /\ EvalEnter("seed", sources, given, floor) /\ UNCHANGED defaults
       \/ sources = <<>> /\ Refused("seed")

\* A top-level assertion.
Command ==
  \E given \in Requests :
    /\ prepare_template_initializer(given)
    /\ NewRoot
    /\ EvalEnter("command", prepared_sources(given), given, floor)
    /\ UNCHANGED defaults

\* The definition of a template, one slot of it with a static default of n
\* expressions; the other templates are the ones the next facts are made of.
Define ==
  /\ NewRoot
  /\ \E s \in Slots, n \in 1 .. 2 : EvalEnter("define", <<Exprs(s, n)>>, <<>>, floor)
  /\ defaults' \in Defaults

\* A rule or a root expression evaluates one expression.
EvalBody ==
  NewRoot /\ EvalEnter("body", <<Exprs(2, 1)>>, <<>>, 0) /\ UNCHANGED defaults

-----------------------------------------------------------------------------
(* One evaluation, from the first slot to the last.                        *)

Free == ~Idle /\ evalResult = EvalNone
EvalRest == <<evalResult, defaults, evalHeld, floor, evalBudget, cleared, last, facts, used, stray, ran>>

\* The next slot: a value that is there already, or expressions to evaluate.
NextSlot ==
  /\ Free /\ ~EvalTop.open /\ EvalTop.next <= Len(EvalTop.sources)
  /\ IF Item.from \in {"supplied", "static"}
     THEN IF Item.from = "static" /\ ~validate_slot(Item.at, Item.value)
          THEN Leave(Failed) /\ UNCHANGED <<defaults, cleared, facts, used, stray, ran>>
          ELSE /\ evalStack' = EvalSetTop([EvalTop EXCEPT !.next = @ + 1, !.values[Item.at] = Item.value,
                                              !.got = Append(@, [at |-> Item.at, outs |-> <<Item.value>>])])
               /\ UNCHANGED <<evalActive, EvalRest>>
     ELSE IF ~IsMulti(Item.at) /\ Item.n # 1 /\ EvalTop.kind # "raw"
          THEN Leave(Failed) /\ UNCHANGED <<defaults, cleared, facts, used, stray, ran>>
          ELSE /\ evalStack' = EvalSetTop([EvalTop EXCEPT !.open = TRUE, !.outs = <<>>])
               /\ evalActive' = evalActive + (IF Item.from = "dynamic" /\ EvalTop.kind # "raw" THEN 1 ELSE 0)
               /\ UNCHANGED EvalRest

\* All expressions of a slot are evaluated.
EndSlot ==
  /\ Free /\ EvalTop.next <= Len(EvalTop.sources) /\ EvalTop.open /\ Len(EvalTop.outs) = Item.n
  /\ IF EvalTop.kind = "body" THEN Leave(EvalTop.outs[1]) /\ UNCHANGED <<defaults, cleared, facts, used, stray, ran>>
     ELSE IF EvalTop.kind = "raw"
     THEN Leave(evaluate_dynamic_raw(Item.at, EvalTop.outs)) /\ UNCHANGED <<defaults, cleared, facts, used, stray, ran>>
     ELSE LET v == evaluate_expressions(Item.at, Policy(EvalTop.kind, Item.from), EvalTop.outs)
          IN IF v = Failed \/ (EvalTop.kind \notin {"modify"} /\ ~validate_slot(Item.at, v))
             THEN Leave(Failed) /\ UNCHANGED <<defaults, cleared, facts, used, stray, ran>>
             ELSE /\ evalStack' = EvalSetTop([EvalTop EXCEPT !.open = FALSE, !.outs = <<>>, !.next = @ + 1,
                                        !.values[Item.at] = v,
                                        !.got = Append(@, [at |-> Item.at, outs |-> EvalTop.outs])])
                  /\ evalActive' = evalActive - (IF Item.from = "dynamic" THEN 1 ELSE 0)
                  /\ UNCHANGED EvalRest

\* Every slot has its value: the fact is published, or the default installed.
Publish ==
  /\ Free /\ ~EvalTop.open /\ EvalTop.next > Len(EvalTop.sources)
  /\ IF EvalTop.kind = "modify" /\ \E s \in Slots : ~validate_slot(s, EvalTop.values[s])
     THEN Leave(Failed) /\ UNCHANGED <<defaults, cleared, facts, used, stray, ran>>
     ELSE /\ Leave(One(IF EvalTop.kind = "define" THEN "TRUE" ELSE "fact"))
          /\ facts' = facts \cup {[kind |-> EvalTop.kind, given |-> EvalTop.given, got |-> EvalTop.got,
                                   values |-> EvalTop.values]}
          /\ UNCHANGED <<defaults, cleared, used, stray, ran>>

\* The innermost evaluation looks at the result of its expression.
Absorb ==
  /\ ~Idle /\ evalResult # EvalNone
  /\ cleared' = FALSE /\ facts' = {}
  /\ IF IsValue(evalResult)
     THEN /\ evalStack' = EvalSetTop([EvalTop EXCEPT !.outs = Append(@, evalResult)])
          /\ evalResult' = EvalNone
          /\ UNCHANGED <<defaults, evalActive, evalHeld, floor, evalBudget, last, used, stray, ran>>
     ELSE Leave(evalResult) /\ UNCHANGED <<defaults, used, stray, ran>>

-----------------------------------------------------------------------------
(* One expression.                                                         *)

Wanted == Free /\ EvalTop.open /\ Len(EvalTop.outs) < Item.n
Deep == EvalTop.depth >= EvalMaxDepth
Same == <<evalStack, defaults, evalActive, evalHeld, floor, last, facts>>

\* Whether a return raised here may end the body: only fields of assertions and
\* of modify lie between.
Own == \A i \in DOMAIN evalStack : evalStack[i].kind \in {"body", "assert", "modify"} /\ ~InDefault(evalStack[i])

\* Too many expressions are nested.
TooDeep == Wanted /\ Deep /\ evalResult' = Failed /\ ran' = TRUE /\ UNCHANGED <<Same, evalBudget, cleared, used, stray>>

Simple ==
  /\ Wanted /\ ~Deep
  /\ evalResult' \in {One("x"), One("bad"), Many(<<"x", "y">>), Void, Failed, EvalReturn}
  /\ stray' = IF evalResult' = EvalReturn THEN ~Own ELSE stray
  /\ ran' = TRUE
  /\ UNCHANGED <<Same, evalBudget, cleared, used>>

\* A loop takes one iteration of the budget and gives a value.
Iterate ==
  /\ Wanted /\ ~Deep
  /\ IF evalBudget.on /\ evalBudget.left > 0
     THEN evalBudget' = [evalBudget EXCEPT !.left = @ - 1] /\ used' = used + 1 /\ evalResult' = One("x")
     ELSE evalResult' = Failed /\ UNCHANGED <<evalBudget, used>>
  /\ ran' = TRUE
  /\ UNCHANGED <<Same, cleared, stray>>

clear_for_evaluation == evalActive = 0 /\ evalHeld = 0

\* clear removes the facts unless an evaluation depends on them.
Clear ==
  /\ Wanted /\ ~Deep
  /\ cleared' = clear_for_evaluation
  /\ evalResult' = Void /\ ran' = TRUE
  /\ UNCHANGED <<Same, evalBudget, used, stray>>

\* source_load_depth is not zero.
Loading == \E i \in DOMAIN evalStack : evalStack[i].kind \in {"define", "command"}

EvalOpen(kind, sources, given) ==
  /\ EvalEnter(kind, sources, given, NestedDepth(kind))
  /\ ran' = TRUE
  /\ UNCHANGED <<evalResult, defaults, cleared, last, facts, used, stray>>

Raised(v) == evalResult' = v /\ ran' = TRUE /\ UNCHANGED <<Same, evalBudget, cleared, used, stray>>

\* assert and assert-string.
AssertFact ==
  /\ Wanted /\ ~Deep
  /\ \E given \in Requests :
       IF SlotOverrides(given) THEN EvalOpen("assert", prepared_sources(given), given) ELSE Raised(Failed)

\* modify and duplicate of a live fact.
Modify ==
  /\ Wanted /\ ~Deep
  /\ \E given \in Requests :
       IF SlotOverrides(given)
       THEN EvalOpen("modify", [i \in DOMAIN given |-> Exprs(given[i].at, given[i].n)], given)
       ELSE Raised(Failed)

\* load-facts of a file with one fact that names no slot.
LoadFacts ==
  /\ Wanted /\ ~Deep
  /\ IF prepare_template_initializer(<<>>) THEN EvalOpen("file", prepared_sources(<<>>), <<>>) ELSE Raised(Failed)

\* build of a template with a static default.
Build ==
  /\ Wanted /\ ~Deep
  /\ IF Loading THEN Raised(Failed)
     ELSE \E s \in Slots : EvalOpen("define", <<Exprs(s, 1)>>, <<>>)

\* deftemplate-slot-default-value.
DefaultValue ==
  /\ Wanted /\ ~Deep
  /\ \E s \in Slots :
       IF ~defaults[s].dynamic THEN Raised(IF defaults[s].value = Void THEN One("?NONE") ELSE defaults[s].value)
       ELSE EvalOpen("raw", <<Dynamic(s, defaults[s].n)>>, <<>>)

EvalInit ==
  /\ evalStack = <<>> /\ evalResult = EvalNone /\ defaults \in Defaults
  /\ evalActive = 0 /\ evalHeld = 0 /\ floor = 0 /\ evalBudget = [on |-> FALSE, left |-> 0] /\ cleared = FALSE
  /\ last = [root |-> "none", outcome |-> EvalNone, late |-> FALSE]
  /\ facts = {} /\ used = 0 /\ stray = FALSE /\ ran = FALSE

Roots == HostAssert \/ Seed \/ Command \/ Define \/ EvalBody
Steps == \/ NextSlot \/ EndSlot \/ Publish \/ Absorb
         \/ TooDeep \/ Simple \/ Iterate \/ Clear \/ AssertFact \/ Modify \/ LoadFacts \/ Build \/ DefaultValue

EvalNext == Roots \/ Steps
EvalSpec == EvalInit /\ [][EvalNext]_evalVars

-----------------------------------------------------------------------------
(* Properties.                                                             *)

Legal(s, v) == /\ v.kind = IF IsMulti(s) THEN "many" ELSE "one"
               /\ \A i \in DOMAIN v.of : v.of[i] # "bad"

\* What a published slot has to hold: the value or the results of the fields
\* given for it, else the target's value, else its default.
Meant(f, s) ==
  LET results == UNION {{f.got[i].outs} : i \in {j \in DOMAIN f.got : f.got[j].at = s}}
      asked == GivenFor(f.given, s)
      dynamic == asked = {} /\ f.kind # "modify" /\ defaults[s].dynamic
  IN IF asked # {} /\ f.kind = "host" THEN {f.given[i].value.of : i \in asked}
     ELSE IF asked # {} THEN {EvalFields(outs) : outs \in {r \in results : \A i \in asked : Len(r) = f.given[i].n}}
     ELSE IF f.kind = "modify" THEN {Target[s].of}
     ELSE IF dynamic /\ ~IsMulti(s) /\ results = {<<Void>>} THEN {<<"nil">>}
     ELSE IF dynamic THEN {EvalFields(outs) : outs \in results}
     ELSE {defaults[s].value.of}

\* A fact that is published is complete: each slot was filled once, in
\* declaration order or, for modify, in the order given, with what was given for
\* it or its default, and every value has the shape and meets the constraints of
\* its slot.  A static default never comes from an expression without a value.
FactsExact ==
  \A f \in facts :
    IF f.kind = "define"
    THEN EvalFields(f.got[1].outs) = f.values[f.got[1].at].of /\ \A i \in DOMAIN f.got[1].outs : f.got[1].outs[i] # Void
    ELSE /\ [i \in DOMAIN f.got |-> f.got[i].at] =
              IF f.kind = "modify" THEN [i \in DOMAIN f.given |-> f.given[i].at] ELSE <<1, 2>>
         /\ NoDuplicate(f.given)
         /\ \A s \in Slots : Legal(s, f.values[s]) /\ Meant(f, s) = {f.values[s].of}

\* What the evaluations under way hold is counted exactly, however they end: at
\* rest nothing is counted, no budget runs, the depth floor is zero, and clear
\* works again.
HeldExact ==
  /\ evalActive = 0 <=> \A i \in DOMAIN evalStack : evalStack[i].kind \in {"body", "define"}
  /\ Idle => evalHeld = 0 /\ floor = 0 /\ ~evalBudget.on

\* clear takes no facts away while a fact is assembled or a dynamic default is
\* evaluated.
ClearSafe ==
  cleared => \A i \in DOMAIN evalStack : evalStack[i].kind \in {"body", "define"}

\* All evaluations under a root share one loop budget, which is active whenever
\* an expression is evaluated.
BudgetShared == used <= EvalMaxIterations /\ (Free /\ EvalTop.open => evalBudget.on)

\* A return in a default, an initializer or a definition never ends the body that
\* asserts a fact; one in the fields of the assertion does, and nothing is
\* published after it.
ReturnsStay == last.outcome = EvalReturn => last.root = "body" /\ (Idle => ~stray)

\* A host assertion that a given value or a static default refuses has evaluated
\* nothing.
HostRefusesFirst == (Idle /\ last.root = "host" /\ last.outcome = Failed /\ ran) => last.late

\* Evaluations that open one another stay within one limit of nesting.
EvalDepthBounded == Len(evalStack) <= EvalMaxDepth + 1
=============================================================================
