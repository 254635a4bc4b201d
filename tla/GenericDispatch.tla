-------------------------- MODULE GenericDispatch --------------------------
(***************************************************************************)
(* Calls of deffunctions and generic functions: the precedence order of a  *)
(* generic's methods, the choice of a method, the chain that               *)
(* call-next-method and override-next-method walk, call-specific-method,   *)
(* the binding of arguments, and the frames a call pushes and unwinds.     *)
(*                                                                         *)
(* One generic function and one deffunction, with the bodies of both and   *)
(* their argument expressions left to Next: what a body does is one of the *)
(* actions below, in any order. A query restriction reads a flag that any  *)
(* expression may change. A value has a type, and fields when it is a      *)
(* multifield.                                                             *)
(***************************************************************************)
EXTENDS Integers, Sequences, FiniteSets, SequencesExt

CONSTANTS
  Methods,        \* the methods a program may define
  Indexes,        \* explicit indices a definition may carry; 0 for automatic
  ArgLists,       \* argument lists a call may evaluate to
  FunctionArity,  \* number of parameters of the deffunction
  Modules,        \* modules an expression may make current
  MaxMethods,     \* bound on the methods of the generic
  MaxCallDepth,   \* config.effective_max_call_depth
  MaxFrames       \* bound on nested calls, those in evaluation of arguments too

ASSUME GenericDispatchAssumption ==
  /\ Indexes \subseteq Nat /\ FunctionArity \in Nat
  /\ MaxMethods \in Nat /\ MaxCallDepth \in Nat /\ MaxFrames \in Nat

VARIABLES
  methods,        \* the methods with their indices, ascending
  nextIndex,      \* the next automatic index
  order,          \* positions in methods, by precedence
  flag,           \* what query restrictions read
  genericStack,   \* calls under way, the innermost last
  genericActive,  \* active_callables
  module,         \* the current module of the registry
  failing         \* the error that unwinds the stack, or "no"

genericVars == <<methods, nextIndex, order, flag, genericStack, genericActive, module, failing>>

registry == <<methods, nextIndex, order>>

None == [kind |-> "none"]

-----------------------------------------------------------------------------
(* Types *)

\* type_superclasses
Superclasses(t) ==
  CASE t \in {"PRIMITIVE", "USER"} -> {"OBJECT"}
    [] t \in {"NUMBER", "LEXEME", "MULTIFIELD", "ADDRESS", "INSTANCE"} ->
         {"PRIMITIVE", "OBJECT"}
    [] t \in {"INTEGER", "FLOAT"} -> {"NUMBER", "PRIMITIVE", "OBJECT"}
    [] t \in {"SYMBOL", "STRING"} -> {"LEXEME", "PRIMITIVE", "OBJECT"}
    [] t \in {"EXTERNAL-ADDRESS", "FACT-ADDRESS"} ->
         {"ADDRESS", "PRIMITIVE", "OBJECT"}
    [] t = "INSTANCE-ADDRESS" -> {"INSTANCE", "ADDRESS", "PRIMITIVE", "OBJECT"}
    [] t = "INSTANCE-NAME" -> {"INSTANCE", "PRIMITIVE", "OBJECT"}
    [] t = "INITIAL-OBJECT" -> {"USER", "OBJECT"}
    [] OTHER -> {}

\* value_matches_type: the leaf types and two of their unions; the other
\* classes match nothing.
MatchesType(v, t) ==
  \/ t = v.type
  \/ t = "NUMBER" /\ v.type \in {"INTEGER", "FLOAT"}
  \/ t = "LEXEME" /\ v.type \in {"SYMBOL", "STRING"}

\* type_list_compare: the first position where one type is a subclass of the
\* other decides, then the shorter list.
TypeListCompare(a, b) ==
  LET common == 1..Len(IF Len(a) < Len(b) THEN a ELSE b)
      ranked == {i \in common : a[i] \in Superclasses(b[i])
                                \/ b[i] \in Superclasses(a[i])}
      i == CHOOSE x \in ranked : \A y \in ranked : x <= y
  IN CASE a = <<>> /\ b = <<>> -> "Identical"
       [] a = <<>> /\ b # <<>> -> "Lower"
       [] a # <<>> /\ b = <<>> -> "Higher"
       [] a # <<>> /\ b # <<>> /\ ranked # {} ->
            IF b[i] \in Superclasses(a[i]) THEN "Higher" ELSE "Lower"
       [] OTHER ->
            CASE Len(a) < Len(b) -> "Higher"
              [] Len(a) > Len(b) -> "Lower"
              [] a = b -> "Identical"
              [] OTHER -> "Different"

-----------------------------------------------------------------------------
(* Methods: a sequence of slots, the last one a wildcard when wild. *)

Fixed(m) == IF m.wild THEN Len(m.slots) - 1 ELSE Len(m.slots)

\* The restriction of argument i: the excess ones share the wildcard's.
SlotOf(m, i) == m.slots[IF i <= Fixed(m) THEN i ELSE Len(m.slots)]

\* How slot i ranks method a against b, or "Identical" when it does not.
SlotCompare(a, b, i) ==
  LET types == TypeListCompare(a.slots[i].types, b.slots[i].types)
  IN CASE i > Fixed(a) /\ ~b.wild -> "Lower"
       [] i > Fixed(b) /\ ~a.wild -> "Higher"
       [] OTHER ->
            IF types # "Identical" \/ a.slots[i].query = b.slots[i].query
            THEN types
            ELSE IF a.slots[i].query THEN "Higher" ELSE "Lower"

\* method_has_higher_precedence: the first slot that tells decides.
HigherPrecedence(a, b) ==
  LET common == 1..Len(IF Len(a.slots) < Len(b.slots) THEN a.slots ELSE b.slots)
      telling == {i \in common : SlotCompare(a, b, i) # "Identical"}
      i == CHOOSE x \in telling : \A y \in telling : x <= y
  IN IF telling # {} THEN SlotCompare(a, b, i) = "Higher"
     ELSE IF a.wild # b.wild THEN b.wild
     ELSE Len(a.slots) > Len(b.slots)

\* insert_by_precedence: before the first method it outranks.
InsertByPrecedence(ms, o, p) ==
  InsertAt(o, Min({Len(o) + 1} \cup {i \in DOMAIN o : HigherPrecedence(ms[p], ms[o[i]])}), p)

\* precedence_order
PrecedenceOrder(ms) ==
  LET Upto[n \in 0..Len(ms)] ==
        IF n = 0 THEN <<>> ELSE InsertByPrecedence(ms, Upto[n - 1], n)
  IN Upto[Len(ms)]

\* The order after method p was inserted: extended when p is the last, rebuilt
\* otherwise.
OrderAfter(ms, p) ==
  IF p = Len(ms) THEN InsertByPrecedence(ms, order, p) ELSE PrecedenceOrder(ms)

ArityMatches(m, args) ==
  IF m.wild THEN Len(args) >= Fixed(m) ELSE Len(args) = Fixed(m)

TypesMatch(m, args) ==
  \A i \in DOMAIN args :
    LET ts == SlotOf(m, i).types
    IN ts = <<>> \/ \E j \in DOMAIN ts : MatchesType(args[i], ts[j])

\* method_may_apply: types are checked here only when no query would run.
MayApply(m, args) ==
  /\ ArityMatches(m, args)
  /\ (\E i \in DOMAIN m.slots : m.slots[i].query) \/ TypesMatch(m, args)

\* method_applies
Applies(m, args) ==
  \A i \in DOMAIN args :
    LET s == SlotOf(m, i)
    IN /\ s.types = <<>> \/ \E j \in DOMAIN s.types : MatchesType(args[i], s.types[j])
       /\ s.query => flag

\* select_method: the first candidate from a position on, or 0.
Select(candidates, args, start) ==
  LET fit == {i \in DOMAIN candidates :
                /\ i >= start
                /\ MayApply(candidates[i], args)
                /\ Applies(candidates[i], args)}
  IN IF fit = {} THEN 0 ELSE CHOOSE x \in fit : \A y \in fit : x <= y

ByPrecedence == [i \in DOMAIN order |-> methods[order[i]]]

FieldsOf(v) == IF v.type = "MULTIFIELD" THEN v.fields ELSE <<v>>

Spliced(vs) == FlattenSeq([i \in DOMAIN vs |-> FieldsOf(vs[i])])

\* bind_callable_arguments: one value per parameter, the wildcard's a
\* multifield of the other arguments, spliced.
Bind(params, wild, args) ==
  SubSeq(args, 1, params)
  \o (IF wild THEN <<[type |-> "MULTIFIELD",
                      fields |-> Spliced(SubSeq(args, params + 1, Len(args)))]>>
      ELSE <<>>)

-----------------------------------------------------------------------------
(* Frames *)

\* A call whose arguments are evaluated. listed: it is in active_callables.
Pending(callee, chain, listed) ==
  [kind |-> "args", callee |-> callee, chain |-> chain, listed |-> listed]

\* A body that runs; entered holds the module to restore.
Body(callee, chain, args, bound, listed) ==
  [kind |-> "body", callee |-> callee, chain |-> chain, args |-> args,
   bound |-> bound, listed |-> listed, entered |-> module, promise |-> FALSE]

Chain(candidates, at) == [kind |-> "chain", candidates |-> candidates, at |-> at]

CallDepth == Cardinality({i \in DOMAIN genericStack : genericStack[i].kind = "body"})

GenericTop == genericStack[Len(genericStack)]

Bodies == {i \in DOMAIN genericStack : genericStack[i].kind = "body"}

\* The innermost body, which evaluates the current expression.
Caller == CHOOSE i \in Bodies : \A j \in Bodies : j <= i

CallerChain == IF Bodies = {} THEN None ELSE genericStack[Caller].chain

\* An expression is evaluated: the root's, a body's, or an argument.
GenericRunning == failing = "no"

Room == Len(genericStack) < MaxFrames

GenericFail(error) ==
  /\ failing' = error
  /\ UNCHANGED <<registry, flag, genericStack, genericActive, module>>

GenericInit ==
  /\ methods = <<>> /\ nextIndex = 1 /\ order = <<>>
  /\ flag \in BOOLEAN
  /\ genericStack = <<>> /\ genericActive = <<>>
  /\ module \in Modules
  /\ failing = "no"

-----------------------------------------------------------------------------
(* What expressions do besides calling. *)

\* active_definition_error
Modifiable == "generic" \notin Range(genericActive)

\* A defmethod that is built or loaded: add_method.
AddMethod(m, index) ==
  LET i == IF index = 0 THEN nextIndex ELSE index
      d == [index |-> i, slots |-> m.slots, wild |-> m.wild]
      below == {k \in DOMAIN methods : methods[k].index < i}
      p == Cardinality(below) + 1
      ms == InsertAt(methods, p, d)
  IN /\ GenericRunning /\ Modifiable
     /\ Len(methods) < MaxMethods
     /\ \A k \in DOMAIN methods : methods[k].index # i
     /\ methods' = ms
     /\ nextIndex' = IF i >= nextIndex THEN i + 1 ELSE nextIndex
     /\ order' = OrderAfter(ms, p)
     /\ UNCHANGED <<flag, genericStack, genericActive, module, failing>>

\* A side effect that queries see. What next-methodp said may no longer hold.
ChangeState ==
  /\ GenericRunning
  /\ flag' = ~flag
  /\ genericStack' = [i \in DOMAIN genericStack |->
                 IF genericStack[i].kind = "body" THEN [genericStack[i] EXCEPT !.promise = FALSE]
                 ELSE genericStack[i]]
  /\ UNCHANGED <<registry, genericActive, module, failing>>

\* reset, or a defmodule that is built.
MoveModule(m) ==
  /\ GenericRunning
  /\ module' = m
  /\ UNCHANGED <<registry, flag, genericStack, genericActive, failing>>

-----------------------------------------------------------------------------
(* Calls *)

AtLimit == CallDepth >= MaxCallDepth

\* dispatch_user_function: listed and checked before its arguments.
CallFunction ==
  /\ GenericRunning /\ Room
  /\ \/ /\ AtLimit
        /\ GenericFail("recursion limit")
     \/ /\ ~AtLimit
        /\ genericActive' = Append(genericActive, "function")
        /\ genericStack' = Append(genericStack, Pending("function", None, TRUE))
        /\ UNCHANGED <<registry, flag, module, failing>>

\* dispatch_generic: the arguments come first.
CallGeneric ==
  /\ GenericRunning /\ Room
  /\ genericStack' = Append(genericStack, Pending("generic", None, FALSE))
  /\ UNCHANGED <<registry, flag, genericActive, module, failing>>

\* dispatch_specific_method: the method is found by its index, then listed.
CallSpecific(index) ==
  LET at == {i \in DOMAIN order : methods[order[i]].index = index}
  IN /\ GenericRunning /\ Room
     /\ \/ /\ at = {}
           /\ GenericFail("no method")
        \/ /\ at # {}
           /\ genericActive' = Append(genericActive, "generic")
           /\ genericStack' = Append(genericStack, Pending("specific",
                         Chain(ByPrecedence, CHOOSE i \in at : TRUE), TRUE))
           /\ UNCHANGED <<registry, flag, module, failing>>

\* Where a search for the next method begins.
NextStart(chain) == chain.at + 1

\* next-methodp
NextMethodp ==
  /\ GenericRunning /\ CallerChain # None
  /\ \E c \in {CallerChain} :
       Select(c.candidates, genericStack[Caller].args, NextStart(c)) # 0
  /\ genericStack' = [genericStack EXCEPT ![Caller].promise = TRUE]
  /\ UNCHANGED <<registry, flag, genericActive, module, failing>>

\* A method's body is entered: execute_callable_body.
EnterMethod(below, callee, candidates, at, args, listed) ==
  LET m == candidates[at]
  IN genericStack' = Append(below, Body(callee, Chain(candidates, at), args,
                                 Bind(Fixed(m), m.wild, args), listed))

\* dispatch_call_next_method
CallNextMethod ==
  LET c == CallerChain
      args == genericStack[Caller].args
      at == Select(c.candidates, args, NextStart(c))
  IN /\ GenericRunning /\ Room
     /\ \/ /\ c = None
           /\ GenericFail("outside a method")
        \/ /\ c # None /\ AtLimit
           /\ GenericFail("recursion limit")
        \/ /\ c # None /\ ~AtLimit /\ at = 0
           /\ GenericFail("no next method")
        \/ /\ c # None /\ ~AtLimit /\ at # 0
           /\ EnterMethod(genericStack, "next", c.candidates, at, args, FALSE)
           /\ UNCHANGED <<registry, flag, genericActive, module, failing>>

\* override-next-method: the caller's chain with arguments of its own.
OverrideNextMethod ==
  /\ GenericRunning /\ Room
  /\ \/ /\ CallerChain = None
        /\ GenericFail("outside a method")
     \/ /\ CallerChain # None
        /\ genericStack' = Append(genericStack, Pending("override", CallerChain, FALSE))
        /\ UNCHANGED <<registry, flag, genericActive, module, failing>>

\* The arguments of a deffunction have their values.
FunctionReady(args) ==
  /\ GenericRunning /\ genericStack # <<>> /\ GenericTop.kind = "args" /\ GenericTop.callee = "function"
  /\ \/ /\ Len(args) # FunctionArity
        /\ GenericFail("arity")
     \/ /\ Len(args) = FunctionArity
        /\ genericStack' = Append(Front(genericStack), Body("function", None, args,
                                            Bind(FunctionArity, FALSE, args), TRUE))
        /\ UNCHANGED <<registry, flag, genericActive, module, failing>>

\* The arguments of a generic have their values. A first call looks at the
\* limit before it runs queries, the others after they found a method.
MethodReady(args) ==
  LET cs == IF GenericTop.callee = "generic" THEN ByPrecedence ELSE GenericTop.chain.candidates
      at == CASE GenericTop.callee = "generic" -> Select(cs, args, 1)
              [] GenericTop.callee = "override" -> Select(cs, args, NextStart(GenericTop.chain))
              [] GenericTop.callee = "specific" ->
                   IF MayApply(cs[GenericTop.chain.at], args) /\ Applies(cs[GenericTop.chain.at], args)
                   THEN GenericTop.chain.at ELSE 0
      limited == AtLimit /\ IF GenericTop.callee = "generic"
                            THEN \E i \in DOMAIN cs : MayApply(cs[i], args)
                            ELSE at # 0
  IN /\ GenericRunning /\ genericStack # <<>> /\ GenericTop.kind = "args" /\ GenericTop.callee # "function"
     /\ \/ /\ limited
           /\ GenericFail("recursion limit")
        \/ /\ ~limited /\ at = 0
           /\ GenericFail("no method")
        \/ /\ ~limited /\ at # 0
           /\ EnterMethod(Front(genericStack), GenericTop.callee, cs, at, args,
                          GenericTop.callee # "override")
           /\ genericActive' = IF GenericTop.callee = "generic" THEN Append(genericActive, "generic")
                        ELSE genericActive
           /\ UNCHANGED <<registry, flag, module, failing>>

\* The body has its value, or a return signal.
GenericReturn ==
  /\ GenericRunning /\ genericStack # <<>> /\ GenericTop.kind = "body"
  /\ module' = GenericTop.entered
  /\ genericActive' = IF GenericTop.listed THEN Front(genericActive) ELSE genericActive
  /\ genericStack' = Front(genericStack)
  /\ UNCHANGED <<registry, flag, failing>>

\* An expression fails, or a break leaves a body.
GenericRaise ==
  /\ GenericRunning /\ genericStack # <<>>
  /\ GenericFail("error")

ActiveAfter(f) == IF f.listed THEN Front(genericActive) ELSE genericActive

ModuleAfter(f) == IF f.kind = "body" THEN f.entered ELSE module

\* The error passes the innermost call.
Unwind ==
  /\ failing # "no" /\ genericStack # <<>>
  /\ module' = ModuleAfter(GenericTop)
  /\ genericActive' = ActiveAfter(GenericTop)
  /\ genericStack' = Front(genericStack)
  /\ UNCHANGED <<registry, flag, failing>>

\* The root reports it.
Report ==
  /\ failing # "no" /\ genericStack = <<>>
  /\ failing' = "no"
  /\ UNCHANGED <<registry, flag, genericStack, genericActive, module>>

GenericNext ==
  \/ \E m \in Methods, i \in Indexes : AddMethod(m, i)
  \/ ChangeState
  \/ \E m \in Modules : MoveModule(m)
  \/ CallFunction \/ CallGeneric
  \/ \E i \in (Indexes \cup {1, 2, 3}) \ {0} : CallSpecific(i)
  \/ NextMethodp \/ CallNextMethod \/ OverrideNextMethod
  \/ \E args \in ArgLists : FunctionReady(args) \/ MethodReady(args)
  \/ GenericReturn \/ GenericRaise \/ Unwind \/ Report

GenericSpec == GenericInit /\ [][GenericNext]_genericVars

-----------------------------------------------------------------------------
(* Properties *)

\* The stored order is the one a rebuild would give, whichever indices the
\* definitions carried (debug_assert_consistency of the registry).
OrderFresh == order = PrecedenceOrder(methods)

\* The value types a list of types admits.
Leaves(ts) ==
  IF ts = <<>> THEN {"INTEGER", "FLOAT", "SYMBOL", "STRING", "MULTIFIELD"}
  ELSE UNION {CASE t = "NUMBER" -> {"INTEGER", "FLOAT"}
                [] t = "LEXEME" -> {"SYMBOL", "STRING"}
                [] OTHER -> {t} : t \in Range(ts)}

\* Method a accepts fewer arguments than b.
Narrower(a, b) ==
  /\ Len(a.slots) = Len(b.slots) /\ a.slots # b.slots
  /\ \A i \in DOMAIN a.slots :
       /\ Leaves(a.slots[i].types) \subseteq Leaves(b.slots[i].types)
       /\ b.slots[i].query => a.slots[i].query

\* Without wildcards and with one type per parameter at most, a method that
\* accepts fewer arguments comes before one that accepts more, in whatever
\* order they were defined. (With them the relation is not transitive and the
\* order depends on the order of definition.)
SpecificFirst ==
  (\A i \in DOMAIN methods :
     ~methods[i].wild /\ \A s \in Range(methods[i].slots) : Len(s.types) <= 1) =>
    \A i, j \in DOMAIN order :
      i < j => ~Narrower(methods[order[j]], methods[order[i]])

Fits(m, args) == ArityMatches(m, args) /\ TypesMatch(m, args)
                 /\ \A i \in DOMAIN args : SlotOf(m, i).query => flag

\* The method a call enters fits its arguments, and no method before it in the
\* order that the call could have taken does.
FirstFit ==
  Len(genericStack') > 0 /\ genericStack'[Len(genericStack')].kind = "body"
    /\ Cardinality({i \in DOMAIN genericStack' : genericStack'[i].kind = "body"}) = CallDepth + 1
    /\ genericStack'[Len(genericStack')].chain # None =>
  LET f == genericStack'[Len(genericStack')]
      from == CASE f.callee = "generic" -> 1
                [] f.callee = "specific" -> f.chain.at
                [] OTHER -> CallerChain.at + 1
  IN /\ Fits(f.chain.candidates[f.chain.at], f.args)
     /\ \A i \in from..(f.chain.at - 1) : ~Fits(f.chain.candidates[i], f.args)

\* A chain of next methods never comes back to a method: positions ascend
\* from the caller to the method it calls next.
ChainAscends ==
  \A i \in Bodies :
    genericStack[i].callee \in {"next", "override"} =>
      \E j \in Bodies :
        /\ j < i /\ \A k \in Bodies : k < i => k <= j
        /\ genericStack[j].chain # None /\ genericStack[j].chain.at < genericStack[i].chain.at

\* A method found through next-methodp is there when call-next-method asks,
\* unless a side effect changed what the queries read.
PromiseKept ==
  failing = "no" /\ failing' = "no next method" => ~genericStack[Caller].promise

\* While a method runs, its chain is the generic's: a definition cannot change
\* under the calls that walk it.
ChainCurrent ==
  \A i \in Bodies : genericStack[i].chain # None => genericStack[i].chain.candidates = ByPrecedence

\* However calls end, the callables listed as executing are the ones under
\* way, so that definitions are not refused for good.
ActiveExact ==
  genericActive = [i \in 1..Cardinality({k \in DOMAIN genericStack : genericStack[k].listed}) |->
              LET listed == {k \in DOMAIN genericStack : genericStack[k].listed}
                  k == CHOOSE x \in listed :
                         Cardinality({y \in listed : y <= x}) = i
              IN IF genericStack[k].callee = "function" THEN "function" ELSE "generic"]

\* A call gives its caller's module back, also when it ends by an error.
ModuleRestored ==
  Len(genericStack') < Len(genericStack) /\ GenericTop.kind = "body" => module' = GenericTop.entered

\* No argument is lost or duplicated when parameters are bound, and none stays
\* nested in the wildcard.
BindingsExact ==
  \A i \in Bodies :
    /\ Spliced(genericStack[i].bound) = Spliced(genericStack[i].args)
    /\ \A v \in Range(genericStack[i].bound) : v.type = "MULTIFIELD" =>
         \A f \in Range(v.fields) : f.type # "MULTIFIELD"

\* Recursion through any mixture of calls stays within the limit.
DepthBounded == CallDepth <= MaxCallDepth
=============================================================================
