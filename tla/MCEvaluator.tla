---------------------------- MODULE MCEvaluator ----------------------------
(***************************************************************************)
(* The evaluator for TLC: control signals, generic dispatch, arithmetic,      *)
(* multifields, the evaluation of slots, the lookup of names over modules,    *)
(* and the identity of templates.                                             *)
(* The components share no state: a behaviour takes one of them, named by     *)
(* part, and the variables of the others stay 0.                              *)
(***************************************************************************)
EXTENDS ControlFlow, GenericDispatch, Arithmetic, Multifields, SlotEvaluation,
        NameLookup, TemplateIdentity

CONSTANT Parts      \* the components of a run

VARIABLE part

-----------------------------------------------------------------------------
(* ControlFlow. Short programs of every form that run twice; longer ones, of  *)
(* the forms that open scopes, that run once.                                 *)

Short == stack' # <<>> => fuel' >= 2
ScopesOnly ==
  /\ roots' >= 1
  /\ \A i \in DOMAIN stack' :
       /\ stack'[i].k \in {"firing", "call", "count", "progn$", "query", "operand"}
                            \cup (IF i = 1 THEN {"root"} ELSE {})
       /\ stack'[i].k \in Loops => stack'[i].n = 2 /\ stack'[i].mode = "all"

-----------------------------------------------------------------------------
(* GenericDispatch. *)

Slot(types, query) == [types |-> types, query |-> query]

CalledMethods ==
  {[slots |-> <<Slot(<<"INTEGER">>, FALSE)>>, wild |-> FALSE],
   [slots |-> <<Slot(<<"NUMBER">>, TRUE)>>, wild |-> FALSE],
   [slots |-> <<Slot(<<>>, FALSE), Slot(<<"LEXEME", "MULTIFIELD">>, FALSE)>>, wild |-> TRUE]}

\* For the order alone: several parameters, lists of types, wildcards.
MCMethods ==
  CalledMethods \cup
  {[slots |-> <<Slot(<<"NUMBER">>, FALSE)>>, wild |-> FALSE],
   [slots |-> <<Slot(<<"INTEGER">>, FALSE), Slot(<<"LEXEME">>, FALSE)>>, wild |-> FALSE],
   [slots |-> <<Slot(<<"NUMBER">>, FALSE), Slot(<<"SYMBOL">>, FALSE)>>, wild |-> FALSE],
   [slots |-> <<Slot(<<"SYMBOL", "INTEGER">>, FALSE)>>, wild |-> FALSE],
   [slots |-> <<Slot(<<"INTEGER">>, FALSE), Slot(<<>>, TRUE)>>, wild |-> TRUE],
   [slots |-> <<Slot(<<>>, FALSE)>>, wild |-> FALSE]}

IntArg == [type |-> "INTEGER", fields |-> <<>>]
SymArg == [type |-> "SYMBOL", fields |-> <<>>]
MultiArg == [type |-> "MULTIFIELD", fields |-> <<SymArg, IntArg>>]
MCArgLists == {<<IntArg>>, <<IntArg, MultiArg>>, <<SymArg>>}

\* Three methods that nobody calls; calls over two different ones with automatic
\* indices, a wildcard last.
Uncalled == genericStack' = <<>> /\ UNCHANGED <<flag, failing>>
Called ==
  /\ Len(methods') <= 2
  /\ \A i \in DOMAIN methods' :
       [slots |-> methods'[i].slots, wild |-> methods'[i].wild] \in CalledMethods
  /\ Len(methods') > Len(methods) => nextIndex' = nextIndex + 1
  /\ Len(methods') = 2 => methods'[1].slots # methods'[2].slots
  /\ methods' # <<>> => ~methods'[1].wild

-----------------------------------------------------------------------------
(* Arithmetic, Multifields and SlotEvaluation. *)

\* The ends of the integers, neighbours that round to one float, small ones;
\* halves around the domains' ends, an infinity, NaN, both zeros; symbols.
MCValues ==
  {Int_(i) : i \in {MinInt, -1, 0, 8, 9}}
  \cup {Flt(h) : h \in {-3, 0, 1, 16, Inf}}
  \cup {NaN, NegZero, Bool(FALSE), Bool(TRUE)}

MCIndices == (-2)..6

\* Greater, less, equal, always, never, and a relation that is no order.
MCPredicates ==
  {{<<x, y>> \in Fields \X Fields : x > y},
   {<<x, y>> \in Fields \X Fields : x < y},
   {<<x, y>> \in Fields \X Fields : x = y},
   Fields \X Fields, {}, {<<1, 2>>, <<2, 1>>}}

Given(s, n) == [at |-> s, n |-> n]
HostGiven(s, v) == [at |-> s, value |-> v]

\* Slots given in and out of order, twice, unknown, and with too few expressions.
MCRequests == {<<>>, <<Given(1, 1)>>, <<Given(2, 1), Given(1, 1)>>, <<Given(1, 1), Given(1, 1)>>,
               <<Given(3, 1)>>, <<Given(1, 0)>>}

MCHostRequests ==
  {<<>>, <<HostGiven(1, One("x"))>>, <<HostGiven(2, One("x"))>>,
   <<HostGiven(2, Many(<<"x", "y">>)), HostGiven(1, One("x"))>>, <<HostGiven(1, One("bad"))>>,
   <<HostGiven(1, Many(<<"x">>))>>, <<HostGiven(2, Void)>>,
   <<HostGiven(1, One("x")), HostGiven(1, One("x"))>>}

StaticDefault(v) == [dynamic |-> FALSE, n |-> 0, value |-> v]
DynamicDefault(n) == [dynamic |-> TRUE, n |-> n, value |-> Void]
MCDefaults == {<<DynamicDefault(1), StaticDefault(Void)>>, <<DynamicDefault(1), StaticDefault(Many(<<"x">>))>>,
               <<StaticDefault(One("x")), DynamicDefault(1)>>}

-----------------------------------------------------------------------------
(* NameLookup and TemplateIdentity. *)

View(f, g, v) == [k \in {"deffunction", "defgeneric", "defglobal"} |->
                    IF k = "deffunction" THEN f ELSE IF k = "defgeneric" THEN g ELSE v]
Everything == {<<a, b>> : a \in NameModules, b \in NameModules}

\* Nothing is visible; 2 sees the two others; a chain; everything.
MCVisibilities ==
  {View({}, {}, {}), View({<<2, 1>>, <<2, 3>>}, {<<2, 3>>}, {<<2, 1>>, <<2, 3>>}),
   View({<<1, 2>>}, {<<1, 2>>, <<2, 3>>}, {<<1, 2>>, <<1, 3>>, <<3, 1>>}),
   View(Everything, Everything, Everything)}

\* Functions and generics in any modules, not both in one.
MCCallables == {c \in (SUBSET NameModules) \X (SUBSET NameModules) : c[1] \cap c[2] = {}}
MCGlobals == {{}, {1}, {3}, {1, 3}}

\* Calls with one redefinition and no global; globals with two fixed functions.
CallsStart == \A m \in NameModules : globals[m] = 0
CallsOnly == Cardinality({m \in NameModules : functions'[m] = 2 \/ generics'[m] = 2}) <= 1
GlobalsStart == \A m \in NameModules : generics[m] = 0 /\ functions[m] = IF m = 1 THEN 0 ELSE 1
GlobalsOnly == UNCHANGED <<functions, generics>>

\* A sees the templates of the two others. B's come after MAIN's and nothing of
\* B names one; four evaluations in one another only below a registration, three
\* once there are two templates.
MCTemplatesSeen == {<<"A", "MAIN">>, <<"A", "B">>}
Users == constructs' \cup {f \in Range(frames') : f.role \in {"rule", "call", "eval"}}
           \cup UNION {f.queue : f \in {f \in Range(frames') : f.role = "load"}}
Nested ==
  /\ \A c \in Users : c.module # "B"
  /\ \A f \in Range(frames') : f.role = "register" /\ f.module = "B" => Len(templates) > 0
  /\ LET deepest == IF Len(templates') = 2 THEN 3 ELSE 4
     IN /\ Len(frames') <= deepest
        /\ Len(frames') = deepest => \E f \in Range(frames') : f.role = "register"

\* Three modules, one type of construct with one name and a second type that is
\* only ever exported as a decoy.
MCExports == {{}, {Some("deffunction", {"f"})},
              {Some("deffunction", {"f", "?NONE"}), Some("defgeneric", {"?ALL"})}}
From(m, s) == [module |-> m, spec |-> s]
MCImports == {{},
              {From("A", Some("deffunction", {"f"})), From("MAIN", RegistryNothing)},
              {From("B", All), From("MAIN", Some("deffunction", {"?ALL"}))}}

-----------------------------------------------------------------------------
(* One component at a time. *)

NoControl ==
  /\ stack = 0 /\ locals = 0 /\ rhs = 0 /\ compact = 0 /\ sig = 0 /\ targets = 0
  /\ active = 0 /\ remaining = 0 /\ iters = 0 /\ raised = 0 /\ fuel = 0 /\ roots = 0

NoGeneric ==
  /\ methods = 0 /\ nextIndex = 0 /\ order = 0 /\ flag = 0 /\ genericStack = 0
  /\ genericActive = 0 /\ module = 0 /\ failing = 0

NoArith == call = 0 /\ seen = 0 /\ held = 0 /\ result = 0

NoMulti == multiCall = 0 /\ work = 0 /\ multiResult = 0

NoSlots ==
  /\ evalStack = 0 /\ evalResult = 0 /\ defaults = 0 /\ evalActive = 0 /\ evalHeld = 0
  /\ floor = 0 /\ evalBudget = 0 /\ cleared = 0 /\ last = 0 /\ facts = 0 /\ used = 0
  /\ stray = 0 /\ ran = 0

NoNames ==
  /\ nameSeen = 0 /\ functions = 0 /\ generics = 0 /\ globals = 0 /\ current = 0
  /\ nameStack = 0 /\ funcall = 0 /\ called = 0 /\ placed = 0

NoRegistry == modules = 0 /\ nameToId = 0 /\ registryCurrent = 0 /\ focus = 0

NoTemplates ==
  /\ templates = 0 /\ spellings = 0 /\ templateFacts = 0 /\ constructs = 0 /\ frames = 0

vars == <<part, controlVars, genericVars, arithVars, multiVars, evalVars, nameVars,
          registryVars, templateVars>>

Init ==
  /\ part \in Parts
  /\ IF part \in {"control", "scoping"} THEN ControlInit ELSE NoControl
  /\ IF part \in {"methods", "dispatch"} THEN GenericInit ELSE NoGeneric
  /\ IF part = "arithmetic" THEN ArithInit ELSE NoArith
  /\ IF part = "multifields" THEN MultiInit ELSE NoMulti
  /\ IF part = "slots" THEN EvalInit ELSE NoSlots
  /\ CASE part = "calls" -> NameInit /\ CallsStart
       [] part = "globals" -> NameInit /\ GlobalsStart
       [] OTHER -> NoNames
  /\ IF part = "modules" THEN RegistryInit ELSE NoRegistry
  /\ IF part = "templates" THEN TemplateInit ELSE NoTemplates

Next ==
  /\ UNCHANGED part
  /\ \/ /\ \/ part = "control" /\ ControlNext /\ Short
           \/ part = "scoping" /\ ControlNext /\ ScopesOnly
        /\ UNCHANGED <<genericVars, arithVars, multiVars, evalVars, nameVars, registryVars, templateVars>>
     \/ /\ \/ part = "methods" /\ GenericNext /\ Uncalled
           \/ part = "dispatch" /\ GenericNext /\ Called
        /\ UNCHANGED <<controlVars, arithVars, multiVars, evalVars, nameVars, registryVars, templateVars>>
     \/ part = "arithmetic" /\ ArithNext
        /\ UNCHANGED <<controlVars, genericVars, multiVars, evalVars, nameVars, registryVars, templateVars>>
     \/ part = "multifields" /\ MultiNext
        /\ UNCHANGED <<controlVars, genericVars, arithVars, evalVars, nameVars, registryVars, templateVars>>
     \/ part = "slots" /\ EvalNext
        /\ UNCHANGED <<controlVars, genericVars, arithVars, multiVars, nameVars, registryVars, templateVars>>
     \/ /\ \/ part = "calls" /\ NameNext /\ CallsOnly
           \/ part = "globals" /\ NameNext /\ GlobalsOnly
        /\ UNCHANGED <<controlVars, genericVars, arithVars, multiVars, evalVars, registryVars, templateVars>>
     \/ part = "modules" /\ RegistryNext
        /\ UNCHANGED <<controlVars, genericVars, arithVars, multiVars, evalVars, nameVars, templateVars>>
     \/ part = "templates" /\ TemplateNext /\ Nested
        /\ UNCHANGED <<controlVars, genericVars, arithVars, multiVars, evalVars, nameVars, registryVars>>

Spec == Init /\ [][Next]_vars

-----------------------------------------------------------------------------
(* Properties. *)

\* A control signal ends exactly the form it is meant for, what the loader let
\* pass is never refused, loops share one budget, and a scope that ends, however
\* it ends, leaves the variables and targets of the scope around it. Methods are
\* kept in the order of their precedence; a call runs the first that applies and
\* the next ones in that order, in the module of each, with what next-methodp
\* promised, and nobody changes the generic meanwhile.
ExecutionExact ==
  /\ [](part \in {"control", "scoping"} =>
          LoopBudget /\ TargetsRetained /\ ReadsLexical /\ CompactFollowsQuery)
  /\ [](part \in {"methods", "dispatch"} => OrderFresh /\ SpecificFirst)
  /\ [](part = "dispatch" =>
          ChainAscends /\ ChainCurrent /\ ActiveExact /\ BindingsExact /\ DepthBounded)
  /\ [][/\ part \in {"control", "scoping"} =>
             SignalsLand /\ SourceControlAccepted /\ IterationVariableFixed
        /\ part = "dispatch" => FirstFit /\ PromiseKept /\ ModuleRestored]_vars

\* Numbers and multifields: overflow, rounding, the ends of the domains, slices
\* and edits at and beyond the ends, sorting by any relation; and the slots of a
\* fact evaluated to what their types allow, with budgets and locals restored.
ValuesExact ==
  /\ part = "arithmetic" =>
       /\ IntegerLaws /\ PanicOnlyAtMinimum /\ ChainLazy /\ ExtremumUnbeaten
       /\ DomainGuarded /\ RoundingSides
  /\ part = "multifields" =>
       /\ SlicesExact /\ InsertKeepsFields /\ MemberFirst /\ DeletionComplete /\ SortExact
  /\ part = "slots" =>
       /\ FactsExact /\ HeldExact /\ BudgetShared /\ ReturnsStay /\ HostRefusesFirst
       /\ EvalDepthBounded /\ ClearSafe

\* A name finds the construct that its module sees, and no other, although
\* callables and modules are defined while bodies run; the registry that says
\* who sees what is consistent; and facts keep the template they were made of,
\* names and compiled patterns what they meant when they were loaded. Two cases
\* are excepted: a visible generic that a function of a module out of sight hides
\* (HiddenByStranger, which the run generics_found refutes the comment with), and
\* a name whose module sees a new template of that name (Shadowed).
NamesExact ==
  /\ part = "calls" => CallsSound /\ CallsComplete /\ CallsCurrent /\ BodiesLeaveModule
  /\ part = "globals" => ReadsFindBinds /\ HostReadsAgree
  /\ part = "modules" => RegistryConsistent /\ VisibleExact /\ OwnerExports
  /\ part = "templates" => FactsFit /\ RelationOrTemplate /\ MeaningStable
=============================================================================
