----------------------------- MODULE NameLookup -----------------------------
(***************************************************************************)
(* What the names of globals and callables mean while expressions run.     *)
(* Each module sees the constructs of some others.  A name is looked up    *)
(* from the module of the context that uses it, but not every use starts   *)
(* from the same module: calls from the context's own, funcall and reads   *)
(* of globals in a root expression from the engine's current module, which *)
(* the expression may move, and a dynamic default reads globals where the  *)
(* fact is asserted.  Definitions may be built between any two steps.      *)
(***************************************************************************)
EXTENDS Integers, Sequences, FiniteSets, Relation

CONSTANTS
  NameModules,   \* modules, numbers from 1; 1 is MAIN
  Visibilities,  \* what is visible, by kind of construct: sets of <<from, owner>>
  Callables,     \* modules that define f before, as <<functions, generics>>
  Globals,       \* modules that define g
  MaxVersion,    \* bound on redefinitions of a callable
  NameMaxFrames  \* bound on nested evaluations

ASSUME NameLookupAssumption == 1 \in NameModules /\ NameModules \subseteq Nat \ {0}

VARIABLES nameSeen,   \* what is visible
          functions,  \* version of deffunction f in each module; 0 if there is none
          generics,   \* version of defgeneric f in each module; 0 if there is none
          globals,    \* value of defglobal g in each module; 0 if there is none
          current,    \* the current module of the engine
          nameStack,  \* contexts of the evaluations under way
          funcall,    \* what a funcall found first, while its operands run
          called,     \* the callable the last step entered, and how
          placed      \* module the root expression itself selected last
nameVars == <<nameSeen, functions, generics, globals, current, nameStack, funcall, called, placed>>

No == [kind |-> "no", at |-> 0]
Unknown == [kind |-> "unknown", at |-> 0]
NotVisible == [kind |-> "notvisible", at |-> 0]
Ambiguous == [kind |-> "ambiguous", at |-> 0]
Found(kind, m) == [kind |-> kind, at |-> m]
Ok(r) == r.kind \in {"deffunction", "defgeneric", "defglobal"}

NameTop == nameStack[Len(nameStack)]
NameRunning == nameStack # <<>>
SetOf(f) == {m \in NameModules : f[m] # 0}
IsVisible(from, owner, kind) == owner = from \/ <<from, owner>> \in nameSeen[kind]

-----------------------------------------------------------------------------
(* The modules lookups start from.                                         *)

\* A context of a root expression, not of a rule, a callable or a default.
is_root_context == NameTop.kind = "root"
dynamic_module == IF is_root_context THEN current ELSE NameTop.module
bind_module == NameTop.module
global_lookup_module == IF NameTop.global # 0 THEN NameTop.global ELSE dynamic_module

global_bind_module == IF NameTop.global # 0 THEN NameTop.global ELSE bind_module

visible_modules_for_construct(from, owners, kind) == {m \in owners : IsVisible(from, m, kind)}

resolve_visible_owner_module(from, owners, kind) ==
  LET visible == visible_modules_for_construct(from, owners, kind)
  IN CASE visible = {} -> NotVisible
       [] Cardinality(visible) = 1 -> Found(kind, CHOOSE m \in visible : TRUE)
       [] OTHER -> Ambiguous

\* A definition of the module itself wins; No if nobody defines the name.
resolve_unqualified_callable_module(from, owners, kind) ==
  IF owners = {} THEN No
  ELSE IF from \in owners THEN Found(kind, from)
  ELSE resolve_visible_owner_module(from, owners, kind)

-----------------------------------------------------------------------------
(* Callables.                                                              *)

\* A direct call that names no builtin: functions, then generics.
DirectCall ==
  LET f == resolve_unqualified_callable_module(NameTop.module, SetOf(functions), "deffunction")
      g == resolve_unqualified_callable_module(NameTop.module, SetOf(generics), "defgeneric")
  IN IF f # No THEN f ELSE IF g # No THEN g ELSE Unknown

\* MODULE::f.
dispatch_qualified_call(m) ==
  CASE functions[m] # 0 -> IF IsVisible(NameTop.module, m, "deffunction") THEN Found("deffunction", m) ELSE NotVisible
    [] functions[m] = 0 /\ generics[m] # 0 ->
         IF IsVisible(NameTop.module, m, "defgeneric") THEN Found("defgeneric", m) ELSE NotVisible
    [] OTHER -> Unknown

\* A name that is a value at run time.
resolve_named_callable(from) ==
  LET f == resolve_unqualified_callable_module(from, SetOf(functions), "deffunction")
      g == resolve_unqualified_callable_module(from, SetOf(generics), "defgeneric")
  IN IF f # No THEN f ELSE IF g # No THEN g ELSE Unknown

Version(r) == IF r.kind = "deffunction" THEN functions[r.at] ELSE IF r.kind = "defgeneric" THEN generics[r.at] ELSE 0

-----------------------------------------------------------------------------
(* Globals.                                                                *)

\* ?*g* as a read.
ReadGlobal ==
  IF globals[global_lookup_module] # 0 THEN Found("defglobal", global_lookup_module)
  ELSE IF SetOf(globals) = {} THEN Unknown
  ELSE resolve_visible_owner_module(global_lookup_module, SetOf(globals), "defglobal")

\* ?*MODULE::g* as a read.
resolve_qualified_global(m) ==
  IF globals[m] = 0 THEN Unknown
  ELSE IF ~IsVisible(global_lookup_module, m, "defglobal") THEN NotVisible
  ELSE Found("defglobal", m)

\* The target of bind, m being the module named or 0.
BindTarget(m) ==
  IF m # 0
  THEN IF globals[m] = 0 THEN Unknown
       ELSE IF ~IsVisible(global_bind_module, m, "defglobal") THEN NotVisible
       ELSE Found("defglobal", m)
  ELSE IF globals[global_bind_module] # 0 THEN Found("defglobal", global_bind_module)
  ELSE IF SetOf(globals) = {} THEN Unknown
  ELSE LET visible == visible_modules_for_construct(global_bind_module, SetOf(globals), "defglobal")
       IN CASE visible = {} -> NotVisible
            [] Cardinality(visible) = 1 -> Found("defglobal", CHOOSE o \in visible : TRUE)
            [] OTHER -> Ambiguous

\* The host's read of a global.
get_global ==
  LET visible == visible_modules_for_construct(current, SetOf(globals), "defglobal")
  IN CASE globals[current] # 0 -> Found("defglobal", current)
       [] globals[current] = 0 /\ Cardinality(visible) = 1 -> Found("defglobal", CHOOSE m \in visible : TRUE)
       [] OTHER -> No

-----------------------------------------------------------------------------
(* Steps of an evaluation.                                                 *)

Nothing == [how |-> "none", from |-> 0, target |-> No, version |-> 0]
NameFrame(kind, m, global) == [kind |-> kind, module |-> m, global |-> global, saved |-> current]
Defs == <<nameSeen, functions, generics, globals>>

\* A root expression runs in the module it was parsed in; a rule in its own.
StartRoot ==
  /\ ~NameRunning
  /\ nameStack' = <<NameFrame("root", current, 0)>> /\ placed' = current /\ called' = Nothing
  /\ UNCHANGED <<Defs, current, funcall>>
StartRule ==
  /\ ~NameRunning
  /\ \E m \in NameModules : nameStack' = <<NameFrame("rule", m, 0)>>
  /\ placed' = current /\ called' = Nothing
  /\ UNCHANGED <<Defs, current, funcall>>

NameReady == NameRunning /\ funcall = No

\* Entering the body of a callable.
NameEnter(how, from, target) ==
  /\ Len(nameStack) < NameMaxFrames
  /\ nameStack' = Append(nameStack, NameFrame("callable", target.at, 0))
  /\ called' = [how |-> how, from |-> from, target |-> target, version |-> Version(target)]
  /\ UNCHANGED <<Defs, current, placed>>

Call == NameReady /\ Ok(DirectCall) /\ NameEnter("call", NameTop.module, DirectCall) /\ UNCHANGED funcall
QualifiedCall ==
  /\ NameReady
  /\ \E m \in NameModules : /\ Ok(dispatch_qualified_call(m))
                            /\ NameEnter("qualified", NameTop.module, dispatch_qualified_call(m))
  /\ UNCHANGED funcall

\* Mutant: funcall calls what it found before its operands ran.
KeepsFirst(from) == funcall
SecondLookup(from) == resolve_named_callable(from)

\* funcall looks its target up, evaluates the operands, which may build, and
\* looks it up again.
FuncallBegin ==
  /\ NameReady /\ Ok(resolve_named_callable(dynamic_module))
  /\ funcall' = resolve_named_callable(dynamic_module)
  /\ called' = Nothing
  /\ UNCHANGED <<Defs, current, nameStack, placed>>
FuncallEnd ==
  /\ NameRunning /\ funcall # No
  /\ LET target == SecondLookup(dynamic_module)
     IN \/ Ok(target) /\ NameEnter("funcall", dynamic_module, target)
        \/ ~Ok(target) /\ called' = Nothing /\ UNCHANGED <<Defs, current, nameStack, placed>>
  /\ funcall' = No

SavedModule(fr) == fr.saved

\* The end of a callable, a default or the root.
NameReturn ==
  /\ NameReady
  /\ nameStack' = SubSeq(nameStack, 1, Len(nameStack) - 1)
  /\ current' = IF NameTop.kind = "callable" THEN SavedModule(NameTop) ELSE current
  /\ called' = Nothing
  /\ UNCHANGED <<Defs, funcall, placed>>

\* A dynamic default of a template of module m.
EvaluateDefault ==
  /\ NameReady /\ Len(nameStack) < NameMaxFrames
  /\ \E m \in NameModules : nameStack' = Append(nameStack, NameFrame("default", m, global_lookup_module))
  /\ called' = Nothing
  /\ UNCHANGED <<Defs, current, funcall, placed>>

NameSelect(m) ==
  /\ current' = m
  /\ placed' = IF \A i \in DOMAIN nameStack : nameStack[i].kind # "callable" THEN m ELSE placed
  /\ called' = Nothing

\* build of a deffunction, a defgeneric or a method for the generic.
BuildFunction ==
  /\ NameRunning
  /\ generics[dynamic_module] = 0 /\ functions[dynamic_module] < MaxVersion
  /\ functions' = [functions EXCEPT ![dynamic_module] = @ + 1]
  /\ NameSelect(dynamic_module)
  /\ UNCHANGED <<nameSeen, generics, globals, nameStack, funcall>>
BuildGeneric ==
  /\ NameRunning
  /\ functions[dynamic_module] = 0 /\ generics[dynamic_module] < MaxVersion
  /\ generics' = [generics EXCEPT ![dynamic_module] = @ + 1]
  /\ NameSelect(dynamic_module)
  /\ UNCHANGED <<nameSeen, functions, globals, nameStack, funcall>>

\* build of a defmodule selects it; reset selects MAIN.
BuildModule ==
  NameRunning /\ (\E m \in NameModules : NameSelect(m)) /\ UNCHANGED <<Defs, nameStack, funcall>>

\* bind of a global, to a value other than its first.
NameBind ==
  /\ NameReady
  /\ \E m \in NameModules \cup {0} :
       /\ Ok(BindTarget(m))
       /\ globals' = [globals EXCEPT ![BindTarget(m).at] = 2]
  /\ called' = Nothing
  /\ UNCHANGED <<nameSeen, functions, generics, current, nameStack, funcall, placed>>

NameInit ==
  /\ nameSeen \in Visibilities
  /\ \E c \in Callables : /\ functions = [m \in NameModules |-> IF m \in c[1] THEN 1 ELSE 0]
                         /\ generics = [m \in NameModules |-> IF m \in c[2] THEN 1 ELSE 0]
  /\ \E o \in Globals : globals = [m \in NameModules |-> IF m \in o THEN 1 ELSE 0]
  /\ current \in NameModules /\ placed = current
  /\ nameStack = <<>> /\ funcall = No /\ called = Nothing

NameNext ==
  \/ StartRoot \/ StartRule \/ Call \/ QualifiedCall \/ FuncallBegin \/ FuncallEnd \/ NameReturn
  \/ EvaluateDefault \/ BuildFunction \/ BuildGeneric \/ BuildModule \/ NameBind

NameSpec == NameInit /\ [][NameNext]_nameVars

-----------------------------------------------------------------------------
(* Properties.                                                             *)

\* What is called is visible from where the lookup started, and nothing else the
\* name could mean there has the same right: another owner is hidden by one of
\* the module itself or, for a generic, by none; no function is visible when a
\* generic is called by a plain name.
CallsSound ==
  called.how # "none" =>
    LET t == called.target
        rivals == {m \in SetOf(IF t.kind = "deffunction" THEN functions ELSE generics) :
                     IsVisible(called.from, m, t.kind)}
    IN /\ IsVisible(called.from, t.at, t.kind)
       /\ called.how = "qualified" \/ t.at = called.from \/ rivals = {t.at}
       /\ t.kind = "defgeneric" /\ called.how # "qualified" =>
            \A m \in SetOf(functions) : ~IsVisible(called.from, m, "deffunction")

\* The owners a name has a right to mean in a module: the module itself, or those
\* it sees.
Nearest(from, owners, kind) ==
  IF from \in owners THEN {from} ELSE {m \in owners : IsVisible(from, m, kind)}
NearFunctions(from) == Nearest(from, SetOf(functions), "deffunction")
NearGenerics(from) == Nearest(from, SetOf(generics), "defgeneric")

\* A function of a module that from does not see has the name: it hides the
\* generic of from itself and the ones from sees.
HiddenByStranger(from) == NearFunctions(from) = {} /\ SetOf(functions) # {}

\* What has a right to a name is found, by a plain call and by funcall, whatever
\* was built since: the one nearest function, and where no function has the name
\* the one nearest generic.  The exception is HiddenByStranger: the lookup ends
\* with "not visible" at the functions and never gets to the generics
\* (evaluator.rs:822 and 6623, against the comment at 6610).
CallsComplete ==
  NameRunning =>
    \A l \in {<<NameTop.module, DirectCall>>, <<dynamic_module, resolve_named_callable(dynamic_module)>>} :
      LET from == l[1]
          found == l[2]
      IN /\ Cardinality(NearFunctions(from)) = 1 =>
              found.kind = "deffunction" /\ found.at \in NearFunctions(from)
         /\ Cardinality(NearGenerics(from)) = 1 /\ NearFunctions(from) = {} =>
              IF HiddenByStranger(from) THEN found = NotVisible
              ELSE found.kind = "defgeneric" /\ found.at \in NearGenerics(from)

\* The comment of resolve_named_callable: visible functions first, then visible
\* generics (evaluator.rs:6610).  A module's one visible generic is found when
\* the module sees no function of the name.
GenericsFound ==
  NameRunning /\ NearFunctions(dynamic_module) = {} /\ Cardinality(NearGenerics(dynamic_module)) = 1 =>
    /\ resolve_named_callable(dynamic_module).kind = "defgeneric"
    /\ resolve_named_callable(dynamic_module).at \in NearGenerics(dynamic_module)

\* The callable that starts is the definition in force at that moment, also when
\* an operand of the funcall replaced it or defined a nearer one.
CallsCurrent ==
  called.how = "funcall" =>
    called.version = Version(called.target) /\ called.target = resolve_named_callable(called.from)

\* What bind sets, a read in the same context finds, in defaults and callables
\* too; only a root expression that moved the current module reads elsewhere.
ReadsFindBinds ==
  (NameRunning /\ (~is_root_context \/ current = NameTop.module)) =>
    /\ ReadGlobal = BindTarget(0)
    /\ \A m \in NameModules : resolve_qualified_global(m) = BindTarget(m)

\* The host reads the global that an expression of its own would read.
HostReadsAgree ==
  (NameRunning /\ is_root_context) => IF Ok(ReadGlobal) THEN get_global = ReadGlobal ELSE get_global = No

\* Builds and resets in the body of a callable do not move the module that the
\* rest of the root expression looks names up in.
BodiesLeaveModule ==
  (NameRunning /\ \A i \in DOMAIN nameStack : nameStack[i].kind # "callable") => current = placed

-----------------------------------------------------------------------------
(* The modules of an engine (modules.rs): which modules exist, what each     *)
(* exports and imports, which one new constructs belong to, and the stack    *)
(* of focused modules.  Visibility of a construct is a walk along imports    *)
(* that are matched by exports at every hop.                                 *)

CONSTANTS
    ModuleNames,   \* names of modules, "MAIN" among them
    Types,         \* kinds of constructs that can be exported
    Locals,        \* names of constructs
    Exports,       \* the export lists a defmodule may have: sets of specs
    Imports,       \* the import lists a defmodule may have
    MaxFocus       \* bound: length of the focus stack

ASSUME MainIsAName == "MAIN" \in ModuleNames

VARIABLES modules, nameToId, registryCurrent, focus

registryVars == <<modules, nameToId, registryCurrent, focus>>

\* A spec is everything, nothing, or names of one type; "?ALL" and "?NONE"
\* may stand among the names.
All == [kind |-> "all"]
RegistryNothing == [kind |-> "none"]
Some(t, ns) == [kind |-> "specific", type |-> t, names |-> ns]

SpecMatches(spec, t, n) ==
    \/ spec.kind = "all"
    \/ /\ spec.kind = "specific"
       /\ spec.type = t
       /\ \/ "?ALL" \in spec.names
          \/ "?NONE" \notin spec.names /\ n \in spec.names

ModuleExports(mods, m, t, n) == \E s \in mods[m].exports : SpecMatches(s, t, n)

\* One hop: m imports the construct from a module that exports it.
ImportsFrom(mods, ids, m, from, t, n) ==
    \E i \in mods[m].imports :
        /\ i.module \in DOMAIN ids
        /\ ids[i.module] = from
        /\ SpecMatches(i.spec, t, n)
        /\ ModuleExports(mods, from, t, n)

\* The depth-first walk with the set of pairs being visited, which stops it
\* on cyclic imports.
IsConstructVisible(mods, ids, from, owner, t, n) ==
    LET Walk[m \in DOMAIN mods, visiting \in SUBSET DOMAIN mods] ==
            \/ m = owner
            \/ /\ m \notin visiting
               /\ \E next \in DOMAIN mods :
                    /\ ImportsFrom(mods, ids, m, next, t, n)
                    /\ Walk[next, visiting \union {m}]
    IN Walk[from, {}]

ExportsType(m, t) ==
    \E s \in modules[m].exports :
        \/ s.kind = "all"
        \/ s.kind = "specific" /\ s.type = t /\ s.names # {"?NONE"}

ExportsAnything(m) == \E t \in Types : ExportsType(m, t)

\* What validate_imports asks of one import of a new definition.
ImportAvailable(i) ==
    /\ i.module \in DOMAIN nameToId
    /\ LET m == nameToId[i.module] IN
        /\ ExportsAnything(m)
        /\ i.spec.kind = "specific" =>
            \A n \in i.spec.names \ {"?NONE"} :
                IF n = "?ALL" THEN ExportsType(m, i.spec.type)
                              ELSE ModuleExports(modules, m, i.spec.type, n)

-----------------------------------------------------------------------------
RegistryInit ==
    /\ modules = [m \in {0} |-> [name |-> "MAIN", exports |-> {}, imports |-> {}]]
    /\ nameToId = [n \in {"MAIN"} |-> 0]
    /\ registryCurrent = 0
    /\ focus = <<0>>

RegistryBody(n, ex, im) == [name |-> n, exports |-> ex, imports |-> im]

\* register: an existing name keeps its id; set_current_module follows.
Register(n, ex, im) ==
    LET known == n \in DOMAIN nameToId
        id == IF known THEN nameToId[n] ELSE Cardinality(DOMAIN modules)
    IN  /\ modules' = [m \in DOMAIN modules \union {id} |->
                            IF m = id THEN RegistryBody(n, ex, im) ELSE modules[m]]
        /\ nameToId' = [k \in DOMAIN nameToId \union {n} |->
                            IF k = n THEN id ELSE nameToId[k]]
        /\ registryCurrent' = id

\* (defmodule n ...): rejected as a whole when an import is not available.
Defmodule(n, ex, im) ==
    /\ \A i \in im : ImportAvailable(i)
    /\ Register(n, ex, im)
    /\ UNCHANGED focus

PushFocus(m) ==
    /\ focus' = IF focus # << >> /\ focus[Len(focus)] = m THEN focus
                                                         ELSE Append(focus, m)
    /\ Len(focus') <= MaxFocus
    /\ UNCHANGED <<modules, nameToId, registryCurrent>>

SetFocus(m) ==
    /\ focus' = <<m>>
    /\ UNCHANGED <<modules, nameToId, registryCurrent>>

PopFocus ==
    /\ focus # << >>
    /\ focus' = SubSeq(focus, 1, Len(focus) - 1)
    /\ UNCHANGED <<modules, nameToId, registryCurrent>>

ResetFocus ==
    /\ focus' = <<0>>
    /\ registryCurrent' = 0
    /\ UNCHANGED <<modules, nameToId>>

RegistryNext ==
    \/ \E n \in ModuleNames, ex \in Exports, im \in Imports : Defmodule(n, ex, im)
    \/ \E m \in DOMAIN modules : PushFocus(m) \/ SetFocus(m)
    \/ PopFocus
    \/ ResetFocus

RegistrySpec == RegistryInit /\ [][RegistryNext]_registryVars

-----------------------------------------------------------------------------
(* What every engine and every snapshot relies on (validate_snapshot): ids   *)
(* are dense, names and ids are in bijection, and neither the current module *)
(* nor the focus names a module that does not exist.                         *)
RegistryConsistent ==
    /\ DOMAIN modules = 0 .. Cardinality(DOMAIN nameToId) - 1
    /\ \A m \in DOMAIN modules :
        modules[m].name \in DOMAIN nameToId /\ nameToId[modules[m].name] = m
    /\ nameToId["MAIN"] = 0
    /\ registryCurrent \in DOMAIN modules
    /\ \A i \in 1 .. Len(focus) : focus[i] \in DOMAIN modules

(* The walk of is_construct_visible terminates on cyclic imports and finds a *)
(* construct exactly when a chain of imports, each backed by an export of    *)
(* the module it names, leads from the reader to the owner.  Modules are     *)
(* redefined in any order, so imports go stale and cycles appear.            *)
VisibleExact ==
    \A t \in Types, n \in Locals :
        LET ids == DOMAIN modules
            hop == [p \in ids \X ids |->
                        ImportsFrom(modules, nameToId, p[1], p[2], t, n)]
            reach == ReflexiveTransitiveClosure(hop, ids)
        IN \A a, b \in ids :
            IsConstructVisible(modules, nameToId, a, b, t, n) <=> reach[a, b]

(* Nothing leaks: a construct is seen outside its module only if its owner   *)
(* exports it now.                                                           *)
OwnerExports ==
    \A t \in Types, n \in Locals, a, b \in DOMAIN modules :
        IsConstructVisible(modules, nameToId, a, b, t, n) =>
            a = b \/ ModuleExports(modules, b, t, n)
=============================================================================
