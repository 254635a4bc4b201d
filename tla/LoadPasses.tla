------------------------------ MODULE LoadPasses ------------------------------
(* The passes of Engine::load_str (loader.rs).  A source is read once: its   *)
(* constructs are declared one by one, then rules are compiled, then seed    *)
(* definitions are prepared, and top-level assertions run last, although     *)
(* each of them belongs to the module that is current where it is written.   *)
(* A form that fails is reported and skipped.  A field of an assertion may   *)
(* build a construct, which is a load within the load.                       *)
EXTENDS Naturals, Sequences, FiniteSets

CONSTANTS
    Sources,     \* what the host may load first: sequences of forms
    Reloads,     \* what it may load after that
    Snippets,    \* what a field of an assertion may build: one construct each
    MaxLoads     \* bound: loads, those of build included

VARIABLES
    loads,       \* the loads under way, innermost last
    current,     \* the registry's current module
    depth,       \* source_load_depth
    relations,   \* declared relations: name -> the module that declared it first
    layouts,     \* module -> its deftemplate "r": how it is spelled, its version
    bodies,      \* <<module, name>> -> the form of a deffunction
    rules,       \* <<module, name>> -> the form it was compiled from
    seeds,       \* registered_deffacts, in definition order
    globals,     \* <<module, name>> of the globals that exist
    asserted,    \* [form, module]: assertions that were evaluated
    errors,      \* forms reported as failed
    done,        \* forms that took effect
    history      \* load number -> its source and the state it began in

engine == <<relations, layouts, rules, seeds, bodies, globals>>
ghosts == <<asserted, errors, done, history>>
loadVars == <<loads, current, depth, engine, ghosts>>

(* A form: its kind, name, the module it spells ("" for none), what becomes  *)
(* of it ("ok", or the pass it fails in), what its evaluation does           *)
(* ("", "reset" or "build") and the relations it declares and queries, in    *)
(* source order.  Globals have several names; assertions several facts.  The *)
(* one relation "r" is ordered until a deftemplate makes it explicit.        *)
Constructs == {"module", "rule", "facts", "template", "callable", "global"}

Load == loads[Len(loads)]
LoadForm == Load.src[Load.at]
Id == <<Load.number, Load.at>>
AtEnd == Load.at > Len(Load.src)
In(phase) == loads # << >> /\ Load.phase = phase
Reading(kind) == In("constructs") /\ ~AtEnd /\ LoadForm.kind = kind
HasConstructs == \E i \in DOMAIN Load.src : Load.src[i].kind \in Constructs

Advanced == [Load EXCEPT !.at = @ + 1, !.built = FALSE]
Update(load) == loads' = [loads EXCEPT ![Len(loads)] = load]
Fail(id) == errors' = errors \union {id} /\ UNCHANGED done
Succeed(id) == done' = done \union {id} /\ UNCHANGED errors
Extend(f, k, v) == [x \in DOMAIN f \union {k} |-> IF x = k THEN v ELSE f[x]]
LoadFormOf(id) == history[id[1]].src[id[2]]
Owner == IF LoadForm.module = "" THEN current ELSE LoadForm.module

-----------------------------------------------------------------------------
(* Query order.                                                              *)

\* What "r" is in a module: its template, an ordered relation where there is no
\* template at all, or hidden by the template of another module, as no module
\* here exports any.
Explicit(m) == m \in DOMAIN layouts
Hidden(m) == layouts # << >> /\ ~Explicit(m)
RelationIs(m) == IF Explicit(m) THEN <<"template", layouts[m].version>>
              ELSE IF Hidden(m) THEN <<"hidden">> ELSE <<"ordered">>

\* declare_implicit_template: the first declaration owns a relation.
LoadDeclared(rels, ev, m) ==
    IF ev.is = "declare" /\ ev.rel \notin DOMAIN rels THEN Extend(rels, ev.rel, m) ELSE rels

\* query_reference: an explicit template of the module or, where there is none
\* anywhere, an implied one it declared.
LoadKnown(rels, ev, m) ==
    ev.is = "query" => \/ Explicit(m)
                       \/ layouts = << >> /\ ev.rel \in DOMAIN rels /\ rels[ev.rel] = m

\* apply_query_source_events: in source order, up to the first bad query;
\* what was declared before it stays declared.
ApplyEvents(evs, m) ==
    LET Upto[n \in 0 .. Len(evs)] ==
            IF n = 0 THEN [rels |-> relations, ok |-> TRUE]
            ELSE LET r == Upto[n - 1]
                 IN  IF r.ok /\ LoadKnown(r.rels, evs[n], m)
                     THEN [rels |-> LoadDeclared(r.rels, evs[n], m), ok |-> TRUE]
                     ELSE [r EXCEPT !.ok = FALSE]
    IN  Upto[Len(evs)]

-----------------------------------------------------------------------------
LoadInit ==
    /\ loads = << >>
    /\ current = "MAIN"
    /\ depth = 0
    /\ relations = << >> /\ layouts = << >> /\ bodies = << >>
    /\ rules = << >>
    /\ seeds = << >>
    /\ globals = {}
    /\ asserted = {} /\ errors = {} /\ done = {}
    /\ history = << >>

NewLoad(number, src, start) ==
    [number |-> number, src |-> src, at |-> 1, before |-> depth, saved |-> start,
     transitions |-> <<[at |-> 0, module |-> start]>>,
     rules |-> << >>, facts |-> << >>, invalid |-> {}, checked |-> FALSE, built |-> FALSE,
     phase |-> IF \E i \in DOMAIN src : src[i].kind \in Constructs THEN "constructs" ELSE "leave"]

\* load_str_at and the start of load_str_inner: forms that are not constructs
\* or assertions are reported (lists) or skipped with a warning (atoms).
Begin(src) ==
    /\ Len(history) < MaxLoads
    /\ LET number == Len(history) + 1
       IN  /\ loads' = Append(loads, NewLoad(number, src, current))
           /\ errors' = errors \union {<<number, i>> : i \in {i \in DOMAIN src : src[i].kind = "unknown"}}
    /\ history' = Append(history, [src |-> src, start |-> current, host |-> TRUE, known |-> relations])
    /\ depth' = depth + 1
    /\ UNCHANGED <<current, engine, asserted, done>>

LoadStr ==
    /\ loads = << >>
    /\ \E src \in IF history = << >> THEN Sources ELSE Reloads : Begin(src)

Skip ==
    /\ In("constructs") /\ ~AtEnd /\ LoadForm.kind \in {"unknown", "atom"}
    /\ Update(Advanced)
    /\ UNCHANGED <<current, depth, engine, ghosts>>

\* A top-level assertion is only checked here (declaration_asserts).
CheckAssert ==
    /\ Reading("assert")
    /\ \E r \in {ApplyEvents(LoadForm.events, current)} :
        /\ relations' = r.rels
        /\ Update([Advanced EXCEPT !.checked = TRUE,
                                   !.invalid = IF r.ok THEN @ ELSE @ \union {Load.at}])
        /\ errors' = IF r.ok THEN errors ELSE errors \union {Id}
    /\ UNCHANGED <<current, depth, layouts, bodies, rules, seeds, globals, asserted, done, history>>

Transitions == Append(Load.transitions, [at |-> Load.at, module |-> LoadForm.name])

Defmodule ==
    /\ Reading("module")
    /\ IF LoadForm.fails = "declare"
       THEN Fail(Id) /\ Update(Advanced) /\ UNCHANGED current
       ELSE /\ Succeed(Id)
            /\ Update([Advanced EXCEPT !.transitions = Transitions])
            /\ current' = LoadForm.name
    /\ UNCHANGED <<depth, engine, asserted, history>>

\* Rules and seed definitions wait, with the module that owns them and what
\* the relation is to it.
Waiter(m) == [at |-> Load.at, module |-> m, means |-> RelationIs(m)]

Defer(kind, field) ==
    /\ Reading(kind)
    /\ \E r \in {ApplyEvents(LoadForm.events, Owner)} :
        /\ IF LoadForm.fails = "declare" THEN UNCHANGED relations ELSE relations' = r.rels
        /\ IF LoadForm.fails = "declare" \/ ~r.ok
           THEN Update(Advanced) /\ Fail(Id)
           ELSE /\ Update([Advanced EXCEPT ![field] = Append(@, Waiter(Owner))])
                /\ UNCHANGED <<errors, done>>
    /\ UNCHANGED <<current, depth, layouts, bodies, rules, seeds, globals, asserted, history>>

DeferRule == Defer("rule", "rules")
DeferFacts == Defer("facts", "facts")

\* deffunction and defmethod: declared, validated and staged.
StageCallable ==
    /\ Reading("callable")
    /\ \E r \in {ApplyEvents(LoadForm.events, current)} :
        /\ relations' = r.rels
        /\ IF r.ok /\ LoadForm.fails # "declare"
           THEN Succeed(Id) /\ bodies' = Extend(bodies, <<current, LoadForm.name>>, Id)
           ELSE Fail(Id) /\ UNCHANGED bodies
    /\ Update(Advanced)
    /\ UNCHANGED <<current, depth, layouts, rules, seeds, globals, asserted, history>>

\* The names of a defglobal whose initial values are evaluated: up to the
\* first one that exists or is repeated, or to a value that fails, which is
\* not committed.
Initialised(f) ==
    {i \in DOMAIN f.names : \A j \in 1 .. i :
        /\ <<current, f.names[j]>> \notin globals
        /\ \A k \in 1 .. j - 1 : f.names[k] # f.names[j] /\ k # f.failsAt}
Committed(f) == Initialised(f) \ {f.failsAt}

\* build fails while the constructs of a source are being loaded.
BuildRefused == depth # 0

\* process_global_construct; a reset in an initial value selects MAIN.
DefGlobal ==
    /\ Reading("global")
    /\ LoadForm.does = "build" => BuildRefused \/ Load.built
    /\ LET ok == IF LoadForm.does = "build" /\ BuildRefused THEN {} ELSE Committed(LoadForm)
       IN  /\ globals' = globals \union {<<current, LoadForm.names[i]>> : i \in ok}
           /\ IF ok = DOMAIN LoadForm.names THEN Succeed(Id) ELSE Fail(Id)
    /\ current' = IF LoadForm.does = "reset" /\ Initialised(LoadForm) # {} THEN "MAIN" ELSE current
    /\ Update(Advanced)
    /\ UNCHANGED <<depth, relations, layouts, bodies, rules, seeds, asserted, history>>

\* Forms of this source that wait to be compiled or evaluated and use the
\* relation: those that may not be reinterpreted.
NamesRelation(f) == f.events # << >>
HeadIs(f) == \E n \in DOMAIN f.events : f.events[n].is = "declare"
Waiters == {Load.rules[i] : i \in DOMAIN Load.rules} \union {Load.facts[i] : i \in DOMAIN Load.facts}
PendingIn(m) ==
    \/ \E w \in Waiters : NamesRelation(Load.src[w.at]) /\ (w.module = m \/ ~Explicit(w.module))
    \/ \E i \in 1 .. Load.at - 1 : Load.src[i].kind = "assert" /\ HeadIs(Load.src[i])

\* What is loaded already and would be reinterpreted (TemplateIdentity has the
\* conditions of register_template in full): users of the template itself or,
\* when there is none in module m yet, of the ordered relation.
LoadUsers ==
    {k[1] : k \in {k \in DOMAIN rules : NamesRelation(LoadFormOf(rules[k]))}}
    \union {k[1] : k \in {k \in DOMAIN bodies : NamesRelation(LoadFormOf(bodies[k]))}}
    \union {seeds[i].module : i \in {i \in DOMAIN seeds : NamesRelation(LoadFormOf(seeds[i].form))}}
SameRelation(user, m) == IF Explicit(m) THEN user = m ELSE ~Explicit(user)
Respelled(m) == ~Explicit(m) /\ \E k \in DOMAIN layouts : layouts[k].spelled = LoadForm.module
FactOf(m) == \E a \in asserted : HeadIs(LoadFormOf(a.form)) /\ SameRelation(a.module, m)

\* deftemplate: queries of its defaults, then the forms that wait, then
\* register_template, whose defaults are evaluated at once; facts asserted
\* earlier may have been retracted since.
Deftemplate ==
    /\ Reading("template")
    /\ \E q \in {ApplyEvents(LoadForm.events, Owner)}, alive \in BOOLEAN :
        /\ alive => FactOf(Owner)
        /\ LET evaluated == /\ LoadForm.fails # "declare" /\ q.ok /\ ~PendingIn(Owner)
                            /\ ~\E user \in LoadUsers : SameRelation(user, Owner)
                            /\ ~alive /\ ~Respelled(Owner)
               version == IF Explicit(Owner) THEN layouts[Owner].version + 1 ELSE 1
               spelled == IF Explicit(Owner) THEN layouts[Owner].spelled ELSE LoadForm.module
           IN  /\ current' = IF evaluated /\ LoadForm.does = "reset" THEN "MAIN" ELSE current
               /\ IF evaluated /\ LoadForm.fails = ""
                  THEN /\ Succeed(Id)
                       /\ layouts' = Extend(layouts, Owner, [spelled |-> spelled, version |-> version])
                       /\ relations' = IF "r" \in DOMAIN q.rels THEN q.rels ELSE Extend(q.rels, "r", Owner)
                  ELSE /\ Fail(Id)
                       /\ relations' = IF LoadForm.fails = "declare" THEN relations ELSE q.rels
                       /\ UNCHANGED layouts
    /\ Update(Advanced)
    /\ UNCHANGED <<depth, bodies, rules, seeds, globals, asserted, history>>

EndConstructs ==
    /\ In("constructs") /\ AtEnd
    /\ Update([Load EXCEPT !.phase = "rules", !.at = 1, !.checked = TRUE, !.saved = current])
    /\ UNCHANGED <<current, depth, engine, ghosts>>

-----------------------------------------------------------------------------
(* The passes after the constructs.                                          *)

Waiting(field) == Load.at <= Len(Load[field])
Item(field) == Load[field][Load.at]
ItemForm(field) == Load.src[Item(field).at]

ModuleOf(field) == Item(field).module

\* compile_rule_construct prepares everything before it replaces the rule of
\* this name in the current module.
CompileRule ==
    /\ In("rules") /\ Waiting("rules")
    /\ current' = ModuleOf("rules")
    /\ LET f == ItemForm("rules")
           id == <<Load.number, Item("rules").at>>
       IN  IF f.fails = "compile" THEN Fail(id) /\ UNCHANGED rules
           ELSE Succeed(id) /\ rules' = Extend(rules, <<current', f.name>>, id)
    /\ Update(Advanced)
    /\ UNCHANGED <<depth, relations, layouts, bodies, seeds, globals, asserted, history>>

EndRules ==
    /\ In("rules") /\ ~Waiting("rules")
    /\ current' = Load.saved
    /\ Update([Load EXCEPT !.phase = "facts", !.at = 1])
    /\ UNCHANGED <<depth, engine, ghosts>>

\* process_deffacts_construct: a replaced definition moves to the end.
PrepareFacts ==
    /\ In("facts") /\ Waiting("facts")
    /\ current' = ModuleOf("facts")
    /\ LET f == ItemForm("facts")
           id == <<Load.number, Item("facts").at>>
           Other(s) == s.module # current' \/ s.name # f.name
       IN  IF f.fails = "compile" \/ (HeadIs(f) /\ Hidden(current')) THEN Fail(id) /\ UNCHANGED seeds
           ELSE /\ Succeed(id)
                /\ seeds' = Append(SelectSeq(seeds, Other), [module |-> current', name |-> f.name, form |-> id])
    /\ Update(Advanced)
    /\ UNCHANGED <<depth, relations, layouts, bodies, rules, globals, asserted, history>>

EndFacts ==
    /\ In("facts") /\ ~Waiting("facts")
    /\ current' = Load.saved
    /\ Update([Load EXCEPT !.phase = "leave"])
    /\ UNCHANGED <<depth, engine, ghosts>>

\* Construct parsing is complete: assertions may build again.
LeaveConstructs ==
    /\ In("leave")
    /\ depth' = depth - 1
    /\ Update([Load EXCEPT !.phase = "asserts", !.at = 1, !.saved = current])
    /\ UNCHANGED <<current, engine, ghosts>>

\* The module in force where the assertion is written.
AssertModule ==
    LET before == {i \in DOMAIN Load.transitions : Load.transitions[i].at <= Load.at}
    IN  Load.transitions[CHOOSE i \in before : \A j \in before : j <= i].module

NextAssert == In("asserts") /\ ~AtEnd /\ LoadForm.kind = "assert" /\ Load.at \notin Load.invalid
Unchecked == IF Load.checked THEN [rels |-> relations, ok |-> TRUE]
             ELSE ApplyEvents(LoadForm.events, AssertModule)

PassOver ==
    /\ In("asserts") /\ ~AtEnd
    /\ LoadForm.kind # "assert" \/ Load.at \in Load.invalid
    /\ Update(Advanced)
    /\ UNCHANGED <<current, depth, engine, ghosts>>

\* Every fact of an assertion is prepared before the first is evaluated; one
\* that fails when it is evaluated leaves the earlier ones asserted.
LoadPrepared ==
    /\ \A i \in DOMAIN LoadForm.facts : LoadForm.facts[i] # "static"
    /\ ~(HeadIs(LoadForm) /\ Hidden(AssertModule))
Evaluated == \A i \in DOMAIN LoadForm.facts : LoadForm.facts[i] = "ok"

\* An initial value or a field builds a construct: a load within this one,
\* that starts in the module of the expression.
Build ==
    /\ Reading("global") \/ (NextAssert /\ Unchecked.ok /\ LoadPrepared)
    /\ LoadForm.does = "build" /\ ~Load.built
    /\ ~BuildRefused
    /\ Len(history) < MaxLoads
    /\ LET number == Len(history) + 1
           start == IF LoadForm.kind = "assert" THEN AssertModule ELSE current
           outer == [loads EXCEPT ![Len(loads)].built = TRUE, ![Len(loads)].checked = TRUE]
       IN  /\ \E form \in Snippets :
                /\ loads' = Append(outer, NewLoad(number, <<form>>, start))
                /\ history' = Append(history, [src |-> <<form>>, start |-> start, host |-> FALSE, known |-> relations])
           /\ current' = start
    /\ depth' = depth + 1
    /\ relations' = Unchecked.rels
    /\ UNCHANGED <<layouts, bodies, rules, seeds, globals, asserted, errors, done>>

\* process_assert in the module of its place.
ProcessAssert ==
    /\ NextAssert
    /\ LoadForm.does = "build" => Load.built \/ ~LoadPrepared \/ ~Unchecked.ok \/ Len(history) = MaxLoads
    /\ relations' = Unchecked.rels
    /\ IF ~Unchecked.ok \/ ~LoadPrepared
       THEN Fail(Id) /\ UNCHANGED asserted
       ELSE /\ asserted' = asserted \union {[form |-> Id, module |-> AssertModule]}
            /\ IF Evaluated THEN Succeed(Id) ELSE Fail(Id)
    /\ current' = IF LoadForm.does = "reset" /\ Unchecked.ok /\ LoadPrepared THEN "MAIN" ELSE AssertModule
    /\ Update([Advanced EXCEPT !.checked = HasConstructs])
    /\ UNCHANGED <<depth, layouts, bodies, rules, seeds, globals, history>>

EndLoad ==
    /\ In("asserts") /\ AtEnd
    /\ current' = Load.saved
    /\ depth' = Load.before
    /\ loads' = SubSeq(loads, 1, Len(loads) - 1)
    /\ UNCHANGED <<engine, ghosts>>

Step ==
    \/ Skip \/ CheckAssert \/ Defmodule \/ DeferRule \/ DeferFacts \/ Deftemplate \/ StageCallable \/ DefGlobal
    \/ EndConstructs \/ CompileRule \/ EndRules \/ PrepareFacts \/ EndFacts
    \/ LeaveConstructs \/ PassOver \/ Build \/ ProcessAssert \/ EndLoad

LoadNext == LoadStr \/ Step

LoadSpec == LoadInit /\ [][LoadNext]_loadVars

-----------------------------------------------------------------------------
(* Reference: the module in force at place i of a load is that of the last   *)
(* accepted defmodule before it, or MAIN when an initial value of a later    *)
(* form reset the engine; Stated leaves such resets out.                     *)
LastOf(id, moves) ==
    LET h == history[id[1]]
        before == {i \in moves : i < id[2]}
        last == h.src[CHOOSE i \in before : \A j \in before : j <= i]
    IN  IF before = {} THEN h.start ELSE IF last.kind = "module" THEN last.name ELSE "MAIN"
ModulesOf(n) == {i \in DOMAIN history[n].src : history[n].src[i].kind = "module" /\ <<n, i>> \in done}
ResetsOf(n) ==
    {i \in DOMAIN history[n].src : /\ history[n].src[i].kind \in {"global", "template"}
                                  /\ history[n].src[i].does = "reset" /\ <<n, i>> \in done}
InForce(id) == LastOf(id, ModulesOf(id[1]) \union ResetsOf(id[1]))
Stated(id) == LastOf(id, ModulesOf(id[1]))
OwnerAt(id) == IF LoadFormOf(id).module = "" THEN InForce(id) ELSE LoadFormOf(id).module

(* Rules and seed definitions belong to the module of their place in the     *)
(* source, or the one they spell, although they are compiled after the whole *)
(* source was read and other modules became current.                         *)
OwnedByPlace ==
    /\ \A key \in DOMAIN rules : key = <<OwnerAt(rules[key]), LoadFormOf(rules[key]).name>>
    /\ \A i \in DOMAIN seeds : seeds[i].module = OwnerAt(seeds[i].form)

(* What waits to be compiled still means by its relation what it meant where *)
(* it is written, whatever deftemplates follow it.                           *)
WaitingKeepsMeaning ==
    \A l \in {loads[i] : i \in DOMAIN loads}, field \in {"rules", "facts"} :
        \A i \in DOMAIN l[field] :
            NamesRelation(l.src[l[field][i].at]) => RelationIs(l[field][i].module) = l[field][i].means

(* An assertion runs in the module of its place, with one exception: a reset *)
(* in an initial value before it selects MAIN for the constructs that follow *)
(* but is not among the transitions the assertions are placed by             *)
(* (loader.rs:1177), so that behind it they run in the last defmodule.       *)
AssertsInPlace == \A a \in asserted : a.module = Stated(a.form)


(* When a load has ended every form of it has either taken effect or been    *)
(* reported: one failure costs no other form, and nothing is lost silently.  *)
(* The exception is an atom among the forms, which is skipped with a warning.*)
EveryFormSettled ==
    loads = << >> =>
        \A n \in DOMAIN history : \A i \in DOMAIN history[n].src :
            history[n].src[i].kind # "atom" => (<<n, i>> \in done) # (<<n, i>> \in errors)

(* A query is accepted only if its relation is declared before it, in the    *)
(* same source or by an earlier load: no later declaration rescues it.       *)
NoRescue ==
    \A id \in done :
        LET h == history[id[1]]
            f == LoadFormOf(id)
            DeclaredBy(i, n) == \E k \in 1 .. n : h.src[i].events[k] = [is |-> "declare", rel |-> "r"]
        IN  \A n \in DOMAIN f.events :
                f.events[n].is = "query" =>
                   \/ f.events[n].rel \in DOMAIN h.known
                   \/ DeclaredBy(id[2], n - 1)
                   \/ \E i \in 1 .. id[2] - 1 :
                          \/ DeclaredBy(i, Len(h.src[i].events))
                          \/ (h.src[i].kind = "template" /\ <<id[1], i>> \in done)

(* Between loads nothing of them is left: the depth is back, and the module  *)
(* in force at the end of the last source is current.                        *)
LoadsLeaveNothing ==
    loads = << >> =>
        /\ depth = 0
        /\ history # << >> =>
            LET outer == {n \in DOMAIN history : history[n].host}
                n == CHOOSE n \in outer : \A k \in outer : k <= n
            IN  current = InForce(<<n, Len(history[n].src) + 1>>)

(* Constructs are never read inside a load that still holds constructs it    *)
(* has not compiled.                                                         *)
OneReader == \A i \in 1 .. Len(loads) - 1 : loads[i].phase = "asserts"

=============================================================================
