--------------------------- MODULE SavedRegistries ---------------------------
(***************************************************************************)
(* The construct registries in a snapshot (the runtime's serialization.rs  *)
(* and serialization/validation.rs, engine.rs, loader.rs). A rule is one   *)
(* declaration and one executable per disjunction variant; its slot, its   *)
(* module, its terminal and the allocator of rule numbers are kept in four *)
(* tables, a template's identity in three, a callable's owner in two, and  *)
(* some tables are derived and not persisted. The tables have to agree     *)
(* after any history, so that an engine can be saved, and a decoded engine *)
(* whose tables agree has to work when it is loaded further.               *)
(***************************************************************************)
EXTENDS SequencesExt, FiniteSetsExt, Naturals, TLC

CONSTANTS
    Names,       \* local names of constructs
    MaxModules,  \* modules, MAIN being 1
    MaxSlots,    \* executable rules at a time
    MaxChanges   \* bound on the constructs loaded and removed

ASSUME RegistriesBoundsAssumption == {MaxModules, MaxSlots, MaxChanges} \subseteq Nat

VARIABLES
    e,                  \* the engine's registries
    changes,            \* constructs loaded and removed
    registriesRestores  \* restores so far, at most one

registriesVars == <<e, changes, registriesRestores>>

Main == 1
RegistriesKinds == {"function", "global", "generic"}
Modules(g) == 1..g.modules
InitialName == "initial-fact"

-----------------------------------------------------------------------------
(* Rules.                                                                  *)

RegistriesLive(g) == {i \in DOMAIN g.info : g.info[i] # <<>>}
NameOf(g, i) == <<g.mod[i][1], g.info[i][1].name>>

(* remove_compiled_rules: the slots are emptied and kept, the terminals    *)
(* go, and a declaration goes with its last executable.                    *)
RemoveCompiledRules(g, ids) ==
    LET retired == {NameOf(g, i) : i \in ids}
        h == [g EXCEPT !.info = [i \in DOMAIN @ |-> IF i \in ids THEN <<>> ELSE @[i]] \o <<>>,
                       !.mod = [i \in DOMAIN @ |-> IF i \in ids THEN <<>> ELSE @[i]] \o <<>>,
                       !.terminals = @ \ ids, !.focus = @ \ ids]
        remaining == {NameOf(h, i) : i \in RegistriesLive(h)}
    IN  [h EXCEPT !.rdecl = SelectSeq(@, LAMBDA d : d \notin retired \/ d \in remaining)]

(* The first retired slot, or a new number.                                *)
RuleSlot(g) ==
    LET free == {i \in DOMAIN g.info : g.info[i] = <<>>}
    IN  IF free # {} THEN Min(free) ELSE g.nextRule

(* install_prepared_rule, rule_index_insert.                               *)
InstallRule(g, name, auto) ==
    LET id == RuleSlot(g)
        entry == <<[name |-> name, auto |-> auto]>>
        padded(s) == s \o [i \in 1..(id - Len(s)) |-> <<>>]
    IN  [g EXCEPT !.info = [padded(@) EXCEPT ![id] = entry],
                  !.mod = [padded(@) EXCEPT ![id] = <<g.current>>],
                  !.nextRule = IF id = @ THEN @ + 1 ELSE @,
                  !.terminals = @ \cup {id},
                  !.focus = IF auto THEN @ \cup {id} ELSE @ \ {id}]

SameRule(g, name) == {i \in RegistriesLive(g) : NameOf(g, i) = <<g.current, name>>}

(* compile_rule_construct, once every variant is prepared: the old         *)
(* definition is retired, the variants are installed, the name declared.   *)
CompileRule(g, name, variants, auto) ==
    LET h == FoldLeft(LAMBDA acc, i : InstallRule(acc, name, auto),
                      RemoveCompiledRules(g, SameRule(g, name)), [i \in 1..variants |-> i])
    IN  [h EXCEPT !.rdecl = Append(@, <<g.current, name>>)]

-----------------------------------------------------------------------------
(* Templates and callables.                                                *)

(* declare_implicit_template, for a relation no template is visible for.   *)
DeclareImplicit(g, name) ==
    IF name \in g.tnames \/ <<g.current, name>> \in DOMAIN g.templates THEN g
    ELSE [g EXCEPT !.tnames = @ \cup {name}, !.tdecl = Append(@, <<g.current, name>>)]

(* declare_explicit_template: it takes the place of an implicit one of its *)
(* own module.                                                             *)
DeclareExplicit(g, name) ==
    [g EXCEPT !.tnames = @ \cup {name},
              !.tdecl = Append(IF name \in g.tnames
                               THEN SelectSeq(@, LAMBDA d : d # <<g.current, name>>) ELSE @,
                               <<g.current, name>>)]

(* A deftemplate: its definition, the name index, the local index. One     *)
(* that nothing uses is redefined in place.                                *)
DefineTemplate(g, name) ==
    LET id == Cardinality(DOMAIN g.templates) + 1
        h == DeclareExplicit(g, name)
    IN  IF <<g.current, name>> \in DOMAIN g.templates THEN h
        ELSE [h EXCEPT !.templates = (<<g.current, name>> :> id) @@ @,
                       !.tmod = Append(@, g.current),
                       !.tlocal[name] = @ \cup {id}]

(* A callable or global: the definition and its owner.                     *)
DefineCallable(g, k, name) ==
    [g EXCEPT !.defs[k] = @ \cup {<<g.current, name>>},
              !.owner[k] = (<<g.current, name>> :> g.current) @@ @,
              !.registered = IF k # "global" THEN @
                             ELSE SelectSeq(@, LAMBDA d : d # <<g.current, name>>)
                                      \o <<<<g.current, name>>>>]

NewEngine ==
    [modules |-> 1, current |-> Main,
     info |-> <<>>, mod |-> <<>>, nextRule |-> 1, terminals |-> {}, focus |-> {}, rdecl |-> <<>>,
     templates |-> [d \in {} |-> 0], tmod |-> <<>>,
     tlocal |-> [n \in Names \cup {InitialName} |-> {}],
     tdecl |-> <<<<Main, InitialName>>>>, tnames |-> {InitialName},
     defs |-> [k \in RegistriesKinds |-> {}], owner |-> [k \in RegistriesKinds |-> [d \in {} |-> 0]],
     registered |-> <<>>]

-----------------------------------------------------------------------------
(* validate_snapshot_metadata.                                             *)

(* validate_declaration_names.                                             *)
ValidateDeclarations(g, decl) ==
    IsInjective(decl) /\ \A d \in ToSet(decl) : d[1] \in Modules(g)

ValidateModules(g) == g.current \in Modules(g)

(* The capacity of the index and the allocator agree, so that the next     *)
(* rule gets the next slot.                                                *)
ValidateAllocator(g) ==
    g.nextRule = IF g.info = <<>> THEN 1 ELSE Len(g.info) + 1

\* Each rule has a module and a terminal.
RulesHaveTerminals(g) ==
    /\ Len(g.info) = Len(g.mod)
    /\ \A i \in DOMAIN g.info :
          IF g.info[i] = <<>> THEN g.mod[i] = <<>>
          ELSE i \in g.terminals /\ g.mod[i] # <<>> /\ g.mod[i][1] \in Modules(g)

(* Executables, modules and terminals correspond one to one.               *)
ValidateRuleIndexes(g) ==
    /\ RulesHaveTerminals(g)
    /\ g.terminals = RegistriesLive(g)

ValidateRuleNames(g) ==
    ValidateDeclarations(g, g.rdecl) /\ {NameOf(g, i) : i \in RegistriesLive(g)} = ToSet(g.rdecl)

(* Every template is found by its name, in a module, and is declared.      *)
ValidateTemplates(g) ==
    /\ ValidateDeclarations(g, g.tdecl)
    /\ g.tdecl # <<>> /\ g.tdecl[1] = <<Main, InitialName>>
    /\ Cardinality(DOMAIN g.templates) = Len(g.tmod)
    /\ IsInjective(g.templates)
    /\ \A d \in DOMAIN g.templates :
          /\ g.templates[d] \in DOMAIN g.tmod
          /\ g.tmod[g.templates[d]] = d[1] /\ d[1] \in Modules(g)
          /\ d \in ToSet(g.tdecl)

(* A definition is in the owner index, and a registered global is one.     *)
ValidateDefinitions(g) ==
    /\ \A k \in RegistriesKinds, d \in UNION {g.defs[l] : l \in RegistriesKinds} :
          d \in g.defs[k] => /\ d[1] \in Modules(g)
                             /\ d \in DOMAIN g.owner[k] /\ g.owner[k][d] = d[1]
    /\ IsInjective(g.registered)
    /\ ToSet(g.registered) \subseteq g.defs["global"]

(* An owner entry has its definition.                                      *)
ValidateOwners(g) ==
    \A k \in RegistriesKinds : \A d \in DOMAIN g.owner[k] :
        d[1] \in Modules(g) /\ d \in g.defs[k] /\ g.owner[k][d] = d[1]

RegistriesAccepted(g) ==
    /\ ValidateModules(g) /\ ValidateAllocator(g) /\ ValidateRuleIndexes(g)
    /\ ValidateRuleNames(g) /\ ValidateTemplates(g)
    /\ ValidateDefinitions(g) /\ ValidateOwners(g)

-----------------------------------------------------------------------------
(* A decoded engine: the saved tables, one of them perhaps damaged, and    *)
(* nothing of what is derived.                                             *)

RegistriesDamaged(g) ==
    {[g EXCEPT !.nextRule = n] : n \in 1..(MaxSlots + 2)}
    \cup {[g EXCEPT !.terminals = t] : t \in SUBSET (1..MaxSlots)}
    \cup {[g EXCEPT !.info[i] = <<>>] : i \in DOMAIN g.info}
    \cup UNION {{[g EXCEPT !.mod[i] = m] : m \in {<<>>} \cup {<<j>> : j \in 1..MaxModules}} :
                   i \in DOMAIN g.info}
    \cup UNION {{[g EXCEPT !.info[i] = <<[name |-> n, auto |-> FALSE]>>] : n \in Names} :
                   i \in DOMAIN g.info}
    \cup {[g EXCEPT !.rdecl = Append(@, <<m, n>>)] : <<m, n>> \in (1..MaxModules) \X Names}
    \cup {[g EXCEPT !.rdecl = Remove(@, d)] : d \in ToSet(g.rdecl)}
    \cup {[g EXCEPT !.tdecl = Remove(@, d)] : d \in ToSet(g.tdecl)}
    \cup {[g EXCEPT !.tmod[i] = m] : <<i, m>> \in (DOMAIN g.tmod) \X (1..MaxModules)}
    \cup {[g EXCEPT !.templates[d] = i] : <<d, i>> \in (DOMAIN g.templates) \X (1..MaxChanges)}
    \cup UNION {{[g EXCEPT !.owner[k][d] = m] : <<d, m>> \in (DOMAIN g.owner[k]) \X (1..MaxModules)} :
                   k \in RegistriesKinds}
    \cup {[g EXCEPT !.defs[k] = @ \ {d}] : <<k, d>> \in RegistriesKinds \X ((1..MaxModules) \X Names)}

(* into_engine: the derived tables are computed from the persisted ones.   *)
IntoEngine(g) ==
    [g EXCEPT !.focus = {i \in RegistriesLive(g) : g.info[i][1].auto},
              !.tnames = {d[2] : d \in ToSet(g.tdecl)},
              !.tlocal = [n \in DOMAIN @ |->
                             {g.templates[d] : d \in {c \in DOMAIN g.templates : c[2] = n}}]]

RegistriesRestore ==
    /\ registriesRestores = 0
    /\ \E d \in RegistriesDamaged(e) \cup {e} : RegistriesAccepted(d) /\ e' = IntoEngine(d)
    /\ registriesRestores' = 1
    /\ UNCHANGED changes

-----------------------------------------------------------------------------
Change(g) ==
    changes < MaxChanges /\ changes' = changes + 1 /\ e' = g /\ UNCHANGED registriesRestores

DefModule == e.modules < MaxModules
             /\ Change([e EXCEPT !.modules = @ + 1, !.current = e.modules + 1])

SetModule(m) == Change([e EXCEPT !.current = m])

(* The rules and templates here keep to the bound on executables.          *)
DefRule(name, variants, auto) ==
    /\ Cardinality(RegistriesLive(e) \ SameRule(e, name)) + variants <= MaxSlots
    /\ Change(CompileRule(e, name, variants, auto))

Undefrule(name) == SameRule(e, name) # {} /\ Change(RemoveCompiledRules(e, SameRule(e, name)))

Relation(name) == Change(DeclareImplicit(e, name))

Deftemplate(name) == Change(DefineTemplate(e, name))

DefCallable(k, name) == Change(DefineCallable(e, k, name))

RegistriesClear == Change(NewEngine)

RegistriesInit == e = NewEngine /\ changes = 0 /\ registriesRestores = 0

RegistriesNext ==
    \/ DefModule
    \/ \E m \in Modules(e) : SetModule(m)
    \/ \E n \in Names, v \in 1..2, auto \in BOOLEAN : DefRule(n, v, auto)
    \/ \E n \in Names : Undefrule(n) \/ Relation(n) \/ Deftemplate(n)
    \/ \E k \in RegistriesKinds, n \in Names : DefCallable(k, n)
    \/ RegistriesClear
    \/ RegistriesRestore

RegistriesSpec == RegistriesInit /\ [][RegistriesNext]_registriesVars

-----------------------------------------------------------------------------
(* Properties.                                                             *)

\* An engine that has loaded, redefined and removed constructs in any order
\* passes the checks of its own snapshot (serialize, validate_restored_state).
AlwaysSavable == RegistriesAccepted(e)

\* The declarations list each rule once, and each has its executables: a rule
\* of several variants is one entry, in every order of redefinitions and
\* removals (rule_declarations against rule_info).
RulesListed ==
    /\ IsInjective(e.rdecl)
    /\ ToSet(e.rdecl) = {NameOf(e, i) : i \in RegistriesLive(e)}

\* A terminal can always be executed, also in an engine restored from tables
\* that were not saved like this.
TerminalsExecutable == \A t \in e.terminals : t \in RegistriesLive(e) /\ e.mod[t] # <<>>

\* The tables that are not persisted hold what the persisted ones say, before
\* and after a restore: which rules take the focus, which names are declared,
\* which templates a local name means.
DerivedExact ==
    /\ e.focus = {i \in RegistriesLive(e) : e.info[i][1].auto}
    /\ e.tnames = {d[2] : d \in ToSet(e.tdecl)}
    /\ \A n \in Names : e.tlocal[n] = {e.templates[d] : d \in {c \in DOMAIN e.templates : c[2] = n}}

\* Loading a rule disturbs no executable of another rule: slots are reused
\* only when they are free, also when the numbers come from a snapshot.
OthersKept ==
    registriesRestores' = registriesRestores =>
       \A n \in Names, v \in 1..2, auto \in BOOLEAN :
           (e' = CompileRule(e, n, v, auto)) =>
               \A i \in RegistriesLive(e) \ SameRule(e, n) : e'.info[i] = e.info[i] /\ e'.mod[i] = e.mod[i]
=============================================================================
