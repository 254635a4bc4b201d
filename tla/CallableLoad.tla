----------------------------- MODULE CallableLoad -----------------------------
(* How a load settles its deffunctions, defgenerics and defmethods           *)
(* (loader.rs).  Definitions are installed provisionally as they are read,   *)
(* so that global initializers see them and forward references resolve.  At  *)
(* the end of the source the loader looks for a set of definitions it can    *)
(* keep: it publishes every candidate name, drops definitions that call what *)
(* does not exist, then selects one kind per name in source order, drops     *)
(* what this choice breaks, and starts again until nothing changes.          *)
EXTENDS Naturals, Sequences, FiniteSets

CONSTANTS
    Keys,          \* <<module, name>> pairs of callables
    Definitions,   \* the definitions a source may hold
    Visible,       \* <<reader, owner, kind>>: is_construct_visible
    MaxDefs        \* bounds: definitions in the first load, the second, ...

VARIABLES
    functions,     \* key -> the installed deffunction, or None
    generics,      \* key -> the installed generic, or None
    pending,       \* the definitions of the load, in source order
    valid,         \* position -> still a candidate
    originals,     \* what the keys of the load named before it
    phase,         \* "idle", "stage", "names" or "select"
    chosen,        \* positions installed by the last selection
    callableLoads

callableVars == <<functions, generics, pending, valid, originals, phase, chosen, callableLoads>>

None == [kind |-> "none"]   \* no entry
KeyOf(d) == <<d.module, d.name>>
CallableReads(d) == d.calls \union d.queries

\* A definition of a source: its kind, the names its body calls, those it
\* calls inside predicates of fact queries, and an explicit method index (0
\* when there is none).  A call names a callable, with or without a module.
IsDefinition(d) ==
    /\ d.kind \in {"deffunction", "defgeneric", "defmethod"}
    /\ d.index \in Nat
    /\ \A c \in CallableReads(d) : DOMAIN c \in {{"name"}, {"name", "module"}}

ASSUME DefinitionsAssumption ==
    \A d \in Definitions : KeyOf(d) \in Keys /\ IsDefinition(d)

Empty == [methods |-> << >>, next |-> 1]   \* GenericFunction::new
IndexesOf(g) == DOMAIN g.methods

-----------------------------------------------------------------------------
(* Resolution of the names a body calls.                                     *)

Qualified(c) == "module" \in DOMAIN c
Sees(reader, owner, kind) == reader = owner \/ <<reader, owner, kind>> \in Visible

\* The owners of a callable of this name that the reader sees.
OwnersSeen(fs, gs, reader, name) ==
    {k[1] : k \in {k \in Keys :
        /\ k[2] = name
        /\ \/ fs[k] # None /\ Sees(reader, k[1], "deffunction")
           \/ gs[k] # None /\ Sees(reader, k[1], "defgeneric")}}

\* is_declared_expression_callable; a qualified name needs no visibility.
CallableDeclared(fs, gs, reader, c) ==
    IF Qualified(c)
    THEN \E k \in Keys : k = <<c.module, c.name>> /\ (fs[k] # None \/ gs[k] # None)
    ELSE OwnersSeen(fs, gs, reader, c.name) # {}

\* validate_query_callable: visible, unambiguous, or the callable itself.
QueryCallable(fs, gs, d, c) ==
    LET here == <<d.module, c.name>> IN
    \/ ~Qualified(c) /\ c.name = d.name
    \/ /\ Qualified(c)
       /\ c.module \in OwnersSeen(fs, gs, d.module, c.name)
    \/ /\ ~Qualified(c)
       /\ \/ here \in Keys /\ (fs[here] # None \/ gs[here] # None)
          \/ Cardinality(OwnersSeen(fs, gs, d.module, c.name)) = 1

\* validate_callable_body, validate_method_body: the second pass also checks
\* visibility inside query predicates.
BodyValid(fs, gs, d, visibility) ==
    /\ \A c \in CallableReads(d) : CallableDeclared(fs, gs, d.module, c)
    /\ visibility => \A c \in d.queries : QueryCallable(fs, gs, d, c)

-----------------------------------------------------------------------------
(* Installation.                                                             *)

\* What install_callable refuses.
Conflicts(fs, gs, d) ==
    LET k == KeyOf(d) IN
    CASE d.kind = "deffunction" -> gs[k] # None
      [] d.kind = "defgeneric"  -> fs[k] # None \/ gs[k] # None
      [] d.kind = "defmethod"   ->
            \/ fs[k] # None
            \/ d.index # 0 /\ gs[k] # None /\ d.index \in IndexesOf(gs[k])

\* register_restricted_method: an explicit index is kept, another one is the
\* next free one; later automatic indexes start above every index used.
WithMethod(g, d) ==
    LET i == IF d.index = 0 THEN g.next ELSE d.index IN
    [methods |-> [j \in IndexesOf(g) \union {i} |-> IF j = i THEN d ELSE g.methods[j]],
     next    |-> IF i >= g.next THEN i + 1 ELSE g.next]

GenericOf(gs, k) == IF gs[k] = None THEN Empty ELSE gs[k]

\* install_callable on the pair of registries.
Install(r, d) ==
    LET k == KeyOf(d) IN
    CASE Conflicts(r.fs, r.gs, d) -> r
      [] d.kind = "deffunction"   -> [r EXCEPT !.fs[k] = d]
      [] d.kind = "defgeneric"    -> [r EXCEPT !.gs[k] = Empty]
      [] d.kind = "defmethod"     -> [r EXCEPT !.gs[k] = WithMethod(GenericOf(r.gs, k), d)]

\* restore_original_callables
Restored ==
    [fs |-> [k \in Keys |-> IF k \in DOMAIN originals THEN originals[k].fs ELSE functions[k]],
     gs |-> [k \in Keys |-> IF k \in DOMAIN originals THEN originals[k].gs ELSE generics[k]]]

\* original_blocks_candidate
OriginalBlocks(d) ==
    Conflicts([k \in Keys |-> originals[k].fs], [k \in Keys |-> originals[k].gs], d)

\* publish_pending_names: every viable name, of both kinds if need be.
PublishNames ==
    LET Upto[n \in 0 .. Len(pending)] ==
            IF n = 0 THEN Restored
            ELSE LET r == Upto[n - 1]
                     d == pending[n]
                     k == KeyOf(d)
                 IN  CASE ~valid[n] \/ OriginalBlocks(d) -> r
                       [] d.kind = "deffunction" -> [r EXCEPT !.fs[k] = d]
                       [] OTHER                  -> [r EXCEPT !.gs[k] = GenericOf(r.gs, k)]
    IN Upto[Len(pending)]

\* The selection: every candidate in source order, conflicting ones skipped.
Selection ==
    LET Upto[n \in 0 .. Len(pending)] ==
            IF n = 0 THEN [fs |-> Restored.fs, gs |-> Restored.gs, chosen |-> {}]
            ELSE LET r == Upto[n - 1] IN
                 IF ~valid[n] \/ Conflicts(r.fs, r.gs, pending[n]) THEN r
                 ELSE [Install(r, pending[n]) EXCEPT !.chosen = @ \union {n}]
    IN Upto[Len(pending)]

\* The body of a generic declaration is empty and always valid.
Invalid(r, among, visibility) ==
    {i \in among : valid[i] /\ ~BodyValid(r.fs, r.gs, pending[i], visibility)}

\* references_callable_candidate: either kind may make the name visible.
ReferencesCandidate(c, reader, d) ==
    /\ c.name = d.name
    /\ IF Qualified(c) THEN c.module = d.module
       ELSE \E kind \in {"deffunction", "defgeneric"} : Sees(reader, d.module, kind)

DependsOn(i, j) ==
    /\ KeyOf(pending[i]) # KeyOf(pending[j])
    /\ \E c \in CallableReads(pending[i]) : ReferencesCandidate(c, pending[i].module, pending[j])

Reachable(bad, i) ==
    LET Grow[n \in 0 .. Cardinality(bad)] ==
            IF n = 0 THEN {i}
            ELSE LET known == Grow[n - 1]
                 IN known \union {j \in bad : \E m \in known : DependsOn(m, j)}
    IN Grow[Cardinality(bad)]

\* settled_callable_failures: the terminal components of the dependencies.
Settled(bad) ==
    {i \in bad : \A j \in Reachable(bad, i) : i \in Reachable(bad, j)}

-----------------------------------------------------------------------------
CallableInit ==
    /\ functions = [k \in Keys |-> None]
    /\ generics = [k \in Keys |-> None]
    /\ pending = << >>
    /\ valid = << >>
    /\ originals = << >>
    /\ phase = "idle"
    /\ chosen = {}
    /\ callableLoads = 0

BeginLoad ==
    /\ phase = "idle"
    /\ callableLoads < Len(MaxDefs)
    /\ callableLoads' = callableLoads + 1
    /\ phase' = "stage"
    /\ pending' = << >>
    /\ valid' = << >>
    /\ originals' = << >>
    /\ chosen' = {}
    /\ UNCHANGED <<functions, generics>>

\* stage_callable: remember what the name meant, install what can be.
CallableStageCallable(d) ==
    /\ phase = "stage"
    /\ Len(pending) < MaxDefs[callableLoads]
    /\ pending' = Append(pending, d)
    /\ valid' = Append(valid, TRUE)
    /\ originals' = [k \in DOMAIN originals \union {KeyOf(d)} |->
                        IF k \in DOMAIN originals THEN originals[k]
                        ELSE [fs |-> functions[k], gs |-> generics[k]]]
    /\ LET r == Install([fs |-> functions, gs |-> generics], d)
       IN functions' = r.fs /\ generics' = r.gs
    /\ UNCHANGED <<phase, chosen, callableLoads>>

EndOfSource ==
    /\ phase = "stage"
    /\ phase' = "names"
    /\ UNCHANGED <<functions, generics, pending, valid, originals, chosen, callableLoads>>

\* The inner loop of validate_pending_callables, one round.
NamesRound ==
    /\ phase = "names"
    /\ \E r \in {PublishNames} : \E bad \in {Invalid(r, 1 .. Len(pending), FALSE)} :
           /\ functions' = r.fs
           /\ generics' = r.gs
           /\ valid' = [i \in DOMAIN valid |-> valid[i] /\ i \notin bad]
           /\ phase' = IF bad = {} THEN "select" ELSE "names"
    /\ UNCHANGED <<pending, originals, chosen, callableLoads>>


\* The rest of the outer loop.
SelectRound ==
    /\ phase = "select"
    /\ \E r \in {Selection} : \E bad \in {Invalid(r, r.chosen, TRUE)} :
           /\ functions' = r.fs
           /\ generics' = r.gs
           /\ chosen' = r.chosen
           /\ valid' = [i \in DOMAIN valid |-> valid[i] /\ i \notin Settled(bad)]
           /\ phase' = IF bad = {} THEN "idle" ELSE "names"
    /\ UNCHANGED <<pending, originals, callableLoads>>

CallableNext ==
    \/ BeginLoad
    \/ \E d \in Definitions : CallableStageCallable(d)
    \/ EndOfSource
    \/ NamesRound
    \/ SelectRound

CallableSpec == CallableInit /\ [][CallableNext]_callableVars

-----------------------------------------------------------------------------
Installed == {functions[k] : k \in {k \in Keys : functions[k] # None}} \union
             UNION {{generics[k].methods[i] : i \in IndexesOf(generics[k])} :
                        k \in {k \in Keys : generics[k] # None}}

(* After every load each installed body calls only callables that exist and  *)
(* that its module sees, whatever was dropped, replaced or kept in this and  *)
(* in earlier loads.                                                         *)
NoDanglingCalls ==
    phase = "idle" =>
        \A d \in Installed, c \in UNION {CallableReads(e) : e \in Installed} :
            c \in CallableReads(d) => CallableDeclared(functions, generics, d.module, c)

(* A name never ends up both a deffunction and a defgeneric of its module.   *)
OneKind ==
    phase \in {"idle", "stage"} =>
        \A k \in Keys : functions[k] = None \/ generics[k] = None

(* A load takes nothing away: a function is at most replaced by one the load *)
(* accepted, and a generic keeps every method it had.                        *)
OriginalsSurvive ==
    phase = "idle" =>
        \A k \in DOMAIN originals :
            /\ originals[k].fs # None =>
                functions[k] \in {originals[k].fs} \union {pending[i] : i \in chosen}
            /\ originals[k].gs # None =>
                /\ generics[k] # None
                /\ \A i \in IndexesOf(originals[k].gs) :
                    /\ i \in IndexesOf(generics[k])
                    /\ generics[k].methods[i] = originals[k].gs.methods[i]

(* Only accepted definitions stay: what is installed was there before the    *)
(* load or was selected by its last round and is still a candidate.          *)
NothingProvisional ==
    phase = "idle" =>
        \A k \in DOMAIN originals :
            LET mine == {pending[i] : i \in {i \in chosen : valid[i]}} IN
            /\ functions[k] # originals[k].fs => functions[k] \in mine
            /\ generics[k] # originals[k].gs =>
                \E d \in mine : KeyOf(d) = k /\ d.kind # "deffunction"

(* A definition is only dropped for good reason: when the source does not    *)
(* offer several kinds for one name, what the load rejected would not be     *)
(* valid beside what it kept.  (With several kinds the first choice made in  *)
(* source order may cost a definition that another choice would have kept.)  *)
RejectedForGood ==
    /\ phase = "idle"
    /\ \A i, j \in DOMAIN pending : KeyOf(pending[i]) = KeyOf(pending[j]) =>
            (pending[i].kind = "deffunction" <=> pending[j].kind = "deffunction")
    => \A i \in DOMAIN valid :
            ~valid[i] => ~BodyValid(functions, generics, pending[i], TRUE)
=============================================================================
