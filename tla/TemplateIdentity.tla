--------------------------- MODULE TemplateIdentity ---------------------------
(* What a fact name means, and when a deftemplate may change it              *)
(* (template_identity.rs, template_reload.rs, loader.rs, environment.rs).    *)
(* A name in a rule, function, seed definition or running expression stands  *)
(* for an explicit template or for an ordered relation, and most of them     *)
(* look it up again whenever they run.  Loading, `build` and `clear` may     *)
(* happen in the middle of such evaluations, so every one of them has to     *)
(* keep what it names in use.                                                *)
EXTENDS Naturals, Sequences, FiniteSets

CONSTANTS
    TemplateModules,    \* names of modules
    TemplateNames,      \* local names of relations and templates
    Visible,            \* <<reader, owner>>: is_construct_visible for deftemplate
    MaxTemplates,       \* bound: templates
    MaxLayouts,         \* bound: definitions of one template
    TemplateMaxFrames,  \* bound: depth of nested evaluation
    MaxConstructs       \* bound: constructs other than templates

VARIABLES
    templates,      \* key -> its definition; the keys are dense
    spellings,      \* the source spellings in template_ids
    templateFacts,  \* identities of the facts in working memory
    constructs,     \* rules, functions, seed definitions, dynamic defaults
    frames          \* what is being evaluated, innermost last

templateVars == <<templates, spellings, templateFacts, constructs, frames>>

Keys == DOMAIN templates
TemplateTop == frames[Len(frames)]
Frames == {frames[i] : i \in DOMAIN frames}
Push(f) == Len(frames) < TemplateMaxFrames /\ frames' = Append(frames, f)
TemplatePop == frames' = SubSeq(frames, 1, Len(frames) - 1)

-----------------------------------------------------------------------------
(* Resolution.                                                               *)

Sees(reader, owner) == reader = owner \/ <<reader, owner>> \in Visible

\* resolve_id for an unqualified name: a local template hides visible ones,
\* several visible ones are ambiguous.
Resolve(m, n) ==
    LET named == {k \in Keys : templates[k].name = n}
        local == {k \in named : templates[k].module = m}
        seen  == {k \in named : Sees(m, templates[k].module)}
        Unique(s) == IF Cardinality(s) = 1
                     THEN [is |-> "template", key |-> CHOOSE k \in s : TRUE]
                     ELSE [is |-> "ambiguous"]
    IN  CASE named = {} -> [is |-> "unknown"]
          [] local # {} -> Unique(local)
          [] seen = {}  -> [is |-> "hidden"]
          [] OTHER      -> Unique(seen)

TemplateNameIs(n, m, k) == Resolve(m, n) = [is |-> "template", key |-> k]
OrderedNameIs(n, m, local) == n = local /\ Resolve(m, n).is # "template"

\* What an assertion or query of the name works on: a template with the
\* layout it has now, an ordered relation (loading the name declared it), or
\* nothing (an error).
Identity(m, n) ==
    LET r == Resolve(m, n) IN
    CASE r.is = "template" -> [is |-> "template", key |-> r.key, layout |-> templates[r.key].layout]
      [] r.is = "unknown"  -> [is |-> "ordered", relation |-> n]
      [] OTHER             -> [is |-> "error"]

\* A construct or expression of module m that names n, with what n meant when
\* it was loaded.
Use(role, m, n) == [role |-> role, module |-> m, name |-> n, means |-> Identity(m, n)]
Uses == {f \in Frames : f.role \in {"rule", "call", "eval"}}

\* The walks over conditions, actions, bodies and defaults look for an assert
\* or a query of the name, in the module of the construct.
UsesTemplate(c, k) == TemplateNameIs(c.name, c.module, k)
UsesOrderedName(c, n) == OrderedNameIs(c.name, c.module, n)

-----------------------------------------------------------------------------
(* In use.                                                                   *)

TemplateHolds(id) == id \in templateFacts \/ \E f \in Frames : f.role \in {"fact", "query"} /\ f.means = id
LayoutOf(k) == [is |-> "template", key |-> k, layout |-> templates[k].layout]

\* What patterns and prepared facts were compiled to; the actions of rules and
\* the bodies of functions look their names up when they run.
Compiled == {c \in constructs : c.role \in {"rule", "deffacts"}}

\* template_is_in_use: a fact, a held fact or query, a compiled pattern, or
\* any construct or running expression that resolves to it.
TemplateIsInUse(k) ==
    \/ TemplateHolds(LayoutOf(k))
    \/ \E c \in Compiled : c.means = LayoutOf(k)
    \/ \E c \in constructs \union Uses : UsesTemplate(c, k)

\* ordered_identity_is_live: relations are global, whatever the module.
OrderedIdentityIsLive(n) ==
    \/ TemplateHolds([is |-> "ordered", relation |-> n])
    \/ \E c \in Compiled : c.means = [is |-> "ordered", relation |-> n]
    \/ \E c \in constructs \union Uses : UsesOrderedName(c, n)

Queued == UNION {f.queue : f \in {f \in Frames : f.role = "load"}}
TemplateLoading == \E f \in Frames : f.role \in {"load", "register"}   \* source_load_depth # 0
Existing(m, n) == {k \in Keys : templates[k].module = m /\ templates[k].name = n}

\* The conditions register_template checks before and again after it has
\* evaluated the static defaults.
MayRegister(m, n) ==
    /\ \A k \in Existing(m, n) : ~TemplateIsInUse(k)
    /\ Existing(m, n) = {} => ~OrderedIdentityIsLive(n)

\* The loader's own check: rules and seed definitions of this source that
\* are not compiled yet.
PendingUse(m, n) ==
    \E c \in Queued :
        \/ UsesOrderedName(c, n)
        \/ \E k \in Existing(m, n) : UsesTemplate(c, k)

\* A default may not refer to the template that is being (re)defined.
SelfReference(m, n, default) ==
    /\ default # "none"
    /\ \/ \E k \in Existing(m, n) : TemplateNameIs(default, m, k)
       \/ Existing(m, n) = {} /\ OrderedNameIs(default, m, n)

-----------------------------------------------------------------------------
TemplateInit ==
    /\ templates = << >>
    /\ spellings = {}
    /\ templateFacts = {}
    /\ constructs = {}
    /\ frames = << >>

BeginLoad ==
    /\ frames = << >>
    /\ Push([role |-> "load", queue |-> {}])
    /\ UNCHANGED <<templates, spellings, templateFacts, constructs>>

\* A defrule or deffacts waits until the whole source has been read.
Queue(role, m, n) ==
    /\ frames # << >> /\ TemplateTop.role = "load"
    /\ Cardinality(constructs \union TemplateTop.queue) < MaxConstructs
    /\ frames' = [frames EXCEPT ![Len(frames)].queue = @ \union {Use(role, m, n)}]
    /\ UNCHANGED <<templates, spellings, templateFacts, constructs>>

\* They are compiled at the end of the source; some may fail to compile.
EndLoad ==
    /\ frames # << >> /\ TemplateTop.role = "load"
    /\ \E ok \in SUBSET TemplateTop.queue :
        constructs' = constructs \union {Use(c.role, c.module, c.name) : c \in ok}
    /\ TemplatePop
    /\ UNCHANGED <<templates, spellings, templateFacts>>

\* (deftemplate ...) in a source or through build.  A spelling is the bare
\* name or the name with its module.  Static defaults are evaluated next.
RegisterTemplate(m, n, qualified, default) ==
    /\ IF TemplateLoading THEN TemplateTop.role = "load" ELSE frames # << >> /\ TemplateTop.role \in {"rule", "call", "eval", "fact", "query"}
    /\ Existing(m, n) # {} \/ Len(templates) < MaxTemplates
    /\ \A k \in Existing(m, n) : templates[k].layout < MaxLayouts
    /\ ~PendingUse(m, n)
    /\ MayRegister(m, n)
    /\ Existing(m, n) = {} => <<IF qualified THEN m ELSE "", n>> \notin spellings
    /\ ~SelfReference(m, n, default)
    /\ Push([role |-> "register", module |-> m, name |-> n,
             spelling |-> <<IF qualified THEN m ELSE "", n>>, default |-> default])
    /\ UNCHANGED <<templates, spellings, templateFacts, constructs>>

Recheck(m, n) == MayRegister(m, n)

\* The end of register_template: an unused definition is replaced in place,
\* a new one gets a new key; its dynamic default is a construct like others.
InstallTemplate ==
    /\ frames # << >> /\ TemplateTop.role = "register"
    /\ LET m == TemplateTop.module
           n == TemplateTop.name
           old == Existing(m, n)
           key == IF old = {} THEN Len(templates) + 1 ELSE CHOOSE k \in old : TRUE
           def == [module |-> m, name |-> n,
                   layout |-> IF old = {} THEN 1 ELSE templates[key].layout + 1]
           defaults == IF TemplateTop.default = "none" THEN {}
                       ELSE {Use("default", m, TemplateTop.default)}
       IN  IF Recheck(m, n)
           THEN /\ templates' = [k \in 1 .. Len(templates) \union {key} |->
                                    IF k = key THEN def ELSE templates[k]]
                /\ spellings' = IF old = {} THEN spellings \union {TemplateTop.spelling} ELSE spellings
                /\ constructs' = constructs \union defaults
           ELSE UNCHANGED <<templates, spellings, constructs>>
    /\ TemplatePop
    /\ UNCHANGED templateFacts

\* A rule fires, a function is called, or source is evaluated outside any
\* construct (eval, assert-string, fields of a top-level assertion).
Run(role) ==
    /\ \E c \in constructs :
        /\ c.role = (IF role = "rule" THEN "rule" ELSE "function")
        /\ Push([c EXCEPT !.role = role])
    /\ UNCHANGED <<templates, spellings, templateFacts, constructs>>

EvalDetached(m, n) ==
    /\ Push(Use("eval", m, n))
    /\ UNCHANGED <<templates, spellings, templateFacts, constructs>>

\* The innermost evaluation asserts or queries the fact it names: the name is
\* resolved now and held until the fact is published or the query ends.
TemplateHold(role) ==
    /\ frames # << >> /\ TemplateTop.role \in {"rule", "call", "eval"}
    /\ Identity(TemplateTop.module, TemplateTop.name).is # "error"
    /\ Push([role |-> role, means |-> Identity(TemplateTop.module, TemplateTop.name)])
    /\ UNCHANGED <<templates, spellings, templateFacts, constructs>>

PublishFact ==
    /\ frames # << >> /\ TemplateTop.role = "fact"
    /\ templateFacts' = templateFacts \union {TemplateTop.means}
    /\ TemplatePop
    /\ UNCHANGED <<templates, spellings, constructs>>

\* A normal return, or an error that unwinds the innermost evaluation.
TemplateReturn ==
    /\ frames # << >> /\ TemplateTop.role # "load"
    /\ TemplatePop
    /\ UNCHANGED <<templates, spellings, templateFacts, constructs>>

Retract ==
    /\ \E id \in templateFacts : templateFacts' = templateFacts \ {id}
    /\ UNCHANGED <<templates, spellings, constructs, frames>>

\* build of another construct, refused while a source is being loaded and
\* for a construct that is executing.
TemplateBuild(role, m, n) ==
    /\ ~TemplateLoading /\ frames # << >>
    /\ Cardinality(constructs) < MaxConstructs
    /\ constructs' = constructs \union {Use(role, m, n)}
    /\ UNCHANGED <<templates, spellings, templateFacts, frames>>

\* undefrule and friends: also of a rule that is running.
Undefine ==
    /\ \E c \in constructs : c.role # "default" /\ constructs' = constructs \ {c}
    /\ UNCHANGED <<templates, spellings, templateFacts, frames>>

\* active_expressions_name_facts: source that runs outside any construct.
NamesFacts == \E f \in Frames : f.role = "eval"

\* clear_for_evaluation refuses outright while a fact is being assembled or a
\* detached expression names facts, or a callable runs outside any rule.
ClearRefused ==
    \/ \E f \in Frames : f.role = "fact"
    \/ NamesFacts
    \/ /\ \E f \in Frames : f.role = "call"
       /\ ~\E f \in Frames : f.role = "rule"

\* Constructs go only when nothing is being evaluated or loaded; otherwise
\* the facts alone are removed.
NothingActive == \A f \in Frames : f.role \notin {"rule", "call", "query", "load", "register"}

ClearForEvaluation ==
    /\ frames # << >>
    /\ ~ClearRefused
    /\ templateFacts' = {}
    /\ IF NothingActive
       THEN templates' = << >> /\ spellings' = {} /\ constructs' = {}
       ELSE UNCHANGED <<templates, spellings, constructs>>
    /\ UNCHANGED frames

\* Engine::clear by the host, outside every evaluation.
TemplateClear ==
    /\ frames = << >>
    /\ templates' = << >> /\ spellings' = {} /\ templateFacts' = {} /\ constructs' = {}
    /\ UNCHANGED frames

TemplateNext ==
    \/ BeginLoad
    \/ \E role \in {"rule", "deffacts"}, m \in TemplateModules, n \in TemplateNames : Queue(role, m, n)
    \/ EndLoad
    \/ \E m \in TemplateModules, n \in TemplateNames, q \in BOOLEAN, d \in TemplateNames \union {"none"} :
            RegisterTemplate(m, n, q, d)
    \/ InstallTemplate
    \/ \E role \in {"rule", "call"} : Run(role)
    \/ \E m \in TemplateModules, n \in TemplateNames : EvalDetached(m, n)
    \/ \E role \in {"fact", "query"} : TemplateHold(role)
    \/ PublishFact
    \/ TemplateReturn
    \/ Retract
    \/ \E role \in {"rule", "function"}, m \in TemplateModules, n \in TemplateNames : TemplateBuild(role, m, n)
    \/ Undefine
    \/ ClearForEvaluation
    \/ TemplateClear

TemplateSpec == TemplateInit /\ [][TemplateNext]_templateVars

-----------------------------------------------------------------------------
(* No fact outlives the layout it was made with: templates are only replaced *)
(* while no fact of theirs exists or is being assembled.                     *)
FactsFit ==
    \A id \in templateFacts \union {f.means : f \in {f \in Frames : f.role \in {"fact", "query"}}} :
        id.is = "template" => id.key \in Keys /\ LayoutOf(id.key) = id

(* An ordered relation and an explicit template of the same local name are   *)
(* never in use together, whatever the modules.                              *)
RelationOrTemplate ==
    \A id \in templateFacts \union {f.means : f \in {f \in Frames : f.role \in {"fact", "query"}}} :
        id.is = "ordered" => \A k \in Keys : templates[k].name # id.relation

(* A template other than the one c was loaded with, of the same name, that   *)
(* the module of c sees: its own, which hides the other, or a second visible *)
(* one, which makes the name ambiguous.                                      *)
Shadowed(c) ==
    c.means.is = "template" /\ \E k \in Keys :
        k # c.means.key /\ templates[k].name = c.name /\ Sees(c.module, templates[k].module)

(* No loaded construct and no running evaluation is reinterpreted: what a    *)
(* name meant when it was loaded it still means whenever it runs, and what   *)
(* it was compiled to keeps its layout.  The exception is Shadowed: a new    *)
(* template is refused for a live ordered relation only (loader.rs:2089),    *)
(* so that an action compiled with a template of another module works on     *)
(* the new one, although template_identity.rs:3 says that loaded forms are   *)
(* not reinterpreted.                                                        *)
MeaningStable ==
    /\ \A c \in constructs \union Uses \union Queued :
        c.means.is # "error" /\ ~Shadowed(c) => Identity(c.module, c.name) = c.means
    /\ \A c \in Compiled : c.means.is = "template" => LayoutOf(c.means.key) = c.means
=============================================================================
