------------------------------ MODULE MCSource ------------------------------
(***************************************************************************)
(* The way of a source text into the engine for TLC: lexing and reading, the  *)
(* forms of actions, patterns, constructs and slots, the scope checks, the    *)
(* passes of a load and its callables; and the conditions of a rule as they   *)
(* are normalised and lowered.                                                *)
(* The components share no state: a behaviour takes one of them, named by     *)
(* part, and the variables of the others stay 0.                              *)
(***************************************************************************)
EXTENDS SourceText, ConstructForms, SlotForms, ScopeChecks, LoadPasses, CallableLoad,
        RuleConditions, ConstraintLowering

CONSTANT Parts      \* the components of a run

VARIABLE part

-----------------------------------------------------------------------------
(* SourceText. *)

\* What the structure of a text depends on: parentheses, strings with escapes,
\* comments and line ends.
Structure == {"(", ")", "a", "\"", "\\", ";", "nl", "cr"}

\* What words are made of.
WordChars == {"a", "e", "0", "-", ".", "<", "?", "*", ":", "[", "]", " ", "=", "$", "bad"}

MCAlphabet == Structure \cup WordChars

\* One vocabulary at a time; of the words, four characters.
OneVocabulary ==
  Range(src') \subseteq Structure \/ (Range(src') \subseteq WordChars /\ Len(src') <= 4)

-----------------------------------------------------------------------------
(* The forms: small alphabets of elements for each. *)

Atoms(ws) == {FormAtom(w) : w \in ws}
L(ws) == List([i \in DOMAIN ws |-> FormAtom(ws[i])] \o <<>>)
NestedIf == List(<<FormAtom("if"), FormAtom("v"), FormAtom(":"), FormAtom("then"),
                   FormAtom("then"), L(<<"f", "v">>), FormAtom("else"), FormAtom("n")>>)
Rel == L(<<"a">>)
BoundRel == <<FormAtom("x"), FormAtom("<-"), Rel>>
Dec(ds) == List(<<FormAtom("declare")>> \o ds)
Sal(w) == L(<<"salience", w>>)
Focus(w) == L(<<"auto-focus", w>>)
InFact(e) == List(<<FormAtom("a"), e>>)
Params(s) == List(<<FormAtom("deffunction"), FormAtom("s"), L(<<>>), s>>)

ActionHeads ==
  (Forms \cup {"f", "bind", "modify"}) \ {"do-for-fact", "delayed-do-for-all-facts", "find-fact"}
PatternHeads == {"r"} \cup Groups
ConstructHeads == Keywords \cup {"program"}
MCHeads == ActionHeads \cup PatternHeads \cup ConstructHeads

ActionItems(h) ==
  CASE h = "if" -> Atoms({"v", ":", "then", "else", "n"}) \cup {NestedIf}
    [] h \in {"while", "foreach"} ->
       Atoms({"v", "?", ":", "do", "n"}) \cup {L(<<"f", "n">>)}
    [] h = "switch" ->
       Atoms({"v", ":", "n"}) \cup
       {L(<<>>), L(<<"default", "n">>), L(<<"default">>), L(<<"f">>),
        L(<<"case", "n", "then", "n">>), L(<<"case", "n", "then">>),
        L(<<"case", "v", ":", "then", "then", "do">>),
        L(<<"case", "v", ":", "then">>), L(<<"case", "n", "then", "v", ":">>)}
    [] h \in {"loop-for-count", "progn$"} ->
       Atoms({"v", ":", "do", "n"}) \cup
       {L(<<"v", "n">>), L(<<"v">>), L(<<"v", "n", "n">>), L(<<"v", "x", ":", "do">>),
        L(<<"v", "n", "x", ":", "s">>), L(<<"v", "n", "n", "n">>), L(<<"f", "n">>)}
    [] h \in Queries ->
       Atoms({"v", ":", "do", "n"}) \cup
       {List(<<L(<<"v", "t">>)>>), List(<<L(<<"v", "t">>), L(<<"x", "t", "u">>)>>),
        List(<<L(<<"v", "t">>), L(<<"v", "u">>)>>), List(<<L(<<"?", "t">>)>>),
        List(<<L(<<"v">>)>>), L(<<>>), L(<<"f", "v", ":", "s">>)}
    [] h \in Mutations ->
       Atoms({"v", "n"}) \cup {L(<<"s", "n">>), L(<<"if", "n">>), L(<<"foreach", "x", ":", "s">>)}
    [] OTHER -> Atoms({"v", "$v", ":", "&", "s", "n"}) \cup {L(<<"&", "v">>), L(<<":", "v">>)}

PatternItems(h) ==
  IF h = "r" THEN Atoms({"v", "n", "&", "|", "~", ":", "g"})
  ELSE Atoms({"x", "<-"}) \cup
       {Rel, List(<<FormAtom("not"), Rel>>), List(<<FormAtom("not")>> \o BoundRel),
        List(<<FormAtom("and")>> \o BoundRel),
        List(<<FormAtom("and"), List(<<FormAtom("or")>> \o BoundRel), Rel>>),
        List(<<FormAtom("exists"), List(<<FormAtom("and"), Rel>> \o BoundRel)>>),
        L(<<"test", "n">>)}

ConstructItems(h) ==
  CASE h = "defrule" ->
       Atoms({"s", "=>", "x", "<-"}) \cup
       {Rel, Dec(<<Sal("n")>>), Dec(<<Sal("big")>>), Dec(<<Focus("TRUE")>>), Dec(<<Focus("n")>>),
        Dec(<<Focus("FALSE"), Sal("v")>>), Dec(<<>>)}
    [] h = "deffacts" ->
       Atoms({"s", "c"}) \cup
       {Rel, L(<<"a", "n", "v">>), L(<<"a", ":">>), InFact(L(<<"f", "n">>)),
        InFact(L(<<"while", "n", "do", "n">>)), InFact(L(<<"if", "n">>)),
        InFact(List(<<FormAtom("progn$"), L(<<"v", "n">>), FormAtom("n")>>)),
        List(<<FormAtom("a"), List(<<FormAtom("loop-for-count"), List(<<FormAtom("v"), L(<<"f">>)>>)>>),
               L(<<"s", "n">>)>>),
        List(<<FormAtom("a"), List(<<FormAtom("loop-for-count"), L(<<"v", "n">>)>>), L(<<"s", ":">>)>>)}
    [] h \in {"deffunction", "defmethod"} ->
       Atoms({"s", "c", "n", "v", ":"}) \cup
       {L(<<>>), L(<<"v">>), L(<<"v", "$v">>), L(<<"$v", "v">>), L(<<"v", "v">>), L(<<"?">>),
        List(<<L(<<"v", "I">>), L(<<"x", "I", "F">>)>>), List(<<L(<<"v">>)>>),
        List(<<List(<<FormAtom("$v"), FormAtom("I"), L(<<"f", "v">>)>>), FormAtom("x")>>),
        List(<<FormAtom("x"), List(<<FormAtom("$v"), L(<<"f", "v">>)>>)>>),
        List(<<L(<<"v", "g">>)>>), List(<<L(<<"v", "g", "I">>)>>), List(<<L(<<"v", "n">>)>>)}
    [] h = "defglobal" -> Atoms({"s", "g", "=", "n"}) \cup {L(<<"f">>), L(<<":">>)}
    [] h = "defgeneric" -> Atoms({"s", "c", "n"})
    [] h = "defmodule" ->
       Atoms({"s", "c", "n"}) \cup
       {L(<<>>), L(<<"export">>), L(<<"export", "?ALL">>), L(<<"export", "t", "?NONE", "n">>),
        L(<<"export", "t", "a", "b">>), L(<<"export", "t", "n">>), L(<<"import", "m">>),
        L(<<"import", "m", "?ALL">>), L(<<"import", "m", "t", "a">>), L(<<"import", "v", "?ALL">>),
        L(<<"other", "?ALL">>)}
    [] OTHER ->
       Atoms({"n"}) \cup
       {L(<<>>), L(<<"n">>), L(<<"defgeneric", "s">>), L(<<"defgeneric", "n">>),
        L(<<"defclass", "s">>), L(<<"defrule", "s", "=>">>), L(<<"defglobal", "g", "=", "n">>),
        Params(List(<<FormAtom("f"), L(<<"f">>)>>)),
        Params(List(<<FormAtom("f"), List(<<FormAtom("f"), L(<<"f">>)>>)>>))}

MCItems(h) ==
  CASE h \in ActionHeads -> ActionItems(h)
    [] h \in PatternHeads -> PatternItems(h)
    [] OTHER -> ConstructItems(h)

MCMaxItems(h) ==
  CASE h \in {"r", "defglobal"} -> 6
    [] h \in {"if", "while", "foreach", "f"} -> 5
    [] h \in {"progn$", "deffacts", "defmodule"} -> 3
    [] OTHER -> 4

-----------------------------------------------------------------------------
(* SlotForms. *)

Attr(name, vals) == [name |-> name, vals |-> vals]
TypeName(name) == [k |-> "type", id |-> name, sub |-> <<>>]
I(n) == V("int", 2 * n)
F(halves) == V("flt", halves)
SymA == V("sym", 1)
StrA == V("str", 1)
Mark(m) == [k |-> m, id |-> 0, sub |-> <<>>]
Create(s) == [k |-> "create$", id |-> 0, sub |-> s]

MCValues == {V("sym", 0), SymA, StrA, I(1), I(2), I(5), F(2), F(3), F(0), F(NegativeZero), F(8),
             V("inst", 1), V("fact", 0), V("ext", 0)}

MCAttributes ==
  {Attr("type", <<Variable>>), Attr("type", <<TypeName("sym")>>), Attr("type", <<TypeName("NUMBER")>>),
   Attr("type", <<TypeName("ext")>>),
   Attr("type", <<>>), Attr("type", <<TypeName("LEXEME"), TypeName("flt")>>),
   Attr("symbols", <<SymA>>), Attr("lexemes", <<SymA, StrA>>), Attr("symbols", <<Variable>>),
   Attr("floats", <<F(0), F(3)>>), Attr("integers", <<I(1)>>),
   Attr("numbers", <<I(1), F(NegativeZero)>>), Attr("values", <<SymA, I(1)>>),
   Attr("values", <<V("inst", 1)>>), Attr("values", <<Variable>>), Attr("symbols", <<I(1)>>),
   Attr("range", <<I(1), I(2)>>), Attr("range", <<F(3), F(3)>>), Attr("range", <<I(5), F(8)>>),
   Attr("range", <<Variable, F(3)>>), Attr("range", <<I(2), I(1)>>), Attr("range", <<I(1)>>),
   Attr("cardinality", <<I(1), I(2)>>), Attr("cardinality", <<Variable, I(1)>>),
   Attr("cardinality", <<I(2), I(1)>>),
   Attr("default", <<Mark("?NONE")>>), Attr("default", <<Mark("?NONE"), SymA>>),
   Attr("default", <<SymA>>), Attr("default", <<Create(<<SymA, StrA>>)>>),
   Attr("default-dynamic", <<Mark("expr")>>), Attr("other", <<>>)}

-----------------------------------------------------------------------------
(* ScopeChecks. *)

W(at, form) == [at |-> at, form |-> form]
Bind(x, exp) == Call("bind", <<Var(x), exp>>)

MCSimple ==
  {Var("x"), Lit("str"), Lit("t"), Lit("q"), Bind("x", Lit("int")), Call("u", <<>>),
   Call("break", <<>>), Call("return", <<>>), Call("slot-ref", <<Var("x"), Lit("s")>>),
   Call("assert", <<Call("t", <<Call("m", <<>>)>>)>>)}

MCWraps ==
  {W("body", Form("if", <<Lit("int")>>, <<>>, <<<<>>, <<Var("x")>>>>)),
   W("body", Form("while", <<Var("e")>>, <<>>, <<<<>>>>)),
   W("body", Form("count", <<Lit("int")>>, <<"x">>, <<<<>>>>)),
   W("head", Form("progn$", <<Lit("int")>>, <<"y", "x">>, <<<<Bind("y", Lit("int"))>>>>)),
   W("body", Query("do", <<"x">>, <<Lit("t")>>, Lit("int"), <<>>)),
   W("head", Query("find", <<"x">>, <<Lit("t")>>, Var("x"), <<>>)),
   W("pred", Query("find", <<"x">>, <<Lit("t")>>, Lit("int"), <<>>)),
   W("pred", Query("do", <<"y", "y">>, <<Lit("t"), Lit("r")>>, Lit("int"), <<>>)),
   W("guard", Switch(Var("e"), Lit("int"), <<Bind("x", Lit("int"))>>)),
   W("head", Call("f", <<Lit("int")>>)),
   W("head", Call("evenp", <<Lit("int")>>)),
   W("head", Call("progn", <<Lit("int")>>)),
   W("head", Call("expand$", <<Lit("int")>>)),
   W("head", Bind("x", Lit("int"))),
   W("inner", Call("assert", <<Call("r", <<>>)>>)),
   W("inner", Call("assert", <<Call("t", <<>>)>>)),
   W("inner", Call("modify", <<Var("e"), Call("s", <<>>)>>))}

-----------------------------------------------------------------------------
(* LoadPasses. Sources of three forms out of a few of every kind. *)

Source(kind, name, module, fails, does, events) ==
  [kind |-> kind, name |-> name, module |-> module, fails |-> fails, does |-> does,
   events |-> events, names |-> <<>>, failsAt |-> 0, facts |-> <<>>]
Dcl == [is |-> "declare", rel |-> "r"]
Qry == [is |-> "query", rel |-> "r"]
ModuleForms == {Source("module", "A", "", "", "", <<>>), Source("module", "B", "", "declare", "", <<>>)}
RuleForms == {Source("rule", "x", "", "", "", <<Dcl>>), Source("rule", "x", "", "compile", "", <<>>),
              Source("rule", "x", "MAIN", "", "", <<Qry>>)}
FactForms == {Source("facts", "s", "", "", "", <<Dcl>>), Source("facts", "s", "", "compile", "", <<>>)}
TemplateForms == {Source("template", "r", "", "", "", <<>>), Source("template", "r", "MAIN", "", "reset", <<>>),
                  Source("template", "r", "", "declare", "", <<>>),
                  Source("template", "r", "", "register", "", <<Dcl>>)}
Global(ns, at, does) ==
  [Source("global", "", "", "", does, <<>>) EXCEPT !.names = ns, !.failsAt = at]
GlobalForms == {Global(<<"g", "h">>, 0, ""), Global(<<"h", "g">>, 2, ""), Global(<<"g">>, 0, "build"),
                Global(<<"g">>, 0, "reset")}
Fact(facts, does, events) == [Source("assert", "", "", "", does, events) EXCEPT !.facts = facts]
AssertForms == {Fact(<<"ok">>, "reset", <<Qry>>), Fact(<<"ok", "static">>, "", <<Dcl>>),
                Fact(<<"ok", "eval">>, "build", <<Qry>>)}
SourceForms ==
  ModuleForms \cup RuleForms \cup FactForms \cup TemplateForms \cup GlobalForms \cup AssertForms \cup
  {Source("callable", "f", "", "", "", <<Qry, Dcl>>), Source("unknown", "", "", "", "", <<>>),
   Source("atom", "", "", "", "", <<>>)}
MCSources == [1..3 -> SourceForms]
MCReloads == {<<f>> : f \in RuleForms \cup TemplateForms} \cup {<<Source("facts", "s", "", "", "", <<Dcl>>)>>}
MCSnippets == {Source("module", "A", "", "", "", <<>>), Source("rule", "x", "", "", "", <<Qry>>),
               Source("facts", "s", "", "", "", <<Dcl>>)}

-----------------------------------------------------------------------------
(* CallableLoad. "A" sees the functions of "B", "B" the generics of "A", and   *)
(* "C" the functions of both.                                                 *)

MCMaxDefs == <<2, 3>>
MCKeys == {<<"A", "f">>, <<"A", "g">>, <<"B", "g">>, <<"C", "h">>}
MCVisible == {<<"A", "B", "deffunction">>, <<"B", "A", "defgeneric">>,
              <<"C", "A", "deffunction">>, <<"C", "B", "deffunction">>}
Calls(n) == [name |-> n]
InModule(m, n) == [module |-> m, name |-> n]
Def(k, m, n, cs, qs, i) ==
  [kind |-> k, module |-> m, name |-> n, calls |-> cs, queries |-> qs, index |-> i]
MCDefinitions ==
  {Def("deffunction", "A", "f", {Calls("g")}, {}, 0),
   Def("deffunction", "A", "f", {}, {InModule("B", "g")}, 0),
   Def("deffunction", "A", "g", {Calls("f")}, {}, 0),
   Def("deffunction", "B", "g", {}, {InModule("A", "f")}, 0),
   Def("defmethod", "B", "g", {}, {InModule("A", "f")}, 0),
   Def("defmethod", "A", "f", {}, {Calls("g")}, 1),
   Def("defmethod", "A", "f", {}, {}, 0),
   Def("deffunction", "C", "h", {}, {Calls("g")}, 0),
   Def("defgeneric", "A", "g", {}, {}, 0)}

-----------------------------------------------------------------------------
(* RuleConditions and ConstraintLowering, each with two vocabularies. *)

PatA == [rel |-> "a", var |-> "x", gen |-> "none"]
PatB == [rel |-> "b", var |-> "x", gen |-> "or"]
PatC == [rel |-> "b", var |-> "y", gen |-> "complex"]
MCPatterns == {PatA, PatB, PatC}
MCFacts == {[rel |-> "a", val |-> 1], [rel |-> "b", val |-> 0], [rel |-> "b", val |-> 1]}

\* Patterns that share their variable; with those of a variable of their own
\* beside them, conditions are a node shorter.
Without(p, v) == Last(lhs') \notin {Pat(p), Assigned(p), Test(Asks(v))}

MCMinInt == -1
MCNames == <<"x", "y">>
MCLiterals == {Datum("int", 1), Datum("str", 1)}

\* Comparisons and return values over two variables; alternatives of literals
\* and comparisons over one, longer ones behind a comparison.
Newest == IF Last(fields') = <<>> THEN "none" ELSE Last(Last(fields')).k
Compared ==
  /\ LoweringWritten' <= 3 /\ Newest \notin {"lit", "nlit", "or"}
  /\ LoweringWritten' = 3 => Newest \notin {"var", "nvar"}
Alternated ==
  /\ LoweringWritten' > 3 => Head(Head(fields')).k = "pred"
  /\ Newest \notin {"nvar", "ret", "lex"} /\ operand'.a = <<>>
  /\ Newest \in {"lit", "nlit"} => Last(Last(fields')).v = Datum("int", 1)
  /\ \A i \in DOMAIN fields' : \A j \in DOMAIN fields'[i] :
       fields'[i][j].x # "y" /\ fields'[i][j].op \in {"", ">"}

-----------------------------------------------------------------------------
(* One component at a time. *)

FormHeads == [p \in {"actions", "patterns", "constructs"} |->
  CASE p = "actions" -> ActionHeads [] p = "patterns" -> PatternHeads [] OTHER -> ConstructHeads]

NoLoad ==
  /\ loads = 0 /\ current = 0 /\ depth = 0 /\ relations = 0 /\ rules = 0 /\ seeds = 0
  /\ globals = 0 /\ asserted = 0 /\ errors = 0 /\ done = 0 /\ history = 0 /\ layouts = 0 /\ bodies = 0

NoCallables ==
  /\ functions = 0 /\ generics = 0 /\ pending = 0 /\ valid = 0 /\ originals = 0
  /\ phase = 0 /\ chosen = 0 /\ callableLoads = 0

Init ==
  /\ part \in Parts
  /\ IF part = "text" THEN TextInit ELSE src = 0
  /\ IF part \in DOMAIN FormHeads THEN FormInit /\ head \in FormHeads[part] ELSE head = 0 /\ items = 0
  /\ IF part = "slots" THEN SlotInit ELSE slot_type = 0 /\ attrs = 0
  /\ IF part = "scopes" THEN ScopeInit ELSE es = 0 /\ steps = 0
  /\ IF part = "load" THEN LoadInit ELSE NoLoad
  /\ IF part = "callables" THEN CallableInit ELSE NoCallables
  /\ IF part \in {"shared", "mixed"} THEN ConditionInit ELSE lhs = 0
  /\ IF part \in {"compared", "alternated"} THEN LoweringInit ELSE fields = 0 /\ operand = 0

vars == <<part, src, formVars, slotVars, scopeVars, loadVars, callableVars, lhs, loweringVars>>

Next ==
  /\ UNCHANGED part
  /\ \/ part = "text" /\ TextNext /\ OneVocabulary
        /\ UNCHANGED <<formVars, slotVars, scopeVars, loadVars, callableVars, lhs, loweringVars>>
     \/ part \in DOMAIN FormHeads /\ FormNext
        /\ UNCHANGED <<src, slotVars, scopeVars, loadVars, callableVars, lhs, loweringVars>>
     \/ part = "slots" /\ SlotNext
        /\ UNCHANGED <<src, formVars, scopeVars, loadVars, callableVars, lhs, loweringVars>>
     \/ part = "scopes" /\ ScopeNext
        /\ UNCHANGED <<src, formVars, slotVars, loadVars, callableVars, lhs, loweringVars>>
     \/ part = "load" /\ LoadNext
        /\ UNCHANGED <<src, formVars, slotVars, scopeVars, callableVars, lhs, loweringVars>>
     \/ part = "callables" /\ CallableNext
        /\ UNCHANGED <<src, formVars, slotVars, scopeVars, loadVars, lhs, loweringVars>>
     \/ part = "shared" /\ ConditionNext /\ Without(PatC, "y")
        /\ UNCHANGED <<src, formVars, slotVars, scopeVars, loadVars, callableVars, loweringVars>>
     \/ part = "mixed" /\ ConditionNext /\ Sizes(lhs') < MaxNodes
        /\ UNCHANGED <<src, formVars, slotVars, scopeVars, loadVars, callableVars, loweringVars>>
     \/ part = "compared" /\ LoweringNext /\ Compared
        /\ UNCHANGED <<src, formVars, slotVars, scopeVars, loadVars, callableVars, lhs>>
     \/ part = "alternated" /\ LoweringNext /\ Alternated
        /\ UNCHANGED <<src, formVars, slotVars, scopeVars, loadVars, callableVars, lhs>>

Spec == Init /\ [][Next]_vars

-----------------------------------------------------------------------------
(* Properties. *)

\* Tokens say where they stand and read again as what they are, the reader
\* resumes after an error where the next form starts, the prompt waits exactly
\* for what the reader still misses, and a form that was read is never read
\* differently when more is typed. Every form means what is written in it, the
\* same inside another form as alone, its declarations in any order, and both
\* readings of an ambiguous construct alike. The exceptions are a change of a
\* slot named like a form, (modify ?f (if ?rest)), which is a pair only in an
\* action of its own (SlotNamedAsForm), and a change of no fact (ChangesNothing).
ReadingExact ==
  /\ [](part = "text" =>
          /\ LinesExact /\ RecoveryExact /\ PromptAgrees /\ Rereads /\ NumbersExact /\ FieldsAgree)
  /\ [](part = "actions" => ReadAsSaid /\ SameInside)
  /\ [](part = "patterns" => FieldsExact /\ LeadingBinds /\ AssignmentsVisible)
  /\ [](part = "constructs" =>
          ShapesExact /\ BothReadings /\ DeclarationsCommute /\ StrictIsPrefix)
  /\ [](part = "slots" =>
          AttributesCommute /\ LoaderAgrees /\ DerivesAllowed /\ LoadJudgesRight)
  /\ [][(part = "text" => FirstIsFinal) /\ (part = "actions" => ReadingStable)]_vars


\* The conditions of a rule, normalised, expanded into variants and compiled,
\* match what the conditions as written do; tests read what is bound, and the
\* estimates that guard the expansion bound its result.
ConditionsExact ==
  /\ part = "shared" => MeaningKept /\ EstimateSound
  /\ part = "mixed" => TestsBound /\ NormalForm /\ SpecificityKept

\* The constraints of a pattern, lowered to alpha tests, join tests and
\* predicates within the budget of the alpha path, accept exactly the facts
\* that the constraints as written do.  The exceptions are facts on which a
\* comparison is not LoweringSettled: equality within a fact of anything but
\* numbers of one type, offsets on other than integers or out of their range.
LoweringExact ==
  part \in {"compared", "alternated"} =>
    PatternsExact /\ LinearExact
=============================================================================
