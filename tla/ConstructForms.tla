---------------------------- MODULE ConstructForms ----------------------------
(***************************************************************************)
(* The reading of one pattern of a rule: relation patterns with connected  *)
(* constraints, whose connectives arrive as elements of their own, and the *)
(* groups of conditional elements around them.                             *)
(*                                                                         *)
(* The precedence is ~ over & over |, except that a field beginning with a *)
(* named variable and & constrains the variable by all that follows.       *)
(***************************************************************************)
EXTENDS ActionForms

NamedVars == (SingleVars \cup MultiVars) \ {"?"}

\* An element that is kept as it is written.
RECURSIVE Raw(_)
Raw(e) == Tree(e.w, << [i \in DOMAIN e.sub |-> Raw(e.sub[i])] \o <<>> >>)

Not1(t) == Tree("not", << <<t>> >>)

\* A constraint of one atom.
interpret_constraint(e) ==
  IF IsList(e) \/ e.w \in Connectives \cup {"g"} THEN <<>> ELSE <<Leaf(e.w)>>

\* What a reader returns: an option of a constraint and how much it took.
Got(t, n) == [t |-> t, n |-> n]
Failed == Got(<<>>, 0)

RECURSIVE parse_unary_expr(_)
Negated(i) == IF i.t = <<>> THEN Failed ELSE Got(<<Not1(i.t[1])>>, 1 + i.n)
parse_unary_expr(es) ==
  IF es = <<>> THEN Failed
  ELSE IF Is(es[1], "~") THEN Negated(parse_unary_expr(Tail(es)))
  ELSE IF es[1].w \in {":", "="}
  THEN IF Len(es) < 2 THEN Failed ELSE Got(<<Tree(es[1].w, << <<Raw(es[2])>> >>)>>, 2)
  ELSE Got(interpret_constraint(es[1]), 1)

\* lhs joined with rhs; a group of the same kind is extended.
ConstructJoined(op, lhs, rhs) ==
  IF lhs.op = op THEN Tree(op, << Append(lhs.parts[1], rhs) >>)
  ELSE Tree(op, << <<lhs, rhs>> >>)

\* What was got, the connective after it and the operand r.
GotBoth(op, got, r) ==
  IF r.t = <<>> THEN Failed
  ELSE Got(<<ConstructJoined(op, got.t[1], r.t[1])>>, got.n + 1 + r.n)

RECURSIVE AndTail(_, _), OrTail(_, _)
AndTail(es, got) ==
  IF got.t = <<>> \/ ~IsAt(es, got.n + 1, "&") THEN got
  ELSE AndTail(es, GotBoth("and", got, parse_unary_expr(From(es, got.n + 2))))

parse_and_expr(es) == AndTail(es, parse_unary_expr(es))

OrTail(es, got) ==
  IF got.t = <<>> \/ ~IsAt(es, got.n + 1, "|") THEN got
  ELSE OrTail(es, GotBoth("or", got, parse_and_expr(From(es, got.n + 2))))

parse_or_expr(es) == OrTail(es, parse_and_expr(es))

ConstrainedVariable(v, r) ==
  IF r.t = <<>> THEN Failed
  ELSE Got(<<Tree("and", << <<Leaf(v)>> \o
               (IF r.t[1].op = "and" THEN r.t[1].parts[1] ELSE r.t) >>)>>, r.n + 2)

interpret_constraint_sequence(es) ==
  IF es # <<>> /\ IsAt(es, 2, "&") /\ es[1].w \in NamedVars
  THEN ConstrainedVariable(es[1].w, parse_or_expr(From(es, 3)))
  ELSE parse_or_expr(es)

\* All constraints of a field list: an option of their sequence.
RECURSIVE Constraints(_)
ConstraintsAfter(es, c) ==
  IF c.t = <<>> THEN <<>>
  ELSE IfRead(Constraints(From(es, c.n + 1)), LAMBDA rest : <<c.t \o rest>>)
Constraints(es) ==
  IF es = <<>> THEN << <<>> >> ELSE ConstraintsAfter(es, interpret_constraint_sequence(es))

is_named_pair_list(e) == IsList(e) /\ e.sub # <<>> /\ IsSymbol(e.sub[1])

is_template_style_fields(es) ==
  es # <<>> /\ \A i \in DOMAIN es : is_named_pair_list(es[i])

interpret_template_pattern(name, es) ==
  LET Slot(e) == Combine(e.sub[1].w, <<Constraints(From(e.sub, 2))>>)
  IN Combine("template-" \o name, <<AllRead([i \in DOMAIN es |-> Slot(es[i])])>>)

interpret_ordered_pattern(name, es) == Combine("ordered-" \o name, <<Constraints(es)>>)

interpret_relation_pattern(e) ==
  LET es == From(e.sub, 2) IN
  IF ~IsSymbol(e.sub[1]) THEN <<>>
  ELSE IF is_template_style_fields(es)
  THEN interpret_template_pattern(e.sub[1].w, es)
  ELSE interpret_ordered_pattern(e.sub[1].w, es)

-----------------------------------------------------------------------------
(* Groups *)

Groups == {"and", "or", "logical", "not", "exists", "forall", "test"}

RECURSIVE interpret_pattern(_, _)

\* The conditional elements of a list: a pattern, or a variable, an arrow and
\* a relation pattern where assignments are allowed.
RECURSIVE interpret_sequence(_, _)
AssignedPattern(v, p) ==
  IF p.op \in Groups \cup {"assigned"} THEN <<>>
  ELSE <<Tree("assigned", << <<Leaf(v)>>, <<p>> >>)>>
\* A pattern before the sequence that starts at i.
PatternThen(p, es, i, bindings) ==
  IfRead(p, LAMBDA t : IfRead(interpret_sequence(From(es, i), bindings),
                              LAMBDA ts : << <<t>> \o ts >>))
interpret_sequence(es, bindings) ==
  IF es = <<>> THEN << <<>> >>
  ELSE IF es[1].w \in SingleVars
  THEN IF ~bindings \/ ~IsAt(es, 2, "<-") \/ Len(es) < 3 THEN <<>>
       ELSE PatternThen(IfRead(interpret_pattern(es[3], bindings), LAMBDA p : AssignedPattern(es[1].w, p)),
                        es, 4, bindings)
  ELSE PatternThen(interpret_pattern(es[1], bindings), es, 2, bindings)

\* The fewest and the most members of a group.
Members(op) ==
  CASE op \in {"and", "or", "exists"} -> [min |-> 1, max |-> 9]
    [] op = "not" -> [min |-> 1, max |-> 1]
    [] op = "forall" -> [min |-> 2, max |-> 9]
    [] OTHER -> [min |-> 0, max |-> 9]

interpret_conditional_pattern(op, es, bindings) ==
  IF op = "test"
  THEN IF es = <<>> THEN <<>> ELSE <<Tree("test", << <<Raw(es[1])>> >>)>>
  ELSE IfRead(interpret_sequence(es, bindings /\ op \in {"and", "or", "logical"}),
              LAMBDA ms : IF Len(ms) \notin Members(op).min..Members(op).max THEN <<>>
                          ELSE <<Tree(op, <<ms>>)>>)

interpret_pattern(e, bindings) ==
  IF ~IsList(e) \/ e.sub = <<>> THEN <<>>
  ELSE IF e.sub[1].w \in Groups
  THEN interpret_conditional_pattern(e.sub[1].w, From(e.sub, 2), bindings)
  ELSE interpret_relation_pattern(e)

-----------------------------------------------------------------------------
(* What the fields of a relation say *)

\* Whether element i is the operand of a : or = before it.
Operand(es) ==
  LET taken[i \in 0..Len(es)] ==
        IF i < 2 THEN FALSE ELSE es[i - 1].w \in {":", "="} /\ ~taken[i - 1]
  IN taken

\* The role of element i in its list.
Role(es, i) ==
  IF Operand(es)[i] THEN "end"
  ELSE IF es[i].w \in {"&", "|"} THEN "binary"
  ELSE IF es[i].w \in {"~", ":", "="} THEN "prefix"
  ELSE IF IsList(es[i]) \/ es[i].w = "g" THEN "bad" ELSE "end"

\* A list is well formed when connectives stand between operands.
WellFormed(es) ==
  \A i \in DOMAIN es :
    /\ Role(es, i) # "bad"
    /\ Role(es, i) = "binary" => i > 1 /\ Role(es, i - 1) = "end"
    /\ Role(es, i) \in {"binary", "prefix"} => i < Len(es)
    /\ Role(es, i) = "prefix" /\ Is(es[i], "~") => Role(es, i + 1) \in {"prefix", "end"}

\* The first elements of the fields.
FieldStarts(es) ==
  {i \in DOMAIN es : /\ Role(es, i) # "binary"
                     /\ i = 1 \/ (i > 1 /\ Role(es, i - 1) = "end")}

\* The truth of the elements a..b of one field when exactly the words of set W
\* hold; a predicate holds by its operand.
RECURSIVE Holds(_, _, _, _)
Holds(es, a, b, W) ==
  LET At1(w) == {i \in a..b : Role(es, i) = "binary" /\ Is(es[i], w)}
  IN IF es[a].w \in NamedVars /\ Role(es, a) = "end" /\ a + 1 \in At1("&")
        /\ a \in FieldStarts(es) /\ ~Operand(es)[a]
     THEN es[a].w \in W /\ Holds(es, a + 2, b, W)
     ELSE IF At1("|") # {}
     THEN Holds(es, a, Max(At1("|")) - 1, W) \/ Holds(es, Max(At1("|")) + 1, b, W)
     ELSE IF At1("&") # {}
     THEN Holds(es, a, Max(At1("&")) - 1, W) /\ Holds(es, Max(At1("&")) + 1, b, W)
     ELSE IF Is(es[a], "~") /\ Role(es, a) = "prefix" THEN ~Holds(es, a + 1, b, W)
     ELSE es[b].w \in W

RECURSIVE TreeHolds(_, _)
TreeHolds(t, W) ==
  CASE t.op = "not" -> ~TreeHolds(t.parts[1][1], W)
    [] t.op = "and" -> \A i \in DOMAIN t.parts[1] : TreeHolds(t.parts[1][i], W)
    [] t.op = "or" -> \E i \in DOMAIN t.parts[1] : TreeHolds(t.parts[1][i], W)
    [] t.op \in {":", "="} -> t.parts[1][1].op \in W
    [] OTHER -> t.op \in W

Words(es) == {es[i].w : i \in DOMAIN es}

-----------------------------------------------------------------------------
\* The connected constraints of a field hold exactly when what is written
\* holds, with ~ over & over | and a leading variable over all; no element is
\* skipped or shared by two fields, and a dangling connective is rejected
\* (interpret_constraint_sequence).
FieldsExact ==
  LET st == SetToSortSeq(FieldStarts(items), <)
      End(k) == IF k = Len(st) THEN Len(items) ELSE st[k + 1] - 1
  IN head = "r" => \A got \in {Constraints(items)} :
       /\ (got # <<>>) = WellFormed(items)
       /\ got # <<>> =>
            /\ Len(got[1]) = Len(st)
            /\ \A k \in DOMAIN st : \A W \in SUBSET Words(items) :
                 TreeHolds(got[1][k], W) = Holds(items, st[k], End(k), W)

\* A variable at the start of a connected field is bound whichever alternative
\* of the field matches: it never ends up inside an or, unless | follows it at
\* once (the comment on interpret_constraint_sequence).
LeadingBinds ==
  LET st == SetToSortSeq(FieldStarts(items), <)
  IN head = "r" => \A got \in Range(Constraints(items)) : \A k \in DOMAIN st :
       items[st[k]].w \in NamedVars =>
         \/ got[k] = Leaf(items[st[k]].w)
         \/ IsAt(items, st[k] + 1, "|")
         \/ got[k].op = "and" /\ got[k].parts[1][1] = Leaf(items[st[k]].w)

\* An assignment is read only where a fact is bound once for the whole rule:
\* never below not, exists or forall, however the groups nest
\* (interpret_conditional_pattern, interpret_sequence).
RECURSIVE AssignedBelow(_, _)
AssignedBelow(t, hidden) ==
  \/ t.op = "assigned" /\ hidden
  \/ \E p \in DOMAIN t.parts : \E i \in DOMAIN t.parts[p] :
       AssignedBelow(t.parts[p][i], hidden \/ t.op \in {"not", "exists", "forall"})

AssignmentsVisible ==
  head \in Groups \ {"test"} =>
    \A p \in Range(interpret_pattern(Written, TRUE)) : ~AssignedBelow(p, FALSE)

-----------------------------------------------------------------------------
(***************************************************************************)
(* The reading of constructs: a program is a list of them, each is read    *)
(* whole or reported, and a strict reader stops at the first report.       *)
(* Optional parts (comments, indexes, module names, declarations) stand    *)
(* before required ones, so each reader keeps a position.                  *)
(*                                                                         *)
(* One construct is written element by element, or a program construct by  *)
(* construct (head "program").                                             *)
(***************************************************************************)

CONSTANT ConstructMaxNesting              \* how deeply lists may nest

NameOf(es) == IF es # <<>> /\ IsSymbol(es[1]) THEN <<Leaf(es[1].w)>> ELSE <<>>

\* The position after a name and an optional comment.
parse_optional_comment(es) == IF IsAt(es, 2, "c") THEN 3 ELSE 2

-----------------------------------------------------------------------------
(* Rules *)

NoDeclarations == [salience |-> <<>>, focus |-> <<>>]

IsDeclare(e) == IsList(e) /\ e.sub # <<>> /\ Is(e.sub[1], "declare")

\* One attribute added to the declarations read so far, as an option.  The
\* word "big" is an integer outside the range of a salience.
DeclaredAs(d, f) ==
  CASE Is(f[1], "salience") /\ d.salience = <<>> /\ ~IsAt(f, 2, "big") ->
         IfRead(interpret_action_expr_inner(f[2]), LAMBDA v : <<[d EXCEPT !.salience = <<v>>]>>)
    [] Is(f[1], "auto-focus") /\ d.focus = <<>> /\ f[2].w \in {"TRUE", "FALSE"} ->
         <<[d EXCEPT !.focus = interpret_action_expr_inner(f[2])]>>
    [] OTHER -> <<>>
Declared(d, e) == IF ~IsList(e) \/ Len(e.sub) # 2 THEN <<>> ELSE DeclaredAs(d, e.sub)

\* The declarations of a sequence of declare forms.
Declarations(es) ==
  FoldLeft(LAMBDA acc, e :
             FoldLeft(LAMBDA a, f : IfRead(a, LAMBDA d : Declared(d, f)),
                      acc, Tail(e.sub)),
           <<NoDeclarations>>, es)

\* The first position from i on that holds no declare form.
AfterDeclares(es, i) ==
  CHOOSE j \in i..(Len(es) + 1) :
    /\ \A k \in i..(j - 1) : IsDeclare(es[k])
    /\ j \in DOMAIN es => ~IsDeclare(es[j])

RuleParts(es, j, a, declared) ==
  IfRead(declared, LAMBDA d :
    Combine("defrule", <<Part(NameOf(es)), <<d.salience>>, <<d.focus>>,
                         interpret_sequence(SubSeq(es, j, a - 1), TRUE),
                         AllRead([k \in 1..(Len(es) - a) |-> interpret_action(es[a + k])])>>))
RuleFrom(es, i, j) ==
  LET arrows == {k \in j..Len(es) : Is(es[k], "=>")}
  IN IF arrows = {} THEN <<>>
     ELSE RuleParts(es, j, Min(arrows), Declarations(SubSeq(es, i, j - 1)))
interpret_rule(es) ==
  LET i == parse_optional_comment(es) IN RuleFrom(es, i, AfterDeclares(es, i))
-----------------------------------------------------------------------------
(* Facts *)

\* A value of a fact.
interpret_fact_value(e) == interpret_action_expr_inner(e)

\* The values of a list of elements, one by one.
FactValues(es) == AllRead([i \in DOMAIN es |-> interpret_fact_value(es[i])])

\* A slot: its name, its values, and what the list is as an expression.
interpret_fact_slot_value(e) ==
  IfRead(FactValues(Tail(e.sub)), LAMBDA vs :
    <<Tree(e.sub[1].w, <<vs, interpret_action_expr_inner(e)>>)>>)

interpret_template_fact(name, es) ==
  Combine("slots-" \o name, <<AllRead([i \in DOMAIN es |-> interpret_fact_slot_value(es[i])])>>)

interpret_ordered_fact(name, es) == Combine("fields-" \o name, <<FactValues(es)>>)

OrElse(first, second) == IF first # <<>> THEN first ELSE second
interpret_fact_body(e) ==
  LET es == From(e.sub, 2) IN
  IF ~IsList(e) \/ NameOf(e.sub) = <<>> THEN <<>>
  ELSE OrElse(IF is_template_style_fields(es) THEN interpret_template_fact(e.sub[1].w, es) ELSE <<>>,
              interpret_ordered_fact(e.sub[1].w, es))

interpret_facts(es) ==
  LET i == parse_optional_comment(es)
  IN Combine("deffacts", <<Part(NameOf(es)),
                           AllRead([k \in 1..(Len(es) + 1 - i) |-> interpret_fact_body(es[i + k - 1])])>>)
-----------------------------------------------------------------------------
(* Functions, methods and generics *)

\* The parameters of a function: an option of <<parameters, wildcard>>.
FunctionParameters(ps) ==
  FoldLeft(LAMBDA acc, p :
             IF acc = <<>> THEN <<>>
             ELSE IF acc[1].wild # <<>> THEN <<>>
             ELSE IF p.w \in SingleVars THEN <<[acc[1] EXCEPT !.params = Append(@, Leaf(p.w))]>>
             ELSE IF p.w \in MultiVars THEN <<[acc[1] EXCEPT !.wild = <<Leaf(p.w)>>]>>
             ELSE <<>>,
           <<[params |-> <<>>, wild |-> <<>>]>>, ps)

FunctionOf(es, ps, body) ==
  IfRead(ps, LAMBDA p : Combine("deffunction", <<Part(NameOf(es)), <<p.params>>, <<p.wild>>, body>>))
interpret_function(es) ==
  LET i == parse_optional_comment(es)
  IN FunctionOf(es, IF i \in DOMAIN es /\ IsList(es[i]) THEN FunctionParameters(es[i].sub) ELSE <<>>,
                interpret_action_expr_sequence(From(es, i + 1)))

\* A parameter of a method: its name, its types and its query.
interpret_method_parameter(p) ==
  IF p.w \in SingleVars \cup MultiVars THEN <<Tree(p.w, << <<>>, <<>> >>)>>
  ELSE LET f == IF IsList(p) THEN p.sub ELSE <<>>
           last == f[Len(f)]
           query == Len(f) > 1 /\ (IsList(last) \/ Is(last, "g"))
           types == SubSeq(f, 2, IF query THEN Len(f) - 1 ELSE Len(f))
           q == IF query THEN interpret_action_expr_inner(last) ELSE <<>>
       IN IF Len(f) < 2 THEN <<>>
          ELSE IF \/ f[1].w \notin SingleVars \cup MultiVars
                  \/ \E i \in DOMAIN types : ~IsSymbol(types[i])
                  \/ query /\ q = <<>>
          THEN <<>>
          ELSE <<Tree(f[1].w, << [i \in DOMAIN types |-> Leaf(types[i].w)] \o <<>>, q>>)>>

\* The parameters of a method: named, distinct, a wildcard only in the last
\* place.
Distinct(names, ps) ==
  IF \/ \E i, j \in DOMAIN names : i < j /\ names[i].op = names[j].op
     \/ \E i \in DOMAIN names : names[i].op = "?"
     \/ \E i \in DOMAIN ps : i < Len(ps) /\ names[i].op \in MultiVars
  THEN <<>> ELSE <<names>>
MethodParameters(ps) ==
  IfRead(AllRead([i \in DOMAIN ps |-> interpret_method_parameter(ps[i])]),
         LAMBDA names : Distinct(names, ps))

interpret_method(es) ==
  LET i == IF IsAt(es, 2, "n") THEN 3 ELSE 2
  IN Combine("defmethod",
             <<Part(NameOf(es)),
               IF i \in DOMAIN es /\ IsList(es[i]) THEN MethodParameters(es[i].sub) ELSE <<>>,
               interpret_action_expr_sequence(From(es, i + 1))>>)

interpret_generic(es) ==
  IF NameOf(es) = <<>> \/ parse_optional_comment(es) <= Len(es) THEN <<>>
  ELSE <<Tree("defgeneric", <<NameOf(es)>>)>>

-----------------------------------------------------------------------------
(* Globals and modules *)

RECURSIVE GlobalsFrom(_)
GlobalsFrom(es) ==
  IF es = <<>> THEN << <<>> >>
  ELSE IF Len(es) < 3 \/ ~Is(es[1], "g") \/ ~IsAt(es, 2, "=") THEN <<>>
  ELSE IfRead(interpret_action_expr_inner(es[3]), LAMBDA value :
         IfRead(GlobalsFrom(From(es, 4)), LAMBDA rest : << <<value>> \o rest >>))
interpret_global(es) ==
  IfRead(GlobalsFrom(IF es # <<>> /\ IsSymbol(es[1]) THEN Tail(es) ELSE es),
         LAMBDA defs : IF defs = <<>> THEN <<>> ELSE <<Tree("defglobal", <<defs>>)>>)

Wildcards == {"?ALL", "?NONE"}

\* A specification of names: a wildcard ends it, whatever follows.
interpret_module_spec(es) ==
  LET stops == {i \in 2..Len(es) : es[i].w \in Wildcards}
      named == IF stops = {} THEN Tail(es) ELSE SubSeq(es, 2, Min(stops) - 1)
  IN IF es = <<>> THEN <<>>
     ELSE IF es[1].w \in Wildcards THEN <<Leaf(es[1].w)>>
     ELSE IF ~IsSymbol(es[1]) \/ \E i \in DOMAIN named : ~IsSymbol(named[i]) THEN <<>>
     ELSE <<Tree(es[1].w, << IF stops # {} THEN <<Leaf(es[Min(stops)].w)>>
                             ELSE [i \in DOMAIN named |-> Leaf(named[i].w)] \o <<>> >>)>>

interpret_import_spec(es) ==
  IF NameOf(es) = <<>> THEN <<>>
  ELSE Combine("import", <<Part(NameOf(es)), Part(interpret_module_spec(Tail(es)))>>)

\* One specification of a module.
ModulePart(e) ==
  IF ~IsList(e) \/ e.sub = <<>> THEN <<>>
  ELSE IF Is(e.sub[1], "export")
  THEN Combine("export", <<Part(interpret_module_spec(Tail(e.sub)))>>)
  ELSE IF Is(e.sub[1], "import") THEN interpret_import_spec(Tail(e.sub)) ELSE <<>>

ModuleRead(name, parts) ==
  LET Kind(op) == SelectSeq(parts, LAMBDA t : t.op = op)
  IN IF name = <<>> THEN <<>>
     ELSE <<Tree("defmodule", <<name, Kind("export"), Kind("import")>>)>>
interpret_module(es) ==
  LET specs == From(es, parse_optional_comment(es))
  IN IfRead(AllRead([k \in DOMAIN specs |-> ModulePart(specs[k])]),
            LAMBDA parts : ModuleRead(NameOf(es), parts))
-----------------------------------------------------------------------------
(* Programs *)

Keywords == {"defrule", "deffacts", "deffunction", "defglobal", "defmodule",
             "defgeneric", "defmethod"}

RECURSIVE Depth(_)
Depth(e) ==
  IF ~IsList(e) THEN 0
  ELSE 1 + Max({0} \cup {Depth(e.sub[i]) : i \in DOMAIN e.sub})

nesting_depth_violation(e) == Depth(e) > ConstructMaxNesting

ConstructOf(keyword, es) ==
  CASE keyword = "defrule" -> interpret_rule(es)
    [] keyword = "deffacts" -> interpret_facts(es)
    [] keyword = "deffunction" -> interpret_function(es)
    [] keyword = "defglobal" -> interpret_global(es)
    [] keyword = "defmodule" -> interpret_module(es)
    [] keyword = "defgeneric" -> interpret_generic(es)
    [] keyword = "defmethod" -> interpret_method(es)
    [] OTHER -> <<>>

\* One top-level element.
interpret_construct(e) ==
  IF nesting_depth_violation(e) \/ ~IsList(e) \/ e.sub = <<>> THEN <<>>
  ELSE IF ~IsSymbol(e.sub[1]) THEN <<>>
  ELSE ConstructOf(e.sub[1].w, Tail(e.sub))

\* The constructs and the elements reported; a strict reader stops at the
\* first report (push_interpret_error).
Taken(acc, e, c) ==
  IF c # <<>> THEN [acc EXCEPT !.constructs = @ \o c] ELSE [acc EXCEPT !.errors = Append(@, e)]
interpret_constructs(es, strict) ==
  FoldLeft(LAMBDA acc, e : IF strict /\ acc.errors # <<>> THEN acc
                           ELSE Taken(acc, e, interpret_construct(e)),
           [constructs |-> <<>>, errors |-> <<>>], es)
-----------------------------------------------------------------------------
(* What constructs say *)

AllSymbols(es) == \A i \in DOMAIN es : IsSymbol(es[i])
Reads(e) == interpret_action_expr_inner(e) # <<>>
ReadsAll(es) == Said(es, 1, Len(es)) # <<>>

\* The elements after the name and a comment.
RestOf(es) == From(es, IF IsAt(es, 2, "c") THEN 3 ELSE 2)

\* Which constructs are well formed.
SpecShape(es) ==
  /\ es # <<>>
  /\ \E w \in 1..(Len(es) + 1) :          \* a wildcard, or the end
       /\ AllSymbols(SubSeq(es, 1, w - 1))
       /\ w \in DOMAIN es => es[w].w \in Wildcards

VarName(p) == IF IsList(p) THEN p.sub[1].w ELSE p.w

MethodShape(ps) ==
  /\ \A i \in DOMAIN ps :
       \/ ps[i].w \in SingleVars \cup MultiVars
       \/ /\ IsList(ps[i]) /\ Len(ps[i].sub) >= 2
          /\ LET f == ps[i].sub
             IN /\ f[1].w \in SingleVars \cup MultiVars
                /\ AllSymbols(SubSeq(f, 2, Len(f) - 1))
                /\ \/ IsSymbol(f[Len(f)])
                   \/ (IsList(f[Len(f)]) \/ Is(f[Len(f)], "g")) /\ Reads(f[Len(f)])
  /\ \A i, j \in DOMAIN ps :
       /\ VarName(ps[i]) # "?"
       /\ i < j => VarName(ps[i]) # VarName(ps[j]) /\ VarName(ps[i]) \notin MultiVars

Shape(keyword, es) ==
  /\ keyword # "defglobal" => es # <<>> /\ IsSymbol(es[1])
  /\ LET r == RestOf(es) IN
     CASE keyword = "deffunction" ->
            /\ r # <<>> /\ IsList(r[1])
            /\ \A i \in DOMAIN r[1].sub :
                 r[1].sub[i].w \in SingleVars \cup (IF i = Len(r[1].sub) THEN MultiVars ELSE {})
            /\ ReadsAll(Tail(r))
       [] keyword = "defmethod" ->
            LET m == From(es, IF IsAt(es, 2, "n") THEN 3 ELSE 2)
            IN m # <<>> /\ IsList(m[1]) /\ MethodShape(m[1].sub) /\ ReadsAll(Tail(m))
       [] keyword = "defgeneric" -> r = <<>>
       [] keyword = "defglobal" ->
            LET g == SelectInSeq(es, LAMBDA e : Is(e, "g"))
            IN /\ g \in {1, 2} /\ (g = 2 => IsSymbol(es[1]))
               /\ (Len(es) - g) % 3 = 2
               /\ \A i \in g..Len(es) :
                    CASE (i - g) % 3 = 0 -> Is(es[i], "g")
                      [] (i - g) % 3 = 1 -> Is(es[i], "=")
                      [] OTHER -> Reads(es[i])
       [] keyword = "defmodule" ->
            \A i \in DOMAIN r :
              /\ IsList(r[i]) /\ r[i].sub # <<>>
              /\ \/ Is(r[i].sub[1], "export") /\ SpecShape(Tail(r[i].sub))
                 \/ /\ Is(r[i].sub[1], "import") /\ Len(r[i].sub) >= 3
                    /\ IsSymbol(r[i].sub[2]) /\ SpecShape(From(r[i].sub, 3))
       [] OTHER -> TRUE

-----------------------------------------------------------------------------
\* A construct is accepted exactly when it has its shape: optional parts never
\* shift the required ones, wildcards come last, names of method parameters
\* are distinct and the triplets of globals are complete (the construct
\* readers of the second stage).  Rules and facts are left to
\* DeclarationsCommute and BothReadings.
ShapesExact ==
  head \in Keywords \ {"defrule", "deffacts"} =>
    (ConstructOf(head, items) # <<>>) = Shape(head, items)

\* A fact of named lists can be read as slots or as fields.  It is rejected
\* only when neither reading exists, and when it is read as slots, the fields
\* it would have without its template are kept with the slots
\* (interpret_fact_body, ordered_expression).
BothReadings ==
  head = "deffacts" => \A e \in Range(From(items, 2)) :
    IsList(e) /\ e.sub # <<>> /\ IsSymbol(e.sub[1]) =>
      \A fact \in {interpret_fact_body(e)}, fields \in {FactValues(Tail(e.sub))} :
        /\ fields # <<>> => fact # <<>>
        /\ fact # <<>> /\ fact[1].op = "slots-" \o e.sub[1].w =>
             fields = AllRead([k \in DOMAIN fact[1].parts[1] |-> fact[1].parts[1][k].parts[2]])

\* The declarations of a rule mean the same in every order and in every split
\* into declare forms, and one given twice is rejected wherever it stands
\* (rule_declarations::interpret).
DeclarationsCommute ==
  LET j == AfterDeclares(items, 2)
      ds == SubSeq(items, 2, j - 1)
      one == List(<<FormAtom("declare")>> \o FlattenSeq([i \in DOMAIN ds |-> Tail(ds[i].sub)] \o <<>>))
      With(seq) == interpret_rule(<<items[1]>> \o seq \o From(items, j))
  IN head = "defrule" /\ items # <<>> /\ Len(ds) >= 2 =>
       Cardinality({With(seq) : seq \in {ds, Reverse(ds), <<one>>}}) = 1

\* A strict reader gives what a lenient one gives up to the first report, and
\* reports nothing else; a lenient one accounts for every element, and the
\* constructs of a program do not depend on what follows them
\* (interpret_constructs).
StrictIsPrefix ==
  head = "program" =>
    \A read \in {[strict \in BOOLEAN, n \in 0..Len(items) |->
                    interpret_constructs(SubSeq(items, 1, n), strict)]} :
      LET s == read[TRUE, Len(items)]
          l == read[FALSE, Len(items)] IN
      /\ IsPrefix(s.constructs, l.constructs)
      /\ Len(s.errors) <= 1 /\ IsPrefix(s.errors, l.errors)
      /\ s.errors = <<>> => l.errors = <<>>
      /\ Len(l.constructs) + Len(l.errors) = Len(items)
      /\ \A n \in 0..Len(items) :
           IF read[FALSE, n].errors = <<>>
           THEN IsPrefix(read[FALSE, n].constructs, s.constructs)
           ELSE Len(s.constructs) < n
=============================================================================
