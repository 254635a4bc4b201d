---------------------------- MODULE ScopeChecks ----------------------------
(***************************************************************************)
(* The checks of expressions before they are kept: names of callables and  *)
(* numbers of arguments, places of break, return and expand$, rebinding of *)
(* loop and query variables, reads of variables, declarations of queries   *)
(* and slots of asserted facts.  Each check is a walk of its own over the  *)
(* same tree, and each kind of source runs its own selection of them.      *)
(*                                                                         *)
(* The reference is one walk over what the evaluator evaluates, which      *)
(* gives every expression the scopes it stands in, and the sets of         *)
(* variables that runs may have bound before a read.                       *)
(***************************************************************************)
EXTENDS Integers, Sequences, SequencesExt, FiniteSets

CONSTANTS
  Simple,      \* expressions a program may add
  Wraps,       \* forms a program may put around what it has
  ScopeKinds,  \* kinds of source
  MaxSteps     \* bound on the size of a program

ASSUME ScopeChecksAssumption == MaxSteps \in Nat

VARIABLES es, steps
scopeVars == <<es, steps>>

\* An expression: a literal, a variable, a call with its arguments in heads, or
\* a form with its operands, the names it brings into scope, the predicate of a
\* query, and arms that have a guard in a switch.
Exp(op, nm, heads, names, pred, arms) ==
  [op |-> op, nm |-> nm, heads |-> heads, names |-> names, pred |-> pred, arms |-> arms]
Lit(t) == Exp("lit", t, <<>>, <<>>, <<>>, <<>>)
Var(x) == Exp("var", x, <<>>, <<>>, <<>>, <<>>)
Call(f, args) == Exp("call", f, args, <<>>, <<>>, <<>>)
Form(op, heads, names, bodies) ==
  Exp(op, op, heads, names, <<>>, [i \in DOMAIN bodies |-> [guard |-> <<>>, body |-> bodies[i]]])
Switch(sel, guard, body) == Exp("switch", "switch", <<sel>>, <<>>, <<>>,
                                <<[guard |-> <<guard>>, body |-> body]>>)
Query(nm, members, restrictions, pred, body) ==
  Exp("query", nm, restrictions, members, <<pred>>, <<[guard |-> <<>>, body |-> body]>>)

IsCall(e) == e.op = "call"
Flat(s) == FlattenSeq(s \o <<>>)
Guards(e) == Flat([i \in DOMAIN e.arms |-> e.arms[i].guard])
Actions(e) == Flat([i \in DOMAIN e.arms |-> e.arms[i].body])
Operands(e) == e.heads \o e.pred \o Guards(e)

push_children(e) == Operands(e) \o Actions(e)

\* The variable a call binds: no name or one.
BindOf(e) ==
  IF IsCall(e) /\ e.nm = "bind" /\ e.heads # <<>> /\ e.heads[1].op = "var"
  THEN {e.heads[1].nm} ELSE {}

-----------------------------------------------------------------------------
(* What there is to call and to assert *)

Known == {"f", "bind", "progn", "return", "break", "expand$", "assert", "modify", "evenp",
          "printout", "slot-ref"}
is_effect(f) == f \in {"assert", "modify"}
is_rule_action_builtin(f) == f \in {"assert", "modify", "printout", "return", "break"}
is_rule_action_wrapper(f) == f \in {"progn", "form"}
is_result_query(f) == f = "find"
allows_sequence_arguments(f) == f \notin {"progn", "return", "expand$", "assert", "modify"}
Relations == {"t", "r"}                  \* t is a template, r an ordered relation
Templates == {"t"}
SlotsOf == [t |-> {"s", "m"}]
Single == {"s"}
Required == {"s"}                        \* slots declared (default ?NONE)

\* The bounds on the number of arguments and the literals they may be.
restrictions(f) ==
  CASE f = "evenp" -> [min |-> 1, max |-> 1, lits |-> {"int"}]
    [] f = "expand$" -> [min |-> 1, max |-> 1, lits |-> {}]
    [] f = "printout" -> [min |-> 1, max |-> 9, lits |-> {"int", "str", "t", "r", "q"}]
    [] OTHER -> [min |-> 0, max |-> 9, lits |-> {"int", "str", "t", "r", "q"}]

validate_arity(f, n) == restrictions(f).min <= n /\ n <= restrictions(f).max

\* Arguments that are expanded are counted when the call runs.
validate_call(c) ==
  \/ \E i \in DOMAIN c.heads : IsCall(c.heads[i]) /\ c.heads[i].nm = "expand$"
  \/ /\ validate_arity(c.nm, Len(c.heads))
     /\ \A i \in DOMAIN c.heads :
          c.heads[i].op = "lit" => c.heads[i].nm \in restrictions(c.nm).lits

SlotValues(fs) == Flat([i \in DOMAIN fs |-> IF IsCall(fs[i]) THEN fs[i].heads ELSE <<fs[i]>>])

\* The arguments of a call that are expressions; names of facts and slots are not.
evaluated_arguments(c) ==
  IF c.nm = "assert"
  THEN Flat([i \in DOMAIN c.heads |->
               IF ~IsCall(c.heads[i]) THEN <<c.heads[i]>>
               ELSE IF c.heads[i].nm \in Templates THEN SlotValues(c.heads[i].heads)
               ELSE c.heads[i].heads])
  ELSE IF c.nm = "modify"
  THEN IF c.heads = <<>> THEN <<>> ELSE <<c.heads[1]>> \o SlotValues(Tail(c.heads))
  ELSE c.heads

\* Every expression of e that is evaluated, e included.
RECURSIVE Walk(_)
Walk(e) ==
  {e} \cup UNION {Walk(c) : c \in Range(IF IsCall(e) THEN evaluated_arguments(e)
                                        ELSE push_children(e))}

-----------------------------------------------------------------------------
(* Loop control and iteration variables *)

RECURSIVE Breaks(_, _)
Breaks(e, allowed) ==
  IF IsCall(e)
  THEN /\ e.nm = "break" => allowed /\ e.heads = <<>>
       /\ \A a \in Range(evaluated_arguments(e)) : Breaks(a, e.nm = "progn" /\ allowed)
  ELSE /\ \A a \in Range(Operands(e)) : Breaks(a, FALSE)
       /\ \A a \in Range(Actions(e)) :
            Breaks(a, CASE e.op \in {"if", "switch"} -> allowed
                        [] e.op = "query" -> ~is_result_query(e.nm) [] OTHER -> TRUE)

\* No bind of the variable of an enclosing loop; an index may be bound.
RECURSIVE IteratorBinds(_, _)
IteratorBinds(e, protected) ==
  IF IsCall(e)
  THEN /\ BindOf(e) \cap protected = {}
       /\ \A a \in Range(evaluated_arguments(e)) : IteratorBinds(a, protected)
  ELSE /\ \A a \in Range(Operands(e)) : IteratorBinds(a, protected)
       /\ \A a \in Range(Actions(e)) :
            IteratorBinds(a, protected \cup (IF e.op \in {"count", "progn$"}
                                             THEN {e.names[1]} ELSE {}))

\* The places of expand$ and return.
RECURSIVE validate_sequence_expansion(_, _, _)
validate_sequence_expansion(e, allowed, returns) ==
  IF IsCall(e)
  THEN /\ e.nm = "expand$" => allowed
       /\ e.nm = "return" => returns
       /\ \A a \in Range(evaluated_arguments(e)) :
            validate_sequence_expansion(a, allows_sequence_arguments(e.nm),
                                        e.nm = "progn" /\ returns)
  ELSE /\ \A a \in Range(Actions(e)) : validate_sequence_expansion(a, FALSE, returns)
       /\ \A a \in Range(Operands(e)) : validate_sequence_expansion(a, FALSE, FALSE)

-----------------------------------------------------------------------------
(* Queries *)

\* The members of a query are not read in its restrictions.
RECURSIVE restriction_reads(_, _, _)
restriction_reads(e, forbidden, lexical) ==
  CASE e.op = "var" -> e.nm \in forbidden => e.nm \in lexical
    [] IsCall(e) ->
       LET args == evaluated_arguments(e)
       IN \A i \in DOMAIN args :
            (e.nm = "bind" /\ i = 1) \/ restriction_reads(args[i], forbidden, lexical)
    [] OTHER ->
       /\ \A a \in Range(e.heads) \cup Range(Guards(e)) : restriction_reads(a, forbidden, lexical)
       /\ \A a \in Range(e.pred) \cup Range(Actions(e)) :
            restriction_reads(a, forbidden, lexical \cup Range(e.names))

validate_restriction_members(e, members) == restriction_reads(e, members, {})

validate_query_declaration(q) ==
  /\ q.names # <<>>
  /\ is_result_query(q.nm) => Actions(q) = <<>>
  /\ IsInjective(q.names) /\ Len(q.heads) = Len(q.names)
  /\ \A i \in DOMAIN q.heads :
       /\ q.heads[i].op = "lit" => q.heads[i].nm \in Relations
       /\ validate_restriction_members(q.heads[i], Range(q.names))

validate_query_predicate_bindings(e) == \A a \in Walk(e) : BindOf(a) = {}

validate_query_predicate_callables(e) == \A a \in Walk(e) : IsCall(a) => a.nm \in Known

validate_expression_query_structure(e) ==
  /\ validate_sequence_expansion(e, TRUE, TRUE)
  /\ \A a \in Walk(e) :
       /\ a.op = "query" => /\ validate_query_declaration(a)
                            /\ validate_query_predicate_bindings(a.pred[1])
       /\ IsCall(a) => validate_call(a)

validate_expression_query_declarations(e) ==
  /\ validate_expression_query_structure(e)
  /\ \A a \in Walk(e) : a.op = "query" => validate_query_predicate_callables(a.pred[1])

\* Reads in the predicate of a result query; a reference to a slot is to a
\* member or to an ordinary name with a colon.
RECURSIVE QueryReads(_, _, _, _)
QueryReads(e, ordinary, compact, inPredicate) ==
  CASE e.op = "var" -> inPredicate => e.nm \in ordinary
    [] IsCall(e) ->
       IF inPredicate /\ e.nm = "slot-ref"
       THEN e.heads[1].nm \in compact
       ELSE \A a \in Range(evaluated_arguments(e)) : QueryReads(a, ordinary, compact, inPredicate)
    [] OTHER ->
       LET inner == ordinary \cup Range(e.names)
           innerCompact == IF e.op = "query" THEN compact \cup Range(e.names) ELSE compact
       IN /\ \A a \in Range(e.heads) \cup Range(Guards(e)) :
               QueryReads(a, ordinary, compact, inPredicate)
          /\ \A a \in Range(e.pred) :
               QueryReads(a, inner, innerCompact, inPredicate \/ is_result_query(e.nm))
          /\ \A a \in Range(Actions(e)) : QueryReads(a, inner, innerCompact, inPredicate)

\* All names that are bound anywhere are known, also those bound later.
validate_query_scopes(exprs, ordinary, compact) ==
  LET known == ordinary \cup UNION {UNION {BindOf(a) : a \in Walk(e)} : e \in Range(exprs)}
  IN \A e \in Range(exprs) : QueryReads(e, known, compact, FALSE)

-----------------------------------------------------------------------------
(* Calls, as actions and as expressions *)

MemberRebinding(c, members) == BindOf(c) \cap members = {}

slot_overrides(t, fs) ==
  /\ \A i \in DOMAIN fs :
       /\ IsCall(fs[i])
       /\ fs[i].nm \in SlotsOf[t]
       /\ \A j \in DOMAIN fs : j # i => fs[j].nm # fs[i].nm
       /\ fs[i].nm \in Single => Len(fs[i].heads) = 1

requires_value(t, fs) == \A s \in Required : \E i \in DOMAIN fs : fs[i].nm = s

RECURSIVE validate_rule_action_call(_, _), as_expression(_, _), as_action(_, _)

validate_rule_action_call(c, members) ==
  /\ c.nm # "expand$"
  /\ \A a \in Range(evaluated_arguments(c)) :
       validate_sequence_expansion(a, allows_sequence_arguments(c.nm),
                                   is_rule_action_wrapper(c.nm))
  /\ validate_call(c)
  /\ MemberRebinding(c, members)
  /\ CASE c.nm = "assert" ->
          \A i \in DOMAIN c.heads :
            IF IsCall(c.heads[i]) /\ c.heads[i].nm \in Templates
            THEN /\ slot_overrides(c.heads[i].nm, c.heads[i].heads)
                 /\ requires_value(c.heads[i].nm, c.heads[i].heads)
                 /\ \A v \in Range(SlotValues(c.heads[i].heads)) : as_expression(v, members)
            ELSE \A v \in Range(IF IsCall(c.heads[i]) THEN c.heads[i].heads ELSE <<c.heads[i]>>) :
                   as_expression(v, members)
       [] c.nm = "modify" ->
          \A v \in Range(IF c.heads = <<>> THEN <<>>
                         ELSE <<c.heads[1]>> \o SlotValues(Tail(c.heads))) :
            as_expression(v, members)
       [] is_rule_action_wrapper(c.nm) -> \A a \in Range(c.heads) : as_action(a, members)
       [] is_rule_action_builtin(c.nm) /\ ~is_effect(c.nm) ->
          \A a \in Range(c.heads) : as_expression(a, members)
       [] OTHER -> c.nm \in Known /\ \A a \in Range(c.heads) : as_expression(a, members)

\* A form read for its value: the members of a query are known in its predicate
\* and its body.
FormAsExpression(e, members) ==
  LET inner == IF e.op = "query" THEN members \cup Range(e.names) ELSE members
  IN /\ e.op = "query" => /\ validate_query_declaration(e)
                          /\ validate_query_predicate_bindings(e.pred[1])
     /\ \A a \in Range(e.heads \o Guards(e)) : as_expression(a, members)
     /\ \A a \in Range(e.pred \o Actions(e)) : as_expression(a, inner)

\* validate_action_expr_as_expression
as_expression(e, members) ==
  CASE e.op \in {"lit", "var"} -> TRUE
    [] IsCall(e) ->
       IF is_effect(e.nm) THEN validate_rule_action_call(e, members)
       ELSE /\ MemberRebinding(e, members) /\ e.nm \in Known /\ validate_call(e)
            /\ \A a \in Range(e.heads) : as_expression(a, members)
    [] OTHER -> FormAsExpression(e, members)

\* A form whose body holds actions.
FormAsAction(e, members) ==
  LET inner == IF e.op = "query" THEN members \cup Range(e.names) ELSE members
  IN /\ e.op = "query" => /\ validate_query_declaration(e)
                          /\ validate_query_predicate_bindings(e.pred[1])
     /\ \A a \in Range(e.heads \o Guards(e)) : as_expression(a, members)
     /\ \A a \in Range(e.pred) : as_expression(a, inner)
     /\ \A a \in Range(Actions(e)) : as_action(a, inner)

\* validate_action_expr_as_action
as_action(e, members) ==
  CASE e.op \in {"lit", "var"} -> TRUE
    [] IsCall(e) -> validate_rule_action_call(e, members)
    [] e.op = "query" /\ is_result_query(e.nm) -> as_expression(e, members)
    [] OTHER -> FormAsAction(e, members)

-----------------------------------------------------------------------------
(* Reads of variables *)

RECURSIVE validate_rule_rhs_expr(_, _, _)

\* The names known after expressions that are read in order, as an option.
RhsSeq(exprs, s, locals) ==
  FoldLeft(LAMBDA acc, e : IF acc = <<>> THEN <<>> ELSE validate_rule_rhs_expr(e, s, acc[1]),
           <<locals>>, exprs)

validate_rule_rhs_call(c, s, locals) ==
  LET r == RhsSeq(IF BindOf(c) = {} THEN evaluated_arguments(c) ELSE Tail(c.heads), s, locals)
  IN IF r = <<>> THEN <<>>
     ELSE <<IF s.reads THEN r[1] \cup BindOf(c) ELSE r[1]>>

\* A form that brings names into scope.
RhsScope(e, s, locals) ==
  LET r == RhsSeq(e.heads, s, locals)
      b == IF r = <<>> THEN <<>> ELSE RhsSeq(e.pred \o Actions(e), s, r[1] \cup Range(e.names))
  IN IF b = <<>> THEN <<>> ELSE <<r[1] \cup (b[1] \ Range(e.names))>>

\* The arms of an if start from the same names; those of a switch from the names
\* of the arms before them.
RhsArms(e, s, locals) ==
  LET r == RhsSeq(e.heads, s, locals)
      Arm(from, a) == RhsSeq(a.guard \o a.body, s, from)
      Join(acc, x) == IF acc = <<>> \/ x = <<>> THEN <<>> ELSE <<acc[1] \cup x[1]>>
  IN IF r = <<>> THEN <<>>
     ELSE FoldLeft(LAMBDA acc, a :
                     IF acc = <<>> THEN <<>>
                     ELSE Join(acc, Arm(IF e.op = "switch" THEN acc[1] ELSE r[1], a)),
                   r, e.arms)

validate_rule_rhs_expr(e, s, locals) ==
  CASE e.op = "lit" -> <<locals>>
    [] e.op = "var" -> IF e.nm \in s.exported \cup locals THEN <<locals>> ELSE <<>>
    [] IsCall(e) -> validate_rule_rhs_call(e, s, locals)
    [] e.op \in {"count", "progn$", "query"} -> RhsScope(e, s, locals)
    [] OTHER -> RhsArms(e, s, locals)

-----------------------------------------------------------------------------
(* The kinds of source and the checks each one makes *)

Exported == {"e"}            \* variables of the conditions; e is a fact's address
Parameters == {"e"}

\* An action of a rule; a form is wrapped in a call of its name.
Action(e) == IF IsCall(e) THEN e ELSE Call("form", <<e>>)

validate_rule_action_callables(acts) ==
  \A i \in DOMAIN acts : Breaks(acts[i], FALSE) /\ validate_rule_action_call(acts[i], {})

validate_rule_rhs_scope(acts) ==
  RhsSeq(acts, [exported |-> Exported, reads |-> TRUE], {}) # <<>>

Rule(exprs) ==
  LET acts == [i \in DOMAIN exprs |-> Action(exprs[i])]
  IN /\ validate_rule_action_callables(acts)
     /\ validate_rule_rhs_scope(acts)
     /\ validate_query_scopes(Flat([i \in DOMAIN acts |-> evaluated_arguments(acts[i])]),
                              Exported \cup UNION {BindOf(acts[i]) : i \in DOMAIN acts}, Exported)

validate_callable_body(exprs) ==
  \A e \in Range(exprs) : /\ Breaks(e, FALSE) /\ as_action(e, {})
                          /\ validate_expression_query_declarations(e)

Function(exprs) ==
  /\ \A e \in Range(exprs) : validate_expression_query_structure(e) /\ IteratorBinds(e, {})
  /\ validate_query_scopes(exprs, Parameters, {})
  /\ validate_callable_body(exprs)

validate_source_default_control(e) == \A a \in Walk(e) : ~(IsCall(a) /\ a.nm = "return")

\* The checks that the expressions outside rules and callables share.
Prepared(e) ==
  /\ IteratorBinds(e, {}) /\ Breaks(e, FALSE)
  /\ validate_expression_query_declarations(e)
  /\ as_expression(e, {})

validate_fact_initializer_bindings(e) ==
  validate_rule_rhs_expr(e, [exported |-> {}, reads |-> FALSE], {}) # <<>>

Root(e) == validate_source_default_control(e) /\ Prepared(e) /\ validate_query_scopes(<<e>>, {}, {})

Salience(e) == validate_source_default_control(e) /\ Prepared(e)

\* A field of a fact in deffacts, and one of a fact asserted by source.
prepare_field(e, allowReads) ==
  (allowReads \/ validate_fact_initializer_bindings(e)) /\ Prepared(e)

\* A default of a slot, and the source eval runs.
ScopeDefault(e) == validate_source_default_control(e) /\ prepare_field(e, FALSE)

validate_method_query(e) ==
  /\ Prepared(e)
  /\ \A a \in Walk(e) : BindOf(a) = {} /\ ~(IsCall(a) /\ a.nm = "return")
  /\ validate_rule_rhs_expr(e, [exported |-> Parameters, reads |-> TRUE], {}) # <<>>

Accepted(kind, exprs) ==
  CASE kind = "rule" -> Rule(exprs)
    [] kind = "function" -> Function(exprs)
    [] kind = "root" -> Root(exprs[1])
    [] kind = "salience" -> Salience(exprs[1])
    [] kind = "deffacts" -> prepare_field(exprs[1], FALSE)
    [] kind = "assert" -> prepare_field(exprs[1], TRUE)
    [] kind = "default" -> ScopeDefault(exprs[1])
    [] kind = "method" -> validate_method_query(exprs[1])

-----------------------------------------------------------------------------
(* Reference: one walk over what is evaluated *)

\* What the evaluator evaluates of a call's arguments: fields of an ordered
\* fact, values of slots, the target of modify.
Given(c) ==
  LET InField(f) == IF f.nm = "t" THEN UNION {Range(v.heads) : v \in Range(f.heads)}
                   ELSE Range(f.heads)
  IN CASE c.nm = "assert" -> UNION {InField(f) : f \in Range(c.heads)}
       [] c.nm = "modify" -> {c.heads[1]} \cup UNION {Range(v.heads) : v \in Range(Tail(c.heads))}
       [] BindOf(c) # {} -> Range(Tail(c.heads))
       [] OTHER -> Range(c.heads)

\* Where an expression stands: the executor of rules' actions or of bodies, a
\* loop's body, a place to return from, an argument of an ordinary call; the
\* members of queries around it, whether a predicate encloses it, the members
\* whose restriction encloses it, the names in scope, those of facts and those of
\* loops, and whether it is the fact of a reference to a slot.
Outside(kind) ==
  [act |-> kind \in {"rule", "function"}, brk |-> FALSE,
   ret |-> kind \in {"rule", "function", "deffacts", "assert"}, exp |-> FALSE,
   mem |-> {}, prd |-> FALSE, rprd |-> FALSE, forb |-> {}, lex |-> {}, facts |-> {}, prot |-> {},
   slot |-> FALSE]

ScopeOperand(c) == [c EXCEPT !.slot = FALSE, !.act = FALSE, !.brk = FALSE, !.ret = FALSE, !.exp = FALSE]

Inside(c, e) ==
  [c EXCEPT !.lex = @ \cup Range(e.names), !.forb = @ \ Range(e.names),
            !.facts = IF e.op = "query" THEN @ \cup Range(e.names) ELSE @,
            !.mem = IF e.op = "query" THEN @ \cup Range(e.names) ELSE @]

RECURSIVE Sites(_, _)
Sites(e, c) ==
  {[e |-> e, c |-> c]} \cup
  (IF IsCall(e)
   THEN UNION {Sites(a, IF e.nm = "progn" THEN [c EXCEPT !.exp = FALSE]
                        ELSE [ScopeOperand(c) EXCEPT !.slot = e.nm = "slot-ref",
                                !.exp = e.nm \notin {"return", "expand$", "assert", "modify"}])
               : a \in Given(e)}
   ELSE UNION {Sites(a, [ScopeOperand(c) EXCEPT
                           !.forb = IF e.op = "query" THEN @ \cup Range(e.names) ELSE @])
               : a \in Range(e.heads) \cup Range(Guards(e))}
        \cup UNION {Sites(a, [Inside(ScopeOperand(c), e) EXCEPT
                                !.prd = TRUE, !.rprd = @ \/ e.nm = "find"])
                    : a \in Range(e.pred)}
        \cup UNION {Sites(a, [Inside(c, e) EXCEPT
                                !.exp = FALSE, !.brk = IF e.op \in {"if", "switch"} THEN @
                                                       ELSE e.nm # "find",
                                !.prot = IF e.op \in {"count", "progn$"} THEN @ \cup {e.names[1]}
                                         ELSE @])
                    : a \in Range(Actions(e))})

AllSites(kind, exprs) == UNION {Sites(e, Outside(kind)) : e \in Range(exprs)}

\* The one place where a check allows what cannot run: expand$ as the whole of an
\* expression outside rules and functions, a field of a fact for one, which the
\* evaluator refuses when it gets there.
RefusedWhenRun(kind, exprs) ==
  IF kind \notin {"rule", "function"} /\ exprs[1].nm = "expand$"
  THEN {[e |-> exprs[1], c |-> Outside(kind)]} ELSE {}

\* The facts of an assertion have the slots of their templates.
FactsComplete(c) ==
  \A f \in Range(c.heads) :
    f.nm = "t" =>
      /\ {v.nm : v \in Range(f.heads)} \in {{"s"}, {"s", "m"}}
      /\ Len(f.heads) = Cardinality({v.nm : v \in Range(f.heads)})
      /\ \A v \in Range(f.heads) : v.nm = "s" => Len(v.heads) = 1

CallFine(e, c, kind) ==
  /\ e.nm \in Known
  /\ e.nm = "break" => c.brk /\ e.heads = <<>>
  /\ e.nm = "return" => c.ret
  /\ e.nm = "expand$" => c.exp
  /\ validate_call(e)
  /\ e.nm = "assert" => FactsComplete(e)
  /\ \A x \in BindOf(e) :
       /\ x \notin c.mem /\ ~c.prd
       /\ kind # "rule" => x \notin c.prot
       /\ kind # "method"

QueryFine(q) ==
  /\ Cardinality(Range(q.names)) = Len(q.names) /\ Len(q.heads) = Len(q.names) /\ q.names # <<>>
  /\ \A h \in Range(q.heads) : h.op = "lit" => h.nm \in Relations
  /\ q.nm = "find" => Actions(q) = <<>>

\* The names a predicate may read without a scope around it.
Ordinary(kind, sites) ==
  (IF kind \in {"rule", "function"} THEN {"e"} ELSE {}) \cup UNION {BindOf(s.e) : s \in sites}

SiteFine(s, kind, ordinary) ==
  /\ IsCall(s.e) => CallFine(s.e, s.c, kind)
  /\ s.e.op = "query" => QueryFine(s.e)
  /\ s.e.op = "var" =>
       /\ s.e.nm \notin s.c.forb
       /\ s.c.rprd /\ kind \in {"rule", "function", "root"} =>
            s.e.nm \in IF s.c.slot THEN s.c.facts \cup (IF kind = "rule" THEN Exported ELSE {})
                       ELSE ordinary \cup s.c.lex

-----------------------------------------------------------------------------
(* Reference: the variables that runs may have bound *)

\* The sets of names bound after expressions run in order from one of the sets
\* bs; ok is FALSE once a read has no run that bound its variable.  A loop runs
\* once or not at all, and a case of a switch may follow the ones before it.
RECURSIVE RunsOf(_, _, _)
RunSeq(exprs, s, st) ==
  FoldLeft(LAMBDA acc, e : LET r == RunsOf(e, s, acc.bs)
                           IN [bs |-> r.bs, ok |-> acc.ok /\ r.ok], st, exprs)
RunsOf(e, s, bs) ==
  LET st == [bs |-> bs, ok |-> TRUE]
      heads == RunSeq(e.heads, s, st)
      Over(acc, x) == [bs |-> acc.bs \cup x.bs, ok |-> acc.ok /\ x.ok]
  IN CASE e.op = "lit" -> st
       [] e.op = "var" ->
          [bs |-> bs, ok |-> e.nm \in s.exported \/ \E b \in bs : e.nm \in b]
       [] IsCall(e) ->
          LET r == RunSeq(IF BindOf(e) = {} THEN SetToSeq(Given(e)) ELSE Tail(e.heads), s, st)
          IN IF s.reads THEN [r EXCEPT !.bs = {b \cup BindOf(e) : b \in @}] ELSE r
       [] e.op \in {"count", "progn$", "query"} ->
          LET N == Range(e.names)
              Once(b) == RunSeq(e.pred \o Actions(e), s, [bs |-> {b \cup N}, ok |-> TRUE])
              whole == RunSeq(e.pred \o Actions(e), s, [bs |-> {b \cup N : b \in heads.bs}, ok |-> TRUE])
          IN [bs |-> heads.bs \cup UNION {{(x \ N) \cup (b \cap N) : x \in Once(b).bs} : b \in heads.bs},
              ok |-> heads.ok /\ whole.ok]
       [] OTHER ->
          FoldLeft(LAMBDA acc, a :
                     Over(acc, RunSeq(a.guard \o a.body, s,
                                      [bs |-> IF e.op = "switch" THEN acc.bs ELSE heads.bs,
                                       ok |-> TRUE])),
                   heads, e.arms)

\* What each kind of source may read of its own: the names it starts with, and
\* whether a bind is visible to later reads.
ReadsOf(kind) ==
  CASE kind = "rule" -> [exported |-> Exported, reads |-> TRUE]
    [] kind = "method" -> [exported |-> Parameters, reads |-> TRUE]
    [] OTHER -> [exported |-> {}, reads |-> FALSE]

Readable(kind, exprs) ==
  kind \in {"rule", "method", "deffacts", "default"} =>
    RunSeq(exprs, ReadsOf(kind), [bs |-> {{}}, ok |-> TRUE]).ok

-----------------------------------------------------------------------------
(* Writing a program *)

ScopeInit == es = <<>> /\ steps = 0

Add(e) == es' = Append(es, e)
WrapAll(w) == es # <<>> /\ w.at = "body" /\ es' = <<[w.form EXCEPT !.arms[1].body = es]>>
WrapLast(w) ==
  /\ es # <<>> /\ w.at \in {"head", "pred", "guard", "inner"}
  /\ LET e == Last(es)
         f == CASE w.at = "head" -> [w.form EXCEPT !.heads[Len(w.form.heads)] = e]
                [] w.at = "pred" -> [w.form EXCEPT !.pred = <<e>>]
                [] w.at = "guard" -> [w.form EXCEPT !.arms[1].guard = <<e>>]
                [] OTHER -> [w.form EXCEPT
                               !.heads[Len(w.form.heads)].heads =
                                 IF w.form.heads[Len(w.form.heads)].nm = "t"
                                 THEN <<Call("s", <<e>>)>> ELSE <<e>>]
     IN es' = Append(Front(es), f)

ScopeNext ==
  /\ steps < MaxSteps /\ steps' = steps + 1
  /\ \/ \E e \in Simple : Add(e)
     \/ \E w \in Wraps : WrapAll(w)
     \/ \E w \in Wraps : WrapLast(w)

ScopeSpec == ScopeInit /\ [][ScopeNext]_scopeVars

Whole(kind) == es # <<>> /\ (kind \in {"rule", "function"} \/ Len(es) = 1)

-----------------------------------------------------------------------------
\* The walks over the tree agree: source is accepted when every expression that
\* would be evaluated is in its place and every variable it reads may be bound,
\* and rejected otherwise.  No name of a fact or a slot is taken for a call, no
\* call escapes the checks inside another form (validate_rule_action_call,
\* validate_sequence_expansion, validate_query_scopes, restriction_reads).
\* The exception is RefusedWhenRun: loader.rs:3415 lets expand$ stand at the
\* root of a field of a fact, a default, a restriction of a method and the like,
\* where the comment at loader.rs:3305 says it never stands.
ChecksExact ==
  \A kind \in ScopeKinds :
    Whole(kind) =>
      LET sites == AllSites(kind, es)
      IN Accepted(kind, es) =
           /\ \A s \in sites : SiteFine(IF s \in RefusedWhenRun(kind, es) THEN [s EXCEPT !.c.exp = TRUE]
                                        ELSE s, kind, Ordinary(kind, sites))
           /\ Readable(kind, es)

\* A rule's variable is rejected only when no run binds it before the read, so
\* the read would fail in every run that gets there; the arms of a form do not
\* see each other's names, and names of loops and queries end with them
\* (validate_rule_rhs_expr).
ReadsMeanRuns ==
  Whole("rule") =>
    LET s == ReadsOf("rule")
    IN validate_rule_rhs_scope([i \in DOMAIN es |-> Action(es[i])])
         = RunSeq(es, s, [bs |-> {{}}, ok |-> TRUE]).ok

=============================================================================
