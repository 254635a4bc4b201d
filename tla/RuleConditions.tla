--------------------------- MODULE RuleConditions ---------------------------
(***************************************************************************)
(* From the conditions of a rule as they are written to the condition      *)
(* lists the Rete compiler takes: validation, the scopes of tests, the     *)
(* normalisation of and, or, not, exists and forall, the expansion of or   *)
(* into rule variants, and the translation into patterns, predicates and   *)
(* negated groups, with the table of tests the predicates refer to.        *)
(*                                                                         *)
(* The only actions write one more condition: a leaf, or a group around    *)
(* the last ones; the loader is a function of what is written. A fact has  *)
(* a relation and one field. A pattern binds or compares one variable and  *)
(* may have a connected constraint on it, which is compiled to a generated *)
(* test: "or" a field disjunction, "complex" any other predicate. Every    *)
(* expression asks whether a variable is 1, or combines such questions.    *)
(***************************************************************************)
EXTENDS Integers, Sequences, FiniteSets, SequencesExt

CONSTANTS
  Patterns,   \* fact patterns: records [rel, var, gen]
  Tested,     \* variables that tests ask about
  Address,    \* the fact-address variable
  Facts,      \* facts: records [rel, val], with val in 0..1
  MaxNodes,   \* bound on the conditions written
  MaxDepth    \* nesting of quantifiers that is accepted

ASSUME RuleConditionsAssumption ==
  /\ MaxNodes \in Nat /\ MaxDepth \in Nat
  /\ \A f \in Facts : f.val \in 0..1

VARIABLE lhs   \* the conditions written so far

-----------------------------------------------------------------------------
(* Conditions *)

Node(k, d, v, gen, ch) == [k |-> k, d |-> d, v |-> v, gen |-> gen, ch |-> ch]

Pat(p) == Node("pat", p.rel, p.var, p.gen, <<>>)
Assigned(p) == Node("assigned", "", Address, "none", <<Pat(p)>>)
Asks(v) == Node("asks", "", v, "none", <<>>)
Test(e) == Node("test", "", "", "none", <<e>>)
Group(k, ch) == Node(k, "", "", "none", ch)

\* The sequence of Op over the members of s.
Map(Op(_), s) == [i \in DOMAIN s |-> Op(s[i])] \o <<>>

FlatMap(Op(_), s) == FlattenSeq(Map(Op, s))

Ors(ps) == \E i \in DOMAIN ps : ps[i].k = "or"

RECURSIVE HasKind(_, _)
HasKind(kinds, p) == p.k \in kinds \/ \E i \in DOMAIN p.ch : HasKind(kinds, p.ch[i])

RECURSIVE Size(_)
Size(p) == 1 + FoldSeq(LAMBDA c, n : Size(c) + n, 0, p.ch)

Sizes(ps) == FoldSeq(LAMBDA p, n : Size(p) + n, 0, ps)

-----------------------------------------------------------------------------
(* Validation *)

\* test_only_pattern_expression: the test a fact-free condition amounts to, as a
\* sequence of one expression, or of none when a fact is involved.
RECURSIVE test_only(_)
test_only(p) ==
  CASE p.k = "test" -> p.ch
    [] p.k \in {"not", "and", "exists", "or"} ->
         LET parts == Map(test_only, p.ch)
             name == IF p.k = "exists" THEN "and" ELSE p.k IN
         IF p.ch = <<>> \/ \E i \in DOMAIN parts : parts[i] = <<>> THEN <<>>
         ELSE IF name # "not" /\ Len(parts) = 1 THEN parts[1]
         ELSE <<Group(name, Map(Head, parts))>>
    [] OTHER -> <<>>

is_pure_test_condition(p) == test_only(p) # <<>>

validate_forall_operands(ch) ==
  /\ Len(ch) = 2
  /\ ch[1].k \in {"pat", "forall"}
  /\ ch[2].k \in {"pat", "forall"} \/ is_pure_test_condition(ch[2])

RECURSIVE validate_pattern_recursive(_, _, _, _)
validate_pattern_recursive(p, depth, inForall, inNot) ==
  LET quantified == p.k \in {"not", "exists", "forall"}
      below == IF quantified THEN depth + 1 ELSE depth IN
  /\ quantified => below <= MaxDepth
  /\ p.k = "forall" => ~inForall /\ ~inNot /\ validate_forall_operands(p.ch)
  /\ p.k # "test" =>
       \A i \in DOMAIN p.ch :
         validate_pattern_recursive(p.ch[i], below, inForall \/ p.k = "forall",
                                    inNot \/ p.k \in {"not", "exists"})

RECURSIVE ConditionReads(_)
ConditionReads(e) == IF e.k = "asks" THEN {e.v} ELSE UNION {ConditionReads(e.ch[i]) : i \in DOMAIN e.ch}

\* collect_pattern_binding_variables, for conditions of any kind.
RECURSIVE Binds(_)
Binds(p) ==
  (IF p.k \in {"pat", "assigned"} /\ p.v # "" THEN {p.v} ELSE {})
    \cup (IF p.k = "test" THEN {} ELSE UNION {Binds(p.ch[i]) : i \in DOMAIN p.ch})

\* After an or only what every alternative binds is visible.
OrScope(scopes, available) ==
  IF scopes = {} THEN available ELSE {v \in UNION scopes : \A s \in scopes : v \in s}

\* validate_test_scope_in: the names available after p, or NoScope when a test
\* in p reads a name that is not.
NoScope == {"#unbound"}

RECURSIVE TestScope(_, _)
TestScope(p, available) ==
  LET inOrder == FoldLeft(LAMBDA a, c : IF a = NoScope THEN a ELSE TestScope(c, a),
                          available, p.ch) IN
  CASE p.k = "pat" -> available \cup Binds(p)
    [] p.k = "assigned" -> available \cup Binds(p)
    [] p.k = "test" -> IF ConditionReads(p.ch[1]) \subseteq available THEN available ELSE NoScope
    [] p.k = "and" -> inOrder
    [] p.k = "or" ->
         LET scopes == {TestScope(p.ch[i], available) : i \in DOMAIN p.ch} IN
         IF NoScope \in scopes THEN NoScope ELSE OrScope(scopes, available)
    [] OTHER -> IF inOrder = NoScope THEN NoScope ELSE available

validate_rule_test_scopes(ps) == TestScope(Group("and", ps), {}) # NoScope

-----------------------------------------------------------------------------
(* The estimate of the expansion *)

OrFactor(p) == IF p.k = "or" /\ p.ch # <<>> THEN Len(p.ch) ELSE 1

RECURSIVE Alternatives(_)
Alternatives(p) ==
  OrFactor(p)
    * (IF p.k = "test" THEN 1
       ELSE FoldSeq(LAMBDA c, n : Alternatives(c) * n, 1, p.ch))

\* A pattern counts itself and its constraints, a test does not count its
\* expression.
RECURSIVE Nodes(_)
Nodes(p) ==
  IF p.k = "test" THEN 1
  ELSE 1 + (CASE p.k # "pat" -> 0
              [] p.gen = "or" -> 5 [] p.gen = "complex" -> 3
              [] OTHER -> IF p.v = "" THEN 0 ELSE 1)
         + FoldSeq(LAMBDA c, n : Nodes(c) + n, 0, p.ch)

NodesOf(ps) == FoldSeq(LAMBDA p, n : Nodes(p) + n, 0, ps)

\* check_expansion: what it compares with the limits.
Estimate(ps) ==
  LET alternatives == FoldSeq(LAMBDA p, n : Alternatives(p) * n, 1, ps) IN
  [alternatives |-> alternatives, nodes |-> NodesOf(ps) * alternatives]

-----------------------------------------------------------------------------
(* Normalisation *)

RECURSIVE push_conjunct(_, _)
push_conjunct(conjunction, p) ==
  IF p.k = "and" THEN FoldLeft(push_conjunct, conjunction, p.ch)
  ELSE Append(conjunction, p)

\* Distributes a conjunction over its or members, the first varying slowest.
conjunction_disjuncts(conjunction) ==
  FoldLeft(LAMBDA disjuncts, p :
             IF p.k = "or" /\ p.ch # <<>>
             THEN FlatMap(LAMBDA d : Map(LAMBDA c : push_conjunct(d, c), p.ch), disjuncts)
             ELSE Map(LAMBDA d : Append(d, p), disjuncts),
           <<<<>>>>, conjunction)

conjunction_pattern(conjunction) ==
  IF Len(conjunction) = 1 THEN conjunction[1] ELSE Group("and", conjunction)

RECURSIVE Uncover(_)
Uncover(p) ==
  IF p.k = "exists" /\ p.ch # <<>> THEN Uncover(conjunction_pattern(p.ch)) ELSE p

negated_pattern(operand) ==
  LET inner == Uncover(operand)
      negated == Group("not", <<inner>>)
      test == test_only(negated) IN
  IF inner.k = "not" /\ inner.ch[1].k = "and" THEN Group("exists", inner.ch[1].ch)
  ELSE IF test # <<>> THEN Test(test[1]) ELSE negated

negate_conjunction(conjunction) ==
  IF ~Ors(conjunction) THEN <<negated_pattern(conjunction_pattern(conjunction))>>
  ELSE Map(LAMBDA d : negated_pattern(conjunction_pattern(d)),
           conjunction_disjuncts(conjunction))

\* exists over or is one condition: its double negation.
ExistsBody(body) ==
  IF Ors(body) THEN negate_conjunction(negate_conjunction(body))
  ELSE <<Group("exists", body)>>

RECURSIVE normalize_pattern(_)

normalize_conjunction(ps) ==
  FoldLeft(push_conjunct, <<>>, FlatMap(normalize_pattern, ps))

\* The branches an or has after its own branches are distributed.
Branches(ch) ==
  FlatMap(LAMBDA c : Map(conjunction_pattern,
                         conjunction_disjuncts(normalize_conjunction(<<c>>))), ch)

normalize_pattern(p) ==
  IF p.k \in {"not", "exists"} /\ is_pure_test_condition(p) THEN <<Test(test_only(p)[1])>>
  ELSE CASE p.k = "and" -> normalize_conjunction(p.ch)
         [] p.k = "or" -> LET branches == Branches(p.ch) IN
                          IF Len(branches) = 1 THEN push_conjunct(<<>>, branches[1])
                          ELSE <<Group("or", branches)>>
         [] p.k = "not" -> negate_conjunction(normalize_conjunction(
                             IF p.ch[1].k = "exists" THEN p.ch[1].ch ELSE p.ch))
         [] p.k = "exists" -> ExistsBody(normalize_conjunction(p.ch))
         [] OTHER -> <<p>>

\* expand_or_patterns: the variants of a rule, each without an or.
RECURSIVE expand_disjunction_variants(_)
expand_disjunction_variants(ps) ==
  IF ~Ors(ps) THEN <<ps>>
  ELSE LET i == CHOOSE n \in DOMAIN ps : ps[n].k = "or" /\ \A m \in 1..(n - 1) : ps[m].k # "or"
           after == SubSeq(ps, i + 1, Len(ps)) IN
       FlatMap(LAMBDA branch : expand_disjunction_variants(
                 push_conjunct(SubSeq(ps, 1, i - 1), branch) \o after), ps[i].ch)

expand_or_patterns(ps) == expand_disjunction_variants(FoldLeft(push_conjunct, <<>>, ps))

-----------------------------------------------------------------------------
(* Translation. A translation keeps the tests generated for the condition it  *)
(* is at, the indices of those that a predicate inside a group stands for,     *)
(* the number of tests before them and whether an error was met.               *)

Pattern(p, negated, exists) ==
  [c |-> "pattern", rel |-> p.d, var |-> p.v, negated |-> negated, exists |-> exists,
   index |-> 0, sub |-> <<>>]
Predicate(i) == [c |-> "predicate", rel |-> "", var |-> "", negated |-> FALSE,
                 exists |-> FALSE, index |-> i, sub |-> <<>>]
Ncc(conds) == [c |-> "ncc", rel |-> "", var |-> "", negated |-> FALSE,
               exists |-> FALSE, index |-> 0, sub |-> conds]

Fails(t, why) == [t EXCEPT !.err = why, !.conds = <<>>]
Yields(t, conds) == [t EXCEPT !.conds = conds]
Then(t, F(_)) == IF t.err # "" THEN t ELSE F(t)

\* Predicates for the tests generated since the first, which become embedded.
EmbedFrom(t, first, conds) ==
  LET new == {i \in (first + 1)..Len(t.gen) : i \notin t.emb} IN
  [t EXCEPT !.conds = conds \o Map(LAMBDA i : Predicate(t.base + i), SetToSortSeq(new, <)),
            !.emb = @ \cup new]

\* translate_pattern: the tests a pattern generates; a predicate that is not
\* lowered to a join is refused in a negated pattern.
translate_pattern(t, p, negated) ==
  LET leaf == IF p.k = "assigned" THEN p.ch[1] ELSE p IN
  CASE leaf.k # "pat" -> Fails(t, "internal")
    [] leaf.k = "pat" /\ leaf.gen = "complex" /\ negated -> Fails(t, "unsupported")
    [] leaf.k = "pat" /\ leaf.gen # "none" /\ ~(leaf.gen = "complex" /\ negated) ->
         [t EXCEPT !.gen = Append(@, Asks(leaf.v)), !.conds = <<Pattern(leaf, FALSE, FALSE)>>]
    [] OTHER -> Yields(t, <<Pattern(leaf, FALSE, FALSE)>>)

\* Mutant: the generated tests follow the quantified pattern.
QuantifiedOutside(t, p, negated, exists) ==
  Then(translate_pattern(t, p, negated), LAMBDA u :
    [u EXCEPT !.conds = <<[@[1] EXCEPT !.negated = negated, !.exists = exists]>>])

\* The tests generated since the first follow the pattern inside the group.
Quantified(u, first, p, negated, exists) ==
  CASE Len(u.gen) = first ->
         [u EXCEPT !.conds = <<[@[1] EXCEPT !.negated = negated, !.exists = exists]>>]
    [] Len(u.gen) # first /\ exists /\ p.gen # "or" -> Fails(u, "unsupported")
    [] OTHER -> LET body == EmbedFrom(u, first, u.conds) IN
                Yields(body, IF negated THEN <<Ncc(body.conds)>>
                             ELSE IF exists THEN <<Ncc(<<Ncc(body.conds)>>)>>
                             ELSE body.conds)

translate_quantified_pattern(t, p, negated, exists) ==
  Then(translate_pattern(t, p, negated), LAMBDA u : Quantified(u, Len(t.gen), p, negated, exists))

RECURSIVE translate_condition(_, _)

\* A group has no exists node: an existential member is a double negation.
Member(cond) ==
  IF cond.c = "pattern" /\ cond.exists
  THEN Ncc(<<Ncc(<<[cond EXCEPT !.exists = FALSE]>>)>>) ELSE cond

translate_subcondition(t, p) ==
  Then(translate_condition(t, p), LAMBDA u : EmbedFrom(u, Len(t.gen), <<Member(u.conds[1])>>))

\* What w was translated to follows what u was.
Follow(u, w) == Yields(w, u.conds \o w.conds)

\* The conditions of a group in order.
Subconditions(t, ps) ==
  FoldLeft(LAMBDA acc, p : Then(acc, LAMBDA u : Follow(u, translate_subcondition(u, p))),
           Yields(t, <<>>), ps)

\* forall(P, Q): no P lacks a Q.
ForallTest(u, test) ==
  [u EXCEPT !.gen = Append(@, Group("not", test)), !.emb = @ \cup {Len(u.gen) + 1},
            !.conds = <<Ncc(@ \o <<Predicate(u.base + Len(u.gen) + 1)>>)>>]

TranslateForall(t, ch) ==
  Then(translate_quantified_pattern(t, ch[1], FALSE, FALSE), LAMBDA u :
    IF test_only(ch[2]) # <<>> THEN ForallTest(u, test_only(ch[2]))
    ELSE Then(Follow(u, translate_quantified_pattern(u, ch[2], TRUE, FALSE)),
              LAMBDA w : Yields(w, <<Ncc(w.conds)>>)))

TranslateNot(t, p) ==
  LET inner == p.ch[1] IN
  IF inner.k = "and"
  THEN Then(Subconditions(t, inner.ch), LAMBDA u : Yields(u, <<Ncc(u.conds)>>))
  ELSE IF inner.k = "not"
  THEN IF inner.ch[1].k = "not" THEN translate_condition(t, inner.ch[1])
       ELSE translate_quantified_pattern(t, inner.ch[1], FALSE, TRUE)
  ELSE translate_quantified_pattern(t, inner, TRUE, FALSE)

TranslateExists(t, p) ==
  IF Len(p.ch) = 1 /\ p.ch[1].k \in {"pat", "assigned"}
  THEN translate_quantified_pattern(t, p.ch[1], FALSE, TRUE)
  ELSE Then(Subconditions(t, FoldLeft(push_conjunct, <<>>, p.ch)),
            LAMBDA u : Yields(u, <<Ncc(<<Ncc(u.conds)>>)>>))

translate_condition(t, p) ==
  CASE p.k = "not" -> TranslateNot(t, p)
    [] p.k = "exists" -> TranslateExists(t, p)
    [] p.k = "forall" -> TranslateForall(t, p.ch)
    [] p.k = "test" -> [t EXCEPT !.gen = Append(@, p.ch[1]), !.emb = @ \cup {Len(t.gen) + 1},
                                 !.conds = <<Predicate(t.base + Len(t.gen) + 1)>>]
    [] p.k \in {"and", "or"} -> Fails(t, "internal")
    [] OTHER -> translate_pattern(t, p, FALSE)

condition_has_fact_address(cond) == cond.c = "pattern" /\ ~cond.negated /\ ~cond.exists

\* The position among the matched facts that the next condition would take.
FactIndex(r) == Len(SelectSeq(r.conds, condition_has_fact_address)) + 1

\* One condition of translate_rule_construct: r holds the conditions, the table
\* of tests, the addresses and the exported variables so far.
AddCondition(r, p, t) ==
  IF t.err # "" THEN [r EXCEPT !.err = t.err]
  ELSE LET open == {i \in DOMAIN t.gen : i \notin t.emb}
           address == condition_has_fact_address(t.conds[1]) IN
       [r EXCEPT !.tests = @ \o t.gen,
                 !.conds = @ \o t.conds \o
                    Map(LAMBDA i : Predicate(Len(r.tests) + i), SetToSortSeq(open, <)),
                 !.address = IF address /\ p.k = "assigned" THEN FactIndex(r) ELSE @,
                 !.exported = IF address THEN @ \cup Binds(p) ELSE @]

TranslateOne(r0, p) ==
  Then(r0, LAMBDA r :
    IF p.k = "test"
    THEN [r EXCEPT !.tests = Append(@, p.ch[1]),
                   !.conds = Append(@, Predicate(Len(r.tests) + 1))]
    ELSE AddCondition(r, p, translate_condition([gen |-> <<>>, emb |-> {}, base |-> Len(r.tests),
                                                 conds |-> <<>>, err |-> ""], p)))

translate_rule_construct(ps) ==
  FoldLeft(TranslateOne,
           [conds |-> <<>>, tests |-> <<>>, address |-> 0, exported |-> {}, err |-> ""],
           FoldLeft(push_conjunct, <<>>, ps))

-----------------------------------------------------------------------------
(* Specificity *)

EmptySequence == [complexity |-> 0, elements |-> 0, attachment |-> "standalone",
                  secondary |-> FALSE]

AddElement(n) == IF n = 2 THEN 2 ELSE n + 1

AddPattern(s, cost, attachment) ==
  [complexity |-> s.complexity + cost, elements |-> AddElement(s.elements),
   attachment |-> attachment, secondary |-> FALSE]

AddTest(s, cost) ==
  CASE s.attachment = "secondary" ->
         IF s.secondary THEN s
         ELSE [s EXCEPT !.elements = AddElement(@), !.secondary = TRUE]
    [] s.attachment \in {"primary", "test"} -> [s EXCEPT !.complexity = @ + cost]
    [] OTHER -> AddPattern(s, cost + 1, "test")

AddQuantified(s, inner) ==
  IF inner.elements = 1 /\ inner.attachment = "test" THEN AddTest(s, inner.complexity - 1)
  ELSE IF inner.elements = 1 /\ inner.attachment \in {"primary", "secondary"}
  THEN AddPattern(s, inner.complexity, "secondary")
  ELSE AddPattern(s, inner.complexity, "standalone")

RECURSIVE expression_complexity(_)
expression_complexity(e) ==
  IF e.k = "asks" THEN 1 ELSE FoldSeq(LAMBDA c, n : expression_complexity(c) + n, 0, e.ch)

\* A pattern costs one, the comparison of a variable bound before one more, and
\* its connected constraint: an or of two literals, or one predicate.
PatternCost(p, bound) ==
  1 + (IF p.v # "" /\ p.v \in bound THEN 1 ELSE 0)
    + (CASE p.gen = "or" -> 2 [] p.gen = "complex" -> 1 [] OTHER -> 0)

RECURSIVE append_pattern(_, _)
append_pattern(acc, p) ==
  LET nested == FoldLeft(append_pattern, [seq |-> EmptySequence, bound |-> acc.bound], p.ch) IN
  CASE p.k = "pat" -> [seq |-> AddPattern(acc.seq, PatternCost(p, acc.bound), "primary"),
                       bound |-> acc.bound \cup Binds(p)]
    [] p.k = "assigned" ->
         append_pattern([acc EXCEPT !.bound = @ \cup {p.v}], p.ch[1])
    [] p.k = "and" -> FoldLeft(append_pattern, acc, p.ch)
    [] p.k = "test" ->
         [acc EXCEPT !.seq = AddTest(@, expression_complexity(p.ch[1]))]
    [] p.k = "forall" ->
         LET first == append_pattern([seq |-> EmptySequence, bound |-> acc.bound], p.ch[1])
             both == IF is_pure_test_condition(p.ch[2])
                     THEN AddTest(first.seq, expression_complexity(test_only(p.ch[2])[1]))
                     ELSE append_pattern(first, p.ch[2]).seq IN
         [acc EXCEPT !.seq = AddQuantified(@, both)]
    [] OTHER -> [acc EXCEPT !.seq = AddQuantified(@, nested.seq)]

rule_complexity(ps) ==
  FoldLeft(append_pattern, [seq |-> EmptySequence, bound |-> {}], ps).seq.complexity

-----------------------------------------------------------------------------
(* The pipeline: compile_rule_construct up to the prepared variants *)

Normal(ps) == normalize_conjunction(ps)

Valid(ps) ==
  /\ \A i \in DOMAIN ps : validate_pattern_recursive(ps[i], 0, FALSE, FALSE)
  /\ validate_rule_test_scopes(ps)

Variants(ps) == expand_or_patterns(Normal(ps))

Translated(ps) ==
  Map(translate_rule_construct, Variants(ps))

\* The variants of a rule that is accepted, and none of one that is not.
AllPrepared(variants) == IF \E r \in Range(variants) : r.err # "" THEN <<>> ELSE variants

ConditionPrepared(ps) ==
  IF ~Valid(ps) THEN <<>> ELSE AllPrepared(Translated(ps))

-----------------------------------------------------------------------------
ConditionInit == lhs = <<>>

Room(n) == Sizes(lhs) + n <= MaxNodes

WritePattern(p) == Room(1) /\ lhs' = Append(lhs, Pat(p))

WriteAssigned(p) == Room(2) /\ ~(\E i \in DOMAIN lhs : HasKind({"assigned"}, lhs[i]))
                    /\ lhs' = Append(lhs, Assigned(p))

WriteTest(v) == Room(2) /\ lhs' = Append(lhs, Test(Asks(v)))

\* interpret_conditional_pattern: not takes one condition, forall at least two;
\* no address is bound inside not, exists and forall.
Wrap(k, n) ==
  LET last == SubSeq(lhs, Len(lhs) - n + 1, Len(lhs)) IN
  /\ Room(1)
  /\ k = "not" => n = 1
  /\ k = "forall" => n >= 2
  /\ k \in {"not", "exists", "forall"} => \A i \in DOMAIN last : ~HasKind({"assigned"}, last[i])
  /\ lhs' = Append(SubSeq(lhs, 1, Len(lhs) - n), Group(k, last))

ConditionNext ==
  \/ \E p \in Patterns : WritePattern(p) \/ WriteAssigned(p)
  \/ \E v \in Tested : WriteTest(v)
  \/ \E k \in {"and", "or", "not", "exists", "forall"}, n \in 1..Len(lhs) : Wrap(k, n)

ConditionSpec == ConditionInit /\ [][ConditionNext]_lhs

-----------------------------------------------------------------------------
(* What conditions mean. A match has the values of the variables, the facts   *)
(* matched by the conditions outside quantifiers and the fact at the address. *)

Unbound == 2
NoFact == [rel |-> "", val |-> 0]
Names == {p.var : p \in Patterns} \cup Tested

Nothing == [env |-> [v \in Names |-> Unbound], facts |-> <<>>, address |-> NoFact]

RECURSIVE ConditionHolds(_, _)
ConditionHolds(env, e) ==
  CASE e.k = "asks" -> env[e.v] = 1
    [] e.k = "not" -> ~ConditionHolds(env, e.ch[1])
    [] e.k = "and" -> \A i \in DOMAIN e.ch : ConditionHolds(env, e.ch[i])
    [] e.k = "or" -> \E i \in DOMAIN e.ch : ConditionHolds(env, e.ch[i])

\* The matches of a relation and a variable in memory wm, a sequence of facts.
Joins(wm, m, rel, var) ==
  Map(LAMBDA f : [m EXCEPT !.env[var] = f.val, !.facts = Append(@, f)],
      SelectSeq(wm, LAMBDA f : f.rel = rel /\ m.env[var] \in {Unbound, f.val}))

\* The meaning of conditions as they are written, with multiplicity.
RECURSIVE Matches(_, _, _)
Matches(wm, m, p) ==
  LET InTurn(ps) == FoldLeft(LAMBDA ms, c :
                       FlatMap(LAMBDA n : Matches(wm, n, c), ms), <<m>>, ps) IN
  CASE p.k = "pat" ->
         SelectSeq(Joins(wm, m, p.d, p.v), LAMBDA j : p.gen # "none" => j.env[p.v] = 1)
    [] p.k = "assigned" ->
         Map(LAMBDA j : [j EXCEPT !.address = Last(j.facts)], Matches(wm, m, p.ch[1]))
    [] p.k = "test" -> IF ConditionHolds(m.env, p.ch[1]) THEN <<m>> ELSE <<>>
    [] p.k = "and" -> InTurn(p.ch)
    [] p.k = "or" -> FlatMap(LAMBDA c : Matches(wm, m, c), p.ch)
    [] p.k = "not" -> IF InTurn(p.ch) = <<>> THEN <<m>> ELSE <<>>
    [] p.k = "exists" -> IF InTurn(p.ch) # <<>> THEN <<m>> ELSE <<>>
    [] p.k = "forall" ->
         LET first == Matches(wm, m, p.ch[1]) IN
         IF \A i \in DOMAIN first : Matches(wm, first[i], p.ch[2]) # <<>>
         THEN <<m>> ELSE <<>>

\* The meaning of compiled conditions: what the network propagates.
RECURSIVE Propagates(_, _, _, _)
Propagates(wm, m, conds, tests) ==
  FoldLeft(LAMBDA ms, c :
    FlatMap(LAMBDA n :
      CASE c.c = "predicate" -> IF ConditionHolds(n.env, tests[c.index]) THEN <<n>> ELSE <<>>
        [] c.c = "ncc" -> IF Propagates(wm, n, c.sub, tests) = <<>> THEN <<n>> ELSE <<>>
        [] c.c = "pattern" ->
             LET js == Joins(wm, n, c.rel, c.var) IN
             IF c.negated THEN (IF js = <<>> THEN <<n>> ELSE <<>>)
             ELSE IF c.exists THEN (IF js # <<>> THEN <<n>> ELSE <<>>)
             ELSE js, ms),
    <<m>>, conds)

\* The activations of a variant, with the fact at its address.
Activations(wm, r) ==
  Map(LAMBDA m : IF r.address = 0 THEN m ELSE [m EXCEPT !.address = m.facts[r.address]],
      Propagates(wm, Nothing, r.conds, r.tests))

Count(s, x) == Cardinality({i \in DOMAIN s : s[i] = x})

Memories == {SetToSeq(wm) : wm \in SUBSET Facts}

-----------------------------------------------------------------------------
(* Properties *)

\* Whatever the nesting of and, or, not, exists, forall and tests, the variants
\* of an accepted rule together have exactly the matches of its conditions as
\* they are written, as often, with the same facts and the same fact address.
MeaningKept ==
  \A prepared \in {ConditionPrepared(lhs)}, wm \in Memories :
    prepared # <<>> =>
      LET written == Matches(wm, Nothing, Group("and", lhs))
          compiled == FlatMap(LAMBDA r : Activations(wm, r), prepared) IN
      /\ Len(written) = Len(compiled)
      /\ \A m \in Range(written) : Count(written, m) = Count(compiled, m)

\* The tests of a list of conditions, with what is bound where they are asked.
RECURSIVE BoundReads(_, _, _)
BoundReads(bound, conds, tests) ==
  \A i \in DOMAIN conds :
    LET before == bound \cup {conds[j].var : j \in {k \in 1..(i - 1) :
                                condition_has_fact_address(conds[k])}} IN
    CASE conds[i].c = "predicate" -> ConditionReads(tests[conds[i].index]) \subseteq before
      [] conds[i].c = "ncc" -> BoundReads(before, conds[i].sub, tests)
      [] OTHER -> TRUE

\* No compiled test reads a variable that nothing before it binds: the scopes
\* checked in the source are those of the network, after groups were split,
\* negated and moved.
TestsBound ==
  \A r \in Range(ConditionPrepared(lhs)) : BoundReads({}, r.conds, r.tests)

\* The translation of a validated rule never meets a group that normalisation
\* should have removed, and no variant has an or that the specificity of a rule
\* takes for unreachable.
NormalForm ==
  Valid(lhs) =>
    \A v \in Range(Variants(lhs)) :
      /\ translate_rule_construct(v).err # "internal"
      /\ \A p \in Range(v) : p.k \in {"test", "forall"} \/ ~HasKind({"or"}, p)

\* The estimate that is checked before any copy is made bounds what the copies
\* take: the variants, the normalised conditions, and the conditions of all
\* variants together.
EstimateSound ==
  Valid(lhs) =>
    \A normal \in {Normal(lhs)}, variants \in {Variants(lhs)}, source \in {Estimate(lhs)} :
      /\ Len(variants) <= source.alternatives
      /\ NodesOf(normal) <= source.nodes
      /\ FoldSeq(LAMBDA v, n : NodesOf(v) + n, 0, variants) <= Estimate(normal).nodes

\* Where nothing is a disjunction, the specificity of the normalised rule is
\* that of the rule as it is written: what fires first does not depend on which
\* of two equivalent spellings is used.
SpecificityKept ==
  Valid(lhs) /\ (\A i \in DOMAIN lhs : ~HasKind({"or"}, lhs[i]))
    => rule_complexity(Normal(lhs)) = rule_complexity(lhs)
=============================================================================
