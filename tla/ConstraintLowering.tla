------------------------- MODULE ConstraintLowering -------------------------
(***************************************************************************)
(* From the field constraints of one pattern to the tests the network      *)
(* runs: constant tests of the alpha network, join tests against an        *)
(* earlier pattern's variable, and generated predicates that the evaluator *)
(* decides. A comparison of the field with a variable plus an integer      *)
(* offset is lowered to a test with an adjusted offset, a disjunction to   *)
(* one alpha test as long as the pattern's tests fit a budget.             *)
(*                                                                         *)
(* The only actions write more of the pattern; the loader and the matcher  *)
(* are functions of it and of a fact. Earlier is bound by an earlier       *)
(* pattern, the other variables by this one. Options are sets with at      *)
(* most one member.                                                        *)
(***************************************************************************)
EXTENDS Integers, Sequences, FiniteSets, SequencesExt

CONSTANTS
  MinInt, MaxInt,    \* the integers, for i64
  Floats, Strings,   \* whole numbers that are floats; the order of the strings
  LoweringLiterals,  \* the values the patterns mention
  NameOrder,         \* variables the pattern can bind, in the order it does
  Earlier,           \* the variable an earlier pattern has bound
  Offsets,           \* integers the expressions mention
  Ops,               \* comparisons: eq, neq, >, <, >=, <=
  MaxAlphaTests,     \* budget of the alpha path
  MaxFields,         \* bound on the fields of the pattern
  MaxTerms,          \* bound on the constraints written
  MaxExprs,          \* bound on the comparisons and return values among them
  MaxGrow,           \* bound on the operators of one operand
  LoweringForms      \* the kinds of constraint that are written

ASSUME ConstraintLoweringAssumption ==
  /\ MinInt \in Int /\ MaxInt \in Int /\ MinInt < 0 /\ 0 < MaxInt
  /\ Earlier \notin ToSet(NameOrder)
  /\ MaxAlphaTests \in Nat /\ MaxFields \in Nat /\ MaxTerms \in Nat

VARIABLES
  fields,   \* the pattern: a sequence of conjunctions of constraints
  operand   \* the left operand of the next comparison, as far as written

loweringVars == <<fields, operand>>

LoweringNames == ToSet(NameOrder)

Datum(t, n) == [t |-> t, n |-> n]

LoweringValues == { Datum("int", n) : n \in MinInt..MaxInt }
            \cup { Datum("flt", n) : n \in Floats } \cup { Datum("str", n) : n \in Strings }

Number(v) == v.t # "str"

Fits(n) == MinInt <= n /\ n <= MaxInt

\* The integer n, if the checked operation that gave it succeeds.
CheckedInt(n) == { m \in {n} : Fits(m) }

-----------------------------------------------------------------------------
(* Expressions *)

E(k, v, x, a) == [k |-> k, v |-> v, x |-> x, a |-> a]

Nil == Datum("int", 0)
LoweringLit(v) == E("lit", v, "", <<>>)
LoweringVar(x) == E("var", Nil, x, <<>>)
Minus(e) == E("neg", Nil, "", <<e>>)
Binary(k, e, f) == E(k, Nil, "", <<e, f>>)

\* A variable, if any, its coefficient and an integer offset.
LinearExpr(x, c, o) == [x |-> IF c = 0 THEN "" ELSE x, c |-> c, o |-> o]

MergeVariables(x, y) == IF x # "" /\ y # "" /\ x # y THEN {} ELSE {IF x # "" THEN x ELSE y}

LinearAdd(a, b) ==
  { LinearExpr(x, c, o) : x \in MergeVariables(a.x, b.x),
                          c \in CheckedInt(a.c + b.c), o \in CheckedInt(a.o + b.o) }

LinearSub(a, b) ==
  { LinearExpr(x, c, o) : x \in MergeVariables(a.x, b.x),
                          c \in CheckedInt(a.c - b.c), o \in CheckedInt(a.o - b.o) }

LinearNegate(a) ==
  { LinearExpr(a.x, c, o) : c \in CheckedInt(-a.c), o \in CheckedInt(-a.o) }

RECURSIVE ParseLinear(_)
ParseLinear(e) ==
  CASE e.k = "lit" -> IF e.v.t = "int" THEN {LinearExpr("", 0, e.v.n)} ELSE {}
    [] e.k = "var" -> {LinearExpr(e.x, 1, 0)}
    [] e.k = "neg" -> UNION { LinearNegate(a) : a \in ParseLinear(e.a[1]) }
    [] e.k = "add" -> UNION { LinearAdd(p[1], p[2]) :
                                p \in ParseLinear(e.a[1]) \X ParseLinear(e.a[2]) }
    [] e.k = "sub" -> UNION { LinearSub(p[1], p[2]) :
                                p \in ParseLinear(e.a[1]) \X ParseLinear(e.a[2]) }

\* An operand is a literal, or the variable x plus the offset o.
LoweringOperand(x, o, v) == [x |-> x, o |-> o, v |-> v]

ParseOperand(e) ==
  IF e.k = "lit" THEN {LoweringOperand("", 0, e.v)}
  ELSE IF e.k = "var" THEN {LoweringOperand(e.x, 0, Nil)}
  ELSE { LoweringOperand(l.x, IF l.c = 0 THEN 0 ELSE l.o, IF l.c = 0 THEN Datum("int", l.o) ELSE Nil) :
           l \in { m \in ParseLinear(e) : m.c \in {0, 1} } }

-----------------------------------------------------------------------------
(* Constraints *)

C(k, v, x, op, a, ch) == [k |-> k, v |-> v, x |-> x, op |-> op, a |-> a, ch |-> ch]

CLit(k, v) == C(k, v, "", "", <<>>, <<>>)       \* k = "lit", or "nlit" for ~
CVar(k, x) == C(k, Nil, x, "", <<>>, <<>>)      \* k = "var", or "nvar" for ~
CPred(k, op, l, r) == C(k, Nil, "", op, <<l, r>>, <<>>)   \* k = "pred" or "lex"
CRet(e) == C("ret", Nil, "", "", <<e>>, <<>>)
COr(branches) == C("or", Nil, "", "", <<>>, branches)

\* What a pattern is translated to. seen maps a variable to the field it is
\* bound by, or to 0.
LoweringEmpty ==
  [tests |-> <<>>, vars |-> <<>>, joins |-> <<>>, gen |-> <<>>, alts |-> <<>>,
   seen |-> [x \in LoweringNames \cup {Earlier} |-> 0], rt |-> {}, ok |-> TRUE]

T(slot, k, op, keys, other, off, br) ==
  [slot |-> slot, k |-> k, op |-> op, keys |-> keys, other |-> other, off |-> off, br |-> br]

KeyTest(slot, op, keys) == T(slot, "key", op, keys, slot, 0, <<>>)
SlotTest(slot, op, other) == T(slot, "slot", op, <<>>, other, 0, <<>>)
SlotOffsetTest(slot, op, other, off) == T(slot, "slotoff", op, <<>>, other, off, <<>>)
AnyTest(slot, br) == T(slot, "any", "", <<>>, slot, 0, br)

JoinTest(slot, x, k, op, off) == [slot |-> slot, x |-> x, k |-> k, op |-> op, off |-> off]

LoweringAddTest(p, test) == [p EXCEPT !.tests = Append(@, test)]
AddJoin(p, j) == [p EXCEPT !.joins = Append(@, j)]
AddGenerated(p, g) == [p EXCEPT !.gen = Append(@, g)]

\* Number of test nodes, nested disjunctions and empty branches included.
RECURSIVE TestCount(_)
TestCount(tests) ==
  FoldSeq(LAMBDA t, n : n + 1
            + FoldSeq(LAMBDA b, m : m + TestCount(b) + (IF b = <<>> THEN 1 ELSE 0), 0, t.br),
          0, tests)

Invert(op) ==
  CASE op = ">" -> "<" [] op = "<" -> ">" [] op = ">=" -> "<=" [] op = "<=" -> ">="
    [] OTHER -> op

LoweringHolds(op, a, b) ==
  CASE op = "eq" -> a = b [] op = "neq" -> a # b [] op = ">" -> a > b
    [] op = "<" -> a < b [] op = ">=" -> a >= b [] op = "<=" -> a <= b

\* The field compared with itself plus off; no value is different from itself.
SelfComparison(p, slot, op, off) ==
  IF LoweringHolds(op, 0, off) THEN p ELSE LoweringAddTest(p, SlotTest(slot, "neq", slot))

\* The offset of an operand that is the current field's own variable.
OperandSlotOffset(p, slot, o) ==
  IF o.x # "" /\ p.seen[o.x] = slot THEN {o.o} ELSE {}

\* Mutant: the offset is added on the other side instead of subtracted.
NormalizeSign(o, off) ==
  IF off = 0 THEN {o}
  ELSE IF o.x # "" THEN { LoweringOperand(o.x, n, Nil) : n \in CheckedInt(o.o + off) }
  ELSE { LoweringOperand("", 0, Datum(o.v.t, n)) : n \in CheckedInt(o.v.n + off) }

NormalizeOperand(o, off) ==
  IF off = 0 THEN {o}
  ELSE IF o.x # "" THEN { LoweringOperand(o.x, n, Nil) : n \in CheckedInt(o.o - off) }
  ELSE IF o.v.t = "int" THEN { LoweringOperand("", 0, Datum("int", n)) : n \in CheckedInt(o.v.n - off) }
  ELSE IF o.v.t = "flt" THEN {LoweringOperand("", 0, Datum("flt", o.v.n - off))}
  ELSE {}

LowerVariableComparison(p, slot, op, x, off) ==
  LET other == p.seen[x] IN
  IF other = slot THEN SelfComparison(p, slot, op, off)
  ELSE IF other # 0 THEN LoweringAddTest(p, SlotOffsetTest(slot, op, other, off))
  ELSE AddJoin(p, JoinTest(slot, x, IF off = 0 THEN "plain" ELSE "offset", op, off))

LowerComparison(p, slot, op, off, o) ==
  { IF n.x = "" THEN LoweringAddTest(p, KeyTest(slot, op, <<n.v>>))
    ELSE LowerVariableComparison(p, slot, op, n.x, n.o) : n \in NormalizeOperand(o, off) }

\* str-compare against zero: a join test on strings, if the other operand is
\* a variable of an earlier pattern.
LowerLex(p, slot, op, l, r) ==
  LET left == OperandSlotOffset(p, slot, l) # {}
      right == OperandSlotOffset(p, slot, r) # {}
      o == IF left THEN r ELSE l
  IN  IF left = right \/ o.x = "" \/ p.seen[o.x] # 0 THEN {}
      ELSE {AddJoin(p, JoinTest(slot, o.x, "lex", IF left THEN op ELSE Invert(op), 0))}

\* The pattern with a predicate lowered, if it can be.
TryLower(p, slot, c) ==
  UNION { LET l == o[1] r == o[2]
              left == OperandSlotOffset(p, slot, l)
              right == OperandSlotOffset(p, slot, r)
          IN  IF c.k = "lex" THEN LowerLex(p, slot, c.op, l, r)
              ELSE IF left # {} /\ right # {}
                THEN { SelfComparison(p, slot, c.op, n) : n \in CheckedInt(r.o - l.o) }
              ELSE IF left # {} THEN LowerComparison(p, slot, c.op, l.o, r)
              ELSE IF right # {} THEN LowerComparison(p, slot, Invert(c.op), r.o, l)
              ELSE {} :
            o \in ParseOperand(c.a[1]) \X ParseOperand(c.a[2]) }

\* A return value inside a negated pattern.
TryLowerReturn(p, slot, e) ==
  { LET other == IF o.x = "" THEN 0 ELSE p.seen[o.x] IN
    IF o.x = "" THEN LoweringAddTest(p, KeyTest(slot, "eq", <<o.v>>))
    ELSE IF other = slot THEN SelfComparison(p, slot, "eq", o.o)
    ELSE IF other # 0 THEN LoweringAddTest(p, IF o.o = 0 THEN SlotTest(slot, "eq", other)
                                      ELSE SlotOffsetTest(slot, "eq", other, o.o))
    ELSE AddJoin(p, JoinTest(slot, o.x, IF o.o = 0 THEN "plain" ELSE "offset", "eq", o.o)) :
      o \in ParseOperand(e) }

TranslateVariable(p, slot, x) ==
  IF p.seen[x] = 0
    THEN [p EXCEPT !.seen[x] = slot, !.vars = Append(@, <<slot, x>>)]
    ELSE IF p.seen[x] = slot THEN p ELSE LoweringAddTest(p, SlotTest(slot, "eq", p.seen[x]))

\* The field gets a variable of its own that a generated predicate refers to.
EnsureSlotVariable(p, slot) == [p EXCEPT !.rt = @ \cup {slot}]

FitsBudget(p, test) == TestCount(p.tests) + TestCount(<<test>>) <= MaxAlphaTests

RECURSIVE TranslateConstraint(_, _, _, _)

TranslateAll(p, slot, cs, neg) ==
  FoldLeft(LAMBDA q, c : TranslateConstraint(q, slot, c, neg), p, cs)

\* Every alternative is translated apart from the others. Literals become one
\* test; constant and same-fact comparisons a disjunction the alpha network
\* decides, if it fits; anything else a predicate on the field's value.
TranslateOr(p, slot, c, neg) ==
  LET branch(i) == TranslateAll([p EXCEPT !.tests = <<>>, !.joins = <<>>, !.gen = <<>>,
                                          !.alts = <<>>], slot, c.ch[i], neg)
      brs == [i \in DOMAIN c.ch |-> branch(i)] \o <<>>
      simple == \A i \in DOMAIN brs : brs[i].vars = p.vars /\ brs[i].joins = <<>>
                                        /\ brs[i].gen = <<>>
      test == AnyTest(slot, [i \in DOMAIN brs |-> brs[i].tests] \o <<>>)
      literals == \A i \in DOMAIN c.ch : Len(c.ch[i]) = 1 /\ c.ch[i][1].k = "lit"
  IN  IF literals
        THEN LoweringAddTest(p, KeyTest(slot, "eq", [i \in DOMAIN c.ch |-> c.ch[i][1].v] \o <<>>))
      ELSE IF \E i \in DOMAIN brs : ~brs[i].ok THEN [p EXCEPT !.ok = FALSE]
      ELSE IF simple /\ FitsBudget(p, test)
        THEN [LoweringAddTest(p, test) EXCEPT
                !.alts = Append(@, [index |-> Len(p.tests) + 1, slot |-> slot, c |-> c,
                                    at |-> Len(p.gen)])]
        ELSE AddGenerated(EnsureSlotVariable(p, slot), [slot |-> slot, c |-> c])

TranslateConstraint(p, slot, c, neg) ==
  CASE c.k = "lit" -> LoweringAddTest(p, KeyTest(slot, "eq", <<c.v>>))
    [] c.k = "nlit" -> LoweringAddTest(p, KeyTest(slot, "neq", <<c.v>>))
    [] c.k = "var" -> TranslateVariable(p, slot, c.x)
    [] c.k = "nvar" -> IF p.seen[c.x] # 0 THEN LoweringAddTest(p, SlotTest(slot, "neq", p.seen[c.x]))
                       ELSE AddJoin(p, JoinTest(slot, c.x, "plain", "neq", 0))
    [] c.k = "or" -> TranslateOr(p, slot, c, neg)
    [] c.k \in {"pred", "lex"} ->
         LET low == TryLower(p, slot, c) IN
         IF low # {} THEN CHOOSE q \in low : TRUE
         ELSE IF neg THEN [p EXCEPT !.ok = FALSE]
         ELSE AddGenerated(p, [slot |-> slot, c |-> c])
    [] c.k = "ret" ->
         LET low == TryLowerReturn(p, slot, c.a[1]) IN
         IF ~neg THEN AddGenerated(EnsureSlotVariable(p, slot), [slot |-> slot, c |-> c])
         ELSE IF low # {} THEN CHOOSE q \in low : TRUE
         ELSE [p EXCEPT !.ok = FALSE]

Widest(p, a, b) ==
  LET size(d) == TestCount(<<p.tests[d.index]>>) IN
  size(a) > size(b) \/ (size(a) = size(b) /\ a.index < b.index)

\* The widest disjunctions, as long as there are too many tests.
Fallbacks(p, sorted) ==
  LET left(k) == TestCount(p.tests)
                   - TestCount([i \in 1..k |-> p.tests[sorted[i].index]] \o <<>>)
  IN  SubSeq(sorted, 1, CHOOSE n \in 0..Len(sorted) :
                          /\ left(n) <= MaxAlphaTests \/ n = Len(sorted)
                          /\ \A m \in 0..(n - 1) : left(m) > MaxAlphaTests)

Position(d) == d.at + 1

RemoveTests(tests, gone) ==
  LET keep == SetToSortSeq({ i \in DOMAIN tests : i \notin gone }, <) IN
  [i \in DOMAIN keep |-> tests[keep[i]]] \o <<>>

\* Disjunctions that give way become predicates, later fields first so that
\* the predicates keep the order of the fields.
GiveWay(p, out) ==
  [p EXCEPT !.tests = RemoveTests(@, { out[i].index : i \in DOMAIN out }),
            !.rt = @ \cup { out[i].slot : i \in DOMAIN out },
            !.gen = FoldLeft(LAMBDA g, d : InsertAt(g, Position(d), [slot |-> d.slot, c |-> d.c]),
                             @, SortSeq(out, LAMBDA a, b : a.index > b.index))]
FitAlphaDisjunctions(p) ==
  GiveWay(p, Fallbacks(p, SortSeq(p.alts, LAMBDA a, b : Widest(p, a, b))))

\* The translation of a whole pattern; neg inside not and exists. The compiler
\* refuses a pattern with too many tests.
WithinLimit(p) == [p EXCEPT !.ok = @ /\ TestCount(p.tests) <= MaxAlphaTests]
TranslatePattern(fs, neg) ==
  WithinLimit(FitAlphaDisjunctions(
    FoldLeft(LAMBDA p, slot : TranslateAll(p, slot, fs[slot], neg), LoweringEmpty,
             [i \in DOMAIN fs |-> i] \o <<>>)))

-----------------------------------------------------------------------------
(* Matching *)

AddIntegerOffset(v, off) ==
  CASE v.t = "int" -> { Datum("int", n) : n \in CheckedInt(v.n + off) }
    [] v.t = "flt" -> {Datum("flt", v.n + off)}
    [] OTHER -> {}

CompareNumeric(op, a, b) == Number(a) /\ Number(b) /\ LoweringHolds(op, a.n, b.n)

CompareOffset(op, a, b, off) == \E c \in AddIntegerOffset(b, off) : CompareNumeric(op, a, c)

TypedCompare(op, a, b) ==
  CASE op = "eq" -> a = b [] op = "neq" -> a # b [] OTHER -> CompareNumeric(op, a, b)

RECURSIVE EvaluateFieldTest(_, _)
EvaluateFieldTest(t, fact) ==
  LET v == fact[t.slot] IN
  CASE t.k = "any" -> \E b \in DOMAIN t.br :
                        \A i \in DOMAIN t.br[b] : EvaluateFieldTest(t.br[b][i], fact)
    [] t.k = "key" -> \E i \in DOMAIN t.keys : TypedCompare(t.op, v, t.keys[i])
    [] t.k = "slot" -> TypedCompare(t.op, v, fact[t.other])
    [] t.k = "slotoff" -> IF t.op = "neq" THEN ~CompareOffset("eq", v, fact[t.other], t.off)
                          ELSE CompareOffset(t.op, v, fact[t.other], t.off)

\* Both strings.
CompareLexemes(op, a, b) == a.t = "str" /\ b.t = "str" /\ LoweringHolds(op, a.n, b.n)

EvaluateJoin(j, v, bound) ==
  CASE j.k = "plain" -> TypedCompare(j.op, v, bound)
    [] j.k = "lex" -> CompareLexemes(j.op, v, bound)
    [] j.k = "offset" -> CompareOffset(j.op, v, bound, j.off)

-----------------------------------------------------------------------------
(* What is written, in exact arithmetic *)

Bad == Datum("bad", 0)

RECURSIVE Exact(_, _)
Exact(e, env) ==
  IF e.k = "lit" THEN e.v
  ELSE IF e.k = "var" THEN env[e.x]
  ELSE LET a == Exact(e.a[1], env)
           b == Exact(e.a[Len(e.a)], env)
       IN  IF a.t \in {"bad", "str"} \/ b.t \in {"bad", "str"} THEN Bad
           ELSE Datum(IF a.t = "flt" \/ b.t = "flt" THEN "flt" ELSE "int",
                  CASE e.k = "neg" -> -a.n [] e.k = "add" -> a.n + b.n
                    [] e.k = "sub" -> a.n - b.n)

RECURSIVE ExprVars(_)
ExprVars(e) == IF e.k = "var" THEN {e.x} ELSE UNION { ExprVars(e.a[i]) : i \in DOMAIN e.a }

RECURSIVE WrittenHolds(_, _, _)
WrittenHolds(c, v, env) ==
  CASE c.k = "lit" -> v = c.v
    [] c.k = "nlit" -> v # c.v
    [] c.k = "var" -> v = env[c.x]
    [] c.k = "nvar" -> v # env[c.x]
    [] c.k = "or" -> \E b \in DOMAIN c.ch :
                       \A i \in DOMAIN c.ch[b] : WrittenHolds(c.ch[b][i], v, env)
    [] c.k = "pred" -> TypedCompare(c.op, Exact(c.a[1], env), Exact(c.a[2], env))
    [] c.k = "lex" -> CompareLexemes(c.op, Exact(c.a[1], env), Exact(c.a[2], env))
    [] c.k = "ret" -> v = Exact(c.a[1], env)

\* The evaluator decides a generated predicate as it is written; there is a
\* value for every variable when it runs.
GeneratedHolds(g, fact, env) == WrittenHolds(g.c, fact[g.slot], env)

\* The variables of a fact of this pattern, the earlier one included.
Environment(p, fact, e) ==
  [x \in LoweringNames \cup {Earlier} |->
     IF x # Earlier /\ p.seen[x] # 0 THEN fact[p.seen[x]] ELSE e]

LoweringMatches(p, fact, e) ==
  /\ \A i \in DOMAIN p.tests : EvaluateFieldTest(p.tests[i], fact)
  /\ \A i \in DOMAIN p.vars : p.vars[i][2] = Earlier => fact[p.vars[i][1]] = e
  /\ \A i \in DOMAIN p.joins : /\ p.joins[i].x = Earlier
                               /\ EvaluateJoin(p.joins[i], fact[p.joins[i].slot], e)
  /\ \A env \in {Environment(p, fact, e)} :
       \A i \in DOMAIN p.gen : GeneratedHolds(p.gen[i], fact, env)

-----------------------------------------------------------------------------
(* Writing a pattern *)

\* The number of constraints of the given kinds.
RECURSIVE Weight(_, _)
Weight(cs, kinds) ==
  FoldLeft(LAMBDA n, c : n + (IF c.k \in kinds THEN 1 ELSE 0)
                           + FoldLeft(LAMBDA m, b : m + Weight(b, kinds), 0, c.ch), 0, cs)

Expressions == {"pred", "lex", "ret"}

LoweringWritten == Weight(FlattenSeq(fields), Expressions \cup {"lit", "nlit", "var", "nvar"})

BoundBy(f) == { f[i].x : i \in { j \in DOMAIN f : f[j].k = "var" } }

LoweringBound == {Earlier} \cup UNION { BoundBy(fields[i]) : i \in DOMAIN fields }

LoweringNone == E("none", Nil, "", <<>>)

RECURSIVE Operators(_)
Operators(e) == IF e.a = <<>> THEN 0 ELSE 1 + Operators(e.a[1]) + Operators(e.a[Len(e.a)])

LoweringLeaves == { LoweringLit(Datum("int", n)) : n \in Offsets } \cup { LoweringVar(x) : x \in LoweringBound }

RightOperands == LoweringLeaves \cup { LoweringLit(v) : v \in LoweringLiterals }
                   \cup { Binary("add", LoweringVar(x), LoweringLit(Datum("int", n))) : x \in LoweringBound, n \in Offsets }

Write(c) ==
  /\ LoweringWritten < MaxTerms
  /\ fields' = [fields EXCEPT ![Len(fields)] = Append(@, c)]
  /\ operand' = LoweringNone

WriteLiteral(neg, v) ==
  /\ operand = LoweringNone /\ "lit" \in LoweringForms
  /\ Write(CLit(IF neg THEN "nlit" ELSE "lit", v))

WriteVariable(x) ==
  /\ operand = LoweringNone /\ "var" \in LoweringForms
  /\ x \in LoweringBound \/ (Cardinality(LoweringBound) <= Len(NameOrder) /\ x = NameOrder[Cardinality(LoweringBound)])
  /\ Write(CVar("var", x))

WriteNotVariable(x) == operand = LoweringNone /\ "nvar" \in LoweringForms /\ x \in LoweringBound /\ Write(CVar("nvar", x))

\* The left operand of a comparison, or the expression of a return value.
BeginOperand(e) ==
  /\ operand = LoweringNone /\ LoweringWritten < MaxTerms /\ LoweringForms \cap Expressions # {}
  /\ Weight(FlattenSeq(fields), Expressions) < MaxExprs
  /\ operand' = e
  /\ UNCHANGED fields

GrowOperand(e) ==
  /\ operand # LoweringNone /\ Operators(operand) < MaxGrow
  /\ \/ operand' = Minus(operand)
     \/ \E k \in {"add", "sub"} :
          \/ operand' = Binary(k, operand, e)
          \/ operand' = Binary(k, e, operand)
  /\ UNCHANGED fields

WriteComparison(op, e) ==
  /\ operand # LoweringNone /\ "pred" \in LoweringForms
  /\ Write(CPred("pred", op, operand, e))

WriteLexComparison(op, x) ==
  /\ operand.k = "var" /\ "lex" \in LoweringForms
  /\ Write(CPred("lex", op, operand, LoweringVar(x)))

WriteReturnValue == operand # LoweringNone /\ "ret" \in LoweringForms /\ Write(CRet(operand))

\* The last n constraints of the field become two alternatives; they bind
\* nothing that is not bound elsewhere.
Disjoin(n) ==
  LET f == fields[Len(fields)]
      keep == SubSeq(f, 1, Len(f) - n)
      last == SubSeq(f, Len(f) - n + 1, Len(f))
      before == SubSeq(fields, 1, Len(fields) - 1)
  IN  /\ operand = LoweringNone /\ "or" \in LoweringForms /\ n <= Len(f)
      /\ BoundBy(last) \subseteq {Earlier} \cup BoundBy(keep)
                                   \cup UNION { BoundBy(before[i]) : i \in DOMAIN before }
      /\ fields' = [fields EXCEPT ![Len(fields)] =
                      Append(keep, COr(<<SubSeq(last, 1, n - 1), SubSeq(last, n, n)>>))]
      /\ UNCHANGED operand

NextField ==
  /\ operand = LoweringNone /\ Len(fields) < MaxFields /\ fields[Len(fields)] # <<>>
  /\ fields' = Append(fields, <<>>)
  /\ UNCHANGED operand

LoweringInit == fields = <<<<>>>> /\ operand = LoweringNone

LoweringNext ==
  \/ \E neg \in BOOLEAN, v \in LoweringLiterals : WriteLiteral(neg, v)
  \/ \E x \in LoweringNames \cup {Earlier} : WriteVariable(x) \/ WriteNotVariable(x)
  \/ \E e \in LoweringLeaves : BeginOperand(e) \/ GrowOperand(e)
  \/ \E op \in Ops, e \in RightOperands : WriteComparison(op, e)
  \/ \E op \in Ops, x \in LoweringBound : WriteLexComparison(op, x)
  \/ WriteReturnValue
  \/ \E n \in 2..3 : Disjoin(n)
  \/ NextField

LoweringSpec == LoweringInit /\ [][LoweringNext]_loweringVars

-----------------------------------------------------------------------------
(* Properties *)

\* The field that binds x, and the values of the variables.
BindingField(x) == CHOOSE i \in DOMAIN fields :
  x \in BoundBy(fields[i]) /\ \A j \in 1..(i - 1) : x \notin BoundBy(fields[j])

Env(fact, e) == [x \in LoweringBound |-> IF x = Earlier THEN e ELSE fact[BindingField(x)]]

RECURSIVE ExprFits(_, _)
ExprFits(e, env) ==
  /\ \A i \in DOMAIN e.a : ExprFits(e.a[i], env)
  /\ Exact(e, env).t = "int" => Fits(Exact(e, env).n)
  /\ Exact(e, env) # Bad

\* The variables a field has been bound to when its i-th constraint is read.
Own(f, i) == BoundBy(SubSeq(f, 1, i - 1))

\* The field, moved by the difference of the operands: the adjusted operand.
Adjusted(c, v, own, env) ==
  LET a == Exact(c.a[1], env) b == Exact(c.a[2], env) IN
  IF ExprVars(c.a[1]) \cap own # {} THEN v.n + b.n - a.n ELSE v.n + a.n - b.n

\* One comparison inside what the lowering keeps: no arithmetic leaves the
\* integers, orders are asked of numbers, equality between two fields of the
\* fact of numbers of one type, and equality under an offset of integers.
LoweringSettled(c, v, own, here, env) ==
  CASE c.k = "pred" ->
         LET a == Exact(c.a[1], env) b == Exact(c.a[2], env)
             moved == Operators(c.a[1]) + Operators(c.a[2]) > 0
             fieldwise == (ExprVars(c.a[1]) \cup ExprVars(c.a[2])) \cap here # {}
         IN  /\ ExprFits(c.a[1], env) /\ ExprFits(c.a[2], env)
             /\ (c.op \notin {"eq", "neq"} \/ moved) => (Number(a) /\ Number(b))
             /\ (c.op \in {"eq", "neq"} /\ fieldwise) => (a.t = b.t /\ Number(a))
             /\ (c.op \in {"eq", "neq"} /\ moved) => (a.t = "int" /\ b.t = "int")
             /\ (Number(a) /\ Number(b)) => Fits(Adjusted(c, v, own, env))
    [] c.k = "ret" -> /\ ExprFits(c.a[1], env)
                      /\ Operators(c.a[1]) > 0 => (Exact(c.a[1], env).t = "int" /\ v.t = "int")
    [] OTHER -> TRUE

AllSettled(fact, env) ==
  \A s \in DOMAIN fields : \A i \in DOMAIN fields[s] :
    LET c == fields[s][i]
        own == Own(fields[s], i)
        here == UNION { BoundBy(fields[j]) : j \in 1..(s - 1) } \ own
    IN  IF c.k = "or"
        THEN \A b \in DOMAIN c.ch : \A j \in DOMAIN c.ch[b] :
               c.ch[b][j].k = "or" \/ LoweringSettled(c.ch[b][j], fact[s], own, here, env)
        ELSE LoweringSettled(c, fact[s], own, here, env)

WrittenMatches(fact, env) ==
  \A s \in DOMAIN fields : \A i \in DOMAIN fields[s] : WrittenHolds(fields[s][i], fact[s], env)

LoweringFacts == [DOMAIN fields -> LoweringValues]

RECURSIVE Mentions(_)
Mentions(cs) ==
  \E i \in DOMAIN cs : \/ cs[i].x = Earlier
                       \/ \E j \in DOMAIN cs[i].a : Earlier \in ExprVars(cs[i].a[j])
                       \/ \E b \in DOMAIN cs[i].ch : Mentions(cs[i].ch[b])

\* What the earlier variable can be; any one value, if it is not mentioned.
EarlierValues == IF Mentions(FlattenSeq(fields)) THEN LoweringValues ELSE {Nil}

\* A pattern matches a fact, after lowering, joining and moving tests between
\* the alpha network and predicates, exactly if the constraints as they are
\* written hold of it, both in a positive and in a negated pattern that is
\* accepted (translate_constraint, try_lower_simple_predicate_constraint).  The
\* exceptions are the comparisons that are not LoweringSettled: equality within
\* a fact of symbols, strings or numbers of two types (alpha.rs:979), equality
\* under an offset of anything but integers, and offsets that leave the
\* integers (alpha.rs:905).
MatchExact(translations) ==
  LET accepted == {p \in translations : p.ok} IN
  accepted # {} =>
    \A fact \in LoweringFacts, e \in EarlierValues : \A env \in {Env(fact, e)} :
      AllSettled(fact, env) =>
        \A p \in accepted : LoweringMatches(p, fact, e) <=> WrittenMatches(fact, env)

\* A pattern is refused for its number of tests only if it would be without
\* its disjunctions: these give way (fit_alpha_disjunctions).
DisjunctionsGiveWay(p) == p.ok \/ \A i \in DOMAIN p.tests : p.tests[i].k # "any"

\* The predicates of a pattern are evaluated in the order of its fields and
\* constraints, whichever of them were alpha tests for a while.
PredicatesInOrder(p) ==
  LET places == FlattenSeq([s \in DOMAIN fields |->
                  [i \in DOMAIN fields[s] |-> [slot |-> s, c |-> fields[s][i]]]] \o <<>>)
  IN  \E at \in [DOMAIN p.gen -> DOMAIN places] :
        /\ \A i \in DOMAIN p.gen : places[at[i]] = p.gen[i]
        /\ \A i, j \in DOMAIN p.gen : i < j => at[i] < at[j]

\* An operand that is read as a variable plus an offset, or as a constant, has
\* that value whatever the variable is (parse_linear_integer_expression).
LinearExact ==
  operand # LoweringNone =>
    \A o \in ParseOperand(operand) : \A val \in [LoweringBound -> LoweringValues] :
      \A v \in {Exact(operand, val)} \ {Bad} :
        IF o.x = "" THEN v.n = o.v.n /\ (v.t = "int" \/ Operators(operand) > 0)
        ELSE v.n = val[o.x].n + o.o /\ v.t = val[o.x].t

\* What holds of every pattern once it is written.
PatternsExact ==
  operand = LoweringNone =>
    \A p \in {TranslatePattern(fields, FALSE)} :
      /\ MatchExact({p, TranslatePattern(fields, TRUE)})
      /\ DisjunctionsGiveWay(p) /\ PredicatesInOrder(p)
=============================================================================
