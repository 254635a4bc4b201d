----------------------------- MODULE Arithmetic -----------------------------
(***************************************************************************)
(* The numeric, comparison, Boolean and type functions of the evaluator.   *)
(*                                                                         *)
(* Integers have Width bits in two's complement. A float is a number of    *)
(* halves; a conversion from an integer keeps Precision significant bits,  *)
(* as f64 keeps 53 of 64. NaN and the negative zero are values of their    *)
(* own, and Inf halves stands for the infinities. What float arithmetic    *)
(* computes is left open; what the functions decide around it is not.      *)
(*                                                                         *)
(* A call evaluates its operands left to right: some functions need all of *)
(* them, others stop at the one that decides.                              *)
(***************************************************************************)
EXTENDS Integers, Sequences, FiniteSets

CONSTANTS
  Width,       \* bits of an integer
  Precision,   \* significant bits of a float
  Values,      \* operands
  Checked      \* overflow checks of the build: a debug profile has them

ASSUME ArithmeticAssumption ==
  /\ Width \in Nat \ {0} /\ Precision \in Nat \ {0} /\ Checked \in BOOLEAN

VARIABLES
  call,    \* the function and its operands
  seen,    \* operands evaluated so far
  held,    \* the operand later ones are compared with
  result

arithVars == <<call, seen, held, result>>

MinInt == -(2^(Width - 1))

MaxInt == 2^(Width - 1) - 1

Inf == 4 * 2^Width

Int_(i) == [t |-> "int", v |-> i]

Flt(h) == [t |-> "flt", v |-> h]

NaN == [t |-> "nan", v |-> 0]

NegZero == [t |-> "negzero", v |-> 0]

Bool(b) == [t |-> "sym", v |-> IF b THEN 1 ELSE 0]

Open == [t |-> "open", v |-> 0]       \* some float

ArithPending == [t |-> "none", v |-> 0]

Err(e) == [t |-> e, v |-> 0]

Trap == Err("panic")

IsInt(x) == x.t = "int"

IsFloat(x) == x.t \in {"flt", "nan", "negzero"}

\* as_numeric
Numeric(x) == IsInt(x) \/ IsFloat(x)

\* is_truthy: FALSE is the only false operand.
Truthy(x) == x # Bool(FALSE)

-----------------------------------------------------------------------------
(* Numbers *)

Wrap(i) == ((i - MinInt) % 2^Width) + MinInt

ArithFits(i) == MinInt <= i /\ i <= MaxInt

AbsInt(i) == IF i < 0 THEN -i ELSE i

\* Division rounds towards zero, the remainder has the sign of the dividend.
Quotient(a, b) ==
  LET q == AbsInt(a) \div AbsInt(b) IN IF (a < 0) = (b < 0) THEN q ELSE -q

Remainder(a, b) == a - b * Quotient(a, b)

\* To the nearest number with Precision significant bits, ties to even.
RoundNat(n) ==
  LET k == CHOOSE e \in 0..Width : /\ n < 2^Precision * 2^e
                                   /\ \A f \in 0..(e - 1) : n >= 2^Precision * 2^f
      q == n \div 2^k
      r == 2 * (n % 2^k)
  IN IF r < 2^k \/ (r = 2^k /\ q % 2 = 0) THEN q * 2^k ELSE (q + 1) * 2^k

\* i as f64, in halves.
ToFloat(i) == 2 * (IF i < 0 THEN -RoundNat(-i) ELSE RoundNat(i))

Halves(x) == IF IsInt(x) THEN ToFloat(x.v) ELSE x.v

\* f as i64: towards zero, saturating; NaN is zero.
ToInt(x) ==
  LET q == Quotient(x.v, 2)
  IN IF q < MinInt THEN MinInt ELSE IF q > MaxInt THEN MaxInt ELSE q

IntOf(x) == IF IsInt(x) THEN x.v ELSE ToInt(x)

\* Two integers are compared exactly, any other pair as floats.
Order(x, y) ==
  LET a == IF IsInt(x) /\ IsInt(y) THEN x.v ELSE Halves(x)
      b == IF IsInt(x) /\ IsInt(y) THEN y.v ELSE Halves(y)
  IN IF NaN \in {x, y} THEN "none"
     ELSE IF a < b THEN "less" ELSE IF a = b THEN "equal" ELSE "greater"

\* NumericComparison::matches
Matches(op, x, y) ==
  Order(x, y) \in
    CASE op = ">"  -> {"greater"}
      [] op = "<"  -> {"less"}
      [] op = ">=" -> {"greater", "equal"}
      [] op = "<=" -> {"less", "equal"}
      [] op = "="  -> {"equal"}
      [] op = "!=" -> {"less", "greater", "none"}

-----------------------------------------------------------------------------
(* Functions that evaluate all operands first. *)

AllNumeric(args) == \A i \in DOMAIN args : Numeric(args[i])

AllInts(args) == \A i \in DOMAIN args : IsInt(args[i])

\* The integer result of +, - or * over the operands, each step wrapped.
FoldInts(op, args) ==
  LET From[n \in 0..Len(args)] ==
        IF n = 0 THEN IF op = "*" THEN 1 ELSE 0
        ELSE LET a == From[n - 1] b == args[n].v
             IN CASE op = "+" -> Wrap(a + b)
                  [] op = "*" -> Wrap(a * b)
                  [] op = "-" -> IF n = 1 THEN b ELSE Wrap(a - b)
  IN From[Len(args)]

\* The minimum has no opposite: -i and i.abs() panic where the build checks
\* for overflow and give the minimum back where it does not.
Opposite(i) == IF ArithFits(-i) THEN Int_(-i) ELSE IF Checked THEN Trap ELSE Int_(i)

Add(args) ==
  IF ~AllNumeric(args) THEN Err("type")
  ELSE IF AllInts(args) THEN Int_(FoldInts("+", args)) ELSE Open

Sub(args) ==
  IF args = <<>> THEN Err("arity")
  ELSE IF ~AllNumeric(args) THEN Err("type")
  ELSE IF ~AllInts(args) THEN Open
  ELSE IF Len(args) = 1 THEN Opposite(args[1].v)
  ELSE Int_(FoldInts("-", args))

Mul(args) ==
  IF ~AllNumeric(args) THEN Err("type")
  ELSE IF AllInts(args) THEN Int_(FoldInts("*", args)) ELSE Open

\* "/": both operands become floats.
FloatDiv(args) ==
  IF Len(args) # 2 THEN Err("arity")
  ELSE IF ~AllNumeric(args) THEN Err("type")
  ELSE IF args[2] # NaN /\ Halves(args[2]) = 0 THEN Err("zero") ELSE Open

\* div: operands are truncated first. The division panics in every build when
\* the quotient does not fit.
IntDiv(args) ==
  IF Len(args) # 2 THEN Err("arity")
  ELSE IF ~AllNumeric(args) THEN Err("type")
  ELSE IF IntOf(args[2]) = 0 THEN Err("zero")
  ELSE IF ~ArithFits(Quotient(IntOf(args[1]), IntOf(args[2]))) THEN Trap
  ELSE Int_(Quotient(IntOf(args[1]), IntOf(args[2])))

\* abs
Abs(args) ==
  IF Len(args) # 1 THEN Err("arity")
  ELSE IF ~Numeric(args[1]) THEN Err("type")
  ELSE IF ~IsInt(args[1]) THEN Open
  ELSE IF args[1].v < 0 THEN Opposite(args[1].v) ELSE args[1]

\* Halves to the next integer.
Ceil(h) == -((-h) \div 2)

\* round: the lower integer at a half; integers pass.
Round(args) ==
  IF Len(args) # 1 THEN Err("arity")
  ELSE IF ~Numeric(args[1]) THEN Err("type")
  ELSE IF IsInt(args[1]) THEN args[1]
  ELSE Int_(ToInt(Flt(2 * Ceil(args[1].v - 1))))

\* ceiling and floor: an integer goes through a float.
CeilingOrFloor(up, args) ==
  IF Len(args) # 1 THEN Err("arity")
  ELSE IF ~Numeric(args[1]) THEN Err("type")
  ELSE LET h == Halves(args[1])
       IN Int_(ToInt(Flt(2 * (IF up THEN Ceil(h) ELSE h \div 2))))

\* integer and float
ToIntegerFn(args) ==
  IF Len(args) # 1 THEN Err("arity")
  ELSE IF ~Numeric(args[1]) THEN Err("type") ELSE Int_(IntOf(args[1]))

ToFloatFn(args) ==
  IF Len(args) # 1 THEN Err("arity")
  ELSE IF ~Numeric(args[1]) THEN Err("type")
  ELSE IF IsFloat(args[1]) THEN args[1] ELSE Flt(ToFloat(args[1].v))

\* evenp and oddp
EvenOdd(odd, args) ==
  IF Len(args) # 1 THEN Err("arity")
  ELSE IF ~IsInt(args[1]) THEN Err("type")
  ELSE Bool((Remainder(args[1].v, 2) = 0) # odd)

\* The type predicates
TypePredicate(fn, args) ==
  IF Len(args) # 1 THEN Err("arity")
  ELSE Bool(CASE fn = "integerp" -> IsInt(args[1])
              [] fn = "floatp" -> IsFloat(args[1])
              [] fn = "numberp" -> Numeric(args[1])
              [] fn = "symbolp" -> args[1].t = "sym")

\* Where the mathematical functions refuse an operand. Each tests for being
\* outside, so that NaN passes.
OutOfDomain(fn, x) ==
  CASE fn = "sqrt" -> x.v < 0
    [] fn = "acosh" -> x # NaN /\ x.v < 2
    [] fn \in {"log", "log10"} -> x # NaN /\ x.v <= 0
    [] fn \in {"asin", "acos"} -> x.v < -2 \/ x.v > 2
    [] fn = "atanh" -> x.v >= 2 \/ x.v <= -2
    [] OTHER -> FALSE

\* tan refuses where the cosine vanishes, which is at none of the halves.
MathFns ==
  {"sqrt", "sin", "cos", "tan", "asin", "acos", "atan", "sinh", "cosh", "tanh",
   "asinh", "acosh", "atanh", "exp", "log", "log10", "deg-rad", "rad-deg",
   "deg-grad", "grad-deg"}

MathFn(fn, args) ==
  IF Len(args) # 1 THEN Err("arity")
  ELSE IF ~Numeric(args[1]) THEN Err("type")
  ELSE IF OutOfDomain(fn, IF IsInt(args[1]) THEN Flt(ToFloat(args[1].v)) ELSE args[1])
  THEN Err("domain") ELSE Open

\* "**": no power of zero that is not positive, no root of a negative base.
Pow(args) ==
  IF Len(args) # 2 THEN Err("arity")
  ELSE IF ~AllNumeric(args) THEN Err("type")
  ELSE LET b == Halves(args[1]) e == Halves(args[2])
       IN IF NaN \notin {args[1], args[2]}
             /\ ((b = 0 /\ e <= 0) \/ (b < 0 /\ e % 2 # 0))
          THEN Err("domain")
          ELSE Open

Eager == {"+", "-", "*", "/", "div", "abs", "round", "ceiling", "floor", "integer",
          "float", "evenp", "oddp", "integerp", "floatp", "numberp", "symbolp",
          "**"} \cup MathFns

EagerValue(fn, args) ==
  CASE fn = "+" -> Add(args) [] fn = "-" -> Sub(args) [] fn = "*" -> Mul(args)
    [] fn = "/" -> FloatDiv(args) [] fn = "div" -> IntDiv(args)
    [] fn = "abs" -> Abs(args) [] fn = "round" -> Round(args)
    [] fn \in {"ceiling", "floor"} -> CeilingOrFloor(fn = "ceiling", args)
    [] fn = "integer" -> ToIntegerFn(args) [] fn = "float" -> ToFloatFn(args)
    [] fn \in {"evenp", "oddp"} -> EvenOdd(fn = "oddp", args)
    [] fn \in {"integerp", "floatp", "numberp", "symbolp"} -> TypePredicate(fn, args)
    [] fn = "**" -> Pow(args)
    [] fn \in MathFns -> MathFn(fn, args)

-----------------------------------------------------------------------------
(* Functions that look at their operands one by one. *)

Comparisons == {">", "<", ">=", "<=", "=", "!="}

MinArity(fn) ==
  CASE fn \in Comparisons \cup {"eq", "neq", "mod"} -> 2
    [] fn \in {"min", "max", "not"} -> 1
    [] OTHER -> 0

\* mod, with both operands at hand: the remainder of MIN by -1 is zero.
Mod(a, b) ==
  IF (IsInt(b) /\ b.v = 0) \/ (~IsInt(b) /\ b # NaN /\ b.v = 0) THEN Err("zero")
  ELSE IF IsInt(a) /\ IsInt(b) THEN Int_(Remainder(a.v, b.v)) ELSE Open

\* The first operand.
TakeFirst(fn, x) ==
  CASE fn \in Comparisons \cup {"min", "max", "mod"} ->
         IF Numeric(x) THEN ArithPending ELSE Err("type")
    [] fn = "and" -> IF Truthy(x) THEN ArithPending ELSE Bool(FALSE)
    [] fn = "or" -> IF Truthy(x) THEN Bool(TRUE) ELSE ArithPending
    [] fn = "not" -> Bool(~Truthy(x))
    [] OTHER -> ArithPending

\* Another operand, next to the one held.
TakeNext(fn, h, x) ==
  CASE fn \in Comparisons ->
         IF ~Numeric(x) THEN Err("type")
         ELSE IF Matches(fn, h, x) THEN ArithPending ELSE Bool(FALSE)
    [] fn \in {"min", "max"} -> IF Numeric(x) THEN ArithPending ELSE Err("type")
    [] fn = "mod" -> IF Numeric(x) THEN Mod(h, x) ELSE Err("type")
    [] fn = "eq" -> IF h = x THEN ArithPending ELSE Bool(FALSE)
    [] fn = "neq" -> IF h # x THEN ArithPending ELSE Bool(FALSE)
    [] OTHER -> TakeFirst(fn, x)

\* Which operand later ones are compared with.
Hold(fn, h, x) ==
  CASE fn \in {">", "<", ">=", "<="} -> x
    [] fn = "min" -> IF Order(x, h) = "less" THEN x ELSE h
    [] fn = "max" -> IF Order(x, h) = "greater" THEN x ELSE h
    [] OTHER -> h

\* All operands passed.
AtEnd(fn, h) ==
  CASE fn \in {"min", "max"} -> h
    [] fn = "or" -> Bool(FALSE)
    [] OTHER -> Bool(TRUE)

-----------------------------------------------------------------------------
(* The machine *)

Lazy == Comparisons \cup {"eq", "neq", "and", "or", "not", "min", "max", "mod"}

ArithArgLists(n) == UNION {[1..k -> Values] : k \in 0..n}

ArithInit ==
  /\ call \in {[fn |-> fn, args |-> a] : fn \in Eager, a \in ArithArgLists(2)}
             \cup {[fn |-> fn, args |-> a] : fn \in Lazy, a \in ArithArgLists(3)}
  /\ seen = 0
  /\ held = ArithPending
  /\ result = ArithPending

Evaluate ==
  /\ call.fn \in Eager /\ result = ArithPending
  /\ seen' = Len(call.args)
  /\ result' = EagerValue(call.fn, call.args)
  /\ UNCHANGED <<call, held>>

Refuse ==
  /\ call.fn \in Lazy /\ result = ArithPending /\ seen = 0
  /\ \/ Len(call.args) < MinArity(call.fn)
     \/ call.fn \in {"mod", "not"} /\ Len(call.args) # MinArity(call.fn)
  /\ result' = Err("arity")
  /\ UNCHANGED <<call, seen, held>>

Operand ==
  /\ call.fn \in Lazy /\ result = ArithPending /\ seen < Len(call.args)
  /\ Len(call.args) >= MinArity(call.fn)
  /\ call.fn \in {"mod", "not"} => Len(call.args) = MinArity(call.fn)
  /\ \E x \in {call.args[seen + 1]} :
       \E r \in {IF seen = 0 THEN TakeFirst(call.fn, x) ELSE TakeNext(call.fn, held, x)},
          h \in {IF seen = 0 THEN x ELSE Hold(call.fn, held, x)} :
          /\ result' = IF r = ArithPending /\ seen + 1 = Len(call.args)
                       THEN AtEnd(call.fn, h) ELSE r
          /\ held' = IF r = ArithPending THEN h ELSE held
  /\ seen' = seen + 1
  /\ UNCHANGED call

\* and, or without operands
NoOperands ==
  /\ call.fn \in {"and", "or"} /\ call.args = <<>> /\ result = ArithPending
  /\ result' = AtEnd(call.fn, held)
  /\ UNCHANGED <<call, seen, held>>

\* The program has the value.
Done == result # ArithPending /\ UNCHANGED arithVars

ArithNext == Evaluate \/ Refuse \/ Operand \/ NoOperands \/ Done

ArithSpec == ArithInit /\ [][ArithNext]_arithVars

-----------------------------------------------------------------------------
(* Properties *)

fn == call.fn

args == call.args

Ready == result # ArithPending

\* Integer results are exact modulo the width, and div and mod take an integer
\* apart: a = b * (div a b) + (mod a b), the remainder smaller than b and of
\* a's sign.
IntegerLaws ==
  Ready /\ AllInts(args) /\ result.t = "int" =>
    /\ fn \in {"+", "*", "-"} /\ Len(args) = 2 =>
         result.v \in {i \in MinInt..MaxInt :
           (i - (CASE fn = "+" -> args[1].v + args[2].v
                   [] fn = "-" -> args[1].v - args[2].v
                   [] fn = "*" -> args[1].v * args[2].v)) % 2^Width = 0}
    /\ fn = "mod" =>
         /\ AbsInt(result.v) < AbsInt(args[2].v)
         /\ result.v # 0 => (result.v < 0) = (args[1].v < 0)
         /\ LET d == IntDiv(args)
            IN d.t = "int" => args[1].v = args[2].v * d.v + result.v

\* A panic is possible only where the mathematical result does not fit an
\* integer: the minimum negated, its absolute value, or divided by -1.
PanicOnlyAtMinimum ==
  result = Trap =>
    \/ fn \in {"-", "abs"} /\ Len(args) = 1 /\ args[1] = Int_(MinInt)
    \/ fn = "div" /\ IntOf(args[1]) = MinInt /\ IntOf(args[2]) = -1

\* Where the operand decides: the first one that is no number, or fails.
Pairs(f, i) ==
  IF f \in {"=", "!="} THEN Matches(f, args[1], args[i])
  ELSE Matches(f, args[i - 1], args[i])

Stops(f) == {i \in DOMAIN args :
               ~Numeric(args[i]) \/ (i > 1 /\ Numeric(args[1])
                                     /\ Numeric(args[i - 1]) /\ ~Pairs(f, i))}

\* A comparison evaluates operands up to the first one that decides and no
\* further, and answers for the chain: neighbours for orders, the first operand
\* against each other one for equality.
ChainLazy ==
  Ready /\ fn \in Comparisons /\ Len(args) >= 2 =>
    \A stops \in {Stops(fn)} :
      IF stops = {} THEN result = Bool(TRUE) /\ seen = Len(args)
      ELSE LET d == CHOOSE x \in stops : \A y \in stops : x <= y
           IN /\ seen = d
              /\ result = IF Numeric(args[d]) THEN Bool(FALSE) ELSE Err("type")

\* min and max return an operand unchanged that no other one beats, mixed types
\* and rounding of large integers included; among floats it is the first one,
\* with the sign of its zero.
ExtremumUnbeaten ==
  Ready /\ fn \in {"min", "max"} /\ Numeric(result) /\ NaN \notin {args[i] : i \in DOMAIN args} =>
    \E k \in DOMAIN args :
      /\ args[k] = result
      /\ \A i \in DOMAIN args :
           /\ Order(args[i], result) # IF fn = "min" THEN "less" ELSE "greater"
           /\ i < k /\ (\A j \in DOMAIN args : IsFloat(args[j])) =>
                Order(args[i], result) # "equal"

Pole(f, h) ==
  CASE f \in {"sqrt"} -> h < 0
    [] f \in {"asin", "acos"} -> h \notin -2..2
    [] f = "acosh" -> h < 2
    [] f = "atanh" -> h \notin -1..1
    [] f \in {"log", "log10"} -> h <= 0
    [] OTHER -> FALSE

\* No mathematical function is computed outside its domain or at a pole: a
\* number in never gives NaN or an infinity of its own out.
DomainGuarded ==
  Ready /\ fn \in MathFns /\ result = Open =>
    NaN = args[1] \/ ~Pole(fn, Halves(args[1]))

\* The integers nearest to a float that an integer can hold: floor is not
\* above it, ceiling not below it, round not farther than a half and down at a
\* half.
RoundingSides ==
  Ready /\ fn \in {"floor", "ceiling", "round"} /\ Len(args) = 1
    /\ args[1].t = "flt" /\ AbsInt(args[1].v) < 2 * MaxInt =>
      LET d == 2 * result.v - args[1].v
      IN CASE fn = "floor" -> d \in {-1, 0}
           [] fn = "ceiling" -> d \in {0, 1}
           [] fn = "round" -> d \in {-1, 0}
=============================================================================
