----------------------------- MODULE SlotForms -----------------------------
(***************************************************************************)
(* The declaration of one slot of a template: its attributes as the parser *)
(* reads and combines them, the constraints the loader compiles from them, *)
(* the default it derives, and the checks of supplied values, once on the  *)
(* source when it is loaded and once on the values when a fact is built.   *)
(*                                                                         *)
(* A value is a kind and an identity; the identity of a number is twice    *)
(* its value, so that floats may lie between integers.  Integers above     *)
(* MaxExact lose their low bits when they are compared as floats.          *)
(***************************************************************************)
EXTENDS Integers, Sequences, SequencesExt, FiniteSets, FiniteSetsExt

CONSTANTS
  Attributes,      \* the attributes a declaration may have: [name, vals]
  Values,          \* the values of the model
  MaxAttributes,   \* how many attributes a declaration has
  MaxExact         \* the largest number a float keeps exactly

ASSUME SlotFormsAssumption == MaxAttributes \in Nat /\ MaxExact \in Nat

VARIABLES slot_type, attrs
slotVars == <<slot_type, attrs>>

V(k, id) == [k |-> k, id |-> id, sub |-> <<>>]
NegativeZero == 99                    \* the identity of -0.0
Val(v) == IF v.id = NegativeZero THEN 0 ELSE v.id

\* The order of kinds is also that of derived defaults.
KindOrder == <<"sym", "str", "int", "flt", "inst", "fact", "ext">>
Kinds == Range(KindOrder)
SlotLiterals == Kinds \ {"fact", "ext"}
Numeric == {"int", "flt"}

Variable == [k |-> "?VARIABLE", id |-> 0, sub |-> <<>>]

-----------------------------------------------------------------------------
(* The attributes of a slot *)

SlotTypes(name) ==
  CASE name = "NUMBER" -> Numeric [] name = "LEXEME" -> {"sym", "str"} [] OTHER -> {name}

\* What is made of an option that is there.
IfGiven(o, F(_)) == IF o = <<>> THEN <<>> ELSE F(o[1])

\* The types of a type attribute: an option of an option of a set.
interpret_slot_types(vals) ==
  IF vals = <<Variable>> THEN << <<>> >>
  ELSE IF vals = <<>> \/ \E i \in DOMAIN vals : vals[i].k # "type" THEN <<>>
  ELSE << << UNION {SlotTypes(vals[i].id) : i \in DOMAIN vals} >> >>

Facets == {"symbols", "strings", "lexemes", "integers", "floats", "numbers", "values"}

FacetKinds(facet) ==
  CASE facet = "symbols" -> {"sym"}
    [] facet = "strings" -> {"str"}
    [] facet = "lexemes" -> {"sym", "str"}
    [] facet = "integers" -> {"int"}
    [] facet = "floats" -> {"flt"}
    [] facet = "numbers" -> Numeric
    [] OTHER -> SlotLiterals

conflicts_with_range(facet) == facet \in {"integers", "floats", "numbers", "values"}

\* A list of allowed values next to the lists before it.
interpret_allowed(facet, vals, previous) ==
  IF \E i \in DOMAIN previous : FacetKinds(previous[i].facet) \cap FacetKinds(facet) # {}
  THEN <<>>
  ELSE IF vals = <<Variable>> THEN <<[facet |-> facet, values |-> <<>>]>>
  ELSE IF vals = <<>> \/ \E i \in DOMAIN vals : vals[i].k \notin FacetKinds(facet) THEN <<>>
  ELSE <<[facet |-> facet, values |-> <<vals>>]>>

\* An integer as a float.
Rounded(n) == IF n <= MaxExact THEN n ELSE n - (n % 4)

bound_greater(a, b) ==
  IF a.k = b.k THEN Val(a) > Val(b)
  ELSE (IF a.k = "int" THEN Rounded(Val(a)) ELSE Val(a))
       > (IF b.k = "int" THEN Rounded(Val(b)) ELSE Val(b))

\* The bound of an endpoint, an option; ?VARIABLE has none.
Bound(v) == IF v = Variable THEN <<>> ELSE <<v>>

interpret_range(vals) ==
  IF Len(vals) # 2 THEN <<>>
  ELSE IF \E i \in {1, 2} : vals[i] # Variable /\ vals[i].k \notin Numeric THEN <<>>
  ELSE LET r == [min |-> Bound(vals[1]), max |-> Bound(vals[2])]
       IN IF \E lo \in Range(r.min), hi \in Range(r.max) : bound_greater(lo, hi)
          THEN <<>> ELSE <<r>>

interpret_cardinality(vals) ==
  IF Len(vals) # 2 THEN <<>>
  ELSE IF \E i \in {1, 2} : vals[i] # Variable /\ (vals[i].k # "int" \/ Val(vals[i]) < 0)
  THEN <<>>
  ELSE LET min == IF vals[1] = Variable THEN 0 ELSE Val(vals[1]) \div 2
           max == IF vals[2] = Variable THEN <<>> ELSE <<Val(vals[2]) \div 2>>
       IN IF \E m \in Range(max) : min > m THEN <<>>
          ELSE <<[min |-> min, max |-> max]>>

\* The literal fields of an expression, as an option.
RECURSIVE collect_literal_fields(_)
collect_literal_fields(es) ==
  IF es = <<>> THEN << <<>> >>
  ELSE IfGiven(IF es[1].k \in SlotLiterals THEN << <<es[1]>> >>
               ELSE IF es[1].k = "create$" THEN collect_literal_fields(es[1].sub)
               ELSE <<>>,
               LAMBDA first : IfGiven(collect_literal_fields(Tail(es)),
                                      LAMBDA rest : <<first \o rest>>))

Default(t, vs) == [t |-> t, vs |-> vs]

Literally(vals, fields) ==
  IF fields # <<>> THEN <<Default("values", fields[1])>> ELSE <<Default("expressions", vals)>>
interpret_default(vals, type, dynamic) ==
  IF \E i \in DOMAIN vals : vals[i].k \in {"?NONE", "?DERIVE"}
  THEN IF Len(vals) # 1 \/ dynamic THEN <<>> ELSE <<Default(vals[1].k, <<>>)>>
  ELSE IF type = "single" /\ (Len(vals) # 1 \/ vals[1].k = "create$")
  THEN <<>>
  ELSE IF dynamic THEN <<Default("dynamic", vals)>>
  ELSE Literally(vals, collect_literal_fields(vals))

NoAttributes ==
  [types |-> <<>>, typed |-> FALSE, allowed |-> <<>>, range |-> <<>>, card |-> <<>>,
   default |-> <<>>]

\* One attribute added to those read before, as an option.
AddAttribute(a, option, type) ==
  CASE option.name \in {"default", "default-dynamic"} /\ a.default = <<>> ->
         IfGiven(interpret_default(option.vals, type, option.name = "default-dynamic"),
                 LAMBDA d : <<[a EXCEPT !.default = <<d>>]>>)
    [] option.name = "type" /\ ~a.typed ->
         IfGiven(interpret_slot_types(option.vals),
                 LAMBDA t : <<[a EXCEPT !.typed = TRUE, !.types = t]>>)
    [] option.name = "range" /\ a.range = <<>> ->
         IfGiven(interpret_range(option.vals), LAMBDA r : <<[a EXCEPT !.range = <<r>>]>>)
    [] option.name = "cardinality" /\ type = "multi" /\ a.card = <<>> ->
         IfGiven(interpret_cardinality(option.vals), LAMBDA c : <<[a EXCEPT !.card = <<c>>]>>)
    [] option.name \in Facets ->
         IfGiven(interpret_allowed(option.name, option.vals, a.allowed),
                 LAMBDA f : <<[a EXCEPT !.allowed = Append(@, f)]>>)
    [] OTHER -> <<>>

\* The conflicts between attributes.
validate_declaration(a) ==
  /\ \A i \in DOMAIN a.allowed :
       LET f == a.allowed[i] IN
       /\ ~(a.range # <<>> /\ conflicts_with_range(f.facet))
       /\ a.types # <<>> /\ f.values # <<>> =>
            (IF f.facet = "values" THEN {f.values[1][j].k : j \in DOMAIN f.values[1]}
             ELSE FacetKinds(f.facet)) \subseteq a.types[1]
  /\ a.types # <<>> /\ a.range # <<>> =>
       \A b \in Range(a.range[1].min \o a.range[1].max) : b.k \in a.types[1]

\* The allowed values by kind: a kind without an entry is not restricted, one
\* with an empty entry is forbidden.
AllowedByKind(allowed) ==
  LET given == SelectSeq(allowed, LAMBDA f : f.values # <<>>)
      Of(k) == CHOOSE i \in DOMAIN given : k \in FacetKinds(given[i].facet)
  IN [k \in UNION {FacetKinds(given[i].facet) : i \in DOMAIN given} |->
        SelectSeq(given[Of(k)].values[1], LAMBDA v : v.k = k)]

\* What a list of attributes declares, as an option.
Declares(a) ==
  IF ~validate_declaration(a) THEN <<>>
  ELSE <<[types |-> a.types, allowed |-> AllowedByKind(a.allowed),
          inOrder |-> FlattenSeq([i \in DOMAIN a.allowed |->
                        IF a.allowed[i].values = <<>> THEN <<>>
                        ELSE a.allowed[i].values[1]] \o <<>>),
          range |-> a.range, card |-> a.card, default |-> a.default]>>
interpret_attributes(options, type) ==
  IfGiven(FoldLeft(LAMBDA acc, o : IfGiven(acc, LAMBDA a : AddAttribute(a, o, type)),
                   <<NoAttributes>>, options),
          Declares)
-----------------------------------------------------------------------------
(* Compiled constraints *)

\* The exact comparison of two numbers.
compare_numbers(a, b) ==
  IF Val(a) < Val(b) THEN -1 ELSE IF Val(a) > Val(b) THEN 1 ELSE 0

validate_number(c, v) ==
  c.range # <<>> =>
    /\ \A m \in Range(c.range[1].min) : compare_numbers(v, m) >= 0
    /\ \A m \in Range(c.range[1].max) : compare_numbers(v, m) <= 0

\* The check of one field when a fact is built; values are compared by
\* identity, so -0.0 is not 0.0.
validate_field(c, v) ==
  /\ v.k \in DOMAIN c.allowed => \E i \in DOMAIN c.allowed[v.k] : c.allowed[v.k][i] = v
  /\ v.k \in Numeric => validate_number(c, v)

\* The check of a literal when source is loaded; bits, bytes and names.
validate_literal(c, v) ==
  /\ v.k \in DOMAIN c.allowed => v \in Range(c.allowed[v.k])
  /\ v.k \in Numeric => validate_number(c, v)

validate_cardinality(c, n) ==
  c.card # <<>> => n >= c.card[1].min /\ \A m \in Range(c.card[1].max) : n <= m

\* The consistency of compiled constraints, also checked on a snapshot.
validate_metadata(c, type) ==
  /\ c.types # <<>> => c.types[1] # {}
  /\ \A k \in DOMAIN c.allowed :
       /\ k \in SlotLiterals /\ \A i \in DOMAIN c.allowed[k] : c.allowed[k][i].k = k
       /\ c.allowed[k] # <<>> /\ c.types # <<>> => k \in c.types[1]
       /\ SelectSeq(c.inOrder, LAMBDA v : v.k = k) = c.allowed[k]
  /\ \A i \in DOMAIN c.inOrder : c.inOrder[i].k \in DOMAIN c.allowed
  /\ c.range # <<>> =>
       /\ DOMAIN c.allowed \cap Numeric = {}
       /\ c.types # <<>> => \A b \in Range(c.range[1].min \o c.range[1].max) : b.k \in c.types[1]
       /\ \A lo \in Range(c.range[1].min), hi \in Range(c.range[1].max) :
            compare_numbers(lo, hi) <= 0
  /\ c.card # <<>> => type = "multi"

-----------------------------------------------------------------------------
(* Derived defaults *)

\* The number derived for a kind: the lower endpoint, else the upper one; an
\* integer next to a fractional endpoint inside the range.
NumberAt(kind, b, up) ==
  IF kind = "flt" THEN IF b.k = "flt" THEN b ELSE V("flt", Rounded(Val(b)))
  ELSE V("int", IF Val(b) % 2 = 0 THEN Val(b) ELSE IF up THEN Val(b) + 1 ELSE Val(b) - 1)
derived_number(kind, range) ==
  CASE range # <<>> /\ range[1].min # <<>> -> NumberAt(kind, range[1].min[1], TRUE)
    [] range # <<>> /\ range[1].min = <<>> /\ range[1].max # <<>> ->
         NumberAt(kind, range[1].max[1], FALSE)
    [] OTHER -> V(kind, 0)

\* The candidates of a kind that pass the checks; the identity 0 is nil, the
\* empty string or the dummy address.
CandidatesOf(kind, c) ==
  SelectSeq(IF kind \in DOMAIN c.allowed THEN c.allowed[kind]
            ELSE IF kind \in Numeric THEN <<derived_number(kind, c.range)>>
            ELSE <<V(kind, 0)>>,
            LAMBDA v : validate_field(c, v))

\* The first kind with a candidate gives the field; a host's address cannot
\* be derived.
FirstOf(kinds, c) ==
  IF kinds = <<>> THEN <<>>
  ELSE IF kinds[1] = "ext" THEN <<>> ELSE <<CandidatesOf(kinds[1], c)[1]>>
derive_field(c) ==
  FirstOf(SelectSeq(KindOrder, LAMBDA k : /\ c.types # <<>> => k \in c.types[1]
                                          /\ CandidatesOf(k, c) # <<>>), c)

derive_default(c, type) ==
  LET count == IF c.card = <<>> THEN 0 ELSE c.card[1].min
  IN IF ~validate_metadata(c, type) THEN <<>>
     ELSE IF type = "multi" /\ count = 0 THEN << <<>> >>
     ELSE IfGiven(derive_field(c), LAMBDA f :
            IF type = "single" THEN << <<f>> >> ELSE << [i \in 1..count |-> f] \o <<>> >>)
-----------------------------------------------------------------------------
(* Supplied values *)

validate_kind(c, k) == c.types # <<>> => k \in c.types[1]

\* The check of the fields of a slot when a fact is built; a multifield in a
\* single slot has no kind.
validate_slot(c, type, fields) ==
  /\ type = "single" => Len(fields) = 1
  /\ type = "multi" => validate_cardinality(c, Len(fields))
  /\ \A i \in DOMAIN fields : validate_kind(c, fields[i].k) /\ validate_field(c, fields[i])

\* The check of one expression of a supplied slot when source is loaded.
RECURSIVE validate_literal_expression(_, _)
validate_literal_expression(c, e) ==
  IF e.k \in SlotLiterals THEN validate_kind(c, e.k) /\ validate_literal(c, e)
  ELSE e.k = "create$" => \A i \in DOMAIN e.sub : validate_literal_expression(c, e.sub[i])

literal_field_count(es) ==
  IfGiven(collect_literal_fields(es), LAMBDA f : <<Len(f)>>)

validate_literal_expressions(c, type, es) ==
  /\ \A i \in DOMAIN es : validate_literal_expression(c, es[i])
  /\ type = "multi" => \A n \in Range(literal_field_count(es)) : validate_cardinality(c, n)

\* The fields an expression gives when an opaque one gives the fields o.
RECURSIVE FieldsOf(_, _)
FieldsOf(es, o) ==
  FoldLeft(LAMBDA acc, e :
             acc \o (IF e.k = "create$" THEN FieldsOf(e.sub, o)
                     ELSE IF e.k = "expr" THEN o ELSE <<e>>), <<>>, es)

\* Whether a slot takes what expressions es give: a single slot needs one
\* expression, and its value is one scalar.
Takes(c, type, es, o) ==
  /\ type = "single" => Len(es) = 1 /\ es[1].k # "create$"
  /\ validate_slot(c, type, FieldsOf(es, o))

-----------------------------------------------------------------------------
(* Writing a declaration *)

SlotInit == slot_type \in {"single", "multi"} /\ attrs = <<>>

Declare(a) ==
  /\ Len(attrs) < MaxAttributes
  /\ attrs' = Append(attrs, a)
  /\ UNCHANGED slot_type

SlotNext == \E a \in Attributes : Declare(a)

SlotSpec == SlotInit /\ [][SlotNext]_slotVars

\* The slot as the loader registers it, an option.
Registered ==
  IfGiven(interpret_attributes(attrs, slot_type),
          LAMBDA c : IF validate_metadata(c, slot_type) THEN <<c>> ELSE <<>>)
-----------------------------------------------------------------------------
\* What a slot declares does not depend on the order of its attributes: the
\* conflicts between them are found wherever they stand (interpret_attributes).
AttributesCommute ==
  \A c \in {interpret_attributes(attrs, slot_type)},
     d \in {interpret_attributes(Reverse(attrs), slot_type)} :
       /\ (c = <<>>) = (d = <<>>)
       /\ c # <<>> => [c[1] EXCEPT !.inOrder = <<>>] = [d[1] EXCEPT !.inOrder = <<>>]

\* The loader refuses a declaration the parser accepts only for a range that
\* is empty but looks proper after rounding; no other declaration passes one
\* of the two and fails the other, or would fail when a snapshot is restored
\* (validate_declaration, validate_metadata).
LoaderAgrees ==
  \A c \in Range(interpret_attributes(attrs, slot_type)) :
    \/ validate_metadata(c, slot_type)
    \/ /\ c.range # <<>>
       /\ \E lo \in Range(c.range[1].min), hi \in Range(c.range[1].max) :
            lo.k # hi.k /\ Val(lo) > Val(hi) /\ Rounded(Val(lo)) = Rounded(Val(hi))

\* A registered slot admits a value, and the value derived for it is one it
\* admits; deriving fails only where a field is needed and just a host's
\* address will do (derive_default, validate_slot).
DerivesAllowed ==
  \A c \in Range(Registered) : \A d \in {derive_default(c, slot_type)} :
    /\ d # <<>> => validate_slot(c, slot_type, d[1])
    /\ d = <<>> => c.types = <<{"ext"}>>

\* Loading judges supplied values right: what it rejects would be rejected
\* when the fact is built, whatever the expressions it cannot see give, and
\* what it accepts of literals alone, for a single slot of one literal, is
\* accepted then (validate_literal_expressions, validate_slot).
LoadJudgesRight ==
  LET lits == {v \in Values : v.k \in SlotLiterals}
      create == {[k |-> "create$", id |-> 0, sub |-> s] : s \in {<<>>} \cup {<<v, v>> : v \in lits}}
      expr == [k |-> "expr", id |-> 0, sub |-> <<>>]
      supplies == {<<>>} \cup {<<e>> : e \in lits \cup create}
                  \cup {<<v, expr>> : v \in lits \cup create} \cup {<<v, v>> : v \in lits}
      results == {<<>>} \cup {<<v>> : v \in Values} \cup {<<v, v>> : v \in Values}
  IN \A c \in Range(Registered), es \in supplies :
       IF ~validate_literal_expressions(c, slot_type, es)
       THEN \A o \in results : ~Takes(c, slot_type, es, o)
       ELSE literal_field_count(es) # <<>>
            /\ (slot_type = "single" => Len(es) = 1 /\ es[1].k # "create$")
            => Takes(c, slot_type, es, <<>>)
=============================================================================
