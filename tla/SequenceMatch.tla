---------------------------- MODULE SequenceMatch ----------------------------
(***************************************************************************)
(* Patterns with multifield captures: the plan the loader makes of one     *)
(* pattern, the tests it moves to the alpha network, the depth-first       *)
(* search for the splits of a fact among the captures, and the rebuilding  *)
(* of a split from its recorded lengths.                                   *)
(*                                                                         *)
(* The only actions write more of the pattern; plan and search are         *)
(* functions of it, of a fact and of the value an earlier pattern has      *)
(* bound. A fact is a sequence of slots, an ordered fact one slot with all *)
(* its fields. Options are sets with at most one member.                   *)
(***************************************************************************)
EXTENDS Integers, Sequences, FiniteSets, SequencesExt

CONSTANTS
  SequenceValues,  \* field values
  SlotKinds,       \* slots of the template: a sequence of "multi" and "single"
  MaxLength,       \* bound on the values of a slot
  MaxFields,       \* bound on the fields of the pattern
  MaxTests,        \* bound on the tests of the pattern
  TestKinds        \* kinds of tests that are written

ASSUME SequenceMatchAssumption ==
  /\ \A i \in DOMAIN SlotKinds : SlotKinds[i] \in {"multi", "single"}
  /\ MaxLength \in Nat /\ MaxFields \in Nat /\ MaxTests \in Nat

VARIABLES
  ordered,   \* whether the pattern is for ordered facts
  segs,      \* the slots the pattern names, in written order, with their fields
             \* and the number of fields before them
  tests      \* the tests on its fields, numbered through as written

sequenceVars == <<ordered, segs, tests>>

-----------------------------------------------------------------------------
(* Values of fields, tests *)

\* A single value, or a capture with all its values.
Single(v) == [m |-> FALSE, vs |-> <<v>>]
Capture(vs) == [m |-> TRUE, vs |-> vs]

\* k: "key" and "nokey" compare with v, "same" and "other" with field o,
\* "join" and "nojoin" with the earlier variable; "any" has branches.
T(f, k, v, o, br) == [f |-> f, k |-> k, v |-> v, o |-> o, br |-> br]

JoinKinds == {"join", "nojoin"}

\* get(f) is the value of a field, if there is one. A capture has no atom key.
RECURSIVE EvaluateFieldTest(_, _)
EvaluateFieldTest(t, get) ==
  \E x \in get[t.f] :
    CASE t.k = "key" -> ~x.m /\ x.vs[1] = t.v
      [] t.k = "nokey" -> ~x.m /\ x.vs[1] # t.v
      [] t.k = "same" -> \E y \in get[t.o] : x = y
      [] t.k = "other" -> \E y \in get[t.o] : x # y
      [] t.k = "any" -> \E b \in DOMAIN t.br : EvaluateFieldTest(t.br[b], get)

EvaluateJoin(t, x, bound) == IF t.k = "join" THEN x = bound ELSE x # bound

\* How many leading fields a test reads.
RECURSIVE TestExtent(_)
TestExtent(t) ==
  LET others == {t.f} \cup (IF t.k \in {"same", "other"} THEN {t.o} ELSE {})
                  \cup { TestExtent(t.br[b]) : b \in DOMAIN t.br }
  IN  CHOOSE n \in others : \A m \in others : m <= n

-----------------------------------------------------------------------------
(* The plan *)

Fields == FlattenSeq([i \in DOMAIN segs |-> segs[i].fields] \o <<>>)

\* The segment of the f-th field of the pattern, and the fields before it.
Before(i) == segs[i].at
SegmentOf(f) == CHOOSE i \in DOMAIN segs : Before(i) < f /\ f <= Before(i) + Len(segs[i].fields)

\* A multislot with one capture is the whole slot; anything else among
\* captures and multislots has to be split.
NeedsSequence ==
  IF ordered THEN \E f \in DOMAIN Fields : Fields[f] = "m"
  ELSE \E i \in DOMAIN segs : SlotKinds[segs[i].slot] = "multi" /\ segs[i].fields # <<"m">>

\* What a field is called in tests: its number in the plan, or its slot.
Selector(f) == IF ordered \/ NeedsSequence THEN f ELSE segs[SegmentOf(f)].slot

RECURSIVE SequenceRename(_, _)
SequenceRename(t, to) == [t EXCEPT !.f = to[@], !.o = IF @ = 0 THEN 0 ELSE to[@],
                           !.br = [b \in DOMAIN @ |-> SequenceRename(t.br[b], to)] \o <<>>]

\* The place in the fact of a field that no split moves.
PhysicalSelector(f) ==
  LET i == SegmentOf(f) IN
  IF ordered THEN IF \A g \in 1..f : Fields[g] = "s" THEN {f} ELSE {}
  ELSE IF SlotKinds[segs[i].slot] = "single" THEN {segs[i].slot} ELSE {}

RECURSIVE Reads(_)
Reads(t) == {t.f} \cup (IF t.o = 0 THEN {} ELSE {t.o})
              \cup UNION { Reads(t.br[b]) : b \in DOMAIN t.br }

\* A test on fields with fixed positions only is moved to the alpha network.
Physical(t) == \A f \in Reads(t) : PhysicalSelector(f) # {}

PhysicalTest(t) ==
  SequenceRename(t, [f \in DOMAIN Fields |-> IF PhysicalSelector(f) = {} THEN 0
                                     ELSE CHOOSE p \in PhysicalSelector(f) : TRUE])

Constants == SelectSeq(tests, LAMBDA t : t.k \notin JoinKinds)
Joins == SelectSeq(tests, LAMBDA t : t.k \in JoinKinds)

\* The plan: alpha tests on the fact, tests of the split, and join tests.
Plan ==
  LET named(t) == SequenceRename(t, [f \in DOMAIN Fields |-> Selector(f)])
      phys == SelectSeq(Constants, Physical)
      rest == SelectSeq(Constants, LAMBDA t : ~Physical(t))
  IN  IF NeedsSequence
      THEN [alpha |-> [i \in DOMAIN phys |-> PhysicalTest(phys[i])] \o <<>>,
            split |-> rest, joins |-> Joins]
      ELSE [alpha |-> [i \in DOMAIN Constants |-> named(Constants[i])] \o <<>>, split |-> <<>>,
            joins |-> [i \in DOMAIN Joins |-> named(Joins[i])] \o <<>>]

\* Singles take a field each; with a capture there may be more.
FieldCount(fact) ==
  LET min == Cardinality({ f \in DOMAIN Fields : Fields[f] = "s" }) IN
  /\ Len(fact[1]) >= min
  /\ NeedsSequence \/ Len(fact[1]) <= min

-----------------------------------------------------------------------------
(* Reading a fact *)

\* The value at each physical place: a field of an ordered fact, or a slot.
FactGet(fact) ==
  IF ordered THEN [f \in 1..MaxFields |-> IF f \in DOMAIN fact[1] THEN {Single(fact[1][f])} ELSE {}]
  ELSE [s \in DOMAIN SlotKinds |-> {IF SlotKinds[s] = "multi" THEN Capture(fact[s])
                                    ELSE Single(fact[s][1])}]

\* The values a segment matches.
SegmentValues(i, fact) == fact[segs[i].slot]

\* What its captures share, if its single fields fit.
SegmentExtra(i, fact) ==
  LET singles == Cardinality({ f \in DOMAIN segs[i].fields : segs[i].fields[f] = "s" })
      extra == Len(SegmentValues(i, fact)) - singles
  IN  IF extra < 0 \/ (extra > 0 /\ singles = Len(segs[i].fields)) THEN {} ELSE {extra}

\* The fields placed so far, as a function with no value where none is placed.
ViewGet(view) == [f \in 1..MaxFields |-> IF f \in DOMAIN view THEN {view[f]} ELSE {}]

-----------------------------------------------------------------------------
(* The search *)

\* A test that reads need fields runs now: not before, and not already.
Ready(need, checked, placed, complete) ==
  ~(need <= checked) /\ ~(need > placed /\ ~complete)

\* The tests that became ready since checked fields were placed.
ReadyTestsPass(p, view, checked, complete, bound) ==
  LET ready(n) == Ready(n, checked, Len(view), complete) IN
  /\ \A i \in DOMAIN p.split : ready(TestExtent(p.split[i]))
                                 => EvaluateFieldTest(p.split[i], ViewGet(view))
  /\ \A i \in DOMAIN p.joins : ready(p.joins[i].f)
                                 => \E x \in ViewGet(view)[p.joins[i].f] :
                                      EvaluateJoin(p.joins[i], x, bound)

\* The lengths a capture tries, the longest first.
Lengths(shortest, extra) == [i \in 1..(extra - shortest + 1) |-> extra - i + 1] \o <<>>

\* The matches from field j of segment i on, at a place in its values and with
\* extra values left for its captures; view and lens are what is placed.
RECURSIVE Place(_, _, _, _, _, _, _, _, _, _)
Place(p, fact, i, j, offset, extra, checked, view, lens, bound) ==
  LET fs == segs[i].fields
      values == SegmentValues(i, fact)
      last == \A g \in (j + 1)..Len(fs) : fs[g] = "s"
  IN
  IF j > Len(fs)
  THEN IF i < Len(segs)
       THEN Place(p, fact, i + 1, 1, 0, CHOOSE e \in SegmentExtra(i + 1, fact) : TRUE,
                  checked, view, lens, bound)
       ELSE IF ReadyTestsPass(p, view, checked, TRUE, bound)
            THEN <<[view |-> view, lens |-> lens]>> ELSE <<>>
  ELSE IF fs[j] = "s"
  THEN Place(p, fact, i, j + 1, offset + 1, extra, checked,
             Append(view, Single(values[offset + 1])), lens, bound)
  ELSE IF ~ReadyTestsPass(p, view, checked, FALSE, bound) THEN <<>>
  ELSE LET tries == Lengths(IF last THEN extra ELSE 0, extra) IN
       FlattenSeq([n \in DOMAIN tries |->
         Place(p, fact, i, j + 1, offset + tries[n], extra - tries[n], Len(view),
               Append(view, Capture(SubSeq(values, offset + 1, offset + tries[n]))),
               Append(lens, tries[n]), bound)] \o <<>>)

SearchWithPrefix(p, fact, bound) ==
  IF \E i \in DOMAIN segs : SegmentExtra(i, fact) = {} THEN <<>>
  ELSE Place(p, fact, 1, 1, 0, CHOOSE e \in SegmentExtra(1, fact) : TRUE, 0, <<>>, <<>>, bound)

\* Whether some split passes the tests of the plan, whatever is bound.
Admits(p, fact) == SearchWithPrefix([p EXCEPT !.joins = <<>>], fact, Capture(<<>>)) # <<>>

AlphaPasses(p, fact) ==
  /\ \A i \in DOMAIN p.alpha : EvaluateFieldTest(p.alpha[i], FactGet(fact))
  /\ ordered => FieldCount(fact)
  /\ p.split # <<>> => Admits(p, fact)

\* The matches of a fact that joins emit, in their order. Without a plan a
\* fact matches once.
PatternMatches(p, fact, bound) ==
  IF ~AlphaPasses(p, fact) THEN <<>>
  ELSE IF NeedsSequence THEN SearchWithPrefix(p, fact, bound)
  ELSE IF \A i \in DOMAIN p.joins : \E x \in FactGet(fact)[p.joins[i].f] :
                                      EvaluateJoin(p.joins[i], x, bound)
       THEN <<[view |-> [f \in DOMAIN Fields |-> CHOOSE x \in FactGet(fact)[Selector(f)] : TRUE]
                          \o <<>>,
               lens |-> <<>>]>>
       ELSE <<>>

LeftOver(fact, i, offset) == offset # Len(SegmentValues(i, fact))

\* The view of a split with the given lengths, if they are those of one.
RECURSIVE Project(_, _, _, _, _, _)
Project(fact, i, j, offset, view, lens) ==
  IF i > Len(segs) THEN IF lens = <<>> THEN {view} ELSE {}
  ELSE IF j > Len(segs[i].fields)
  THEN IF LeftOver(fact, i, offset) THEN {} ELSE Project(fact, i + 1, 1, 0, view, lens)
  ELSE LET multi == segs[i].fields[j] = "m"
           n == IF multi THEN (IF lens = <<>> THEN 0 ELSE lens[1]) ELSE 1
           vs == SubSeq(SegmentValues(i, fact), offset + 1, offset + n)
       IN  IF multi /\ lens = <<>> THEN {}
           ELSE IF offset + n > Len(SegmentValues(i, fact)) THEN {}
           ELSE Project(fact, i, j + 1, offset + n,
                        Append(view, IF multi THEN Capture(vs) ELSE Single(vs[1])),
                        IF multi THEN Tail(lens) ELSE lens)

-----------------------------------------------------------------------------
(* Writing a pattern *)

\* A field of an ordered pattern, or of the slot named last. A single slot
\* takes exactly one single field.
AddField(k) ==
  /\ segs # <<>> /\ Len(Fields) < MaxFields
  /\ ~ordered /\ SlotKinds[segs[Len(segs)].slot] = "single"
       => (k = "s" /\ segs[Len(segs)].fields = <<>>)
  /\ segs' = [segs EXCEPT ![Len(segs)].fields = Append(@, k)]
  /\ UNCHANGED <<ordered, tests>>

\* A slot of a template is named once.
AddSlot(s) ==
  /\ ~ordered /\ \A i \in DOMAIN segs : segs[i].slot # s
  /\ segs # <<>> /\ SlotKinds[segs[Len(segs)].slot] = "single" => segs[Len(segs)].fields # <<>>
  /\ segs' = Append(segs, [slot |-> s, fields |-> <<>>, at |-> Len(Fields)])
  /\ UNCHANGED <<ordered, tests>>

\* A test on the field written last; o is an earlier field or the field itself.
SimpleTests(f) ==
  { t \in { T(f, k, v, 0, <<>>) : k \in {"key", "nokey"}, v \in SequenceValues }
          \cup { T(f, k, CHOOSE v \in SequenceValues : TRUE, o, <<>>) :
                   k \in {"same", "other"}, o \in 1..f } : t.k \in TestKinds }

AddTest(t) ==
  /\ Len(tests) < MaxTests
  /\ tests' = Append(tests, t)
  /\ UNCHANGED <<ordered, segs>>

SequenceInit ==
  /\ ordered \in BOOLEAN
  /\ segs = IF ordered THEN <<[slot |-> 1, fields |-> <<>>, at |-> 0]>> ELSE <<>>
  /\ tests = <<>>

SequenceNext ==
  \/ \E k \in {"s", "m"} : AddField(k)
  \/ \E s \in DOMAIN SlotKinds : AddSlot(s)
  \/ /\ Fields # <<>>
     /\ LET f == Len(Fields) IN
        \/ \E t \in SimpleTests(f) : AddTest(t)
        \/ \E k \in JoinKinds \cap TestKinds : AddTest(T(f, k, CHOOSE v \in SequenceValues : TRUE, 0, <<>>))
        \/ /\ "any" \in TestKinds
           /\ \E t, u \in SimpleTests(f) :
                t.k = "key" /\ u.k # "key" /\ AddTest(T(f, "any", CHOOSE v \in SequenceValues : TRUE, 0, <<t, u>>))

SequenceSpec == SequenceInit /\ [][SequenceNext]_sequenceVars

-----------------------------------------------------------------------------
(* Properties *)

Sequences_ == UNION { [1..n -> SequenceValues] : n \in 0..MaxLength }

SequenceFacts ==
  IF ordered THEN { <<s>> : s \in Sequences_ }
  ELSE { f \in [DOMAIN SlotKinds -> Sequences_] :
           \A s \in DOMAIN SlotKinds : SlotKinds[s] = "single" => Len(f[s]) = 1 }

\* What the earlier variable may hold, if the pattern compares with it.
BoundValues ==
  IF Joins = <<>> THEN {Capture(<<>>)}
  ELSE LET v == CHOOSE w \in SequenceValues : TRUE IN {Single(v), Capture(<<>>), Capture(<<v>>)}

Captures == { f \in DOMAIN Fields : Fields[f] = "m" }

Complete == segs # <<>> /\ (ordered \/ SlotKinds[segs[Len(segs)].slot] = "multi"
                              \/ segs[Len(segs)].fields # <<>>)

\* Where the f-th field of a split with the given lengths begins.
SequenceStart(len, f) ==
  FoldLeft(LAMBDA n, g : n + (IF g \in Captures THEN len[g] ELSE 1), 0,
           [g \in 1..(f - 1 - Before(SegmentOf(f))) |-> g + Before(SegmentOf(f))] \o <<>>)

\* A split is a length for each capture such that every slot is used up.
Splits(fact) ==
  { len \in [Captures -> 0..MaxLength] :
      \A i \in DOMAIN segs :
        FoldLeft(LAMBDA n, g : n + (IF g \in Captures THEN len[g] ELSE 1), 0,
                 [g \in DOMAIN segs[i].fields |-> g + Before(i)] \o <<>>)
          = Len(SegmentValues(i, fact)) }

\* The fields of a split.
SplitView(fact, len) ==
  [f \in DOMAIN Fields |->
     LET vs == SegmentValues(SegmentOf(f), fact) IN
     IF f \in Captures THEN Capture(SubSeq(vs, SequenceStart(len, f) + 1, SequenceStart(len, f) + len[f]))
     ELSE Single(vs[SequenceStart(len, f) + 1])] \o <<>>

\* The splits that pass all tests as they are written.
Matching(views, bound) ==
  { view \in views : \A i \in DOMAIN tests :
      IF tests[i].k \in JoinKinds THEN EvaluateJoin(tests[i], view[tests[i].f], bound)
      ELSE EvaluateFieldTest(tests[i], ViewGet(view)) }

\* Whether view comes first: the first capture that differs is longer.
LongerFirst(view, other) ==
  \E f \in DOMAIN view : /\ Len(view[f].vs) > Len(other[f].vs)
                         /\ \A g \in 1..(f - 1) : Len(view[g].vs) = Len(other[g].vs)

\* A fact matches once for each way to split it that passes the tests as they
\* are written, no way is found twice or lost to pruning or to a test moved to
\* the alpha network, and earlier captures are longer first
\* (SequencePattern::search_with_prefix, sequence_pattern).
SequenceMatchesExact ==
  Complete =>
    \A p \in {Plan} : \A fact \in SequenceFacts :
      \A views \in {{ SplitView(fact, len) : len \in Splits(fact) }} : \A bound \in BoundValues :
        \A found \in {PatternMatches(p, fact, bound)} :
          /\ { found[i].view : i \in DOMAIN found } = Matching(views, bound)
          /\ \A i, j \in DOMAIN found : i < j => LongerFirst(found[i].view, found[j].view)

\* The recorded lengths of a match give back its fields, and lengths that no
\* split has are refused (SequencePattern::project).
LengthsIdentify ==
  (Complete /\ NeedsSequence /\ tests = <<>>) =>
    \A fact \in SequenceFacts :
      LET order == SetToSortSeq(Captures, <)
          code(len) == [i \in DOMAIN order |-> len[order[i]]] \o <<>>
          splits == Splits(fact)
      IN  /\ \A len \in splits : Project(fact, 1, 1, 0, <<>>, code(len)) = {SplitView(fact, len)}
          /\ \A len \in [Captures -> 0..MaxLength] \ splits :
               Project(fact, 1, 1, 0, <<>>, code(len)) = {}
          /\ \A len \in splits : Project(fact, 1, 1, 0, <<>>, Append(code(len), 0)) = {}

\* The place by which facts are indexed for an equality join holds the value
\* the join compares, in every split (indexable_tests, physical_selector).
IndexedPlaceFixed ==
  (Complete /\ NeedsSequence /\ tests = <<>>) =>
    \A f \in DOMAIN Fields : \A place \in PhysicalSelector(f) :
      \A fact \in SequenceFacts : \A len \in Splits(fact) :
        FactGet(fact)[place] = {SplitView(fact, len)[f]}
=============================================================================
