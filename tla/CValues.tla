------------------------------ MODULE CValues ------------------------------
(***************************************************************************)
(* Values across the C boundary: the recursive copy of a tree the caller   *)
(* lends (which may be malformed or cyclic), the conversion of engine      *)
(* values to C, the conversion of C values to host values, and the free    *)
(* functions. Every allocation handed out or dropped is accounted for.     *)
(* And the querying exports as a host uses them: several calls, first a    *)
(* count, then one element after the other, while other callers change the *)
(* engine between the calls. Each call is atomic (CApi).                   *)
(***************************************************************************)
EXTENDS Naturals, SequencesExt, FiniteSets

CONSTANTS
  Cells,          \* addresses of FerricValue cells in the caller's memory
  Heaps,          \* the caller's memories: Cells -> cell
  Values,         \* engine values: trees
  MaxCopyDepth,   \* MAX_MULTIFIELD_COPY_DEPTH
  MaxHostDepth,   \* HOST_VALUE_MAX_DEPTH
  MaxItems        \* HOST_VALUE_MAX_ITEMS

ASSUME CValuesAssumption ==
  /\ Cells = 1..Cardinality(Cells)
  /\ MaxCopyDepth \in Nat /\ MaxHostDepth \in Nat /\ MaxItems \in Nat

VARIABLES
  heap,         \* the caller's memory, lent to the calls
  cvaluesSlot,  \* the caller's out_value
  live,         \* the blocks Ferric allocated and nobody freed
  next,         \* the next block
  twice,        \* a block was freed that was not live
  lost,         \* blocks of a value whose tag the caller overwrote
  seen          \* what the last call did

cvaluesVars == <<heap, cvaluesSlot, live, next, twice, lost, seen>>

Void == [tag |-> "void", block |-> 0, elems |-> <<>>]

\* Memory of the allocator: the blocks allocated so far and those still live.
Mem == [live |-> live, next |-> next, twice |-> twice]

Alloc(m) == [m EXCEPT !.live = @ \cup {m.next}, !.next = @ + 1]

Release(m, b) ==
  [m EXCEPT !.live = @ \ {b}, !.twice = @ \/ b \notin m.live]

-----------------------------------------------------------------------------
(* Freeing. *)

RECURSIVE FreeValue(_, _), FreeAll(_, _)

\* Mutant: the first invalid element ends the loop.
FreeUntilBad(vs, m) ==
  IF vs = <<>> \/ Head(vs).tag = "bad" THEN m
  ELSE FreeAll(Tail(vs), FreeValue(Head(vs), m))

\* The elements of an array: one with an invalid tag is skipped, the rest is
\* freed all the same.
FreeElements(vs, m) ==
  IF vs = <<>> THEN m ELSE FreeAll(Tail(vs), FreeValue(Head(vs), m))

FreeAll(vs, m) == FreeElements(vs, m)

\* free_value_resources
FreeValue(v, m) ==
  CASE v.tag = "text" -> Release(m, v.block)
    [] v.tag = "multi" /\ v.elems # <<>> ->
         Release(FreeAll(v.elems, m), v.block)
    [] OTHER -> m

-----------------------------------------------------------------------------
(* Copying what the caller lends. *)

Err(m) == [ok |-> FALSE, val |-> Void, mem |-> m]

Fine(v, m) == [ok |-> TRUE, val |-> v, mem |-> m]

\* into_multifield: an empty array is a null pointer.
IntoMultifield(vs, m) ==
  IF vs = <<>> THEN Fine([Void EXCEPT !.tag = "multi"], m)
  ELSE Fine([tag |-> "multi", block |-> m.next, elems |-> vs], Alloc(m))

\* Drop of OwnedFerricValues: the copies made so far are released.
DropPartial(vs, m) == FreeAll(vs, m)

\* BorrowedValueRange::overlaps; ranges are half open.
Overlaps(r, q) == r[1] < q[2] /\ q[1] < r[2]

RECURSIVE CopyValue(_, _, _, _), CopyFrom(_, _, _, _, _, _),
          CopyValues(_, _, _, _, _)

\* copy_borrowed_ferric_value
CopyValue(a, depth, ranges, m) ==
  LET c == heap[a] IN
  CASE c.tag = "scalar" -> Fine([Void EXCEPT !.tag = "scalar"], m)
    [] c.tag = "text" /\ c.ptr # 0 ->
         Fine([tag |-> "text", block |-> m.next, elems |-> <<>>], Alloc(m))
    [] c.tag = "multi" ->
         LET r == CopyValues(c.ptr, c.len, depth + 1, ranges, m) IN
         IF r.ok THEN IntoMultifield(r.val, r.mem) ELSE Err(r.mem)
    [] OTHER -> Err(m)

\* The loop over the elements, with the copies it owns.
CopyFrom(a, n, depth, ranges, owned, m) ==
  IF n = 0 THEN Fine(owned, m)
  ELSE LET r == CopyValue(a, depth, ranges, m) IN
       IF r.ok THEN CopyFrom(a + 1, n - 1, depth, ranges,
                             Append(owned, r.val), r.mem)
       ELSE Err(DropPartial(owned, r.mem))

\* copy_borrowed_ferric_values: depth, null, and the storage of an ancestor.
CopyValues(a, n, depth, ranges, m) ==
  IF depth > MaxCopyDepth THEN Err(m)
  ELSE IF n = 0 THEN Fine(<<>>, m)
  ELSE IF a = 0 THEN Err(m)
  ELSE IF \E q \in ranges : Overlaps(<<a, a + n>>, q) THEN Err(m)
  ELSE CopyFrom(a, n, depth, ranges \cup {<<a, a + n>>}, <<>>, m)

-----------------------------------------------------------------------------
(* Engine values to C. *)

RECURSIVE ValueToFerric(_, _), EachToFerric(_, _, _)

\* value_to_ferric, symbol_to_ferric: embedded NUL, fact addresses and
\* external identities have no C form.
ValueToFerric(v, m) ==
  CASE v.kind = "scalar" -> Fine([Void EXCEPT !.tag = "scalar"], m)
    [] v.kind = "text" ->
         Fine([tag |-> "text", block |-> m.next, elems |-> <<>>], Alloc(m))
    [] v.kind = "multi" -> EachToFerric(v.elems, <<>>, m)
    [] OTHER -> Err(m)

EachToFerric(vs, owned, m) ==
  IF vs = <<>> THEN IntoMultifield(owned, m)
  ELSE LET r == ValueToFerric(Head(vs), m) IN
       IF r.ok THEN EachToFerric(Tail(vs), Append(owned, r.val), r.mem)
       ELSE Err(DropPartial(owned, r.mem))

-----------------------------------------------------------------------------
(* C values to host values: a budget of items instead of cycle detection.  *)

RECURSIVE FerricToValue(_, _, _), EachToValue(_, _, _, _)

\* Every cell visited uses up one item.
Spend(a, left) == left - 1

\* ferric_to_value: the result and the items left.
FerricToValue(a, depth, left) ==
  LET c == heap[a] IN
  IF left = 0 THEN [ok |-> FALSE, left |-> 0]
  ELSE LET l == Spend(a, left) IN
    CASE c.tag = "scalar" -> [ok |-> TRUE, left |-> l]
      [] c.tag = "text" -> [ok |-> c.ptr # 0, left |-> l]
      [] c.tag = "multi" ->
           IF \/ depth >= MaxHostDepth
              \/ c.len > l
              \/ c.ptr = 0 /\ c.len # 0
           THEN [ok |-> FALSE, left |-> l]
           ELSE EachToValue(c.ptr, c.len, depth + 1, l)
      [] OTHER -> [ok |-> FALSE, left |-> l]

EachToValue(a, n, depth, left) ==
  IF n = 0 THEN [ok |-> TRUE, left |-> left]
  ELSE LET r == FerricToValue(a, depth, left) IN
       IF r.ok THEN EachToValue(a + 1, n - 1, depth, r.left) ELSE r

-----------------------------------------------------------------------------
(* The exports. *)

Nothing == [call |-> "none", ok |-> TRUE, start |-> 0, len |-> 0]

CValuesInit ==
  /\ heap \in Heaps
  /\ cvaluesSlot = Void
  /\ live = {} /\ next = 1 /\ twice = FALSE /\ lost = {}
  /\ seen = Nothing

Commit(m) == live' = m.live /\ next' = m.next /\ twice' = m.twice

\* multifield_copy: out_value is void until the copy is complete.
MultifieldCopy(a, n) ==
  /\ cvaluesSlot = Void /\ next = 1
  /\ \E r \in {CopyValues(a, n, 0, {}, Mem)} :
       \E w \in {IF r.ok THEN IntoMultifield(r.val, r.mem) ELSE r} :
         /\ cvaluesSlot' = w.val
         /\ Commit(w.mem)
         /\ seen' = [call |-> "copy", ok |-> w.ok, start |-> a, len |-> n]
  /\ UNCHANGED <<heap, lost>>

\* write_value_to_ffi
WriteValue(v) ==
  /\ cvaluesSlot = Void /\ next = 1
  /\ \E r \in {ValueToFerric(v, Mem)} :
       /\ cvaluesSlot' = r.val
       /\ Commit(r.mem)
       /\ seen' = [Nothing EXCEPT !.call = "write", !.ok = r.ok]
  /\ UNCHANGED <<heap, lost>>

\* assert_ordered and assert_template convert all fields before they assert.
AssertFields(a, n) ==
  /\ seen = Nothing
  /\ \E r \in {IF n > MaxItems THEN [ok |-> FALSE, left |-> 0]
               ELSE EachToValue(a, n, 0, MaxItems)} :
       seen' = [call |-> "assert", ok |-> r.ok, start |-> a, len |-> n]
  /\ UNCHANGED <<heap, cvaluesSlot, live, next, twice, lost>>

\* value_free, value_array_free: the caller drops its value afterwards.
ValueFree ==
  /\ cvaluesSlot # Void
  /\ Commit(FreeValue(cvaluesSlot, Mem))
  /\ cvaluesSlot' = Void
  /\ seen' = [Nothing EXCEPT !.call = "free"]
  /\ UNCHANGED <<heap, lost>>

RECURSIVE BlocksOf(_)
BlocksOf(v) ==
  ({v.block} \ {0}) \cup UNION {BlocksOf(v.elems[i]) : i \in DOMAIN v.elems}

\* The caller overwrites the tag of an element it owns.
Overwrite(i) ==
  /\ i \in DOMAIN cvaluesSlot.elems /\ cvaluesSlot.elems[i].tag # "bad"
  /\ cvaluesSlot' = [cvaluesSlot EXCEPT !.elems[i].tag = "bad"]
  /\ lost' = lost \cup BlocksOf(cvaluesSlot.elems[i])
  /\ UNCHANGED <<heap, live, next, twice, seen>>

CValuesNext ==
  \/ \E a \in Cells, n \in 0..2 :
       /\ a + n - 1 \in Cells \cup {0}
       /\ MultifieldCopy(a, n) \/ AssertFields(a, n)
  \/ \E v \in Values : WriteValue(v)
  \/ ValueFree
  \/ \E i \in Cells : Overwrite(i)

CValuesSpec == CValuesInit /\ [][CValuesNext]_cvaluesVars

-----------------------------------------------------------------------------
(* Properties *)

\* Ferric's live blocks are those of the value the caller owns and those the
\* caller lost itself: a copy or conversion that fails half way leaks
\* nothing, and a free releases every block, also beside a corrupted element.
Balanced == live = BlocksOf(cvaluesSlot) \cup lost

\* No block is freed twice.
NoDoubleFree == ~twice

\* The array cells a call can reach from an array, without looking at depth.
CellsFrom(a, n) == {x \in Cells : a <= x /\ x < a + n}

RECURSIVE Reach(_)
Reach(S) ==
  LET T == S \cup UNION {CellsFrom(heap[x].ptr, heap[x].len) :
                          x \in {y \in S : heap[y].tag = "multi"}}
  IN IF T = S THEN S ELSE Reach(T)

\* A cell that can be reached from its own elements.
OnCycle(x) ==
  heap[x].tag = "multi" /\ x \in Reach(CellsFrom(heap[x].ptr, heap[x].len))

\* A valid cell whose elements, if any, lie behind every array it may be in.
WellFormed(x) ==
  \/ heap[x].tag = "scalar"
  \/ heap[x].tag = "text" /\ heap[x].ptr # 0
  \/ heap[x].tag = "multi" /\ (heap[x].len = 0 \/ heap[x].ptr > x + 1)

\* A copy ends for every memory, and succeeds only for an acyclic tree of
\* valid cells; a well-formed tree of separate arrays is always copied.
CopyRefusesCycles ==
  seen.call = "copy" =>
    LET cells == Reach(CellsFrom(seen.start, seen.len)) IN
    /\ seen.ok =>
         \A x \in cells :
           /\ ~OnCycle(x)
           /\ heap[x].tag \in {"scalar", "text", "multi"}
    /\ (\A x \in cells : WellFormed(x)) => seen.ok

\* The number of cells in the unfolded tree under a cell, cut off at k.
RECURSIVE Size(_, _), SizeFrom(_, _, _)
Size(x, k) ==
  IF k = 0 THEN 1
  ELSE IF heap[x].tag # "multi" THEN 1
  ELSE 1 + SizeFrom(heap[x].ptr, heap[x].len, k - 1)

SizeFrom(x, n, k) ==
  IF n = 0 THEN 0
  ELSE (IF x = 0 THEN 0 ELSE Size(x, k)) + SizeFrom(x + 1, n - 1, k)

\* Cyclic input to an assertion ends too: what is accepted has at most the
\* allowed number of items, shared cells counted as often as they occur.
AssertBounded ==
  seen.call = "assert" /\ seen.ok =>
    SizeFrom(seen.start, seen.len, MaxHostDepth + 1) <= MaxItems

-----------------------------------------------------------------------------
(***************************************************************************)
(* The querying exports.                                                   *)
(***************************************************************************)
CONSTANTS
  Names,       \* names of templates, rules, modules, diagnostics
  Kinds,       \* the kinds of names that are listed by index
  MaxLen,      \* bound on a list
  MaxFacts,    \* bound on the facts ever asserted
  FactShapes,  \* the facts asserted: [type, fields]
  Opaque,      \* the values C cannot represent
  MaxCap       \* bound on the caller's id buffer

ASSUME CQueryAssumption ==
  \A f \in FactShapes : f.type \in {"ordered", "template"}

VARIABLES
  lists,    \* per kind: the names, in the order the engine lists them
  facts,    \* handle -> fact, for the facts in working memory
  nextFact, \* the next fact's handle
  walk      \* the host's enumeration

cqueryVars == <<lists, facts, nextFact, walk>>

SeqsUpTo(S, n) == UNION {[1..k -> S] : k \in 0..n}

-----------------------------------------------------------------------------
(* The exports: a result code and what is written through the pointers.    *)

Ok(v) == [code |-> "ok", value |-> v]

Fails(c) == [code |-> c, value |-> 0]

\* An export given a null out pointer writes nothing.
Checked(null, r) == IF null THEN Fails("NullPointer") ELSE r

\* Indices start at zero.
InRange(i, n) == i < n

\* The i-th element; outside of the list Rust would panic.
At(s, i) == IF i < Len(s) THEN Ok(s[i + 1]) ELSE Fails("panic")

ByIndex(k, i) ==
  IF InRange(i, Len(lists[k])) THEN At(lists[k], i)
  ELSE Fails("InvalidArgument")

TemplateName(null, i) == Checked(null, ByIndex("template", i))

RuleInfo(null, i) == Checked(null, ByIndex("rule", i))

ModuleName(null, i) == Checked(null, ByIndex("module", i))

\* template_slot_count, template_slot_name, of the template named first.
SlotName(null, i) ==
  Checked(null, IF lists["template"] = <<>> THEN Fails("NotFound")
                ELSE ByIndex("slot", i))

\* get_focus reads the top of the stack; entries are read by depth.
FocusName(null, i) ==
  Checked(null, IF lists["focus"] = <<>> THEN Fails("NotFound")
                ELSE ByIndex("focus", i))

NameAt(null, k, i) ==
  CASE k = "template" -> TemplateName(null, i)
    [] k = "slot" -> SlotName(null, i)
    [] k = "focus" -> FocusName(null, i)
    [] k = "rule" -> RuleInfo(null, i)
    [] OTHER -> ModuleName(null, i)

\* The counting exports.
CountOf(null, k) == Checked(null, Ok(Len(lists[k])))

\* The handles in the order of the fact base.
Ordered(S) == SetToSortSeq(S, LAMBDA a, b : a < b)

\* get_fact_field_count, get_fact_type
FieldCount(null, h) ==
  Checked(null, IF h \in DOMAIN facts THEN Ok(Len(facts[h].fields))
                ELSE Fails("NotFound"))

\* get_fact_field: a value without a C representation is refused.
FactField(null, h, i) ==
  Checked(null,
    IF h \notin DOMAIN facts THEN Fails("NotFound")
    ELSE IF ~InRange(i, Len(facts[h].fields)) THEN Fails("InvalidArgument")
    ELSE LET r == At(facts[h].fields, i) IN
         IF r.value \in Opaque THEN Fails("InvalidArgument") ELSE r)

\* get_fact_relation, get_fact_template_name: each for its own type of fact.
FactName(null, h, type) ==
  Checked(null,
    IF h \notin DOMAIN facts THEN Fails("NotFound")
    ELSE IF facts[h].type # type THEN Fails("InvalidArgument")
    ELSE Ok(type))

\* As many ids are written as there are and fit.
CopyCount(n, max) == IF n <= max THEN n ELSE max

\* fact_ids, find_fact_ids: the count is reported also when not all ids fit;
\* max is zero for a null buffer.
FetchIds(null, max) ==
  LET ids == Ordered(DOMAIN facts) IN
  Checked(null, Ok([count |-> Len(ids),
                    ids |-> SubSeq(ids, 1, CopyCount(Len(ids), max))]))

-----------------------------------------------------------------------------
(* The host's enumerations. *)

CQueryNone == [kind |-> "none"]

Idle == [phase |-> "idle", what |-> CQueryNone, n |-> 0, i |-> 0, got |-> <<>>,
         dirty |-> FALSE, src |-> <<>>]

CQueryInit ==
  /\ lists \in [Kinds -> {<<>>}]
  /\ facts = <<>>
  /\ nextFact = 1
  /\ walk = Idle

CQueryStart(what, n, src) ==
  walk' = [phase |-> "read", what |-> what, n |-> n, i |-> 0, got |-> <<>>,
           dirty |-> FALSE, src |-> src]

Failed == walk' = [Idle EXCEPT !.phase = "failed"]

\* The host counts the names of a kind and then reads them one by one.
WalkNames(k, null) ==
  /\ walk.phase = "idle"
  /\ LET r == CountOf(null, k) IN
     IF r.code = "ok" THEN CQueryStart([kind |-> "names", of |-> k], r.value, lists[k]) ELSE Failed
  /\ UNCHANGED <<lists, facts, nextFact>>

\* The host counts the fields of a fact and then reads them.
WalkFields(h, null) ==
  /\ walk.phase = "idle"
  /\ LET r == FieldCount(null, h) IN
     IF r.code = "ok"
     THEN CQueryStart([kind |-> "fields", of |-> h], r.value, facts[h].fields)
     ELSE Failed
  /\ UNCHANGED <<lists, facts, nextFact>>

ReadNext(null) ==
  /\ walk.phase = "read"
  /\ IF walk.i = walk.n THEN walk' = [walk EXCEPT !.phase = "done"]
     ELSE LET r == IF walk.what.kind = "names"
                   THEN NameAt(null, walk.what.of, walk.i)
                   ELSE FactField(null, walk.what.of, walk.i)
          IN IF r.code = "ok"
             THEN walk' = [walk EXCEPT !.i = @ + 1, !.got = Append(@, r.value)]
             ELSE walk' = [Idle EXCEPT
                    !.phase = IF r.code = "panic" THEN "panic" ELSE "failed"]
  /\ UNCHANGED <<lists, facts, nextFact>>

\* The host asks for as many ids as its buffer holds, and asks again with the
\* size it was told until they fit.
AskIds(max, null) ==
  /\ walk.phase = "idle" \/ (walk.phase = "ids" /\ walk.n > walk.i)
  /\ walk.phase = "ids" => max = walk.n
  /\ LET r == FetchIds(null, max) IN
     IF r.code = "ok"
     THEN walk' = [Idle EXCEPT !.phase = "ids", !.n = r.value.count, !.i = max,
                               !.got = r.value.ids, !.src = Ordered(DOMAIN facts)]
     ELSE Failed
  /\ UNCHANGED <<lists, facts, nextFact>>

\* The host asks for the name of a fact of which it knows the type.
AskName(h, type, null) ==
  /\ walk.phase = "idle"
  /\ LET r == FactName(null, h, type) IN
     IF r.code = "ok" THEN walk' = [Idle EXCEPT !.phase = "done"] ELSE Failed
  /\ UNCHANGED <<lists, facts, nextFact>>

EndWalk ==
  /\ walk.phase \in {"done", "failed", "ids"}
  /\ walk.phase = "ids" => walk.n <= walk.i
  /\ walk' = Idle
  /\ UNCHANGED <<lists, facts, nextFact>>

-----------------------------------------------------------------------------
(* Other callers, between the host's calls. *)

\* Ghost: the enumeration in progress was disturbed.
Disturb == walk' = [walk EXCEPT !.dirty = @ \/ walk.phase = "read"]

\* Loads, clear and focus changes replace what is listed.
ChangeList(k, s) ==
  /\ s # lists[k]
  /\ lists' = [lists EXCEPT ![k] = s]
  /\ Disturb
  /\ UNCHANGED <<facts, nextFact>>

\* Handles are never used twice (FactBase).
AssertFact(f) ==
  /\ nextFact <= MaxFacts
  /\ facts' = [h \in DOMAIN facts \cup {nextFact} |->
                 IF h = nextFact THEN f ELSE facts[h]]
  /\ nextFact' = nextFact + 1
  /\ Disturb
  /\ UNCHANGED lists

RetractFact(h) ==
  /\ h \in DOMAIN facts
  /\ facts' = [g \in DOMAIN facts \ {h} |-> facts[g]]
  /\ Disturb
  /\ UNCHANGED <<lists, nextFact>>

CQueryNext ==
  \/ \E null \in BOOLEAN :
       \/ \E k \in Kinds : WalkNames(k, null)
       \/ \E h \in 1..MaxFacts : WalkFields(h, null)
       \/ ReadNext(null)
       \/ \E max \in 0..MaxCap : AskIds(max, null)
       \/ \E h \in 1..MaxFacts, type \in {"ordered", "template"} :
            AskName(h, type, null)
  \/ EndWalk
  \/ \E k \in Kinds, s \in SeqsUpTo(Names, MaxLen) : ChangeList(k, s)
  \/ \E f \in FactShapes : AssertFact(f)
  \/ \E h \in 1..MaxFacts : RetractFact(h)

CQuerySpec == CQueryInit /\ [][CQueryNext]_cqueryVars

-----------------------------------------------------------------------------
\* A list that shrinks between the count and a read is answered with an
\* error: no read is outside of the list the engine has now.
NoReadOutside == walk.phase # "panic"

\* The fields read under one handle are those of one fact, whatever was
\* retracted and asserted between the reads; an enumeration of names that
\* nothing disturbed is complete and in order.
WalkFaithful ==
  /\ walk.phase \in {"read", "done"} /\ walk.what.kind = "fields" =>
       walk.got = SubSeq(walk.src, 1, walk.i)
  /\ walk.phase = "done" /\ walk.what # CQueryNone /\ ~walk.dirty =>
       walk.got = walk.src

\* No id is written past the caller's buffer, and when the count fits into it
\* the host has every id.
IdsFit ==
  walk.phase = "ids" =>
    /\ Len(walk.got) <= walk.i
    /\ walk.n <= walk.i => walk.got = walk.src
=============================================================================
