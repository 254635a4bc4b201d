---------------------------- MODULE Multifields ----------------------------
(***************************************************************************)
(* The multifield functions of the expression evaluator: slices and edits  *)
(* by position, searches, the loop that deletes or replaces members, and   *)
(* the merge sort that calls a predicate of the program.                   *)
(*                                                                         *)
(* A field is a number; a multifield is a sequence of fields. A call is    *)
(* chosen first and then evaluated, the edit loop one splice at a time.    *)
(***************************************************************************)
EXTENDS Integers, Sequences, FiniteSets

CONSTANTS
  Fields,      \* field values
  MaxLen,      \* bound on the length of an argument
  Indices,     \* the positions passed, in and out of range
  Predicates   \* relations a program may sort by: sets of pairs

ASSUME MultifieldsAssumption ==
  /\ Indices \subseteq Int
  /\ \A p \in Predicates : p \subseteq Fields \X Fields

VARIABLES
  multiCall,   \* the call: its function and arguments
  work,        \* the fields an edit works on, and its cursor
  multiResult  \* the value, or None while the call is evaluated

multiVars == <<multiCall, work, multiResult>>

MultiNone == [kind |-> "none"]

Multi(s) == [kind |-> "multi", fields |-> s]

Scalar(x) == [kind |-> "scalar", value |-> x]

Absent == [kind |-> "absent"]

Failure == [kind |-> "error"]

Seqs(n) == UNION {[1..k -> Fields] : k \in 0..n}

Larger(a, b) == IF a > b THEN a ELSE b

Smaller(a, b) == IF a < b THEN a ELSE b

\* s[a..b), counted from zero.
Slice(s, a, b) == SubSeq(s, a + 1, b)

-----------------------------------------------------------------------------
(* By position. Positions are one-based and inclusive. *)

\* subseq$: bounds are clamped, an inverted range is empty.
Subseq(m, b, e) ==
  LET start == Larger(b, 1)
      end == Smaller(e, Len(m))
  IN IF Len(m) = 0 \/ start > end THEN <<>> ELSE Slice(m, start - 1, end)

\* nth$: the element, or nil for a position outside.
Nth(m, i) == IF i - 1 >= 0 /\ i - 1 < Len(m) THEN Scalar(m[i]) ELSE Absent

\* first$ and rest$
First(m) == IF m = <<>> THEN <<>> ELSE <<m[1]>>

Rest(m) == IF Len(m) <= 1 THEN <<>> ELSE Slice(m, 1, Len(m))

\* Where insert$ splices: behind the end when the index is too large.
InsertPosition(m, i) == Smaller(Larger(i, 1) - 1, Len(m))

InsertMf(m, i, v) ==
  LET p == InsertPosition(m, i)
  IN Slice(m, 0, p) \o v \o Slice(m, p, Len(m))

\* The end of a range, exclusive and from zero.
EndClamped(m, e) == Smaller(Larger(e, 0), Len(m))

\* delete$
DeleteMf(m, b, e) ==
  LET begin == Larger(b, 1) - 1
      end == EndClamped(m, e)
  IN IF begin < Len(m) /\ Larger(e, 0) >= 1 /\ begin < end
     THEN Slice(m, 0, begin) \o Slice(m, end, Len(m)) ELSE m

\* replace$: a range that ends just before it begins removes nothing, and the
\* new fields are put in its place.
ReplaceMf(m, b, e, v) ==
  LET begin == Larger(b, 1) - 1
      end == EndClamped(m, e)
  IN IF begin <= end THEN Slice(m, 0, begin) \o v \o Slice(m, end, Len(m))
     ELSE m

-----------------------------------------------------------------------------
(* Searches. *)

\* The fields from position p on begin with n.
MatchesAt(m, p, n) == Len(m) - p >= Len(n) /\ Slice(m, p, p + Len(n)) = n

\* The offsets of windows of n's length.
Windows(m, n) == 0..(Len(m) - Len(n))

\* member$: the first match, as a position or an inclusive range.
Member(n, m) ==
  LET found == {p \in Windows(m, n) : MatchesAt(m, p, n)}
      p == CHOOSE x \in found : \A y \in found : x <= y
  IN IF m = <<>> THEN Absent
     ELSE IF n = <<>> THEN Multi(<<1, 0>>)
     ELSE IF found = {} THEN Absent
     ELSE IF Len(n) = 1 THEN Scalar(p + 1)
     ELSE Multi(<<p + 1, p + Len(n)>>)

\* subsetp
Subsetp(a, b) == \A i \in DOMAIN a : \E j \in DOMAIN b : a[i] = b[j]

\* find_member_pattern: the first position from start on, and at it the first
\* pattern that matches.
FindPattern(m, ps, start) ==
  LET hits == {p \in start..(Len(m) - 1) :
                 \E k \in DOMAIN ps : MatchesAt(m, p, ps[k])}
      p == CHOOSE x \in hits : \A y \in hits : x <= y
      k == CHOOSE x \in DOMAIN ps :
             /\ MatchesAt(m, p, ps[x])
             /\ \A y \in DOMAIN ps : MatchesAt(m, p, ps[y]) => x <= y
  IN IF hits = {} THEN MultiNone
     ELSE [kind |-> "hit", at |-> p, len |-> Len(ps[k])]

\* Mutant: a deletion goes on behind the fields it removed.
SkipAhead(replace, p, v) == p + Len(v)

\* A deletion may join fields to a new match; a replacement skips what it
\* inserted.
NextCursor(replace, p, v) == IF replace THEN p + Len(v) ELSE 0

\* One round of the loop of delete-member$ and replace-member$.
EditStep ==
  /\ multiCall.fn \in {"delete-member$", "replace-member$"}
  /\ multiResult = MultiNone
  /\ LET replace == multiCall.fn = "replace-member$"
         hit == FindPattern(work.fields, multiCall.patterns, work.cursor)
     IN \/ /\ hit = MultiNone
           /\ multiResult' = Multi(work.fields)
           /\ UNCHANGED work
        \/ /\ hit # MultiNone /\ hit.len = 0
           /\ multiResult' = Failure
           /\ UNCHANGED work
        \/ /\ hit # MultiNone /\ hit.len > 0
           /\ work' = [fields |-> Slice(work.fields, 0, hit.at) \o multiCall.value
                                  \o Slice(work.fields, hit.at + hit.len,
                                           Len(work.fields)),
                       cursor |-> NextCursor(replace, hit.at, multiCall.value)]
           /\ UNCHANGED multiResult
  /\ UNCHANGED multiCall

-----------------------------------------------------------------------------
(* Sorting. *)

\* The predicate answers for the left and the right head.
Holds(p, x, y) == <<x, y>> \in p

\* Anything but FALSE puts the right field first.
TakeRight(p, x, y) == Holds(p, x, y)

\* Merging l and r, the heads compared once.
Merge[p \in Predicates, l \in Seqs(MaxLen), r \in Seqs(MaxLen)] ==
  IF l = <<>> THEN r
  ELSE IF r = <<>> THEN l
  ELSE IF TakeRight(p, Head(l), Head(r))
  THEN <<Head(r)>> \o Merge[p, l, Tail(r)]
  ELSE <<Head(l)>> \o Merge[p, Tail(l), r]

\* merge_sort_fields: the left half is rounded up.
MergeSort[p \in Predicates, m \in Seqs(MaxLen)] ==
  IF Len(m) < 2 THEN m
  ELSE LET middle == (Len(m) + 1) \div 2
       IN Merge[p, MergeSort[p, Slice(m, 0, middle)],
                MergeSort[p, Slice(m, middle, Len(m))]]

-----------------------------------------------------------------------------
(* The machine: a call, then its evaluation. *)

Range2(fn) ==
  {[fn |-> fn, m |-> m, b |-> b, e |-> e, v |-> v] :
     m \in Seqs(MaxLen), b \in Indices, e \in Indices,
     v \in IF fn = "replace$" THEN Seqs(2) ELSE {<<>>}}

Calls ==
  Range2("subseq$") \cup Range2("delete$") \cup Range2("replace$")
  \cup {[fn |-> fn, m |-> m, i |-> i, v |-> v] : fn \in {"insert$", "nth$"},
         m \in Seqs(MaxLen), i \in Indices, v \in Seqs(1)}
  \cup {[fn |-> "member$", m |-> m, v |-> v] : m \in Seqs(MaxLen), v \in Seqs(2)}
  \cup {[fn |-> "first$", m |-> m] : m \in Seqs(MaxLen)}
  \cup {[fn |-> "subsetp", m |-> m, v |-> v] : m \in Seqs(2), v \in Seqs(2)}
  \cup {[fn |-> "sort", m |-> m, p |-> p] : m \in Seqs(MaxLen), p \in Predicates}

Patterns == {<<x>> : x \in Seqs(2)} \cup {<<x, y>> : x, y \in Seqs(1)}

Edits ==
  {[fn |-> "delete-member$", m |-> m, value |-> <<>>, patterns |-> ps] :
     m \in Seqs(MaxLen), ps \in Patterns}
  \cup {[fn |-> "replace-member$", m |-> m, value |-> v, patterns |-> ps] :
     m \in Seqs(MaxLen), v \in Seqs(2), ps \in Patterns}

MultiInit ==
  /\ multiCall \in Calls \cup Edits
  /\ work = [fields |-> multiCall.m, cursor |-> 0]
  /\ multiResult = MultiNone

Value(c) ==
  CASE c.fn = "subseq$" -> Multi(Subseq(c.m, c.b, c.e))
    [] c.fn = "delete$" -> Multi(DeleteMf(c.m, c.b, c.e))
    [] c.fn = "replace$" -> Multi(ReplaceMf(c.m, c.b, c.e, c.v))
    [] c.fn = "insert$" -> Multi(InsertMf(c.m, c.i, c.v))
    [] c.fn = "nth$" -> Nth(c.m, c.i)
    [] c.fn = "member$" -> Member(c.v, c.m)
    [] c.fn = "first$" -> Multi(First(c.m) \o Rest(c.m))
    [] c.fn = "subsetp" -> IF Subsetp(c.m, c.v) THEN Scalar(1) ELSE Absent
    [] c.fn = "sort" -> Multi(MergeSort[c.p, c.m])

MultiEvaluate ==
  /\ multiResult = MultiNone
  /\ multiCall.fn \notin {"delete-member$", "replace-member$"}
  /\ multiResult' = Value(multiCall)
  /\ UNCHANGED <<multiCall, work>>

\* Too few arguments, or one that is not of the type the function expects.
MultiRefuse ==
  /\ multiResult = MultiNone
  /\ work = [fields |-> multiCall.m, cursor |-> 0]
  /\ multiResult' = Failure
  /\ UNCHANGED <<multiCall, work>>

\* The value is used by the program.
MultiDone == multiResult # MultiNone /\ UNCHANGED multiVars

MultiNext == MultiEvaluate \/ EditStep \/ MultiRefuse \/ MultiDone

MultiSpec == MultiInit /\ [][MultiNext]_multiVars

-----------------------------------------------------------------------------
(* Properties *)

\* The elements of m at the positions in S, in order.
Elements[m \in Seqs(MaxLen), S \in SUBSET (1..MaxLen)] ==
  IF S = {} THEN <<>>
  ELSE LET p == CHOOSE x \in S : \A y \in S : x <= y
       IN <<m[p]>> \o Elements[m, S \ {p}]

Answered == multiResult.kind \notin {"none", "error"}

Positions(m, b, e) == {p \in DOMAIN m : b <= p /\ p <= e}

\* A slice is made of the elements whose positions lie between the bounds,
\* whatever the bounds; deleting the same range leaves exactly the others.
SlicesExact ==
  /\ Answered /\ multiCall.fn = "subseq$" =>
       multiResult.fields = Elements[multiCall.m, Positions(multiCall.m, multiCall.b, multiCall.e)]
  /\ Answered /\ multiCall.fn = "delete$" =>
       multiResult.fields = Elements[multiCall.m,
         DOMAIN multiCall.m \ Positions(multiCall.m, multiCall.b, multiCall.e)]

\* Inserting loses nothing: the old fields stay in order around the new ones,
\* which begin at the position asked for when there is one, and a range
\* replaced is a range deleted with the new fields in its place.
InsertKeepsFields ==
  /\ Answered /\ multiCall.fn = "insert$" =>
       /\ Len(multiResult.fields) = Len(multiCall.m) + Len(multiCall.v)
       /\ \E p \in 0..Len(multiCall.m) :
            /\ multiResult.fields = SubSeq(multiCall.m, 1, p) \o multiCall.v
                               \o SubSeq(multiCall.m, p + 1, Len(multiCall.m))
            /\ multiCall.i \in 1..(Len(multiCall.m) + 1) => p = multiCall.i - 1
  /\ Answered /\ multiCall.fn = "replace$"
       /\ Positions(multiCall.m, multiCall.b, multiCall.e) # {} =>
       Len(multiResult.fields) = Len(multiCall.v)
         + Cardinality(DOMAIN multiCall.m \ Positions(multiCall.m, multiCall.b, multiCall.e))

\* A search reports the first match and misses none.
MemberFirst ==
  Answered /\ multiCall.fn = "member$" /\ multiCall.v # <<>> =>
    LET here(p) == SubSeq(multiCall.m, p, p + Len(multiCall.v) - 1) = multiCall.v
        at == IF multiResult.kind = "scalar" THEN multiResult.value
              ELSE IF multiResult.kind = "multi" THEN multiResult.fields[1] ELSE 0
    IN /\ \A p \in 1..(Len(multiCall.m) - Len(multiCall.v) + 1) :
            here(p) => at # 0 /\ at <= p
       /\ at # 0 => here(at)

\* Deletion of members ends with none left, also where deleting joined fields
\* to a new match.
DeletionComplete ==
  Answered /\ multiCall.fn = "delete-member$" =>
    \A k \in DOMAIN multiCall.patterns, p \in 0..Len(multiResult.fields) :
      multiCall.patterns[k] # <<>> =>
        ~MatchesAt(multiResult.fields, p, multiCall.patterns[k])

\* Sorting keeps every field as often as it occurs; by an order it puts each
\* field before the ones it must precede, and fields the predicate does not
\* tell apart keep their order.
SortExact ==
  Answered /\ multiCall.fn = "sort" =>
    LET s == multiResult.fields
        Count(m, x) == Cardinality({i \in DOMAIN m : m[i] = x})
        transitive == \A x, y, z \in Fields :
                        ~Holds(multiCall.p, x, y) /\ ~Holds(multiCall.p, y, z) =>
                          ~Holds(multiCall.p, x, z)
    IN /\ \A x \in Fields : Count(s, x) = Count(multiCall.m, x)
       /\ transitive =>
            \A i, j \in DOMAIN s :
              i < j /\ Holds(multiCall.p, s[i], s[j]) => Holds(multiCall.p, s[j], s[i])
       /\ (\A x, y \in Fields : ~Holds(multiCall.p, x, y)) => s = multiCall.m

=============================================================================
