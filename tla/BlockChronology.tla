-------------------------- MODULE BlockChronology --------------------------
(* The tables that remember what holds back the tokens of negative, NCC and  *)
(* exists nodes, and the one chronology in which blockers were attached.     *)
(*                                                                           *)
(* A blocked parent is on the block list of its oldest blocker, at a place   *)
(* given by a network-wide counter; a retraction releases parents in the     *)
(* reverse of that order.  A parent keeps its place while its oldest blocker *)
(* stays and takes a new one when it moves to the next.  Results of NCC sub- *)
(* networks come in batches: the places are reserved first, in the order of  *)
(* the outer memory, and used when a result is delivered; a delivery may     *)
(* start another batch, which suspends the reservations.  When the counter   *)
(* is exhausted all places are numbered afresh.                              *)
(*                                                                           *)
(* The exists node of the model has the condition of the negative one, so    *)
(* that the two tables are filled together and must be complementary.  The   *)
(* variable taken is not in the code: it lists the live places in the order  *)
(* in which they were taken, which the numbers must stand for.               *)
EXTENDS Integers, Sequences, FiniteSets, SequencesExt, TLC

CONSTANTS Parents,     \* parent tokens
          BlockFacts,  \* facts that block or support
          Results,     \* result tokens of the NCC's subnetwork
          OwnerOf,     \* OwnerOf[r]: the parent a result descends from
          RankOf,      \* RankOf[p]: the place of p in the outer memory
          OrderMax,    \* the exhausted counter (u64::MAX)
          BlockStart,  \* the counter of an empty network with a past
          MaxTaken     \* bound: places taken

ASSUME BlockAssumption ==
    /\ OwnerOf \in [Results -> Parents] /\ RankOf \in [Parents -> Nat]
    /\ MaxTaken \in Nat /\ BlockStart \in 0..OrderMax
    \* The code's counter is always larger than the number of blocked tokens.
    /\ OrderMax \in Nat /\ OrderMax > 3 * Cardinality(Parents)

VARIABLES neg,           \* [blocked, order, reverse, free]: the negative memory
          ncc,           \* [count, owner, results, primary, order, free]
          exi,           \* [support, reverse, free]: the exists memory
          blockPending,  \* stack of batches: [todo, reserved]
          next,          \* next_block_order
          taken,         \* ghost: the live places, the last taken last
          count          \* places taken so far, for the bound

blockVars == <<neg, ncc, exi, blockPending, next, taken, count>>

Put(f, k, v)  == [x \in DOMAIN f \cup {k} |-> IF x = k THEN v ELSE f[x]]
Cut(f, ks)    == [x \in DOMAIN f \ ks |-> f[x]]
Get(f, k, d)  == IF k \in DOMAIN f THEN f[k] ELSE d

(* A reverse index without empty entries.                                    *)
Unlink(reverse, f, p) ==
    IF Get(reverse, f, {}) \ {p} = {} THEN Cut(reverse, {f})
    ELSE [reverse EXCEPT ![f] = @ \ {p}]

(* The network-wide places: those of the two memories and the reserved ones. *)
Orders(w) ==
    [x \in {<<"neg", 0, p>> : p \in DOMAIN w.neg.order}
           \cup {<<"ncc", 0, p>> : p \in DOMAIN w.ncc.order}
           \cup UNION {{<<"batch", i, p>> : p \in DOMAIN w.pending[i].reserved} :
                          i \in DOMAIN w.pending} |->
        CASE x[1] = "neg" -> w.neg.order[x[3]]
          [] x[1] = "ncc" -> w.ncc.order[x[3]]
          [] OTHER -> w.pending[x[2]].reserved[x[3]]]

\* Mutant: the reservations of suspended batches keep their old numbers.
RebaseTop(w) ==
    LET os == Orders(w)
        rank(o) == Cardinality({x \in DOMAIN os : os[x] < o})
        new(f) == [p \in DOMAIN f |-> rank(f[p])]
    IN  [w EXCEPT !.neg.order = new(@), !.ncc.order = new(@),
                  !.pending = [i \in DOMAIN @ |->
                      IF i = Len(@) THEN [@[i] EXCEPT !.reserved = new(@)] ELSE @[i]],
                  !.next = Cardinality(DOMAIN os)]

(* Number all live places afresh, in their order.                            *)
Rebase(w) ==
    LET os == Orders(w)
        rank(o) == Cardinality({x \in DOMAIN os : os[x] < o})
        new(f) == [p \in DOMAIN f |-> rank(f[p])]
    IN  [w EXCEPT !.neg.order = new(@), !.ncc.order = new(@),
                  !.pending = [i \in DOMAIN @ |-> [@[i] EXCEPT !.reserved = new(@)]],
                  !.next = Cardinality(DOMAIN os)]

(* allocate_block_order: the order is w.next - 1 of the result.              *)
Allocate(w) ==
    LET r == IF w.next = OrderMax THEN Rebase(w) ELSE w
    IN  [r EXCEPT !.next = @ + 1, !.count = @ + 1]

Newest(w) == w.next - 1

(* The ghost: a place is taken, given up, or becomes another one.            *)
BlockTake(s, x)    == Append(SelectSeq(s, LAMBDA y : y # x), x)
GiveUp(s, xs) == SelectSeq(s, LAMBDA y : y \notin xs)
Rename(s, x, z) == [i \in DOMAIN s |-> IF s[i] = x THEN z ELSE s[i]] \o <<>>

World == [neg |-> neg, ncc |-> ncc, exi |-> exi, pending |-> blockPending,
          next |-> next, taken |-> taken, count |-> count]

Become(w) ==
    /\ neg' = w.neg /\ ncc' = w.ncc /\ exi' = w.exi /\ blockPending' = w.pending
    /\ next' = w.next /\ taken' = w.taken /\ count' = w.count
-----------------------------------------------------------------------------
(* NegativeMemory.                                                           *)

AddBlocker(m, p, f, order) ==
    [m EXCEPT !.order = IF p \in DOMAIN m.blocked THEN @ ELSE Put(@, p, order),
              !.blocked = Put(@, p, IF Contains(Get(@, p, <<>>), f) THEN @[p]
                                    ELSE Append(Get(@, p, <<>>), f)),
              !.reverse = Put(@, f, Get(@, f, {}) \cup {p})]

RemoveBlocker(m, p, f, order) ==
    LET was  == Get(m.blocked, p, <<>>)
        left == SelectSeq(was, LAMBDA g : g # f)
    IN  [m EXCEPT !.blocked = IF left = <<>> THEN Cut(@, {p}) ELSE Put(@, p, left),
                  !.order = CASE left = <<>> -> Cut(@, {p})
                              [] left # <<>> /\ was[1] = f -> Put(@, p, order)
                              [] OTHER -> @,
                  !.reverse = Unlink(@, f, p)]

RemoveNegParent(m, p) ==
    [m EXCEPT !.free = @ \ {p}, !.order = Cut(@, {p}), !.blocked = Cut(@, {p}),
              !.reverse = LET fs == {f \in DOMAIN @ : @[f] # {p}}
                          IN  [f \in fs |-> @[f] \ {p}]]

Block(w, p, f) ==
    LET a == Allocate(w)
    IN  [a EXCEPT !.neg = AddBlocker([@ EXCEPT !.free = @ \ {p}], p, f, Newest(a)),
                  !.taken = BlockTake(@, <<"neg", 0, p>>)]
-----------------------------------------------------------------------------
(* ExistsMemory; free here: the parents with a pass-through.                 *)

AddSupport(m, p, f) ==
    [m EXCEPT !.support = Put(@, p, Get(@, p, {}) \cup {f}),
              !.reverse = Put(@, f, Get(@, f, {}) \cup {p}),
              !.free = @ \cup {p}]

RemoveSupport(m, p, f) ==
    LET left == Get(m.support, p, {}) \ {f}
    IN  [m EXCEPT !.support = IF left = {} THEN Cut(@, {p}) ELSE Put(@, p, left),
                  !.reverse = Unlink(@, f, p),
                  !.free = IF left = {} THEN @ \ {p} ELSE @]

RemoveExistsParent(m, p) ==
    [m EXCEPT !.free = @ \ {p}, !.support = Cut(@, {p}),
              !.reverse = LET fs == {f \in DOMAIN @ : @[f] # {p}}
                          IN  [f \in fs |-> @[f] \ {p}]]

-----------------------------------------------------------------------------
(* The tokens and facts that reach the negative and the exists node.         *)

Sustain(w, p, f) == [w EXCEPT !.exi = AddSupport(@, p, f)]

(* A parent arrives with the facts that match it, oldest first.              *)
ParentArrives(p, fs) ==
    /\ p \notin neg.free \cup DOMAIN neg.blocked
    /\ IF fs = <<>> THEN Become([World EXCEPT !.neg.free = @ \cup {p}])
       ELSE Become(FoldLeft(LAMBDA w, f : Sustain([w EXCEPT !.neg = AddBlocker(@, p, f, 0)], p, f),
                            Sustain(Block(World, p, fs[1]), p, fs[1]), Tail(fs)))

(* A fact arrives: blocked parents keep their places, free ones take one.    *)
FactArrives(f, matching) ==
    /\ f \notin DOMAIN neg.reverse
    /\ matching # {} /\ matching \subseteq neg.free \cup DOMAIN neg.blocked
    /\ Become(FoldLeft(LAMBDA w, p :
                         Sustain(IF p \in DOMAIN w.neg.blocked
                                 THEN [w EXCEPT !.neg = AddBlocker(@, p, f, 0)]
                                 ELSE Block(w, p, f), p, f),
                      World, SetToSeq(matching)))

(* A fact goes.  Places on other lists stay.                                 *)
CollectRetractions(w, f, others) ==
    FoldLeft(LAMBDA v, p : [v EXCEPT !.neg = RemoveBlocker(@, p, f, 0)], w, SetToSeq(others))

(* A parent on the fact's own list moves to its next blocker, or passes.     *)
ApplyRetraction(w, p, f) ==
    LET a == Allocate(w)
        m == RemoveBlocker(a.neg, p, f, Newest(a))
    IN  IF p \in DOMAIN m.blocked
        THEN [a EXCEPT !.neg = m, !.taken = BlockTake(@, <<"neg", 0, p>>)]
        ELSE [a EXCEPT !.neg = [m EXCEPT !.free = @ \cup {p}],
                       !.taken = GiveUp(@, {<<"neg", 0, p>>})]

(* The parents of its own list go on, the last attached first.               *)
FactGoes(f) ==
    /\ f \in DOMAIN neg.reverse
    /\ LET own  == {p \in neg.reverse[f] : neg.blocked[p][1] = f}
           left == FoldLeft(LAMBDA w, p : [w EXCEPT !.exi = RemoveSupport(@, p, f)],
                            World, SetToSeq(exi.reverse[f]))
           turn == SetToSortSeq(own, LAMBDA p, q : neg.order[p] > neg.order[q])
       IN  Become(FoldLeft(LAMBDA w, p : ApplyRetraction(w, p, f),
                           CollectRetractions(left, f, neg.reverse[f] \ own), turn))
-----------------------------------------------------------------------------
(* NccMemory and the batches of results.                                     *)

AddResult(m, p, r, order) ==
    IF r \in DOMAIN m.owner THEN m
    ELSE [m EXCEPT !.count = Put(@, p, Get(@, p, 0) + 1),
                   !.owner = Put(@, r, p),
                   !.results = Put(@, p, Append(Get(@, p, <<>>), r)),
                   !.primary = IF Get(m.count, p, 0) = 0 THEN Put(@, p, r) ELSE @,
                   !.order   = IF Get(m.count, p, 0) = 0 THEN Put(@, p, order) ELSE @,
                   !.free = IF Get(m.count, p, 0) = 0 THEN @ \ {p} ELSE @]

RemoveResultSupport(m, r) ==
    IF r \notin DOMAIN m.owner THEN m
    ELSE LET p    == m.owner[r]
             left == SelectSeq(m.results[p], LAMBDA q : q # r)
         IN  [m EXCEPT !.owner = Cut(@, {r}),
                       !.results = IF left = <<>> THEN Cut(@, {p}) ELSE Put(@, p, left),
                       !.count = IF left = <<>> THEN Cut(@, {p}) ELSE Put(@, p, @[p] - 1)]

ReassignPrimary(m, p, order) ==
    IF p \in DOMAIN m.results
    THEN [m EXCEPT !.primary = Put(@, p, m.results[p][1]), !.order = Put(@, p, order)]
    ELSE [m EXCEPT !.primary = Cut(@, {p}), !.order = Cut(@, {p}), !.free = @ \cup {p}]

RemoveNccParent(m, p) ==
    LET rs == ToSet(Get(m.results, p, <<>>))
    IN  [m EXCEPT !.count = Cut(@, {p}), !.owner = Cut(@, rs), !.results = Cut(@, {p}),
                  !.primary = Cut(@, {p}), !.order = Cut(@, {p}), !.free = @ \ {p}]

NccLeft(p) ==
    /\ p \notin ncc.free \cup DOMAIN ncc.count
    /\ blockPending = <<>>
    /\ Become([World EXCEPT !.ncc.free = @ \cup {p}])

(* drain_ncc_results: a batch reserves places for the owners its results     *)
(* would block, newest owner first.                                          *)
StartBatch(rs) ==
    /\ Len(blockPending) < 2
    /\ \A i \in DOMAIN rs : /\ rs[i] \notin DOMAIN ncc.owner
                            /\ OwnerOf[rs[i]] \in ncc.free \cup DOMAIN ncc.count
                            /\ \A b \in DOMAIN blockPending : ~Contains(blockPending[b].todo, rs[i])
    /\ LET owners == SetToSortSeq({OwnerOf[r] : r \in ToSet(rs)} \ DOMAIN ncc.count,
                                  LAMBDA p, q : RankOf[p] > RankOf[q])
           opened == [World EXCEPT !.pending = Append(@, [todo |-> rs, reserved |-> << >>])]
           step(w, p) ==
               LET a == Allocate(w)
                   b == Len(a.pending)
               IN  [a EXCEPT !.pending[b].reserved = Put(@, p, Newest(a)),
                             !.taken = BlockTake(@, <<"batch", b, p>>)]
       IN  Become(FoldLeft(step, opened, owners))

(* Deliver the next result of the newest batch, with the reserved place if   *)
(* there is one, used once.                                                  *)
DeliverResult ==
    /\ blockPending # <<>> /\ Last(blockPending).todo # <<>>
    /\ LET b == Len(blockPending)
           r == Head(blockPending[b].todo)
           p == OwnerOf[r]
           mine   == p \in DOMAIN blockPending[b].reserved
           popped == [World EXCEPT !.pending[b].todo = Tail(@),
                                   !.pending[b].reserved = Cut(@, {p})]
           fresh  == p \notin DOMAIN ncc.count
           here   == <<"ncc", 0, p>>
       IN  /\ p \in ncc.free \cup DOMAIN ncc.count
           /\ CASE ~fresh ->
                     Become([popped EXCEPT !.ncc = AddResult(@, p, r, 0),
                                           !.taken = GiveUp(@, {<<"batch", b, p>>})])
                [] fresh /\ mine ->
                     Become([popped EXCEPT
                                !.ncc = AddResult(@, p, r, blockPending[b].reserved[p]),
                                !.taken = Rename(@, <<"batch", b, p>>, here)])
                [] OTHER ->
                     \E a \in {Allocate(popped)} :
                        Become([a EXCEPT !.ncc = AddResult(@, p, r, Newest(a)),
                                         !.taken = BlockTake(@, here)])

(* A result an earlier delivery retracted is passed over.                    *)
SkipResult ==
    /\ blockPending # <<>>
    /\ LET b == Len(blockPending)
       IN  /\ blockPending[b].todo # <<>>
           /\ Become([World EXCEPT !.pending[b].todo = Tail(@)])

EndBatch ==
    /\ blockPending # <<>> /\ Last(blockPending).todo = <<>>
    /\ LET b == Len(blockPending)
       IN  Become([World EXCEPT !.pending = Front(@),
                                !.taken = SelectSeq(@, LAMBDA x : ~(x[1] = "batch" /\ x[2] = b))])

(* Results go together: their supports first, then the parents that lost     *)
(* their primary result move on or pass, the last attached first.            *)
NccRetract(rs) ==
    /\ rs # {} /\ rs \subseteq DOMAIN ncc.owner
    /\ LET lost == {p \in DOMAIN ncc.primary : ncc.primary[p] \in rs}
           bare == FoldLeft(LAMBDA w, r : [w EXCEPT !.ncc = RemoveResultSupport(@, r)],
                            World, SetToSeq(rs))
           turn == SetToSortSeq(lost, LAMBDA p, q : ncc.order[p] > ncc.order[q])
           step(w, p) ==
               LET a == Allocate(w)
               IN  IF p \in DOMAIN w.ncc.count
                   THEN [a EXCEPT !.ncc = ReassignPrimary(@, p, Newest(a)),
                                  !.taken = BlockTake(@, <<"ncc", 0, p>>)]
                   ELSE [w EXCEPT !.ncc = ReassignPrimary(@, p, 0),
                                  !.taken = GiveUp(@, {<<"ncc", 0, p>>})]
       IN  Become(FoldLeft(step, bare, turn))
-----------------------------------------------------------------------------
(* A parent token goes: no table remembers it.                               *)
RemoveParent(p) ==
    /\ blockPending = <<>>
    /\ Become([World EXCEPT !.neg = RemoveNegParent(@, p), !.ncc = RemoveNccParent(@, p),
                            !.exi = RemoveExistsParent(@, p),
                            !.taken = GiveUp(@, {<<"neg", 0, p>>, <<"ncc", 0, p>>})])

ClearTables ==
    /\ blockPending = <<>>
    /\ neg' = [blocked |-> << >>, order |-> << >>, reverse |-> << >>, free |-> {}]
    /\ ncc' = [count |-> << >>, owner |-> << >>, results |-> << >>, primary |-> << >>,
               order |-> << >>, free |-> {}]
    /\ exi' = [support |-> << >>, reverse |-> << >>, free |-> {}]
    /\ next' = 0 /\ taken' = <<>>
    /\ UNCHANGED <<blockPending, count>>

BlockInit ==
    /\ neg = [blocked |-> << >>, order |-> << >>, reverse |-> << >>, free |-> {}]
    /\ ncc = [count |-> << >>, owner |-> << >>, results |-> << >>, primary |-> << >>,
              order |-> << >>, free |-> {}]
    /\ exi = [support |-> << >>, reverse |-> << >>, free |-> {}]
    /\ blockPending = <<>> /\ next = BlockStart /\ taken = <<>> /\ count = 0
-----------------------------------------------------------------------------
(* validate_consistency of the memories, validate_block_orders.              *)

ValidateNegative(m) ==
    /\ DOMAIN m.order = DOMAIN m.blocked
    /\ \A p, q \in DOMAIN m.order : m.order[p] = m.order[q] => p = q
    /\ \A p \in DOMAIN m.blocked : /\ m.blocked[p] # <<>>
                                  /\ \A f \in ToSet(m.blocked[p]) : p \in Get(m.reverse, f, {})
    /\ \A f \in DOMAIN m.reverse : /\ m.reverse[f] # {}
                                  /\ \A p \in m.reverse[f] : Contains(Get(m.blocked, p, <<>>), f)
    /\ m.free \cap DOMAIN m.blocked = {}

ValidateNcc(m) ==
    /\ DOMAIN m.count = DOMAIN m.results
    /\ DOMAIN m.count = DOMAIN m.primary
    /\ DOMAIN m.count = DOMAIN m.order
    /\ \A p \in DOMAIN m.count :
          /\ m.count[p] > 0 /\ Len(m.results[p]) = m.count[p]
          /\ m.primary[p] = m.results[p][1]
          /\ \A r \in ToSet(m.results[p]) : Get(m.owner, r, <<>>) = p
          /\ Cardinality({r \in DOMAIN m.owner : m.owner[r] = p}) = m.count[p]
    /\ \A r \in DOMAIN m.owner : m.owner[r] \in DOMAIN m.count
    /\ m.free \cap DOMAIN m.count = {}

ValidateExists(m) ==
    /\ \A p \in DOMAIN m.support :
          /\ m.support[p] # {}
          /\ \A f \in m.support[p] : p \in Get(m.reverse, f, {})
    /\ \A f \in DOMAIN m.reverse :
          /\ m.reverse[f] # {}
          /\ \A p \in m.reverse[f] : f \in Get(m.support, p, {})
    /\ m.free \subseteq DOMAIN m.support

ValidateBlockOrders(w) ==
    LET os == [x \in {y \in DOMAIN Orders(w) : y[1] # "batch"} |-> Orders(w)[x]]
    IN  \A x, y \in DOMAIN os : os[x] < w.next /\ (os[x] = os[y] => x = y)

BlockNext ==
    /\ count < MaxTaken
    /\ \/ \E p \in Parents, s \in SUBSET BlockFacts : \E fs \in SetToSeqs(s) : ParentArrives(p, fs)
       \/ \E f \in BlockFacts, matching \in SUBSET Parents : FactArrives(f, matching)
       \/ \E f \in BlockFacts : FactGoes(f)
       \/ \E p \in Parents : NccLeft(p)
       \/ \E s \in SUBSET Results \ {{}} : \E rs \in SetToSeqs(s) : StartBatch(rs)
       \/ DeliverResult
       \/ SkipResult
       \/ EndBatch
       \/ \E rs \in SUBSET Results : NccRetract(rs)
       \/ \E p \in Parents : RemoveParent(p)
       \/ ClearTables

BlockSpec == BlockInit /\ [][BlockNext]_blockVars
-----------------------------------------------------------------------------
(* Two places, reserved ones of suspended batches included, compare as the   *)
(* moments they were taken at, also after the counter was exhausted.         *)
OrdersTrue ==
    LET os == Orders(World)
    IN  /\ ToSet(taken) = DOMAIN os
        /\ \A i \in DOMAIN taken :
              /\ os[taken[i]] < next
              /\ \A j \in 1..(i - 1) : os[taken[j]] < os[taken[i]]

(* What blocks p first, of the parents that wait in a table.                 *)
BlockHeads(w) ==
    [x \in {<<"neg", p>> : p \in DOMAIN w.neg.blocked} \cup {<<"ncc", p>> : p \in DOMAIN w.ncc.primary} |->
        IF x[1] = "neg" THEN w.neg.blocked[x[2]][1] ELSE w.ncc.primary[x[2]]]

(* A parent that keeps its oldest blocker keeps its place among the others   *)
(* that do; one that moves to another blocker goes to the end.               *)
PlaceKept ==
    LET was == BlockHeads(World)
        now == BlockHeads(World')
        stay == {x \in DOMAIN was \cap DOMAIN now : was[x] = now[x]}
        before(x) == IF x[1] = "neg" THEN neg.order[x[2]] ELSE ncc.order[x[2]]
        after(x)  == IF x[1] = "neg" THEN neg'.order[x[2]] ELSE ncc'.order[x[2]]
    IN  /\ \A x, y \in stay : (before(x) < before(y)) = (after(x) < after(y))
        /\ \A x \in stay : \A y \in DOMAIN now \ stay :
              y[1] = "neg" \/ y \in DOMAIN was => after(x) < after(y)

(* The checks made of a saved engine pass at every moment.                   *)
TablesConsistent ==
    /\ ValidateNegative(neg) /\ ValidateNcc(ncc) /\ ValidateExists(exi)
    /\ ValidateBlockOrders(World)

(* A parent passes the negative node or the exists node of one condition,    *)
(* never both and never neither.                                             *)
Complementary ==
    /\ DOMAIN exi.support = DOMAIN neg.blocked
    /\ \A p \in DOMAIN exi.support : exi.support[p] = ToSet(neg.blocked[p])
    /\ exi.free = DOMAIN neg.blocked
=============================================================================
