--------------------------- MODULE EnginePoolWork ---------------------------
(***************************************************************************)
(* Proofs about EnginePool, part two: what the pool owes.  The invariant of  *)
(* EnginePoolProofs bounds what a slot may own; OwedInv below says that what *)
(* has been accepted is owned: every call and every promise of the pool is   *)
(* in exactly one place, in order, until it is settled.  The two together    *)
(* are inductive.  From them follow the exclusive lease, the order of the    *)
(* calls of a callback, the release after the drain, work conservation, the  *)
(* barrier of close(), that no work is lost, and the order of public calls.  *)
(***************************************************************************)
EXTENDS EnginePoolProofs, FiniteSetTheorems

-----------------------------------------------------------------------------
(***************************************************************************)
(* The work of a slot.  SlotsInv says what a slot owns; the invariant below  *)
(* says the converse, for each call where its work is.  h is the record that *)
(* the helpers pass on, X the requests that a handler has taken out of their *)
(* place and neither settled nor put elsewhere yet: X is empty between steps. *)
(***************************************************************************)
\* The indexes of the proxy calls of t that its lease still counts.
OpenCalls(t, h) ==
  {i \in 1 .. MaxCalls : h.result[<<t, i>>] = "pending" \/ <<t, i>> \in h.untracked}

\* Every unsettled proxy call of t is in its owner FIFO, in flight, or in X; the
\* FIFO is in the order of invocation, behind what is in flight.
CallsInv(t, X, h) ==
  LET q == h.lease[t].queue
  IN /\ \A k \in 1 .. Len(q) : q[k][1] = t /\ h.result[q[k]] = "pending" /\ q[k] \notin X
     /\ \A k, l \in 1 .. Len(q) : k < l => q[k][2] < q[l][2]
     /\ q # <<>> => h.slot.activeLease = t
     /\ \A i \in 1 .. MaxCalls :
          /\ <<t, i>> \in h.slot.pending =>
               /\ h.result[<<t, i>>] = "pending" /\ h.slot.activeLease = t /\ <<t, i>> \notin X
               /\ \A k \in 1 .. Len(q) : i < q[k][2]
          /\ <<t, i>> \in X => h.result[<<t, i>>] = "pending"
          /\ h.result[<<t, i>>] = "pending" =>
               <<t, i>> \in h.slot.pending \/ <<t, i>> \in X \/ \E k \in 1 .. Len(q) : q[k] = <<t, i>>

\* Proxy calls are made in order, once the callback runs; the lease counts each
\* until its reaction has run and is released only when it counts none.
CountInv(t, h) ==
  /\ \A i \in 1 .. MaxCalls : <<t, i>> \in h.untracked => h.result[<<t, i>>] \notin {"none", "pending"}
  /\ \A i, j \in 1 .. MaxCalls : i < j /\ h.result[<<t, i>>] = "none" => h.result[<<t, j>>] = "none"
  /\ h.lease[t].pendingCalls = Cardinality(OpenCalls(t, h))
  /\ h.lease[t].released => OpenCalls(t, h) = {}
  /\ h.phase[t] \in {"idle", "waiting", "admitted"} =>
       \A i \in 1 .. MaxCalls : h.result[<<t, i>>] = "none"

\* A root call that waits is queued, in flight or in X; one past admission owns the
\* slot or is in X; a root request is in flight only while there is no lease.
RootInv(t, X, h) ==
  /\ h.phase[t] # "idle" /\ Kind[t] # "close"
  /\ Root(t) \in h.slot.pending => h.slot.activeLease = None
  /\ h.phase[t] = "waiting" =>
       \/ Root(t) \in h.slot.pending \/ Root(t) \in X
       \/ \E k \in 1 .. Len(h.slot.queue) : h.slot.queue[k] = t
  /\ h.phase[t] \in LeasePhases => h.slot.activeLease = t \/ Root(t) \in X
WorkOf(t, X, h) == CallsInv(t, X, h) /\ CountInv(t, h) /\ RootInv(t, X, h)

\* Both FIFOs together.
WaitingOn(sl, ls) ==
  Len(sl.queue) + IF sl.activeLease = None THEN 0 ELSE Len(ls[sl.activeLease].queue)
Work(s, h, hm, X) ==
  /\ \A t \in Tasks : hm[t] = s => WorkOf(t, X, h)
  /\ \A r \in h.slot.pending \cup X : hm[r[1]] = s
  /\ WaitingOn(h.slot, h.lease) <= QueueCapacity

\* Nothing waits beside an idle worker.
Drained(h) ==
  h.slot.state = "running" /\ h.slot.inflight = 0 =>
    IF h.slot.activeLease = None THEN h.slot.queue = <<>>
    ELSE h.lease[h.slot.activeLease].queue = <<>>

\* A call that no slot has been picked for.
Untouched(t, h) ==
  /\ Kind[t] = "close" \/ h.phase[t] \in {"idle", "done"}
  /\ h.phase[t] = "idle" => h.result[Root(t)] = "none"
  /\ \A i \in 1 .. MaxCalls : h.result[<<t, i>>] = "none" /\ <<t, i>> \notin h.untracked
  /\ h.lease[t].queue = <<>> /\ h.lease[t].pendingCalls = 0

WorkInv ==
  /\ \A s \in Slots : Work(s, Here(s), home, {}) /\ Drained(Here(s))
  /\ \A s \in Slots, t \in Tasks : home[t] \notin Slots => Untouched(t, Here(s))

\* The close promise settles behind the barrier.
BarrierInv ==
  /\ \A s \in Slots : slot[s].closing = "done" => slot[s].state = "closed"
  /\ \A c \in Tasks : Kind[c] = "close" /\ result[Root(c)] \in {"ok", "closeFailed"} =>
       \A s \in Slots : slot[s].closing = "done"

\* What a handler of slot s leaves alone: the calls of every other slot.
Alike(t, h, g) ==
  /\ g.phase[t] = h.phase[t] /\ g.lease[t] = h.lease[t]
  /\ \A i \in 0 .. MaxCalls : g.result[<<t, i>>] = h.result[<<t, i>>]
  /\ \A i \in 1 .. MaxCalls : <<t, i>> \in g.untracked <=> <<t, i>> \in h.untracked
Elsewhere(s, h, g, hm) == \A t \in Tasks : hm[t] # s => Alike(t, h, g)

\* The promise of a public call is made with the call, pends while the call waits
\* for its callback, and has settled when the call ends.
Promise(t, h) ==
  /\ h.phase[t] = "idle" <=> h.result[Root(t)] = "none"
  /\ h.phase[t] \in {"waiting", "admitted"} => h.result[Root(t)] = "pending"
  /\ h.phase[t] = "done" => h.result[Root(t)] # "pending"
Promises(h, g) == \A t \in Tasks : Promise(t, h) => Promise(t, g)

\* Besides, only promises of the slot settle, with a verdict of V, and at most
\* finishClose() is woken.
Keeps(s, h, g, hm, V) ==
  /\ Elsewhere(s, h, g, hm)
  /\ Promises(h, g)
  /\ g.slot.state = h.slot.state
  /\ \A r \in Requests : g.result[r] = h.result[r] \/ g.result[r] \in V
  /\ \/ g.slot.closing = h.slot.closing
     \/ h.slot.closing = "pending" /\ g.slot.closing = "ready"
DrainVerdicts == {"aborted", "sendError"}

-----------------------------------------------------------------------------
(* The helpers keep the work of their slot accounted for.                   *)

\* The requests of a call.
LEMMA RequestOf ==
  ASSUME NEW t \in Tasks
  PROVE  /\ Root(t) \in Requests /\ Root(t) \notin Calls /\ Root(t)[1] = t /\ Root(t)[2] = 0
         /\ \A i \in 0 .. MaxCalls : <<t, i>> \in Requests /\ <<t, i>>[1] = t
         /\ \A i \in 1 .. MaxCalls : <<t, i>> \in Requests /\ <<t, i>> \in Calls
         /\ \A i \in 1 .. MaxCalls : \A u : <<t, i>> # Root(u)
         /\ \A u : Root(t) = Root(u) => t = u
BY PoolAssumption DEF Root, Requests, Calls

\* Settling, request by request.
LEMMA SettleResults ==
  ASSUME NEW h \in HState, NEW R, NEW v
  PROVE  LET g == Settle(h, R, v)
         IN /\ g.slot = h.slot /\ g.lease = h.lease
            /\ \A r \in Requests : g.result[r] = IF r \in R THEN v ELSE h.result[r]
            /\ \A t \in Tasks : g.phase[t] = IF Root(t) \in R THEN "done" ELSE h.phase[t]
            /\ g.untracked = h.untracked \cup (R \cap Calls)
BY DEF Settle, HState

\* The entries of an owner FIFO are proxy calls of its lease.
LEMMA OwnerEntry ==
  ASSUME NEW t \in Tasks, NEW X, NEW h \in HState, CallsInv(t, X, h),
         NEW k \in 1 .. Len(h.lease[t].queue)
  PROVE  LET c == h.lease[t].queue[k]
         IN /\ \E i \in 1 .. MaxCalls : c = <<t, i>>
            /\ c = <<t, c[2]>> /\ c[2] \in 1 .. MaxCalls /\ c[1] = t
            /\ c \in Calls /\ c \in Requests /\ h.result[c] = "pending" /\ c \notin X
<1>1. h.lease[t].queue \in Seq(Calls) BY DEF HState, LeaseRecord
<1> DEFINE c == h.lease[t].queue[k]
<1>2. c \in Calls /\ c[1] = t /\ h.result[c] = "pending" /\ c \notin X
  BY <1>1, ElementOfSeq DEF CallsInv
<1> HIDE DEF c
<1>3. QED BY <1>2, PoolAssumption DEF Calls, Requests, c

\* The work of a call is where it was when its proxy calls are as they were, and
\* the call itself has at most moved on under its lease or ended.
CallsAlike(t, h, g) ==
  /\ g.lease[t].queue = h.lease[t].queue
  /\ g.lease[t].pendingCalls = h.lease[t].pendingCalls
  /\ g.lease[t].released = h.lease[t].released
  /\ \A i \in 1 .. MaxCalls : g.result[<<t, i>>] = h.result[<<t, i>>]
  /\ \A i \in 1 .. MaxCalls : <<t, i>> \in g.untracked <=> <<t, i>> \in h.untracked
MovesOn(t, h, g) ==
  /\ g.phase[t] = "idle" => h.phase[t] = "idle"
  /\ g.phase[t] \in {"waiting", "admitted"} => g.phase[t] = h.phase[t]
  /\ g.phase[t] \in LeasePhases => h.phase[t] \in LeasePhases

\* A call whose own record, calls and promise stay, or move forward, keeps its work as it was.
LEMMA WorkOfStep ==
  ASSUME NEW t \in Tasks, NEW h \in HState, NEW g, NEW X, WorkOf(t, X, h),
         CallsAlike(t, h, g), MovesOn(t, h, g),
         g.slot.pending = h.slot.pending, g.slot.queue = h.slot.queue,
         g.slot.activeLease = h.slot.activeLease
  PROVE  WorkOf(t, X, g)
<1> DEFINE q == h.lease[t].queue
<1>1. OpenCalls(t, g) = OpenCalls(t, h) BY DEF OpenCalls, CallsAlike
<1>2. \A i \in 1 .. MaxCalls : g.result[<<t, i>>] = h.result[<<t, i>>] BY DEF CallsAlike
<1>3. CallsInv(t, X, h) /\ CountInv(t, h) /\ RootInv(t, X, h) BY DEF WorkOf
<1>4. \A k \in 1 .. Len(q) : g.result[q[k]] = h.result[q[k]]
  <2>1. SUFFICES ASSUME NEW k \in 1 .. Len(q) PROVE g.result[q[k]] = h.result[q[k]] OBVIOUS
  <2>2. PICK i \in 1 .. MaxCalls : q[k] = <<t, i>> BY <1>3, OwnerEntry
  <2>3. QED BY <1>2, <2>2
<1>5. CallsInv(t, X, g)
  <2>1. /\ \A k \in 1 .. Len(q) : q[k][1] = t /\ g.result[q[k]] = "pending" /\ q[k] \notin X
        /\ \A k, l \in 1 .. Len(q) : k < l => q[k][2] < q[l][2]
        /\ q # <<>> => g.slot.activeLease = t
    BY <1>3, <1>4 DEF CallsInv
  <2>2. \A i \in 1 .. MaxCalls :
          /\ <<t, i>> \in g.slot.pending =>
               /\ g.result[<<t, i>>] = "pending" /\ g.slot.activeLease = t /\ <<t, i>> \notin X
               /\ \A k \in 1 .. Len(q) : i < q[k][2]
          /\ <<t, i>> \in X => g.result[<<t, i>>] = "pending"
          /\ g.result[<<t, i>>] = "pending" =>
               <<t, i>> \in g.slot.pending \/ <<t, i>> \in X \/ \E k \in 1 .. Len(q) : q[k] = <<t, i>>
    BY <1>2, <1>3 DEF CallsInv
  <2>3. g.lease[t].queue = q BY DEF CallsAlike
  <2> HIDE DEF q
  <2>4. QED BY <2>1, <2>2, <2>3 DEF CallsInv
<1>6. CountInv(t, g)
  <2>1. g.phase[t] \in {"idle", "waiting", "admitted"} => g.phase[t] = h.phase[t] BY DEF MovesOn
  <2>2. QED BY <1>1, <1>2, <1>3, <2>1 DEF CountInv, CallsAlike
<1>7. RootInv(t, X, g) BY <1>3 DEF RootInv, MovesOn
<1>8. QED BY <1>5, <1>6, <1>7 DEF WorkOf

\* In particular when nothing it depends on changed.
LEMMA WorkOfAlike ==
  ASSUME NEW t \in Tasks, NEW h \in HState, NEW g, NEW X, WorkOf(t, X, h), Alike(t, h, g),
         g.slot.pending = h.slot.pending, g.slot.queue = h.slot.queue,
         g.slot.activeLease = h.slot.activeLease
  PROVE  WorkOf(t, X, g)
<1>1. CallsAlike(t, h, g) /\ MovesOn(t, h, g) BY DEF Alike, CallsAlike, MovesOn
<1>2. QED BY <1>1, WorkOfStep

\* Settling requests that were taken out of their place.
LEMMA SettleWork ==
  ASSUME NEW s, NEW hm, NEW h \in HState, NEW X \in SUBSET Requests, Work(s, h, hm, X),
         NEW R \in SUBSET X, NEW v \in Verdicts, NEW V, v \in V
  PROVE  LET g == Settle(h, R, v)
         IN Work(s, g, hm, X \ R) /\ Keeps(s, h, g, hm, V)
<1> DEFINE g == Settle(h, R, v)
<1>1. /\ g.slot = h.slot /\ g.lease = h.lease
      /\ \A r \in Requests : g.result[r] = IF r \in R THEN v ELSE h.result[r]
      /\ \A t \in Tasks : g.phase[t] = IF Root(t) \in R THEN "done" ELSE h.phase[t]
      /\ g.untracked = h.untracked \cup (R \cap Calls)
  BY SettleResults
<1> HIDE DEF g
<1>2. v \notin {"none", "pending"} BY DEF Verdicts
<1>3. ASSUME NEW t \in Tasks, hm[t] = s
      PROVE  WorkOf(t, X \ R, g)
  <2>1. CallsInv(t, X, h) /\ CountInv(t, h) /\ RootInv(t, X, h) BY <1>3 DEF Work, WorkOf
  <2>2. \A i \in 1 .. MaxCalls :
          /\ g.result[<<t, i>>] = IF <<t, i>> \in R THEN v ELSE h.result[<<t, i>>]
          /\ <<t, i>> \in g.untracked <=> <<t, i>> \in h.untracked \/ <<t, i>> \in R
          /\ <<t, i>> \in R => h.result[<<t, i>>] = "pending" /\ <<t, i>> \in X
    BY <1>1, <2>1, RequestOf DEF CallsInv
  <2>4. \A k \in 1 .. Len(h.lease[t].queue) :
          h.lease[t].queue[k] \in Requests /\ h.lease[t].queue[k] \notin R
    BY <2>1, OwnerEntry
  <2>5. OpenCalls(t, g) = OpenCalls(t, h) BY <1>2, <2>2 DEF OpenCalls
  <2>6. CallsInv(t, X \ R, g)
    <3>1. \A k \in 1 .. Len(h.lease[t].queue) :
            g.result[h.lease[t].queue[k]] = h.result[h.lease[t].queue[k]]
      BY <1>1, <2>4
    <3>2. \A i \in 1 .. MaxCalls : <<t, i>> \in g.slot.pending => <<t, i>> \notin R
      BY <1>1, <2>1 DEF CallsInv
    <3> DEFINE q == h.lease[t].queue
    <3>3. /\ \A k \in 1 .. Len(q) : q[k][1] = t /\ g.result[q[k]] = "pending" /\ q[k] \notin X \ R
          /\ \A k, l \in 1 .. Len(q) : k < l => q[k][2] < q[l][2]
          /\ q # <<>> => g.slot.activeLease = t
      BY <1>1, <2>1, <3>1 DEF CallsInv
    <3>4. ASSUME NEW i \in 1 .. MaxCalls
          PROVE  /\ <<t, i>> \in g.slot.pending =>
                      /\ g.result[<<t, i>>] = "pending" /\ g.slot.activeLease = t /\ <<t, i>> \notin X \ R
                      /\ \A k \in 1 .. Len(q) : i < q[k][2]
                 /\ <<t, i>> \in X \ R => g.result[<<t, i>>] = "pending"
                 /\ g.result[<<t, i>>] = "pending" =>
                      <<t, i>> \in g.slot.pending \/ <<t, i>> \in X \ R \/ \E k \in 1 .. Len(q) : q[k] = <<t, i>>
      BY <1>1, <1>2, <2>1, <2>2, <3>2 DEF CallsInv
    <3>5. g.lease[t].queue = q BY <1>1
    <3> HIDE DEF q
    <3>6. QED BY <3>3, <3>4, <3>5 DEF CallsInv
  <2>7. CountInv(t, g)
    <3>1. g.phase[t] \in {"idle", "waiting", "admitted"} => g.phase[t] = h.phase[t]
      BY <1>1
    <3>2. QED BY <1>1, <1>2, <2>1, <2>2, <2>5, <3>1 DEF CountInv
  <2>8. RootInv(t, X \ R, g) BY <1>1, <2>1 DEF RootInv, LeasePhases
  <2>9. QED BY <2>6, <2>7, <2>8 DEF WorkOf
<1>4. Work(s, g, hm, X \ R) BY <1>1, <1>3 DEF Work
<1>5. Elsewhere(s, h, g, hm)
  <2>1. SUFFICES ASSUME NEW t \in Tasks, hm[t] # s PROVE Alike(t, h, g) BY DEF Elsewhere
  <2>2. \A i \in 0 .. MaxCalls : <<t, i>> \notin R BY <2>1, RequestOf DEF Work
  <2>3. Root(t) \notin R
    <3>1. 0 \in 0 .. MaxCalls BY PoolAssumption
    <3>2. QED BY <2>2, <3>1 DEF Root
  <2>4. QED BY <1>1, <2>2, <2>3, RequestOf DEF Alike
<1>8. Promises(h, g)
  <2>1. SUFFICES ASSUME NEW t \in Tasks, Promise(t, h) PROVE Promise(t, g) BY DEF Promises
  <2>2. Root(t) \in Requests BY RequestOf
  <2>3. CASE Root(t) \in R
    <3>1. g.phase[t] = "done" /\ g.result[Root(t)] = v BY <1>1, <2>2, <2>3
    <3>2. QED BY <1>2, <3>1 DEF Promise
  <2>4. CASE Root(t) \notin R
    <3>1. g.phase[t] = h.phase[t] /\ g.result[Root(t)] = h.result[Root(t)] BY <1>1, <2>2, <2>4
    <3>2. QED BY <2>1, <3>1 DEF Promise
  <2>5. QED BY <2>3, <2>4
<1>6. Keeps(s, h, g, hm, V) BY <1>1, <1>5, <1>8 DEF Keeps
<1>7. QED BY <1>4, <1>6 DEF g

\* What two steps in a row keep, the pair keeps.
LEMMA KeepsTrans ==
  ASSUME NEW s, NEW hm, NEW h, NEW g, NEW f, NEW V, Keeps(s, h, g, hm, V), Keeps(s, g, f, hm, V)
  PROVE  Keeps(s, h, f, hm, V)
<1>1. Elsewhere(s, h, f, hm) BY DEF Keeps, Elsewhere, Alike
<1>2. Promises(h, f) BY DEF Keeps, Promises
<1>3. QED BY <1>1, <1>2 DEF Keeps

\* markLeaseReleased(), lease by lease.
LEMMA MarkReleasedLeases ==
  ASSUME NEW h \in HState, NEW T
  PROVE  LET g == MarkReleased(h, T)
         IN /\ g.slot = h.slot /\ g.phase = h.phase /\ g.result = h.result
            /\ g.untracked = h.untracked
            /\ \A t \in Tasks : t \notin T => g.lease[t] = h.lease[t]
            /\ \A t \in Tasks : /\ g.lease[t].queue = h.lease[t].queue
                                /\ g.lease[t].pendingCalls = h.lease[t].pendingCalls
<1> DEFINE l == [t \in Tasks |->
     IF t \in T THEN [h.lease[t] EXCEPT !.active = FALSE, !.released = TRUE]
                ELSE h.lease[t]]
<1>1. MarkReleased(h, T) = [h EXCEPT !.lease = l] BY DEF MarkReleased
<1>2. \A t \in Tasks : t \notin T => l[t] = h.lease[t] OBVIOUS
<1>3. ASSUME NEW t \in Tasks
      PROVE  l[t].queue = h.lease[t].queue /\ l[t].pendingCalls = h.lease[t].pendingCalls
  <2>1. h.lease[t] \in LeaseRecord BY DEF HState
  <2>2. CASE t \in T
    <3>1. l[t] = [h.lease[t] EXCEPT !.active = FALSE, !.released = TRUE] BY <2>2
    <3> HIDE DEF l
    <3>2. QED BY <2>1, <3>1 DEF LeaseRecord
  <2>3. CASE t \notin T BY <2>3
  <2>4. QED BY <2>2, <2>3
<1> HIDE DEF l
<1>4. QED BY <1>1, <1>2, <1>3 DEF HState

\* Releasing leases that count no call.
LEMMA MarkReleasedWork ==
  ASSUME NEW s, NEW hm, NEW h \in HState, NEW X, Work(s, h, hm, X), NEW T,
         \A t \in Tasks : t \in T => hm[t] = s /\ OpenCalls(t, h) = {}, NEW V
  PROVE  LET g == MarkReleased(h, T)
         IN Work(s, g, hm, X) /\ Keeps(s, h, g, hm, V)
<1> DEFINE g == MarkReleased(h, T)
<1>1. /\ g.slot = h.slot /\ g.phase = h.phase /\ g.result = h.result
      /\ g.untracked = h.untracked
      /\ \A t \in Tasks : t \notin T => g.lease[t] = h.lease[t]
      /\ \A t \in Tasks : /\ g.lease[t].queue = h.lease[t].queue
                          /\ g.lease[t].pendingCalls = h.lease[t].pendingCalls
  BY MarkReleasedLeases
<1> HIDE DEF g
<1>2. ASSUME NEW t \in Tasks, hm[t] = s
      PROVE  WorkOf(t, X, g)
  <2>1. CallsInv(t, X, h) /\ CountInv(t, h) /\ RootInv(t, X, h) BY <1>2 DEF Work, WorkOf
  <2>2. OpenCalls(t, g) = OpenCalls(t, h) BY <1>1 DEF OpenCalls
  <2>3. g.lease[t].released => h.lease[t].released \/ OpenCalls(t, h) = {} BY <1>1
  <2>4. CallsInv(t, X, g) BY <1>1, <2>1 DEF CallsInv
  <2>5. CountInv(t, g) BY <1>1, <2>1, <2>2, <2>3 DEF CountInv
  <2>6. RootInv(t, X, g) BY <1>1, <2>1 DEF RootInv
  <2>7. QED BY <2>4, <2>5, <2>6 DEF WorkOf
<1>3. h.slot.activeLease # None => h.slot.activeLease \in Tasks BY DEF HState, SlotRecord
<1>4. WaitingOn(g.slot, g.lease) = WaitingOn(h.slot, h.lease) BY <1>1, <1>3 DEF WaitingOn
<1>5. Work(s, g, hm, X) BY <1>1, <1>2, <1>4 DEF Work
<1>6. Elsewhere(s, h, g, hm) BY <1>1 DEF Elsewhere, Alike
<1>7. Keeps(s, h, g, hm, V) BY <1>1, <1>6 DEF Keeps, Promises, Promise
<1>8. QED BY <1>5, <1>7 DEF g

\* rejectQueuedWork() of waiting calls that were taken out of the queue.
LEMMA RejectQueuedWork ==
  ASSUME NEW s, NEW hm, NEW h \in HState, NEW X \in SUBSET Requests, Work(s, h, hm, X),
         NEW T \in SUBSET Tasks, NEW v \in Verdicts, NEW V, v \in V,
         \A t \in T : h.phase[t] = "waiting" /\ Root(t) \in X
  PROVE  LET g == RejectQueued(h, T, v)
         IN Work(s, g, hm, X \ {Root(t) : t \in T}) /\ Keeps(s, h, g, hm, V)
<1> DEFINE D == {t \in T : Kind[t] = "do"}
           R == {Root(t) : t \in T}
           m == MarkReleased(h, D)
<1>1. RejectQueued(h, T, v) = Settle(m, R, v) BY DEF RejectQueued
<1>2. \A r : r \in R <=> \E t \in T : r = Root(t) OBVIOUS
<1>3. R \in SUBSET X OBVIOUS
<1>4. ASSUME NEW t \in Tasks, t \in D
      PROVE  hm[t] = s /\ OpenCalls(t, h) = {}
  <2>1. h.phase[t] = "waiting" /\ Root(t) \in X BY <1>4
  <2>2. hm[t] = s BY <2>1, RequestOf DEF Work
  <2>3. CountInv(t, h) BY <2>2 DEF Work, WorkOf
  <2>4. QED BY <2>1, <2>2, <2>3 DEF CountInv, OpenCalls
<1> HIDE DEF D, R
<1>5. m \in HState BY MarkReleasedType
<1>6. Work(s, m, hm, X) /\ Keeps(s, h, m, hm, V) BY <1>4, MarkReleasedWork
<1> HIDE DEF m
<1>7. Work(s, Settle(m, R, v), hm, X \ R) /\ Keeps(s, m, Settle(m, R, v), hm, V)
  BY <1>3, <1>5, <1>6, SettleWork
<1>8. Keeps(s, h, Settle(m, R, v), hm, V) BY <1>6, <1>7, KeepsTrans
<1>9. Work(s, Settle(m, R, v), hm, X \ {Root(t) : t \in T}) BY <1>7 DEF R
<1>10. QED BY <1>1, <1>8, <1>9

\* notifyPendingDrained() moves no work.
LEMMA NotifyWork ==
  ASSUME NEW s, NEW hm, NEW h \in HState, NEW X, Work(s, h, hm, X), NEW V
  PROVE  LET g == NotifyPendingDrained(h)
         IN Work(s, g, hm, X) /\ Keeps(s, h, g, hm, V)
<1> DEFINE g == NotifyPendingDrained(h)
<1>1. /\ Woken(h.slot, g.slot) /\ g.phase = h.phase /\ g.lease = h.lease BY NotifyFacts
<1>2. g.result = h.result /\ g.untracked = h.untracked BY DEF NotifyPendingDrained, HState
<1> HIDE DEF g
<1>3. Elsewhere(s, h, g, hm) BY <1>1, <1>2 DEF Elsewhere, Alike
<1>4. \A t \in Tasks : hm[t] = s => WorkOf(t, X, g)
  BY <1>1, <1>2, WorkOfAlike DEF Work, Alike, Woken
<1>5. Work(s, g, hm, X) BY <1>1, <1>4 DEF Work, Woken, WaitingOn
<1>6. Keeps(s, h, g, hm, V) BY <1>1, <1>2, <1>3 DEF Keeps, Woken, Promises, Promise
<1>7. QED BY <1>5, <1>6 DEF g

\* A rolled-back send of requests taken out of their place.
LEMMA SendFailedWork ==
  ASSUME NEW s, NEW hm, NEW h \in HState, NEW X \in SUBSET Requests, Work(s, h, hm, X),
         NEW R \in SUBSET X, NEW V, "sendError" \in V
  PROVE  LET g == SendFailed(h, R)
         IN Work(s, g, hm, X \ R) /\ Keeps(s, h, g, hm, V)
<1>1. CASE R = {}
  <2>1. SendFailed(h, R) = h /\ X \ R = X BY <1>1 DEF SendFailed
  <2>2. QED BY <1>1, <2>1 DEF Keeps, Elsewhere, Alike, Promises
<1>2. CASE R # {}
  <2> DEFINE m == Settle(h, R, "sendError")
  <2>1. "sendError" \in Verdicts BY DEF Verdicts
  <2>2. m \in HState BY <2>1, SettleType
  <2>3. Work(s, m, hm, X \ R) /\ Keeps(s, h, m, hm, V) BY <2>1, SettleWork
  <2>4. SendFailed(h, R) = NotifyPendingDrained(m) BY <1>2 DEF SendFailed
  <2> HIDE DEF m
  <2>5. /\ Work(s, NotifyPendingDrained(m), hm, X \ R)
        /\ Keeps(s, m, NotifyPendingDrained(m), hm, V)
    BY <2>2, <2>3, NotifyWork
  <2>6. Keeps(s, h, NotifyPendingDrained(m), hm, V) BY <2>3, <2>5, KeepsTrans
  <2>7. QED BY <2>4, <2>5, <2>6
<1>3. QED BY <1>1, <1>2

\* dispatchRequest() of a request taken out of its place: a root request without a
\* lease, or the proxy call of the lease that is ahead of its owner FIFO.
LEMMA DispatchWork ==
  ASSUME NEW s, NEW hm, NEW h \in HState, NEW X \in SUBSET Requests, Work(s, h, hm, X),
         NEW t \in Tasks, NEW i \in 0 .. MaxCalls, <<t, i>> \in X,
         IF i = 0 THEN h.slot.activeLease = None /\ h.phase[t] = "waiting"
         ELSE /\ h.slot.activeLease = t
              /\ \A k \in 1 .. Len(h.lease[t].queue) : i < h.lease[t].queue[k][2],
         NEW V
  PROVE  LET g == Dispatch(s, h, <<t, i>>)
         IN Work(s, g, hm, X \ {<<t, i>>}) /\ Keeps(s, h, g, hm, V)
<1> DEFINE r == <<t, i>>
           g == Dispatch(s, h, r)
<1>1. /\ g.phase = h.phase /\ g.lease = h.lease
      /\ g.slot.pending = h.slot.pending \cup {r}
      /\ g.slot.queue = h.slot.queue /\ g.slot.activeLease = h.slot.activeLease
      /\ g.slot.closing = h.slot.closing /\ g.slot.state = h.slot.state
  BY DispatchFacts
<1>2. g.result = h.result /\ g.untracked = h.untracked BY DEF Dispatch, HState
<1> HIDE DEF g
<1>3. \A u \in Tasks : Root(u) = r <=> u = t /\ i = 0 BY DEF Root
<1>4. \A u \in Tasks, j \in 1 .. MaxCalls : <<u, j>> = r <=> u = t /\ j = i OBVIOUS
<1>5. hm[t] = s
  <2>1. hm[r[1]] = s BY DEF Work
  <2>2. QED BY <2>1
<1>6. ASSUME NEW u \in Tasks, hm[u] = s
      PROVE  WorkOf(u, X \ {r}, g)
  <2>1. CallsInv(u, X, h) /\ CountInv(u, h) /\ RootInv(u, X, h) BY <1>6 DEF Work, WorkOf
  <2>2. CountInv(u, g) BY <1>1, <1>2, <2>1 DEF CountInv, OpenCalls
  <2>3. RootInv(u, X \ {r}, g)
    <3>1. /\ Root(u) \in g.slot.pending => g.slot.activeLease = None \/ Root(u) \in h.slot.pending
          /\ Root(u) \in X => Root(u) \in g.slot.pending \/ Root(u) \in X \ {r}
      BY <1>1, <1>3
    <3>2. h.phase[u] \in LeasePhases /\ Root(u) \in X => Root(u) \in X \ {r}
      BY <1>3 DEF LeasePhases
    <3>3. Root(u) \in h.slot.pending => Root(u) \in g.slot.pending BY <1>1
    <3> HIDE DEF r
    <3>4. QED BY <1>1, <2>1, <3>1, <3>2, <3>3 DEF RootInv
  <2>4. CallsInv(u, X \ {r}, g)
    <3> DEFINE q == h.lease[u].queue
    <3>1. /\ \A k \in 1 .. Len(q) : q[k][1] = u /\ g.result[q[k]] = "pending" /\ q[k] \notin X \ {r}
          /\ \A k, l \in 1 .. Len(q) : k < l => q[k][2] < q[l][2]
          /\ q # <<>> => g.slot.activeLease = u
      BY <1>1, <1>2, <2>1 DEF CallsInv
    <3>2. ASSUME NEW j \in 1 .. MaxCalls
          PROVE  /\ <<u, j>> \in g.slot.pending =>
                      /\ g.result[<<u, j>>] = "pending" /\ g.slot.activeLease = u
                      /\ <<u, j>> \notin X \ {r}
                      /\ \A k \in 1 .. Len(q) : j < q[k][2]
                 /\ <<u, j>> \in X \ {r} => g.result[<<u, j>>] = "pending"
                 /\ g.result[<<u, j>>] = "pending" =>
                      \/ <<u, j>> \in g.slot.pending \/ <<u, j>> \in X \ {r}
                      \/ \E k \in 1 .. Len(q) : q[k] = <<u, j>>
      <4>1. <<u, j>> = r => /\ u = t /\ i # 0 /\ j = i /\ g.slot.activeLease = u
                            /\ \A k \in 1 .. Len(q) : j < q[k][2]
                            /\ g.result[<<u, j>>] = "pending"
        <5>1. SUFFICES ASSUME <<u, j>> = r
                       PROVE  /\ u = t /\ i # 0 /\ j = i /\ g.slot.activeLease = u
                              /\ \A k \in 1 .. Len(q) : j < q[k][2]
                              /\ g.result[<<u, j>>] = "pending"
          OBVIOUS
        <5>2. u = t /\ j = i /\ i # 0 BY <1>4, <5>1
        <5>3. h.result[<<u, j>>] = "pending" BY <2>1, <5>1 DEF CallsInv
        <5>4. QED BY <1>1, <1>2, <5>2, <5>3
      <4>2. <<u, j>> \in g.slot.pending => <<u, j>> = r \/ <<u, j>> \in h.slot.pending BY <1>1
      <4>3. <<u, j>> \in X => <<u, j>> = r \/ <<u, j>> \in X \ {r} OBVIOUS
      <4>4. r \in g.slot.pending BY <1>1
      <4> HIDE DEF r
      <4>5. QED BY <1>1, <1>2, <2>1, <4>1, <4>2, <4>3, <4>4 DEF CallsInv
    <3>3. g.lease[u].queue = q BY <1>1
    <3> HIDE DEF q, r
    <3>4. QED BY <3>1, <3>2, <3>3 DEF CallsInv
  <2>5. QED BY <2>2, <2>3, <2>4 DEF WorkOf
<1>7. Work(s, g, hm, X \ {r})
  <2>1. WaitingOn(g.slot, g.lease) = WaitingOn(h.slot, h.lease) BY <1>1 DEF WaitingOn
  <2>2. \A p \in g.slot.pending \cup (X \ {r}) : hm[p[1]] = s BY <1>1 DEF Work
  <2>3. QED BY <1>6, <2>1, <2>2 DEF Work
<1>8. Elsewhere(s, h, g, hm) BY <1>1, <1>2 DEF Elsewhere, Alike
<1>9. Keeps(s, h, g, hm, V) BY <1>1, <1>2, <1>8 DEF Keeps, Promises, Promise
<1>10. QED BY <1>7, <1>9 DEF g

\* Admission of a waiting call that was taken out of the queue of a free slot.
LEMMA AdmitWork ==
  ASSUME NEW s, NEW hm, NEW h \in HState, NEW X \in SUBSET Requests, Work(s, h, hm, X),
         NEW t \in Tasks, Root(t) \in X, h.phase[t] = "waiting",
         h.slot.activeLease = None, h.slot.pending = {}, NEW V
  PROVE  LET g == Admit(h, t)
         IN Work(s, g, hm, X \ {Root(t)}) /\ Drained(g) /\ Keeps(s, h, g, hm, V)
<1> DEFINE g == Admit(h, t)
<1>1. /\ g.slot.activeLease = t /\ g.slot.pending = {} /\ g.slot.queue = h.slot.queue
      /\ g.phase[t] = "admitted" /\ g.slot.closing = h.slot.closing /\ g.slot.state = h.slot.state
      /\ \A u \in Tasks : u # t => g.phase[u] = h.phase[u]
  BY AdmitFacts
<1>2. g.result = h.result /\ g.untracked = h.untracked BY DEF Admit, HState
<1>3. /\ \A u \in Tasks : u # t => g.lease[u] = h.lease[u]
      /\ g.lease[t].queue = h.lease[t].queue
      /\ g.lease[t].pendingCalls = h.lease[t].pendingCalls
      /\ g.lease[t].released = h.lease[t].released
  <2> DEFINE l == [h.lease[t] EXCEPT !.active = TRUE]
  <2>1. g.lease = [h.lease EXCEPT ![t] = l] BY DEF Admit, HState
  <2>2. h.lease \in [Tasks -> LeaseRecord] BY DEF HState
  <2>3. l.queue = h.lease[t].queue /\ l.pendingCalls = h.lease[t].pendingCalls
        /\ l.released = h.lease[t].released
    BY <2>2 DEF LeaseRecord
  <2> HIDE DEF l, g
  <2>4. QED BY <2>1, <2>2, <2>3
<1> HIDE DEF g
<1>4. hm[t] = s BY RequestOf DEF Work
<1>5. ASSUME NEW u \in Tasks, hm[u] = s
      PROVE  /\ CallsInv(u, X, h) /\ CountInv(u, h) /\ RootInv(u, X, h)
             /\ h.lease[u].queue = <<>>
             /\ \A j \in 1 .. MaxCalls : <<u, j>> # Root(t)
  BY SMTT(30), <1>5, RequestOf, PoolAssumption DEF Work, WorkOf, CallsInv
<1>6. ASSUME NEW u \in Tasks, hm[u] = s
      PROVE  WorkOf(u, X \ {Root(t)}, g)
  <2>1. CallsInv(u, X \ {Root(t)}, g) BY <1>1, <1>2, <1>3, <1>5, <1>6 DEF CallsInv
  <2>2. CountInv(u, g)
    <3>1. OpenCalls(u, g) = OpenCalls(u, h) BY <1>2 DEF OpenCalls
    <3>2. CASE u = t BY <1>1, <1>2, <1>3, <1>5, <1>6, <3>1, <3>2 DEF CountInv
    <3>3. CASE u # t BY <1>1, <1>2, <1>3, <1>5, <1>6, <3>1, <3>3 DEF CountInv
    <3>4. QED BY <3>2, <3>3
  <2>3. RootInv(u, X \ {Root(t)}, g)
    <3>1. RootInv(u, X, h) BY <1>5, <1>6
    <3>2. CASE u = t BY <1>1, <3>1, <3>2 DEF RootInv, LeasePhases
    <3>3. CASE u # t
      <4>1. Root(u) # Root(t) BY <3>3, RequestOf
      <4>2. u # None BY PoolAssumption
      <4>3. QED BY <1>1, <3>1, <3>3, <4>1, <4>2 DEF RootInv
    <3>4. QED BY <3>2, <3>3
  <2>4. QED BY <2>1, <2>2, <2>3 DEF WorkOf
<1>7. Work(s, g, hm, X \ {Root(t)})
  <2>1. WaitingOn(g.slot, g.lease) = WaitingOn(h.slot, h.lease)
    <3>1. Len(g.lease[t].queue) = 0 BY <1>3, <1>4, <1>5
    <3>2. t # None BY PoolAssumption
    <3>3. Len(h.slot.queue) \in Nat BY DEF HState, SlotRecord
    <3>4. QED BY <1>1, <3>1, <3>2, <3>3 DEF WaitingOn
  <2>2. \A p \in g.slot.pending \cup (X \ {Root(t)}) : hm[p[1]] = s BY <1>1 DEF Work
  <2>3. QED BY <1>6, <2>1, <2>2 DEF Work
<1>8. Elsewhere(s, h, g, hm) BY <1>1, <1>2, <1>3, <1>4 DEF Elsewhere, Alike
<1>9. g.lease[t].queue = <<>> BY <1>3, <1>4, <1>5
<1>10. Drained(g) BY <1>1, <1>9, PoolAssumption DEF Drained
<1>13. Promises(h, g) BY <1>1, <1>2 DEF Promises, Promise
<1>11. Keeps(s, h, g, hm, V) BY <1>1, <1>2, <1>8, <1>13 DEF Keeps
<1>12. QED BY <1>7, <1>10, <1>11 DEF g

-----------------------------------------------------------------------------
(* drainQueue() keeps the work of its slot accounted for and leaves no work  *)
(* beside an idle worker.                                                   *)


\* The tables of calls are the same, and what the slot has beside its queue.
SameTables(h, g) ==
  g.phase = h.phase /\ g.lease = h.lease /\ g.result = h.result /\ g.untracked = h.untracked
SameSlot(h, g) ==
  /\ g.slot.pending = h.slot.pending /\ g.slot.inflight = h.slot.inflight
  /\ g.slot.activeLease = h.slot.activeLease /\ g.slot.state = h.slot.state
  /\ g.slot.closing = h.slot.closing

\* Y holds root requests of the slot; the entries of q are left in p or in Y.
RootsAt(s, hm, Y) == \A r \in Y : \E t \in Tasks : r = Root(t) /\ hm[t] = s
Covers(p, Y, q) ==
  \A j \in 1 .. Len(q) : Root(q[j]) \in Y \/ \E i \in 1 .. Len(p) : p[i] = q[j]

\* Entries are taken out of the queue; those that are not left are in Y.
LEMMA CutQueueWork ==
  ASSUME NEW s, NEW hm, NEW h \in HState, NEW X, Work(s, h, hm, X),
         NEW p \in Seq(Tasks), Len(p) <= Len(h.slot.queue),
         NEW Y, RootsAt(s, hm, Y), Covers(p, Y, h.slot.queue), NEW V, NEW g, SameTables(h, g), SameSlot(h, g), g.slot.queue = p
  PROVE  Work(s, g, hm, X \cup Y) /\ Keeps(s, h, g, hm, V)
<1>1. /\ g.phase = h.phase /\ g.lease = h.lease /\ g.result = h.result
      /\ g.untracked = h.untracked /\ g.slot.pending = h.slot.pending /\ g.slot.queue = p
      /\ g.slot.activeLease = h.slot.activeLease /\ g.slot.closing = h.slot.closing
      /\ g.slot.state = h.slot.state
  BY DEF SameTables, SameSlot
<1>2. ASSUME NEW t \in Tasks, hm[t] = s
      PROVE  WorkOf(t, X \cup Y, g)
  <2>1. CallsInv(t, X, h) /\ CountInv(t, h) /\ RootInv(t, X, h) BY <1>2 DEF Work, WorkOf
  <2>2. \A i \in 1 .. MaxCalls : <<t, i>> \notin Y BY DEF Root, RootsAt
  <2>3. \A k \in 1 .. Len(h.lease[t].queue) : h.lease[t].queue[k] \notin Y
    <3>1. \A k \in 1 .. Len(h.lease[t].queue) : \E i \in 1 .. MaxCalls : h.lease[t].queue[k] = <<t, i>>
      BY <2>1, OwnerEntry
    <3>2. QED BY <2>2, <3>1
  <2>4. CallsInv(t, X \cup Y, g) BY <1>1, <2>1, <2>2, <2>3 DEF CallsInv
  <2>5. CountInv(t, g) BY <1>1, <2>1 DEF CountInv, OpenCalls
  <2>6. RootInv(t, X \cup Y, g) BY <1>1, <2>1 DEF RootInv, Covers
  <2>7. QED BY <2>4, <2>5, <2>6 DEF WorkOf
<1>3. \A r \in Y : hm[r[1]] = s BY DEF Root, RootsAt
<1>4. WaitingOn(g.slot, g.lease) <= QueueCapacity
  <2> DEFINE n == IF h.slot.activeLease = None THEN 0 ELSE Len(h.lease[h.slot.activeLease].queue)
  <2>1. n \in Nat BY DEF HState, SlotRecord, LeaseRecord
  <2>2. Len(h.slot.queue) \in Nat /\ Len(p) \in Nat BY DEF HState, SlotRecord
  <2>3. Len(h.slot.queue) + n <= QueueCapacity BY DEF Work, WaitingOn
  <2>4. WaitingOn(g.slot, g.lease) = Len(p) + n BY <1>1 DEF WaitingOn
  <2> HIDE DEF n
  <2>5. QED BY <2>1, <2>2, <2>3, <2>4, PoolAssumption
<1>5. Work(s, g, hm, X \cup Y) BY <1>1, <1>2, <1>3, <1>4 DEF Work
<1>6. Keeps(s, h, g, hm, V) BY <1>1 DEF Keeps, Elsewhere, Alike, Promises, Promise
<1>7. QED BY <1>5, <1>6

\* The part of a queue behind index k, entry by entry.
Behind(q, k, rest) ==
  /\ Len(rest) <= Len(q)
  /\ \A j \in 1 .. Len(q) : j > k => \E i \in 1 .. Len(rest) : rest[i] = q[j]
  /\ \A i \in 1 .. Len(rest) : k + i \in 1 .. Len(q) /\ rest[i] = q[k + i]
  /\ k > Len(q) => rest = <<>>

\* The queue behind the entry that drainQueue() takes, read entry by entry.
LEMMA TailEntries ==
  ASSUME NEW S, NEW q \in Seq(S), NEW k \in 1 .. Len(q) + 1
  PROVE  SubSeq(q, k + 1, Len(q)) \in Seq(S) /\ Behind(q, k, SubSeq(q, k + 1, Len(q)))
<1> DEFINE rest == SubSeq(q, k + 1, Len(q))
<1>1. Len(q) \in Nat /\ k \in Int OBVIOUS
<1>2. \A i \in k + 1 .. Len(q) : q[i] \in S BY <1>1, ElementOfSeq
<1>3. /\ Len(rest) = IF k + 1 <= Len(q) THEN Len(q) - (k + 1) + 1 ELSE 0
      /\ \A i \in 1 .. Len(q) - (k + 1) + 1 : rest[i] = q[(k + 1) + i - 1]
  BY SMTT(30), <1>1, <1>2, SubSeqProperties
<1>4. k > Len(q) => rest = <<>> BY <1>1, SubSeqEmpty
<1>5. rest \in Seq(S) BY TailOfQueue
<1> HIDE DEF rest
<1>6. \A i \in 1 .. Len(rest) : k + i \in 1 .. Len(q) /\ rest[i] = q[k + i] BY <1>1, <1>3
<1>7. ASSUME NEW j \in 1 .. Len(q), j > k
      PROVE  \E i \in 1 .. Len(rest) : rest[i] = q[j]
  <2>1. k + 1 <= Len(q) /\ Len(rest) = Len(q) - (k + 1) + 1 BY <1>1, <1>3, <1>7
  <2>2. j - k \in 1 .. Len(rest) /\ k + (j - k) = j BY <1>1, <1>7, <2>1
  <2>3. rest[j - k] = q[j] BY <1>6, <2>2
  <2>4. QED BY <2>2, <2>3
<1>8. Len(rest) <= Len(q) BY <1>1, <1>3
<1>9. Behind(q, k, rest) BY <1>4, <1>6, <1>7, <1>8 DEF Behind
<1>10. QED BY <1>5, <1>9 DEF rest

\* drainQueue() without a lease.
LEMMA DrainRootWork ==
  ASSUME NEW s, NEW hm, NEW h, HInv(s, h, hm), NEW X \in SUBSET Requests, Work(s, h, hm, X),
         h.slot.state = "running", h.slot.inflight = 0, h.slot.activeLease = None,
         \A j \in 1 .. Len(h.slot.queue) : Root(h.slot.queue[j]) \notin X,
         NEW V, DrainVerdicts \subseteq V
  PROVE  LET g == DrainRoot(s, h)
         IN Work(s, g, hm, X) /\ Drained(g) /\ Keeps(s, h, g, hm, V)
<1> DEFINE q == h.slot.queue
           k == FirstOf(q, {i \in 1 .. Len(q) :
                  ~aborted[q[i]] /\ (Kind[q[i]] = "do" \/ Root(q[i]) \notin Unsendable)})
           front == {q[i] : i \in 1 .. k - 1}
           late == {t \in front : aborted[t]}
           unsent == {Root(t) : t \in front \ late}
           behind == SubSeq(q, k + 1, Len(q))
           tail == [h EXCEPT !.slot = [h.slot EXCEPT !.queue = behind]]
           dropped == RejectQueued(tail, late, "aborted")
           rest == SendFailed(dropped, unsent)
           next == IF k <= Len(q) THEN {Root(q[k])} ELSE {}
           Y == {Root(t) : t \in front} \cup next
<1>1. h \in HState /\ h.slot \in SlotRecord BY DEF HInv, HState
<1>2. FlightInv(h.slot) /\ QueueInv(s, h.slot, h.phase, hm) BY DEF HInv, SlotInv
<1>3. q \in Seq(Tasks) /\ Len(q) \in Nat BY <1>1 DEF SlotRecord
<1>4. k \in 1 .. Len(q) + 1 BY <1>3, FirstOfIndex
<1>5. DrainRoot(s, h) = IF k > Len(q) THEN rest
                        ELSE IF Kind[q[k]] = "do" THEN Admit(rest, q[k])
                        ELSE Dispatch(s, rest, Root(q[k]))
  BY DEF DrainRoot
<1>6. \A t : t \in front <=> \E i \in 1 .. k - 1 : t = q[i] OBVIOUS
<1>7. /\ \A r : r \in unsent <=> \E t \in front : t \notin late /\ r = Root(t)
      /\ \A r : r \in Y <=> r \in next \/ \E t \in front : r = Root(t)
      /\ \A r : r \in next <=> k <= Len(q) /\ r = Root(q[k])
      /\ late \subseteq front
  OBVIOUS
<1>8. \A j \in 1 .. Len(q) :
        /\ q[j] \in Tasks /\ hm[q[j]] = s /\ h.phase[q[j]] = "waiting" /\ Root(q[j]) \notin X
  BY <1>2, <1>3, ElementOfSeq DEF QueueInv
<1>9. \A i, j \in 1 .. Len(q) : q[i] = q[j] => i = j BY <1>2 DEF QueueInv
<1>10. h.slot.pending = {} BY <1>2 DEF FlightInv
<1> HIDE DEF k, front, late, unsent, next, Y
<1>11. /\ behind \in Seq(Tasks) /\ Len(behind) <= Len(q)
       /\ \A j \in 1 .. Len(q) : j > k => \E i \in 1 .. Len(behind) : behind[i] = q[j]
       /\ k > Len(q) => behind = <<>>
  <2> HIDE DEF q
  <2>1. behind \in Seq(Tasks) /\ Behind(q, k, behind) BY <1>3, <1>4, TailEntries
  <2> HIDE DEF behind
  <2>2. QED BY <2>1 DEF Behind
<1> HIDE DEF behind
<1>12. \A t \in front : t \in Tasks /\ hm[t] = s /\ h.phase[t] = "waiting" /\ Root(t) \notin X
  <2> HIDE DEF q
  <2>1. \A i \in 1 .. k - 1 : i \in 1 .. Len(q) BY <1>3, <1>4
  <2>2. QED BY <1>6, <1>8, <2>1
<1>13. k <= Len(q) => /\ k \in 1 .. Len(q) /\ q[k] \in Tasks /\ hm[q[k]] = s
                      /\ h.phase[q[k]] = "waiting" /\ q[k] \notin front /\ Root(q[k]) \notin X
  <2> HIDE DEF q
  <2>1. k <= Len(q) => k \in 1 .. Len(q) BY <1>3, <1>4
  <2>2. k <= Len(q) => \A i \in 1 .. k - 1 : q[i] # q[k] BY <1>3, <1>9, <2>1
  <2>3. QED BY <1>6, <1>8, <2>1, <2>2
<1>14. /\ tail \in HState
       /\ SameTables(h, tail) /\ SameSlot(h, tail) /\ tail.slot.queue = behind
       /\ tail.phase = h.phase
  <2> DEFINE sl == [h.slot EXCEPT !.queue = behind]
  <2>1. /\ sl \in SlotRecord
        /\ sl.pending = h.slot.pending /\ sl.inflight = h.slot.inflight /\ sl.queue = behind
        /\ sl.activeLease = h.slot.activeLease /\ sl.state = h.slot.state
        /\ sl.closing = h.slot.closing
    BY <1>1, <1>11 DEF SlotRecord
  <2> HIDE DEF sl
  <2>2. [h EXCEPT !.slot = sl] \in HState /\ [h EXCEPT !.slot = sl].slot = sl
        /\ SameTables(h, [h EXCEPT !.slot = sl]) /\ [h EXCEPT !.slot = sl].phase = h.phase
    BY <1>1, <2>1 DEF HState, SameTables
  <2>3. tail = [h EXCEPT !.slot = sl] BY DEF sl
  <2> HIDE DEF tail
  <2>4. QED BY <2>1, <2>2, <2>3 DEF SameSlot
<1> DEFINE XY == X \cup Y
<1>15. Work(s, tail, hm, XY) /\ Keeps(s, h, tail, hm, V)
  <2>1. RootsAt(s, hm, Y) BY <1>7, <1>12, <1>13 DEF RootsAt
  <2>2. Covers(behind, Y, q)
    <3> HIDE DEF q
    <3>1. SUFFICES ASSUME NEW j \in 1 .. Len(q)
                   PROVE  Root(q[j]) \in Y \/ \E i \in 1 .. Len(behind) : behind[i] = q[j]
      BY DEF Covers
    <3>2. CASE j < k
      <4>1. q[j] \in front BY <1>3, <1>4, <1>6, <3>2
      <4>2. QED BY <1>7, <4>1
    <3>3. CASE j = k BY <1>3, <1>4, <1>7, <3>3
    <3>4. CASE j > k BY <1>11, <3>4
    <3>5. QED BY <1>3, <1>4, <3>2, <3>3, <3>4
  <2> HIDE DEF tail
  <2>3. QED BY <1>1, <1>11, <1>14, <2>1, <2>2, CutQueueWork
<1>16. XY \in SUBSET Requests BY <1>7, <1>12, <1>13, RequestOf
<1>17. /\ late \in SUBSET Tasks /\ \A t \in late : tail.phase[t] = "waiting" /\ Root(t) \in XY
       /\ unsent \in SUBSET (XY \ {Root(t) : t \in late})
  <2>1. \A r \in unsent : r \in Y /\ ~\E t \in late : r = Root(t)
    BY <1>7, <1>12, RequestOf
  <2>2. QED BY <1>7, <1>12, <1>14, <2>1
<1>18. (XY \ {Root(t) : t \in late}) \ unsent = X \cup next
  <2>1. ASSUME NEW r \in X PROVE r \notin unsent /\ ~\E t \in late : r = Root(t)
    BY <1>7, <1>12
  <2>2. ASSUME NEW r \in next PROVE r \notin unsent /\ ~\E t \in late : r = Root(t)
    <3>1. k <= Len(q) /\ r = Root(q[k]) BY <1>7, <2>2
    <3>2. \A t \in front : Root(t) # r BY <1>12, <1>13, <3>1, RequestOf
    <3>3. QED BY <1>7, <2>2, <3>2
  <2>3. \A r \in Y : r \in next \/ r \in unsent \/ \E t \in late : r = Root(t) BY <1>7
  <2>4. next \subseteq Y BY <1>7
  <2>5. QED BY <2>1, <2>2, <2>3, <2>4
<1> HIDE DEF tail, XY
<1>19. "aborted" \in V /\ "sendError" \in V /\ "aborted" \in Verdicts BY DEF DrainVerdicts, Verdicts
<1>20. /\ dropped \in HState
       /\ Work(s, dropped, hm, XY \ {Root(t) : t \in late})
       /\ Keeps(s, h, dropped, hm, V)
       /\ dropped.slot = tail.slot
       /\ \A t \in Tasks : t \notin late => dropped.phase[t] = h.phase[t]
  <2>1. dropped \in HState BY <1>14, <1>19, RejectQueuedType
  <2>2. /\ dropped.slot = tail.slot
        /\ \A t \in Tasks : dropped.phase[t] = IF t \in late THEN "done" ELSE tail.phase[t]
    BY <1>14, RejectQueuedFacts
  <2>3. Work(s, dropped, hm, XY \ {Root(t) : t \in late}) /\ Keeps(s, tail, dropped, hm, V)
    BY <1>14, <1>15, <1>16, <1>17, <1>19, RejectQueuedWork
  <2>4. Keeps(s, h, dropped, hm, V) BY <1>15, <2>3, KeepsTrans
  <2> HIDE DEF dropped
  <2>5. QED BY <1>14, <2>1, <2>2, <2>3, <2>4
<1> HIDE DEF dropped
<1>21. /\ rest \in HState
       /\ Work(s, rest, hm, X \cup next)
       /\ Keeps(s, h, rest, hm, V)
       /\ Woken(tail.slot, rest.slot)
       /\ k <= Len(q) => rest.phase[q[k]] = "waiting"
  <2> DEFINE Z == XY \ {Root(t) : t \in late}
  <2>1. rest \in HState BY <1>20, SendFailedType
  <2>2. Z \in SUBSET Requests /\ unsent \in SUBSET Z /\ Work(s, dropped, hm, Z)
    BY <1>16, <1>17, <1>20
  <2>3. Z \ unsent = X \cup next BY <1>18
  <2> HIDE DEF Z
  <2>4. Work(s, rest, hm, Z \ unsent) /\ Keeps(s, dropped, rest, hm, V)
    BY <1>19, <1>20, <2>2, SendFailedWork
  <2>5. /\ Woken(dropped.slot, rest.slot)
        /\ \A t \in Tasks : rest.phase[t] = IF Root(t) \in unsent THEN "done" ELSE dropped.phase[t]
    BY <1>20, SendFailedFacts
  <2> HIDE DEF rest
  <2>6. Keeps(s, h, rest, hm, V) BY <1>20, <2>4, KeepsTrans
  <2>7. k <= Len(q) => rest.phase[q[k]] = "waiting"
    <3>1. k <= Len(q) => q[k] \notin late /\ Root(q[k]) \notin unsent
      BY <1>7, <1>12, <1>13, RequestOf
    <3>2. QED BY <1>13, <1>20, <2>5, <3>1
  <2>8. Woken(tail.slot, rest.slot) BY <1>20, <2>5
  <2>9. QED BY <2>1, <2>3, <2>4, <2>6, <2>7, <2>8
<1> HIDE DEF rest
<1>22. /\ rest.slot.pending = {} /\ rest.slot.inflight = 0 /\ rest.slot.activeLease = None
       /\ rest.slot.queue = behind
  <2>1. /\ tail.slot.pending = {} /\ tail.slot.inflight = 0 /\ tail.slot.activeLease = None
        /\ tail.slot.queue = behind
    BY <1>10, <1>14 DEF SameSlot
  <2>2. QED BY <1>21, <2>1 DEF Woken
<1>23. CASE k > Len(q)
  <2>1. DrainRoot(s, h) = rest
    <3> HIDE DEF q
    <3> QED BY <1>5, <1>23
  <2>2. X \cup next = X
    <3>1. ~(k <= Len(q)) BY <1>3, <1>4, <1>23
    <3>2. QED BY <1>7, <3>1
  <2>3. Drained(rest) BY <1>11, <1>22, <1>23 DEF Drained
  <2>4. QED BY <1>21, <2>1, <2>2, <2>3
<1>24. CASE k <= Len(q)
  <2>1. ~(k > Len(q)) BY <1>3, <1>4, <1>24
  <2> DEFINE t == q[k]
             XN == X \cup next
  <2>2. /\ XN \in SUBSET Requests /\ Root(t) \in XN /\ XN \ {Root(t)} = X
        /\ Work(s, rest, hm, XN)
    BY <1>7, <1>13, <1>21, <1>24, RequestOf
  <2>3. t \in Tasks /\ rest.phase[t] = "waiting" BY <1>13, <1>21, <1>24
  <2>4. DrainRoot(s, h) = IF Kind[t] = "do" THEN Admit(rest, t) ELSE Dispatch(s, rest, <<t, 0>>)
    <3> HIDE DEF q
    <3> QED BY <1>5, <2>1 DEF Root
  <2> HIDE DEF t, XN
  <2>5. CASE Kind[t] = "do"
    <3> DEFINE g == Admit(rest, t)
    <3>1. DrainRoot(s, h) = g BY <2>4, <2>5
    <3>2. Work(s, g, hm, XN \ {Root(t)}) /\ Drained(g) /\ Keeps(s, rest, g, hm, V)
      BY <1>21, <1>22, <2>2, <2>3, AdmitWork
    <3> HIDE DEF g
    <3>3. Keeps(s, h, g, hm, V) BY <1>21, <3>2, KeepsTrans
    <3>4. QED BY <2>2, <3>1, <3>2, <3>3
  <2>6. CASE Kind[t] # "do"
    <3> DEFINE g == Dispatch(s, rest, <<t, 0>>)
    <3>1. DrainRoot(s, h) = g BY <2>4, <2>6
    <3>2. 0 \in 0 .. MaxCalls /\ <<t, 0>> \in XN /\ XN \ {<<t, 0>>} = X
      BY <2>2, PoolAssumption DEF Root
    <3>3. Work(s, g, hm, XN \ {<<t, 0>>}) /\ Keeps(s, rest, g, hm, V)
      BY <1>21, <1>22, <2>2, <2>3, <3>2, DispatchWork
    <3>4. g.slot.inflight = 1 BY <1>21, <1>22, DispatchFacts
    <3> HIDE DEF g
    <3>5. Drained(g) BY <3>4 DEF Drained
    <3>6. Keeps(s, h, g, hm, V) BY <1>21, <3>3, KeepsTrans
    <3>7. QED BY <3>1, <3>2, <3>3, <3>5, <3>6
  <2>7. QED BY <2>5, <2>6
<1>25. QED BY <1>3, <1>4, <1>23, <1>24

\* A rolled-back send does not look at the leases.
LEMMA SendFailedLease ==
  ASSUME NEW h \in HState, NEW R, NEW l \in [Tasks -> LeaseRecord]
  PROVE  [SendFailed(h, R) EXCEPT !.lease = l] = SendFailed([h EXCEPT !.lease = l], R)
<1> DEFINE g == [h EXCEPT !.lease = l]
           rs == [r \in Requests |-> IF r \in R THEN "sendError" ELSE h.result[r]]
           ph == [t \in Tasks |-> IF Root(t) \in R THEN "done" ELSE h.phase[t]]
           un == h.untracked \cup (R \cap Calls)
           hs == Settle(h, R, "sendError")
           gs == Settle(g, R, "sendError")
<1>1. /\ g.slot = h.slot /\ g.phase = h.phase /\ g.result = h.result /\ g.untracked = h.untracked
      /\ g.lease = l /\ g \in HState
  BY DEF HState
<1>2. hs = [h EXCEPT !.result = rs, !.phase = ph, !.untracked = un] BY DEF Settle
<1>3. gs = [g EXCEPT !.result = rs, !.phase = ph, !.untracked = un]
  <2> HIDE DEF g
  <2> QED BY <1>1 DEF Settle
<1> HIDE DEF rs, ph, un, hs, gs
<1>4. gs = [hs EXCEPT !.lease = l] BY <1>2, <1>3 DEF HState
<1>5. hs \in HState /\ gs \in HState BY <1>1, SettleType DEF hs, gs, Verdicts
<1>6. NotifyPendingDrained(gs) = [NotifyPendingDrained(hs) EXCEPT !.lease = l]
  <2>1. gs.slot = hs.slot BY <1>4, <1>5 DEF HState
  <2> DEFINE sl == [hs.slot EXCEPT !.closing = "ready"]
  <2>2. CASE hs.slot.pending = {} /\ hs.slot.closing = "pending"
    <3>1. /\ NotifyPendingDrained(gs) = [gs EXCEPT !.slot = sl]
          /\ NotifyPendingDrained(hs) = [hs EXCEPT !.slot = sl]
      BY <2>1, <2>2 DEF NotifyPendingDrained
    <3> HIDE DEF sl
    <3>2. QED BY <1>4, <1>5, <3>1 DEF HState
  <2>3. CASE ~(hs.slot.pending = {} /\ hs.slot.closing = "pending")
    BY <1>4, <2>1, <2>3 DEF NotifyPendingDrained
  <2>4. QED BY <2>2, <2>3
<1>7. CASE R = {} BY <1>7 DEF SendFailed
<1>8. CASE R # {}
  <2>1. SendFailed(h, R) = NotifyPendingDrained(hs) BY <1>8 DEF SendFailed, hs
  <2>2. SendFailed(g, R) = NotifyPendingDrained(gs) BY <1>8 DEF SendFailed, gs
  <2> HIDE DEF g
  <2>3. [SendFailed(h, R) EXCEPT !.lease = l] = SendFailed(g, R) BY <1>6, <2>1, <2>2
  <2>4. QED BY <2>3 DEF g
<1>9. QED BY <1>7, <1>8

\* Y holds the first k entries of q; only the owner FIFO of t changes, to rest.
FrontOf(Y, q, k) == \A c : c \in Y <=> \E j \in 1 .. Len(q) : j <= k /\ c = q[j]
OwnerCut(t, h, g, rest) ==
  /\ g.slot = h.slot /\ g.phase = h.phase /\ g.result = h.result /\ g.untracked = h.untracked
  /\ g.lease[t].queue = rest
  /\ g.lease[t].pendingCalls = h.lease[t].pendingCalls
  /\ g.lease[t].released = h.lease[t].released
  /\ \A u \in Tasks : u # t => g.lease[u] = h.lease[u]

\* The first k entries are taken out of the owner FIFO of the active lease.
LEMMA CutOwnerWork ==
  ASSUME NEW s, NEW hm, NEW h \in HState, Work(s, h, hm, {}),
         NEW t \in Tasks, h.slot.activeLease = t, hm[t] = s,
         NEW k, k \in 1 .. Len(h.lease[t].queue) + 1,
         NEW rest, Behind(h.lease[t].queue, k, rest), rest \in Seq(Calls), NEW V,
         NEW Y, FrontOf(Y, h.lease[t].queue, k), NEW g, OwnerCut(t, h, g, rest)
  PROVE  Work(s, g, hm, Y) /\ Keeps(s, h, g, hm, V)
<1> DEFINE q == h.lease[t].queue
<1>1. h.lease \in [Tasks -> LeaseRecord] /\ h.lease[t] \in LeaseRecord /\ q \in Seq(Calls)
  BY DEF HState, LeaseRecord
<1>2. /\ g.slot = h.slot /\ g.phase = h.phase /\ g.result = h.result /\ g.untracked = h.untracked
      /\ g.lease[t].queue = rest
      /\ g.lease[t].pendingCalls = h.lease[t].pendingCalls
      /\ g.lease[t].released = h.lease[t].released
      /\ \A u \in Tasks : u # t => g.lease[u] = h.lease[u]
  BY DEF OwnerCut
<1>3. \A c : c \in Y <=> \E j \in 1 .. Len(q) : j <= k /\ c = q[j] BY DEF FrontOf
<1>4. Len(q) \in Nat /\ k \in Int BY <1>1
<1>5. CallsInv(t, {}, h) /\ CountInv(t, h) /\ RootInv(t, {}, h) BY DEF Work, WorkOf
<1>6. ASSUME NEW j \in 1 .. Len(q)
      PROVE  /\ q[j][1] = t /\ h.result[q[j]] = "pending" /\ q[j] \in Requests
             /\ \A i \in 1 .. Len(q) : i < j => q[i][2] < q[j][2]
             /\ \E i \in 1 .. MaxCalls : q[j] = <<t, i>>
             /\ q[j][2] \in Int
  <2>1. q[j] \in Requests /\ (\E i \in 1 .. MaxCalls : q[j] = <<t, i>>) /\ q[j][2] \in 1 .. MaxCalls
    BY <1>5, OwnerEntry
  <2>2. /\ q[j][1] = t /\ h.result[q[j]] = "pending"
        /\ \A i \in 1 .. Len(q) : i < j => q[i][2] < q[j][2]
    BY <1>5 DEF CallsInv
  <2>3. QED BY <2>1, <2>2
<1>14. \A c \in Y : \E i \in 1 .. MaxCalls : c = <<t, i>>
  <2>1. SUFFICES ASSUME NEW c \in Y PROVE \E i \in 1 .. MaxCalls : c = <<t, i>> OBVIOUS
  <2>2. PICK j \in 1 .. Len(q) : c = q[j] BY <1>3
  <2>3. QED BY <1>6, <2>2
<1>7. \A c \in Y : c \notin h.slot.pending
  <2>1. SUFFICES ASSUME NEW j \in 1 .. Len(q) PROVE q[j] \notin h.slot.pending BY <1>3
  <2>2. PICK i \in 1 .. MaxCalls : q[j] = <<t, i>> BY <1>6
  <2>3. q[j][2] = i BY <2>2
  <2>4. <<t, i>> \in h.slot.pending => i < i BY <1>5, <2>3 DEF CallsInv
  <2>5. QED BY <2>2, <2>4
<1>8. ASSUME NEW u \in Tasks, hm[u] = s
      PROVE  WorkOf(u, Y, g)
  <2>1. CallsInv(u, {}, h) /\ CountInv(u, h) /\ RootInv(u, {}, h) BY <1>8 DEF Work, WorkOf
  <2>2. OpenCalls(u, g) = OpenCalls(u, h) BY <1>2 DEF OpenCalls
  <2>3. CountInv(u, g)
    <3>1. /\ g.lease[u].pendingCalls = h.lease[u].pendingCalls
          /\ g.lease[u].released = h.lease[u].released
      BY <1>2
    <3>2. QED BY <1>2, <2>1, <2>2, <3>1 DEF CountInv
  <2>4. RootInv(u, Y, g)
    <3>1. Root(u) \notin Y
      BY <1>14, RequestOf
    <3>2. QED BY <1>2, <2>1, <3>1 DEF RootInv
  <2>5. CASE u # t
    <3>1. \A i \in 1 .. MaxCalls : <<u, i>> \notin Y BY <1>14, <2>5
    <3>2. h.lease[u].queue = <<>> BY <2>1, <2>5 DEF CallsInv
    <3>3. CallsInv(u, Y, g) BY <1>2, <2>1, <2>5, <3>1, <3>2 DEF CallsInv
    <3>4. QED BY <2>3, <2>4, <3>3 DEF WorkOf
  <2>6. CASE u = t
    <3>1. g.lease[u].queue = rest BY <1>2, <2>6
    <3>2. \A i \in 1 .. Len(rest) : /\ k + i \in 1 .. Len(q) /\ rest[i] = q[k + i]
                                    /\ k + i > k
      BY <1>4 DEF Behind
    <3>3. \A i \in 1 .. Len(rest) :
            rest[i][1] = t /\ h.result[rest[i]] = "pending" /\ rest[i] \notin Y
      <4>1. SUFFICES ASSUME NEW i \in 1 .. Len(rest)
                     PROVE  rest[i][1] = t /\ h.result[rest[i]] = "pending" /\ rest[i] \notin Y
        OBVIOUS
      <4>2. \A j \in 1 .. Len(q) : j <= k => q[j][2] < q[k + i][2] /\ q[k + i][2] \in Int
        <5>1. k + i \in 1 .. Len(q) BY <3>2
        <5> HIDE DEF q
        <5>2. q[k + i][2] \in Int BY <1>6, <5>1
        <5>3. SUFFICES ASSUME NEW j \in 1 .. Len(q), j <= k PROVE q[j][2] < q[k + i][2] BY <5>2
        <5>4. j < k + i BY <1>4, <5>1, <5>3
        <5>5. QED BY <1>6, <5>1, <5>4
      <4>3. \A j \in 1 .. Len(q) : j <= k => q[j] # q[k + i]
        <5> HIDE DEF q
        <5>1. SUFFICES ASSUME NEW j \in 1 .. Len(q), j <= k, q[j] = q[k + i] PROVE FALSE OBVIOUS
        <5>2. q[j][2] < q[k + i][2] /\ q[k + i][2] \in Int BY <4>2, <5>1
        <5>3. q[k + i][2] < q[k + i][2] BY <5>1, <5>2
        <5>4. QED BY <5>2, <5>3
      <4>4. rest[i] \notin Y BY <1>3, <3>2, <4>3
      <4>5. k + i \in 1 .. Len(q) /\ rest[i] = q[k + i] BY <3>2
      <4> HIDE DEF q
      <4>6. rest[i][1] = t /\ h.result[rest[i]] = "pending" BY <1>6, <4>5
      <4>7. QED BY <4>4, <4>6
    <3>4. ASSUME NEW i \in 1 .. Len(rest), NEW j \in 1 .. Len(rest), i < j
          PROVE  rest[i][2] < rest[j][2]
      <4>1. k + i < k + j BY <1>4, <3>4
      <4>2. QED BY <1>6, <3>2, <4>1
    <3>5. rest # <<>> => g.slot.activeLease = t BY <1>2
    <3>6. ASSUME NEW i \in 1 .. MaxCalls
          PROVE  /\ <<t, i>> \in g.slot.pending =>
                      /\ g.result[<<t, i>>] = "pending" /\ g.slot.activeLease = t /\ <<t, i>> \notin Y
                      /\ \A j \in 1 .. Len(rest) : i < rest[j][2]
                 /\ <<t, i>> \in Y => g.result[<<t, i>>] = "pending"
                 /\ g.result[<<t, i>>] = "pending" =>
                      \/ <<t, i>> \in g.slot.pending \/ <<t, i>> \in Y
                      \/ \E j \in 1 .. Len(rest) : rest[j] = <<t, i>>
      <4>1. <<t, i>> \in Y => h.result[<<t, i>>] = "pending" BY SMTT(30), <1>3, <1>6
      <4>2. <<t, i>> \in h.slot.pending => \A j \in 1 .. Len(rest) : i < rest[j][2]
        BY <1>5, <3>2 DEF CallsInv
      <4>3. \A j \in 1 .. Len(q) : q[j] \in Y \/ \E n \in 1 .. Len(rest) : rest[n] = q[j]
        <5>1. \A j \in 1 .. Len(q) : j > k => \E n \in 1 .. Len(rest) : rest[n] = q[j]
          BY DEF Behind
        <5>2. \A j \in 1 .. Len(q) : j <= k \/ j > k BY <1>4
        <5>3. QED BY <1>3, <5>1, <5>2
      <4>4. h.result[<<t, i>>] = "pending" =>
              <<t, i>> \in h.slot.pending \/ \E j \in 1 .. Len(q) : q[j] = <<t, i>>
        BY <1>5 DEF CallsInv
      <4>5. h.result[<<t, i>>] = "pending" =>
              \/ <<t, i>> \in h.slot.pending \/ <<t, i>> \in Y
              \/ \E j \in 1 .. Len(rest) : rest[j] = <<t, i>>
        BY <4>3, <4>4
      <4>6. QED BY <1>2, <1>5, <1>7, <4>1, <4>2, <4>5 DEF CallsInv
    <3>7. CallsInv(u, Y, g)
      <4>1. \A i, j \in 1 .. Len(rest) : i < j => rest[i][2] < rest[j][2] BY <3>4
      <4>2. g.lease[t].queue = rest BY <1>2
      <4>3. \A i \in 1 .. Len(rest) : g.result[rest[i]] = "pending" BY <1>2, <3>3
      <4> HIDE DEF q
      <4>4. CallsInv(t, Y, g) BY <3>3, <3>5, <3>6, <4>1, <4>2, <4>3 DEF CallsInv
      <4>5. QED BY <2>6, <4>4
    <3>8. QED BY <2>3, <2>4, <3>7 DEF WorkOf
  <2>7. QED BY <2>5, <2>6
<1>9. WaitingOn(g.slot, g.lease) <= QueueCapacity
  <2>1. t # None BY PoolAssumption
  <2>2. Len(h.slot.queue) + Len(q) <= QueueCapacity BY <2>1 DEF Work, WaitingOn
  <2>3. WaitingOn(g.slot, g.lease) = Len(h.slot.queue) + Len(rest)
    BY <1>2, <2>1 DEF WaitingOn
  <2>4. Len(rest) <= Len(q) /\ Len(rest) \in Nat /\ Len(q) \in Nat BY <1>4 DEF Behind
  <2>5. Len(h.slot.queue) \in Nat BY DEF HState, SlotRecord
  <2> HIDE DEF q
  <2>6. QED BY <2>2, <2>3, <2>4, <2>5, PoolAssumption
<1>10. \A r \in g.slot.pending \cup Y : hm[r[1]] = s BY SMTT(30), <1>2, <1>3, <1>6 DEF Work
<1>11. Work(s, g, hm, Y) BY <1>8, <1>9, <1>10 DEF Work
<1>12. Keeps(s, h, g, hm, V) BY <1>2 DEF Keeps, Elsewhere, Alike, Promises, Promise
<1>13. QED BY <1>11, <1>12

\* drainQueue() while a lease is active.
LEMMA DrainOwnerWork ==
  ASSUME NEW s, NEW hm, NEW h, HInv(s, h, hm), Work(s, h, hm, {}),
         h.slot.state = "running", h.slot.inflight = 0, h.slot.activeLease # None,
         NEW V, DrainVerdicts \subseteq V
  PROVE  LET g == DrainOwner(s, h)
         IN Work(s, g, hm, {}) /\ Drained(g) /\ Keeps(s, h, g, hm, V)
<1> DEFINE t == h.slot.activeLease
           q == h.lease[t].queue
           k == FirstOf(q, {i \in 1 .. Len(q) : q[i] \notin Unsendable})
           skipped == {q[i] : i \in 1 .. k - 1}
           behind == SubSeq(q, k + 1, Len(q))
           tail == [h.lease[t] EXCEPT !.queue = behind]
           ls == [h.lease EXCEPT ![t] = tail]
           cut == [h EXCEPT !.lease = ls]
           rest == SendFailed(cut, skipped)
           next == IF k <= Len(q) THEN {q[k]} ELSE {}
           Y == skipped \cup next
           g == DrainOwner(s, h)
<1>1. h \in HState /\ h.slot \in SlotRecord /\ h.lease \in [Tasks -> LeaseRecord]
  BY DEF HInv, HState
<1>2. t \in Tasks BY <1>1 DEF SlotRecord
<1>3. hm[t] = s /\ FlightInv(h.slot) BY DEF HInv, SlotInv, OwnerInv
<1>4. q \in Seq(Calls) /\ Len(q) \in Nat BY <1>1, <1>2 DEF LeaseRecord
<1>5. k \in 1 .. Len(q) + 1 BY <1>4, FirstOfIndex
<1>6. behind \in Seq(Calls) /\ Behind(q, k, behind)
  <2> HIDE DEF q, k
  <2> QED BY <1>4, <1>5, TailEntries
<1>7. tail \in LeaseRecord /\ tail.queue = behind
      /\ tail.pendingCalls = h.lease[t].pendingCalls /\ tail.released = h.lease[t].released
  <2> HIDE DEF t, q, k, behind
  <2>1. h.lease[t] \in LeaseRecord /\ behind \in Seq(Calls) BY <1>1, <1>2, <1>6
  <2> DEFINE l == h.lease[t]
  <2> HIDE DEF l
  <2>2. l \in LeaseRecord BY <2>1 DEF l
  <2>3. LET m == [l EXCEPT !.queue = behind]
        IN m \in LeaseRecord /\ m.queue = behind /\ m.pendingCalls = l.pendingCalls
           /\ m.released = l.released
    BY <2>1, <2>2 DEF LeaseRecord
  <2>4. QED BY <2>3 DEF l
<1> HIDE DEF tail
<1>8. ls \in [Tasks -> LeaseRecord] /\ ls[t] = tail /\ \A u \in Tasks : u # t => ls[u] = h.lease[u]
  <2> HIDE DEF t, q, k, behind, skipped
  <2> QED BY <1>1, <1>2, <1>7
<1> HIDE DEF ls
<1>9. g = IF k > Len(q) THEN rest ELSE Dispatch(s, rest, q[k])
  <2>1. [SendFailed(h, skipped) EXCEPT !.lease = ls] = rest
    <3> HIDE DEF skipped
    <3> QED BY <1>1, <1>8, SendFailedLease
  <2>2. g = IF k > Len(q) THEN [SendFailed(h, skipped) EXCEPT !.lease = ls]
            ELSE Dispatch(s, [SendFailed(h, skipped) EXCEPT !.lease = ls], q[k])
    BY DEF DrainOwner, ls, tail
  <2> HIDE DEF g, rest, k, q, skipped
  <2>3. QED BY <2>1, <2>2
<1>10. /\ \A c : c \in skipped <=> \E i \in 1 .. k - 1 : c = q[i]
       /\ \A c : c \in next <=> k <= Len(q) /\ c = q[k]
       /\ \A c : c \in Y <=> c \in skipped \/ c \in next
  <2> HIDE DEF t, q, k
  <2>1. \A c : c \in skipped <=> \E i \in 1 .. k - 1 : c = q[i] OBVIOUS
  <2> HIDE DEF skipped
  <2>2. QED BY <2>1
<1> HIDE DEF k, skipped, next, Y, behind
<1>11. OwnerCut(t, h, cut, behind) /\ cut \in HState
  <2>1. cut.slot = h.slot /\ cut.phase = h.phase /\ cut.result = h.result
        /\ cut.untracked = h.untracked /\ cut.lease = ls /\ cut \in HState
    BY <1>1, <1>8 DEF HState
  <2> HIDE DEF cut, t, q
  <2>2. QED BY <1>7, <1>8, <2>1 DEF OwnerCut
<1>12. FrontOf(Y, q, k)
  <2> HIDE DEF q
  <2>1. SUFFICES ASSUME NEW c PROVE c \in Y <=> \E j \in 1 .. Len(q) : j <= k /\ c = q[j]
    BY DEF FrontOf
  <2>2. ASSUME c \in Y PROVE \E j \in 1 .. Len(q) : j <= k /\ c = q[j]
    <3>1. CASE c \in skipped
      <4>1. PICK i \in 1 .. k - 1 : c = q[i] BY <1>10, <3>1
      <4>2. i \in 1 .. Len(q) /\ i <= k BY <1>4, <1>5, <4>1
      <4>3. QED BY <4>1, <4>2
    <3>2. CASE c \in next
      <4>1. k \in 1 .. Len(q) /\ k <= k /\ c = q[k] BY <1>4, <1>5, <1>10, <3>2
      <4>2. QED BY <4>1
    <3>3. QED BY <1>10, <2>2, <3>1, <3>2
  <2>3. ASSUME NEW j \in 1 .. Len(q), j <= k, c = q[j] PROVE c \in Y
    <3>1. CASE j = k BY <1>4, <1>10, <2>3, <3>1
    <3>2. CASE j # k
      <4>1. j \in 1 .. k - 1 BY <1>4, <1>5, <2>3, <3>2
      <4>2. QED BY <1>10, <2>3, <4>1
    <3>3. QED BY <3>1, <3>2
  <2>4. QED BY <2>2, <2>3
<1> DEFINE tt == t
<1> HIDE DEF cut
<1>13. Work(s, cut, hm, Y) /\ Keeps(s, h, cut, hm, V)
  <2> HIDE DEF t
  <2> QED BY <1>1, <1>2, <1>3, <1>5, <1>6, <1>11, <1>12, CutOwnerWork DEF t
<1>14. CallsInv(t, {}, h)
  <2> HIDE DEF t
  <2> QED BY <1>2, <1>3 DEF Work, WorkOf
<1>15. \A j \in 1 .. Len(q) : q[j] \in Requests /\ q[j][2] \in 1 .. MaxCalls /\ q[j] = <<t, q[j][2]>>
  <2> HIDE DEF t
  <2> QED BY SMTT(30), <1>1, <1>2, <1>14, OwnerEntry
<1>16. \A i, j \in 1 .. Len(q) : i < j => q[i][2] < q[j][2]
  BY <1>14 DEF CallsInv
<1> HIDE DEF t, q
<1>17. Y \in SUBSET Requests /\ skipped \in SUBSET Y
  <2>1. \A c \in Y : \E j \in 1 .. Len(q) : c = q[j] BY <1>12 DEF FrontOf
  <2>2. \A c \in Y : c \in Requests BY <1>15, <2>1
  <2>3. QED BY <1>10, <2>2
<1>18. Y \ skipped = next
  <2>1. ASSUME NEW c \in next PROVE c \notin skipped
    <3>1. k \in 1 .. Len(q) /\ c = q[k] BY <1>4, <1>5, <1>10, <2>1
    <3>2. SUFFICES ASSUME NEW i \in 1 .. k - 1, q[i] = q[k] PROVE FALSE BY <1>10, <3>1
    <3>3. i \in 1 .. Len(q) /\ i < k BY <1>4, <3>1
    <3>4. q[i][2] < q[k][2] BY <1>16, <3>1, <3>3
    <3>5. q[k][2] \in Int /\ q[k][2] < q[k][2] BY <1>15, <3>1, <3>2, <3>4
    <3>6. QED BY <3>5
  <2>2. QED BY <1>10, <2>1
<1>19. "sendError" \in V BY DEF DrainVerdicts
<1>20. /\ Work(s, rest, hm, next) /\ Keeps(s, cut, rest, hm, V)
       /\ rest \in HState /\ Woken(cut.slot, rest.slot) /\ rest.lease = cut.lease
  <2>1. rest \in HState /\ Woken(cut.slot, rest.slot) /\ rest.lease = cut.lease
    BY <1>11, SendFailedType, SendFailedFacts
  <2>2. Work(s, rest, hm, Y \ skipped) /\ Keeps(s, cut, rest, hm, V)
    BY <1>11, <1>13, <1>17, <1>19, SendFailedWork
  <2>3. QED BY <1>18, <2>1, <2>2
<1> HIDE DEF rest, g
<1>21. Keeps(s, h, rest, hm, V) BY <1>13, <1>20, KeepsTrans
<1>22. /\ rest.slot.activeLease = t /\ rest.lease[t].queue = behind
       /\ rest.slot.pending = {} /\ rest.slot.inflight = 0
  <2>1. cut.slot = h.slot /\ cut.lease[t].queue = behind BY <1>11 DEF OwnerCut
  <2>2. h.slot.pending = {} BY <1>3 DEF FlightInv
  <2>3. QED BY <1>20, <2>1, <2>2 DEF Woken, t
<1>23. CASE k > Len(q)
  <2>1. g = rest BY <1>9, <1>23
  <2>2. next = {} BY <1>4, <1>5, <1>10, <1>23
  <2>3. behind = <<>> BY <1>6, <1>23 DEF Behind
  <2>4. Drained(rest)
    <3>1. t # None BY DEF t
    <3>2. QED BY <1>22, <2>3, <3>1 DEF Drained
  <2>5. QED BY <1>20, <1>21, <2>1, <2>2, <2>4 DEF g
<1>24. CASE k <= Len(q)
  <2> DEFINE i == q[k][2]
             d == Dispatch(s, rest, <<t, i>>)
  <2>1. k \in 1 .. Len(q) BY <1>5, <1>24
  <2>2. q[k] = <<t, i>> /\ i \in 0 .. MaxCalls /\ i # 0 /\ <<t, i>> \in Requests
    BY <1>15, <2>1
  <2>3. next = {<<t, i>>} BY <1>10, <1>24, <2>2
  <2>4. \A n \in 1 .. Len(behind) : i < behind[n][2]
    <3>1. SUFFICES ASSUME NEW n \in 1 .. Len(behind) PROVE q[k][2] < behind[n][2] OBVIOUS
    <3>2. k + n \in 1 .. Len(q) /\ behind[n] = q[k + n] /\ k < k + n
      BY <1>6, <2>1 DEF Behind
    <3>3. q[k][2] < q[k + n][2] BY <1>16, <2>1, <3>2
    <3>4. QED BY <3>2, <3>3
  <2> HIDE DEF i
  <2>5. g = d
    <3>1. ~(k > Len(q)) BY <1>4, <2>1
    <3>2. QED BY <1>9, <2>2, <3>1
  <2>6. {<<t, i>>} \ {<<t, i>>} = {} /\ <<t, i>> \in {<<t, i>>} /\ {<<t, i>>} \in SUBSET Requests
    BY <2>2
  <2>7. Work(s, d, hm, {}) /\ Keeps(s, rest, d, hm, V)
    <3>1. IF i = 0 THEN rest.slot.activeLease = None /\ rest.phase[t] = "waiting"
          ELSE /\ rest.slot.activeLease = t
               /\ \A n \in 1 .. Len(rest.lease[t].queue) : i < rest.lease[t].queue[n][2]
      BY <1>22, <2>2, <2>4
    <3>2. Work(s, rest, hm, {<<t, i>>}) BY <1>20, <2>3
    <3> DEFINE X == {<<t, i>>}
    <3>3. X \in SUBSET Requests /\ <<t, i>> \in X /\ X \ {<<t, i>>} = {} /\ Work(s, rest, hm, X)
      BY <2>6, <3>2
    <3> HIDE DEF X
    <3>4. Work(s, d, hm, X \ {<<t, i>>}) /\ Keeps(s, rest, d, hm, V)
      <4> t \in Tasks BY <1>2
      <4> i \in 0 .. MaxCalls BY <2>2
      <4> QED BY <1>20, <3>1, <3>3, DispatchWork
    <3>5. QED BY <3>3, <3>4
  <2>8. d.slot.inflight = 1 BY <1>20, <1>22, <2>2, DispatchFacts
  <2> HIDE DEF d
  <2>9. Drained(d) BY <2>8 DEF Drained
  <2>10. Keeps(s, h, d, hm, V) BY <1>21, <2>7, KeepsTrans
  <2>11. QED BY <2>5, <2>7, <2>9, <2>10 DEF g
<1>25. QED BY <1>4, <1>5, <1>23, <1>24

\* drainQueue(); requests may be out of their place only while there is no lease.
LEMMA DrainQueueWork ==
  ASSUME NEW s, NEW hm, NEW h, HInv(s, h, hm), NEW X \in SUBSET Requests, Work(s, h, hm, X),
         X = {} \/ h.slot.activeLease = None,
         \A j \in 1 .. Len(h.slot.queue) : Root(h.slot.queue[j]) \notin X,
         NEW V, DrainVerdicts \subseteq V
  PROVE  LET g == DrainQueue(s, h)
         IN Work(s, g, hm, X) /\ Drained(g) /\ Keeps(s, h, g, hm, V)
<1>1. CASE ~(h.slot.state = "running" /\ h.slot.inflight = 0)
  <2>1. DrainQueue(s, h) = h BY <1>1 DEF DrainQueue
  <2>2. Drained(h) BY <1>1 DEF Drained
  <2>3. Keeps(s, h, h, hm, V) BY DEF Keeps, Elsewhere, Alike, Promises
  <2>4. QED BY <2>1, <2>2, <2>3
<1>2. CASE h.slot.state = "running" /\ h.slot.inflight = 0 /\ h.slot.activeLease # None
  <2>1. DrainQueue(s, h) = DrainOwner(s, h) BY <1>2 DEF DrainQueue
  <2>2. X = {} BY <1>2
  <2>3. QED BY <1>2, <2>1, <2>2, DrainOwnerWork
<1>3. CASE h.slot.state = "running" /\ h.slot.inflight = 0 /\ h.slot.activeLease = None
  <2>1. DrainQueue(s, h) = DrainRoot(s, h) BY <1>3 DEF DrainQueue
  <2>2. QED BY <1>3, <2>1, DrainRootWork
<1>4. QED BY <1>1, <1>2, <1>3

\* dispatchRequest() of the one request that is out of its place, on an idle worker:
\* a root request without a lease, or the proxy call of the lease that is ahead of
\* its owner FIFO.
LEMMA DispatchRequestWork ==
  ASSUME NEW s, NEW hm, NEW h, HInv(s, h, hm), NEW t \in Tasks, NEW i \in 0 .. MaxCalls,
         Work(s, h, hm, {<<t, i>>}),
         h.slot.inflight = 0, h.slot.closing \in {"open", "lease"},
         IF i = 0 THEN /\ h.slot.activeLease = None /\ h.phase[t] = "waiting"
                       /\ FreeIn(t, h.slot)
         ELSE /\ h.slot.activeLease = t
              /\ \A k \in 1 .. Len(h.lease[t].queue) : i < h.lease[t].queue[k][2],
         NEW V, DrainVerdicts \subseteq V
  PROVE  LET g == DispatchRequest(s, h, <<t, i>>)
         IN Work(s, g, hm, {}) /\ Drained(g) /\ Keeps(s, h, g, hm, V)
<1> DEFINE r == <<t, i>>
           R == {r}
<1>1. h \in HState BY DEF HInv
<1>2. r \in Requests BY RequestOf
<1>3. R \in SUBSET Requests /\ r \in R /\ R \ {r} = {} /\ R \ R = {} /\ R \in SUBSET R BY <1>2
<1>4. CASE r \in Unsendable
  <2> DEFINE g == SendFailed(h, R)
             f == DrainQueue(s, g)
  <2>1. DispatchRequest(s, h, r) = f BY <1>4 DEF DispatchRequest
  <2>2. \A u : Root(u) \in R => u = t /\ i = 0 BY DEF Root
  <2>3. Work(s, h, hm, R) OBVIOUS
  <2> HIDE DEF R, r
  <2>4. "sendError" \in V BY DEF DrainVerdicts
  <2>5. Work(s, g, hm, R \ R) /\ Keeps(s, h, g, hm, V)
    BY <1>1, <1>3, <2>3, <2>4, SendFailedWork
  <2>6. HInv(s, g, hm)
    <3>1. /\ g \in HState /\ Woken(h.slot, g.slot) /\ g.lease = h.lease
          /\ \A u \in Tasks : g.phase[u] = IF Root(u) \in R THEN "done" ELSE h.phase[u]
      BY <1>1, SendFailedType, SendFailedFacts
    <3> HIDE DEF g
    <3>2. SameWork(h.slot, g.slot) BY <3>1 DEF SameWork, Woken
    <3> DEFINE T == {u \in Tasks : Root(u) \in R}
    <3>3. \A u \in T : FreeIn(u, h.slot) BY <2>2
    <3>4. \A u \in Tasks : u \notin T =>
            g.phase[u] = h.phase[u] /\ g.lease[u].released = h.lease[u].released
      BY <3>1
    <3>5. TaskInv(g.phase, g.lease, hm) BY <3>1 DEF HInv, TaskInv, LeasePhases
    <3> HIDE DEF T
    <3>6. QED BY <3>1, <3>2, <3>3, <3>4, <3>5, RephaseInv
  <2> HIDE DEF g
  <2>7. Work(s, g, hm, {}) BY <1>3, <2>5
  <2>8. Work(s, f, hm, {}) /\ Drained(f) /\ Keeps(s, g, f, hm, V)
    BY <2>6, <2>7, DrainQueueWork
  <2> HIDE DEF f
  <2>9. Keeps(s, h, f, hm, V) BY <2>5, <2>8, KeepsTrans
  <2>10. QED BY <2>1, <2>8, <2>9 DEF r
<1>5. CASE r \notin Unsendable
  <2> DEFINE g == Dispatch(s, h, r)
  <2>1. DispatchRequest(s, h, r) = g BY <1>5 DEF DispatchRequest
  <2>2. Work(s, h, hm, R) OBVIOUS
  <2>3. IF i = 0 THEN h.slot.activeLease = None /\ h.phase[t] = "waiting"
        ELSE /\ h.slot.activeLease = t
             /\ \A k \in 1 .. Len(h.lease[t].queue) : i < h.lease[t].queue[k][2]
    OBVIOUS
  <2>4. <<t, i>> \in R /\ R \ {<<t, i>>} = {} OBVIOUS
  <2>5. R \in SUBSET Requests BY <1>3
  <2> HIDE DEF R
  <2>6. Work(s, g, hm, R \ {<<t, i>>}) /\ Keeps(s, h, g, hm, V)
    BY <1>1, <2>2, <2>3, <2>4, <2>5, DispatchWork
  <2>7. g.slot.inflight = 1 BY <1>1, DispatchFacts
  <2> HIDE DEF g
  <2>8. Drained(g) BY <2>7 DEF Drained
  <2>9. QED BY <2>1, <2>4, <2>6, <2>8
<1>6. QED BY <1>4, <1>5

-----------------------------------------------------------------------------
(* From the work of one slot to the work of all.                            *)

PromiseInv == \A t \in Tasks, s \in Slots : Promise(t, Here(s))
OwedInv == WorkInv /\ BarrierInv /\ PromiseInv

\* The step takes calls to slot s at most, and never from another slot.
Rehomed(s) ==
  \A t \in Tasks :
    /\ home[t] \in Slots => home'[t] = home[t]
    /\ home'[t] # s => home'[t] = home[t]

\* finishClose() of a slot ends with the slot closed, and ends once.
Closes(old, new) ==
  /\ new.closing = "done" => new.state = "closed"
  /\ old.closing = "done" => new.closing = "done"

\* What a handler commits is what the next one finds.
LEMMA CommitHere ==
  ASSUME TypeOK, NEW s \in Slots, NEW g \in HState, Commit(s, g)
  PROVE  /\ Here(s)' = g
         /\ \A r \in Slots : r # s => slot'[r] = slot[r]
         /\ slot'[s] = g.slot /\ phase' = g.phase /\ lease' = g.lease /\ result' = g.result
         /\ untracked' = g.untracked
<1>1. slot \in [Slots -> SlotRecord] BY DEF TypeOK
<1>2. /\ slot' = [slot EXCEPT ![s] = g.slot] /\ phase' = g.phase /\ lease' = g.lease
      /\ result' = g.result /\ untracked' = g.untracked
  BY DEF Commit
<1>3. g = [slot |-> g.slot, phase |-> g.phase, lease |-> g.lease, result |-> g.result,
           untracked |-> g.untracked]
  BY DEF HState
<1>4. slot'[s] = g.slot /\ \A r \in Slots : r # s => slot'[r] = slot[r] BY <1>1, <1>2
<1>5. Here(s)' = [slot |-> slot'[s], phase |-> phase', lease |-> lease', result |-> result',
                  untracked |-> untracked']
  BY DEF Here
<1>6. QED BY <1>2, <1>3, <1>4, <1>5

\* The tables are the same from every slot.
LEMMA HereFields ==
  ASSUME NEW s
  PROVE  /\ Here(s).slot = slot[s] /\ Here(s).phase = phase /\ Here(s).lease = lease
         /\ Here(s).result = result /\ Here(s).untracked = untracked
         /\ Here(s)'.slot = slot'[s] /\ Here(s)'.phase = phase' /\ Here(s)'.lease = lease'
         /\ Here(s)'.result = result' /\ Here(s)'.untracked = untracked'
BY DEF Here

\* The work of a slot that the step does not touch.
LEMMA OtherSlotWork ==
  ASSUME IInv, WorkInv, NEW s \in Slots, slot'[s] = slot[s],
         \A t \in Tasks : home[t] \in Slots => home'[t] = home[t],
         \A t \in Tasks : home'[t] = s => home[t] = s /\ Alike(t, Here(s), Here(s)')
  PROVE  Work(s, Here(s)', home', {}) /\ Drained(Here(s)')
<1> DEFINE h == Here(s)
           g == Here(s)'
<1>1. Work(s, h, home, {}) /\ Drained(h) BY DEF WorkInv
<1>2. h \in HState BY HereType DEF IInv
<1>3. h.slot = slot[s] /\ g.slot = slot[s] BY HereFields
<1>4. \A t \in Tasks : home'[t] = s => home[t] = s /\ Alike(t, h, g) OBVIOUS
<1>5. h.slot.activeLease # None => h.slot.activeLease \in Tasks /\ home[h.slot.activeLease] = s
  <2>1. SlotInv(s, slot[s], phase, lease, home) BY DEF IInv, SlotsInv
  <2>2. QED BY <1>2, <1>3, <2>1 DEF SlotInv, OwnerInv, HState, SlotRecord
<1> HIDE DEF h, g
<1>6. \A t \in Tasks : home'[t] = s => WorkOf(t, {}, g)
  BY <1>1, <1>2, <1>3, <1>4, WorkOfAlike DEF Work
<1>7. \A r \in g.slot.pending \cup {} : home'[r[1]] = s
  <2>1. SUFFICES ASSUME NEW r \in h.slot.pending PROVE home'[r[1]] = s BY <1>3
  <2>2. r \in Requests BY <1>2 DEF HState, SlotRecord
  <2>3. r[1] \in Tasks BY <2>2 DEF Requests
  <2>4. home[r[1]] = s BY <1>1 DEF Work
  <2>5. QED BY <2>3, <2>4
<1>8. h.slot.activeLease # None => g.lease[h.slot.activeLease] = h.lease[h.slot.activeLease]
  BY <1>4, <1>5 DEF Alike
<1>9. WaitingOn(g.slot, g.lease) = WaitingOn(h.slot, h.lease) BY <1>3, <1>8 DEF WaitingOn
<1>10. Drained(g) BY <1>1, <1>3, <1>8 DEF Drained
<1>11. Work(s, g, home', {}) BY <1>1, <1>6, <1>7, <1>9 DEF Work
<1>12. QED BY <1>10, <1>11 DEF g

\* A call on no slot is none of the calls of a slot.
LEMMA UntouchedAlike ==
  ASSUME NEW t \in Tasks, NEW h, NEW g, Untouched(t, h), Alike(t, h, g)
  PROVE  Untouched(t, g)
<1>1. 0 \in 0 .. MaxCalls /\ \A i \in 1 .. MaxCalls : i \in 0 .. MaxCalls BY PoolAssumption
<1>2. QED BY <1>1 DEF Untouched, Alike, Root

\* A handler of slot s that commits g.
LEMMA CommitWork ==
  ASSUME IInv, OwedInv, NEW s \in Slots, NEW g \in HState, Commit(s, g), Rehomed(s),
         Work(s, g, home', {}), Drained(g), Elsewhere(s, Here(s), g, home'),
         Promises(Here(s), g), Closes(slot[s], g.slot)
  PROVE  OwedInv'
<1>1. /\ Here(s)' = g
      /\ \A r \in Slots : r # s => slot'[r] = slot[r]
      /\ slot'[s] = g.slot /\ phase' = g.phase /\ lease' = g.lease /\ result' = g.result
      /\ untracked' = g.untracked
  BY CommitHere DEF IInv
<1>2. \A r \in Slots, t \in Tasks : home'[t] # s => Alike(t, Here(r), Here(r)')
  BY <1>1, HereFields DEF Elsewhere, Alike
<1>3. \A r \in Slots : Work(r, Here(r)', home', {}) /\ Drained(Here(r)')
  <2>1. SUFFICES ASSUME NEW r \in Slots, r # s
                 PROVE  Work(r, Here(r)', home', {}) /\ Drained(Here(r)')
    BY <1>1
  <2>2. \A t \in Tasks : home'[t] = r => home[t] = r /\ Alike(t, Here(r), Here(r)')
    BY <1>2, <2>1 DEF Rehomed
  <2>3. \A t \in Tasks : home[t] \in Slots => home'[t] = home[t] BY DEF Rehomed
  <2>4. WorkInv BY DEF OwedInv
  <2>5. QED BY <1>1, <2>1, <2>2, <2>3, <2>4, OtherSlotWork
<1>4. \A r \in Slots, t \in Tasks : home'[t] \notin Slots => Untouched(t, Here(r)')
  <2>1. SUFFICES ASSUME NEW r \in Slots, NEW t \in Tasks, home'[t] \notin Slots
                 PROVE  Untouched(t, Here(r)')
    OBVIOUS
  <2>2. home'[t] # s /\ home[t] \notin Slots BY <2>1 DEF Rehomed
  <2>3. Untouched(t, Here(r)) BY <2>2 DEF OwedInv, WorkInv
  <2>4. QED BY <1>2, <2>2, <2>3, UntouchedAlike
<1>5. WorkInv' BY <1>3, <1>4 DEF WorkInv
<1>6. PromiseInv'
  <2>1. SUFFICES ASSUME NEW t \in Tasks, NEW r \in Slots PROVE Promise(t, Here(r)')
    BY DEF PromiseInv
  <2>2. Promise(t, g) BY DEF OwedInv, PromiseInv, Promises
  <2>3. QED BY <1>1, <2>2, HereFields DEF Promise
<1>7. BarrierInv'
  <2>1. BarrierInv BY DEF OwedInv
  <2>2. \A r \in Slots : slot'[r].closing = "done" => slot'[r].state = "closed"
    BY <1>1, <2>1 DEF BarrierInv, Closes
  <2>3. ASSUME NEW c \in Tasks, Kind[c] = "close", result'[Root(c)] \in {"ok", "closeFailed"},
               NEW r \in Slots
        PROVE  slot'[r].closing = "done"
    <3>1. home'[c] # s BY <2>3 DEF Work, WorkOf, RootInv
    <3>2. 0 \in 0 .. MaxCalls BY PoolAssumption
    <3>3. result'[Root(c)] = result[Root(c)]
      BY <1>2, <2>3, <3>1, <3>2, HereFields DEF Alike, Root
    <3>4. slot[r].closing = "done" BY <2>1, <2>3, <3>3 DEF BarrierInv
    <3>5. QED BY <1>1, <3>4 DEF Closes
  <2>4. QED BY <2>2, <2>3 DEF BarrierInv
<1>8. QED BY <1>5, <1>6, <1>7 DEF OwedInv

-----------------------------------------------------------------------------
(* The actions that move no work.                                           *)

\* What the next handler finds is well typed.
LEMMA NextHere ==
  ASSUME IInv', NEW s \in Slots
  PROVE  Here(s)' \in HState
<1>1. TypeOK' BY DEF IInv
<1>2. QED BY <1>1, HereFields DEF TypeOK, HState, Here

\* A step that writes slot s and the tables is a handler of s.
LEMMA AsHandler ==
  ASSUME IInv, IInv', NEW s \in Slots, \A r \in Slots : r # s => slot'[r] = slot[r]
  PROVE  Here(s)' \in HState /\ Commit(s, Here(s)')
<1>1. slot \in [Slots -> SlotRecord] /\ slot' \in [Slots -> SlotRecord] BY DEF IInv, TypeOK
<1>2. slot' = [slot EXCEPT ![s] = slot'[s]] BY <1>1
<1>3. Commit(s, Here(s)') BY <1>2, HereFields DEF Commit
<1>4. QED BY <1>3, NextHere

\* Which request of a call is its root request.
LEMMA RequestIsRoot ==
  ASSUME NEW t \in Tasks
  PROVE  \A u \in Tasks : \A i \in 0 .. MaxCalls :
           <<u, i>> \in Requests /\ (<<u, i>> = Root(t) <=> u = t /\ i = 0)
BY DEF Root, Requests

\* The phase and the promise of a call on no slot.
LEMMA OutsideStepWork ==
  ASSUME IInv, OwedInv, NEW t \in Tasks, home[t] \notin Slots, NEW p, NEW v,
         UNCHANGED <<slot, lease, home, untracked>>,
         phase' = [phase EXCEPT ![t] = p], result' = [result EXCEPT ![Root(t)] = v],
         \/ p = "waiting" /\ v = "pending" /\ Kind[t] = "close"
         \/ p = "done" /\ v \notin {"none", "pending"},
         Kind[t] = "close" /\ v \in {"ok", "closeFailed"} => \A s \in Slots : slot[s].closing = "done"
  PROVE  OwedInv'
<1>1. phase \in [Tasks -> Phases] /\ result \in [Requests -> Verdicts \cup {"none", "pending"}]
  BY DEF IInv, TypeOK
<1>2. Root(t) \in Requests BY RequestOf
<1>3. /\ \A u \in Tasks : phase'[u] = IF u = t THEN p ELSE phase[u]
      /\ \A r \in Requests : result'[r] = IF r = Root(t) THEN v ELSE result[r]
      /\ slot' = slot /\ lease' = lease /\ home' = home /\ untracked' = untracked
  BY <1>1, <1>2
<1>4. /\ \A u \in Tasks : \A i \in 0 .. MaxCalls :
           result'[<<u, i>>] = IF u = t /\ i = 0 THEN v ELSE result[<<u, i>>]
      /\ \A u \in Tasks : result'[Root(u)] = IF u = t THEN v ELSE result[Root(u)]
  <2>1. \A u \in Tasks : \A i \in 0 .. MaxCalls :
          <<u, i>> \in Requests /\ (<<u, i>> = Root(t) <=> u = t /\ i = 0)
    BY RequestIsRoot
  <2>2. \A u \in Tasks : Root(u) \in Requests /\ (Root(u) = Root(t) => u = t) BY RequestOf
  <2>3. QED BY <1>3, <2>1, <2>2
<1>5. \A s \in Slots, u \in Tasks : u # t => Alike(u, Here(s), Here(s)')
  <2>1. SUFFICES ASSUME NEW s \in Slots, NEW u \in Tasks, u # t
                 PROVE  Alike(u, Here(s), Here(s)')
    OBVIOUS
  <2>2. /\ Here(s).phase = phase /\ Here(s).lease = lease /\ Here(s).result = result
        /\ Here(s).untracked = untracked
        /\ Here(s)'.phase = phase' /\ Here(s)'.lease = lease' /\ Here(s)'.result = result'
        /\ Here(s)'.untracked = untracked'
    BY HereFields
  <2>3. phase'[u] = phase[u] /\ lease'[u] = lease[u] /\ untracked' = untracked BY <1>3, <2>1
  <2>4. \A i \in 0 .. MaxCalls : result'[<<u, i>>] = result[<<u, i>>] BY <1>4, <2>1
  <2>5. QED BY <2>2, <2>3, <2>4 DEF Alike
<1>6. WorkInv /\ BarrierInv /\ PromiseInv BY DEF OwedInv
<1>7. \A s \in Slots : Work(s, Here(s)', home', {}) /\ Drained(Here(s)')
  <2>1. SUFFICES ASSUME NEW s \in Slots
                 PROVE  Work(s, Here(s)', home', {}) /\ Drained(Here(s)')
    OBVIOUS
  <2>2. \A u \in Tasks : home'[u] = s => home[u] = s /\ Alike(u, Here(s), Here(s)')
    BY <1>3, <1>5
  <2>3. QED BY <1>3, <1>6, <2>2, OtherSlotWork
<1>8. \A s \in Slots, u \in Tasks : home'[u] \notin Slots => Untouched(u, Here(s)')
  <2>1. SUFFICES ASSUME NEW s \in Slots, NEW u \in Tasks, home[u] \notin Slots
                 PROVE  Untouched(u, Here(s)')
    BY <1>3
  <2>2. Untouched(u, Here(s)) BY <1>6, <2>1 DEF WorkInv
  <2>3. CASE u # t BY <1>5, <2>2, <2>3, UntouchedAlike
  <2>4. CASE u = t
    <3>1. \A i \in 1 .. MaxCalls : result'[<<t, i>>] = result[<<t, i>>] BY <1>4, PoolAssumption
    <3>2. /\ Here(s).lease = lease /\ Here(s).result = result /\ Here(s).untracked = untracked
          /\ Here(s)'.phase = phase' /\ Here(s)'.lease = lease' /\ Here(s)'.result = result'
          /\ Here(s)'.untracked = untracked'
      BY HereFields
    <3>3. phase'[t] = p /\ lease' = lease /\ untracked' = untracked BY <1>3
    <3>4. /\ \A i \in 1 .. MaxCalls : result[<<t, i>>] = "none" /\ <<t, i>> \notin untracked
          /\ lease[t].queue = <<>> /\ lease[t].pendingCalls = 0
      BY <2>2, <2>4, <3>2 DEF Untouched
    <3>5. p # "idle" /\ (Kind[t] = "close" \/ p = "done") OBVIOUS
    <3>6. QED BY <2>4, <3>1, <3>2, <3>3, <3>4, <3>5 DEF Untouched
  <2>5. QED BY <2>3, <2>4
<1>9. WorkInv' BY <1>7, <1>8 DEF WorkInv
<1>10. PromiseInv'
  <2>1. SUFFICES ASSUME NEW u \in Tasks, NEW s \in Slots PROVE Promise(u, Here(s)')
    BY DEF PromiseInv
  <2>2. Promise(u, Here(s)) BY <1>6 DEF PromiseInv
  <2>3. /\ Here(s).phase = phase /\ Here(s).result = result
        /\ Here(s)'.phase = phase' /\ Here(s)'.result = result'
    BY HereFields
  <2>4. CASE u = t
    <3>1. phase'[u] = p /\ result'[Root(u)] = v BY <1>3, <1>4, <2>4
    <3>2. QED BY <2>3, <3>1 DEF Promise
  <2>5. CASE u # t
    <3>1. phase'[u] = phase[u] /\ result'[Root(u)] = result[Root(u)] BY <1>3, <1>4, <2>5
    <3>2. QED BY <2>2, <2>3, <3>1 DEF Promise
  <2>6. QED BY <2>4, <2>5
<1>11. BarrierInv' BY <1>3, <1>4, <1>6 DEF BarrierInv
<1>12. QED BY <1>9, <1>10, <1>11 DEF OwedInv

\* A step of a call on its slot that leaves its proxy calls and its work alone.
LEMMA TableStepWork ==
  ASSUME IInv, OwedInv, IInv', NEW t \in Tasks, home[t] \in Slots,
         UNCHANGED <<slot, home>>,
         \A u \in Tasks : u # t => Alike(u, Here(home[t]), Here(home[t])'),
         CallsAlike(t, Here(home[t]), Here(home[t])'),
         MovesOn(t, Here(home[t]), Here(home[t])'),
         Promise(t, Here(home[t])')
  PROVE  OwedInv'
<1> DEFINE s == home[t]
           h == Here(s)
           g == Here(s)'
<1>1. g \in HState /\ Commit(s, g) BY AsHandler
<1>2. h \in HState BY HereType DEF IInv
<1>3. g.slot = h.slot /\ h.slot = slot[s] BY HereFields
<1>4. Work(s, h, home, {}) /\ Drained(h) BY DEF OwedInv, WorkInv
<1>5. /\ \A u \in Tasks : u # t => Alike(u, h, g)
      /\ CallsAlike(t, h, g) /\ MovesOn(t, h, g) /\ Promise(t, g)
  OBVIOUS
<1>6. h.slot.activeLease # None => h.slot.activeLease \in Tasks
  BY <1>2 DEF HState, SlotRecord
<1> HIDE DEF h, g, s
<1>7. ASSUME NEW u \in Tasks, home[u] = s PROVE WorkOf(u, {}, g)
  <2>1. WorkOf(u, {}, h) BY <1>4, <1>7 DEF Work
  <2>2. CASE u = t BY <1>2, <1>3, <1>5, <2>1, <2>2, WorkOfStep
  <2>3. CASE u # t BY <1>2, <1>3, <1>5, <2>1, <2>3, WorkOfAlike
  <2>4. QED BY <2>2, <2>3
<1>8. h.slot.activeLease # None =>
        g.lease[h.slot.activeLease].queue = h.lease[h.slot.activeLease].queue
  BY <1>5, <1>6 DEF Alike, CallsAlike
<1>9. WaitingOn(g.slot, g.lease) = WaitingOn(h.slot, h.lease) BY <1>3, <1>8 DEF WaitingOn
<1>10. home' = home OBVIOUS
<1>11. Work(s, g, home', {}) BY <1>3, <1>4, <1>7, <1>9, <1>10 DEF Work
<1>12. Drained(g) BY <1>3, <1>4, <1>8 DEF Drained
<1>13. Elsewhere(s, h, g, home') BY <1>5, <1>10 DEF Elsewhere, s
<1>14. Promises(h, g)
  <2>1. \A u \in Tasks : u # t => (Promise(u, h) => Promise(u, g))
    <3>1. 0 \in 0 .. MaxCalls BY PoolAssumption
    <3>2. QED BY <1>5, <3>1 DEF Alike, Promise, Root
  <2>2. QED BY <1>5, <2>1 DEF Promises
<1>15. Closes(slot[s], g.slot)
  <2>1. s \in Slots BY DEF s
  <2>2. QED BY <1>3, <2>1 DEF OwedInv, BarrierInv, Closes
<1>16. Rehomed(s) BY <1>10 DEF Rehomed
<1>17. s \in Slots BY DEF s
<1>18. QED BY <1>1, <1>11, <1>12, <1>13, <1>14, <1>15, <1>16, <1>17, CommitWork DEF h

\* A step that writes a slot record and leaves its work alone.
SameOwner(old, new) ==
  /\ new.pending = old.pending /\ new.queue = old.queue /\ new.inflight = old.inflight
  /\ new.activeLease = old.activeLease
  /\ new.state = "running" => old.state = "running"

\* An action that writes the record of one slot and none of its work (listeners, closing, counters).
LEMMA SlotStepWork ==
  ASSUME IInv, OwedInv, IInv', NEW s \in Slots, \A r \in Slots : r # s => slot'[r] = slot[r],
         UNCHANGED <<phase, lease, result, untracked, home>>,
         SameOwner(slot[s], slot'[s]), Closes(slot[s], slot'[s])
  PROVE  OwedInv'
<1> DEFINE h == Here(s)
           g == Here(s)'
<1>1. g \in HState /\ Commit(s, g) BY AsHandler
<1>2. h \in HState BY HereType DEF IInv
<1>3. /\ h.slot = slot[s] /\ g.slot = slot'[s] /\ g.phase = h.phase /\ g.lease = h.lease
      /\ g.result = h.result /\ g.untracked = h.untracked /\ home' = home
  BY HereFields
<1>4. Work(s, h, home, {}) /\ Drained(h) BY DEF OwedInv, WorkInv
<1>5. SameOwner(h.slot, g.slot) /\ Closes(slot[s], g.slot) BY <1>3
<1> HIDE DEF h, g
<1>6. \A u \in Tasks : Alike(u, h, g) BY <1>3 DEF Alike
<1>7. \A u \in Tasks : home[u] = s => WorkOf(u, {}, g)
  BY <1>2, <1>4, <1>5, <1>6, WorkOfAlike DEF Work, SameOwner
<1>8. Work(s, g, home', {}) BY <1>3, <1>4, <1>5, <1>7 DEF Work, WaitingOn, SameOwner
<1>9. Drained(g) BY <1>3, <1>4, <1>5 DEF Drained, SameOwner
<1>10. Elsewhere(s, h, g, home') BY <1>6 DEF Elsewhere
<1>11. Promises(h, g) BY <1>3 DEF Promises, Promise
<1>12. Rehomed(s) BY <1>3 DEF Rehomed
<1>13. QED BY <1>1, <1>5, <1>8, <1>9, <1>10, <1>11, <1>12, CommitWork DEF h

\* A call that no slot has been picked for is idle, or a close().
LEMMA OutsideCalls ==
  ASSUME IInv, OwedInv, NEW t \in Tasks, phase[t] = "idle" \/ Kind[t] = "close"
  PROVE  home[t] \notin Slots
<1>1. SUFFICES ASSUME home[t] \in Slots PROVE FALSE OBVIOUS
<1>2. Work(home[t], Here(home[t]), home, {}) BY <1>1 DEF OwedInv, WorkInv
<1>3. RootInv(t, {}, Here(home[t])) BY <1>2 DEF Work, WorkOf
<1>4. QED BY <1>3, HereFields DEF RootInv

\* The promise of a call, read from the tables.
LEMMA PromiseOf ==
  ASSUME IInv, OwedInv, NEW t \in Tasks
  PROVE  /\ phase[t] = "idle" <=> result[Root(t)] = "none"
         /\ phase[t] \in {"waiting", "admitted"} => result[Root(t)] = "pending"
         /\ phase[t] = "done" => result[Root(t)] # "pending"
<1>1. roundRobin \in Slots BY DEF IInv, TypeOK
<1>2. Promise(t, Here(roundRobin)) BY <1>1 DEF OwedInv, PromiseInv
<1>3. QED BY <1>2, HereFields DEF Promise

\* Refused public calls, and the calls of close().
LEMMA RefuseRootWork ==
  ASSUME IInv, OwedInv, NEW t \in Tasks, RefuseRoot(t)
  PROVE  OwedInv'
<1>1. RootRefusal(t) \notin {"pending", "none"} BY DEF RefuseRoot, RootRefusal
<1>2. phase[t] = "idle" /\ Kind[t] # "close" BY DEF RefuseRoot, Callable
<1>3. home[t] \notin Slots BY <1>2, OutsideCalls
<1>4. /\ UNCHANGED <<slot, lease, home, untracked>>
      /\ phase' = [phase EXCEPT ![t] = "done"]
      /\ result' = [result EXCEPT ![Root(t)] = RootRefusal(t)]
  BY DEF RefuseRoot
<1>5. QED BY <1>1, <1>2, <1>3, <1>4, OutsideStepWork

\* close() from inside a callback is refused: the refusal takes no work and closes nothing.
LEMMA RefuseCloseWork ==
  ASSUME IInv, OwedInv, NEW t \in Tasks, RefuseClose(t)
  PROVE  OwedInv'
<1>1. home[t] \notin Slots BY OutsideCalls DEF RefuseClose
<1>2. /\ UNCHANGED <<slot, lease, home, untracked>>
      /\ phase' = [phase EXCEPT ![t] = "done"]
      /\ result' = [result EXCEPT ![Root(t)] = "reentrant"]
  BY DEF RefuseClose
<1>3. QED BY <1>1, <1>2, OutsideStepWork

\* A second close() waits for the first: it owns no work.
LEMMA CloseAgainWork ==
  ASSUME IInv, OwedInv, NEW t \in Tasks, CloseAgain(t)
  PROVE  OwedInv'
<1>1. home[t] \notin Slots BY OutsideCalls DEF CloseAgain
<1>2. /\ UNCHANGED <<slot, lease, home, untracked>> /\ Kind[t] = "close"
      /\ phase' = [phase EXCEPT ![t] = "waiting"]
      /\ result' = [result EXCEPT ![Root(t)] = "pending"]
  BY DEF CloseAgain
<1>3. QED BY <1>1, <1>2, OutsideStepWork

\* The end of close() settles the close() calls only.
LEMMA FinishCloseWork ==
  ASSUME IInv, OwedInv, NEW t \in Tasks, FinishClose(t)
  PROVE  OwedInv'
<1> DEFINE v == IF closeFailed THEN "closeFailed" ELSE "ok"
<1>1. home[t] \notin Slots BY OutsideCalls DEF FinishClose
<1>2. /\ UNCHANGED <<slot, lease, home, untracked>>
      /\ phase' = [phase EXCEPT ![t] = "done"]
      /\ result' = [result EXCEPT ![Root(t)] = v]
      /\ \A s \in Slots : slot[s].closing = "done"
  BY DEF FinishClose
<1>3. v \notin {"none", "pending"} OBVIOUS
<1> HIDE DEF v
<1>4. QED BY <1>1, <1>2, <1>3, OutsideStepWork

\* The steps of a callback between its proxy calls.
LEMMA LeaseMoveWork ==
  ASSUME IInv, OwedInv, IInv', NEW t \in Tasks, NEW p \in LeasePhases,
         phase[t] \in LeasePhases, p = "admitted" => phase[t] = "admitted",
         phase' = [phase EXCEPT ![t] = p],
         \/ lease' = lease
         \/ lease' = [lease EXCEPT ![t].active = FALSE],
         UNCHANGED <<slot, home, result, untracked>>
  PROVE  OwedInv'
<1>1. /\ phase \in [Tasks -> Phases] /\ lease \in [Tasks -> LeaseRecord]
      /\ home[t] \in Slots
  BY DEF IInv, TypeOK, SlotsInv, TaskInv, LeasePhases
<1>2. \A u \in Tasks : u # t => phase'[u] = phase[u] /\ lease'[u] = lease[u] BY <1>1
<1>3. /\ lease'[t].queue = lease[t].queue /\ lease'[t].pendingCalls = lease[t].pendingCalls
      /\ lease'[t].released = lease[t].released
  <2>1. CASE lease' = [lease EXCEPT ![t].active = FALSE]
    <3> DEFINE l == [lease[t] EXCEPT !.active = FALSE]
    <3>1. l.queue = lease[t].queue /\ l.pendingCalls = lease[t].pendingCalls
          /\ l.released = lease[t].released
      BY <1>1 DEF LeaseRecord
    <3>2. lease' = [lease EXCEPT ![t] = l] BY <2>1
    <3> HIDE DEF l
    <3>3. lease'[t] = l BY <1>1, <3>2
    <3>4. QED BY <3>1, <3>3
  <2>2. QED BY <2>1
<1>4. phase'[t] = p BY <1>1
<1> DEFINE s == home[t]
<1>5. /\ Here(s).phase = phase /\ Here(s).lease = lease /\ Here(s).result = result
      /\ Here(s).untracked = untracked
      /\ Here(s)'.phase = phase' /\ Here(s)'.lease = lease' /\ Here(s)'.result = result
      /\ Here(s)'.untracked = untracked
  BY HereFields
<1>6. \A u \in Tasks : u # t => Alike(u, Here(s), Here(s)') BY <1>2, <1>5 DEF Alike
<1>7. CallsAlike(t, Here(s), Here(s)') BY <1>3, <1>5 DEF CallsAlike
<1>8. MovesOn(t, Here(s), Here(s)') BY <1>4, <1>5 DEF MovesOn, LeasePhases
<1>9. Promise(t, Here(s)')
  <2>1. /\ phase[t] = "idle" <=> result[Root(t)] = "none"
        /\ phase[t] \in {"waiting", "admitted"} => result[Root(t)] = "pending"
    BY PromiseOf
  <2>2. QED BY <1>4, <1>5, <2>1 DEF Promise, LeasePhases
<1>10. QED BY <1>1, <1>6, <1>7, <1>8, <1>9, TableStepWork

\* The callback of a lease starts: its slot and its calls stay as they are.
LEMMA StartCallbackWork ==
  ASSUME IInv, OwedInv, IInv', NEW t \in Tasks, StartCallback(t)
  PROVE  OwedInv'
BY LeaseMoveWork DEF StartCallback, LeasePhases

\* A lease aborted before its callback starts is given up without a call.
LEMMA AbandonLeaseWork ==
  ASSUME IInv, OwedInv, IInv', NEW t \in Tasks, AbandonLease(t)
  PROVE  OwedInv'
BY LeaseMoveWork DEF AbandonLease, LeasePhases

\* The callback settles: the lease waits for the calls it left open.
LEMMA CallbackSettlesWork ==
  ASSUME IInv, OwedInv, IInv', NEW t \in Tasks, CallbackSettles(t)
  PROVE  OwedInv'
BY LeaseMoveWork DEF CallbackSettles, LeasePhases

\* onAbort of do() settles a promise that no queue holds.
LEMMA AbortCallbackWork ==
  ASSUME IInv, OwedInv, IInv', NEW t \in Tasks, AbortCallback(t)
  PROVE  OwedInv'
<1>1. /\ phase[t] = "callback" /\ result' = [result EXCEPT ![Root(t)] = "aborted"]
      /\ UNCHANGED <<slot, phase, lease, home, untracked>>
  BY DEF AbortCallback
<1>2. /\ home[t] \in Slots /\ result \in [Requests -> Verdicts \cup {"none", "pending"}]
  BY <1>1 DEF IInv, TypeOK, SlotsInv, TaskInv, LeasePhases
<1> DEFINE s == home[t]
<1>3. /\ Here(s).phase = phase /\ Here(s).lease = lease /\ Here(s).result = result
      /\ Here(s).untracked = untracked
      /\ Here(s)'.phase = phase /\ Here(s)'.lease = lease /\ Here(s)'.result = result'
      /\ Here(s)'.untracked = untracked
  BY <1>1, HereFields
<1>4. \A u \in Tasks : \A i \in 0 .. MaxCalls :
        u # t \/ i # 0 => result'[<<u, i>>] = result[<<u, i>>]
  <2>1. \A r \in Requests : r # Root(t) => result'[r] = result[r] BY <1>1, <1>2
  <2>2. QED BY <2>1, RequestIsRoot
<1>5. result'[Root(t)] = "aborted" BY <1>1, <1>2, RequestOf
<1>6. \A u \in Tasks : u # t => Alike(u, Here(s), Here(s)') BY <1>3, <1>4 DEF Alike
<1>7. CallsAlike(t, Here(s), Here(s)')
  <2>1. \A i \in 1 .. MaxCalls : i \in 0 .. MaxCalls /\ i # 0 BY PoolAssumption
  <2>2. QED BY <1>3, <1>4, <2>1 DEF CallsAlike
<1>8. MovesOn(t, Here(s), Here(s)') BY <1>3 DEF MovesOn
<1>9. Promise(t, Here(s)') BY <1>1, <1>3, <1>5 DEF Promise
<1>10. UNCHANGED <<slot, home>> BY <1>1
<1>11. QED BY <1>2, <1>6, <1>7, <1>8, <1>9, <1>10, TableStepWork

\* The steps of the close protocol that end no slot.
LEMMA TerminateSlotWork ==
  ASSUME IInv, OwedInv, IInv', NEW s \in Slots, TerminateSlot(s)
  PROVE  OwedInv'
<1> DEFINE sl == [slot[s] EXCEPT !.state = "terminating", !.closing = "terminating"]
<1>1. slot \in [Slots -> SlotRecord] /\ slot[s].closing = "ready" /\ slot' = [slot EXCEPT ![s] = sl]
      /\ UNCHANGED <<phase, lease, result, untracked, home>>
  BY DEF TerminateSlot, IInv, TypeOK
<1>2. SameOwner(slot[s], sl) /\ Closes(slot[s], sl)
  BY <1>1 DEF SameOwner, Closes, SlotRecord
<1> HIDE DEF sl
<1>3. slot'[s] = sl /\ \A r \in Slots : r # s => slot'[r] = slot[r] BY <1>1
<1>4. QED BY <1>1, <1>2, <1>3, SlotStepWork

\* close() saw the lease of a slot released, and turns to what is in flight.
LEMMA CloseLeaseReleasedWork ==
  ASSUME IInv, OwedInv, IInv', NEW s \in Slots, CloseLeaseReleased(s)
  PROVE  OwedInv'
<1> DEFINE sl == [slot[s] EXCEPT !.closing = WaitForPending(slot[s])]
<1>1. slot \in [Slots -> SlotRecord] /\ slot[s].closing = "lease" /\ slot' = [slot EXCEPT ![s] = sl]
      /\ UNCHANGED <<phase, lease, result, untracked, home>>
  BY DEF CloseLeaseReleased, IInv, TypeOK
<1>2. SameOwner(slot[s], sl) /\ Closes(slot[s], sl)
  BY <1>1 DEF SameOwner, Closes, SlotRecord, WaitForPending
<1> HIDE DEF sl
<1>3. slot'[s] = sl /\ \A r \in Slots : r # s => slot'[r] = slot[r] BY <1>1
<1>4. QED BY <1>1, <1>2, <1>3, SlotStepWork

\* A step that leaves slots, calls and promises alone.
LEMMA QuietWork ==
  ASSUME OwedInv, UNCHANGED <<slot, phase, lease, result, untracked, home>>
  PROVE  OwedInv'
<1>1. \A s : Here(s)' = Here(s) BY DEF Here
<1>2. WorkInv' BY <1>1 DEF OwedInv, WorkInv
<1>3. PromiseInv' BY <1>1 DEF OwedInv, PromiseInv
<1>4. BarrierInv' BY DEF OwedInv, BarrierInv
<1>5. QED BY <1>2, <1>3, <1>4 DEF OwedInv

\* A handler that writes the record of its slot and leaves its work alone.
LEMMA SlotCommitWork ==
  ASSUME IInv, OwedInv, IInv', NEW s \in Slots, NEW g \in HState, Commit(s, g),
         SameTables(Here(s), g), SameOwner(slot[s], g.slot), Closes(slot[s], g.slot), home' = home
  PROVE  OwedInv'
<1>1. /\ \A r \in Slots : r # s => slot'[r] = slot[r]
      /\ slot'[s] = g.slot /\ phase' = g.phase /\ lease' = g.lease /\ result' = g.result
      /\ untracked' = g.untracked
  BY CommitHere DEF IInv
<1>2. UNCHANGED <<phase, lease, result, untracked, home>> BY <1>1, HereFields DEF SameTables
<1>3. SameOwner(slot[s], slot'[s]) /\ Closes(slot[s], slot'[s]) BY <1>1
<1>4. QED BY <1>1, <1>2, <1>3, SlotStepWork

\* The slot is closed.
LEMMA ClosedSlotWork ==
  ASSUME IInv, OwedInv, IInv', NEW s \in Slots, NEW sl \in SlotRecord, sl.state = "closed",
         SameOwner(slot[s], sl), Closes(slot[s], sl),
         Commit(s, NotifyPendingDrained([Here(s) EXCEPT !.slot = sl])), home' = home
  PROVE  OwedInv'
<1> DEFINE b == [Here(s) EXCEPT !.slot = sl]
           g == NotifyPendingDrained(b)
<1>1. Here(s) \in HState BY HereType DEF IInv
<1>2. b \in HState /\ b.slot = sl /\ SameTables(Here(s), b) BY <1>1 DEF HState, SameTables
<1> HIDE DEF b
<1>3. g \in HState BY <1>2, NotifyType
<1>4. SameTables(b, g) BY <1>2 DEF NotifyPendingDrained, HState, SameTables
<1>5. Woken(b.slot, g.slot) BY <1>2, NotifyFacts
<1>6. Commit(s, g) BY DEF b
<1> HIDE DEF g
<1>7. SameTables(Here(s), g) BY <1>2, <1>4 DEF SameTables
<1>8. SameOwner(slot[s], g.slot) BY <1>2, <1>5 DEF SameOwner, Woken
<1>9. Closes(slot[s], g.slot) BY <1>2, <1>5 DEF Closes, Woken
<1>10. QED BY <1>3, <1>6, <1>7, <1>8, <1>9, SlotCommitWork

\* terminate() returned: the slot is closed and owned nothing before.
LEMMA TerminateReturnsWork ==
  ASSUME IInv, OwedInv, IInv', NEW s \in Slots, TerminateReturns(s)
  PROVE  OwedInv'
<1> DEFINE sl == [slot[s] EXCEPT !.state = "closed", !.listening = FALSE, !.closing = "done"]
<1>1. /\ Commit(s, NotifyPendingDrained([Here(s) EXCEPT !.slot = sl])) /\ home' = home
  BY DEF TerminateReturns
<1>2. slot[s] \in SlotRecord BY DEF IInv, TypeOK
<1>3. sl \in SlotRecord /\ sl.state = "closed" BY <1>2 DEF SlotRecord
<1>4. SameOwner(slot[s], sl) /\ Closes(slot[s], sl) BY <1>2 DEF SlotRecord, SameOwner, Closes
<1> HIDE DEF sl
<1>5. QED BY <1>1, <1>3, <1>4, ClosedSlotWork

\* What a proxy call finds that is refused or accepted.
LEMMA CallOwed ==
  ASSUME IInv, OwedInv, NEW t \in Tasks, NEW i \in 1 .. MaxCalls, Invokes(t, i)
  PROVE  /\ home[t] \in Slots /\ home' = home /\ Here(home[t]) \in HState
         /\ WorkOf(t, {}, Here(home[t])) /\ Work(home[t], Here(home[t]), home, {})
         /\ Drained(Here(home[t]))
         /\ result[<<t, i>>] = "none" /\ phase[t] \in {"callback", "releasing"}
         /\ \A j \in 1 .. MaxCalls : i < j => result[<<t, j>>] = "none"
         /\ \A j \in 1 .. MaxCalls : j < i => result[<<t, j>>] # "none"
<1>1. /\ home[t] \in Slots /\ home' = home BY InvokesFacts
<1>2. Here(home[t]) \in HState BY <1>1, HereType DEF IInv
<1>3. Work(home[t], Here(home[t]), home, {}) /\ Drained(Here(home[t]))
  BY <1>1 DEF OwedInv, WorkInv
<1>4. WorkOf(t, {}, Here(home[t])) BY <1>3 DEF Work
<1>5. /\ phase[t] \in {"callback", "releasing"} /\ result[<<t, i>>] = "none"
      /\ i > 1 => result[<<t, i - 1>>] # "none"
  BY DEF Invokes
<1>6. Here(home[t]).result = result BY HereFields
<1>7. \A k, j \in 1 .. MaxCalls : k < j /\ result[<<t, k>>] = "none" => result[<<t, j>>] = "none"
  BY <1>4, <1>6 DEF WorkOf, CountInv
<1>8. \A j \in 1 .. MaxCalls : j < i => result[<<t, j>>] # "none"
  <2>1. SUFFICES ASSUME NEW j \in 1 .. MaxCalls, j < i PROVE result[<<t, j>>] # "none" OBVIOUS
  <2>2. i > 1 /\ i - 1 \in 1 .. MaxCalls /\ (j = i - 1 \/ j < i - 1) BY <2>1, PoolAssumption
  <2>3. QED BY <1>5, <1>7, <2>2
<1>9. QED BY <1>1, <1>2, <1>3, <1>4, <1>5, <1>7, <1>8

\* The result of one proxy call, beside all the others.
SetsCall(t, i, v, old, new) ==
  /\ \A u \in Tasks : \A j \in 0 .. MaxCalls :
       new[<<u, j>>] = IF u = t /\ j = i THEN v ELSE old[<<u, j>>]
  /\ \A u \in Tasks : new[Root(u)] = old[Root(u)]
  /\ \A r \in Requests : new[r] = IF r = <<t, i>> THEN v ELSE old[r]

\* Writing the promise of one proxy call leaves every other promise as it was.
LEMMA CallResult ==
  ASSUME NEW old \in [Requests -> Verdicts \cup {"none", "pending"}],
         NEW t \in Tasks, NEW i \in 1 .. MaxCalls, NEW v, NEW new,
         new = [old EXCEPT ![<<t, i>>] = v]
  PROVE  SetsCall(t, i, v, old, new)
<1>2. \A r \in Requests : new[r] = IF r = <<t, i>> THEN v ELSE old[r]
  BY RequestOf
<1>3. \A u \in Tasks : \A j \in 0 .. MaxCalls :
        <<u, j>> \in Requests /\ (<<u, j>> = <<t, i>> <=> u = t /\ j = i)
  BY RequestOf
<1>4. \A u \in Tasks : Root(u) \in Requests /\ Root(u) # <<t, i>> BY RequestOf
<1>5. QED BY <1>2, <1>3, <1>4 DEF SetsCall

\* A proxy call that is refused: the call had no promise that any place owns.
LEMMA RefusedCallWork ==
  ASSUME IInv, OwedInv, IInv', NEW t \in Tasks, NEW i \in 1 .. MaxCalls, Invokes(t, i),
         NEW v, v \notin {"none", "pending"}, result' = [result EXCEPT ![<<t, i>>] = v],
         UNCHANGED <<phase, lease, untracked>>,
         NEW s \in Slots, s = home[t], \A r \in Slots : r # s => slot'[r] = slot[r],
         SameOwner(slot[s], slot'[s]), Closes(slot[s], slot'[s])
  PROVE  OwedInv'
<1> DEFINE h == Here(s)
           g == Here(s)'
<1>1. /\ home' = home /\ h \in HState
      /\ WorkOf(t, {}, h) /\ Work(s, h, home, {}) /\ Drained(h)
      /\ result[<<t, i>>] = "none" /\ phase[t] \in {"callback", "releasing"}
      /\ \A j \in 1 .. MaxCalls : j < i => result[<<t, j>>] # "none"
  BY CallOwed
<1>2. g \in HState /\ Commit(s, g) BY <1>1, AsHandler
<1>3. /\ h.slot = slot[s] /\ h.phase = phase /\ h.lease = lease
      /\ h.result = result /\ h.untracked = untracked
      /\ g.slot = slot'[s] /\ g.phase = phase /\ g.lease = lease
      /\ g.result = result' /\ g.untracked = untracked
  BY HereFields
<1>4. /\ \A u \in Tasks : \A j \in 0 .. MaxCalls :
           result'[<<u, j>>] = IF u = t /\ j = i THEN v ELSE result[<<u, j>>]
      /\ \A u \in Tasks : result'[Root(u)] = result[Root(u)]
  <2>1. result \in [Requests -> Verdicts \cup {"none", "pending"}] BY DEF IInv, TypeOK
  <2>2. SetsCall(t, i, v, result, result') BY <2>1, CallResult
  <2>3. QED BY <2>2 DEF SetsCall
<1>5. SameOwner(h.slot, g.slot) /\ Closes(slot[s], g.slot) BY <1>3
<1> HIDE DEF h, g
<1>6. \A u \in Tasks : u # t => Alike(u, h, g) BY <1>3, <1>4 DEF Alike
<1>7. \A j \in 1 .. MaxCalls : j \in 0 .. MaxCalls BY PoolAssumption
<1>8. \A j \in 1 .. MaxCalls : g.result[<<t, j>>] = IF j = i THEN v ELSE h.result[<<t, j>>]
  BY <1>3, <1>4, <1>7
<1>9. h.result[<<t, i>>] = "none" BY <1>1, <1>3
<1>10. CallsInv(t, {}, h) /\ CountInv(t, h) /\ RootInv(t, {}, h) BY <1>1 DEF WorkOf
<1> DEFINE q == h.lease[t].queue
<1>11. CallsInv(t, {}, g)
  <2>1. \A k \in 1 .. Len(q) : g.result[q[k]] = "pending"
    <3>1. SUFFICES ASSUME NEW k \in 1 .. Len(q) PROVE g.result[q[k]] = "pending" OBVIOUS
    <3>2. PICK j \in 1 .. MaxCalls : q[k] = <<t, j>> BY <1>1, <1>10, OwnerEntry
    <3>3. h.result[q[k]] = "pending" BY <1>10 DEF CallsInv
    <3>4. j # i BY SMTT(30), <1>9, <3>2, <3>3
    <3>5. QED BY <1>8, <3>2, <3>3, <3>4
  <2>2. /\ \A k \in 1 .. Len(q) : q[k][1] = t /\ g.result[q[k]] = "pending" /\ q[k] \notin {}
        /\ \A k, l \in 1 .. Len(q) : k < l => q[k][2] < q[l][2]
        /\ q # <<>> => g.slot.activeLease = t
    BY <1>5, <1>10, <2>1 DEF CallsInv, SameOwner
  <2>3. \A j \in 1 .. MaxCalls :
          /\ <<t, j>> \in g.slot.pending =>
               /\ g.result[<<t, j>>] = "pending" /\ g.slot.activeLease = t /\ <<t, j>> \notin {}
               /\ \A k \in 1 .. Len(q) : j < q[k][2]
          /\ <<t, j>> \in {} => g.result[<<t, j>>] = "pending"
          /\ g.result[<<t, j>>] = "pending" =>
               <<t, j>> \in g.slot.pending \/ <<t, j>> \in {} \/ \E k \in 1 .. Len(q) : q[k] = <<t, j>>
    BY ZenonT(60), <1>5, <1>8, <1>9, <1>10 DEF CallsInv, SameOwner
  <2>4. g.lease[t].queue = q BY <1>3
  <2> HIDE DEF q
  <2>5. QED BY <2>2, <2>3, <2>4 DEF CallsInv
<1>12. OpenCalls(t, g) = OpenCalls(t, h) BY <1>3, <1>8, <1>9 DEF OpenCalls
<1>13. CountInv(t, g)
  <2>1. \A k, j \in 1 .. MaxCalls : k < j /\ g.result[<<t, k>>] = "none" => g.result[<<t, j>>] = "none"
    <3>1. SUFFICES ASSUME NEW k \in 1 .. MaxCalls, NEW j \in 1 .. MaxCalls, k < j,
                          g.result[<<t, k>>] = "none"
                   PROVE  g.result[<<t, j>>] = "none"
      OBVIOUS
    <3>2. k # i /\ h.result[<<t, k>>] = "none" BY <1>8, <3>1
    <3>3. h.result[<<t, j>>] = "none" BY <1>10, <3>1, <3>2 DEF CountInv
    <3>4. j # i BY <1>1, <1>3, <3>1, <3>2
    <3>5. QED BY <1>8, <3>3, <3>4
  <2>2. \A j \in 1 .. MaxCalls : <<t, j>> \in g.untracked => g.result[<<t, j>>] \notin {"none", "pending"}
    BY <1>3, <1>8, <1>10 DEF CountInv
  <2>3. g.phase[t] \notin {"idle", "waiting", "admitted"} BY <1>1, <1>3
  <2>4. QED BY <1>3, <1>10, <1>12, <2>1, <2>2, <2>3 DEF CountInv
<1>14. RootInv(t, {}, g) BY <1>3, <1>5, <1>10 DEF RootInv, SameOwner
<1>15. WorkOf(t, {}, g) BY <1>11, <1>13, <1>14 DEF WorkOf
<1>16. \A u \in Tasks : home[u] = s => WorkOf(u, {}, g)
  <2>1. SUFFICES ASSUME NEW u \in Tasks, home[u] = s, u # t PROVE WorkOf(u, {}, g) BY <1>15
  <2>2. WorkOf(u, {}, h) BY <1>1, <2>1 DEF Work
  <2>3. QED BY <1>1, <1>5, <1>6, <2>1, <2>2, WorkOfAlike DEF SameOwner
<1>17. Work(s, g, home', {}) BY <1>1, <1>3, <1>5, <1>16 DEF Work, WaitingOn, SameOwner
<1>18. Drained(g) BY <1>1, <1>3, <1>5 DEF Drained, SameOwner
<1>19. Elsewhere(s, h, g, home') BY <1>1, <1>6 DEF Elsewhere
<1>20. Promises(h, g) BY <1>3, <1>4 DEF Promises, Promise
<1>21. Rehomed(s) BY <1>1 DEF Rehomed
<1>22. QED BY <1>1, <1>2, <1>5, <1>17, <1>18, <1>19, <1>20, <1>21, CommitWork DEF h

\* A proxy call after the callback, the pool or the slot has ended is refused at once.
LEMMA RefuseCallWork ==
  ASSUME IInv, OwedInv, IInv', NEW t \in Tasks, NEW i \in 1 .. MaxCalls, RefuseCall(t, i)
  PROVE  OwedInv'
<1>1. /\ Invokes(t, i) /\ CallRefusal(t) # "none"
      /\ result' = [result EXCEPT ![<<t, i>>] = CallRefusal(t)]
      /\ UNCHANGED <<slot, phase, lease, untracked>>
  BY DEF RefuseCall
<1>2. CallRefusal(t) \notin {"none", "pending"} BY <1>1 DEF CallRefusal
<1>3. PICK s \in Slots : s = home[t] BY <1>1, CallOwed
<1>4. SameOwner(slot[s], slot'[s]) BY <1>1 DEF SameOwner
<1>5. Closes(slot[s], slot'[s]) BY <1>1 DEF Closes, OwedInv, BarrierInv
<1>6. \A r \in Slots : slot'[r] = slot[r] BY <1>1
<1>7. QED BY <1>1, <1>2, <1>3, <1>4, <1>5, <1>6, RefusedCallWork

\* A proxy call that finds the FIFOs of its slot full is rejected at once.
LEMMA RejectCallFullWork ==
  ASSUME IInv, OwedInv, IInv', NEW t \in Tasks, NEW i \in 1 .. MaxCalls, RejectCallFull(t, i)
  PROVE  OwedInv'
<1>1. PICK s \in Slots : s = home[t] BY CallOwed DEF RejectCallFull
<1> DEFINE sl == [slot[s] EXCEPT !.rejected = slot[s].rejected + 1]
<1>2. /\ Invokes(t, i) /\ slot' = [slot EXCEPT ![s] = sl]
      /\ result' = [result EXCEPT ![<<t, i>>] = "queueFull"]
      /\ UNCHANGED <<phase, lease, untracked>>
  BY <1>1 DEF RejectCallFull
<1>3. slot \in [Slots -> SlotRecord] BY DEF IInv, TypeOK
<1>4. SameOwner(slot[s], sl) /\ sl.state = slot[s].state /\ sl.closing = slot[s].closing
  BY <1>3 DEF SameOwner, SlotRecord
<1>5. Closes(slot[s], sl) BY <1>4 DEF Closes, OwedInv, BarrierInv
<1> HIDE DEF sl
<1>6. slot'[s] = sl /\ \A r \in Slots : r # s => slot'[r] = slot[r] BY <1>2, <1>3
<1>7. SameOwner(slot[s], slot'[s]) /\ Closes(slot[s], slot'[s]) BY <1>4, <1>5, <1>6
<1>8. "queueFull" \notin {"none", "pending"} OBVIOUS
<1>9. QED BY <1>1, <1>2, <1>6, <1>7, <1>8, RefusedCallWork

\* One open call less.
LEMMA OneLess ==
  ASSUME NEW A \in SUBSET (1 .. MaxCalls), NEW i \in A
  PROVE  /\ Cardinality(A) \in Nat /\ Cardinality(A \ {i}) = Cardinality(A) - 1
<1>1. IsFiniteSet(1 .. MaxCalls) BY FS_Interval, PoolAssumption
<1>2. IsFiniteSet(A) BY <1>1, FS_Subset
<1>3. QED BY <1>2, FS_RemoveElement, FS_CardinalityType

\* settleLeaseCall(): the lease counts the call no longer.
LEMMA SettleLeaseCallWork ==
  ASSUME IInv, OwedInv, IInv', NEW t \in Tasks, NEW i \in 1 .. MaxCalls, SettleLeaseCall(t, i)
  PROVE  OwedInv'
<1>1. home[t] \in Slots
  <2>1. SUFFICES ASSUME home[t] \notin Slots PROVE FALSE OBVIOUS
  <2>2. roundRobin \in Slots BY DEF IInv, TypeOK
  <2>3. Untouched(t, Here(roundRobin)) BY <2>1, <2>2 DEF OwedInv, WorkInv
  <2>4. Here(roundRobin).untracked = untracked BY HereFields
  <2>5. <<t, i>> \notin untracked BY <2>3, <2>4 DEF Untouched
  <2>6. QED BY <2>5 DEF SettleLeaseCall
<1>2. PICK s \in Slots : s = home[t] BY <1>1
<1> DEFINE h == Here(s)
           g == Here(s)'
           l == [lease[t] EXCEPT !.pendingCalls = lease[t].pendingCalls - 1]
<1>3. /\ lease' = [lease EXCEPT ![t] = l] /\ untracked' = untracked \ {<<t, i>>}
      /\ <<t, i>> \in untracked
      /\ UNCHANGED <<slot, phase, result, home>>
  BY DEF SettleLeaseCall
<1>4. lease \in [Tasks -> LeaseRecord] BY DEF IInv, TypeOK
<1>5. /\ l.queue = lease[t].queue /\ l.released = lease[t].released
      /\ l.pendingCalls = lease[t].pendingCalls - 1
  BY <1>4 DEF LeaseRecord
<1> HIDE DEF l
<1>6. /\ lease'[t] = l /\ \A u \in Tasks : u # t => lease'[u] = lease[u] BY <1>3, <1>4
<1>7. g \in HState /\ Commit(s, g) BY <1>3, AsHandler
<1>8. h \in HState /\ Work(s, h, home, {}) /\ Drained(h) BY HereType DEF IInv, OwedInv, WorkInv
<1>9. /\ h.slot = slot[s] /\ h.phase = phase /\ h.lease = lease
      /\ h.result = result /\ h.untracked = untracked
      /\ g.slot = slot'[s] /\ g.phase = phase' /\ g.lease = lease'
      /\ g.result = result' /\ g.untracked = untracked'
  BY HereFields
<1>10. /\ g.slot = h.slot /\ g.phase = h.phase /\ g.result = h.result
       /\ g.untracked = h.untracked \ {<<t, i>>} /\ <<t, i>> \in h.untracked
       /\ g.lease[t].queue = h.lease[t].queue /\ g.lease[t].released = h.lease[t].released
       /\ g.lease[t].pendingCalls = h.lease[t].pendingCalls - 1
       /\ \A u \in Tasks : u # t => g.lease[u] = h.lease[u]
       /\ home' = home
  BY <1>3, <1>5, <1>6, <1>9
<1>11. h.slot = slot[s] BY <1>9
<1> HIDE DEF h, g
<1>12. CallsInv(t, {}, h) /\ CountInv(t, h) /\ RootInv(t, {}, h) BY <1>2, <1>8 DEF Work, WorkOf
<1>13. CallsInv(t, {}, g) BY <1>10, <1>12 DEF CallsInv
<1>14. RootInv(t, {}, g) BY <1>10, <1>12 DEF RootInv
<1>15. OpenCalls(t, g) = OpenCalls(t, h) \ {i} /\ i \in OpenCalls(t, h)
  <2>1. h.result[<<t, i>>] # "pending" BY <1>10, <1>12 DEF CountInv
  <2>2. \A j \in 1 .. MaxCalls : <<t, j>> = <<t, i>> <=> j = i OBVIOUS
  <2>3. QED BY <1>10, <2>1, <2>2 DEF OpenCalls
<1>16. CountInv(t, g)
  <2>1. OpenCalls(t, h) \in SUBSET (1 .. MaxCalls) BY DEF OpenCalls
  <2>2. Cardinality(OpenCalls(t, g)) = Cardinality(OpenCalls(t, h)) - 1 BY <1>15, <2>1, OneLess
  <2>3. g.lease[t].pendingCalls = Cardinality(OpenCalls(t, g)) BY <1>10, <1>12, <2>2 DEF CountInv
  <2>4. g.lease[t].released => OpenCalls(t, g) = {} BY <1>10, <1>12, <1>15 DEF CountInv
  <2>5. QED BY <1>10, <1>12, <2>3, <2>4 DEF CountInv
<1>17. \A u \in Tasks : u # t => Alike(u, h, g)
  <2>1. \A u \in Tasks : u # t => \A j \in 1 .. MaxCalls : <<u, j>> # <<t, i>> OBVIOUS
  <2>2. QED BY <1>10, <2>1 DEF Alike
<1>18. \A u \in Tasks : home[u] = s => WorkOf(u, {}, g)
  <2>1. SUFFICES ASSUME NEW u \in Tasks, home[u] = s PROVE WorkOf(u, {}, g) OBVIOUS
  <2>2. CASE u = t BY <1>13, <1>14, <1>16, <2>2 DEF WorkOf
  <2>3. CASE u # t
    <3>1. WorkOf(u, {}, h) BY <1>8, <2>1 DEF Work
    <3>2. QED BY <1>8, <1>10, <1>17, <2>3, <3>1, WorkOfAlike
  <2>4. QED BY <2>2, <2>3
<1>19. h.slot.activeLease # None =>
         g.lease[h.slot.activeLease].queue = h.lease[h.slot.activeLease].queue
  <2>1. h.slot.activeLease # None => h.slot.activeLease \in Tasks BY <1>8 DEF HState, SlotRecord
  <2>2. QED BY <1>10, <2>1
<1>20. Work(s, g, home', {}) BY <1>8, <1>10, <1>18, <1>19 DEF Work, WaitingOn
<1>21. Drained(g) BY <1>8, <1>10, <1>19 DEF Drained
<1>22. Elsewhere(s, h, g, home') BY <1>2, <1>10, <1>17 DEF Elsewhere
<1>23. Promises(h, g) BY <1>10 DEF Promises, Promise
<1>24. Closes(slot[s], g.slot) BY <1>10, <1>11 DEF Closes, OwedInv, BarrierInv
<1>25. Rehomed(s) BY <1>10 DEF Rehomed
<1>26. QED BY <1>7, <1>20, <1>21, <1>22, <1>23, <1>24, <1>25, CommitWork DEF h

-----------------------------------------------------------------------------
(* Handlers of one slot.                                                    *)

\* What a promise can become in a handler that fails no slot and closes none.
Ordinary == (Verdicts \cup {"pending"}) \ {"closed", "terminal"}
Mild == \A r \in Requests : result[r] = "pending" => result'[r] \notin {"closed", "terminal"}

\* A handler built from helpers that keep the work of the slot.
LEMMA HandlerWork ==
  ASSUME IInv, OwedInv, NEW s \in Slots, NEW g \in HState, Commit(s, g), Rehomed(s),
         Work(s, g, home', {}), Drained(g), NEW V, Keeps(s, Here(s), g, home', V)
  PROVE  OwedInv'
<1>1. Elsewhere(s, Here(s), g, home') /\ Promises(Here(s), g) BY DEF Keeps
<1>2. Here(s).slot = slot[s] BY HereFields
<1>3. Closes(slot[s], g.slot) BY <1>2 DEF Keeps, Closes, OwedInv, BarrierInv
<1>4. QED BY <1>1, <1>3, CommitWork

\* A handler whose promises become ordinary results fails no slot and closes none.
LEMMA HandlerMild ==
  ASSUME IInv, NEW s \in Slots, NEW g \in HState, Commit(s, g),
         NEW hm, Keeps(s, Here(s), g, hm, Ordinary)
  PROVE  Mild
<1>1. Here(s).result = result /\ result' = g.result BY HereFields DEF Commit
<1>2. QED BY <1>1 DEF Mild, Keeps, Ordinary

\* So does a step that writes one promise, with an ordinary result.
LEMMA SameResultMild ==
  ASSUME NEW r \in Requests, NEW v, v \notin {"closed", "terminal"}, IInv,
         result' = result \/ result' = [result EXCEPT ![r] = v]
  PROVE  Mild
<1>1. result \in [Requests -> Verdicts \cup {"none", "pending"}] BY DEF IInv, TypeOK
<1>2. QED BY <1>1 DEF Mild

\* One open call more.
LEMMA OneMore ==
  ASSUME NEW A \in SUBSET (1 .. MaxCalls), NEW i, i \notin A
  PROVE  /\ Cardinality(A) \in Nat /\ Cardinality(A \cup {i}) = Cardinality(A) + 1
<1>1. IsFiniteSet(1 .. MaxCalls) BY FS_Interval, PoolAssumption
<1>2. IsFiniteSet(A) BY <1>1, FS_Subset
<1>3. QED BY <1>2, FS_AddElement, FS_CardinalityType

\* The record of an accepted proxy call, field by field.
CallTaken(t, i, h, g) ==
  /\ g.slot = h.slot /\ g.phase = h.phase /\ g.untracked = h.untracked
  /\ SetsCall(t, i, "pending", h.result, g.result)
  /\ \A u \in Tasks : u # t => g.lease[u] = h.lease[u]
  /\ g.lease[t].queue = h.lease[t].queue /\ g.lease[t].released = h.lease[t].released
  /\ g.lease[t].pendingCalls = h.lease[t].pendingCalls + 1

\* The pool takes a proxy call: what its record is, field by field.
LEMMA AcceptedCallFields ==
  ASSUME NEW h \in HState, NEW t \in Tasks, NEW i \in 1 .. MaxCalls
  PROVE  CallTaken(t, i, h, AcceptedCall(h, t, i))
<1> DEFINE l == [h.lease[t] EXCEPT !.pendingCalls = h.lease[t].pendingCalls + 1]
           rs == [h.result EXCEPT ![<<t, i>>] = "pending"]
           ls == [h.lease EXCEPT ![t] = l]
           g == AcceptedCall(h, t, i)
<1>1. h.lease \in [Tasks -> LeaseRecord] /\ h.result \in [Requests -> Verdicts \cup {"none", "pending"}]
  BY DEF HState
<1>2. /\ l.queue = h.lease[t].queue /\ l.released = h.lease[t].released
      /\ l.pendingCalls = h.lease[t].pendingCalls + 1
  BY <1>1 DEF LeaseRecord
<1>3. SetsCall(t, i, "pending", h.result, rs) BY <1>1, CallResult
<1> HIDE DEF l
<1>4. ls[t] = l /\ \A u \in Tasks : u # t => ls[u] = h.lease[u] BY <1>1
<1>5. g = [h EXCEPT !.result = rs, !.lease = ls] BY DEF AcceptedCall, l
<1> HIDE DEF rs, ls, g
<1>6. g.slot = h.slot /\ g.phase = h.phase /\ g.untracked = h.untracked /\ g.result = rs /\ g.lease = ls
  BY <1>5 DEF HState
<1> HIDE <1>5
<1>7. QED BY <1>2, <1>3, <1>4, <1>6 DEF CallTaken, g

\* The slot of a callback whose proxy call is accepted.
LEMMA AcceptingSlot ==
  ASSUME IInv, NEW t \in Tasks, NEW s \in Slots, s = home[t], CallRefusal(t) = "none"
  PROVE  /\ slot[s].activeLease = t /\ slot[s].state = "running"
         /\ slot[s].closing \in {"open", "lease"} /\ ~lease[t].released
<1>1. slot[s] \in SlotRecord BY DEF IInv, TypeOK
<1>2. slot[s].activeLease = t /\ slot[s].state = "running" /\ ~lease[t].released
  BY <1>1 DEF CallRefusal, SlotRecord
<1>3. slot[s].closing \in {"open", "lease"}
  <2>1. CloseInv(slot[s]) BY SMTT(30) DEF IInv, SlotsInv, SlotInv
  <2>2. QED BY <1>1, <1>2, <2>1, PoolAssumption DEF CloseInv
<1>4. QED BY <1>2, <1>3

\* trackLeaseCall(): the new call is out of its place, behind all others of the lease.
LEMMA AcceptedCallWork ==
  ASSUME IInv, OwedInv, NEW t \in Tasks, NEW i \in 1 .. MaxCalls, Invokes(t, i),
         NEW s \in Slots, s = home[t], CallRefusal(t) = "none",
         NEW g, CallTaken(t, i, Here(s), g)
  PROVE  /\ Work(s, g, home, {<<t, i>>}) /\ Keeps(s, Here(s), g, home, Ordinary)
         /\ \A k \in 1 .. Len(g.lease[t].queue) : g.lease[t].queue[k][2] < i
         /\ \A j \in 1 .. MaxCalls : <<t, j>> \in g.slot.pending => j < i
<1> DEFINE h == Here(s)
           X == {<<t, i>>}
           q == h.lease[t].queue
<1>1. /\ h \in HState /\ WorkOf(t, {}, h) /\ Work(s, h, home, {})
      /\ result[<<t, i>>] = "none" /\ phase[t] \in {"callback", "releasing"}
      /\ \A j \in 1 .. MaxCalls : i < j => result[<<t, j>>] = "none"
      /\ \A j \in 1 .. MaxCalls : j < i => result[<<t, j>>] # "none"
  BY CallOwed
<1>2. h.result = result /\ h.phase = phase /\ h.slot = slot[s] /\ h.lease = lease BY HereFields
<1>3. ~h.lease[t].released BY <1>2, AcceptingSlot
<1>4. CallTaken(t, i, h, g) OBVIOUS
<1>5. /\ h.result[<<t, i>>] = "none" /\ h.phase[t] \in {"callback", "releasing"}
      /\ \A j \in 1 .. MaxCalls : i < j => h.result[<<t, j>>] = "none"
      /\ \A j \in 1 .. MaxCalls : j < i => h.result[<<t, j>>] # "none"
  BY <1>1, <1>2
<1> HIDE DEF h
<1>6. /\ g.slot = h.slot /\ g.phase = h.phase /\ g.untracked = h.untracked
      /\ \A u \in Tasks : u # t => g.lease[u] = h.lease[u]
      /\ g.lease[t].queue = q /\ g.lease[t].released = h.lease[t].released
      /\ g.lease[t].pendingCalls = h.lease[t].pendingCalls + 1
      /\ \A u \in Tasks : \A j \in 0 .. MaxCalls :
           g.result[<<u, j>>] = IF u = t /\ j = i THEN "pending" ELSE h.result[<<u, j>>]
      /\ \A u \in Tasks : g.result[Root(u)] = h.result[Root(u)]
      /\ \A r \in Requests : g.result[r] = IF r = <<t, i>> THEN "pending" ELSE h.result[r]
  BY <1>4 DEF CallTaken, SetsCall
<1>7. \A j \in 1 .. MaxCalls : j \in 0 .. MaxCalls BY PoolAssumption
<1>8. \A j \in 1 .. MaxCalls : g.result[<<t, j>>] = IF j = i THEN "pending" ELSE h.result[<<t, j>>]
  BY <1>6, <1>7
<1>9. CallsInv(t, {}, h) /\ CountInv(t, h) /\ RootInv(t, {}, h) BY <1>1 DEF WorkOf
<1>10. \A j \in 1 .. MaxCalls : (<<t, j>> \in X <=> j = i) OBVIOUS
<1>11. \A k \in 1 .. Len(q) : q[k] \notin X /\ g.result[q[k]] = "pending" /\ q[k][2] < i
  <2>1. SUFFICES ASSUME NEW k \in 1 .. Len(q)
                 PROVE  q[k] \notin X /\ g.result[q[k]] = "pending" /\ q[k][2] < i
    OBVIOUS
  <2>2. PICK j \in 1 .. MaxCalls : q[k] = <<t, j>> BY <1>1, <1>9, OwnerEntry
  <2>3. h.result[q[k]] = "pending" BY <1>9 DEF CallsInv
  <2>4. j # i /\ ~(i < j) BY <1>5, <2>2, <2>3
  <2>5. q[k][2] = j BY <2>2
  <2>6. j < i BY <2>4, PoolAssumption
  <2>7. g.result[q[k]] = "pending" BY <1>8, <2>2, <2>3, <2>4
  <2>8. q[k] \notin X BY <1>10, <2>2, <2>4
  <2>9. QED BY <2>5, <2>6, <2>7, <2>8
<1>12. \A j \in 1 .. MaxCalls : <<t, j>> \in h.slot.pending => j < i
  <2>1. SUFFICES ASSUME NEW j \in 1 .. MaxCalls, <<t, j>> \in h.slot.pending PROVE j < i OBVIOUS
  <2>2. h.result[<<t, j>>] = "pending" BY <1>9, <2>1 DEF CallsInv
  <2>3. j # i /\ ~(i < j) BY <1>5, <2>2
  <2>4. QED BY <2>3, PoolAssumption
<1>13. CallsInv(t, X, g)
  <2>1. /\ \A k \in 1 .. Len(q) : q[k][1] = t /\ g.result[q[k]] = "pending" /\ q[k] \notin X
        /\ \A k, l \in 1 .. Len(q) : k < l => q[k][2] < q[l][2]
        /\ q # <<>> => g.slot.activeLease = t
    BY <1>6, <1>9, <1>11 DEF CallsInv
  <2>2. ASSUME NEW j \in 1 .. MaxCalls
        PROVE  /\ <<t, j>> \in g.slot.pending =>
                    /\ g.result[<<t, j>>] = "pending" /\ g.slot.activeLease = t /\ <<t, j>> \notin X
                    /\ \A k \in 1 .. Len(q) : j < q[k][2]
               /\ <<t, j>> \in X => g.result[<<t, j>>] = "pending"
               /\ g.result[<<t, j>>] = "pending" =>
                    <<t, j>> \in g.slot.pending \/ <<t, j>> \in X \/ \E k \in 1 .. Len(q) : q[k] = <<t, j>>
    <3>1. /\ <<t, j>> \in h.slot.pending =>
               /\ h.result[<<t, j>>] = "pending" /\ h.slot.activeLease = t
               /\ \A k \in 1 .. Len(q) : j < q[k][2]
          /\ h.result[<<t, j>>] = "pending" =>
               <<t, j>> \in h.slot.pending \/ \E k \in 1 .. Len(q) : q[k] = <<t, j>>
      BY <1>9 DEF CallsInv
    <3>2. g.result[<<t, j>>] = (IF j = i THEN "pending" ELSE h.result[<<t, j>>])
      BY <1>8
    <3>3. <<t, j>> \in X <=> j = i BY <1>10
    <3>4. g.slot = h.slot BY <1>6
    <3>5. <<t, j>> \in h.slot.pending => j < i BY <1>12
    <3> HIDE DEF q, X
    <3>6. QED BY <3>1, <3>2, <3>3, <3>4, <3>5
  <2>3. g.lease[t].queue = q BY <1>6
  <2> HIDE DEF q, X
  <2>4. QED BY <2>1, <2>2, <2>3 DEF CallsInv
<1>14. OpenCalls(t, g) = OpenCalls(t, h) \cup {i} /\ i \notin OpenCalls(t, h)
  <2>1. <<t, i>> \notin h.untracked BY <1>5, <1>9 DEF CountInv
  <2>2. QED BY <1>5, <1>6, <1>8, <2>1 DEF OpenCalls
<1>15. CountInv(t, g)
  <2>1. OpenCalls(t, h) \in SUBSET (1 .. MaxCalls) BY DEF OpenCalls
  <2>2. Cardinality(OpenCalls(t, g)) = Cardinality(OpenCalls(t, h)) + 1 BY <1>14, <2>1, OneMore
  <2>3. g.lease[t].pendingCalls = Cardinality(OpenCalls(t, g)) BY <1>6, <1>9, <2>2 DEF CountInv
  <2>4. \A j \in 1 .. MaxCalls : <<t, j>> \in g.untracked => g.result[<<t, j>>] \notin {"none", "pending"}
    <3>1. \A j \in 1 .. MaxCalls : <<t, j>> \in h.untracked => h.result[<<t, j>>] \notin {"none", "pending"}
      BY <1>9 DEF CountInv
    <3>2. QED BY <1>5, <1>6, <1>8, <3>1
  <2>5. \A k, j \in 1 .. MaxCalls : k < j /\ g.result[<<t, k>>] = "none" => g.result[<<t, j>>] = "none"
    <3>1. SUFFICES ASSUME NEW k \in 1 .. MaxCalls, NEW j \in 1 .. MaxCalls, k < j,
                          g.result[<<t, k>>] = "none"
                   PROVE  g.result[<<t, j>>] = "none"
      OBVIOUS
    <3>2. k # i /\ h.result[<<t, k>>] = "none" BY <1>8, <3>1
    <3>3. h.result[<<t, j>>] = "none" BY <1>9, <3>1, <3>2 DEF CountInv
    <3>4. j # i BY <1>5, <3>1, <3>2
    <3>5. QED BY <1>8, <3>3, <3>4
  <2>6. g.phase[t] \notin {"idle", "waiting", "admitted"} BY <1>5, <1>6
  <2>7. ~g.lease[t].released BY <1>3, <1>6
  <2>8. QED BY <2>3, <2>4, <2>5, <2>6, <2>7 DEF CountInv
<1>16. RootInv(t, X, g) BY <1>6, <1>9 DEF RootInv
<1>17. WorkOf(t, X, g) BY <1>13, <1>15, <1>16 DEF WorkOf
<1>18. \A u \in Tasks : u # t => Alike(u, h, g) BY <1>6 DEF Alike
<1>19. \A u \in Tasks : home[u] = s => WorkOf(u, X, g)
  <2>1. SUFFICES ASSUME NEW u \in Tasks, home[u] = s, u # t PROVE WorkOf(u, X, g) BY <1>17
  <2>2. WorkOf(u, {}, h) BY <1>1, <2>1 DEF Work
  <2>3. WorkOf(u, {}, g) BY <1>1, <1>6, <1>18, <2>1, <2>2, WorkOfAlike
  <2>4. \A c : c \in X => c[1] # u BY <2>1
  <2>5. CallsInv(u, X, g)
    <3>1. CallsInv(u, {}, g) BY <2>3 DEF WorkOf
    <3> HIDE DEF X
    <3>2. \A j \in 1 .. MaxCalls : <<u, j>> \notin X BY <2>4
    <3>3. \A k \in 1 .. Len(g.lease[u].queue) : g.lease[u].queue[k] \notin X
      BY <2>4, <3>1 DEF CallsInv
    <3>4. QED BY <3>1, <3>2, <3>3 DEF CallsInv
  <2>6. RootInv(u, X, g) /\ CountInv(u, g) BY <2>3 DEF WorkOf, RootInv
  <2>7. QED BY <2>5, <2>6 DEF WorkOf
<1>20. WaitingOn(g.slot, g.lease) = WaitingOn(h.slot, h.lease)
  <2>1. h.slot.activeLease # None => h.slot.activeLease \in Tasks BY <1>1 DEF HState, SlotRecord
  <2>2. h.slot.activeLease # None =>
          g.lease[h.slot.activeLease].queue = h.lease[h.slot.activeLease].queue
    BY <1>6, <2>1
  <2>3. QED BY <1>6, <2>2 DEF WaitingOn
<1>21. \A r \in g.slot.pending \cup X : home[r[1]] = s
  <2>1. \A r \in h.slot.pending : home[r[1]] = s BY <1>1 DEF Work
  <2>2. QED BY <1>6, <2>1
<1>22. Work(s, g, home, X) BY <1>1, <1>19, <1>20, <1>21 DEF Work
<1>23. Keeps(s, h, g, home, Ordinary)
  <2>1. Elsewhere(s, h, g, home) BY <1>18 DEF Elsewhere
  <2>2. Promises(h, g) BY <1>6 DEF Promises, Promise
  <2>3. QED BY <1>6, <2>1, <2>2 DEF Keeps, Ordinary
<1>24. QED BY <1>6, <1>11, <1>12, <1>22, <1>23 DEF h

\* A proxy call on an idle worker is sent at once; if the send fails the queue is drained.
LEMMA CallNowWork ==
  ASSUME IInv, OwedInv, NEW t \in Tasks, NEW i \in 1 .. MaxCalls, CallNow(t, i)
  PROVE  OwedInv' /\ Mild
<1>1. PICK s \in Slots : s = home[t] BY CallOwed DEF CallNow
<1> DEFINE b == Here(s)
           h == AcceptedCall(b, t, i)
           g == DispatchRequest(s, h, <<t, i>>)
<1>2. /\ Invokes(t, i) /\ Commit(s, g) /\ slot[s].inflight = 0 /\ lease[t].queue = <<>>
      /\ CallRefusal(t) = "none"
  BY <1>1 DEF CallNow, CallFree
<1>3. b \in HState /\ home' = home BY <1>1, <1>2, CallOwed
<1>4. CallTaken(t, i, b, h) BY <1>3, AcceptedCallFields
<1>5. HInv(s, h, home) BY AcceptedCallInv
<1>6. Work(s, h, home, {<<t, i>>}) /\ Keeps(s, b, h, home, Ordinary)
  BY <1>1, <1>2, <1>4, AcceptedCallWork
<1>7. /\ slot[s].activeLease = t /\ slot[s].state = "running"
      /\ slot[s].closing \in {"open", "lease"}
  BY <1>1, <1>2, AcceptingSlot
<1>8. b.slot = slot[s] /\ b.lease = lease BY HereFields
<1> HIDE DEF h, b
<1>9. h.slot = slot[s] /\ h.lease[t].queue = <<>> BY <1>2, <1>4, <1>8 DEF CallTaken
<1>10. i \in 0 .. MaxCalls /\ i > 0 /\ i # 0 BY PoolAssumption
<1>11. DrainVerdicts \subseteq Ordinary BY DEF DrainVerdicts, Ordinary, Verdicts
<1>12. \A k \in 1 .. Len(h.lease[t].queue) : i < h.lease[t].queue[k][2] BY <1>9
<1>13. h.slot.state = "running" /\ h.slot.inflight = 0 /\ h.slot.closing \in {"open", "lease"}
       /\ h.slot.activeLease = t
  BY <1>2, <1>7, <1>9
<1>14. g \in HState BY <1>5, <1>10, <1>13, DispatchRequestInv DEF HInv
<1>15. Work(s, g, home, {}) /\ Drained(g) /\ Keeps(s, h, g, home, Ordinary)
  BY <1>5, <1>6, <1>10, <1>11, <1>12, <1>13, DispatchRequestWork
<1> HIDE DEF g
<1>16. Keeps(s, b, g, home, Ordinary) BY <1>6, <1>15, KeepsTrans
<1>17. Rehomed(s) BY <1>3 DEF Rehomed
<1>18. Keeps(s, Here(s), g, home', Ordinary) /\ Work(s, g, home', {}) BY <1>3, <1>15, <1>16 DEF b
<1>19. Commit(s, g) BY <1>2 DEF g
<1>20. OwedInv' BY <1>14, <1>15, <1>17, <1>18, <1>19, HandlerWork
<1>21. Mild BY <1>14, <1>18, <1>19, HandlerMild
<1>22. QED BY <1>20, <1>21

\* One entry more fits behind a FIFO that is not full.
LEMMA OneMoreFits ==
  ASSUME NEW a \in Nat, NEW b \in Nat, NEW c, c = b + 1, NEW n \in Nat, a + b < n
  PROVE  a + c <= n
OBVIOUS

\* The call joins the end of its owner FIFO.
CallQueued(t, i, h, g) ==
  /\ g.slot = h.slot /\ g.phase = h.phase /\ g.untracked = h.untracked /\ g.result = h.result
  /\ \A u \in Tasks : u # t => g.lease[u] = h.lease[u]
  /\ g.lease[t].queue = Append(h.lease[t].queue, <<t, i>>)
  /\ g.lease[t].released = h.lease[t].released
  /\ g.lease[t].pendingCalls = h.lease[t].pendingCalls

\* The count of a lease depends on the results, the phase and the lease of its call only.
LEMMA SameCount ==
  ASSUME NEW t, NEW h, NEW g, CountInv(t, h),
         g.result = h.result, g.untracked = h.untracked, g.phase = h.phase,
         g.lease[t].pendingCalls = h.lease[t].pendingCalls, g.lease[t].released = h.lease[t].released
  PROVE  CountInv(t, g)
<1>1. OpenCalls(t, g) = OpenCalls(t, h) BY DEF OpenCalls
<1>2. \A i \in 1 .. MaxCalls : <<t, i>> \in g.untracked => g.result[<<t, i>>] \notin {"none", "pending"}
  BY DEF CountInv
<1>3. \A i, j \in 1 .. MaxCalls : i < j /\ g.result[<<t, i>>] = "none" => g.result[<<t, j>>] = "none"
  BY DEF CountInv
<1>4. g.lease[t].pendingCalls = Cardinality(OpenCalls(t, g)) BY <1>1 DEF CountInv
<1>5. g.lease[t].released => OpenCalls(t, g) = {} BY <1>1 DEF CountInv
<1>6. g.phase[t] \in {"idle", "waiting", "admitted"} => \A i \in 1 .. MaxCalls : g.result[<<t, i>>] = "none"
  BY DEF CountInv
<1>7. QED BY <1>2, <1>3, <1>4, <1>5, <1>6 DEF CountInv

\* A proxy call joins the end of its owner's FIFO: the order of the calls is kept.
LEMMA AppendedCallWork ==
  ASSUME NEW s, NEW hm, NEW h \in HState, NEW t \in Tasks, NEW i \in 1 .. MaxCalls, hm[t] = s,
         Work(s, h, hm, {<<t, i>>}), h.slot.activeLease = t,
         WaitingOn(h.slot, h.lease) < QueueCapacity,
         \A k \in 1 .. Len(h.lease[t].queue) : h.lease[t].queue[k][2] < i,
         \A j \in 1 .. MaxCalls : <<t, j>> \in h.slot.pending => j < i,
         NEW g, CallQueued(t, i, h, g), NEW V
  PROVE  Work(s, g, hm, {}) /\ Keeps(s, h, g, hm, V)
<1> DEFINE X == {<<t, i>>}
           q == h.lease[t].queue
           p == g.lease[t].queue
<1>1. q \in Seq(Calls) /\ Len(q) \in Nat BY SMTT(30) DEF HState, LeaseRecord
<1>2. /\ g.slot = h.slot /\ g.phase = h.phase /\ g.untracked = h.untracked /\ g.result = h.result
      /\ \A u \in Tasks : u # t => g.lease[u] = h.lease[u]
      /\ p = Append(q, <<t, i>>)
      /\ g.lease[t].released = h.lease[t].released
      /\ g.lease[t].pendingCalls = h.lease[t].pendingCalls
  BY DEF CallQueued
<1>3. <<t, i>> \in Calls BY RequestOf
<1>4. /\ Len(p) = Len(q) + 1 /\ \A k \in 1 .. Len(q) : p[k] = q[k] /\ k \in 1 .. Len(p)
      /\ p[Len(q) + 1] = <<t, i>> /\ Len(q) + 1 \in 1 .. Len(p)
      /\ p # <<>>
  <2> HIDE DEF q, p
  <2>1. QED BY <1>1, <1>2, <1>3
<1>5. CallsInv(t, X, h) /\ CountInv(t, h) /\ RootInv(t, X, h) BY DEF Work, WorkOf
<1>6. \A k \in 1 .. Len(p) : k \in 1 .. Len(q) \/ k = Len(q) + 1
  <2> HIDE DEF q, p
  <2>1. QED BY <1>1, <1>4
<1>7. /\ \A k \in 1 .. Len(q) : q[k][1] = t /\ h.result[q[k]] = "pending" /\ q[k] \notin X
      /\ \A k, l \in 1 .. Len(q) : k < l => q[k][2] < q[l][2]
      /\ \A k \in 1 .. Len(q) : q[k][2] < i
  BY <1>5 DEF CallsInv
<1>8. h.result[<<t, i>>] = "pending" BY <1>5 DEF CallsInv
<1>9. h.slot.activeLease = t OBVIOUS
<1>10. ASSUME NEW j \in 1 .. MaxCalls
       PROVE  /\ <<t, j>> \in h.slot.pending =>
                   h.result[<<t, j>>] = "pending" /\ j < i /\ \A k \in 1 .. Len(q) : j < q[k][2]
              /\ h.result[<<t, j>>] = "pending" =>
                   <<t, j>> \in h.slot.pending \/ j = i \/ \E k \in 1 .. Len(q) : q[k] = <<t, j>>
  BY <1>5 DEF CallsInv
<1>11. WaitingOn(h.slot, h.lease) = Len(h.slot.queue) + Len(q) BY <1>9, PoolAssumption DEF WaitingOn
<1>12. WaitingOn(g.slot, g.lease) = Len(h.slot.queue) + Len(p)
  BY <1>2, <1>9, PoolAssumption DEF WaitingOn
<1>13. Len(h.slot.queue) \in Nat BY DEF HState, SlotRecord
<1>14. CallsInv(t, {}, g)
  <2> HIDE DEF q
  <2>1. \A k \in 1 .. Len(p) : p[k][1] = t /\ g.result[p[k]] = "pending" /\ p[k] \notin {}
    BY <1>2, <1>4, <1>6, <1>7, <1>8
  <2>2. \A k, l \in 1 .. Len(p) : k < l => p[k][2] < p[l][2]
    <3>1. SUFFICES ASSUME NEW k \in 1 .. Len(p), NEW l \in 1 .. Len(p), k < l
                   PROVE  p[k][2] < p[l][2]
      OBVIOUS
    <3> HIDE DEF p
    <3>2. k \in 1 .. Len(q) BY <1>1, <1>4, <3>1
    <3>3. CASE l \in 1 .. Len(q) BY <1>4, <1>7, <3>1, <3>2, <3>3
    <3>4. CASE l = Len(q) + 1
      <4>1. p[l][2] = i BY <1>4, <3>4
      <4>2. QED BY <1>4, <1>7, <3>2, <4>1
    <3>5. QED BY <1>6, <3>3, <3>4
  <2>3. p # <<>> => g.slot.activeLease = t BY <1>2, <1>9
  <2>4. ASSUME NEW j \in 1 .. MaxCalls
        PROVE  /\ <<t, j>> \in g.slot.pending =>
                    /\ g.result[<<t, j>>] = "pending" /\ g.slot.activeLease = t /\ <<t, j>> \notin {}
                    /\ \A k \in 1 .. Len(p) : j < p[k][2]
               /\ <<t, j>> \in {} => g.result[<<t, j>>] = "pending"
               /\ g.result[<<t, j>>] = "pending" =>
                    <<t, j>> \in g.slot.pending \/ <<t, j>> \in {} \/ \E k \in 1 .. Len(p) : p[k] = <<t, j>>
    <3>1. /\ <<t, j>> \in h.slot.pending =>
               h.result[<<t, j>>] = "pending" /\ j < i /\ \A k \in 1 .. Len(q) : j < q[k][2]
          /\ h.result[<<t, j>>] = "pending" =>
               <<t, j>> \in h.slot.pending \/ j = i \/ \E k \in 1 .. Len(q) : q[k] = <<t, j>>
      BY <1>10
    <3> HIDE DEF X, p
    <3>2. ASSUME <<t, j>> \in h.slot.pending, NEW k \in 1 .. Len(p) PROVE j < p[k][2]
      <4>1. CASE k \in 1 .. Len(q) BY <1>4, <3>1, <3>2, <4>1
      <4>2. CASE k = Len(q) + 1
        <5>1. p[k][2] = i BY <1>4, <4>2
        <5>2. QED BY <3>1, <3>2, <5>1
      <4>3. QED BY <1>6, <4>1, <4>2
    <3>3. ASSUME h.result[<<t, j>>] = "pending"
          PROVE  <<t, j>> \in h.slot.pending \/ \E k \in 1 .. Len(p) : p[k] = <<t, j>>
      BY <1>4, <3>1, <3>3
    <3>4. QED BY <1>2, <1>9, <3>1, <3>2, <3>3
  <2> HIDE DEF p
  <2>5. g.lease[t].queue = p BY DEF p
  <2>6. QED BY <2>1, <2>2, <2>3, <2>4, <2>5 DEF CallsInv
<1>15. CountInv(t, g)
  <2> HIDE DEF X, p, q
  <2>1. QED BY <1>2, <1>5, SameCount
<1>16. Root(t) \notin X /\ RootInv(t, {}, g)
  <2>1. Root(t) \notin X BY RequestOf
  <2>2. QED BY <1>2, <1>5, <2>1 DEF RootInv
<1> HIDE DEF X, p, q
<1>17. WorkOf(t, {}, g) BY <1>14, <1>15, <1>16 DEF WorkOf
<1>18. \A u \in Tasks : u # t => Alike(u, h, g) BY <1>2 DEF Alike
<1>19. \A u \in Tasks : hm[u] = s => WorkOf(u, {}, g)
  <2>1. SUFFICES ASSUME NEW u \in Tasks, hm[u] = s, u # t PROVE WorkOf(u, {}, g) BY <1>17
  <2>2. WorkOf(u, X, h) BY <2>1 DEF Work, X
  <2>3. WorkOf(u, X, g) BY <1>2, <1>18, <2>1, <2>2, WorkOfAlike
  <2>4. Root(u) \notin X /\ \A j \in 1 .. MaxCalls : <<u, j>> \notin X BY <2>1, RequestOf DEF X
  <2>5. QED BY <2>3, <2>4 DEF WorkOf, CallsInv, RootInv
<1>20. WaitingOn(g.slot, g.lease) <= QueueCapacity
  <2>1. Len(q) \in Nat /\ Len(p) = Len(q) + 1 /\ QueueCapacity \in Nat BY <1>1, <1>4, PoolAssumption
  <2>2. WaitingOn(h.slot, h.lease) < QueueCapacity OBVIOUS
  <2>3. Len(h.slot.queue) + Len(q) < QueueCapacity BY <1>11, <2>2
  <2>4. Len(h.slot.queue) + Len(p) <= QueueCapacity BY <1>13, <2>1, <2>3, OneMoreFits
  <2>5. QED BY <1>12, <2>4
<1>21. Work(s, g, hm, {}) BY <1>2, <1>19, <1>20 DEF Work
<1>22. Keeps(s, h, g, hm, V)
  <2>1. Elsewhere(s, h, g, hm) BY <1>18 DEF Elsewhere
  <2>2. Promises(h, g) BY <1>2 DEF Promises, Promise
  <2>3. QED BY <1>2, <2>1, <2>2 DEF Keeps
<1>23. QED BY <1>21, <1>22

\* sendOnLease() behind the lease's own call: the worker is busy, for an idle one has
\* nothing in the owner FIFO.
LEMMA EnqueueCallWork ==
  ASSUME IInv, OwedInv, IInv', NEW t \in Tasks, NEW i \in 1 .. MaxCalls, EnqueueCall(t, i)
  PROVE  OwedInv' /\ Mild
<1>1. PICK s \in Slots : s = home[t] BY CallOwed DEF EnqueueCall
<1> DEFINE b == Here(s)
           h == AcceptedCall(b, t, i)
           l == [h.lease[t] EXCEPT !.queue = Append(h.lease[t].queue, <<t, i>>)]
           ls == [h.lease EXCEPT ![t] = l]
           g == [h EXCEPT !.lease = ls]
<1>2. /\ Invokes(t, i) /\ Commit(s, g) /\ CallRefusal(t) = "none"
      /\ ~CallFree(t) /\ ~QueueFull(s)
  BY <1>1 DEF EnqueueCall
<1>3. b \in HState /\ home' = home /\ Drained(b) BY <1>1, <1>2, CallOwed
<1>4. CallTaken(t, i, b, h) BY <1>3, AcceptedCallFields
<1>5. h \in HState BY <1>3, AcceptedCallType
<1>6. /\ Work(s, h, home, {<<t, i>>}) /\ Keeps(s, b, h, home, Ordinary)
      /\ \A k \in 1 .. Len(h.lease[t].queue) : h.lease[t].queue[k][2] < i
      /\ \A j \in 1 .. MaxCalls : <<t, j>> \in h.slot.pending => j < i
  BY <1>1, <1>2, <1>4, AcceptedCallWork
<1>7. slot[s].activeLease = t /\ slot[s].state = "running"
  BY <1>1, <1>2, AcceptingSlot
<1>8. b.slot = slot[s] /\ b.lease = lease BY HereFields
<1> HIDE DEF h
<1>9. CallQueued(t, i, h, g)
  <2>1. h.lease \in [Tasks -> LeaseRecord] /\ h.lease[t] \in LeaseRecord BY <1>5 DEF HState
  <2>2. l.queue = Append(h.lease[t].queue, <<t, i>>) /\ l.released = h.lease[t].released
        /\ l.pendingCalls = h.lease[t].pendingCalls
    BY <2>1 DEF LeaseRecord
  <2> HIDE DEF l
  <2>3. ls[t] = l /\ \A u \in Tasks : u # t => ls[u] = h.lease[u] BY <2>1
  <2> HIDE DEF ls
  <2>4. g.slot = h.slot /\ g.phase = h.phase /\ g.untracked = h.untracked /\ g.result = h.result
        /\ g.lease = ls
    BY <1>5 DEF HState
  <2> HIDE DEF g
  <2>5. QED BY <2>2, <2>3, <2>4 DEF CallQueued
<1>10. Commit(s, g) BY <1>2
<1> HIDE DEF g, b
<1>11. \A r \in Slots : r # s => slot'[r] = slot[r] BY <1>10 DEF IInv, TypeOK, Commit
<1>12. g \in HState
  <2>1. [h.lease EXCEPT ![t] = l] \in [Tasks -> LeaseRecord]
    <3>1. h.lease \in [Tasks -> LeaseRecord] /\ h.lease[t] \in LeaseRecord BY <1>5 DEF HState
    <3>2. Append(h.lease[t].queue, <<t, i>>) \in Seq(Calls)
      <4>1. <<t, i>> \in Calls BY RequestOf
      <4>2. h.lease[t].queue \in Seq(Calls) BY <3>1 DEF LeaseRecord
      <4>3. QED BY <4>1, <4>2
    <3>3. l \in LeaseRecord BY <3>1, <3>2 DEF LeaseRecord
    <3> HIDE DEF l
    <3>4. QED BY <3>1, <3>3
  <2> HIDE DEF l
  <2>2. QED BY <1>5, <2>1 DEF HState, g
<1>13. h.slot = slot[s] /\ h.slot.activeLease = t /\ h.lease[t].queue = lease[t].queue
  BY <1>4, <1>7, <1>8 DEF CallTaken
<1>14. WaitingOn(h.slot, h.lease) < QueueCapacity
  <2>1. QueuedOnSlot(s) < QueueCapacity BY <1>2 DEF QueueFull
  <2>2. QueuedOnSlot(s) = Len(slot[s].queue) + Len(lease[t].queue)
    BY <1>7, PoolAssumption DEF QueuedOnSlot
  <2>3. WaitingOn(h.slot, h.lease) = Len(slot[s].queue) + Len(lease[t].queue)
    BY <1>13, PoolAssumption DEF WaitingOn
  <2>4. QED BY <2>1, <2>2, <2>3
<1>15. Work(s, g, home, {}) /\ Keeps(s, h, g, home, Ordinary)
  BY <1>1, <1>5, <1>6, <1>9, <1>13, <1>14, AppendedCallWork
<1>16. Drained(g)
  <2>1. ~(slot[s].inflight = 0 /\ lease[t].queue = <<>>) BY <1>1, <1>2 DEF CallFree
  <2>2. slot[s].inflight = 0 => lease[t].queue = <<>>
    BY <1>3, <1>7, <1>8, PoolAssumption DEF Drained
  <2>3. g.slot = slot[s] BY <1>9, <1>13 DEF CallQueued
  <2>4. QED BY <2>1, <2>2, <2>3 DEF Drained
<1>17. Keeps(s, b, g, home, Ordinary) BY <1>6, <1>15, KeepsTrans
<1>18. Rehomed(s) BY <1>3 DEF Rehomed
<1>19. Keeps(s, Here(s), g, home', Ordinary) /\ Work(s, g, home', {}) BY <1>3, <1>15, <1>17 DEF b
<1>20. OwedInv' BY <1>10, <1>12, <1>16, <1>18, <1>19, HandlerWork
<1>21. Mild BY <1>10, <1>12, <1>19, HandlerMild
<1>22. QED BY <1>20, <1>21

\* A root call enters the tables of its slot with phase p and promise v.
RootTaken(t, p, v, h, g) ==
  /\ SameSlot(h, g) /\ g.slot.queue = h.slot.queue
  /\ g.lease = h.lease /\ g.untracked = h.untracked
  /\ g.phase[t] = p /\ \A u \in Tasks : u # t => g.phase[u] = h.phase[u]
  /\ \A r \in Requests : g.result[r] = IF r = Root(t) THEN v ELSE h.result[r]

\* pickSlot(): the call belongs to its slot now, and is out of its place while it waits.
LEMMA NewcomerWork ==
  ASSUME IInv, OwedInv, NEW t \in Tasks, PickSlot(t), NEW s \in Slots, s = roundRobin,
         NEW p, NEW v \in Ordinary, v \notin {"none"}, NEW X \in SUBSET {Root(t)},
         \/ p = "waiting" /\ v = "pending" /\ X = {Root(t)}
         \/ p = "done" /\ v # "pending",
         NEW g, RootTaken(t, p, v, Here(s), g)
  PROVE  Work(s, g, home', X) /\ Keeps(s, Here(s), g, home', Ordinary) /\ Rehomed(s)
<1> DEFINE h == Here(s)
<1>1. /\ home' = [home EXCEPT ![t] = s] /\ home'[t] = s /\ home \in [Tasks -> Slots \cup {None}]
      /\ phase[t] = "idle" /\ Kind[t] # "close"
  BY PickSlotFacts DEF IInv, TypeOK
<1>2. home[t] \notin Slots BY <1>1, OutsideCalls
<1>3. \A u \in Tasks : u # t => home'[u] = home[u] BY <1>1
<1>4. Rehomed(s) BY <1>1, <1>2, <1>3 DEF Rehomed
<1>5. h \in HState /\ Work(s, h, home, {}) BY HereType DEF IInv, OwedInv, WorkInv
<1>6. Untouched(t, h) BY <1>2 DEF OwedInv, WorkInv
<1>7. RootTaken(t, p, v, h, g) OBVIOUS
<1>8. h.phase[t] = "idle" BY <1>1, HereFields
<1> HIDE DEF h
<1>9. /\ g.slot.pending = h.slot.pending /\ g.slot.inflight = h.slot.inflight
      /\ g.slot.activeLease = h.slot.activeLease /\ g.slot.queue = h.slot.queue
      /\ g.slot.state = h.slot.state /\ g.slot.closing = h.slot.closing
      /\ g.lease = h.lease /\ g.untracked = h.untracked
      /\ g.phase[t] = p /\ \A u \in Tasks : u # t => g.phase[u] = h.phase[u]
      /\ \A r \in Requests : g.result[r] = IF r = Root(t) THEN v ELSE h.result[r]
  BY <1>7 DEF RootTaken, SameSlot
<1>10. \A u \in Tasks : \A i \in 1 .. MaxCalls : g.result[<<u, i>>] = h.result[<<u, i>>]
  <2>1. SUFFICES ASSUME NEW u \in Tasks, NEW i \in 1 .. MaxCalls
                 PROVE  g.result[<<u, i>>] = h.result[<<u, i>>]
    OBVIOUS
  <2>2. <<u, i>> \in Requests /\ <<u, i>> # Root(t) BY RequestOf
  <2>3. QED BY <1>9, <2>2
<1>11. /\ \A u \in Tasks : u # t => g.result[Root(u)] = h.result[Root(u)]
       /\ g.result[Root(t)] = v
  BY <1>9, RequestOf
<1>12. \A u \in Tasks : u # t => Alike(u, h, g)
  <2>1. SUFFICES ASSUME NEW u \in Tasks, u # t PROVE Alike(u, h, g) OBVIOUS
  <2>2. \A i \in 0 .. MaxCalls : <<u, i>> \in Requests /\ <<u, i>> # Root(t)
    BY <2>1, RequestIsRoot
  <2>3. \A i \in 0 .. MaxCalls : g.result[<<u, i>>] = h.result[<<u, i>>] BY <1>9, <2>2
  <2>4. QED BY <1>9, <2>1, <2>3 DEF Alike
<1>13. \A r \in h.slot.pending : r[1] # t /\ home'[r[1]] = s
  <2>1. SUFFICES ASSUME NEW r \in h.slot.pending PROVE r[1] # t /\ home'[r[1]] = s OBVIOUS
  <2>2. r \in Requests BY <1>5 DEF HState, SlotRecord
  <2>3. r[1] \in Tasks BY <2>2 DEF Requests
  <2>4. home[r[1]] = s BY <1>5 DEF Work
  <2>5. QED BY <1>2, <1>3, <2>3, <2>4
<1>14. /\ \A i \in 1 .. MaxCalls : h.result[<<t, i>>] = "none" /\ <<t, i>> \notin h.untracked
       /\ h.lease[t].queue = <<>> /\ h.lease[t].pendingCalls = 0
  BY <1>6 DEF Untouched
<1>15. \A i \in 1 .. MaxCalls : <<t, i>> \notin h.slot.pending /\ <<t, i>> \notin X
  BY <1>13, RequestOf
<1>16. WorkOf(t, X, g)
  <2>1. CallsInv(t, X, g) BY <1>9, <1>10, <1>14, <1>15 DEF CallsInv
  <2>2. OpenCalls(t, g) = {} BY <1>9, <1>10, <1>14 DEF OpenCalls
  <2>3. Cardinality({}) = 0 BY FS_EmptySet
  <2>4. CountInv(t, g) BY <1>9, <1>10, <1>14, <2>2, <2>3 DEF CountInv
  <2>5. Root(t) \notin g.slot.pending BY <1>9, <1>13, RequestOf
  <2>6. RootInv(t, X, g) BY <1>1, <1>9, <2>5 DEF RootInv, LeasePhases
  <2>7. QED BY <2>1, <2>4, <2>6 DEF WorkOf
<1>17. \A u \in Tasks : home'[u] = s => WorkOf(u, X, g)
  <2>1. SUFFICES ASSUME NEW u \in Tasks, home'[u] = s, u # t PROVE WorkOf(u, X, g) BY <1>16
  <2>2. WorkOf(u, {}, h) BY <1>3, <1>5, <2>1 DEF Work
  <2>3. WorkOf(u, {}, g) BY <1>5, <1>9, <1>12, <2>1, <2>2, WorkOfAlike
  <2>4. \A r \in X : r = Root(t) OBVIOUS
  <2>5. \A i \in 1 .. MaxCalls : <<u, i>> \notin X BY <2>4, RequestOf
  <2>6. \A k \in 1 .. Len(g.lease[u].queue) : g.lease[u].queue[k] \notin X
    <3>1. CallsInv(u, {}, h) BY <2>2 DEF WorkOf
    <3>2. \A k \in 1 .. Len(h.lease[u].queue) : h.lease[u].queue[k][1] = u BY <3>1 DEF CallsInv
    <3>3. Root(t)[1] = t BY RequestOf
    <3>4. QED BY <1>9, <2>1, <2>4, <3>2, <3>3
  <2> HIDE DEF h
  <2>7. CallsInv(u, X, g) BY <2>3, <2>5, <2>6 DEF WorkOf, CallsInv
  <2>8. QED BY <2>3, <2>7 DEF WorkOf, RootInv
<1>18. \A r \in g.slot.pending \cup X : home'[r[1]] = s
  <2>1. Root(t)[1] = t BY RequestOf
  <2>2. QED BY <1>1, <1>9, <1>13, <2>1
<1>19. WaitingOn(g.slot, g.lease) <= QueueCapacity BY <1>5, <1>9 DEF Work, WaitingOn
<1>20. Work(s, g, home', X) BY <1>17, <1>18, <1>19 DEF Work
<1>21. Elsewhere(s, h, g, home') BY <1>1, <1>12 DEF Elsewhere
<1>22. Promises(h, g)
  <2>1. SUFFICES ASSUME NEW u \in Tasks, Promise(u, h) PROVE Promise(u, g) BY DEF Promises
  <2>2. CASE u = t BY <1>9, <1>11, <2>2 DEF Promise
  <2>3. CASE u # t
    <3>1. g.phase[u] = h.phase[u] /\ g.result[Root(u)] = h.result[Root(u)] BY <1>9, <1>11, <2>3
    <3>2. QED BY <2>1, <3>1 DEF Promise
  <2>4. QED BY <2>2, <2>3
<1>23. Keeps(s, h, g, home', Ordinary) BY <1>9, <1>21, <1>22 DEF Keeps
<1>24. QED BY <1>4, <1>20, <1>23 DEF h

\* The record an admission starts from.
LEMMA AcceptedWork ==
  ASSUME IInv, OwedInv, NEW t \in Tasks, PickSlot(t), NEW s \in Slots, s = roundRobin
  PROVE  LET h == Accepted(Here(s), t)
         IN /\ HInv(s, h, home') /\ h.slot = slot[s] /\ h.phase[t] = "waiting" /\ h.lease = lease
            /\ Work(s, h, home', {Root(t)}) /\ Keeps(s, Here(s), h, home', Ordinary)
            /\ Rehomed(s)
<1> DEFINE b == Here(s)
           h == Accepted(b, t)
           rs == [b.result EXCEPT ![Root(t)] = "pending"]
<1>1. /\ HInv(s, h, home') /\ h.slot = slot[s] /\ h.phase[t] = "waiting" /\ h.lease = lease
  BY AcceptedInv
<1>2. b \in HState BY HereType DEF IInv
<1> HIDE DEF b
<1>3. /\ h.slot = b.slot /\ h.lease = b.lease /\ h.untracked = b.untracked
      /\ h.phase = [b.phase EXCEPT ![t] = "waiting"]
      /\ h.result = rs
  BY <1>2 DEF Accepted, HState
<1>4. \A r \in Requests : rs[r] = IF r = Root(t) THEN "pending" ELSE b.result[r]
  <2>1. b.result \in [Requests -> Verdicts \cup {"none", "pending"}] BY <1>2 DEF HState
  <2>2. QED BY <2>1, RequestOf
<1>5. \A u \in Tasks : u # t => h.phase[u] = b.phase[u] BY <1>2, <1>3 DEF HState
<1> HIDE DEF h, rs
<1>6. SameSlot(b, h) /\ h.slot.queue = b.slot.queue BY <1>3 DEF SameSlot
<1>7. RootTaken(t, "waiting", "pending", b, h) BY <1>1, <1>3, <1>4, <1>5, <1>6 DEF RootTaken
<1>8. "pending" \in Ordinary /\ "pending" \notin {"none"} BY DEF Ordinary
<1> DEFINE X == {Root(t)}
<1>9. X \in SUBSET {Root(t)} /\ X = {Root(t)} OBVIOUS
<1> HIDE DEF X
<1>10. Work(s, h, home', X) /\ Keeps(s, Here(s), h, home', Ordinary) /\ Rehomed(s)
  BY <1>7, <1>8, <1>9, NewcomerWork DEF b
<1>11. QED BY <1>1, <1>10 DEF h, b, X

\* evaluate() on an idle worker without a lease is sent at once.
LEMMA EvaluateNowWork ==
  ASSUME IInv, OwedInv, NEW t \in Tasks, EvaluateNow(t)
  PROVE  OwedInv' /\ Mild
<1>1. PICK s \in Slots : s = roundRobin BY DEF IInv, TypeOK
<1> DEFINE h == Accepted(Here(s), t)
           g == DispatchRequest(s, h, <<t, 0>>)
<1>2. PickSlot(t) /\ Commit(s, g) /\ slot[s].inflight = 0 /\ slot[s].activeLease = None
  BY <1>1 DEF EvaluateNow, SlotFree, Root
<1>3. /\ slot[s].state = "running" /\ slot[s].closing = "open"
      /\ ~lease[t].released /\ FreeIn(t, slot[s]) /\ home'[t] = s
  BY <1>1, <1>2, PickSlotFacts
<1>4. /\ HInv(s, h, home') /\ h.slot = slot[s] /\ h.phase[t] = "waiting" /\ h.lease = lease
      /\ Work(s, h, home', {Root(t)}) /\ Keeps(s, Here(s), h, home', Ordinary)
      /\ Rehomed(s)
  BY <1>1, <1>2, AcceptedWork
<1>5. 0 \in 0 .. MaxCalls BY PoolAssumption
<1>6. DrainVerdicts \subseteq Ordinary BY DEF DrainVerdicts, Ordinary, Verdicts
<1>7. Work(s, h, home', {<<t, 0>>}) BY <1>4 DEF Root
<1> HIDE DEF h
<1>8. g \in HState BY <1>2, <1>3, <1>4, <1>5, DispatchRequestInv DEF HInv
<1>9. Work(s, g, home', {}) /\ Drained(g) /\ Keeps(s, h, g, home', Ordinary)
  <2>1. h.slot.inflight = 0 /\ h.slot.closing \in {"open", "lease"} /\ h.slot.activeLease = None
        /\ FreeIn(t, h.slot)
    BY <1>2, <1>3, <1>4
  <2>2. QED BY <1>4, <1>5, <1>6, <1>7, <2>1, DispatchRequestWork
<1>10. Commit(s, g) BY <1>2
<1> HIDE DEF g
<1>11. Keeps(s, Here(s), g, home', Ordinary) BY <1>4, <1>9, KeepsTrans
<1>12. OwedInv' BY <1>4, <1>8, <1>9, <1>10, <1>11, HandlerWork
<1>13. Mild BY <1>8, <1>10, <1>11, HandlerMild
<1>14. QED BY <1>12, <1>13

\* do() on an idle worker without a lease is admitted at once.
LEMMA AdmitNowWork ==
  ASSUME IInv, OwedInv, NEW t \in Tasks, AdmitNow(t)
  PROVE  OwedInv' /\ Mild
<1>1. PICK s \in Slots : s = roundRobin BY DEF IInv, TypeOK
<1> DEFINE h == Accepted(Here(s), t)
           g == Admit(h, t)
           X == {Root(t)}
<1>2. PickSlot(t) /\ Commit(s, g) /\ slot[s].inflight = 0 /\ slot[s].activeLease = None
  BY <1>1 DEF AdmitNow, SlotFree
<1>3. slot[s].pending = {}
  <2>1. FlightInv(slot[s]) BY DEF IInv, SlotsInv, SlotInv
  <2>2. QED BY <1>2, <2>1 DEF FlightInv
<1>4. /\ HInv(s, h, home') /\ h.slot = slot[s] /\ h.phase[t] = "waiting"
      /\ Work(s, h, home', X) /\ Keeps(s, Here(s), h, home', Ordinary)
      /\ Rehomed(s)
  BY <1>1, <1>2, AcceptedWork
<1>5. X \in SUBSET Requests /\ Root(t) \in X /\ X \ {Root(t)} = {} BY RequestOf
<1> HIDE DEF h, X
<1>6. h \in HState BY <1>4 DEF HInv
<1>7. g \in HState BY <1>6, AdmitType
<1>8. h.slot.activeLease = None /\ h.slot.pending = {} BY <1>2, <1>3, <1>4
<1>9. Work(s, g, home', X \ {Root(t)}) /\ Drained(g) /\ Keeps(s, h, g, home', Ordinary)
  BY <1>4, <1>5, <1>6, <1>8, AdmitWork
<1>10. Work(s, g, home', {}) BY <1>5, <1>9
<1>11. Commit(s, g) BY <1>2
<1> HIDE DEF g
<1>12. Keeps(s, Here(s), g, home', Ordinary) BY <1>4, <1>9, KeepsTrans
<1>13. OwedInv' BY <1>4, <1>7, <1>9, <1>10, <1>11, <1>12, HandlerWork
<1>14. Mild BY <1>7, <1>11, <1>12, HandlerMild
<1>15. QED BY <1>13, <1>14

\* A public call that finds the FIFOs of its slot full is rejected, and owned by no slot.
LEMMA RejectFullWork ==
  ASSUME IInv, OwedInv, IInv', NEW t \in Tasks, RejectFull(t)
  PROVE  OwedInv' /\ Mild
<1>1. PICK s \in Slots : s = roundRobin BY DEF IInv, TypeOK
<1> DEFINE sl == [slot[s] EXCEPT !.rejected = slot[s].rejected + 1]
           b == Here(s)
           g == Here(s)'
<1>2. /\ PickSlot(t) /\ slot' = [slot EXCEPT ![s] = sl]
      /\ phase' = [phase EXCEPT ![t] = "done"]
      /\ result' = [result EXCEPT ![Root(t)] = "queueFull"]
      /\ UNCHANGED <<lease, untracked>>
  BY <1>1 DEF RejectFull
<1>3. TypeOK BY DEF IInv
<1>4. /\ sl.pending = slot[s].pending /\ sl.inflight = slot[s].inflight
      /\ sl.activeLease = slot[s].activeLease /\ sl.state = slot[s].state
      /\ sl.closing = slot[s].closing /\ sl.queue = slot[s].queue
  BY <1>3 DEF TypeOK, SlotRecord
<1> HIDE DEF sl
<1>5. slot'[s] = sl /\ \A r \in Slots : r # s => slot'[r] = slot[r]
  BY <1>2, <1>3 DEF TypeOK
<1>6. g \in HState /\ Commit(s, g) BY <1>5, AsHandler
<1>7. phase'[t] = "done" /\ \A u \in Tasks : u # t => phase'[u] = phase[u]
  BY <1>2, <1>3 DEF TypeOK
<1>8. \A r \in Requests : result'[r] = IF r = Root(t) THEN "queueFull" ELSE result[r]
  <2>1. Root(t) \in Requests BY RequestOf
  <2>2. QED BY <1>2, <1>3, <2>1 DEF TypeOK
<1>9. /\ b.slot = slot[s] /\ b.phase = phase /\ b.lease = lease
      /\ b.result = result /\ b.untracked = untracked
      /\ g.slot = slot'[s] /\ g.phase = phase' /\ g.lease = lease'
      /\ g.result = result' /\ g.untracked = untracked'
  BY HereFields
<1>10. Drained(b) BY DEF OwedInv, WorkInv
<1>11. /\ b.slot = slot[s] /\ g.slot = sl /\ g.lease = b.lease /\ g.untracked = b.untracked
       /\ g.phase[t] = "done" /\ \A u \in Tasks : u # t => g.phase[u] = b.phase[u]
       /\ \A r \in Requests : g.result[r] = IF r = Root(t) THEN "queueFull" ELSE b.result[r]
  BY <1>2, <1>5, <1>7, <1>8, <1>9
<1> HIDE DEF g, b
<1>12. RootTaken(t, "done", "queueFull", b, g) BY <1>4, <1>11 DEF RootTaken, SameSlot
<1>13. "queueFull" \in Ordinary /\ "queueFull" \notin {"none"} BY DEF Ordinary, Verdicts
<1>14. {} \in SUBSET {Root(t)} OBVIOUS
<1>15. Work(s, g, home', {}) /\ Keeps(s, Here(s), g, home', Ordinary) /\ Rehomed(s)
  BY <1>1, <1>2, <1>12, <1>13, <1>14, NewcomerWork DEF b
<1>16. Drained(g) BY <1>4, <1>10, <1>11 DEF Drained
<1>17. OwedInv' BY <1>6, <1>15, <1>16, HandlerWork
<1>18. Mild BY <1>6, <1>15, HandlerMild
<1>19. QED BY <1>17, <1>18

\* The call joins the end of the FIFO of its slot.
RootQueued(t, h, g) ==
  /\ SameTables(h, g) /\ SameSlot(h, g) /\ g.slot.queue = Append(h.slot.queue, t)

\* A public call joins the end of the FIFO of its slot.
LEMMA AppendedRootWork ==
  ASSUME NEW s, NEW hm, NEW h \in HState, NEW t \in Tasks, hm[t] = s, h.phase[t] = "waiting",
         Work(s, h, hm, {Root(t)}), WaitingOn(h.slot, h.lease) < QueueCapacity,
         NEW g, RootQueued(t, h, g), NEW V
  PROVE  Work(s, g, hm, {}) /\ Keeps(s, h, g, hm, V)
<1> DEFINE X == {Root(t)}
           q == h.slot.queue
           p == g.slot.queue
<1>1. q \in Seq(Tasks) /\ Len(q) \in Nat BY DEF HState, SlotRecord
<1>2. /\ g.phase = h.phase /\ g.lease = h.lease /\ g.result = h.result
      /\ g.untracked = h.untracked /\ g.slot.pending = h.slot.pending
      /\ g.slot.activeLease = h.slot.activeLease /\ g.slot.closing = h.slot.closing
      /\ g.slot.state = h.slot.state /\ p = Append(q, t)
  BY DEF RootQueued, SameTables, SameSlot
<1>3. /\ Len(p) = Len(q) + 1 /\ \A k \in 1 .. Len(q) : p[k] = q[k] /\ k \in 1 .. Len(p)
      /\ p[Len(q) + 1] = t /\ Len(q) + 1 \in 1 .. Len(p)
  <2> HIDE DEF q, p
  <2>1. QED BY <1>1, <1>2
<1>4. \A u \in Tasks : Root(u) \in X <=> u = t BY RequestOf
<1>5. \A u \in Tasks : \A i \in 1 .. MaxCalls : <<u, i>> \notin X BY RequestOf
<1>6. ASSUME NEW u \in Tasks, hm[u] = s
      PROVE  WorkOf(u, {}, g)
  <2>1. CallsInv(u, X, h) /\ CountInv(u, h) /\ RootInv(u, X, h) BY <1>6 DEF Work, WorkOf
  <2>2. CallsInv(u, {}, g)
    <3> HIDE DEF X
    <3>1. QED BY ZenonT(60), <1>2, <1>5, <2>1 DEF CallsInv
  <2>3. CountInv(u, g)
    <3>1. OpenCalls(u, g) = OpenCalls(u, h) BY <1>2 DEF OpenCalls
    <3>2. QED BY <1>2, <2>1, <3>1 DEF CountInv
  <2>4. h.phase[u] = "waiting" =>
          Root(u) \in h.slot.pending \/ \E k \in 1 .. Len(p) : p[k] = u
    <3>1. SUFFICES ASSUME h.phase[u] = "waiting", Root(u) \notin h.slot.pending
                   PROVE  \E k \in 1 .. Len(p) : p[k] = u
      OBVIOUS
    <3> HIDE DEF X, p
    <3>2. u = t \/ \E k \in 1 .. Len(q) : q[k] = u BY <1>4, <2>1, <3>1 DEF RootInv
    <3> HIDE DEF q
    <3>3. QED BY <1>3, <3>2
  <2>5. RootInv(u, {}, g)
    <3>1. h.phase[u] \in LeasePhases => h.slot.activeLease = u
      <4>1. CASE u = t BY <4>1 DEF LeasePhases
      <4>2. CASE u # t BY <1>4, <2>1, <4>2 DEF RootInv
      <4>3. QED BY <4>1, <4>2
    <3>2. QED BY <1>2, <2>1, <2>4, <3>1 DEF RootInv
  <2>6. QED BY <2>2, <2>3, <2>5 DEF WorkOf
<1>7. \A r \in g.slot.pending \cup {} : hm[r[1]] = s BY <1>2 DEF Work
<1>8. WaitingOn(g.slot, g.lease) <= QueueCapacity
  <2> DEFINE w == IF h.slot.activeLease = None THEN 0 ELSE Len(h.lease[h.slot.activeLease].queue)
  <2>1. w \in Nat
    <3>1. h.slot.activeLease # None => h.slot.activeLease \in Tasks BY DEF HState, SlotRecord
    <3>2. h.slot.activeLease # None => h.lease[h.slot.activeLease].queue \in Seq(Calls)
      BY <3>1 DEF HState, LeaseRecord
    <3> DEFINE y == h.lease[h.slot.activeLease].queue
    <3>3. ASSUME h.slot.activeLease # None PROVE Len(y) \in Nat
      <4>1. y \in Seq(Calls) BY <3>2, <3>3
      <4> HIDE DEF y
      <4>2. QED BY <4>1
    <3> HIDE DEF y, q, p
    <3>4. h.slot.activeLease # None => Len(y) \in Nat BY <3>3
    <3>5. w = IF h.slot.activeLease = None THEN 0 ELSE Len(y) BY DEF y
    <3> HIDE DEF w
    <3>6. QED BY <3>4, <3>5
  <2>2. WaitingOn(h.slot, h.lease) = Len(q) + w /\ WaitingOn(g.slot, g.lease) = Len(p) + w
    BY <1>2 DEF WaitingOn
  <2>3. WaitingOn(h.slot, h.lease) < QueueCapacity OBVIOUS
  <2> HIDE DEF w, q, p
  <2>4. Len(q) + w < QueueCapacity BY <2>2, <2>3
  <2>5. Len(q) \in Nat /\ Len(p) = Len(q) + 1 /\ QueueCapacity \in Nat BY <1>1, <1>3, PoolAssumption
  <2>6. w + Len(q) < QueueCapacity BY <2>1, <2>4, <2>5
  <2>7. w + Len(p) <= QueueCapacity BY <2>1, <2>5, <2>6, OneMoreFits
  <2>8. Len(p) + w = w + Len(p) BY <2>1, <2>5
  <2>9. QED BY <2>2, <2>7, <2>8
<1>9. Work(s, g, hm, {}) BY <1>6, <1>7, <1>8 DEF Work
<1>10. Keeps(s, h, g, hm, V)
  <2>1. Elsewhere(s, h, g, hm) BY <1>2 DEF Elsewhere, Alike
  <2>2. Promises(h, g) BY <1>2 DEF Promises, Promise
  <2>3. QED BY <1>2, <2>1, <2>2 DEF Keeps
<1>11. QED BY <1>9, <1>10

\* sendToSlot() or acquireLease() behind other work.
LEMMA EnqueueRootWork ==
  ASSUME IInv, OwedInv, NEW t \in Tasks, EnqueueRoot(t)
  PROVE  OwedInv' /\ Mild
<1>1. PICK s \in Slots : s = roundRobin BY DEF IInv, TypeOK
<1> DEFINE b == Here(s)
           h == Accepted(b, t)
           sl == [slot[s] EXCEPT !.queue = Append(slot[s].queue, t)]
           g == [h EXCEPT !.slot = sl]
<1>2. PickSlot(t) /\ Commit(s, g) /\ ~SlotFree(s) /\ ~QueueFull(s) BY <1>1 DEF EnqueueRoot
<1>3. home'[t] = s /\ slot[s] \in SlotRecord BY <1>1, <1>2, PickSlotFacts
<1>4. /\ HInv(s, h, home') /\ h.slot = slot[s] /\ h.phase[t] = "waiting" /\ h.lease = lease
      /\ Work(s, h, home', {Root(t)}) /\ Keeps(s, b, h, home', Ordinary)
      /\ Rehomed(s)
  BY <1>1, <1>2, AcceptedWork
<1>5. Drained(b) /\ b.slot = slot[s] /\ b.lease = lease BY HereFields DEF OwedInv, WorkInv
<1> HIDE DEF h, b
<1>6. h \in HState BY <1>4 DEF HInv
<1>7. /\ sl \in SlotRecord
      /\ sl.queue = Append(slot[s].queue, t) /\ sl.pending = slot[s].pending
      /\ sl.inflight = slot[s].inflight /\ sl.activeLease = slot[s].activeLease
      /\ sl.state = slot[s].state /\ sl.closing = slot[s].closing
  <2>1. Append(slot[s].queue, t) \in Seq(Tasks) BY <1>3 DEF SlotRecord
  <2>2. QED BY <1>3, <2>1 DEF SlotRecord
<1> HIDE DEF sl
<1>8. g \in HState /\ g.slot = sl /\ SameTables(h, g) BY <1>6, <1>7 DEF HState, SameTables
<1>9. Commit(s, g) BY <1>2
<1> HIDE DEF g
<1>10. RootQueued(t, h, g) BY <1>4, <1>7, <1>8 DEF RootQueued, SameSlot
<1>11. WaitingOn(h.slot, h.lease) < QueueCapacity
  BY <1>2, <1>4 DEF QueueFull, QueuedOnSlot, WaitingOn
<1>12. Work(s, g, home', {}) /\ Keeps(s, h, g, home', Ordinary)
  BY <1>3, <1>4, <1>6, <1>10, <1>11, AppendedRootWork
<1>13. Drained(g)
  <2>1. g.slot = sl /\ g.lease = lease BY <1>4, <1>8 DEF SameTables
  <2>2. ~(slot[s].inflight = 0 /\ slot[s].activeLease = None /\ slot[s].queue = <<>>)
    BY <1>2 DEF SlotFree
  <2>3. QED BY <1>5, <1>7, <2>1, <2>2 DEF Drained
<1>14. Keeps(s, Here(s), g, home', Ordinary) BY <1>4, <1>12, KeepsTrans DEF b
<1>15. OwedInv' BY <1>4, <1>8, <1>9, <1>12, <1>13, <1>14, HandlerWork
<1>16. Mild BY <1>8, <1>9, <1>14, HandlerMild
<1>17. QED BY <1>15, <1>16

\* Requests in flight that are taken out of pending, to be settled.
LEMMA TakePendingWork ==
  ASSUME NEW s, NEW hm, NEW h \in HState, NEW X, Work(s, h, hm, X),
         NEW g, SameTables(h, g), NEW P \in SUBSET h.slot.pending,
         g.slot.pending = h.slot.pending \ P, g.slot.queue = h.slot.queue,
         g.slot.activeLease = h.slot.activeLease
  PROVE  Work(s, g, hm, X \cup P)
<1>1. g.phase = h.phase /\ g.lease = h.lease /\ g.result = h.result /\ g.untracked = h.untracked
  BY DEF SameTables
<1>2. ASSUME NEW t \in Tasks, hm[t] = s
      PROVE  WorkOf(t, X \cup P, g)
  <2>1. CallsInv(t, X, h) /\ CountInv(t, h) /\ RootInv(t, X, h) BY <1>2 DEF Work, WorkOf
  <2>2. \A k \in 1 .. Len(h.lease[t].queue) : h.lease[t].queue[k] \notin P
    <3>1. SUFFICES ASSUME NEW k \in 1 .. Len(h.lease[t].queue), h.lease[t].queue[k] \in P PROVE FALSE
      OBVIOUS
    <3>2. PICK i \in 1 .. MaxCalls : h.lease[t].queue[k] = <<t, i>> BY <2>1, OwnerEntry
    <3>3. <<t, i>> \in h.slot.pending BY <3>1, <3>2
    <3>4. i < h.lease[t].queue[k][2] BY <2>1, <3>3 DEF CallsInv
    <3>5. h.lease[t].queue[k][2] = i BY <3>2
    <3>6. QED BY <3>4, <3>5, PoolAssumption
  <2>3. CallsInv(t, X \cup P, g)
    <3> DEFINE q == h.lease[t].queue
    <3>1. /\ \A k \in 1 .. Len(q) : q[k][1] = t /\ h.result[q[k]] = "pending" /\ q[k] \notin X
          /\ \A k, l \in 1 .. Len(q) : k < l => q[k][2] < q[l][2]
          /\ q # <<>> => h.slot.activeLease = t
      BY <2>1 DEF CallsInv
    <3>2. \A i \in 1 .. MaxCalls :
            /\ <<t, i>> \in h.slot.pending =>
                 /\ h.result[<<t, i>>] = "pending" /\ h.slot.activeLease = t /\ <<t, i>> \notin X
                 /\ \A k \in 1 .. Len(q) : i < q[k][2]
            /\ <<t, i>> \in X => h.result[<<t, i>>] = "pending"
            /\ h.result[<<t, i>>] = "pending" =>
                 <<t, i>> \in h.slot.pending \/ <<t, i>> \in X \/ \E k \in 1 .. Len(q) : q[k] = <<t, i>>
      BY <2>1 DEF CallsInv
    <3>3. \A k \in 1 .. Len(q) : q[k] \notin P BY <2>2
    <3>4. g.lease[t].queue = q BY <1>1
    <3> HIDE DEF q
    <3>5. \A i \in 1 .. MaxCalls :
            /\ <<t, i>> \in g.slot.pending =>
                 /\ g.result[<<t, i>>] = "pending" /\ g.slot.activeLease = t /\ <<t, i>> \notin X \cup P
                 /\ \A k \in 1 .. Len(q) : i < q[k][2]
            /\ <<t, i>> \in X \cup P => g.result[<<t, i>>] = "pending"
            /\ g.result[<<t, i>>] = "pending" =>
                 <<t, i>> \in g.slot.pending \/ <<t, i>> \in X \cup P \/ \E k \in 1 .. Len(q) : q[k] = <<t, i>>
      BY <1>1, <3>2
    <3>6. QED BY <1>1, <3>1, <3>3, <3>4, <3>5 DEF CallsInv
  <2>4. CountInv(t, g) BY <1>1, <2>1 DEF CountInv, OpenCalls
  <2>5. RootInv(t, X \cup P, g) BY <1>1, <2>1 DEF RootInv
  <2>6. QED BY <2>3, <2>4, <2>5 DEF WorkOf
<1>3. \A r \in g.slot.pending \cup (X \cup P) : hm[r[1]] = s BY DEF Work
<1>4. WaitingOn(g.slot, g.lease) <= QueueCapacity BY <1>1 DEF Work, WaitingOn
<1>5. QED BY <1>2, <1>3, <1>4 DEF Work

\* The "message" listener: the answered request settles and the next one starts.
LEMMA OnMessageWork ==
  ASSUME IInv, OwedInv, IInv', NEW s \in Slots, NEW r \in Requests, OnMessage(s, r)
  PROVE  OwedInv' /\ Mild
<1> DEFINE left == slot[s].posted \ {r}
           sl == [slot[s] EXCEPT !.posted = left]
           tk == [sl EXCEPT !.pending = sl.pending \ {r}, !.inflight = sl.inflight - 1]
           taken == [Here(s) EXCEPT !.slot = tk]
           known == slot[s].state = "running" /\ r \in slot[s].pending
<1>1. home' = home BY DEF OnMessage
<1>2. PICK v \in {"ok", "workerError"} :
        Commit(s, IF known THEN DrainQueue(s, NotifyPendingDrained(Settle(taken, {r}, v)))
                  ELSE [Here(s) EXCEPT !.slot = sl])
  BY DEF OnMessage
<1>3. slot[s] \in SlotRecord /\ Here(s) \in HState BY HereType DEF IInv, TypeOK
<1>4. /\ sl \in SlotRecord /\ sl.pending = slot[s].pending /\ sl.queue = slot[s].queue
      /\ sl.inflight = slot[s].inflight /\ sl.activeLease = slot[s].activeLease
      /\ sl.state = slot[s].state /\ sl.closing = slot[s].closing
  <2>1. left \in SUBSET Requests BY <1>3 DEF SlotRecord
  <2> HIDE DEF left
  <2>2. QED BY <1>3, <2>1 DEF SlotRecord
<1>5. CASE ~known
  <2> DEFINE g == [Here(s) EXCEPT !.slot = sl]
  <2>1. Commit(s, g) BY <1>2, <1>5
  <2> HIDE DEF sl
  <2>2. g \in HState /\ g.slot = sl /\ g.phase = phase /\ g.lease = lease /\ g.result = result
        /\ g.untracked = untracked
    BY <1>3, <1>4, HereFields DEF HState
  <2> HIDE DEF g
  <2>3. SameTables(Here(s), g) BY <2>2, HereFields DEF SameTables
  <2>4. SameOwner(slot[s], g.slot) BY <1>4, <2>2 DEF SameOwner
  <2>5. Closes(slot[s], g.slot) BY <1>4, <2>2 DEF Closes, OwedInv, BarrierInv
  <2>6. OwedInv' BY <1>1, <2>1, <2>2, <2>3, <2>4, <2>5, SlotCommitWork
  <2>7. result' = result BY <2>1, <2>2 DEF Commit
  <2>8. Mild BY <2>7 DEF Mild
  <2>9. QED BY <2>6, <2>8
<1>6. CASE known
  <2> DEFINE V == Ordinary
             f == Settle(taken, {r}, v)
             n == NotifyPendingDrained(f)
             d == DrainQueue(s, n)
  <2>1. Commit(s, d) BY <1>2, <1>6
  <2>2. HInv(s, n, home) BY <1>6, AnsweredInv
  <2>3. /\ tk \in SlotRecord /\ tk.pending = slot[s].pending \ {r} /\ tk.queue = slot[s].queue
        /\ tk.activeLease = slot[s].activeLease /\ tk.state = slot[s].state
        /\ tk.closing = slot[s].closing
    <3>1. sl.pending \ {r} \in SUBSET Requests /\ sl.inflight - 1 \in Int
      BY <1>4 DEF SlotRecord
    <3> HIDE DEF sl
    <3>2. QED BY <1>4, <3>1 DEF SlotRecord
  <2> HIDE DEF tk
  <2>4. taken \in HState /\ taken.slot = tk /\ taken.phase = phase /\ taken.lease = lease
        /\ taken.result = result /\ taken.untracked = untracked
    BY <1>3, <2>3, HereFields DEF HState
  <2>5. v \in Verdicts /\ v \in V BY DEF Verdicts, Ordinary
  <2>6. DrainVerdicts \subseteq V BY DEF DrainVerdicts, Ordinary, Verdicts
  <2> HIDE DEF taken, V
  <2>7. Work(s, taken, home, {r})
    <3>1. Work(s, Here(s), home, {}) BY DEF OwedInv, WorkInv
    <3>2. SameTables(Here(s), taken) BY <2>4, HereFields DEF SameTables
    <3>3. Here(s).slot = slot[s] BY HereFields
    <3>4. {r} \in SUBSET Here(s).slot.pending BY <1>6, <3>3
    <3>5. /\ taken.slot.pending = Here(s).slot.pending \ {r}
          /\ taken.slot.queue = Here(s).slot.queue
          /\ taken.slot.activeLease = Here(s).slot.activeLease
      BY <2>3, <2>4, <3>3
    <3>6. Work(s, taken, home, {} \cup {r}) BY <1>3, <3>1, <3>2, <3>4, <3>5, TakePendingWork
    <3>7. {} \cup {r} = {r} OBVIOUS
    <3>8. QED BY <3>6, <3>7
  <2>8. Keeps(s, Here(s), taken, home, V)
    <3>1. /\ Here(s).slot = slot[s] /\ Here(s).phase = phase /\ Here(s).lease = lease
          /\ Here(s).result = result /\ Here(s).untracked = untracked
      BY HereFields
    <3>2. QED BY <2>3, <2>4, <3>1 DEF Keeps, Elsewhere, Alike, Promises, Promise
  <2>9. f \in HState BY <2>4, <2>5, SettleType
  <2>10. Work(s, f, home, {r} \ {r}) /\ Keeps(s, taken, f, home, V)
    <3>1. {r} \in SUBSET Requests /\ {r} \in SUBSET {r} OBVIOUS
    <3>2. QED BY <2>4, <2>5, <2>7, <3>1, SettleWork
  <2>11. {r} \ {r} = {} OBVIOUS
  <2> HIDE DEF f
  <2>12. Work(s, n, home, {}) /\ Keeps(s, f, n, home, V) BY <2>9, <2>10, <2>11, NotifyWork
  <2> HIDE DEF n
  <2>13. Work(s, d, home, {}) /\ Drained(d) /\ Keeps(s, n, d, home, V)
    <3>1. {} \in SUBSET Requests OBVIOUS
    <3>2. QED BY <2>2, <2>6, <2>12, <3>1, DrainQueueWork
  <2>14. d \in HState BY <2>2, DrainQueueInv DEF HInv
  <2> HIDE DEF d
  <2>15. Keeps(s, Here(s), d, home, V) BY <2>8, <2>10, <2>12, <2>13, KeepsTrans
  <2>16. Rehomed(s) BY <1>1 DEF Rehomed
  <2>17. OwedInv' BY <1>1, <2>1, <2>13, <2>14, <2>15, <2>16, HandlerWork
  <2>18. Mild BY <2>1, <2>14, <2>15, HandlerMild DEF V
  <2>19. QED BY <2>17, <2>18
<1>7. QED BY <1>5, <1>6

\* A queue without its i-th entry covers the queue, but for that entry.
LEMMA CoversRemoved ==
  ASSUME NEW q \in Seq(Tasks), NEW i \in 1 .. Len(q), NEW p \in Seq(Tasks), Len(p) = Len(q) - 1,
         \A j \in 1 .. Len(p) : p[j] = IF j < i THEN q[j] ELSE q[j + 1]
  PROVE  Covers(p, {Root(q[i])}, q)
<1>1. Len(q) \in Nat OBVIOUS
<1>2. SUFFICES ASSUME NEW j \in 1 .. Len(q), j # i PROVE \E k \in 1 .. Len(p) : p[k] = q[j]
  BY DEF Covers
<1>3. CASE j < i
  <2>1. j \in 1 .. Len(p) /\ p[j] = q[j] BY <1>1, <1>2, <1>3
  <2>2. QED BY <2>1
<1>4. CASE ~(j < i)
  <2>1. j - 1 \in 1 .. Len(p) /\ ~(j - 1 < i) /\ (j - 1) + 1 = j BY <1>1, <1>2, <1>4
  <2>2. p[j - 1] = q[j] BY <2>1
  <2>3. QED BY <2>1, <2>2
<1>5. QED BY <1>3, <1>4

\* The abort listener of a queued call: the call is settled, the queue goes on.
LEMMA AbortQueuedWork ==
  ASSUME IInv, OwedInv, IInv', NEW t \in Tasks, AbortQueued(t)
  PROVE  OwedInv' /\ Mild
<1>1. Kind[t] # "close" /\ phase[t] = "waiting" /\ home' = home
  BY PoolAssumption DEF AbortQueued
<1>2. PICK i \in 1 .. Len(slot[home[t]].queue) :
        /\ slot[home[t]].queue[i] = t
        /\ Commit(home[t], DrainQueue(home[t], RejectQueued(
             [Here(home[t]) EXCEPT !.slot = [slot[home[t]] EXCEPT
                !.queue = SubSeq(slot[home[t]].queue, 1, i - 1)
                            \o SubSeq(slot[home[t]].queue, i + 1, Len(slot[home[t]].queue))]],
             {t}, "aborted")))
  BY DEF AbortQueued
<1>3. home[t] \in Slots BY <1>1 DEF IInv, SlotsInv, TaskInv
<1>4. PICK s \in Slots : s = home[t] BY <1>3
<1> DEFINE q == slot[s].queue
           p == SubSeq(q, 1, i - 1) \o SubSeq(q, i + 1, Len(q))
           sl == [slot[s] EXCEPT !.queue = p]
           f == [Here(s) EXCEPT !.slot = sl]
           g == RejectQueued(f, {t}, "aborted")
           d == DrainQueue(s, g)
           V == Ordinary
<1>5. HInv(s, g, home) BY <1>1, <1>2, <1>4, RemovedInv
<1>6. Commit(s, d) BY <1>2, <1>4
<1>7. slot[s] \in SlotRecord /\ Here(s) \in HState BY HereType DEF IInv, TypeOK
<1>8. q \in Seq(Tasks) /\ q[i] = t /\ i \in 1 .. Len(q) BY <1>2, <1>4, <1>7 DEF SlotRecord
<1>9. /\ p \in Seq(Tasks) /\ Len(p) = Len(q) - 1
      /\ \A j \in 1 .. Len(p) : p[j] = IF j < i THEN q[j] ELSE q[j + 1]
  <2> HIDE DEF q
  <2> QED BY <1>8, RemovedAt
<1> HIDE DEF p
<1>10. /\ sl \in SlotRecord /\ sl.queue = p /\ sl.pending = slot[s].pending
       /\ sl.inflight = slot[s].inflight /\ sl.activeLease = slot[s].activeLease
       /\ sl.state = slot[s].state /\ sl.closing = slot[s].closing
  BY <1>7, <1>9 DEF SlotRecord
<1> HIDE DEF sl
<1>11. f \in HState /\ f.slot = sl /\ f.phase = phase /\ f.lease = lease
       /\ f.result = result /\ f.untracked = untracked
  BY <1>7, <1>10, HereFields DEF HState
<1> HIDE DEF f
<1>12. "aborted" \in Verdicts /\ "aborted" \in V /\ DrainVerdicts \subseteq V
  BY DEF DrainVerdicts, Ordinary, Verdicts
<1> HIDE DEF V
<1>13. Covers(p, {Root(t)}, q)
  <2> HIDE DEF q
  <2> QED BY <1>8, <1>9, CoversRemoved
<1>14. RootsAt(s, home, {Root(t)}) BY <1>4 DEF RootsAt
<1>15. /\ Here(s).slot = slot[s] /\ Here(s).phase = phase /\ Here(s).lease = lease
       /\ Here(s).result = result /\ Here(s).untracked = untracked
  BY HereFields
<1>16. SameTables(Here(s), f) /\ SameSlot(Here(s), f) BY <1>10, <1>11, <1>15 DEF SameTables, SameSlot
<1>17. Work(s, f, home, {} \cup {Root(t)}) /\ Keeps(s, Here(s), f, home, V)
  <2>1. Work(s, Here(s), home, {}) BY DEF OwedInv, WorkInv
  <2>2. Here(s).slot.queue = q /\ f.slot.queue = p BY <1>10, <1>11, <1>15
  <2>3. Len(q) \in Nat BY <1>8
  <2> HIDE DEF q
  <2>4. Len(p) <= Len(q) BY <1>9, <2>3
  <2>5. QED BY <1>7, <1>9, <1>13, <1>14, <1>16, <2>1, <2>2, <2>4, CutQueueWork
<1>18. {} \cup {Root(t)} = {Root(t)} /\ {Root(t)} \ {Root(u) : u \in {t}} = {} OBVIOUS
<1>19. Work(s, g, home, {}) /\ Keeps(s, f, g, home, V)
  <2>1. {Root(t)} \in SUBSET Requests BY PoolAssumption DEF Root, Requests
  <2>2. {t} \in SUBSET Tasks /\ \A u \in {t} : f.phase[u] = "waiting" /\ Root(u) \in {Root(t)}
    BY <1>1, <1>11
  <2>3. Work(s, f, home, {Root(t)}) BY <1>17, <1>18
  <2> DEFINE X == {Root(t)}
             T == {t}
             Y == {Root(u) : u \in T}
  <2>4. X \in SUBSET Requests /\ T \in SUBSET Tasks /\ f \in HState /\ "aborted" \in Verdicts
        /\ "aborted" \in V /\ Work(s, f, home, X)
        /\ \A u \in T : f.phase[u] = "waiting" /\ Root(u) \in X
    BY <1>11, <1>12, <2>1, <2>2, <2>3
  <2>5. g = RejectQueued(f, T, "aborted") OBVIOUS
  <2>6. X \ Y = {} OBVIOUS
  <2> HIDE DEF X, g, T
  <2>7. Work(s, g, home, X \ Y) /\ Keeps(s, f, g, home, V) BY <2>4, <2>5, RejectQueuedWork
  <2>8. QED BY <2>6, <2>7
<1> HIDE DEF g
<1>20. Work(s, d, home, {}) /\ Drained(d) /\ Keeps(s, g, d, home, V)
  <2>1. {} \in SUBSET Requests OBVIOUS
  <2>2. QED BY <1>5, <1>12, <1>19, <2>1, DrainQueueWork
<1>21. d \in HState BY <1>5, DrainQueueInv DEF HInv
<1> HIDE DEF d
<1>22. Keeps(s, Here(s), d, home, V) BY <1>17, <1>19, <1>20, KeepsTrans
<1>23. Rehomed(s) BY <1>1 DEF Rehomed
<1>24. OwedInv' BY <1>1, <1>6, <1>20, <1>21, <1>22, <1>23, HandlerWork
<1>25. Mild BY <1>6, <1>21, <1>22, HandlerMild DEF V
<1>26. QED BY <1>24, <1>25

\* A lease that counts no call has none.
LEMMA NoOpenCalls ==
  ASSUME NEW t, NEW h, CountInv(t, h), h.lease[t].pendingCalls = 0
  PROVE  OpenCalls(t, h) = {}
<1>1. OpenCalls(t, h) \subseteq 1 .. MaxCalls BY DEF OpenCalls
<1>2. IsFiniteSet(1 .. MaxCalls) BY PoolAssumption, FS_Interval
<1>3. IsFiniteSet(OpenCalls(t, h)) BY <1>1, <1>2, FS_Subset
<1>4. Cardinality(OpenCalls(t, h)) = 0 BY DEF CountInv
<1>5. QED BY <1>3, <1>4, FS_EmptySet

\* The slot of a lease without calls is freed; the call that held it is in hand.
LEMMA FreeLeaseWork ==
  ASSUME NEW s, NEW hm, NEW h \in HState, Work(s, h, hm, {}), NEW t \in Tasks, hm[t] = s,
         h.slot.activeLease = t, OpenCalls(t, h) = {},
         NEW g, SameTables(h, g), g.slot.pending = h.slot.pending,
         g.slot.queue = h.slot.queue, g.slot.activeLease = None
  PROVE  Work(s, g, hm, {Root(t)})
<1>1. g.phase = h.phase /\ g.lease = h.lease /\ g.result = h.result /\ g.untracked = h.untracked
  BY DEF SameTables
<1>2. t # None BY PoolAssumption
<1>3. ASSUME NEW u \in Tasks, hm[u] = s
      PROVE  WorkOf(u, {Root(t)}, g)
  <2>1. CallsInv(u, {}, h) /\ CountInv(u, h) /\ RootInv(u, {}, h) BY <1>3 DEF Work, WorkOf
  <2>2. \A i \in 1 .. MaxCalls : u = t => h.result[<<u, i>>] # "pending" BY DEF OpenCalls
  <2>3. \A i \in 1 .. MaxCalls : <<u, i>> \notin h.slot.pending BY <2>1, <2>2 DEF CallsInv
  <2>4. h.lease[u].queue \in Seq(Calls) BY DEF HState, LeaseRecord
  <2>5. h.lease[u].queue = <<>>
    <3>1. SUFFICES ASSUME h.lease[u].queue # <<>> PROVE FALSE OBVIOUS
    <3>2. u = t BY <2>1, <3>1 DEF CallsInv
    <3>3. 1 \in 1 .. Len(h.lease[u].queue) BY <2>4, <3>1
    <3>4. PICK i \in 1 .. MaxCalls : h.lease[u].queue[1] = <<u, i>> BY <2>1, <3>3, OwnerEntry
    <3>5. h.result[h.lease[u].queue[1]] = "pending" BY <2>1, <3>3 DEF CallsInv
    <3>6. QED BY <2>2, <3>2, <3>4, <3>5
  <2>6. \A i \in 1 .. MaxCalls : h.result[<<u, i>>] # "pending"
    BY <2>1, <2>3, <2>5 DEF CallsInv
  <2>7. CallsInv(u, {Root(t)}, g)
    <3>1. g.lease[u].queue = <<>> BY <1>1, <2>5
    <3>2. \A i \in 1 .. MaxCalls : <<u, i>> # Root(t) BY DEF Root
    <3>3. \A k \in 1 .. 0 : FALSE OBVIOUS
    <3>4. Len(g.lease[u].queue) = 0 BY <3>1
    <3>5. \A i \in 1 .. MaxCalls : <<u, i>> \notin g.slot.pending /\ g.result[<<u, i>>] # "pending"
      BY <1>1, <2>3, <2>6
    <3>6. QED BY <3>1, <3>2, <3>3, <3>4, <3>5 DEF CallsInv
  <2>8. CountInv(u, g) BY <1>1, <2>1 DEF CountInv, OpenCalls
  <2>9. RootInv(u, {Root(t)}, g) BY <1>1, <2>1 DEF RootInv
  <2>10. QED BY <2>7, <2>8, <2>9 DEF WorkOf
<1>4. \A r \in g.slot.pending \cup {Root(t)} : hm[r[1]] = s BY DEF Work, Root
<1>5. WaitingOn(g.slot, g.lease) <= QueueCapacity
  <2> DEFINE m == Len(h.slot.queue)
             n == Len(h.lease[t].queue)
  <2>1. m \in Nat /\ n \in Nat BY DEF HState, SlotRecord, LeaseRecord
  <2>2. m + n <= QueueCapacity BY <1>2 DEF Work, WaitingOn
  <2>3. WaitingOn(g.slot, g.lease) = m + 0 BY DEF WaitingOn
  <2>4. QueueCapacity \in Nat BY PoolAssumption
  <2> HIDE DEF m, n
  <2>5. QED BY <2>1, <2>2, <2>3, <2>4
<1>6. QED BY <1>3, <1>4, <1>5 DEF Work

\* releaseLease() after the last proxy call: the slot is freed, its queue drained
\* and the outcome of the callback delivered.
LEMMA FinishReleaseWork ==
  ASSUME IInv, OwedInv, IInv', NEW t \in Tasks, FinishRelease(t)
  PROVE  OwedInv' /\ Mild
<1>1. phase[t] \in {"releasing", "abandoning"} /\ lease[t].pendingCalls = 0 /\ home' = home
  BY DEF FinishRelease
<1>2. home[t] \in Slots BY <1>1, ReleasedInv
<1>3. PICK s \in Slots : s = home[t] BY <1>2
<1> DEFINE sl == [slot[s] EXCEPT !.activeLease =
                    IF slot[s].activeLease = t THEN None ELSE slot[s].activeLease]
           freed == [Here(s) EXCEPT !.slot = sl]
           f == MarkReleased(freed, {t})
           d == DrainQueue(s, f)
           X == {Root(t)}
<1>4. PICK v \in IF phase[t] = "abandoning" THEN {"aborted"}
                 ELSE IF result[Root(t)] = "pending" THEN {"ok", "callbackError"}
                 ELSE {result[Root(t)]} : Commit(s, Settle(d, X, v))
  BY <1>3 DEF FinishRelease
<1>5. v \in Verdicts /\ (result[Root(t)] = "pending" => v \notin {"closed", "terminal"})
  <2>1. Root(t) \in Requests BY PoolAssumption DEF Root, Requests
  <2>2. result[Root(t)] \in Verdicts \cup {"none", "pending"} BY <2>1 DEF IInv, TypeOK
  <2>3. result[Root(t)] # "none" BY <1>1, PromiseOf
  <2>4. {"aborted", "ok", "callbackError"} \subseteq Verdicts BY DEF Verdicts
  <2>5. QED BY <1>4, <2>2, <2>3, <2>4
<1>6. HInv(s, f, home) /\ f.phase = phase BY <1>1, <1>3, ReleasedInv
<1>7. Work(s, Here(s), home, {}) BY DEF OwedInv, WorkInv
<1>8. slot[s] \in SlotRecord /\ Here(s) \in HState BY HereType DEF IInv, TypeOK
<1>9. /\ Here(s).slot = slot[s] /\ Here(s).phase = phase /\ Here(s).lease = lease
      /\ Here(s).result = result /\ Here(s).untracked = untracked
  BY HereFields
<1>10. CountInv(t, Here(s)) /\ RootInv(t, {}, Here(s)) BY <1>3, <1>7 DEF Work, WorkOf
<1>11. slot[s].activeLease = t BY <1>1, <1>9, <1>10 DEF RootInv, LeasePhases
<1>12. OpenCalls(t, Here(s)) = {} BY <1>1, <1>9, <1>10, NoOpenCalls
<1>13. /\ sl \in SlotRecord /\ sl.activeLease = None /\ sl.pending = slot[s].pending
       /\ sl.queue = slot[s].queue /\ sl.state = slot[s].state /\ sl.closing = slot[s].closing
  BY <1>8, <1>11 DEF SlotRecord
<1> HIDE DEF sl
<1>14. /\ freed \in HState /\ freed.slot = sl /\ freed.phase = phase /\ freed.lease = lease
       /\ freed.result = result /\ freed.untracked = untracked
  BY <1>8, <1>9, <1>13 DEF HState
<1> HIDE DEF freed
<1>15. Work(s, freed, home, X)
  <2>1. SameTables(Here(s), freed) BY <1>9, <1>14 DEF SameTables
  <2>2. freed.slot.pending = Here(s).slot.pending /\ freed.slot.queue = Here(s).slot.queue
        /\ freed.slot.activeLease = None /\ Here(s).slot.activeLease = t
    BY <1>9, <1>11, <1>13, <1>14
  <2>3. QED BY <1>3, <1>7, <1>8, <1>12, <2>1, <2>2, FreeLeaseWork
<1>16. Keeps(s, Here(s), freed, home, Ordinary)
  BY <1>9, <1>13, <1>14 DEF Keeps, Elsewhere, Alike, Promises, Promise
<1>17. OpenCalls(t, freed) = {} BY <1>9, <1>12, <1>14 DEF OpenCalls
<1>18. Work(s, f, home, X) /\ Keeps(s, freed, f, home, Ordinary)
  <2> HIDE DEF X
  <2>1. \A u \in Tasks : u \in {t} => home[u] = s /\ OpenCalls(u, freed) = {} BY <1>3, <1>17
  <2>2. QED BY <1>14, <1>15, <2>1, MarkReleasedWork
<1>19. f.slot = sl /\ f.result = result BY <1>14, MarkReleasedLeases
<1> HIDE DEF f
<1>20. Work(s, d, home, X) /\ Drained(d) /\ Keeps(s, f, d, home, Ordinary)
  <2>1. DrainVerdicts \subseteq Ordinary BY DEF DrainVerdicts, Ordinary, Verdicts
  <2>2. f.slot.activeLease = None BY <1>13, <1>19
  <2>3. \A j \in 1 .. Len(f.slot.queue) : Root(f.slot.queue[j]) \notin X
    <3>1. SUFFICES ASSUME NEW j \in 1 .. Len(f.slot.queue) PROVE f.slot.queue[j] # t
      BY DEF Root
    <3>2. f.phase[f.slot.queue[j]] = "waiting" BY <1>6 DEF HInv, SlotInv, QueueInv
    <3>3. QED BY <1>1, <1>6, <3>2
  <2>4. X \in SUBSET Requests BY PoolAssumption DEF Root, Requests
  <2> HIDE DEF X
  <2>5. QED BY <1>6, <1>18, <2>1, <2>2, <2>3, <2>4, DrainQueueWork
<1>21. d \in HState BY <1>6, DrainQueueInv DEF HInv
<1> HIDE DEF d
<1>22. Keeps(s, Here(s), d, home, Ordinary) BY <1>16, <1>18, <1>20, KeepsTrans
<1> DEFINE g == Settle(d, X, v)
           V == Ordinary \cup {v}
<1>23. Commit(s, g) BY <1>4
<1>24. g \in HState BY <1>5, <1>21, SettleType
<1>25. Work(s, g, home, X \ X) /\ Keeps(s, d, g, home, V)
  <2>1. X \in SUBSET Requests /\ X \in SUBSET X BY PoolAssumption DEF Root, Requests
  <2>2. v \in V OBVIOUS
  <2> HIDE DEF X, V
  <2>3. QED BY <1>5, <1>20, <1>21, <2>1, <2>2, SettleWork
<1>26. /\ g.slot = d.slot /\ g.lease = d.lease
       /\ \A r \in Requests : g.result[r] = IF r \in X THEN v ELSE d.result[r]
  BY <1>21, SettleResults
<1> HIDE DEF g
<1>27. Drained(g) BY <1>20, <1>26 DEF Drained
<1>28. Keeps(s, Here(s), g, home, V)
  <2>1. Ordinary \subseteq V OBVIOUS
  <2> HIDE DEF V
  <2>2. Keeps(s, Here(s), d, home, V) BY <1>22, <2>1 DEF Keeps
  <2>3. QED BY <1>25, <2>2, KeepsTrans
<1>29. Rehomed(s) BY <1>1 DEF Rehomed
<1>30. X \ X = {} OBVIOUS
<1>31. OwedInv' BY <1>1, <1>23, <1>24, <1>25, <1>27, <1>28, <1>29, <1>30, HandlerWork
<1>32. Mild
  <2>1. \A r \in Requests : result'[r] = IF r = Root(t) THEN v ELSE d.result[r]
    BY <1>23, <1>26 DEF Commit
  <2>2. \A r \in Requests : d.result[r] = result[r] \/ d.result[r] \in Ordinary
    BY <1>9, <1>22 DEF Keeps
  <2>3. QED BY <1>5, <2>1, <2>2 DEF Mild, Ordinary
<1>33. QED BY <1>31, <1>32

\* failSlot() settles all the work of the slot, and nothing else.
LEMMA FailSlotWork ==
  ASSUME IInv, OwedInv, NEW s \in Slots, slot[s].state = "running"
  PROVE  LET g == FailSlot(s)
         IN /\ g \in HState /\ Work(s, g, home, {}) /\ Elsewhere(s, Here(s), g, home)
            /\ Promises(Here(s), g) /\ g.slot.state = "failed"
            /\ \/ g.slot.closing = slot[s].closing
               \/ slot[s].closing = "pending" /\ g.slot.closing = "ready"
            /\ \A r \in Requests : g.result[r] = result[r] \/ g.result[r] = "terminal"
<1> DEFINE b == Here(s)
           q == slot[s].queue
           P == slot[s].pending
           t == slot[s].activeLease
           owned == IF t = None THEN {} ELSE Elems(lease[t].queue)
           ls == IF t = None THEN lease
                 ELSE [lease EXCEPT ![t] = [lease[t] EXCEPT !.queue = <<>>]]
           cut == [slot[s] EXCEPT !.queue = <<>>]
           dead == [slot[s] EXCEPT !.state = "failed", !.listening = FALSE,
                                   !.pending = {}, !.inflight = 0, !.queue = <<>>]
           a1 == [b EXCEPT !.lease = ls]
           a2 == [a1 EXCEPT !.slot = cut]
           down == [b EXCEPT !.slot = dead, !.lease = ls]
           T == Elems(q)
           Y == {Root(u) : u \in T}
           R == owned \cup P
           f == RejectQueued(down, T, "terminal")
           g == Settle(f, R, "terminal")
           n == NotifyPendingDrained(g)
           V == {"terminal"}
<1>1. FailSlot(s) = n BY DEF FailSlot
<1>2. slot[s] \in SlotRecord /\ lease \in [Tasks -> LeaseRecord] /\ b \in HState
  BY HereType DEF IInv, TypeOK
<1>3. /\ b.slot = slot[s] /\ b.phase = phase /\ b.lease = lease
      /\ b.result = result /\ b.untracked = untracked
  BY HereFields
<1>4. Work(s, b, home, {}) BY DEF OwedInv, WorkInv
<1>5. QueueInv(s, slot[s], phase, home) /\ OwnerInv(s, slot[s], phase, lease, home)
  BY DEF IInv, SlotsInv, SlotInv
<1>6. t # None => t \in Tasks /\ home[t] = s BY <1>2, <1>5 DEF OwnerInv, SlotRecord
<1> HIDE DEF b
<1>7. /\ a1 \in HState /\ a1.slot = slot[s] /\ a1.phase = phase /\ a1.lease = ls
      /\ a1.result = result /\ a1.untracked = untracked
      /\ Work(s, a1, home, owned) /\ owned \in SUBSET Calls
      /\ \A u \in Tasks : home[u] # s => ls[u] = lease[u]
  <2>1. CASE t = None
    <3>1. owned = {} /\ ls = lease BY <2>1
    <3>2. a1 = b
      <4> HIDE DEF ls
      <4>1. [b EXCEPT !.lease = lease] = b BY <1>2, <1>3 DEF HState
      <4>2. QED BY <3>1, <4>1
    <3> HIDE DEF a1, owned, ls
    <3>3. QED BY <1>2, <1>3, <1>4, <3>1, <3>2
  <2>2. CASE t # None
    <3>1. t \in Tasks /\ home[t] = s BY <1>6, <2>2
    <3> HIDE DEF t
    <3> DEFINE o == lease[t].queue
               l == [lease[t] EXCEPT !.queue = <<>>]
    <3>2. lease[t] \in LeaseRecord /\ o \in Seq(Calls) BY <1>2, <3>1 DEF LeaseRecord
    <3>3. /\ l \in LeaseRecord /\ l.queue = <<>> /\ l.pendingCalls = lease[t].pendingCalls
          /\ l.released = lease[t].released
      <4>1. <<>> \in Seq(Calls) OBVIOUS
      <4>2. QED BY <3>2, <4>1 DEF LeaseRecord
    <3>4. ls = [lease EXCEPT ![t] = l] /\ owned = Elems(o) BY <2>2
    <3> HIDE DEF l, o, ls, owned
    <3>5. ls \in [Tasks -> LeaseRecord] /\ ls[t] = l /\ \A u \in Tasks : u # t => ls[u] = lease[u]
      BY <1>2, <3>1, <3>3, <3>4
    <3>6. /\ a1 \in HState /\ a1.slot = slot[s] /\ a1.phase = phase /\ a1.lease = ls
          /\ a1.result = result /\ a1.untracked = untracked
      BY <1>2, <1>3, <3>5 DEF HState
    <3> HIDE DEF a1
    <3>7. owned \in SUBSET Calls BY <3>2, <3>4, ElementOfSeq DEF Elems
    <3>8. Work(s, a1, home, owned)
      <4> DEFINE k == Len(o) + 1
      <4>1. Len(o) \in Nat BY <3>2
      <4>2. k \in 1 .. Len(o) + 1 BY <4>1
      <4>3. Len(<<>>) = 0 /\ <<>> \in Seq(Calls) OBVIOUS
      <4>4. Behind(o, k, <<>>) BY <4>1, <4>3 DEF Behind
      <4>5. FrontOf(owned, o, k) BY <3>4, <4>1 DEF FrontOf, Elems
      <4>6. b.slot.activeLease = t /\ b.lease[t].queue = o BY <1>3 DEF t, o
      <4>7. OwnerCut(t, b, a1, <<>>) BY <1>3, <3>3, <3>5, <3>6 DEF OwnerCut
      <4> HIDE DEF k
      <4>8. QED BY <1>2, <1>4, <3>1, <4>2, <4>3, <4>4, <4>5, <4>6, <4>7, CutOwnerWork
    <3>9. QED BY <3>1, <3>5, <3>6, <3>7, <3>8
  <2>3. QED BY <2>1, <2>2
<1> HIDE DEF a1, ls, owned
<1>8. /\ cut \in SlotRecord /\ cut.queue = <<>> /\ cut.pending = P
      /\ cut.inflight = slot[s].inflight /\ cut.activeLease = slot[s].activeLease
      /\ cut.state = slot[s].state /\ cut.closing = slot[s].closing
  <2>1. <<>> \in Seq(Tasks) OBVIOUS
  <2>2. QED BY <1>2, <2>1 DEF SlotRecord
<1>9. /\ dead \in SlotRecord /\ dead.queue = <<>> /\ dead.pending = {}
      /\ dead.activeLease = slot[s].activeLease /\ dead.state = "failed"
      /\ dead.closing = slot[s].closing
  <2>1. <<>> \in Seq(Tasks) /\ {} \in SUBSET Requests /\ 0 \in Int OBVIOUS
  <2>2. QED BY <1>2, <2>1 DEF SlotRecord
<1> HIDE DEF cut, dead
<1>10. /\ a2 \in HState /\ a2.slot = cut /\ a2.phase = phase /\ a2.lease = ls
       /\ a2.result = result /\ a2.untracked = untracked
  BY <1>7, <1>8 DEF HState
<1>11. /\ down \in HState /\ down.slot = dead /\ down.phase = phase /\ down.lease = ls
       /\ down.result = result /\ down.untracked = untracked
  BY <1>2, <1>3, <1>7, <1>9 DEF HState
<1> HIDE DEF a2, down
<1>12. q \in Seq(Tasks) /\ Len(q) \in Nat BY <1>2 DEF SlotRecord
<1>13. T \in SUBSET Tasks /\ \A u \in T : home[u] = s /\ phase[u] = "waiting" /\ Root(u) \notin P
  BY <1>5, <1>12, ElementOfSeq DEF QueueInv, Elems
<1>14. Work(s, a2, home, owned \cup Y)
  <2>1. RootsAt(s, home, Y) BY <1>13 DEF RootsAt
  <2>2. Covers(<<>>, Y, q) BY DEF Covers, Elems
  <2>3. <<>> \in Seq(Tasks) /\ Len(<<>>) = 0 OBVIOUS
  <2>4. a1.slot.queue = q /\ a2.slot.queue = <<>> BY <1>7, <1>8, <1>10
  <2>5. SameTables(a1, a2) /\ SameSlot(a1, a2) BY <1>7, <1>8, <1>10 DEF SameTables, SameSlot
  <2> HIDE DEF q, Y
  <2>6. Len(<<>>) <= Len(a1.slot.queue) BY <1>12, <2>3, <2>4
  <2>7. QED BY <1>7, <2>1, <2>2, <2>3, <2>4, <2>5, <2>6, CutQueueWork
<1> DEFINE X == (owned \cup Y) \cup P
<1>15. Work(s, down, home, X)
  <2>1. SameTables(a2, down) BY <1>10, <1>11 DEF SameTables
  <2>2. /\ P \in SUBSET a2.slot.pending /\ down.slot.pending = a2.slot.pending \ P
        /\ down.slot.queue = a2.slot.queue /\ down.slot.activeLease = a2.slot.activeLease
    BY <1>8, <1>9, <1>10, <1>11
  <2> HIDE DEF Y, P
  <2>3. QED BY <1>10, <1>14, <2>1, <2>2, TakePendingWork
<1>16. X \in SUBSET Requests
  <2>1. owned \in SUBSET Requests BY <1>7, PoolAssumption DEF Calls, Requests
  <2>2. Y \in SUBSET Requests BY <1>13, PoolAssumption DEF Root, Requests
  <2>3. P \in SUBSET Requests BY <1>2 DEF SlotRecord
  <2>4. QED BY <2>1, <2>2, <2>3
<1>17. X \ Y = R
  <2>1. \A r \in Y : r \notin owned BY <1>7 DEF Root, Calls
  <2>2. \A r \in Y : r \notin P BY <1>13
  <2> HIDE DEF Y, P
  <2>3. QED BY <2>1, <2>2
<1>18. \A u \in T : down.phase[u] = "waiting" /\ Root(u) \in X BY <1>11, <1>13
<1>19. "terminal" \in Verdicts /\ "terminal" \in V BY DEF Verdicts
<1> HIDE DEF X, T, V
<1>20. Work(s, f, home, R) /\ Keeps(s, down, f, home, V)
  <2>1. Work(s, f, home, X \ Y) /\ Keeps(s, down, f, home, V)
    BY <1>11, <1>13, <1>15, <1>16, <1>18, <1>19, RejectQueuedWork
  <2> HIDE DEF f, Y, R
  <2>2. QED BY <1>17, <2>1
<1>21. f \in HState BY <1>11, <1>19, RejectQueuedType
<1>22. R \in SUBSET Requests
  <2> HIDE DEF R
  <2> QED BY <1>16, <1>17
<1> HIDE DEF f, R
<1>23. Work(s, g, home, {}) /\ Keeps(s, f, g, home, V) /\ g \in HState
  <2>1. R \in SUBSET R /\ R \ R = {} OBVIOUS
  <2>2. Work(s, g, home, R \ R) /\ Keeps(s, f, g, home, V)
    BY <1>19, <1>20, <1>21, <1>22, <2>1, SettleWork
  <2>3. g \in HState BY <1>19, <1>21, SettleType
  <2>4. QED BY <2>1, <2>2, <2>3
<1> HIDE DEF g
<1>24. Work(s, n, home, {}) /\ Keeps(s, g, n, home, V) BY <1>23, NotifyWork
<1>25. n \in HState
  <2> DEFINE w == [g.slot EXCEPT !.closing = "ready"]
  <2>1. g.slot \in SlotRecord BY <1>23 DEF HState
  <2>2. w \in SlotRecord BY <2>1 DEF SlotRecord
  <2> HIDE DEF w
  <2>3. [g EXCEPT !.slot = w] \in HState BY <1>23, <2>2 DEF HState
  <2>4. QED BY <1>23, <2>3 DEF NotifyPendingDrained, w
<1> HIDE DEF n
<1>26. Keeps(s, down, n, home, V) BY <1>20, <1>23, <1>24, KeepsTrans
<1>27. Elsewhere(s, b, n, home)
  <2>1. Elsewhere(s, b, down, home) BY <1>3, <1>7, <1>11 DEF Elsewhere, Alike
  <2>2. Elsewhere(s, down, n, home) BY <1>26 DEF Keeps
  <2>3. QED BY <2>1, <2>2 DEF Elsewhere, Alike
<1>28. Promises(b, n)
  <2>1. Promises(b, down) BY <1>3, <1>11 DEF Promises, Promise
  <2>2. Promises(down, n) BY <1>26 DEF Keeps
  <2>3. QED BY <2>1, <2>2 DEF Promises
<1>29. n.slot.state = "failed" BY <1>9, <1>11, <1>26 DEF Keeps
<1>30. \/ n.slot.closing = slot[s].closing
       \/ slot[s].closing = "pending" /\ n.slot.closing = "ready"
  BY <1>9, <1>11, <1>26 DEF Keeps
<1>31. \A r \in Requests : n.result[r] = result[r] \/ n.result[r] = "terminal"
  BY <1>11, <1>26 DEF Keeps, V
<1>32. QED BY <1>1, <1>24, <1>25, <1>27, <1>28, <1>29, <1>30, <1>31 DEF b

\* The two action properties, as a step has them: a promise fails with its own slot,
\* and close() settles queued root calls only.
OwnFailure ==
  \A r \in Requests :
    result[r] = "pending" /\ result'[r] = "terminal" => slot'[home[r[1]]].state = "failed"
QueuedClose ==
  \A r \in Requests :
    result[r] = "pending" /\ result'[r] = "closed" =>
      r[2] = 0 /\ r[1] \in Elems(slot[home[r[1]]].queue)

\* A step that settles nothing with either verdict.
LEMMA MildStep ==
  ASSUME Mild
  PROVE  OwnFailure /\ QueuedClose
BY DEF Mild, OwnFailure, QueuedClose

\* handleSlotTerminal() of a running slot.
LEMMA HandleSlotTerminalWork ==
  ASSUME IInv, OwedInv, NEW s \in Slots, slot[s].state = "running", HandleSlotTerminal(s),
         home' = home
  PROVE  OwedInv' /\ OwnFailure /\ QueuedClose
<1> DEFINE g == FailSlot(s)
<1>1. Commit(s, g) BY DEF HandleSlotTerminal
<1>2. /\ g \in HState /\ Work(s, g, home, {}) /\ Elsewhere(s, Here(s), g, home)
      /\ Promises(Here(s), g) /\ g.slot.state = "failed"
      /\ \/ g.slot.closing = slot[s].closing
         \/ slot[s].closing = "pending" /\ g.slot.closing = "ready"
      /\ \A r \in Requests : g.result[r] = result[r] \/ g.result[r] = "terminal"
  BY FailSlotWork
<1> HIDE DEF g
<1>3. Rehomed(s) BY DEF Rehomed
<1>4. Drained(g) BY <1>2 DEF Drained
<1>5. Closes(slot[s], g.slot) BY <1>2 DEF Closes, OwedInv, BarrierInv
<1>6. OwedInv' BY <1>1, <1>2, <1>3, <1>4, <1>5, CommitWork
<1>7. result' = g.result /\ slot'[s] = g.slot BY <1>1, <1>2, CommitHere DEF IInv
<1>8. QueuedClose BY <1>2, <1>7 DEF QueuedClose
<1>9. OwnFailure
  <2>1. SUFFICES ASSUME NEW r \in Requests, result[r] = "pending", result'[r] = "terminal"
                 PROVE  home[r[1]] = s
    BY <1>2, <1>7 DEF OwnFailure
  <2>2. SUFFICES ASSUME home[r[1]] # s PROVE FALSE OBVIOUS
  <2>3. r[1] \in Tasks /\ r[2] \in 0 .. MaxCalls /\ r = <<r[1], r[2]>> BY DEF Requests
  <2>4. Alike(r[1], Here(s), g) BY <1>2, <2>2, <2>3 DEF Elsewhere
  <2>5. Here(s).result = result BY HereFields
  <2>6. g.result[r] = result[r] BY <2>3, <2>4, <2>5 DEF Alike
  <2>7. QED BY <1>7, <2>1, <2>6
<1>10. QED BY <1>6, <1>8, <1>9

\* The "error" listener of a slot.
LEMMA OnErrorWork ==
  ASSUME IInv, OwedInv, NEW s \in Slots, OnError(s)
  PROVE  OwedInv' /\ OwnFailure /\ QueuedClose
<1>1. home' = home BY DEF OnError
<1>2. CASE slot[s].state = "running" /\ HandleSlotTerminal(s)
  BY <1>1, <1>2, HandleSlotTerminalWork
<1>3. CASE UNCHANGED Handled
  <2>1. UNCHANGED <<slot, phase, lease, result, untracked, home>> BY <1>1, <1>3 DEF Handled
  <2>2. Mild BY <2>1 DEF Mild
  <2>3. QED BY <2>1, <2>2, QuietWork, MildStep
<1>4. QED BY <1>2, <1>3 DEF OnError

\* notifyPendingDrained() settles nothing.
LEMMA NotifyResult ==
  ASSUME NEW s \in Slots, NEW sl, Commit(s, NotifyPendingDrained([Here(s) EXCEPT !.slot = sl]))
  PROVE  result' = result
<1>1. Here(s).result = result BY HereFields
<1> DEFINE h == [Here(s) EXCEPT !.slot = sl]
<1>2. h.result = Here(s).result BY DEF Here
<1>3. NotifyPendingDrained(h).result = h.result
  <2> DEFINE w == [h.slot EXCEPT !.closing = "ready"]
  <2>1. [h EXCEPT !.slot = w].result = h.result BY DEF Here
  <2> HIDE DEF h
  <2>2. QED BY <2>1 DEF NotifyPendingDrained
<1>4. result' = NotifyPendingDrained(h).result BY DEF Commit
<1>5. QED BY <1>1, <1>2, <1>3, <1>4

\* The "exit" listener of a slot.
LEMMA OnExitWork ==
  ASSUME IInv, OwedInv, IInv', NEW s \in Slots, OnExit(s)
  PROVE  OwedInv' /\ OwnFailure /\ QueuedClose
<1> DEFINE sl == [slot[s] EXCEPT !.state = "closed", !.listening = FALSE]
<1>1. home' = home BY DEF OnExit
<1>2. CASE slot[s].state = "running" /\ HandleSlotTerminal(s)
  BY <1>1, <1>2, HandleSlotTerminalWork
<1>3. CASE Commit(s, NotifyPendingDrained([Here(s) EXCEPT !.slot = sl]))
  <2>1. slot[s] \in SlotRecord BY DEF IInv, TypeOK
  <2>2. /\ sl \in SlotRecord /\ sl.state = "closed" /\ sl.closing = slot[s].closing
        /\ sl.pending = slot[s].pending /\ sl.queue = slot[s].queue
        /\ sl.inflight = slot[s].inflight /\ sl.activeLease = slot[s].activeLease
    BY <2>1 DEF SlotRecord
  <2> HIDE DEF sl
  <2>3. SameOwner(slot[s], sl) /\ Closes(slot[s], sl) BY <2>2 DEF SameOwner, Closes
  <2>4. OwedInv' BY <1>1, <1>3, <2>2, <2>3, ClosedSlotWork
  <2>5. Mild BY <1>3, NotifyResult DEF Mild
  <2>6. QED BY <2>4, <2>5, MildStep
<1>4. CASE UNCHANGED Handled
  <2>1. UNCHANGED <<slot, phase, lease, result, untracked, home>> BY <1>1, <1>4 DEF Handled
  <2>2. Mild BY <2>1 DEF Mild
  <2>3. QED BY <2>1, <2>2, QuietWork, MildStep
<1>5. QED BY <1>2, <1>3, <1>4 DEF OnExit

\* What rejectQueuedWork() of the calls in T with verdict v makes of call u.
RejectedAt(u, T, v, h, g) ==
  /\ g.phase[u] = (IF u \in T THEN "done" ELSE h.phase[u])
  /\ g.lease[u] = (IF u \in T /\ Kind[u] = "do"
                     THEN [h.lease[u] EXCEPT !.active = FALSE, !.released = TRUE] ELSE h.lease[u])
  /\ g.lease[u].queue = h.lease[u].queue
  /\ \A i \in 0 .. MaxCalls :
       g.result[<<u, i>>] = (IF i = 0 /\ u \in T THEN v ELSE h.result[<<u, i>>])
  /\ \A i \in 1 .. MaxCalls : <<u, i>> \in g.untracked <=> <<u, i>> \in h.untracked

\* rejectQueuedWork(): the promises of the rejected calls, and of no other, are written.
LEMMA RejectedCalls ==
  ASSUME NEW h \in HState, NEW T \in SUBSET Tasks, NEW v \in Verdicts
  PROVE  LET g == RejectQueued(h, T, v)
         IN /\ g \in HState /\ g.slot = h.slot
            /\ \A u \in Tasks : RejectedAt(u, T, v, h, g)
            /\ \A r \in Requests : g.result[r] = IF r \in {Root(u) : u \in T} THEN v ELSE h.result[r]
<1> DEFINE D == {u \in T : Kind[u] = "do"}
           R == {Root(u) : u \in T}
           m == MarkReleased(h, D)
           g == Settle(m, R, v)
<1>1. RejectQueued(h, T, v) = g BY DEF RejectQueued
<1>2. m \in HState BY MarkReleasedType
<1>3. /\ m.slot = h.slot /\ m.phase = h.phase /\ m.result = h.result /\ m.untracked = h.untracked
      /\ \A u \in Tasks : u \notin D => m.lease[u] = h.lease[u]
      /\ \A u \in Tasks : m.lease[u].queue = h.lease[u].queue
  BY MarkReleasedLeases
<1>4. \A u \in Tasks : u \in D => m.lease[u] = [h.lease[u] EXCEPT !.active = FALSE, !.released = TRUE]
  BY DEF MarkReleased, HState
<1>5. \A u : u \in D <=> u \in T /\ Kind[u] = "do" OBVIOUS
<1> HIDE DEF m, D
<1>6. /\ g.slot = m.slot /\ g.lease = m.lease
      /\ \A r \in Requests : g.result[r] = IF r \in R THEN v ELSE m.result[r]
      /\ \A u \in Tasks : g.phase[u] = IF Root(u) \in R THEN "done" ELSE m.phase[u]
      /\ g.untracked = m.untracked \cup (R \cap Calls)
  BY <1>2, SettleResults
<1>7. g \in HState BY <1>2, SettleType
<1> HIDE DEF g
<1>8. \A u \in Tasks : Root(u) \in R <=> u \in T BY DEF Root
<1>9. \A u \in Tasks : \A i \in 0 .. MaxCalls :
        <<u, i>> \in Requests /\ (<<u, i>> \in R <=> i = 0 /\ u \in T)
  BY RequestOf DEF Root
<1>10. \A u \in Tasks : \A i \in 1 .. MaxCalls : <<u, i>> \notin R BY DEF Root
<1> HIDE DEF R
<1>11. ASSUME NEW u \in Tasks PROVE RejectedAt(u, T, v, h, g)
  <2>1. g.phase[u] = IF u \in T THEN "done" ELSE h.phase[u] BY <1>3, <1>6, <1>8
  <2>2. g.lease[u] = (IF u \in T /\ Kind[u] = "do"
                     THEN [h.lease[u] EXCEPT !.active = FALSE, !.released = TRUE] ELSE h.lease[u])
    BY <1>3, <1>4, <1>5, <1>6
  <2>3. g.lease[u].queue = h.lease[u].queue BY <1>3, <1>6
  <2>4. \A i \in 0 .. MaxCalls :
          g.result[<<u, i>>] = (IF i = 0 /\ u \in T THEN v ELSE h.result[<<u, i>>])
    BY <1>3, <1>6, <1>9
  <2>5. \A i \in 1 .. MaxCalls : <<u, i>> \in g.untracked <=> <<u, i>> \in h.untracked
    BY <1>3, <1>6, <1>10
  <2>6. QED BY <2>1, <2>2, <2>3, <2>4, <2>5 DEF RejectedAt
<1>12. QED BY <1>1, <1>3, <1>6, <1>7, <1>11 DEF R

\* The same rejection, of the queues of all slots or of one, is the same for a call.
LEMMA RejectedAlike ==
  ASSUME NEW u, NEW T, NEW S, u \in T <=> u \in S, NEW v,
         NEW h, NEW g, RejectedAt(u, T, v, h, g),
         NEW k, NEW f, RejectedAt(u, S, v, k, f),
         k.phase = h.phase, k.lease = h.lease, k.result = h.result, k.untracked = h.untracked
  PROVE  Alike(u, f, g)
<1>1. f.phase[u] = g.phase[u] /\ f.lease[u] = g.lease[u] BY DEF RejectedAt
<1>2. \A i \in 0 .. MaxCalls : g.result[<<u, i>>] = f.result[<<u, i>>] BY DEF RejectedAt
<1>3. \A i \in 1 .. MaxCalls : <<u, i>> \in g.untracked <=> <<u, i>> \in f.untracked
  BY DEF RejectedAt
<1>4. QED BY <1>1, <1>2, <1>3 DEF Alike

\* finishClose() takes the queue of one slot.
LEMMA CutSlotWork ==
  ASSUME IInv, OwedInv, NEW s \in Slots
  PROVE  \E k, f \in HState :
           /\ SameTables(Here(s), k)
           /\ \A u \in Tasks : RejectedAt(u, Elems(slot[s].queue), "closed", k, f)
           /\ Work(s, f, home, {})
           /\ f.slot.queue = <<>> /\ f.slot.pending = slot[s].pending
           /\ f.slot.activeLease = slot[s].activeLease
<1> DEFINE q == slot[s].queue
           T == Elems(q)
           Y == {Root(u) : u \in T}
           cut == [slot[s] EXCEPT !.queue = <<>>]
           k == [Here(s) EXCEPT !.slot = cut]
           f == RejectQueued(k, T, "closed")
<1>1. slot[s] \in SlotRecord /\ Here(s) \in HState BY HereType DEF IInv, TypeOK
<1>2. /\ cut \in SlotRecord /\ cut.queue = <<>> /\ cut.pending = slot[s].pending
      /\ cut.inflight = slot[s].inflight /\ cut.activeLease = slot[s].activeLease
      /\ cut.state = slot[s].state /\ cut.closing = slot[s].closing
  <2>1. <<>> \in Seq(Tasks) OBVIOUS
  <2>2. QED BY <1>1, <2>1 DEF SlotRecord
<1> HIDE DEF cut
<1>3. /\ Here(s).slot = slot[s] /\ Here(s).phase = phase /\ Here(s).lease = lease
      /\ Here(s).result = result /\ Here(s).untracked = untracked
  BY HereFields
<1>4. /\ k \in HState /\ k.slot = cut /\ k.phase = phase /\ k.lease = lease
      /\ k.result = result /\ k.untracked = untracked
  BY <1>1, <1>2, <1>3 DEF HState
<1> HIDE DEF k
<1>5. SameTables(Here(s), k) /\ SameSlot(Here(s), k)
  BY <1>2, <1>3, <1>4 DEF SameTables, SameSlot
<1>6. q \in Seq(Tasks) /\ Len(q) \in Nat BY <1>1 DEF SlotRecord
<1>7. T \in SUBSET Tasks /\ \A u \in T : home[u] = s /\ phase[u] = "waiting"
  <2>1. QueueInv(s, slot[s], phase, home) BY DEF IInv, SlotsInv, SlotInv
  <2>2. QED BY <1>6, <2>1, ElementOfSeq DEF QueueInv, Elems
<1>8. Work(s, k, home, {} \cup Y)
  <2>1. Work(s, Here(s), home, {}) BY DEF OwedInv, WorkInv
  <2>2. RootsAt(s, home, Y) BY <1>7 DEF RootsAt
  <2>3. Covers(<<>>, Y, q) BY DEF Covers, Elems
  <2>4. <<>> \in Seq(Tasks) /\ Len(<<>>) = 0 OBVIOUS
  <2>5. Here(s).slot.queue = q /\ k.slot.queue = <<>> BY <1>2, <1>3, <1>4
  <2> HIDE DEF q, Y
  <2>6. Len(<<>>) <= Len(Here(s).slot.queue) BY <1>6, <2>4, <2>5
  <2>7. QED BY <1>1, <1>5, <2>1, <2>2, <2>3, <2>4, <2>5, <2>6, CutQueueWork
<1>9. {} \cup Y = Y /\ Y \ Y = {} OBVIOUS
<1>10. Y \in SUBSET Requests BY <1>7, PoolAssumption DEF Root, Requests
<1>11. \A u \in T : k.phase[u] = "waiting" /\ Root(u) \in Y BY <1>4, <1>7
<1>12. "closed" \in Verdicts BY DEF Verdicts
<1> HIDE DEF T
<1>13. Work(s, f, home, {})
  <2>1. Work(s, k, home, Y) BY <1>8, <1>9
  <2>2. "closed" \in {"closed"} OBVIOUS
  <2>3. Work(s, f, home, Y \ Y)
    BY <1>4, <1>7, <1>10, <1>11, <1>12, <2>1, <2>2, RejectQueuedWork
  <2> HIDE DEF Y, f
  <2>4. QED BY <1>9, <2>3
<1>14. f \in HState /\ f.slot = k.slot /\ \A u \in Tasks : RejectedAt(u, T, "closed", k, f)
  BY <1>4, <1>7, <1>12, RejectedCalls
<1> HIDE DEF f
<1>15. /\ f.slot.queue = <<>> /\ f.slot.pending = slot[s].pending
       /\ f.slot.activeLease = slot[s].activeLease
  BY <1>2, <1>4, <1>14
<1>16. QED BY <1>4, <1>5, <1>13, <1>14, <1>15 DEF T

\* What the first close() leaves, slot by slot and call by call.
ClosedFrom(t, Q, H) ==
  /\ H \in HState /\ home' = home
  /\ Kind[t] = "close" /\ phase[t] = "idle" /\ home[t] \notin Slots /\ t \notin Q
  /\ \A u \in Tasks : RejectedAt(u, Q, "closed", Here(0), H)
  /\ \A r \in Requests : H.result[r] = IF r \in {Root(u) : u \in Q} THEN "closed" ELSE result[r]
  /\ \A s \in Slots :
       /\ slot'[s].queue = <<>> /\ slot'[s].pending = slot[s].pending
       /\ slot'[s].activeLease = slot[s].activeLease /\ slot'[s].state = slot[s].state
       /\ slot'[s].inflight = slot[s].inflight
       /\ slot[s].closing = "open" /\ slot'[s].closing \in {"lease", "pending", "ready"}
  /\ \A u \in Tasks : phase'[u] = IF u = t THEN "waiting" ELSE H.phase[u]
  /\ \A r \in Requests : result'[r] = IF r = Root(t) THEN "pending" ELSE H.result[r]
  /\ lease' = H.lease /\ untracked' = untracked

\* The first close(): every FIFO of root calls is emptied, and exactly its calls are rejected.
LEMMA CloseFirstFacts ==
  ASSUME IInv, OwedInv, NEW t \in Tasks, CloseFirst(t)
  PROVE  /\ ClosedFrom(t, QueuedRoots, RejectQueued(Here(0), QueuedRoots, "closed"))
         /\ \A u \in QueuedRoots : u \in Tasks /\ home[u] \in Slots /\ u \in Elems(slot[home[u]].queue)
         /\ \A s \in Slots, u \in Tasks : home[u] = s =>
              (u \in QueuedRoots <=> u \in Elems(slot[s].queue))
<1> DEFINE b == Here(0)
           Q == QueuedRoots
           h == RejectQueued(b, Q, "closed")
           C(s) == IF slot[s].activeLease = None THEN WaitForPending(slot[s]) ELSE "lease"
           N(s) == [slot[s] EXCEPT !.queue = <<>>, !.awaits = slot[s].activeLease, !.closing = C(s)]
<1>1. /\ Kind[t] = "close" /\ phase[t] = "idle" /\ ~closed
      /\ slot' = [s \in Slots |-> N(s)]
      /\ phase' = [h.phase EXCEPT ![t] = "waiting"]
      /\ result' = [h.result EXCEPT ![Root(t)] = "pending"]
      /\ lease' = h.lease
      /\ home' = home /\ untracked' = untracked
  <2>1. Kind[t] = "close" /\ phase[t] = "idle" /\ ~closed BY DEF CloseFirst, Callable
  <2>2. slot' = [s \in Slots |-> N(s)] BY Zenon DEF CloseFirst
  <2>3. phase' = [h.phase EXCEPT ![t] = "waiting"] BY Zenon DEF CloseFirst
  <2>4. result' = [h.result EXCEPT ![Root(t)] = "pending"] BY Zenon DEF CloseFirst
  <2>5. lease' = h.lease BY Zenon DEF CloseFirst
  <2>6. home' = home /\ untracked' = untracked BY DEF CloseFirst
  <2>7. QED BY <2>1, <2>2, <2>3, <2>4, <2>5, <2>6
<1>2. TypeOK /\ SlotsInv BY DEF IInv
<1>3. 0 \in Slots BY PoolAssumption DEF Slots
<1>4. b \in HState /\ b.result = result BY <1>2, <1>3, HereType, HereFields
<1> HIDE DEF b
<1>5. ASSUME NEW s \in Slots, NEW u \in Elems(slot[s].queue)
      PROVE  u \in Tasks /\ home[u] = s /\ Kind[u] # "close"
  <2>1. SlotInv(s, slot[s], phase, lease, home) /\ slot[s] \in SlotRecord
    BY <1>2 DEF SlotsInv, TypeOK
  <2>2. slot[s].queue \in Seq(Tasks) BY <2>1 DEF SlotRecord
  <2>3. QED BY <2>1, <2>2, ElementOfSeq DEF SlotInv, QueueInv, Elems
<1>6. \A u : u \in Q <=> \E s \in Slots : u \in Elems(slot[s].queue) BY DEF QueuedRoots
<1> HIDE DEF Q
<1>7. Q \in SUBSET Tasks /\ t \notin Q
  <2>1. Kind[t] = "close" BY <1>1
  <2>2. QED BY <1>5, <1>6, <2>1
<1>8. /\ \A u \in Q : u \in Tasks /\ home[u] \in Slots /\ u \in Elems(slot[home[u]].queue)
      /\ \A s \in Slots, u \in Tasks : home[u] = s => (u \in Q <=> u \in Elems(slot[s].queue))
  BY <1>5, <1>6
<1>9. /\ h \in HState
      /\ \A u \in Tasks : RejectedAt(u, Q, "closed", b, h)
      /\ \A r \in Requests : h.result[r] = IF r \in {Root(u) : u \in Q} THEN "closed" ELSE result[r]
  <2>1. "closed" \in Verdicts BY DEF Verdicts
  <2>2. QED BY ZenonT(60), <1>4, <1>7, <2>1, RejectedCalls
<1> HIDE DEF h
<1>10. home[t] \notin Slots BY <1>1, OutsideCalls
<1>11. ASSUME NEW s \in Slots
       PROVE  /\ slot'[s].queue = <<>> /\ slot'[s].pending = slot[s].pending
              /\ slot'[s].activeLease = slot[s].activeLease /\ slot'[s].state = slot[s].state
              /\ slot'[s].inflight = slot[s].inflight
              /\ slot[s].closing = "open" /\ slot'[s].closing \in {"lease", "pending", "ready"}
  <2>1. slot[s] \in SlotRecord BY <1>2 DEF TypeOK
  <2> DEFINE c == C(s)
  <2>2. c \in {"ready", "pending", "lease"} BY DEF WaitForPending
  <2>3. slot'[s] = [slot[s] EXCEPT !.queue = <<>>, !.awaits = slot[s].activeLease, !.closing = c]
    BY <1>1
  <2>4. slot[s].closing = "open" BY <1>1, <1>2 DEF SlotsInv
  <2> HIDE DEF c
  <2>5. QED BY <2>1, <2>2, <2>3, <2>4 DEF SlotRecord
<1> HIDE DEF N, C
<1>12. \A u \in Tasks : phase'[u] = IF u = t THEN "waiting" ELSE h.phase[u]
  <2>1. h.phase \in [Tasks -> Phases] BY <1>9 DEF HState
  <2>2. QED BY <1>1, <2>1
<1>13. \A r \in Requests : result'[r] = IF r = Root(t) THEN "pending" ELSE h.result[r]
  <2>1. h.result \in [Requests -> Verdicts \cup {"none", "pending"}] BY <1>9 DEF HState
  <2>2. QED BY <1>1, <2>1
<1>14. ClosedFrom(t, Q, h)
  BY <1>1, <1>7, <1>9, <1>10, <1>11, <1>12, <1>13 DEF ClosedFrom, b
<1>15. QED BY <1>8, <1>14 DEF h, Q, b

\* A call of a slot, after close(), is as rejectQueuedWork() of that slot leaves it.
LEMMA ClosedAlike ==
  ASSUME NEW t \in Tasks, NEW Q, NEW H, ClosedFrom(t, Q, H), NEW u \in Tasks, u # t,
         NEW s \in Slots, NEW S, u \in Q <=> u \in S,
         NEW k, SameTables(Here(s), k), NEW f, RejectedAt(u, S, "closed", k, f)
  PROVE  Alike(u, f, Here(s)')
<1>1. /\ Here(s).phase = phase /\ Here(s).lease = lease /\ Here(s).result = result
      /\ Here(s).untracked = untracked
      /\ Here(s)'.phase = phase' /\ Here(s)'.lease = lease' /\ Here(s)'.result = result'
      /\ Here(s)'.untracked = untracked'
  BY HereFields
<1>2. /\ Here(0).phase = phase /\ Here(0).lease = lease /\ Here(0).result = result
      /\ Here(0).untracked = untracked
  BY HereFields
<1>3. /\ k.phase = Here(0).phase /\ k.lease = Here(0).lease /\ k.result = Here(0).result
      /\ k.untracked = Here(0).untracked
  BY <1>1, <1>2 DEF SameTables
<1>4. RejectedAt(u, Q, "closed", Here(0), H) BY DEF ClosedFrom
<1>5. Alike(u, f, H) BY <1>3, <1>4, RejectedAlike
<1>6. phase'[u] = H.phase[u] /\ lease' = H.lease BY DEF ClosedFrom
<1>7. \A i \in 0 .. MaxCalls : result'[<<u, i>>] = H.result[<<u, i>>]
  BY RequestIsRoot DEF ClosedFrom
<1>8. \A i \in 1 .. MaxCalls : <<u, i>> \in untracked' <=> <<u, i>> \in H.untracked
  <2>1. untracked' = untracked BY DEF ClosedFrom
  <2>2. QED BY <1>2, <1>4, <2>1 DEF RejectedAt
<1>9. QED BY <1>1, <1>5, <1>6, <1>7, <1>8 DEF Alike

\* The first close(): the queued root calls are settled, everything else goes on.
LEMMA CloseFirstWork ==
  ASSUME IInv, OwedInv, NEW t \in Tasks, CloseFirst(t)
  PROVE  OwedInv' /\ OwnFailure /\ QueuedClose
<1> DEFINE Q == QueuedRoots
           H == RejectQueued(Here(0), Q, "closed")
<1>1. /\ ClosedFrom(t, Q, H)
      /\ \A u \in Q : u \in Tasks /\ home[u] \in Slots /\ u \in Elems(slot[home[u]].queue)
      /\ \A s \in Slots, u \in Tasks : home[u] = s => (u \in Q <=> u \in Elems(slot[s].queue))
  BY CloseFirstFacts
<1> HIDE DEF Q, H
<1>2. home' = home /\ Kind[t] = "close" /\ home[t] \notin Slots /\ t \notin Q BY <1>1 DEF ClosedFrom
<1>3. ASSUME NEW s \in Slots
      PROVE  Work(s, Here(s)', home', {}) /\ Drained(Here(s)')
  <2>1. PICK k \in HState, f \in HState :
           /\ SameTables(Here(s), k)
           /\ \A u \in Tasks : RejectedAt(u, Elems(slot[s].queue), "closed", k, f)
           /\ Work(s, f, home, {})
           /\ f.slot.queue = <<>> /\ f.slot.pending = slot[s].pending
           /\ f.slot.activeLease = slot[s].activeLease
    BY CutSlotWork
  <2>2. \A u \in Tasks : home[u] = s => Alike(u, f, Here(s)')
    <3>1. SUFFICES ASSUME NEW u \in Tasks, home[u] = s PROVE Alike(u, f, Here(s)')
      OBVIOUS
    <3>2. u # t BY <1>2, <3>1
    <3>3. u \in Q <=> u \in Elems(slot[s].queue) BY <1>1, <3>1
    <3>4. QED BY <1>1, <2>1, <3>2, <3>3, ClosedAlike
  <2>3. /\ Here(s)'.slot = slot'[s] /\ slot'[s].queue = <<>> /\ slot'[s].pending = slot[s].pending
        /\ slot'[s].activeLease = slot[s].activeLease /\ slot'[s].state = slot[s].state
        /\ slot'[s].inflight = slot[s].inflight
    BY <1>1, HereFields DEF ClosedFrom
  <2>4. /\ Here(s)'.slot.queue = f.slot.queue /\ Here(s)'.slot.pending = f.slot.pending
        /\ Here(s)'.slot.activeLease = f.slot.activeLease
    BY <2>1, <2>3
  <2> DEFINE g == Here(s)'
             a == slot[s].activeLease
  <2>5. a # None => a \in Tasks /\ home[a] = s
    <3>1. SlotInv(s, slot[s], phase, lease, home) /\ slot[s] \in SlotRecord
      BY DEF IInv, SlotsInv, TypeOK
    <3>2. QED BY <3>1 DEF SlotInv, OwnerInv, SlotRecord
  <2>6. a # None => g.lease[a] = f.lease[a] BY <2>2, <2>5 DEF Alike
  <2>7. Drained(Here(s)) BY DEF OwedInv, WorkInv
  <2>8. /\ Here(s).slot = slot[s] /\ Here(s).lease = lease BY HereFields
  <2> HIDE DEF g
  <2>9. \A u \in Tasks : home[u] = s => WorkOf(u, {}, g)
    <3>1. SUFFICES ASSUME NEW u \in Tasks, home[u] = s PROVE WorkOf(u, {}, g) OBVIOUS
    <3>2. WorkOf(u, {}, f) BY <2>1, <3>1 DEF Work
    <3>3. Alike(u, f, g) BY <2>2, <3>1 DEF g
    <3>4. /\ g.slot.queue = f.slot.queue /\ g.slot.pending = f.slot.pending
          /\ g.slot.activeLease = f.slot.activeLease
      BY <2>4 DEF g
    <3>5. QED BY <2>1, <3>2, <3>3, <3>4, WorkOfAlike
  <2>10. /\ g.slot.queue = f.slot.queue /\ g.slot.pending = f.slot.pending
         /\ g.slot.activeLease = a /\ f.slot.activeLease = a
    BY <2>1, <2>4 DEF g
  <2>11. WaitingOn(g.slot, g.lease) = WaitingOn(f.slot, f.lease) BY <2>6, <2>10 DEF WaitingOn
  <2>12. Work(s, g, home, {}) BY <2>1, <2>9, <2>10, <2>11 DEF Work
  <2>13. Drained(g)
    <3>1. g.slot.queue = <<>> BY <2>1, <2>10
    <3>2. g.slot.state = slot[s].state /\ g.slot.inflight = slot[s].inflight BY <2>3 DEF g
    <3>3. a # None => g.lease[a].queue = lease[a].queue
      <4>1. SUFFICES ASSUME a # None PROVE g.lease[a].queue = lease[a].queue OBVIOUS
      <4>2. RejectedAt(a, Elems(slot[s].queue), "closed", k, f) BY <2>1, <2>5, <4>1
      <4>3. k.lease = lease BY <2>1, <2>8 DEF SameTables
      <4> HIDE DEF a
      <4>4. f.lease[a].queue = lease[a].queue BY <4>2, <4>3 DEF RejectedAt
      <4>5. QED BY <2>6, <4>1, <4>4
    <3>4. slot[s].state = "running" /\ slot[s].inflight = 0 /\ a # None => lease[a].queue = <<>>
      BY <2>7, <2>8 DEF Drained
    <3>5. QED BY <2>10, <3>1, <3>2, <3>3, <3>4 DEF Drained
  <2>14. QED BY <1>2, <2>12, <2>13 DEF g
<1>4. /\ \A u \in Tasks : phase'[u] = IF u = t THEN "waiting" ELSE IF u \in Q THEN "done" ELSE phase[u]
      /\ \A r \in Requests : result'[r] = IF r = Root(t) THEN "pending"
                                          ELSE IF r \in {Root(u) : u \in Q} THEN "closed" ELSE result[r]
  <2>1. Here(0).phase = phase BY HereFields
  <2>2. \A u \in Tasks : H.phase[u] = IF u \in Q THEN "done" ELSE phase[u]
    BY <1>1, <2>1 DEF ClosedFrom, RejectedAt
  <2>3. QED BY <1>1, <2>2 DEF ClosedFrom
<1>5. \A u \in Tasks : result'[Root(u)] = IF u = t THEN "pending" ELSE
                                            IF u \in Q THEN "closed" ELSE result[Root(u)]
  <2>1. \A u \in Tasks : Root(u) \in Requests /\ (Root(u) = Root(t) <=> u = t) BY RequestOf
  <2>2. \A u \in Tasks : Root(u) \in {Root(w) : w \in Q} <=> u \in Q BY DEF Root
  <2>3. QED BY <1>4, <2>1, <2>2
<1>6. \A s \in Slots, u \in Tasks : home'[u] \notin Slots => Untouched(u, Here(s)')
  <2>1. SUFFICES ASSUME NEW s \in Slots, NEW u \in Tasks, home[u] \notin Slots
                 PROVE  Untouched(u, Here(s)')
    BY <1>2
  <2>2. Untouched(u, Here(s)) BY <2>1 DEF OwedInv, WorkInv
  <2>3. u \notin Q BY <1>1, <2>1
  <2>4. RejectedAt(u, Q, "closed", Here(0), H) BY <1>1 DEF ClosedFrom
  <2>5. /\ Here(s).phase = phase /\ Here(s).lease = lease /\ Here(s).result = result
        /\ Here(s).untracked = untracked
        /\ Here(s)'.phase = phase' /\ Here(s)'.lease = lease' /\ Here(s)'.result = result'
        /\ Here(s)'.untracked = untracked'
        /\ Here(0).phase = phase /\ Here(0).lease = lease /\ Here(0).result = result
        /\ Here(0).untracked = untracked
    BY HereFields
  <2>6. lease'[u] = lease[u] BY ZenonT(60), <1>1, <2>3, <2>4, <2>5 DEF ClosedFrom, RejectedAt
  <2>7. \A i \in 1 .. MaxCalls : result'[<<u, i>>] = result[<<u, i>>]
    <3>1. \A i \in 1 .. MaxCalls : i \in 0 .. MaxCalls /\ i # 0 BY PoolAssumption
    <3>2. \A i \in 1 .. MaxCalls : <<u, i>> \in Requests /\ <<u, i>> # Root(t)
      BY <3>1, RequestIsRoot
    <3>3. \A i \in 1 .. MaxCalls : <<u, i>> \notin {Root(w) : w \in Q} BY DEF Root
    <3>4. QED BY <1>4, <3>2, <3>3
  <2>8. untracked' = untracked BY <1>1 DEF ClosedFrom
  <2>9. u # t => phase'[u] = phase[u] /\ result'[Root(u)] = result[Root(u)]
    BY <1>4, <1>5, <2>3
  <2>10. u = t => phase'[u] = "waiting" BY <1>4
  <2>11. QED BY <1>2, <2>2, <2>5, <2>6, <2>7, <2>8, <2>9, <2>10 DEF Untouched
<1>7. WorkInv' BY <1>3, <1>6 DEF WorkInv
<1>8. PromiseInv'
  <2>1. SUFFICES ASSUME NEW u \in Tasks, NEW s \in Slots PROVE Promise(u, Here(s)')
    BY DEF PromiseInv
  <2>2. Promise(u, Here(s)) BY DEF OwedInv, PromiseInv
  <2>3. /\ Here(s).phase = phase /\ Here(s).result = result
        /\ Here(s)'.phase = phase' /\ Here(s)'.result = result'
    BY HereFields
  <2>4. CASE u = t BY <1>4, <1>5, <2>3, <2>4 DEF Promise
  <2>5. CASE u # t /\ u \in Q BY <1>4, <1>5, <2>3, <2>5 DEF Promise
  <2>6. CASE u # t /\ u \notin Q
    <3>1. phase'[u] = phase[u] /\ result'[Root(u)] = result[Root(u)] BY <1>4, <1>5, <2>6
    <3>2. QED BY <2>2, <2>3, <3>1 DEF Promise
  <2>7. QED BY <2>4, <2>5, <2>6
<1>9. BarrierInv'
  <2>1. \A s \in Slots : slot[s].closing = "open" /\ slot'[s].closing # "done"
    BY <1>1 DEF ClosedFrom
  <2>2. 0 \in Slots BY PoolAssumption DEF Slots
  <2>3. ASSUME NEW c \in Tasks, result'[Root(c)] \in {"ok", "closeFailed"}, Kind[c] = "close"
        PROVE  FALSE
    <3>1. result[Root(c)] \in {"ok", "closeFailed"} BY <1>5, <2>3
    <3>2. slot[0].closing = "done" BY <2>2, <2>3, <3>1 DEF OwedInv, BarrierInv
    <3>3. QED BY <2>1, <2>2, <3>2
  <2>4. QED BY <2>1, <2>3 DEF BarrierInv
<1>10. OwedInv' BY <1>7, <1>8, <1>9 DEF OwedInv
<1>11. OwnFailure BY <1>4 DEF OwnFailure
<1>12. QueuedClose
  <2>1. SUFFICES ASSUME NEW r \in Requests, result[r] = "pending", result'[r] = "closed"
                 PROVE  r[2] = 0 /\ r[1] \in Elems(slot[home[r[1]]].queue)
    BY DEF QueuedClose
  <2>2. PICK u \in Q : r = Root(u) BY <1>4, <2>1
  <2>3. r[1] = u /\ r[2] = 0 BY <2>2 DEF Root
  <2>4. QED BY <1>1, <2>2, <2>3
<1>13. QED BY <1>10, <1>11, <1>12

\* A refusal answers a call whose promise was not pending.
LEMMA NewAnswerMild ==
  ASSUME IInv, NEW r \in Requests, result[r] # "pending", NEW v, result' = [result EXCEPT ![r] = v]
  PROVE  Mild
<1>1. result \in [Requests -> Verdicts \cup {"none", "pending"}] BY DEF IInv, TypeOK
<1>2. QED BY <1>1 DEF Mild

\* A public call that has not started has no pending promise.
LEMMA IdleRoot ==
  ASSUME IInv, OwedInv, NEW t \in Tasks, phase[t] = "idle"
  PROVE  Root(t) \in Requests /\ result[Root(t)] # "pending"
BY PromiseOf, RequestOf

\* One part of the next-state relation at a time: what a step of each promises.
Steps == OwedInv' /\ OwnFailure /\ QueuedClose

\* evaluate() and do(), whichever way the pool takes them.
LEMMA AdmissionWork ==
  ASSUME IInv, OwedInv, IInv', NEW t \in Tasks, Admission(t)
  PROVE  Steps
<1>1. CASE RefuseRoot(t)
  <2>1. OwedInv' BY <1>1, RefuseRootWork
  <2>2. phase[t] = "idle" /\ result' = [result EXCEPT ![Root(t)] = RootRefusal(t)]
    BY <1>1 DEF RefuseRoot, Callable
  <2>3. Mild BY <2>2, IdleRoot, NewAnswerMild
  <2>4. QED BY <2>1, <2>3, MildStep DEF Steps
<1>2. CASE RejectFull(t) BY <1>2, RejectFullWork, MildStep DEF Steps
<1>3. CASE EnqueueRoot(t) BY <1>3, EnqueueRootWork, MildStep DEF Steps
<1>4. CASE EvaluateNow(t) BY <1>4, EvaluateNowWork, MildStep DEF Steps
<1>5. CASE AdmitNow(t) BY <1>5, AdmitNowWork, MildStep DEF Steps
<1>6. QED BY <1>1, <1>2, <1>3, <1>4, <1>5 DEF Admission

\* A lease, from the start of its callback to its release.
LEMMA LeaseStepWork ==
  ASSUME IInv, OwedInv, IInv', NEW t \in Tasks, LeaseStep(t)
  PROVE  Steps
<1>1. CASE StartCallback(t)
  <2>1. OwedInv' BY <1>1, StartCallbackWork
  <2>2. Mild BY <1>1 DEF StartCallback, Mild
  <2>3. QED BY <2>1, <2>2, MildStep DEF Steps
<1>2. CASE AbandonLease(t)
  <2>1. OwedInv' BY <1>2, AbandonLeaseWork
  <2>2. Mild BY <1>2 DEF AbandonLease, Mild
  <2>3. QED BY <2>1, <2>2, MildStep DEF Steps
<1>3. CASE CallbackSettles(t)
  <2>1. OwedInv' BY <1>3, CallbackSettlesWork
  <2>2. Mild BY <1>3 DEF CallbackSettles, Mild
  <2>3. QED BY <2>1, <2>2, MildStep DEF Steps
<1>4. CASE FinishRelease(t) BY <1>4, FinishReleaseWork, MildStep DEF Steps
<1>5. QED BY <1>1, <1>2, <1>3, <1>4 DEF LeaseStep

\* A proxy call of a callback, from its invocation to its settling.
LEMMA CallStepWork ==
  ASSUME IInv, OwedInv, IInv', NEW t \in Tasks, NEW i \in 1 .. MaxCalls, CallStep(t, i)
  PROVE  Steps
<1>1. <<t, i>> \in Requests BY RequestOf
<1>2. CASE RefuseCall(t, i)
  <2>1. OwedInv' BY <1>2, RefuseCallWork
  <2>2. result[<<t, i>>] # "pending" /\ result' = [result EXCEPT ![<<t, i>>] = CallRefusal(t)]
    BY <1>2 DEF RefuseCall, Invokes
  <2>3. Mild BY <1>1, <2>2, NewAnswerMild
  <2>4. QED BY <2>1, <2>3, MildStep DEF Steps
<1>3. CASE RejectCallFull(t, i)
  <2>1. OwedInv' BY <1>3, RejectCallFullWork
  <2>2. result' = [result EXCEPT ![<<t, i>>] = "queueFull"] BY <1>3 DEF RejectCallFull
  <2>3. Mild BY <1>1, <2>2, SameResultMild
  <2>4. QED BY <2>1, <2>3, MildStep DEF Steps
<1>4. CASE EnqueueCall(t, i) BY <1>4, EnqueueCallWork, MildStep DEF Steps
<1>5. CASE CallNow(t, i) BY <1>5, CallNowWork, MildStep DEF Steps
<1>6. CASE SettleLeaseCall(t, i)
  <2>1. OwedInv' BY <1>6, SettleLeaseCallWork
  <2>2. Mild BY <1>6 DEF SettleLeaseCall, Mild
  <2>3. QED BY <2>1, <2>2, MildStep DEF Steps
<1>7. QED BY <1>2, <1>3, <1>4, <1>5, <1>6 DEF CallStep

\* An abort signal, at any moment of the call it belongs to.
LEMMA AbortWork ==
  ASSUME IInv, OwedInv, IInv', NEW t \in Tasks, Abort(t)
  PROVE  Steps
<1>1. CASE AbortQueued(t) BY <1>1, AbortQueuedWork, MildStep DEF Steps
<1>2. CASE AbortCallback(t)
  <2>1. OwedInv' BY <1>2, AbortCallbackWork
  <2>2. result' = [result EXCEPT ![Root(t)] = "aborted"] BY <1>2 DEF AbortCallback
  <2>3. Mild BY <2>2, RequestOf, SameResultMild
  <2>4. QED BY <2>1, <2>3, MildStep DEF Steps
<1>3. CASE AbortSignalOnly(t)
  <2>1. UNCHANGED <<slot, phase, lease, result, untracked, home>> BY <1>3 DEF AbortSignalOnly
  <2>2. Mild BY <2>1 DEF Mild
  <2>3. QED BY <2>1, <2>2, QuietWork, MildStep DEF Steps
<1>4. QED BY <1>1, <1>2, <1>3 DEF Abort

\* An answer, an error or the exit of a worker.
LEMMA WorkerStepWork ==
  ASSUME IInv, OwedInv, IInv', NEW s \in Slots, WorkerStep(s)
  PROVE  Steps
<1>1. ASSUME NEW r \in Requests, OnMessage(s, r) PROVE Steps
  BY <1>1, OnMessageWork, MildStep DEF Steps
<1>2. CASE Crash(s)
  <2>1. UNCHANGED <<slot, phase, lease, result, untracked, home>> BY <1>2 DEF Crash
  <2>2. Mild BY <2>1 DEF Mild
  <2>3. QED BY <2>1, <2>2, QuietWork, MildStep DEF Steps
<1>3. CASE OnError(s) BY <1>3, OnErrorWork DEF Steps
<1>4. CASE OnExit(s) BY <1>4, OnExitWork DEF Steps
<1>5. QED BY <1>1, <1>2, <1>3, <1>4 DEF WorkerStep

\* close(), from its call to its result.
LEMMA CloseCallWork ==
  ASSUME IInv, OwedInv, IInv', NEW t \in Tasks, CloseCall(t)
  PROVE  Steps
<1>1. CASE RefuseClose(t)
  <2>1. OwedInv' BY <1>1, RefuseCloseWork
  <2>2. result' = [result EXCEPT ![Root(t)] = "reentrant"] BY <1>1 DEF RefuseClose
  <2>3. Mild BY <2>2, RequestOf, SameResultMild
  <2>4. QED BY <2>1, <2>3, MildStep DEF Steps
<1>2. CASE CloseFirst(t) BY <1>2, CloseFirstWork DEF Steps
<1>3. CASE CloseAgain(t)
  <2>1. OwedInv' BY <1>3, CloseAgainWork
  <2>2. result' = [result EXCEPT ![Root(t)] = "pending"] BY <1>3 DEF CloseAgain
  <2>3. Mild BY <2>2, RequestOf, SameResultMild
  <2>4. QED BY <2>1, <2>3, MildStep DEF Steps
<1>4. CASE FinishClose(t)
  <2>1. OwedInv' BY <1>4, FinishCloseWork
  <2> DEFINE v == IF closeFailed THEN "closeFailed" ELSE "ok"
  <2>2. result' = [result EXCEPT ![Root(t)] = v] BY <1>4 DEF FinishClose
  <2>3. v \notin {"closed", "terminal"} OBVIOUS
  <2> HIDE DEF v
  <2>4. Mild BY <2>2, <2>3, RequestOf, SameResultMild
  <2>5. QED BY <2>1, <2>4, MildStep DEF Steps
<1>5. QED BY <1>1, <1>2, <1>3, <1>4 DEF CloseCall

\* The closing of one slot.
LEMMA CloseStepWork ==
  ASSUME IInv, OwedInv, IInv', NEW s \in Slots, CloseStep(s)
  PROVE  Steps
<1>1. CASE CloseLeaseReleased(s)
  <2>1. OwedInv' BY <1>1, CloseLeaseReleasedWork
  <2>2. Mild BY <1>1 DEF CloseLeaseReleased, Mild
  <2>3. QED BY <2>1, <2>2, MildStep DEF Steps
<1>2. CASE TerminateSlot(s)
  <2>1. OwedInv' BY <1>2, TerminateSlotWork
  <2>2. Mild BY <1>2 DEF TerminateSlot, Mild
  <2>3. QED BY <2>1, <2>2, MildStep DEF Steps
<1>3. CASE TerminateReturns(s)
  <2>1. OwedInv' BY <1>3, TerminateReturnsWork
  <2>2. result' = result BY <1>3, NotifyResult DEF TerminateReturns
  <2>3. Mild BY <2>2 DEF Mild
  <2>4. QED BY <2>1, <2>3, MildStep DEF Steps
<1>4. QED BY <1>1, <1>2, <1>3 DEF CloseStep

\* Every step of the pool, from a state where both invariants hold.
LEMMA NextWork ==
  ASSUME IInv, OwedInv, [Next]_vars
  PROVE  IInv' /\ Steps
<1>1. IInv' BY NextInv
<1>2. CASE UNCHANGED vars
  <2>1. UNCHANGED <<slot, phase, lease, result, untracked, home>> BY <1>2 DEF vars
  <2>2. Mild BY <2>1 DEF Mild
  <2>3. QED BY <1>1, <2>1, <2>2, QuietWork, MildStep DEF Steps
<1>3. CASE Next
  <2>1. CASE \E t \in Tasks : Admission(t) \/ LeaseStep(t) \/ Abort(t) \/ CloseCall(t)
    BY <1>1, <2>1, AdmissionWork, LeaseStepWork, AbortWork, CloseCallWork
  <2>2. CASE \E t \in Tasks, i \in 1 .. MaxCalls : CallStep(t, i) BY <1>1, <2>2, CallStepWork
  <2>3. CASE \E s \in Slots : WorkerStep(s) \/ CloseStep(s)
    BY <1>1, <2>3, WorkerStepWork, CloseStepWork
  <2>4. CASE Finished BY <2>4, <1>2 DEF Finished
  <2>5. QED BY <1>3, <2>1, <2>2, <2>3, <2>4 DEF Next
<1>4. QED BY <1>2, <1>3

\* A new pool owes nothing.
LEMMA InitWork ==
  ASSUME Init
  PROVE  OwedInv
<1>1. /\ slot = [s \in Slots |->
           [state |-> "running", pending |-> {}, inflight |-> 0, queue |-> <<>>,
            activeLease |-> None, rejected |-> 0, listening |-> TRUE, posted |-> {},
            closing |-> "open", awaits |-> None]]
      /\ \A t \in Tasks : phase[t] = "idle" /\ home[t] = None
      /\ \A t \in Tasks : lease[t] =
           [active |-> FALSE, released |-> FALSE, queue |-> <<>>, pendingCalls |-> 0]
      /\ \A r \in Requests : result[r] = "none"
      /\ untracked = {}
  BY DEF Init
<1>2. \A t \in Tasks : home[t] \notin Slots BY <1>1, PoolAssumption
<1>3. \A t \in Tasks : /\ lease[t].queue = <<>> /\ lease[t].pendingCalls = 0
                       /\ result[Root(t)] = "none"
                       /\ \A i \in 1 .. MaxCalls : result[<<t, i>>] = "none"
  BY <1>1, RequestOf
<1>4. \A s \in Slots : /\ slot[s].pending = {} /\ slot[s].queue = <<>> /\ slot[s].activeLease = None
                       /\ slot[s].closing = "open"
  BY <1>1
<1>5. \A s \in Slots : Work(s, Here(s), home, {}) /\ Drained(Here(s))
  <2>1. SUFFICES ASSUME NEW s \in Slots PROVE Work(s, Here(s), home, {}) /\ Drained(Here(s))
    OBVIOUS
  <2>2. Here(s).slot = slot[s] BY HereFields
  <2>3. \A t \in Tasks : home[t] # s BY <1>2
  <2>4. WaitingOn(slot[s], Here(s).lease) = 0
    <3>1. slot[s].queue = <<>> /\ slot[s].activeLease = None BY <1>4
    <3>2. Len(slot[s].queue) = 0 BY <3>1
    <3>3. QED BY <3>1, <3>2 DEF WaitingOn
  <2>5. Work(s, Here(s), home, {}) BY <1>4, <2>2, <2>3, <2>4, PoolAssumption DEF Work
  <2>6. Drained(Here(s)) BY <1>4, <2>2 DEF Drained
  <2>7. QED BY <2>5, <2>6
<1>6. \A s \in Slots, t \in Tasks : Untouched(t, Here(s)) /\ Promise(t, Here(s))
  <2>1. SUFFICES ASSUME NEW s \in Slots, NEW t \in Tasks
                 PROVE  Untouched(t, Here(s)) /\ Promise(t, Here(s))
    OBVIOUS
  <2>2. /\ Here(s).phase = phase /\ Here(s).lease = lease /\ Here(s).result = result
        /\ Here(s).untracked = untracked
    BY HereFields
  <2>3. Untouched(t, Here(s)) BY <1>1, <1>3, <2>2 DEF Untouched
  <2>4. Promise(t, Here(s)) BY <1>1, <1>3, <2>2 DEF Promise
  <2>5. QED BY <2>3, <2>4
<1>7. WorkInv BY <1>5, <1>6 DEF WorkInv
<1>8. PromiseInv BY <1>6 DEF PromiseInv
<1>9. BarrierInv BY <1>3, <1>4 DEF BarrierInv
<1>10. QED BY <1>7, <1>8, <1>9 DEF OwedInv

\* Whatever the pool has accepted and not settled is in one known place, with the
\* counters and promises to match, in every reachable state of any pool.
THEOREM OwedInvariance == Spec => [](IInv /\ OwedInv)
<1>1. Init => IInv /\ OwedInv BY InitInv, InitWork
<1>2. IInv /\ OwedInv /\ [Next]_vars => (IInv /\ OwedInv)' BY NextWork DEF Steps
<1>3. QED BY <1>1, <1>2, PTL DEF Spec

\* What the invariant says of one call and its slot, without Here(s).
LEMMA WorkAt ==
  ASSUME IInv, OwedInv, NEW s \in Slots
  PROVE  /\ SlotInv(s, slot[s], phase, lease, home) /\ slot[s] \in SlotRecord
         /\ WaitingOn(slot[s], lease) <= QueueCapacity
         /\ \A r \in slot[s].pending : r \in Requests /\ home[r[1]] = s
         /\ \A t \in Tasks : home[t] = s =>
              WorkOf(t, {}, Here(s)) /\ Here(s).slot = slot[s] /\ Here(s).phase = phase
              /\ Here(s).lease = lease /\ Here(s).result = result /\ Here(s).untracked = untracked
<1>1. Work(s, Here(s), home, {}) BY DEF OwedInv, WorkInv
<1>2. /\ Here(s).slot = slot[s] /\ Here(s).phase = phase /\ Here(s).lease = lease
      /\ Here(s).result = result /\ Here(s).untracked = untracked
  BY HereFields
<1>3. SlotInv(s, slot[s], phase, lease, home) /\ slot[s] \in SlotRecord
  BY DEF IInv, SlotsInv, TypeOK
<1>4. \A r \in slot[s].pending : r \in Requests BY <1>3 DEF SlotRecord
<1>5. QED BY <1>1, <1>2, <1>3, <1>4 DEF Work

\* dispatchRequest() is reached for a root request only on a slot without a lease,
\* and for a proxy call only by the lease that holds the slot.
THEOREM LeaseIsExclusive == Spec => []LeaseExclusive
<1>1. ASSUME IInv, OwedInv PROVE LeaseExclusive
  <2>1. SUFFICES ASSUME NEW s \in Slots, NEW r \in Requests, r \in slot[s].pending
                 PROVE  IF slot[s].activeLease = None THEN r[2] = 0
                        ELSE r[2] # 0 /\ r[1] = slot[s].activeLease
    BY DEF LeaseExclusive
  <2>2. PICK t \in Tasks, i \in 0 .. MaxCalls : r = <<t, i>> BY DEF Requests
  <2>3. home[t] = s BY <1>1, <2>1, <2>2, WorkAt
  <2>4. CallsInv(t, {}, Here(s)) /\ RootInv(t, {}, Here(s)) /\ Here(s).slot = slot[s]
    BY <1>1, <2>3, WorkAt DEF WorkOf
  <2>5. CASE i = 0
    <3>1. Root(t) \in slot[s].pending BY <2>1, <2>2, <2>5 DEF Root
    <3>2. slot[s].activeLease = None BY <2>4, <3>1 DEF RootInv
    <3>3. QED BY <2>2, <2>5, <3>2
  <2>6. CASE i # 0
    <3>1. i \in 1 .. MaxCalls BY <2>6, PoolAssumption
    <3>2. slot[s].activeLease = t BY <2>1, <2>2, <2>4, <3>1 DEF CallsInv
    <3>3. QED BY <2>2, <2>6, <3>2, PoolAssumption
  <2>7. QED BY <2>5, <2>6
<1>2. QED BY <1>1, OwedInvariance, PTL

\* The owner FIFO is served from its front: no later call of a callback overtakes one
\* that is still unsettled, across drainQueue(), abort, failure and close().
THEOREM OwnerCallsStayInOrder == Spec => []OwnerCallsInOrder
<1>1. ASSUME IInv, OwedInv PROVE OwnerCallsInOrder
  <2>1. SUFFICES ASSUME NEW s \in Slots, NEW t \in Tasks, NEW i \in 1 .. MaxCalls,
                        <<t, i>> \in slot[s].pending, NEW j \in 1 .. i - 1,
                        result[<<t, j>>] = "pending"
                 PROVE  FALSE
    BY DEF OwnerCallsInOrder
  <2>2. home[t] = s
    <3>1. home[<<t, i>>[1]] = s BY <1>1, <2>1, WorkAt
    <3>2. QED BY <3>1
  <2>3. CallsInv(t, {}, Here(s)) /\ FlightInv(slot[s]) /\ Here(s).slot = slot[s]
        /\ Here(s).lease = lease /\ Here(s).result = result
    BY <1>1, <2>2, WorkAt DEF WorkOf, SlotInv
  <2>4. j \in 1 .. MaxCalls /\ j < i BY PoolAssumption
  <2>5. <<t, j>> \notin slot[s].pending BY <2>1, <2>3, <2>4 DEF FlightInv
  <2>6. PICK k \in 1 .. Len(lease[t].queue) : lease[t].queue[k] = <<t, j>>
    BY <2>1, <2>3, <2>4, <2>5 DEF CallsInv
  <2>7. i < lease[t].queue[k][2] BY <2>1, <2>3, <2>6 DEF CallsInv
  <2>8. QED BY <2>4, <2>6, <2>7, PoolAssumption
<1>2. QED BY <1>1, OwedInvariance, PTL

\* waitForLeaseCalls() counts right: once a lease is released its counter is zero, no
\* proxy call of it is unsettled and no reaction of trackLeaseCall() is still to run.
THEOREM ReleasedAfterDrain == Spec => []ReleaseAfterDrain
<1>1. ASSUME IInv, OwedInv PROVE ReleaseAfterDrain
  <2>1. SUFFICES ASSUME NEW t \in Tasks, lease[t].released
                 PROVE  /\ lease[t].pendingCalls = 0
                        /\ \A i \in 1 .. MaxCalls : result[<<t, i>>] # "pending" /\ <<t, i>> \notin untracked
    BY DEF ReleaseAfterDrain
  <2>2. CASE home[t] \in Slots
    <3>1. PICK s \in Slots : home[t] = s BY <2>2
    <3>2. CountInv(t, Here(s)) /\ Here(s).lease = lease /\ Here(s).result = result
          /\ Here(s).untracked = untracked
      BY <1>1, <3>1, WorkAt DEF WorkOf
    <3>3. OpenCalls(t, Here(s)) = {} BY <2>1, <3>2 DEF CountInv
    <3>4. lease[t].pendingCalls = 0 BY <3>2, <3>3, FS_EmptySet DEF CountInv
    <3>5. QED BY <3>2, <3>3, <3>4 DEF OpenCalls
  <2>3. CASE home[t] \notin Slots
    <3>1. 0 \in Slots BY PoolAssumption DEF Slots
    <3>2. Untouched(t, Here(0)) BY <1>1, <2>3, <3>1 DEF OwedInv, WorkInv
    <3>3. Here(0).lease = lease /\ Here(0).result = result /\ Here(0).untracked = untracked
      BY HereFields
    <3>4. QED BY <3>2, <3>3 DEF Untouched
  <2>4. QED BY <2>2, <2>3
<1>2. QED BY <1>1, OwedInvariance, PTL

\* Every handler that frees a worker, a lease or a queue place ends in drainQueue():
\* a running slot with nothing in flight has nothing waiting that it could start.
THEOREM NothingWaitsIdle == Spec => []WorkConserving
<1>1. ASSUME IInv, OwedInv PROVE WorkConserving
  <2>1. SUFFICES ASSUME NEW s \in Slots, slot[s].state = "running" /\ slot[s].inflight = 0
                 PROVE  QueuedOnSlot(s) = 0 \/
                          (slot[s].activeLease # None /\ lease[slot[s].activeLease].queue = <<>>)
    BY DEF WorkConserving
  <2>2. Drained(Here(s)) /\ Here(s).slot = slot[s] /\ Here(s).lease = lease
    BY <1>1, HereFields DEF OwedInv, WorkInv
  <2>3. slot[s].activeLease = None => slot[s].queue = <<>> BY <2>1, <2>2 DEF Drained
  <2>4. slot[s].activeLease = None => QueuedOnSlot(s) = 0
    <3>1. Len(<<>>) = 0 OBVIOUS
    <3>2. QED BY <2>3, <3>1 DEF QueuedOnSlot
  <2>5. QED BY <2>1, <2>2, <2>4 DEF Drained
<1>2. QED BY <1>1, OwedInvariance, PTL

\* queueCapacity bounds the root FIFO and the owner FIFO of a slot together.
THEOREM QueuesBounded == Spec => []QueueBounded
<1>1. ASSUME IInv, OwedInv PROVE QueueBounded
  BY <1>1, WorkAt DEF QueueBounded, QueuedOnSlot, WaitingOn
<1>2. QED BY <1>1, OwedInvariance, PTL

\* finishClose() is a barrier: when its promise settles every worker is terminated and
\* every public call has ended.
THEOREM CloseIsBarrier == Spec => []CloseBarrier
<1>1. ASSUME IInv, OwedInv PROVE CloseBarrier
  <2>1. SUFFICES ASSUME NEW c \in Tasks, Kind[c] = "close", result[Root(c)] \in {"ok", "closeFailed"}
                 PROVE  /\ \A s \in Slots : slot[s].state = "closed"
                        /\ \A t \in Tasks : Kind[t] # "close" => phase[t] \in {"idle", "done"}
    BY DEF CloseBarrier
  <2>2. \A s \in Slots : slot[s].closing = "done" /\ slot[s].state = "closed"
    BY <1>1, <2>1 DEF OwedInv, BarrierInv
  <2>3. ASSUME NEW t \in Tasks, Kind[t] # "close"
        PROVE  phase[t] \in {"idle", "done"}
    <3>1. CASE home[t] \in Slots
      <4>1. PICK s \in Slots : home[t] = s BY <3>1
      <4>2. RootInv(t, {}, Here(s)) /\ CloseInv(slot[s]) /\ slot[s] \in SlotRecord
            /\ Here(s).slot = slot[s] /\ Here(s).phase = phase
        BY <1>1, <4>1, WorkAt DEF WorkOf, SlotInv
      <4>3. slot[s].pending = {} /\ slot[s].queue = <<>> /\ slot[s].activeLease = None
        BY <2>2, <4>2 DEF CloseInv
      <4>4. phase[t] # "waiting"
        <5>1. Len(slot[s].queue) = 0 BY <4>3
        <5>2. QED BY <4>2, <4>3, <5>1 DEF RootInv
      <4>5. phase[t] \notin LeasePhases BY <4>2, <4>3, PoolAssumption DEF RootInv
      <4>6. phase[t] \in Phases BY <1>1 DEF IInv, TypeOK
      <4>7. QED BY <4>4, <4>5, <4>6 DEF Phases, LeasePhases
    <3>2. CASE home[t] \notin Slots
      <4>1. 0 \in Slots BY PoolAssumption DEF Slots
      <4>2. Untouched(t, Here(0)) BY <1>1, <3>2, <4>1 DEF OwedInv, WorkInv
      <4>3. Here(0).phase = phase BY HereFields
      <4>4. QED BY <2>3, <4>2, <4>3 DEF Untouched
    <3>3. QED BY <3>1, <3>2
  <2>4. QED BY <2>2, <2>3
<1>2. QED BY <1>1, OwedInvariance, PTL

\* failSlot() rejects what its own slot owns and nothing else.
THEOREM FailuresAreIsolated == Spec => FailureIsolated
<1>1. IInv /\ OwedInv /\ [Next]_vars =>
        [\A r \in Requests :
           result[r] = "pending" /\ result'[r] = "terminal" => slot'[home[r[1]]].state = "failed"]_vars
  BY NextWork DEF Steps, OwnFailure
<1>2. QED BY <1>1, OwedInvariance, PTL DEF Spec, FailureIsolated

\* No step of the pool closes a promise but that of a queued root call: finishClose()
\* leaves what was sent or admitted, and the owner calls of its callbacks, to settle.
THEOREM ClosesGracefully == Spec => CloseIsGraceful
<1>1. IInv /\ OwedInv /\ [Next]_vars =>
        [\A r \in Requests :
           result[r] = "pending" /\ result'[r] = "closed" =>
             r[2] = 0 /\ r[1] \in Elems(slot[home[r[1]]].queue)]_vars
  BY NextWork DEF Steps, QueuedClose
<1>2. QED BY <1>1, OwedInvariance, PTL DEF Spec, CloseIsGraceful

\* Counting a set that has one element, or none.
LEMMA CountOne ==
  ASSUME NEW S, NEW e, e \in S, \A d \in S : d = e
  PROVE  Cardinality(S) = 1
<1>1. S = {e} OBVIOUS
<1>2. QED BY <1>1, FS_Singleton

\* Counting a set without elements.
LEMMA CountNone ==
  ASSUME NEW S, \A d \in S : FALSE
  PROVE  Cardinality(S) = 0
<1>1. S = {} OBVIOUS
<1>2. QED BY <1>1, FS_EmptySet

\* The places a public call can be found in.
QueuedAt(t) ==
  {p \in Slots \X (1 .. QueueCapacity) :
     p[2] <= Len(slot[p[1]].queue) /\ slot[p[1]].queue[p[2]] = t}
SentFrom(r) == {s \in Slots : r \in slot[s].pending}
LeasedAt(t) == {s \in Slots : slot[s].activeLease = t}

\* A public call is in exactly one place until it ends.
LEMMA RootPlaces ==
  ASSUME IInv, OwedInv, NEW t \in Tasks, Kind[t] # "close"
  PROVE  Cardinality(QueuedAt(t)) + Cardinality(SentFrom(Root(t))) + Cardinality(LeasedAt(t))
           = IF phase[t] \in {"idle", "done"} THEN 0 ELSE 1
<1>1. ASSUME NEW s \in Slots
      PROVE  /\ QueueInv(s, slot[s], phase, home) /\ OwnerInv(s, slot[s], phase, lease, home)
             /\ Len(slot[s].queue) \in Nat
  BY WorkAt DEF SlotInv, SlotRecord
<1>2. \A p \in QueuedAt(t) :
        /\ p = <<p[1], p[2]>> /\ p[1] \in Slots /\ p[2] \in 1 .. Len(slot[p[1]].queue)
        /\ slot[p[1]].queue[p[2]] = t
  <2>1. SUFFICES ASSUME NEW p \in QueuedAt(t)
                 PROVE  /\ p = <<p[1], p[2]>> /\ p[1] \in Slots /\ p[2] \in 1 .. Len(slot[p[1]].queue)
                        /\ slot[p[1]].queue[p[2]] = t
    OBVIOUS
  <2>2. /\ p = <<p[1], p[2]>> /\ p[1] \in Slots /\ p[2] \in 1 .. QueueCapacity
        /\ p[2] <= Len(slot[p[1]].queue) /\ slot[p[1]].queue[p[2]] = t
    BY DEF QueuedAt
  <2>3. Len(slot[p[1]].queue) \in Nat BY <1>1, <2>2
  <2>4. QED BY <2>2, <2>3, PoolAssumption
<1>3. \A p \in QueuedAt(t) : /\ phase[t] = "waiting" /\ home[t] = p[1]
                             /\ Root(t) \notin slot[p[1]].pending
  BY <1>1, <1>2 DEF QueueInv
<1>4. \A p, r \in QueuedAt(t) : p = r
  <2>1. SUFFICES ASSUME NEW p \in QueuedAt(t), NEW r \in QueuedAt(t) PROVE p = r OBVIOUS
  <2>2. p[1] = r[1] BY <1>3
  <2>3. p[2] = r[2] BY <1>1, <1>2, <2>2 DEF QueueInv
  <2>4. QED BY <1>2, <2>2, <2>3
<1>5. \A s \in SentFrom(Root(t)) : s \in Slots /\ Root(t) \in slot[s].pending
                                   /\ phase[t] = "waiting" /\ home[t] = s
  BY <1>1 DEF SentFrom, OwnerInv
<1>6. \A s \in LeasedAt(t) : s \in Slots /\ slot[s].activeLease = t
                             /\ phase[t] \in LeasePhases /\ home[t] = s
  BY <1>1, PoolAssumption DEF LeasedAt, OwnerInv
<1>7. CASE phase[t] \in {"idle", "done"}
  <2>1. Cardinality(QueuedAt(t)) = 0 BY <1>3, <1>7, CountNone
  <2>2. Cardinality(SentFrom(Root(t))) = 0 BY <1>5, <1>7, CountNone
  <2>3. Cardinality(LeasedAt(t)) = 0
    <3>1. \A d \in LeasedAt(t) : FALSE BY <1>6, <1>7 DEF LeasePhases
    <3>2. QED BY <3>1, CountNone
  <2>4. QED BY <1>7, <2>1, <2>2, <2>3
<1>8. CASE phase[t] \notin {"idle", "done"}
  <2>1. home[t] \in Slots BY <1>8 DEF IInv, SlotsInv, TaskInv
  <2>2. PICK s \in Slots : home[t] = s BY <2>1
  <2>3. RootInv(t, {}, Here(s)) /\ Here(s).slot = slot[s] /\ Here(s).phase = phase
        /\ WaitingOn(slot[s], lease) <= QueueCapacity
    BY <2>2, WorkAt DEF WorkOf
  <2>4. CASE phase[t] = "waiting" /\ Root(t) \in slot[s].pending
    <3>1. Cardinality(QueuedAt(t)) = 0 BY <1>3, <2>2, <2>4, CountNone
    <3>2. Cardinality(SentFrom(Root(t))) = 1
      <4>1. s \in SentFrom(Root(t)) BY <2>4 DEF SentFrom
      <4>2. \A d \in SentFrom(Root(t)) : d = s BY <1>5, <2>2
      <4>3. QED BY <4>1, <4>2, CountOne
    <3>3. Cardinality(LeasedAt(t)) = 0
      <4>1. \A d \in LeasedAt(t) : FALSE BY <1>6, <2>4 DEF LeasePhases
      <4>2. QED BY <4>1, CountNone
    <3>4. QED BY <1>8, <3>1, <3>2, <3>3
  <2>5. CASE phase[t] = "waiting" /\ Root(t) \notin slot[s].pending
    <3>1. PICK k \in 1 .. Len(slot[s].queue) : slot[s].queue[k] = t BY <2>3, <2>5 DEF RootInv
    <3>2. k \in 1 .. QueueCapacity
      <4> DEFINE m == Len(slot[s].queue)
                 n == IF slot[s].activeLease = None THEN 0 ELSE Len(lease[slot[s].activeLease].queue)
      <4>1. m \in Nat /\ n \in Nat
        <5>1. m \in Nat BY <1>1
        <5>2. slot[s] \in SlotRecord BY WorkAt
        <5>3. n \in Nat BY <5>2 DEF SlotRecord, IInv, TypeOK, LeaseRecord
        <5>4. QED BY <5>1, <5>3
      <4>2. m + n <= QueueCapacity BY <2>3 DEF WaitingOn
      <4>3. k \in 1 .. m OBVIOUS
      <4> HIDE DEF m, n
      <4>4. QED BY <4>1, <4>2, <4>3, PoolAssumption
    <3>3. <<s, k>> \in QueuedAt(t)
      <4>1. k <= Len(slot[s].queue) BY <1>1
      <4>2. QED BY <3>1, <3>2, <4>1 DEF QueuedAt
    <3>4. Cardinality(QueuedAt(t)) = 1 BY <1>4, <3>3, CountOne
    <3>5. Cardinality(SentFrom(Root(t))) = 0 BY <1>5, <2>2, <2>5, CountNone
    <3>6. Cardinality(LeasedAt(t)) = 0
      <4>1. \A d \in LeasedAt(t) : FALSE BY <1>6, <2>5 DEF LeasePhases
      <4>2. QED BY <4>1, CountNone
    <3>7. QED BY <1>8, <3>4, <3>5, <3>6
  <2>6. CASE phase[t] # "waiting"
    <3>1. phase[t] \in LeasePhases
      <4>1. phase[t] \in Phases BY DEF IInv, TypeOK
      <4>2. QED BY <1>8, <2>6, <4>1 DEF Phases, LeasePhases
    <3>2. slot[s].activeLease = t BY <2>3, <3>1 DEF RootInv
    <3>3. Cardinality(QueuedAt(t)) = 0 BY <1>3, <2>6, CountNone
    <3>4. Cardinality(SentFrom(Root(t))) = 0 BY <1>5, <2>6, CountNone
    <3>5. Cardinality(LeasedAt(t)) = 1
      <4>1. s \in LeasedAt(t) BY <3>2 DEF LeasedAt
      <4>2. \A d \in LeasedAt(t) : d = s BY <1>6, <2>2
      <4>3. QED BY <4>1, <4>2, CountOne
    <3>6. QED BY <1>8, <3>3, <3>4, <3>5
  <2>7. QED BY <2>4, <2>5, <2>6
<1>9. QED BY <1>7, <1>8

\* A proxy call is in its owner FIFO or in flight until it settles.
LEMMA CallPlaces ==
  ASSUME IInv, OwedInv, NEW c \in Calls
  PROVE  LET q == lease[c[1]].queue
         IN Cardinality({k \in 1 .. Len(q) : q[k] = c}) + Cardinality(SentFrom(c))
              = IF result[c] = "pending" THEN 1 ELSE 0
<1>1. PICK t \in Tasks, i \in 1 .. MaxCalls : c = <<t, i>> BY DEF Calls
<1>2. c[1] = t /\ c[2] = i BY <1>1
<1> DEFINE q == lease[t].queue
           K == {k \in 1 .. Len(q) : q[k] = c}
<1>3. \A s \in SentFrom(c) : s \in Slots /\ c \in slot[s].pending /\ home[t] = s
  BY <1>2, WorkAt DEF SentFrom
<1>4. CASE home[t] \notin Slots
  <2>1. 0 \in Slots BY PoolAssumption DEF Slots
  <2>2. Untouched(t, Here(0)) BY <1>4, <2>1 DEF OwedInv, WorkInv
  <2>3. Here(0).lease = lease /\ Here(0).result = result BY HereFields
  <2>4. q = <<>> /\ result[c] = "none" BY <1>1, <2>2, <2>3 DEF Untouched
  <2>5. Cardinality(K) = 0
    <3>1. Len(q) = 0 BY <2>4
    <3>2. \A d \in K : FALSE BY <3>1
    <3> HIDE DEF K
    <3>3. QED BY <3>2, CountNone
  <2>6. Cardinality(SentFrom(c)) = 0 BY <1>3, <1>4, CountNone
  <2>7. QED BY <1>2, <2>4, <2>5, <2>6
<1>5. CASE home[t] \in Slots
  <2>1. PICK s \in Slots : home[t] = s BY <1>5
  <2>2. CallsInv(t, {}, Here(s)) /\ Here(s).slot = slot[s] /\ Here(s).lease = lease
        /\ Here(s).result = result
    BY <2>1, WorkAt DEF WorkOf
  <2>3. /\ \A k \in 1 .. Len(q) : q[k][1] = t /\ result[q[k]] = "pending"
        /\ \A k, l \in 1 .. Len(q) : k < l => q[k][2] < q[l][2]
        /\ c \in slot[s].pending =>
             result[c] = "pending" /\ \A k \in 1 .. Len(q) : i < q[k][2]
        /\ result[c] = "pending" => c \in slot[s].pending \/ \E k \in 1 .. Len(q) : q[k] = c
    BY <1>1, <2>2 DEF CallsInv
  <2> HIDE DEF q
  <2>4. \A k \in K : k \in 1 .. Len(q) /\ q[k] = c OBVIOUS
  <2>5. \A k \in 1 .. Len(q) : q[k] = c => k \in K OBVIOUS
  <2> HIDE DEF K
  <2>6. \A k, l \in K : k = l
    <3>1. SUFFICES ASSUME NEW k \in K, NEW l \in K, k < l PROVE FALSE
      <4>1. \A k, l \in K : k < l \/ l < k \/ k = l BY <2>4
      <4>2. QED BY <4>1
    <3>2. q[k][2] < q[l][2] BY <2>3, <2>4, <3>1
    <3>3. QED BY <1>2, <2>4, <3>2
  <2>7. ASSUME NEW e \in K PROVE Cardinality(K) = 1
    <3>1. \A d \in K : d = e BY <2>6
    <3>2. QED BY <3>1, CountOne
  <2>8. c \in slot[s].pending => \A d \in K : FALSE
    <3>1. SUFFICES ASSUME c \in slot[s].pending, NEW d \in K PROVE FALSE OBVIOUS
    <3>2. i < q[d][2] /\ q[d] = c BY <2>3, <2>4, <3>1
    <3>3. QED BY <1>2, <3>2
  <2>9. c \in slot[s].pending => Cardinality(SentFrom(c)) = 1
    <3>1. SUFFICES ASSUME c \in slot[s].pending PROVE Cardinality(SentFrom(c)) = 1 OBVIOUS
    <3>2. s \in SentFrom(c) BY <3>1 DEF SentFrom
    <3>3. \A d \in SentFrom(c) : d = s BY <1>3, <2>1
    <3>4. QED BY <3>2, <3>3, CountOne
  <2>10. c \notin slot[s].pending => Cardinality(SentFrom(c)) = 0
    <3>1. c \notin slot[s].pending => \A d \in SentFrom(c) : FALSE BY <1>3, <2>1
    <3>2. QED BY <3>1, CountNone
  <2>11. CASE c \in slot[s].pending
    <3>1. Cardinality(K) = 0 BY <2>8, <2>11, CountNone
    <3>2. QED BY <1>2, <2>3, <2>9, <2>11, <3>1 DEF K, q
  <2>12. CASE c \notin slot[s].pending /\ result[c] = "pending"
    <3>1. PICK k \in 1 .. Len(q) : q[k] = c BY <2>3, <2>12
    <3>2. k \in K BY <2>5, <3>1
    <3>3. Cardinality(K) = 1 BY <2>7, <3>2
    <3>4. QED BY <1>2, <2>10, <2>12, <3>3 DEF K, q
  <2>13. CASE result[c] # "pending"
    <3>1. c \notin slot[s].pending BY <2>3, <2>13
    <3>2. \A d \in K : FALSE BY <2>3, <2>4, <2>13
    <3>3. Cardinality(K) = 0 BY <3>2, CountNone
    <3>4. QED BY <1>2, <2>10, <2>13, <3>1, <3>3 DEF K, q
  <2>14. QED BY <2>11, <2>12, <2>13
<1>6. QED BY <1>4, <1>5

\* Nothing the pool accepted is dropped, settled twice or left in two places, by any
\* interleaving of calls, answers, aborts, failures and close().
THEOREM NoWorkIsLost == Spec => []NoLostWork
<1>1. ASSUME IInv, OwedInv PROVE NoLostWork
  BY <1>1, RootPlaces, CallPlaces DEF NoLostWork, QueuedAt, SentFrom, LeasedAt
<1>2. QED BY <1>1, OwedInvariance, PTL

-----------------------------------------------------------------------------
(* The order of the root calls of a slot.                                   *)

\* A handler that makes g of h sends call t, or gives it the slot.
StartsAt(t, h, g) ==
  \/ Root(t) \in g.slot.pending \ h.slot.pending
  \/ g.slot.activeLease = t /\ h.slot.activeLease # t

\* Of a queue q, nothing in front of t is left: it ended because it was aborted
\* or could not be sent.
Passed(t, q, ph) ==
  \A i \in 1 .. Len(q) :
    \/ \E j \in 1 .. i : q[j] = t
    \/ ph[q[i]] = "done" /\ (aborted[q[i]] \/ Root(q[i]) \in Unsendable)

\* Root calls start in their turn; no root call starts.
InTurn(h, g) == \A t \in Tasks : StartsAt(t, h, g) => Passed(t, h.slot.queue, g.phase)
NoStart(h, g) == \A t \in Tasks : ~StartsAt(t, h, g)

\* A step that starts root calls in their turn, on every slot.
TurnStep ==
  \A s \in Slots, t \in Tasks :
    Starts(s, t) =>
      LET q == slot[s].queue
      IN \A i \in 1 .. Len(q) :
           \/ \E j \in 1 .. i : q[j] = t
           \/ phase'[q[i]] = "done" /\ (aborted[q[i]] \/ Root(q[i]) \in Unsendable)

\* FirstOf passes over nothing that is in I.
LEMMA FirstOfLeast ==
  ASSUME NEW S, NEW q \in Seq(S), NEW I \in SUBSET (1 .. Len(q))
  PROVE  \A i \in I : FirstOf(q, I) <= i
<1>1. SUFFICES ASSUME NEW i \in I PROVE FirstOf(q, I) <= i OBVIOUS
<1>2. Len(q) \in Nat OBVIOUS
<1>3. I # {} /\ I \subseteq Nat BY <1>1, <1>2
<1>4. \E j \in I : \A k \in I : j <= k BY <1>3, NatMin, Zenon
<1>5. \A k \in I : FirstOf(q, I) <= k BY <1>3, <1>4, Zenon DEF FirstOf
<1>6. QED BY <1>1, <1>5

\* drainQueue() without a lease starts the first call that can be started, and
\* every call in front of it ends.
LEMMA DrainRootTurn ==
  ASSUME NEW s, NEW h \in HState, h.slot.activeLease = None
  PROVE  InTurn(h, DrainRoot(s, h))
<1> DEFINE q == h.slot.queue
           I == {i \in 1 .. Len(q) :
                  ~aborted[q[i]] /\ (Kind[q[i]] = "do" \/ Root(q[i]) \notin Unsendable)}
           k == FirstOf(q, I)
           front == {q[i] : i \in 1 .. k - 1}
           late == {t \in front : aborted[t]}
           unsent == {Root(t) : t \in front \ late}
           tail == [h EXCEPT !.slot = [h.slot EXCEPT !.queue = SubSeq(q, k + 1, Len(q))]]
           dropped == RejectQueued(tail, late, "aborted")
           rest == SendFailed(dropped, unsent)
           g == DrainRoot(s, h)
<1>1. h.slot \in SlotRecord BY DEF HState
<1>2. q \in Seq(Tasks) /\ Len(q) \in Nat BY <1>1 DEF SlotRecord
<1>3. k \in 1 .. Len(q) + 1 /\ (k <= Len(q) => k \in I) BY <1>2, FirstOfIndex
<1>4. \A i \in I : k <= i BY <1>2, FirstOfLeast
<1>5. \A i \in 1 .. Len(q) : i \notin I => aborted[q[i]] \/ Root(q[i]) \in Unsendable OBVIOUS
<1>6. g = IF k > Len(q) THEN rest
          ELSE IF Kind[q[k]] = "do" THEN Admit(rest, q[k])
          ELSE Dispatch(s, rest, Root(q[k]))
  BY DEF DrainRoot
<1>7. \A i \in 1 .. k - 1 : q[i] \in front OBVIOUS
<1>8. \A t : Root(t) \in unsent <=> t \in front /\ t \notin late BY DEF Root
<1>9. late \subseteq front OBVIOUS
<1>10. SubSeq(q, k + 1, Len(q)) \in Seq(Tasks) BY ZenonT(60), <1>2, <1>3, TailOfQueue
<1>11. /\ tail \in HState /\ tail.phase = h.phase
       /\ tail.slot.pending = h.slot.pending /\ tail.slot.activeLease = None
  BY ZenonT(60), <1>1, <1>10 DEF HState, SlotRecord
<1> HIDE DEF k, front, late, unsent, tail, I
<1>12. /\ dropped \in HState /\ dropped.slot = tail.slot
       /\ \A t \in Tasks : dropped.phase[t] = IF t \in late THEN "done" ELSE h.phase[t]
  <2>1. "aborted" \in Verdicts BY DEF Verdicts
  <2>2. dropped \in HState BY <1>11, <2>1, RejectQueuedType
  <2>3. QED BY <1>11, <2>2, RejectQueuedFacts
<1> HIDE DEF dropped
<1>13. /\ rest \in HState
       /\ rest.slot.pending = h.slot.pending /\ rest.slot.activeLease = None
       /\ \A t \in front : t \in Tasks => rest.phase[t] = "done"
  <2>1. rest \in HState BY <1>12, SendFailedType
  <2>2. /\ Woken(dropped.slot, rest.slot)
        /\ \A t \in Tasks : rest.phase[t] = IF Root(t) \in unsent THEN "done" ELSE dropped.phase[t]
    BY <1>12, SendFailedFacts
  <2>3. QED BY <1>8, <1>9, <1>11, <1>12, <2>1, <2>2 DEF Woken
<1> HIDE DEF rest
<1>14. ASSUME NEW t \in Tasks, StartsAt(t, h, g)
       PROVE  k <= Len(q) /\ t = q[k] /\ \A u \in Tasks : u # t => g.phase[u] = rest.phase[u]
  <2>1. k <= Len(q)
    <3>1. SUFFICES ASSUME k > Len(q) PROVE FALSE BY <1>2, <1>3
    <3>2. g = rest BY <1>6, <3>1
    <3> HIDE DEF g
    <3>3. QED BY <1>13, <1>14, <3>2, PoolAssumption DEF StartsAt
  <2>2. q[k] \in Tasks /\ ~(k > Len(q)) BY <1>2, <1>3, <2>1, ElementOfSeq
  <2>3. CASE Kind[q[k]] = "do"
    <3>1. g = Admit(rest, q[k]) BY <1>6, <2>2, <2>3
    <3>2. g.slot.pending = rest.slot.pending /\ g.slot.activeLease = q[k]
          /\ \A u \in Tasks : u # q[k] => g.phase[u] = rest.phase[u]
      <4> HIDE DEF g, q
      <4>1. QED BY <1>13, <2>2, <3>1 DEF Admit, HState, SlotRecord
    <3> HIDE DEF g
    <3>3. QED BY <1>13, <1>14, <2>1, <3>2 DEF StartsAt
  <2>4. CASE Kind[q[k]] # "do"
    <3>1. g = Dispatch(s, rest, Root(q[k])) BY <1>6, <2>2, <2>4
    <3>2. g.slot.pending = rest.slot.pending \cup {Root(q[k])} /\ g.slot.activeLease = rest.slot.activeLease
          /\ g.phase = rest.phase
      <4> HIDE DEF g, q
      <4>1. QED BY <1>13, <2>2, <3>1 DEF Dispatch, HState, SlotRecord
    <3> HIDE DEF g
    <3>3. QED BY <1>13, <1>14, <2>1, <3>2, PoolAssumption DEF StartsAt, Root
  <2>5. QED BY <2>3, <2>4
<1> HIDE DEF g
<1>15. ASSUME NEW t \in Tasks, StartsAt(t, h, g), NEW i \in 1 .. Len(q)
       PROVE  \/ \E j \in 1 .. i : q[j] = t
              \/ g.phase[q[i]] = "done" /\ (aborted[q[i]] \/ Root(q[i]) \in Unsendable)
  <2>1. k <= Len(q) /\ t = q[k] /\ \A u \in Tasks : u # t => g.phase[u] = rest.phase[u]
    BY <1>14, <1>15
  <2>2. CASE k <= i BY <1>3, <2>1, <2>2
  <2>3. CASE i < k
    <3>1. q[i] \in Tasks BY <1>2, ElementOfSeq
    <3>2. CASE q[i] = t
      <4>1. i \in 1 .. i OBVIOUS
      <4>2. QED BY <3>2, <4>1
    <3>3. CASE q[i] # t
      <4>1. i \in 1 .. k - 1 /\ i \notin I BY <1>3, <1>4, <2>3
      <4>2. QED BY <1>5, <1>7, <1>13, <2>1, <3>1, <3>3, <4>1
    <3>4. QED BY <3>2, <3>3
  <2>4. QED BY <1>3, <2>2, <2>3
<1>16. InTurn(h, g)
  <2> HIDE DEF q
  <2>1. \A t \in Tasks : StartsAt(t, h, g) => Passed(t, q, g.phase) BY <1>15 DEF Passed
  <2>2. QED BY <2>1 DEF InTurn, q
<1>17. QED BY <1>16 DEF g

\* drainQueue() under a lease sends a proxy call, if any.
LEMMA DrainOwnerTurn ==
  ASSUME NEW s, NEW h \in HState, h.slot.activeLease \in Tasks
  PROVE  NoStart(h, DrainOwner(s, h))
<1> DEFINE t == h.slot.activeLease
           q == h.lease[t].queue
           I == {i \in 1 .. Len(q) : q[i] \notin Unsendable}
           k == FirstOf(q, I)
           skipped == {q[i] : i \in 1 .. k - 1}
           tail == [h.lease[t] EXCEPT !.queue = SubSeq(q, k + 1, Len(q))]
           failed == SendFailed(h, skipped)
           rest == [failed EXCEPT !.lease = [h.lease EXCEPT ![t] = tail]]
           g == DrainOwner(s, h)
<1>1. q \in Seq(Calls) /\ Len(q) \in Nat
  <2>1. h.lease[t] \in LeaseRecord BY DEF HState
  <2>2. QED BY <2>1 DEF LeaseRecord
<1>2. k \in 1 .. Len(q) + 1 BY SMTT(30), <1>1, FirstOfIndex
<1>3. g = IF k > Len(q) THEN rest ELSE Dispatch(s, rest, q[k]) BY DEF DrainOwner
<1>4. SubSeq(q, k + 1, Len(q)) \in Seq(Calls) BY ZenonT(60), <1>1, <1>2, TailOfQueue
<1>5. [h.lease EXCEPT ![t] = tail] \in [Tasks -> LeaseRecord]
  <2>1. h.lease \in [Tasks -> LeaseRecord] /\ h.lease[t] \in LeaseRecord BY DEF HState
  <2> HIDE DEF k, q
  <2>2. tail \in LeaseRecord BY <1>4, <2>1 DEF LeaseRecord
  <2> HIDE DEF tail
  <2>3. QED BY <2>1, <2>2
<1> HIDE DEF k, I, tail, skipped
<1>6. failed \in HState /\ Woken(h.slot, failed.slot) BY SendFailedType, SendFailedFacts
<1> HIDE DEF failed
<1>7. rest \in HState /\ rest.slot = failed.slot
  <2> HIDE DEF t
  <2>1. QED BY <1>5, <1>6 DEF HState
<1> HIDE DEF rest, q
<1>8. rest.slot.pending = h.slot.pending /\ rest.slot.activeLease = h.slot.activeLease
  BY <1>6, <1>7 DEF Woken
<1>9. g.slot.activeLease = h.slot.activeLease
      /\ \A u \in Tasks : Root(u) \in g.slot.pending => Root(u) \in h.slot.pending
  <2>1. CASE k > Len(q)
    <3>1. g = rest BY <1>3, <2>1
    <3> HIDE DEF g
    <3>2. QED BY <1>8, <3>1
  <2>2. CASE ~(k > Len(q))
    <3>1. g = Dispatch(s, rest, q[k]) BY <1>3, <2>2
    <3>2. q[k] \in Calls BY <1>1, <1>2, <2>2, ElementOfSeq
    <3>3. g.slot.pending = rest.slot.pending \cup {q[k]} /\ g.slot.activeLease = rest.slot.activeLease
      <4> HIDE DEF g
      <4>1. QED BY <1>7, <3>1, DispatchFacts
    <3> HIDE DEF g
    <3>4. \A u \in Tasks : Root(u) # q[k] BY <3>2, RequestOf
    <3>5. QED BY <1>8, <3>3, <3>4
  <2>3. QED BY <2>1, <2>2
<1> HIDE DEF g
<1>10. NoStart(h, g) BY <1>9 DEF NoStart, StartsAt
<1>11. QED BY <1>10 DEF g

\* What starts nothing, and what follows a record that has the same queue and
\* started nothing, keeps the order.
LEMMA NoStartInTurn ==
  ASSUME NEW h, NEW g, NoStart(h, g)
  PROVE  InTurn(h, g)
BY DEF NoStart, InTurn

\* A handler that goes on from a record with the same queue, and less in flight, keeps the order.
LEMMA TurnAfter ==
  ASSUME NEW h, NEW m, NEW g, InTurn(m, g), m.slot.queue = h.slot.queue,
         m.slot.pending \subseteq h.slot.pending,
         m.slot.activeLease = h.slot.activeLease \/ m.slot.activeLease = None
  PROVE  InTurn(h, g)
<1>1. \A t \in Tasks : StartsAt(t, h, g) => StartsAt(t, m, g) BY PoolAssumption DEF StartsAt
<1>2. QED BY <1>1 DEF InTurn

\* drainQueue() starts root calls in their turn; none while the worker is busy, down
\* or held by a lease.
LEMMA DrainQueueTurn ==
  ASSUME NEW s, NEW h \in HState
  PROVE  /\ InTurn(h, DrainQueue(s, h))
         /\ h.slot.state # "running" \/ h.slot.inflight # 0 \/ h.slot.activeLease # None =>
              NoStart(h, DrainQueue(s, h))
<1>1. h.slot.activeLease \in Tasks \cup {None} BY DEF HState, SlotRecord
<1>2. CASE h.slot.state # "running" \/ h.slot.inflight # 0
  <2>1. DrainQueue(s, h) = h BY <1>2 DEF DrainQueue
  <2>2. NoStart(h, h) BY DEF NoStart, StartsAt
  <2>3. QED BY <2>1, <2>2, NoStartInTurn
<1>3. CASE ~(h.slot.state # "running" \/ h.slot.inflight # 0) /\ h.slot.activeLease # None
  <2>1. DrainQueue(s, h) = DrainOwner(s, h) BY <1>3 DEF DrainQueue
  <2>2. NoStart(h, DrainOwner(s, h)) BY <1>1, <1>3, DrainOwnerTurn
  <2>3. QED BY <2>1, <2>2, NoStartInTurn
<1>4. CASE ~(h.slot.state # "running" \/ h.slot.inflight # 0) /\ h.slot.activeLease = None
  <2>1. DrainQueue(s, h) = DrainRoot(s, h) BY <1>4 DEF DrainQueue
  <2>2. QED BY <1>4, <2>1, DrainRootTurn
<1>5. QED BY <1>2, <1>3, <1>4

-----------------------------------------------------------------------------
(* Steps.                                                                   *)

\* A step in which no slot gets a root call.
LEMMA QuietTurn ==
  ASSUME \A s \in Slots : NoStart(Here(s), Here(s)')
  PROVE  TurnStep
BY HereFields DEF NoStart, StartsAt, Starts, TurnStep

\* A handler of slot s that starts root calls in their turn.
LEMMA HandlerTurn ==
  ASSUME IInv, NEW s \in Slots, NEW g \in HState, Commit(s, g), InTurn(Here(s), g)
  PROVE  TurnStep
<1>1. slot' = [slot EXCEPT ![s] = g.slot] /\ phase' = g.phase BY DEF Commit
<1>2. slot \in [Slots -> SlotRecord] BY DEF IInv, TypeOK
<1>3. slot'[s] = g.slot /\ \A r \in Slots : r # s => slot'[r] = slot[r] BY <1>1, <1>2
<1>4. Here(s).slot = slot[s] BY HereFields
<1>5. ASSUME NEW r \in Slots, NEW t \in Tasks, Starts(r, t), r # s PROVE FALSE
  BY <1>3, <1>5 DEF Starts
<1>6. ASSUME NEW t \in Tasks, Starts(s, t) PROVE StartsAt(t, Here(s), g)
  BY <1>3, <1>4, <1>6 DEF Starts, StartsAt
<1>7. QED BY <1>1, <1>4, <1>5, <1>6 DEF InTurn, Passed, TurnStep

\* A settled promise after the handler changes no order.
LEMMA SettledTurn ==
  ASSUME NEW h, NEW g \in HState, InTurn(h, g), NEW R, NEW v,
         h.slot.queue \in Seq(Tasks)
  PROVE  InTurn(h, Settle(g, R, v))
<1> DEFINE f == Settle(g, R, v)
           q == h.slot.queue
<1>1. f.slot = g.slot /\ \A t \in Tasks : g.phase[t] = "done" => f.phase[t] = "done"
  BY SettleFacts
<1>2. \A i \in 1 .. Len(q) : q[i] \in Tasks BY ElementOfSeq
<1> HIDE DEF f
<1>3. \A t : StartsAt(t, h, f) => StartsAt(t, h, g) BY <1>1 DEF StartsAt
<1>4. \A t \in Tasks : Passed(t, q, g.phase) => Passed(t, q, f.phase) BY <1>1, <1>2 DEF Passed
<1>5. InTurn(h, f) BY <1>3, <1>4 DEF InTurn
<1>6. QED BY <1>5 DEF f

\* An answer frees the worker for the first root call in the queue.
LEMMA OnMessageTurn ==
  ASSUME IInv, NEW s \in Slots, NEW r \in Requests, OnMessage(s, r)
  PROVE  TurnStep
<1> DEFINE sl == [slot[s] EXCEPT !.posted = slot[s].posted \ {r}]
           left == sl.pending \ {r}
           count == sl.inflight - 1
           tk == [sl EXCEPT !.pending = left, !.inflight = count]
           b == Here(s)
           known == slot[s].state = "running" /\ r \in slot[s].pending
<1>1. slot[s] \in SlotRecord /\ b \in HState BY HereType DEF IInv, TypeOK
<1>2. b.slot = slot[s] BY HereFields
<1>3. PICK v \in {"ok", "workerError"} :
        Commit(s, IF known THEN DrainQueue(s, NotifyPendingDrained(Settle([b EXCEPT !.slot = tk], {r}, v)))
                  ELSE [b EXCEPT !.slot = sl])
  BY DEF OnMessage
<1>4. /\ sl \in SlotRecord /\ sl.pending = slot[s].pending /\ sl.activeLease = slot[s].activeLease
      /\ sl.queue = slot[s].queue
  <2> DEFINE rest == slot[s].posted \ {r}
  <2>1. rest \in SUBSET Requests BY <1>1 DEF SlotRecord
  <2> HIDE DEF rest
  <2>2. QED BY <1>1, <2>1 DEF SlotRecord
<1>5. /\ tk \in SlotRecord /\ tk.pending \subseteq slot[s].pending
      /\ tk.activeLease = slot[s].activeLease /\ tk.queue = slot[s].queue
  <2> HIDE DEF sl
  <2>1. left \in SUBSET Requests /\ count \in Int /\ left \subseteq slot[s].pending
    BY <1>4 DEF SlotRecord
  <2> HIDE DEF left, count
  <2>2. QED BY <1>4, <2>1 DEF SlotRecord
<1> HIDE DEF sl, tk, b
<1>6. CASE known
  <2> DEFINE taken == [b EXCEPT !.slot = tk]
             f == Settle(taken, {r}, v)
             n == NotifyPendingDrained(f)
             d == DrainQueue(s, n)
  <2>1. taken \in HState /\ taken.slot = tk BY <1>1, <1>5 DEF HState
  <2>2. v \in Verdicts \cup {"none", "pending"} BY DEF Verdicts
  <2> HIDE DEF taken
  <2>3. f \in HState /\ f.slot = tk BY <2>1, <2>2, SettleType, SettleFacts
  <2> HIDE DEF f
  <2>4. n \in HState /\ Woken(tk, n.slot) BY <2>3, NotifyType, NotifyFacts
  <2> HIDE DEF n
  <2>5. d \in HState /\ InTurn(n, d) BY <2>4, DrainQueueType, DrainQueueTurn
  <2>6. Commit(s, d) BY <1>3, <1>6 DEF d, n, f, taken
  <2> HIDE DEF d
  <2>7. InTurn(b, d) BY <1>2, <1>5, <2>4, <2>5, TurnAfter DEF Woken
  <2>8. QED BY <2>5, <2>6, <2>7, HandlerTurn DEF b
<1>7. CASE ~known
  <2> DEFINE g == [b EXCEPT !.slot = sl]
  <2>1. g \in HState /\ g.slot = sl BY <1>1, <1>4 DEF HState
  <2>2. Commit(s, g) BY <1>3, <1>7
  <2> HIDE DEF g
  <2>3. NoStart(b, g) BY <1>2, <1>4, <2>1 DEF NoStart, StartsAt
  <2>4. QED BY <2>1, <2>2, <2>3, NoStartInTurn, HandlerTurn DEF b
<1>8. QED BY <1>6, <1>7

\* The release of a lease frees the slot for the first root call in the queue.
LEMMA FinishReleaseTurn ==
  ASSUME IInv, NEW t \in Tasks, FinishRelease(t)
  PROVE  TurnStep
<1> DEFINE s == home[t]
           b == Here(s)
           owner == IF slot[s].activeLease = t THEN None ELSE slot[s].activeLease
           sl == [slot[s] EXCEPT !.activeLease = owner]
           freed == [b EXCEPT !.slot = sl]
           T == {t}
           f == MarkReleased(freed, T)
           d == DrainQueue(s, f)
           R == {Root(t)}
<1>1. phase[t] \in {"releasing", "abandoning"} BY DEF FinishRelease
<1>2. PICK v : Commit(s, Settle(d, R, v)) /\ v \in {"aborted", "ok", "callbackError", result[Root(t)]}
  BY DEF FinishRelease
<1>3. s \in Slots /\ HInv(s, f, home) BY <1>1, ReleasedInv
<1>4. slot[s] \in SlotRecord /\ b \in HState BY <1>3, HereType DEF IInv, TypeOK
<1>5. b.slot = slot[s] BY HereFields
<1>6. /\ sl \in SlotRecord /\ sl.pending = slot[s].pending /\ sl.queue = slot[s].queue
      /\ sl.activeLease = slot[s].activeLease \/ sl.activeLease = None
  <2>1. owner \in Tasks \cup {None} /\ (owner = slot[s].activeLease \/ owner = None)
    BY <1>4 DEF SlotRecord
  <2> HIDE DEF owner
  <2>2. QED BY <1>4, <2>1 DEF SlotRecord
<1> HIDE DEF sl, b
<1>7. freed \in HState /\ freed.slot = sl BY <1>4, <1>6 DEF HState
<1> HIDE DEF freed
<1>8. f.slot = sl /\ f \in HState BY <1>7, MarkReleasedType, MarkReleasedFacts
<1> HIDE DEF f
<1>9. d \in HState /\ InTurn(f, d) BY <1>8, DrainQueueType, DrainQueueTurn
<1> HIDE DEF d
<1>10. InTurn(b, d) BY <1>5, <1>6, <1>8, <1>9, TurnAfter
<1>11. v \in Verdicts \cup {"none", "pending"}
  <2>1. result[Root(t)] \in Verdicts \cup {"none", "pending"} BY RequestOf DEF IInv, TypeOK
  <2>2. QED BY <1>2, <2>1 DEF Verdicts
<1>12. Settle(d, R, v) \in HState BY <1>9, <1>11, SettleType
<1>13. slot[s].queue \in Seq(Tasks) BY <1>4 DEF SlotRecord
<1>14. InTurn(b, Settle(d, R, v)) BY <1>5, <1>9, <1>10, <1>13, SettledTurn
<1>15. QED BY <1>2, <1>3, <1>12, <1>14, HandlerTurn DEF b

\* A queued call that aborts leaves a queue that nothing can start from: the worker
\* is busy, held or down.
LEMMA AbortQueuedTurn ==
  ASSUME IInv, OwedInv, NEW t \in Tasks, AbortQueued(t)
  PROVE  TurnStep
<1> DEFINE s == home[t]
           q == slot[s].queue
           b == Here(s)
<1>1. Kind[t] # "close" /\ phase[t] = "waiting" BY PoolAssumption DEF AbortQueued
<1>2. PICK i \in 1 .. Len(q) :
        /\ q[i] = t
        /\ Commit(s, DrainQueue(s, RejectQueued(
             [b EXCEPT !.slot = [slot[s] EXCEPT
                !.queue = SubSeq(q, 1, i - 1) \o SubSeq(q, i + 1, Len(q))]],
             {t}, "aborted")))
  BY DEF AbortQueued
<1> DEFINE p == SubSeq(q, 1, i - 1) \o SubSeq(q, i + 1, Len(q))
           sl == [slot[s] EXCEPT !.queue = p]
           cut == [b EXCEPT !.slot = sl]
           m == RejectQueued(cut, {t}, "aborted")
           d == DrainQueue(s, m)
<1>3. s \in Slots /\ HInv(s, m, home) BY <1>1, <1>2, RemovedInv
<1>4. slot[s] \in SlotRecord /\ b \in HState BY <1>3, HereType DEF IInv, TypeOK
<1>5. b.slot = slot[s] BY HereFields
<1>6. p \in Seq(Tasks)
  <2>1. q \in Seq(Tasks) BY <1>4 DEF SlotRecord
  <2> HIDE DEF q
  <2>2. QED BY <2>1, RemovedAt
<1>7. q # <<>> BY <1>2
<1>8. slot[s].state # "running" \/ slot[s].inflight # 0 \/ slot[s].activeLease # None
  BY <1>3, <1>5, <1>7 DEF OwedInv, WorkInv, Drained
<1> HIDE DEF p, b
<1>9. /\ sl \in SlotRecord /\ sl.pending = slot[s].pending /\ sl.activeLease = slot[s].activeLease
      /\ sl.state = slot[s].state /\ sl.inflight = slot[s].inflight
  BY <1>4, <1>6 DEF SlotRecord
<1> HIDE DEF sl
<1>10. cut \in HState /\ cut.slot = sl BY <1>4, <1>9 DEF HState
<1> HIDE DEF cut
<1>11. m \in HState /\ m.slot = sl BY <1>3, <1>10, RejectQueuedFacts DEF HInv
<1>12. Commit(s, d) BY <1>2 DEF d, m, cut, sl, p
<1> HIDE DEF m
<1>13. d \in HState /\ NoStart(m, d) BY <1>8, <1>9, <1>11, DrainQueueType, DrainQueueTurn
<1> HIDE DEF d
<1>14. NoStart(b, d) BY <1>5, <1>9, <1>11, <1>13 DEF NoStart, StartsAt
<1>15. QED BY <1>3, <1>12, <1>13, <1>14, NoStartInTurn, HandlerTurn DEF b

\* A call is sent, or admitted, at once only when nothing waits in front of it.
LEMMA EmptyQueueTurn ==
  ASSUME IInv, NEW s \in Slots, slot[s].queue = <<>>, NEW g, Commit(s, g)
  PROVE  TurnStep
<1>1. slot \in [Slots -> SlotRecord] /\ slot' = [slot EXCEPT ![s] = g.slot]
  BY DEF IInv, TypeOK, Commit
<1>2. \A r \in Slots : r # s => slot'[r] = slot[r] BY <1>1
<1>3. ASSUME NEW r \in Slots, NEW t \in Tasks, Starts(r, t) PROVE slot[r].queue = <<>>
  BY <1>2, <1>3 DEF Starts
<1>4. QED BY <1>3 DEF TurnStep

\* A proxy call that is sent at once is no root call, and what the queue is drained
\* for when its send fails is the FIFO of its owner.
LEMMA CallNowTurn ==
  ASSUME IInv, OwedInv, NEW t \in Tasks, NEW i \in 1 .. MaxCalls, CallNow(t, i)
  PROVE  TurnStep
<1> DEFINE s == home[t]
           b == Here(s)
           h == AcceptedCall(b, t, i)
           g == DispatchRequest(s, h, <<t, i>>)
<1>1. Invokes(t, i) /\ CallRefusal(t) = "none" /\ Commit(s, g) BY DEF CallNow
<1>2. s \in Slots /\ b \in HState BY <1>1, CallOwed
<1>3. slot[s].activeLease = t BY <1>1 DEF CallRefusal
<1>4. b.slot = slot[s] BY HereFields
<1>5. h \in HState /\ h.slot = slot[s] BY <1>2, <1>4, AcceptedCallFields, AcceptedCallType DEF CallTaken
<1>6. <<t, i>> \in Requests /\ \A u : <<t, i>> # Root(u) BY RequestOf
<1> HIDE DEF h, b, s
<1>7. g \in HState BY <1>5, <1>6, DispatchRequestType
<1>8. NoStart(b, g)
  <2>1. CASE <<t, i>> \in Unsendable
    <3> DEFINE R == {<<t, i>>}
               f == SendFailed(h, R)
    <3>1. g = DrainQueue(s, f) BY <2>1 DEF DispatchRequest
    <3>2. f \in HState /\ Woken(h.slot, f.slot) BY <1>5, SendFailedType, SendFailedFacts
    <3> HIDE DEF f, g
    <3>3. f.slot.pending = slot[s].pending /\ f.slot.activeLease = t BY <1>3, <1>5, <3>2 DEF Woken
    <3>4. NoStart(f, g) BY <3>1, <3>2, <3>3, DrainQueueTurn, PoolAssumption
    <3>5. QED BY <1>3, <1>4, <3>3, <3>4 DEF NoStart, StartsAt
  <2>2. CASE <<t, i>> \notin Unsendable
    <3>1. g = Dispatch(s, h, <<t, i>>) BY <2>2 DEF DispatchRequest
    <3>2. g.slot.pending = h.slot.pending \cup {<<t, i>>} /\ g.slot.activeLease = h.slot.activeLease
      <4> HIDE DEF g
      <4>1. QED BY <1>5, <3>1, DispatchFacts
    <3> HIDE DEF g
    <3>3. QED BY <1>4, <1>5, <1>6, <3>2 DEF NoStart, StartsAt
  <2>3. QED BY <2>1, <2>2
<1>9. QED BY <1>1, <1>2, <1>7, <1>8, NoStartInTurn, HandlerTurn DEF b

\* The other steps: no slot gets a request of a root call, or a lease.
SameOwners ==
  \A s \in Slots :
    /\ \A t \in Tasks : Root(t) \in slot'[s].pending => Root(t) \in slot[s].pending
    /\ slot'[s].activeLease = slot[s].activeLease

\* Where no slot gets a root request or a lease, nothing starts.
LEMMA SameOwnersTurn ==
  ASSUME SameOwners
  PROVE  TurnStep
BY DEF SameOwners, TurnStep, Starts

\* A handler that leaves what is in flight and the owner, of its slot, to their records.
LEMMA SameOwnersCommit ==
  ASSUME IInv, NEW s \in Slots, NEW g, Commit(s, g),
         g.slot.pending \subseteq slot[s].pending, g.slot.activeLease = slot[s].activeLease
  PROVE  SameOwners
<1>1. slot \in [Slots -> SlotRecord] /\ slot' = [slot EXCEPT ![s] = g.slot]
  BY DEF IInv, TypeOK, Commit
<1>2. slot'[s] = g.slot /\ \A r \in Slots : r # s => slot'[r] = slot[r] BY <1>1
<1>3. QED BY <1>2 DEF SameOwners

\* failSlot() empties what is in flight and keeps the lease for its release.
LEMMA FailSlotTurn ==
  ASSUME IInv, NEW s \in Slots, Commit(s, FailSlot(s))
  PROVE  TurnStep
<1> DEFINE sl == slot[s]
           t == sl.activeLease
           owned == IF t = None THEN {} ELSE Elems(lease[t].queue)
           dead == [sl EXCEPT !.state = "failed", !.listening = FALSE,
                              !.pending = {}, !.inflight = 0, !.queue = <<>>]
           ls == IF t = None THEN lease
                 ELSE [lease EXCEPT ![t] = [lease[t] EXCEPT !.queue = <<>>]]
           down == [Here(s) EXCEPT !.slot = dead, !.lease = ls]
           T == Elems(sl.queue)
           R == owned \cup sl.pending
           f == RejectQueued(down, T, "terminal")
           g == Settle(f, R, "terminal")
           n == NotifyPendingDrained(g)
<1>1. FailSlot(s) = n BY DEF FailSlot
<1>2. slot[s] \in SlotRecord BY DEF IInv, TypeOK
<1>3. dead.pending = {} /\ dead.activeLease = slot[s].activeLease BY <1>2 DEF SlotRecord
<1>4. down \in HState BY DownType DEF IInv
<1>5. down.slot = dead BY DEF Here
<1>6. "terminal" \in Verdicts BY DEF Verdicts
<1> HIDE DEF down, dead, T, R
<1>7. f \in HState /\ f.slot = dead BY <1>4, <1>5, <1>6, RejectQueuedType, RejectQueuedFacts
<1> HIDE DEF f
<1>8. g \in HState /\ g.slot = dead BY <1>6, <1>7, SettleType, SettleFacts
<1> HIDE DEF g
<1>9. Woken(dead, n.slot) BY <1>8, NotifyFacts
<1> HIDE DEF n
<1>10. n.slot.pending \subseteq slot[s].pending /\ n.slot.activeLease = slot[s].activeLease
  BY <1>3, <1>9 DEF Woken
<1>11. Commit(s, n) BY <1>1
<1>12. QED BY <1>10, <1>11, SameOwnersCommit, SameOwnersTurn

\* The end of a worker, expected or not, gives nothing to anyone.
LEMMA SlotEndTurn ==
  ASSUME IInv, NEW s \in Slots, NEW sl \in SlotRecord,
         sl.pending = slot[s].pending, sl.activeLease = slot[s].activeLease,
         Commit(s, NotifyPendingDrained([Here(s) EXCEPT !.slot = sl]))
  PROVE  TurnStep
<1> DEFINE h == [Here(s) EXCEPT !.slot = sl]
           n == NotifyPendingDrained(h)
<1>1. Here(s) \in HState BY HereType DEF IInv
<1>2. h \in HState /\ h.slot = sl BY <1>1 DEF HState
<1> HIDE DEF h
<1>3. Woken(sl, n.slot) BY <1>2, NotifyFacts
<1>4. n.slot.pending \subseteq slot[s].pending /\ n.slot.activeLease = slot[s].activeLease
  BY <1>3 DEF Woken
<1>5. Commit(s, n) BY DEF n, h
<1>6. QED BY <1>4, <1>5, SameOwnersCommit, SameOwnersTurn

\* The actions that write slot records and start nothing.
LEMMA RecordTurn ==
  ASSUME IInv, NEW s \in Slots, NEW sl,
         slot' = [slot EXCEPT ![s] = sl],
         sl.pending = slot[s].pending, sl.activeLease = slot[s].activeLease
  PROVE  TurnStep
<1>1. slot \in [Slots -> SlotRecord] BY DEF IInv, TypeOK
<1>2. slot'[s] = sl /\ \A r \in Slots : r # s => slot'[r] = slot[r] BY <1>1
<1>3. SameOwners BY <1>2 DEF SameOwners
<1>4. QED BY <1>3, SameOwnersTurn

\* Admission, one public call: it waits, or finds nothing in front of it.
LEMMA AdmissionTurn ==
  ASSUME IInv, OwedInv, NEW t \in Tasks, Admission(t)
  PROVE  TurnStep
<1>1. roundRobin \in Slots BY DEF IInv, TypeOK
<1>2. PICK s \in Slots : s = roundRobin BY <1>1
<1>3. slot[s] \in SlotRecord BY DEF IInv, TypeOK
<1>4. CASE RefuseRoot(t) BY <1>4, SameOwnersTurn DEF RefuseRoot, SameOwners
<1>5. CASE RejectFull(t)
  <2> DEFINE sl == [slot[s] EXCEPT !.rejected = slot[s].rejected + 1]
  <2>1. slot' = [slot EXCEPT ![s] = sl] BY <1>2, <1>5 DEF RejectFull
  <2>2. sl.pending = slot[s].pending /\ sl.activeLease = slot[s].activeLease BY <1>3 DEF SlotRecord
  <2> HIDE DEF sl
  <2>3. QED BY <2>1, <2>2, RecordTurn
<1>6. CASE EnqueueRoot(t)
  <2> DEFINE sl == [slot[s] EXCEPT !.queue = Append(slot[s].queue, t)]
  <2>1. Commit(s, [Accepted(Here(s), t) EXCEPT !.slot = sl]) BY <1>2, <1>6 DEF EnqueueRoot
  <2>2. slot' = [slot EXCEPT ![s] = [Accepted(Here(s), t) EXCEPT !.slot = sl].slot]
    BY <2>1 DEF Commit
  <2>3. sl.pending = slot[s].pending /\ sl.activeLease = slot[s].activeLease BY <1>3 DEF SlotRecord
  <2> HIDE DEF sl
  <2>4. [Accepted(Here(s), t) EXCEPT !.slot = sl].slot = sl BY DEF Accepted, Here
  <2>5. QED BY <2>2, <2>3, <2>4, RecordTurn
<1>7. CASE EvaluateNow(t)
  <2>1. slot[s].queue = <<>> /\ Commit(s, DispatchRequest(s, Accepted(Here(s), t), Root(t)))
    BY <1>2, <1>7 DEF EvaluateNow, SlotFree
  <2>2. QED BY <2>1, EmptyQueueTurn
<1>8. CASE AdmitNow(t)
  <2>1. slot[s].queue = <<>> /\ Commit(s, Admit(Accepted(Here(s), t), t))
    BY <1>2, <1>8 DEF AdmitNow, SlotFree
  <2>2. QED BY <2>1, EmptyQueueTurn
<1>9. QED BY <1>4, <1>5, <1>6, <1>7, <1>8 DEF Admission

\* The proxy calls of a callback start no root call.
LEMMA CallStepTurn ==
  ASSUME IInv, OwedInv, NEW t \in Tasks, NEW i \in 1 .. MaxCalls, CallStep(t, i)
  PROVE  TurnStep
<1>1. CASE RefuseCall(t, i) BY <1>1, SameOwnersTurn DEF RefuseCall, SameOwners
<1>2. CASE RejectCallFull(t, i)
  <2>1. PICK s \in Slots : s = home[t] BY <1>2, CallOwed DEF RejectCallFull
  <2>2. slot[s] \in SlotRecord BY DEF IInv, TypeOK
  <2> DEFINE sl == [slot[s] EXCEPT !.rejected = slot[s].rejected + 1]
  <2>3. slot' = [slot EXCEPT ![s] = sl] BY <1>2, <2>1 DEF RejectCallFull
  <2>4. sl.pending = slot[s].pending /\ sl.activeLease = slot[s].activeLease BY <2>2 DEF SlotRecord
  <2> HIDE DEF sl
  <2>5. QED BY <2>3, <2>4, RecordTurn
<1>3. CASE EnqueueCall(t, i)
  <2>1. PICK s \in Slots : s = home[t] BY <1>3, CallOwed DEF EnqueueCall
  <2> DEFINE h == AcceptedCall(Here(s), t, i)
             l == [h.lease EXCEPT ![t] = [h.lease[t] EXCEPT !.queue = Append(h.lease[t].queue, <<t, i>>)]]
  <2>2. Commit(s, [h EXCEPT !.lease = l]) BY <1>3, <2>1 DEF EnqueueCall
  <2> HIDE DEF l
  <2>3. [h EXCEPT !.lease = l].slot = slot[s] BY DEF AcceptedCall, Here
  <2> HIDE DEF h
  <2>4. QED BY <2>2, <2>3, SameOwnersCommit, SameOwnersTurn
<1>4. CASE CallNow(t, i) BY <1>4, CallNowTurn
<1>5. CASE SettleLeaseCall(t, i) BY <1>5, SameOwnersTurn DEF SettleLeaseCall, SameOwners
<1>6. QED BY <1>1, <1>2, <1>3, <1>4, <1>5 DEF CallStep

\* Worker events: an answer starts the next call, a failure none.
LEMMA WorkerStepTurn ==
  ASSUME IInv, OwedInv, NEW s \in Slots, WorkerStep(s)
  PROVE  TurnStep
<1>1. ASSUME NEW r \in Requests, OnMessage(s, r) PROVE TurnStep BY <1>1, OnMessageTurn
<1>2. CASE Crash(s) BY <1>2, SameOwnersTurn DEF Crash, SameOwners
<1>3. CASE OnError(s)
  <2>1. CASE Commit(s, FailSlot(s)) BY <2>1, FailSlotTurn
  <2>2. CASE slot' = slot BY <2>2, SameOwnersTurn DEF SameOwners
  <2>3. QED BY <1>3, <2>1, <2>2 DEF OnError, HandleSlotTerminal, Handled
<1>4. CASE OnExit(s)
  <2>1. CASE Commit(s, FailSlot(s)) BY <2>1, FailSlotTurn
  <2>2. CASE slot' = slot BY <2>2, SameOwnersTurn DEF SameOwners
  <2>3. CASE Commit(s, NotifyPendingDrained([Here(s) EXCEPT !.slot =
               [slot[s] EXCEPT !.state = "closed", !.listening = FALSE]]))
    <3> DEFINE sl == [slot[s] EXCEPT !.state = "closed", !.listening = FALSE]
    <3>1. slot[s] \in SlotRecord BY DEF IInv, TypeOK
    <3>2. sl \in SlotRecord /\ sl.pending = slot[s].pending /\ sl.activeLease = slot[s].activeLease
      BY <3>1 DEF SlotRecord
    <3>3. Commit(s, NotifyPendingDrained([Here(s) EXCEPT !.slot = sl])) BY <2>3
    <3> HIDE DEF sl
    <3>4. QED BY <3>2, <3>3, SlotEndTurn
  <2>4. QED BY <1>4, <2>1, <2>2, <2>3 DEF OnExit, HandleSlotTerminal, Handled
<1>5. QED BY <1>1, <1>2, <1>3, <1>4 DEF WorkerStep

\* close() starts nothing.
LEMMA CloseTurn ==
  ASSUME IInv, OwedInv
  PROVE  /\ \A t \in Tasks : CloseCall(t) => TurnStep
         /\ \A s \in Slots : CloseStep(s) => TurnStep
<1>1. ASSUME NEW t \in Tasks, CloseCall(t) PROVE TurnStep
  <2>1. CASE RefuseClose(t) BY <2>1, SameOwnersTurn DEF RefuseClose, SameOwners
  <2>2. CASE CloseFirst(t)
    <3>1. \A s \in Slots : slot'[s].pending = slot[s].pending
                           /\ slot'[s].activeLease = slot[s].activeLease
      BY <2>2, CloseFirstFacts DEF ClosedFrom
    <3>2. QED BY <3>1, SameOwnersTurn DEF SameOwners
  <2>3. CASE CloseAgain(t) BY <2>3, SameOwnersTurn DEF CloseAgain, SameOwners
  <2>4. CASE FinishClose(t) BY <2>4, SameOwnersTurn DEF FinishClose, SameOwners
  <2>5. QED BY <1>1, <2>1, <2>2, <2>3, <2>4 DEF CloseCall
<1>2. ASSUME NEW s \in Slots, CloseStep(s) PROVE TurnStep
  <2>1. slot[s] \in SlotRecord BY DEF IInv, TypeOK
  <2>2. CASE CloseLeaseReleased(s)
    <3> DEFINE c == WaitForPending(slot[s])
               sl == [slot[s] EXCEPT !.closing = c]
    <3>1. slot' = [slot EXCEPT ![s] = sl] BY <2>2 DEF CloseLeaseReleased
    <3> HIDE DEF c
    <3>2. sl.pending = slot[s].pending /\ sl.activeLease = slot[s].activeLease
      BY <2>1 DEF SlotRecord
    <3> HIDE DEF sl
    <3>3. QED BY <3>1, <3>2, RecordTurn
  <2>3. CASE TerminateSlot(s)
    <3> DEFINE sl == [slot[s] EXCEPT !.state = "terminating", !.closing = "terminating"]
    <3>1. slot' = [slot EXCEPT ![s] = sl] BY <2>3 DEF TerminateSlot
    <3>2. sl.pending = slot[s].pending /\ sl.activeLease = slot[s].activeLease
      BY <2>1 DEF SlotRecord
    <3> HIDE DEF sl
    <3>3. QED BY <3>1, <3>2, RecordTurn
  <2>4. CASE TerminateReturns(s)
    <3> DEFINE sl == [slot[s] EXCEPT !.state = "closed", !.listening = FALSE, !.closing = "done"]
    <3>1. Commit(s, NotifyPendingDrained([Here(s) EXCEPT !.slot = sl])) BY <2>4 DEF TerminateReturns
    <3>2. sl \in SlotRecord /\ sl.pending = slot[s].pending /\ sl.activeLease = slot[s].activeLease
      BY <2>1 DEF SlotRecord
    <3> HIDE DEF sl
    <3>3. QED BY <3>1, <3>2, SlotEndTurn
  <2>5. QED BY <1>2, <2>2, <2>3, <2>4 DEF CloseStep
<1>3. QED BY <1>1, <1>2

\* Every step of the pool starts root calls in their turn.
LEMMA NextTurn ==
  ASSUME IInv, OwedInv, [Next]_vars
  PROVE  TurnStep
<1>1. CASE UNCHANGED vars BY <1>1, SameOwnersTurn DEF vars, SameOwners
<1>2. ASSUME NEW t \in Tasks, LeaseStep(t) PROVE TurnStep
  <2>1. CASE FinishRelease(t) BY <2>1, FinishReleaseTurn
  <2>2. CASE slot' = slot BY <2>2, SameOwnersTurn DEF SameOwners
  <2>3. QED BY <1>2, <2>1, <2>2 DEF LeaseStep, StartCallback, AbandonLease, CallbackSettles
<1>3. ASSUME NEW t \in Tasks, Abort(t) PROVE TurnStep
  <2>1. CASE AbortQueued(t) BY <2>1, AbortQueuedTurn
  <2>2. CASE slot' = slot BY <2>2, SameOwnersTurn DEF SameOwners
  <2>3. QED BY <1>3, <2>1, <2>2 DEF Abort, AbortCallback, AbortSignalOnly
<1>4. CASE Next
  <2>1. CASE \E t \in Tasks : Admission(t) \/ LeaseStep(t) \/ Abort(t) \/ CloseCall(t)
    BY <1>2, <1>3, <2>1, AdmissionTurn, CloseTurn
  <2>2. CASE \E t \in Tasks, i \in 1 .. MaxCalls : CallStep(t, i) BY <2>2, CallStepTurn
  <2>3. CASE \E s \in Slots : WorkerStep(s) \/ CloseStep(s) BY <2>3, WorkerStepTurn, CloseTurn
  <2>4. CASE Finished BY <1>1, <2>4 DEF Finished
  <2>5. QED BY <1>4, <2>1, <2>2, <2>3, <2>4 DEF Next
<1>5. QED BY <1>1, <1>4

\* The calls of a slot start in the order in which they came, whichever handler
\* drains the queue; a call is passed over only when it ends then and there, aborted
\* or impossible to send.
THEOREM RootCallsKeepOrder == Spec => RootCallsInOrder
<1>1. ASSUME IInv, OwedInv, [Next]_vars PROVE TurnStep BY <1>1, NextTurn
<1>2. QED BY <1>1, OwedInvariance, PTL DEF Spec, RootCallsInOrder, TurnStep
=============================================================================
