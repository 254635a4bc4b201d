--------------------------- MODULE EnginePoolProofs ---------------------------
(***************************************************************************)
(* Proofs about EnginePool, for any number of slots, calls and proxy calls, *)
(* any queue capacity and any set of failing workers, sends and signals.    *)
(* Every handler is a composition of helpers on the record h, so each       *)
(* helper has a lemma saying what it preserves, and each action cites the   *)
(* lemmas of the helpers it is made of.                                     *)
(***************************************************************************)
EXTENDS EnginePool, TLAPS, WellFoundedInduction, SequenceTheorems

\* What the helpers take and return.
HState ==
  [slot : SlotRecord, phase : [Tasks -> Phases], lease : [Tasks -> LeaseRecord],
   result : [Requests -> Verdicts \cup {"none", "pending"}], untracked : SUBSET Calls]

-----------------------------------------------------------------------------
\* A nonempty set of naturals has a least element.
LEMMA NatMin ==
  ASSUME NEW I, I \subseteq Nat, I # {}
  PROVE  \E i \in I : \A j \in I : i <= j
<1> DEFINE R == {ss \in Nat \X Nat : ss[1] < ss[2]}
<1>1. IsWellFoundedOn(R, Nat) BY NatLessThanWellFounded, Zenon DEF OpToRel
<1> HIDE DEF R
<1>2. PICK i \in I : \A j \in I : ~(<<j, i>> \in R) BY <1>1, WFMin, Zenon
<1>3. \A j \in I : ~(j < i) BY <1>2 DEF R
<1>4. QED BY <1>3

\* FirstOf returns a member of I, or the index behind the end of the queue.
LEMMA FirstOfIndex ==
  ASSUME NEW S, NEW q \in Seq(S), NEW I \in SUBSET (1 .. Len(q))
  PROVE  /\ FirstOf(q, I) \in 1 .. Len(q) + 1
         /\ FirstOf(q, I) <= Len(q) => FirstOf(q, I) \in I
<1>0. Len(q) \in Nat OBVIOUS
<1>1. CASE I = {} BY <1>0, <1>1 DEF FirstOf
<1>2. CASE I # {}
  <2>0. I \subseteq Nat BY <1>0
  <2>1. \E i \in I : \A j \in I : i <= j BY <1>2, <2>0, NatMin, Zenon
  <2>2. FirstOf(q, I) \in I BY <1>2, <2>1, Zenon DEF FirstOf
  <2>3. FirstOf(q, I) \in 1 .. Len(q) BY <2>2
  <2>4. QED BY <1>0, <2>2, <2>3
<1>3. QED BY <1>1, <1>2

\* The part of a queue behind index k is a queue.
LEMMA TailOfQueue ==
  ASSUME NEW S, NEW q \in Seq(S), NEW k \in 1 .. Len(q) + 1
  PROVE  SubSeq(q, k + 1, Len(q)) \in Seq(S)
<1>0. Len(q) \in Nat OBVIOUS
<1>1. \A i \in k + 1 .. Len(q) : q[i] \in S BY <1>0, ElementOfSeq
<1>2. QED BY <1>0, <1>1, SubSeqProperties

-----------------------------------------------------------------------------
(* The helpers return well-typed records.                                   *)

\* Settling promises returns a well-typed record.
LEMMA SettleType ==
  ASSUME NEW h \in HState, NEW R, NEW v \in Verdicts \cup {"none", "pending"}
  PROVE  Settle(h, R, v) \in HState
<1> DEFINE M == Verdicts \cup {"none", "pending"}
           rs == [r \in Requests |-> IF r \in R THEN v ELSE h.result[r]]
           ph == [t \in Tasks |-> IF Root(t) \in R THEN "done" ELSE h.phase[t]]
           un == h.untracked \cup (R \cap Calls)
<1> HIDE DEF M
<1>1. /\ h.result \in [Requests -> M] /\ h.phase \in [Tasks -> Phases]
      /\ h.untracked \in SUBSET Calls /\ v \in M
  BY DEF HState, M
<1>2. rs \in [Requests -> M] BY <1>1
<1>3. ph \in [Tasks -> Phases] BY <1>1 DEF Phases
<1>4. un \in SUBSET Calls BY <1>1
<1>5. Settle(h, R, v) = [h EXCEPT !.result = rs, !.phase = ph, !.untracked = un] BY DEF Settle
<1> HIDE DEF rs, ph, un
<1>6. QED BY <1>2, <1>3, <1>4, <1>5 DEF HState, M

\* markLeaseReleased() returns a well-typed record.
LEMMA MarkReleasedType ==
  ASSUME NEW h \in HState, NEW T
  PROVE  MarkReleased(h, T) \in HState
<1> DEFINE l == [t \in Tasks |->
     IF t \in T THEN [h.lease[t] EXCEPT !.active = FALSE, !.released = TRUE]
                ELSE h.lease[t]]
<1>1. h.lease \in [Tasks -> LeaseRecord] BY DEF HState
<1>2. l \in [Tasks -> LeaseRecord]
  <2>1. ASSUME NEW t \in Tasks PROVE l[t] \in LeaseRecord
    <3>1. h.lease[t] \in LeaseRecord BY <1>1
    <3>2. QED BY <3>1 DEF LeaseRecord
  <2>2. l = [t \in Tasks |-> l[t]] BY Zenon
  <2> HIDE DEF l
  <2>3. QED BY <2>1, <2>2
<1>3. MarkReleased(h, T) = [h EXCEPT !.lease = l] BY DEF MarkReleased
<1> HIDE DEF l
<1>4. QED BY <1>2, <1>3 DEF HState

\* rejectQueuedWork() returns a well-typed record.
LEMMA RejectQueuedType ==
  ASSUME NEW h \in HState, NEW T, NEW v \in Verdicts
  PROVE  RejectQueued(h, T, v) \in HState
BY SettleType, MarkReleasedType DEF RejectQueued

\* notifyPendingDrained() returns a well-typed record.
LEMMA NotifyType ==
  ASSUME NEW h \in HState
  PROVE  NotifyPendingDrained(h) \in HState
BY DEF NotifyPendingDrained, HState, SlotRecord

\* dispatchRequest() returns a well-typed record.
LEMMA DispatchType ==
  ASSUME NEW h \in HState, NEW s, NEW r \in Requests
  PROVE  Dispatch(s, h, r) \in HState
<1> DEFINE posted == IF worker[s] = "up" THEN h.slot.posted \cup {r} ELSE h.slot.posted
<1>1. h.slot \in SlotRecord BY DEF HState
<1>2. /\ h.slot.pending \cup {r} \in SUBSET Requests
      /\ h.slot.inflight + 1 \in Int
      /\ posted \in SUBSET Requests
  BY <1>1 DEF SlotRecord
<1> DEFINE sl == [h.slot EXCEPT !.pending = h.slot.pending \cup {r},
                                !.inflight = h.slot.inflight + 1,
                                !.posted = posted]
<1>3. Dispatch(s, h, r) = [h EXCEPT !.slot = sl] BY DEF Dispatch
<1> HIDE DEF posted
<1>4. sl \in SlotRecord BY <1>1, <1>2 DEF SlotRecord
<1> HIDE DEF sl
<1>5. QED BY <1>3, <1>4 DEF HState

\* A rolled-back dispatchRequest() returns a well-typed record.
LEMMA SendFailedType ==
  ASSUME NEW h \in HState, NEW R
  PROVE  SendFailed(h, R) \in HState
<1>1. "sendError" \in Verdicts BY DEF Verdicts
<1>2. QED BY <1>1, SettleType, NotifyType DEF SendFailed

\* Admitting a lease returns a well-typed record.
LEMMA AdmitType ==
  ASSUME NEW h \in HState, NEW t \in Tasks
  PROVE  Admit(h, t) \in HState
<1>1. /\ h.slot \in SlotRecord
      /\ h.lease \in [Tasks -> LeaseRecord]
      /\ h.phase \in [Tasks -> Phases]
  BY DEF HState
<1>2. [h.slot EXCEPT !.activeLease = t] \in SlotRecord BY <1>1 DEF SlotRecord
<1>3. [h.lease[t] EXCEPT !.active = TRUE] \in LeaseRecord BY <1>1 DEF LeaseRecord
<1>4. [h.lease EXCEPT ![t] = [h.lease[t] EXCEPT !.active = TRUE]] \in [Tasks -> LeaseRecord]
  BY <1>1, <1>3
<1>5. [h.phase EXCEPT ![t] = "admitted"] \in [Tasks -> Phases] BY <1>1 DEF Phases
<1>6. QED BY <1>2, <1>4, <1>5 DEF Admit, HState

\* drainQueue() under a lease returns a well-typed record.
LEMMA DrainOwnerType ==
  ASSUME NEW h \in HState, NEW s, h.slot.activeLease \in Tasks
  PROVE  DrainOwner(s, h) \in HState
<1> DEFINE t == h.slot.activeLease
           q == h.lease[t].queue
           k == FirstOf(q, {i \in 1 .. Len(q) : q[i] \notin Unsendable})
           skipped == {q[i] : i \in 1 .. k - 1}
           tail == [h.lease[t] EXCEPT !.queue = SubSeq(q, k + 1, Len(q))]
           rest == [SendFailed(h, skipped) EXCEPT !.lease = [h.lease EXCEPT ![t] = tail]]
<1>1. h.lease \in [Tasks -> LeaseRecord] /\ h.lease[t] \in LeaseRecord BY DEF HState
<1>2. q \in Seq(Calls) BY <1>1 DEF LeaseRecord
<1>3. k \in 1 .. Len(q) + 1 BY <1>2, FirstOfIndex
<1>4. SubSeq(q, k + 1, Len(q)) \in Seq(Calls)
  <2> HIDE DEF q, k
  <2> QED BY <1>2, <1>3, TailOfQueue
<1>5. tail \in LeaseRecord
  <2> HIDE DEF q, k
  <2> QED BY <1>1, <1>4 DEF LeaseRecord
<1>6. SendFailed(h, skipped) \in HState BY SendFailedType
<1>7. rest \in HState
  <2> DEFINE g == SendFailed(h, skipped)
             l == [h.lease EXCEPT ![t] = tail]
  <2>1. l \in [Tasks -> LeaseRecord]
    <3> HIDE DEF tail
    <3> QED BY <1>1, <1>5
  <2>2. g \in HState BY <1>6
  <2> HIDE DEF g, l
  <2>3. [g EXCEPT !.lease = l] \in HState BY <2>1, <2>2 DEF HState
  <2>4. QED BY <2>3 DEF g, l
<1>8. k <= Len(q) => q[k] \in Requests
  <2> HIDE DEF q, k
  <2>1. Calls \subseteq Requests BY PoolAssumption DEF Calls, Requests
  <2> QED BY <1>2, <1>3, <2>1, ElementOfSeq
<1>9. DrainOwner(s, h) = IF k > Len(q) THEN rest ELSE Dispatch(s, rest, q[k])
  BY DEF DrainOwner
<1>10. Len(q) \in Nat /\ k \in Nat
  <2> HIDE DEF q, k
  <2> QED BY <1>2, <1>3
<1> HIDE DEF q, k, rest
<1>11. QED BY <1>7, <1>8, <1>9, <1>10, DispatchType

\* drainQueue() without a lease returns a well-typed record.
LEMMA DrainRootType ==
  ASSUME NEW h \in HState, NEW s
  PROVE  DrainRoot(s, h) \in HState
<1> DEFINE q == h.slot.queue
           k == FirstOf(q, {i \in 1 .. Len(q) :
                  ~aborted[q[i]] /\ (Kind[q[i]] = "do" \/ Root(q[i]) \notin Unsendable)})
           front == {q[i] : i \in 1 .. k - 1}
           late == {t \in front : aborted[t]}
           tail == [h EXCEPT !.slot = [h.slot EXCEPT !.queue = SubSeq(q, k + 1, Len(q))]]
           rest == SendFailed(RejectQueued(tail, late, "aborted"),
                              {Root(t) : t \in front \ late})
<1>1. h.slot \in SlotRecord BY DEF HState
<1>2. q \in Seq(Tasks) BY <1>1 DEF SlotRecord
<1>3. k \in 1 .. Len(q) + 1 BY <1>2, FirstOfIndex
<1>4. SubSeq(q, k + 1, Len(q)) \in Seq(Tasks)
  <2> HIDE DEF q, k
  <2> QED BY <1>2, <1>3, TailOfQueue
<1>5. tail \in HState
  <2> HIDE DEF q, k
  <2>1. [h.slot EXCEPT !.queue = SubSeq(q, k + 1, Len(q))] \in SlotRecord
    BY <1>1, <1>4 DEF SlotRecord
  <2>2. QED BY <2>1 DEF HState
<1>6. rest \in HState
  <2> HIDE DEF tail
  <2>1. "aborted" \in Verdicts BY DEF Verdicts
  <2>2. QED BY <1>5, <2>1, RejectQueuedType, SendFailedType
<1>7. k <= Len(q) => q[k] \in Tasks /\ Root(q[k]) \in Requests
  <2> HIDE DEF q, k
  <2>1. k <= Len(q) => q[k] \in Tasks BY <1>2, <1>3, ElementOfSeq
  <2>2. \A t \in Tasks : Root(t) \in Requests BY PoolAssumption DEF Root, Requests
  <2>3. QED BY <2>1, <2>2
<1>8. DrainRoot(s, h) = IF k > Len(q) THEN rest
                        ELSE IF Kind[q[k]] = "do" THEN Admit(rest, q[k])
                        ELSE Dispatch(s, rest, Root(q[k]))
  BY DEF DrainRoot
<1>9. Len(q) \in Nat /\ k \in Nat
  <2> HIDE DEF q, k
  <2> QED BY <1>2, <1>3
<1> HIDE DEF q, k, rest
<1>10. QED BY <1>6, <1>7, <1>8, <1>9, AdmitType, DispatchType

\* drainQueue() returns a well-typed record.
LEMMA DrainQueueType ==
  ASSUME NEW h \in HState, NEW s
  PROVE  DrainQueue(s, h) \in HState
<1>1. h.slot.activeLease # None => h.slot.activeLease \in Tasks
  BY DEF HState, SlotRecord
<1>2. QED BY <1>1, DrainOwnerType, DrainRootType DEF DrainQueue

\* dispatchRequest() with its drain returns a well-typed record.
LEMMA DispatchRequestType ==
  ASSUME NEW h \in HState, NEW s, NEW r \in Requests
  PROVE  DispatchRequest(s, h, r) \in HState
BY DrainQueueType, SendFailedType, DispatchType DEF DispatchRequest

\* Accepting a root call returns a well-typed record.
LEMMA AcceptedType ==
  ASSUME NEW h \in HState, NEW t \in Tasks
  PROVE  Accepted(h, t) \in HState
<1>1. /\ h.phase \in [Tasks -> Phases]
      /\ h.result \in [Requests -> Verdicts \cup {"none", "pending"}]
  BY DEF HState
<1>2. [h.phase EXCEPT ![t] = "waiting"] \in [Tasks -> Phases] BY <1>1 DEF Phases
<1>3. [h.result EXCEPT ![Root(t)] = "pending"] \in [Requests -> Verdicts \cup {"none", "pending"}]
  BY <1>1
<1>4. QED BY <1>2, <1>3 DEF Accepted, HState

\* Accepting a proxy call returns a well-typed record.
LEMMA AcceptedCallType ==
  ASSUME NEW h \in HState, NEW t \in Tasks, NEW i
  PROVE  AcceptedCall(h, t, i) \in HState
<1> DEFINE l == [h.lease[t] EXCEPT !.pendingCalls = h.lease[t].pendingCalls + 1]
<1>1. /\ h.lease \in [Tasks -> LeaseRecord]
      /\ h.result \in [Requests -> Verdicts \cup {"none", "pending"}]
  BY DEF HState
<1>2. l \in LeaseRecord
  <2>1. h.lease[t] \in LeaseRecord BY <1>1
  <2>2. h.lease[t].pendingCalls + 1 \in Int BY <2>1 DEF LeaseRecord
  <2>3. QED BY <2>1, <2>2 DEF LeaseRecord
<1>3. [h.lease EXCEPT ![t] = l] \in [Tasks -> LeaseRecord]
  <2> HIDE DEF l
  <2> QED BY <1>1, <1>2
<1>4. [h.result EXCEPT ![<<t, i>>] = "pending"] \in [Requests -> Verdicts \cup {"none", "pending"}]
  BY <1>1
<1>5. QED
  <2>1. AcceptedCall(h, t, i) = [h EXCEPT !.result = [h.result EXCEPT ![<<t, i>>] = "pending"],
                                          !.lease = [h.lease EXCEPT ![t] = l]]
    BY DEF AcceptedCall
  <2> HIDE DEF l
  <2>2. QED BY <1>3, <1>4, <2>1 DEF HState

\* What failSlot() makes of the slot, before it rejects the work it owned.
LEMMA DownType ==
  ASSUME TypeOK, NEW s \in Slots
  PROVE  LET sl == slot[s]
             t == sl.activeLease
             dead == [sl EXCEPT !.state = "failed", !.listening = FALSE,
                                !.pending = {}, !.inflight = 0, !.queue = <<>>]
             ls == IF t = None THEN lease
                   ELSE [lease EXCEPT ![t] = [lease[t] EXCEPT !.queue = <<>>]]
         IN [Here(s) EXCEPT !.slot = dead, !.lease = ls] \in HState
<1> DEFINE sl == slot[s]
           t == sl.activeLease
           dead == [sl EXCEPT !.state = "failed", !.listening = FALSE,
                              !.pending = {}, !.inflight = 0, !.queue = <<>>]
           ls == IF t = None THEN lease
                 ELSE [lease EXCEPT ![t] = [lease[t] EXCEPT !.queue = <<>>]]
           down == [Here(s) EXCEPT !.slot = dead, !.lease = ls]
<1>1. sl \in SlotRecord BY DEF TypeOK
<1>2. dead \in SlotRecord
  <2>1. <<>> \in Seq(Tasks) /\ {} \in SUBSET Requests /\ 0 \in Int OBVIOUS
  <2> HIDE DEF sl
  <2> QED BY <1>1, <2>1 DEF SlotRecord
<1>3. ls \in [Tasks -> LeaseRecord]
  <2>1. lease \in [Tasks -> LeaseRecord] BY DEF TypeOK
  <2>2. CASE t = None BY <2>1, <2>2
  <2>3. CASE t # None
    <3>1. t \in Tasks BY <1>1, <2>3 DEF SlotRecord
    <3> HIDE DEF t
    <3>2. [lease[t] EXCEPT !.queue = <<>>] \in LeaseRecord
      <4>1. lease[t] \in LeaseRecord /\ <<>> \in Seq(Calls) BY <2>1, <3>1
      <4>2. QED BY <4>1 DEF LeaseRecord
    <3>3. QED BY <2>1, <2>3, <3>1, <3>2
  <2>4. QED BY <2>2, <2>3
<1>4. down \in HState
  <2> HIDE DEF dead, ls
  <2>1. QED BY <1>2, <1>3 DEF TypeOK, Here, HState
<1>5. QED BY <1>4 DEF down, dead, ls, t, sl

\* failSlot() leaves a well-typed state.
LEMMA FailSlotType ==
  ASSUME TypeOK, NEW s \in Slots
  PROVE  FailSlot(s) \in HState
<1> DEFINE sl == slot[s]
           t == sl.activeLease
           owned == IF t = None THEN {} ELSE Elems(lease[t].queue)
           dead == [sl EXCEPT !.state = "failed", !.listening = FALSE,
                              !.pending = {}, !.inflight = 0, !.queue = <<>>]
           ls == IF t = None THEN lease
                 ELSE [lease EXCEPT ![t] = [lease[t] EXCEPT !.queue = <<>>]]
           down == [Here(s) EXCEPT !.slot = dead, !.lease = ls]
<1>1. down \in HState BY DownType
<1>2. FailSlot(s) = NotifyPendingDrained(
        Settle(RejectQueued(down, Elems(sl.queue), "terminal"), owned \cup sl.pending, "terminal"))
  BY DEF FailSlot
<1>3. "terminal" \in Verdicts BY DEF Verdicts
<1> HIDE DEF down, owned, sl
<1>4. QED BY <1>1, <1>2, <1>3, RejectQueuedType, SettleType, NotifyType

-----------------------------------------------------------------------------
(* Type correctness of the specification.                                   *)

\* The state a handler starts from is well typed.
LEMMA HereType ==
  ASSUME TypeOK, NEW s \in Slots
  PROVE  Here(s) \in HState
BY DEF TypeOK, Here, HState

\* A handler that commits a well-typed record keeps the tables well typed.
LEMMA CommitType ==
  ASSUME TypeOK, NEW s \in Slots, NEW h \in HState, Commit(s, h)
  PROVE  /\ slot' \in [Slots -> SlotRecord]
         /\ phase' \in [Tasks -> Phases]
         /\ lease' \in [Tasks -> LeaseRecord]
         /\ result' \in [Requests -> Verdicts \cup {"none", "pending"}]
         /\ untracked' \in SUBSET Calls
BY DEF TypeOK, HState, Commit

-----------------------------------------------------------------------------
(* What the helpers change.                                                 *)

\* The invariant of one slot and the calls, as the helpers see it; hm is the
\* table of homes the handler will commit.
HInv(s, h, hm) ==
  h \in HState /\ SlotInv(s, h.slot, h.phase, h.lease, hm) /\ TaskInv(h.phase, h.lease, hm)

\* Calls of other slots, and calls that do not wait, keep their phase and their
\* lease; the slot keeps its state and stays open or closing.
Frame(s, h, g, hm) ==
  /\ \A t \in Tasks : hm[t] # s \/ h.phase[t] # "waiting" =>
       g.phase[t] = h.phase[t] /\ g.lease[t].released = h.lease[t].released
  /\ g.slot.state = h.slot.state
  /\ g.slot.closing = "open" <=> h.slot.closing = "open"

\* Settling ends the public calls settled and leaves slots and leases alone.
LEMMA SettleFacts ==
  ASSUME NEW h \in HState, NEW R, NEW v
  PROVE  /\ Settle(h, R, v).slot = h.slot
         /\ Settle(h, R, v).lease = h.lease
         /\ \A t \in Tasks : Settle(h, R, v).phase[t] =
              IF Root(t) \in R THEN "done" ELSE h.phase[t]
BY DEF Settle, HState

\* markLeaseReleased() releases the leases of T and no other.
LEMMA MarkReleasedFacts ==
  ASSUME NEW h \in HState, NEW T
  PROVE  /\ MarkReleased(h, T).slot = h.slot
         /\ MarkReleased(h, T).phase = h.phase
         /\ \A t \in Tasks : t \notin T =>
              MarkReleased(h, T).lease[t].released = h.lease[t].released
         /\ \A t \in Tasks : t \in T => MarkReleased(h, T).lease[t].released
<1> DEFINE l == [t \in Tasks |->
     IF t \in T THEN [h.lease[t] EXCEPT !.active = FALSE, !.released = TRUE]
                ELSE h.lease[t]]
<1>1. MarkReleased(h, T) = [h EXCEPT !.lease = l] BY DEF MarkReleased
<1>2. h.lease \in [Tasks -> LeaseRecord] BY DEF HState
<1>3. \A t \in Tasks : t \notin T => l[t].released = h.lease[t].released OBVIOUS
<1>4. ASSUME NEW t \in Tasks, t \in T PROVE l[t].released
  <2>1. l[t] = [h.lease[t] EXCEPT !.active = FALSE, !.released = TRUE] BY <1>4
  <2> HIDE DEF l
  <2>2. l[t].released = TRUE BY <1>2, <2>1 DEF LeaseRecord
  <2>3. QED BY <2>2
<1> HIDE DEF l
<1>5. QED BY <1>1, <1>3, <1>4 DEF HState

\* rejectQueuedWork() ends the calls of T and touches no other lease.
LEMMA RejectQueuedFacts ==
  ASSUME NEW h \in HState, NEW T, NEW v
  PROVE  /\ RejectQueued(h, T, v).slot = h.slot
         /\ \A t \in Tasks : RejectQueued(h, T, v).phase[t] =
              IF t \in T THEN "done" ELSE h.phase[t]
         /\ \A t \in Tasks : t \notin T =>
              RejectQueued(h, T, v).lease[t].released = h.lease[t].released
<1> DEFINE D == {t \in T : Kind[t] = "do"}
           R == {Root(t) : t \in T}
           g == MarkReleased(h, D)
<1>1. RejectQueued(h, T, v) = Settle(g, R, v) BY DEF RejectQueued
<1>2. /\ \A t : Root(t) \in R <=> t \in T
      /\ \A t : t \in D => t \in T
  BY DEF Root
<1> HIDE DEF D, R
<1>3. g \in HState BY MarkReleasedType
<1>4. /\ g.slot = h.slot
      /\ g.phase = h.phase
      /\ \A t \in Tasks : t \notin D => g.lease[t].released = h.lease[t].released
  BY MarkReleasedFacts
<1> HIDE DEF g
<1>5. /\ Settle(g, R, v).slot = g.slot
      /\ Settle(g, R, v).lease = g.lease
      /\ \A t \in Tasks : Settle(g, R, v).phase[t] =
           IF Root(t) \in R THEN "done" ELSE g.phase[t]
  BY <1>3, SettleFacts
<1>6. QED BY <1>1, <1>2, <1>4, <1>5

\* Two slot records that differ at most in the close protocol's wake-up.
Woken(old, new) ==
  /\ new.state = old.state /\ new.pending = old.pending /\ new.inflight = old.inflight
  /\ new.queue = old.queue /\ new.activeLease = old.activeLease /\ new.awaits = old.awaits
  /\ new.posted = old.posted /\ new.listening = old.listening
  /\ \/ new.closing = old.closing
     \/ old.pending = {} /\ old.closing = "pending" /\ new.closing = "ready"

\* notifyPendingDrained() only wakes finishClose().
LEMMA NotifyFacts ==
  ASSUME NEW h \in HState
  PROVE  /\ Woken(h.slot, NotifyPendingDrained(h).slot)
         /\ NotifyPendingDrained(h).phase = h.phase
         /\ NotifyPendingDrained(h).lease = h.lease
BY DEF NotifyPendingDrained, HState, SlotRecord, Woken

\* A rolled-back send ends its calls and at most wakes finishClose().
LEMMA SendFailedFacts ==
  ASSUME NEW h \in HState, NEW R
  PROVE  /\ Woken(h.slot, SendFailed(h, R).slot)
         /\ SendFailed(h, R).lease = h.lease
         /\ \A t \in Tasks : SendFailed(h, R).phase[t] =
              IF Root(t) \in R THEN "done" ELSE h.phase[t]
<1>1. CASE R = {} BY <1>1 DEF SendFailed, Woken
<1>2. CASE R # {}
  <2> DEFINE g == Settle(h, R, "sendError")
  <2>1. g \in HState BY SettleType DEF Verdicts
  <2>2. SendFailed(h, R) = NotifyPendingDrained(g) BY <1>2 DEF SendFailed
  <2>3. /\ g.slot = h.slot
        /\ g.lease = h.lease
        /\ \A t \in Tasks : g.phase[t] = IF Root(t) \in R THEN "done" ELSE h.phase[t]
    BY SettleFacts
  <2> HIDE DEF g
  <2>4. QED BY <2>1, <2>2, <2>3, NotifyFacts
<1>3. QED BY <1>1, <1>2

\* dispatchRequest() registers one request and leaves queue and owner alone.
LEMMA DispatchFacts ==
  ASSUME NEW h \in HState, NEW s, NEW r
  PROVE  /\ Dispatch(s, h, r).phase = h.phase
         /\ Dispatch(s, h, r).lease = h.lease
         /\ Dispatch(s, h, r).slot.pending = h.slot.pending \cup {r}
         /\ Dispatch(s, h, r).slot.inflight = h.slot.inflight + 1
         /\ Dispatch(s, h, r).slot.queue = h.slot.queue
         /\ Dispatch(s, h, r).slot.activeLease = h.slot.activeLease
         /\ Dispatch(s, h, r).slot.state = h.slot.state
         /\ Dispatch(s, h, r).slot.closing = h.slot.closing
         /\ Dispatch(s, h, r).slot.awaits = h.slot.awaits
<1> DEFINE posted == IF worker[s] = "up" THEN h.slot.posted \cup {r} ELSE h.slot.posted
           sl == [h.slot EXCEPT !.pending = h.slot.pending \cup {r},
                                !.inflight = h.slot.inflight + 1,
                                !.posted = posted]
<1>1. Dispatch(s, h, r) = [h EXCEPT !.slot = sl] BY DEF Dispatch
<1>2. h.slot \in SlotRecord BY DEF HState
<1> HIDE DEF posted
<1>3. /\ sl.pending = h.slot.pending \cup {r} /\ sl.inflight = h.slot.inflight + 1
      /\ sl.queue = h.slot.queue /\ sl.activeLease = h.slot.activeLease
      /\ sl.state = h.slot.state /\ sl.closing = h.slot.closing /\ sl.awaits = h.slot.awaits
  BY <1>2 DEF SlotRecord
<1> HIDE DEF sl
<1>4. QED BY <1>1, <1>3 DEF HState

\* Admission gives the slot to the call and changes no other call.
LEMMA AdmitFacts ==
  ASSUME NEW h \in HState, NEW t \in Tasks
  PROVE  /\ Admit(h, t).slot.activeLease = t
         /\ Admit(h, t).slot.pending = h.slot.pending
         /\ Admit(h, t).slot.inflight = h.slot.inflight
         /\ Admit(h, t).slot.queue = h.slot.queue
         /\ Admit(h, t).slot.state = h.slot.state
         /\ Admit(h, t).slot.closing = h.slot.closing
         /\ Admit(h, t).phase[t] = "admitted"
         /\ \A u \in Tasks : u # t => Admit(h, t).phase[u] = h.phase[u]
         /\ \A u \in Tasks : Admit(h, t).lease[u].released = h.lease[u].released
<1> DEFINE l == [h.lease[t] EXCEPT !.active = TRUE]
           ls == [h.lease EXCEPT ![t] = l]
           sl == [h.slot EXCEPT !.activeLease = t]
<1>1. /\ h.slot \in SlotRecord
      /\ h.lease \in [Tasks -> LeaseRecord]
      /\ h.phase \in [Tasks -> Phases]
  BY DEF HState
<1>2. l.released = h.lease[t].released BY <1>1 DEF LeaseRecord
<1>3. \A u \in Tasks : ls[u].released = h.lease[u].released
  <2> HIDE DEF l
  <2> QED BY <1>1, <1>2
<1>4. /\ sl.activeLease = t /\ sl.pending = h.slot.pending /\ sl.inflight = h.slot.inflight
      /\ sl.queue = h.slot.queue /\ sl.state = h.slot.state /\ sl.closing = h.slot.closing
  BY <1>1 DEF SlotRecord
<1>5. Admit(h, t) = [h EXCEPT !.slot = sl, !.lease = ls,
                              !.phase = [h.phase EXCEPT ![t] = "admitted"]]
  BY DEF Admit
<1> HIDE DEF sl, ls
<1>6. QED BY <1>1, <1>3, <1>4, <1>5 DEF HState

-----------------------------------------------------------------------------
(* drainQueue() preserves the invariant of its slot.                        *)

\* The queue behind index k: its members, and that none of them was in front.
LEMMA QueueTail ==
  ASSUME NEW q \in Seq(Tasks), NEW k \in 1 .. Len(q) + 1,
         \A i, j \in 1 .. Len(q) : q[i] = q[j] => i = j
  PROVE  LET rest == SubSeq(q, k + 1, Len(q))
         IN /\ \A i \in 1 .. Len(rest) : k + i \in 1 .. Len(q) /\ rest[i] = q[k + i]
            /\ \A i, j \in 1 .. Len(rest) : rest[i] = rest[j] => i = j
            /\ \A i \in 1 .. Len(rest), j \in 1 .. Len(q) : j <= k => rest[i] # q[j]
            /\ k > Len(q) => rest = <<>>
<1> DEFINE rest == SubSeq(q, k + 1, Len(q))
<1>1. Len(q) \in Nat /\ k \in Int OBVIOUS
<1>2. \A i \in k + 1 .. Len(q) : q[i] \in Tasks BY <1>1, ElementOfSeq
<1>3. /\ Len(rest) = IF k + 1 <= Len(q) THEN Len(q) - (k + 1) + 1 ELSE 0
      /\ \A i \in 1 .. Len(q) - (k + 1) + 1 : rest[i] = q[(k + 1) + i - 1]
  BY <1>1, <1>2, SubSeqProperties
<1>4. k > Len(q) => rest = <<>> BY <1>1, SubSeqEmpty
<1> HIDE DEF rest
<1>5. \A i \in 1 .. Len(rest) : k + i \in 1 .. Len(q) /\ rest[i] = q[k + i]
  BY <1>1, <1>3
<1>6. /\ \A i, j \in 1 .. Len(rest) : rest[i] = rest[j] => i = j
      /\ \A i \in 1 .. Len(rest), j \in 1 .. Len(q) : j <= k => rest[i] # q[j]
  BY <1>1, <1>3, <1>5
<1>7. QED BY <1>4, <1>5, <1>6 DEF rest

\* drainQueue() without a lease preserves the invariant of its slot and the frame.
LEMMA DrainRootInv ==
  ASSUME NEW s, NEW hm, NEW h, HInv(s, h, hm),
         h.slot.state = "running", h.slot.inflight = 0, h.slot.activeLease = None
  PROVE  HInv(s, DrainRoot(s, h), hm) /\ Frame(s, h, DrainRoot(s, h), hm)
<1> DEFINE q == h.slot.queue
           k == FirstOf(q, {i \in 1 .. Len(q) :
                  ~aborted[q[i]] /\ (Kind[q[i]] = "do" \/ Root(q[i]) \notin Unsendable)})
           front == {q[i] : i \in 1 .. k - 1}
           late == {t \in front : aborted[t]}
           unsent == {Root(t) : t \in front \ late}
           behind == SubSeq(q, k + 1, Len(q))
           tail == [h EXCEPT !.slot = [h.slot EXCEPT !.queue = behind]]
           dropped == RejectQueued(tail, late, "aborted")
           rest == SendFailed(dropped, unsent)
<1>1. h \in HState /\ h.slot \in SlotRecord BY DEF HInv, HState
<1>2. /\ FlightInv(h.slot) /\ QueueInv(s, h.slot, h.phase, hm)
      /\ OwnerInv(s, h.slot, h.phase, h.lease, hm) /\ CloseInv(h.slot)
      /\ TaskInv(h.phase, h.lease, hm)
  BY DEF HInv, SlotInv
<1>3. q \in Seq(Tasks) /\ Len(q) \in Nat BY <1>1 DEF SlotRecord
<1>4. k \in 1 .. Len(q) + 1 BY <1>3, FirstOfIndex
<1>5. DrainRoot(s, h) = IF k > Len(q) THEN rest
                        ELSE IF Kind[q[k]] = "do" THEN Admit(rest, q[k])
                        ELSE Dispatch(s, rest, Root(q[k]))
  BY DEF DrainRoot
<1>6. \A t : t \in front <=> \E i \in 1 .. k - 1 : t = q[i] OBVIOUS
<1>7. \A t : Root(t) \in unsent <=> t \in front /\ t \notin late BY DEF Root
<1>8. late \subseteq front OBVIOUS
<1> HIDE DEF k, front, late, unsent
<1>9. /\ \A i \in 1 .. Len(behind) : k + i \in 1 .. Len(q) /\ behind[i] = q[k + i]
      /\ \A i, j \in 1 .. Len(behind) : behind[i] = behind[j] => i = j
      /\ \A i \in 1 .. Len(behind), j \in 1 .. Len(q) : j <= k => behind[i] # q[j]
      /\ k > Len(q) => behind = <<>>
  <2>1. \A i, j \in 1 .. Len(q) : q[i] = q[j] => i = j BY <1>2 DEF QueueInv
  <2> HIDE DEF q
  <2>2. QED BY <1>3, <1>4, <2>1, QueueTail
<1>10. behind \in Seq(Tasks)
  <2> HIDE DEF q
  <2> QED BY <1>3, <1>4, TailOfQueue
<1> HIDE DEF behind
<1>11. /\ tail \in HState
       /\ tail.slot = [h.slot EXCEPT !.queue = behind]
       /\ tail.phase = h.phase /\ tail.lease = h.lease
  <2>1. [h.slot EXCEPT !.queue = behind] \in SlotRecord BY <1>1, <1>10 DEF SlotRecord
  <2>2. QED BY <1>1, <2>1 DEF HState
<1> HIDE DEF tail
<1>12. /\ dropped \in HState
       /\ dropped.slot = tail.slot
       /\ \A t \in Tasks : dropped.phase[t] = IF t \in late THEN "done" ELSE h.phase[t]
       /\ \A t \in Tasks : t \notin late => dropped.lease[t].released = h.lease[t].released
  <2>1. "aborted" \in Verdicts BY DEF Verdicts
  <2>2. dropped \in HState BY <1>11, <2>1, RejectQueuedType
  <2>3. QED BY <1>11, <2>2, RejectQueuedFacts
<1> HIDE DEF dropped
<1>13. /\ rest \in HState
       /\ Woken(tail.slot, rest.slot)
       /\ \A t \in Tasks : rest.phase[t] = IF t \in front THEN "done" ELSE h.phase[t]
       /\ \A t \in Tasks : t \notin front => rest.lease[t].released = h.lease[t].released
  <2>1. rest \in HState BY <1>12, SendFailedType
  <2>2. /\ Woken(dropped.slot, rest.slot)
        /\ rest.lease = dropped.lease
        /\ \A t \in Tasks : rest.phase[t] = IF Root(t) \in unsent THEN "done" ELSE dropped.phase[t]
    BY <1>12, SendFailedFacts
  <2>3. QED BY <1>7, <1>8, <1>12, <2>1, <2>2
<1> HIDE DEF rest
<1>14. /\ rest.slot.pending = {} /\ rest.slot.inflight = 0 /\ rest.slot.activeLease = None
       /\ rest.slot.queue = behind /\ rest.slot.state = "running"
       /\ rest.slot.awaits = h.slot.awaits
       /\ h.slot.pending = {}
       /\ \/ rest.slot.closing = h.slot.closing
          \/ h.slot.closing = "pending" /\ rest.slot.closing = "ready"
  <2>1. h.slot.pending = {} BY <1>2 DEF FlightInv
  <2>2. /\ tail.slot.pending = {} /\ tail.slot.inflight = 0 /\ tail.slot.activeLease = None
        /\ tail.slot.queue = behind /\ tail.slot.state = "running"
        /\ tail.slot.awaits = h.slot.awaits /\ tail.slot.closing = h.slot.closing
    BY <1>1, <1>11, <2>1 DEF SlotRecord
  <2>3. QED BY <1>13, <2>1, <2>2 DEF Woken
<1>15. \A t \in front : t \in Tasks /\ hm[t] = s /\ h.phase[t] = "waiting"
  <2>1. \A i \in 1 .. Len(q) : q[i] \in Tasks /\ hm[q[i]] = s /\ h.phase[q[i]] = "waiting"
    BY <1>2, <1>3, ElementOfSeq DEF QueueInv
  <2> HIDE DEF q
  <2>2. QED BY <1>3, <1>4, <1>6, <2>1
<1>16. \A i \in 1 .. Len(behind) :
         /\ behind[i] \in Tasks /\ hm[behind[i]] = s /\ Kind[behind[i]] # "close"
         /\ h.phase[behind[i]] = "waiting" /\ behind[i] \notin front
  <2>1. \A i \in 1 .. Len(q) : /\ q[i] \in Tasks /\ hm[q[i]] = s
                              /\ Kind[q[i]] # "close" /\ h.phase[q[i]] = "waiting"
    BY <1>2, <1>3, ElementOfSeq DEF QueueInv
  <2> HIDE DEF q
  <2>2. SUFFICES ASSUME NEW i \in 1 .. Len(behind)
                 PROVE  /\ behind[i] \in Tasks /\ hm[behind[i]] = s /\ Kind[behind[i]] # "close"
                        /\ h.phase[behind[i]] = "waiting" /\ behind[i] \notin front
    OBVIOUS
  <2>3. k + i \in 1 .. Len(q) /\ behind[i] = q[k + i] BY <1>9
  <2>4. \A j \in 1 .. k - 1 : j \in 1 .. Len(q) /\ j <= k BY <1>3, <1>4
  <2>5. behind[i] \notin front BY <1>6, <1>9, <2>4
  <2>6. QED BY <2>1, <2>3, <2>5
<1>17. TaskInv(rest.phase, rest.lease, hm)
  BY <1>2, <1>13, <1>15 DEF TaskInv, LeasePhases
<1>18. Frame(s, h, rest, hm) BY <1>13, <1>14, <1>15 DEF Frame
<1>19. QueueInv(s, rest.slot, rest.phase, hm)
  BY <1>9, <1>13, <1>14, <1>16 DEF QueueInv
<1>20. ASSUME k <= Len(q)
       PROVE  /\ q[k] \in Tasks /\ q[k] \notin front /\ hm[q[k]] = s
              /\ Kind[q[k]] # "close" /\ h.phase[q[k]] = "waiting"
              /\ \A i \in 1 .. Len(behind) : behind[i] # q[k]
              /\ h.slot.closing = "open"
  <2>1. k \in 1 .. Len(q) BY <1>3, <1>4, <1>20
  <2>2. \A i \in 1 .. k - 1 : q[i] # q[k]
    <3>1. \A i, j \in 1 .. Len(q) : q[i] = q[j] => i = j BY <1>2 DEF QueueInv
    <3> HIDE DEF q
    <3>2. QED BY <1>3, <2>1, <3>1
  <2>3. q # <<>> BY <1>3, <2>1
  <2>4. h.slot.closing = "open" BY <1>2, <2>3 DEF CloseInv
  <2>5. /\ q[k] \in Tasks /\ hm[q[k]] = s
        /\ Kind[q[k]] # "close" /\ h.phase[q[k]] = "waiting"
    BY <1>2, <1>3, <2>1, ElementOfSeq DEF QueueInv
  <2> HIDE DEF q
  <2>6. q[k] \notin front BY <1>6, <2>2
  <2>7. \A i \in 1 .. Len(behind) : behind[i] # q[k]
    <3>1. k <= k BY <2>1
    <3>2. QED BY <1>9, <2>1, <3>1
  <2>8. QED BY <2>4, <2>5, <2>6, <2>7
<1>21. CASE k > Len(q)
  <2>1. CloseInv(rest.slot)
    BY <1>2, <1>9, <1>14, <1>21 DEF CloseInv
  <2>2. FlightInv(rest.slot) /\ OwnerInv(s, rest.slot, rest.phase, rest.lease, hm)
    BY <1>14 DEF FlightInv, OwnerInv
  <2>3. DrainRoot(s, h) = rest
    <3> HIDE DEF q
    <3> QED BY <1>5, <1>21
  <2>4. QED BY <1>13, <1>17, <1>18, <1>19, <2>1, <2>2, <2>3 DEF HInv, SlotInv
<1>22. CASE k <= Len(q) /\ Kind[q[k]] = "do"
  <2> DEFINE t == q[k]
             g == Admit(rest, t)
  <2>1. DrainRoot(s, h) = g
    <3> HIDE DEF q
    <3> QED BY <1>3, <1>4, <1>5, <1>22
  <2>2. /\ t \in Tasks /\ t \notin front /\ hm[t] = s /\ Kind[t] = "do"
        /\ h.phase[t] = "waiting" /\ h.slot.closing = "open"
        /\ \A i \in 1 .. Len(behind) : behind[i] # t
    BY <1>20, <1>22
  <2> HIDE DEF t
  <2>3. g \in HState BY <1>13, <2>2, AdmitType
  <2>4. /\ g.slot.activeLease = t /\ g.slot.pending = {} /\ g.slot.inflight = 0
        /\ g.slot.queue = behind /\ g.slot.state = "running" /\ g.slot.closing = "open"
        /\ g.phase[t] = "admitted"
        /\ \A u \in Tasks : u # t => g.phase[u] = rest.phase[u]
        /\ \A u \in Tasks : g.lease[u].released = rest.lease[u].released
    BY <1>13, <1>14, <2>2, AdmitFacts
  <2> HIDE DEF g
  <2>5. ~h.lease[t].released BY <1>2, <2>2 DEF TaskInv
  <2>6. ~g.lease[t].released BY <1>13, <2>2, <2>4, <2>5
  <2>7. FlightInv(g.slot) /\ CloseInv(g.slot) BY <2>4 DEF FlightInv, CloseInv
  <2>8. QueueInv(s, g.slot, g.phase, hm)
    BY <1>9, <1>13, <1>16, <2>2, <2>4 DEF QueueInv
  <2>9. OwnerInv(s, g.slot, g.phase, g.lease, hm)
    BY <2>2, <2>4, <2>6 DEF OwnerInv, LeasePhases
  <2>10. TaskInv(g.phase, g.lease, hm)
    <3>1. SUFFICES ASSUME NEW u \in Tasks
                   PROVE  /\ g.phase[u] \in LeasePhases => Kind[u] = "do"
                          /\ g.phase[u] \in {"idle", "waiting"} => ~g.lease[u].released
                          /\ g.phase[u] \notin {"idle", "done"} /\ Kind[u] # "close" => hm[u] \in Slots
      BY DEF TaskInv
    <3>2. CASE u = t BY <1>2, <2>2, <2>4, <3>2 DEF TaskInv
    <3>3. CASE u # t BY <1>17, <2>4, <3>3 DEF TaskInv
    <3>4. QED BY <3>2, <3>3
  <2>11. Frame(s, h, g, hm) BY <1>14, <1>18, <2>2, <2>4 DEF Frame
  <2>12. QED BY <2>1, <2>3, <2>7, <2>8, <2>9, <2>10, <2>11 DEF HInv, SlotInv
<1>23. CASE k <= Len(q) /\ Kind[q[k]] # "do"
  <2> DEFINE t == q[k]
             g == Dispatch(s, rest, Root(t))
  <2>1. DrainRoot(s, h) = g
    <3> HIDE DEF q
    <3> QED BY <1>3, <1>4, <1>5, <1>23
  <2>2. /\ t \in Tasks /\ t \notin front /\ hm[t] = s
        /\ h.phase[t] = "waiting" /\ h.slot.closing = "open"
        /\ \A i \in 1 .. Len(behind) : behind[i] # t
    BY <1>20, <1>23
  <2> HIDE DEF t
  <2>3. Root(t) \in Requests /\ \A u : Root(u) = Root(t) => u = t
    BY <2>2, PoolAssumption DEF Root, Requests
  <2>4. g \in HState BY <1>13, <2>3, DispatchType
  <2>5. /\ g.phase = rest.phase /\ g.lease = rest.lease
        /\ g.slot.pending = {Root(t)} /\ g.slot.inflight = 1
        /\ g.slot.queue = behind /\ g.slot.activeLease = None
        /\ g.slot.state = "running" /\ g.slot.closing = "open"
    BY <1>13, <1>14, <2>2, DispatchFacts
  <2> HIDE DEF g
  <2>6. FlightInv(g.slot) /\ CloseInv(g.slot) BY <2>5 DEF FlightInv, CloseInv
  <2>7. QueueInv(s, g.slot, g.phase, hm)
    BY <1>9, <1>13, <1>16, <2>2, <2>3, <2>5 DEF QueueInv
  <2>8. OwnerInv(s, g.slot, g.phase, g.lease, hm)
    BY <1>13, <2>2, <2>3, <2>5 DEF OwnerInv
  <2>9. TaskInv(g.phase, g.lease, hm) BY <1>17, <2>5
  <2>10. Frame(s, h, g, hm) BY <1>14, <1>18, <2>2, <2>5 DEF Frame
  <2>11. QED BY <2>1, <2>4, <2>6, <2>7, <2>8, <2>9, <2>10 DEF HInv, SlotInv
<1>24. QED
  <2> HIDE DEF q
  <2> QED BY <1>3, <1>4, <1>21, <1>22, <1>23

\* drainQueue() under a lease preserves the invariant of its slot and the frame.
LEMMA DrainOwnerInv ==
  ASSUME NEW s, NEW hm, NEW h, HInv(s, h, hm),
         h.slot.state = "running", h.slot.inflight = 0, h.slot.activeLease # None
  PROVE  HInv(s, DrainOwner(s, h), hm) /\ Frame(s, h, DrainOwner(s, h), hm)
<1> DEFINE t == h.slot.activeLease
           q == h.lease[t].queue
           k == FirstOf(q, {i \in 1 .. Len(q) : q[i] \notin Unsendable})
           skipped == {q[i] : i \in 1 .. k - 1}
           tail == [h.lease[t] EXCEPT !.queue = SubSeq(q, k + 1, Len(q))]
           ls == [h.lease EXCEPT ![t] = tail]
           sent == SendFailed(h, skipped)
           rest == [sent EXCEPT !.lease = ls]
           g == DrainOwner(s, h)
<1>1. h \in HState /\ h.slot \in SlotRecord /\ h.lease \in [Tasks -> LeaseRecord]
  BY DEF HInv, HState
<1>2. /\ FlightInv(h.slot) /\ QueueInv(s, h.slot, h.phase, hm)
      /\ OwnerInv(s, h.slot, h.phase, h.lease, hm) /\ CloseInv(h.slot)
      /\ TaskInv(h.phase, h.lease, hm)
  BY DEF HInv, SlotInv
<1>3. t \in Tasks BY <1>1 DEF SlotRecord
<1>4. q \in Seq(Calls) /\ Len(q) \in Nat BY <1>1, <1>3 DEF LeaseRecord
<1>5. k \in 1 .. Len(q) + 1 BY <1>4, FirstOfIndex
<1>6. g = IF k > Len(q) THEN rest ELSE Dispatch(s, rest, q[k]) BY DEF DrainOwner
<1>7. \A u, c : c \in Calls => Root(u) # c BY DEF Root, Calls
<1>8. \A i \in 1 .. Len(q) : q[i] \in Calls /\ q[i] \in Requests
  <2>1. Calls \subseteq Requests BY PoolAssumption DEF Calls, Requests
  <2> HIDE DEF q
  <2> QED BY <1>4, <2>1, ElementOfSeq
<1>9. \A u : Root(u) \notin skipped
  <2> HIDE DEF q, k
  <2> QED BY <1>4, <1>5, <1>7, <1>8
<1>10. \A u \in Tasks : ls[u].released = h.lease[u].released
  <2>1. tail.released = h.lease[t].released BY <1>1, <1>3 DEF LeaseRecord
  <2> HIDE DEF tail
  <2>2. QED BY <1>1, <2>1
<1>11. g \in HState BY <1>1, <1>3, DrainOwnerType
<1>12. sent \in HState BY <1>1, SendFailedType
<1>13. /\ Woken(h.slot, sent.slot)
       /\ \A u \in Tasks : sent.phase[u] = h.phase[u]
  <2> HIDE DEF skipped
  <2>1. /\ Woken(h.slot, sent.slot)
        /\ \A u \in Tasks : sent.phase[u] =
             IF Root(u) \in skipped THEN "done" ELSE h.phase[u]
    BY <1>1, SendFailedFacts
  <2> HIDE DEF sent
  <2>2. QED BY <1>9, <2>1
<1>14. h.slot.pending = {} BY <1>2 DEF FlightInv
<1>15. h.slot.closing \in {"open", "lease"} BY <1>2 DEF CloseInv
<1> HIDE DEF sent, ls
<1>16. /\ rest.phase = sent.phase /\ rest.lease = ls /\ rest.slot = sent.slot
  BY <1>12 DEF HState
<1>17. /\ rest.slot.pending = {} /\ rest.slot.inflight = 0
       /\ rest.slot.queue = h.slot.queue /\ rest.slot.activeLease = t
       /\ rest.slot.state = "running" /\ rest.slot.closing = h.slot.closing
       /\ rest.slot.awaits = h.slot.awaits
  BY <1>13, <1>14, <1>15, <1>16 DEF Woken
<1>18. /\ \A u \in Tasks : g.phase[u] = h.phase[u]
       /\ \A u \in Tasks : g.lease[u].released = h.lease[u].released
       /\ g.slot.queue = h.slot.queue /\ g.slot.activeLease = t
       /\ g.slot.state = "running" /\ g.slot.closing = h.slot.closing
       /\ g.slot.awaits = h.slot.awaits
       /\ \/ g.slot.pending = {} /\ g.slot.inflight = 0
          \/ \E c \in Calls : g.slot.pending = {c} /\ g.slot.inflight = 1
  <2>1. CASE k > Len(q)
    <3>1. g = rest BY <1>6, <2>1
    <3> HIDE DEF g, rest, t, q, k
    <3>2. QED BY <1>10, <1>13, <1>16, <1>17, <3>1
  <2>2. CASE k <= Len(q)
    <3>1. g = Dispatch(s, rest, q[k])
      <4> HIDE DEF q, k, rest, g
      <4> QED BY <1>4, <1>5, <1>6, <2>2
    <3>2. q[k] \in Calls
      <4> HIDE DEF q, k
      <4> QED BY <1>4, <1>5, <1>8, <2>2
    <3>3. rest \in HState
      <4>1. ls \in [Tasks -> LeaseRecord]
        <5>1. SubSeq(q, k + 1, Len(q)) \in Seq(Calls)
          <6> HIDE DEF q, k
          <6> QED BY <1>4, <1>5, TailOfQueue
        <5>2. tail \in LeaseRecord
          <6> HIDE DEF q, k
          <6> QED BY <1>1, <1>3, <5>1 DEF LeaseRecord
        <5> HIDE DEF tail
        <5>3. QED BY <1>1, <5>2 DEF ls
      <4>2. QED BY <1>12, <4>1 DEF HState
    <3> DEFINE c == q[k]
    <3> HIDE DEF g, rest, t, q, k
    <3>4. /\ g.phase = rest.phase /\ g.lease = rest.lease
          /\ g.slot.pending = {c} /\ g.slot.inflight = 1
          /\ g.slot.queue = rest.slot.queue /\ g.slot.activeLease = rest.slot.activeLease
          /\ g.slot.state = rest.slot.state /\ g.slot.closing = rest.slot.closing
          /\ g.slot.awaits = rest.slot.awaits
      BY <1>17, <3>1, <3>3, DispatchFacts
    <3>5. c \in Calls BY <3>2
    <3> HIDE DEF c
    <3>6. /\ \A u \in Tasks : g.phase[u] = h.phase[u]
          /\ \A u \in Tasks : g.lease[u].released = h.lease[u].released
      BY <1>10, <1>13, <1>16, <3>4
    <3>7. \E d \in Calls : g.slot.pending = {d} /\ g.slot.inflight = 1 BY <3>4, <3>5
    <3>8. QED BY <1>17, <3>4, <3>6, <3>7
  <2>3. k > Len(q) \/ k <= Len(q)
    <3> HIDE DEF k, q
    <3> QED BY <1>4, <1>5
  <2> HIDE DEF g, q, k
  <2>4. QED BY <2>1, <2>2, <2>3
<1> HIDE DEF g, q, k
<1>19. FlightInv(g.slot) BY <1>18 DEF FlightInv
<1>20. CloseInv(g.slot) BY <1>2, <1>15, <1>18 DEF CloseInv
<1>21. QueueInv(s, g.slot, g.phase, hm)
  <2>1. h.slot.queue \in Seq(Tasks) BY <1>1 DEF SlotRecord
  <2>2. \A i \in 1 .. Len(h.slot.queue) : h.slot.queue[i] \in Tasks BY <2>1, ElementOfSeq
  <2>3. \A u : Root(u) \notin g.slot.pending BY <1>7, <1>18
  <2>4. QED BY <1>2, <1>18, <2>2, <2>3 DEF QueueInv
<1>22. OwnerInv(s, g.slot, g.phase, g.lease, hm)
  <2>1. \A u : Root(u) \notin g.slot.pending BY <1>7, <1>18
  <2>2. QED BY <1>2, <1>3, <1>18, <2>1 DEF OwnerInv
<1>23. TaskInv(g.phase, g.lease, hm) BY <1>2, <1>18 DEF TaskInv
<1>24. Frame(s, h, g, hm) BY <1>18 DEF Frame
<1>25. QED BY <1>11, <1>19, <1>20, <1>21, <1>22, <1>23, <1>24 DEF HInv, SlotInv, g

\* drainQueue() on a slot that satisfies the invariant.
LEMMA DrainQueueInv ==
  ASSUME NEW s, NEW hm, NEW h, HInv(s, h, hm)
  PROVE  HInv(s, DrainQueue(s, h), hm) /\ Frame(s, h, DrainQueue(s, h), hm)
<1>1. CASE h.slot.state # "running" \/ h.slot.inflight # 0
  BY <1>1 DEF DrainQueue, Frame
<1>2. CASE h.slot.state = "running" /\ h.slot.inflight = 0
  BY <1>2, DrainOwnerInv, DrainRootInv DEF DrainQueue
<1>3. QED BY <1>1, <1>2

-----------------------------------------------------------------------------
(* From the invariant of one slot to the invariant of all.                  *)

\* The inductive invariant.  TypeOK alone is not inductive (a handler that runs on
\* home[t] needs a call past admission to have a slot), nor is OneInFlight (a queued
\* call must not be in flight as well); SlotsInv supplies both.
IInv == TypeOK /\ SlotsInv

\* A handler starts from a slot that satisfies the invariant.
LEMMA HereInv ==
  ASSUME IInv, NEW s \in Slots
  PROVE  HInv(s, Here(s), home)
<1>1. Here(s) \in HState BY HereType DEF IInv
<1>2. /\ Here(s).slot = slot[s] /\ Here(s).phase = phase /\ Here(s).lease = lease
  BY DEF Here
<1>3. QED BY <1>1, <1>2 DEF HInv, IInv, SlotsInv

\* A slot keeps its invariant when the calls it refers to keep their phase, their
\* home and their lease: a slot refers to calls that are not idle and live on it.
LEMMA OtherSlot ==
  ASSUME NEW s \in Slots, NEW sl \in SlotRecord, NEW ph, NEW ls, NEW hm,
         NEW ph2, NEW ls2, NEW hm2,
         SlotInv(s, sl, ph, ls, hm),
         \A t \in Tasks : ph[t] # "idle" /\ hm[t] = s =>
           ph2[t] = ph[t] /\ ls2[t].released = ls[t].released /\ hm2[t] = hm[t]
  PROVE  SlotInv(s, sl, ph2, ls2, hm2)
<1>1. FlightInv(sl) /\ QueueInv(s, sl, ph, hm) /\ OwnerInv(s, sl, ph, ls, hm) /\ CloseInv(sl)
  BY DEF SlotInv
<1>2. QueueInv(s, sl, ph2, hm2)
  <2>1. sl.queue \in Seq(Tasks) BY DEF SlotRecord
  <2>2. \A i \in 1 .. Len(sl.queue) : sl.queue[i] \in Tasks BY <2>1, ElementOfSeq
  <2>3. QED BY <1>1, <2>2 DEF QueueInv
<1>3. OwnerInv(s, sl, ph2, ls2, hm2)
  <2>1. sl.activeLease # None => sl.activeLease \in Tasks BY DEF SlotRecord
  <2>2. QED BY <1>1, <2>1 DEF OwnerInv, LeasePhases
<1>4. QED BY <1>1, <1>2, <1>3 DEF SlotInv

\* A handler of slot s that commits h.
LEMMA CommitInv ==
  ASSUME IInv, NEW s \in Slots, NEW h, HInv(s, h, home'), Commit(s, h),
         \A t \in Tasks : phase[t] # "idle" /\ home[t] # s =>
           /\ h.phase[t] = phase[t]
           /\ h.lease[t].released = lease[t].released
           /\ home'[t] = home[t],
         closed' = closed,
         h.slot.closing = "open" <=> slot[s].closing = "open",
         terminalError # None => terminalError' # None,
         h.slot.state = "failed" => terminalError' # None
  PROVE  SlotsInv'
<1>1. slot \in [Slots -> SlotRecord] /\ SlotsInv BY DEF IInv, TypeOK
<1>2. /\ slot' = [slot EXCEPT ![s] = h.slot] /\ phase' = h.phase /\ lease' = h.lease
  BY DEF Commit
<1>3. TaskInv(phase', lease', home') BY <1>2 DEF HInv
<1>4. ASSUME NEW r \in Slots
      PROVE  SlotInv(r, slot'[r], phase', lease', home')
  <2>1. CASE r = s
    <3>1. slot'[r] = h.slot BY <1>1, <1>2, <2>1
    <3>2. QED BY <1>2, <2>1, <3>1 DEF HInv
  <2>2. CASE r # s
    <3>1. slot'[r] = slot[r] /\ slot[r] \in SlotRecord BY <1>1, <1>2, <2>2
    <3>2. SlotInv(r, slot[r], phase, lease, home) BY <1>1 DEF SlotsInv
    <3>3. \A t \in Tasks : phase[t] # "idle" /\ home[t] = r =>
            phase'[t] = phase[t] /\ lease'[t].released = lease[t].released /\ home'[t] = home[t]
      BY <1>2, <2>2
    <3>4. SlotInv(r, slot[r], phase', lease', home') BY <3>1, <3>2, <3>3, OtherSlot
    <3>5. QED BY <3>1, <3>4
  <2>3. QED BY <2>1, <2>2
<1>5. ASSUME NEW r \in Slots
      PROVE  /\ slot'[r].closing = "open" <=> ~closed'
             /\ slot'[r].state = "failed" => terminalError' # None
  <2>1. slot'[r] = IF r = s THEN h.slot ELSE slot[r] BY <1>1, <1>2
  <2>2. /\ slot[r].closing = "open" <=> ~closed
        /\ slot[r].state = "failed" => terminalError # None
    BY <1>1 DEF SlotsInv
  <2>3. QED BY <2>1, <2>2
<1>6. QED BY <1>3, <1>4, <1>5 DEF SlotsInv

\* A call that is idle is not referred to by any slot.
LEMMA IdleFree ==
  ASSUME IInv, NEW t \in Tasks, phase[t] = "idle", NEW s \in Slots
  PROVE  /\ Root(t) \notin slot[s].pending
         /\ slot[s].activeLease # t
         /\ \A i \in 1 .. Len(slot[s].queue) : slot[s].queue[i] # t
<1>1. SlotInv(s, slot[s], phase, lease, home) BY DEF IInv, SlotsInv
<1>2. QED BY <1>1, PoolAssumption DEF SlotInv, QueueInv, OwnerInv, LeasePhases

\* A step that changes the phase of one call and leaves the slots alone.
LEMMA PhaseStepInv ==
  ASSUME IInv, NEW t \in Tasks, NEW p \in Phases,
         UNCHANGED <<slot, home, closed, terminalError>>,
         phase' = [phase EXCEPT ![t] = p],
         \A u \in Tasks : lease'[u].released = lease[u].released,
         \/ phase[t] \in LeasePhases /\ p \in LeasePhases
         \/ phase[t] = "idle" /\ p = "done"
         \/ phase[t] = "idle" /\ p = "waiting" /\ Kind[t] = "close"
         \/ p = "done" /\ \A s \in Slots : slot[s].closing = "done"
  PROVE  SlotsInv'
<1>1. /\ slot \in [Slots -> SlotRecord] /\ phase \in [Tasks -> Phases] /\ SlotsInv
  BY DEF IInv, TypeOK
<1>2. \A u \in Tasks : phase'[u] = IF u = t THEN p ELSE phase[u] BY <1>1
<1>3. TaskInv(phase', lease', home')
  BY <1>1, <1>2 DEF SlotsInv, TaskInv, LeasePhases
<1>4. ASSUME NEW s \in Slots
      PROVE  SlotInv(s, slot[s], phase', lease', home')
  <2>1. SlotInv(s, slot[s], phase, lease, home) /\ slot[s] \in SlotRecord BY <1>1 DEF SlotsInv
  <2>2. FlightInv(slot[s]) /\ CloseInv(slot[s]) BY <2>1 DEF SlotInv
  <2>3. \A i \in 1 .. Len(slot[s].queue) : slot[s].queue[i] \in Tasks
    <3>1. slot[s].queue \in Seq(Tasks) BY <2>1 DEF SlotRecord
    <3>2. QED BY <3>1, ElementOfSeq
  <2>4. \A i \in 1 .. Len(slot[s].queue) : slot[s].queue[i] # t
    <3>1. CASE phase[t] \in LeasePhases \cup {"idle"}
      BY <2>1, <3>1 DEF SlotInv, QueueInv, LeasePhases
    <3>2. CASE slot[s].closing = "done" BY <2>2, <3>2 DEF CloseInv
    <3>3. QED BY <3>1, <3>2
  <2>5. Root(t) \notin slot[s].pending
    <3>1. CASE phase[t] \in LeasePhases \cup {"idle"}
      BY <2>1, <3>1 DEF SlotInv, OwnerInv, LeasePhases
    <3>2. CASE slot[s].closing = "done" BY <2>2, <3>2 DEF CloseInv
    <3>3. QED BY <3>1, <3>2
  <2>6. slot[s].activeLease = t => p \in LeasePhases
    <3>1. CASE phase[t] = "idle"
      BY <2>1, <3>1, PoolAssumption DEF SlotInv, OwnerInv, LeasePhases
    <3>2. CASE slot[s].closing = "done" BY <2>2, <3>2, PoolAssumption DEF CloseInv
    <3>3. QED BY <3>1, <3>2
  <2>7. QueueInv(s, slot[s], phase', home')
    BY <1>2, <2>1, <2>3, <2>4 DEF SlotInv, QueueInv
  <2>8. OwnerInv(s, slot[s], phase', lease', home')
    <3>1. slot[s].activeLease # None => slot[s].activeLease \in Tasks BY <2>1 DEF SlotRecord
    <3>2. QED BY <1>2, <2>1, <2>5, <2>6, <3>1 DEF SlotInv, OwnerInv
  <2>9. QED BY <2>2, <2>7, <2>8 DEF SlotInv
<1>5. QED BY <1>1, <1>3, <1>4 DEF SlotsInv

-----------------------------------------------------------------------------
(* The actions.  First those that leave the slots alone.                    *)

\* lease.active = false keeps the lease typed and unreleased.
LEMMA LeaseDeactivated ==
  ASSUME TypeOK, NEW t \in Tasks, lease' = [lease EXCEPT ![t].active = FALSE]
  PROVE  /\ lease' \in [Tasks -> LeaseRecord]
         /\ \A u \in Tasks : lease'[u].released = lease[u].released
<1>1. lease \in [Tasks -> LeaseRecord] BY DEF TypeOK
<1> DEFINE l == [lease[t] EXCEPT !.active = FALSE]
<1>2. l \in LeaseRecord /\ l.released = lease[t].released BY <1>1 DEF LeaseRecord
<1>3. lease' = [lease EXCEPT ![t] = l] OBVIOUS
<1> HIDE DEF l
<1>4. QED BY <1>1, <1>2, <1>3

\* evaluate() or do() refused before pickSlot().
LEMMA RefuseRootInv ==
  ASSUME IInv, NEW t \in Tasks, RefuseRoot(t)
  PROVE  IInv'
<1>1. RootRefusal(t) \in Verdicts BY DEF RefuseRoot, RootRefusal, Verdicts
<1>2. phase[t] = "idle" BY DEF RefuseRoot, Callable
<1>3. SlotsInv'
  <2>1. "done" \in Phases BY DEF Phases
  <2>2. QED BY <1>2, <2>1, PhaseStepInv DEF RefuseRoot, poolVars
<1> HIDE DEF RootRefusal
<1>4. TypeOK' BY <1>1 DEF RefuseRoot, poolVars, TypeOK, IInv, Phases
<1>5. QED BY <1>3, <1>4 DEF IInv

\* do() starts its callback.
LEMMA StartCallbackInv ==
  ASSUME IInv, NEW t \in Tasks, StartCallback(t)
  PROVE  IInv'
<1>1. "callback" \in Phases /\ "callback" \in LeasePhases /\ phase[t] \in LeasePhases
  BY DEF Phases, LeasePhases, StartCallback
<1>2. SlotsInv' BY <1>1, PhaseStepInv DEF StartCallback, poolVars
<1>3. TypeOK' BY <1>1 DEF StartCallback, poolVars, TypeOK, IInv
<1>4. QED BY <1>2, <1>3 DEF IInv

\* do() gives up an admitted lease that was aborted.
LEMMA AbandonLeaseInv ==
  ASSUME IInv, NEW t \in Tasks, AbandonLease(t)
  PROVE  IInv'
<1>1. "abandoning" \in Phases /\ "abandoning" \in LeasePhases /\ phase[t] \in LeasePhases
  BY DEF Phases, LeasePhases, AbandonLease
<1>2. /\ lease' \in [Tasks -> LeaseRecord]
      /\ \A u \in Tasks : lease'[u].released = lease[u].released
  BY LeaseDeactivated DEF AbandonLease, IInv
<1>3. SlotsInv' BY <1>1, <1>2, PhaseStepInv DEF AbandonLease, poolVars
<1>4. TypeOK' BY <1>1, <1>2 DEF AbandonLease, poolVars, TypeOK, IInv
<1>5. QED BY <1>3, <1>4 DEF IInv

\* The callback settles and releaseLease() begins.
LEMMA CallbackSettlesInv ==
  ASSUME IInv, NEW t \in Tasks, CallbackSettles(t)
  PROVE  IInv'
<1>1. "releasing" \in Phases /\ "releasing" \in LeasePhases /\ phase[t] \in LeasePhases
  BY DEF Phases, LeasePhases, CallbackSettles
<1>2. /\ lease' \in [Tasks -> LeaseRecord]
      /\ \A u \in Tasks : lease'[u].released = lease[u].released
  BY LeaseDeactivated DEF CallbackSettles, IInv
<1>3. SlotsInv' BY <1>1, <1>2, PhaseStepInv DEF CallbackSettles, poolVars
<1>4. TypeOK' BY <1>1, <1>2 DEF CallbackSettles, poolVars, TypeOK, IInv
<1>5. QED BY <1>3, <1>4 DEF IInv

\* Steps that touch neither slots, phases, homes nor the release of a lease.
LEMMA QuietInv ==
  ASSUME IInv, UNCHANGED <<slot, phase, home, closed, terminalError>>,
         \A u \in Tasks : lease'[u].released = lease[u].released
  PROVE  SlotsInv'
<1>1. slot \in [Slots -> SlotRecord] /\ SlotsInv BY DEF IInv, TypeOK
<1>2. TaskInv(phase', lease', home') BY <1>1 DEF SlotsInv, TaskInv
<1>3. ASSUME NEW s \in Slots
      PROVE  SlotInv(s, slot[s], phase', lease', home')
  <2>1. SlotInv(s, slot[s], phase, lease, home) /\ slot[s] \in SlotRecord BY <1>1 DEF SlotsInv
  <2>2. QED BY <2>1, OtherSlot
<1>4. QED BY <1>1, <1>2, <1>3 DEF SlotsInv

\* The abort listener of a running do().
LEMMA AbortCallbackInv ==
  ASSUME IInv, NEW t \in Tasks, AbortCallback(t)
  PROVE  IInv'
<1>1. SlotsInv' BY QuietInv DEF AbortCallback, poolVars
<1>2. TypeOK' BY DEF AbortCallback, poolVars, TypeOK, IInv, Verdicts
<1>3. QED BY <1>1, <1>2 DEF IInv

\* An abort with no listener of the pool on it.
LEMMA AbortSignalOnlyInv ==
  ASSUME IInv, NEW t \in Tasks, AbortSignalOnly(t)
  PROVE  IInv'
<1>1. SlotsInv' BY QuietInv DEF AbortSignalOnly, poolVars
<1>2. TypeOK' BY DEF AbortSignalOnly, poolVars, TypeOK, IInv
<1>3. QED BY <1>1, <1>2 DEF IInv

\* A worker dies.
LEMMA CrashInv ==
  ASSUME IInv, NEW s \in Slots, Crash(s)
  PROVE  IInv'
<1>1. SlotsInv' BY QuietInv DEF Crash, poolVars
<1>2. TypeOK' BY DEF Crash, poolVars, TypeOK, IInv
<1>3. QED BY <1>1, <1>2 DEF IInv

\* settleLeaseCall() counts a settled proxy call.
LEMMA SettleLeaseCallInv ==
  ASSUME IInv, NEW t \in Tasks, NEW i \in 1 .. MaxCalls, SettleLeaseCall(t, i)
  PROVE  IInv'
<1> DEFINE l == [lease[t] EXCEPT !.pendingCalls = lease[t].pendingCalls - 1]
<1>1. lease \in [Tasks -> LeaseRecord] BY DEF IInv, TypeOK
<1>2. l \in LeaseRecord /\ l.released = lease[t].released
  <2>1. lease[t] \in LeaseRecord BY <1>1
  <2>2. lease[t].pendingCalls - 1 \in Int BY <2>1 DEF LeaseRecord
  <2>3. QED BY <2>1, <2>2 DEF LeaseRecord
<1>3. lease' = [lease EXCEPT ![t] = l] BY DEF SettleLeaseCall
<1> HIDE DEF l
<1>4. /\ lease' \in [Tasks -> LeaseRecord]
      /\ \A u \in Tasks : lease'[u].released = lease[u].released
  BY <1>1, <1>2, <1>3
<1>5. SlotsInv' BY <1>4, QuietInv DEF SettleLeaseCall, poolVars
<1>6. TypeOK' BY <1>4 DEF SettleLeaseCall, poolVars, TypeOK, IInv
<1>7. QED BY <1>5, <1>6 DEF IInv

\* A proxy call refused by withActiveLease() or sendOnLease().
LEMMA RefuseCallInv ==
  ASSUME IInv, NEW t \in Tasks, NEW i \in 1 .. MaxCalls, RefuseCall(t, i)
  PROVE  IInv'
<1>1. CallRefusal(t) \in Verdicts BY DEF RefuseCall, CallRefusal, Verdicts
<1>2. SlotsInv' BY QuietInv DEF RefuseCall, Invokes, poolVars
<1> HIDE DEF CallRefusal
<1>3. TypeOK' BY <1>1 DEF RefuseCall, Invokes, poolVars, TypeOK, IInv
<1>4. QED BY <1>2, <1>3 DEF IInv

\* close() refused inside a callback.
LEMMA RefuseCloseInv ==
  ASSUME IInv, NEW t \in Tasks, RefuseClose(t)
  PROVE  IInv'
<1>1. phase[t] = "idle" /\ "done" \in Phases BY DEF RefuseClose, Callable, Phases
<1>2. SlotsInv' BY <1>1, PhaseStepInv DEF RefuseClose, poolVars
<1>3. TypeOK' BY <1>1 DEF RefuseClose, poolVars, TypeOK, IInv, Verdicts
<1>4. QED BY <1>2, <1>3 DEF IInv

\* A later close() waits for the first.
LEMMA CloseAgainInv ==
  ASSUME IInv, NEW t \in Tasks, CloseAgain(t)
  PROVE  IInv'
<1>1. phase[t] = "idle" /\ "waiting" \in Phases BY DEF CloseAgain, Callable, Phases
<1>2. SlotsInv' BY <1>1, PhaseStepInv DEF CloseAgain, poolVars
<1>3. TypeOK' BY <1>1 DEF CloseAgain, poolVars, TypeOK, IInv
<1>4. QED BY <1>2, <1>3 DEF IInv

\* The shared close promise settles.
LEMMA FinishCloseInv ==
  ASSUME IInv, NEW t \in Tasks, FinishClose(t)
  PROVE  IInv'
<1>1. "done" \in Phases /\ \A s \in Slots : slot[s].closing = "done" BY DEF FinishClose, Phases
<1>2. SlotsInv' BY <1>1, PhaseStepInv DEF FinishClose, poolVars
<1>3. TypeOK' BY <1>1 DEF FinishClose, poolVars, TypeOK, IInv, Verdicts
<1>4. QED BY <1>2, <1>3 DEF IInv

-----------------------------------------------------------------------------
(* The admission of root calls.                                             *)

\* Slot records that own the same work and are at the same point of the close.
SameWork(old, new) ==
  /\ new.state = old.state /\ new.pending = old.pending /\ new.inflight = old.inflight
  /\ new.queue = old.queue /\ new.activeLease = old.activeLease
  /\ new.closing = old.closing /\ new.awaits = old.awaits

FreeIn(t, sl) ==
  /\ Root(t) \notin sl.pending
  /\ sl.activeLease # t
  /\ \A i \in 1 .. Len(sl.queue) : sl.queue[i] # t

\* Calls that the slot does not refer to may change.
LEMMA RephaseInv ==
  ASSUME NEW s, NEW hm, NEW h, HInv(s, h, hm), NEW g \in HState, NEW T,
         SameWork(h.slot, g.slot),
         \A u \in Tasks : u \notin T =>
           g.phase[u] = h.phase[u] /\ g.lease[u].released = h.lease[u].released,
         \A u \in T : FreeIn(u, h.slot),
         TaskInv(g.phase, g.lease, hm)
  PROVE  HInv(s, g, hm)
<1>1. /\ FlightInv(h.slot) /\ QueueInv(s, h.slot, h.phase, hm)
      /\ OwnerInv(s, h.slot, h.phase, h.lease, hm) /\ CloseInv(h.slot)
      /\ h.slot \in SlotRecord
  BY DEF HInv, SlotInv, HState
<1>2. FlightInv(g.slot) /\ CloseInv(g.slot) BY <1>1 DEF SameWork, FlightInv, CloseInv
<1>3. \A i \in 1 .. Len(h.slot.queue) : h.slot.queue[i] \in Tasks /\ h.slot.queue[i] \notin T
  <2>1. h.slot.queue \in Seq(Tasks) BY <1>1 DEF SlotRecord
  <2>2. QED BY <2>1, ElementOfSeq DEF FreeIn
<1>4. QueueInv(s, g.slot, g.phase, hm) BY <1>1, <1>3 DEF SameWork, QueueInv
<1>5. \A u \in Tasks : Root(u) \in h.slot.pending => u \notin T BY DEF FreeIn
<1>6. h.slot.activeLease # None => h.slot.activeLease \in Tasks /\ h.slot.activeLease \notin T
  BY <1>1 DEF SlotRecord, FreeIn
<1>7. OwnerInv(s, g.slot, g.phase, g.lease, hm) BY <1>1, <1>5, <1>6 DEF SameWork, OwnerInv
<1>8. QED BY <1>2, <1>4, <1>7 DEF HInv, SlotInv

\* What PickSlot() says of the slot it picks.
LEMMA PickSlotFacts ==
  ASSUME IInv, NEW t \in Tasks, PickSlot(t)
  PROVE  /\ roundRobin \in Slots
         /\ roundRobin' \in Slots
         /\ home' = [home EXCEPT ![t] = roundRobin]
         /\ home' \in [Tasks -> Slots \cup {None}]
         /\ home'[t] = roundRobin
         /\ \A u \in Tasks : phase[u] # "idle" => home'[u] = home[u]
         /\ phase[t] = "idle" /\ Kind[t] # "close"
         /\ UNCHANGED <<worker, closed, closeFailed, terminalError, aborted>>
         /\ slot[roundRobin].state = "running"
         /\ slot[roundRobin].closing = "open"
         /\ slot[roundRobin] \in SlotRecord
         /\ ~lease[t].released
         /\ FreeIn(t, slot[roundRobin])
<1>1. roundRobin \in Slots /\ home \in [Tasks -> Slots \cup {None}] /\ slot \in [Slots -> SlotRecord]
  BY DEF IInv, TypeOK
<1>2. /\ home' = [home EXCEPT ![t] = roundRobin]
      /\ phase[t] = "idle" /\ Kind[t] # "close"
      /\ UNCHANGED <<worker, closed, closeFailed, terminalError, aborted>>
      /\ roundRobin' = (roundRobin + 1) % NSlots
  BY DEF PickSlot, Callable
<1>3. roundRobin' \in Slots
  <2>1. NSlots \in Nat /\ NSlots > 0 /\ roundRobin + 1 \in Nat BY <1>1, PoolAssumption DEF Slots
  <2>2. QED BY <1>2, <2>1 DEF Slots
<1>4. closed = FALSE /\ terminalError = None
  <2>1. closed \in BOOLEAN BY DEF IInv, TypeOK
  <2>2. RootRefusal(t) = "none" BY DEF PickSlot
  <2>3. QED BY <2>1, <2>2 DEF RootRefusal, Reenters
<1>5. SlotInv(roundRobin, slot[roundRobin], phase, lease, home) BY <1>1 DEF IInv, SlotsInv
<1>6. slot[roundRobin].closing = "open" /\ slot[roundRobin].state # "failed"
  BY <1>1, <1>4 DEF IInv, SlotsInv
<1>7. slot[roundRobin].state = "running"
  BY <1>1, <1>5, <1>6 DEF SlotInv, CloseInv, SlotRecord
<1>8. ~lease[t].released BY <1>2 DEF IInv, SlotsInv, TaskInv
<1>9. FreeIn(t, slot[roundRobin]) BY <1>1, <1>2, IdleFree DEF FreeIn
<1>10. QED BY <1>1, <1>2, <1>3, <1>6, <1>7, <1>8, <1>9

\* The record an admission starts from.
LEMMA AcceptedInv ==
  ASSUME IInv, NEW t \in Tasks, PickSlot(t)
  PROVE  LET s == roundRobin
             h == Accepted(Here(s), t)
         IN /\ HInv(s, h, home')
            /\ h.slot = slot[s] /\ h.lease = lease
            /\ h.phase[t] = "waiting"
            /\ \A u \in Tasks : u # t => h.phase[u] = phase[u]
<1> DEFINE s == roundRobin
           b == Here(s)
           h == Accepted(b, t)
<1>1. /\ s \in Slots /\ home'[t] = s /\ Kind[t] # "close" /\ ~lease[t].released
      /\ phase[t] = "idle" /\ FreeIn(t, slot[s])
      /\ \A u \in Tasks : phase[u] # "idle" => home'[u] = home[u]
  BY PickSlotFacts
<1>2. b \in HState BY <1>1, HereType DEF IInv
<1>3. b.slot = slot[s] /\ b.phase = phase /\ b.lease = lease BY DEF Here
<1>4. /\ SlotInv(s, slot[s], phase, lease, home) /\ TaskInv(phase, lease, home)
      /\ slot[s] \in SlotRecord /\ phase \in [Tasks -> Phases]
  BY <1>1 DEF IInv, SlotsInv, TypeOK
<1>5. SlotInv(s, slot[s], phase, lease, home')
  <2> HIDE DEF s
  <2> QED BY <1>1, <1>4, OtherSlot
<1>6. TaskInv(phase, lease, home') BY <1>1, <1>4 DEF TaskInv, LeasePhases
<1> HIDE DEF b
<1>7. h \in HState BY <1>2, AcceptedType
<1>8. /\ h.slot = b.slot /\ h.lease = b.lease
      /\ h.phase = [b.phase EXCEPT ![t] = "waiting"]
  BY <1>2 DEF Accepted, HState
<1> HIDE DEF h, s
<1>9. HInv(s, b, home') BY <1>2, <1>3, <1>5, <1>6 DEF HInv
<1>10. \A u \in Tasks : h.phase[u] = IF u = t THEN "waiting" ELSE phase[u] BY <1>3, <1>4, <1>8
<1>11. TaskInv(h.phase, h.lease, home')
  BY <1>1, <1>3, <1>6, <1>8, <1>10 DEF TaskInv, LeasePhases
<1>12. HInv(s, h, home')
  <2> DEFINE T == {t}
  <2>1. SameWork(b.slot, h.slot) BY <1>8 DEF SameWork
  <2>2. \A u \in T : FreeIn(u, b.slot) BY <1>1, <1>3
  <2>3. \A u \in Tasks : u \notin T =>
          h.phase[u] = b.phase[u] /\ h.lease[u].released = b.lease[u].released
    BY <1>3, <1>8, <1>10
  <2> HIDE DEF T
  <2>4. QED BY <1>7, <1>9, <1>11, <2>1, <2>2, <2>3, RephaseInv
<1>13. QED BY <1>3, <1>8, <1>10, <1>12 DEF h, s, b

\* The parts of TypeOK that Commit does not write.
LEMMA CommitTypeOK ==
  ASSUME TypeOK, NEW s \in Slots, NEW h \in HState, Commit(s, h),
         worker' \in [Slots -> {"up", "threw", "exited", "gone"}],
         roundRobin' \in Slots, closed' = closed, closeFailed' \in BOOLEAN,
         terminalError' \in Slots \cup {None},
         aborted' \in [Tasks -> BOOLEAN],
         home' \in [Tasks -> Slots \cup {None}]
  PROVE  TypeOK'
<1>1. closed' \in BOOLEAN BY DEF TypeOK
<1>2. QED BY <1>1, CommitType DEF TypeOK

\* A root call that is admitted commits a record g reached from the accepted one.
LEMMA AdmissionInv ==
  ASSUME IInv, NEW t \in Tasks, PickSlot(t), NEW g,
         HInv(roundRobin, g, home'),
         Frame(roundRobin, Accepted(Here(roundRobin), t), g, home'),
         Commit(roundRobin, g)
  PROVE  IInv'
<1> DEFINE s == roundRobin
           h == Accepted(Here(s), t)
<1>1. /\ s \in Slots /\ s' \in Slots /\ home'[t] = s
      /\ home' \in [Tasks -> Slots \cup {None}] /\ phase[t] = "idle"
      /\ \A u \in Tasks : phase[u] # "idle" => home'[u] = home[u]
      /\ UNCHANGED <<worker, closed, closeFailed, terminalError, aborted>>
      /\ slot[s].state = "running"
  BY PickSlotFacts
<1>2. /\ h.slot = slot[s] /\ h.lease = lease
      /\ \A u \in Tasks : u # t => h.phase[u] = phase[u]
  BY AcceptedInv
<1>3. Frame(s, h, g, home') /\ HInv(s, g, home') /\ Commit(s, g) OBVIOUS
<1>4. TypeOK'
  <2>1. g \in HState BY <1>3 DEF HInv
  <2>2. /\ worker' \in [Slots -> {"up", "threw", "exited", "gone"}]
        /\ closeFailed' \in BOOLEAN /\ terminalError' \in Slots \cup {None}
        /\ aborted' \in [Tasks -> BOOLEAN]
    BY <1>1 DEF IInv, TypeOK
  <2>3. QED BY <1>1, <1>3, <2>1, <2>2, CommitTypeOK DEF IInv
<1> HIDE DEF s, h
<1>5. \A u \in Tasks : phase[u] # "idle" /\ home[u] # s =>
        /\ g.phase[u] = phase[u]
        /\ g.lease[u].released = lease[u].released
        /\ home'[u] = home[u]
  BY <1>1, <1>2, <1>3 DEF Frame
<1>6. /\ g.slot.closing = "open" <=> slot[s].closing = "open"
      /\ g.slot.state # "failed"
  BY <1>1, <1>2, <1>3 DEF Frame
<1>7. SlotsInv' BY <1>1, <1>3, <1>5, <1>6, CommitInv
<1>8. QED BY <1>4, <1>7 DEF IInv

\* acquireLease() on a free slot.
LEMMA AdmitNowInv ==
  ASSUME IInv, NEW t \in Tasks, AdmitNow(t)
  PROVE  IInv'
<1> DEFINE s == roundRobin
           h == Accepted(Here(s), t)
           g == Admit(h, t)
<1>1. PickSlot(t) /\ Kind[t] = "do" /\ Commit(s, g)
      /\ slot[s].inflight = 0 /\ slot[s].activeLease = None /\ slot[s].queue = <<>>
  BY DEF AdmitNow, SlotFree
<1>2. /\ s \in Slots /\ home'[t] = s /\ slot[s].state = "running" /\ slot[s].closing = "open"
      /\ ~lease[t].released
  BY <1>1, PickSlotFacts
<1>3. /\ HInv(s, h, home') /\ h.slot = slot[s] /\ h.lease = lease
      /\ h.phase[t] = "waiting"
  BY <1>1, AcceptedInv
<1> HIDE DEF h, s
<1>4. h \in HState /\ SlotInv(s, h.slot, h.phase, h.lease, home') /\ TaskInv(h.phase, h.lease, home')
  BY <1>3 DEF HInv
<1>5. g \in HState BY <1>4, AdmitType
<1>6. /\ g.slot.activeLease = t /\ g.slot.pending = h.slot.pending
      /\ g.slot.inflight = h.slot.inflight /\ g.slot.queue = h.slot.queue
      /\ g.slot.state = h.slot.state /\ g.slot.closing = h.slot.closing
      /\ g.phase[t] = "admitted"
      /\ \A u \in Tasks : u # t => g.phase[u] = h.phase[u]
      /\ \A u \in Tasks : g.lease[u].released = h.lease[u].released
  BY <1>4, AdmitFacts
<1> HIDE DEF g
<1>7. h.slot.pending = {} BY <1>1, <1>3, <1>4 DEF SlotInv, FlightInv
<1>8. FlightInv(g.slot) BY <1>1, <1>3, <1>6, <1>7 DEF FlightInv
<1>9. QueueInv(s, g.slot, g.phase, home')
  <2>1. g.slot.queue = <<>> BY <1>1, <1>3, <1>6
  <2>2. Len(g.slot.queue) = 0 BY <2>1
  <2>3. QED BY <2>2 DEF QueueInv
<1>10. OwnerInv(s, g.slot, g.phase, g.lease, home')
  BY <1>2, <1>3, <1>6, <1>7 DEF OwnerInv, LeasePhases
<1>11. CloseInv(g.slot) BY <1>1, <1>2, <1>3, <1>6, <1>7 DEF CloseInv
<1>12. TaskInv(g.phase, g.lease, home')
  BY <1>1, <1>2, <1>4, <1>6 DEF TaskInv
<1>13. HInv(s, g, home') BY <1>5, <1>8, <1>9, <1>10, <1>11, <1>12 DEF HInv, SlotInv
<1>14. Frame(s, h, g, home') BY <1>2, <1>3, <1>6 DEF Frame
<1>15. QED BY <1>1, <1>13, <1>14, AdmissionInv DEF h, s

\* dispatchRequest() on a running, idle slot: of a root request, when no lease is
\* active and none is queued in front of it, or of a proxy call of the active lease.
LEMMA DispatchRequestInv ==
  ASSUME NEW s, NEW hm, NEW h, HInv(s, h, hm), NEW t \in Tasks, NEW i \in 0 .. MaxCalls,
         h.slot.state = "running", h.slot.inflight = 0,
         h.slot.closing \in {"open", "lease"},
         \/ /\ i = 0 /\ hm[t] = s /\ h.phase[t] = "waiting" /\ ~h.lease[t].released
            /\ FreeIn(t, h.slot)
         \/ i > 0
  PROVE  LET g == DispatchRequest(s, h, <<t, i>>)
         IN /\ HInv(s, g, hm) /\ Frame(s, h, g, hm)
<1> DEFINE r == <<t, i>>
<1>0. MaxCalls \in Nat BY PoolAssumption
<1>1. /\ h \in HState /\ h.slot \in SlotRecord
      /\ FlightInv(h.slot) /\ QueueInv(s, h.slot, h.phase, hm)
      /\ OwnerInv(s, h.slot, h.phase, h.lease, hm) /\ CloseInv(h.slot)
      /\ TaskInv(h.phase, h.lease, hm)
  BY DEF HInv, SlotInv, HState
<1>2. h.slot.pending = {} BY <1>1 DEF FlightInv
<1>3. \A u : Root(u) = r => u = t /\ i = 0 BY DEF Root
<1>4. CASE r \in Unsendable
  <2> DEFINE R == {r}
             g == SendFailed(h, R)
  <2>1. DispatchRequest(s, h, r) = DrainQueue(s, g) BY <1>4 DEF DispatchRequest
  <2>2. \A u : Root(u) \in R => u = t /\ i = 0 BY <1>3
  <2> HIDE DEF R, r
  <2>3. /\ g \in HState
        /\ Woken(h.slot, g.slot)
        /\ g.lease = h.lease
        /\ \A u \in Tasks : g.phase[u] = IF Root(u) \in R THEN "done" ELSE h.phase[u]
    BY <1>1, SendFailedType, SendFailedFacts
  <2> HIDE DEF g
  <2>4. SameWork(h.slot, g.slot) BY <2>3 DEF SameWork, Woken
  <2> DEFINE T == {u \in Tasks : Root(u) \in R}
  <2>5. \A u \in T : FreeIn(u, h.slot) BY <2>2
  <2>6. \A u \in Tasks : u \notin T =>
          g.phase[u] = h.phase[u] /\ g.lease[u].released = h.lease[u].released
    BY <2>3
  <2>7. TaskInv(g.phase, g.lease, hm) BY <1>1, <2>3 DEF TaskInv, LeasePhases
  <2> HIDE DEF T
  <2>8. HInv(s, g, hm) BY <2>3, <2>4, <2>5, <2>6, <2>7, RephaseInv
  <2>9. Frame(s, h, g, hm)
    <3>1. \A u \in Tasks : hm[u] # s \/ h.phase[u] # "waiting" => Root(u) \notin R BY <2>2
    <3>2. QED BY <2>3, <2>4, <3>1 DEF Frame, SameWork
  <2>10. HInv(s, DrainQueue(s, g), hm) /\ Frame(s, g, DrainQueue(s, g), hm)
    BY <2>8, DrainQueueInv
  <2> DEFINE f == DrainQueue(s, g)
  <2>11. Frame(s, h, f, hm)
    <3>1. Frame(s, g, f, hm) BY <2>10
    <3> HIDE DEF f
    <3>2. \A u \in Tasks : hm[u] # s \/ h.phase[u] # "waiting" =>
            hm[u] # s \/ g.phase[u] # "waiting"
      BY <2>9 DEF Frame
    <3>3. QED BY <2>9, <3>1, <3>2 DEF Frame
  <2>12. QED BY <2>1, <2>10, <2>11 DEF r
<1>5. CASE r \notin Unsendable
  <2> DEFINE g == Dispatch(s, h, r)
  <2>1. DispatchRequest(s, h, r) = g BY <1>5 DEF DispatchRequest
  <2>2. r \in Requests BY <1>0 DEF Requests
  <2> HIDE DEF r
  <2>3. /\ g \in HState
        /\ g.phase = h.phase /\ g.lease = h.lease
        /\ g.slot.pending = {r} /\ g.slot.inflight = 1
        /\ g.slot.queue = h.slot.queue /\ g.slot.activeLease = h.slot.activeLease
        /\ g.slot.state = h.slot.state /\ g.slot.closing = h.slot.closing
        /\ g.slot.awaits = h.slot.awaits
    BY <1>1, <1>2, <2>2, DispatchType, DispatchFacts
  <2> HIDE DEF g
  <2>4. FlightInv(g.slot) BY <2>3 DEF FlightInv
  <2>5. QueueInv(s, g.slot, g.phase, hm)
    <3>1. \A j \in 1 .. Len(h.slot.queue) : Root(h.slot.queue[j]) # r BY <1>3 DEF FreeIn
    <3>2. QED BY <1>1, <2>3, <3>1 DEF QueueInv
  <2>6. OwnerInv(s, g.slot, g.phase, g.lease, hm)
    <3>1. \A u \in Tasks : Root(u) \in g.slot.pending => hm[u] = s /\ g.phase[u] = "waiting"
      BY <1>3, <2>3
    <3>2. QED BY <1>1, <2>3, <3>1 DEF OwnerInv
  <2>7. CloseInv(g.slot) BY <1>1, <2>3 DEF CloseInv
  <2>8. TaskInv(g.phase, g.lease, hm) BY <1>1, <2>3
  <2>9. Frame(s, h, g, hm) BY <2>3 DEF Frame
  <2>10. QED BY <2>1, <2>3, <2>4, <2>5, <2>6, <2>7, <2>8, <2>9 DEF HInv, SlotInv, r
<1>6. QED BY <1>4, <1>5

\* sendToSlot() on a free slot.
LEMMA EvaluateNowInv ==
  ASSUME IInv, NEW t \in Tasks, EvaluateNow(t)
  PROVE  IInv'
<1> DEFINE s == roundRobin
           h == Accepted(Here(s), t)
           g == DispatchRequest(s, h, <<t, 0>>)
<1>1. PickSlot(t) /\ Commit(s, g) /\ slot[s].inflight = 0
  BY DEF EvaluateNow, SlotFree, Root
<1>2. /\ home'[t] = s /\ slot[s].state = "running" /\ slot[s].closing = "open"
      /\ ~lease[t].released /\ FreeIn(t, slot[s])
  BY <1>1, PickSlotFacts
<1>3. /\ HInv(s, h, home') /\ h.slot = slot[s] /\ h.lease = lease
      /\ h.phase[t] = "waiting"
  BY <1>1, AcceptedInv
<1>4. 0 \in 0 .. MaxCalls BY PoolAssumption
<1> HIDE DEF h, s
<1>5. HInv(s, g, home') /\ Frame(s, h, g, home')
  BY <1>1, <1>2, <1>3, <1>4, DispatchRequestInv
<1>6. QED BY <1>1, <1>5, AdmissionInv DEF h, s

\* sendToSlot() or acquireLease() behind other work.
LEMMA EnqueueRootInv ==
  ASSUME IInv, NEW t \in Tasks, EnqueueRoot(t)
  PROVE  IInv'
<1> DEFINE s == roundRobin
           h == Accepted(Here(s), t)
           q == slot[s].queue
           sl == [slot[s] EXCEPT !.queue = Append(q, t)]
           g == [h EXCEPT !.slot = sl]
<1>1. PickSlot(t) /\ Commit(s, g) BY DEF EnqueueRoot
<1>2. /\ s \in Slots /\ home'[t] = s /\ slot[s].state = "running" /\ slot[s].closing = "open"
      /\ slot[s] \in SlotRecord /\ Kind[t] # "close" /\ FreeIn(t, slot[s])
  BY <1>1, PickSlotFacts
<1>3. /\ HInv(s, h, home') /\ h.slot = slot[s] /\ h.phase[t] = "waiting"
  BY <1>1, AcceptedInv
<1> HIDE DEF h, s
<1>4. /\ h \in HState
      /\ FlightInv(h.slot) /\ QueueInv(s, h.slot, h.phase, home')
      /\ OwnerInv(s, h.slot, h.phase, h.lease, home') /\ CloseInv(h.slot)
      /\ TaskInv(h.phase, h.lease, home')
  BY <1>3 DEF HInv, SlotInv
<1>5. q \in Seq(Tasks) /\ Len(q) \in Nat BY <1>2 DEF SlotRecord
<1>6. /\ Append(q, t) \in Seq(Tasks) /\ Len(Append(q, t)) = Len(q) + 1
      /\ \A i \in 1 .. Len(q) : Append(q, t)[i] = q[i]
      /\ Append(q, t)[Len(q) + 1] = t
  <2> HIDE DEF q
  <2> QED BY <1>5
<1> DEFINE a == Append(q, t)
<1> HIDE DEF a
<1>7. /\ a \in Seq(Tasks) /\ Len(a) = Len(q) + 1
      /\ \A i \in 1 .. Len(q) : a[i] = q[i]
      /\ a[Len(q) + 1] = t
  BY <1>6 DEF a
<1>8. sl = [slot[s] EXCEPT !.queue = a] BY DEF a
<1>9. /\ sl \in SlotRecord
      /\ sl.queue = a /\ sl.pending = slot[s].pending /\ sl.inflight = slot[s].inflight
      /\ sl.activeLease = slot[s].activeLease /\ sl.state = slot[s].state
      /\ sl.closing = slot[s].closing /\ sl.awaits = slot[s].awaits
  <2> HIDE DEF sl
  <2> QED BY <1>2, <1>7, <1>8 DEF SlotRecord
<1> HIDE DEF sl
<1>10. g \in HState /\ g.slot = sl /\ g.phase = h.phase /\ g.lease = h.lease
  BY <1>4, <1>9 DEF HState
<1> HIDE DEF g
<1>11. QueueInv(s, g.slot, g.phase, home')
  <2>1. \A i \in 1 .. Len(q) :
          /\ home'[q[i]] = s /\ Kind[q[i]] # "close" /\ h.phase[q[i]] = "waiting"
          /\ Root(q[i]) \notin slot[s].pending /\ q[i] # t
    BY <1>2, <1>3, <1>4 DEF QueueInv, FreeIn
  <2>2. \A i, j \in 1 .. Len(q) : q[i] = q[j] => i = j BY <1>3, <1>4 DEF QueueInv
  <2>3. Root(t) \notin slot[s].pending BY <1>2 DEF FreeIn
  <2> HIDE DEF q
  <2>4. \A i \in 1 .. Len(a) : i \in 1 .. Len(q) \/ i = Len(q) + 1 BY <1>5, <1>7
  <2>5. \A i \in 1 .. Len(a) :
          /\ home'[a[i]] = s /\ Kind[a[i]] # "close" /\ h.phase[a[i]] = "waiting"
          /\ Root(a[i]) \notin slot[s].pending
    BY <1>2, <1>3, <1>7, <2>1, <2>3, <2>4
  <2>6. \A i, j \in 1 .. Len(a) : a[i] = a[j] => i = j BY <1>7, <2>1, <2>2, <2>4
  <2>7. QED BY <1>9, <1>10, <2>5, <2>6 DEF QueueInv
<1>12. FlightInv(g.slot) /\ CloseInv(g.slot)
  BY <1>2, <1>3, <1>4, <1>9, <1>10 DEF FlightInv, CloseInv
<1>13. OwnerInv(s, g.slot, g.phase, g.lease, home') BY <1>3, <1>4, <1>9, <1>10 DEF OwnerInv
<1>14. HInv(s, g, home') BY <1>4, <1>10, <1>11, <1>12, <1>13 DEF HInv, SlotInv
<1>15. Frame(s, h, g, home') BY <1>3, <1>9, <1>10 DEF Frame
<1>16. QED BY <1>1, <1>14, <1>15, AdmissionInv DEF h, s

\* sendToSlot() or acquireLease() on a full slot.
LEMMA RejectFullInv ==
  ASSUME IInv, NEW t \in Tasks, RejectFull(t)
  PROVE  IInv'
<1> DEFINE s == roundRobin
           sl == [slot[s] EXCEPT !.rejected = slot[s].rejected + 1]
           ph == [phase EXCEPT ![t] = "done"]
           rs == [result EXCEPT ![Root(t)] = "queueFull"]
           b == Here(s)
           g == [slot |-> sl, phase |-> ph, lease |-> lease, result |-> rs, untracked |-> untracked]
<1>1. /\ PickSlot(t) /\ slot' = [slot EXCEPT ![s] = sl] /\ phase' = ph /\ result' = rs
      /\ UNCHANGED <<lease, untracked>>
  BY DEF RejectFull
<1>2. /\ s \in Slots /\ s' \in Slots /\ home'[t] = s /\ slot[s] \in SlotRecord
      /\ slot[s].state = "running" /\ phase[t] = "idle" /\ FreeIn(t, slot[s])
      /\ home' \in [Tasks -> Slots \cup {None}]
      /\ \A u \in Tasks : phase[u] # "idle" => home'[u] = home[u]
      /\ UNCHANGED <<worker, closed, closeFailed, terminalError, aborted>>
  BY <1>1, PickSlotFacts
<1>3. sl \in SlotRecord /\ SameWork(slot[s], sl)
  <2>1. slot[s].rejected + 1 \in Nat BY <1>2 DEF SlotRecord
  <2>2. QED BY <1>2, <2>1 DEF SlotRecord, SameWork
<1>4. TypeOK BY DEF IInv
<1>5. /\ ph \in [Tasks -> Phases]
      /\ \A u \in Tasks : ph[u] = IF u = t THEN "done" ELSE phase[u]
  BY <1>4 DEF TypeOK, Phases
<1>6. rs \in [Requests -> Verdicts \cup {"none", "pending"}] BY <1>4 DEF TypeOK, Verdicts
<1> HIDE DEF sl, ph, rs
<1>7. g \in HState BY <1>3, <1>4, <1>5, <1>6 DEF TypeOK, HState
<1>8. g.slot = sl /\ g.phase = ph /\ g.lease = lease OBVIOUS
<1>9. Commit(s, g) BY <1>1 DEF Commit
<1> HIDE DEF g
<1>10. /\ SlotInv(s, slot[s], phase, lease, home) /\ TaskInv(phase, lease, home)
  BY <1>2 DEF IInv, SlotsInv
<1>11. b \in HState /\ b.slot = slot[s] /\ b.phase = phase /\ b.lease = lease
  BY <1>2, <1>4, HereType DEF Here
<1> HIDE DEF b, s
<1>12. SlotInv(s, slot[s], phase, lease, home') BY <1>2, <1>10, OtherSlot
<1>13. TaskInv(phase, lease, home') BY <1>2, <1>10 DEF TaskInv, LeasePhases
<1>14. HInv(s, b, home') BY <1>11, <1>12, <1>13 DEF HInv
<1>15. TaskInv(g.phase, g.lease, home') BY <1>5, <1>8, <1>13 DEF TaskInv, LeasePhases
<1>16. HInv(s, g, home')
  <2> DEFINE T == {t}
  <2>1. SameWork(b.slot, g.slot) BY <1>3, <1>8, <1>11
  <2>2. \A u \in T : FreeIn(u, b.slot) BY <1>2, <1>11
  <2>3. \A u \in Tasks : u \notin T =>
          g.phase[u] = b.phase[u] /\ g.lease[u].released = b.lease[u].released
    BY <1>5, <1>8, <1>11
  <2> HIDE DEF T
  <2>4. QED BY <1>7, <1>14, <1>15, <2>1, <2>2, <2>3, RephaseInv
<1>17. \A u \in Tasks : phase[u] # "idle" /\ home[u] # s =>
         /\ g.phase[u] = phase[u]
         /\ g.lease[u].released = lease[u].released
         /\ home'[u] = home[u]
  BY <1>2, <1>5, <1>8
<1>18. SlotsInv'
  <2>1. /\ g.slot.closing = "open" <=> slot[s].closing = "open"
        /\ g.slot.state # "failed"
    BY <1>2, <1>3, <1>8 DEF SameWork
  <2>2. QED BY <1>2, <1>9, <1>16, <1>17, <2>1, CommitInv
<1>19. TypeOK'
  <2>1. /\ worker' \in [Slots -> {"up", "threw", "exited", "gone"}]
        /\ closeFailed' \in BOOLEAN /\ terminalError' \in Slots \cup {None}
        /\ aborted' \in [Tasks -> BOOLEAN] /\ roundRobin' \in Slots
    BY <1>2, <1>4 DEF TypeOK, s
  <2>2. QED BY <1>2, <1>4, <1>7, <1>9, <2>1, CommitTypeOK
<1>20. QED BY <1>18, <1>19 DEF IInv

-----------------------------------------------------------------------------
(* Handlers of one slot that admit no root call.                            *)

\* A handler of slot s that commits g and touches no call of another slot.
LEMMA HandlerInv ==
  ASSUME IInv, NEW s \in Slots, NEW g, HInv(s, g, home), Commit(s, g),
         \A u \in Tasks : home[u] # s =>
           g.phase[u] = phase[u] /\ g.lease[u].released = lease[u].released,
         g.slot.closing = "open" <=> slot[s].closing = "open",
         g.slot.state = "failed" => terminalError' # None,
         terminalError # None => terminalError' # None,
         terminalError' \in Slots \cup {None},
         UNCHANGED <<home, closed, roundRobin>>,
         worker' \in [Slots -> {"up", "threw", "exited", "gone"}],
         closeFailed' \in BOOLEAN, aborted' \in [Tasks -> BOOLEAN]
  PROVE  IInv'
<1>1. g \in HState BY DEF HInv
<1>2. roundRobin' \in Slots /\ home' \in [Tasks -> Slots \cup {None}] BY DEF IInv, TypeOK
<1>3. TypeOK' BY <1>1, <1>2, CommitTypeOK DEF IInv
<1>4. HInv(s, g, home') OBVIOUS
<1>5. SlotsInv' BY <1>4, CommitInv
<1>6. QED BY <1>3, <1>5 DEF IInv

\* Two helpers in a row keep the frame.
LEMMA FrameTrans ==
  ASSUME NEW s, NEW h, NEW g, NEW f, NEW hm, Frame(s, h, g, hm), Frame(s, g, f, hm)
  PROVE  Frame(s, h, f, hm)
<1>1. \A u \in Tasks : hm[u] # s \/ h.phase[u] # "waiting" =>
        hm[u] # s \/ g.phase[u] # "waiting"
  BY DEF Frame
<1>2. QED BY <1>1 DEF Frame

\* What TypeOK says of the tables a handler leaves alone.
LEMMA OtherTables ==
  ASSUME TypeOK
  PROVE  /\ worker \in [Slots -> {"up", "threw", "exited", "gone"}]
         /\ closeFailed \in BOOLEAN /\ aborted \in [Tasks -> BOOLEAN]
         /\ terminalError \in Slots \cup {None}
BY DEF TypeOK

\* Only the calls' bookkeeping changes: proxy-call counters, owner FIFOs, verdicts.
LEMMA SameWorkInv ==
  ASSUME NEW s, NEW hm, NEW h, HInv(s, h, hm), NEW g \in HState,
         SameWork(h.slot, g.slot), g.phase = h.phase,
         \A u \in Tasks : g.lease[u].released = h.lease[u].released
  PROVE  HInv(s, g, hm) /\ Frame(s, h, g, hm)
<1>1. TaskInv(g.phase, g.lease, hm) BY DEF HInv, TaskInv
<1>2. HInv(s, g, hm)
  <2> DEFINE T == {}
  <2>1. \A u \in T : FreeIn(u, h.slot) OBVIOUS
  <2>2. \A u \in Tasks : u \notin T =>
          g.phase[u] = h.phase[u] /\ g.lease[u].released = h.lease[u].released
    OBVIOUS
  <2> HIDE DEF T
  <2>3. QED BY <1>1, <2>1, <2>2, RephaseInv
<1>3. Frame(s, h, g, hm) BY DEF Frame, SameWork
<1>4. QED BY <1>2, <1>3

\* A callback that makes a proxy call lives on a slot.
LEMMA InvokesFacts ==
  ASSUME IInv, NEW t \in Tasks, NEW i \in 1 .. MaxCalls, Invokes(t, i)
  PROVE  /\ home[t] \in Slots
         /\ slot[home[t]] \in SlotRecord
         /\ UNCHANGED <<worker, roundRobin, closed, closeFailed, terminalError, aborted, home>>
<1>1. phase[t] \in {"callback", "releasing"} BY DEF Invokes
<1>2. TaskInv(phase, lease, home) BY DEF IInv, SlotsInv
<1>3. home[t] \in Slots BY <1>1, <1>2 DEF TaskInv, LeasePhases
<1>4. QED BY <1>3 DEF IInv, TypeOK, Invokes, poolVars

\* sendOnLease() on a full slot.
LEMMA RejectCallFullInv ==
  ASSUME IInv, NEW t \in Tasks, NEW i \in 1 .. MaxCalls, RejectCallFull(t, i)
  PROVE  IInv'
<1> DEFINE s == home[t]
           sl == [slot[s] EXCEPT !.rejected = slot[s].rejected + 1]
           rs == [result EXCEPT ![<<t, i>>] = "queueFull"]
           b == Here(s)
           g == [slot |-> sl, phase |-> phase, lease |-> lease, result |-> rs, untracked |-> untracked]
<1>1. /\ Invokes(t, i) /\ slot' = [slot EXCEPT ![s] = sl] /\ result' = rs
      /\ UNCHANGED <<phase, lease, untracked>>
  BY DEF RejectCallFull
<1>2. /\ s \in Slots /\ slot[s] \in SlotRecord
      /\ UNCHANGED <<worker, roundRobin, closed, closeFailed, terminalError, aborted, home>>
  BY <1>1, InvokesFacts
<1>3. sl \in SlotRecord /\ SameWork(slot[s], sl)
  <2>1. slot[s].rejected + 1 \in Nat BY <1>2 DEF SlotRecord
  <2>2. QED BY <1>2, <2>1 DEF SlotRecord, SameWork
<1>4. TypeOK BY DEF IInv
<1>5. rs \in [Requests -> Verdicts \cup {"none", "pending"}] BY <1>4 DEF TypeOK, Verdicts
<1> HIDE DEF sl, rs
<1>6. g \in HState BY <1>3, <1>4, <1>5 DEF TypeOK, HState
<1>7. g.slot = sl /\ g.phase = phase /\ g.lease = lease OBVIOUS
<1>8. Commit(s, g) BY <1>1 DEF Commit
<1>9. HInv(s, b, home) BY <1>2, HereInv
<1>10. b.slot = slot[s] /\ b.phase = phase /\ b.lease = lease BY DEF Here
<1> HIDE DEF b, g, s
<1>11. HInv(s, g, home) BY <1>3, <1>6, <1>7, <1>9, <1>10, SameWorkInv
<1>12. /\ g.slot.closing = "open" <=> slot[s].closing = "open"
       /\ g.slot.state = slot[s].state
  BY <1>3, <1>7 DEF SameWork
<1>13. slot[s].state = "failed" => terminalError # None BY <1>2 DEF IInv, SlotsInv
<1>14. QED BY <1>2, <1>4, <1>7, <1>8, <1>11, <1>12, <1>13, HandlerInv, OtherTables

\* An accepted proxy call, before it is sent or queued.
LEMMA AcceptedCallInv ==
  ASSUME IInv, NEW t \in Tasks, NEW i \in 1 .. MaxCalls, NEW s \in Slots
  PROVE  LET h == AcceptedCall(Here(s), t, i)
         IN /\ HInv(s, h, home) /\ Frame(s, Here(s), h, home)
            /\ h.slot = slot[s] /\ h.phase = phase
            /\ h.lease \in [Tasks -> LeaseRecord]
<1> DEFINE b == Here(s)
           l == [b.lease[t] EXCEPT !.pendingCalls = b.lease[t].pendingCalls + 1]
           h == AcceptedCall(b, t, i)
<1>1. HInv(s, b, home) BY HereInv
<1>2. b.slot = slot[s] /\ b.phase = phase BY DEF Here
<1> HIDE DEF b
<1>3. b \in HState /\ b.lease \in [Tasks -> LeaseRecord] BY <1>1 DEF HInv, HState
<1>4. h \in HState BY <1>3, AcceptedCallType
<1>5. l.released = b.lease[t].released BY <1>3 DEF LeaseRecord
<1>6. h.slot = b.slot /\ h.phase = b.phase /\ h.lease = [b.lease EXCEPT ![t] = l]
  BY <1>3 DEF AcceptedCall, HState
<1> HIDE DEF l, h
<1>7. \A u \in Tasks : h.lease[u].released = b.lease[u].released BY <1>3, <1>5, <1>6
<1>8. HInv(s, h, home) /\ Frame(s, b, h, home)
  <2>1. SameWork(b.slot, h.slot) BY <1>6 DEF SameWork
  <2>2. QED BY <1>1, <1>4, <1>6, <1>7, <2>1, SameWorkInv
<1>9. QED BY <1>2, <1>4, <1>6, <1>8 DEF h, b, HState

\* A handler of slot s that stays within Frame.
LEMMA FrameHandlerInv ==
  ASSUME IInv, NEW s \in Slots, NEW g, HInv(s, g, home), Commit(s, g),
         Frame(s, Here(s), g, home),
         UNCHANGED <<home, closed, roundRobin, closeFailed, terminalError, worker>>,
         aborted' \in [Tasks -> BOOLEAN]
  PROVE  IInv'
<1> DEFINE b == Here(s)
<1>1. b.slot = slot[s] /\ b.phase = phase /\ b.lease = lease BY DEF Here
<1>2. Frame(s, b, g, home) OBVIOUS
<1> HIDE DEF b
<1>3. \A u \in Tasks : home[u] # s =>
        g.phase[u] = phase[u] /\ g.lease[u].released = lease[u].released
  BY <1>1, <1>2 DEF Frame
<1>4. /\ g.slot.closing = "open" <=> slot[s].closing = "open"
      /\ g.slot.state = slot[s].state
  BY <1>1, <1>2 DEF Frame
<1>5. slot[s].state = "failed" => terminalError # None BY DEF IInv, SlotsInv
<1>6. TypeOK BY DEF IInv
<1>7. QED BY <1>3, <1>4, <1>5, <1>6, HandlerInv, OtherTables

\* sendOnLease() behind the lease's own call.
LEMMA EnqueueCallInv ==
  ASSUME IInv, NEW t \in Tasks, NEW i \in 1 .. MaxCalls, EnqueueCall(t, i)
  PROVE  IInv'
<1> DEFINE s == home[t]
           b == Here(s)
           h == AcceptedCall(b, t, i)
           l == [h.lease[t] EXCEPT !.queue = Append(h.lease[t].queue, <<t, i>>)]
           g == [h EXCEPT !.lease = [h.lease EXCEPT ![t] = l]]
<1>1. Invokes(t, i) /\ Commit(s, g) BY DEF EnqueueCall
<1>2. /\ s \in Slots
      /\ UNCHANGED <<worker, roundRobin, closed, closeFailed, terminalError, aborted, home>>
  BY <1>1, InvokesFacts
<1>3. HInv(s, h, home) /\ Frame(s, b, h, home) /\ h.lease \in [Tasks -> LeaseRecord]
  BY <1>2, AcceptedCallInv
<1>4. <<t, i>> \in Calls BY DEF Calls
<1> HIDE DEF h
<1>5. l \in LeaseRecord /\ l.released = h.lease[t].released
  <2>1. h.lease[t] \in LeaseRecord BY <1>3
  <2>2. Append(h.lease[t].queue, <<t, i>>) \in Seq(Calls) BY <1>4, <2>1 DEF LeaseRecord
  <2>3. QED BY <2>1, <2>2 DEF LeaseRecord
<1> HIDE DEF l
<1>6. g \in HState /\ g.slot = h.slot /\ g.phase = h.phase
      /\ \A u \in Tasks : g.lease[u].released = h.lease[u].released
  <2>1. [h.lease EXCEPT ![t] = l] \in [Tasks -> LeaseRecord] BY <1>3, <1>5
  <2>2. \A u \in Tasks : [h.lease EXCEPT ![t] = l][u].released = h.lease[u].released BY <1>3, <1>5
  <2>3. QED BY <1>3, <2>1, <2>2 DEF HInv, HState
<1> HIDE DEF g, b, s
<1>7. SameWork(h.slot, g.slot) BY <1>6 DEF SameWork
<1>8. HInv(s, g, home) /\ Frame(s, h, g, home) BY <1>3, <1>6, <1>7, SameWorkInv
<1>9. Frame(s, b, g, home) BY <1>3, <1>8, FrameTrans
<1>10. aborted' \in [Tasks -> BOOLEAN] BY <1>2 DEF IInv, TypeOK
<1>11. QED BY <1>1, <1>2, <1>8, <1>9, <1>10, FrameHandlerInv DEF b

\* sendOnLease() on an idle worker.
LEMMA CallNowInv ==
  ASSUME IInv, NEW t \in Tasks, NEW i \in 1 .. MaxCalls, CallNow(t, i)
  PROVE  IInv'
<1> DEFINE s == home[t]
           b == Here(s)
           h == AcceptedCall(b, t, i)
           g == DispatchRequest(s, h, <<t, i>>)
<1>1. /\ Invokes(t, i) /\ Commit(s, g) /\ slot[s].inflight = 0
      /\ CallRefusal(t) = "none"
  BY DEF CallNow, CallFree
<1>2. /\ s \in Slots /\ slot[s] \in SlotRecord
      /\ UNCHANGED <<worker, roundRobin, closed, closeFailed, terminalError, aborted, home>>
  BY <1>1, InvokesFacts
<1>3. slot[s].activeLease = t /\ slot[s].state = "running"
  BY <1>1, <1>2 DEF CallRefusal, SlotRecord
<1>4. slot[s].closing \in {"open", "lease"}
  <2>1. CloseInv(slot[s]) BY <1>2 DEF IInv, SlotsInv, SlotInv
  <2>2. QED BY <1>2, <1>3, <2>1, PoolAssumption DEF CloseInv
<1>5. HInv(s, h, home) /\ Frame(s, b, h, home) /\ h.slot = slot[s]
  BY <1>2, AcceptedCallInv
<1>6. i \in 0 .. MaxCalls /\ i > 0 BY PoolAssumption
<1> HIDE DEF h, b, s
<1>7. HInv(s, g, home) /\ Frame(s, h, g, home)
  BY <1>1, <1>3, <1>4, <1>5, <1>6, DispatchRequestInv
<1> HIDE DEF g
<1>8. Frame(s, b, g, home) BY <1>5, <1>7, FrameTrans
<1>9. aborted' \in [Tasks -> BOOLEAN] BY <1>2 DEF IInv, TypeOK
<1>10. QED BY <1>1, <1>2, <1>7, <1>8, <1>9, FrameHandlerInv DEF b

\* notifyPendingDrained() preserves the invariant of its slot.
LEMMA NotifyInv ==
  ASSUME NEW s, NEW hm, NEW h, HInv(s, h, hm)
  PROVE  LET g == NotifyPendingDrained(h)
         IN HInv(s, g, hm) /\ Frame(s, h, g, hm)
<1> DEFINE g == NotifyPendingDrained(h)
<1>1. /\ h \in HState
      /\ FlightInv(h.slot) /\ QueueInv(s, h.slot, h.phase, hm)
      /\ OwnerInv(s, h.slot, h.phase, h.lease, hm) /\ CloseInv(h.slot)
      /\ TaskInv(h.phase, h.lease, hm)
  BY DEF HInv, SlotInv
<1>2. g \in HState BY <1>1, NotifyType
<1>3. Woken(h.slot, g.slot) /\ g.phase = h.phase /\ g.lease = h.lease BY <1>1, NotifyFacts
<1> HIDE DEF g
<1>4. FlightInv(g.slot) BY <1>1, <1>3 DEF FlightInv, Woken
<1>5. QueueInv(s, g.slot, g.phase, hm) BY <1>1, <1>3 DEF QueueInv, Woken
<1>6. OwnerInv(s, g.slot, g.phase, g.lease, hm) BY <1>1, <1>3 DEF OwnerInv, Woken
<1>7. CloseInv(g.slot) BY <1>1, <1>3 DEF CloseInv, Woken
<1>8. Frame(s, h, g, hm) BY <1>3 DEF Frame, Woken
<1>9. QED BY <1>1, <1>2, <1>3, <1>4, <1>5, <1>6, <1>7, <1>8 DEF HInv, SlotInv, g

\* The slot gives up its lease, or its request in flight; the calls it still refers
\* to keep their phase and lease.
LEMMA ShrinkInv ==
  ASSUME NEW s, NEW hm, NEW h, HInv(s, h, hm), NEW g \in HState,
         g.slot.queue = h.slot.queue, g.slot.state = h.slot.state,
         g.slot.closing = h.slot.closing, g.slot.awaits = h.slot.awaits,
         g.slot.activeLease \in {h.slot.activeLease, None},
         \/ g.slot.pending = h.slot.pending /\ g.slot.inflight = h.slot.inflight
         \/ g.slot.pending = {} /\ g.slot.inflight = 0,
         \A u \in Tasks :
           \/ g.phase[u] = h.phase[u] /\ g.lease[u].released = h.lease[u].released
           \/ FreeIn(u, g.slot),
         TaskInv(g.phase, g.lease, hm)
  PROVE  HInv(s, g, hm)
<1>1. /\ h.slot \in SlotRecord /\ g.slot \in SlotRecord
      /\ FlightInv(h.slot) /\ QueueInv(s, h.slot, h.phase, hm)
      /\ OwnerInv(s, h.slot, h.phase, h.lease, hm) /\ CloseInv(h.slot)
  BY DEF HInv, SlotInv, HState
<1>2. FlightInv(g.slot) BY <1>1 DEF FlightInv
<1>3. \A i \in 1 .. Len(g.slot.queue) :
        g.slot.queue[i] \in Tasks /\ g.phase[g.slot.queue[i]] = h.phase[g.slot.queue[i]]
  <2>1. g.slot.queue \in Seq(Tasks) BY <1>1 DEF SlotRecord
  <2>2. \A i \in 1 .. Len(g.slot.queue) : g.slot.queue[i] \in Tasks BY <2>1, ElementOfSeq
  <2>3. QED BY <2>2 DEF FreeIn
<1>4. QueueInv(s, g.slot, g.phase, hm) BY <1>1, <1>3 DEF QueueInv
<1>5. CloseInv(g.slot)
  <2>1. g.slot.closing = "lease" => g.slot.activeLease \in {g.slot.awaits, None} BY <1>1 DEF CloseInv
  <2>2. QED BY <1>1, <2>1 DEF CloseInv
<1>6. \A u \in Tasks : Root(u) \in g.slot.pending => hm[u] = s /\ g.phase[u] = "waiting"
  BY <1>1 DEF OwnerInv, FreeIn
<1>7. g.slot.activeLease # None =>
        /\ hm[g.slot.activeLease] = s
        /\ g.phase[g.slot.activeLease] \in LeasePhases
        /\ ~g.lease[g.slot.activeLease].released
  <2>1. g.slot.activeLease # None => g.slot.activeLease \in Tasks BY <1>1 DEF SlotRecord
  <2>2. \A u \in Tasks : g.slot.activeLease = u =>
          g.phase[u] = h.phase[u] /\ g.lease[u].released = h.lease[u].released
    BY DEF FreeIn
  <2>3. QED BY <1>1, <2>1, <2>2 DEF OwnerInv
<1>8. OwnerInv(s, g.slot, g.phase, g.lease, hm) BY <1>6, <1>7 DEF OwnerInv
<1>9. QED BY <1>2, <1>4, <1>5, <1>8 DEF HInv, SlotInv

\* releaseLease() frees the slot and its lease.
LEMMA ReleasedInv ==
  ASSUME IInv, NEW t \in Tasks, phase[t] \in {"releasing", "abandoning"}
  PROVE  LET s == home[t]
             f == MarkReleased([Here(s) EXCEPT !.slot = [slot[s] EXCEPT !.activeLease =
                    IF slot[s].activeLease = t THEN None ELSE slot[s].activeLease]], {t})
         IN /\ s \in Slots /\ HInv(s, f, home) /\ f.phase = phase
            /\ f.slot.state = slot[s].state /\ f.slot.closing = slot[s].closing
            /\ \A u \in Tasks : u # t => f.lease[u].released = lease[u].released
            /\ f.lease[t].released
<1> DEFINE s == home[t]
           b == Here(s)
           owner == IF slot[s].activeLease = t THEN None ELSE slot[s].activeLease
           freed == [b EXCEPT !.slot = [slot[s] EXCEPT !.activeLease = owner]]
           T == {t}
           f == MarkReleased(freed, T)
<1>3. SlotsInv /\ TypeOK BY DEF IInv
<1>4. s \in Slots BY <1>3 DEF SlotsInv, TaskInv, LeasePhases
<1>5. slot[s] \in SlotRecord BY <1>3, <1>4 DEF TypeOK
<1>6. HInv(s, b, home) BY <1>4, HereInv
<1>7. b.slot = slot[s] /\ b.phase = phase /\ b.lease = lease BY DEF Here
<1>9. owner \in Tasks \cup {None} /\ owner # t /\ owner \in {slot[s].activeLease, None}
  BY <1>5, PoolAssumption DEF SlotRecord
<1> HIDE DEF owner
<1>10. /\ freed \in HState /\ freed.phase = phase /\ freed.lease = lease
       /\ freed.slot.activeLease = owner /\ freed.slot.pending = slot[s].pending
       /\ freed.slot.inflight = slot[s].inflight /\ freed.slot.queue = slot[s].queue
       /\ freed.slot.state = slot[s].state /\ freed.slot.closing = slot[s].closing
       /\ freed.slot.awaits = slot[s].awaits
  <2> DEFINE sl == [slot[s] EXCEPT !.activeLease = owner]
  <2>1. /\ sl \in SlotRecord /\ sl.activeLease = owner /\ sl.pending = slot[s].pending
        /\ sl.inflight = slot[s].inflight /\ sl.queue = slot[s].queue
        /\ sl.state = slot[s].state /\ sl.closing = slot[s].closing /\ sl.awaits = slot[s].awaits
    BY <1>5, <1>9 DEF SlotRecord
  <2> HIDE DEF sl, b
  <2>2. freed = [b EXCEPT !.slot = sl] BY DEF sl
  <2>3. QED BY <1>6, <1>7, <2>1, <2>2 DEF HInv, HState
<1> HIDE DEF freed, b
<1>11. /\ f \in HState /\ f.slot = freed.slot /\ f.phase = phase
       /\ \A u \in Tasks : u # t => f.lease[u].released = lease[u].released
       /\ f.lease[t].released
  <2>1. \A u : u \in T <=> u = t OBVIOUS
  <2> HIDE DEF T
  <2>2. QED BY <1>10, <2>1, MarkReleasedType, MarkReleasedFacts
<1> HIDE DEF f
<1>12. SlotInv(s, slot[s], phase, lease, home) /\ TaskInv(phase, lease, home)
  BY <1>3, <1>4 DEF SlotsInv
<1>13. FreeIn(t, f.slot)
  BY <1>9, <1>10, <1>11, <1>12 DEF FreeIn, SlotInv, QueueInv, OwnerInv
<1>14. TaskInv(f.phase, f.lease, home) BY <1>11, <1>12 DEF TaskInv
<1> HIDE DEF s
<1>15. HInv(s, f, home)
  <2>1. \A u \in Tasks : \/ f.phase[u] = b.phase[u] /\ f.lease[u].released = b.lease[u].released
                         \/ FreeIn(u, f.slot)
    BY <1>7, <1>11, <1>13
  <2>2. /\ f.slot.queue = b.slot.queue /\ f.slot.state = b.slot.state
        /\ f.slot.closing = b.slot.closing /\ f.slot.awaits = b.slot.awaits
        /\ f.slot.activeLease \in {b.slot.activeLease, None}
        /\ f.slot.pending = b.slot.pending /\ f.slot.inflight = b.slot.inflight
    BY <1>7, <1>9, <1>10, <1>11
  <2>3. QED BY <1>6, <1>11, <1>14, <2>1, <2>2, ShrinkInv
<1>16. QED BY <1>4, <1>10, <1>11, <1>15 DEF f, freed, b, owner, s

\* The end of releaseLease(): the slot is freed and drained.
LEMMA FinishReleaseInv ==
  ASSUME IInv, NEW t \in Tasks, FinishRelease(t)
  PROVE  IInv'
<1> DEFINE s == home[t]
           b == Here(s)
           owner == IF slot[s].activeLease = t THEN None ELSE slot[s].activeLease
           freed == [b EXCEPT !.slot = [slot[s] EXCEPT !.activeLease = owner]]
           T == {t}
           f == MarkReleased(freed, T)
           d == DrainQueue(s, f)
           R == {Root(t)}
<1>1. /\ phase[t] \in {"releasing", "abandoning"}
      /\ UNCHANGED <<worker, roundRobin, closed, closeFailed, terminalError, aborted, home>>
  BY DEF FinishRelease, poolVars
<1>2. PICK v : /\ v \in {"aborted", "ok", "callbackError", result[Root(t)]}
               /\ v # "pending"
               /\ phase[t] = "abandoning" \/ v # "aborted" \/ result[Root(t)] = "aborted"
               /\ Commit(s, Settle(d, R, v))
  BY DEF FinishRelease
<1>3. SlotsInv /\ TypeOK BY DEF IInv
<1>4. /\ s \in Slots /\ HInv(s, f, home) /\ f.phase = phase
      /\ f.slot.state = slot[s].state /\ f.slot.closing = slot[s].closing
      /\ \A u \in Tasks : u # t => f.lease[u].released = lease[u].released
      /\ f.lease[t].released
  BY <1>1, ReleasedInv
<1>8. v \in Verdicts \cup {"none", "pending"}
  <2>1. Root(t) \in Requests BY PoolAssumption DEF Requests, Root
  <2>2. QED BY <1>2, <1>3, <2>1 DEF TypeOK, Verdicts
<1> HIDE DEF f, s, T
<1>16. HInv(s, d, home) /\ Frame(s, f, d, home) BY <1>4, DrainQueueInv
<1> HIDE DEF d
<1>17. d.phase[t] = phase[t] /\ d.lease[t].released
  BY <1>1, <1>4, <1>16 DEF Frame
<1>18. FreeIn(t, d.slot)
  <2>1. SlotInv(s, d.slot, d.phase, d.lease, home) /\ d.phase[t] # "waiting" BY <1>1, <1>16, <1>17 DEF HInv
  <2>2. Root(t) \notin d.slot.pending BY <2>1 DEF SlotInv, OwnerInv
  <2>3. \A i \in 1 .. Len(d.slot.queue) : d.slot.queue[i] # t BY <2>1 DEF SlotInv, QueueInv
  <2>4. d.slot.activeLease # t BY <1>17, <2>1, PoolAssumption DEF SlotInv, OwnerInv
  <2>5. QED BY <2>2, <2>3, <2>4 DEF FreeIn
<1> DEFINE g == Settle(d, R, v)
<1>19. \A u : Root(u) \in R <=> u = t BY DEF Root
<1> HIDE DEF R
<1>20. /\ g \in HState /\ g.slot = d.slot /\ g.lease = d.lease
       /\ \A u \in Tasks : g.phase[u] = IF u = t THEN "done" ELSE d.phase[u]
  <2>1. d \in HState BY <1>16 DEF HInv
  <2>2. /\ g.slot = d.slot /\ g.lease = d.lease
        /\ \A u \in Tasks : g.phase[u] = IF Root(u) \in R THEN "done" ELSE d.phase[u]
    BY <2>1, SettleFacts
  <2>3. g \in HState BY <1>8, <2>1, SettleType
  <2> HIDE DEF g
  <2>4. QED BY <1>19, <2>2, <2>3
<1> HIDE DEF g
<1>21. HInv(s, g, home)
  <2>1. TaskInv(g.phase, g.lease, home) BY <1>16, <1>20 DEF HInv, TaskInv, LeasePhases
  <2>2. SameWork(d.slot, g.slot) BY <1>20 DEF SameWork
  <2>3. /\ \A u \in T : FreeIn(u, d.slot)
        /\ \A u \in Tasks : u \notin T =>
             g.phase[u] = d.phase[u] /\ g.lease[u].released = d.lease[u].released
    BY <1>18, <1>20 DEF T
  <2>4. QED BY <1>16, <1>20, <2>1, <2>2, <2>3, RephaseInv
<1>22. \A u \in Tasks : home[u] # s =>
         g.phase[u] = phase[u] /\ g.lease[u].released = lease[u].released
  BY <1>4, <1>16, <1>20 DEF Frame, s
<1>23. /\ g.slot.closing = "open" <=> slot[s].closing = "open"
       /\ g.slot.state = slot[s].state
  BY <1>4, <1>16, <1>20 DEF Frame
<1>24. slot[s].state = "failed" => terminalError # None BY <1>3, <1>4 DEF SlotsInv
<1>25. Commit(s, g) BY <1>2 DEF g
<1>26. QED BY <1>1, <1>3, <1>4, <1>21, <1>22, <1>23, <1>24, <1>25, HandlerInv, OtherTables

\* A queue without its i-th entry.
LEMMA RemovedAt ==
  ASSUME NEW S, NEW q \in Seq(S), NEW i \in 1 .. Len(q)
  PROVE  LET p == SubSeq(q, 1, i - 1) \o SubSeq(q, i + 1, Len(q))
         IN /\ p \in Seq(S)
            /\ Len(p) = Len(q) - 1
            /\ \A j \in 1 .. Len(p) : p[j] = IF j < i THEN q[j] ELSE q[j + 1]
<1> DEFINE a == SubSeq(q, 1, i - 1)
           b == SubSeq(q, i + 1, Len(q))
           p == a \o b
<1>0. Len(q) \in Nat /\ i \in Nat OBVIOUS
<1>1. \A j \in 1 .. Len(q) : q[j] \in S BY ElementOfSeq
<1>2. /\ a \in Seq(S) /\ Len(a) = i - 1
      /\ \A j \in 1 .. i - 1 : a[j] = q[j]
  BY <1>0, <1>1, SubSeqProperties
<1>3. /\ b \in Seq(S) /\ Len(b) = Len(q) - i
      /\ \A j \in 1 .. Len(q) - i : b[j] = q[i + j]
  BY <1>0, <1>1, SubSeqProperties
<1> HIDE DEF a, b
<1>4. /\ p \in Seq(S) /\ Len(p) = Len(a) + Len(b)
      /\ \A j \in 1 .. Len(a) + Len(b) : p[j] = IF j <= Len(a) THEN a[j] ELSE b[j - Len(a)]
  BY <1>2, <1>3, ConcatProperties
<1> HIDE DEF p
<1>5. Len(p) = Len(q) - 1 BY <1>0, <1>2, <1>3, <1>4
<1>6. ASSUME NEW j \in 1 .. Len(p)
      PROVE  p[j] = IF j < i THEN q[j] ELSE q[j + 1]
  <2>1. CASE j < i BY <1>0, <1>2, <1>3, <1>4, <2>1
  <2>2. CASE ~(j < i)
    <3>1. j - Len(a) \in 1 .. Len(q) - i /\ i + (j - Len(a)) = j + 1
      BY <1>0, <1>2, <1>5, <2>2
    <3>2. p[j] = b[j - Len(a)] BY <1>0, <1>2, <1>3, <1>4, <2>2
    <3>3. QED BY <1>3, <2>2, <3>1, <3>2
  <2>3. QED BY <2>1, <2>2
<1>7. QED BY <1>4, <1>5, <1>6 DEF a, b, p

\* A queued call is taken out of its FIFO and rejected.
LEMMA RemovedInv ==
  ASSUME IInv, NEW t \in Tasks, Kind[t] # "close", phase[t] = "waiting",
         NEW i \in 1 .. Len(slot[home[t]].queue), slot[home[t]].queue[i] = t
  PROVE  LET s == home[t]
             q == slot[s].queue
             g == RejectQueued([Here(s) EXCEPT !.slot = [slot[s] EXCEPT !.queue =
                    SubSeq(q, 1, i - 1) \o SubSeq(q, i + 1, Len(q))]], {t}, "aborted")
         IN s \in Slots /\ HInv(s, g, home) /\ Frame(s, Here(s), g, home)
<1> DEFINE s == home[t]
           q == slot[s].queue
           b == Here(s)
<1>2. q[i] = t /\ i \in 1 .. Len(q) OBVIOUS
<1>3. SlotsInv /\ TypeOK BY DEF IInv
<1>4. s \in Slots BY <1>3 DEF SlotsInv, TaskInv
<1>5. slot[s] \in SlotRecord BY <1>3, <1>4 DEF TypeOK
<1>6. HInv(s, b, home) BY <1>4, HereInv
<1>7. b.slot = slot[s] /\ b.phase = phase /\ b.lease = lease BY DEF Here
<1>8. /\ FlightInv(slot[s]) /\ QueueInv(s, slot[s], phase, home)
      /\ OwnerInv(s, slot[s], phase, lease, home) /\ CloseInv(slot[s])
      /\ TaskInv(phase, lease, home)
  BY <1>3, <1>4 DEF SlotsInv, SlotInv
<1> DEFINE p == SubSeq(q, 1, i - 1) \o SubSeq(q, i + 1, Len(q))
           sl == [slot[s] EXCEPT !.queue = p]
           f == [b EXCEPT !.slot = sl]
           T == {t}
           g == RejectQueued(f, T, "aborted")
<1>10. q \in Seq(Tasks) /\ Len(q) \in Nat BY <1>5 DEF SlotRecord
<1>11. /\ p \in Seq(Tasks) /\ Len(p) = Len(q) - 1
       /\ \A j \in 1 .. Len(p) : p[j] = IF j < i THEN q[j] ELSE q[j + 1]
  <2> HIDE DEF q
  <2> QED BY <1>2, <1>10, RemovedAt
<1> HIDE DEF p
<1>12. /\ sl \in SlotRecord /\ sl.queue = p /\ sl.pending = slot[s].pending
       /\ sl.inflight = slot[s].inflight /\ sl.activeLease = slot[s].activeLease
       /\ sl.state = slot[s].state /\ sl.closing = slot[s].closing /\ sl.awaits = slot[s].awaits
  BY <1>5, <1>11 DEF SlotRecord
<1> HIDE DEF sl, b
<1>13. f \in HState /\ f.slot = sl /\ f.phase = phase /\ f.lease = lease
  BY <1>6, <1>7, <1>12 DEF HInv, HState
<1>14. \A u : u \in T <=> u = t OBVIOUS
<1> HIDE DEF f, T
<1>15. /\ g \in HState /\ g.slot = sl
       /\ \A u \in Tasks : g.phase[u] = IF u = t THEN "done" ELSE phase[u]
       /\ \A u \in Tasks : u # t => g.lease[u].released = lease[u].released
  <2>1. "aborted" \in Verdicts BY DEF Verdicts
  <2>2. g \in HState BY <1>13, <2>1, RejectQueuedType
  <2>3. QED BY <1>13, <1>14, <2>2, RejectQueuedFacts
<1> HIDE DEF g
<1>16. QueueInv(s, g.slot, g.phase, home)
  <2>1. \A j \in 1 .. Len(q) :
          /\ q[j] \in Tasks /\ home[q[j]] = s /\ Kind[q[j]] # "close" /\ phase[q[j]] = "waiting"
          /\ Root(q[j]) \notin slot[s].pending
    BY <1>8, <1>10, ElementOfSeq DEF QueueInv
  <2>2. \A j, k \in 1 .. Len(q) : q[j] = q[k] => j = k BY <1>8 DEF QueueInv
  <2> HIDE DEF q
  <2>3. ASSUME NEW j \in 1 .. Len(p)
        PROVE  \E k \in 1 .. Len(q) : p[j] = q[k] /\ k # i /\ (j < i => k = j) /\ (~(j < i) => k = j + 1)
    <3>1. CASE j < i BY <1>10, <1>11, <3>1
    <3>2. CASE ~(j < i) BY <1>10, <1>11, <3>2
    <3>3. QED BY <3>1, <3>2
  <2>4. \A j \in 1 .. Len(p) : p[j] # t BY <1>2, <2>2, <2>3
  <2>5. \A j \in 1 .. Len(p) :
          /\ p[j] \in Tasks /\ home[p[j]] = s /\ Kind[p[j]] # "close" /\ phase[p[j]] = "waiting"
          /\ Root(p[j]) \notin slot[s].pending
    BY <2>1, <2>3
  <2>6. ASSUME NEW j \in 1 .. Len(p), NEW k \in 1 .. Len(p), p[j] = p[k]
        PROVE  j = k
    <3>1. PICK m \in 1 .. Len(q) : p[j] = q[m] /\ (j < i => m = j) /\ (~(j < i) => m = j + 1)
      BY <2>3
    <3>2. PICK n \in 1 .. Len(q) : p[k] = q[n] /\ (k < i => n = k) /\ (~(k < i) => n = k + 1)
      BY <2>3
    <3>3. m = n BY <2>2, <2>6, <3>1, <3>2
    <3>4. QED BY <1>10, <1>11, <3>1, <3>2, <3>3
  <2>7. QED BY <1>12, <1>15, <2>4, <2>5, <2>6 DEF QueueInv
<1>17. q # <<>> BY <1>2, <1>10
<1>18. FlightInv(g.slot) /\ CloseInv(g.slot)
  BY <1>8, <1>12, <1>15, <1>17 DEF FlightInv, CloseInv
<1>19. Root(t) \notin slot[s].pending BY <1>2, <1>8 DEF QueueInv
<1>20. OwnerInv(s, g.slot, g.phase, g.lease, home)
  <2>1. slot[s].activeLease # None => slot[s].activeLease \in Tasks /\ slot[s].activeLease # t
    BY <1>5, <1>8 DEF OwnerInv, SlotRecord, LeasePhases
  <2>2. QED BY <1>8, <1>12, <1>15, <1>19, <2>1 DEF OwnerInv
<1>21. TaskInv(g.phase, g.lease, home) BY <1>8, <1>15 DEF TaskInv, LeasePhases
<1>22. HInv(s, g, home) BY <1>15, <1>16, <1>18, <1>20, <1>21 DEF HInv, SlotInv
<1>23. Frame(s, b, g, home) BY <1>7, <1>12, <1>15 DEF Frame
<1>24. QED BY <1>4, <1>22, <1>23 DEF g, f, b, sl, p, q, s, T

\* The abort listener of a queued call.
LEMMA AbortQueuedInv ==
  ASSUME IInv, NEW t \in Tasks, AbortQueued(t)
  PROVE  IInv'
<1> DEFINE s == home[t]
           q == slot[s].queue
           b == Here(s)
<1>1. /\ Kind[t] # "close" /\ aborted' = [aborted EXCEPT ![t] = TRUE] /\ phase[t] = "waiting"
      /\ UNCHANGED <<worker, roundRobin, closed, closeFailed, terminalError, home>>
  BY PoolAssumption DEF AbortQueued, poolVars
<1>2. PICK i \in 1 .. Len(q) :
        /\ q[i] = t
        /\ Commit(s, DrainQueue(s, RejectQueued(
             [b EXCEPT !.slot = [slot[s] EXCEPT
                !.queue = SubSeq(q, 1, i - 1) \o SubSeq(q, i + 1, Len(q))]],
             {t}, "aborted")))
  BY DEF AbortQueued
<1> DEFINE g == RejectQueued([b EXCEPT !.slot = [slot[s] EXCEPT
                  !.queue = SubSeq(q, 1, i - 1) \o SubSeq(q, i + 1, Len(q))]], {t}, "aborted")
           d == DrainQueue(s, g)
<1>3. s \in Slots /\ HInv(s, g, home) /\ Frame(s, b, g, home) BY <1>1, <1>2, RemovedInv
<1>4. Commit(s, d) BY <1>2
<1> HIDE DEF g, b, s
<1>5. HInv(s, d, home) /\ Frame(s, g, d, home) BY <1>3, DrainQueueInv
<1> HIDE DEF d
<1>6. Frame(s, b, d, home) BY <1>3, <1>5, FrameTrans
<1>7. aborted' \in [Tasks -> BOOLEAN] BY <1>1 DEF IInv, TypeOK
<1>8. QED BY <1>1, <1>3, <1>4, <1>5, <1>6, <1>7, FrameHandlerInv DEF b

-----------------------------------------------------------------------------
(* The listeners on worker events.                                          *)

\* A request in flight is taken out and its promise settled.
LEMMA AnsweredInv ==
  ASSUME IInv, NEW s \in Slots, NEW r \in Requests,
         slot[s].state = "running", r \in slot[s].pending, NEW v \in {"ok", "workerError"}
  PROVE  LET sl == [slot[s] EXCEPT !.posted = slot[s].posted \ {r}]
             taken == [Here(s) EXCEPT !.slot =
                         [sl EXCEPT !.pending = sl.pending \ {r}, !.inflight = sl.inflight - 1]]
             n == NotifyPendingDrained(Settle(taken, {r}, v))
         IN HInv(s, n, home) /\ Frame(s, Here(s), n, home)
<1> DEFINE b == Here(s)
           left == slot[s].posted \ {r}
           sl == [slot[s] EXCEPT !.posted = left]
           tk == [sl EXCEPT !.pending = sl.pending \ {r}, !.inflight = sl.inflight - 1]
           taken == [b EXCEPT !.slot = tk]
           R == {r}
           f == Settle(taken, R, v)
           n == NotifyPendingDrained(f)
<1>1. HInv(s, b, home) BY HereInv
<1>2. b.slot = slot[s] /\ b.phase = phase /\ b.lease = lease BY DEF Here
<1>3. slot[s] \in SlotRecord BY DEF IInv, TypeOK
<1>4. /\ sl \in SlotRecord /\ SameWork(slot[s], sl)
  <2>1. left \in SUBSET Requests BY <1>3 DEF SlotRecord
  <2> HIDE DEF left
  <2>2. QED BY <1>3, <2>1 DEF SlotRecord, SameWork
<1> HIDE DEF sl, b
<1>5. slot[s].state = "running" /\ r \in slot[s].pending OBVIOUS
<1>6. /\ FlightInv(slot[s]) /\ QueueInv(s, slot[s], phase, home)
      /\ OwnerInv(s, slot[s], phase, lease, home) /\ CloseInv(slot[s])
      /\ TaskInv(phase, lease, home)
  BY DEF IInv, SlotsInv, SlotInv
<1>7. slot[s].pending = {r} /\ slot[s].inflight = 1 BY <1>5, <1>6 DEF FlightInv
<1>8. tk = [sl EXCEPT !.pending = {}, !.inflight = 0]
  <2>1. sl.pending = {r} /\ sl.inflight = 1 BY <1>4, <1>7 DEF SameWork
  <2>2. sl.pending \ {r} = {} /\ sl.inflight - 1 = 0 BY <2>1
  <2>3. QED BY <2>2
<1>9. /\ tk \in SlotRecord /\ tk.pending = {} /\ tk.inflight = 0
      /\ tk.queue = slot[s].queue /\ tk.state = slot[s].state
      /\ tk.closing = slot[s].closing /\ tk.awaits = slot[s].awaits
      /\ tk.activeLease = slot[s].activeLease
  <2>1. {} \in SUBSET Requests /\ 0 \in Int OBVIOUS
  <2> HIDE DEF tk
  <2>2. QED BY <1>4, <1>8, <2>1 DEF SlotRecord, SameWork
<1> HIDE DEF tk
<1>10. taken \in HState /\ taken.slot = tk /\ taken.phase = phase /\ taken.lease = lease
  BY <1>1, <1>2, <1>9 DEF HInv, HState
<1>11. \A u : Root(u) \in R <=> Root(u) = r OBVIOUS
<1> HIDE DEF taken, R
<1>12. /\ f \in HState /\ f.slot = tk /\ f.lease = lease
      /\ \A u \in Tasks : f.phase[u] = IF Root(u) = r THEN "done" ELSE phase[u]
  <2>1. v \in Verdicts \cup {"none", "pending"} BY DEF Verdicts
  <2>2. f \in HState BY <1>10, <2>1, SettleType
  <2>3. /\ f.slot = taken.slot /\ f.lease = taken.lease
        /\ \A u \in Tasks : f.phase[u] = IF Root(u) \in R THEN "done" ELSE taken.phase[u]
    BY <1>10, SettleFacts
  <2> HIDE DEF f
  <2>4. QED BY <1>10, <1>11, <2>2, <2>3
<1> HIDE DEF f
<1>13. \A u \in Tasks : Root(u) = r => home[u] = s /\ phase[u] = "waiting" /\ FreeIn(u, tk)
  <2>1. SUFFICES ASSUME NEW u \in Tasks, Root(u) = r
                 PROVE  home[u] = s /\ phase[u] = "waiting" /\ FreeIn(u, tk)
    OBVIOUS
  <2>2. home[u] = s /\ phase[u] = "waiting" BY <1>6, <1>7, <2>1 DEF OwnerInv
  <2>3. \A j \in 1 .. Len(slot[s].queue) : slot[s].queue[j] # u BY <1>6, <1>7, <2>1 DEF QueueInv
  <2>4. slot[s].activeLease # u BY <1>6, <2>2, PoolAssumption DEF OwnerInv, LeasePhases
  <2>5. QED BY <1>9, <2>2, <2>3, <2>4 DEF FreeIn
<1>14. HInv(s, f, home)
  <2>1. TaskInv(f.phase, f.lease, home) BY <1>6, <1>12 DEF TaskInv, LeasePhases
  <2>2. \A u \in Tasks : \/ f.phase[u] = b.phase[u] /\ f.lease[u].released = b.lease[u].released
                         \/ FreeIn(u, f.slot)
    BY <1>2, <1>12, <1>13
  <2>3. /\ f.slot.queue = b.slot.queue /\ f.slot.state = b.slot.state
        /\ f.slot.closing = b.slot.closing /\ f.slot.awaits = b.slot.awaits
        /\ f.slot.activeLease \in {b.slot.activeLease, None}
        /\ f.slot.pending = {} /\ f.slot.inflight = 0
    BY <1>2, <1>9, <1>12
  <2>4. QED BY <1>1, <1>12, <2>1, <2>2, <2>3, ShrinkInv
<1>15. Frame(s, b, f, home) BY <1>2, <1>9, <1>12, <1>13 DEF Frame
<1>16. HInv(s, n, home) /\ Frame(s, f, n, home) BY <1>14, NotifyInv
<1> HIDE DEF n
<1>17. Frame(s, b, n, home) BY <1>15, <1>16, FrameTrans
<1>18. QED BY <1>16, <1>17 DEF n, f, taken, tk, sl, left, R, b

\* The "message" listener of a slot.
LEMMA OnMessageInv ==
  ASSUME IInv, NEW s \in Slots, NEW r \in Requests, OnMessage(s, r)
  PROVE  IInv'
<1> DEFINE b == Here(s)
           left == slot[s].posted \ {r}
           sl == [slot[s] EXCEPT !.posted = left]
           tk == [sl EXCEPT !.pending = sl.pending \ {r}, !.inflight = sl.inflight - 1]
           taken == [b EXCEPT !.slot = tk]
           R == {r}
           known == slot[s].state = "running" /\ r \in slot[s].pending
<1>1. UNCHANGED <<worker, roundRobin, closed, closeFailed, terminalError, aborted, home>>
  BY DEF OnMessage, poolVars
<1>2. PICK v \in {"ok", "workerError"} :
        Commit(s, IF known THEN DrainQueue(s, NotifyPendingDrained(Settle(taken, R, v)))
                  ELSE [b EXCEPT !.slot = sl])
  BY DEF OnMessage
<1>3. HInv(s, b, home) BY HereInv
<1>4. b.slot = slot[s] /\ b.phase = phase /\ b.lease = lease BY DEF Here
<1>5. slot[s] \in SlotRecord /\ aborted' \in [Tasks -> BOOLEAN] BY <1>1 DEF IInv, TypeOK
<1>6. /\ sl \in SlotRecord /\ SameWork(slot[s], sl)
  <2>1. left \in SUBSET Requests BY <1>5 DEF SlotRecord
  <2> HIDE DEF left
  <2>2. QED BY <1>5, <2>1 DEF SlotRecord, SameWork
<1> HIDE DEF b
<1>7. CASE ~known
  <2> DEFINE g == [b EXCEPT !.slot = sl]
  <2>1. Commit(s, g) BY <1>2, <1>7
  <2> HIDE DEF sl
  <2>2. g \in HState /\ g.slot = sl /\ g.phase = b.phase /\ g.lease = b.lease
    BY <1>3, <1>6 DEF HInv, HState
  <2> HIDE DEF g
  <2>3. HInv(s, g, home) /\ Frame(s, b, g, home) BY <1>3, <1>4, <1>6, <2>2, SameWorkInv
  <2>4. QED BY <1>1, <1>5, <2>1, <2>3, FrameHandlerInv DEF b
<1>8. CASE known
  <2> DEFINE n == NotifyPendingDrained(Settle(taken, R, v))
             d == DrainQueue(s, n)
  <2>1. Commit(s, d) BY <1>2, <1>8
  <2>2. HInv(s, n, home) /\ Frame(s, b, n, home) BY <1>8, AnsweredInv DEF b
  <2> HIDE DEF n
  <2>13. HInv(s, d, home) /\ Frame(s, n, d, home) BY <2>2, DrainQueueInv
  <2> HIDE DEF d
  <2>14. Frame(s, b, d, home) BY <2>2, <2>13, FrameTrans
  <2>15. QED BY <1>1, <1>5, <2>1, <2>13, <2>14, FrameHandlerInv DEF b
<1>9. QED BY <1>7, <1>8

\* failSlot() of a running slot keeps the invariant and touches no other slot's calls.
LEMMA FailSlotInv ==
  ASSUME IInv, NEW s \in Slots, slot[s].state = "running"
  PROVE  /\ HInv(s, FailSlot(s), home)
         /\ \A u \in Tasks : home[u] # s =>
              /\ FailSlot(s).phase[u] = phase[u]
              /\ FailSlot(s).lease[u].released = lease[u].released
         /\ FailSlot(s).slot.closing = "open" <=> slot[s].closing = "open"
<1> DEFINE b == Here(s)
           sl == slot[s]
           t == sl.activeLease
           owned == IF t = None THEN {} ELSE Elems(lease[t].queue)
           dead == [sl EXCEPT !.state = "failed", !.listening = FALSE,
                              !.pending = {}, !.inflight = 0, !.queue = <<>>]
           ls == IF t = None THEN lease
                 ELSE [lease EXCEPT ![t] = [lease[t] EXCEPT !.queue = <<>>]]
           down == [b EXCEPT !.slot = dead, !.lease = ls]
           T == Elems(sl.queue)
           R == owned \cup sl.pending
           f == RejectQueued(down, T, "terminal")
           g == Settle(f, R, "terminal")
<1>1. FailSlot(s) = NotifyPendingDrained(g) BY DEF FailSlot
<1>2. TypeOK /\ sl \in SlotRecord /\ lease \in [Tasks -> LeaseRecord] BY DEF IInv, TypeOK
<1>3. /\ FlightInv(sl) /\ QueueInv(s, sl, phase, home)
      /\ OwnerInv(s, sl, phase, lease, home) /\ CloseInv(sl)
      /\ TaskInv(phase, lease, home)
  BY DEF IInv, SlotsInv, SlotInv
<1>4. b \in HState /\ b.phase = phase BY <1>2, HereType DEF Here
<1>5. /\ dead \in SlotRecord /\ dead.pending = {} /\ dead.inflight = 0 /\ dead.queue = <<>>
      /\ dead.state = "failed" /\ dead.closing = sl.closing /\ dead.activeLease = t
      /\ dead.awaits = sl.awaits
  <2>1. <<>> \in Seq(Tasks) /\ {} \in SUBSET Requests /\ 0 \in Int OBVIOUS
  <2> HIDE DEF sl
  <2>2. QED BY <1>2, <2>1 DEF SlotRecord
<1>6. ls \in [Tasks -> LeaseRecord] /\ \A u \in Tasks : ls[u].released = lease[u].released
  <2>1. CASE t = None BY <1>2, <2>1
  <2>2. CASE t # None
    <3>1. t \in Tasks BY <1>2, <2>2 DEF SlotRecord
    <3> HIDE DEF t
    <3> DEFINE l == [lease[t] EXCEPT !.queue = <<>>]
    <3>2. l \in LeaseRecord /\ l.released = lease[t].released
      <4>1. lease[t] \in LeaseRecord /\ <<>> \in Seq(Calls) BY <1>2, <3>1
      <4>2. QED BY <4>1 DEF LeaseRecord
    <3>3. ls = [lease EXCEPT ![t] = l] BY <2>2
    <3> HIDE DEF l, ls
    <3>4. QED BY <1>2, <3>1, <3>2, <3>3
  <2>3. QED BY <2>1, <2>2
<1>7. \A u \in Tasks : Root(u) \in R => home[u] = s /\ phase[u] = "waiting"
  <2>1. \A u : Root(u) \notin owned
    <3>1. CASE t = None BY <3>1
    <3>2. CASE t # None
      <4>1. t \in Tasks BY <1>2, <3>2 DEF SlotRecord
      <4>2. lease[t].queue \in Seq(Calls) BY <1>2, <4>1 DEF LeaseRecord
      <4>3. \A i \in 1 .. Len(lease[t].queue) : lease[t].queue[i] \in Calls BY <4>2, ElementOfSeq
      <4>4. \A u : Root(u) \notin Calls BY DEF Root, Calls
      <4>5. owned = Elems(lease[t].queue) BY <3>2
      <4> HIDE DEF owned, t
      <4>6. QED BY <4>3, <4>4, <4>5 DEF Elems
    <3>3. QED BY <3>1, <3>2
  <2> HIDE DEF owned
  <2>2. QED BY <1>3, <2>1 DEF OwnerInv
<1>8. \A u \in T : u \in Tasks /\ home[u] = s /\ phase[u] = "waiting"
  <2>1. sl.queue \in Seq(Tasks) BY <1>2 DEF SlotRecord
  <2>2. QED BY <1>3, <2>1, ElementOfSeq DEF QueueInv, Elems
<1> HIDE DEF R, T, ls, dead, b
<1>9. down \in HState /\ down.slot = dead /\ down.phase = phase /\ down.lease = ls
  BY <1>4, <1>5, <1>6 DEF HState
<1> HIDE DEF down
<1>10. "terminal" \in Verdicts BY DEF Verdicts
<1>11. /\ f \in HState /\ f.slot = dead
       /\ \A u \in Tasks : f.phase[u] = IF u \in T THEN "done" ELSE phase[u]
       /\ \A u \in Tasks : u \notin T => f.lease[u].released = lease[u].released
  <2>1. f \in HState BY <1>9, <1>10, RejectQueuedType
  <2>2. /\ f.slot = down.slot
        /\ \A u \in Tasks : f.phase[u] = IF u \in T THEN "done" ELSE down.phase[u]
        /\ \A u \in Tasks : u \notin T => f.lease[u].released = down.lease[u].released
    BY <1>9, RejectQueuedFacts
  <2> HIDE DEF f
  <2>3. QED BY <1>6, <1>9, <2>1, <2>2
<1> HIDE DEF f
<1>12. /\ g \in HState /\ g.slot = dead
       /\ \A u \in Tasks : g.phase[u] = phase[u] \/ (phase[u] = "waiting" /\ home[u] = s /\ g.phase[u] = "done")
       /\ \A u \in Tasks : g.lease[u].released = lease[u].released
                           \/ (phase[u] = "waiting" /\ home[u] = s /\ g.phase[u] = "done")
  <2>1. g \in HState BY <1>10, <1>11, SettleType
  <2>2. /\ g.slot = f.slot /\ g.lease = f.lease
        /\ \A u \in Tasks : g.phase[u] = IF Root(u) \in R THEN "done" ELSE f.phase[u]
    BY <1>11, SettleFacts
  <2> HIDE DEF g
  <2>3. QED BY <1>7, <1>8, <1>11, <2>1, <2>2
<1> HIDE DEF g
<1>13. FlightInv(g.slot) BY <1>5, <1>12 DEF FlightInv
<1>14. QueueInv(s, g.slot, g.phase, home)
  <2>1. Len(g.slot.queue) = 0 BY <1>5, <1>12
  <2>2. QED BY <2>1 DEF QueueInv
<1>15. OwnerInv(s, g.slot, g.phase, g.lease, home)
  <2>1. t # None => t \in Tasks BY <1>2 DEF SlotRecord
  <2>2. QED BY <1>3, <1>5, <1>12, <2>1 DEF OwnerInv, LeasePhases
<1>16. CloseInv(g.slot) BY <1>3, <1>5, <1>12 DEF CloseInv
<1>17. TaskInv(g.phase, g.lease, home) BY <1>3, <1>12 DEF TaskInv, LeasePhases
<1>18. HInv(s, g, home) BY <1>12, <1>13, <1>14, <1>15, <1>16, <1>17 DEF HInv, SlotInv
<1> DEFINE n == NotifyPendingDrained(g)
<1>19. HInv(s, n, home) /\ Frame(s, g, n, home) BY <1>18, NotifyInv
<1> HIDE DEF n
<1>20. \A u \in Tasks : home[u] # s =>
         n.phase[u] = phase[u] /\ n.lease[u].released = lease[u].released
  BY <1>12, <1>19 DEF Frame
<1>21. n.slot.closing = "open" <=> slot[s].closing = "open" BY <1>5, <1>12, <1>19 DEF Frame
<1>22. QED BY <1>1, <1>19, <1>20, <1>21 DEF n

\* What both listeners do when the slot is running.
LEMMA HandleSlotTerminalInv ==
  ASSUME IInv, NEW s \in Slots, slot[s].state = "running", HandleSlotTerminal(s),
         UNCHANGED <<roundRobin, closed, closeFailed, aborted, home>>,
         worker' \in [Slots -> {"up", "threw", "exited", "gone"}]
  PROVE  IInv'
<1> DEFINE g == FailSlot(s)
<1>1. /\ Commit(s, g)
      /\ terminalError' = IF terminalError = None THEN s ELSE terminalError
  BY DEF HandleSlotTerminal
<1>2. /\ HInv(s, g, home)
      /\ \A u \in Tasks : home[u] # s =>
           g.phase[u] = phase[u] /\ g.lease[u].released = lease[u].released
      /\ g.slot.closing = "open" <=> slot[s].closing = "open"
  BY FailSlotInv
<1> HIDE DEF g
<1>3. terminalError' \in Slots \cup {None} /\ terminalError' # None
  BY <1>1, PoolAssumption DEF IInv, TypeOK
<1>4. TypeOK BY DEF IInv
<1>5. QED BY <1>1, <1>2, <1>3, <1>4, HandlerInv, OtherTables

\* The "error" listener of a slot.
LEMMA OnErrorInv ==
  ASSUME IInv, NEW s \in Slots, OnError(s)
  PROVE  IInv'
<1>1. /\ worker' = [worker EXCEPT ![s] = "exited"]
      /\ UNCHANGED <<roundRobin, closed, closeFailed, aborted, home>>
  BY DEF OnError
<1>2. worker' \in [Slots -> {"up", "threw", "exited", "gone"}] BY <1>1 DEF IInv, TypeOK
<1>3. CASE slot[s].state = "running" /\ HandleSlotTerminal(s)
  BY <1>1, <1>2, <1>3, HandleSlotTerminalInv
<1>4. CASE UNCHANGED Handled
  <2>1. UNCHANGED <<slot, terminalError, phase, lease, result, untracked>> BY <1>4 DEF Handled
  <2>2. SlotsInv' BY <1>1, <2>1, QuietInv
  <2>3. TypeOK' BY <1>1, <1>2, <2>1 DEF IInv, TypeOK
  <2>4. QED BY <2>2, <2>3 DEF IInv
<1>5. QED BY <1>3, <1>4 DEF OnError

\* Only the close protocol of a slot moves on.
LEMMA CloseFieldsInv ==
  ASSUME IInv, NEW s \in Slots, NEW sl \in SlotRecord,
         sl.pending = slot[s].pending, sl.inflight = slot[s].inflight,
         sl.queue = slot[s].queue, sl.activeLease = slot[s].activeLease,
         CloseInv(sl)
  PROVE  LET g == [Here(s) EXCEPT !.slot = sl]
         IN /\ HInv(s, g, home)
            /\ g.slot = sl /\ g.phase = phase /\ g.lease = lease
            /\ g.result = result /\ g.untracked = untracked
<1> DEFINE b == Here(s)
           g == [b EXCEPT !.slot = sl]
<1>1. HInv(s, b, home) BY HereInv
<1>2. b.slot = slot[s] /\ b.phase = phase /\ b.lease = lease /\ b.result = result
      /\ b.untracked = untracked
  BY DEF Here
<1> HIDE DEF b
<1>3. /\ g \in HState /\ g.slot = sl /\ g.phase = phase /\ g.lease = lease
      /\ g.result = result /\ g.untracked = untracked
  BY <1>1, <1>2 DEF HInv, HState
<1> HIDE DEF g
<1>4. /\ FlightInv(slot[s]) /\ QueueInv(s, slot[s], phase, home)
      /\ OwnerInv(s, slot[s], phase, lease, home) /\ TaskInv(phase, lease, home)
  BY <1>1, <1>2 DEF HInv, SlotInv
<1>5. FlightInv(sl) BY <1>4 DEF FlightInv
<1>6. QueueInv(s, sl, phase, home) BY <1>4 DEF QueueInv
<1>7. OwnerInv(s, sl, phase, lease, home) BY <1>4 DEF OwnerInv
<1>8. QED BY <1>3, <1>4, <1>5, <1>6, <1>7 DEF HInv, SlotInv, g, b

\* The same, with notifyPendingDrained() at the end.
LEMMA CloseStepInv ==
  ASSUME IInv, NEW s \in Slots, NEW sl \in SlotRecord,
         sl.pending = slot[s].pending, sl.inflight = slot[s].inflight,
         sl.queue = slot[s].queue, sl.activeLease = slot[s].activeLease,
         sl.state # "failed", sl.closing # "open", slot[s].closing # "open",
         CloseInv(sl),
         Commit(s, NotifyPendingDrained([Here(s) EXCEPT !.slot = sl])),
         UNCHANGED <<roundRobin, closed, terminalError, aborted, home>>,
         worker' \in [Slots -> {"up", "threw", "exited", "gone"}], closeFailed' \in BOOLEAN
  PROVE  IInv'
<1> DEFINE h == [Here(s) EXCEPT !.slot = sl]
           g == NotifyPendingDrained(h)
<1>1. HInv(s, h, home) /\ h.slot = sl /\ h.phase = phase /\ h.lease = lease
  BY CloseFieldsInv
<1>2. Commit(s, g) OBVIOUS
<1> HIDE DEF h
<1>3. HInv(s, g, home) /\ Frame(s, h, g, home) BY <1>1, NotifyInv
<1> HIDE DEF g
<1>4. /\ g.slot.state # "failed" /\ g.slot.closing # "open"
      /\ \A u \in Tasks : home[u] # s =>
           g.phase[u] = phase[u] /\ g.lease[u].released = lease[u].released
  BY <1>1, <1>3 DEF Frame
<1>5. TypeOK BY DEF IInv
<1>6. QED BY <1>2, <1>3, <1>4, <1>5, HandlerInv, OtherTables

\* The "exit" listener of a slot.
LEMMA OnExitInv ==
  ASSUME IInv, NEW s \in Slots, OnExit(s)
  PROVE  IInv'
<1> DEFINE sl == [slot[s] EXCEPT !.state = "closed", !.listening = FALSE]
<1>1. /\ worker' = [worker EXCEPT ![s] = "gone"]
      /\ UNCHANGED <<roundRobin, closed, closeFailed, aborted, home>>
  BY DEF OnExit
<1>2. /\ worker' \in [Slots -> {"up", "threw", "exited", "gone"}]
      /\ slot[s] \in SlotRecord /\ closeFailed' \in BOOLEAN
  BY <1>1 DEF IInv, TypeOK
<1>3. CASE slot[s].state = "running" /\ HandleSlotTerminal(s)
  BY <1>1, <1>2, <1>3, HandleSlotTerminalInv
<1>4. CASE /\ slot[s].state = "terminating"
           /\ Commit(s, NotifyPendingDrained([Here(s) EXCEPT !.slot = sl]))
           /\ UNCHANGED terminalError
  <2>1. CloseInv(slot[s]) BY DEF IInv, SlotsInv, SlotInv
  <2>2. /\ sl \in SlotRecord /\ sl.pending = slot[s].pending /\ sl.inflight = slot[s].inflight
        /\ sl.queue = slot[s].queue /\ sl.activeLease = slot[s].activeLease
        /\ sl.state = "closed" /\ sl.closing = slot[s].closing /\ sl.awaits = slot[s].awaits
    BY <1>2 DEF SlotRecord
  <2> HIDE DEF sl
  <2>3. slot[s].closing \in {"terminating", "done"} BY <1>4, <2>1 DEF CloseInv
  <2>4. CloseInv(sl) BY <1>4, <2>1, <2>2, <2>3 DEF CloseInv
  <2>5. QED BY <1>1, <1>2, <1>4, <2>2, <2>3, <2>4, CloseStepInv
<1>5. CASE UNCHANGED Handled
  <2>1. UNCHANGED <<slot, terminalError, phase, lease, result, untracked>> BY <1>5 DEF Handled
  <2>2. SlotsInv' BY <1>1, <2>1, QuietInv
  <2>3. TypeOK' BY <1>1, <1>2, <2>1 DEF IInv, TypeOK
  <2>4. QED BY <2>2, <2>3 DEF IInv
<1>6. QED BY <1>3, <1>4, <1>5 DEF OnExit

-----------------------------------------------------------------------------
(* close().                                                                 *)

\* The finally block of terminateSlot().
LEMMA TerminateReturnsInv ==
  ASSUME IInv, NEW s \in Slots, TerminateReturns(s)
  PROVE  IInv'
<1> DEFINE sl == [slot[s] EXCEPT !.state = "closed", !.listening = FALSE, !.closing = "done"]
<1>1. /\ slot[s].closing = "terminating"
      /\ closeFailed' = closeFailed \/ closeFailed' = TRUE
      /\ Commit(s, NotifyPendingDrained([Here(s) EXCEPT !.slot = sl]))
      /\ UNCHANGED <<worker, roundRobin, closed, terminalError, aborted, home>>
  BY DEF TerminateReturns
<1>2. /\ worker' \in [Slots -> {"up", "threw", "exited", "gone"}]
      /\ slot[s] \in SlotRecord /\ closeFailed' \in BOOLEAN
  BY <1>1 DEF IInv, TypeOK
<1>3. CloseInv(slot[s]) BY DEF IInv, SlotsInv, SlotInv
<1>4. /\ sl \in SlotRecord /\ sl.pending = slot[s].pending /\ sl.inflight = slot[s].inflight
      /\ sl.queue = slot[s].queue /\ sl.activeLease = slot[s].activeLease
      /\ sl.state = "closed" /\ sl.closing = "done" /\ sl.awaits = slot[s].awaits
  BY <1>2 DEF SlotRecord
<1> HIDE DEF sl
<1>5. CloseInv(sl) BY <1>1, <1>3, <1>4 DEF CloseInv
<1>6. QED BY <1>1, <1>2, <1>4, <1>5, CloseStepInv

\* A step that writes one slot record and no call.
LEMMA SlotStepInv ==
  ASSUME IInv, NEW s \in Slots, NEW sl \in SlotRecord,
         sl.pending = slot[s].pending, sl.inflight = slot[s].inflight,
         sl.queue = slot[s].queue, sl.activeLease = slot[s].activeLease,
         sl.state # "failed" \/ sl.state = slot[s].state,
         sl.closing # "open", slot[s].closing # "open",
         CloseInv(sl), slot' = [slot EXCEPT ![s] = sl],
         UNCHANGED <<poolVars, phase, lease, aborted, home, result, untracked>>,
         worker' \in [Slots -> {"up", "threw", "exited", "gone"}]
  PROVE  IInv'
<1> DEFINE g == [Here(s) EXCEPT !.slot = sl]
<1>1. /\ HInv(s, g, home) /\ g.slot = sl /\ g.phase = phase /\ g.lease = lease
      /\ g.result = result /\ g.untracked = untracked
  BY CloseFieldsInv
<1> HIDE DEF g
<1>2. Commit(s, g) BY <1>1 DEF Commit
<1>3. UNCHANGED <<roundRobin, closed, closeFailed, terminalError>> BY DEF poolVars
<1>4. slot[s].state = "failed" => terminalError # None BY DEF IInv, SlotsInv
<1>5. TypeOK BY DEF IInv
<1>6. QED BY <1>1, <1>2, <1>3, <1>4, <1>5, HandlerInv, OtherTables

\* terminateSlot() up to its await.
LEMMA TerminateSlotInv ==
  ASSUME IInv, NEW s \in Slots, TerminateSlot(s)
  PROVE  IInv'
<1> DEFINE sl == [slot[s] EXCEPT !.state = "terminating", !.closing = "terminating"]
<1>1. /\ slot[s].closing = "ready"
      /\ slot' = [slot EXCEPT ![s] = sl]
      /\ UNCHANGED <<poolVars, phase, lease, aborted, home, result, untracked>>
      /\ worker' \in [Slots -> {"up", "threw", "exited", "gone"}]
  BY DEF TerminateSlot, IInv, TypeOK
<1>2. slot[s] \in SlotRecord BY DEF IInv, TypeOK
<1>3. CloseInv(slot[s]) BY DEF IInv, SlotsInv, SlotInv
<1>4. /\ sl \in SlotRecord /\ sl.pending = slot[s].pending /\ sl.inflight = slot[s].inflight
      /\ sl.queue = slot[s].queue /\ sl.activeLease = slot[s].activeLease
      /\ sl.state = "terminating" /\ sl.closing = "terminating"
  BY <1>2 DEF SlotRecord
<1> HIDE DEF sl
<1>5. CloseInv(sl) BY <1>1, <1>3, <1>4 DEF CloseInv
<1>6. QED BY <1>1, <1>4, <1>5, SlotStepInv

\* finishClose() moves on only when the lease it waited for is off the slot.
LEMMA CloseLeaseReleasedInv ==
  ASSUME IInv, NEW s \in Slots, CloseLeaseReleased(s)
  PROVE  IInv'
<1> DEFINE c == WaitForPending(slot[s])
           sl == [slot[s] EXCEPT !.closing = c]
<1>1. /\ slot[s].closing = "lease" /\ lease[slot[s].awaits].released
      /\ slot' = [slot EXCEPT ![s] = sl]
      /\ UNCHANGED <<poolVars, phase, lease, aborted, home, result, untracked>>
      /\ worker' \in [Slots -> {"up", "threw", "exited", "gone"}]
  BY DEF CloseLeaseReleased, IInv, TypeOK
<1>2. slot[s] \in SlotRecord BY DEF IInv, TypeOK
<1>3. CloseInv(slot[s]) /\ OwnerInv(s, slot[s], phase, lease, home) BY DEF IInv, SlotsInv, SlotInv
<1>4. c \in {"ready", "pending"} /\ (c = "ready" => slot[s].pending = {}) BY DEF WaitForPending
<1> HIDE DEF c
<1>5. /\ sl \in SlotRecord /\ sl.pending = slot[s].pending /\ sl.inflight = slot[s].inflight
      /\ sl.queue = slot[s].queue /\ sl.activeLease = slot[s].activeLease
      /\ sl.state = slot[s].state /\ sl.closing = c
  BY <1>2, <1>4 DEF SlotRecord
<1> HIDE DEF sl
<1>6. slot[s].activeLease = None BY <1>1, <1>3 DEF CloseInv, OwnerInv
<1>7. CloseInv(sl) BY <1>1, <1>3, <1>4, <1>5, <1>6 DEF CloseInv
<1>8. QED BY <1>1, <1>4, <1>5, <1>7, SlotStepInv

\* The first close().
LEMMA CloseFirstInv ==
  ASSUME IInv, NEW t \in Tasks, CloseFirst(t)
  PROVE  IInv'
<1> DEFINE b == Here(0)
           Q == QueuedRoots
           h == RejectQueued(b, Q, "closed")
           C(s) == IF slot[s].activeLease = None THEN WaitForPending(slot[s]) ELSE "lease"
           N(s) == [slot[s] EXCEPT !.queue = <<>>, !.awaits = slot[s].activeLease, !.closing = C(s)]
<1>1. /\ Kind[t] = "close" /\ phase[t] = "idle" /\ closed' = TRUE /\ ~closed
      /\ slot' = [s \in Slots |-> N(s)]
      /\ phase' = [h.phase EXCEPT ![t] = "waiting"]
      /\ result' = [h.result EXCEPT ![Root(t)] = "pending"]
      /\ lease' = h.lease
      /\ UNCHANGED <<worker, roundRobin, closeFailed, terminalError, aborted, home, untracked>>
  <2>1. Kind[t] = "close" /\ phase[t] = "idle" /\ closed' = TRUE /\ ~closed
    BY DEF CloseFirst, Callable
  <2>2. slot' = [s \in Slots |-> N(s)] BY Zenon DEF CloseFirst
  <2>3. phase' = [h.phase EXCEPT ![t] = "waiting"] BY Zenon DEF CloseFirst
  <2>4. result' = [h.result EXCEPT ![Root(t)] = "pending"] BY Zenon DEF CloseFirst
  <2>5. lease' = h.lease BY Zenon DEF CloseFirst
  <2>6. UNCHANGED <<worker, roundRobin, closeFailed, terminalError, aborted, home, untracked>>
    BY DEF CloseFirst
  <2>7. QED BY <2>1, <2>2, <2>3, <2>4, <2>5, <2>6
<1>2. TypeOK /\ SlotsInv BY DEF IInv
<1>3. 0 \in Slots BY PoolAssumption DEF Slots
<1>4. b \in HState /\ b.phase = phase /\ b.lease = lease BY <1>2, <1>3, HereType DEF Here
<1> HIDE DEF b
<1>5. \A u \in Q : u \in Tasks /\ phase[u] = "waiting" /\ Kind[u] # "close" /\
        \A s \in Slots : Root(u) \notin slot[s].pending /\ slot[s].activeLease # u
  <2>1. SUFFICES ASSUME NEW r \in Slots, NEW i \in 1 .. Len(slot[r].queue)
                 PROVE  LET u == slot[r].queue[i]
                        IN /\ u \in Tasks /\ phase[u] = "waiting" /\ Kind[u] # "close"
                           /\ \A s \in Slots : Root(u) \notin slot[s].pending /\ slot[s].activeLease # u
    BY DEF QueuedRoots, Elems
  <2> DEFINE u == slot[r].queue[i]
  <2>2. SlotInv(r, slot[r], phase, lease, home) /\ slot[r] \in SlotRecord
    BY <1>2 DEF SlotsInv, TypeOK
  <2>3. u \in Tasks
    <3>1. slot[r].queue \in Seq(Tasks) BY <2>2 DEF SlotRecord
    <3>2. QED BY <3>1, ElementOfSeq
  <2>4. /\ phase[u] = "waiting" /\ Kind[u] # "close" /\ home[u] = r
        /\ Root(u) \notin slot[r].pending
    BY <2>2 DEF SlotInv, QueueInv
  <2> HIDE DEF u
  <2>5. ASSUME NEW s \in Slots
        PROVE  Root(u) \notin slot[s].pending /\ slot[s].activeLease # u
    <3>1. OwnerInv(s, slot[s], phase, lease, home) BY <1>2 DEF SlotsInv, SlotInv
    <3>2. QED BY <2>3, <2>4, <3>1, PoolAssumption DEF OwnerInv, LeasePhases
  <2>6. QED BY <2>3, <2>4, <2>5 DEF u
<1> HIDE DEF Q
<1>6. /\ h \in HState
      /\ \A u \in Tasks : h.phase[u] = IF u \in Q THEN "done" ELSE phase[u]
      /\ \A u \in Tasks : u \notin Q => h.lease[u].released = lease[u].released
  <2>1. "closed" \in Verdicts BY DEF Verdicts
  <2>2. h \in HState BY <1>4, <2>1, RejectQueuedType
  <2>3. QED BY <1>4, <2>2, RejectQueuedFacts
<1> HIDE DEF h
<1>7. /\ phase' \in [Tasks -> Phases]
      /\ \A u \in Tasks : phase'[u] = IF u = t THEN "waiting" ELSE h.phase[u]
  <2>1. h.phase \in [Tasks -> Phases] BY <1>6 DEF HState
  <2>2. "waiting" \in Phases BY DEF Phases
  <2>3. phase' = [h.phase EXCEPT ![t] = "waiting"] BY <1>1
  <2>4. QED BY <2>1, <2>2, <2>3
<1>8. lease' \in [Tasks -> LeaseRecord]
      /\ result' \in [Requests -> Verdicts \cup {"none", "pending"}]
  <2>1. h.result \in [Requests -> Verdicts \cup {"none", "pending"}] BY <1>6 DEF HState
  <2>2. h.lease \in [Tasks -> LeaseRecord] BY <1>6 DEF HState
  <2>3. result' = [h.result EXCEPT ![Root(t)] = "pending"] /\ lease' = h.lease BY <1>1
  <2>4. result' \in [Requests -> Verdicts \cup {"none", "pending"}] BY <2>1, <2>3
  <2>5. QED BY <2>2, <2>3, <2>4
<1>9. ASSUME NEW s \in Slots
      PROVE  /\ N(s) \in SlotRecord /\ N(s).queue = <<>> /\ N(s).awaits = slot[s].activeLease
             /\ N(s).closing = C(s) /\ N(s).pending = slot[s].pending
             /\ N(s).inflight = slot[s].inflight /\ N(s).activeLease = slot[s].activeLease
             /\ N(s).state = slot[s].state
             /\ C(s) \in {"ready", "pending", "lease"}
             /\ (C(s) = "ready" => slot[s].pending = {})
             /\ (C(s) = "lease" <=> slot[s].activeLease # None)
  <2>1. slot[s] \in SlotRecord BY <1>2 DEF TypeOK
  <2>2. /\ C(s) \in {"ready", "pending", "lease"}
        /\ (C(s) = "ready" => slot[s].pending = {})
        /\ (C(s) = "lease" <=> slot[s].activeLease # None)
    BY DEF WaitForPending
  <2> DEFINE c == C(s)
  <2>3. c \in {"ready", "pending", "lease"} BY <2>2
  <2>4. N(s) = [slot[s] EXCEPT !.queue = <<>>, !.awaits = slot[s].activeLease, !.closing = c]
    OBVIOUS
  <2>5. <<>> \in Seq(Tasks) /\ slot[s].activeLease \in Tasks \cup {None} BY <2>1 DEF SlotRecord
  <2> HIDE DEF c, N
  <2>6. /\ N(s) \in SlotRecord /\ N(s).queue = <<>> /\ N(s).awaits = slot[s].activeLease
        /\ N(s).closing = c /\ N(s).pending = slot[s].pending
        /\ N(s).inflight = slot[s].inflight /\ N(s).activeLease = slot[s].activeLease
        /\ N(s).state = slot[s].state
    BY <2>1, <2>3, <2>4, <2>5 DEF SlotRecord
  <2>7. QED BY <2>2, <2>6 DEF c
<1> HIDE DEF N, C
<1>10. slot' \in [Slots -> SlotRecord] BY <1>1, <1>9
<1>11. TypeOK' BY <1>1, <1>2, <1>7, <1>8, <1>10 DEF TypeOK
<1>12. TaskInv(phase, lease, home) BY <1>2 DEF SlotsInv
<1>13. TaskInv(phase', lease', home')
  BY <1>1, <1>5, <1>6, <1>7, <1>12 DEF TaskInv, LeasePhases
<1>14. ASSUME NEW s \in Slots
       PROVE  SlotInv(s, slot'[s], phase', lease', home')
  <2>1. slot'[s] = N(s) BY <1>1
  <2>2. /\ FlightInv(slot[s]) /\ OwnerInv(s, slot[s], phase, lease, home) /\ CloseInv(slot[s])
    BY <1>2 DEF SlotsInv, SlotInv
  <2>3. FlightInv(N(s)) BY <1>9, <2>2 DEF FlightInv
  <2>4. QueueInv(s, N(s), phase', home')
    <3>1. Len(N(s).queue) = 0 BY <1>9
    <3>2. QED BY <3>1 DEF QueueInv
  <2>5. OwnerInv(s, N(s), phase', lease', home')
    <3>1. \A u \in Tasks : Root(u) \in slot[s].pending => u \notin Q /\ u # t
      BY <1>1, <1>5, <2>2 DEF OwnerInv
    <3>2. slot[s].activeLease # None =>
            slot[s].activeLease \in Tasks /\ slot[s].activeLease \notin Q /\ slot[s].activeLease # t
      <4>1. slot[s] \in SlotRecord BY <1>2 DEF TypeOK
      <4>2. QED BY <1>1, <1>5, <2>2, <4>1 DEF OwnerInv, LeasePhases, SlotRecord
    <3>3. QED BY <1>1, <1>6, <1>7, <1>9, <2>2, <3>1, <3>2 DEF OwnerInv
  <2>6. CloseInv(N(s))
    <3>1. slot[s].closing = "open" BY <1>1, <1>2 DEF SlotsInv
    <3>2. QED BY <1>9, <2>2, <3>1 DEF CloseInv
  <2>7. QED BY <2>1, <2>3, <2>4, <2>5, <2>6 DEF SlotInv
<1>15. ASSUME NEW s \in Slots
       PROVE  /\ slot'[s].closing = "open" <=> ~closed'
              /\ slot'[s].state = "failed" => terminalError' # None
  <2>1. slot'[s] = N(s) BY <1>1
  <2>2. slot[s].state = "failed" => terminalError # None BY <1>2 DEF SlotsInv
  <2>3. QED BY <1>1, <1>9, <2>1, <2>2
<1>16. SlotsInv' BY <1>13, <1>14, <1>15 DEF SlotsInv
<1>17. QED BY <1>11, <1>16 DEF IInv

-----------------------------------------------------------------------------
(***************************************************************************)
(* The theorems.                                                            *)
(***************************************************************************)
\* A published pool, with every worker up and no call made, satisfies the
\* inductive invariant.
LEMMA InitInv ==
  ASSUME Init
  PROVE  IInv
<1>1. /\ slot \in [Slots -> SlotRecord]
      /\ \A s \in Slots :
           /\ slot[s].state = "running" /\ slot[s].pending = {} /\ slot[s].inflight = 0
           /\ slot[s].queue = <<>> /\ slot[s].activeLease = None /\ slot[s].closing = "open"
  <2> DEFINE r == [state |-> "running", pending |-> {}, inflight |-> 0, queue |-> <<>>,
                   activeLease |-> None, rejected |-> 0, listening |-> TRUE, posted |-> {},
                   closing |-> "open", awaits |-> None]
  <2>1. slot = [s \in Slots |-> r] BY DEF Init
  <2>2. /\ r.state = "running" /\ r.pending = {} /\ r.inflight = 0 /\ r.queue = <<>>
        /\ r.activeLease = None /\ r.closing = "open"
    OBVIOUS
  <2>3. r \in SlotRecord
    <3>1. <<>> \in Seq(Tasks) OBVIOUS
    <3>2. QED BY <3>1 DEF SlotRecord
  <2> HIDE DEF r
  <2>4. QED BY <2>1, <2>2, <2>3
<1>2. lease \in [Tasks -> LeaseRecord] /\ \A t \in Tasks : ~lease[t].released
  <2> DEFINE r == [active |-> FALSE, released |-> FALSE, queue |-> <<>>, pendingCalls |-> 0]
  <2>1. lease = [t \in Tasks |-> r] BY DEF Init
  <2>2. ~r.released OBVIOUS
  <2>3. r \in LeaseRecord
    <3>1. <<>> \in Seq(Calls) OBVIOUS
    <3>2. QED BY <3>1 DEF LeaseRecord
  <2> HIDE DEF r
  <2>4. QED BY <2>1, <2>2, <2>3
<1>3. roundRobin \in Slots BY PoolAssumption DEF Init, Slots
<1>4. worker \in [Slots -> {"up", "threw", "exited", "gone"}] BY DEF Init
<1>5. phase \in [Tasks -> Phases] /\ \A t \in Tasks : phase[t] = "idle" BY DEF Init, Phases
<1>6. closed = FALSE /\ closeFailed = FALSE /\ terminalError = None BY DEF Init
<1>7. aborted \in [Tasks -> BOOLEAN] /\ home \in [Tasks -> Slots \cup {None}] BY DEF Init
<1>8. result \in [Requests -> Verdicts \cup {"none", "pending"}] /\ untracked \subseteq Calls
  BY DEF Init
<1>9. TypeOK BY <1>1, <1>2, <1>3, <1>4, <1>5, <1>6, <1>7, <1>8 DEF TypeOK
<1>10. ASSUME NEW s \in Slots
       PROVE  SlotInv(s, slot[s], phase, lease, home)
  <2>1. FlightInv(slot[s]) BY <1>1 DEF FlightInv
  <2>2. QueueInv(s, slot[s], phase, home)
    <3>1. Len(slot[s].queue) = 0 BY <1>1
    <3>2. QED BY <3>1 DEF QueueInv
  <2>3. OwnerInv(s, slot[s], phase, lease, home) BY <1>1 DEF OwnerInv
  <2>4. CloseInv(slot[s]) BY <1>1 DEF CloseInv
  <2>5. QED BY <2>1, <2>2, <2>3, <2>4 DEF SlotInv
<1>11. TaskInv(phase, lease, home) BY <1>2, <1>5 DEF TaskInv, LeasePhases
<1>12. SlotsInv BY <1>1, <1>6, <1>10, <1>11 DEF SlotsInv
<1>13. QED BY <1>9, <1>12 DEF IInv

\* Every step preserves it: one step per action of Next.
LEMMA NextInv ==
  ASSUME IInv, [Next]_vars
  PROVE  IInv'
<1>1. ASSUME NEW t \in Tasks, Admission(t)
      PROVE  IInv'
  <2>1. CASE RefuseRoot(t) BY <2>1, RefuseRootInv
  <2>2. CASE RejectFull(t) BY <2>2, RejectFullInv
  <2>3. CASE EnqueueRoot(t) BY <2>3, EnqueueRootInv
  <2>4. CASE EvaluateNow(t) BY <2>4, EvaluateNowInv
  <2>5. CASE AdmitNow(t) BY <2>5, AdmitNowInv
  <2>6. QED BY <1>1, <2>1, <2>2, <2>3, <2>4, <2>5 DEF Admission
<1>2. ASSUME NEW t \in Tasks, LeaseStep(t)
      PROVE  IInv'
  <2>1. CASE StartCallback(t) BY <2>1, StartCallbackInv
  <2>2. CASE AbandonLease(t) BY <2>2, AbandonLeaseInv
  <2>3. CASE CallbackSettles(t) BY <2>3, CallbackSettlesInv
  <2>4. CASE FinishRelease(t) BY <2>4, FinishReleaseInv
  <2>5. QED BY <1>2, <2>1, <2>2, <2>3, <2>4 DEF LeaseStep
<1>3. ASSUME NEW t \in Tasks, NEW i \in 1 .. MaxCalls, CallStep(t, i)
      PROVE  IInv'
  <2>1. CASE RefuseCall(t, i) BY <2>1, RefuseCallInv
  <2>2. CASE RejectCallFull(t, i) BY <2>2, RejectCallFullInv
  <2>3. CASE EnqueueCall(t, i) BY <2>3, EnqueueCallInv
  <2>4. CASE CallNow(t, i) BY <2>4, CallNowInv
  <2>5. CASE SettleLeaseCall(t, i) BY <2>5, SettleLeaseCallInv
  <2>6. QED BY <1>3, <2>1, <2>2, <2>3, <2>4, <2>5 DEF CallStep
<1>4. ASSUME NEW t \in Tasks, Abort(t)
      PROVE  IInv'
  <2>1. CASE AbortQueued(t) BY <2>1, AbortQueuedInv
  <2>2. CASE AbortCallback(t) BY <2>2, AbortCallbackInv
  <2>3. CASE AbortSignalOnly(t) BY <2>3, AbortSignalOnlyInv
  <2>4. QED BY <1>4, <2>1, <2>2, <2>3 DEF Abort
<1>5. ASSUME NEW s \in Slots, WorkerStep(s)
      PROVE  IInv'
  <2>1. ASSUME NEW r \in Requests, OnMessage(s, r) PROVE IInv' BY <2>1, OnMessageInv
  <2>2. CASE Crash(s) BY <2>2, CrashInv
  <2>3. CASE OnError(s) BY <2>3, OnErrorInv
  <2>4. CASE OnExit(s) BY <2>4, OnExitInv
  <2>5. QED BY <1>5, <2>1, <2>2, <2>3, <2>4 DEF WorkerStep
<1>6. ASSUME NEW t \in Tasks, CloseCall(t)
      PROVE  IInv'
  <2>1. CASE RefuseClose(t) BY <2>1, RefuseCloseInv
  <2>2. CASE CloseFirst(t) BY <2>2, CloseFirstInv
  <2>3. CASE CloseAgain(t) BY <2>3, CloseAgainInv
  <2>4. CASE FinishClose(t) BY <2>4, FinishCloseInv
  <2>5. QED BY <1>6, <2>1, <2>2, <2>3, <2>4 DEF CloseCall
<1>7. ASSUME NEW s \in Slots, CloseStep(s)
      PROVE  IInv'
  <2>1. CASE CloseLeaseReleased(s) BY <2>1, CloseLeaseReleasedInv
  <2>2. CASE TerminateSlot(s) BY <2>2, TerminateSlotInv
  <2>3. CASE TerminateReturns(s) BY <2>3, TerminateReturnsInv
  <2>4. QED BY <1>7, <2>1, <2>2, <2>3 DEF CloseStep
<1>8. CASE UNCHANGED vars
  <2>1. SlotsInv' BY <1>8, QuietInv DEF vars, poolVars
  <2>2. TypeOK' BY <1>8 DEF vars, poolVars, TypeOK, IInv
  <2>3. QED BY <2>1, <2>2 DEF IInv
<1>9. CASE Next
  <2>1. CASE \E t \in Tasks : Admission(t) \/ LeaseStep(t) \/ Abort(t) \/ CloseCall(t)
    BY <2>1, <1>1, <1>2, <1>4, <1>6
  <2>2. CASE \E t \in Tasks, i \in 1 .. MaxCalls : CallStep(t, i) BY <2>2, <1>3
  <2>3. CASE \E s \in Slots : WorkerStep(s) \/ CloseStep(s) BY <2>3, <1>5, <1>7
  <2>4. CASE Finished BY <2>4, <1>8 DEF Finished
  <2>5. QED BY <1>9, <2>1, <2>2, <2>3, <2>4 DEF Next
<1>10. QED BY <1>8, <1>9

\* TypeOK and SlotsInv hold in every reachable state of a pool of any size, for
\* any calls, queue capacity, aborts, unsendable messages and crashes.
THEOREM Invariance == Spec => []IInv
<1>1. Init => IInv BY InitInv
<1>2. IInv /\ [Next]_vars => IInv' BY NextInv
<1>3. QED BY <1>1, <1>2, PTL DEF Spec

\* Every variable of the pool keeps its type; in particular the round robin always
\* names a slot (pickSlot) and only requests that exist are pending, queued or sent.
THEOREM TypeCorrect == Spec => []TypeOK
<1>1. IInv => TypeOK BY DEF IInv
<1>2. QED BY <1>1, Invariance, PTL

\* What each slot promises about its counter, queue, owner and close step holds
\* across every handler of the pool.
THEOREM SlotsCorrect == Spec => []SlotsInv
<1>1. IInv => SlotsInv BY DEF IInv
<1>2. QED BY <1>1, Invariance, PTL

\* A worker never has two requests in flight and inflight counts what is pending:
\* the mutual exclusion drainQueue() and dispatchRequest() rest on.
THEOREM MutualExclusion == Spec => []OneInFlight
<1>1. IInv => OneInFlight BY DEF IInv, SlotsInv, SlotInv, FlightInv, OneInFlight
<1>2. QED BY <1>1, Invariance, PTL

\* failSlot() and finishClose() leave no work behind on a worker that no longer
\* serves, and close() terminates no worker under an admitted callback.
THEOREM WorkOnlyOnRunning == Spec => []OnlyRunningOwnsWork
<1>1. ASSUME IInv PROVE OnlyRunningOwnsWork
  <2>1. SUFFICES ASSUME NEW s \in Slots
                 PROVE  /\ slot[s].state # "running" => slot[s].pending = {} /\ slot[s].queue = <<>>
                        /\ slot[s].state \in {"terminating", "closed"} => slot[s].activeLease = None
    BY DEF OnlyRunningOwnsWork
  <2>2. CloseInv(slot[s]) BY <1>1 DEF IInv, SlotsInv, SlotInv
  <2>3. QED BY <2>2 DEF CloseInv
<1>2. QED BY <1>1, Invariance, PTL
=============================================================================
