------------------------- MODULE PoolCreationProofs -------------------------
(***************************************************************************)
(* What create() of a pool promises, for any number of threads.            *)
(***************************************************************************)
EXTENDS PoolCreation, TLAPS, WellFoundedInduction

\* What a slot's fields say of each other: only a running slot is listened to, has
\* its hook or an initialisation open, and a failed one has an error.
SlotInv ==
  \A s \in Slots :
    /\ slot[s].listening <=> slot[s].state = "running"
    /\ slot[s].hooked => slot[s].state = "running"
    /\ slot[s].waiting => slot[s].state = "running"
    /\ slot[s].waiting <=> init[s] = "pending"
    /\ creationStage = "init" /\ slot[s].state = "failed" => slot[s].error = <<"died", s>>
    /\ slot[s].state = "none" => worker[s] = "none" /\ init[s] = "none"
    /\ slot[s].state = "closed" => worker[s] = "gone" \/ s \in refused

\* What each stage of create() knows.
PhaseInv ==
  /\ creationStage = "new" =>
       /\ all = NoError /\ broken = <<>> /\ terminalError = NoError /\ handled = {}
       /\ \A s \in Slots : slot[s].state = "none"
  /\ creationStage = "init" =>
       /\ terminalError = NoError /\ handled = Slots
       /\ \A s \in Slots : slot[s].state \in {"running", "failed"} /\ ~slot[s].hooked
  /\ creationStage = "published" =>
       /\ all = Done
       /\ \A s \in Slots : /\ slot[s].state \in {"running", "failed"}
                           /\ slot[s].state = "running" => slot[s].hooked
                           /\ slot[s].state = "failed" => slot[s].error = terminalError
       /\ (terminalError = NoError) <=> \A s \in Slots : slot[s].state = "running"
  /\ creationStage \in {"cleanup", "failed"} =>
       /\ \A s \in Slots : /\ slot[s].state \in {"none", "terminating", "closed"}
                           /\ init[s] # "none" => s \in handled
  /\ creationStage = "failed" => \A s \in Slots : slot[s].state \in {"none", "closed"}

\* What Promise.all has seen, and what create() reports.
OutcomeInv ==
  /\ all = Done => \A s \in Slots : init[s] = "ok"
  /\ creationStage \in {"init", "published"} =>
       /\ (broken = <<>>) <=> (all \notin Errors)
       /\ broken # <<>> => broken[1] = all
  /\ FirstErrorReported

\* The inductive invariant.
CreationInv == CreationTypeOK /\ SlotInv /\ PhaseInv /\ OutcomeInv

-----------------------------------------------------------------------------

\* The errors are told apart from the two values that are none.
LEMMA ErrorValues ==
  /\ NoError \notin Errors /\ Done \notin Errors /\ NoError # Done
  /\ \A s \in Slots : /\ <<"died", s>> \in Errors /\ <<"answer", s>> \in Errors
                      /\ <<"send", s>> \in Errors /\ <<"construct", s>> \in Errors
BY DEF NoError, Done, Errors

\* A nonempty set of slots has a first one.
LEMMA FirstSlot ==
  ASSUME NEW S, S \subseteq Slots, S # {}
  PROVE  Min(S) \in S
<1> DEFINE R == {p \in Nat \X Nat : p[1] < p[2]}
<1>1. S \subseteq Nat
  BY ThreadsAssumption DEF Slots
<1>2. IsWellFoundedOn(R, Nat)
  BY NatLessThanWellFounded, Zenon DEF OpToRel
<1> HIDE DEF R
<1>3. PICK i \in S : \A j \in S : <<j, i>> \notin R
  BY <1>1, <1>2, WFMin, Zenon
<1>4. \A j \in S : ~(j < i)
  BY <1>1, <1>3 DEF R
<1>5. \A j \in S : i <= j
  BY <1>1, <1>4
<1> QED BY <1>5, Zenon DEF Min

\* The catch block: every slot there is goes down, no initialisation stays open and
\* every promise has its handler.
LEMMA UnwindTakesDown ==
  ASSUME CreationTypeOK, NEW error \in Errors, NEW slots \in [Slots -> SlotStates],
         NEW promises \in [Slots -> {"none", "pending", "ok", "rejected"}],
         NEW threads \in [Slots -> {"none", "up", "threw", "exited", "gone"}],
         \A s \in Slots :
           /\ slots[s].state \in {"none", "running", "failed"}
           /\ slots[s].listening => slots[s].state = "running"
           /\ slots[s].hooked => slots[s].state = "running"
           /\ slots[s].waiting => slots[s].state = "running"
           /\ slots[s].waiting <=> promises[s] = "pending"
           /\ slots[s].state = "none" => promises[s] = "none",
         Unwind(error, slots, promises, threads)
  PROVE  /\ creationStage' = "cleanup" /\ reported' = error
         /\ slot' \in [Slots -> SlotStates]
         /\ init' \in [Slots -> {"none", "pending", "ok", "rejected"}]
         /\ worker' \in [Slots -> {"none", "up", "threw", "exited", "gone"}]
         /\ handled' \subseteq Slots
         /\ \A s \in Slots :
              /\ slot'[s].state \in {"none", "terminating"}
              /\ ~slot'[s].listening /\ ~slot'[s].hooked /\ ~slot'[s].waiting
              /\ init'[s] # "pending"
              /\ promises[s] # "pending" => init'[s] = promises[s]
              /\ init'[s] # "none" => s \in handled'
              /\ slot'[s].state = "none" => worker'[s] = "none" /\ init'[s] = "none"
<1>1. creationStage' = "cleanup" /\ reported' = error
  BY DEF Unwind
<1>2. \A s \in Slots :
        /\ slot'[s] \in SlotStates
        /\ slot'[s].state \in {"none", "terminating"}
        /\ ~slot'[s].listening /\ ~slot'[s].hooked /\ ~slot'[s].waiting
        /\ slot'[s].state = "none" <=> slots[s].state = "none"
  <2> SUFFICES ASSUME NEW s \in Slots
               PROVE  /\ slot'[s] \in SlotStates
                      /\ slot'[s].state \in {"none", "terminating"}
                      /\ ~slot'[s].listening /\ ~slot'[s].hooked /\ ~slot'[s].waiting
                      /\ slot'[s].state = "none" <=> slots[s].state = "none"
    OBVIOUS
  <2>1. CASE slots[s].state = "none"
    BY <2>1 DEF Unwind, TakenDown, SlotStates
  <2>2. CASE slots[s].state = "running"
    <3>1. slot'[s] = TerminateSlot(FailSlot(slots[s], error))
      BY <1>1, <2>2 DEF Unwind, TakenDown
    <3>2. FailSlot(slots[s], error) =
            [state |-> "failed", error |-> error, listening |-> FALSE, hooked |-> FALSE,
             waiting |-> FALSE]
      BY <2>2 DEF FailSlot, SlotStates
    <3>3. TerminateSlot(FailSlot(slots[s], error)) =
            [state |-> "terminating", error |-> error, listening |-> FALSE, hooked |-> FALSE,
             waiting |-> FALSE]
      <4> DEFINE c == FailSlot(slots[s], error)
      <4> HIDE DEF c
      <4>1. c = [state |-> "failed", error |-> error, listening |-> FALSE, hooked |-> FALSE,
                 waiting |-> FALSE]
        BY <3>2 DEF c
      <4>2. TerminateSlot(c) = [state |-> "terminating", error |-> error, listening |-> FALSE,
                                hooked |-> FALSE, waiting |-> FALSE]
        BY <4>1 DEF TerminateSlot
      <4> QED BY <4>2 DEF c
    <3> QED BY <2>2, <3>1, <3>3 DEF SlotStates
  <2>3. CASE slots[s].state = "failed"
    BY <2>3 DEF Unwind, TakenDown, FailSlot, TerminateSlot, SlotStates
  <2> QED BY <2>1, <2>2, <2>3
<1>3. slot' \in [Slots -> SlotStates]
  <2>1. slot' = [s \in Slots |-> slot'[s]]
    BY DEF Unwind, TakenDown
  <2> QED BY <1>2, <2>1, Zenon
<1>4. /\ init' \in [Slots -> {"none", "pending", "ok", "rejected"}]
      /\ worker' \in [Slots -> {"none", "up", "threw", "exited", "gone"}]
      /\ handled' \subseteq Slots
  BY DEF Unwind, Killed, SwallowRejections, CreationTypeOK
<1>5. \A s \in Slots :
        /\ init'[s] # "pending"
        /\ promises[s] # "pending" => init'[s] = promises[s]
        /\ init'[s] # "none" => s \in handled'
        /\ slots[s].state = "none" => worker'[s] = "none" /\ init'[s] = "none"
  BY DEF Unwind, SwallowRejections
<1> QED BY <1>1, <1>2, <1>3, <1>4, <1>5

\* The catch block keeps the invariant when the error it is given is the one to report.
LEMMA UnwindKeeps ==
  ASSUME CreationTypeOK, NEW error \in Errors, NEW slots \in [Slots -> SlotStates],
         NEW promises \in [Slots -> {"none", "pending", "ok", "rejected"}],
         NEW threads \in [Slots -> {"none", "up", "threw", "exited", "gone"}],
         \A s \in Slots :
           /\ slots[s].state \in {"none", "running", "failed"}
           /\ slots[s].listening => slots[s].state = "running"
           /\ slots[s].hooked => slots[s].state = "running"
           /\ slots[s].waiting => slots[s].state = "running"
           /\ slots[s].waiting <=> promises[s] = "pending"
           /\ slots[s].state = "none" => promises[s] = "none",
         Unwind(error, slots, promises, threads),
         terminalError' \in Errors \cup {NoError}, all' \in Errors \cup {NoError, Done},
         broken' \in Seq(Errors), wire' \in [Slots -> {"none", "posted", "ok", "error"}],
         refused' \subseteq Slots,
         all' = Done => \A s \in Slots : promises[s] = "ok",
         IF broken' # <<>> THEN error = broken'[1]
         ELSE error[1] = "died" /\ error[2] \in Slots /\ promises[error[2]] = "ok"
  PROVE  CreationInv'
<1>1. /\ creationStage' = "cleanup" /\ reported' = error
      /\ slot' \in [Slots -> SlotStates]
      /\ init' \in [Slots -> {"none", "pending", "ok", "rejected"}]
      /\ worker' \in [Slots -> {"none", "up", "threw", "exited", "gone"}]
      /\ handled' \subseteq Slots
      /\ \A s \in Slots :
           /\ slot'[s].state \in {"none", "terminating"}
           /\ ~slot'[s].listening /\ ~slot'[s].hooked /\ ~slot'[s].waiting
           /\ init'[s] # "pending"
           /\ promises[s] # "pending" => init'[s] = promises[s]
           /\ init'[s] # "none" => s \in handled'
           /\ slot'[s].state = "none" => worker'[s] = "none" /\ init'[s] = "none"
  BY UnwindTakesDown
<1>2. CreationTypeOK'
  BY <1>1 DEF CreationTypeOK
<1>3. SlotInv'
  BY <1>1 DEF SlotInv
<1>4. PhaseInv'
  BY <1>1 DEF PhaseInv
<1>5. OutcomeInv'
  BY <1>1 DEF OutcomeInv, FirstErrorReported
<1> QED BY <1>2, <1>3, <1>4, <1>5 DEF CreationInv

\* The loop of createValidated(): all workers are started, or what was is taken down.
LEMMA StartKeeps ==
  ASSUME CreationInv, NEW k \in 0 .. Threads, NEW unsent \in SUBSET (1 .. k), Start(k, unsent)
  PROVE  CreationInv'
<1> DEFINE slots == [s \in Slots |-> IF s <= k THEN [NewSlot EXCEPT !.waiting = s \notin unsent]
                                      ELSE NoSlot]
           promises == [s \in Slots |-> IF s > k THEN "none"
                                         ELSE IF s \in unsent THEN "rejected" ELSE "pending"]
           threads == [s \in Slots |-> IF s <= k THEN "up" ELSE "none"]
<1>1. /\ creationStage = "new" /\ all = NoError /\ terminalError = NoError
      /\ terminalError' = terminalError /\ refused' = refused /\ refused \subseteq Slots
      /\ wire' \in [Slots -> {"none", "posted", "ok", "error"}]
  BY DEF Start, CreationInv, CreationTypeOK, PhaseInv
<1>2. \A s \in Slots :
        /\ slots[s] \in SlotStates
        /\ slots[s].state \in {"none", "running"} /\ ~slots[s].hooked
        /\ slots[s].state = "running" <=> s <= k
        /\ slots[s].listening <=> slots[s].state = "running"
        /\ slots[s].waiting <=> s <= k /\ s \notin unsent
        /\ slots[s].waiting <=> promises[s] = "pending"
        /\ slots[s].state = "none" => promises[s] = "none" /\ threads[s] = "none"
  <2> SUFFICES ASSUME NEW s \in Slots
               PROVE  /\ slots[s] \in SlotStates
                      /\ slots[s].state \in {"none", "running"} /\ ~slots[s].hooked
                      /\ slots[s].state = "running" <=> s <= k
                      /\ slots[s].listening <=> slots[s].state = "running"
                      /\ slots[s].waiting <=> s <= k /\ s \notin unsent
                      /\ slots[s].waiting <=> promises[s] = "pending"
                      /\ slots[s].state = "none" => promises[s] = "none" /\ threads[s] = "none"
    OBVIOUS
  <2>0. s \in Nat /\ k \in Nat
    BY ThreadsAssumption DEF Slots
  <2>1. CASE s <= k /\ s \in unsent
    <3> DEFINE w == s \notin unsent
    <3>1. w = FALSE
      BY <2>1
    <3>2. slots[s] = [NewSlot EXCEPT !.waiting = w]
      BY <2>1
    <3> HIDE DEF w
    <3>3. slots[s] = [NewSlot EXCEPT !.waiting = FALSE]
      BY <3>1, <3>2
    <3>4. promises[s] = "rejected"
      BY <2>0, <2>1
    <3> HIDE DEF slots, promises
    <3> QED BY <2>1, <3>3, <3>4 DEF NewSlot, SlotStates
  <2>2. CASE s <= k /\ s \notin unsent
    <3> DEFINE w == s \notin unsent
    <3>1. w = TRUE
      BY <2>2
    <3>2. slots[s] = [NewSlot EXCEPT !.waiting = w]
      BY <2>2
    <3> HIDE DEF w
    <3>3. slots[s] = [NewSlot EXCEPT !.waiting = TRUE]
      BY <3>1, <3>2
    <3>4. promises[s] = "pending"
      BY <2>0, <2>2
    <3> HIDE DEF slots, promises
    <3> QED BY <2>2, <3>3, <3>4 DEF NewSlot, SlotStates
  <2>3. CASE ~(s <= k)
    <3>1. slots[s] = NoSlot /\ promises[s] = "none" /\ threads[s] = "none"
      BY <2>0, <2>3
    <3> HIDE DEF slots, promises, threads
    <3>2. /\ NoSlot.state = "none" /\ NoSlot.listening = FALSE
          /\ NoSlot.hooked = FALSE /\ NoSlot.waiting = FALSE
      BY DEF NewSlot, NoSlot
    <3>3. NoSlot \in SlotStates
      <4>1. NewSlot \in SlotStates
        BY DEF NewSlot, SlotStates
      <4> HIDE DEF NewSlot
      <4> QED BY <4>1 DEF NoSlot, SlotStates
    <3> QED BY <2>3, <3>1, <3>2, <3>3
  <2> QED BY <2>1, <2>2, <2>3
<1>3. /\ slots \in [Slots -> SlotStates]
      /\ promises \in [Slots -> {"none", "pending", "ok", "rejected"}]
      /\ threads \in [Slots -> {"none", "up", "threw", "exited", "gone"}]
  BY <1>2
<1> HIDE DEF slots, promises, threads
<1>4. CASE k < Threads
  <2> DEFINE error == <<"construct", k + 1>>
  <2>1. /\ Unwind(error, slots, promises, threads) /\ broken' = <<error>> /\ all' = all
    BY <1>4 DEF Start, slots, promises, threads
  <2>2. k + 1 \in Slots
    BY <1>4, ThreadsAssumption DEF Slots
  <2>3. error \in Errors
    BY <2>2, ErrorValues
  <2> HIDE DEF error
  <2>4. broken' \in Seq(Errors) /\ broken' # <<>> /\ broken'[1] = error
    BY <2>1, <2>3
  <2> QED BY <1>1, <1>2, <1>3, <2>1, <2>3, <2>4, ErrorValues, UnwindKeeps
             DEF CreationInv
<1>5. CASE ~(k < Threads)
  <2>1. k = Threads
    BY <1>5, ThreadsAssumption
  <2>2. /\ creationStage' = "init" /\ slot' = slots /\ init' = promises /\ worker' = threads
        /\ handled' = Slots /\ reported' = reported
        /\ all' = IF unsent = {} THEN NoError ELSE <<"send", Min(unsent)>>
        /\ broken' = IF unsent = {} THEN <<>> ELSE <<<<"send", Min(unsent)>>>>
    BY <1>5 DEF Start, slots, promises, threads
  <2>3. unsent # {} => <<"send", Min(unsent)>> \in Errors
    BY <2>1, FirstSlot, ErrorValues DEF Slots
  <2>4. \A s \in Slots : slots[s].state = "running"
    BY <1>2, <2>1, ThreadsAssumption DEF Slots
  <2>5. all' \in Errors \cup {NoError} /\ broken' \in Seq(Errors)
    BY <2>2, <2>3
  <2>6. CreationTypeOK'
    BY <1>1, <1>3, <2>2, <2>5 DEF CreationInv, CreationTypeOK
  <2>7. SlotInv'
    BY <1>2, <2>2, <2>4 DEF SlotInv
  <2>8. PhaseInv'
    BY <1>1, <1>2, <2>2, <2>4 DEF PhaseInv
  <2>9. OutcomeInv'
    <3>1. all' # Done
      BY <2>5, ErrorValues
    <3>2. (broken' = <<>>) <=> (all' \notin Errors)
      BY <2>2, <2>3, ErrorValues
    <3>3. broken' # <<>> => broken'[1] = all'
      BY <2>2
    <3> QED BY <2>2, <3>1, <3>2, <3>3 DEF OutcomeInv, FirstErrorReported
  <2> QED BY <2>6, <2>7, <2>8, <2>9 DEF CreationInv
<1> QED BY <1>4, <1>5

\* Promise.all has rejected, and everything is taken down.
LEMMA InitFailedKeeps ==
  ASSUME CreationInv, InitFailed
  PROVE  CreationInv'
<1>1. /\ creationStage = "init" /\ all \in Errors /\ Unwind(all, slot, init, worker)
      /\ all' = all /\ terminalError' = terminalError /\ wire' = wire /\ refused' = refused
      /\ broken' = broken
  BY DEF InitFailed
<1>2. \A s \in Slots :
        /\ slot[s].state \in {"none", "running", "failed"}
        /\ slot[s].listening => slot[s].state = "running"
        /\ slot[s].hooked => slot[s].state = "running"
        /\ slot[s].waiting => slot[s].state = "running"
        /\ slot[s].waiting <=> init[s] = "pending"
        /\ slot[s].state = "none" => init[s] = "none"
  BY <1>1 DEF CreationInv, SlotInv, PhaseInv
<1>3. broken # <<>> /\ broken[1] = all
  BY <1>1 DEF CreationInv, OutcomeInv
<1>4. CreationTypeOK /\ all # Done
  BY <1>1, ErrorValues DEF CreationInv
<1>5. /\ slot \in [Slots -> SlotStates] /\ refused \subseteq Slots
      /\ init \in [Slots -> {"none", "pending", "ok", "rejected"}]
      /\ worker \in [Slots -> {"none", "up", "threw", "exited", "gone"}]
      /\ terminalError \in Errors \cup {NoError} /\ broken \in Seq(Errors)
      /\ wire \in [Slots -> {"none", "posted", "ok", "error"}]
  BY <1>4 DEF CreationTypeOK
<1> QED BY <1>1, <1>2, <1>3, <1>4, <1>5, UnwindKeeps

\* The constructor's test: its error is that of a slot that failed, and there is none
\* exactly when no slot has.
LEMMA PrefailedError ==
  ASSUME CreationInv, creationStage = "init"
  PROVE  /\ Prefailed = NoError <=> \A s \in Slots : slot[s].state = "running"
         /\ Prefailed # NoError => \E s \in Slots : Prefailed = <<"died", s>>
<1> DEFINE failed == {s \in Slots : slot[s].state = "failed"}
<1>1. CASE failed = {}
  BY <1>1 DEF Prefailed, CreationInv, PhaseInv
<1>2. CASE failed # {}
  <2>1. Min(failed) \in failed
    BY <1>2, FirstSlot
  <2>2. Prefailed = slot[Min(failed)].error
    BY <1>2 DEF Prefailed
  <2>3. Prefailed = <<"died", Min(failed)>>
    BY <2>1, <2>2 DEF CreationInv, SlotInv
  <2> QED BY <2>1, <2>3, ErrorValues
<1> QED BY <1>1, <1>2

\* The pool is published, or what failed meanwhile takes it down.
LEMMA PublishKeeps ==
  ASSUME CreationInv, Publish
  PROVE  CreationInv'
<1> DEFINE slots == [s \in Slots |-> IF slot[s].state = "running"
                                      THEN [slot[s] EXCEPT !.hooked = TRUE] ELSE slot[s]]
<1>1. /\ creationStage = "init" /\ all = Done /\ terminalError' = Prefailed
      /\ all' = all /\ wire' = wire /\ refused' = refused /\ broken' = broken
  BY DEF Publish
<1>2. /\ CreationTypeOK
      /\ slot \in [Slots -> SlotStates] /\ refused \subseteq Slots
      /\ init \in [Slots -> {"none", "pending", "ok", "rejected"}]
      /\ worker \in [Slots -> {"none", "up", "threw", "exited", "gone"}]
      /\ wire \in [Slots -> {"none", "posted", "ok", "error"}]
  BY DEF CreationInv, CreationTypeOK
<1>3. \A s \in Slots :
        /\ slots[s] \in SlotStates
        /\ slots[s].state = slot[s].state /\ slots[s].error = slot[s].error
        /\ slots[s].listening = slot[s].listening /\ slots[s].waiting = slot[s].waiting
        /\ slots[s].hooked <=> slot[s].state = "running"
  <2> SUFFICES ASSUME NEW s \in Slots
               PROVE  /\ slots[s] \in SlotStates
                      /\ slots[s].state = slot[s].state /\ slots[s].error = slot[s].error
                      /\ slots[s].listening = slot[s].listening
                      /\ slots[s].waiting = slot[s].waiting
                      /\ slots[s].hooked <=> slot[s].state = "running"
    OBVIOUS
  <2>1. CASE slot[s].state = "running"
    BY <1>2, <2>1 DEF SlotStates
  <2>2. CASE slot[s].state # "running"
    BY <1>2, <2>2 DEF CreationInv, SlotInv
  <2> QED BY <2>1, <2>2
<1>4. slots \in [Slots -> SlotStates]
  BY <1>3
<1>5. \A s \in Slots : init[s] = "ok" /\ ~slot[s].waiting
  BY <1>1 DEF CreationInv, OutcomeInv, SlotInv
<1>6. broken = <<>> /\ broken \in Seq(Errors)
  BY <1>1, ErrorValues DEF CreationInv, CreationTypeOK, OutcomeInv
<1>7. CASE Prefailed = NoError
  <2>1. /\ creationStage' = "published" /\ slot' = slots /\ init' = init
        /\ handled' = handled /\ reported' = reported /\ worker' = worker
    BY <1>7 DEF Publish
  <2> HIDE DEF slots
  <2>2. CreationTypeOK'
    BY <1>1, <1>2, <1>4, <1>7, <2>1 DEF CreationTypeOK
  <2>3. SlotInv'
    BY <1>1, <1>3, <2>1 DEF CreationInv, SlotInv
  <2>4. PhaseInv'
    BY <1>1, <1>3, <1>7, <2>1, PrefailedError DEF CreationInv, PhaseInv
  <2>5. OutcomeInv'
    BY <1>1, <2>1, ErrorValues DEF CreationInv, OutcomeInv, FirstErrorReported
  <2> QED BY <2>2, <2>3, <2>4, <2>5 DEF CreationInv
<1>8. CASE Prefailed # NoError
  <2>1. Unwind(Prefailed, slots, init, worker)
    BY <1>8 DEF Publish
  <2> HIDE DEF slots
  <2>2. PICK d \in Slots : Prefailed = <<"died", d>>
    BY <1>1, <1>8, PrefailedError
  <2>3. Prefailed \in Errors /\ Prefailed[1] = "died" /\ Prefailed[2] \in Slots
    BY <2>2, ErrorValues
  <2>4. \A s \in Slots :
          /\ slots[s].state \in {"none", "running", "failed"}
          /\ slots[s].listening => slots[s].state = "running"
          /\ slots[s].hooked => slots[s].state = "running"
          /\ slots[s].waiting => slots[s].state = "running"
          /\ slots[s].waiting <=> init[s] = "pending"
          /\ slots[s].state = "none" => init[s] = "none"
    BY <1>1, <1>3 DEF CreationInv, SlotInv, PhaseInv
  <2> HIDE DEF Prefailed
  <2> QED BY <1>1, <1>2, <1>4, <1>5, <1>6, <2>1, <2>3, <2>4, UnwindKeeps
<1> QED BY <1>7, <1>8

\* A termination settles: the worker is gone, or its termination was refused.
LEMMA TerminateReturnsKeeps ==
  ASSUME CreationInv, NEW s \in Slots, TerminateReturns(s)
  PROVE  CreationInv'
<1> DEFINE c == [slot[s] EXCEPT !.state = "closed", !.hooked = FALSE, !.listening = FALSE]
<1>a. slot \in [Slots -> SlotStates] /\ slot[s] \in SlotStates
  BY DEF CreationInv, CreationTypeOK
<1>b. /\ c \in SlotStates /\ c.state = "closed" /\ ~c.hooked /\ ~c.listening
      /\ c.waiting = slot[s].waiting
  BY <1>a DEF SlotStates
<1>c. slot' = [slot EXCEPT ![s] = c]
  BY DEF TerminateReturns
<1> HIDE DEF c
<1>d. slot'[s] = c /\ slot' \in [Slots -> SlotStates] /\ \A r \in Slots \ {s} : slot'[r] = slot[r]
  BY <1>a, <1>b, <1>c
<1>e. slot[s].state = "terminating" /\ \A r \in Slots \ {s} : worker'[r] = worker[r]
  BY DEF TerminateReturns, CreationInv, CreationTypeOK
<1>1. /\ slot[s].state = "terminating" /\ slot'[s] \in SlotStates
      /\ slot'[s].state = "closed" /\ ~slot'[s].hooked /\ ~slot'[s].listening
      /\ slot'[s].waiting = slot[s].waiting
      /\ slot' \in [Slots -> SlotStates]
      /\ \A r \in Slots \ {s} : slot'[r] = slot[r] /\ worker'[r] = worker[r]
  BY <1>b, <1>d, <1>e
<1>2. /\ worker'[s] = "gone" \/ s \in refused'
      /\ refused \subseteq refused' /\ refused' \subseteq Slots
      /\ worker' \in [Slots -> {"none", "up", "threw", "exited", "gone"}]
  BY DEF TerminateReturns, CreationInv, CreationTypeOK
<1>3. UNCHANGED <<creationStage, init, all, handled, reported, terminalError, wire, broken>>
  BY DEF TerminateReturns
<1>4. CreationTypeOK'
  BY <1>1, <1>2, <1>3 DEF CreationInv, CreationTypeOK
<1>5. SlotInv'
  BY <1>1, <1>2, <1>3 DEF CreationInv, SlotInv
<1>6. PhaseInv'
  BY <1>1, <1>3 DEF CreationInv, PhaseInv
<1>7. OutcomeInv'
  BY <1>3 DEF CreationInv, OutcomeInv, FirstErrorReported
<1> QED BY <1>4, <1>5, <1>6, <1>7 DEF CreationInv

\* create() rejects after the last termination.
LEMMA RethrowKeeps ==
  ASSUME CreationInv, Rethrow
  PROVE  CreationInv'
<1>1. CreationTypeOK' /\ SlotInv'
  BY DEF Rethrow, threadVars, CreationInv, CreationTypeOK, SlotInv
<1>2. PhaseInv'
  BY DEF Rethrow, AllTerminated, CreationInv, PhaseInv
<1>3. OutcomeInv'
  BY DEF Rethrow, CreationInv, OutcomeInv, FirstErrorReported
<1> QED BY <1>1, <1>2, <1>3 DEF CreationInv

\* What a worker does by itself reaches the pool only through its listeners.
LEMMA WorkerKeeps ==
  ASSUME CreationInv, NEW s \in Slots, Answer(s) \/ CreationCrash(s)
  PROVE  CreationInv'
<1>1. UNCHANGED <<creationStage, slot, init, all, handled, reported, terminalError, refused, broken>>
  BY DEF Answer, CreationCrash, poolVars
<1>2. /\ wire' \in [Slots -> {"none", "posted", "ok", "error"}]
      /\ worker' \in [Slots -> {"none", "up", "threw", "exited", "gone"}]
      /\ \A r \in Slots : worker[r] \in {"none", "gone"} => worker'[r] = worker[r]
  BY DEF Answer, CreationCrash, CreationInv, CreationTypeOK
<1>3. CreationTypeOK'
  BY <1>1, <1>2 DEF CreationInv, CreationTypeOK
<1>4. SlotInv'
  BY <1>1, <1>2 DEF CreationInv, SlotInv
<1>5. PhaseInv' /\ OutcomeInv'
  BY <1>1 DEF CreationInv, PhaseInv, OutcomeInv, FirstErrorReported
<1> QED BY <1>3, <1>4, <1>5 DEF CreationInv

\* Only while create() waits is an initialisation open.
LEMMA OpenInit ==
  ASSUME CreationInv, NEW s \in Slots, slot[s].waiting
  PROVE  /\ creationStage = "init" /\ all # Done
         /\ init[s] = "pending" /\ slot[s].state = "running"
<1>1. init[s] = "pending" /\ slot[s].state = "running"
  BY DEF CreationInv, SlotInv
<1>2. all # Done
  BY <1>1 DEF CreationInv, OutcomeInv
<1> QED BY <1>1, <1>2 DEF CreationInv, CreationTypeOK, PhaseInv

\* The first rejection is the one that Promise.all keeps.
LEMMA RejectionKept ==
  ASSUME CreationInv, NEW s \in Slots, NEW error \in Errors, slot[s].waiting,
         InitRejected(s, error)
  PROVE  /\ init' = [init EXCEPT ![s] = "rejected"]
         /\ all' \in Errors /\ broken' \in Seq(Errors)
         /\ broken' # <<>> /\ broken'[1] = all'
<1>1. creationStage = "init" /\ all # Done
  BY OpenInit
<1>2. all \in Errors \cup {NoError} /\ broken \in Seq(Errors)
  BY <1>1 DEF CreationInv, CreationTypeOK
<1>3. CASE all = NoError
  <2>1. broken = <<>>
    BY <1>1, <1>3, ErrorValues DEF CreationInv, OutcomeInv
  <2>2. broken' = <<error>> /\ all' = error
    BY <1>3, <2>1 DEF InitRejected, FirstFailure
  <2> QED BY <2>2 DEF InitRejected
<1>4. CASE all # NoError
  <2>1. all \in Errors /\ broken # <<>> /\ broken[1] = all
    BY <1>1, <1>2, <1>4 DEF CreationInv, OutcomeInv
  <2>2. broken' = Append(broken, error) /\ all' = all
    BY <1>4 DEF InitRejected, FirstFailure
  <2> QED BY <1>2, <2>1, <2>2 DEF InitRejected
<1> QED BY <1>3, <1>4

\* An answer settles the initialisation it answers and no other.
LEMMA CreationOnMessageKeeps ==
  ASSUME CreationInv, NEW s \in Slots, CreationOnMessage(s)
  PROVE  CreationInv'
<1>1. UNCHANGED <<creationStage, handled, reported, terminalError, worker, refused>>
  BY DEF CreationOnMessage
<1>2. wire' \in [Slots -> {"none", "posted", "ok", "error"}]
  BY DEF CreationOnMessage, CreationInv, CreationTypeOK
<1>3. /\ slot \in [Slots -> SlotStates] /\ slot[s] \in SlotStates
      /\ init \in [Slots -> {"none", "pending", "ok", "rejected"}]
  BY DEF CreationInv, CreationTypeOK
<1>4. CASE ~(slot[s].listening /\ slot[s].state = "running" /\ slot[s].waiting)
  <2>1. UNCHANGED <<slot, init, all, broken>>
    BY <1>4 DEF CreationOnMessage
  <2> QED BY <1>1, <1>2, <2>1
          DEF CreationInv, CreationTypeOK, SlotInv, PhaseInv, OutcomeInv, FirstErrorReported
<1>5. CASE slot[s].listening /\ slot[s].state = "running" /\ slot[s].waiting
  <2> DEFINE c == [slot[s] EXCEPT !.waiting = FALSE]
  <2>1. creationStage = "init" /\ all # Done
    BY <1>5, OpenInit
  <2>2. /\ c \in SlotStates /\ ~c.waiting
        /\ c.state = slot[s].state /\ c.error = slot[s].error
        /\ c.listening = slot[s].listening /\ c.hooked = slot[s].hooked
    BY <1>3 DEF SlotStates
  <2>3. slot' = [slot EXCEPT ![s] = c]
    BY <1>5 DEF CreationOnMessage
  <2> HIDE DEF c
  <2>4. slot'[s] = c /\ slot' \in [Slots -> SlotStates] /\ \A r \in Slots \ {s} : slot'[r] = slot[r]
    BY <1>3, <2>2, <2>3
  <2>5. /\ init' \in [Slots -> {"none", "pending", "ok", "rejected"}]
        /\ init'[s] \in {"ok", "rejected"} /\ \A r \in Slots \ {s} : init'[r] = init[r]
        /\ all' \in Errors \cup {NoError, Done} /\ broken' \in Seq(Errors)
        /\ all' = Done => \A r \in Slots : init'[r] = "ok"
        /\ (broken' = <<>>) <=> (all' \notin Errors)
        /\ broken' # <<>> => broken'[1] = all'
    <3>1. CASE wire[s] = "error"
      <4>1. InitRejected(s, <<"answer", s>>)
        BY <1>5, <3>1 DEF CreationOnMessage
      <4>2. /\ init' = [init EXCEPT ![s] = "rejected"]
            /\ all' \in Errors /\ broken' \in Seq(Errors)
            /\ broken' # <<>> /\ broken'[1] = all'
        BY <1>5, <4>1, ErrorValues, RejectionKept
      <4> QED BY <1>3, <4>2, ErrorValues
    <3>2. CASE wire[s] # "error"
      <4>1. /\ init' = [init EXCEPT ![s] = "ok"] /\ broken' = broken
            /\ all' = IF all = NoError /\ \A t \in Slots \ {s} : init[t] = "ok" THEN Done ELSE all
        BY <1>5, <3>2 DEF CreationOnMessage
      <4>2. /\ init' \in [Slots -> {"none", "pending", "ok", "rejected"}]
            /\ init'[s] = "ok" /\ \A r \in Slots \ {s} : init'[r] = init[r]
        BY <1>3, <4>1
      <4>3. /\ all \in Errors \cup {NoError} /\ broken \in Seq(Errors)
            /\ (broken = <<>>) <=> (all \notin Errors)
            /\ broken # <<>> => broken[1] = all
        BY <2>1 DEF CreationInv, CreationTypeOK, OutcomeInv
      <4>4. CASE all = NoError /\ \A t \in Slots \ {s} : init[t] = "ok"
        BY <4>1, <4>2, <4>3, <4>4, ErrorValues
      <4>5. CASE ~(all = NoError /\ \A t \in Slots \ {s} : init[t] = "ok")
        BY <2>1, <4>1, <4>2, <4>3, <4>5
      <4> QED BY <4>4, <4>5
    <3> QED BY <3>1, <3>2
  <2>6. CreationTypeOK'
    BY <1>1, <1>2, <2>4, <2>5 DEF CreationInv, CreationTypeOK
  <2>7. SlotInv'
    <3> SUFFICES ASSUME NEW r \in Slots
                 PROVE  /\ slot'[r].listening <=> slot'[r].state = "running"
                        /\ slot'[r].hooked => slot'[r].state = "running"
                        /\ slot'[r].waiting => slot'[r].state = "running"
                        /\ slot'[r].waiting <=> init'[r] = "pending"
                        /\ creationStage' = "init" /\ slot'[r].state = "failed"
                             => slot'[r].error = <<"died", r>>
                        /\ slot'[r].state = "none" => worker'[r] = "none" /\ init'[r] = "none"
                        /\ slot'[r].state = "closed" => worker'[r] = "gone" \/ r \in refused'
      BY DEF SlotInv
    <3>1. CASE r = s
      BY <1>5, <2>2, <2>4, <2>5, <3>1
    <3>2. CASE r # s
      <4>1. slot'[r] = slot[r] /\ init'[r] = init[r]
        BY <2>4, <2>5, <3>2
      <4> QED BY <1>1, <4>1 DEF CreationInv, SlotInv
    <3> QED BY <3>1, <3>2
  <2>8. PhaseInv'
    BY <1>1, <2>1, <2>2, <2>4 DEF CreationInv, PhaseInv
  <2>9. OutcomeInv'
    BY <1>1, <2>1, <2>5 DEF CreationInv, OutcomeInv, FirstErrorReported
  <2> QED BY <2>6, <2>7, <2>8, <2>9 DEF CreationInv
<1> QED BY <1>4, <1>5

\* The death of a worker fails its slot: an open initialisation is rejected, and a
\* published pool learns of it.
LEMMA SignalKeeps ==
  ASSUME CreationInv, NEW s \in Slots, SignalSlotFailure(s),
         worker[s] \in {"threw", "exited"},
         \E w \in {"exited", "gone"} : worker' = [worker EXCEPT ![s] = w],
         UNCHANGED <<creationStage, handled, reported, wire, refused>>
  PROVE  CreationInv'
<1> DEFINE died == <<"died", s>>
<1>1. /\ worker' \in [Slots -> {"none", "up", "threw", "exited", "gone"}]
      /\ worker[s] # "none" /\ \A r \in Slots \ {s} : worker'[r] = worker[r]
      /\ worker[s] # "gone" /\ worker'[s] # "none"
  BY DEF CreationInv, CreationTypeOK
<1>2. /\ slot \in [Slots -> SlotStates] /\ slot[s] \in SlotStates
      /\ init \in [Slots -> {"none", "pending", "ok", "rejected"}]
  BY DEF CreationInv, CreationTypeOK
<1>3. died \in Errors /\ died # NoError /\ died # Done
  BY ErrorValues
<1>4. CASE ~(slot[s].listening /\ slot[s].state = "running")
  <2>1. UNCHANGED <<slot, terminalError, init, all, broken>>
    BY <1>4 DEF SignalSlotFailure
  <2>2. CreationTypeOK'
    BY <1>1, <2>1 DEF CreationInv, CreationTypeOK
  <2>3. SlotInv'
    BY <1>1, <2>1 DEF CreationInv, SlotInv
  <2>4. PhaseInv' /\ OutcomeInv'
    BY <2>1 DEF CreationInv, PhaseInv, OutcomeInv, FirstErrorReported
  <2> QED BY <2>2, <2>3, <2>4 DEF CreationInv
<1>5. CASE slot[s].listening /\ slot[s].state = "running"
  <2> DEFINE error == SlotError(s, died)
             c == [slot[s] EXCEPT !.state = "failed", !.error = error, !.hooked = FALSE,
                                  !.listening = FALSE, !.waiting = FALSE]
  <2>a. error \in Errors
    BY <1>3 DEF SlotError, TerminalAfter, CreationInv, CreationTypeOK
  <2>b. error = IF slot[s].hooked THEN TerminalAfter(s, died) ELSE died
    BY DEF SlotError
  <2> HIDE DEF error
  <2>1. /\ c \in SlotStates /\ c.state = "failed" /\ c.error = error
        /\ ~c.hooked /\ ~c.listening /\ ~c.waiting
    BY <1>2, <2>a DEF SlotStates
  <2>2. slot' = [slot EXCEPT ![s] = c]
    BY <1>5 DEF SignalSlotFailure, FailSlot, error
  <2> HIDE DEF c
  <2>3. slot'[s] = c /\ slot' \in [Slots -> SlotStates] /\ \A r \in Slots \ {s} : slot'[r] = slot[r]
    BY <1>2, <2>1, <2>2
  <2>4. creationStage \in {"init", "published"}
    BY <1>5 DEF CreationInv, CreationTypeOK, PhaseInv
  <2>5. terminalError' = IF slot[s].hooked /\ terminalError = NoError THEN died ELSE terminalError
    BY <1>5 DEF SignalSlotFailure, TerminalAfter
  <2>6. /\ terminalError' \in Errors \cup {NoError}
        /\ creationStage = "init" => terminalError' = NoError
        /\ creationStage = "published" => terminalError' # NoError
    <3>1. CASE creationStage = "init"
      BY <2>5, <3>1 DEF CreationInv, CreationTypeOK, PhaseInv
    <3>2. CASE creationStage = "published"
      BY <1>3, <1>5, <2>5, <3>2 DEF CreationInv, CreationTypeOK, PhaseInv
    <3> QED BY <2>4, <3>1, <3>2
  <2>7. /\ init' \in [Slots -> {"none", "pending", "ok", "rejected"}]
        /\ init'[s] # "pending" /\ \A r \in Slots \ {s} : init'[r] = init[r]
        /\ all' \in Errors \cup {NoError, Done} /\ broken' \in Seq(Errors)
        /\ all' = Done => \A r \in Slots : init'[r] = "ok"
        /\ (broken' = <<>>) <=> (all' \notin Errors)
        /\ broken' # <<>> => broken'[1] = all'
        /\ creationStage = "published" => all' = Done
    <3>1. CASE slot[s].waiting
      <4>1. InitRejected(s, died)
        BY <1>5, <3>1 DEF SignalSlotFailure
      <4>2. /\ init' = [init EXCEPT ![s] = "rejected"]
            /\ all' \in Errors /\ broken' \in Seq(Errors)
            /\ broken' # <<>> /\ broken'[1] = all'
        BY <1>3, <3>1, <4>1, RejectionKept
      <4>3. creationStage = "init"
        BY <3>1, OpenInit
      <4> HIDE DEF died
      <4> QED BY <1>2, <4>2, <4>3, ErrorValues
    <3>2. CASE ~slot[s].waiting
      <4>1. UNCHANGED <<init, all, broken>>
        BY <1>5, <3>2 DEF SignalSlotFailure
      <4>2. init[s] # "pending"
        BY <3>2 DEF CreationInv, SlotInv
      <4> QED BY <1>2, <2>4, <4>1, <4>2 DEF CreationInv, CreationTypeOK, PhaseInv, OutcomeInv
    <3> QED BY <3>1, <3>2
  <2>8. CreationTypeOK'
    BY <1>1, <2>3, <2>6, <2>7 DEF CreationInv, CreationTypeOK
  <2>9. SlotInv'
    <3>1. creationStage = "init" => error = died
      BY <2>b DEF CreationInv, PhaseInv
    <3> QED BY <1>1, <2>1, <2>3, <2>7, <3>1 DEF CreationInv, SlotInv
  <2>10. PhaseInv'
    <3>1. creationStage = "published" => slot[s].hooked /\ error = terminalError'
      BY <1>5, <2>5, <2>b DEF CreationInv, PhaseInv, TerminalAfter
    <3>2. ASSUME creationStage = "published", NEW r \in Slots \ {s}, slot[r].state = "failed"
          PROVE  slot'[r].error = terminalError'
      BY <2>3, <2>5, <3>2 DEF CreationInv, PhaseInv
    <3> QED BY <2>1, <2>3, <2>4, <2>6, <2>7, <3>1, <3>2 DEF CreationInv, PhaseInv
  <2>11. OutcomeInv'
    BY <2>4, <2>7 DEF CreationInv, OutcomeInv, FirstErrorReported
  <2> QED BY <2>8, <2>9, <2>10, <2>11 DEF CreationInv
<1> QED BY <1>4, <1>5

\* Before create() there is nothing.
LEMMA CreationStarts ==
  ASSUME CreationInit
  PROVE  CreationInv
<1>a. NoSlot \in SlotStates
  BY DEF NoSlot, NewSlot, SlotStates
<1>b. broken \in Seq(Errors)
  BY DEF CreationInit
<1>1. CreationTypeOK
  BY <1>a, <1>b DEF CreationInit, CreationTypeOK
<1>2. SlotInv
  BY DEF CreationInit, SlotInv, NoSlot, NewSlot
<1>3. PhaseInv
  BY DEF CreationInit, PhaseInv, NoSlot, NewSlot
<1>4. OutcomeInv
  BY ErrorValues DEF CreationInit, OutcomeInv, FirstErrorReported
<1> QED BY <1>1, <1>2, <1>3, <1>4 DEF CreationInv

\* Every step keeps the invariant.
LEMMA CreationSteps ==
  ASSUME CreationInv, [CreationNext]_creationVars
  PROVE  CreationInv'
<1>1. CASE UNCHANGED creationVars
  BY <1>1 DEF creationVars, poolVars, threadVars, CreationInv, CreationTypeOK, SlotInv, PhaseInv,
              OutcomeInv, FirstErrorReported
<1>2. CASE Starts
  BY <1>2, StartKeeps DEF Starts
<1>3. CASE InitFailed
  BY <1>3, InitFailedKeeps
<1>4. CASE Publish
  BY <1>4, PublishKeeps
<1>5. CASE Rethrow
  BY <1>5, RethrowKeeps
<1>6. ASSUME NEW s \in Slots, TerminateReturns(s)
      PROVE  CreationInv'
  BY <1>6, TerminateReturnsKeeps
<1>7. ASSUME NEW s \in Slots, Answer(s) \/ CreationCrash(s)
      PROVE  CreationInv'
  BY <1>7, WorkerKeeps
<1>8. ASSUME NEW s \in Slots, CreationOnMessage(s)
      PROVE  CreationInv'
  BY <1>8, CreationOnMessageKeeps
<1>9. ASSUME NEW s \in Slots, CreationOnError(s) \/ CreationOnExit(s)
      PROVE  CreationInv'
  <2>1. /\ SignalSlotFailure(s) /\ worker[s] \in {"threw", "exited"}
        /\ \E w \in {"exited", "gone"} : worker' = [worker EXCEPT ![s] = w]
        /\ UNCHANGED <<creationStage, handled, reported, wire, refused>>
    BY <1>9 DEF CreationOnError, CreationOnExit
  <2> QED BY <2>1, SignalKeeps
<1> QED BY <1>1, <1>2, <1>3, <1>4, <1>5, <1>6, <1>7, <1>8, <1>9
        DEF CreationNext, CreationProgress, Settled

-----------------------------------------------------------------------------

\* Whatever dies, in whatever order, the slots, the promises and the stage of
\* create() fit together.
THEOREM CreationInvariance == CreationSpec => []CreationInv
<1>1. CreationInit => CreationInv
  BY CreationStarts
<1>2. CreationInv /\ [CreationNext]_creationVars => CreationInv'
  BY CreationSteps
<1> QED BY <1>1, <1>2, PTL DEF CreationSpec

\* createValidated(), for any number of threads: a published pool has an answer
\* from every worker, and knows of every slot that has failed.
THEOREM WholePools == CreationSpec => []PublishedWhole
<1>1. CreationInv => PublishedWhole
  BY DEF CreationInv, SlotInv, PhaseInv, OutcomeInv, PublishedWhole
<1> QED BY <1>1, CreationInvariance, PTL

\* The cleanup of create(), for any number of threads: when it rejects, every
\* worker is down or refused to be, and nothing listens or waits.
THEOREM NoLeaks == CreationSpec => []NothingLeaks
<1>1. CreationInv => NothingLeaks
  BY DEF CreationInv, SlotInv, PhaseInv, NothingLeaks
<1> QED BY <1>1, CreationInvariance, PTL

\* throw error: create() rejects with the failure that came first.
THEOREM FirstErrors == CreationSpec => []FirstErrorReported
<1>1. CreationInv => FirstErrorReported
  BY DEF CreationInv, OutcomeInv
<1> QED BY <1>1, CreationInvariance, PTL

\* A rejection of an initialisation never ends the process for want of a handler.
THEOREM RejectionsHandled == CreationSpec => []NoUnhandledRejection
<1>1. CreationInv => NoUnhandledRejection
  <2> SUFFICES ASSUME CreationInv, NEW s \in Slots, init[s] = "rejected"
               PROVE  s \in handled
    BY DEF NoUnhandledRejection
  <2>1. CASE creationStage = "new"
    BY <2>1 DEF CreationInv, SlotInv, PhaseInv
  <2>2. CASE creationStage = "init"
    BY <2>2 DEF CreationInv, PhaseInv
  <2>3. CASE creationStage = "published"
    BY <2>3 DEF CreationInv, PhaseInv, OutcomeInv
  <2>4. CASE creationStage \in {"cleanup", "failed"}
    BY <2>4 DEF CreationInv, PhaseInv
  <2> QED BY <2>1, <2>2, <2>3, <2>4 DEF CreationInv, CreationTypeOK
<1> QED BY <1>1, CreationInvariance, PTL
=============================================================================
