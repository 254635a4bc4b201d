--------------------------- MODULE WorkingMemory ---------------------------
(***************************************************************************)
(* The engine's working memory as the host and the rules see it            *)
(* (engine.rs, effects.rs, host.rs and fact_address.rs of the runtime):    *)
(* the fact base, the protected initial fact, the host's fact handles, and *)
(* the two ways in which a rule designates a fact, by address and by       *)
(* index. A handle or an address may outlive its fact, a reset gives the   *)
(* arena's keys and timestamps out again, and modify runs arbitrary        *)
(* expressions between reading its target and replacing it.                *)
(*                                                                         *)
(* An expression that runs in the middle of modify or duplicate is any     *)
(* sequence of the other actions while pending is set. Matching of rules   *)
(* is the subject of ReteNetwork.                                          *)
(***************************************************************************)
EXTENDS FactBase

CONSTANTS
    Seeds,        \* the facts of the registered deffacts, in reset order
    PruneSlack,   \* 256 in HostState::prune
    MaxEpoch,     \* u64::MAX of the epochs
    MaxHandles,   \* bound on the handles issued
    MaxAddresses  \* bound on the addresses a program keeps, pending's included

ASSUME MemoryBoundsAssumption ==
    /\ Seeds \in Seq(Facts)
    /\ {PruneSlack, MaxEpoch, MaxHandles, MaxAddresses} \subseteq Nat

VARIABLES
    fb,          \* fact_base
    epoch,       \* fact_epoch
    initial,     \* initial_fact_id, or NoFact
    zeroBased,   \* fact_index_starts_at_zero
    dup,         \* fact_duplication
    handles,     \* host.facts.by_fact: id -> handle
    byHandle,    \* host.facts.by_handle: handle -> id
    addresses,   \* the addresses held in variables and globals
    pending,     \* the modify or duplicate under evaluation: <<>> or <<m>>
    issued,      \* history: handle -> the assertion it was issued for
    mixed        \* history: duplicates were allowed since the base was new

memoryVars == <<fb, epoch, initial, zeroBased, dup, handles, byHandle, addresses,
          pending, issued, mixed>>

MemoryLive == Ids(fb)
Nothing == [x \in {} |-> NoFact]

\* History: which assertion an id stands for, and what it asserted.
Assertion(id) == [epoch |-> epoch, stamp |-> fb.stamp[id], fact |-> fb.facts[id]]

-----------------------------------------------------------------------------
(* Designators.                                                            *)

PublicIndex(base, first, id) ==
    IF id = first THEN 0
    ELSE IF zeroBased \/ (first # NoFact /\ base.stamp[first] < base.stamp[id])
    THEN base.stamp[id]
    ELSE base.stamp[id] + 1

MakeAddress(base, era, id) ==
    [id |-> id, epoch |-> era, stamp |-> base.stamp[id], fact |-> base.facts[id]]

\* Mutant: an address of an earlier epoch is resolved.
AnyEpochId(base, era, a) ==
    IF a.id \in Ids(base) /\ base.stamp[a.id] = a.stamp THEN a.id ELSE NoFact

LiveFactId(base, era, a) ==
    IF a.epoch = era /\ a.id \in Ids(base) /\ base.stamp[a.id] = a.stamp
    THEN a.id ELSE NoFact

DesignatedByIndex(base, first, n) ==
    LET at == {i \in Ids(base) : PublicIndex(base, first, i) = n}
    IN  IF at = {} THEN NoFact ELSE CHOOSE i \in at : TRUE

(* A target of retract, modify or duplicate: an address, an index, or a    *)
(* value of another type.                                                  *)
Target == {[by |-> "address", a |-> a] : a \in addresses}
          \cup {[by |-> "index", n |-> n] : n \in -1..MaxTs}
          \cup {[by |-> "other"]}

Resolve(base, t) ==
    IF t.by = "address" THEN LiveFactId(base, epoch, t.a)
    ELSE DesignatedByIndex(base, initial, t.n)

ResolveTarget(base, t) ==
    CASE t.by = "other" -> "wrong type"
      [] t.by = "index" /\ t.n < 0 -> "negative"
      [] OTHER -> LET id == Resolve(base, t)
                  IN  IF id = NoFact THEN "missing"
                      ELSE IF id = initial THEN "protected" ELSE "live"

-----------------------------------------------------------------------------
(* Host handles.                                                           *)

Export(id) ==
    IF id \in DOMAIN handles THEN UNCHANGED <<handles, byHandle, issued>>
    ELSE LET h == Cardinality(DOMAIN issued) + 1
         IN  /\ h <= MaxHandles
             /\ handles' = (id :> h) @@ handles
             /\ byHandle' = (h :> id) @@ byHandle
             /\ issued' = (h :> [epoch |-> epoch, stamp |-> fb'.stamp[id],
                                 fact |-> fb'.facts[id]]) @@ issued

Known(h) == IF h \in DOMAIN byHandle THEN byHandle[h] ELSE NoFact

HandlesWithout(map, id) ==
    Restrict(map, {h \in DOMAIN map : map[h] # id})

RemoveHandles(ids) ==
    /\ handles' = Restrict(handles, DOMAIN handles \ ids)
    /\ byHandle' = FoldSet(LAMBDA i, m : HandlesWithout(m, i), byHandle, ids)

ClearFacts == handles' = Nothing /\ byHandle' = Nothing

(* prune walks the tables only when they are larger than the bound.        *)
Prune ==
    LET live == MemoryLive
        walk == Cardinality(DOMAIN handles) > 2 * Cardinality(live) + PruneSlack
    IN  /\ handles' = IF walk THEN Restrict(handles, DOMAIN handles \cap live) ELSE handles
        /\ byHandle' = IF walk THEN Restrict(byHandle, {h \in DOMAIN byHandle : byHandle[h] \in live})
                       ELSE byHandle
        /\ UNCHANGED <<fb, epoch, initial, zeroBased, dup, addresses, pending, issued, mixed>>

MemoryInit ==
    /\ fb = New /\ epoch = 0 /\ initial = NoFact /\ zeroBased = FALSE
    /\ dup = FALSE /\ mixed = FALSE
    /\ handles = Nothing /\ byHandle = Nothing /\ issued = [h \in {} |-> {}]
    /\ addresses = {} /\ pending = <<>>

-----------------------------------------------------------------------------
(* The host API.                                                           *)

Idle == pending = <<>>

(* assert_ordered, assert_template, assert: a duplicate yields the handle  *)
(* of the oldest equivalent fact.                                          *)
HostAssert(f) ==
    LET r == TryAssertFact(fb, f, dup)
    IN  /\ Idle
        /\ fb' = r.fb
        /\ IF r.how = "exhausted" THEN UNCHANGED <<handles, byHandle, issued>> ELSE Export(r.id)
        /\ mixed' = (mixed \/ dup)
        /\ UNCHANGED <<epoch, initial, zeroBased, dup, addresses, pending>>

(* facts, find_facts: every visible fact that is read gets a handle.       *)
HostRead(id) ==
    /\ Idle /\ id \in MemoryLive \ {initial} /\ id \notin DOMAIN handles
    /\ UNCHANGED fb /\ Export(id)
    /\ UNCHANGED <<epoch, initial, zeroBased, dup, addresses, pending, mixed>>

(* retract: an unknown handle, a dead fact and the initial fact are errors *)
HostRetract(h) ==
    LET id == Known(h)
    IN  /\ Idle /\ id \in MemoryLive /\ id # initial
        /\ fb' = Retract(fb, id)
        /\ RemoveHandles({id})
        /\ UNCHANGED <<epoch, initial, zeroBased, dup, addresses, pending, issued, mixed>>

SetFactDuplication(enabled) ==
    /\ enabled # dup /\ dup' = enabled
    /\ UNCHANGED <<fb, epoch, initial, zeroBased, handles, byHandle, addresses,
                   pending, issued, mixed>>

(* ensure_initial_fact, at the end of a load.                              *)
EnsureInitialFact ==
    LET r == TryAssertDistinctFact(fb, InitialFact)
    IN  /\ initial = NoFact /\ ~zeroBased /\ r.how = "asserted"
        /\ fb' = r.fb /\ initial' = r.id
        /\ UNCHANGED <<epoch, zeroBased, dup, handles, byHandle, addresses,
                       pending, issued, mixed>>

-----------------------------------------------------------------------------
(* Effects of right-hand sides and of evaluated expressions.               *)

(* assert_result: an address for a new fact, FALSE for a duplicate, an     *)
(* error when no timestamp is left; m is what stays pending.               *)
AssertResult(base, f, m) ==
    LET r == TryAssertFact(base, f, dup)
    IN  /\ fb' = r.fb
        /\ mixed' = (mixed \/ dup)
        /\ pending' = m
        /\ IF r.how = "asserted"
           THEN \E a \in {MakeAddress(r.fb, epoch, r.id)} :
                    /\ addresses' \in {addresses, addresses \cup {a}}
                    /\ Cardinality(addresses') + Len(m) <= MaxAddresses
           ELSE UNCHANGED addresses
        /\ UNCHANGED <<epoch, initial, zeroBased, dup, issued>>

AssertEffect(f) == AssertResult(fb, f, pending) /\ UNCHANGED <<handles, byHandle>>

(* retract with several targets: a missing fact is skipped, a negative     *)
(* index ends the call, a value of another type is reported at the end,    *)
(* the initial fact is an error at once.                                   *)
RetractFrom(base, targets) ==
    LET step(s, t) ==
            IF s.over THEN s
            ELSE CASE ResolveTarget(s.fb, t) \in {"missing", "wrong type"} -> s
                   [] ResolveTarget(s.fb, t) \in {"negative", "protected"} -> [s EXCEPT !.over = TRUE]
                   [] OTHER -> LET id == Resolve(s.fb, t)
                               IN  [s EXCEPT !.fb = Retract(@, id), !.gone = @ \cup {id}]
    IN  FoldLeft(step, [fb |-> base, gone |-> {}, over |-> FALSE], targets)

RetractEffect(targets) ==
    LET s == RetractFrom(fb, targets)
    IN  /\ s.gone # {}
        /\ fb' = s.fb
        /\ RemoveHandles(s.gone)
        /\ UNCHANGED <<epoch, initial, zeroBased, dup, addresses, pending, issued, mixed>>

(* modify, duplicate: the target is read, then its slots are evaluated.    *)
BeginReplace(op, t, f) ==
    /\ pending = <<>> /\ Cardinality(addresses) < MaxAddresses
    /\ ResolveTarget(fb, t) = "live"
    /\ f.kind = fb.facts[Resolve(fb, t)].kind
    /\ pending' = <<[op |-> op, fact |-> f,
                     address |-> MakeAddress(fb, epoch, Resolve(fb, t))]>>
    /\ UNCHANGED <<fb, epoch, initial, zeroBased, dup, handles, byHandle,
                   addresses, issued, mixed>>

CapacityToModify(base) == HasCapacity(base)

(* replace_fact: the original is retracted only if it is still the same    *)
(* assertion, and only when the replacement can be asserted.               *)
PublishReplacement ==
    /\ pending # <<>>
    /\ LET m == pending[1]
           old == LiveFactId(fb, epoch, m.address)
       IN  IF m.op = "duplicate" \/ (CapacityToModify(fb) /\ old = NoFact)
           THEN AssertResult(fb, m.fact, <<>>) /\ UNCHANGED <<handles, byHandle>>
           ELSE IF CapacityToModify(fb)
           THEN AssertResult(Retract(fb, old), m.fact, <<>>) /\ RemoveHandles({old})
           ELSE /\ pending' = <<>>
                /\ UNCHANGED <<fb, epoch, initial, zeroBased, dup, handles,
                               byHandle, addresses, issued, mixed>>

(* A failing slot expression leaves the target alone.                      *)
AbandonReplacement ==
    /\ pending # <<>> /\ pending' = <<>>
    /\ UNCHANGED <<fb, epoch, initial, zeroBased, dup, handles, byHandle,
                   addresses, issued, mixed>>

-----------------------------------------------------------------------------
(* Reset and clear.                                                        *)

Seeded(n) ==
    FoldLeft(LAMBDA base, f : TryAssertFact(base, f, dup).fb,
             TryAssertDistinctFact(New, InitialFact).fb, SubSeq(Seeds, 1, n))

(* reset, by the host or by an expression: after n seeds the next          *)
(* initializer fails, unless n is their number.                            *)
Reset(n) ==
    /\ epoch < MaxEpoch
    /\ epoch' = epoch + 1
    /\ fb' = Seeded(n)
    /\ initial' = <<1, 1>> /\ zeroBased' = FALSE
    /\ mixed' = dup
    /\ ClearFacts
    /\ UNCHANGED <<dup, addresses, pending, issued>>

(* clear by the host: every carrier of an address is gone, and the epoch   *)
(* may wrap.                                                               *)
MemoryClear ==
    /\ Idle
    /\ epoch' = (epoch + 1) % (MaxEpoch + 1)
    /\ fb' = New /\ initial' = NoFact /\ zeroBased' = FALSE /\ mixed' = dup
    /\ ClearFacts
    /\ addresses' = {}
    /\ UNCHANGED <<dup, pending, issued>>

(* (clear): refused while a fact is being assembled; with constructs in    *)
(* use only the facts go, and indexes start at zero.                       *)
ClearForEvaluation(inUse) ==
    /\ Idle /\ epoch < MaxEpoch
    /\ epoch' = epoch + 1
    /\ zeroBased' = inUse
    /\ fb' = IF inUse THEN New ELSE TryAssertDistinctFact(New, InitialFact).fb
    /\ initial' = IF inUse THEN NoFact ELSE <<1, 1>>
    /\ mixed' = dup
    /\ ClearFacts
    /\ UNCHANGED <<dup, addresses, pending, issued>>

MemoryNext ==
    \/ \E f \in Facts : HostAssert(f) \/ AssertEffect(f)
    \/ \E id \in MemoryLive : HostRead(id)
    \/ \E h \in DOMAIN issued : HostRetract(h)
    \/ \E b \in BOOLEAN : SetFactDuplication(b)
    \/ EnsureInitialFact
    \/ Prune
    \/ \E s, t \in Target : RetractEffect(<<s, t>>)
    \/ \E op \in {"modify", "duplicate"}, t \in Target, f \in Facts : BeginReplace(op, t, f)
    \/ PublishReplacement \/ AbandonReplacement
    \/ \E n \in 0..Len(Seeds) : Reset(n)
    \/ MemoryClear
    \/ \E inUse \in BOOLEAN : ClearForEvaluation(inUse)

MemorySpec == MemoryInit /\ [][MemoryNext]_memoryVars

-----------------------------------------------------------------------------
(* Properties.                                                             *)

\* Slots are reused and the index of fingerprints comes and goes with the
\* duplication policy, and still both indexes describe the live facts, the
\* candidates oldest first (insert_indexed, retract, ensure_structural_index).
IndexesExact ==
    /\ \A k \in Kinds : fb.byKind[k] = IdsOf(fb, k)
    /\ fb.built => fb.byHash = EnsureStructuralIndex([fb EXCEPT !.built = FALSE]).byHash

\* While duplicates were never allowed, no two live facts are equal, but for
\* the protected initial fact, which is distinct from a host fact of the same
\* name (try_assert_fact, try_assert_distinct_fact).
NoTwins ==
    ~mixed => \A i, j \in MemoryLive \ {initial} : fb.facts[i] = fb.facts[j] => i = j

\* A handle resolves to nothing or to the assertion it was issued for, also
\* after its slot was reused, after a reset gave the same keys out again and
\* after a clear (HostState, reset_state).
HandlesNameTheirFact ==
    \A h \in DOMAIN issued :
        Known(h) \in MemoryLive => Assertion(Known(h)) = issued[h]

\* The two handle tables mirror each other and hold no dead fact: stale
\* entries never pile up, whether the host or a rule retracts.
HandlesLive ==
    /\ \A i \in DOMAIN handles : i \in MemoryLive /\ Known(handles[i]) = i
    /\ \A h \in DOMAIN byHandle : byHandle[h] \in DOMAIN handles

\* An address resolves to nothing or to the very assertion it was made of,
\* however often its slot was reused or the base reset (live_fact_id).
AddressesNameTheirFact ==
    \A a \in addresses \cup {pending[n].address : n \in DOMAIN pending} :
        LET id == LiveFactId(fb, epoch, a)
        IN  id # NoFact => id = a.id /\ fb.facts[id] = a.fact

\* Distinct live facts have distinct public indexes, whether the initial fact
\* came first, later or never (public_fact_index).
IndexesUnique ==
    \A i, j \in MemoryLive : PublicIndex(fb, initial, i) = PublicIndex(fb, initial, j) => i = j

\* The initial fact cannot be removed by a handle, an address or an index: as
\* long as there is one, it is live (resolve_target, retract).
InitialProtected == initial # NoFact => initial \in MemoryLive /\ fb.facts[initial] = InitialFact

\* A fact keeps its public index for life, also when the initial fact is
\* installed after it.
IndexStable ==
    \A i \in MemoryLive \cap DOMAIN fb'.facts :
         (epoch' = epoch /\ fb'.stamp[i] = fb.stamp[i]) =>
             PublicIndex(fb, initial, i) = PublicIndex(fb', initial', i)

\* A modify that takes its target away leaves a live fact with the new
\* contents behind: it never fails half way, whatever its slot expressions did.
ModifyLosesNothing ==
    (pending # <<>> /\ pending' = <<>> /\ MemoryLive \ DOMAIN fb'.facts # {})
     => pending[1].fact \in Range(fb'.facts)

-----------------------------------------------------------------------------
(***************************************************************************)
(* Working memory in a snapshot (core/src/snapshot.rs, FactBase; the       *)
(* runtime's serialization.rs). An address carries the public index it had *)
(* when it was made, outlives its fact, and may stand in a global through  *)
(* resets and clears that start the clocks again. A restore has to tell an *)
(* address an engine may hold from one it may not, with nothing but the    *)
(* persisted clocks to go by, and starts the derived tables and the host's *)
(* handles anew.                                                           *)
(***************************************************************************)

VARIABLE index   \* address -> the public index it was made with

savedvars == <<memoryVars, index>>

-----------------------------------------------------------------------------
(* FactBase::validate_snapshot_checked: the clock is ahead of every fact,  *)
(* and the persisted indexes list the facts.                               *)
ValidateBase(base) ==
    /\ \A i \in Ids(base) : base.stamp[i] < base.next
    /\ \A i, j \in Ids(base) : base.stamp[i] = base.stamp[j] => i = j
    /\ \A k \in Kinds : base.byKind[k] = IdsOf(base, k)

(* The initial fact and the mode of counting exclude each other.           *)
ValidateInitial ==
    /\ zeroBased => initial = NoFact
    /\ initial # NoFact => initial \in MemoryLive /\ fb.facts[initial] = InitialFact

\* Mutant: an initial fact, if there is one, shifts every address.
IndexIfInitial(a, n) ==
    n \in {0, a.stamp, a.stamp + 1} /\ a.epoch = epoch =>
        n = IF initial = a.id THEN 0
            ELSE IF zeroBased \/ initial # NoFact THEN a.stamp ELSE a.stamp + 1

(* The index an address may carry: any of the three of an earlier epoch,   *)
(* the one it has in this epoch.                                           *)
ValidateIndex(a, n) ==
    /\ n \in {0, a.stamp, a.stamp + 1}
    /\ a.epoch = epoch =>
          n = IF initial = a.id THEN 0
              ELSE IF zeroBased \/ (initial # NoFact /\ fb.stamp[initial] < a.stamp)
              THEN a.stamp ELSE a.stamp + 1

ValidateAddress(a, n) ==
    /\ a.id # NoFact /\ a.epoch <= epoch /\ a.stamp < MaxTs
    /\ a.epoch = epoch =>
          /\ a.stamp < fb.next
          /\ initial = a.id => fb.stamp[initial] = a.stamp
          /\ a.id \in MemoryLive => a.stamp <= fb.stamp[a.id]
    /\ ValidateIndex(a, n)

Acceptable ==
    /\ ValidateBase(fb) /\ ValidateInitial
    /\ \A a \in addresses : ValidateAddress(a, index[a])

-----------------------------------------------------------------------------
(* The tables that are not persisted are empty after decoding; they are    *)
(* rebuilt when they are next needed.                                      *)
Decoded(base) ==
    [base EXCEPT !.built = FALSE, !.byHash = [p \in Hashes |-> <<>>],
                 !.chron = [k \in {} |-> {}]]

(* A saved engine is decoded into a new one: facts, clocks and addresses   *)
(* as they are, and no host handle.                                        *)
SaveAndRestore ==
    /\ Idle /\ Acceptable
    /\ fb' = Decoded(fb)
    /\ ClearFacts
    /\ UNCHANGED <<epoch, initial, zeroBased, dup, addresses, pending, issued, mixed, index>>

Spelled ==
    index' = [a \in addresses' |->
                 IF a \in DOMAIN index THEN index[a] ELSE PublicIndex(fb', initial', a.id)]

SavedInit == MemoryInit /\ index = [a \in {} |-> 0]

SavedNext == (MemoryNext /\ Spelled) \/ SaveAndRestore

SavedSpec == SavedInit /\ [][SavedNext]_savedvars

-----------------------------------------------------------------------------
(* Properties.                                                             *)

\* Whatever facts were asserted, retracted, reset and cleared, and whichever
\* addresses of whichever epoch the globals hold, the engine can be saved and
\* its snapshot restored (validate_restored_state runs on both sides).
SavedRestorable == Idle => Acceptable

Forgeries ==
    [id : MemoryLive, epoch : 0..epoch, stamp : 0..MaxTs, fact : {InitialFact}]

\* An address the validation lets through, saved here or not, designates the
\* fact whose index it shows, or none: the checks leave no address that
\* prints as one fact and resolves to another.
AcceptedTruthful ==
    \A a \in Forgeries, n \in 0..MaxTs :
        LET id == LiveFactId(fb, epoch, a)
        IN  (ValidateAddress(a, n) /\ id # NoFact) => DesignatedByIndex(fb, initial, n) = id

=============================================================================
