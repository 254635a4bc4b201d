------------------------------ MODULE FactBase ------------------------------
(***************************************************************************)
(* The fact base of crates/ferric-rules-core/src/fact.rs as operators on a *)
(* record: the arena of facts with its free slots and generations, the     *)
(* index by relation or template (kind), the index by structural           *)
(* fingerprint, which is dropped while duplicates are allowed and rebuilt  *)
(* when needed, the chronologies of the kinds that a query cursor has      *)
(* visited, and the timestamp counter.                                     *)
(*                                                                         *)
(* A fact is a kind and a value; Hash gives the fingerprint of a fact and *)
(* may give one fingerprint to several.                                    *)
(***************************************************************************)
EXTENDS Integers, Sequences, FiniteSets, SequencesExt, Functions

CONSTANTS
    Facts,        \* the facts that can be asserted: [kind, val]
    InitialFact,  \* (initial-fact), a member of Facts
    Hash,         \* fact -> fingerprint
    MaxTs         \* u64::MAX of the timestamps

Kinds == {f.kind : f \in Facts}
Hashes == {Hash[f] : f \in Facts}
NoFact == <<0, 0>>

ASSUME FactsAssumption == InitialFact \in Facts /\ MaxTs \in Nat

(* An id is <<slot, generation>>; a freed slot is reused under the next    *)
(* generation, the slot freed last first (slotmap::SlotMap).               *)
New == [facts |-> [i \in {} |-> InitialFact], stamp |-> [i \in {} |-> 0],
        gens |-> <<>>, free |-> <<>>,
        byKind |-> [k \in Kinds |-> {}],
        built |-> TRUE, byHash |-> [p \in Hashes |-> <<>>],
        chron |-> [k \in {} |-> {}],
        next |-> 0]

Ids(fb) == DOMAIN fb.facts
IdsOf(fb, kind) == {i \in Ids(fb) : fb.facts[i].kind = kind}
OldestFirst(fb, ids) == SetToSortSeq(ids, LAMBDA i, j : fb.stamp[i] < fb.stamp[j])

NextId(fb) ==
    IF fb.free = <<>> THEN <<Len(fb.gens) + 1, 1>>
    ELSE <<Head(fb.free), fb.gens[Head(fb.free)]>>

HasCapacity(fb) == fb.next < MaxTs

(* ensure_structural_index: candidates oldest first, whatever slots they   *)
(* occupy.                                                                 *)
EnsureStructuralIndex(fb) ==
    IF fb.built THEN fb
    ELSE [fb EXCEPT !.built = TRUE,
                    !.byHash = [p \in Hashes |->
                        OldestFirst(fb, {i \in Ids(fb) : Hash[fb.facts[i]] = p})]]

FindEquivalent(fb, fact) ==
    LET same == SelectSeq(fb.byHash[Hash[fact]], LAMBDA i : fb.facts[i] = fact)
    IN  IF same = <<>> THEN NoFact ELSE same[1]

(* insert_indexed, insert_fact, with room for a timestamp.                 *)
InsertIndexed(fb, fact) ==
    LET id == NextId(fb)
    IN  [fb EXCEPT
            !.facts = (id :> fact) @@ @,
            !.stamp = (id :> fb.next) @@ @,
            !.gens = IF fb.free = <<>> THEN Append(@, 1) ELSE @,
            !.free = IF @ = <<>> THEN @ ELSE Tail(@),
            !.byKind[fact.kind] = @ \cup {id},
            !.byHash = IF fb.built THEN [@ EXCEPT ![Hash[fact]] = Append(@, id)] ELSE @,
            !.chron = IF fact.kind \in DOMAIN @ THEN [@ EXCEPT ![fact.kind] = @ \cup {id}] ELSE @,
            !.next = @ + 1]

(* try_assert_fact: the base after the call, the id and what became of it. *)
Outcome(fb, id, how) == [fb |-> fb, id |-> id, how |-> how]

TryInsert(fb, fact) ==
    IF HasCapacity(fb) THEN Outcome(InsertIndexed(fb, fact), NextId(fb), "asserted")
    ELSE Outcome(fb, NoFact, "exhausted")

TryAssertFact(fb, fact, allowDuplicates) ==
    IF allowDuplicates
    THEN TryInsert([fb EXCEPT !.built = FALSE, !.byHash = [p \in Hashes |-> <<>>]], fact)
    ELSE LET indexed == EnsureStructuralIndex(fb)
             twin == FindEquivalent(indexed, fact)
         IN  IF twin # NoFact THEN Outcome(indexed, twin, "duplicate")
             ELSE TryInsert(indexed, fact)

(* try_assert_distinct_fact keeps the index if there is one.               *)
TryAssertDistinctFact(fb, fact) == TryInsert(fb, fact)

Retract(fb, id) ==
    LET fact == fb.facts[id]
        rest == Ids(fb) \ {id}
    IN  [fb EXCEPT !.facts = Restrict(@, rest), !.stamp = Restrict(@, rest),
                   !.gens[id[1]] = @ + 1, !.free = <<id[1]>> \o @,
                   !.byKind[fact.kind] = @ \ {id},
                   !.byHash[Hash[fact]] = SelectSeq(@, LAMBDA i : i # id),
                   !.chron = IF fact.kind \in DOMAIN @
                             THEN [@ EXCEPT ![fact.kind] = @ \ {id}] ELSE @]

(* next_template_fact_after, next_relation_fact_after: the chronology is   *)
(* built at the first call; after is a timestamp, -1 for the start.        *)
WithChronology(fb, kind) ==
    IF kind \in DOMAIN fb.chron THEN fb
    ELSE [fb EXCEPT !.chron = (kind :> fb.byKind[kind]) @@ @]

NextFactAfter(fb, kind, after) ==
    LET later == {i \in WithChronology(fb, kind).chron[kind] : fb.stamp[i] > after}
    IN  IF later = {} THEN NoFact
        ELSE CHOOSE i \in later : \A j \in later : fb.stamp[i] <= fb.stamp[j]
=============================================================================
