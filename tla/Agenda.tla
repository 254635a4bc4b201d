------------------------------- MODULE Agenda -------------------------------
(***************************************************************************)
(* The agenda of crates/ferric-rules-core/src/agenda.rs: the activations   *)
(* of the rules, kept in conflict-resolution order by a map of keys, with  *)
(* a reverse index by activation, one by token, and an index by rule that  *)
(* is built at the first focus miss and dropped when it would go stale.    *)
(* Sequence numbers are reclaimed when their space (u64 there, 0..MaxSeq   *)
(* here) is used up.                                                       *)
(*                                                                         *)
(* A key is one sequence of integers compared from the left: a reversed    *)
(* component is negated, and 1 ends a reversed list of recencies, so that  *)
(* the longer of two lists with a common prefix comes first.               *)
(***************************************************************************)
EXTENDS Integers, Sequences, FiniteSets, FiniteSetsExt, SequencesExt, Functions

CONSTANTS
    Matches,    \* what the network may activate: records of MatchType
    MaxLive,    \* bound on the live activations
    MaxSeq      \* u64::MAX of the sequence space

Strategies == {"Depth", "Breadth", "Lex", "Mea"}
Rules == {m.rule : m \in Matches}
Tokens == {m.token : m \in Matches}

ASSUME BoundsAssumption ==
    /\ MaxLive \in Nat \ {0} /\ MaxSeq \in Nat /\ MaxLive <= MaxSeq
    /\ \A m \in Matches : /\ m.salience \in Int /\ m.complexity \in Nat
                          /\ m.recency \in Seq(Nat)

VARIABLES
    activations,   \* id -> match with its id and activation_seq
    ordering,      \* key -> id
    idToKey,       \* id -> key
    tokenToActs,   \* token -> the ids of its activations, never empty
    indexed,       \* rule_ordering is Some
    ruleOrdering,  \* rule -> (key -> id), when indexed
    nextSeq,
    strategy,
    born           \* history: the live ids, oldest first

agendaVars == <<activations, ordering, idToKey, tokenToActs, indexed, ruleOrdering,
          nextSeq, strategy, born>>

Live == DOMAIN activations
None == [x \in {} |-> 0]

-----------------------------------------------------------------------------
(* Keys.                                                                   *)

Descending(recency) == SortSeq(recency, LAMBDA a, b : a > b)
Reversed(list) == [i \in DOMAIN list |-> -list[i]] \o <<1>>
First(recency) == IF recency = <<>> THEN 0 ELSE recency[1]

StrategyOrd(a, s) ==
    CASE s = "Depth" -> <<-a.seq>>
      [] s = "Breadth" -> <<a.seq>>
      [] s = "Lex" -> Reversed(Descending(a.recency))
      [] s = "Mea" -> <<-First(a.recency)>> \o Reversed(Descending(a.recency))

BuildKey(a, s) == <<-a.salience>> \o StrategyOrd(a, s) \o <<-a.complexity, a.seq>>

KeyLess(k, l) ==
    \E i \in DOMAIN k \cap DOMAIN l :
        k[i] < l[i] /\ \A j \in 1..(i - 1) : k[j] = l[j]

FirstKey(map) == CHOOSE k \in DOMAIN map : \A l \in DOMAIN map \ {k} : KeyLess(k, l)

(* The maps after all keys are computed again.                             *)
KeysOf(acts, s) == [i \in DOMAIN acts |-> BuildKey(acts[i], s)]
ByKey(keys) == [k \in Range(keys) |-> CHOOSE i \in DOMAIN keys : keys[i] = k]

IndexByRule(acts, order) ==
    [r \in {acts[i].rule : i \in Range(order)} |->
        Restrict(order, {k \in DOMAIN order : acts[order[k]].rule = r})]

-----------------------------------------------------------------------------
(* Indexes without one entry.                                              *)

Without(map, k) == Restrict(map, DOMAIN map \ {k})

RemoveFromTokenIndex(index, token, id) ==
    IF token \notin DOMAIN index THEN index
    ELSE IF index[token] \ {id} = {} THEN Without(index, token)
    ELSE [index EXCEPT ![token] = @ \ {id}]

RemoveRuleKey(index, rule, key) ==
    IF rule \notin DOMAIN index THEN index
    ELSE IF DOMAIN index[rule] \ {key} = {} THEN Without(index, rule)
    ELSE [index EXCEPT ![rule] = Without(@, key)]

AgendaInit ==
    /\ activations = None /\ ordering = None /\ idToKey = None
    /\ tokenToActs = None /\ indexed = FALSE /\ ruleOrdering = None
    /\ nextSeq = 0 /\ strategy = "Depth" /\ born = <<>>

-----------------------------------------------------------------------------
(* Sequence space: live activations are numbered anew in their order.      *)

\* Mutant: renumbers in the order of the slots.
RebasedBySlot(acts) ==
    [i \in DOMAIN acts |-> [acts[i] EXCEPT !.seq =
        Cardinality({j \in DOMAIN acts : j < i})]]

Rebased(acts) ==
    [i \in DOMAIN acts |-> [acts[i] EXCEPT !.seq =
        Cardinality({j \in DOMAIN acts : acts[j].seq < acts[i].seq})]]

SpaceUsedUp == nextSeq = MaxSeq

(* add: callers never activate one rule twice for one token.               *)
Add(m) ==
    LET full == SpaceUsedUp
        old == IF full THEN Rebased(activations) ELSE activations
        seq == IF full THEN Cardinality(Live) ELSE nextSeq
        keys == IF full THEN KeysOf(old, strategy) ELSE idToKey
        order == IF full THEN ByKey(keys) ELSE ordering
        id == Min((1..MaxLive) \ Live)
        a == [rule |-> m.rule, token |-> m.token, salience |-> m.salience,
              complexity |-> m.complexity, recency |-> m.recency, id |-> id, seq |-> seq]
        key == BuildKey(a, strategy)
        entry == IF m.rule \in DOMAIN ruleOrdering THEN ruleOrdering[m.rule] ELSE None
        still == indexed /\ ~full
    IN
    /\ Cardinality(Live) < MaxLive
    /\ \A i \in Live : activations[i].rule # m.rule \/ activations[i].token # m.token
    /\ activations' = (id :> a) @@ old
    /\ nextSeq' = seq + 1
    /\ ordering' = (key :> id) @@ order
    /\ idToKey' = (id :> key) @@ keys
    /\ indexed' = still
    /\ ruleOrdering' = IF still
                       THEN (m.rule :> ((key :> id) @@ entry)) @@ ruleOrdering
                       ELSE None
    /\ tokenToActs' = (m.token :> ({id} \cup IF m.token \in DOMAIN tokenToActs
                                             THEN tokenToActs[m.token] ELSE {}))
                      @@ tokenToActs
    /\ born' = Append(born, id)
    /\ UNCHANGED strategy

(* What every pop does once it has chosen the entry of key.                *)
Take(key, isIndexed, index) ==
    LET id == ordering[key]
        a == activations[id]
    IN
    /\ ordering' = Without(ordering, key)
    /\ idToKey' = Without(idToKey, id)
    /\ activations' = Without(activations, id)
    /\ indexed' = isIndexed
    /\ ruleOrdering' = IF isIndexed THEN RemoveRuleKey(index, a.rule, key) ELSE None
    /\ tokenToActs' = RemoveFromTokenIndex(tokenToActs, a.token, id)
    /\ born' = SelectSeq(born, LAMBDA i : i # id)
    /\ UNCHANGED <<nextSeq, strategy>>

Pop == Live # {} /\ Take(FirstKey(ordering), indexed, ruleOrdering)

(* pop_matching: a predicate on activations, by scanning the order.        *)
PopMatching(wanted) ==
    LET found == {k \in DOMAIN ordering : ordering[k] \in wanted}
    IN  found # {} /\ Take(FirstKey(Restrict(ordering, found)), indexed, ruleOrdering)

(* pop_matching_rule: the first entry when it is eligible, else the best   *)
(* head of the eligible rules in the index, which is built when missing.   *)
FocusMiss(eligible) ==
    Live # {} /\ activations[ordering[FirstKey(ordering)]].rule \notin eligible

RuleIndex == IF indexed THEN ruleOrdering ELSE IndexByRule(activations, ordering)

Heads(eligible) == {FirstKey(RuleIndex[r]) : r \in DOMAIN RuleIndex \cap eligible}

BestHead(heads) == CHOOSE k \in heads : \A l \in heads \ {k} : KeyLess(k, l)

PopMatchingRuleHit(eligible) == Live # {} /\ ~FocusMiss(eligible) /\ Pop

PopMatchingRuleMiss(eligible) ==
    /\ FocusMiss(eligible) /\ Heads(eligible) # {}
    /\ Take(BestHead(Heads(eligible)), TRUE, RuleIndex)

(* A miss without an eligible rule still leaves the index behind.          *)
PopMatchingRuleNone(eligible) ==
    /\ FocusMiss(eligible) /\ Heads(eligible) = {}
    /\ indexed' = TRUE /\ ruleOrdering' = RuleIndex
    /\ UNCHANGED <<activations, ordering, idToKey, tokenToActs, nextSeq, strategy, born>>

-----------------------------------------------------------------------------
(* Removals, strategy change and clear.                                    *)

LiveOfToken(token) == IF token \in DOMAIN tokenToActs THEN tokenToActs[token] ELSE {}

\* The maps without the activations of gone, whose tokens lose them too.
Drop(gone) ==
    /\ activations' = Restrict(activations, Live \ gone)
    /\ idToKey' = Restrict(idToKey, DOMAIN idToKey \ gone)
    /\ ordering' = Restrict(ordering, DOMAIN ordering \ {idToKey[i] : i \in gone})
    /\ born' = SelectSeq(born, LAMBDA i : i \notin gone)
    /\ UNCHANGED <<indexed, nextSeq, strategy>>

WithoutRuleKeys(gone) ==
    FoldSet(LAMBDA i, index : RemoveRuleKey(index, activations[i].rule, idToKey[i]),
            ruleOrdering, gone)

RemoveActivationsForToken(token) ==
    LET gone == LiveOfToken(token)
    IN  /\ gone # {}
        /\ Drop(gone)
        /\ ruleOrdering' = WithoutRuleKeys(gone)
        /\ tokenToActs' = Without(tokenToActs, token)

RemoveActivationsForRule(rule) ==
    LET gone == {i \in Live : activations[i].rule = rule}
    IN  /\ gone # {}
        /\ Drop(gone)
        /\ ruleOrdering' = Without(ruleOrdering, rule)
        /\ tokenToActs' = FoldSet(LAMBDA i, index : RemoveFromTokenIndex(index, activations[i].token, i),
                                  tokenToActs, gone)

SetStrategy(s) ==
    /\ s # strategy
    /\ strategy' = s
    /\ indexed' = FALSE /\ ruleOrdering' = None
    /\ idToKey' = KeysOf(activations, s)
    /\ ordering' = ByKey(KeysOf(activations, s))
    /\ UNCHANGED <<activations, tokenToActs, nextSeq, born>>

Clear ==
    /\ activations' = None /\ ordering' = None /\ idToKey' = None
    /\ tokenToActs' = None /\ indexed' = FALSE /\ ruleOrdering' = None
    /\ nextSeq' = 0 /\ born' = <<>>
    /\ UNCHANGED strategy

AgendaNext ==
    \/ \E m \in Matches : Add(m)
    \/ Pop
    \/ \E wanted \in SUBSET Live : PopMatching(wanted)
    \/ \E eligible \in SUBSET Rules : \/ PopMatchingRuleHit(eligible)
                                      \/ PopMatchingRuleMiss(eligible)
                                      \/ PopMatchingRuleNone(eligible)
    \/ \E token \in Tokens : RemoveActivationsForToken(token)
    \/ \E rule \in Rules : RemoveActivationsForRule(rule)
    \/ \E s \in Strategies : SetStrategy(s)
    \/ Clear

AgendaSpec == AgendaInit /\ [][AgendaNext]_agendaVars

-----------------------------------------------------------------------------
(* validate_consistency, which every restored snapshot has to pass.        *)

ValidateConsistency ==
    /\ \A k \in DOMAIN ordering : /\ ordering[k] \in Live \cap DOMAIN idToKey
                                  /\ idToKey[ordering[k]] = k
    /\ \A i \in DOMAIN idToKey : /\ i \in Live /\ idToKey[i] \in DOMAIN ordering
                                 /\ ordering[idToKey[i]] = i
    /\ \A t \in DOMAIN tokenToActs :
        /\ tokenToActs[t] # {} /\ tokenToActs[t] \subseteq Live
        /\ \A i \in tokenToActs[t] : activations[i].token = t
    /\ \A i \in Live :
        /\ i \in DOMAIN idToKey /\ activations[i].token \in DOMAIN tokenToActs
        /\ i \in tokenToActs[activations[i].token]
        /\ activations[i].id = i /\ activations[i].seq < nextSeq
        /\ \A j \in Live \ {i} : activations[i].seq # activations[j].seq
        /\ idToKey[i] = BuildKey(activations[i], strategy)
    /\ indexed => ruleOrdering = IndexByRule(activations, ordering)

-----------------------------------------------------------------------------
(* Properties.                                                             *)

\* Whatever the order of additions, pops, removals, rebases and strategy
\* changes, the four indexes describe the same activations: the state could
\* be written to a snapshot and would be accepted (validate_consistency).
IndexesAgree == ValidateConsistency

\* The conflict order of the manual, from the history and not from the keys:
\* salience; then, by strategy, the newer or the older activation, or the
\* recencies of the matched facts; then specificity; then the older one.
Older(i, j) == \E a, b \in DOMAIN born : a < b /\ born[a] = i /\ born[b] = j

MoreRecent(r, s) ==
    \/ \E n \in DOMAIN r \cap DOMAIN s :
           r[n] > s[n] /\ \A p \in 1..(n - 1) : r[p] = s[p]
    \/ IsStrictPrefix(s, r)

Precedes(i, j) ==
    LET a == activations[i]
        b == activations[j]
        ra == Descending(a.recency)
        rb == Descending(b.recency)
        lex == \/ MoreRecent(ra, rb)
               \/ ra = rb /\ a.complexity > b.complexity
               \/ ra = rb /\ a.complexity = b.complexity /\ Older(i, j)
    IN  \/ a.salience > b.salience
        \/ /\ a.salience = b.salience
           /\ CASE strategy = "Depth" -> Older(j, i)
                [] strategy = "Breadth" -> Older(i, j)
                [] strategy = "Lex" -> lex
                [] OTHER -> \/ First(a.recency) > First(b.recency)
                            \/ First(a.recency) = First(b.recency) /\ lex

BestOf(ids) == CHOOSE i \in ids : \A j \in ids \ {i} : Precedes(i, j)

\* The keys put the live activations in conflict order, also after sequence
\* numbers were reclaimed and after the strategy changed (build_key,
\* rebase_sequences, set_strategy).
InConflictOrder ==
    \A k, l \in DOMAIN ordering : KeyLess(k, l) <=> k # l /\ Precedes(ordering[k], ordering[l])

\* With any set of rules in focus, the entry pop_matching_rule takes after a
\* miss is the best of all eligible activations: the heads of the lazily kept
\* index are as good as a scan.
FocusTakesBest ==
    \A eligible \in SUBSET Rules :
        FocusMiss(eligible) =>
            LET ids == {i \in Live : activations[i].rule \in eligible}
            IN  /\ Heads(eligible) = {} <=> ids = {}
                /\ ids # {} => ordering[BestHead(Heads(eligible))] = BestOf(ids)

\* No step changes which of two surviving activations is the older one: the
\* sequence numbers agree with the history for ever.
ChronologySurvives ==
    \A i, j \in Live \cap DOMAIN activations' :
         (activations'[i].rule = activations[i].rule
          /\ activations'[j].rule = activations[j].rule
          /\ Older(i, j) /\ Older(i, j)')
         => activations'[i].seq < activations'[j].seq
=============================================================================
