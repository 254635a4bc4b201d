------------------------------ MODULE FactQuery ------------------------------
(***************************************************************************)
(* A fact query (do-for-fact, do-for-all-facts, delayed-do-for-all-facts,  *)
(* any-factp, find-fact, find-all-facts) over a fact base that its own     *)
(* predicate and body change: query_cursor.rs, eval_fact_query of          *)
(* evaluator.rs and execute_query_action of actions.rs in the runtime.     *)
(* The cursor is a nested loop with one level per member of the query. A   *)
(* level remembers the timestamp it has reached, so that it survives       *)
(* retractions, reused slots, new assertions and resets.                   *)
(***************************************************************************)
EXTENDS FactBase

CONSTANTS
    Members,    \* the query's members: each a sequence of kinds
    QueryMaxEpoch,
    Budget      \* action-loop iterations of the evaluation

ASSUME QueryAssumption ==
    /\ Members \in Seq(Seq(Kinds)) /\ Members # <<>>
    /\ \A l \in DOMAIN Members : Members[l] # <<>>

VARIABLES
    queryFb, queryEpoch,
    form,                                                       \* the query's name
    phase,                                                      \* idle, search, predicate, body, delayed, delayed body, over
    level, targetIndex, targetEpoch, after, current, retained,  \* the cursor
    selected,                                                   \* the tuples of a delayed query
    found,                                                      \* the tuples of a find query
    budget,
    log,                                                        \* history: the fact of every assertion
    stable,                                                     \* history: the ids alive ever since the query began
    seen,                                                       \* history: the tuples of assertions the query has visited
    exhausted,                                                  \* history: the search came to its end
    twice                                                       \* history: a tuple was visited twice

cursor == <<level, targetIndex, targetEpoch, after, current, retained>>
history == <<stable, seen, exhausted, twice>>
queryVars == <<queryFb, queryEpoch, form, phase, cursor, selected, found, budget, log, history>>

Forms == {"do-for-fact", "do-for-all-facts", "delayed-do-for-all-facts",
          "any-factp", "find-fact", "find-all-facts"}
Levels == DOMAIN Members
Nobody == [id |-> NoFact, epoch |-> 0, stamp |-> 0, fact |-> InitialFact]
Start == -1

Name(m) == <<m.epoch, m.stamp>>

QueryInit ==
    /\ queryFb = New /\ queryEpoch = 0 /\ form \in Forms /\ phase = "idle"
    /\ level = 1
    /\ targetIndex = [l \in Levels |-> 1] /\ targetEpoch = [l \in Levels |-> 0]
    /\ after = [l \in Levels |-> Start] /\ current = [l \in Levels |-> Nobody]
    /\ retained = [a \in {} |-> InitialFact]
    /\ selected = <<>> /\ found = {} /\ budget = Budget
    /\ log = [n \in {} |-> InitialFact]
    /\ stable = {} /\ seen = {} /\ exhausted = FALSE /\ twice = FALSE

-----------------------------------------------------------------------------
(* Whatever runs before the query, in its predicate or in its body.        *)

Open == phase \in {"idle", "predicate", "body", "delayed body"}

AssertFact(f) ==
    /\ Open /\ HasCapacity(queryFb)
    /\ queryFb' = TryAssertFact(queryFb, f, TRUE).fb
    /\ log' = (<<queryEpoch, queryFb.next>> :> f) @@ log
    /\ UNCHANGED <<queryEpoch, form, phase, cursor, selected, found, budget, history>>

RetractFact(id) ==
    /\ Open
    /\ queryFb' = Retract(queryFb, id)
    /\ stable' = stable \ {id}
    /\ UNCHANGED <<queryEpoch, form, phase, cursor, selected, found, budget, log, seen, exhausted, twice>>

QueryReset(f) ==
    /\ Open /\ queryEpoch < QueryMaxEpoch
    /\ queryEpoch' = queryEpoch + 1
    /\ queryFb' = TryAssertFact(New, f, TRUE).fb
    /\ log' = (<<queryEpoch + 1, 0>> :> f) @@ log
    /\ stable' = {}
    /\ UNCHANGED <<form, phase, cursor, selected, found, budget, seen, exhausted, twice>>

-----------------------------------------------------------------------------
(* ActionQueryCursor::new looks at every target of every member.           *)

Visited == FoldSet(LAMBDA k, base : WithChronology(base, k), queryFb,
                   UNION {Range(Members[l]) : l \in Levels})

NoneOf(l) == \A k \in Range(Members[l]) : NextFactAfter(queryFb, k, Start) = NoFact

Begin ==
    /\ phase = "idle"
    /\ queryFb' = Visited
    /\ phase' = IF \E l \in Levels : NoneOf(l) THEN "over" ELSE "search"
    /\ targetEpoch' = [l \in Levels |-> queryEpoch]
    /\ stable' = Ids(queryFb)
    /\ exhausted' = \E l \in Levels : NoneOf(l)
    /\ UNCHANGED <<queryEpoch, form, level, targetIndex, after, current, retained,
                   selected, found, budget, log, seen, twice>>

(* One turn of the loop of ActionQueryCursor::next.                        *)
Kind == Members[level][targetIndex[level]]

NextOfTarget ==
    IF targetEpoch[level] = queryEpoch THEN NextFactAfter(queryFb, Kind, after[level]) ELSE NoFact

Fails ==
    /\ phase' = "over"
    /\ UNCHANGED <<queryFb, queryEpoch, form, cursor, selected, found, budget, log, history>>

RetainedKey(a) == [id |-> a.id, epoch |-> a.epoch, stamp |-> a.stamp]

Found(id) ==
    LET key == RetainedKey([id |-> id, epoch |-> queryEpoch, stamp |-> queryFb.stamp[id]])
        kept == IF key \in DOMAIN retained THEN retained ELSE (key :> queryFb.facts[id]) @@ retained
        m == [id |-> id, epoch |-> queryEpoch, stamp |-> queryFb.stamp[id], fact |-> kept[key]]
        last == level = Len(Members)
        tuple == [l \in Levels |-> Name(IF l = level THEN m ELSE current[l])]
    IN  /\ budget > 0 /\ budget' = budget - 1
        /\ queryFb' = WithChronology(queryFb, Kind)
        /\ retained' = kept
        /\ current' = [current EXCEPT ![level] = m]
        /\ IF last
           THEN /\ phase' = "predicate"
                /\ after' = [after EXCEPT ![level] = queryFb.stamp[id]]
                /\ seen' = seen \cup {tuple} /\ twice' = (twice \/ tuple \in seen)
                /\ UNCHANGED <<level, targetIndex, targetEpoch>>
           ELSE /\ level' = level + 1
                /\ after' = [after EXCEPT ![level] = queryFb.stamp[id], ![level + 1] = Start]
                /\ targetIndex' = [targetIndex EXCEPT ![level + 1] = 1]
                /\ targetEpoch' = [targetEpoch EXCEPT ![level + 1] = queryEpoch]
                /\ UNCHANGED <<phase, seen, twice>>
        /\ UNCHANGED <<queryEpoch, form, selected, found, log, stable, exhausted>>

ChronologyRestarts == [after EXCEPT ![level] = Start]

NextTarget ==
    /\ targetIndex[level] < Len(Members[level])
    /\ targetIndex' = [targetIndex EXCEPT ![level] = @ + 1]
    /\ after' = ChronologyRestarts
    /\ targetEpoch' = [targetEpoch EXCEPT ![level] = queryEpoch]
    /\ UNCHANGED <<phase, level, current, exhausted>>

EndSearch ==
    /\ targetIndex[level] = Len(Members[level]) /\ level = 1
    /\ exhausted' = TRUE
    /\ phase' = IF selected = <<>> THEN "over" ELSE "delayed"
    /\ UNCHANGED <<level, targetIndex, targetEpoch, after, current>>

BackToOuter ==
    /\ targetIndex[level] = Len(Members[level]) /\ level > 1
    /\ current' = [current EXCEPT ![level] = Nobody]
    /\ after' = [after EXCEPT ![level] = Start]
    /\ level' = level - 1
    /\ UNCHANGED <<phase, targetIndex, targetEpoch, exhausted>>

Advance ==
    /\ phase = "search"
    /\ LET id == NextOfTarget
       IN  \/ id # NoFact /\ budget = 0 /\ Fails
           \/ id # NoFact /\ Found(id)
           \/ /\ id = NoFact
              /\ NextTarget \/ EndSearch \/ BackToOuter
              /\ queryFb' = WithChronology(queryFb, Kind)
              /\ UNCHANGED <<queryEpoch, form, retained, selected, found, budget, log,
                             stable, seen, twice>>

-----------------------------------------------------------------------------
(* eval_fact_query_inner, execute_query_action_inner.                      *)

Tuple == [l \in Levels |-> current[l]]

Predicate(holds) ==
    /\ phase = "predicate"
    /\ phase' = CASE ~holds -> "search"
                  [] form \in {"any-factp", "find-fact"} -> "over"
                  [] form \in {"find-all-facts", "delayed-do-for-all-facts"} -> "search"
                  [] OTHER -> "body"
    /\ found' = IF holds /\ form \in {"find-fact", "find-all-facts"}
                THEN found \cup {Tuple} ELSE found
    /\ selected' = IF holds /\ form = "delayed-do-for-all-facts"
                   THEN Append(selected, Tuple) ELSE selected
    /\ UNCHANGED <<queryFb, queryEpoch, form, cursor, budget, log, history>>

BodyReturns ==
    /\ phase = "body"
    /\ phase' = IF form = "do-for-fact" THEN "over" ELSE "search"
    /\ UNCHANGED <<queryFb, queryEpoch, form, cursor, selected, found, budget, log, history>>

(* break, return and errors leave the query at once.                       *)
Leave == phase \in {"predicate", "body", "delayed body"} /\ Fails

(* The bodies of a delayed query run over what was selected.               *)
DelayedBody ==
    /\ phase = "delayed" /\ budget > 0
    /\ budget' = budget - 1
    /\ current' = Head(selected)
    /\ selected' = Tail(selected)
    /\ phase' = "delayed body"
    /\ UNCHANGED <<queryFb, queryEpoch, form, level, targetIndex, targetEpoch, after, retained,
                   found, log, history>>

DelayedOutOfBudget == phase = "delayed" /\ budget = 0 /\ Fails

DelayedReturns ==
    /\ phase = "delayed body"
    /\ phase' = IF selected = <<>> THEN "over" ELSE "delayed"
    /\ UNCHANGED <<queryFb, queryEpoch, form, cursor, selected, found, budget, log, history>>

Over == phase = "over" /\ UNCHANGED queryVars

QueryNext ==
    \/ \E f \in Facts : AssertFact(f) \/ QueryReset(f)
    \/ \E id \in Ids(queryFb) : RetractFact(id)
    \/ Begin \/ Advance
    \/ \E holds \in BOOLEAN : Predicate(holds)
    \/ BodyReturns \/ Leave
    \/ DelayedBody \/ DelayedOutOfBudget \/ DelayedReturns
    \/ Over

QuerySpec == QueryInit /\ [][QueryNext]_queryVars

-----------------------------------------------------------------------------
(* Properties.                                                             *)

\* The chronology of every kind a cursor has used lists exactly the live facts
\* of the kind, although it is built once and then maintained across
\* retractions and assertions (by_template_chronology).
ChronologyExact == \A k \in DOMAIN queryFb.chron : queryFb.chron[k] = IdsOf(queryFb, k)

\* Every member the predicate or the body can look at has the contents of the
\* assertion its address names, also when that fact is gone, its slot was
\* reused or the base was reset (CompactFactBinding::retained).
MembersTrue ==
    \A t \in {Tuple} \cup Range(selected) \cup found : \A l \in Levels :
        t[l] # Nobody => t[l].fact = log[Name(t[l])]

\* No tuple of assertions is visited twice, whatever is asserted, retracted or
\* reset in between.
NoTupleTwice == ~twice

\* A search that came to its end has visited every tuple of facts that lived
\* through the whole query (ActionQueryCursor).
NothingSkipped ==
    exhausted =>
        \A t \in [Levels -> stable] :
            (\A l \in Levels : queryFb.facts[t[l]].kind \in Range(Members[l]))
            => [l \in Levels |-> <<queryEpoch, queryFb.stamp[t[l]]>>] \in seen
=============================================================================
