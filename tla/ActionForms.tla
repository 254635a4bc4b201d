---------------------------- MODULE ActionForms ----------------------------
(***************************************************************************)
(* The reading of right-hand sides: how the second stage of the parser     *)
(* turns the elements of a list into the expressions of an action.  A      *)
(* compact slot reference ?f:s arrives as three elements, the words then,  *)
(* else and do delimit the parts of a form only where an expression could  *)
(* begin, and the same word in another place is an ordinary symbol or the  *)
(* name of a slot.                                                         *)
(*                                                                         *)
(* An element is an atom, given by its word, or a list.  An expression is  *)
(* a tree: an operation and its parts, each a sequence of expressions.     *)
(* What is read is an option, a sequence of at most one member; the empty  *)
(* one is an error.  A user writes one action, element by element.         *)
(***************************************************************************)
EXTENDS Integers, Sequences, SequencesExt, FiniteSets, FiniteSetsExt

CONSTANTS
  Heads,          \* the heads of the actions written
  ItemsOf(_),     \* the elements used after a head
  MaxItems(_)     \* how many elements may follow a head

VARIABLES head, items
formVars == <<head, items>>

-----------------------------------------------------------------------------
(* Elements *)

FormAtom(w) == [w |-> w, sub |-> <<>>]
List(es) == [w |-> "(", sub |-> es]

SingleVars == {"v", "x", "?", "?ALL", "?NONE"}   \* "?" has no name
MultiVars == {"$v"}
Connectives == {":", "&", "|", "~", "=", "<-"}
Literals == {"n", "big", "g", "c"}   \* integers, a global variable, a string

IsList(e) == e.w = "("
IsSymbol(e) ==
  e.w \notin {"("} \cup SingleVars \cup MultiVars \cup Connectives \cup Literals
Is(e, word) == e.w = word
IsAt(es, i, word) == i \in DOMAIN es /\ Is(es[i], word)
From(es, i) == SubSeq(es, i, Len(es))

(* Expressions *)

Tree(op, parts) == [op |-> op, parts |-> parts]
Leaf(w) == Tree(w, <<>>)
SlotRef(f, s) == Tree("slot", << <<Leaf(f.w), Leaf(s.w)>> >>)
One == Leaf("1")                     \* the start of a count without one

Queries == {"do-for-fact", "do-for-all-facts", "delayed-do-for-all-facts",
            "any-factp", "find-fact", "find-all-facts"}
ResultQueries == {"any-factp", "find-fact", "find-all-facts"}
Forms == {"if", "while", "switch", "loop-for-count", "progn$", "foreach"} \cup Queries
Mutations == {"modify", "duplicate"}

-----------------------------------------------------------------------------
(* One expression and a sequence of them *)

\* What is made of a part that was read; an error in it is one of the whole.
IfRead(part, F(_)) == IF part = <<>> THEN <<>> ELSE F(part[1])

\* The sequence of several parts, when all were read.
AllRead(parts) ==
  IF \E i \in DOMAIN parts : parts[i] = <<>> THEN <<>>
  ELSE << [i \in DOMAIN parts |-> parts[i][1]] \o <<>> >>

RECURSIVE interpret_action_expr_inner(_)

fact_slot_ref(es) ==
  /\ Len(es) >= 3
  /\ es[1].w \in SingleVars /\ Is(es[2], ":") /\ IsSymbol(es[3])

\* The first expression of es, and the number of elements it takes.
interpret_action_expr_prefix(es) ==
  IF fact_slot_ref(es) THEN [t |-> <<SlotRef(es[1], es[3])>>, n |-> 3]
  ELSE IF es = <<>> THEN [t |-> <<>>, n |-> 0]
  ELSE [t |-> interpret_action_expr_inner(es[1]), n |-> 1]

\* The expressions of es up to a word of Stops at the start of an expression,
\* as an option, and the elements left.
RECURSIVE ReadUntil(_, _)
ReadOn(es, p, r) ==
  IF p.t = <<>> \/ r.ts = <<>> THEN [ts |-> <<>>, rest |-> es]
  ELSE [ts |-> << p.t \o r.ts[1] >>, rest |-> r.rest]
ReadAfter(es, p, Stops) == ReadOn(es, p, ReadUntil(From(es, p.n + 1), Stops))
ReadUntil(es, Stops) ==
  IF es = <<>> \/ (es # <<>> /\ es[1].w \in Stops)
  THEN [ts |-> << <<>> >>, rest |-> es]
  ELSE ReadAfter(es, interpret_action_expr_prefix(es), Stops)

interpret_action_expr_sequence(es) == ReadUntil(es, {}).ts

\* The tree of an operation over its parts.
Combine(op, parts) == IfRead(AllRead(parts), LAMBDA ps : <<Tree(op, ps)>>)

\* An option of one expression as an option of a part.
Part(t) == IF t = <<>> THEN <<>> ELSE <<t>>

\* A named part before others.
Named(name, part) == IfRead(part, LAMBDA ts : << <<Leaf(name)>> \o ts >>)

-----------------------------------------------------------------------------
(* The forms *)

IfParts(c, then) ==
  Combine("if", <<Part(c), then.ts, interpret_action_expr_sequence(From(then.rest, 2))>>)
IfAfter(es, c) ==
  IF ~IsAt(es, c.n + 1, "then") THEN <<>>
  ELSE IfParts(c.t, ReadUntil(From(es, c.n + 2), {"else"}))
interpret_if_expr(es) == IfAfter(es, interpret_action_expr_prefix(es))

\* The elements of a body from position i on, without a leading do.
Body(es, i) ==
  interpret_action_expr_sequence(From(es, IF IsAt(es, i, "do") THEN i + 1 ELSE i))

WhileAfter(es, c) == Combine("while", <<Part(c.t), Body(es, c.n + 1)>>)
interpret_while_expr(es) == WhileAfter(es, interpret_action_expr_prefix(es))

\* A clause of a switch: its value and its actions, or the mark of a default
\* and its actions.
CaseAfter(es, v) ==
  IF \/ Len(es) < 4 \/ ~IsAt(es, v.n + 2, "then") \/ v.n + 2 = Len(es) THEN <<>>
  ELSE IfRead(AllRead(<<Part(v.t), interpret_action_expr_sequence(From(es, v.n + 3))>>),
              LAMBDA ps : <<ps[1] \o ps[2]>>)
SwitchClause(c) ==
  CASE Is(c.sub[1], "case") -> CaseAfter(c.sub, interpret_action_expr_prefix(From(c.sub, 2)))
    [] Is(c.sub[1], "default") ->
         Named("default", interpret_action_expr_sequence(From(c.sub, 2)))
    [] OTHER -> <<>>

IsDefault(c) == Is(c.sub[1], "default")
SwitchAfter(d, clauses) ==
  LET defaults == SelectSeq(clauses, IsDefault)
      cases == SelectSeq(clauses, LAMBDA c : ~IsDefault(c))
  IN IF \E i \in DOMAIN clauses : ~IsList(clauses[i]) \/ clauses[i].sub = <<>> THEN <<>>
     ELSE IF Len(defaults) > 1 THEN <<>>
     ELSE Combine("switch", <<Part(d), IF defaults = <<>> THEN << <<>> >> ELSE SwitchClause(defaults[1])>>
                            \o [i \in DOMAIN cases |-> SwitchClause(cases[i])])
SwitchOn(es, d) == SwitchAfter(d.t, From(es, d.n + 1))
interpret_switch_expr(es) == SwitchOn(es, interpret_action_expr_prefix(es))

\* The bounds of a count after its variable: one end, or a start and an end.
LastBound(rest, last) == IF last.n # Len(rest) THEN <<>> ELSE last.t
BoundsAfter(first, rest) ==
  IF first = <<>> THEN <<>>
  ELSE IF rest = <<>> THEN << <<One>> \o first >>
  ELSE IfRead(LastBound(rest, interpret_action_expr_prefix(rest)),
              LAMBDA last : << first \o <<last>> >>)
BoundsFrom(bounds, first) == BoundsAfter(first.t, From(bounds, first.n + 1))
CountBounds(bounds) == BoundsFrom(bounds, interpret_action_expr_prefix(bounds))

CountAfter(es, e) ==
  Combine("count", <<Part(IF e.t = <<>> THEN <<>> ELSE <<One>> \o e.t), Body(es, e.n + 1)>>)
interpret_loop_for_count_expr(es) ==
  IF es = <<>> THEN <<>>
  ELSE IF IsList(es[1]) /\ es[1].sub # <<>> /\ es[1].sub[1].w \in SingleVars
  THEN Combine("count-" \o es[1].sub[1].w,
               <<CountBounds(From(es[1].sub, 2)), Body(es, 2)>>)
  ELSE CountAfter(es, interpret_action_expr_prefix(es))

interpret_progn_dollar_expr(es) ==
  LET spec == IF es # <<>> /\ IsList(es[1]) THEN es[1].sub ELSE <<>>
      l == interpret_action_expr_prefix(From(spec, 2))
  IN IF Len(spec) < 2 \/ l.n + 1 # Len(spec) THEN <<>>
     ELSE IF spec[1].w \notin SingleVars THEN <<>>
     ELSE Combine("progn$-" \o spec[1].w,
                  <<Part(l.t), interpret_action_expr_sequence(From(es, 2))>>)

EachAfter(es, l) == Combine("progn$-" \o es[1].w, <<Part(l.t), Body(es, l.n + 2)>>)
interpret_foreach_expr(es) ==
  IF Len(es) < 2 \/ (es # <<>> /\ es[1].w \notin SingleVars) THEN <<>>
  ELSE EachAfter(es, interpret_action_expr_prefix(From(es, 2)))

\* A member of a query: its variable and its restrictions.
QueryMember(m) ==
  IF ~IsList(m) \/ Len(m.sub) < 2 THEN <<>>
  ELSE IF m.sub[1].w \notin SingleVars \ {"?"} THEN <<>>
  ELSE Named(m.sub[1].w, interpret_action_expr_sequence(From(m.sub, 2)))

QueryAfter(name, ms, q, body) ==
  IF name \in ResultQueries /\ body # <<>> THEN <<>>
  ELSE Combine(name, <<Part(q), interpret_action_expr_sequence(body)>>
                     \o [i \in DOMAIN ms |-> QueryMember(ms[i])])
QueryOn(name, ms, es, q) == QueryAfter(name, ms, q.t, From(es, q.n + 2))
interpret_query_action_expr(name, es) ==
  LET ms == IF Len(es) >= 2 /\ IsList(es[1]) THEN es[1].sub ELSE <<>>
  IN IF \/ ms = <<>>
        \/ \E i, j \in DOMAIN ms : i < j /\ ms[i].sub # <<>> /\ ms[j].sub # <<>>
                                   /\ ms[i].sub[1] = ms[j].sub[1]
     THEN <<>>
     ELSE QueryOn(name, ms, es, interpret_action_expr_prefix(From(es, 2)))

\* The form a keyword introduces: the branches the two tables share.
FormOf(name, es) ==
  CASE name = "if" -> interpret_if_expr(es)
    [] name = "while" -> interpret_while_expr(es)
    [] name = "switch" -> interpret_switch_expr(es)
    [] name = "loop-for-count" -> interpret_loop_for_count_expr(es)
    [] name = "progn$" -> interpret_progn_dollar_expr(es)
    [] name = "foreach" -> interpret_foreach_expr(es)
    [] OTHER -> interpret_query_action_expr(name, es)

-----------------------------------------------------------------------------
(* Calls *)

\* The names connectives stand for in the place of a function.
CallName(e) ==
  CASE IsSymbol(e) -> <<e.w>>
    [] e.w = "&" -> <<"and">>
    [] e.w = "|" -> <<"or">>
    [] e.w = "~" -> <<"not">>
    [] e.w = "=" -> <<"=">>
    [] OTHER -> <<>>

interpret_function_call(e) ==
  IF ~IsList(e) \/ e.sub = <<>> THEN <<>>
  ELSE LET es == From(e.sub, 2) IN
       IF CallName(e.sub[1]) = <<>> THEN <<>>
       ELSE IF Is(e.sub[1], "bind") /\ fact_slot_ref(es)
       THEN IfRead(Named(es[1].w \o ":" \o es[3].w, interpret_action_expr_sequence(From(es, 4))),
                   LAMBDA ts : <<Tree("bind", <<ts>>)>>)
       ELSE Combine(CallName(e.sub[1])[1], <<interpret_action_expr_sequence(es)>>)

interpret_action_expr_inner(e) ==
  IF IsList(e)
  THEN IF e.sub # <<>> /\ e.sub[1].w \in Forms
       THEN FormOf(e.sub[1].w, From(e.sub, 2))
       ELSE interpret_function_call(e)
  ELSE IF e.w \in Connectives THEN <<>> ELSE <<Leaf(e.w)>>

\* A slot and its value: the first word is a name, whatever it is.
interpret_action_expr_as_slot_pair(e) ==
  IF IsList(e) /\ e.sub # <<>> /\ IsSymbol(e.sub[1])
  THEN Combine(e.sub[1].w, <<interpret_action_expr_sequence(From(e.sub, 2))>>)
  ELSE interpret_action_expr_inner(e)

\* The slices of the code end in a panic when there is no target.
interpret_fact_mutation_call(name, es) ==
  IF es = <<>> THEN <<Leaf("panic")>>
  ELSE IfRead(AllRead(<<interpret_action_expr_inner(es[1])>> \o
                      [i \in 1..(Len(es) - 1) |-> interpret_action_expr_as_slot_pair(es[i + 1])]),
              LAMBDA parts : <<Tree(name, <<parts>>)>>)

\* One action of a rule; the call that wraps a form is left out.
interpret_action(e) ==
  IF IsList(e) /\ e.sub # <<>> /\ e.sub[1].w \in Forms
  THEN FormOf(e.sub[1].w, From(e.sub, 2))
  ELSE IF IsList(e) /\ e.sub # <<>> /\ e.sub[1].w \in Mutations
  THEN interpret_fact_mutation_call(e.sub[1].w, From(e.sub, 2))
  ELSE interpret_function_call(e)

-----------------------------------------------------------------------------
(* What an action means, by the places where expressions start *)

Reference(es, j) ==
  j \in 1..(Len(es) - 2) /\ fact_slot_ref(SubSeq(es, j, j + 2))

Starts(es) ==
  {i \in DOMAIN es : ~\E j \in {i - 1, i - 2} : Reference(es, j)}

RECURSIVE Meaning(_)

FormAt(es, i) ==
  IF Reference(es, i) THEN <<SlotRef(es[i], es[i + 2])>> ELSE Meaning(es[i])

\* What the elements from a to b say, where both ends are boundaries.
Said(es, a, b) ==
  LET st == SetToSortSeq(Starts(es) \cap a..b, <)
  IN AllRead([k \in DOMAIN st |-> FormAt(es, st[k])])

\* The first start after i, or the end.
NextStart(es, i) ==
  LET st == {k \in Starts(es) : k > i} IN IF st = {} THEN Len(es) + 1 ELSE Min(st)

\* A body from a start on: do in its first place is not part of it.
SaidBody(es, i) == Said(es, IF IsAt(es, i, "do") THEN i + 1 ELSE i, Len(es))

MeaningOfIf(es) ==
  LET t == NextStart(es, 1)
      elses == {i \in Starts(es) : i > t /\ Is(es[i], "else")}
      e == IF elses = {} THEN Len(es) + 1 ELSE Min(elses)
  IN IF es = <<>> \/ ~IsAt(es, t, "then") THEN <<>>
     ELSE Combine("if", <<Said(es, 1, t - 1), Said(es, t + 1, e - 1),
                          Said(es, e + 1, Len(es))>>)

MeaningOfClause(c) ==
  LET es == From(c.sub, 2)
      t == NextStart(es, 1)
  IN CASE ~IsList(c) \/ c.sub = <<>> -> <<>>
       [] Is(c.sub[1], "default") ->
          Named("default", Said(es, 1, Len(es)))
       [] Is(c.sub[1], "case") /\ es # <<>> /\ IsAt(es, t, "then") /\ t < Len(es) ->
          IfRead(AllRead(<<Said(es, 1, t - 1), Said(es, t + 1, Len(es))>>),
                 LAMBDA ps : <<ps[1] \o ps[2]>>)
       [] OTHER -> <<>>

MeaningOfSwitch(es) ==
  LET clauses == From(es, NextStart(es, 1))
      Default(c) == IsList(c) /\ c.sub # <<>> /\ Is(c.sub[1], "default")
      defaults == SelectSeq(clauses, Default)
      cases == SelectSeq(clauses, LAMBDA c : ~Default(c))
  IN IF es = <<>> \/ Len(defaults) > 1 THEN <<>>
     ELSE Combine("switch",
            <<Said(es, 1, NextStart(es, 1) - 1),
              IF defaults = <<>> THEN << <<>> >> ELSE MeaningOfClause(defaults[1])>>
            \o [i \in DOMAIN cases |-> MeaningOfClause(cases[i])])

CountFrom(said, op, body) ==
  IfRead(said, LAMBDA ts : Combine(op, << << (IF Len(ts) = 1 THEN <<One>> ELSE <<>>) \o ts >>,
                                          body>>))
MeaningOfCount(es) ==
  LET named == es # <<>> /\ IsList(es[1]) /\ es[1].sub # <<>>
               /\ es[1].sub[1].w \in SingleVars
      bounds == IF named THEN From(es[1].sub, 2) ELSE SubSeq(es, 1, NextStart(es, 1) - 1)
      allowed == IF named THEN {1, 2} ELSE {1}
  IN IF es = <<>> \/ Cardinality(Starts(bounds)) \notin allowed THEN <<>>
     ELSE CountFrom(Said(bounds, 1, Len(bounds)),
                    IF named THEN "count-" \o es[1].sub[1].w ELSE "count",
                    SaidBody(es, NextStart(es, 1)))

\* The list of a loop over values, its variable and the rest of the form.
MeaningOfEach(var, over, body) ==
  IF Cardinality(Starts(over)) # 1 \/ var.w \notin SingleVars THEN <<>>
  ELSE Combine("progn$-" \o var.w, <<Said(over, 1, Len(over)), body>>)

MeaningOfQuery(name, es) ==
  LET ms == IF es # <<>> THEN es[1].sub ELSE <<>>
      rest == From(es, 2)
      b == NextStart(rest, 1)
      Member(m) ==
        IF Len(m.sub) < 2 \/ (m.sub # <<>> /\ m.sub[1].w \notin {"v", "x"}) THEN <<>>
        ELSE Named(m.sub[1].w, Said(From(m.sub, 2), 1, Len(m.sub) - 1))
  IN IF \/ ms = <<>> \/ rest = <<>>
        \/ name \in ResultQueries /\ b <= Len(rest)
        \/ \E i \in DOMAIN ms : ms[i].sub = <<>>
        \/ Cardinality({ms[i].sub[1] : i \in DOMAIN ms}) # Len(ms)
     THEN <<>>
     ELSE Combine(name, <<Said(rest, 1, b - 1), Said(rest, b, Len(rest))>>
                        \o [i \in DOMAIN ms |-> Member(ms[i])])

CallOf(e, es, said) ==
  IF CallName(e.sub[1]) = <<>> THEN <<>>
  ELSE IF Is(e.sub[1], "bind") /\ Reference(es, 1)
  THEN <<Tree("bind", << <<Leaf(es[1].w \o ":" \o es[3].w)>> \o Tail(said) >>)>>
  ELSE <<Tree(CallName(e.sub[1])[1], <<said>>)>>
MeaningOfCall(e) ==
  LET es == From(e.sub, 2)
  IN IF e.sub = <<>> THEN <<>>
     ELSE IfRead(Said(es, 1, Len(es)), LAMBDA said : CallOf(e, es, said))
Meaning(e) ==
  IF ~IsList(e) THEN (IF e.w \in Connectives THEN <<>> ELSE <<Leaf(e.w)>>)
  ELSE LET es == From(e.sub, 2)
           h == IF e.sub = <<>> THEN "" ELSE e.sub[1].w
       IN CASE h = "if" -> MeaningOfIf(es)
            [] h = "while" ->
               IF es = <<>> THEN <<>>
               ELSE Combine("while", <<Said(es, 1, NextStart(es, 1) - 1),
                                       SaidBody(es, NextStart(es, 1))>>)
            [] h = "switch" -> MeaningOfSwitch(es)
            [] h = "loop-for-count" -> MeaningOfCount(es)
            [] h = "progn$" ->
               IF es = <<>> \/ (es # <<>> /\ Len(es[1].sub) < 2) THEN <<>>
               ELSE MeaningOfEach(es[1].sub[1], From(es[1].sub, 2), Said(es, 2, Len(es)))
            [] h = "foreach" ->
               LET rest == From(es, 2)
                   b == NextStart(rest, 1)
               IN IF rest = <<>> THEN <<>>
                  ELSE MeaningOfEach(es[1], SubSeq(rest, 1, b - 1), SaidBody(rest, b))
            [] h \in Queries -> MeaningOfQuery(h, es)
            [] OTHER -> MeaningOfCall(e)

\* A change of a fact: the fact, and pairs whose first word is a name.
MeaningOfMutation(name, es) ==
  LET SaidOf(i, e) ==
        IF i > 1 /\ IsList(e) /\ e.sub # <<>> /\ (e.sub # <<>> => IsSymbol(e.sub[1]))
        THEN Combine(e.sub[1].w, <<Said(From(e.sub, 2), 1, Len(e.sub) - 1)>>)
        ELSE Meaning(e)
  IN IfRead(AllRead([i \in DOMAIN es |-> SaidOf(i, es[i])]),
            LAMBDA parts : <<Tree(name, <<parts>>)>>)

-----------------------------------------------------------------------------
(* Writing an action *)

Written == List(<<FormAtom(head)>> \o items)

FormInit == head \in Heads /\ items = <<>>

Append1(e) ==
  /\ Len(items) < MaxItems(head)
  /\ items' = Append(items, e)
  /\ UNCHANGED head

FormNext == \E e \in ItemsOf(head) : Append1(e)

FormSpec == FormInit /\ [][FormNext]_formVars

-----------------------------------------------------------------------------
\* An action is read as what it says: every element belongs to exactly one
\* expression, a slot named like a delimiter never ends a part, a target of
\* bind is a name and the words of a form delimit only where an expression
\* could start (interpret_action_expr_prefix and the forms).  The exception is a
\* change that names no fact, where the slices of the code panic.
ChangesNothing == head \in Mutations /\ items = <<>>
ReadAsSaid ==
  ~ChangesNothing =>
    interpret_action(Written) = IF head \in Mutations THEN MeaningOfMutation(head, items)
                                ELSE Meaning(Written)

\* A form stands for the same as an action of a rule and inside another form:
\* the two tables of keywords agree (interpret_action,
\* interpret_action_expr_inner).  The exceptions are ChangesNothing, and a change
\* of a slot that is named like a form: (modify ?f (if ?rest)) is read as a pair
\* in an action of its own and as a form anywhere deeper.
SlotNamedAsForm ==
  head \in Mutations /\ \E i \in 2..Len(items) : items[i].sub # <<>> /\ items[i].sub[1].w \in Forms
SameInside ==
  ~ChangesNothing /\ ~SlotNamedAsForm =>
    interpret_action(Written) = interpret_action_expr_inner(Written)

\* Whatever follows, the part that has been read stays as it was read: an
\* element added to an accepted action only extends a part of it, and never
\* turns one that was read into another (interpret_action_expr_sequence).  The
\* exception is ChangesNothing.
ReadingStable ==
  \A old \in {interpret_action(Written)}, new \in {interpret_action(Written')} :
    old # <<>> /\ new # <<>> /\ ~ChangesNothing =>
      /\ old[1].op = new[1].op
      /\ \A i \in DOMAIN old[1].parts : IsPrefix(old[1].parts[i], new[1].parts[i])
=============================================================================
