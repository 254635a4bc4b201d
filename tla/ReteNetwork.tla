---------------------------- MODULE ReteNetwork ----------------------------
(***************************************************************************)
(* The incremental matcher of ferric-rules-core (rete.rs with negative.rs, *)
(* ncc.rs, exists.rs, token.rs and the memories of alpha.rs and beta.rs):  *)
(* what the assertion and the retraction of a fact do to the tokens, to    *)
(* the tables of the negative, NCC and exists nodes and to the agenda.     *)
(*                                                                         *)
(* The code is one thread of nested calls.  Here the calls that are still  *)
(* to be made are an explicit stack of work: a step takes the call at the  *)
(* head and puts the calls that it makes in its place.  The order of the   *)
(* calls is the order of the code.  Where the code goes by an order that   *)
(* only decides between activations of equal rank (block_order, the hash   *)
(* order of a table) every order is allowed.                               *)
(*                                                                         *)
(* The bindings of a token are abstracted to the facts it has matched, in  *)
(* order; Passes stands for the join tests of a node on them, and for the  *)
(* test of a predicate node, which the runtime evaluates.                  *)
(***************************************************************************)
EXTENDS Naturals, Sequences, FiniteSets, SequencesExt

CONSTANTS Facts,            \* the facts that can be asserted
          NoFact,           \* the fact of a pass-through token
          Networks,         \* the compiled networks to choose from, see ReteShape
          Passes(_, _, _)   \* whether a node accepts a path with a fact

VARIABLES
  net,      \* the network: its nodes and the visiting order of their children
  facts,    \* the facts in the alpha memories, oldest first
  tokens,   \* TokenStore: from identifiers to tokens
  memory,   \* the beta memory of each node, newest token first
  support,  \* per node and parent token: blocking facts, supporting facts
            \* or NCC results, oldest first
  primary,  \* per NCC and parent token: the result that blocks it
  through,  \* per node and parent token: the pass-through token
  agenda,   \* the number of activations per terminal and token
  pending,  \* pending_events: predicates and NCC admissions to resolve
  waiting,  \* how many events wait behind the one that is being resolved
  batch,    \* pending_ncc_results
  stack,    \* the calls to make
  kept,     \* history: the tokens older than this operation that remain
  origin    \* history: the facts before this operation, if it changes one fact

store == <<tokens, memory, agenda, kept>>
tables == <<support, primary, through>>
vars == <<net, facts, tokens, memory, support, primary, through, agenda,
          pending, waiting, batch, stack, kept, origin>>

-----------------------------------------------------------------------------
(* The network. *)

Root == 0
RootToken == 0

Node(n) == net.nodes[n]
Nodes == 1..Len(net.nodes)
Visit(n) == net.visit[n]
NodesOf(kind) == {n \in Nodes : Node(n).kind = kind}
Guards == NodesOf("negative") \cup NodesOf("exists") \cup NodesOf("ncc")
HasMemory == {Root} \cup Guards \cup NodesOf("join") \cup NodesOf("predicate")

(* The nodes that subscribe to an alpha memory that a fact enters, newest  *)
(* node first.                                                             *)
Subscribers(f) ==
  SelectSeq([i \in Nodes |-> Len(net.nodes) + 1 - i],
            LAMBDA n : /\ Node(n).kind \in {"join", "negative", "exists"}
                       /\ f \in Node(n).alpha)

-----------------------------------------------------------------------------
(* Helpers. *)

Elements(s) == {s[i] : i \in DOMAIN s}
Put(g, k, v) == [x \in DOMAIN g \cup {k} |-> IF x = k THEN v ELSE g[x]]
Drop(g, K) == [x \in DOMAIN g \ K |-> g[x]]
Without(s, R) == SelectSeq(s, LAMBDA x : x \notin R)
Orders(S) == {q \in [1..Cardinality(S) -> S] : Elements(q) = S}

(* A call to make: what, at which node, on which tokens, for which fact. *)
Call(op, n, args, f) == [op |-> op, node |-> n, args |-> args, fact |-> f]
Calls(op, n, ts, f) == [i \in DOMAIN ts |-> Call(op, n, <<ts[i]>>, f)]

(* Token identifiers are never reused by the code (they carry a version).  *)
(* An identifier that nothing mentions any more is as good as a new one.   *)
Mentioned ==
  UNION {Elements(stack[i].args) : i \in DOMAIN stack}
    \cup UNION {Elements(pending[i].args) : i \in DOMAIN pending}
    \cup UNION {Elements(batch.results[i].args) : i \in DOMAIN batch.results}
    \cup {k[2] : k \in DOMAIN batch.parents}
    \cup UNION {{primary[n][p] : p \in DOMAIN primary[n]} : n \in DOMAIN primary}
FreshToken ==
  LET used == DOMAIN tokens \cup Mentioned
  IN  CHOOSE t \in 0..Cardinality(used) :
        t \notin used /\ \A u \in 0..Cardinality(used) : u \in used \/ t <= u

Live(t) == t \in DOMAIN tokens
Path(t) == tokens[t].path

NoBatch == [open |-> FALSE, results |-> <<>>, parents |-> <<>>]

Idle == stack = <<>> /\ pending = <<>>
(* The call at the head of the stack, the first token it is about, and the *)
(* calls that take its place.                                              *)
Calling(op) == stack # <<>> /\ Head(stack).op = op
This == Head(stack)
Subject == Head(stack).args[1]
Then(calls) == stack' = calls \o Tail(stack)

-----------------------------------------------------------------------------
(* Creation and removal of tokens. *)

(* A new token t of node n below p, in the memory of n. *)
NewToken(t, n, p, f) ==
  /\ tokens' = Put(tokens, t,
       [node |-> n, parent |-> p, fact |-> f,
        path |-> IF f = NoFact THEN Path(p) ELSE Append(Path(p), f),
        chain |-> tokens[p].chain \cup {t}])
  /\ memory' = [memory EXCEPT ![n] = <<t>> \o @]
  /\ UNCHANGED <<agenda, kept>>

(* propagate_token: the children of n visit the token in their order. *)
Propagate(t, n) ==
  [i \in DOMAIN Visit(n) |-> Call("left", Visit(n)[i], <<t>>, NoFact)]

(* remove_cascade: the tokens at or below the tokens of S. *)
Cascade(S) == {t \in DOMAIN tokens : tokens[t].chain \cap S # {}}

(* The tables lose the removed parents, the NCC tables also the removed    *)
(* results.  The primary result of a parent that remains is settled later. *)
Purge(n, s, R) ==
  IF Node(n).kind # "ncc" THEN Drop(s, R)
  ELSE LET left == [p \in DOMAIN s \ R |-> Without(s[p], R)]
       IN  Drop(left, {p \in DOMAIN left : left[p] = <<>>})

(* remove_activations_for_token *)
AgendaWithout(R) == Drop(agenda, {a \in DOMAIN agenda : a[2] \in R})

(* Removal of the tokens of R, given the tables that the caller has        *)
(* already changed: token store, beta memories, agenda, NCC results and    *)
(* the bookkeeping of the removed parents.                                 *)
RemoveMatches(R, sup, pri, thr) ==
  /\ tokens' = Drop(tokens, R)
  /\ memory' = [n \in DOMAIN memory |-> Without(memory[n], R)]
  /\ agenda' = AgendaWithout(R)
  /\ kept' = kept \ R
  /\ support' = [n \in DOMAIN sup |-> Purge(n, sup[n], R)]
  /\ primary' = [n \in DOMAIN pri |-> Drop(pri[n], R)]
  /\ through' = [n \in DOMAIN thr |-> Drop(thr[n], R)]

(* collect_ncc_result_retractions: the removed results that are primary. *)
NccRetractions(R, pri) ==
  {Call("nccRetract", k[1], <<k[2], pri[k[1]][k[2]]>>, NoFact) :
     k \in {k \in NodesOf("ncc") \X DOMAIN tokens :
              /\ k[2] \in DOMAIN pri[k[1]]
              /\ pri[k[1]][k[2]] \in R}}

(* A guard node lets parent p pass: a pass-through token that propagates. *)
LetThrough(n, p) ==
  LET t == FreshToken
  IN  /\ NewToken(t, n, p, NoFact)
      /\ through' = [through EXCEPT ![n] = Put(@, p, t)]
      /\ Then(Propagate(t, n))

-----------------------------------------------------------------------------
(* Left activations: a token visits a child of its node. *)

Visiting(kind) == Calling("left") /\ Node(This.node).kind = kind

(* The code returns at once when the token of a visit has been removed in  *)
(* the meantime.  No visit is by such a token, and the actions say Live: a *)
(* stale visit would be a deadlock of the model.  NCC and predicate nodes  *)
(* look at the token later.                                                *)

(* left_activate: the facts of the alpha memory, oldest first. *)
LeftJoin ==
  /\ Visiting("join") /\ Live(Subject)
  /\ LET fs == SelectSeq(facts, LAMBDA f : f \in Node(This.node).alpha)
     IN  Then([i \in DOMAIN fs |-> Call("match", This.node, <<Subject>>, fs[i])])
  /\ UNCHANGED <<net, facts, store, tables, pending, waiting, batch, origin>>

(* propagate_join_fact, emit_join_match *)
Match ==
  /\ Calling("match")
  /\ IF Live(Subject) /\ Passes(Node(This.node), Path(Subject), This.fact)
     THEN LET t == FreshToken
          IN  /\ NewToken(t, This.node, Subject, This.fact)
              /\ Then(Propagate(t, This.node))
     ELSE Then(<<>>) /\ UNCHANGED store
  /\ UNCHANGED <<net, facts, tables, pending, waiting, batch, origin>>

(* The facts of the alpha memory that match a parent, oldest first. *)
Matching(n, p) ==
  SelectSeq(facts, LAMBDA f : f \in Node(n).alpha /\ Passes(Node(n), Path(p), f))

(* negative_left_activate *)
LeftNegative ==
  /\ Visiting("negative") /\ Live(Subject)
  /\ LET fs == Matching(This.node, Subject)
     IN  IF fs = <<>>
         THEN LetThrough(This.node, Subject) /\ UNCHANGED support
         ELSE /\ support' = [support EXCEPT ![This.node] = Put(@, Subject, fs)]
              /\ Then(<<>>)
              /\ UNCHANGED <<store, through>>
  /\ UNCHANGED <<net, facts, primary, pending, waiting, batch, origin>>

(* exists_left_activate *)
LeftExists ==
  /\ Visiting("exists") /\ Live(Subject)
  /\ LET fs == Matching(This.node, Subject)
     IN  IF fs = <<>>
         THEN Then(<<>>) /\ UNCHANGED <<store, support, through>>
         ELSE /\ support' = [support EXCEPT ![This.node] = Put(@, Subject, fs)]
              /\ LetThrough(This.node, Subject)
  /\ UNCHANGED <<net, facts, primary, pending, waiting, batch, origin>>

(* ncc_left_activate_now: a queued result already prevents the match; a    *)
(* parent without results passes.                                          *)
AdmitNcc(n, p) ==
  IF <<n, p>> \in DOMAIN batch.parents
  THEN /\ batch' = [batch EXCEPT !.parents[<<n, p>>].deferred = TRUE]
       /\ Then(<<>>)
       /\ UNCHANGED <<store, through>>
  ELSE /\ IF p \notin DOMAIN support[n] /\ p \notin DOMAIN through[n] /\ Live(p)
          THEN LetThrough(n, p)
          ELSE Then(<<>>) /\ UNCHANGED <<store, through>>
       /\ UNCHANGED batch

(* ncc_left_activate: the admission waits behind every pending event. *)
NccLeftActivate(n, p) ==
  IF pending # <<>>
  THEN /\ pending' = Append(pending, Call("nccLeft", n, <<p>>, NoFact))
       /\ Then(<<>>)
       /\ UNCHANGED <<store, through, batch>>
  ELSE AdmitNcc(n, p) /\ UNCHANGED pending

LeftNcc ==
  /\ Visiting("ncc")
  /\ NccLeftActivate(This.node, Subject)
  /\ UNCHANGED <<net, facts, support, primary, waiting, origin>>

(* A predicate node queues the evaluation of its test by the runtime. *)
LeftPredicate ==
  /\ Visiting("predicate")
  /\ pending' = Append(pending, Call("predicate", This.node, <<Subject>>, NoFact))
  /\ Then(<<>>)
  /\ UNCHANGED <<net, facts, store, tables, waiting, batch, origin>>

(* A terminal node adds an activation to the agenda. *)
Activate ==
  /\ Visiting("terminal") /\ Live(Subject)
  /\ LET a == <<This.node, Subject>>
     IN  agenda' = Put(agenda, a, IF a \in DOMAIN agenda THEN agenda[a] + 1 ELSE 1)
  /\ Then(<<>>)
  /\ UNCHANGED <<net, facts, tokens, memory, kept, tables, pending, waiting,
                 batch, origin>>

(* find_ncc_owner_parent_token: the first proper ancestor of a result that *)
(* belongs to the parent node of the NCC.                                  *)
OwnerParent(ncc, t) ==
  CHOOSE p \in tokens[t].chain \ {t} : tokens[p].node = Node(ncc).parent

\* Mutant: one entry stands for all the results of a parent.
EnqueuedOnce(parents, k) ==
  Put(parents, k, [results |-> 1, deferred |-> FALSE])

(* enqueue: how many results of a parent are queued, and whether its       *)
(* admission waits for them.                                               *)
Enqueued(parents, k) ==
  Put(parents, k, IF k \in DOMAIN parents
                  THEN [parents[k] EXCEPT !.results = @ + 1]
                  ELSE [results |-> 1, deferred |-> FALSE])

(* ncc_partner_receive_result: during a right activation the results are   *)
(* collected, otherwise they apply at once.                                *)
LeftPartner ==
  /\ Visiting("partner") /\ Live(Subject)
  /\ LET ncc    == Node(This.node).ncc
         p      == OwnerParent(ncc, Subject)
         k      == <<ncc, p>>
         result == Call("deliver", This.node, <<Subject, p>>, NoFact)
     IN  IF batch.open
         THEN /\ batch' = [batch EXCEPT
                   !.results = Append(@, result),
                   !.parents = Enqueued(@, k)]
              /\ Then(<<>>)
         ELSE Then(<<result>>) /\ UNCHANGED batch
  /\ UNCHANGED <<net, facts, store, tables, pending, waiting, origin>>

-----------------------------------------------------------------------------
(* NCC results. *)

(* ncc_partner_apply_result: a new result; the first one of its parent     *)
(* becomes primary and retracts the pass-through token.                    *)
Deliver ==
  /\ Calling("deliver")
  /\ LET n      == Node(This.node).ncc
         result == Subject
     IN  IF ~Live(result) \/ \E p \in DOMAIN support[n] : result \in Elements(support[n][p])
         THEN Then(<<>>) /\ UNCHANGED <<store, tables>>
         ELSE LET p     == OwnerParent(n, result)
                  first == p \notin DOMAIN support[n]
                  sup   == [support EXCEPT ![n] =
                              Put(@, p, IF first THEN <<result>> ELSE Append(@[p], result))]
                  pri   == IF first THEN [primary EXCEPT ![n] = Put(@, p, result)] ELSE primary
                  R     == IF first /\ p \in DOMAIN through[n]
                           THEN Cascade({through[n][p]}) ELSE {}
                  thr   == IF first THEN [through EXCEPT ![n] = Drop(@, {p})] ELSE through
              IN  /\ RemoveMatches(R, sup, pri, thr)
                  /\ \E q \in Orders(NccRetractions(R, pri)) : Then(q)
  /\ UNCHANGED <<net, facts, pending, waiting, batch, origin>>

(* apply_ncc_result_retraction: the oldest remaining result takes over, or *)
(* the parent is admitted.  Earlier calls may have removed the parent or   *)
(* given it another primary result.                                        *)
NccRetract ==
  /\ Calling("nccRetract")
  /\ LET n == This.node
         p == Subject
     IN  IF p \notin DOMAIN primary[n] \/ primary[n][p] # This.args[2]
         THEN /\ Then(<<>>)
              /\ UNCHANGED <<store, primary, through, pending, batch>>
         ELSE IF p \in DOMAIN support[n]
         THEN /\ primary' = [primary EXCEPT ![n][p] = Head(support[n][p])]
              /\ Then(<<>>)
              /\ UNCHANGED <<store, through, pending, batch>>
         ELSE /\ primary' = [primary EXCEPT ![n] = Drop(@, {p})]
              /\ NccLeftActivate(n, p)
  /\ UNCHANGED <<net, facts, support, waiting, origin>>

(* drain_ncc_results: the collected results are delivered in their order;  *)
(* after each one its parent is settled, and the results that arrived      *)
(* meanwhile are drained before the next one.                              *)
Drain ==
  /\ Calling("drain")
  /\ LET results == batch.results
         Round(i) == LET r == results[i]
                     IN  << r,
                            Call("settle", Node(r.node).ncc, <<r.args[2]>>, NoFact),
                            Call("drain", Root, <<>>, NoFact) >>
     IN  Then([i \in 1..(3 * Len(results)) |->
                 Round((i + 2) \div 3)[((i - 1) % 3) + 1]])
  /\ batch' = [batch EXCEPT !.results = <<>>]
  /\ UNCHANGED <<net, facts, store, tables, pending, waiting, origin>>

(* After the last queued result of a parent its deferred admission runs. *)
Settle ==
  /\ Calling("settle")
  /\ LET k    == <<This.node, Subject>>
         mine == batch.parents[k]
     IN  IF mine.results > 1
         THEN /\ batch' = [batch EXCEPT !.parents[k].results = @ - 1]
              /\ Then(<<>>)
         ELSE /\ batch' = [batch EXCEPT !.parents = Drop(@, {k})]
              /\ Then(IF mine.deferred
                      THEN <<Call("left", This.node, <<Subject>>, NoFact)>> ELSE <<>>)
  /\ UNCHANGED <<net, facts, store, tables, pending, waiting, origin>>

(* flush_ncc_result_batch: the batch ends once it is drained. *)
Flush ==
  /\ Calling("flush")
  /\ batch' = NoBatch
  /\ Then(<<>>)
  /\ UNCHANGED <<net, facts, store, tables, pending, waiting, origin>>

-----------------------------------------------------------------------------
(* Right activations: a fact enters an alpha memory. *)

(* A parent created by this assertion has met the fact already. *)
CapturedParents(call) == call.args

(* right_activate: the parents were captured when the assertion began.     *)
(* With NCC nodes in the network the results are collected meanwhile.      *)
RightJoin ==
  /\ Calling("right") /\ Node(This.node).kind = "join"
  /\ LET batched == NodesOf("ncc") # {} /\ ~batch.open
         end     == << Call("drain", Root, <<>>, NoFact), Call("flush", Root, <<>>, NoFact) >>
     IN  /\ batch' = IF batched THEN [NoBatch EXCEPT !.open = TRUE] ELSE batch
         /\ Then(Calls("match", This.node, CapturedParents(This), This.fact)
                   \o IF batched THEN end ELSE <<>>)
  /\ UNCHANGED <<net, facts, store, tables, pending, waiting, origin>>

\* Mutant: only the first blocker is recorded.
BlockerIgnored(blockers, f) == blockers

(* add_blocker: another blocker of a parent that is blocked already. *)
BlockerAdded(blockers, f) ==
  IF f \in Elements(blockers) THEN blockers ELSE Append(blockers, f)

(* negative_right_activate: the blocked parents record the fact; the ones  *)
(* it blocks are retracted one after the other.                            *)
RightNegative ==
  /\ Calling("right") /\ Node(This.node).kind = "negative"
  /\ LET n == This.node
         f == This.fact
         Hit(t) == Live(t) /\ Passes(Node(n), Path(t), f)
         parents == SelectSeq(memory[Node(n).parent],
                      LAMBDA p : p \in DOMAIN through[n] /\ Hit(through[n][p]))
     IN  /\ support' = [support EXCEPT ![n] =
               [p \in DOMAIN @ |-> IF Hit(p) THEN BlockerAdded(@[p], f) ELSE @[p]]]
         /\ Then([i \in DOMAIN parents |->
                    Call("block", n, <<parents[i], through[n][parents[i]]>>, f)])
  /\ UNCHANGED <<net, facts, store, primary, through, pending, waiting, batch, origin>>

Block ==
  /\ Calling("block")
  /\ LET n   == This.node
         p   == Subject
         thr == [through EXCEPT ![n] = Drop(@, {p})]
         sup == [support EXCEPT ![n] =
                   Put(@, p, IF p \in DOMAIN @ THEN BlockerAdded(@[p], This.fact)
                             ELSE <<This.fact>>)]
         R   == Cascade({This.args[2]})
     IN  /\ RemoveMatches(R, sup, primary, thr)
         /\ \E q \in Orders(NccRetractions(R, primary)) : Then(q)
  /\ UNCHANGED <<net, facts, pending, waiting, batch, origin>>

(* exists_right_activate: the parents are captured, then supported in turn. *)
RightExists ==
  /\ Calling("right") /\ Node(This.node).kind = "exists"
  /\ Then(Calls("support", This.node, memory[Node(This.node).parent], This.fact))
  /\ UNCHANGED <<net, facts, store, tables, pending, waiting, batch, origin>>

Support ==
  /\ Calling("support")
  /\ LET n == This.node
         p == Subject
         f == This.fact
     IN  IF ~Live(p) \/ ~Passes(Node(n), Path(p), f)
         THEN Then(<<>>) /\ UNCHANGED <<store, support, through>>
         ELSE IF p \in DOMAIN support[n]
         THEN /\ support' = [support EXCEPT ![n][p] =
                               IF f \in Elements(@) THEN @ ELSE Append(@, f)]
              /\ Then(<<>>)
              /\ UNCHANGED <<store, through>>
         ELSE /\ support' = [support EXCEPT ![n] = Put(@, p, <<f>>)]
              /\ LetThrough(n, p)
  /\ UNCHANGED <<net, facts, primary, pending, waiting, batch, origin>>

-----------------------------------------------------------------------------
(* Retraction of a fact. *)

(* retract_fact: the tokens with the fact and all below them go, the alpha *)
(* memories lose the fact, and so do the blocker lists in which it is not  *)
(* primary; then the lost primaries are settled, and last the supports.    *)
RetractFact ==
  /\ Calling("retract")
  /\ LET f   == This.fact
         R   == Cascade({t \in DOMAIN tokens : tokens[t].fact = f})
         neg == {n \in NodesOf("negative") : f \in Node(n).alpha}
         sup == [n \in DOMAIN support |->
                   IF n \notin neg THEN support[n]
                   ELSE [p \in DOMAIN support[n] |->
                           IF Head(support[n][p]) = f THEN support[n][p]
                           ELSE Without(support[n][p], {f})]]
         unblock == {Call("unblock", k[1], <<k[2]>>, f) :
                       k \in {k \in neg \X DOMAIN tokens :
                                /\ k[2] \in DOMAIN support[k[1]]
                                /\ Head(support[k[1]][k[2]]) = f}}
         exists  == {Call("existsRetract", n, <<>>, f) :
                       n \in {n \in NodesOf("exists") : f \in Node(n).alpha}}
     IN  /\ facts' = Without(facts, {f})
         /\ RemoveMatches(R, sup, primary, through)
         /\ \E q \in Orders(unblock \cup NccRetractions(R, primary)),
               e \in Orders(exists) : Then(q \o e)
  /\ UNCHANGED <<net, pending, waiting, batch, origin>>

(* apply_negative_retraction: the next blocker takes over, or the parent   *)
(* passes.  Earlier calls may have removed the parent or its blocker.      *)
Unblock ==
  /\ Calling("unblock")
  /\ LET n == This.node
         p == Subject
     IN  IF \/ ~Live(p)
            \/ p \notin DOMAIN support[n]
            \/ Head(support[n][p]) # This.fact
         THEN Then(<<>>) /\ UNCHANGED <<store, support, through>>
         ELSE IF Len(support[n][p]) > 1
         THEN /\ support' = [support EXCEPT ![n][p] = Tail(@)]
              /\ Then(<<>>)
              /\ UNCHANGED <<store, through>>
         ELSE /\ support' = [support EXCEPT ![n] = Drop(@, {p})]
              /\ LetThrough(n, p)
  /\ UNCHANGED <<net, facts, primary, pending, waiting, batch, origin>>

(* exists_handle_retraction: the parents that the fact supports now. *)
ExistsRetract ==
  /\ Calling("existsRetract")
  /\ LET n       == This.node
         parents == {p \in DOMAIN support[n] : This.fact \in Elements(support[n][p])}
     IN  \E q \in Orders(parents) : Then(Calls("unsupport", n, q, This.fact))
  /\ UNCHANGED <<net, facts, store, tables, pending, waiting, batch, origin>>

Unsupport ==
  /\ Calling("unsupport")
  /\ LET n == This.node
         p == Subject
         left == Without(support[n][p], {This.fact})
     IN  IF p \notin DOMAIN support[n] \/ This.fact \notin Elements(support[n][p])
         THEN Then(<<>>) /\ UNCHANGED <<store, tables>>
         ELSE IF left # <<>>
         THEN /\ support' = [support EXCEPT ![n][p] = left]
              /\ Then(<<>>)
              /\ UNCHANGED <<store, primary, through>>
         ELSE LET R == IF p \in DOMAIN through[n] THEN Cascade({through[n][p]}) ELSE {}
              IN  /\ RemoveMatches(R, [support EXCEPT ![n] = Drop(@, {p})], primary,
                            [through EXCEPT ![n] = Drop(@, {p})])
                  /\ \E q \in Orders(NccRetractions(R, primary)) : Then(q)
  /\ UNCHANGED <<net, facts, pending, waiting, batch, origin>>

-----------------------------------------------------------------------------
(* The events that the runtime drains after every operation. *)

\* Mutant: an admission is resolved but not taken from the queue.
AdmissionsLeft ==
  IF Head(pending).op = "nccLeft" THEN pending ELSE Tail(pending)

EventsLeft == Tail(pending)

(* drain_network_events, pop_pending_event: the first event is resolved;   *)
(* what it appends moves in front of the events that wait.                 *)
PopEvent ==
  /\ stack = <<>> /\ pending # <<>>
  /\ stack' = << [Head(pending) EXCEPT !.op = IF @ = "nccLeft" THEN "admit" ELSE "test"],
                 Call("rotate", Root, <<>>, NoFact) >>
  /\ pending' = EventsLeft
  /\ waiting' = Len(EventsLeft)
  /\ UNCHANGED <<net, facts, store, tables, batch, origin>>

(* resolve_predicate_match_with_parent *)
ResolvePredicate ==
  /\ Calling("test")
  /\ IF Live(Subject) /\ Passes(Node(This.node), Path(Subject), NoFact)
     THEN LET t == FreshToken
          IN  /\ NewToken(t, This.node, Subject, NoFact)
              /\ Then(Propagate(t, This.node))
     ELSE Then(<<>>) /\ UNCHANGED store
  /\ UNCHANGED <<net, facts, tables, pending, waiting, batch, origin>>

(* resolve_ncc_left_activation *)
ResolveNccLeft ==
  /\ Calling("admit")
  /\ IF Live(Subject) /\ tokens[Subject].node = Node(This.node).parent
     THEN AdmitNcc(This.node, Subject)
     ELSE Then(<<>>) /\ UNCHANGED <<store, through, batch>>
  /\ UNCHANGED <<net, facts, support, primary, pending, waiting, origin>>

Rotate ==
  /\ Calling("rotate")
  /\ pending' = SubSeq(pending, waiting + 1, Len(pending)) \o SubSeq(pending, 1, waiting)
  /\ waiting' = 0
  /\ Then(<<>>)
  /\ UNCHANGED <<net, facts, store, tables, batch, origin>>

-----------------------------------------------------------------------------
(* The operations of the engine. *)

Begin ==
  /\ kept' = DOMAIN tokens
  /\ origin' = {Elements(facts)}

(* assert_fact: the fact enters the alpha memories, the parents of the     *)
(* joins are captured, and the subscribers are activated.                  *)
AssertFact(f) ==
  /\ Idle
  /\ f \notin Elements(facts)
  /\ facts' = Append(facts, f)
  /\ LET subs == Subscribers(f)
     IN  stack' = [i \in DOMAIN subs |->
                     Call("right", subs[i],
                          IF Node(subs[i]).kind = "join"
                          THEN memory[Node(subs[i]).parent] ELSE <<>>, f)]
  /\ Begin
  /\ UNCHANGED <<net, tokens, memory, agenda, tables, pending, waiting, batch>>

Retract(f) ==
  /\ Idle
  /\ f \in Elements(facts)
  /\ stack' = <<Call("retract", Root, <<>>, f)>>
  /\ Begin
  /\ UNCHANGED <<net, facts, tokens, memory, agenda, tables, pending, waiting, batch>>

(* A clear that meets constructs in use retracts every fact, oldest first, *)
(* and drains the events only once after the last one.                     *)
RetractAll ==
  /\ Idle
  /\ facts # <<>>
  /\ stack' = [i \in DOMAIN facts |-> Call("retract", Root, <<>>, facts[i])]
  /\ kept' = {} /\ origin' = {}
  /\ UNCHANGED <<net, facts, tokens, memory, agenda, tables, pending, waiting, batch>>

(* clear_working_memory: nothing remains but the root token, which visits  *)
(* the children of the root.                                               *)
RootOnly ==
  [t \in {RootToken} |-> [node |-> Root, parent |-> RootToken, fact |-> NoFact,
                          path |-> <<>>, chain |-> {RootToken}]]
RootMemory == [n \in {Root} \cup Nodes |-> IF n = Root THEN <<RootToken>> ELSE <<>>]
NoTable == [n \in Nodes |-> <<>>]

Init ==
  /\ net \in Networks
  /\ facts = <<>>
  /\ tokens = RootOnly
  /\ memory = RootMemory
  /\ support = NoTable /\ primary = NoTable /\ through = NoTable
  /\ agenda = <<>>
  /\ pending = <<>> /\ waiting = 0
  /\ batch = NoBatch
  /\ stack = Propagate(RootToken, Root)
  /\ kept = {} /\ origin = {}

Reset ==
  /\ Idle
  /\ facts' = <<>>
  /\ tokens' = RootOnly
  /\ memory' = RootMemory
  /\ support' = NoTable /\ primary' = NoTable /\ through' = NoTable
  /\ agenda' = <<>>
  /\ pending' = <<>> /\ waiting' = 0
  /\ stack' = Propagate(RootToken, Root)
  /\ kept' = {} /\ origin' = {}
  /\ UNCHANGED <<net, batch>>

-----------------------------------------------------------------------------
Step ==
  \/ LeftJoin \/ Match \/ LeftNegative \/ LeftExists \/ LeftNcc
  \/ LeftPredicate \/ Activate \/ LeftPartner
  \/ Deliver \/ NccRetract \/ Drain \/ Settle \/ Flush
  \/ RightJoin \/ RightNegative \/ Block \/ RightExists \/ Support
  \/ RetractFact \/ Unblock \/ ExistsRetract \/ Unsupport
  \/ PopEvent \/ ResolvePredicate \/ ResolveNccLeft \/ Rotate

Next ==
  \/ Step
  \/ \E f \in Facts : AssertFact(f) \/ Retract(f)
  \/ RetractAll
  \/ Reset

Spec == Init /\ [][Next]_vars
FairSpec == Spec /\ WF_vars(Step)

-----------------------------------------------------------------------------
(* What the matcher promises. *)

(* The paths that a full match over the facts of F gives at every node. *)
FullMatch(F) ==
  LET M[n \in 0..Len(net.nodes)] ==
        IF n = Root THEN {<<>>}
        ELSE LET above == M[Node(n).parent]
                 Hits(p) == {f \in F \cap Node(n).alpha : Passes(Node(n), p, f)}
             IN  CASE Node(n).kind = "join" ->
                        UNION {{Append(p, f) : f \in Hits(p)} : p \in above}
                   [] Node(n).kind = "negative" -> {p \in above : Hits(p) = {}}
                   [] Node(n).kind = "exists" -> {p \in above : Hits(p) # {}}
                   [] Node(n).kind = "predicate" ->
                        {p \in above : Passes(Node(n), p, NoFact)}
                   [] Node(n).kind = "ncc" ->
                        {p \in above : ~\E q \in M[Node(Node(n).partner).parent] :
                           Len(q) >= Len(p) /\ SubSeq(q, 1, Len(p)) = p}
                   [] OTHER -> above
  IN  M

(* The shape of the state.  A token names a node that has a memory, its    *)
(* parent and its whole chain of ancestors are in the store.               *)
TypeOK ==
  /\ facts \in Seq(Facts)
  /\ \A t \in DOMAIN tokens :
       /\ tokens[t].node \in HasMemory
       /\ tokens[t].fact \in Facts \cup {NoFact}
       /\ {tokens[t].parent} \cup tokens[t].chain \subseteq DOMAIN tokens
  /\ DOMAIN memory = {Root} \cup Nodes
  /\ batch.open \in BOOLEAN
  /\ waiting \in Nat
  /\ kept \subseteq DOMAIN tokens

(* Whatever sequence of assertions, retractions and resets led here: once  *)
(* an operation has finished, every beta memory holds the matches that a   *)
(* match from nothing over the current facts gives, each exactly once.     *)
MatchExact ==
  Idle =>
    LET full == FullMatch(Elements(facts))
    IN  \A n \in HasMemory :
          LET m == memory[n]
          IN  /\ {Path(m[i]) : i \in DOMAIN m} = full[n]
              /\ \A i, j \in DOMAIN m : Path(m[i]) = Path(m[j]) => i = j

(* After an operation the agenda holds one activation for each match of    *)
(* each rule: none is lost, left behind by a removed token, or doubled by  *)
(* a token that met the new fact on two ways.                              *)
AgendaExact ==
  Idle => agenda = [a \in {<<n, t>> \in NodesOf("terminal") \X DOMAIN tokens :
                             tokens[t].node = Node(n).parent} |-> 1]

(* After an operation the tables of the negative, exists and NCC nodes     *)
(* agree with the tokens: every parent is either blocked, by all the facts *)
(* or results that match it and with the oldest as primary, or has exactly *)
(* its one pass-through token.  A blocker that is missing here unblocks    *)
(* its parent too early at some later retraction.                          *)
TablesExact ==
  Idle => \A n \in Guards :
    LET parents == {t \in DOMAIN tokens : tokens[t].node = Node(n).parent}
        passing == {p \in parents : \E t \in DOMAIN tokens :
                      tokens[t].node = n /\ tokens[t].parent = p}
        Results(p) == {t \in DOMAIN tokens :
                         /\ tokens[t].node = Node(Node(n).partner).parent
                         /\ p \in tokens[t].chain}
    IN  /\ DOMAIN through[n] = passing
        /\ \A p \in passing : /\ Live(through[n][p])
                              /\ tokens[through[n][p]].node = n
                              /\ tokens[through[n][p]].parent = p
        /\ CASE Node(n).kind = "negative" ->
                  /\ DOMAIN support[n] = parents \ passing
                  /\ \A p \in DOMAIN support[n] : support[n][p] = Matching(n, p)
             [] Node(n).kind = "exists" ->
                  /\ DOMAIN support[n] = passing
                  /\ \A p \in passing : Elements(support[n][p]) = Elements(Matching(n, p))
             [] Node(n).kind = "ncc" ->
                  /\ DOMAIN support[n] = parents \ passing
                  /\ DOMAIN primary[n] = DOMAIN support[n]
                  /\ \A p \in DOMAIN support[n] :
                       /\ Elements(support[n][p]) = Results(p)
                       /\ primary[n][p] = Head(support[n][p])

(* Between any two calls, not only after an operation: the beta memories   *)
(* and the agenda name tokens of the store only, and every token is in the *)
(* memory of its node (the validation that debug_assert_consistency does). *)
Consistent ==
  /\ \A n \in DOMAIN memory : \A i \in DOMAIN memory[n] :
       Live(memory[n][i]) /\ tokens[memory[n][i]].node = n
  /\ \A t \in DOMAIN tokens : t \in Elements(memory[tokens[t].node])
  /\ \A a \in DOMAIN agenda : Live(a[2])

(* The assertions of the code on the batch of NCC results: a delivered     *)
(* result finds the entry of its parent (expect "queued NCC parent"), and  *)
(* nothing is left in the batch when it is closed (debug_assert of         *)
(* flush_ncc_result_batch).                                                *)
BatchSettles ==
  /\ Calling("settle") => <<This.node, Subject>> \in DOMAIN batch.parents
  /\ Calling("flush") => batch.parents = <<>> /\ batch.results = <<>>

(* A match of a rule that holds before and after the assertion or the      *)
(* retraction of one fact keeps its token through it: it is not withdrawn  *)
(* and made again on the way, which would give the rule a second           *)
(* activation for the same facts.                                          *)
NoRefire ==
  Idle => \A F \in origin : \A n \in NodesOf("terminal") :
    \A path \in FullMatch(F)[n] \cap FullMatch(Elements(facts))[n] :
      \E t \in kept : tokens[t].node = Node(n).parent /\ Path(t) = path

(* Every operation comes to an end, and so do the events that it leaves to *)
(* the runtime: the propagation never feeds itself for ever.               *)
Terminates == []<>Idle

-----------------------------------------------------------------------------
(***************************************************************************)
(* The shape that the compiler gives the beta network (compiler.rs,        *)
(* beta.rs) and the order in which a token visits the children of its node *)
(* (propagate_token of rete.rs).  Both are functions of the nodes alone.   *)
(*                                                                         *)
(* A network is a sequence of nodes in the order of their creation: the    *)
(* index of a node is its NodeId, and 0 is the root.  Every node is a      *)
(* record of its kind and its parent, and                                  *)
(*   join, negative, exists, predicate: the alpha memory and the join test *)
(*   ncc: the partner, and whether it was built inside another NCC         *)
(*   partner: the NCC that it reports to.                                  *)
(***************************************************************************)

(* The child of an NCC's parent that begins the subnetwork of the NCC. *)
SubnetworkEntry(nodes, ncc) ==
  LET Up[n \in 1..Len(nodes)] ==
        IF nodes[n].parent = nodes[ncc].parent THEN n ELSE Up[nodes[n].parent]
  IN  Up[nodes[ncc].partner]

(* The subnetwork is a single nested NCC that feeds the partner: the form  *)
(* of (not (and (not (and ...)))) and of (exists (and ...)).               *)
PureDoubleNegation(nodes, ncc) ==
  LET entry == SubnetworkEntry(nodes, ncc)
  IN  /\ nodes[entry].kind = "ncc"
      /\ nodes[nodes[ncc].partner].parent = entry

(* A completed NCC is linked second in the visiting order of its parent,   *)
(* or, when it is a pure double negation, just before the oldest child of  *)
(* its own subnetwork.  Children are stored oldest first.                  *)
LinkAfterSubnetwork(nodes, kids, ncc) ==
  LET linked == SelectSeq(kids, LAMBDA c : c # ncc)
      second == IF Len(linked) = 0 THEN 0 ELSE Len(linked) - 1
      own    == {i \in 1..Len(linked) :
                   linked[i] > ncc /\ linked[i] <= nodes[ncc].partner}
      slot   == IF PureDoubleNegation(nodes, ncc) /\ own # {}
                THEN Min(own) - 1 ELSE second
  IN  InsertAt(linked, slot + 1, ncc)

(* The children of every node once the nodes have been created in order:   *)
(* a node is attached last; the creation of the partner completes its NCC, *)
(* which is then linked again, except under the root.                      *)
Children(nodes) ==
  LET After[i \in 0..Len(nodes)] ==
        IF i = 0 THEN [n \in 0..Len(nodes) |-> <<>>]
        ELSE LET above    == nodes[i].parent
                 attached == [After[i-1] EXCEPT ![above] = Append(@, i)]
                 ncc      == nodes[i].ncc
             IN  IF nodes[i].kind = "partner" /\ nodes[ncc].parent # Root
                 THEN [attached EXCEPT ![nodes[ncc].parent] =
                         LinkAfterSubnetwork(nodes, @, ncc)]
                 ELSE attached
  IN  After[Len(nodes)]

(* Whether a child may have to wait for the entry of its subnetwork. *)
Waits(nodes, n) ==
  nodes[n].kind = "ncc" /\ (nodes[n].nested \/ PureDoubleNegation(nodes, n))

\* Mutant: newest first, without waiting.
NewestFirst(nodes, kids) == Reverse(kids)

(* The visiting order of a list of children: newest first, but an NCC that *)
(* is part of an enclosing one waits for the entry of its subnetwork, and  *)
(* a pure double negation for an entry that waits itself.  A visited entry *)
(* releases the NCCs that wait for it, and they those that wait for them.  *)
VisitOrder(nodes, kids) ==
  LET Index(n) == CHOOSE i \in 1..Len(kids) : kids[i] = n
      Release(wait, n) ==
        LET Rel[c \in 1..Len(nodes)] ==
              LET mine == SelectSeq(wait, LAMBDA w : SubnetworkEntry(nodes, w) = c)
              IN  <<c>> \o FlattenSeq([i \in 1..Len(mine) |-> Rel[mine[i]]])
        IN  Rel[n]
      Turn[i \in 1..(Len(kids) + 1)] ==
        IF i = Len(kids) + 1 THEN [order |-> <<>>, wait |-> <<>>]
        ELSE LET s     == Turn[i+1]
                 n     == kids[i]
                 entry == SubnetworkEntry(nodes, n)
                 held  == /\ Waits(nodes, n)
                          /\ \/ Contains(s.wait, entry)
                             \/ /\ nodes[n].nested
                                /\ Contains(kids, entry)
                                /\ Index(entry) < i
                 out   == Release(s.wait, n)
             IN  IF held THEN [s EXCEPT !.wait = Append(@, n)]
                 ELSE [order |-> s.order \o out,
                       wait  |-> SelectSeq(s.wait, LAMBDA w : ~Contains(out, w))]
  IN  Turn[1].order

(* The network that propagation works on: the nodes and, for each of them, *)
(* its children in the order in which a token visits them.                 *)
Compiled(nodes) ==
  LET kids == Children(nodes)
  IN  [nodes |-> nodes,
       visit |-> [n \in 0..Len(nodes) |-> VisitOrder(nodes, kids[n])]]
=============================================================================
