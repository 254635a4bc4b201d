--------------------------- MODULE NetworkInstall ---------------------------
(* Installing and retiring rules while facts are in working memory.          *)
(*                                                                           *)
(* The compiler adds a rule's alpha paths and beta nodes to the network,     *)
(* sharing what an older rule has already built; new memories and indexes    *)
(* are filled from the facts and the tokens that are there.  Retiring rules  *)
(* drops the nodes no surviving terminal needs and compacts the memories,    *)
(* after which every identifier kept elsewhere (nodes, subscriber lists, the *)
(* reverse index, both caches of the compiler) has to be renumbered.         *)
(*                                                                           *)
(* The module keeps the network's tables and the tokens.  What it leaves to  *)
(* ReteNetwork is the chronology inside one propagation: the batches of NCC  *)
(* results and the events that wait.  A token is named by its node and its   *)
(* facts, identifiers start at 1, and 0 is no memory.                        *)
EXTENDS Integers, Sequences, FiniteSets, SequencesExt, TLC

CONSTANTS Rels,        \* the relations of facts
          Keys,        \* the atoms a field may hold
          Multi,       \* a multifield value: it has no index key
          Defs,        \* the rule definitions a program may load
          MaxFacts,    \* bound: facts asserted
          MaxInstalls, \* bound: rules installed
          Threshold,   \* INDEX_SCAN_THRESHOLD
          RankMax      \* the largest rank of an NCC parent (u64::MAX)

ASSUME SizesAssumption ==
    /\ MaxFacts \in Nat /\ MaxInstalls \in Nat /\ Threshold \in Nat
    /\ RankMax \in Nat \ {0}
    /\ Multi \notin Keys

VARIABLES fact,      \* fact[i]: the i-th asserted fact
          live,      \* the facts in working memory
          installed, \* installed[r]: the definition of rule r
          net        \* the network and the compiler's caches

networkVars == <<fact, live, installed, net>>

Values == Keys \cup {Multi}

Sides == {"negative", "exists", "ncc"}

Root == 1
Unbound == "unbound"
RootToken == [node |-> Root, facts |-> <<>>, x |-> Unbound]

(* Values without a key are never indexed.                                   *)
HasKey(v) == v \in Keys

EmptyIndex == [k \in Keys |-> <<>>]
-----------------------------------------------------------------------------
(* Alpha memories: an ordered set of facts and one optional slot index.      *)

AlphaMemory == [facts |-> <<>>, indexed |-> FALSE, index |-> EmptyIndex]

Indexed(index, key, member) ==
    IF HasKey(key) THEN [index EXCEPT ![key] = Append(@, member)] ELSE index

Unindexed(index, key, member) ==
    IF HasKey(key) THEN [index EXCEPT ![key] = SelectSeq(@, LAMBDA m : m # member)]
    ELSE index

AlphaInsert(memory, f, v) ==
    IF Contains(memory.facts, f) THEN memory
    ELSE [memory EXCEPT !.facts = Append(@, f),
                        !.index = IF memory.indexed THEN Indexed(@, v, f) ELSE @]

AlphaRemove(memory, f, v) ==
    IF ~Contains(memory.facts, f) THEN memory
    ELSE [memory EXCEPT !.facts = SelectSeq(@, LAMBDA g : g # f),
                        !.index = IF memory.indexed THEN Unindexed(@, v, f) ELSE @]

RequestIndex(memory) ==
    IF memory.indexed THEN memory
    ELSE [memory EXCEPT !.indexed = TRUE,
                        !.index = FoldLeft(LAMBDA acc, f : Indexed(acc, fact[f].v, f),
                                           EmptyIndex, memory.facts)]

AlphaClear(memory) == [memory EXCEPT !.facts = <<>>, !.index = EmptyIndex]
-----------------------------------------------------------------------------
(* The alpha network: entry nodes, chains of constant tests, memories.       *)

AlphaNode(rel, test) == [rel |-> rel, test |-> test, children |-> <<>>, memory |-> 0]

CreateEntryNode(n, rel) ==
    IF n.entry[rel] # 0 THEN n
    ELSE [n EXCEPT !.anodes = Append(@, AlphaNode(rel, <<>>)),
                   !.entry[rel] = Len(n.anodes) + 1]

CreateConstantTestNode(n, parent, test) ==
    LET id == Len(n.anodes) + 1
    IN  [n EXCEPT !.anodes =
            Append([@ EXCEPT ![parent].children = Append(@, id)],
                   AlphaNode(n.anodes[parent].rel, <<test>>))]

CreateMemory(n, node) ==
    [n EXCEPT !.amems = Append(@, AlphaMemory),
              !.anodes[node].memory = Len(n.amems) + 1]

Passes(f, rel, tests) ==
    /\ fact[f].rel = rel
    /\ \A i \in DOMAIN tests : fact[f].v = tests[i]

(* Live facts of the path in the order of their timestamps.                  *)
BackfillMemory(n, memory, key) ==
    FoldLeft(LAMBDA acc, f :
                IF f \in live /\ Passes(f, key[1], key[2])
                THEN [acc EXCEPT !.amems[memory] = AlphaInsert(@, f, fact[f].v),
                                 !.reverse[f] = @ \cup {memory}]
                ELSE acc,
             n, [i \in DOMAIN fact |-> i] \o <<>>)

RECURSIVE AlphaPropagate(_, _, _)
AlphaPropagate(n, node, f) ==
    LET here == n.anodes[node]
        in   == IF here.memory = 0 THEN n
                ELSE [n EXCEPT !.amems[here.memory] = AlphaInsert(@, f, fact'[f].v),
                               !.reverse[f] = @ \cup {here.memory}]
    IN  IF here.test # <<>> /\ here.test # <<fact'[f].v>> THEN n
        ELSE FoldLeft(LAMBDA acc, c : AlphaPropagate(acc, c, f), in, here.children)

AlphaAssert(n, f) ==
    IF n.entry[fact'[f].rel] = 0 THEN n
    ELSE AlphaPropagate(n, n.entry[fact'[f].rel], f)

AlphaRetract(n, f) ==
    [n EXCEPT !.amems = [m \in DOMAIN @ |->
                            IF m \in n.reverse[f] THEN AlphaRemove(@[m], f, fact[f].v)
                            ELSE @[m]] \o <<>>,
              !.reverse[f] = {}]
-----------------------------------------------------------------------------
(* Beta memories: tokens in insertion order, an optional index on the bound  *)
(* variable, and the ranks of parents once an NCC hangs below.               *)

BetaMemory == [tokens |-> <<>>, indexed |-> FALSE, index |-> EmptyIndex,
               ranked |-> FALSE, ranks |-> <<>>, next |-> 0]

(* ranks[i] is the rank of tokens[i]; t is the last member already.          *)
RecordRank(m, t) ==
    IF ~m.ranked THEN m
    ELSE IF m.next = RankMax
    THEN [m EXCEPT !.ranks = [i \in DOMAIN m.tokens |-> i - 1] \o <<>>, !.next = Len(m.tokens)]
    ELSE [m EXCEPT !.ranks = Append(@, m.next), !.next = @ + 1]

EnableRanks(m) ==
    IF m.ranked THEN m
    ELSE [m EXCEPT !.ranked = TRUE, !.ranks = [i \in DOMAIN m.tokens |-> i - 1] \o <<>>,
                   !.next = Len(m.tokens)]

NetworkInsertIndexed(m, t) ==
    RecordRank([m EXCEPT !.tokens = Append(@, t),
                         !.index = IF m.indexed THEN Indexed(@, t.x, t) ELSE @], t)

RemoveIndexed(m, gone) ==
    LET kept == SelectSeq([i \in DOMAIN m.tokens |-> i] \o <<>>,
                          LAMBDA i : m.tokens[i] \notin gone)
    IN  [m EXCEPT !.tokens = [j \in DOMAIN kept |-> m.tokens[kept[j]]] \o <<>>,
                  !.index = [k \in Keys |-> SelectSeq(@[k], LAMBDA t : t \notin gone)],
                  !.ranks = IF m.ranked THEN [j \in DOMAIN kept |-> @[kept[j]]] \o <<>> ELSE @]

RequestVarIndex(m) ==
    IF m.indexed THEN m
    ELSE [m EXCEPT !.indexed = TRUE,
                   !.index = FoldLeft(LAMBDA acc, t : Indexed(acc, t.x, t),
                                      EmptyIndex, m.tokens)]

BetaClear(m) ==
    [m EXCEPT !.tokens = <<>>, !.index = EmptyIndex, !.ranks = <<>>, !.next = 0]
-----------------------------------------------------------------------------
(* Beta nodes.  A node is kept with the alpha memory it reads, whether it    *)
(* tests or binds the variable, its memory, and for negative, exists and NCC *)
(* nodes the memory of what blocks or supports each parent token.            *)

Node(kind, parent, rule) ==
    [kind |-> kind, parent |-> parent, rule |-> rule, amem |-> 0, eq |-> FALSE,
     binds |-> FALSE, memory |-> 0, side |-> 0, peer |-> 0, children |-> <<>>]

AttachChild(n, parent, child) ==
    [n EXCEPT !.nodes[parent].children = Append(@, child)]

NewNode(n, node) ==
    LET id == n.nextnode
    IN  AttachChild([n EXCEPT !.nodes = (id :> node) @@ @, !.nextnode = @ + 1],
                    node.parent, id)

WithMemory(n, node) == [node EXCEPT !.memory = Len(n.mems) + 1]

CreateJoinNode(n, parent, amem, eq, binds) ==
    LET made == NewNode(n, WithMemory(n, [Node("join", parent, 0) EXCEPT
                                             !.amem = amem, !.eq = eq, !.binds = binds]))
    IN  [made EXCEPT !.mems = Append(@, BetaMemory),
                     !.subs = @ \cup {<<amem, n.nextnode>>}]

CreateSideNode(n, kind, parent, amem, eq) ==
    LET made == NewNode(n, WithMemory(n, [Node(kind, parent, 0) EXCEPT
                                             !.amem = amem, !.eq = eq,
                                             !.side = Len(n.sides[kind]) + 1]))
    IN  [made EXCEPT !.mems = Append(@, BetaMemory),
                     !.sides[kind] = Append(@, << >>),
                     !.subs = @ \cup {<<amem, n.nextnode>>}]

CreateNccNode(n, parent, rule) ==
    LET made == NewNode(n, WithMemory(n, [Node("ncc", parent, rule) EXCEPT
                                             !.side = Len(n.sides["ncc"]) + 1]))
    IN  [made EXCEPT !.mems = Append([@ EXCEPT ![n.nodes[parent].memory] = EnableRanks(@)],
                                     BetaMemory),
                     !.sides["ncc"] = Append(@, << >>)]

CreateNccPartner(n, parent, ncc) ==
    LET made == NewNode(n, [Node("partner", parent, n.nodes[ncc].rule) EXCEPT
                               !.peer = ncc, !.side = n.nodes[ncc].side])
    IN  [made EXCEPT !.nodes[ncc].peer = n.nextnode]

Ancestors(n, node) ==
    LET up[i \in 1..n.nextnode] ==
            IF i \notin DOMAIN n.nodes \/ i = Root THEN {i}
            ELSE {i} \cup up[n.nodes[i].parent]
    IN  up[node]
-----------------------------------------------------------------------------
(* Propagation.                                                              *)

(* A negative or NCC node lets an unblocked parent through, an exists node a *)
(* supported one.                                                            *)
Through(kind, by) == IF kind = "exists" THEN by # {} ELSE by = {}

Causes(n, node, t) ==
    LET table == n.sides[n.nodes[node].kind][n.nodes[node].side]
    IN  IF t \in DOMAIN table THEN table[t] ELSE {}

JoinTest(n, node, t, v) == n.nodes[node].eq => v = t.x

CandidateFacts(n, node, t) ==
    LET memory == n.amems[n.nodes[node].amem]
    IN  IF Len(memory.facts) >= Threshold /\ n.nodes[node].eq
           /\ memory.indexed /\ HasKey(t.x)
        THEN memory.index[t.x]
        ELSE memory.facts

CandidateParents(n, node, v) ==
    LET memory == n.mems[n.nodes[n.nodes[node].parent].memory]
    IN  Reverse(IF Len(memory.tokens) >= Threshold /\ n.nodes[node].eq
                   /\ memory.indexed /\ HasKey(v)
                THEN memory.index[v]
                ELSE memory.tokens)

PassThrough(node, t) == [node |-> node, facts |-> t.facts, x |-> t.x]

(* Every token below t.                                                      *)
Cascade(n, t) ==
    {u \in n.store : t.node \in Ancestors(n, u.node) /\ IsPrefix(t.facts, u.facts)}

RECURSIVE Propagate(_, _, _, _), Deliver(_, _, _, _), Emit(_, _, _, _),
          Withdraw(_, _, _), SetCauses(_, _, _, _, _)

Propagate(n, t, children, fs) ==
    FoldLeft(LAMBDA acc, c : IF t \in acc.store THEN Deliver(acc, t, c, fs) ELSE acc,
             n, Reverse(children))

Emit(n, node, t, fs) ==
    Propagate([n EXCEPT !.store = @ \cup {t},
                        !.mems[n.nodes[node].memory] = NetworkInsertIndexed(@, t)],
              t, n.nodes[node].children, fs)

JoinMatch(n, node, t, f, v) ==
    [node |-> node, facts |-> Append(t.facts, f),
     x |-> IF n.nodes[node].binds THEN v ELSE t.x]

(* The new set of causes of a parent decides whether its pass-through token  *)
(* appears or goes.                                                          *)
SetCauses(n, node, t, by, fs) ==
    LET k   == n.nodes[node].kind
        set == [n EXCEPT !.sides[k][n.nodes[node].side] = (t :> by) @@ @]
        out == PassThrough(node, t)
    IN  CASE Through(k, by) /\ out \notin n.store -> Emit(set, node, out, fs)
          [] ~Through(k, by) /\ out \in n.store  -> Withdraw(set, Cascade(set, out), fs)
          [] OTHER -> set

(* Remove tokens everywhere; an NCC parent that loses its last result passes.*)
Withdraw(n, gone, fs) ==
    LET cleaned == [n EXCEPT
            !.store = @ \ gone,
            !.agenda = {a \in @ : a[2] \notin gone},
            !.mems = [m \in DOMAIN @ |-> RemoveIndexed(@[m], gone)] \o <<>>,
            !.sides = [k \in Sides |-> [m \in DOMAIN @[k] |->
                          [t \in DOMAIN @[k][m] \ gone |-> @[k][m][t]]] \o <<>>]]
        owners(acc) == {<<node, t>> \in {p \in DOMAIN acc.nodes : acc.nodes[p].kind = "ncc"}
                                         \X acc.store :
                            Causes(acc, node, t) \cap gone # {}}
    IN  FoldLeft(LAMBDA acc, p :
                    IF p[2] \in acc.store
                    THEN SetCauses(acc, p[1], p[2], Causes(acc, p[1], p[2]) \ gone, fs)
                    ELSE acc,
                 cleaned, SetToSeq(owners(cleaned)))

(* fs: the facts by number, which include the one being asserted.            *)
Deliver(n, t, child, fs) ==
    LET c == n.nodes[child]
    IN  CASE c.kind = "join" ->
                 FoldLeft(LAMBDA acc, f :
                             IF JoinTest(acc, child, t, fs[f].v) /\ t \in acc.store
                             THEN Emit(acc, child, JoinMatch(acc, child, t, f, fs[f].v), fs)
                             ELSE acc,
                          n, CandidateFacts(n, child, t))
          [] c.kind \in {"negative", "exists"} ->
                 SetCauses(n, child, t,
                           {f \in ToSet(CandidateFacts(n, child, t)) :
                                JoinTest(n, child, t, fs[f].v)}, fs)
          [] c.kind = "ncc" -> SetCauses(n, child, t, Causes(n, child, t), fs)
          [] c.kind = "partner" ->
                 LET owner == CHOOSE o \in n.store :
                                  /\ o.node = n.nodes[c.peer].parent
                                  /\ IsPrefix(o.facts, t.facts)
                     known == owner \in DOMAIN n.sides["ncc"][c.side]
                     by    == Causes(n, c.peer, owner) \cup {t}
                 IN  IF known THEN SetCauses(n, c.peer, owner, by, fs)
                     ELSE [n EXCEPT !.sides["ncc"][c.side] = (owner :> by) @@ @]
          [] c.kind = "terminal" -> [n EXCEPT !.agenda = @ \cup {<<c.rule, t>>}]
-----------------------------------------------------------------------------
(* Facts.                                                                    *)

Subscribers(n, f) ==
    SetToSortSeq({s[2] : s \in {p \in n.subs : p[1] \in n.reverse[f]}}, >)

(* Parents of the positive joins are captured before anything propagates.    *)
RightActivate(n, node, parents, f, fs) ==
    IF n.nodes[node].kind = "join"
    THEN FoldLeft(LAMBDA acc, t :
                     IF t \in acc.store /\ JoinTest(acc, node, t, fs[f].v)
                     THEN Emit(acc, node, JoinMatch(acc, node, t, f, fs[f].v), fs)
                     ELSE acc,
                  n, parents)
    ELSE FoldLeft(LAMBDA acc, t :
                     IF t \in acc.store /\ JoinTest(acc, node, t, fs[f].v)
                     THEN SetCauses(acc, node, t, Causes(acc, node, t) \cup {f}, fs)
                     ELSE acc,
                  n, CandidateParents(n, node, fs[f].v))

NetworkAssertFact(rel, v) ==
    /\ Len(fact) < MaxFacts
    /\ \A f \in live : fact[f] # [rel |-> rel, v |-> v]
    /\ fact' = Append(fact, [rel |-> rel, v |-> v])
    /\ live' = live \cup {Len(fact')}
    /\ LET f       == Len(fact')
           n       == AlphaAssert(net, f)
           nodes   == Subscribers(n, f)
           parents == [s \in ToSet(nodes) |-> CandidateParents(n, s, v)]
       IN  net' = FoldLeft(LAMBDA acc, s : RightActivate(acc, s, parents[s], f, fact'),
                           n, nodes)
    /\ UNCHANGED installed

NetworkRetractFact(f) ==
    /\ live' = live \ {f}
    /\ LET n    == AlphaRetract(net, f)
           gone == UNION {Cascade(n, t) : t \in {u \in n.store : Contains(u.facts, f)}}
           held(acc) == {<<node, t>> \in {p \in DOMAIN acc.nodes :
                                             acc.nodes[p].kind \in {"negative", "exists"}}
                                         \X acc.store : f \in Causes(acc, node, t)}
           w    == Withdraw(n, gone, fact)
       IN  net' = FoldLeft(LAMBDA acc, p :
                              IF p[2] \in acc.store
                              THEN SetCauses(acc, p[1], p[2],
                                             Causes(acc, p[1], p[2]) \ {f}, fact)
                              ELSE acc,
                           w, SetToSeq(held(w)))
    /\ UNCHANGED <<fact, installed>>

ClearAllRuntime(n) ==
    [n EXCEPT !.amems = [m \in DOMAIN @ |-> AlphaClear(@[m])] \o <<>>,
              !.reverse = [f \in DOMAIN @ |-> {}],
              !.mems = [m \in DOMAIN @ |-> BetaClear(@[m])] \o <<>>,
              !.sides = [k \in Sides |-> [m \in DOMAIN @[k] |-> << >>] \o <<>>],
              !.store = {}, !.agenda = {}]

ClearWorkingMemory ==
    /\ live # {}
    /\ live' = {}
    /\ net' = Emit(ClearAllRuntime(net), Root, RootToken, fact)
    /\ UNCHANGED <<fact, installed>>
-----------------------------------------------------------------------------
(* Compiling a rule.                                                         *)

AlphaChain(n, c) ==
    FoldLeft(LAMBDA acc, test :
                [net |-> CreateConstantTestNode(acc.net, acc.at, test),
                 at  |-> Len(acc.net.anodes) + 1],
             [net |-> n, at |-> n.entry[c.rel]], c.tests)

EndChain(chain) == CreateMemory(chain.net, chain.at)

FillPath(n, key) ==
    LET id == Len(n.amems)
    IN  [net |-> [BackfillMemory(n, id, key) EXCEPT !.apaths = (key :> id) @@ @], mem |-> id]

EnsureAlphaPath(n, c) ==
    LET key == <<c.rel, c.tests>>
    IN  IF key \in DOMAIN n.apaths THEN [net |-> n, mem |-> n.apaths[key]]
        ELSE FillPath(EndChain(AlphaChain(CreateEntryNode(n, c.rel), c)), key)

JoinKey(parent, amem, eq, binds) == <<parent, amem, eq, binds>>

EnsureJoinNode(n, parent, amem, eq, binds) ==
    LET key == JoinKey(parent, amem, eq, binds)
    IN  IF key \in DOMAIN n.joins THEN [net |-> n, node |-> n.joins[key]]
        ELSE [net |-> [CreateJoinNode(n, parent, amem, eq, binds)
                          EXCEPT !.joins = (key :> n.nextnode) @@ @],
              node |-> n.nextnode]

EnsureNode(at, c, n, amem, eq) ==
    LET join == EnsureJoinNode(n, at.node, amem, eq, c.var /\ ~eq)
    IN  IF c.kind \in {"negative", "exists"}
        THEN [net |-> CreateSideNode(n, c.kind, at.node, amem, eq),
              node |-> n.nextnode, bound |-> at.bound]
        ELSE [net |-> join.net, node |-> join.node, bound |-> at.bound \/ c.var]

(* A variable that is bound is tested, and both sides of the test indexed;   *)
(* a positive pattern binds it otherwise.                                    *)
CompileOnPath(at, c, path) ==
    LET eq == c.var /\ at.bound
    IN  EnsureNode(at, c,
                   IF ~eq THEN path.net
                   ELSE [path.net EXCEPT
                            !.amems[path.mem] = RequestIndex(@),
                            !.mems[at.net.nodes[at.node].memory] =
                                IF at.node = Root THEN @ ELSE RequestVarIndex(@)],
                   path.mem, eq)

CompilePattern(at, c) == CompileOnPath(at, c, EnsureAlphaPath(at.net, c))

(* The NCC node comes before its subnetwork and the partner after it.        *)
EndNcc(sub, ncc, bound) ==
    [net |-> CreateNccPartner(sub.net, sub.node, ncc), node |-> ncc, bound |-> bound]

CompileNcc(at, c, rule) ==
    EndNcc(CompilePattern([at EXCEPT !.net = CreateNccNode(at.net, at.node, rule)],
                          [c EXCEPT !.kind = "join"]),
           at.net.nextnode, at.bound)

EndRule(at, rule) == NewNode(at.net, Node("terminal", at.node, rule))

CompileConditions(n, def, rule) ==
    EndRule(FoldLeft(LAMBDA at, c : IF c.kind = "ncc" THEN CompileNcc(at, c, rule)
                                    ELSE CompilePattern(at, c),
                     [net |-> n, node |-> Root, bound |-> FALSE], def),
            rule)

(* The new children of older nodes, partners first.                          *)
Frontier(n, first) ==
    LET new == {c \in DOMAIN n.nodes : c >= first /\ n.nodes[c].parent < first}
        late(c) == IF n.nodes[c].kind = "partner" THEN 0 ELSE 1
    IN  SetToSortSeq(new, LAMBDA a, b : \/ late(a) < late(b)
                                        \/ late(a) = late(b) /\ a < b)

InitializeFrontier(n, first) ==
    FoldLeft(LAMBDA acc, c :
                LET tokens == acc.mems[acc.nodes[acc.nodes[c].parent].memory].tokens
                IN  FoldLeft(LAMBDA a, t : Propagate(a, t, <<c>>, fact), acc,
                             IF acc.nodes[c].kind = "partner" THEN tokens ELSE Reverse(tokens)),
             n, Frontier(n, first))

(* With the root token alone only new children of the root can be reached.   *)
ActivateRootChildren(n, first) ==
    Propagate(n, RootToken, SelectSeq(n.nodes[Root].children, LAMBDA c : c >= first), fact)

ActivateNew(n, first) ==
    IF live = {} /\ Cardinality(net.store) = 1 THEN ActivateRootChildren(n, first)
    ELSE InitializeFrontier(n, first)

Install(def) ==
    /\ Len(installed) < MaxInstalls
    /\ installed' = Append(installed, {def})
    /\ net' = ActivateNew(CompileConditions(net, def, Len(installed) + 1), net.nextnode)
    /\ UNCHANGED <<fact, live>>
-----------------------------------------------------------------------------
(* Retiring rules.                                                           *)

\* Mutant: the subnetwork of a surviving NCC is not kept.
AncestorsOnly(n, removed) ==
    UNION {Ancestors(n, t) : t \in {c \in DOMAIN n.nodes : n.nodes[c].kind = "terminal"
                                        /\ n.nodes[c].rule \notin removed}} \cup {Root}

(* Ancestors of the surviving terminals, and of the partners of their NCCs.  *)
RetainedNodes(n, removed) ==
    LET RECURSIVE Close(_)
        Close(s) == LET t == s \cup UNION {Ancestors(n, n.nodes[c].peer) :
                                              c \in {d \in s : n.nodes[d].kind = "ncc"}}
                    IN  IF t = s THEN s ELSE Close(t)
    IN  Close(AncestorsOnly(n, removed))

(* compact_memories: the new number of each kept entry, 0 for a dropped one. *)
Compaction(s, keep) ==
    [i \in DOMAIN s |-> IF i \in keep THEN Cardinality({j \in keep : j <= i}) ELSE 0]

Compacted(s, keep) ==
    LET at == SetToSortSeq(keep, <) IN [i \in DOMAIN at |-> s[at[i]]] \o <<>>

(* Dead tokens and their activations go; no table of a survivor changes.     *)
DropTokens(n, keep, removed) ==
    LET gone == {t \in n.store : t.node \notin keep}
    IN  [n EXCEPT !.store = @ \ gone,
                  !.agenda = {a \in @ : a[1] \notin removed /\ a[2] \notin gone}]

RetainNodes(n, keep) ==
    LET mems   == {n.nodes[c].memory : c \in keep} \ {0}
        of(c)  == IF n.nodes[c].kind = "partner" THEN "ncc" ELSE n.nodes[c].kind
        used   == [k \in Sides |-> {n.nodes[c].side : c \in {d \in keep : of(d) = k}}]
        memof  == Compaction(n.mems, mems)
        sideof == [k \in Sides |-> Compaction(n.sides[k], used[k])]
    IN  [n EXCEPT
            !.nodes = [c \in keep |->
                [n.nodes[c] EXCEPT
                    !.children = SelectSeq(@, LAMBDA d : d \in keep),
                    !.memory = IF @ = 0 THEN 0 ELSE memof[@],
                    !.side = IF @ = 0 THEN 0 ELSE sideof[of(c)][@]]],
            !.mems = Compacted(@, mems),
            !.sides = [k \in Sides |-> Compacted(@[k], used[k])]]

(* Alpha nodes are kept when they own a kept memory or lead to one.          *)
RetainMemories(n, keep) ==
    LET memof == Compaction(n.amems, keep)
        leads[i \in DOMAIN n.anodes] == \/ n.anodes[i].memory \in keep
                                        \/ \E c \in ToSet(n.anodes[i].children) : leads[c]
        kept  == {i \in DOMAIN n.anodes : leads[i]}
        nodeof == Compaction(n.anodes, kept)
        newids(s) == LET in == SelectSeq(s, LAMBDA c : c \in kept)
                     IN  [i \in DOMAIN in |-> nodeof[in[i]]] \o <<>>
    IN  [n EXCEPT
            !.amems = Compacted(@, keep),
            !.anodes = [i \in DOMAIN Compacted(@, kept) |->
                           [Compacted(@, kept)[i] EXCEPT
                               !.children = newids(@),
                               !.memory = IF @ \in keep THEN memof[@] ELSE 0]] \o <<>>,
            !.entry = [r \in Rels |-> IF @[r] \in kept THEN nodeof[@[r]] ELSE 0],
            !.reverse = [f \in DOMAIN @ |-> {memof[m] : m \in @[f] \cap keep}]]

RemapAlphaMemories(n, memof) ==
    LET nodes == [c \in DOMAIN n.nodes |->
                     [n.nodes[c] EXCEPT !.amem = IF @ = 0 THEN 0 ELSE memof[@]]]
    IN  [n EXCEPT !.nodes = nodes,
                  !.subs = {<<nodes[c].amem, c>> :
                               c \in {d \in DOMAIN nodes : nodes[d].amem # 0}}]

RemapCaches(n, memof) ==
    LET cached == {k \in DOMAIN n.joins : n.joins[k] \in DOMAIN n.nodes}
        new(k) == [k EXCEPT ![2] = memof[@]]
    IN  [n EXCEPT !.apaths = [k \in {p \in DOMAIN @ : memof[@[p]] # 0} |-> memof[@[k]]],
                  !.joins  = [j \in {new(k) : k \in cached} |->
                                 n.joins[CHOOSE k \in cached : new(k) = j]]]

RemoveRules(removed) ==
    /\ removed # {}
    /\ LET keep  == RetainedNodes(net, removed)
           beta  == RetainNodes(DropTokens(net, keep, removed), keep)
           amems == {beta.nodes[c].amem : c \in keep} \ {0}
           memof == Compaction(net.amems, amems)
       IN  net' = RemapCaches(RemapAlphaMemories(RetainMemories(beta, amems), memof), memof)
    /\ installed' = [r \in DOMAIN installed |-> IF r \in removed THEN {} ELSE installed[r]]
    /\ UNCHANGED <<fact, live>>
-----------------------------------------------------------------------------
(* What a saved engine is checked for before it is used: see the properties. *)

ValidateAlpha(n) ==
    /\ \A i \in DOMAIN n.anodes :
          /\ n.anodes[i].memory \in DOMAIN n.amems \cup {0}
          /\ ToSet(n.anodes[i].children) \subseteq DOMAIN n.anodes
          /\ IsInjective(n.anodes[i].children)
    /\ \A m \in DOMAIN n.amems : \A k \in Keys :
          ToSet(n.amems[m].index[k]) \subseteq ToSet(n.amems[m].facts)

ValidateRanks(n) ==
    /\ \A m \in DOMAIN n.mems : n.mems[m].ranked =>
          Len(n.mems[m].ranks) = Len(n.mems[m].tokens)
    /\ \A c \in DOMAIN n.nodes : n.nodes[c].kind = "ncc" =>
          n.mems[n.nodes[n.nodes[c].parent].memory].ranked

ValidateReferences(n) ==
    \A c \in DOMAIN n.nodes :
        LET d == n.nodes[c]
        IN  /\ ToSet(d.children) \subseteq DOMAIN n.nodes
            /\ c # Root => d.parent \in DOMAIN n.nodes
            /\ d.kind \notin {"terminal", "partner"} => d.memory \in DOMAIN n.mems
            /\ d.kind \in Sides => d.side \in DOMAIN n.sides[d.kind]
            /\ d.kind \in {"ncc", "partner"} => d.peer \in DOMAIN n.nodes
            /\ d.kind = "partner" => d.side \in DOMAIN n.sides["ncc"]

ValidateSubscribers(n) ==
    /\ \A s \in n.subs : /\ s[2] \in DOMAIN n.nodes
                        /\ n.nodes[s[2]].kind \in {"join", "negative", "exists"}
    /\ n.nodes[Root].kind = "root"

-----------------------------------------------------------------------------
Loaded == {r \in DOMAIN installed : installed[r] # {}}

NetworkInit ==
    /\ fact = <<>> /\ live = {} /\ installed = <<>>
    /\ net = [anodes |-> <<>>, amems |-> <<>>, entry |-> [r \in Rels |-> 0],
              reverse |-> [f \in 1..MaxFacts |-> {}],
              nodes |-> (Root :> [Node("root", 0, 0) EXCEPT !.memory = 1]),
              nextnode |-> 2,
              mems |-> <<NetworkInsertIndexed(BetaMemory, RootToken)>>,
              sides |-> [k \in Sides |-> <<>>], subs |-> {},
              apaths |-> << >>, joins |-> << >>,
              store |-> {RootToken}, agenda |-> {}]

NetworkNext ==
    \/ \E rel \in Rels, v \in Values : NetworkAssertFact(rel, v)
    \/ \E f \in live : NetworkRetractFact(f)
    \/ ClearWorkingMemory
    \/ \E def \in Defs : Install(def)
    \/ \E removed \in SUBSET Loaded : RemoveRules(removed)

NetworkSpec == NetworkInit /\ [][NetworkNext]_networkVars
-----------------------------------------------------------------------------
(* What a rule means, read off the facts alone.                              *)
Blocked(c, x) == \E f \in live : /\ Passes(f, c.rel, c.tests)
                                 /\ c.var /\ x # Unbound => fact[f].v = x

RECURSIVE Meaning(_)
(* The matches of the conditions of def: their facts and the variable.       *)
Meaning(def) ==
    IF def = <<>> THEN {[facts |-> <<>>, x |-> Unbound]}
    ELSE LET c == Last(def)
             before == Meaning(Front(def))
         IN  CASE c.kind = "join" ->
                      {[facts |-> Append(m.facts, f),
                        x |-> IF c.var THEN fact[f].v ELSE m.x] : <<m, f>> \in
                          {p \in before \X live :
                              /\ Passes(p[2], c.rel, c.tests)
                              /\ (c.var /\ p[1].x # Unbound) => fact[p[2]].v = p[1].x}}
               [] c.kind = "exists" -> {m \in before : Blocked(c, m.x)}
               [] OTHER -> {m \in before : ~Blocked(c, m.x)}

(* The agenda holds the matches of the loaded rules, whenever they were      *)
(* installed and whatever was removed around them.                           *)
AgendaExact ==
    {<<a[1], a[2].facts>> : a \in net.agenda}
        = UNION {{<<r, m.facts>> : m \in Meaning(CHOOSE d \in installed[r] : TRUE)} : r \in Loaded}

(* Each cached alpha path has the memory of exactly the facts that pass it,  *)
(* oldest first, and its slot index finds what a scan would find.            *)
AlphaExact ==
    /\ \A key \in DOMAIN net.apaths :
          LET m == net.amems[net.apaths[key]]
          IN  m.facts = SelectSeq([i \in DOMAIN fact |-> i] \o <<>>,
                                  LAMBDA f : f \in live /\ Passes(f, key[1], key[2]))
    /\ \A m \in DOMAIN net.amems : net.amems[m].indexed =>
          \A k \in Keys : net.amems[m].index[k]
                            = SelectSeq(net.amems[m].facts, LAMBDA f : fact[f].v = k)

(* The reverse index a retraction relies on names the memories of a fact.    *)
ReverseExact ==
    \A f \in DOMAIN net.reverse :
        net.reverse[f] = {m \in DOMAIN net.amems : Contains(net.amems[m].facts, f)}

(* Tokens of the store are the tokens of the memories, each once; a variable *)
(* index finds what a scan would find.                                       *)
BetaExact ==
    /\ net.store = UNION {ToSet(net.mems[m].tokens) : m \in DOMAIN net.mems}
    /\ \A m \in DOMAIN net.mems :
          LET mem == net.mems[m]
          IN  /\ IsInjective(mem.tokens)
              /\ mem.indexed => \A k \in Keys :
                    mem.index[k] = SelectSeq(mem.tokens, LAMBDA t : t.x = k)
    /\ \A c \in DOMAIN net.nodes : net.nodes[c].memory # 0 =>
          \A t \in ToSet(net.mems[net.nodes[c].memory].tokens) : t.node = c

(* The ranks below which NCC results are ordered grow with the tokens, also  *)
(* after the counter ran out.                                                *)
RanksOrdered ==
    \A m \in DOMAIN net.mems : net.mems[m].ranked =>
        /\ Len(net.mems[m].ranks) = Len(net.mems[m].tokens)
        /\ \A i \in DOMAIN net.mems[m].ranks :
              /\ net.mems[m].ranks[i] < net.mems[m].next
              /\ \A j \in 1..(i - 1) : net.mems[m].ranks[j] < net.mems[m].ranks[i]

(* A cache entry leads to what its key describes.                            *)
CachesTrue ==
    /\ \A key \in DOMAIN net.joins :
          /\ net.joins[key] \in DOMAIN net.nodes
          /\ LET c == net.nodes[net.joins[key]]
             IN  c.kind = "join" /\ key = JoinKey(c.parent, c.amem, c.eq, c.binds)
    /\ \A c \in DOMAIN net.nodes : net.nodes[c].kind = "join" =>
          LET d == net.nodes[c] IN JoinKey(d.parent, d.amem, d.eq, d.binds) \in DOMAIN net.joins
    /\ {net.apaths[key] : key \in DOMAIN net.apaths} = DOMAIN net.amems

(* The checks of a saved engine pass at every moment: validate_consistency   *)
(* of both networks; and a node is subscribed to the memory it reads.        *)
BetaConsistent ==
    /\ ValidateAlpha(net)
    /\ ValidateRanks(net)
    /\ ValidateReferences(net)
    /\ ValidateSubscribers(net)
    /\ \A s \in net.subs : net.nodes[s[2]].amem = s[1]

(* Nothing outlives the rules that needed it: the network of the loaded      *)
(* rules has no other node, memory or alpha path.                            *)
NothingLeft ==
    /\ DOMAIN net.nodes = RetainedNodes(net, {})
    /\ DOMAIN net.mems = {net.nodes[c].memory : c \in DOMAIN net.nodes} \ {0}
    /\ DOMAIN net.amems = {net.nodes[c].amem : c \in DOMAIN net.nodes} \ {0}
    /\ Loaded = {} => net.anodes = <<>> /\ \A k \in Sides : net.sides[k] = <<>>

(* Retiring rules leaves the others' activations, the order of their tokens  *)
(* and their nodes as they were.                                             *)
RemovalLocal ==
    LET removed == {r \in Loaded : installed'[r] = {}}
    IN  removed # {} =>
          /\ net'.agenda = {a \in net.agenda : a[1] \notin removed}
          /\ \A c \in DOMAIN net'.nodes : net'.nodes[c].memory # 0 =>
                net'.mems[net'.nodes[c].memory] = net.mems[net.nodes[c].memory]

-----------------------------------------------------------------------------
(* Saving and restoring the match network.                                   *)
(*                                                                           *)
(* A snapshot holds the network's tables as they are, indexes included, and  *)
(* a decoded network is used only if it passes a validation that rebuilds    *)
(* from facts and nodes what the tables should hold.  Two things have to be  *)
(* right about it: whatever an engine can save is accepted, and whatever is  *)
(* accepted behaves like a network built from the rules and facts.           *)
(*                                                                           *)
(* The decoded network is the saved one or one with a single damage.  After  *)
(* a restore the engine goes on, so the properties also see what a damage    *)
(* that was let through leads to later.                                      *)

CONSTANT MaxPath  \* the nodes of a beta path (MAX_BETA_PATH_NODES)

VARIABLE restores \* restores so far, at most one

snapvars == <<networkVars, restores>>
-----------------------------------------------------------------------------
(* The alpha network.                                                        *)

(* Entry nodes are unique and indexed, test nodes have one parent, a memory  *)
(* has one owner, and children come after their parents.                     *)
ValidateAlphaStructure(n) ==
    LET ids == DOMAIN n.anodes
        kids(i) == n.anodes[i].children
    IN  /\ \A i \in ids : \A c \in ToSet(kids(i)) : c \in ids /\ c > i
        /\ \A c \in ids :
              Cardinality({<<i, k>> \in ids \X ids : k \in DOMAIN kids(i) /\ kids(i)[k] = c})
                  = Len(n.anodes[c].test)
        /\ \A i \in ids : n.anodes[i].test = <<>> => n.entry[n.anodes[i].rel] = i
        /\ \A r \in Rels : n.entry[r] # 0 =>
              /\ n.entry[r] \in ids
              /\ n.anodes[n.entry[r]].rel = r /\ n.anodes[n.entry[r]].test = <<>>
        /\ {n.anodes[i].memory : i \in ids} \ {0} = DOMAIN n.amems
        /\ \A i, j \in ids : (n.anodes[i].memory = n.anodes[j].memory /\ i # j)
                                 => n.anodes[i].memory = 0

RECURSIVE MemoriesBelow(_, _, _)
MemoriesBelow(n, node, f) ==
    LET here == n.anodes[node]
    IN  IF here.test # <<>> /\ here.test # <<fact[f].v>> THEN {}
        ELSE ({here.memory} \ {0})
             \cup UNION {MemoriesBelow(n, c, f) : c \in ToSet(here.children)}

MemoriesOf(n, f) ==
    LET entry == n.entry[fact[f].rel]
    IN  IF f \notin live \/ entry = 0 THEN {} ELSE MemoriesBelow(n, entry, f)

Chronological == SelectSeq([i \in DOMAIN fact |-> i] \o <<>>, LAMBDA f : f \in live)

RebuiltAlpha(n, m) ==
    LET facts == SelectSeq(Chronological, LAMBDA f : m \in MemoriesOf(n, f))
    IN  [facts |-> facts, indexed |-> n.amems[m].indexed,
         index |-> IF n.amems[m].indexed
                   THEN FoldLeft(LAMBDA acc, f : Indexed(acc, fact[f].v, f), EmptyIndex, facts)
                   ELSE EmptyIndex]

(* Memories, indexes and the reverse index are what the facts, in the order  *)
(* of their timestamps, would make of an empty network.                      *)
ValidateAlphaContents(n) ==
    /\ \A m \in DOMAIN n.amems : n.amems[m] = RebuiltAlpha(n, m)
    /\ \A f \in DOMAIN n.reverse :
          n.reverse[f] = IF f \in DOMAIN fact THEN MemoriesOf(n, f) ELSE {}
-----------------------------------------------------------------------------
(* The beta network: nodes, memories, subscriptions.                         *)

ValidateNodes(n) ==
    \A c \in DOMAIN n.nodes :
        LET d == n.nodes[c]
        IN  /\ c < n.nextnode
            /\ (d.kind = "root") = (c = Root)
            /\ c # Root => /\ d.parent \in DOMAIN n.nodes
                           /\ d.parent < c
                           /\ c \in ToSet(n.nodes[d.parent].children)
            /\ IsInjective(d.children)
            /\ \A e \in ToSet(d.children) : e \in DOMAIN n.nodes /\ n.nodes[e].parent = c

ValidatePaths(n) ==
    \A c \in DOMAIN n.nodes : Cardinality(Ancestors(n, c)) <= MaxPath

RebuiltIndex(m) ==
    IF m.indexed THEN FoldLeft(LAMBDA acc, t : Indexed(acc, t.x, t), EmptyIndex, m.tokens)
    ELSE EmptyIndex

(* Each memory has one owner, whose tokens it holds, indexed as they would   *)
(* be had they just been inserted in this order.                             *)
ValidateMemories(n) ==
    LET own == {c \in DOMAIN n.nodes : n.nodes[c].memory # 0}
    IN  /\ \A c, d \in own : n.nodes[c].memory = n.nodes[d].memory => c = d
        /\ {n.nodes[c].memory : c \in own} = DOMAIN n.mems
        /\ \A c \in own :
              LET m == n.mems[n.nodes[c].memory]
              IN  /\ \A t \in ToSet(m.tokens) : t \in n.store /\ t.node = c
                  /\ m.index = RebuiltIndex(m)

ValidateSubscriptions(n) ==
    /\ \A k \in Sides : {n.nodes[c].side : c \in {d \in DOMAIN n.nodes : n.nodes[d].kind = k}}
                            = DOMAIN n.sides[k]
    /\ \A c, d \in DOMAIN n.nodes :
          (n.nodes[c].kind = n.nodes[d].kind /\ n.nodes[c].kind \in Sides
             /\ n.nodes[c].side = n.nodes[d].side) => c = d
    /\ n.subs = {<<n.nodes[c].amem, c>> : c \in {d \in DOMAIN n.nodes :
                                   n.nodes[d].kind \in {"join", "negative", "exists"}}}
    /\ \A s \in n.subs : s[1] \in DOMAIN n.amems

(* The branch of a partner starts below the NCC's parent, is not empty and   *)
(* does not cross the NCC itself.                                            *)
ValidateNccPaths(n) ==
    \A c \in DOMAIN n.nodes : n.nodes[c].kind = "ncc" =>
        LET d == n.nodes[c]
        IN  /\ d.peer \in DOMAIN n.nodes
            /\ n.nodes[d.peer].kind = "partner" /\ n.nodes[d.peer].peer = c
            /\ n.nodes[d.peer].side = d.side
            /\ n.nodes[d.peer].parent # d.parent
            /\ d.parent \in Ancestors(n, n.nodes[d.peer].parent)
            /\ c \notin Ancestors(n, n.nodes[d.peer].parent)
-----------------------------------------------------------------------------
(* Tokens and activations.                                                   *)

TokensOf(n, c) == ToSet(n.mems[n.nodes[c].memory].tokens)

(* The tokens a token of node c may descend from.                            *)
ParentTokens(n, t) ==
    LET d == n.nodes[t.node]
        facts == IF d.kind = "join" THEN Front(t.facts) ELSE t.facts
    IN  {u \in n.store : u.node = d.parent /\ u.facts = facts}

ValidateTokens(n) ==
    /\ Len(n.mems[n.nodes[Root].memory].tokens) = 1
    /\ \A t \in n.store :
          /\ t.node \in DOMAIN n.nodes
          /\ n.nodes[t.node].memory # 0 /\ t \in TokensOf(n, t.node)
          /\ IF t.node = Root THEN t = RootToken
             ELSE /\ n.nodes[t.node].kind = "join" => t.facts # <<>>
                  /\ ParentTokens(n, t) # {}
          /\ ToSet(t.facts) \subseteq live

ValidateActivations(n) ==
    \A a \in n.agenda :
        /\ a[2] \in n.store
        /\ \E c \in DOMAIN n.nodes : /\ n.nodes[c].kind = "terminal"
                                     /\ n.nodes[c].rule = a[1]
                                     /\ n.nodes[c].parent = a[2].node

(* Pass-through tokens carry the bindings of their parents.                  *)
ValidatePassthrough(n, c, t) == PassThrough(c, t) \in n.store

(* The tokens of a join are the matches of its parents' tokens and the facts *)
(* of its alpha memory, each once.                                           *)
ValidateJoinMemberships(n) ==
    \A c \in DOMAIN n.nodes : n.nodes[c].kind = "join" =>
        TokensOf(n, c) =
            UNION {{JoinMatch(n, c, t, f, fact[f].v) :
                        f \in {g \in ToSet(CandidateFacts(n, c, t)) : JoinTest(n, c, t, fact[g].v)}} :
                   t \in TokensOf(n, n.nodes[c].parent)}

(* Negative and exists nodes.                                                *)
ValidateBlockers(n) ==
    \A c \in DOMAIN n.nodes : n.nodes[c].kind \in {"negative", "exists"} =>
        LET k  == n.nodes[c].kind
            up == TokensOf(n, n.nodes[c].parent)
        IN  /\ \A t \in up :
                  LET matches == {f \in ToSet(CandidateFacts(n, c, t)) :
                                      JoinTest(n, c, t, fact[f].v)}
                  IN  /\ Causes(n, c, t) = matches
                      /\ Through(k, matches) => ValidatePassthrough(n, c, t)
            /\ DOMAIN n.sides[k][n.nodes[c].side] \subseteq up
            /\ Cardinality(TokensOf(n, c))
                   = Cardinality({t \in up : Through(k, Causes(n, c, t))})

(* NCC nodes: each result belongs to the parent it descends from, and each   *)
(* parent is blocked by results or has its pass-through.                     *)
ValidateNccMemories(n) ==
    \A c \in DOMAIN n.nodes : n.nodes[c].kind = "ncc" =>
        LET d  == n.nodes[c]
            up == TokensOf(n, d.parent)
            made == TokensOf(n, n.nodes[d.peer].parent)
        IN  /\ DOMAIN n.sides["ncc"][d.side] \subseteq up
            /\ made = UNION {Causes(n, c, t) : t \in up}
            /\ \A t \in up : \A u \in Causes(n, c, t) : IsPrefix(t.facts, u.facts)
            /\ \A t \in up : (Causes(n, c, t) # {}) # ValidatePassthrough(n, c, t)
            /\ Cardinality(TokensOf(n, c)) = Cardinality({t \in up : Causes(n, c, t) = {}})
-----------------------------------------------------------------------------
(* The compiler's caches.                                                    *)

PathTo(n, node) ==
    LET over(i) == {j \in DOMAIN n.anodes : Contains(n.anodes[j].children, i)}
        up[i \in 0..Len(n.anodes)] ==
            IF i = 0 THEN <<>>
            ELSE (IF over(i) = {} THEN <<>> ELSE up[CHOOSE j \in over(i) : TRUE])
                 \o n.anodes[i].test
    IN  up[node]

ValidateCaches(n) ==
    /\ Cardinality(DOMAIN n.apaths) = Len(n.amems)
    /\ \A k, l \in DOMAIN n.apaths : n.apaths[k] = n.apaths[l] => k = l
    /\ \A k \in DOMAIN n.apaths :
          \E i \in DOMAIN n.anodes : /\ n.anodes[i].memory = n.apaths[k]
                                     /\ n.anodes[i].rel = k[1] /\ PathTo(n, i) = k[2]
    /\ Cardinality(DOMAIN n.joins)
           = Cardinality({c \in DOMAIN n.nodes : n.nodes[c].kind = "join"})
    /\ \A k, l \in DOMAIN n.joins : n.joins[k] = n.joins[l] => k = l
    /\ \A k \in DOMAIN n.joins :
          /\ n.joins[k] \in DOMAIN n.nodes
          /\ LET c == n.nodes[n.joins[k]]
             IN  c.kind = "join" /\ k = JoinKey(c.parent, c.amem, c.eq, c.binds)

(* A terminal belongs to a rule the runtime knows.                           *)
ValidateRules(n) ==
    \A c \in DOMAIN n.nodes : n.nodes[c].kind = "terminal" => n.nodes[c].rule \in Loaded

Accepted(n) ==
    /\ ValidateAlpha(n) /\ ValidateReferences(n) /\ ValidateSubscribers(n)
    /\ ValidateAlphaStructure(n) /\ ValidateAlphaContents(n)
    /\ ValidateNodes(n) /\ ValidatePaths(n) /\ ValidateMemories(n) /\ ValidateRanks(n)
    /\ ValidateSubscriptions(n) /\ ValidateNccPaths(n)
    /\ ValidateTokens(n) /\ ValidateActivations(n)
    /\ ValidateJoinMemberships(n) /\ ValidateBlockers(n) /\ ValidateNccMemories(n)
    /\ ValidateCaches(n) /\ ValidateRules(n)
-----------------------------------------------------------------------------
(* Single damages of what the network derives from its rules and facts.      *)

Toggled(s, x) == IF x \in s THEN s \ {x} ELSE s \cup {x}

Variants(s, others) ==
    {SelectSeq(s, LAMBDA x : x # y) : y \in ToSet(s)}
        \cup {Append(s, y) : y \in others \ ToSet(s)} \cup {Reverse(s)}

DamagedAlpha(n) ==
    UNION {{[n EXCEPT !.amems[m].facts = s] : s \in Variants(n.amems[m].facts, live)} :
              m \in DOMAIN n.amems}
    \cup UNION {{[n EXCEPT !.amems[m].index[k] = s] :
                    s \in Variants(n.amems[m].index[k], live)} :
                   <<m, k>> \in (DOMAIN n.amems) \X Keys}
    \cup {[n EXCEPT !.reverse[f] = Toggled(@, m)] : <<f, m>> \in live \X (DOMAIN n.amems)}
    \cup {[n EXCEPT !.entry[r] = i] : <<r, i>> \in Rels \X (0..Len(n.anodes))}

(* A token and what hangs on it vanish from every table at once.             *)
Lost(n, t) ==
    LET gone == Cascade(n, t)
    IN  [n EXCEPT !.store = @ \ gone,
                  !.agenda = {a \in @ : a[2] \notin gone},
                  !.mems = [m \in DOMAIN @ |-> RemoveIndexed(@[m], gone)] \o <<>>,
                  !.sides = [k \in Sides |-> [m \in DOMAIN @[k] |->
                                [u \in DOMAIN @[k][m] \ gone |->
                                    IF k = "ncc" THEN @[k][m][u] \ gone ELSE @[k][m][u]]] \o <<>>]]

Gained(n, t) ==
    [n EXCEPT !.store = @ \cup {t}, !.mems[n.nodes[t.node].memory] = NetworkInsertIndexed(@, t)]

DamagedTokens(n) ==
    {Lost(n, t) : t \in n.store \ {RootToken}}
    \cup {Gained(n, t) : t \in {u \in [node : {c \in DOMAIN n.nodes : n.nodes[c].memory # 0},
                                        facts : {<<f>> : f \in live} \cup {<<>>},
                                        x : {Unbound} \cup Values] : u \notin n.store}}
    \cup UNION {{[n EXCEPT !.mems[m].tokens = s] : s \in Variants(n.mems[m].tokens, n.store)} :
                   m \in DOMAIN n.mems}
    \cup UNION {{[n EXCEPT !.mems[m].index[k] = s] : s \in Variants(n.mems[m].index[k], n.store)} :
                   <<m, k>> \in (DOMAIN n.mems) \X Keys}

DamagedTables(n) ==
    UNION {{[n EXCEPT !.sides[k][m][t] = Toggled(@, y)] :
               <<t, y>> \in (DOMAIN n.sides[k][m]) \X (IF k = "ncc" THEN n.store ELSE live)} :
           <<k, m>> \in {p \in Sides \X (1..MaxInstalls) : p[2] \in DOMAIN n.sides[p[1]]}}
    \cup {[n EXCEPT !.agenda = Toggled(@, <<r, t>>)] : <<r, t>> \in (DOMAIN installed) \X n.store}

DamagedLinks(n) ==
    {[n EXCEPT !.subs = Toggled(@, <<m, c>>)] : <<m, c>> \in (DOMAIN n.amems) \X (DOMAIN n.nodes)}
    \cup UNION {{[n EXCEPT !.nodes[c].children = s] : s \in Variants(n.nodes[c].children, {Root})} :
                   c \in DOMAIN n.nodes}
    \cup {[n EXCEPT !.apaths[k] = m] : <<k, m>> \in (DOMAIN n.apaths) \X (DOMAIN n.amems)}
    \cup {[n EXCEPT !.joins[k] = c] : <<k, c>> \in (DOMAIN n.joins) \X (DOMAIN n.nodes)}

Damaged(n) ==
    (DamagedAlpha(n) \cup DamagedTokens(n) \cup DamagedTables(n) \cup DamagedLinks(n)) \ {n}

(* The decoded network replaces the engine's only if it is accepted.         *)
Restore(d) ==
    /\ restores = 0
    /\ Accepted(d)
    /\ net' = d /\ restores' = 1
    /\ UNCHANGED <<fact, live, installed>>

SnapInit == NetworkInit /\ restores = 0

SnapNext ==
    \/ NetworkNext /\ UNCHANGED restores
    \/ \E d \in Damaged(net) : Restore(d)

SnapSpec == SnapInit /\ [][SnapNext]_snapvars
-----------------------------------------------------------------------------
(* A saved engine can be restored: every state the network reaches passes    *)
(* the validation, also after a restore.                                     *)
SavedAccepted == Accepted(net)

(* Whatever was restored, the matches of a loaded rule are those its         *)
(* conditions have in working memory, then and after further changes.        *)
MatchesExact ==
    \A c \in DOMAIN net.nodes : net.nodes[c].kind = "terminal" =>
        {t.facts : t \in TokensOf(net, net.nodes[c].parent)}
            = {m.facts : m \in Meaning(CHOOSE d \in installed[net.nodes[c].rule] : TRUE)}

(* An activation stands for a match of its rule: a restore may have dropped  *)
(* one, as a firing does, but brings in none.                                *)
ActivationsSound ==
    \A a \in net.agenda :
        /\ a[1] \in Loaded
        /\ a[2].facts \in {m.facts : m \in Meaning(CHOOSE d \in installed[a[1]] : TRUE)}

(* The indexes and caches a later assertion, retraction or rule relies on    *)
(* agree with what they index, in every order that decides a firing.         *)
RestoredExact == AlphaExact /\ ReverseExact /\ BetaExact /\ CachesTrue
=============================================================================
