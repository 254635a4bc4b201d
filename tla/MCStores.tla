------------------------------ MODULE MCStores ------------------------------
(***************************************************************************)
(* The engine's stores for TLC: the agenda, working memory with its handles,  *)
(* addresses and snapshots, fact queries, the registries and the file of a    *)
(* snapshot; and the match network as rules come and go, the orders of        *)
(* blocks, the split of a multifield and the snapshot of a network.           *)
(* The components share no state: a behaviour takes one of them, named by     *)
(* part, and the variables of the others stay 0.                              *)
(***************************************************************************)
EXTENDS Agenda, WorkingMemory, FactQuery, NetworkInstall, BlockChronology,
        SequenceMatch, SavedRegistries, SnapshotFile

CONSTANT Parts      \* the components of a run

VARIABLE part

-----------------------------------------------------------------------------
(* The instances. *)

\* Agenda. Three rules: one that outranks the others by salience, two that tie
\* in salience and differ in specificity and in their recencies.
Match(r, t, s, c, rec) ==
  [rule |-> r, token |-> t, salience |-> s, complexity |-> c, recency |-> rec]
MCMatches == {Match("urgent", "t1", 5, 1, <<1>>),
              Match("plain", "t1", 0, 1, <<1>>),
              Match("plain", "t3", 0, 1, <<3>>),
              Match("joined", "t2", 0, 3, <<1, 3>>),
              Match("joined", "t3", 0, 3, <<3, 0>>)}

\* WorkingMemory. Two facts of one kind whose fingerprints collide, and the
\* initial fact.
Fact(k, v) == [kind |-> k, val |-> v]
MCInitial == Fact("initial-fact", 0)
MCFacts == {MCInitial, Fact("item", 1), Fact("item", 2)}
MCHash == [f \in MCFacts |-> IF f = MCInitial THEN 0 ELSE 1]
MCSeeds == <<Fact("item", 1)>>

\* One component with handles only, where facts collide or are equal; one with
\* addresses only and two facts.
HandlesOnly ==
  /\ addresses' = {} /\ pending' = <<>>
  /\ mixed' => Fact("item", 2) \notin Range(fb'.facts)
AddressesOnly == issued' = issued /\ Fact("item", 2) \notin Range(fb'.facts)

\* FactQuery. Two members, the inner one over two templates; two facts, two
\* assertions between resets.
TwoMembers == <<<<"item">>, <<"item", "initial-fact">>>>
FewFacts == queryFb'.next <= 2 /\ Fact("item", 2) \notin Range(queryFb'.facts)

\* NetworkInstall. Rules that share their first join, with every kind of block.
C(kind, rel, ts, var) == [kind |-> kind, rel |-> rel, tests |-> ts, var |-> var]
MCDefs == {<<C("join", "p", <<>>, TRUE), C("join", "q", <<>>, TRUE)>>,
           <<C("join", "p", <<>>, TRUE), C("ncc", "q", <<>>, TRUE)>>,
           <<C("join", "q", <<"a">>, FALSE), C("negative", "p", <<>>, FALSE)>>,
           <<C("join", "p", <<>>, TRUE), C("exists", "q", <<>>, FALSE)>>}

\* The second relation needs one key and the value that has none, which the
\* third fact has not. Snapshots are taken of a network of two facts.
OneKeyOfQ ==
  \A i \in DOMAIN fact' :
    (fact'[i].rel = "q" => fact'[i].v # "b") /\ (i = 3 => fact'[i].v # Multi)
SmallMemory ==
  /\ Len(fact') <= 2
  /\ \A i \in DOMAIN fact' :
       fact'[i].v = "a" \/ (i = 1 /\ fact'[i].v = Multi /\ fact'[i].rel = "p")

\* BlockChronology. Two results descend from the first parent, one from the
\* second.
MCOwnerOf == [r \in Results |-> IF r = "r3" THEN "p2" ELSE "p1"]
MCRankOf == [p \in Parents |-> IF p = "p1" THEN 0 ELSE 1]

\* SequenceMatch.
MCSlots == <<"multi", "single">>

\* Two tests where the pattern has at most two fields.
ShortTested ==
  Len(tests') = 2 => \A i \in DOMAIN segs' : Len(segs'[i].fields) <= (IF Len(segs') = 1 THEN 2 ELSE 1)

\* SnapshotFile. Trees of up to five values. Forged lists may claim any small
\* length.
Item(d, k, c) == [depth |-> d, kind |-> k, claim |-> c]
Shapes == UNION {{s \in [1..n -> 0..3] : s[1] = 0 /\ \A i \in 2..n : s[i] \in 1..(s[i-1] + 1)} :
                   n \in 1..5}
Leaf(s, i) == i = Len(s) \/ s[i + 1] <= s[i]
KidsOf(s, i) ==
  Cardinality({j \in (i + 1)..Len(s) : s[j] = s[i] + 1 /\ \A k \in (i + 1)..j : s[k] > s[i]})
Built(s, leaf, node, claim) ==
  [i \in DOMAIN s |-> IF Leaf(s, i) THEN Item(s[i], leaf, 0)
                      ELSE Item(s[i], node, IF node = "list" THEN claim + KidsOf(s, i) ELSE 0)]
MCPayloads == {Built(s, l, n, 0) \o <<>> : <<s, l, n>> \in
                 Shapes \X {"scalar", "nonfinite", "external"} \X {"list", "variant"}}
MCForged == {Built(s, l, "list", c) \o <<>> : <<s, l, c>> \in
               Shapes \X {"scalar", "null"} \X (0..3)}
             \cup {Built(s, "scalar", "list", 0) \o Built(s, "scalar", "list", 0) : s \in Shapes}

-----------------------------------------------------------------------------
(* One component at a time. *)

NoAgenda ==
  /\ activations = 0 /\ ordering = 0 /\ idToKey = 0 /\ tokenToActs = 0 /\ indexed = 0
  /\ ruleOrdering = 0 /\ nextSeq = 0 /\ strategy = 0 /\ born = 0

NoMemory ==
  /\ fb = 0 /\ epoch = 0 /\ initial = 0 /\ zeroBased = 0 /\ dup = 0 /\ handles = 0
  /\ byHandle = 0 /\ addresses = 0 /\ pending = 0 /\ issued = 0 /\ mixed = 0 /\ index = 0

NoQuery ==
  /\ queryFb = 0 /\ queryEpoch = 0 /\ form = 0 /\ phase = 0 /\ level = 0 /\ targetIndex = 0
  /\ targetEpoch = 0 /\ after = 0 /\ current = 0 /\ retained = 0 /\ selected = 0
  /\ found = 0 /\ budget = 0 /\ log = 0 /\ stable = 0 /\ seen = 0 /\ exhausted = 0
  /\ twice = 0

NoNetwork ==
  /\ fact = 0 /\ live = 0 /\ installed = 0 /\ net = 0 /\ restores = 0

NoBlocks ==
  /\ neg = 0 /\ ncc = 0 /\ exi = 0 /\ blockPending = 0 /\ next = 0 /\ taken = 0
  /\ count = 0

NoSequence ==
  /\ ordered = 0 /\ segs = 0 /\ tests = 0

NoRegistries ==
  /\ e = 0 /\ changes = 0 /\ registriesRestores = 0

NoFile ==
  /\ source = 0 /\ file = 0 /\ intact = 0 /\ reader = 0 /\ answer = 0

Init ==
  /\ part \in Parts
  /\ IF part = "agenda" THEN AgendaInit ELSE NoAgenda
  /\ IF part \in {"handles", "addresses"} THEN SavedInit ELSE NoMemory
  /\ IF part = "query" THEN QueryInit ELSE NoQuery
  /\ IF part \in {"install", "network"} THEN SnapInit ELSE NoNetwork
  /\ IF part = "blocks" THEN BlockInit ELSE NoBlocks
  /\ IF part = "sequence" THEN SequenceInit ELSE NoSequence
  /\ IF part = "registries" THEN RegistriesInit ELSE NoRegistries
  /\ IF part = "file" THEN FileInit ELSE NoFile

vars == <<part, agendaVars, savedvars, queryVars, snapvars, blockVars, sequenceVars, registriesVars, fileVars>>

Next ==
  /\ UNCHANGED part
  /\ \/ part = "agenda" /\ AgendaNext
        /\ UNCHANGED <<savedvars, queryVars, snapvars, blockVars, sequenceVars, registriesVars, fileVars>>
     \/ part = "handles" /\ MemoryNext /\ HandlesOnly /\ UNCHANGED index
        /\ UNCHANGED <<agendaVars, queryVars, snapvars, blockVars, sequenceVars, registriesVars, fileVars>>
     \/ part = "addresses" /\ SavedNext /\ AddressesOnly
        /\ UNCHANGED <<agendaVars, queryVars, snapvars, blockVars, sequenceVars, registriesVars, fileVars>>
     \/ part = "query" /\ QueryNext /\ FewFacts
        /\ UNCHANGED <<agendaVars, savedvars, snapvars, blockVars, sequenceVars, registriesVars, fileVars>>
     \/ part = "install" /\ NetworkNext /\ OneKeyOfQ /\ UNCHANGED restores
        /\ UNCHANGED <<agendaVars, savedvars, queryVars, blockVars, sequenceVars, registriesVars, fileVars>>
     \/ part = "network" /\ SnapNext /\ SmallMemory
        /\ UNCHANGED <<agendaVars, savedvars, queryVars, blockVars, sequenceVars, registriesVars, fileVars>>
     \/ part = "blocks" /\ BlockNext
        /\ UNCHANGED <<agendaVars, savedvars, queryVars, snapvars, sequenceVars, registriesVars, fileVars>>
     \/ part = "sequence" /\ SequenceNext /\ ShortTested
        /\ UNCHANGED <<agendaVars, savedvars, queryVars, snapvars, blockVars, registriesVars, fileVars>>
     \/ part = "registries" /\ RegistriesNext
        /\ UNCHANGED <<agendaVars, savedvars, queryVars, snapvars, blockVars, sequenceVars, fileVars>>
     \/ part = "file" /\ FileNext
        /\ UNCHANGED <<agendaVars, savedvars, queryVars, snapvars, blockVars, sequenceVars, registriesVars>>

Spec == Init /\ [][Next]_vars

-----------------------------------------------------------------------------
(* Properties. *)

\* The agenda's four indexes agree after any sequence of additions, removals and
\* changes of strategy, every reader takes the best activation in the order of
\* the conflict-resolution strategy, and an activation keeps its age.
AgendaOrdered ==
  /\ [](part = "agenda" => IndexesAgree /\ InConflictOrder /\ FocusTakesBest)
  /\ [][(part = "agenda" => ChronologySurvives)]_vars

\* The indexes of the fact base describe the live facts although slots and
\* timestamps are given out again; no handle and no address, however old, names
\* another fact than the one it was made for; indexes are unique and stay;
\* nobody removes the initial fact, and a modify that fails loses nothing. A
\* query over facts that its own body changes visits every tuple of facts that
\* live throughout, none twice, and shows each as it was asserted.
FactsDesignated ==
  /\ [](part \in {"handles", "addresses"} =>
          /\ IndexesExact /\ NoTwins /\ HandlesNameTheirFact /\ HandlesLive
          /\ AddressesNameTheirFact /\ IndexesUnique /\ InitialProtected)
  /\ [](part = "query" => ChronologyExact /\ MembersTrue /\ NoTupleTwice /\ NothingSkipped)
  /\ [][(part \in {"handles", "addresses"} => IndexStable /\ ModifyLosesNothing)]_vars

\* Every engine can be saved, what was saved is restored as it was, and a file
\* that was altered, forged or too large is refused for its own reason: working
\* memory, the registries of constructs and the file around them.
SnapshotsFaithful ==
  /\ [](part = "addresses" => SavedRestorable /\ AcceptedTruthful)
  /\ [](part = "registries" =>
          AlwaysSavable /\ RulesListed /\ TerminalsExecutable /\ DerivedExact)
  /\ [](part = "file" =>
          /\ WrittenReadable /\ ChangeNoticed /\ NumbersKept /\ HostObjectsStay
          /\ HonestPays /\ WorkBounded)
  /\ [][(part = "registries" => OthersKept)]_vars
  /\ [][(part = "file" => LimitsNamed)]_vars

\* Rules that are installed into and removed from a network with facts in it, in
\* any order, leave in every table what the rules and facts that remain mean, and
\* a removal changes nothing of the other rules. A network that is saved is
\* accepted, and what is accepted after any single damage to a derived table
\* matches as the rules say, then and afterwards.
NetworkExact ==
  /\ [](part = "install" =>
          /\ AgendaExact /\ AlphaExact /\ ReverseExact /\ BetaExact /\ RanksOrdered
          /\ CachesTrue /\ BetaConsistent /\ NothingLeft)
  /\ [](part = "network" => SavedAccepted /\ MatchesExact /\ ActivationsSound /\ RestoredExact)
  /\ [][(part = "install" => RemovalLocal)]_vars

\* The blockers of negations, existences and NCCs keep the order in which they
\* came, also across the renumbering of exhausted counters, and each table
\* agrees with its inverse; a pattern over multifields matches exactly the
\* splits that its fields allow.
OrdersAndSplitsExact ==
  /\ [](part = "blocks" => OrdersTrue /\ Complementary /\ TablesConsistent)
  /\ [](part = "sequence" => SequenceMatchesExact /\ LengthsIdentify /\ IndexedPlaceFixed)
  /\ [][(part = "blocks" => PlaceKept)]_vars
=============================================================================
