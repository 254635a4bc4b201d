--------------------------- MODULE MCReteNetwork ---------------------------
(***************************************************************************)
(* Model values for ReteNetwork: facts of three relations A, B and C with  *)
(* one field, and the compiled networks of small rules that between them   *)
(* have every kind of node, nested and shared NCC subnetworks, and tests   *)
(* before, inside and after an NCC.  Nodes are listed in the order in      *)
(* which the compiler creates them.                        *)
(***************************************************************************)
EXTENDS ReteNetwork

CONSTANTS a1, a2, b1, b2, c1

\* the relations, and the value of the field
ClassA == {a1, a2}
ClassB == {b1, b2}
ClassC == {c1}

Value(f) == IF f \in {a1, b1, c1} THEN 1 ELSE 2

\* nodes
N(kind, parent) ==
  [kind |-> kind, parent |-> parent, alpha |-> {}, test |-> "any",
   ncc |-> 0, partner |-> 0, nested |-> FALSE]
P(kind, parent, alpha, test) ==
  [N(kind, parent) EXCEPT !.alpha = alpha, !.test = test]
Ncc(parent, partner, nested) ==
  [N("ncc", parent) EXCEPT !.partner = partner, !.nested = nested]
Partner(parent, ncc) == [N("partner", parent) EXCEPT !.ncc = ncc]

\* join tests: none, equal to the first fact of the path, value 1
MCPasses(n, path, f) ==
  CASE n.test = "any" -> TRUE
    [] n.test = "same" -> path # <<>> /\ Value(path[1]) = Value(f)
    [] n.test = "one" -> path # <<>> /\ Value(path[Len(path)]) = 1

\* A, C(same), not B ; A, exists B ; A, not B(same)
Plain == << P("join", 0, ClassA, "any"), P("join", 1, ClassC, "same"),
            P("negative", 2, ClassB, "any"), N("terminal", 3),
            P("exists", 1, ClassB, "any"), N("terminal", 5),
            P("negative", 1, ClassB, "same"), N("terminal", 7) >>

\* A, not (and B C)
Conj == << P("join", 0, ClassA, "any"),
           Ncc(1, 5, FALSE), P("join", 1, ClassB, "same"), P("join", 3, ClassC, "same"),
           Partner(4, 2), N("terminal", 2) >>


\* A, not (and B (not (and C)))
Nested == << P("join", 0, ClassA, "any"), Ncc(1, 7, FALSE), P("join", 1, ClassB, "same"),
             Ncc(3, 6, TRUE), P("join", 3, ClassC, "same"), Partner(5, 4), Partner(4, 2),
             N("terminal", 2) >>
\* A, exists (and B C)
Double == << P("join", 0, ClassA, "any"), Ncc(1, 7, FALSE), Ncc(1, 6, TRUE),
             P("join", 1, ClassB, "any"), P("join", 4, ClassC, "same"), Partner(5, 3),
             Partner(3, 2), N("terminal", 2) >>
\* A, B ; A, exists (and B C) with a shared entry
Shared == << P("join", 0, ClassA, "any"), P("join", 1, ClassB, "any"), N("terminal", 2),
             Ncc(1, 8, FALSE), Ncc(1, 7, TRUE), P("join", 2, ClassC, "same"), Partner(6, 5),
             Partner(5, 4), N("terminal", 4) >>
\* A, not (and (not (and B C)) C)
After == << P("join", 0, ClassA, "any"), Ncc(1, 8, FALSE), Ncc(1, 6, TRUE),
            P("join", 1, ClassB, "any"), P("join", 4, ClassC, "same"), Partner(5, 3),
            P("join", 3, ClassC, "any"), Partner(7, 2), N("terminal", 2) >>
\* A, B ; A, not (and (not (and B C)) C)   shared entry
SharedAfter == << P("join", 0, ClassA, "any"), P("join", 1, ClassB, "any"), N("terminal", 2),
            Ncc(1, 9, FALSE), Ncc(1, 7, TRUE),
            P("join", 2, ClassC, "same"), Partner(6, 5),
            P("join", 5, ClassC, "any"), Partner(8, 4), N("terminal", 4) >>
\* A, not (and B (not C))
NegIn == << P("join", 0, ClassA, "any"), Ncc(1, 5, FALSE), P("join", 1, ClassB, "same"),
            P("negative", 3, ClassC, "same"), Partner(4, 2), N("terminal", 2) >>
\* A, not (and B (test)), (test)
PredIn == << P("join", 0, ClassA, "any"), Ncc(1, 5, FALSE), P("join", 1, ClassB, "any"),
            P("predicate", 3, {}, "one"), Partner(4, 2),
            P("predicate", 2, {}, "one"), N("terminal", 6) >>
\* (test) before the NCC: A, (test), not (and B (test)), exists C
PredBefore == << P("join", 0, ClassA, "any"), P("predicate", 1, {}, "any"),
            Ncc(2, 6, FALSE), P("join", 2, ClassB, "any"),
            P("predicate", 4, {}, "one"), Partner(5, 3),
            P("exists", 3, ClassC, "same"), N("terminal", 7) >>
\* not (and A B), exists C
RootNcc == << Ncc(0, 4, FALSE), P("join", 0, ClassA, "any"), P("join", 2, ClassB, "same"),
              Partner(3, 1), P("exists", 1, ClassC, "any"), N("terminal", 5) >>
\* two NCCs on the same subnetwork
TwoNcc == << P("join", 0, ClassA, "any"), Ncc(1, 5, FALSE), P("join", 1, ClassB, "any"),
            P("join", 3, ClassC, "same"), Partner(4, 2), N("terminal", 2),
            Ncc(1, 8, FALSE), Partner(4, 7), P("join", 7, ClassB, "any"), N("terminal", 9) >>
\* A, B, C ; A, C ; not (and A (not (and B C))) with shared entries
Entry == << P("join", 0, ClassA, "any"), P("join", 1, ClassB, "any"),
            P("join", 2, ClassC, "any"), N("terminal", 3),
            P("join", 1, ClassC, "same"), N("terminal", 5),
            Ncc(0, 10, FALSE), Ncc(1, 9, TRUE), Partner(3, 8), Partner(8, 7),
            N("terminal", 7) >>
\* overlapping: A, not (and A C), not (C or A)
Overlap == << P("join", 0, ClassA, "any"), Ncc(1, 5, FALSE), P("join", 1, ClassA \cup ClassB, "any"),
            P("negative", 3, ClassA, "same"), Partner(4, 2), P("negative", 2, ClassB, "same"),
            P("exists", 6, ClassA \cup ClassB \cup ClassC, "same"), N("terminal", 7) >>

MCNetworks ==
  {Compiled(nodes) : nodes \in {Plain, Conj, Nested, Double, Shared, NegIn, PredIn, PredBefore,
                                RootNcc, TwoNcc, Overlap, Entry, After, SharedAfter}}

-----------------------------------------------------------------------------
\* The agenda holds exactly the matches of the rules, each once, and a match that
\* survives an assertion or a retraction keeps its token, so that the rule does
\* not fire again for the same facts. The two networks that are left out have a
\* condition behind a nested NCC, which is entered before the NCC has settled.
ActivationsExact ==
  /\ AgendaExact
  /\ net \notin {Compiled(After), Compiled(SharedAfter)} => NoRefire

\* After every operation the tables of blockers, supports and NCC results say
\* what the facts say, each agrees with its inverse, and nothing is left in the
\* batch of NCC results.
TablesSettled == TablesExact /\ Consistent /\ BatchSettles
=============================================================================
