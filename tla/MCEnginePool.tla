---------------------------- MODULE MCEnginePool ----------------------------
(* Instances of EnginePool for TLC.                                         *)
EXTENDS EnginePool

CONSTANTS d1, d2,  \* do() calls
          e1, e2,  \* evaluate() calls
          c1, c2,  \* close() calls
          n1,      \* an evaluate() that the callback of d1 makes and awaits
          n2       \* a close() that the callback of d1 makes and awaits

MCKind == [t \in Tasks |-> IF t \in {d1, d2} THEN "do"
                           ELSE IF t \in {c1, c2, n2} THEN "close" ELSE "evaluate"]
MCParent == [t \in Tasks |-> IF t \in {n1, n2} THEN d1 ELSE None]

Slot0 == {0}
BothSlots == {0, 1}
UnsendableMix == {<<e2, 0>>, <<d1, 1>>} \cap Requests
=============================================================================
