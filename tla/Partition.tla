------------------------------ MODULE Partition ------------------------------
(***************************************************************************)
(* What collection/unionfind promises: "a collection of n elements.          *)
(* Initially, each element belongs to exactly one set"; a union merges the   *)
(* sets of two elements, and the count is that of the sets.                  *)
(***************************************************************************)
EXTENDS FiniteSets, Naturals

CONSTANT Elements

VARIABLES classes, count

vars == <<classes, count>>

Init ==
    /\ classes = {{e} : e \in Elements}
    /\ count = Cardinality(Elements)

Merge(c, d) ==
    /\ c # d
    /\ classes' = (classes \ {c, d}) \union {c \union d}
    /\ count' = count - 1

Next == \E c, d \in classes : Merge(c, d)

Spec == Init /\ [][Next]_vars
==============================================================================
