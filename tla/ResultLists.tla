---------------------------- MODULE ResultLists ----------------------------
(***************************************************************************)
(* What the two collections every search is post-processed with make of a    *)
(* list: sets.OrderedSet, an insertion-ordered set of items under a hash, and *)
(* slices.WeightedSlice sorted with sort.Stable.  Modules OrderedSet and      *)
(* WeightedSlice show that their methods compute these lists.                *)
(*                                                                          *)
(* An element of an ordered set stands at the place that the number of those *)
(* before it gives.  SequencesExt's SetToSortSeq and SelectSeq give the same  *)
(* lists; they are recursions and choices of permutations, of which nothing  *)
(* can be proved for lists of every length.                                  *)
(***************************************************************************)
EXTENDS Integers, Sequences, SequencesExt

\* The elements of I in the order of the pairs in before.
Ordered(I, before) ==
    [k \in 1..Cardinality(I) |->
        CHOOSE i \in I : Cardinality({j \in I : <<j, i>> \in before}) = k - 1]

Smaller(I) == {e \in I \X I : e[1] < e[2]}

\* The items of a list at the indices in I, in their order.
Pick(items, I) ==
    [k \in 1..Cardinality(I) |-> items[Ordered(I, Smaller(I))[k]]]

\* The items of a list that are in S.
Among(items, S) == Pick(items, {i \in DOMAIN items : items[i] \in S})

\* AsSlice after items were added one by one: a hash keeps the place of its
\* first item and has the value of its last.
AsSlice(hash, items) ==
    LET Same(i) == {j \in DOMAIN items : hash[items[j]] = hash[items[i]]}
        final == [i \in DOMAIN items |-> items[Max(Same(i))]]
    IN  Pick(final, {i \in DOMAIN items : i = Min(Same(i))})

\* The indices a stable sort puts before others.
Heavier(weight, items) ==
    {e \in (DOMAIN items) \X (DOMAIN items) :
        \/ weight[items[e[1]]] > weight[items[e[2]]]
        \/ weight[items[e[1]]] = weight[items[e[2]]] /\ e[1] < e[2]}

\* Slice after a stable sort: a heavier item comes first, items of one weight
\* stay in the order they were appended in.
SortedStable(weight, items) ==
    [k \in 1..Len(items) |-> items[Ordered(DOMAIN items, Heavier(weight, items))[k]]]
============================================================================
