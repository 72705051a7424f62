---------------------------- MODULE WeightedSlice ----------------------------
(***************************************************************************)
(* collection/slices: WeightedSlice keeps objects and their weights in two   *)
(* slices and hands itself to sort.Stable, which only calls Less and Swap.   *)
(* sort.Stable is modelled by what its documentation promises: it exchanges  *)
(* items at whatever positions it likes, near or distant, and ends with no    *)
(* item before one that is less and with equal items in their first order.    *)
(***************************************************************************)
EXTENDS ResultLists

CONSTANTS
    Weights,    \* the weights items may have
    MaxLen      \* bound: objects appended in a behaviour

ASSUME WeightsAssumption == Weights \subseteq Nat
ASSUME MaxLenAssumption == MaxLen \in Nat

VARIABLES
    objects,    \* s.objects; an object is the number of its Append
    weights,    \* s.weights
    given,      \* the weight every object was appended with
    place,      \* during the sort: where the item at a position was before it
    stage       \* append, sort, done

slice == <<objects, weights, given, place, stage>>

SliceInit ==
    /\ objects = <<>>
    /\ weights = <<>>
    /\ given = <<>>
    /\ place = <<>>
    /\ stage = "append"

\* Append(object, weight)
AppendItem(w) ==
    /\ stage = "append"
    /\ Len(given) < MaxLen
    /\ weights' = Append(weights, w)
    /\ objects' = Append(objects, Len(given) + 1)
    /\ given' = Append(given, w)
    /\ UNCHANGED <<place, stage>>

\* SortFunc(sort.Stable)
Sort ==
    /\ stage = "append"
    /\ stage' = "sort"
    /\ place' = [i \in DOMAIN objects |-> i]
    /\ UNCHANGED <<objects, weights, given>>

\* Mutated form: the lighter item first.
Lighter(i, j) == weights[i] < weights[j]

\* A heavier item comes first.
Less(i, j) == weights[i] > weights[j]

Exchanged(s, i, j) == [s EXCEPT ![i] = s[j], ![j] = s[i]]

\* Mutated form: the weights stay where they are.
SwapObjects(i, j) ==
    /\ objects' = Exchanged(objects, i, j)
    /\ UNCHANGED weights

Swap(i, j) ==
    /\ weights' = Exchanged(weights, i, j)
    /\ objects' = Exchanged(objects, i, j)

\* sort.Stable calls Swap, and knows where the items were by its own calls.
Exchange ==
    /\ stage = "sort"
    /\ \E i, j \in DOMAIN place :
          /\ i # j
          /\ Swap(i, j)
          /\ place' = Exchanged(place, i, j)
    /\ UNCHANGED <<given, stage>>

\* What sort.Stable promises of the slice it leaves.
Sorted ==
    \A i, j \in DOMAIN place : i < j =>
        /\ ~ Less(j, i)
        /\ ~ Less(i, j) => place[i] < place[j]

EndSort ==
    /\ stage = "sort"
    /\ Sorted
    /\ stage' = "done"
    /\ UNCHANGED <<objects, weights, given, place>>

SliceNext ==
    \/ \E w \in Weights : AppendItem(w)
    \/ Sort \/ Exchange \/ EndSort

SliceSpec == SliceInit /\ [][SliceNext]_slice

-----------------------------------------------------------------------------
\* The two slices never come apart: also in the middle of the sort, every
\* object stands beside the weight it was appended with.
Paired ==
    /\ Len(objects) = Len(weights)
    /\ \A i \in DOMAIN objects : weights[i] = given[objects[i]]

\* The sort ends with the list the searches take it to compute, whatever
\* exchanges a stable sort makes.
SliceIsClosedForm ==
    stage = "done" =>
        objects = SortedStable(given, [k \in DOMAIN given |-> k])
=============================================================================
