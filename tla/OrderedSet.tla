----------------------------- MODULE OrderedSet -----------------------------
(***************************************************************************)
(* collection/sets: OrderedSet keeps one item per hash in the order in which *)
(* the hashes were first added.  Every search is deduplicated with it; what  *)
(* AsSlice returns is compared with the closed form the searches use.        *)
(***************************************************************************)
EXTENDS ResultLists

CONSTANTS
    Items,    \* values of type V
    Hash,     \* Hash[x]: s.h(x)
    MaxOps    \* bound: items added or deleted in a behaviour

ASSUME HashAssumption == DOMAIN Hash = Items
ASSUME MaxOpsAssumption == MaxOps \in Nat

VARIABLES
    m,      \* the values of s.m, front first
    ops     \* the items added and deleted so far

set == <<m, ops>>

SetInit ==
    /\ m = <<>>
    /\ ops = <<>>

At(x) == {i \in DOMAIN m : Hash[m[i]] = Hash[x]}

Record(op, x) ==
    /\ Len(ops) < MaxOps
    /\ ops' = Append(ops, [op |-> op, item |-> x])

\* Mutated form: an item that is there already keeps its old value.
AddOnce(x) ==
    /\ Record("add", x)
    /\ m' = IF At(x) = {} THEN Append(m, x) ELSE m

\* Set(h(x), x): a hash that is there keeps its place and takes the value.
Add(x) ==
    /\ Record("add", x)
    /\ m' = IF At(x) = {} THEN Append(m, x)
                          ELSE [i \in DOMAIN m |-> IF i \in At(x) THEN x ELSE m[i]]

\* Delete(h(x)).
Del(x) ==
    /\ Record("del", x)
    /\ m' = Pick(m, DOMAIN m \ At(x))

SetNext == \E x \in Items : Add(x) \/ Del(x)

SetSpec == SetInit /\ [][SetNext]_set

-----------------------------------------------------------------------------
\* Items added and not deleted since, in the order they were added in.
Added ==
    LET live == {i \in DOMAIN ops :
                    /\ ops[i].op = "add"
                    /\ \A j \in i + 1..Len(ops) :
                          ops[j].op = "del" => Hash[ops[j].item] # Hash[ops[i].item]}
        kept == Pick(ops, live)
    IN  [i \in DOMAIN kept |-> kept[i].item]

\* After any history of Add and Del, AsSlice has one item per hash: where the
\* hash was first added, and with the value that was added last.
AsSliceIsClosedForm == m = AsSlice(Hash, Added)
=============================================================================
