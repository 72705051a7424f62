----------------------------- MODULE UnionFind -----------------------------
(***************************************************************************)
(* collection/unionfind: quick find, quick union and weighted quick union,   *)
(* side by side under the same calls of Union.  Elements are 0..N-1; a call  *)
(* may name numbers that are none.                                           *)
(***************************************************************************)
EXTENDS Integers

CONSTANT N    \* number of elements

ASSUME NAssumption == N \in Nat

VARIABLES
    id,              \* quickFind.id
    link,            \* quickUnion.root
    root, size,      \* weightedQuickUnion.root and size
    counts           \* the counts of the three

forest == <<id, link, root, size, counts>>

Elements == 0..N - 1

ForestInit ==
    /\ id = [i \in Elements |-> i]
    /\ link = [i \in Elements |-> i]
    /\ root = [i \in Elements |-> i]
    /\ size = [i \in Elements |-> 1]
    /\ counts = [find |-> N, union |-> N, weighted |-> N]

\* for p != u.root[p] { p = u.root[p] }
Find(parent, p) ==
    LET Up[q \in Elements] == IF parent[q] = q THEN q ELSE Up[parent[q]]
    IN  Up[p]

\* Mutated form: p's component takes the number q instead of q's id.
RenamedToElement(p, q) == [i \in Elements |-> IF id[i] = id[p] THEN q ELSE id[i]]

\* Rename p's component to q's id.
Renamed(p, q) == [i \in Elements |-> IF id[i] = id[p] THEN id[q] ELSE id[i]]

\* Mutated form: p is linked instead of its root.
LinkedFrom(p, q) == [link EXCEPT ![p] = Find(link, q)]

Linked(p, q) == [link EXCEPT ![Find(link, p)] = Find(link, q)]

Attach(small, large) ==
    /\ root' = [root EXCEPT ![small] = large]
    /\ size' = [size EXCEPT ![large] = @ + size[small]]

\* make smaller root point to larger one; of equals, q's to p's.
Weighted(p, q) ==
    LET pr == Find(root, p)
        qr == Find(root, q)
    IN  IF size[pr] < size[qr] THEN Attach(pr, qr) ELSE Attach(qr, pr)

IsConnected(parent, p, q) ==
    p \in Elements /\ q \in Elements /\ Find(parent, p) = Find(parent, q)

Union(p, q) ==
    /\ p \in Elements /\ q \in Elements
    /\ IF id[p] = id[q] THEN id' = id ELSE id' = Renamed(p, q)
    /\ IF IsConnected(link, p, q) THEN link' = link ELSE link' = Linked(p, q)
    /\ IF IsConnected(root, p, q) THEN UNCHANGED <<root, size>> ELSE Weighted(p, q)
    /\ counts' = [find     |-> counts.find - (IF id[p] = id[q] THEN 0 ELSE 1),
                  union    |-> counts.union - (IF IsConnected(link, p, q) THEN 0 ELSE 1),
                  weighted |-> counts.weighted - (IF IsConnected(root, p, q) THEN 0 ELSE 1)]

ForestNext == \E p, q \in Elements : Union(p, q)

ForestSpec == ForestInit /\ [][ForestNext]_forest

-----------------------------------------------------------------------------
ClassesOf(parent) == {{p \in Elements : Find(parent, p) = Find(parent, r)} : r \in Elements}

\* quickFind's ids are not links: a class is what has one id.
ClassesById == {{p \in Elements : id[p] = id[r]} : r \in Elements}

QuickFind == INSTANCE Partition WITH classes <- ClassesById, count <- counts.find
QuickUnion == INSTANCE Partition WITH classes <- ClassesOf(link), count <- counts.union
WeightedQuickUnion == INSTANCE Partition WITH classes <- ClassesOf(root), count <- counts.weighted

\* Whatever sets are merged in whatever order, all three implementations keep
\* one partition: a union merges exactly the two sets of its elements, never
\* a part of one of them, and the count follows.
ImplementPartition == QuickFind!Spec /\ QuickUnion!Spec /\ WeightedQuickUnion!Spec
=============================================================================
