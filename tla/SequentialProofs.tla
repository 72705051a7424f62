-------------------------- MODULE SequentialProofs --------------------------
(***************************************************************************)
(* The parts that run by themselves.  The three collections of package        *)
(* collection do what the searches take them to do, for lists, histories and  *)
(* forests of any size: a stable sort ends with the one list its order        *)
(* determines, whatever exchanges it makes; the ordered set is the closed     *)
(* form of module ResultLists after any history; each of the three            *)
(* union-finds is a partition.  And whatever providers a program imports, the *)
(* engine's maps lead every page to its provider and every spelling of a      *)
(* movie's id to its key, or with AVBase to one of its two.                   *)
(***************************************************************************)
EXTENDS WeightedSlice, OrderedSet, UnionFind, Registry, ListProofs, WellFoundedInduction

\* WeightedSlice.

Shape ==
    /\ objects \in Seq(Nat) /\ weights \in Seq(Nat) /\ given \in Seq(Nat)
    /\ Len(objects) = Len(given) /\ Len(weights) = Len(given)
    /\ \A i \in 1..Len(objects) : objects[i] \in 1..Len(given)

Beside == \A i \in 1..Len(objects) : weights[i] = given[objects[i]]

\* An object is numbered by its Append, so what sort.Stable knows of where the
\* items were is what the objects say.
Numbered ==
    /\ stage \in {"append", "sort", "done"}
    /\ stage = "append" => \A i \in 1..Len(objects) : objects[i] = i
    /\ stage # "append" => place = objects

\* Every object is there, and the sort ends as sort.Stable promises.
Complete == \A i \in 1..Len(given) : \E k \in 1..Len(objects) : objects[k] = i

Finished == stage = "done" => Sorted

SliceInv == Shape /\ Beside /\ Numbered /\ Complete /\ Finished

\* The slices are empty at first.
LEMMA SliceInvInit == SliceInit => SliceInv
BY DEF SliceInit, SliceInv, Shape, Beside, Numbered, Complete, Finished

\* An object is appended beside its weight and behind all others.
LEMMA AppendStep == ASSUME NEW w \in Weights PROVE SliceInv /\ AppendItem(w) => SliceInv'
<1> SUFFICES ASSUME SliceInv, AppendItem(w) PROVE SliceInv'
  OBVIOUS
<1> DEFINE n == Len(given) + 1
<1>1. w \in Nat
  BY WeightsAssumption
<1>2. /\ objects' \in Seq(Nat) /\ weights' \in Seq(Nat) /\ given' \in Seq(Nat)
      /\ Len(objects') = n /\ Len(weights') = n /\ Len(given') = n
      /\ Len(given) \in Nat
  BY <1>1 DEF SliceInv, Shape, AppendItem
<1>3. /\ objects'[n] = n /\ weights'[n] = w /\ given'[n] = w
      /\ \A i \in 1..Len(given) : /\ objects'[i] = objects[i]
                                  /\ weights'[i] = weights[i]
                                  /\ given'[i] = given[i]
  BY <1>1 DEF SliceInv, Shape, AppendItem
<1>4. \A i \in 1..Len(given) : objects[i] = i
  BY DEF SliceInv, Shape, Numbered, AppendItem
<1>5. \A i \in 1..n : i = n \/ i \in 1..Len(given)
  BY <1>2
<1>6. \A i \in 1..n : objects'[i] = i
  BY <1>3, <1>4, <1>5
<1>7. ASSUME NEW i \in 1..n PROVE weights'[i] = given'[i]
  <2>1. CASE i = n
    BY <2>1, <1>3
  <2>2. CASE i \in 1..Len(given)
    <3>1. weights[i] = given[i]
      BY <2>2, <1>4 DEF SliceInv, Shape, Beside
    <3> QED BY <2>2, <3>1, <1>3
  <2> QED BY <2>1, <2>2, <1>5
<1> HIDE DEF n
<1>8. stage = "append" /\ stage' = "append"
  BY DEF AppendItem
<1>9. Shape'
  BY <1>2, <1>6 DEF Shape
<1>10. Beside'
  BY <1>2, <1>6, <1>7 DEF Beside
<1>11. Numbered'
  BY <1>2, <1>6, <1>8 DEF Numbered
<1>12. Complete'
  BY <1>2, <1>6 DEF Complete
<1>13. Finished'
  BY <1>8 DEF Finished
<1> QED BY <1>9, <1>10, <1>11, <1>12, <1>13 DEF SliceInv

\* What Swap makes of either slice.
LEMMA ExchangedSeq ==
    ASSUME NEW s \in Seq(Nat), NEW i \in 1..Len(s), NEW j \in 1..Len(s), i # j
    PROVE  /\ Exchanged(s, i, j) \in Seq(Nat)
           /\ Len(Exchanged(s, i, j)) = Len(s)
           /\ Exchanged(s, i, j)[i] = s[j]
           /\ Exchanged(s, i, j)[j] = s[i]
           /\ \A k \in 1..Len(s) : k # i /\ k # j => Exchanged(s, i, j)[k] = s[k]
<1>1. s[i] \in Nat /\ s[j] \in Nat
  OBVIOUS
<1> QED BY <1>1 DEF Exchanged

\* Two items change places in both slices, and where they were goes along.
LEMMA ExchangeStep == SliceInv /\ Exchange => SliceInv'
<1> SUFFICES ASSUME SliceInv, Exchange PROVE SliceInv'
  OBVIOUS
<1> DEFINE L == Len(objects)
<1>1. PICK i \in 1..L, j \in 1..L :
         i # j /\ Swap(i, j) /\ place' = Exchanged(place, i, j)
  <2>1. place = objects /\ DOMAIN objects = 1..L
    BY DEF SliceInv, Numbered, Exchange, Shape
  <2> QED BY <2>1 DEF Exchange
<1> DEFINE p(k) == IF k = i THEN j ELSE IF k = j THEN i ELSE k
<1>2. /\ objects \in Seq(Nat) /\ weights \in Seq(Nat) /\ Len(weights) = L /\ L \in Nat
      /\ \A k \in 1..L : weights[k] = given[objects[k]] /\ objects[k] \in 1..Len(given)
  BY DEF SliceInv, Shape, Beside
<1>3. /\ objects' = Exchanged(objects, i, j)
      /\ weights' = Exchanged(weights, i, j)
      /\ given' = given /\ stage = "sort" /\ stage' = "sort"
  BY <1>1 DEF Swap, Exchange
<1>4. \A k \in 1..L : p(k) \in 1..L /\ p(p(k)) = k
  BY <1>1
<1> HIDE DEF L
<1>5. /\ objects' \in Seq(Nat) /\ Len(objects') = L
      /\ objects'[i] = objects[j] /\ objects'[j] = objects[i]
      /\ \A k \in 1..L : k # i /\ k # j => objects'[k] = objects[k]
  <2>1. objects \in Seq(Nat) /\ i \in 1..Len(objects) /\ j \in 1..Len(objects) /\ i # j
    BY <1>1, <1>2 DEF L
  <2>2. /\ Exchanged(objects, i, j) \in Seq(Nat)
        /\ Len(Exchanged(objects, i, j)) = Len(objects)
        /\ Exchanged(objects, i, j)[i] = objects[j] /\ Exchanged(objects, i, j)[j] = objects[i]
        /\ \A k \in 1..Len(objects) : k # i /\ k # j => Exchanged(objects, i, j)[k] = objects[k]
    BY <2>1, ExchangedSeq, Zenon
  <2> QED BY <1>3, <2>2 DEF L
<1>6. /\ weights' \in Seq(Nat) /\ Len(weights') = L
      /\ weights'[i] = weights[j] /\ weights'[j] = weights[i]
      /\ \A k \in 1..L : k # i /\ k # j => weights'[k] = weights[k]
  <2>1. weights \in Seq(Nat) /\ i \in 1..Len(weights) /\ j \in 1..Len(weights) /\ i # j
    BY <1>1, <1>2
  <2>2. /\ Exchanged(weights, i, j) \in Seq(Nat)
        /\ Len(Exchanged(weights, i, j)) = Len(weights)
        /\ Exchanged(weights, i, j)[i] = weights[j] /\ Exchanged(weights, i, j)[j] = weights[i]
        /\ \A k \in 1..Len(weights) : k # i /\ k # j => Exchanged(weights, i, j)[k] = weights[k]
    BY <2>1, ExchangedSeq, Zenon
  <2> QED BY <1>2, <1>3, <2>2
<1>7. \A k \in 1..L : objects'[k] = objects[p(k)] /\ weights'[k] = weights[p(k)]
  BY <1>1, <1>5, <1>6
<1> HIDE DEF p
<1>8. Shape'
  BY <1>2, <1>3, <1>4, <1>5, <1>6, <1>7 DEF SliceInv, Shape, L
<1>9. Beside'
  <2>1. ASSUME NEW k \in 1..L PROVE weights'[k] = given'[objects'[k]]
    <3>1. p(k) \in 1..L /\ weights'[k] = weights[p(k)] /\ objects'[k] = objects[p(k)]
      BY <1>4, <1>7
    <3> QED BY <1>2, <1>3, <3>1
  <2> QED BY <1>5, <2>1 DEF Beside
<1>10. Numbered'
  BY <1>1, <1>3 DEF SliceInv, Numbered
<1>11. Complete'
  <2>1. ASSUME NEW x \in 1..Len(given) PROVE \E k \in 1..L : objects'[k] = x
    <3>1. PICK k \in 1..L : objects[k] = x
      BY DEF SliceInv, Complete, L
    <3> QED BY <1>4, <1>7, <3>1
  <2> QED BY <1>3, <1>5, <2>1 DEF Complete
<1>12. Finished'
  BY <1>3 DEF Finished
<1> QED BY <1>8, <1>9, <1>10, <1>11, <1>12 DEF SliceInv

\* When the sort begins, the items are where they were appended.
LEMMA SortStep == SliceInv /\ Sort => SliceInv'
<1> SUFFICES ASSUME SliceInv, Sort PROVE SliceInv'
  OBVIOUS
<1>1. /\ UNCHANGED <<objects, weights, given>>
      /\ stage = "append" /\ stage' = "sort"
      /\ place' = [i \in DOMAIN objects |-> i]
  BY DEF Sort
<1>2. Shape' /\ Beside' /\ Complete' /\ Finished'
  BY <1>1 DEF SliceInv, Shape, Beside, Complete, Finished
<1>3. objects = [i \in DOMAIN objects |-> i]
  <2>1. DOMAIN objects = 1..Len(objects) /\ objects = [i \in DOMAIN objects |-> objects[i]]
    BY DEF SliceInv, Shape
  <2>2. \A i \in DOMAIN objects : objects[i] = i
    BY <1>1, <2>1 DEF SliceInv, Numbered
  <2> QED BY <2>1, <2>2
<1>4. Numbered'
  BY <1>1, <1>3 DEF Numbered
<1> QED BY <1>2, <1>4 DEF SliceInv

\* The invariant is inductive.
LEMMA SliceInvStep == SliceInv /\ [SliceNext]_slice => SliceInv'
<1> SUFFICES ASSUME SliceInv, [SliceNext]_slice PROVE SliceInv'
  OBVIOUS
<1>1. CASE EndSort \/ UNCHANGED slice
  <2>1. UNCHANGED <<objects, weights, given, place>>
    BY <1>1 DEF EndSort, slice
  <2>2. Shape' /\ Beside' /\ Complete'
    BY <2>1 DEF SliceInv, Shape, Beside, Complete
  <2>3. \/ stage = "sort" /\ stage' = "done" /\ Sorted
        \/ stage' = stage
    BY <1>1 DEF EndSort, slice
  <2>4. Sorted' <=> Sorted
    BY <2>1 DEF Sorted, Less
  <2>5. Numbered' /\ Finished'
    BY <2>1, <2>3, <2>4 DEF SliceInv, Numbered, Finished
  <2> QED BY <2>2, <2>5 DEF SliceInv
<1> QED BY <1>1, AppendStep, SortStep, ExchangeStep DEF SliceNext

\* The inductive invariant holds in every reachable state.
LEMMA SliceInvariant == SliceSpec => []SliceInv
BY SliceInvInit, SliceInvStep, PTL DEF SliceSpec

-----------------------------------------------------------------------------
\* Every object keeps the weight it was appended with, also during the sort.
THEOREM WeightsFollow == SliceSpec => []Paired
<1>1. SliceInv => Paired
  BY DEF SliceInv, Shape, Beside, Paired
<1> QED BY <1>1, SliceInvariant, PTL

\* Whatever items sort.Stable exchanges, near or distant and as often as it
\* likes: if it ends as its documentation promises, what it ends with is the list
\* the searches take it to compute, of any length (slices/wslice.go:45-47).
THEOREM SortIsClosedForm == SliceSpec => []SliceIsClosedForm
<1>1. SliceInv => SliceIsClosedForm
  <2> SUFFICES ASSUME SliceInv, stage = "done"
               PROVE  objects = SortedStable(given, [k \in DOMAIN given |-> k])
    BY DEF SliceIsClosedForm
  <2> DEFINE n == Len(given)
             T == 1..n
             s == [k \in DOMAIN given |-> k]
             before == Heavier(given, s)
  <2>1. /\ n \in Nat /\ DOMAIN given = 1..n /\ \A k \in 1..n : given[k] \in Nat
        /\ Len(objects) = n /\ Len(weights) = n
        /\ \A k \in 1..n : weights[k] \in Nat
        /\ objects \in Seq(Nat) /\ \A k \in 1..n : objects[k] \in 1..n
    <3>1. /\ objects \in Seq(Nat) /\ weights \in Seq(Nat) /\ given \in Seq(Nat)
          /\ Len(objects) = n /\ Len(weights) = n
          /\ \A k \in 1..n : objects[k] \in 1..n
      BY DEF SliceInv, Shape
    <3>2. n \in Nat /\ DOMAIN given = 1..n
      BY <3>1
    <3>3. \A k \in 1..n : given[k] \in Nat
      BY <3>1
    <3>4. \A k \in 1..n : weights[k] \in Nat
      <4> HIDE DEF n
      <4> QED BY <3>1
    <3> QED BY <3>1, <3>2, <3>3, <3>4
  <2>2. s \in Seq(T) /\ Len(s) = n /\ DOMAIN s = 1..n /\ \A k \in 1..n : s[k] = k
    BY <2>1
  <2> HIDE DEF s
  <2>3. StrictOrder(1..n, before)
    <3>1. \A x \in T : given[x] \in Int
      BY <2>1
    <3> HIDE DEF T
    <3>2. StrictOrder(1..Len(s), Heavier(given, s))
      BY <2>2, <3>1, SortOrderLists
    <3> QED BY <2>2, <3>2
  <2>4. objects \in [1..n -> 1..n]
    BY <2>1
  <2>5. \A i \in 1..n : \E k \in 1..n : objects[k] = i
    BY <2>1 DEF SliceInv, Complete
  <2>6. \A k, l \in 1..n : k < l =>
           ~ (weights[l] > weights[k])
           /\ (~ (weights[k] > weights[l]) => objects[k] < objects[l])
    <3>1. place = objects /\ DOMAIN objects = 1..n /\ Sorted
      BY <2>1 DEF SliceInv, Numbered, Finished
    <3> HIDE DEF n
    <3> QED BY <3>1 DEF Sorted, Less
  <2>7. ASSUME NEW k \in 1..n, NEW l \in 1..n, k < l
        PROVE  <<objects[k], objects[l]>> \in before
    <3>1. ~ (weights[l] > weights[k]) /\ (~ (weights[k] > weights[l]) => objects[k] < objects[l])
      BY <2>6, <2>7
    <3>2. weights[k] >= weights[l] /\ weights[k] \in Nat /\ weights[l] \in Nat
      <4>1. weights[k] \in Nat /\ weights[l] \in Nat
        <5> HIDE DEF n, before
        <5> QED BY <2>1, <2>7
      <4> QED BY <3>1, <4>1
    <3>3. objects[k] \in 1..n /\ objects[l] \in 1..n
      BY <2>1
    <3>4. weights[k] = given[objects[k]] /\ weights[l] = given[objects[l]]
      BY <2>1 DEF SliceInv, Beside
    <3>5. weights[k] = weights[l] => objects[k] < objects[l]
      BY <3>1, <3>2
    <3>6. \/ given[objects[k]] > given[objects[l]]
          \/ given[objects[k]] = given[objects[l]] /\ objects[k] < objects[l]
      BY <3>2, <3>4, <3>5
    <3>7. s[objects[k]] = objects[k] /\ s[objects[l]] = objects[l]
      BY <2>2, <3>3
    <3> QED BY <2>2, <3>3, <3>6, <3>7 DEF Heavier
  <2> HIDE DEF before, n
  <2>8. objects = Ordered(1..n, before)
    <3>1. \A k, l \in 1..n : k < l => <<objects[k], objects[l]>> \in before
      BY <2>7
    <3> DEFINE I == 1..n
    <3>2. StrictOrder(I, before) /\ n \in Nat /\ objects \in [1..n -> I]
      BY <2>1, <2>3, <2>4
    <3>3. \A i \in I : \E k \in 1..n : objects[k] = i
      BY <2>5
    <3> HIDE DEF I
    <3>4. objects = Ordered(I, before)
      BY <3>1, <3>2, <3>3, OrderedUnique
    <3> QED BY <3>4 DEF I
  <2>9. SortedStable(given, s) = [k \in 1..n |-> s[Ordered(1..n, before)[k]]]
    BY <2>2 DEF SortedStable, before
  <2>10. SortedStable(given, s) = [k \in 1..n |-> objects[k]]
    BY <2>1, <2>2, <2>8, <2>9
  <2>11. objects = [k \in 1..n |-> objects[k]]
    BY <2>1
  <2> QED BY <2>10, <2>11 DEF s
<1> QED BY <1>1, SliceInvariant, PTL

-----------------------------------------------------------------------------
\* OrderedSet.

Operations == [op : {"add", "del"}, item : Items]

\* The items of a history, and the places of those not deleted since.
ItemsOf(h) == [i \in 1..Len(h) |-> h[i].item]

Live(h) ==
    {i \in 1..Len(h) :
        /\ h[i].op = "add"
        /\ \A j \in i + 1..Len(h) : h[j].op = "del" => Hash[h[j].item] # Hash[h[i].item]}

Remaining(h) == Pick(ItemsOf(h), Live(h))

\* The set is the slice of what remains of the history.
SetInv ==
    /\ ops \in Seq(Operations)
    /\ m = AsSlice(Hash, Remaining(ops))

\* The types of what a history is read as.
LEMMA ItemsSeq ==
    ASSUME NEW h \in Seq(Operations)
    PROVE  /\ ItemsOf(h) \in Seq(Items) /\ Len(ItemsOf(h)) = Len(h)
           /\ Live(h) \in SUBSET (1..Len(h))
           /\ Remaining(h) \in Seq(Items)
<1>1. \A i \in 1..Len(h) : h[i].item \in Items
  <2>1. \A i \in 1..Len(h) : h[i] \in Operations
    OBVIOUS
  <2> QED BY <2>1 DEF Operations
<1>2. ItemsOf(h) \in Seq(Items) /\ Len(ItemsOf(h)) = Len(h)
  BY <1>1 DEF ItemsOf
<1>3. Live(h) \in SUBSET (1..Len(h))
  BY DEF Live
<1> QED BY <1>2, <1>3, PickSeq DEF Remaining

\* What the invariant names is the list the property names.
LEMMA AddedIsRemaining == ASSUME ops \in Seq(Operations) PROVE Added = Remaining(ops)
<1> DEFINE I == Live(ops)
           kept == Pick(ops, I)
           q == Cardinality(I)
           at == Ascending(I)
<1>1. Added = [i \in DOMAIN kept |-> kept[i].item]
  <2>1. DOMAIN ops = 1..Len(ops)
    OBVIOUS
  <2> QED BY <2>1 DEF Added, Live
<1>2. ItemsOf(ops) \in Seq(Items) /\ Len(ItemsOf(ops)) = Len(ops) /\ I \in SUBSET (1..Len(ops))
  BY ItemsSeq
<1> HIDE DEF I
<1>3. kept \in Seq(Operations) /\ Len(kept) = q /\ q \in Nat
      /\ \A k \in 1..q : at[k] \in I /\ kept[k] = ops[at[k]]
  BY <1>2, PickSeq
<1>4. Pick(ItemsOf(ops), I) \in Seq(Items) /\ Len(Pick(ItemsOf(ops), I)) = q
      /\ \A k \in 1..q : Pick(ItemsOf(ops), I)[k] = ItemsOf(ops)[at[k]]
  BY <1>2, PickSeq
<1> HIDE DEF kept, q, at
<1>5. \A k \in 1..q : kept[k].item = ItemsOf(ops)[at[k]] /\ kept[k].item \in Items
  <2>1. \A k \in 1..q : kept[k] \in Operations
    BY <1>3
  <2> QED BY <1>2, <1>3, <2>1 DEF ItemsOf, Operations
<1>6. Added \in Seq(Items) /\ Len(Added) = q /\ \A k \in 1..q : Added[k] = kept[k].item
  <2>1. DOMAIN kept = 1..q
    BY <1>3
  <2> QED BY <1>1, <1>3, <1>5, <2>1
<1>7. Added = Pick(ItemsOf(ops), I)
  BY <1>4, <1>5, <1>6, SeqEqual
<1> QED BY <1>7 DEF Remaining, I

\* The item of one more operation comes last.
LEMMA ItemsAppend ==
    ASSUME NEW h \in Seq(Operations), NEW o \in Operations
    PROVE  ItemsOf(Append(h, o)) = Append(ItemsOf(h), o.item)
<1> DEFINE t == Append(h, o)
           u == Append(ItemsOf(h), o.item)
           n == Len(h)
<1>1. n \in Nat /\ t \in Seq(Operations) /\ Len(t) = n + 1 /\ t[n + 1] = o
      /\ \A i \in 1..n : t[i] = h[i]
  BY AppendProperties
<1>2. o.item \in Items /\ ItemsOf(h) \in Seq(Items) /\ Len(ItemsOf(h)) = n
      /\ \A i \in 1..n : ItemsOf(h)[i] = h[i].item
  BY ItemsSeq DEF Operations, ItemsOf
<1>3. u \in Seq(Items) /\ Len(u) = n + 1 /\ u[n + 1] = o.item /\ \A i \in 1..n : u[i] = h[i].item
  BY <1>2, AppendProperties
<1> HIDE DEF t, u, n
<1>4. ItemsOf(t) \in Seq(Items) /\ Len(ItemsOf(t)) = n + 1
      /\ \A i \in 1..(n + 1) : ItemsOf(t)[i] = t[i].item
  <2>1. ItemsOf(t) \in Seq(Items) /\ Len(ItemsOf(t)) = Len(t)
    BY <1>1, ItemsSeq
  <2> QED BY <1>1, <2>1 DEF ItemsOf
<1>5. \A i \in 1..(n + 1) : i = n + 1 \/ i \in 1..n
  BY <1>1
<1>6. \A i \in 1..(n + 1) : ItemsOf(t)[i] = u[i]
  BY <1>1, <1>3, <1>4, <1>5
<1>7. ItemsOf(t) = u
  BY <1>3, <1>4, <1>6, SeqEqual
<1> QED BY <1>7 DEF t, u

\* What the next operation leaves of the history.
LEMMA LiveAppend ==
    ASSUME NEW h \in Seq(Operations), NEW x \in Items
    PROVE  /\ Live(Append(h, [op |-> "add", item |-> x])) = Live(h) \union {Len(h) + 1}
           /\ Live(Append(h, [op |-> "del", item |-> x]))
                 = {i \in Live(h) : Hash[ItemsOf(h)[i]] # Hash[x]}
<1> DEFINE n == Len(h)
<1>1. n \in Nat
  OBVIOUS
<1>2. \A i \in 1..(n + 1) : i = n + 1 \/ i \in 1..n
  BY <1>1
<1>3. 1..n \subseteq 1..(n + 1) /\ n + 1 \in 1..(n + 1)
  BY <1>1
<1>4. ASSUME NEW i \in 1..n
      PROVE  /\ n + 1 \in i + 1..n + 1 /\ i + 1..n \subseteq i + 1..n + 1
             /\ \A j \in i + 1..n + 1 : j = n + 1 \/ j \in i + 1..n
  BY <1>1
<1>5. \A i \in 1..n : \A j \in i + 1..n : j \in 1..n
  BY <1>1
<1>6. ASSUME NEW o \in Operations
      PROVE  /\ Len(Append(h, o)) = n + 1 /\ Append(h, o)[n + 1] = o
             /\ \A i \in 1..n : Append(h, o)[i] = h[i]
             /\ Append(h, o) \in Seq(Operations)
  BY AppendProperties
<1>7. \A i \in 1..n : ItemsOf(h)[i] = h[i].item
  BY DEF ItemsOf
<1>8. \A i \in 1..n : i \in Live(h) <=>
          /\ h[i].op = "add"
          /\ \A j \in i + 1..n : h[j].op = "del" => Hash[h[j].item] # Hash[h[i].item]
  BY DEF Live
<1>9. Live(h) \in SUBSET (1..n)
  BY DEF Live
<1> HIDE DEF n
<1>10. ASSUME NEW o \in Operations, NEW i \in 1..n
       PROVE  i \in Live(Append(h, o)) <=>
                 i \in Live(h) /\ (o.op = "del" => Hash[o.item] # Hash[h[i].item])
  <2> DEFINE t == Append(h, o)
  <2>1. Len(t) = n + 1 /\ t[n + 1] = o /\ \A j \in 1..n : t[j] = h[j]
    BY <1>6
  <2>2. t \in Seq(Operations)
    BY <1>6
  <2> HIDE DEF t
  <2>3. i \in Live(t) <=>
          /\ t[i].op = "add"
          /\ \A j \in i + 1..n + 1 : t[j].op = "del" => Hash[t[j].item] # Hash[t[i].item]
    BY <1>3, <2>1 DEF Live
  <2>4. \A j \in i + 1..n : t[j] = h[j]
    BY <1>5, <2>1
  <2>5. i \in Live(t) => i \in Live(h) /\ (o.op = "del" => Hash[o.item] # Hash[h[i].item])
    BY <1>4, <1>8, <2>1, <2>3, <2>4
  <2>6. ASSUME i \in Live(h), o.op = "del" => Hash[o.item] # Hash[h[i].item] PROVE i \in Live(t)
    <3>1. ASSUME NEW j \in i + 1..n + 1, t[j].op = "del" PROVE Hash[t[j].item] # Hash[t[i].item]
      <4>1. CASE j = n + 1
        BY <2>1, <2>6, <3>1, <4>1
      <4>2. CASE j \in i + 1..n
        BY <1>8, <2>1, <2>4, <2>6, <3>1, <4>2
      <4> QED BY <1>4, <4>1, <4>2
    <3>2. t[i].op = "add"
      BY <1>8, <2>1, <2>6
    <3> QED BY <2>3, <3>1, <3>2
  <2> QED BY <2>5, <2>6 DEF t
<1>11. ASSUME NEW o \in Operations
       PROVE  /\ n + 1 \in Live(Append(h, o)) <=> o.op = "add"
              /\ Live(Append(h, o)) \in SUBSET (1..(n + 1))
  <2> DEFINE t == Append(h, o)
  <2>1. Len(t) = n + 1 /\ t[n + 1] = o
    BY <1>6
  <2> HIDE DEF t
  <2>2. \A j \in (n + 1) + 1..n + 1 : FALSE
    BY <1>1
  <2>3. n + 1 \in Live(t) <=> o.op = "add"
    BY <1>3, <2>1, <2>2 DEF Live
  <2>4. Live(t) \in SUBSET (1..(n + 1))
    BY <2>1 DEF Live
  <2> QED BY <2>3, <2>4 DEF t
<1>12. Live(Append(h, [op |-> "add", item |-> x])) = Live(h) \union {n + 1}
  <2> DEFINE o == [op |-> "add", item |-> x]
             L == Live(Append(h, o))
  <2>1. o \in Operations /\ o.op = "add"
    BY DEF Operations
  <2> HIDE DEF o
  <2>2. \A i \in 1..n : i \in L <=> i \in Live(h)
    BY <1>10, <2>1
  <2>3. n + 1 \in L /\ L \in SUBSET (1..(n + 1))
    BY <1>11, <2>1
  <2> HIDE DEF L
  <2>4. L = Live(h) \union {n + 1}
    BY <1>2, <1>9, <2>2, <2>3
  <2> QED BY <2>4 DEF L, o
<1>13. Live(Append(h, [op |-> "del", item |-> x])) = {i \in Live(h) : Hash[ItemsOf(h)[i]] # Hash[x]}
  <2> DEFINE o == [op |-> "del", item |-> x]
             L == Live(Append(h, o))
  <2>1. o \in Operations /\ o.op = "del" /\ o.item = x
    BY DEF Operations
  <2> HIDE DEF o
  <2>2. \A i \in 1..n : i \in L <=> i \in Live(h) /\ Hash[x] # Hash[ItemsOf(h)[i]]
    BY <1>7, <1>10, <2>1
  <2>3. n + 1 \notin L /\ L \in SUBSET (1..(n + 1))
    BY <1>11, <2>1
  <2> HIDE DEF L
  <2>4. L = {i \in Live(h) : Hash[ItemsOf(h)[i]] # Hash[x]}
    BY <1>2, <1>9, <2>2, <2>3
  <2> QED BY <2>4 DEF L, o
<1> QED BY <1>12, <1>13 DEF n

\* Of no history nothing remains.
LEMMA SetInvInit == SetInit => SetInv
<1> SUFFICES ASSUME SetInit PROVE SetInv
  OBVIOUS
<1>1. ops \in Seq(Operations) /\ ops = <<>> /\ m = <<>>
  BY DEF SetInit
<1>2. Remaining(ops) \in Seq(Items) /\ Len(Remaining(ops)) = 0
  <2>1. Live(ops) = {} /\ Cardinality({}) = 0
    BY <1>1, FS_EmptySet DEF Live
  <2>2. ItemsOf(ops) \in Seq(Items) /\ Live(ops) \in SUBSET (1..Len(ItemsOf(ops)))
    BY <1>1, ItemsSeq
  <2> QED BY <2>1, <2>2, PickSeq DEF Remaining
<1> DEFINE r == Remaining(ops)
<1> HIDE DEF r
<1>3. r \in Seq(Items) /\ Len(r) = 0
  BY <1>2 DEF r
<1>4. Firsts(Hash, r) = {} /\ Cardinality({}) = 0
  <2>1. DOMAIN r = {}
    BY <1>3
  <2> QED BY <2>1, FS_EmptySet DEF Firsts
<1>5. AsSlice(Hash, r) \in Seq(Items) /\ Len(AsSlice(Hash, r)) = 0
  <2>1. Latest(Hash, r) \in Seq(Items)
    BY <1>3, LatestSeq
  <2>2. {} \in SUBSET (1..Len(Latest(Hash, r)))
    OBVIOUS
  <2>3. Pick(Latest(Hash, r), {}) \in Seq(Items) /\ Len(Pick(Latest(Hash, r), {})) = 0
    BY <1>4, <2>1, <2>2, PickSeq
  <2> QED BY <1>4, <2>3, AsSliceParts
<1>6. AsSlice(Hash, r) = <<>>
  BY <1>5
<1> QED BY <1>1, <1>6 DEF SetInv, r

\* An item that is added is the last one that remains.
LEMMA AddStep == ASSUME NEW x \in Items PROVE SetInv /\ Add(x) => SetInv'
<1> SUFFICES ASSUME SetInv, Add(x) PROVE SetInv'
  OBVIOUS
<1> DEFINE o == [op |-> "add", item |-> x]
           r == Remaining(ops)
<1>1. ops \in Seq(Operations) /\ m = AsSlice(Hash, r) /\ ops' = Append(ops, o)
  BY DEF SetInv, Add, Record
<1>2. o \in Operations /\ o.item = x
  BY DEF Operations
<1>3. ItemsOf(ops) \in Seq(Items) /\ Live(ops) \in SUBSET (1..Len(ItemsOf(ops))) /\ r \in Seq(Items)
      /\ Len(ItemsOf(ops)) = Len(ops)
  BY <1>1, ItemsSeq
<1>4. Live(ops') = Live(ops) \union {Len(ItemsOf(ops)) + 1}
  BY <1>1, <1>3, LiveAppend
<1>5. ItemsOf(ops') = Append(ItemsOf(ops), x)
  BY <1>1, <1>2, ItemsAppend
<1>6. Remaining(ops') = Append(r, x)
  <2> DEFINE its == ItemsOf(ops)
             I == Live(ops)
  <2>1. its \in Seq(Items) /\ I \in SUBSET (1..Len(its)) /\ r = Pick(its, I)
    BY <1>3 DEF Remaining
  <2>2. Remaining(ops') = Pick(Append(its, x), I \union {Len(its) + 1})
    BY <1>4, <1>5 DEF Remaining
  <2> HIDE DEF its, I, r
  <2>3. Pick(Append(its, x), I \union {Len(its) + 1}) = Append(Pick(its, I), x)
    BY <2>1, PickAppend
  <2> QED BY <2>1, <2>2, <2>3
<1> HIDE DEF r, o
<1>7. AsSlice(Hash, Append(r, x)) =
          IF At(x) = {} THEN Append(m, x)
                        ELSE [i \in DOMAIN m |-> IF i \in At(x) THEN x ELSE m[i]]
  BY <1>1, <1>3, AsSliceAppend DEF At
<1>8. m' = AsSlice(Hash, Remaining(ops'))
  BY <1>6, <1>7 DEF Add
<1>9. ops' \in Seq(Operations)
  BY <1>1, <1>2
<1> QED BY <1>8, <1>9 DEF SetInv

\* A deletion takes every item of the hash out of what remains.
LEMMA DelStep == ASSUME NEW x \in Items PROVE SetInv /\ Del(x) => SetInv'
<1> SUFFICES ASSUME SetInv, Del(x) PROVE SetInv'
  OBVIOUS
<1> DEFINE o == [op |-> "del", item |-> x]
           r == Remaining(ops)
           its == ItemsOf(ops)
           I == Live(ops)
           at == Ascending(I)
           q == Cardinality(I)
           K == Others(Hash, r, Hash[x])
<1>1. ops \in Seq(Operations) /\ m = AsSlice(Hash, r) /\ ops' = Append(ops, o)
  BY DEF SetInv, Del, Record
<1>2. o \in Operations /\ o.item = x
  BY DEF Operations
<1>3. its \in Seq(Items) /\ I \in SUBSET (1..Len(its)) /\ r \in Seq(Items) /\ Len(its) = Len(ops)
  BY <1>1, ItemsSeq
<1>4. Live(ops') = {i \in I : Hash[its[i]] # Hash[x]}
  BY <1>1, LiveAppend
<1>5. ItemsOf(ops') = Append(its, x)
  BY <1>1, <1>2, ItemsAppend
<1>6. r = Pick(its, I)
  BY DEF Remaining
<1>7. Remaining(ops') = Pick(Append(its, x), Live(ops'))
  BY <1>5 DEF Remaining
<1> HIDE DEF r, o, its, I
<1>8. Len(r) = q /\ q \in Nat /\ \A k \in 1..q : at[k] \in I /\ r[k] = its[at[k]]
  BY <1>3, <1>6, PickSeq
<1>9. \A i \in I : \E k \in 1..q : at[k] = i
  <2>1. Len(its) \in Nat /\ I \in SUBSET (1..Len(its))
    BY <1>3
  <2> QED BY <2>1, AscendingLists DEF Walks
<1>9a. \A k \in 1..q : k \in K <=> Hash[its[at[k]]] # Hash[x]
  <2> HIDE DEF at, q
  <2> QED BY <1>8 DEF Others
<1>9b. K \in SUBSET (1..q)
  <2> HIDE DEF q
  <2> QED BY <1>8 DEF Others
<1> HIDE DEF K
<1>10. {at[k] : k \in K} = Live(ops')
  <2> HIDE DEF at, q
  <2>1. ASSUME NEW k \in K PROVE at[k] \in Live(ops')
    <3>1. k \in 1..q
      BY <1>9b
    <3>2. at[k] \in I /\ Hash[its[at[k]]] # Hash[x]
      BY <1>8, <1>9a, <3>1
    <3> QED BY <1>4, <3>2
  <2>2. ASSUME NEW i \in Live(ops') PROVE \E k \in K : at[k] = i
    <3>1. i \in I /\ Hash[its[i]] # Hash[x]
      BY <1>4
    <3>2. PICK k \in 1..q : at[k] = i
      BY <1>9, <3>1
    <3>3. k \in K
      BY <1>9a, <3>1, <3>2
    <3> QED BY <3>2, <3>3
  <2> QED BY <2>1, <2>2
<1>11. Remaining(ops') = Pick(r, K)
  <2>2. Pick(Pick(its, I), K) = Pick(its, {at[k] : k \in K})
    BY <1>3, <1>9b, PickPick
  <2>3. Live(ops') \in SUBSET (1..Len(its))
    BY <1>3, <1>4
  <2>4. Pick(Append(its, x), Live(ops')) = Pick(its, Live(ops'))
    <3> DEFINE J == Live(ops')
    <3> HIDE DEF J
    <3>1. its \in Seq(Items) /\ x \in Items /\ J \in SUBSET (1..Len(its))
      BY <1>3, <2>3 DEF J
    <3>2. Pick(Append(its, x), J) = Pick(its, J)
      BY <3>1, PickBefore
    <3> QED BY <3>2 DEF J
  <2> QED BY <1>6, <1>7, <1>10, <2>2, <2>4
<1>12. AsSlice(Hash, Pick(r, K)) = Pick(m, Others(Hash, m, Hash[x]))
  BY <1>1, <1>3, AsSliceAway DEF K
<1>13. DOMAIN m \ At(x) = Others(Hash, m, Hash[x])
  <2>1. m \in Seq(Items)
    BY <1>1, <1>3, AsSliceSeq
  <2>2. DOMAIN m = 1..Len(m)
    BY <2>1
  <2> QED BY <2>2 DEF At, Others
<1>14. m' = AsSlice(Hash, Remaining(ops'))
  BY <1>11, <1>12, <1>13 DEF Del
<1>15. ops' \in Seq(Operations)
  BY <1>1, <1>2
<1> QED BY <1>14, <1>15 DEF SetInv

\* After any history of Add and Del, AsSlice has one item per hash: where the
\* hash was first added since it was last deleted, and with its last value.
THEOREM SetClosedForm == SetSpec => []AsSliceIsClosedForm
<1>1. SetInit => SetInv
  BY SetInvInit
<1>2. SetInv /\ [SetNext]_set => SetInv'
  <2>1. ASSUME SetInv, UNCHANGED set PROVE SetInv'
    BY <2>1 DEF SetInv, set
  <2> QED BY AddStep, DelStep, <2>1 DEF SetNext
<1>3. SetInv => AsSliceIsClosedForm
  <2> SUFFICES ASSUME SetInv PROVE AsSliceIsClosedForm
    OBVIOUS
  <2>1. Added = Remaining(ops)
    BY AddedIsRemaining DEF SetInv
  <2> QED BY <2>1 DEF SetInv, AsSliceIsClosedForm
<1> QED BY <1>1, <1>2, <1>3, PTL DEF SetSpec

-----------------------------------------------------------------------------
\* UnionFind.

\* f gives every element its root: the parents lead there in fewer steps
\* from every parent.
Leads(parent, f, depth) ==
    /\ parent \in [Elements -> Elements]
    /\ f \in [Elements -> Elements]
    /\ depth \in [Elements -> Nat]
    /\ \A q \in Elements :
          /\ parent[f[q]] = f[q]
          /\ parent[q] = q => f[q] = q
          /\ parent[q] # q => f[q] = f[parent[q]] /\ depth[parent[q]] < depth[q]

Rooted(parent, f) == \E depth \in [Elements -> Nat] : Leads(parent, f, depth)

Downwards == {e \in Nat \X Nat : e[1] < e[2]}

\* A property of one element is one of an element of least depth.
LEMMA LeastDepth ==
    ASSUME NEW depth \in [Elements -> Nat], NEW Q \in SUBSET Elements, Q # {}
    PROVE  \E q \in Q : \A r \in Q : ~ (depth[r] < depth[q])
<1> DEFINE D == {depth[q] : q \in Q}
<1>1. IsWellFoundedOn(Downwards, Nat)
  BY NatLessThanWellFounded DEF OpToRel, Downwards
<1>2. D \subseteq Nat /\ D # {}
  OBVIOUS
<1>3. PICK d \in D : \A e \in D : ~ (<<e, d>> \in Downwards)
  <2> HIDE DEF D
  <2> QED BY <1>1, <1>2, WFMin
<1>4. PICK q \in Q : d = depth[q]
  BY <1>3
<1>5. ASSUME NEW r \in Q PROVE ~ (depth[r] < depth[q])
  <2>1. depth[r] \in D /\ depth[r] \in Nat /\ depth[q] \in Nat
    OBVIOUS
  <2> QED BY <1>3, <1>4, <2>1 DEF Downwards
<1> QED BY <1>5

\* There is one solution of the equation that Find solves.
LEMMA FindIsRoot ==
    ASSUME NEW parent, NEW f, Rooted(parent, f)
    PROVE  \A p \in Elements : Find(parent, p) = f[p]
<1> DEFINE Solves(g) == g = [q \in Elements |-> IF parent[q] = q THEN q ELSE g[parent[q]]]
           up == CHOOSE g : Solves(g)
<1>1. PICK depth \in [Elements -> Nat] : Leads(parent, f, depth)
  BY DEF Rooted
<1>2. f = [q \in Elements |-> IF parent[q] = q THEN q ELSE f[parent[q]]]
  BY <1>1 DEF Leads
<1>3. Solves(f)
  BY <1>2
<1>4. up = [q \in Elements |-> IF parent[q] = q THEN q ELSE up[parent[q]]]
  <2> HIDE DEF Solves
  <2>1. Solves(up)
    BY <1>3
  <2> QED BY <2>1 DEF Solves
<1>5. \A p \in Elements : Find(parent, p) = up[p]
  BY DEF Find
<1> HIDE DEF up, Solves
<1>6. \A q \in Elements : up[q] = IF parent[q] = q THEN q ELSE up[parent[q]]
  BY <1>4
<1>7. \A p \in Elements : up[p] = f[p]
  <2> DEFINE Q == {q \in Elements : up[q] # f[q]}
  <2> SUFFICES ASSUME Q # {} PROVE FALSE
    OBVIOUS
  <2>1. Q \in SUBSET Elements
    OBVIOUS
  <2>2. PICK q \in Q : \A r \in Q : ~ (depth[r] < depth[q])
    <3> HIDE DEF Q
    <3> QED BY <2>1, LeastDepth
  <2>3. parent[q] # q
    BY <1>1, <1>6 DEF Leads
  <2>4. parent[q] \in Elements /\ depth[parent[q]] < depth[q] /\ f[q] = f[parent[q]]
    BY <1>1, <2>3 DEF Leads
  <2>5. up[parent[q]] = f[parent[q]]
    BY <2>2, <2>4
  <2> QED BY <1>6, <2>3, <2>4, <2>5
<1> QED BY <1>5, <1>7

\* The partition of the elements by what f gives them.
Classes(f) == {{p \in Elements : f[p] = f[r]} : r \in Elements}

\* f after what it gave p was replaced by what it gave q.
Moved(f, p, q) == [i \in Elements |-> IF f[i] = f[p] THEN f[q] ELSE f[i]]

\* Replacing one representative by another merges exactly their two classes.
LEMMA MovedMerges ==
    ASSUME NEW f, NEW p \in Elements, NEW q \in Elements, f[p] # f[q]
    PROVE  \E c, d \in Classes(f) :
              c # d /\ Classes(Moved(f, p, q)) = (Classes(f) \ {c, d}) \union {c \union d}
<1> DEFINE g == Moved(f, p, q)
           class(r) == {i \in Elements : f[i] = f[r]}
           after(r) == {i \in Elements : g[i] = g[r]}
           both == class(p) \union class(q)
<1>1. \A i \in Elements : g[i] = IF f[i] = f[p] THEN f[q] ELSE f[i]
  BY DEF Moved
<1> HIDE DEF g
<1>2. class(p) \in Classes(f) /\ class(q) \in Classes(f) /\ class(p) # class(q)
  BY DEF Classes
<1>3. \A r \in Elements : f[r] = f[p] \/ f[r] = f[q] => after(r) = both
  BY <1>1
<1>4. \A r \in Elements : f[r] # f[p] /\ f[r] # f[q] => after(r) = class(r)
  BY <1>1
<1>5. \A r \in Elements : class(r) = class(p) <=> f[r] = f[p]
  OBVIOUS
<1>6. \A r \in Elements : class(r) = class(q) <=> f[r] = f[q]
  OBVIOUS
<1>7. \A c : c \in Classes(f) <=> \E r \in Elements : c = class(r)
  BY DEF Classes
<1>8. \A c : c \in Classes(g) <=> \E r \in Elements : c = after(r)
  BY DEF Classes
<1> HIDE DEF class, after, both
<1>9. ASSUME NEW c \in Classes(g) PROVE c \in (Classes(f) \ {class(p), class(q)}) \union {both}
  <2>1. PICK r \in Elements : c = after(r)
    BY <1>8
  <2> QED BY <1>3, <1>4, <1>5, <1>6, <1>7, <2>1
<1>10. ASSUME NEW c \in (Classes(f) \ {class(p), class(q)}) \union {both} PROVE c \in Classes(g)
  <2>1. CASE c = both
    BY <1>3, <1>8, <2>1
  <2>2. CASE c \in Classes(f) \ {class(p), class(q)}
    <3>1. PICK r \in Elements : c = class(r)
      BY <1>7, <2>2
    <3>2. f[r] # f[p] /\ f[r] # f[q]
      BY <1>5, <1>6, <2>2, <3>1
    <3> QED BY <1>4, <1>8, <3>1, <3>2
  <2> QED BY <2>1, <2>2
<1>11. Classes(g) = (Classes(f) \ {class(p), class(q)}) \union {both}
  BY <1>9, <1>10
<1> QED BY <1>2, <1>11 DEF g, both

\* Linking the root of p below the root of q moves p's class there.
LEMMA LinkMoves ==
    ASSUME NEW parent, NEW f, Rooted(parent, f),
           NEW p \in Elements, NEW q \in Elements, f[p] # f[q]
    PROVE  Rooted([parent EXCEPT ![f[p]] = f[q]], Moved(f, p, q))
<1>1. PICK depth \in [Elements -> Nat] : Leads(parent, f, depth)
  BY DEF Rooted
<1> DEFINE a == f[p]
           b == f[q]
           linked == [parent EXCEPT ![a] = b]
           g == Moved(f, p, q)
           deeper == [i \in Elements |-> IF f[i] = a THEN depth[i] + depth[b] + 1 ELSE depth[i]]
<1>2. /\ parent \in [Elements -> Elements] /\ f \in [Elements -> Elements]
      /\ \A i \in Elements :
            /\ parent[f[i]] = f[i]
            /\ parent[i] = i => f[i] = i
            /\ parent[i] # i => f[i] = f[parent[i]] /\ depth[parent[i]] < depth[i]
  BY <1>1 DEF Leads
<1>3. a \in Elements /\ b \in Elements /\ a # b /\ f[a] = a /\ f[b] = b /\ parent[b] = b
  BY <1>2
<1>4. /\ linked \in [Elements -> Elements] /\ linked[a] = b
      /\ \A i \in Elements : i # a => linked[i] = parent[i]
  BY <1>2, <1>3
<1>5. g \in [Elements -> Elements] /\ \A i \in Elements : g[i] = IF f[i] = a THEN b ELSE f[i]
  BY <1>2 DEF Moved
<1>6. /\ deeper \in [Elements -> Nat]
      /\ \A i \in Elements :
            deeper[i] = IF f[i] = a THEN depth[i] + depth[b] + 1 ELSE depth[i]
  <2>1. \A i \in Elements : depth[i] \in Nat /\ depth[b] \in Nat
    BY <1>3
  <2> QED BY <2>1
<1> HIDE DEF a, b, linked, g, deeper
<1>7. ASSUME NEW i \in Elements
      PROVE  /\ linked[g[i]] = g[i]
             /\ linked[i] = i => g[i] = i
             /\ linked[i] # i => g[i] = g[linked[i]] /\ deeper[linked[i]] < deeper[i]
  <2>1. linked[g[i]] = g[i]
    BY <1>2, <1>3, <1>4, <1>5
  <2>2. CASE i = a
    <3>1. linked[i] = b /\ g[i] = b /\ g[b] = b
      BY <1>3, <1>4, <1>5, <2>2
    <3>2. deeper[i] = depth[a] + depth[b] + 1 /\ deeper[b] = depth[b]
      BY <1>3, <1>6, <2>2
    <3>3. depth[a] \in Nat /\ depth[b] \in Nat
      BY <1>3
    <3> QED BY <1>3, <2>1, <2>2, <3>1, <3>2, <3>3
  <2>3. CASE i # a
    <3>1. linked[i] = parent[i] /\ parent[i] \in Elements
      BY <1>2, <1>4, <2>3
    <3>2. parent[i] = i => g[i] = i
      BY <1>2, <1>5, <2>3
    <3>3. ASSUME parent[i] # i PROVE g[i] = g[parent[i]] /\ deeper[parent[i]] < deeper[i]
      <4>1. f[i] = f[parent[i]] /\ depth[parent[i]] < depth[i]
        BY <1>2, <3>3
      <4>2. depth[i] \in Nat /\ depth[parent[i]] \in Nat /\ depth[b] \in Nat
        BY <1>3, <3>1
      <4>3. deeper[parent[i]] < deeper[i]
        BY <1>6, <3>1, <4>1, <4>2
      <4> QED BY <1>5, <3>1, <4>1, <4>3
    <3> QED BY <2>1, <3>1, <3>2, <3>3
  <2> QED BY <2>2, <2>3
<1>8. Leads(linked, g, deeper)
  BY <1>4, <1>5, <1>6, <1>7 DEF Leads
<1>9. Rooted(linked, g)
  BY <1>6, <1>8 DEF Rooted
<1> QED BY <1>9 DEF linked, g, a, b

ForestInv ==
    /\ id \in [Elements -> Elements]
    /\ \E f : Rooted(link, f)
    /\ \E f : Rooted(root, f)
    /\ counts \in [find : Int, union : Int, weighted : Int]

\* At first every element is its own root.
LEMMA ForestInvInit == ForestInit => ForestInv
<1> SUFFICES ASSUME ForestInit PROVE ForestInv
  OBVIOUS
<1> DEFINE self == [i \in Elements |-> i]
           zero == [i \in Elements |-> 0]
<1>1. zero \in [Elements -> Nat] /\ Leads(self, self, zero)
  BY DEF Leads
<1>2. Rooted(self, self)
  BY <1>1 DEF Rooted
<1>3. N \in Int
  BY NAssumption
<1>4. counts \in [find : Int, union : Int, weighted : Int]
  BY <1>3 DEF ForestInit
<1> QED BY <1>2, <1>4 DEF ForestInit, ForestInv

\* A step of a partition, in terms of what represents the classes.
Merges(f, g, c, d) ==
    \/ Classes(g) = Classes(f) /\ d = c
    \/ /\ \E x, y \in Classes(f) :
             x # y /\ Classes(g) = (Classes(f) \ {x, y}) \union {x \union y}
       /\ d = c - 1

\* What a union of p and q does to a forest in which it links either root to
\* the other.
LEMMA UnionMerges ==
    ASSUME NEW parent, NEW parent2, NEW f, Rooted(parent, f),
           NEW p \in Elements, NEW q \in Elements,
           f[p] = f[q] => parent2 = parent,
           f[p] # f[q] => \/ parent2 = [parent EXCEPT ![f[p]] = f[q]]
                          \/ parent2 = [parent EXCEPT ![f[q]] = f[p]],
           NEW c \in Int
    PROVE  \E g : /\ Rooted(parent2, g)
                  /\ Merges(f, g, c, c - (IF f[p] = f[q] THEN 0 ELSE 1))
<1>1. CASE f[p] = f[q]
  BY <1>1 DEF Merges
<1>2. CASE f[p] # f[q] /\ parent2 = [parent EXCEPT ![f[p]] = f[q]]
  <2>1. Rooted(parent2, Moved(f, p, q))
    BY <1>2, LinkMoves
  <2>2. \E x, y \in Classes(f) :
           x # y /\ Classes(Moved(f, p, q)) = (Classes(f) \ {x, y}) \union {x \union y}
    BY <1>2, MovedMerges
  <2> QED BY <1>2, <2>1, <2>2 DEF Merges
<1>3. CASE f[p] # f[q] /\ parent2 = [parent EXCEPT ![f[q]] = f[p]]
  <2>1. Rooted(parent2, Moved(f, q, p))
    BY <1>3, LinkMoves
  <2>2. \E x, y \in Classes(f) :
           x # y /\ Classes(Moved(f, q, p)) = (Classes(f) \ {x, y}) \union {x \union y}
    BY <1>3, MovedMerges
  <2> QED BY <1>3, <2>1, <2>2 DEF Merges
<1> QED BY <1>1, <1>2, <1>3

\* The classes of a forest are those of its roots.
LEMMA ClassesOfRoots ==
    ASSUME NEW parent, NEW f, Rooted(parent, f) PROVE ClassesOf(parent) = Classes(f)
<1>1. \A p \in Elements : Find(parent, p) = f[p]
  BY FindIsRoot
<1> QED BY <1>1 DEF ClassesOf, Classes

\* Every union merges in the three forests.
LEMMA UnionStep ==
    ASSUME ForestInv, NEW p \in Elements, NEW q \in Elements, Union(p, q)
    PROVE  /\ ForestInv'
           /\ Merges(id, id', counts.find, counts'.find)
           /\ \E f, g : Rooted(link, f) /\ Rooted(link', g)
                        /\ Merges(f, g, counts.union, counts'.union)
           /\ \E f, g : Rooted(root, f) /\ Rooted(root', g)
                        /\ Merges(f, g, counts.weighted, counts'.weighted)
<1>1. counts.find \in Int /\ counts.union \in Int /\ counts.weighted \in Int
  BY DEF ForestInv
<1>2. /\ counts'.find = counts.find - (IF id[p] = id[q] THEN 0 ELSE 1)
      /\ counts'.union = counts.union - (IF IsConnected(link, p, q) THEN 0 ELSE 1)
      /\ counts'.weighted = counts.weighted - (IF IsConnected(root, p, q) THEN 0 ELSE 1)
      /\ counts' \in [find : Int, union : Int, weighted : Int]
  BY <1>1 DEF Union
<1>3. id' \in [Elements -> Elements] /\ Merges(id, id', counts.find, counts'.find)
  <2>1. CASE id[p] = id[q]
    <3>1. id' = id /\ counts'.find = counts.find
      BY <1>1, <1>2, <2>1 DEF Union
    <3> QED BY <3>1 DEF Merges, ForestInv
  <2>2. CASE id[p] # id[q]
    <3>1. id' = Moved(id, p, q) /\ counts'.find = counts.find - 1
      BY <1>2, <2>2 DEF Union, Renamed, Moved
    <3>2. \E x, y \in Classes(id) :
             x # y /\ Classes(id') = (Classes(id) \ {x, y}) \union {x \union y}
      BY <2>2, <3>1, MovedMerges
    <3>3. id' \in [Elements -> Elements]
      BY <3>1 DEF Moved, ForestInv
    <3> QED BY <3>1, <3>2, <3>3 DEF Merges
  <2> QED BY <2>1, <2>2
<1>4. PICK f : Rooted(link, f)
  BY DEF ForestInv
<1>5. \E g : Rooted(link', g) /\ Merges(f, g, counts.union, counts'.union)
  <2>1. \A i \in Elements : Find(link, i) = f[i]
    BY <1>4, FindIsRoot
  <2>2. IsConnected(link, p, q) <=> f[p] = f[q]
    BY <2>1 DEF IsConnected
  <2>3. f[p] = f[q] => link' = link
    BY <2>2 DEF Union
  <2>4. f[p] # f[q] => link' = [link EXCEPT ![f[p]] = f[q]]
    BY <2>1, <2>2 DEF Union, Linked
  <2>5. counts'.union = counts.union - (IF f[p] = f[q] THEN 0 ELSE 1)
    BY <1>2, <2>2
  <2> DEFINE c == counts.union
             after == link'
  <2> HIDE DEF after
  <2>6. (f[p] = f[q] => after = link) /\ c \in Int
    BY <1>1, <2>3 DEF after
  <2>7. f[p] # f[q] => \/ after = [link EXCEPT ![f[p]] = f[q]]
                       \/ after = [link EXCEPT ![f[q]] = f[p]]
    BY <2>4 DEF after
  <2> HIDE DEF c
  <2>8. \E g : Rooted(after, g) /\ Merges(f, g, c, c - (IF f[p] = f[q] THEN 0 ELSE 1))
    BY <1>4, <2>6, <2>7, UnionMerges
  <2> QED BY <2>5, <2>8 DEF after, c
<1>6. PICK h : Rooted(root, h)
  BY DEF ForestInv
<1>7. \E g : Rooted(root', g) /\ Merges(h, g, counts.weighted, counts'.weighted)
  <2>1. \A i \in Elements : Find(root, i) = h[i]
    BY <1>6, FindIsRoot
  <2>2. IsConnected(root, p, q) <=> h[p] = h[q]
    BY <2>1 DEF IsConnected
  <2>3. h[p] = h[q] => root' = root
    BY <2>2 DEF Union
  <2>4. h[p] # h[q] => \/ root' = [root EXCEPT ![h[p]] = h[q]]
                       \/ root' = [root EXCEPT ![h[q]] = h[p]]
    BY <2>1, <2>2 DEF Union, Weighted, Attach
  <2>5. counts'.weighted = counts.weighted - (IF h[p] = h[q] THEN 0 ELSE 1)
    BY <1>2, <2>2
  <2> DEFINE c == counts.weighted
             after == root'
  <2> HIDE DEF after
  <2>6. (h[p] = h[q] => after = root) /\ c \in Int
    BY <1>1, <2>3 DEF after
  <2>7. h[p] # h[q] => \/ after = [root EXCEPT ![h[p]] = h[q]]
                       \/ after = [root EXCEPT ![h[q]] = h[p]]
    BY <2>4 DEF after
  <2> HIDE DEF c
  <2>8. \E g : Rooted(after, g) /\ Merges(h, g, c, c - (IF h[p] = h[q] THEN 0 ELSE 1))
    BY <1>6, <2>6, <2>7, UnionMerges
  <2> QED BY <2>5, <2>8 DEF after, c
<1>8. ForestInv'
  BY <1>2, <1>3, <1>5, <1>7 DEF ForestInv
<1> QED BY <1>3, <1>4, <1>5, <1>6, <1>7, <1>8

\* The invariant is inductive.
LEMMA ForestInvStep == ForestInv /\ [ForestNext]_forest => ForestInv'
<1>1. ForestInv /\ UNCHANGED forest => ForestInv'
  BY DEF ForestInv, forest
<1> QED BY <1>1, UnionStep DEF ForestNext

\* Elements are as many as there are counted.
LEMMA InitialClasses ==
    ASSUME ForestInit
    PROVE  /\ N = Cardinality(Elements)
           /\ Classes([i \in Elements |-> i]) = {{e} : e \in Elements}
<1>1. Cardinality(Elements) = N
  <2>1. 0 \in Int /\ N - 1 \in Int
    BY NAssumption
  <2>2. Cardinality(0..(N - 1)) = IF 0 > N - 1 THEN 0 ELSE (N - 1) - 0 + 1
    <3> DEFINE top == N - 1
    <3> HIDE DEF top
    <3>1. 0 \in Int /\ top \in Int
      BY <2>1 DEF top
    <3>2. Cardinality(0..top) = IF 0 > top THEN 0 ELSE top - 0 + 1
      BY <3>1, FS_Interval
    <3> QED BY <3>2 DEF top
  <2> QED BY <2>1, <2>2, NAssumption DEF Elements
<1>2. \A r \in Elements :
         {p \in Elements : [i \in Elements |-> i][p] = [i \in Elements |-> i][r]} = {r}
  OBVIOUS
<1> QED BY <1>1, <1>2 DEF Classes

\* Every step of the three implementations is a step of the partition.
THEOREM ForestImplementsPartition == ForestSpec => ImplementPartition
<1> DEFINE self == [i \in Elements |-> i]
<1>1. ForestInit => QuickFind!Init /\ QuickUnion!Init /\ WeightedQuickUnion!Init
  <2> SUFFICES ASSUME ForestInit PROVE QuickFind!Init /\ QuickUnion!Init /\ WeightedQuickUnion!Init
    OBVIOUS
  <2>1. N = Cardinality(Elements) /\ Classes(self) = {{e} : e \in Elements}
    BY InitialClasses
  <2>2. id = self /\ link = self /\ root = self
        /\ counts.find = N /\ counts.union = N /\ counts.weighted = N
    BY DEF ForestInit
  <2>3. Rooted(self, self)
    <3> DEFINE zero == [i \in Elements |-> 0]
    <3>1. zero \in [Elements -> Nat] /\ Leads(self, self, zero)
      BY DEF Leads
    <3> QED BY <3>1 DEF Rooted
  <2>4. /\ ClassesById = Classes(self)
        /\ ClassesOf(link) = Classes(self) /\ ClassesOf(root) = Classes(self)
    BY <2>2, <2>3, ClassesOfRoots DEF ClassesById, Classes
  <2> QED BY <2>1, <2>2, <2>4
      DEF QuickFind!Init, QuickUnion!Init, WeightedQuickUnion!Init,
          QuickFind!Cardinality, QuickUnion!Cardinality, WeightedQuickUnion!Cardinality, Cardinality
<1>2. ForestInv /\ [ForestNext]_forest =>
         /\ [QuickFind!Next]_(QuickFind!vars)
         /\ [QuickUnion!Next]_(QuickUnion!vars)
         /\ [WeightedQuickUnion!Next]_(WeightedQuickUnion!vars)
  <2>1. ASSUME UNCHANGED forest
        PROVE  /\ UNCHANGED QuickFind!vars /\ UNCHANGED QuickUnion!vars
               /\ UNCHANGED WeightedQuickUnion!vars
    BY <2>1 DEF forest, QuickFind!vars, QuickUnion!vars, WeightedQuickUnion!vars,
                ClassesById, ClassesOf
  <2>2. ASSUME ForestInv, NEW p \in Elements, NEW q \in Elements, Union(p, q)
        PROVE  /\ [QuickFind!Next]_(QuickFind!vars)
               /\ [QuickUnion!Next]_(QuickUnion!vars)
               /\ [WeightedQuickUnion!Next]_(WeightedQuickUnion!vars)
    <3>1. Merges(id, id', counts.find, counts'.find)
      BY <2>2, UnionStep
    <3>2. PICK f, g : Rooted(link, f) /\ Rooted(link', g)
                      /\ Merges(f, g, counts.union, counts'.union)
      BY <2>2, UnionStep
    <3>3. PICK h, k : Rooted(root, h) /\ Rooted(root', k)
                      /\ Merges(h, k, counts.weighted, counts'.weighted)
      BY <2>2, UnionStep
    <3>4. ClassesById = Classes(id) /\ ClassesById' = Classes(id')
      BY DEF ClassesById, Classes
    <3>5. ClassesOf(link) = Classes(f) /\ ClassesOf(link)' = Classes(g)
      BY <3>2, ClassesOfRoots
    <3>6. ClassesOf(root) = Classes(h) /\ ClassesOf(root)' = Classes(k)
      BY <3>3, ClassesOfRoots
    <3>7. [QuickFind!Next]_(QuickFind!vars)
      BY <3>1, <3>4 DEF Merges, QuickFind!Next, QuickFind!Merge, QuickFind!vars
    <3>8. [QuickUnion!Next]_(QuickUnion!vars)
      BY <3>2, <3>5 DEF Merges, QuickUnion!Next, QuickUnion!Merge, QuickUnion!vars
    <3>9. [WeightedQuickUnion!Next]_(WeightedQuickUnion!vars)
      BY <3>3, <3>6
      DEF Merges, WeightedQuickUnion!Next, WeightedQuickUnion!Merge,
          WeightedQuickUnion!vars
    <3> QED BY <3>7, <3>8, <3>9
  <2> QED BY <2>1, <2>2 DEF ForestNext
<1>3. ForestSpec => []ForestInv
  BY ForestInvInit, ForestInvStep, PTL DEF ForestSpec
<1> QED BY <1>1, <1>2, <1>3, PTL
        DEF ForestSpec, ImplementPartition, QuickFind!Spec, QuickUnion!Spec, WeightedQuickUnion!Spec

-----------------------------------------------------------------------------
\* Registry.

\* The registered providers, by name.
LEMMA NamesAre ==
    Names =
        {"JavBus", "MGS", "SOD", "AVBase", "FANZA", "TokyoHot",
         "DUGA", "DAHLIA", "FALENO", "Pcolle", "H0930", "H4610",
         "C0930", "Heyzo", "KIN8", "Gcolle", "Getchu", "MyWife",
         "FC2", "FC2PPVDB", "HeyDouga", "OnePondo", "MuraMura", "Pacopacomama",
         "CaribbeancomPremium", "TenMusume", "Caribbeancom", "FC2HUB", "JAVFREE", "JAV321",
         "MadouQu", "AVE", "ThePornDBMovie", "ThePornDBScene", "ThePornDBActor", "AVLeague",
         "Gfriends"}
BY DEF Names, Site

\* Their hosts.
LEMMA HostsAre ==
    /\ Site["JavBus"].host = "www.javbus.com" /\ Site["MGS"].host = "www.mgstage.com"
    /\ Site["SOD"].host = "ec.sod.co.jp" /\ Site["AVBase"].host = "www.avbase.net"
    /\ Site["FANZA"].host = "www.dmm.co.jp" /\ Site["TokyoHot"].host = "my.tokyo-hot.com"
    /\ Site["DUGA"].host = "duga.jp" /\ Site["DAHLIA"].host = "dahlia-av.jp"
    /\ Site["FALENO"].host = "faleno.jp" /\ Site["Pcolle"].host = "www.pcolle.com"
    /\ Site["H0930"].host = "www.h0930.com" /\ Site["H4610"].host = "www.h4610.com"
    /\ Site["C0930"].host = "www.c0930.com" /\ Site["Heyzo"].host = "www.heyzo.com"
    /\ Site["KIN8"].host = "www.kin8tengoku.com" /\ Site["Gcolle"].host = "gcolle.net"
    /\ Site["Getchu"].host = "dl.getchu.com" /\ Site["MyWife"].host = "mywife.cc"
    /\ Site["FC2"].host = "adult.contents.fc2.com" /\ Site["FC2PPVDB"].host = "fc2ppvdb.com"
    /\ Site["HeyDouga"].host = "www.heydouga.com" /\ Site["OnePondo"].host = "www.1pondo.tv"
    /\ Site["MuraMura"].host = "www.muramura.tv" /\ Site["Pacopacomama"].host = "www.pacopacomama.com"
    /\ Site["CaribbeancomPremium"].host = "www.caribbeancompr.com" /\ Site["TenMusume"].host = "www.10musume.com"
    /\ Site["Caribbeancom"].host = "www.caribbeancom.com" /\ Site["FC2HUB"].host = "javten.com"
    /\ Site["JAVFREE"].host = "javfree.me" /\ Site["JAV321"].host = "www.jav321.com"
    /\ Site["MadouQu"].host = "madouqu.com" /\ Site["AVE"].host = "www.aventertainments.com"
    /\ Site["ThePornDBMovie"].host = "theporndb.net" /\ Site["ThePornDBScene"].host = "theporndb.net"
    /\ Site["ThePornDBActor"].host = "theporndb.net" /\ Site["AVLeague"].host = "www.av-league.com"
    /\ Site["Gfriends"].host = "github.com"
BY ZenonT(60) DEF Site, Provider

\* The paths of their base URLs.
LEMMA BasesAre ==
    /\ Site["JavBus"].base = <<>> /\ Site["MGS"].base = <<>>
    /\ Site["SOD"].base = <<"prime">> /\ Site["AVBase"].base = <<>>
    /\ Site["FANZA"].base = <<>> /\ Site["TokyoHot"].base = <<>>
    /\ Site["DUGA"].base = <<>> /\ Site["DAHLIA"].base = <<>>
    /\ Site["FALENO"].base = <<"top">> /\ Site["Pcolle"].base = <<>>
    /\ Site["H0930"].base = <<>> /\ Site["H4610"].base = <<>>
    /\ Site["C0930"].base = <<>> /\ Site["Heyzo"].base = <<>>
    /\ Site["KIN8"].base = <<>> /\ Site["Gcolle"].base = <<>>
    /\ Site["Getchu"].base = <<>> /\ Site["MyWife"].base = <<>>
    /\ Site["FC2"].base = <<>> /\ Site["FC2PPVDB"].base = <<>>
    /\ Site["HeyDouga"].base = <<>> /\ Site["OnePondo"].base = <<>>
    /\ Site["MuraMura"].base = <<>> /\ Site["Pacopacomama"].base = <<>>
    /\ Site["CaribbeancomPremium"].base = <<>> /\ Site["TenMusume"].base = <<>>
    /\ Site["Caribbeancom"].base = <<>> /\ Site["FC2HUB"].base = <<>>
    /\ Site["JAVFREE"].base = <<>> /\ Site["JAV321"].base = <<>>
    /\ Site["MadouQu"].base = <<>> /\ Site["AVE"].base = <<>>
    /\ Site["ThePornDBMovie"].base = <<"movies">> /\ Site["ThePornDBScene"].base = <<"scenes">>
    /\ Site["ThePornDBActor"].base = <<"performers">> /\ Site["AVLeague"].base = <<>>
    /\ Site["Gfriends"].base = <<"gfriends", "gfriends">>
BY ZenonT(60) DEF Site, Provider

\* Their ways with ids.
LEMMA IdsAre ==
    /\ Site["JavBus"].ids = "upper" /\ Site["MGS"].ids = "upper"
    /\ Site["SOD"].ids = "upper" /\ Site["AVBase"].ids = "avbase"
    /\ Site["FANZA"].ids = "lower" /\ Site["TokyoHot"].ids = "lower"
    /\ Site["DUGA"].ids = "lower" /\ Site["DAHLIA"].ids = "lower"
    /\ Site["FALENO"].ids = "lower" /\ Site["Pcolle"].ids = "pcolle"
    /\ Site["H0930"].ids = "h0930" /\ Site["H4610"].ids = "h0930"
    /\ Site["C0930"].ids = "h0930" /\ Site["Heyzo"].ids = "padded"
    /\ Site["KIN8"].ids = "padded" /\ Site["Gcolle"].ids = "digits"
    /\ Site["Getchu"].ids = "digits" /\ Site["MyWife"].ids = "digits"
    /\ Site["FC2"].ids = "digits" /\ Site["FC2PPVDB"].ids = "digits"
    /\ Site["HeyDouga"].ids = "heydouga" /\ Site["OnePondo"].ids = "dated3"
    /\ Site["MuraMura"].ids = "dated3" /\ Site["Pacopacomama"].ids = "dated3"
    /\ Site["CaribbeancomPremium"].ids = "dated3" /\ Site["TenMusume"].ids = "dated2"
    /\ Site["Caribbeancom"].ids = "dashed3" /\ Site["FC2HUB"].ids = "pair"
    /\ Site["JAVFREE"].ids = "pair" /\ Site["JAV321"].ids = "as is"
    /\ Site["MadouQu"].ids = "as is" /\ Site["AVE"].ids = "as is"
    /\ Site["ThePornDBMovie"].ids = "as is" /\ Site["ThePornDBScene"].ids = "as is"
    /\ Site["ThePornDBActor"].ids = "as is" /\ Site["AVLeague"].ids = "as is"
    /\ Site["Gfriends"].ids = "as is"
BY ZenonT(60) DEF Site, Provider

\* The three that share a host.
ThePornDB == {"ThePornDBMovie", "ThePornDBScene", "ThePornDBActor"}

\* Every other provider has a host of its own.
LEMMA OwnHost ==
    ASSUME NEW p \in Names, NEW q \in Names, Site[p].host = Site[q].host
    PROVE  p = q \/ (p \in ThePornDB /\ q \in ThePornDB)
BY SMTT(120), NamesAre, HostsAre DEF ThePornDB

\* The host of FANZA's second shop is no provider's.
LEMMA SecondHost ==
    /\ \A p \in Names : Site[p].host # "video.dmm.co.jp"
    /\ "FANZA" \in Names /\ Site["FANZA"].host = "www.dmm.co.jp"
BY NamesAre, HostsAre

\* A base path is a sequence of at most two segments.
LEMMA BaseLen == \A p \in Names : Len(Site[p].base) \in Nat
<1>1. /\ Len(<<>>) \in Nat
      /\ \A a : Len(<<a>>) \in Nat
      /\ \A a, b : Len(<<a, b>>) \in Nat
  OBVIOUS
<1>2. \A p \in Names : \/ Site[p].base = <<>>
                       \/ \E a : Site[p].base = <<a>>
                       \/ \E a, b : Site[p].base = <<a, b>>
  BY NamesAre, BasesAre, ZenonT(60)
<1> QED BY <1>1, <1>2, Zenon

\* Of the three on one host none has a path that begins with another's.
LEMMA OwnPath ==
    ASSUME NEW p \in ThePornDB, NEW q \in ThePornDB, IsPrefix(Site[q].base, Site[p].base)
    PROVE  p = q
<1>1. /\ Site["ThePornDBMovie"].base = <<"movies">>
      /\ Site["ThePornDBScene"].base = <<"scenes">>
      /\ Site["ThePornDBActor"].base = <<"performers">>
  BY BasesAre, Zenon
<1>2. ASSUME NEW a, NEW b, IsPrefix(<<a>>, <<b>>) PROVE a = b
  BY <1>2 DEF IsPrefix
<1> QED BY <1>1, <1>2 DEF ThePornDB

\* The treatments that the providers by name have, and that there is no such
\* thing as an empty one.
LEMMA Treatments ==
    /\ \A p \in Names : Site[p].ids # "empty"
    /\ \A p \in Names : Site[p].ids = "avbase" => p = "AVBase"
    /\ Site["AVBase"].ids = "avbase" /\ Site["FANZA"].ids = "lower"
    /\ Site["ThePornDBMovie"].ids = "as is" /\ Site["ThePornDBScene"].ids = "as is"
    /\ {"AVBase", "FANZA", "ThePornDBMovie", "ThePornDBScene"} \subseteq Names
<1>1. \A p \in Names : Site[p].ids # "empty"
  BY NamesAre, IdsAre, ZenonT(60)
<1>2. \A p \in Names : Site[p].ids = "avbase" => p = "AVBase"
  BY NamesAre, IdsAre, ZenonT(60)
<1>3. /\ Site["AVBase"].ids = "avbase" /\ Site["FANZA"].ids = "lower"
      /\ Site["ThePornDBMovie"].ids = "as is" /\ Site["ThePornDBScene"].ids = "as is"
  BY IdsAre
<1>4. {"AVBase", "FANZA", "ThePornDBMovie", "ThePornDBScene"} \subseteq Names
  BY NamesAre
<1> QED BY <1>1, <1>2, <1>3, <1>4

-----------------------------------------------------------------------------
\* What is asked for, the pages, and the keys.

\* The fields of an id.
LEMMA IdFields ==
    ASSUME NEW s, NEW c, NEW f PROVE Id(s, c, f).site = s /\ Id(s, c, f).form = f
BY DEF Id

\* An id without and with the site's name in front.
LEMMA IdSites ==
    ASSUME NEW s, NEW c, NEW f
    PROVE  Bare(Id(s, c, f)) = Id(FALSE, c, f) /\ Sited(Id(s, c, f)) = Id(TRUE, c, f)
<1>1. ASSUME NEW d PROVE [Id(s, c, f) EXCEPT !.site = d] = Id(d, c, f)
  BY DEF Id
<1> QED BY <1>1 DEF Bare, Sited

\* The case of a word can be changed.
LEMMA WordCases ==
    ASSUME NEW s, NEW c
    PROVE  /\ \A d : InCase(Id(s, c, "word"), d) = Id(s, d, "word")
           /\ Upper(Id(s, c, "word")) = Id(s, "upper", "word")
           /\ Lower(Id(s, c, "word")) = Id(s, "lower", "word")
<1>1. ASSUME NEW d PROVE [Id(s, c, "word") EXCEPT !.case = d] = Id(s, d, "word")
  BY DEF Id
<1>2. ASSUME NEW d PROVE InCase(Id(s, c, "word"), d) = Id(s, d, "word")
  <2>1. Id(s, c, "word").form \in Lettered
    BY IdFields DEF Lettered
  <2> QED BY <1>1, <2>1 DEF InCase
<1> QED BY <1>2 DEF Upper, Lower

\* The two of ThePornDB that have movies.
ThePornDBVideos == {"ThePornDBMovie", "ThePornDBScene"}

\* Ids with other forms differ.
LEMMA IdDiffers ==
    ASSUME NEW s, NEW c, NEW f, f # "empty" PROVE Id(s, c, f) # NoId
BY DEF Id, NoId

\* What is looked for, whatever the spelling: the id that the site has for the
\* movie, but for a movie of AVBase named without its maker, one of Heyzo or
\* KIN8 named without leading zeros and one of ThePornDB named by its number.
LEMMA SpellingsNormalize ==
    ASSUME NEW p \in Names, NEW raw \in Spellings(p)
    PROVE  \/ Normalize(p, raw) = Canonical(p)
           \/ p = "AVBase" /\ Normalize(p, raw) = Id(FALSE, "upper", "word")
           \/ Site[p].ids = "padded" /\ Normalize(p, raw) = Id(FALSE, "none", "short")
           \/ p \in ThePornDBVideos /\ Normalize(p, raw) = Id(FALSE, "none", "digits")
<1> DEFINE ids == Site[p].ids
<1>1. CASE ids = "upper"
  <2>1. Canonical(p) = Id(FALSE, "upper", "word")
    BY <1>1 DEF Canonical
  <2>2. \A i : Normalize(p, i) = Upper(i)
    BY <1>1 DEF Normalize
  <2>3. \E c : raw = InCase(Id(FALSE, "upper", "word"), c)
    BY <1>1, <2>1 DEF Spellings
  <2>4. PICK c : raw = Id(FALSE, c, "word")
    BY <2>3, WordCases, Zenon
  <2> QED BY <2>1, <2>2, <2>4, WordCases, Zenon
<1>2. CASE ids = "avbase"
  <2>1. Canonical(p) = Id(FALSE, "mixed", "maker")
    BY <1>2 DEF Canonical
  <2>2. \A i : Normalize(p, i) = UpperUnlessMaker(i)
    BY <1>2 DEF Normalize
  <2>3. raw = Canonical(p) \/ \E c : raw = Id(FALSE, c, "word")
    BY <1>2, <2>1 DEF Spellings
  <2>4. UpperUnlessMaker(Canonical(p)) = Canonical(p)
    <3>1. Canonical(p).form = "maker"
      BY <2>1 DEF Id
    <3> QED BY <3>1 DEF UpperUnlessMaker
  <2>5. ASSUME NEW c
        PROVE  UpperUnlessMaker(Id(FALSE, c, "word")) = Id(FALSE, "upper", "word")
    <3>1. Id(FALSE, c, "word").form # "maker"
      BY DEF Id
    <3>2. Upper(Id(FALSE, c, "word")) = Id(FALSE, "upper", "word")
      BY WordCases
    <3> QED BY <3>1, <3>2 DEF UpperUnlessMaker
  <2> QED BY <1>2, <2>2, <2>3, <2>4, <2>5, Treatments
<1>3. CASE ids = "lower"
  <2>1. Canonical(p) = Id(FALSE, "lower", "word")
    BY <1>3 DEF Canonical
  <2>2. \A i : Normalize(p, i) = Lower(i)
    BY <1>3 DEF Normalize
  <2>3. \E c : raw = InCase(Id(FALSE, "lower", "word"), c)
    BY <1>3, <2>1 DEF Spellings
  <2>4. PICK c : raw = Id(FALSE, c, "word")
    BY <2>3, WordCases, Zenon
  <2> QED BY <2>1, <2>2, <2>4, WordCases, Zenon
<1>4. CASE ids \in {"pcolle", "h0930"}
  <2> DEFINE C == {InCase(Id(FALSE, "lower", "word"), c) : c \in {"upper", "lower", "mixed"}}
  <2>1. Canonical(p) = Id(FALSE, "lower", "word")
    BY <1>4 DEF Canonical
  <2>2. PICK forms : "word" \in forms /\ \A i : Normalize(p, i) = LowerBare(i, forms)
    <3>1. CASE ids = "pcolle"
      <4>1. \A i : Normalize(p, i) = LowerBare(i, {"word"})
        BY <3>1 DEF Normalize
      <4> QED BY <4>1
    <3>2. CASE ids = "h0930"
      <4>1. \A i : Normalize(p, i) = LowerBare(i, {"word", "digits", "short"})
        BY <3>2 DEF Normalize
      <4> QED BY <4>1
    <3> QED BY <1>4, <3>1, <3>2
  <2>3. raw \in C \union {Sited(i) : i \in C}
    BY <1>4, <2>1 DEF Spellings
  <2>4. PICK s, c : raw = Id(s, c, "word")
    <3>1. \A i \in C : \E c : i = Id(FALSE, c, "word")
      BY WordCases, Zenon
    <3>2. \A i \in C : \E c : Sited(i) = Id(TRUE, c, "word")
      <4>1. \A c : Sited(Id(FALSE, c, "word")) = Id(TRUE, c, "word")
        BY IdSites
      <4> QED BY <3>1, <4>1, ZenonT(60)
    <3> HIDE DEF C
    <3>3. raw \in C \/ \E i \in C : raw = Sited(i)
      BY <2>3
    <3> QED BY <3>1, <3>2, <3>3, Zenon
  <2>5. Matching(raw, forms) = raw
    BY <2>2, <2>4, IdFields DEF Matching
  <2>6. LowerBare(raw, forms) = Id(FALSE, "lower", "word")
    <3>1. Bare(raw) = Id(FALSE, c, "word")
      BY <2>4, IdSites, Zenon
    <3> QED BY <2>5, <3>1, WordCases, Zenon DEF LowerBare
  <2> QED BY <2>1, <2>2, <2>6
<1>5. CASE ids \in {"padded", "digits"}
  <2>1. Canonical(p) = Id(FALSE, "none", "digits")
    BY <1>5 DEF Canonical
  <2>2. \A i : Normalize(p, i) = Digits(i)
    BY <1>5 DEF Normalize
  <2>3. PICK f \in {"digits", "short"}, s \in BOOLEAN :
           raw = Id(s, "none", f) /\ (f = "short" => ids = "padded")
    <3>1. ASSUME NEW f PROVE Sited(Id(FALSE, "none", f)) = Id(TRUE, "none", f)
      BY IdSites
    <3>2. CASE ids = "padded"
      <4>1. \/ raw = Canonical(p) \/ raw = Sited(Canonical(p))
            \/ raw = Id(FALSE, "none", "short") \/ raw = Sited(Id(FALSE, "none", "short"))
        BY <3>2 DEF Spellings
      <4> QED BY <2>1, <3>1, <3>2, <4>1
    <3>3. CASE ids = "digits"
      <4>1. raw = Canonical(p) \/ raw = Sited(Canonical(p))
        BY <3>3 DEF Spellings
      <4> QED BY <2>1, <3>1, <3>3, <4>1
    <3> QED BY <1>5, <3>2, <3>3
  <2>4. Matching(raw, {"digits", "short"}) = raw
    BY <2>3, IdFields DEF Matching
  <2>5. Bare(raw) = Id(FALSE, "none", f)
    BY <2>3, IdSites, Zenon
  <2> QED BY <2>1, <2>2, <2>3, <2>4, <2>5 DEF Digits
<1>6. CASE ids = "heydouga"
  <2>1. Canonical(p) = Id(FALSE, "none", "pair")
    BY <1>6 DEF Canonical
  <2>2. \A i : Normalize(p, i) = Bare(Matching(i, {"pair", "series"}))
    BY <1>6 DEF Normalize
  <2>3. raw \in {Canonical(p), Sited(Canonical(p))}
    BY <1>6 DEF Spellings
  <2>4. PICK s : raw = Id(s, "none", "pair")
    <3>1. Sited(Id(FALSE, "none", "pair")) = Id(TRUE, "none", "pair")
      BY IdSites
    <3> QED BY <2>1, <2>3, <3>1
  <2>5. Matching(raw, {"pair", "series"}) = raw
    BY <2>4, IdFields DEF Matching
  <2>6. Bare(Id(s, "none", "pair")) = Id(FALSE, "none", "pair")
    BY IdSites
  <2> QED BY <2>1, <2>2, <2>4, <2>5, <2>6
<1>7. CASE ids \in {"dated3", "dated2", "dashed3"}
  <2>1. Canonical(p) = Id(FALSE, "none", ids)
    BY <1>7 DEF Canonical
  <2>2. \A i : Normalize(p, i) = Exactly(i, ids)
    BY <1>7 DEF Normalize
  <2>3. raw = Canonical(p)
    BY <1>7, Treatments DEF Spellings
  <2>4. raw.site = FALSE /\ raw.form = ids
    <3>1. Id(FALSE, "none", ids).site = FALSE /\ Id(FALSE, "none", ids).form = ids
      BY DEF Id
    <3> QED BY <2>1, <2>3, <3>1, Zenon
  <2> QED BY <2>2, <2>3, <2>4 DEF Exactly, Matching
<1>8. CASE ids \notin {"upper", "avbase", "lower", "pcolle", "h0930", "padded", "digits",
                       "heydouga", "dated3", "dated2", "dashed3"}
  <2>1. Normalize(p, raw) = raw
    BY <1>8 DEF Normalize
  <2>2. raw = Canonical(p) \/ (p \in ThePornDBVideos /\ raw = Id(FALSE, "none", "digits"))
    BY <1>8 DEF Spellings, ThePornDBVideos
  <2> QED BY <2>1, <2>2
<1> QED BY <1>1, <1>2, <1>3, <1>4, <1>5, <1>6, <1>7, <1>8

\* The id that a site has for its movie is looked for as it is.
LEMMA CanonicalNormal ==
    ASSUME NEW p \in Names PROVE Normalize(p, Canonical(p)) = Canonical(p)
<1> DEFINE ids == Site[p].ids
<1>1. CASE ids = "upper"
  <2>1. /\ Canonical(p) = Id(FALSE, "upper", "word")
        /\ Normalize(p, Canonical(p)) = Upper(Canonical(p))
    BY <1>1 DEF Canonical, Normalize
  <2> QED BY <2>1, WordCases, Zenon
<1>2. CASE ids = "avbase"
  <2>1. /\ Canonical(p) = Id(FALSE, "mixed", "maker")
        /\ Normalize(p, Canonical(p)) = UpperUnlessMaker(Canonical(p))
    BY <1>2 DEF Canonical, Normalize
  <2>2. Canonical(p).form = "maker"
    BY <2>1 DEF Id
  <2> QED BY <2>1, <2>2 DEF UpperUnlessMaker
<1>3. CASE ids = "lower"
  <2>1. /\ Canonical(p) = Id(FALSE, "lower", "word")
        /\ Normalize(p, Canonical(p)) = Lower(Canonical(p))
    BY <1>3 DEF Canonical, Normalize
  <2> QED BY <2>1, WordCases, Zenon
<1>4. CASE ids \in {"pcolle", "h0930"}
  <2>1. Canonical(p) = Id(FALSE, "lower", "word")
    BY <1>4 DEF Canonical
  <2>2. PICK forms : "word" \in forms /\ \A i : Normalize(p, i) = LowerBare(i, forms)
    <3>1. CASE ids = "pcolle"
      <4>1. \A i : Normalize(p, i) = LowerBare(i, {"word"})
        BY <3>1 DEF Normalize
      <4> QED BY <4>1
    <3>2. CASE ids = "h0930"
      <4>1. \A i : Normalize(p, i) = LowerBare(i, {"word", "digits", "short"})
        BY <3>2 DEF Normalize
      <4> QED BY <4>1
    <3> QED BY <1>4, <3>1, <3>2
  <2>3. Bare(Id(FALSE, "lower", "word")) = Id(FALSE, "lower", "word")
    BY IdSites
  <2>4. Lower(Id(FALSE, "lower", "word")) = Id(FALSE, "lower", "word")
    BY WordCases
  <2>5. Canonical(p).form = "word"
    BY <2>1 DEF Id
  <2>6. Matching(Canonical(p), forms) = Canonical(p)
    BY <2>2, <2>5 DEF Matching
  <2> QED BY <2>1, <2>2, <2>3, <2>4, <2>6 DEF LowerBare
<1>5. CASE ids \in {"padded", "digits"}
  <2>1. Canonical(p) = Id(FALSE, "none", "digits")
    BY <1>5 DEF Canonical
  <2>2. Normalize(p, Canonical(p)) = Digits(Canonical(p))
    BY <1>5 DEF Normalize
  <2>3. Bare(Id(FALSE, "none", "digits")) = Id(FALSE, "none", "digits")
    BY IdSites
  <2>4. Canonical(p).form = "digits"
    BY <2>1 DEF Id
  <2>5. Matching(Canonical(p), {"digits", "short"}) = Canonical(p)
    BY <2>4 DEF Matching
  <2> QED BY <2>1, <2>2, <2>3, <2>5 DEF Digits
<1>6. CASE ids = "heydouga"
  <2>1. Canonical(p) = Id(FALSE, "none", "pair")
    BY <1>6 DEF Canonical
  <2>2. Normalize(p, Canonical(p)) = Bare(Matching(Canonical(p), {"pair", "series"}))
    BY <1>6 DEF Normalize
  <2>3. Bare(Id(FALSE, "none", "pair")) = Id(FALSE, "none", "pair")
    BY IdSites
  <2>4. Canonical(p).form = "pair"
    BY <2>1 DEF Id
  <2>5. Matching(Canonical(p), {"pair", "series"}) = Canonical(p)
    BY <2>4 DEF Matching
  <2> QED BY <2>1, <2>2, <2>3, <2>5
<1>7. CASE ids \in {"dated3", "dated2", "dashed3"}
  <2>1. Canonical(p) = Id(FALSE, "none", ids)
    BY <1>7 DEF Canonical
  <2>2. Normalize(p, Canonical(p)) = Exactly(Canonical(p), ids)
    BY <1>7 DEF Normalize
  <2>3. Canonical(p).site = FALSE /\ Canonical(p).form = ids
    <3>1. Id(FALSE, "none", ids).site = FALSE /\ Id(FALSE, "none", ids).form = ids
      BY DEF Id
    <3> QED BY <2>1, <3>1, Zenon
  <2> QED BY <2>2, <2>3 DEF Exactly, Matching
<1>8. CASE ids \notin {"upper", "avbase", "lower", "pcolle", "h0930", "padded", "digits",
                       "heydouga", "dated3", "dated2", "dashed3"}
  BY <1>8 DEF Normalize
<1> QED BY <1>1, <1>2, <1>3, <1>4, <1>5, <1>6, <1>7, <1>8

\* So are all the keys of its movie.
LEMMA KeysNormal ==
    ASSUME NEW p \in Names, NEW key \in Keys(p) PROVE Normalize(p, key) = key
<1>1. CASE key = Canonical(p)
  BY <1>1, CanonicalNormal
<1>2. CASE key # Canonical(p)
  <2>1. p = "AVBase" /\ key = Id(FALSE, "upper", "word")
    BY <1>2 DEF Keys
  <2>2. Normalize(p, key) = UpperUnlessMaker(key)
    BY <2>1, Treatments DEF Normalize
  <2>3. key.form # "maker"
    BY <2>1 DEF Id
  <2>4. Upper(key) = key
    BY <2>1, WordCases, Zenon
  <2> QED BY <2>2, <2>3, <2>4 DEF UpperUnlessMaker
<1> QED BY <1>1, <1>2

\* Every provider has an id for its movie.
LEMMA CanonicalIsId == ASSUME NEW p \in Names PROVE Canonical(p) # NoId
<1>1. \E s, c, f : f # "empty" /\ Canonical(p) = Id(s, c, f)
  BY Treatments DEF Canonical
<1> QED BY <1>1, IdDiffers

\* A provider's own pages carry that id, on its host and path but for the
\* second shop.
LEMMA OwnPages ==
    ASSUME NEW p \in Names, NEW page \in Pages(p, Canonical(p))
    PROVE  /\ page.id = Canonical(p) /\ page.path = Site[p].base
           /\ page.host = Site[p].host \/ page.host = "video.dmm.co.jp"
<1> DEFINE home == Page(Site[p].host, Site[p].base, Canonical(p))
<1>1. home.id = Canonical(p) /\ home.path = Site[p].base /\ home.host = Site[p].host
  BY DEF Page
<1>2. CASE p = "FANZA"
  <2>1. \E host \in {"www.dmm.co.jp", "video.dmm.co.jp"} : page = Page(host, <<>>, Canonical(p))
    BY <1>2 DEF Pages, FANZAPages
  <2>2. Site[p].host = "www.dmm.co.jp" /\ Site[p].base = <<>>
    <3>1. Site["FANZA"].base = <<>>
      BY BasesAre, Zenon
    <3> QED BY <1>2, <3>1, SecondHost
  <2> QED BY <2>1, <2>2 DEF Page
<1>3. CASE p # "FANZA"
  <2>1. Site[p].ids = "padded" => [home EXCEPT !.id = Padded(Canonical(p))] = home
    <3>1. ASSUME Site[p].ids = "padded" PROVE Padded(Canonical(p)) = Canonical(p)
      <4>1. Canonical(p) = Id(FALSE, "none", "digits")
        BY <3>1 DEF Canonical
      <4>2. Canonical(p).form # "short"
        BY <4>1 DEF Id
      <4> QED BY <4>2 DEF Padded
    <3>2. [home EXCEPT !.id = Canonical(p)] = home
      BY DEF Page
    <3> QED BY <3>1, <3>2
  <2> HIDE DEF home
  <2>2. page = home
    BY <1>3, <2>1 DEF Pages, PagesOf, home
  <2> QED BY <1>1, <2>2
<1> QED BY <1>2, <1>3

\* And there is one.
LEMMA HasPage ==
    ASSUME NEW p \in Names PROVE Pages(p, Canonical(p)) # {}
<1>1. CASE p = "FANZA"
  BY <1>1 DEF Pages, FANZAPages
<1>2. CASE p # "FANZA" /\ Site[p].ids \in {"heydouga", "pair"}
  <2>1. Canonical(p) = Id(FALSE, "none", "pair")
    BY <1>2 DEF Canonical
  <2>2. Canonical(p).form = "pair"
    BY <2>1 DEF Id
  <2> QED BY <1>2, <2>2 DEF Pages, PagesOf
<1>3. CASE p # "FANZA" /\ Site[p].ids \notin {"heydouga", "pair"}
  BY <1>3 DEF Pages, PagesOf
<1> QED BY <1>1, <1>2, <1>3

\* What is parsed out of a page that is the provider's is its id.
LEMMA ParseOwn ==
    ASSUME NEW p \in Names, NEW page, page.id = Canonical(p)
    PROVE  Parse(p, page) = Canonical(p)
<1> DEFINE ids == Site[p].ids
<1>1. CASE ids \in {"upper", "avbase", "lower", "pcolle"}
  BY <1>1, CanonicalNormal DEF Parse
<1>2. CASE ids \in {"heydouga", "pair"}
  <2>1. Canonical(p) = Id(FALSE, "none", "pair")
    BY <1>2 DEF Canonical
  <2>2. Canonical(p).form = "pair"
    BY <2>1 DEF Id
  <2>3. Parse(p, page) = Matching(Canonical(p), {"pair"})
    BY <1>2 DEF Parse
  <2> QED BY <2>2, <2>3 DEF Matching
<1>3. CASE ids \notin {"upper", "avbase", "lower", "pcolle", "heydouga", "pair"}
  BY <1>3 DEF Parse
<1> QED BY <1>1, <1>2, <1>3

\* A page that is served gives the movie one of its keys, whatever was asked for.
LEMMA ServedKey ==
    ASSUME NEW p \in Names, NEW page, Serves(p, page), NEW key \in InfoIDs(p, page)
    PROVE  key \in Keys(p)
<1>1. CASE page.id = Canonical(p)
  <2>1. key = Canonical(p)
    BY <1>1, ParseOwn DEF InfoIDs
  <2> QED BY <2>1 DEF Keys
<1>2. CASE p = "AVBase" /\ page.id = Id(FALSE, "upper", "word")
  <2>1. page.id \in Keys(p)
    BY <1>2 DEF Keys
  <2>2. Parse(p, page) = page.id
    BY <1>2, <2>1, KeysNormal, Treatments DEF Parse
  <2>3. key = Canonical(p) \/ key = Parse(p, page)
    BY <1>2 DEF InfoIDs
  <2> QED BY <2>1, <2>2, <2>3 DEF Keys
<1>3. CASE p \in ThePornDBVideos
  <2>1. key = Canonical(p)
    BY <1>3 DEF InfoIDs, ThePornDBVideos
  <2> QED BY <2>1 DEF Keys
<1> QED BY <1>1, <1>2, <1>3 DEF Serves, ThePornDBVideos

\* Every spelling leads to a page that is served.
LEMMA SpellingsServed ==
    ASSUME NEW p \in Names, NEW raw \in Spellings(p)
    PROVE  /\ Normalize(p, raw) # NoId
           /\ \E page \in Pages(p, Normalize(p, raw)) : Serves(p, page)
<1>1. CASE Normalize(p, raw) = Canonical(p)
  BY <1>1, CanonicalIsId, HasPage, OwnPages DEF Serves
<1>2. CASE p = "AVBase" /\ Normalize(p, raw) = Id(FALSE, "upper", "word")
  <2>1. Normalize(p, raw) # NoId
    BY <1>2, IdDiffers
  <2>2. Pages(p, Normalize(p, raw)) = {Page(Site[p].host, Site[p].base, Normalize(p, raw))}
    BY <1>2, Treatments DEF Pages, PagesOf
  <2>3. Page(Site[p].host, Site[p].base, Normalize(p, raw)).id = Id(FALSE, "upper", "word")
    BY <1>2 DEF Page
  <2> QED BY <1>2, <2>1, <2>2, <2>3 DEF Serves
<1>3. CASE Site[p].ids = "padded" /\ Normalize(p, raw) = Id(FALSE, "none", "short")
  <2> DEFINE key == Id(FALSE, "none", "short")
             home == Page(Site[p].host, Site[p].base, key)
  <2>1. Padded(key) = Id(FALSE, "none", "digits")
    BY DEF Padded, Id
  <2>2. [home EXCEPT !.id = Padded(key)].id = Padded(key)
    BY DEF Page
  <2>3. p # "FANZA"
    BY <1>3, Treatments
  <2>4. Pages(p, key) = {[home EXCEPT !.id = Padded(key)]}
    BY <1>3, <2>3 DEF Pages, PagesOf
  <2>5. Canonical(p) = Id(FALSE, "none", "digits")
    BY <1>3 DEF Canonical
  <2>6. key # NoId
    BY IdDiffers
  <2> HIDE DEF home, key
  <2>7. Normalize(p, raw) = key
    BY <1>3 DEF key
  <2> QED BY <2>1, <2>2, <2>4, <2>5, <2>6, <2>7 DEF Serves
<1>4. CASE p \in ThePornDBVideos /\ Normalize(p, raw) = Id(FALSE, "none", "digits")
  <2>1. Normalize(p, raw) # NoId
    BY <1>4, IdDiffers
  <2>2. Site[p].ids = "as is" /\ p # "FANZA"
    BY <1>4, Treatments DEF ThePornDBVideos
  <2>3. Pages(p, Normalize(p, raw)) = {Page(Site[p].host, Site[p].base, Normalize(p, raw))}
    BY <2>2 DEF Pages, PagesOf
  <2>4. Page(Site[p].host, Site[p].base, Normalize(p, raw)).id = Id(FALSE, "none", "digits")
    BY <1>4 DEF Page
  <2> QED BY <1>4, <2>1, <2>3, <2>4 DEF Serves, ThePornDBVideos
<1> QED BY <1>1, <1>2, <1>3, <1>4, SpellingsNormalize

-----------------------------------------------------------------------------
\* The maps of the engine.

\* The providers by name are the enabled ones that the loops have reached, and
\* the list of a host has those of them that are on it.
Registered ==
    /\ installed \subseteq Names /\ left \subseteq installed
    /\ byName = {p \in installed \ left : Enabled(p)}
    /\ byHost \in [{"actor", "movie"} -> [Hosts -> Seq(Names)]]
    /\ \A k \in {"actor", "movie"}, h \in Hosts :
          \A p : (\E i \in DOMAIN byHost[k][h] : byHost[k][h][i] = p)
                 <=> p \in byName /\ Kind(p) = k /\ Site[p].host = h

\* The rows are of movies under their own keys, and a lookup has been answered
\* only by an engine that has started.
Answers ==
    /\ OneKeyPerMovie
    /\ reply # None => left = {}

RegistryInv == Registered /\ Answers

\* Nothing is registered at first.
LEMMA RegistryInvInit == RegistryInit => RegistryInv
<1> SUFFICES ASSUME RegistryInit PROVE RegistryInv
  OBVIOUS
<1>1. installed \subseteq Names
  BY InstallationsAssumption DEF RegistryInit
<1>2. Registered
  BY <1>1 DEF RegistryInit, Registered
<1>3. Answers
  BY DEF RegistryInit, Answers, OneKeyPerMovie
<1> QED BY <1>2, <1>3 DEF RegistryInv

\* One iteration of a loop.
LEMMA InitProviderStep ==
    ASSUME NEW p \in left PROVE RegistryInv /\ InitProvider(p) => RegistryInv'
<1> SUFFICES ASSUME RegistryInv, InitProvider(p) PROVE RegistryInv'
  OBVIOUS
<1> DEFINE k == Kind(p)
           h == Site[p].host
<1>1. p \in Names /\ k \in {"actor", "movie"} /\ h \in Hosts
  BY DEF RegistryInv, Registered, Kind, Hosts
<1>2. /\ left' = left \ {p}
      /\ installed' = installed /\ config' = config /\ rows' = rows /\ reply' = reply
  BY DEF InitProvider
<1>3. \A q : Enabled(q)' <=> Enabled(q)
  BY <1>2 DEF Enabled
<1>4. installed \subseteq Names /\ left \subseteq installed /\ byName = {q \in installed \ left : Enabled(q)}
  BY DEF RegistryInv, Registered
<1>5. reply = None
  BY DEF RegistryInv, Answers
<1>6. CASE Enabled(p)
  <2>1. /\ byName' = byName \union {p}
        /\ byHost' = [byHost EXCEPT ![k][h] = Append(@, p)]
    BY <1>6 DEF InitProvider
  <2>2. byName' = {q \in installed' \ left' : Enabled(q)'}
    BY <1>2, <1>3, <1>4, <1>6, <2>1
  <2>3. byHost \in [{"actor", "movie"} -> [Hosts -> Seq(Names)]]
    BY DEF RegistryInv, Registered
  <2>4. byHost[k][h] \in Seq(Names) /\ Append(byHost[k][h], p) \in Seq(Names)
    BY <1>1, <2>3
  <2>5. /\ byHost' \in [{"actor", "movie"} -> [Hosts -> Seq(Names)]]
        /\ byHost'[k][h] = Append(byHost[k][h], p)
        /\ \A j \in {"actor", "movie"}, g \in Hosts :
              j # k \/ g # h => byHost'[j][g] = byHost[j][g]
    BY <1>1, <2>1, <2>3, <2>4
  <2>6. ASSUME NEW q
        PROVE  (\E i \in DOMAIN byHost'[k][h] : byHost'[k][h][i] = q)
               <=> q = p \/ \E i \in DOMAIN byHost[k][h] : byHost[k][h][i] = q
    <3> DEFINE s == byHost[k][h]
    <3>1. /\ DOMAIN s = 1..Len(s) /\ Len(s) \in Nat
          /\ DOMAIN Append(s, p) = 1..Len(s) + 1
          /\ Append(s, p)[Len(s) + 1] = p
          /\ \A i \in 1..Len(s) : Append(s, p)[i] = s[i]
      <4>1. s \in Seq(Names) /\ p \in Names
        BY <2>4, <1>1
      <4> HIDE DEF s
      <4> QED BY <4>1
    <3> HIDE DEF s
    <3>2. \A i : i \in 1..Len(s) + 1 <=> i \in 1..Len(s) \/ i = Len(s) + 1
      BY <3>1
    <3>3. (\E i \in DOMAIN Append(s, p) : Append(s, p)[i] = q)
          <=> q = p \/ \E i \in DOMAIN s : s[i] = q
      BY <3>1, <3>2, Zenon
    <3> QED BY <2>5, <3>3 DEF s
  <2>7. ASSUME NEW j \in {"actor", "movie"}, NEW g \in Hosts, NEW q
        PROVE  (\E i \in DOMAIN byHost'[j][g] : byHost'[j][g][i] = q)
               <=> q \in byName' /\ Kind(q) = j /\ Site[q].host = g
    <3>1. (\E i \in DOMAIN byHost[j][g] : byHost[j][g][i] = q)
          <=> q \in byName /\ Kind(q) = j /\ Site[q].host = g
      BY DEF RegistryInv, Registered
    <3>2. CASE j = k /\ g = h
      <4>1. (\E i \in DOMAIN byHost'[j][g] : byHost'[j][g][i] = q)
            <=> q = p \/ \E i \in DOMAIN byHost[j][g] : byHost[j][g][i] = q
        BY <2>6, <3>2, Zenon
      <4> QED BY <4>1, <3>1, <3>2, <2>1
    <3>3. CASE ~ (j = k /\ g = h)
      <4>1. byHost'[j][g] = byHost[j][g]
        BY <3>3, <2>5
      <4>2. q \in byName' /\ Kind(q) = j /\ Site[q].host = g
            <=> q \in byName /\ Kind(q) = j /\ Site[q].host = g
        BY <3>3, <2>1
      <4> QED BY <3>1, <4>1, <4>2
    <3> QED BY <3>2, <3>3
  <2>8. Registered'
    BY <1>2, <1>4, <2>2, <2>5, <2>7 DEF Registered
  <2>9. Answers'
    BY <1>2, <1>5 DEF RegistryInv, Answers, OneKeyPerMovie
  <2> QED BY <2>8, <2>9 DEF RegistryInv
<1>7. CASE ~ Enabled(p)
  <2>1. byName' = byName /\ byHost' = byHost
    BY <1>7 DEF InitProvider
  <2>2. byName' = {q \in installed' \ left' : Enabled(q)'}
    BY <1>2, <1>3, <1>4, <1>7, <2>1
  <2>3. Registered'
    BY <1>2, <1>4, <2>1, <2>2 DEF RegistryInv, Registered
  <2>4. Answers'
    BY <1>2, <1>5 DEF RegistryInv, Answers, OneKeyPerMovie
  <2> QED BY <2>3, <2>4 DEF RegistryInv
<1> QED BY <1>6, <1>7

\* A path begins with itself, and the base URL of no other provider of the kind
\* is a beginning of a provider's page.
LEMMA OwnsPage ==
    ASSUME NEW p \in Names, NEW q \in Names, Site[q].host = Site[p].host
    PROVE  IsPrefix(Site[q].base, Site[p].base) <=> q = p
<1>1. Len(Site[p].base) <= Len(Site[p].base)
  BY BaseLen
<1>2. IsPrefix(Site[p].base, Site[p].base)
  BY <1>1 DEF IsPrefix
<1>3. ASSUME IsPrefix(Site[q].base, Site[p].base) PROVE q = p
  BY <1>3, OwnHost, OwnPath
<1> QED BY <1>2, <1>3

\* Which provider the URL of a page is found to be of.
LEMMA Resolves ==
    ASSUME Registered, NEW p \in Names, NEW page \in Pages(p, Canonical(p))
    PROVE  ProviderByURL(Kind(p), page) =
               IF p \in byName /\ page.host = Site[p].host THEN p ELSE None
<1> DEFINE k == Kind(p)
           found == IF page.host \in Hosts THEN byHost[k][page.host] ELSE <<>>
           onPath == {i \in DOMAIN found : IsPrefix(Site[found[i]].base, page.path)}
<1>1. k \in {"actor", "movie"} /\ Site[p].host \in Hosts /\ page.path = Site[p].base
  BY OwnPages DEF Kind, Hosts
<1>2. ProviderByURL(k, page) = IF onPath = {} THEN None ELSE found[Min(onPath)]
  BY DEF ProviderByURL
<1>3. CASE page.host # Site[p].host
  <2>1. page.host \notin Hosts
    BY <1>3, OwnPages, SecondHost DEF Hosts
  <2>2. onPath = {}
    BY <2>1
  <2> HIDE DEF onPath, found
  <2> QED BY <1>2, <1>3, <2>2
<1>4. CASE page.host = Site[p].host
  <2>1. found = byHost[k][Site[p].host]
    BY <1>1, <1>4
  <2>2. found \in Seq(Names)
    BY <1>1, <2>1 DEF Registered
  <2>3. \A q : (\E i \in DOMAIN found : found[i] = q)
               <=> q \in byName /\ Kind(q) = k /\ Site[q].host = Site[p].host
    BY <1>1, <2>1 DEF Registered
  <2>4. Len(found) \in Nat /\ DOMAIN found = 1..Len(found)
        /\ \A i \in DOMAIN found : found[i] \in Names
    <3> HIDE DEF found
    <3> QED BY <2>2
  <2> HIDE DEF found
  <2>5. \A i \in DOMAIN found : i \in onPath <=> found[i] = p
    <3> SUFFICES ASSUME NEW i \in DOMAIN found PROVE i \in onPath <=> found[i] = p
      OBVIOUS
    <3>1. found[i] \in Names /\ Site[found[i]].host = Site[p].host
      BY <2>3, <2>4
    <3> QED BY <3>1, <1>1, OwnsPage
  <2>6. onPath \in SUBSET (1..Len(found))
    BY <2>4
  <2> HIDE DEF onPath
  <2>7. CASE p \in byName
    <3>1. onPath # {}
      BY <2>3, <2>5, <2>7
    <3>2. Min(onPath) \in onPath
      BY <2>4, <2>6, <3>1, MaxMin
    <3>3. found[Min(onPath)] = p
      BY <2>4, <2>5, <2>6, <3>2
    <3> QED BY <1>2, <1>4, <2>7, <3>1, <3>3
  <2>8. CASE p \notin byName
    <3>1. onPath = {}
      BY <2>3, <2>4, <2>5, <2>6, <2>8
    <3> QED BY <1>2, <1>4, <2>8, <3>1
  <2> QED BY <2>7, <2>8
<1> QED BY <1>3, <1>4

\* The rows are under the keys of their movies.
Own(table) == \A row \in table :
                 row \in RowsOf(row.provider) /\ Normalize(row.provider, row.id) = row.id

\* A row under one of the keys of its movie is in order.
LEMMA OwnRow ==
    ASSUME NEW p \in Names, NEW key \in Keys(p)
    PROVE  LET row == [provider |-> p, id |-> key] IN row \in RowsOf(p) /\ Own({row})
BY KeysNormal DEF Own, RowsOf

\* A lookup of a provider that has rows under their own keys only saves such a
\* row and answers with one, or with nothing where there is no page.
LEMMA FetchStep ==
    ASSUME NEW p \in Names, NEW raw, NEW pages, NEW lazy, NEW asked,
           Own(rows), Fetch(p, raw, pages, lazy, asked)
    PROVE  /\ Own(rows')
           /\ \/ \E row \in RowsOf(p) : reply' = [asked |-> asked, answer |-> row]
              \/ /\ reply' = [asked |-> asked, answer |-> None]
                 /\ \A page \in pages : ~ Serves(p, page)
<1> DEFINE hits == {row \in rows : row.provider = p /\ SameButCase(row.id, raw)}
           served == {page \in pages : Serves(p, page)}
<1>1. CASE /\ \E row \in hits : Answered(asked, row)
           /\ rows' = rows
  BY <1>1 DEF Answered, Own
<1>2. CASE served = {} /\ Answered(asked, None) /\ rows' = rows
  BY <1>2 DEF Answered
<1>3. ASSUME NEW page \in served, NEW key \in SavedAs(p, page, raw),
             Answered(asked, [provider |-> p, id |-> key]),
             rows' = rows \union {[provider |-> p, id |-> key]}
      PROVE  /\ Own(rows')
             /\ \E row \in RowsOf(p) : reply' = [asked |-> asked, answer |-> row]
  <2>1. key \in Keys(p)
    BY ServedKey DEF SavedAs
  <2>2. [provider |-> p, id |-> key] \in RowsOf(p) /\ Own({[provider |-> p, id |-> key]})
    BY <2>1, OwnRow
  <2> QED BY <1>3, <2>2 DEF Answered, Own
<1> QED BY <1>1, <1>2, <1>3, Zenon DEF Fetch

\* A lookup leaves the maps of the engine alone.
LEMMA LookupKeepsMaps ==
    ASSUME Registered, UNCHANGED <<installed, config, left, byName, byHost>> PROVE Registered'
BY DEF Registered, Enabled

\* By an id, in one of the spellings or in none.
LEMMA ByIDStep ==
    ASSUME NEW p \in Names, NEW raw, NEW lazy PROVE RegistryInv /\ ByID(p, raw, lazy) => RegistryInv'
<1> SUFFICES ASSUME RegistryInv, ByID(p, raw, lazy) PROVE RegistryInv'
  OBVIOUS
<1> DEFINE asked == [provider |-> p, id |-> raw, lazy |-> lazy]
           key == Normalize(p, raw)
<1>1. UNCHANGED <<installed, config, left, byName, byHost>> /\ left' = {}
  BY DEF ByID
<1>2. Registered'
  BY <1>1, LookupKeepsMaps DEF RegistryInv
<1>3. Own(rows)
  BY DEF RegistryInv, Answers, OneKeyPerMovie, Own
<1>4. /\ Own(rows')
      /\ \/ /\ p \in byName
            /\ \E row \in RowsOf(p) : reply' = [asked |-> asked, answer |-> row]
         \/ /\ reply' = [asked |-> asked, answer |-> None]
            /\ p \in byName => raw \notin Spellings(p)
  <2>1. CASE p \notin byName \/ key = NoId
    <3>1. Answered(asked, None) /\ rows' = rows
      BY <2>1 DEF ByID
    <3> QED BY <1>3, <2>1, <3>1, SpellingsServed DEF Answered
  <2>2. CASE ~ (p \notin byName \/ key = NoId)
    <3>1. Fetch(p, key, Pages(p, key), lazy, asked)
      BY <2>2 DEF ByID
    <3>2. /\ Own(rows')
          /\ \/ \E row \in RowsOf(p) : reply' = [asked |-> asked, answer |-> row]
             \/ /\ reply' = [asked |-> asked, answer |-> None]
                /\ \A page \in Pages(p, key) : ~ Serves(p, page)
      BY <1>3, <3>1, FetchStep
    <3> QED BY <2>2, <3>2, SpellingsServed
  <2> QED BY <2>1, <2>2
<1>5. /\ reply'.asked = asked /\ "page" \notin DOMAIN asked
      /\ asked.provider = p /\ asked.id = raw
      /\ \/ p \in byName /\ reply'.answer \in RowsOf(p)
         \/ reply'.answer = None /\ (p \in byName => raw \notin Spellings(p))
  BY <1>4
<1> HIDE DEF asked, key
<1>6. OneKeyPerMovie'
  BY <1>1, <1>4, <1>5 DEF OneKeyPerMovie, Own
<1> QED BY <1>1, <1>2, <1>6 DEF RegistryInv, Answers

\* By the URL of a page of an installed provider, whoever else has the host.
LEMMA ByURLStep ==
    ASSUME NEW p \in MovieNames, NEW page \in Pages(p, Canonical(p)), NEW lazy
    PROVE  RegistryInv /\ ByURL(page, lazy) => RegistryInv'
<1> SUFFICES ASSUME RegistryInv, ByURL(page, lazy) PROVE RegistryInv'
  OBVIOUS
<1> DEFINE asked == [page |-> page, lazy |-> lazy]
           q == ProviderByURL("movie", page)
<1>1. UNCHANGED <<installed, config, left, byName, byHost>> /\ left' = {}
  BY DEF ByURL
<1>2. Registered /\ Registered'
  BY <1>1, LookupKeepsMaps DEF RegistryInv
<1>3. Own(rows)
  BY DEF RegistryInv, Answers, OneKeyPerMovie, Own
<1>4. p \in Names /\ Kind(p) = "movie"
  BY DEF MovieNames, Kind
<1>5. q = IF p \in byName /\ page.host = Site[p].host THEN p ELSE None
  BY <1>2, <1>4, Resolves
<1>6. page.id = Canonical(p) /\ Parse(p, page) = Canonical(p) /\ Canonical(p) # NoId
      /\ Serves(p, page)
  BY <1>4, OwnPages, ParseOwn, CanonicalIsId DEF Serves
<1>7. p # None
  BY <1>4, NoneAssumption
<1>8. /\ Own(rows')
      /\ IF p \in byName /\ page.host = Site[p].host
            THEN \E row \in RowsOf(p) : reply' = [asked |-> asked, answer |-> row]
            ELSE reply' = [asked |-> asked, answer |-> None]
  <2>1. CASE p \in byName /\ page.host = Site[p].host
    <3>1. q = p
      BY <1>5, <2>1
    <3>2. Fetch(p, Parse(p, page), {page}, lazy, asked)
      BY <1>6, <1>7, <3>1 DEF ByURL
    <3>3. /\ Own(rows')
          /\ \/ \E row \in RowsOf(p) : reply' = [asked |-> asked, answer |-> row]
             \/ /\ reply' = [asked |-> asked, answer |-> None]
                /\ \A pg \in {page} : ~ Serves(p, pg)
      BY <1>3, <1>4, <3>2, FetchStep
    <3> QED BY <1>6, <2>1, <3>3
  <2>2. CASE ~ (p \in byName /\ page.host = Site[p].host)
    <3>1. q = None
      BY <1>5, <2>2
    <3>2. Answered(asked, None) /\ rows' = rows
      BY <3>1 DEF ByURL
    <3> QED BY <1>3, <2>2, <3>2 DEF Answered
  <2> QED BY <2>1, <2>2
<1>9. ASSUME NEW r \in byName, page.host = Site[r].host, page \in Pages(r, Canonical(r))
      PROVE  r = p
  <2>1. r \in Names
    BY <1>2 DEF Registered
  <2>2. Site[p].host = Site[r].host
    BY <1>4, <1>9, <2>1, OwnPages, SecondHost
  <2>3. Site[p].base = Site[r].base
    BY <1>4, <1>9, <2>1, OwnPages
  <2> QED BY <1>4, <2>1, <2>2, <2>3, OwnsPage
<1>10. /\ reply'.asked = asked /\ "page" \in DOMAIN asked /\ asked.page = page
       /\ reply'.answer = None \/ \E r \in byName : reply'.answer \in RowsOf(r)
       /\ \A r \in byName : page.host = Site[r].host /\ page \in Pages(r, Canonical(r))
                           => reply'.answer \in RowsOf(r)
  <2>1. CASE p \in byName /\ page.host = Site[p].host
    <3>1. PICK row \in RowsOf(p) : reply' = [asked |-> asked, answer |-> row]
      BY <1>8, <2>1
    <3> QED BY <1>9, <2>1, <3>1
  <2>2. CASE ~ (p \in byName /\ page.host = Site[p].host)
    <3>1. reply' = [asked |-> asked, answer |-> None]
      BY <1>8, <2>2
    <3> QED BY <1>9, <2>2, <3>1
  <2> QED BY <2>1, <2>2
<1> HIDE DEF asked, q
<1>11. OneKeyPerMovie'
  BY <1>1, <1>8, <1>10 DEF OneKeyPerMovie, Own
<1> QED BY <1>1, <1>2, <1>11 DEF RegistryInv, Answers

\* The start of the engine and the lookups preserve the invariant.
LEMMA RegistryInvStep == RegistryInv /\ [RegistryNext]_registry => RegistryInv'
<1> SUFFICES ASSUME RegistryInv, [RegistryNext]_registry PROVE RegistryInv'
  OBVIOUS
<1>1. ASSUME NEW p \in left, InitActorProvider(p) \/ InitMovieProvider(p) PROVE RegistryInv'
  BY <1>1, InitProviderStep DEF InitActorProvider, InitMovieProvider
<1>2. ASSUME NEW p \in installed \intersect MovieNames, NEW lazy \in BOOLEAN,
             NEW raw, ByID(p, raw, lazy)
      PROVE  RegistryInv'
  BY <1>2, ByIDStep DEF MovieNames
<1>3. ASSUME NEW p \in installed \intersect MovieNames, NEW lazy \in BOOLEAN,
             NEW page \in Pages(p, Canonical(p)), ByURL(page, lazy)
      PROVE  RegistryInv'
  BY <1>3, ByURLStep
<1>4. CASE UNCHANGED registry
  BY <1>4 DEF registry, RegistryInv, Registered, Answers, OneKeyPerMovie, Enabled
<1> QED BY <1>1, <1>2, <1>3, <1>4 DEF RegistryNext

LEMMA RegistryInvariant == RegistrySpec => []RegistryInv
<1> QED BY RegistryInvInit, RegistryInvStep, PTL DEF RegistrySpec

\* Whatever set of providers a program has imported and whichever of them the
\* operator turned off, and in whatever order the loops entered them into the
\* engine's maps, a movie is answered and stored under its key: the one that
\* its site has, or with AVBase, of which the metadata keep the id that was
\* asked for when no source provider answers (avbase.go:117-119, 148-149), one
\* of two.
THEOREM KeysAreUnique == RegistrySpec => []OneKeyPerMovie
<1>1. RegistryInv => OneKeyPerMovie
  BY DEF RegistryInv, Answers
<1> QED BY <1>1, RegistryInvariant, PTL

\* And the page of each provider is found to be of that one, or of nobody.
THEOREM PagesAreResolved == RegistrySpec => []PagesResolve
<1>1. RegistryInv => PagesResolve
  <2> SUFFICES ASSUME Registered, left = {},
                      NEW p \in installed, NEW page \in Pages(p, Canonical(p))
               PROVE  ProviderByURL(Kind(p), page) =
                          IF Enabled(p) /\ page.host = Site[p].host THEN p ELSE None
    BY DEF RegistryInv, PagesResolve
  <2>1. p \in Names /\ (p \in byName <=> Enabled(p))
    BY DEF Registered
  <2> QED BY <2>1, Resolves
<1> QED BY <1>1, RegistryInvariant, PTL
=============================================================================
