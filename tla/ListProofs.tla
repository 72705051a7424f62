----------------------------- MODULE ListProofs -----------------------------
(***************************************************************************)
(* What module ResultLists says of lists, for lists of every length.  An     *)
(* element of an ordered set stands at the place that the number of those     *)
(* before it gives; the order determines the list, and every lemma about a    *)
(* list that is picked, deduplicated or sorted compares two lists by giving   *)
(* the places of their items.                                                *)
(***************************************************************************)
EXTENDS ResultLists, FiniteSetTheorems, SequenceTheorems, TLAPS

\* A strict order of I in which any two elements are comparable.
StrictOrder(I, before) ==
    /\ \A i \in I : <<i, i>> \notin before
    /\ \A i, j, k \in I : <<i, j>> \in before /\ <<j, k>> \in before => <<i, k>> \in before
    /\ \A i, j \in I : i # j => <<i, j>> \in before \/ <<j, i>> \in before

\* The elements of I before i.
Below(I, before, i) == {j \in I : <<j, i>> \in before}

\* at lists the elements of I in order.
Lists(at, I, before) ==
    /\ at \in [1..Cardinality(I) -> I]
    /\ \A i \in I : \E k \in 1..Cardinality(I) : at[k] = i
    /\ \A k, l \in 1..Cardinality(I) : k < l <=> <<at[k], at[l]>> \in before

\* The places in an ordered set are the numbers up to its size.
LEMMA OrderedLists ==
    ASSUME NEW I, IsFiniteSet(I), NEW before, StrictOrder(I, before)
    PROVE  Lists(Ordered(I, before), I, before)
<1> DEFINE n == Cardinality(I)
           B(i) == Below(I, before, i)
           place == [i \in I |-> Cardinality(B(i)) + 1]
           at == Ordered(I, before)
<1>1. n \in Nat
  BY FS_CardinalityType
<1>2. ASSUME NEW i \in I
      PROVE  IsFiniteSet(B(i)) /\ Cardinality(B(i)) \in Nat /\ Cardinality(B(i)) < n
  <2>1. B(i) \in SUBSET I /\ B(i) # I
    BY DEF Below, StrictOrder
  <2>2. IsFiniteSet(B(i)) /\ Cardinality(B(i)) <= n /\ Cardinality(B(i)) # n
    BY <2>1, FS_Subset
  <2> QED BY <1>1, <2>2, FS_CardinalityType
<1>3. ASSUME NEW i \in I, NEW j \in I, <<i, j>> \in before
      PROVE  Cardinality(B(i)) < Cardinality(B(j))
  <2>1. B(i) \in SUBSET B(j) /\ B(i) # B(j)
    BY <1>3 DEF Below, StrictOrder
  <2>2. Cardinality(B(i)) <= Cardinality(B(j)) /\ Cardinality(B(i)) # Cardinality(B(j))
    BY <1>2, <2>1, FS_Subset
  <2> QED BY <1>2, <2>2
<1>4. place \in Injection(I, 1..n)
  <2>1. \A i \in I : place[i] \in 1..n
    <3> HIDE DEF B, n
    <3> QED BY <1>1, <1>2
  <2>2. ASSUME NEW i \in I, NEW j \in I, place[i] = place[j] PROVE i = j
    <3>1. Cardinality(B(i)) = Cardinality(B(j)) /\ Cardinality(B(i)) \in Nat
      <4> HIDE DEF B
      <4> QED BY <1>2, <2>2
    <3>2. ~ (<<i, j>> \in before) /\ ~ (<<j, i>> \in before)
      BY <1>3, <3>1
    <3> QED BY <3>2 DEF StrictOrder
  <2>3. place \in [I -> 1..n]
    BY <2>1
  <2> HIDE DEF place
  <2> QED BY <2>2, <2>3 DEF Injection, IsInjective
<1>5. \A k \in 1..n : \E i \in I : place[i] = k
  <2>1. IsFiniteSet(1..n) /\ Cardinality(1..n) = n
    BY <1>1, FS_Interval
  <2>2. place \in Surjection(I, 1..n)
    BY <1>4, <2>1, FS_Injection
  <2> HIDE DEF place
  <2> QED BY <2>2 DEF Surjection
<1>6. ASSUME NEW k \in 1..n PROVE at[k] \in I /\ place[at[k]] = k
  <2>1. \E i \in I : Cardinality(B(i)) = k - 1
    <3>1. PICK i \in I : place[i] = k
      BY <1>5
    <3>2. Cardinality(B(i)) \in Nat /\ Cardinality(B(i)) + 1 = k
      BY <1>2, <3>1
    <3> HIDE DEF B
    <3> QED BY <3>2
  <2>2. at[k] = CHOOSE i \in I : Cardinality(B(i)) = k - 1
    BY DEF Ordered, Below
  <2>3. at[k] \in I /\ Cardinality(B(at[k])) = k - 1
    <3> HIDE DEF B, at
    <3> QED BY <2>1, <2>2
  <2> HIDE DEF B, at
  <2> QED BY <2>3, <1>1
<1>7. at \in [1..n -> I]
  <2> DEFINE C(k) == CHOOSE i \in I : Cardinality(B(i)) = k - 1
  <2>1. at = [k \in 1..n |-> C(k)]
    BY DEF Ordered, Below
  <2> HIDE DEF at, C
  <2> QED BY <1>6, <2>1
<1>8. ASSUME NEW i \in I PROVE \E k \in 1..n : at[k] = i
  <2>1. place[i] \in 1..n /\ place[at[place[i]]] = place[i] /\ at[place[i]] \in I
    <3> HIDE DEF place, at
    <3> QED BY <1>4, <1>6 DEF Injection, IsInjective
  <2> HIDE DEF place, at
  <2> QED BY <1>4, <2>1 DEF Injection, IsInjective
<1>9. ASSUME NEW k \in 1..n, NEW l \in 1..n PROVE k < l <=> <<at[k], at[l]>> \in before
  <2> HIDE DEF at
  <2>1. /\ at[k] \in I /\ Cardinality(B(at[k])) + 1 = k /\ Cardinality(B(at[k])) \in Nat
        /\ at[l] \in I /\ Cardinality(B(at[l])) + 1 = l /\ Cardinality(B(at[l])) \in Nat
    BY <1>2, <1>6
  <2>2. CASE at[k] = at[l]
    BY <2>1, <2>2 DEF StrictOrder
  <2>3. CASE <<at[k], at[l]>> \in before
    <3>1. Cardinality(B(at[k])) < Cardinality(B(at[l]))
      BY <1>3, <2>1, <2>3
    <3> HIDE DEF B
    <3> QED BY <2>1, <2>3, <3>1
  <2>4. CASE <<at[l], at[k]>> \in before
    <3>1. Cardinality(B(at[l])) < Cardinality(B(at[k]))
      BY <1>3, <2>1, <2>4
    <3>2. ~ (k < l)
      <4> HIDE DEF B
      <4> QED BY <2>1, <3>1
    <3>3. ~ (<<at[k], at[l]>> \in before)
      BY <2>1, <2>4 DEF StrictOrder
    <3> QED BY <3>2, <3>3
  <2> QED BY <2>1, <2>2, <2>3, <2>4 DEF StrictOrder
<1>10. Lists(at, I, before)
  <2> HIDE DEF at
  <2> QED BY <1>7, <1>8, <1>9 DEF Lists
<1> QED BY <1>10

\* An ordered set is listed in one way only.
LEMMA OrderedUnique ==
    ASSUME NEW I, NEW before, StrictOrder(I, before),
           NEW n \in Nat, NEW at \in [1..n -> I],
           \A i \in I : \E k \in 1..n : at[k] = i,
           \A k, l \in 1..n : k < l => <<at[k], at[l]>> \in before
    PROVE  IsFiniteSet(I) /\ Cardinality(I) = n /\ at = Ordered(I, before)
<1> DEFINE B(i) == Below(I, before, i)
<1>1. ASSUME NEW k \in 1..n, NEW l \in 1..n, at[k] = at[l] PROVE k = l
  <2>1. ~ (k < l) /\ ~ (l < k)
    BY <1>1 DEF StrictOrder
  <2> QED BY <2>1
<1>2. at \in Bijection(1..n, I)
  BY <1>1 DEF Bijection, Injection, IsInjective, Surjection
<1>3. IsFiniteSet(I) /\ Cardinality(I) = n
  <2>1. IsFiniteSet(1..n) /\ Cardinality(1..n) = n
    BY FS_Interval
  <2>2. ExistsBijection(1..n, I)
    BY <1>2 DEF ExistsBijection
  <2> QED BY <2>1, <2>2, FS_Bijection
<1>4. ASSUME NEW k \in 1..n PROVE Cardinality(B(at[k])) = k - 1
  <2> DEFINE first == [l \in 1..(k - 1) |-> at[l]]
  <2>1. B(at[k]) = {at[l] : l \in 1..(k - 1)}
    <3>1. ASSUME NEW j \in B(at[k]) PROVE \E l \in 1..(k - 1) : at[l] = j
      <4>1. PICK l \in 1..n : at[l] = j
        BY <3>1 DEF Below
      <4>2. <<at[l], at[k]>> \in before
        BY <3>1, <4>1 DEF Below
      <4>3. l # k /\ ~ (k < l)
        BY <4>2 DEF StrictOrder
      <4> QED BY <4>1, <4>3
    <3>2. ASSUME NEW l \in 1..(k - 1) PROVE at[l] \in B(at[k])
      <4>1. l \in 1..n /\ l < k
        OBVIOUS
      <4> QED BY <4>1 DEF Below
    <3> HIDE DEF B
    <3> QED BY <3>1, <3>2
  <2>2. first \in Bijection(1..(k - 1), B(at[k]))
    <3>1. \A l \in 1..(k - 1) : l \in 1..n
      OBVIOUS
    <3>2. \A l \in 1..(k - 1) : first[l] = at[l]
      OBVIOUS
    <3>3. first \in [1..(k - 1) -> B(at[k])]
      <4> HIDE DEF B
      <4> QED BY <2>1
    <3> HIDE DEF first, B
    <3> QED BY <1>1, <2>1, <3>1, <3>2, <3>3 DEF Bijection, Injection, IsInjective, Surjection
  <2>3. IsFiniteSet(1..(k - 1)) /\ Cardinality(1..(k - 1)) = k - 1
    BY FS_Interval
  <2>4. ExistsBijection(1..(k - 1), B(at[k]))
    BY <2>2 DEF ExistsBijection
  <2> QED BY <2>3, <2>4, FS_Bijection
<1>5. ASSUME NEW k \in 1..n PROVE at[k] = CHOOSE i \in I : Cardinality(B(i)) = k - 1
  <2>1. ASSUME NEW i \in I, Cardinality(B(i)) = k - 1 PROVE i = at[k]
    <3>1. PICK l \in 1..n : at[l] = i
      OBVIOUS
    <3>2. Cardinality(B(i)) = l - 1
      BY <1>4, <3>1
    <3> HIDE DEF B
    <3> QED BY <2>1, <3>1, <3>2
  <2> HIDE DEF B
  <2> QED BY <1>4, <2>1
<1>6. at = [k \in 1..n |-> CHOOSE i \in I : Cardinality(B(i)) = k - 1]
  <2> HIDE DEF B
  <2> QED BY <1>5
<1> QED BY <1>3, <1>6 DEF Ordered, Below

-----------------------------------------------------------------------------
\* Places in a list.

Ascending(I) == Ordered(I, Smaller(I))

\* at walks through n indices, those of I, upwards.
Walks(at, n, I) ==
    /\ at \in [1..n -> I]
    /\ \A i \in I : \E k \in 1..n : at[k] = i
    /\ \A k, l \in 1..n : k < l => at[k] < at[l]

\* The first n items of s on the walk at.
Along(s, at, n) == [k \in 1..n |-> s[at[k]]]

\* The indices of a list are finitely many, and in order.
LEMMA AscendingLists ==
    ASSUME NEW n \in Nat, NEW I \in SUBSET (1..n)
    PROVE  /\ IsFiniteSet(I) /\ Cardinality(I) \in Nat
           /\ Walks(Ascending(I), Cardinality(I), I)
<1>1. IsFiniteSet(I)
  <2>1. IsFiniteSet(1..n)
    BY FS_Interval
  <2> QED BY <2>1, FS_Subset
<1>2. Cardinality(I) \in Nat
  BY <1>1, FS_CardinalityType
<1>3. StrictOrder(I, Smaller(I))
  BY DEF StrictOrder, Smaller
<1>4. Lists(Ascending(I), I, Smaller(I))
  BY <1>1, <1>3, OrderedLists DEF Ascending
<1> HIDE DEF Ascending
<1>5. \A i, j \in I : <<i, j>> \in Smaller(I) <=> i < j
  BY DEF Smaller
<1> QED BY <1>1, <1>2, <1>3, <1>4, <1>5 DEF Lists, Walks

\* A list of indices in order is the only one.
LEMMA AscendingUnique ==
    ASSUME NEW m \in Nat, NEW I \in SUBSET (1..m), NEW n \in Nat, NEW at, Walks(at, n, I)
    PROVE  Cardinality(I) = n /\ Ascending(I) = at
<1>1. StrictOrder(I, Smaller(I))
  BY DEF StrictOrder, Smaller
<1>2. /\ at \in [1..n -> I]
      /\ \A i \in I : \E k \in 1..n : at[k] = i
      /\ \A k, l \in 1..n : k < l => <<at[k], at[l]>> \in Smaller(I)
  BY DEF Smaller, Walks
<1> QED BY <1>1, <1>2, OrderedUnique DEF Ascending

\* What is picked out of a list is a list of its items.
LEMMA PickSeq ==
    ASSUME NEW T, NEW s \in Seq(T), NEW I \in SUBSET (1..Len(s))
    PROVE  /\ Pick(s, I) \in Seq(T)
           /\ Len(Pick(s, I)) = Cardinality(I) /\ Cardinality(I) \in Nat
           /\ \A k \in 1..Cardinality(I) :
                 Ascending(I)[k] \in I /\ Pick(s, I)[k] = s[Ascending(I)[k]]
<1> DEFINE n == Cardinality(I)
           at == Ascending(I)
<1>1. n \in Nat /\ at \in [1..n -> I] /\ Len(s) \in Nat
  <2>1. Len(s) \in Nat
    OBVIOUS
  <2> QED BY <2>1, AscendingLists DEF Walks
<1>2. Pick(s, I) = [k \in 1..n |-> s[at[k]]]
  BY DEF Pick, Ascending
<1> HIDE DEF at, n
<1>3. \A k \in 1..n : at[k] \in I /\ s[at[k]] \in T
  <2>1. \A k \in 1..n : at[k] \in I /\ at[k] \in 1..Len(s)
    BY <1>1
  <2> QED BY <2>1, ElementOfSeq
<1>4. Pick(s, I) \in [1..n -> T]
  BY <1>2, <1>3
<1>5. Pick(s, I) \in Seq(T) /\ Len(Pick(s, I)) = n
  BY <1>1, <1>4
<1> QED BY <1>1, <1>2, <1>3, <1>5 DEF n, at

\* Whatever lists the indices in order tells what is picked.
LEMMA PickIs ==
    ASSUME NEW T, NEW s \in Seq(T), NEW I \in SUBSET (1..Len(s)),
           NEW n \in Nat, NEW at, Walks(at, n, I)
    PROVE  Pick(s, I) = Along(s, at, n)
<1>1. Cardinality(I) = n /\ Ascending(I) = at
  BY AscendingUnique, LenProperties
<1> QED BY <1>1 DEF Pick, Ascending, Along

\* All of the indices pick the list itself.
LEMMA PickAll == ASSUME NEW T, NEW s \in Seq(T) PROVE Pick(s, 1..Len(s)) = s
<1> DEFINE at == [k \in 1..Len(s) |-> k]
<1>1. Pick(s, 1..Len(s)) = [k \in 1..Len(s) |-> s[at[k]]]
  <2>1. Len(s) \in Nat /\ at \in [1..Len(s) -> 1..Len(s)] /\ \A k \in 1..Len(s) : at[k] = k
    OBVIOUS
  <2> DEFINE I == 1..Len(s)
  <2>2. I \in SUBSET (1..Len(s)) /\ at \in [1..Len(s) -> I]
    BY <2>1
  <2>3. \A i \in I : \E k \in 1..Len(s) : at[k] = i
    BY <2>1
  <2>4. \A k, l \in 1..Len(s) : k < l => at[k] < at[l]
    BY <2>1
  <2> HIDE DEF at, I
  <2>5. Walks(at, Len(s), I)
    BY <2>2, <2>3, <2>4 DEF Walks
  <2>6. Pick(s, I) = Along(s, at, Len(s))
    BY <2>1, <2>2, <2>5, PickIs
  <2> QED BY <2>6 DEF I, Along
<1>2. Pick(s, 1..Len(s)) \in Seq(T) /\ Len(Pick(s, 1..Len(s))) = Len(s)
  <2>1. Pick(s, 1..Len(s)) \in [1..Len(s) -> T]
    BY <1>1
  <2> QED BY <2>1
<1> QED BY <1>1, <1>2, SeqEqual

\* What is appended comes last, if its index is picked at all.
LEMMA PickAppend ==
    ASSUME NEW T, NEW s \in Seq(T), NEW x \in T, NEW I \in SUBSET (1..Len(s))
    PROVE  /\ Pick(Append(s, x), I) = Pick(s, I)
           /\ Pick(Append(s, x), I \union {Len(s) + 1}) = Append(Pick(s, I), x)
<1> DEFINE n == Cardinality(I)
           at == Ascending(I)
           m == Len(s)
           t == Append(s, x)
           J == I \union {m + 1}
           more == [k \in 1..(n + 1) |-> IF k = n + 1 THEN m + 1 ELSE at[k]]
<1>0. n \in Nat /\ Walks(at, n, I)
  <2>1. Len(s) \in Nat
    OBVIOUS
  <2> QED BY <2>1, AscendingLists
<1>1. /\ n \in Nat /\ at \in [1..n -> I]
      /\ \A i \in I : \E k \in 1..n : at[k] = i
      /\ \A k, l \in 1..n : k < l => at[k] < at[l]
  BY <1>0 DEF Walks
<1>2. /\ m \in Nat /\ t \in Seq(T) /\ Len(t) = m + 1 /\ t[m + 1] = x
      /\ \A i \in 1..m : t[i] = s[i] /\ s[i] \in T
  BY AppendProperties
<1>3. Pick(s, I) \in Seq(T) /\ Len(Pick(s, I)) = n /\ \A k \in 1..n : Pick(s, I)[k] = s[at[k]]
  BY PickSeq
<1>4. \A k \in 1..n : at[k] \in I /\ at[k] \in 1..m
  <2> HIDE DEF n, at
  <2> QED BY <1>1
<1>5. \A i \in J : i \in I \/ i = m + 1
  OBVIOUS
<1>6. I \in SUBSET (1..m)
  OBVIOUS
<1> HIDE DEF n, at, m, t, J
<1>7. \A k \in 1..n : more[k] = at[k]
  BY <1>1
<1>8. more[n + 1] = m + 1
  BY <1>1
<1>9. \A k \in 1..(n + 1) : k = n + 1 \/ k \in 1..n
  BY <1>1
<1>10. more \in [1..(n + 1) -> J]
  BY <1>4, <1>9 DEF J
<1>11. I \in SUBSET (1..Len(t)) /\ J \in SUBSET (1..Len(t)) /\ n + 1 \in Nat
  <2>1. 1..m \subseteq 1..Len(t) /\ m + 1 \in 1..Len(t)
    BY <1>2
  <2>2. \A i \in J : i \in 1..Len(t)
    BY <1>5, <1>6, <2>1
  <2>3. n + 1 \in Nat
    BY <1>1
  <2>4. \A i \in I : i \in 1..Len(t)
    BY <1>6, <2>1
  <2> QED BY <2>2, <2>3, <2>4
<1>12. 1..n \subseteq 1..(n + 1) /\ n + 1 \in 1..(n + 1)
  BY <1>1
<1> HIDE DEF more
<1>13. Pick(t, I) = Pick(s, I)
  <2>1. Pick(t, I) = [k \in 1..n |-> t[at[k]]]
    <3>1. t \in Seq(T) /\ I \in SUBSET (1..Len(t))
      BY <1>2, <1>11
    <3>2. Pick(t, I) = Along(t, at, n)
      BY <1>0, <3>1, PickIs
    <3> QED BY <3>2 DEF Along
  <2>2. \A k \in 1..n : t[at[k]] = s[at[k]] /\ s[at[k]] \in T
    BY <1>2, <1>4
  <2>3. Pick(t, I) \in [1..n -> T] /\ \A k \in 1..n : Pick(t, I)[k] = s[at[k]]
    BY <2>1, <2>2
  <2>4. Pick(t, I) \in Seq(T) /\ Len(Pick(t, I)) = n
    BY <1>1, <2>3
  <2> QED BY <1>3, <2>3, <2>4, SeqEqual
<1>14. Pick(t, J) = [k \in 1..(n + 1) |-> t[more[k]]]
  <2>1. \A i \in J : \E k \in 1..(n + 1) : more[k] = i
    BY <1>1, <1>5, <1>7, <1>8, <1>12
  <2>2. ASSUME NEW k \in 1..(n + 1), NEW l \in 1..(n + 1), k < l PROVE more[k] < more[l]
    <3>1. k \in 1..n
      BY <1>1, <2>2
    <3>2. CASE l = n + 1
      BY <3>1, <3>2, <1>2, <1>4, <1>7, <1>8
    <3>3. CASE l \in 1..n
      BY <3>1, <3>3, <1>1, <1>7, <2>2
    <3> QED BY <3>2, <3>3, <1>9
  <2>3. \A k, l \in 1..(n + 1) : k < l => more[k] < more[l]
    BY <2>2
  <2> DEFINE p == n + 1
  <2>4. p \in Nat /\ Walks(more, p, J)
    BY <1>10, <1>11, <2>1, <2>3 DEF Walks
  <2> HIDE DEF p
  <2>5. Pick(t, J) = Along(t, more, p)
    <3>1. t \in Seq(T) /\ J \in SUBSET (1..Len(t))
      BY <1>2, <1>11
    <3> QED BY <2>4, <3>1, PickIs
  <2> QED BY <2>5 DEF p, Along
<1>15. Pick(t, J) = Append(Pick(s, I), x)
  <2> DEFINE u == Append(Pick(s, I), x)
             v == Pick(t, J)
  <2>1. u \in Seq(T) /\ Len(u) = n + 1 /\ u[n + 1] = x /\ \A k \in 1..n : u[k] = s[at[k]]
    BY <1>3, AppendProperties
  <2> HIDE DEF u
  <2>2. ASSUME NEW k \in 1..(n + 1) PROVE t[more[k]] = u[k] /\ u[k] \in T
    <3>1. CASE k = n + 1
      BY <3>1, <1>2, <1>8, <2>1
    <3>2. CASE k \in 1..n
      BY <3>2, <1>2, <1>4, <1>7, <2>1
    <3> QED BY <3>1, <3>2, <1>9
  <2>3. v \in [1..(n + 1) -> T] /\ \A k \in 1..(n + 1) : v[k] = u[k]
    BY <1>14, <2>2
  <2>4. v \in Seq(T) /\ Len(v) = n + 1
    BY <1>1, <2>3
  <2> HIDE DEF v
  <2>5. v = u
    BY <2>1, <2>3, <2>4, SeqEqual
  <2> QED BY <2>5 DEF u, v
<1> QED BY <1>13, <1>15 DEF t, J, m

\* What is appended is not picked with the indices of the list.
LEMMA PickBefore ==
    ASSUME NEW T, NEW s \in Seq(T), NEW x \in T, NEW I \in SUBSET (1..Len(s))
    PROVE  Pick(Append(s, x), I) = Pick(s, I)
<1>1. /\ Pick(Append(s, x), I) = Pick(s, I)
      /\ Pick(Append(s, x), I \union {Len(s) + 1}) = Append(Pick(s, I), x)
  BY PickAppend
<1> QED BY <1>1

\* Picking twice is picking once.
LEMMA PickPick ==
    ASSUME NEW T, NEW s \in Seq(T), NEW I \in SUBSET (1..Len(s)),
           NEW K \in SUBSET (1..Cardinality(I))
    PROVE  /\ {Ascending(I)[k] : k \in K} \in SUBSET I
           /\ Pick(Pick(s, I), K) = Pick(s, {Ascending(I)[k] : k \in K})
<1> DEFINE n == Cardinality(I)
           at == Ascending(I)
           p == Cardinality(K)
           by == Ascending(K)
           J == {at[k] : k \in K}
           both == [k \in 1..p |-> at[by[k]]]
           t == Pick(s, I)
           u == Pick(t, K)
<1>1. /\ n \in Nat /\ at \in [1..n -> I]
      /\ \A k, l \in 1..n : k < l => at[k] < at[l]
  <2>1. Len(s) \in Nat
    OBVIOUS
  <2> QED BY <2>1, AscendingLists DEF Walks
<1>2. t \in Seq(T) /\ Len(t) = n /\ \A k \in 1..n : t[k] = s[at[k]]
  BY PickSeq
<1>3. K \in SUBSET (1..n)
  OBVIOUS
<1> HIDE DEF n, at, t
<1>4. /\ p \in Nat /\ by \in [1..p -> K]
      /\ \A k \in K : \E l \in 1..p : by[l] = k
      /\ \A k, l \in 1..p : k < l => by[k] < by[l]
  BY <1>1, <1>3, AscendingLists DEF Walks
<1>5. u \in Seq(T) /\ Len(u) = p /\ \A k \in 1..p : u[k] = t[by[k]]
  BY <1>2, <1>3, PickSeq
<1> HIDE DEF p, by, u
<1>6. \A k \in 1..p : by[k] \in K /\ by[k] \in 1..n
  BY <1>3, <1>4
<1>7. J \in SUBSET I
  BY <1>1, <1>3
<1>8. \A k \in 1..p : both[k] = at[by[k]]
  OBVIOUS
<1>9. both \in [1..p -> J]
  BY <1>6
<1>10. \A i \in J : \E k \in K : i = at[k]
  OBVIOUS
<1> HIDE DEF both, J
<1>11. \A i \in J : \E k \in 1..p : both[k] = i
  BY <1>4, <1>8, <1>10
<1>12. \A k, l \in 1..p : k < l => both[k] < both[l]
  BY <1>1, <1>4, <1>6, <1>8
<1>13. Pick(s, J) = [k \in 1..p |-> s[both[k]]]
  <2>1. Walks(both, p, J)
    BY <1>9, <1>11, <1>12 DEF Walks
  <2>2. J \in SUBSET (1..Len(s)) /\ p \in Nat
    BY <1>4, <1>7
  <2>3. Pick(s, J) = Along(s, both, p)
    BY <2>1, <2>2, PickIs
  <2> QED BY <2>3 DEF Along
<1>14. \A k \in 1..p : s[both[k]] = u[k] /\ u[k] \in T
  BY <1>2, <1>5, <1>6, <1>8, ElementOfSeq
<1>15. Pick(s, J) \in [1..p -> T] /\ \A k \in 1..p : Pick(s, J)[k] = u[k]
  BY <1>13, <1>14
<1>16. Pick(s, J) \in Seq(T) /\ Len(Pick(s, J)) = p
  BY <1>4, <1>15
<1>17. Pick(s, J) = u
  BY <1>5, <1>15, <1>16, SeqEqual
<1> QED BY <1>7, <1>17 DEF at, t, u, J

-----------------------------------------------------------------------------
\* Filtered and sorted lists.

\* A set of indices has a greatest and a least one.
LEMMA MaxMin ==
    ASSUME NEW n \in Nat, NEW I \in SUBSET (1..n), I # {}
    PROVE  /\ Max(I) \in I /\ \A i \in I : i <= Max(I)
           /\ Min(I) \in I /\ \A i \in I : Min(I) <= i
<1> DEFINE c == Cardinality(I)
           at == Ascending(I)
<1>1. /\ c \in Nat /\ at \in [1..c -> I]
      /\ \A i \in I : \E k \in 1..c : at[k] = i
      /\ \A k, l \in 1..c : k < l => at[k] < at[l]
  BY AscendingLists DEF Walks
<1> HIDE DEF c, at
<1>2. c >= 1
  <2>1. PICK i \in I : TRUE
    OBVIOUS
  <2>2. PICK k \in 1..c : at[k] = i
    BY <1>1
  <2> QED BY <1>1, <2>2
<1>3. at[c] \in I /\ at[1] \in I
  BY <1>1, <1>2
<1>4. ASSUME NEW i \in I PROVE i <= at[c] /\ at[1] <= i
  <2>1. PICK k \in 1..c : at[k] = i
    BY <1>1
  <2>2. k = c \/ at[k] < at[c]
    BY <1>1, <1>2
  <2>3. k = 1 \/ at[1] < at[k]
    BY <1>1, <1>2
  <2>4. i \in Nat /\ at[c] \in Nat /\ at[1] \in Nat
    <3>1. I \subseteq Nat
      OBVIOUS
    <3> QED BY <1>3, <3>1
  <2> QED BY <2>1, <2>2, <2>3, <2>4
<1>5. \E i \in I : \A j \in I : i >= j
  BY <1>3, <1>4
<1>6. \E i \in I : \A j \in I : i <= j
  BY <1>3, <1>4
<1>7. Max(I) \in I /\ \A j \in I : Max(I) >= j
  BY <1>5 DEF Max
<1>8. Min(I) \in I /\ \A j \in I : Min(I) <= j
  BY <1>6 DEF Min
<1> QED BY <1>7, <1>8

\* The items among those of a set are those of the set.
LEMMA AmongSeq ==
    ASSUME NEW T, NEW s \in Seq(T), NEW S
    PROVE  /\ Among(s, S) \in Seq(T)
           /\ ToSet(Among(s, S)) = ToSet(s) \intersect S
<1> DEFINE I == {i \in DOMAIN s : s[i] \in S}
           n == Cardinality(I)
           at == Ascending(I)
           u == Among(s, S)
<1>1. I \in SUBSET (1..Len(s)) /\ Len(s) \in Nat /\ DOMAIN s = 1..Len(s)
  OBVIOUS
<1>2. n \in Nat /\ at \in [1..n -> I] /\ \A i \in I : \E k \in 1..n : at[k] = i
  <2> HIDE DEF I
  <2> QED BY <1>1, AscendingLists DEF Walks
<1>3. u \in Seq(T) /\ Len(u) = n /\ \A k \in 1..n : u[k] = s[at[k]]
  <2>1. u = Pick(s, I)
    BY DEF Among
  <2> HIDE DEF u, I
  <2> QED BY <1>1, <2>1, PickSeq
<1> HIDE DEF u, n, at
<1>4. DOMAIN u = 1..n
  BY <1>2, <1>3
<1>5. ASSUME NEW k \in 1..n PROVE \E i \in DOMAIN s : s[i] = u[k] /\ u[k] \in S
  BY <1>2, <1>3
<1>6. ASSUME NEW i \in DOMAIN s, s[i] \in S PROVE \E k \in 1..n : u[k] = s[i]
  BY <1>2, <1>3, <1>6
<1>7. ToSet(u) = ToSet(s) \intersect S
  BY <1>4, <1>5, <1>6 DEF ToSet
<1> QED BY <1>3, <1>7 DEF u

\* What is appended comes last, if it is in the set.
LEMMA AmongAppend ==
    ASSUME NEW T, NEW s \in Seq(T), NEW x \in T, NEW S
    PROVE  Among(Append(s, x), S) = IF x \in S THEN Append(Among(s, S), x) ELSE Among(s, S)
<1> DEFINE I == {i \in DOMAIN s : s[i] \in S}
           t == Append(s, x)
           J == {i \in DOMAIN t : t[i] \in S}
<1>1. I \in SUBSET (1..Len(s)) /\ Len(s) \in Nat /\ DOMAIN s = 1..Len(s)
  OBVIOUS
<1>2. /\ DOMAIN t = 1..(Len(s) + 1) /\ t[Len(s) + 1] = x
      /\ \A i \in 1..Len(s) : t[i] = s[i]
  BY AppendProperties
<1>3. J = IF x \in S THEN I \union {Len(s) + 1} ELSE I
  <2>1. ASSUME NEW i \in 1..(Len(s) + 1) PROVE i = Len(s) + 1 \/ i \in 1..Len(s)
    BY <1>1
  <2>2. 1..Len(s) \subseteq 1..(Len(s) + 1) /\ Len(s) + 1 \in 1..(Len(s) + 1)
    BY <1>1
  <2> HIDE DEF t
  <2>3. \A i : i \in J <=> (i = Len(s) + 1 /\ x \in S) \/ i \in I
    BY <1>1, <1>2, <2>1, <2>2
  <2> HIDE DEF J, I
  <2> QED BY <2>3
<1>4. Among(t, S) = Pick(t, J) /\ Among(s, S) = Pick(s, I)
  BY DEF Among
<1>5. /\ Pick(t, I) = Pick(s, I)
      /\ Pick(t, I \union {Len(s) + 1}) = Append(Pick(s, I), x)
  <2> HIDE DEF I
  <2> QED BY <1>1, PickAppend
<1> HIDE DEF t, I, J
<1> QED BY <1>3, <1>4, <1>5 DEF t

\* The items of an appended list, and of two lists one after the other.
LEMMA ToSetAppend ==
    ASSUME NEW T, NEW s \in Seq(T), NEW x \in T
    PROVE  ToSet(Append(s, x)) = ToSet(s) \union {x}
<1> DEFINE t == Append(s, x)
<1>1. Len(s) \in Nat /\ DOMAIN s = 1..Len(s)
  OBVIOUS
<1>2. /\ DOMAIN t = 1..(Len(s) + 1) /\ t[Len(s) + 1] = x
      /\ \A i \in 1..Len(s) : t[i] = s[i]
  BY AppendProperties
<1>3. ASSUME NEW i \in 1..(Len(s) + 1) PROVE i = Len(s) + 1 \/ i \in 1..Len(s)
  BY <1>1
<1>4. 1..Len(s) \subseteq 1..(Len(s) + 1) /\ Len(s) + 1 \in 1..(Len(s) + 1)
  BY <1>1
<1> HIDE DEF t
<1>5. ToSet(t) = ToSet(s) \union {x}
  BY <1>1, <1>2, <1>3, <1>4 DEF ToSet
<1> QED BY <1>5 DEF t

\* The items of a concatenation are those of its parts.
LEMMA ToSetConcat ==
    ASSUME NEW T, NEW s \in Seq(T), NEW t \in Seq(T)
    PROVE  ToSet(s \o t) = ToSet(s) \union ToSet(t)
<1> DEFINE u == s \o t
           m == Len(s)
           n == Len(t)
<1>1. m \in Nat /\ n \in Nat /\ DOMAIN s = 1..m /\ DOMAIN t = 1..n /\ DOMAIN u = 1..(m + n)
  BY ConcatProperties
<1>2. \A i \in 1..(m + n) : u[i] = IF i <= m THEN s[i] ELSE t[i - m]
  BY ConcatProperties
<1> HIDE DEF u, m, n
<1>3. ASSUME NEW i \in 1..m PROVE i \in 1..(m + n) /\ u[i] = s[i]
  BY <1>1, <1>2
<1>4. ASSUME NEW i \in 1..n PROVE i + m \in 1..(m + n) /\ u[i + m] = t[i]
  <2>1. i + m \in 1..(m + n) /\ ~ (i + m <= m) /\ (i + m) - m = i
    BY <1>1
  <2> QED BY <1>2, <2>1
<1>5. ASSUME NEW i \in 1..(m + n)
      PROVE  (i \in 1..m /\ u[i] = s[i]) \/ (i - m \in 1..n /\ u[i] = t[i - m])
  <2>1. (i \in 1..m /\ i <= m) \/ (i - m \in 1..n /\ ~ (i <= m))
    BY <1>1
  <2> QED BY <1>2, <2>1
<1>6. ToSet(u) = ToSet(s) \union ToSet(t)
  <2>1. \A x \in ToSet(u) : x \in ToSet(s) \/ x \in ToSet(t)
    BY <1>1, <1>5 DEF ToSet
  <2>2. \A x \in ToSet(s) : x \in ToSet(u)
    BY <1>1, <1>3 DEF ToSet
  <2>3. \A x \in ToSet(t) : x \in ToSet(u)
    BY <1>1, <1>4 DEF ToSet
  <2> QED BY <2>1, <2>2, <2>3
<1> QED BY <1>6 DEF u

\* The indices of the items in the order of a stable sort.
SortOrder(weight, items) == Ordered(DOMAIN items, Heavier(weight, items))

\* The item at i comes before the one at j.
Precedes(weight, items, i, j) ==
    \/ weight[items[i]] > weight[items[j]]
    \/ weight[items[i]] = weight[items[j]] /\ i < j

\* The order of a stable sort is one.
LEMMA SortOrderLists ==
    ASSUME NEW T, NEW w, \A x \in T : w[x] \in Int, NEW s \in Seq(T)
    PROVE  LET at == SortOrder(w, s)
               n == Len(s)
           IN  /\ at \in [1..n -> 1..n]
               /\ \A i \in 1..n : \E k \in 1..n : at[k] = i
               /\ \A k, l \in 1..n : k < l => Precedes(w, s, at[k], at[l])
               /\ StrictOrder(1..n, Heavier(w, s))
<1> DEFINE n == Len(s)
           at == SortOrder(w, s)
           before == Heavier(w, s)
<1>1. n \in Nat /\ DOMAIN s = 1..n
  OBVIOUS
<1>2. \A i \in 1..n : s[i] \in T /\ w[s[i]] \in Int
  BY ElementOfSeq
<1>3. \A i, j \in 1..n : <<i, j>> \in before <=> Precedes(w, s, i, j)
  BY <1>1 DEF Heavier, Precedes
<1> HIDE DEF before, n
<1>4. StrictOrder(1..n, before)
  <2>1. \A i \in 1..n : <<i, i>> \notin before
    BY <1>2, <1>3 DEF Precedes
  <2>2. \A i, j, k \in 1..n : <<i, j>> \in before /\ <<j, k>> \in before => <<i, k>> \in before
    BY <1>2, <1>3 DEF Precedes
  <2>3. \A i, j \in 1..n : i # j => <<i, j>> \in before \/ <<j, i>> \in before
    BY <1>2, <1>3 DEF Precedes
  <2> QED BY <2>1, <2>2, <2>3 DEF StrictOrder
<1>5. IsFiniteSet(1..n) /\ Cardinality(1..n) = n
  BY <1>1, FS_Interval
<1>6. Lists(at, 1..n, before)
  BY <1>1, <1>4, <1>5, OrderedLists DEF before, SortOrder
<1> HIDE DEF at
<1>7. /\ at \in [1..n -> 1..n]
      /\ \A i \in 1..n : \E k \in 1..n : at[k] = i
      /\ \A k, l \in 1..n : k < l <=> <<at[k], at[l]>> \in before
  BY <1>5, <1>6 DEF Lists
<1>8. ASSUME NEW k \in 1..n, NEW l \in 1..n, k < l
      PROVE  Precedes(w, s, at[k], at[l])
  BY <1>3, <1>7, <1>8
<1> QED BY <1>4, <1>7, <1>8 DEF at, n, before

\* A sorted list has the items of the list, the heavier first.
LEMMA SortedSeq ==
    ASSUME NEW T, NEW w, \A x \in T : w[x] \in Int, NEW s \in Seq(T)
    PROVE  LET u == SortedStable(w, s)
           IN  /\ u \in Seq(T) /\ Len(u) = Len(s)
               /\ \A k \in 1..Len(s) : u[k] = s[SortOrder(w, s)[k]]
               /\ ToSet(u) = ToSet(s)
               /\ \A k, l \in 1..Len(s) : k < l => w[u[k]] >= w[u[l]]
<1> DEFINE n == Len(s)
           at == SortOrder(w, s)
           u == SortedStable(w, s)
<1>1. /\ at \in [1..n -> 1..n]
      /\ \A i \in 1..n : \E k \in 1..n : at[k] = i
      /\ \A k, l \in 1..n : k < l => Precedes(w, s, at[k], at[l])
  BY SortOrderLists
<1>2. n \in Nat /\ DOMAIN s = 1..n
  OBVIOUS
<1>3. \A i \in 1..n : s[i] \in T /\ w[s[i]] \in Int
  BY ElementOfSeq
<1>4. u = [k \in 1..n |-> s[at[k]]]
  BY DEF SortedStable, SortOrder
<1> HIDE DEF u, at, n
<1>5. u \in [1..n -> T] /\ \A k \in 1..n : u[k] = s[at[k]]
  BY <1>1, <1>3, <1>4
<1>6. u \in Seq(T) /\ Len(u) = n /\ DOMAIN u = 1..n
  BY <1>2, <1>5
<1>7. ToSet(u) = ToSet(s)
  BY <1>1, <1>2, <1>5, <1>6 DEF ToSet
<1>8. ASSUME NEW k \in 1..n, NEW l \in 1..n, k < l PROVE w[u[k]] >= w[u[l]]
  <2>1. at[k] \in 1..n /\ at[l] \in 1..n /\ u[k] = s[at[k]] /\ u[l] = s[at[l]]
    BY <1>1, <1>5
  <2>2. w[u[k]] \in Int /\ w[u[l]] \in Int
    BY <1>3, <2>1
  <2>3. w[u[k]] > w[u[l]] \/ w[u[k]] = w[u[l]]
    <3>1. Precedes(w, s, at[k], at[l])
      BY <1>1, <1>8
    <3> QED BY <2>1, <3>1 DEF Precedes
  <2> QED BY <2>2, <2>3
<1> QED BY <1>5, <1>6, <1>7, <1>8 DEF u, n, at

\* A stable sort leaves items of one weight in the order they were in.
LEMMA SortedAmong ==
    ASSUME NEW T, NEW w, \A x \in T : w[x] \in Int, NEW s \in Seq(T),
           NEW S, \A x, y \in T : x \in S /\ y \in S => w[x] = w[y]
    PROVE  Among(SortedStable(w, s), S) = Among(s, S)
<1> DEFINE n == Len(s)
           at == SortOrder(w, s)
           u == SortedStable(w, s)
           I == {i \in DOMAIN s : s[i] \in S}
           K == {k \in DOMAIN u : u[k] \in S}
           p == Cardinality(K)
           by == Ascending(K)
           both == [k \in 1..p |-> at[by[k]]]
           v == Among(u, S)
<1>1. /\ at \in [1..n -> 1..n]
      /\ \A i \in 1..n : \E k \in 1..n : at[k] = i
      /\ \A k, l \in 1..n : k < l => Precedes(w, s, at[k], at[l])
  BY SortOrderLists
<1>2. n \in Nat /\ DOMAIN s = 1..n
  OBVIOUS
<1>3. \A i \in 1..n : s[i] \in T /\ w[s[i]] \in Int
  BY ElementOfSeq
<1>4. u \in Seq(T) /\ Len(u) = n /\ DOMAIN u = 1..n /\ \A k \in 1..n : u[k] = s[at[k]]
  <2>1. u \in Seq(T) /\ Len(u) = n /\ \A k \in 1..n : u[k] = s[at[k]]
    BY SortedSeq
  <2> HIDE DEF u
  <2> QED BY <2>1
<1> HIDE DEF n, at, u
<1>5. /\ K \in SUBSET (1..n) /\ K \in SUBSET (1..Len(u))
      /\ I \in SUBSET (1..Len(s)) /\ I \in SUBSET (1..n)
  BY <1>2, <1>4 DEF n
<1>6. v = Pick(u, K) /\ Among(s, S) = Pick(s, I)
  BY DEF Among
<1>6a. \A k \in K : k \in 1..n /\ u[k] \in S
  BY <1>4
<1>6b. \A i \in 1..n : i \in I <=> s[i] \in S
  BY <1>2
<1>6c. \A i \in 1..n : i \in K <=> u[i] \in S
  BY <1>4
<1> HIDE DEF K, I, v
<1>7. /\ p \in Nat /\ by \in [1..p -> K]
      /\ \A k \in K : \E l \in 1..p : by[l] = k
      /\ \A k, l \in 1..p : k < l => by[k] < by[l]
  BY <1>2, <1>5, AscendingLists DEF Walks
<1>8. v \in Seq(T) /\ Len(v) = p /\ \A k \in 1..p : v[k] = u[by[k]]
  BY <1>4, <1>5, <1>6, PickSeq
<1> HIDE DEF p, by
<1>9. \A k \in 1..p : both[k] = at[by[k]]
  OBVIOUS
<1>10. \A k \in 1..p : by[k] \in 1..n /\ by[k] \in K /\ u[by[k]] \in S
  BY <1>7, <1>6a
<1>11. \A k \in 1..p :
          at[by[k]] \in 1..n /\ at[by[k]] \in I /\ s[at[by[k]]] \in S /\ s[at[by[k]]] \in T
  BY <1>1, <1>3, <1>4, <1>10, <1>6b
<1>12. both \in [1..p -> I]
  BY <1>11
<1> HIDE DEF both
<1>13. ASSUME NEW i \in I PROVE \E k \in 1..p : both[k] = i
  <2>1. PICK l \in 1..n : at[l] = i
    BY <1>1, <1>5
  <2>2. l \in K
    BY <1>4, <1>5, <1>6b, <1>6c, <2>1
  <2>3. PICK k \in 1..p : by[k] = l
    BY <1>7, <2>2
  <2> QED BY <1>9, <2>1, <2>3
<1>14. ASSUME NEW k \in 1..p, NEW l \in 1..p, k < l PROVE both[k] < both[l]
  <2>1. by[k] < by[l]
    BY <1>7, <1>14
  <2>2. w[s[at[by[k]]]] = w[s[at[by[l]]]] /\ w[s[at[by[k]]]] \in Int
    BY <1>3, <1>11
  <2>3. at[by[k]] < at[by[l]]
    <3>1. Precedes(w, s, at[by[k]], at[by[l]])
      BY <1>1, <1>10, <2>1
    <3> QED BY <2>2, <3>1 DEF Precedes
  <2> QED BY <1>9, <2>3
<1>15. \A k, l \in 1..p : k < l => both[k] < both[l]
  BY <1>14
<1>16. Pick(s, I) = [k \in 1..p |-> s[both[k]]]
  <2>1. I \in SUBSET (1..Len(s)) /\ p \in Nat
    BY <1>5, <1>7
  <2>2. Walks(both, p, I)
    BY <1>12, <1>13, <1>15 DEF Walks
  <2>3. Pick(s, I) = Along(s, both, p)
    BY <2>1, <2>2, PickIs
  <2> QED BY <2>3 DEF Along
<1>17. \A k \in 1..p : s[both[k]] = v[k] /\ v[k] \in T
  <2>1. ASSUME NEW k \in 1..p PROVE s[both[k]] = v[k] /\ v[k] \in T
    <3>1. v[k] = u[by[k]] /\ both[k] = at[by[k]] /\ by[k] \in 1..n
      BY <1>8, <1>9, <1>10
    <3>2. u[by[k]] = s[at[by[k]]] /\ s[at[by[k]]] \in T
      BY <1>4, <1>11, <3>1
    <3> QED BY <3>1, <3>2
  <2> QED BY <2>1
<1>18. Pick(s, I) \in [1..p -> T] /\ \A k \in 1..p : Pick(s, I)[k] = v[k]
  BY <1>16, <1>17
<1>19. Pick(s, I) \in Seq(T) /\ Len(Pick(s, I)) = p
  BY <1>7, <1>18
<1>20. v = Pick(s, I)
  BY <1>8, <1>18, <1>19, SeqEqual
<1> QED BY <1>6, <1>20 DEF v, u

-----------------------------------------------------------------------------
\* Ordered sets.

\* The indices of the items with the hash of the item at i.
Same(hash, s, i) == {j \in DOMAIN s : hash[s[j]] = hash[s[i]]}

\* Where the last item with the hash of the one at i is.
LastWith(hash, s, i) == Max(Same(hash, s, i))

\* In the place of every item the last one with its hash, and the places of
\* the first ones.
Latest(hash, s) == [i \in DOMAIN s |-> s[Max(Same(hash, s, i))]]
Firsts(hash, s) == {i \in DOMAIN s : i = Min(Same(hash, s, i))}

\* AsSlice picks the last item of every hash at the place of its first.
LEMMA AsSliceParts ==
    ASSUME NEW hash, NEW s PROVE AsSlice(hash, s) = Pick(Latest(hash, s), Firsts(hash, s))
BY DEF AsSlice, Latest, Firsts, Same

\* LastWith is the last index of its hash, and Latest has the item there.
Finals(hash, s) ==
    \A i \in 1..Len(s) :
        /\ LastWith(hash, s, i) \in 1..Len(s)
        /\ hash[s[LastWith(hash, s, i)]] = hash[s[i]]
        /\ \A j \in 1..Len(s) : hash[s[j]] = hash[s[i]] => j <= LastWith(hash, s, i)
        /\ Latest(hash, s)[i] = s[LastWith(hash, s, i)]

\* In the place of an item stands the last one with its hash.
LEMMA LatestSeq ==
    ASSUME NEW T, NEW hash, NEW s \in Seq(T)
    PROVE  /\ Latest(hash, s) \in Seq(T) /\ Len(Latest(hash, s)) = Len(s)
           /\ Finals(hash, s)
<1> DEFINE n == Len(s)
           M(i) == Same(hash, s, i)
           u == Latest(hash, s)
<1>1. n \in Nat /\ DOMAIN s = 1..n
  OBVIOUS
<1>2. \A i \in 1..n : s[i] \in T
  BY ElementOfSeq
<1>3. u = [i \in 1..n |-> s[Max(M(i))]]
  BY DEF Latest
<1> HIDE DEF n, u
<1>4. ASSUME NEW i \in 1..n
      PROVE  /\ Max(M(i)) \in 1..n /\ hash[s[Max(M(i))]] = hash[s[i]]
             /\ \A j \in 1..n : hash[s[j]] = hash[s[i]] => j <= Max(M(i))
  <2>1. M(i) \in SUBSET (1..n) /\ i \in M(i)
    BY <1>1 DEF Same
  <2>2. Max(M(i)) \in M(i) /\ \A j \in M(i) : j <= Max(M(i))
    <3> HIDE DEF M
    <3> QED BY <1>1, <2>1, MaxMin
  <2>3. \A j \in 1..n : hash[s[j]] = hash[s[i]] <=> j \in M(i)
    BY <1>1 DEF Same
  <2> HIDE DEF M
  <2> QED BY <2>1, <2>2, <2>3
<1> HIDE DEF M
<1>5. \A i \in 1..n : u[i] = s[Max(M(i))]
  BY <1>3
<1>6. u \in [1..n -> T]
  BY <1>2, <1>3, <1>4
<1>7. u \in Seq(T) /\ Len(u) = n
  BY <1>1, <1>6
<1> QED BY <1>4, <1>5, <1>7 DEF u, n, M, LastWith, Finals

\* Every hash has one place: that of its first item.
LEMMA FirstsSet ==
    ASSUME NEW T, NEW hash, NEW s \in Seq(T)
    PROVE  /\ Firsts(hash, s) \in SUBSET (1..Len(s))
           /\ \A i \in 1..Len(s) :
                 i \in Firsts(hash, s)
                 <=> \A j \in 1..Len(s) : hash[s[j]] = hash[s[i]] => i <= j
           /\ \A i \in 1..Len(s) : \E k \in Firsts(hash, s) : hash[s[k]] = hash[s[i]]
<1> DEFINE n == Len(s)
           M(i) == Same(hash, s, i)
           F == Firsts(hash, s)
<1>1. n \in Nat /\ DOMAIN s = 1..n
  OBVIOUS
<1>2. F \in SUBSET (1..n) /\ \A i \in 1..n : i \in F <=> i = Min(M(i))
  BY DEF Firsts
<1> HIDE DEF n, F
<1>3. ASSUME NEW i \in 1..n
      PROVE  /\ Min(M(i)) \in 1..n /\ hash[s[Min(M(i))]] = hash[s[i]]
             /\ \A j \in 1..n : hash[s[j]] = hash[s[i]] => Min(M(i)) <= j
  <2>1. M(i) \in SUBSET (1..n) /\ i \in M(i)
    BY <1>1 DEF Same
  <2>2. Min(M(i)) \in M(i) /\ \A j \in M(i) : Min(M(i)) <= j
    <3> HIDE DEF M
    <3> QED BY <1>1, <2>1, MaxMin
  <2>3. \A j \in 1..n : hash[s[j]] = hash[s[i]] <=> j \in M(i)
    BY <1>1 DEF Same
  <2> HIDE DEF M
  <2> QED BY <2>1, <2>2, <2>3
<1> HIDE DEF M
<1>4. ASSUME NEW i \in 1..n
      PROVE  i \in F <=> \A j \in 1..n : hash[s[j]] = hash[s[i]] => i <= j
  <2>1. ASSUME i \in F PROVE \A j \in 1..n : hash[s[j]] = hash[s[i]] => i <= j
    BY <1>2, <1>3, <2>1
  <2>2. ASSUME \A j \in 1..n : hash[s[j]] = hash[s[i]] => i <= j PROVE i \in F
    <3>1. Min(M(i)) <= i /\ i <= Min(M(i)) /\ Min(M(i)) \in 1..n
      BY <1>3, <2>2
    <3>2. Min(M(i)) = i
      BY <3>1, <1>1
    <3> QED BY <1>2, <3>2
  <2> QED BY <2>1, <2>2
<1>5. ASSUME NEW i \in 1..n PROVE \E k \in F : hash[s[k]] = hash[s[i]]
  <2> DEFINE k == Min(M(i))
  <2>1. k \in 1..n /\ hash[s[k]] = hash[s[i]] /\ \A j \in 1..n : hash[s[j]] = hash[s[i]] => k <= j
    BY <1>3
  <2> HIDE DEF k
  <2>2. k \in F
    BY <1>4, <2>1
  <2> QED BY <2>1, <2>2
<1> QED BY <1>2, <1>4, <1>5 DEF n, F

\* No later item has the hash of the one at i.
IsFinal(hash, s, i) == \A j \in 1..Len(s) : i < j => hash[s[j]] # hash[s[i]]

\* AsSlice has one item per hash, the last one of the list.
LEMMA AsSliceSeq ==
    ASSUME NEW T, NEW hash, NEW s \in Seq(T)
    PROVE  /\ AsSlice(hash, s) \in Seq(T)
           /\ \A k, l \in DOMAIN AsSlice(hash, s) :
                 k # l => hash[AsSlice(hash, s)[k]] # hash[AsSlice(hash, s)[l]]
           /\ \A x \in ToSet(AsSlice(hash, s)) :
                 \E i \in 1..Len(s) : x = s[i] /\ IsFinal(hash, s, i)
           /\ \A i \in 1..Len(s) :
                 IsFinal(hash, s, i) => s[i] \in ToSet(AsSlice(hash, s))
           /\ \A i \in 1..Len(s) :
                 \E x \in ToSet(AsSlice(hash, s)) : hash[x] = hash[s[i]]
<1> DEFINE n == Len(s)
           F == Firsts(hash, s)
           v == Latest(hash, s)
           u == AsSlice(hash, s)
           p == Cardinality(F)
           at == Ascending(F)
           last(i) == LastWith(hash, s, i)
<1>1. n \in Nat /\ DOMAIN s = 1..n
  OBVIOUS
<1>2. /\ v \in Seq(T) /\ Len(v) = n
      /\ \A i \in 1..n :
            /\ last(i) \in 1..n /\ hash[s[last(i)]] = hash[s[i]] /\ v[i] = s[last(i)]
            /\ \A j \in 1..n : hash[s[j]] = hash[s[i]] => j <= last(i)
  BY LatestSeq DEF Finals
<1>3. /\ F \in SUBSET (1..n)
      /\ \A i \in 1..n : i \in F <=> \A j \in 1..n : hash[s[j]] = hash[s[i]] => i <= j
      /\ \A i \in 1..n : \E k \in F : hash[s[k]] = hash[s[i]]
  BY FirstsSet
<1>4. u = Pick(v, F)
  BY AsSliceParts
<1> HIDE DEF n, F, v, u, last
<1>5. /\ p \in Nat /\ at \in [1..p -> F]
      /\ \A i \in F : \E k \in 1..p : at[k] = i
      /\ \A k, l \in 1..p : k < l => at[k] < at[l]
  <2>1. n \in Nat /\ F \in SUBSET (1..n)
    BY <1>1, <1>3
  <2>2. p \in Nat /\ Walks(at, p, F)
    BY <2>1, AscendingLists
  <2> QED BY <2>2 DEF Walks
<1>6. u \in Seq(T) /\ Len(u) = p /\ \A k \in 1..p : u[k] = v[at[k]]
  <2>1. v \in Seq(T) /\ F \in SUBSET (1..Len(v))
    BY <1>2, <1>3
  <2> QED BY <1>4, <2>1, PickSeq
<1> HIDE DEF p, at
<1>7. DOMAIN u = 1..p
  BY <1>5, <1>6
<1>8. \A k \in 1..p : at[k] \in F /\ at[k] \in 1..n
  BY <1>3, <1>5
<1>9. ASSUME NEW k \in 1..p PROVE u[k] = s[last(at[k])] /\ hash[u[k]] = hash[s[at[k]]]
  BY <1>2, <1>6, <1>8
<1>10. ASSUME NEW k \in 1..p, NEW l \in 1..p, k # l PROVE hash[u[k]] # hash[u[l]]
  <2>1. SUFFICES ASSUME hash[s[at[k]]] = hash[s[at[l]]] PROVE FALSE
    BY <1>9
  <2>2. at[k] <= at[l] /\ at[l] <= at[k]
    BY <1>3, <1>8, <2>1
  <2>3. k < l \/ l < k
    BY <1>10
  <2>4. at[k] \in Nat /\ at[l] \in Nat
    BY <1>8
  <2> QED BY <1>5, <2>2, <2>3, <2>4
<1>11. ASSUME NEW i \in 1..n PROVE \A j \in 1..n : last(i) < j => hash[s[j]] # hash[s[last(i)]]
  <2> SUFFICES ASSUME NEW j \in 1..n, last(i) < j, hash[s[j]] = hash[s[last(i)]] PROVE FALSE
    OBVIOUS
  <2>1. j <= last(i) /\ last(i) \in Nat /\ j \in Nat
    BY <1>2
  <2> QED BY <2>1
<1>12. ASSUME NEW i \in 1..n
       PROVE  \E k \in 1..p : hash[u[k]] = hash[s[i]] /\ u[k] = s[last(i)]
  <2>1. PICK f \in F : hash[s[f]] = hash[s[i]]
    BY <1>3
  <2>2. PICK k \in 1..p : at[k] = f
    BY <1>5
  <2>3. hash[u[k]] = hash[s[i]] /\ u[k] = s[last(f)] /\ f \in 1..n
    <3>1. f \in 1..n
      BY <1>3
    <3>2. u[k] = s[last(at[k])] /\ hash[u[k]] = hash[s[at[k]]]
      BY <1>9
    <3> QED BY <2>1, <2>2, <3>1, <3>2
  <2>4. last(f) <= last(i) /\ last(i) <= last(f) /\ last(f) \in Nat /\ last(i) \in Nat
    <3>1. last(f) \in 1..n /\ last(i) \in 1..n
      BY <1>2, <2>3
    <3>2. hash[s[last(f)]] = hash[s[i]] /\ hash[s[last(i)]] = hash[s[f]]
      BY <1>2, <2>1, <2>3
    <3>3. last(f) <= last(i)
      BY <1>2, <3>1, <3>2
    <3>4. last(i) <= last(f)
      BY <1>2, <2>3, <3>1, <3>2
    <3> QED BY <1>1, <3>1, <3>3, <3>4
  <2>5. last(f) = last(i)
    BY <2>4
  <2> QED BY <2>3, <2>5
<1>13. ASSUME NEW i \in 1..n, \A j \in 1..n : i < j => hash[s[j]] # hash[s[i]]
       PROVE  \E k \in 1..p : u[k] = s[i]
  <2>1. last(i) \in 1..n /\ i <= last(i) /\ ~ (i < last(i))
    BY <1>2, <1>13
  <2>2. last(i) = i
    BY <2>1
  <2> QED BY <1>12, <2>2
<1>14. ToSet(u) = {u[k] : k \in 1..p}
  BY <1>7 DEF ToSet
<1>15. ASSUME NEW x \in ToSet(u)
       PROVE  \E i \in 1..n : x = s[i] /\ \A j \in 1..n : i < j => hash[s[j]] # hash[s[i]]
  <2>1. PICK k \in 1..p : x = u[k]
    BY <1>14
  <2>2. x = s[last(at[k])] /\ last(at[k]) \in 1..n
    BY <1>2, <1>8, <1>9, <2>1
  <2> QED BY <1>8, <1>11, <2>2
<1>16. \A i \in 1..n : \E x \in ToSet(u) : hash[x] = hash[s[i]]
  BY <1>12, <1>14
<1>17. \A i \in 1..n : (\A j \in 1..n : i < j => hash[s[j]] # hash[s[i]]) => s[i] \in ToSet(u)
  BY <1>13, <1>14
<1>18. \A i \in 1..n : IsFinal(hash, s, i)
                        <=> \A j \in 1..n : i < j => hash[s[j]] # hash[s[i]]
  BY DEF IsFinal, n
<1>19. \A x \in ToSet(u) : \E i \in 1..n : x = s[i] /\ IsFinal(hash, s, i)
  BY <1>15, <1>18
<1>20. \A i \in 1..n : IsFinal(hash, s, i) => s[i] \in ToSet(u)
  BY <1>17, <1>18
<1> QED BY <1>6, <1>7, <1>10, <1>16, <1>19, <1>20 DEF u, n

\* An item with a new hash comes last; one with a known hash takes the place
\* of the item that has it.
LEMMA AsSliceAppend ==
    ASSUME NEW T, NEW hash, NEW s \in Seq(T), NEW x \in T
    PROVE  LET u == AsSlice(hash, s)
               at == {k \in DOMAIN u : hash[u[k]] = hash[x]}
           IN  AsSlice(hash, Append(s, x)) =
                  IF at = {} THEN Append(u, x)
                             ELSE [k \in DOMAIN u |-> IF k \in at THEN x ELSE u[k]]
<1> DEFINE n == Len(s)
           t == Append(s, x)
           F == Firsts(hash, s)
           G == Firsts(hash, t)
           v == Latest(hash, s)
           w == Latest(hash, t)
           u == AsSlice(hash, s)
           r == AsSlice(hash, t)
           p == Cardinality(F)
           at == Ascending(F)
           last(i) == LastWith(hash, s, i)
           end(i) == LastWith(hash, t, i)
           there == {k \in DOMAIN u : hash[u[k]] = hash[x]}
<1>1. n \in Nat /\ DOMAIN s = 1..n /\ \A i \in 1..n : s[i] \in T
  BY ElementOfSeq
<1>2. t \in Seq(T) /\ Len(t) = n + 1 /\ t[n + 1] = x /\ \A i \in 1..n : t[i] = s[i]
  BY AppendProperties
<1>2a. v \in Seq(T) /\ Len(v) = n /\ Finals(hash, s)
  BY LatestSeq
<1>3. /\ v \in Seq(T) /\ Len(v) = n
      /\ \A i \in 1..n :
            /\ last(i) \in 1..n /\ hash[s[last(i)]] = hash[s[i]] /\ v[i] = s[last(i)]
            /\ \A j \in 1..n : hash[s[j]] = hash[s[i]] => j <= last(i)
  BY <1>2a DEF Finals
<1>4. /\ w \in Seq(T) /\ Len(w) = Len(t)
      /\ \A i \in 1..Len(t) :
            /\ end(i) \in 1..Len(t) /\ hash[t[end(i)]] = hash[t[i]] /\ w[i] = t[end(i)]
            /\ \A j \in 1..Len(t) : hash[t[j]] = hash[t[i]] => j <= end(i)
  <2>1. t \in Seq(T)
    BY <1>2
  <2> HIDE DEF t
  <2>2. w \in Seq(T) /\ Len(w) = Len(t) /\ Finals(hash, t)
    BY <2>1, LatestSeq
  <2> QED BY <2>2 DEF Finals
<1>5. /\ F \in SUBSET (1..n)
      /\ \A i \in 1..n : i \in F <=> \A j \in 1..n : hash[s[j]] = hash[s[i]] => i <= j
      /\ \A i \in 1..n : \E k \in F : hash[s[k]] = hash[s[i]]
  BY FirstsSet
<1>6. /\ G \in SUBSET (1..Len(t))
      /\ \A i \in 1..Len(t) : i \in G <=> \A j \in 1..Len(t) : hash[t[j]] = hash[t[i]] => i <= j
  <2> HIDE DEF t
  <2> QED BY <1>2, FirstsSet
<1>7. u = Pick(v, F) /\ r = Pick(w, G)
  BY AsSliceParts
<1> HIDE DEF n, t, F, G, v, w, u, r, last, end, there
<1>8. /\ p \in Nat /\ at \in [1..p -> F]
      /\ \A i \in F : \E k \in 1..p : at[k] = i
      /\ \A k, l \in 1..p : k < l => at[k] < at[l]
  <2>1. n \in Nat /\ F \in SUBSET (1..n)
    BY <1>1, <1>5
  <2>2. p \in Nat /\ Walks(at, p, F)
    BY <2>1, AscendingLists
  <2> QED BY <2>2 DEF Walks
<1>9. u \in Seq(T) /\ Len(u) = p /\ DOMAIN u = 1..p /\ \A k \in 1..p : u[k] = v[at[k]]
  <2>1. v \in Seq(T) /\ F \in SUBSET (1..Len(v))
    BY <1>3, <1>5
  <2>2. u \in Seq(T) /\ Len(u) = p /\ \A k \in 1..p : u[k] = v[at[k]]
    BY <1>7, <2>1, PickSeq
  <2> QED BY <2>2
<1> HIDE DEF p, at
<1>10. \A k \in 1..p : at[k] \in F /\ at[k] \in 1..n
  BY <1>5, <1>8
<1>11. \A k \in 1..p : hash[u[k]] = hash[s[at[k]]]
  <2>1. ASSUME NEW k \in 1..p PROVE hash[u[k]] = hash[s[at[k]]]
    <3>1. at[k] \in 1..n /\ u[k] = v[at[k]]
      BY <1>9, <1>10
    <3> DEFINE i == at[k]
    <3> HIDE DEF i
    <3>2. i \in 1..n /\ u[k] = v[i]
      BY <3>1 DEF i
    <3>3. hash[s[last(i)]] = hash[s[i]] /\ v[i] = s[last(i)]
      BY <1>3, <3>2
    <3> QED BY <3>2, <3>3 DEF i
  <2> QED BY <2>1
<1>12. \A i \in 1..(n + 1) : i = n + 1 \/ i \in 1..n
  BY <1>1
<1>13. 1..n \subseteq 1..(n + 1) /\ n + 1 \in 1..(n + 1) /\ Len(t) = n + 1
  BY <1>1, <1>2
<1>14. ASSUME NEW i \in 1..n
       PROVE  w[i] = IF hash[s[i]] = hash[x] THEN x ELSE v[i]
  <2>1. end(i) \in 1..(n + 1) /\ hash[t[end(i)]] = hash[s[i]] /\ w[i] = t[end(i)]
        /\ \A j \in 1..(n + 1) : hash[t[j]] = hash[s[i]] => j <= end(i)
    BY <1>2, <1>4, <1>13
  <2>2. CASE hash[s[i]] = hash[x]
    <3>1. n + 1 <= end(i)
      BY <1>2, <1>13, <2>1, <2>2
    <3>2. end(i) = n + 1
      BY <1>1, <2>1, <3>1
    <3> QED BY <1>2, <2>1, <2>2, <3>2
  <2>3. CASE hash[s[i]] # hash[x]
    <3>1. end(i) \in 1..n
      BY <1>2, <1>12, <2>1, <2>3
    <3>2. hash[s[end(i)]] = hash[s[i]]
      BY <1>2, <2>1, <3>1
    <3>3. end(i) <= last(i)
      BY <1>3, <3>1, <3>2
    <3>4. last(i) \in 1..n /\ last(i) \in 1..(n + 1) /\ hash[t[last(i)]] = hash[s[i]]
      BY <1>2, <1>3, <1>13
    <3>5. last(i) <= end(i)
      BY <2>1, <3>4
    <3>6. end(i) = last(i)
      BY <3>1, <3>3, <3>4, <3>5
    <3> QED BY <1>2, <1>3, <2>1, <2>3, <3>1, <3>6
  <2> QED BY <2>2, <2>3
<1>15. \A i \in 1..n : i \in G <=> i \in F
  <2>1. ASSUME NEW i \in 1..n, i \in G PROVE i \in F
    BY <1>2, <1>5, <1>6, <1>13, <2>1
  <2>2. ASSUME NEW i \in 1..n, i \in F PROVE i \in G
    <3>1. ASSUME NEW j \in 1..(n + 1), hash[t[j]] = hash[s[i]] PROVE i <= j
      <4>1. CASE j = n + 1
        BY <1>1, <4>1
      <4>2. CASE j \in 1..n
        BY <1>2, <1>5, <2>2, <3>1, <4>2
      <4> QED BY <1>12, <4>1, <4>2
    <3> QED BY <1>2, <1>6, <1>13, <3>1
  <2> QED BY <2>1, <2>2
<1>16. n + 1 \in G <=> \A i \in 1..n : hash[s[i]] # hash[x]
  <2>1. ASSUME n + 1 \in G, NEW i \in 1..n, hash[s[i]] = hash[x] PROVE FALSE
    <3>1. n + 1 <= i
      BY <1>2, <1>6, <1>13, <2>1
    <3> QED BY <1>1, <3>1
  <2>2. ASSUME \A i \in 1..n : hash[s[i]] # hash[x] PROVE n + 1 \in G
    <3>1. \A j \in 1..(n + 1) : hash[t[j]] = hash[x] => j = n + 1
      BY <1>2, <1>12, <2>2
    <3>2. \A j \in 1..(n + 1) : hash[t[j]] = hash[t[n + 1]] => n + 1 <= j
      BY <1>1, <1>2, <3>1
    <3> QED BY <1>6, <1>13, <3>2
  <2> QED BY <2>1, <2>2
<1>17. there = {} <=> \A i \in 1..n : hash[s[i]] # hash[x]
  <2>1. ASSUME NEW i \in 1..n, hash[s[i]] = hash[x] PROVE there # {}
    <3>1. PICK f \in F : hash[s[f]] = hash[s[i]]
      BY <1>5
    <3>2. PICK k \in 1..p : at[k] = f
      BY <1>8
    <3>3. k \in there
      BY <1>9, <1>11, <2>1, <3>1, <3>2 DEF there
    <3> QED BY <3>3
  <2>2. ASSUME NEW k \in there PROVE \E i \in 1..n : hash[s[i]] = hash[x]
    <3>1. k \in 1..p /\ hash[u[k]] = hash[x]
      BY <1>9 DEF there
    <3> QED BY <1>10, <1>11, <3>1
  <2> QED BY <2>1, <2>2
<1>18. CASE there = {}
  <2>1. \A i \in 1..n : hash[s[i]] # hash[x]
    BY <1>17, <1>18
  <2>2. G = F \union {n + 1}
    <3>1. \A i \in G : i \in F \/ i = n + 1
      BY <1>6, <1>12, <1>13, <1>15
    <3>2. \A i \in F : i \in G
      BY <1>5, <1>15
    <3> QED BY <1>16, <2>1, <3>1, <3>2
  <2>3. w = Append(v, x)
    <3> DEFINE y == Append(v, x)
    <3>1. y \in Seq(T) /\ Len(y) = n + 1 /\ y[n + 1] = x /\ \A i \in 1..n : y[i] = v[i]
      BY <1>3, AppendProperties
    <3> HIDE DEF y
    <3>2. w[n + 1] = x
      <4>1. end(n + 1) \in 1..(n + 1) /\ w[n + 1] = t[end(n + 1)] /\ n + 1 <= end(n + 1)
        BY <1>4, <1>13
      <4>2. end(n + 1) = n + 1
        BY <1>1, <4>1
      <4> QED BY <1>2, <4>1, <4>2
    <3>3. \A i \in 1..(n + 1) : w[i] = y[i]
      BY <1>12, <1>14, <2>1, <3>1, <3>2
    <3>4. w \in Seq(T) /\ Len(w) = n + 1
      BY <1>4, <1>13
    <3>5. w = y
      BY <3>1, <3>3, <3>4, SeqEqual
    <3> QED BY <3>5 DEF y
  <2>4. r = Append(u, x)
    <3>1. Pick(Append(v, x), F \union {Len(v) + 1}) = Append(Pick(v, F), x)
      <4>1. v \in Seq(T) /\ F \in SUBSET (1..Len(v))
        BY <1>3, <1>5
      <4> QED BY <4>1, PickAppend
    <3>2. Len(v) = n
      BY <1>3
    <3> QED BY <1>7, <2>2, <2>3, <3>1, <3>2
  <2> QED BY <1>18, <2>4 DEF there, u, r, t
<1>19. CASE there # {}
  <2>1. G = F
    <3>1. \A i \in G : i \in F
      BY <1>6, <1>12, <1>13, <1>15, <1>16, <1>17, <1>19
    <3>2. \A i \in F : i \in G
      BY <1>5, <1>15
    <3> QED BY <3>1, <3>2
  <2>2. r \in Seq(T) /\ Len(r) = p /\ DOMAIN r = 1..p /\ \A k \in 1..p : r[k] = w[at[k]]
    <3>1. w \in Seq(T) /\ G \in SUBSET (1..Len(w))
      BY <1>4, <1>6
    <3>2. r \in Seq(T) /\ Len(r) = p /\ \A k \in 1..p : r[k] = w[at[k]]
      BY <1>7, <2>1, <3>1, PickSeq DEF p, at
    <3> QED BY <3>2
  <2>3. \A k \in 1..p : r[k] = IF k \in there THEN x ELSE u[k]
    <3>1. \A k \in 1..p : k \in there <=> hash[s[at[k]]] = hash[x]
      BY <1>9, <1>11 DEF there
    <3>2. ASSUME NEW k \in 1..p PROVE r[k] = IF k \in there THEN x ELSE u[k]
      <4>1. at[k] \in 1..n /\ r[k] = w[at[k]] /\ u[k] = v[at[k]]
        BY <1>9, <1>10, <2>2
      <4>2. w[at[k]] = IF hash[s[at[k]]] = hash[x] THEN x ELSE v[at[k]]
        BY <1>14, <4>1
      <4> QED BY <3>1, <4>1, <4>2
    <3> QED BY <3>2
  <2>4. r = [k \in 1..p |-> IF k \in there THEN x ELSE u[k]]
    <3>1. r = [k \in 1..p |-> r[k]]
      BY <2>2
    <3> QED BY <2>3, <3>1
  <2>5. r = [k \in DOMAIN u |-> IF k \in there THEN x ELSE u[k]]
    BY <1>9, <2>4
  <2> QED BY <1>19, <2>5 DEF there, u, r, t
<1> QED BY <1>18, <1>19

\* The places of the items of other hashes.
Others(hash, s, h) == {i \in 1..Len(s) : hash[s[i]] # h}

\* Dropping the items of one hash from the list drops its item from the slice.
LEMMA AsSliceAway ==
    ASSUME NEW T, NEW hash, NEW s \in Seq(T), NEW h
    PROVE  AsSlice(hash, Pick(s, Others(hash, s, h)))
              = Pick(AsSlice(hash, s), Others(hash, AsSlice(hash, s), h))
<1> DEFINE n == Len(s)
           J == Others(hash, s, h)
           q == Cardinality(J)
           by == Ascending(J)
           t == Pick(s, J)
           F == Firsts(hash, s)
           G == Firsts(hash, t)
           v == Latest(hash, s)
           w == Latest(hash, t)
           u == AsSlice(hash, s)
           p == Cardinality(F)
           at == Ascending(F)
           last(i) == LastWith(hash, s, i)
           end(k) == LastWith(hash, t, k)
           K == Others(hash, u, h)
<1>1. n \in Nat /\ DOMAIN s = 1..n /\ \A i \in 1..n : s[i] \in T
  BY ElementOfSeq
<1>2. J \in SUBSET (1..n) /\ \A i \in 1..n : i \in J <=> hash[s[i]] # h
  BY DEF Others
<1> HIDE DEF J
<1>4. /\ v \in Seq(T) /\ Len(v) = n
      /\ \A i \in 1..n :
            /\ last(i) \in 1..n /\ hash[s[last(i)]] = hash[s[i]] /\ v[i] = s[last(i)]
            /\ \A j \in 1..n : hash[s[j]] = hash[s[i]] => j <= last(i)
  BY LatestSeq DEF Finals
<1>6. F \in SUBSET (1..n)
  BY FirstsSet
<1>7. \A i \in 1..n : i \in F <=> \A j \in 1..n : hash[s[j]] = hash[s[i]] => i <= j
  BY FirstsSet
<1>8. t \in Seq(T) /\ Len(t) = q /\ q \in Nat /\ \A k \in 1..q : by[k] \in J /\ t[k] = s[by[k]]
  BY <1>2, PickSeq
<1>9. /\ by \in [1..q -> J]
      /\ \A i \in J : \E k \in 1..q : by[k] = i
      /\ \A k, l \in 1..q : k < l <=> by[k] < by[l]
  <2>1. n \in Nat /\ J \in SUBSET (1..n)
    BY <1>1, <1>2
  <2>2. q \in Nat /\ Walks(by, q, J)
    BY <2>1, AscendingLists
  <2> HIDE DEF q, by
  <2>3. \A k \in 1..q : by[k] \in Nat
    <3>1. \A k \in 1..q : by[k] \in J
      BY <2>2 DEF Walks
    <3>2. \A i \in J : i \in Nat
      BY <2>1
    <3> QED BY <3>1, <3>2
  <2>4. \A k, l \in 1..q : k < l => by[k] < by[l]
    BY <2>2 DEF Walks
  <2>5. \A k, l \in 1..q : k < l \/ k = l \/ l < k
    BY <2>2
  <2>6. \A k, l \in 1..q : by[k] < by[l] => k < l
    BY <2>3, <2>4, <2>5
  <2> QED BY <2>2, <2>4, <2>6 DEF Walks
<1>10. p \in Nat /\ \A i \in F : \E k \in 1..p : at[k] = i
  <2>1. n \in Nat /\ F \in SUBSET (1..n)
    BY <1>1, <1>6
  <2> HIDE DEF F, n
  <2>2. p \in Nat /\ Walks(at, p, F)
    BY <2>1, AscendingLists
  <2> QED BY <2>2 DEF Walks
<1>11. u = Pick(v, F) /\ AsSlice(hash, t) = Pick(w, G)
  BY AsSliceParts
<1> HIDE DEF t, q, by
<1>12. /\ w \in Seq(T) /\ Len(w) = q
       /\ \A k \in 1..q :
             /\ end(k) \in 1..q /\ hash[t[end(k)]] = hash[t[k]] /\ w[k] = t[end(k)]
             /\ \A l \in 1..q : hash[t[l]] = hash[t[k]] => l <= end(k)
  <2>1. w \in Seq(T) /\ Len(w) = q /\ Finals(hash, t)
    BY <1>8, LatestSeq DEF w
  <2>2. Len(t) = q
    BY <1>8
  <2> QED BY <2>1, <2>2 DEF w, end, Finals
<1>13. /\ G \in SUBSET (1..q)
       /\ \A k \in 1..q : k \in G <=> \A l \in 1..q : hash[t[l]] = hash[t[k]] => k <= l
  BY <1>8, FirstsSet DEF G
<1>0. K \in SUBSET (1..Len(u)) /\ \A k \in 1..Len(u) : k \in K <=> hash[u[k]] # h
  BY DEF Others
<1> HIDE DEF K, n, F, G, v, w, u, p, at, last, end
<1>14. \A k \in 1..q : by[k] \in J /\ by[k] \in 1..n /\ t[k] = s[by[k]] /\ hash[t[k]] # h
  BY <1>2, <1>8
<1>15. ASSUME NEW i \in 1..n, hash[s[i]] # h
       PROVE  \E k \in 1..q : by[k] = i
  <2>1. i \in J
    BY <1>2, <1>15
  <2> QED BY <1>9, <2>1
\* The last items with the hashes that stay are the same.
<1>16. w = Pick(v, J)
  <2> DEFINE y == Pick(v, J)
  <2>1. y \in Seq(T) /\ Len(y) = q /\ \A k \in 1..q : y[k] = v[by[k]]
    BY <1>2, <1>4, PickSeq DEF by, q
  <2> HIDE DEF y
  <2>2. ASSUME NEW k \in 1..q PROVE w[k] = y[k]
    <3> DEFINE i == by[k]
               e == end(k)
               b == by[e]
    <3>1. i \in 1..n /\ t[k] = s[i] /\ hash[s[i]] # h
      BY <1>14
    <3>2. e \in 1..q /\ hash[t[e]] = hash[t[k]] /\ w[k] = t[e]
          /\ \A l \in 1..q : hash[t[l]] = hash[t[k]] => l <= e
      BY <1>12
    <3>3. y[k] = v[i]
      BY <2>1
    <3> HIDE DEF i, e
    <3>4. b \in 1..n /\ t[e] = s[b]
      BY <1>14, <3>2
    <3> HIDE DEF b
    <3>5. last(i) \in 1..n /\ hash[s[last(i)]] = hash[s[i]] /\ v[i] = s[last(i)]
          /\ \A j \in 1..n : hash[s[j]] = hash[s[i]] => j <= last(i)
      BY <1>4, <3>1
    <3>6. b <= last(i)
      BY <3>1, <3>2, <3>4, <3>5
    <3>7. PICK l \in 1..q : by[l] = last(i)
      BY <1>15, <3>1, <3>5
    <3>8. t[l] = s[last(i)]
      BY <1>14, <3>7
    <3>9. l <= e
      BY <3>1, <3>2, <3>5, <3>8
    <3>10. ~ (l < e)
      <4>1. ASSUME l < e PROVE FALSE
        <5>1. last(i) < b
          BY <1>9, <3>2, <3>7, <4>1 DEF b
        <5> QED BY <3>4, <3>5, <3>6, <5>1
      <4> QED BY <4>1
    <3>11. l = e
      BY <1>8, <3>2, <3>9, <3>10
    <3> QED BY <3>2, <3>3, <3>5, <3>8, <3>11
  <2>3. w = y
    BY <1>12, <2>1, <2>2, SeqEqual
  <2> QED BY <2>3 DEF y
\* So are their first places.
<1>17. ASSUME NEW k \in 1..q PROVE k \in G <=> by[k] \in F
  <2> DEFINE i == by[k]
  <2>1. i \in 1..n /\ t[k] = s[i] /\ hash[s[i]] # h
    BY <1>14
  <2>2. \A l \in 1..q : ~ (l < k) => k <= l
    BY <1>8
  <2>4. ASSUME k \in G, NEW j \in 1..n, hash[s[j]] = hash[s[i]] PROVE i <= j
    <3>1. PICK l \in 1..q : by[l] = j
      BY <1>15, <2>1, <2>4
    <3>2. hash[t[l]] = hash[t[k]]
      BY <1>14, <2>1, <2>4, <3>1
    <3>3. k <= l
      BY <1>13, <2>4, <3>2
    <3>4. ~ (l < k)
      BY <1>8, <3>3
    <3>5. ~ (j < i)
      BY <1>9, <3>1, <3>4
    <3> QED BY <1>1, <2>1, <3>5
  <2>5. ASSUME i \in F, NEW l \in 1..q, hash[t[l]] = hash[t[k]] PROVE k <= l
    <3>1. by[l] \in 1..n /\ hash[s[by[l]]] = hash[s[i]]
      BY <1>14, <2>1, <2>5
    <3>2. i <= by[l]
      BY <1>7, <2>1, <2>5, <3>1
    <3>3. ~ (by[l] < i)
      BY <1>1, <2>1, <3>1, <3>2
    <3>4. ~ (l < k)
      BY <1>9, <3>3
    <3> QED BY <2>2, <3>4
  <2> QED BY <1>7, <1>13, <2>1, <2>4, <2>5
<1>18. AsSlice(hash, t) = Pick(v, {by[k] : k \in G})
  <2>1. v \in Seq(T) /\ J \in SUBSET (1..Len(v)) /\ G \in SUBSET (1..Cardinality(J))
    BY <1>2, <1>4, <1>13 DEF q
  <2>2. Pick(Pick(v, J), G) = Pick(v, {Ascending(J)[k] : k \in G})
    BY <2>1, PickPick
  <2> QED BY <1>11, <1>16, <2>2 DEF by
<1>19. {by[k] : k \in G} = {i \in F : hash[s[i]] # h}
  <2>1. ASSUME NEW k \in G PROVE by[k] \in F /\ hash[s[by[k]]] # h
    <3>1. k \in 1..q
      BY <1>13
    <3> QED BY <1>14, <1>17, <3>1
  <2>2. ASSUME NEW i \in F, hash[s[i]] # h PROVE \E k \in G : by[k] = i
    <3>1. PICK k \in 1..q : by[k] = i
      BY <1>6, <1>15, <2>2
    <3> QED BY <1>17, <3>1
  <2> QED BY <2>1, <2>2
<1>20. u \in Seq(T) /\ Len(u) = p /\ \A k \in 1..p : at[k] \in F /\ u[k] = v[at[k]]
  <2>1. v \in Seq(T) /\ F \in SUBSET (1..Len(v))
    BY <1>4, <1>6
  <2> QED BY <1>11, <2>1, PickSeq DEF p, at
<1>21. \A k \in 1..p : hash[u[k]] = hash[s[at[k]]]
  <2>1. ASSUME NEW k \in 1..p PROVE hash[u[k]] = hash[s[at[k]]]
    <3> DEFINE i == at[k]
    <3>1. i \in 1..n /\ u[k] = v[i]
      BY <1>6, <1>20
    <3> HIDE DEF i
    <3>2. hash[s[last(i)]] = hash[s[i]] /\ v[i] = s[last(i)]
      BY <1>4, <3>1
    <3> QED BY <3>1, <3>2 DEF i
  <2> QED BY <2>1
<1>22. K \in SUBSET (1..p) /\ \A k \in 1..p : k \in K <=> hash[s[at[k]]] # h
  BY <1>0, <1>20, <1>21
<1>23. Pick(u, K) = Pick(v, {at[k] : k \in K})
  <2>1. v \in Seq(T) /\ F \in SUBSET (1..Len(v)) /\ K \in SUBSET (1..Cardinality(F))
    BY <1>4, <1>6, <1>22 DEF p
  <2>2. Pick(Pick(v, F), K) = Pick(v, {Ascending(F)[k] : k \in K})
    BY <2>1, PickPick
  <2> QED BY <1>11, <2>2 DEF at
<1>24. {at[k] : k \in K} = {i \in F : hash[s[i]] # h}
  <2>1. ASSUME NEW k \in K PROVE at[k] \in F /\ hash[s[at[k]]] # h
    BY <1>20, <1>22
  <2>2. ASSUME NEW i \in F, hash[s[i]] # h PROVE \E k \in K : at[k] = i
    BY <1>10, <1>22, <2>2
  <2> QED BY <2>1, <2>2
<1>25. AsSlice(hash, t) = Pick(u, K)
  BY <1>18, <1>19, <1>23, <1>24
<1> QED BY <1>25 DEF t, u, J, K

-----------------------------------------------------------------------------
\* Lists without duplicates.

\* No two items of s have one value of f.
Distinct(f, s) == \A i, j \in DOMAIN s : i # j => f[s[i]] # f[s[j]]

\* A list that is picked from one without duplicates has none.
LEMMA AmongDistinct ==
    ASSUME NEW T, NEW s \in Seq(T), NEW S, NEW f, Distinct(f, s)
    PROVE  Distinct(f, Among(s, S))
<1> DEFINE I == {i \in DOMAIN s : s[i] \in S}
           n == Cardinality(I)
           at == Ascending(I)
           u == Among(s, S)
<1>1. I \in SUBSET (1..Len(s)) /\ Len(s) \in Nat /\ DOMAIN s = 1..Len(s)
  OBVIOUS
<1>2. u = Pick(s, I)
  BY DEF Among
<1> HIDE DEF I, u
<1>3. n \in Nat /\ Walks(at, n, I)
  BY <1>1, AscendingLists
<1>4. u \in Seq(T) /\ Len(u) = n /\ \A k \in 1..n : u[k] = s[at[k]]
  BY <1>1, <1>2, PickSeq
<1> HIDE DEF n, at
<1>5. DOMAIN u = 1..n
  BY <1>4
<1>6. \A k \in 1..n : at[k] \in DOMAIN s /\ at[k] \in Nat
  <2>1. \A k \in 1..n : at[k] \in I
    BY <1>3 DEF Walks
  <2>2. \A i \in I : i \in DOMAIN s /\ i \in Nat
    BY <1>1
  <2> QED BY <2>1, <2>2
<1>7. ASSUME NEW k \in 1..n, NEW l \in 1..n, k # l PROVE f[u[k]] # f[u[l]]
  <2>1. k < l \/ l < k
    BY <1>7
  <2>2. at[k] < at[l] \/ at[l] < at[k]
    BY <1>3, <2>1 DEF Walks
  <2>3. at[k] # at[l]
    BY <1>6, <2>2
  <2> QED BY <1>4, <1>6, <2>3 DEF Distinct
<1>8. Distinct(f, u)
  BY <1>5, <1>7 DEF Distinct
<1> QED BY <1>8 DEF u

\* Sorting adds no duplicate.
LEMMA SortedDistinct ==
    ASSUME NEW T, NEW w, \A x \in T : w[x] \in Int, NEW s \in Seq(T), NEW f, Distinct(f, s)
    PROVE  Distinct(f, SortedStable(w, s))
<1> DEFINE n == Len(s)
           at == SortOrder(w, s)
           u == SortedStable(w, s)
<1>1. /\ at \in [1..n -> 1..n]
      /\ \A k, l \in 1..n : k < l => Precedes(w, s, at[k], at[l])
  BY SortOrderLists
<1>2. n \in Nat /\ DOMAIN s = 1..n
  OBVIOUS
<1>3. \A i \in 1..n : w[s[i]] \in Int
  BY ElementOfSeq
<1>4. u \in Seq(T) /\ Len(u) = n /\ \A k \in 1..n : u[k] = s[at[k]]
  BY SortedSeq
<1> HIDE DEF u, at, n
<1>5. DOMAIN u = 1..n
  BY <1>4
<1>6. ASSUME NEW k \in 1..n, NEW l \in 1..n, k < l PROVE f[u[k]] # f[u[l]]
  <2>1. at[k] \in 1..n /\ at[l] \in 1..n /\ Precedes(w, s, at[k], at[l])
    BY <1>1, <1>6
  <2>2. at[k] # at[l]
    <3>1. ~ Precedes(w, s, at[k], at[k])
      BY <1>3, <2>1 DEF Precedes
    <3> QED BY <2>1, <3>1
  <2> QED BY <1>2, <1>4, <2>1, <2>2 DEF Distinct
<1>7. ASSUME NEW k \in 1..n, NEW l \in 1..n, k # l PROVE f[u[k]] # f[u[l]]
  <2>1. k < l \/ l < k
    BY <1>7
  <2> QED BY <1>6, <2>1
<1>8. Distinct(f, u)
  BY <1>5, <1>7 DEF Distinct
<1> QED BY <1>8 DEF u
-----------------------------------------------------------------------------
\* A list that is moved to the end of another one, item by item.

\* Moving the first item leaves the concatenation as it was.
LEMMA ConcatShift ==
    ASSUME NEW T, NEW s \in Seq(T), NEW t \in Seq(T), t # <<>>
    PROVE  /\ Head(t) \in T /\ Tail(t) \in Seq(T)
           /\ Append(s, Head(t)) \o Tail(t) = s \o t
<1>1. Head(t) \in T /\ Tail(t) \in Seq(T) /\ Len(Tail(t)) = Len(t) - 1 /\ Len(t) \in Nat
      /\ Head(t) = t[1] /\ \A i \in 1..(Len(t) - 1) : Tail(t)[i] = t[i + 1]
  BY HeadTailProperties, ElementOfSeq
<1> DEFINE a == Append(s, Head(t))
           b == Tail(t)
           u == a \o b
           v == s \o t
           m == Len(s)
           n == Len(t)
<1>2. m \in Nat /\ n \in Nat /\ n # 0
  BY EmptySeq
<1>3. a \in Seq(T) /\ Len(a) = m + 1 /\ a[m + 1] = t[1] /\ \A i \in 1..m : a[i] = s[i]
  BY <1>1, AppendProperties
<1>4. v \in Seq(T) /\ Len(v) = m + n /\ \A i \in 1..(m + n) : v[i] = IF i <= m THEN s[i] ELSE t[i - m]
  BY ConcatProperties
<1> HIDE DEF a, b
<1>5. u \in Seq(T) /\ Len(u) = Len(a) + Len(b)
      /\ \A i \in 1..(Len(a) + Len(b)) : u[i] = IF i <= Len(a) THEN a[i] ELSE b[i - Len(a)]
  <2>1. b \in Seq(T)
    BY <1>1 DEF b
  <2> QED BY <1>3, <2>1, ConcatProperties
<1>6. Len(b) = n - 1 /\ \A i \in 1..(n - 1) : b[i] = t[i + 1]
  BY <1>1 DEF b
<1> HIDE DEF m, n, u, v
<1>7. Len(u) = m + n
  BY <1>2, <1>3, <1>5, <1>6
<1>8. ASSUME NEW i \in 1..(m + n) PROVE u[i] = v[i]
  <2>1. u[i] = IF i <= m + 1 THEN a[i] ELSE b[i - (m + 1)]
    <3>1. Len(a) = m + 1 /\ i \in 1..(Len(a) + Len(b))
      BY <1>2, <1>3, <1>6
    <3>2. u[i] = IF i <= Len(a) THEN a[i] ELSE b[i - Len(a)]
      BY <1>5, <3>1
    <3> QED BY <3>1, <3>2
  <2>2. v[i] = IF i <= m THEN s[i] ELSE t[i - m]
    BY <1>4
  <2>3. CASE i <= m
    <3>1. i \in 1..m /\ i <= m + 1
      BY <1>2, <2>3
    <3> QED BY <1>3, <2>1, <2>2, <2>3, <3>1
  <2>4. CASE i = m + 1
    <3>1. i - m = 1 /\ ~ (i <= m) /\ i <= m + 1
      BY <1>2, <2>4
    <3> QED BY <1>3, <2>1, <2>2, <2>4, <3>1
  <2>5. CASE i > m + 1
    <3> DEFINE j == i - (m + 1)
    <3>1. ~ (i <= m) /\ ~ (i <= m + 1) /\ j \in 1..(n - 1) /\ j + 1 = i - m
      BY <1>2, <2>5
    <3>2. u[i] = b[j]
      BY <2>1, <3>1
    <3> HIDE DEF j
    <3>3. b[j] = t[j + 1]
      BY <1>6, <3>1
    <3>4. v[i] = t[j + 1]
      BY <2>2, <3>1
    <3> QED BY <3>2, <3>3, <3>4
  <2> QED BY <1>2, <2>3, <2>4, <2>5
<1>9. u = v
  BY <1>4, <1>5, <1>7, <1>8, SeqEqual
<1> QED BY <1>1, <1>9 DEF u, v, a, b

\* Nothing is among the items of an empty list.
LEMMA AmongEmpty == ASSUME NEW S PROVE Among(<<>>, S) = <<>>
<1> DEFINE T == {0}
           s == <<>>
           u == Among(s, S)
<1>1. s \in Seq(T) /\ ToSet(s) = {}
  BY DEF ToSet
<1> HIDE DEF s, T
<1>2. u \in Seq(T) /\ ToSet(u) = {}
  BY <1>1, AmongSeq
<1> HIDE DEF u
<1>3. DOMAIN u = {}
  BY <1>2 DEF ToSet
<1>4. u = <<>>
  BY <1>2, <1>3, EmptySeq
<1> QED BY <1>4 DEF u, s
=============================================================================
