------------------------- MODULE ActorSearchProofs --------------------------
(***************************************************************************)
(* The goroutines of SearchActorAll append to one slice.  What a provider    *)
(* has in the slice, followed by what its goroutine has still to append, is   *)
(* what its search found, because nobody writes between the read and the      *)
(* write of the goroutine that holds the mutex; and the caller sorts only     *)
(* when the counter says that all of them have exited.                       *)
(***************************************************************************)
EXTENDS ActorSearch, ListProofs

States == {"none", "search", "append", "store", "exited", "panicked", "gone"}

\* Results of registered providers.
Registered == {x \in Results : x.provider \in Providers}

Types ==
    /\ pc \in {"spawn", "wait", "done", "crashed"}
    /\ task \in [Providers -> States]
    /\ name \in [Providers -> Nat \ {0}]
    /\ found \in [Providers -> Seq(Results)]
    /\ todo \in [Providers -> Seq(Results)]
    /\ shown \in [Providers -> SUBSET Results]
    /\ header \in [Providers -> Seq(Registered)]
    /\ results \in Seq(Registered)
    /\ \A p \in Providers : found[p] \in Seq(Of(p)) /\ todo[p] \in Seq(Of(p))

Live == {p \in Providers : task[p] \in {"search", "append", "store"}}

\* The counter counts the goroutines that run.
Counted == wg \in Int /\ wg = Cardinality(Live)

\* The caller waits when it has started them all, and sorts when all exited.
Phases ==
    /\ pc # "spawn" => \A p \in Providers : task[p] # "none"
    /\ pc = "done" => \A p \in Providers : task[p] \in {"exited", "panicked"}
    /\ (\E p \in Providers : task[p] = "gone") => pc = "crashed"
    /\ pc = "crashed" => \A p \in Providers : task[p] = "gone"

\* One goroutine at a time is between its read and its write.
Mutex ==
    /\ \A p \in Providers : task[p] = "store" <=> mu = p
    /\ \A p \in Providers : task[p] = "store" => header[p] = results /\ todo[p] # <<>>
    /\ mu \in Providers \union {Nobody}

\* What p has appended, and has to append, is what it found.
Appended(p) ==
    /\ task[p] \in {"none", "search", "panicked"} => Among(results, Of(p)) = <<>>
    /\ task[p] \in {"append", "store"} =>
          Among(results, Of(p)) \o todo[p] = Among(found[p], Valid)
    /\ task[p] = "exited" => Among(results, Of(p)) = Among(found[p], Valid)

Sorted ==
    pc = "done" =>
        \A i, j \in DOMAIN results :
            i < j => Priority[results[i].provider] >= Priority[results[j].provider]

AInv ==
    /\ Types /\ Counted /\ Phases /\ Mutex
    /\ \A p \in Providers : Appended(p)
    /\ Sorted

-----------------------------------------------------------------------------
\* What a name's search returns.

\* A result is its provider's and not another's.
LEMMA OfRegistered ==
    ASSUME NEW p \in Providers
    PROVE  Of(p) \subseteq Registered /\ Of(p) \subseteq Results
BY DEF Of, Registered

\* What the site and the rows make is of the provider.
LEMMA MergedType ==
    ASSUME NEW p \in Providers, NEW site \in Seq(Of(p)) \union Errors, NEW rows \in Seq(Of(p))
    PROVE  Merged(site, rows) \in Seq(Of(p)) \union Errors
<1>1. CASE rows = <<>>
  BY <1>1 DEF Merged
<1>2. CASE rows # <<>> /\ site \in {Failed, NotFound}
  <2>1. Merged(site, rows) = AsSlice(Key, rows)
    BY <1>2 DEF Merged
  <2>2. AsSlice(Key, rows) \in Seq(Of(p))
    BY AsSliceSeq
  <2> QED BY <2>1, <2>2
<1>3. CASE rows # <<>> /\ site \notin {Failed, NotFound}
  <2>1. Merged(site, rows) = AsSlice(Key, rows \o site)
    BY <1>3 DEF Merged
  <2> DEFINE s == rows \o site
  <2>2. s \in Seq(Of(p))
    BY <1>3, ConcatProperties DEF Errors
  <2> HIDE DEF s
  <2>3. AsSlice(Key, s) \in Seq(Of(p))
    BY <2>2, AsSliceSeq
  <2> QED BY <2>1, <2>3 DEF s
<1> QED BY <1>1, <1>2, <1>3

\* The filter and the sort keep some of the results.
LEMMA RankedType ==
    ASSUME NEW p \in Providers, NEW n \in ToSet(Names),
           NEW response \in Seq(Of(p)) \union Errors
    PROVE  /\ Ranked(response, n) \in Seq(Of(p)) \union Errors
           /\ response \in Seq(Of(p)) /\ Ranked(response, n) \notin Errors =>
                 /\ Ranked(response, n) \in Seq(Of(p))
                 /\ ToSet(Ranked(response, n)) \subseteq ToSet(response)
<1> DEFINE w == [x \in Results |-> Similarity[x][n]]
           near == {x \in Results : Similarity[x][n] >= MinSimilarity}
           kept == Among(response, near)
<1>1. CASE response \in {Failed, NotFound, <<>>}
  BY <1>1 DEF Ranked, Errors
<1>2. CASE response \notin {Failed, NotFound, <<>>}
  <2>1. response \in Seq(Of(p)) /\ Ranked(response, n) = SortedStable(w, kept)
    BY <1>2 DEF Ranked, Errors
  <2>2. \A x \in Of(p) : w[x] \in Int
    BY SimilarityAssumption DEF Of
  <2> HIDE DEF w, near
  <2>3. kept \in Seq(Of(p)) /\ ToSet(kept) \subseteq ToSet(response)
    BY <2>1, AmongSeq
  <2> HIDE DEF kept
  <2>4. SortedStable(w, kept) \in Seq(Of(p)) /\ ToSet(SortedStable(w, kept)) = ToSet(kept)
    BY <2>2, <2>3, SortedSeq
  <2> QED BY <2>1, <2>3, <2>4
<1> QED BY <1>1, <1>2

\* So is what one search adds to what was found.
LEMMA InnerType ==
    ASSUME NEW p \in Providers, NEW n \in ToSet(Names),
           NEW site \in Seq(Of(p)) \union Errors, NEW rows \in Seq(Of(p))
    PROVE  Inner(p, n, site, rows) \in Seq(Of(p)) \union Errors
<1>1. CASE p = Gfriends
  BY <1>1 DEF Inner
<1>2. CASE p # Gfriends
  <2>1. Merged(site, rows) \in Seq(Of(p)) \union Errors
    BY MergedType
  <2> QED BY <1>2, <2>1, RankedType DEF Inner
<1> QED BY <1>1, <1>2

\* A key the site returned has the site's result: it comes after the rows.
LEMMA SiteWins ==
    ASSUME NEW p \in Providers, NEW site \in Seq(Of(p)), NEW rows \in Seq(Of(p)),
           site \notin Errors,
           NEW y \in ToSet(Merged(site, rows)), NEW x \in ToSet(site), Key[x] = Key[y]
    PROVE  y \in ToSet(site)
<1>1. CASE rows = <<>>
  BY <1>1 DEF Merged
<1>2. CASE rows # <<>>
  <2> DEFINE s == rows \o site
             m == Len(rows)
             n == Len(site)
  <2>1. Merged(site, rows) = AsSlice(Key, s)
    BY <1>2 DEF Merged, Errors
  <2>2. /\ s \in Seq(Of(p)) /\ Len(s) = m + n /\ m \in Nat /\ n \in Nat
        /\ \A i \in 1..(m + n) : s[i] = IF i <= m THEN rows[i] ELSE site[i - m]
    BY ConcatProperties
  <2>3. DOMAIN site = 1..n
    OBVIOUS
  <2> HIDE DEF s, m, n
  <2>4. \A z \in ToSet(AsSlice(Key, s)) :
           \E i \in 1..Len(s) : z = s[i] /\ IsFinal(Key, s, i)
    BY <2>2, AsSliceSeq
  <2>5. PICK i \in 1..(m + n) :
           y = s[i] /\ \A j \in 1..(m + n) : i < j => Key[s[j]] # Key[s[i]]
    BY <2>1, <2>2, <2>4 DEF IsFinal
  <2>6. PICK k \in 1..n : site[k] = x
    BY <2>3 DEF ToSet
  <2>7. k + m \in 1..(m + n) /\ ~ (k + m <= m) /\ (k + m) - m = k
    BY <2>2
  <2>8. s[k + m] = x
    BY <2>2, <2>6, <2>7
  <2>9. ~ (i < k + m)
    BY <2>5, <2>7, <2>8
  <2>10. ~ (i <= m) /\ i - m \in 1..n
    BY <2>2, <2>9
  <2>11. y = site[i - m]
    BY <2>2, <2>5, <2>10
  <2> QED BY <2>3, <2>10, <2>11 DEF ToSet
<1> QED BY <1>1, <1>2

-----------------------------------------------------------------------------
\* The goroutines that run are finitely many.
LEMMA LiveFinite == IsFiniteSet(Live) /\ Cardinality(Live) \in Nat
<1>1. IsFiniteSet(Live)
  BY ProvidersAssumption, FS_Subset DEF Live
<1> QED BY <1>1, FS_CardinalityType

\* At first nothing runs, and the slice is empty.
LEMMA AInvInit == Init => AInv
<1> SUFFICES ASSUME Init PROVE AInv
  OBVIOUS
<1>1. Types
  BY DEF Init, Types, States
<1>2. Live = {}
  BY DEF Init, Live
<1>3. Counted
  BY <1>2, FS_EmptySet DEF Init, Counted
<1>4. Phases /\ Mutex /\ Sorted
  BY NobodyAssumption DEF Init, Phases, Mutex, Sorted
<1>5. \A p \in Providers : Appended(p)
  BY AmongEmpty DEF Init, Appended
<1> QED BY <1>1, <1>3, <1>4, <1>5 DEF AInv

\* A goroutine that starts is counted.
LEMMA SpawnStep == ASSUME NEW p \in Providers PROVE AInv /\ Spawn(p) => AInv'
<1> SUFFICES ASSUME AInv, Spawn(p) PROVE AInv'
  OBVIOUS
<1>1. /\ task[p] = "none" /\ task' = [task EXCEPT ![p] = "search"] /\ wg' = wg + 1
      /\ pc = "spawn"
      /\ UNCHANGED <<pc, name, found, shown, todo, mu, header, results>>
  BY DEF Spawn, search
<1>2. task \in [Providers -> States]
  BY DEF AInv, Types
<1>3. Types'
  BY <1>1 DEF AInv, Types, States
<1>4. Live' = Live \union {p} /\ p \notin Live
  BY <1>1, <1>2 DEF Live
<1>5. Cardinality(Live') = Cardinality(Live) + 1
  BY <1>4, LiveFinite, FS_AddElement
<1>6. Counted'
  BY <1>1, <1>5 DEF AInv, Counted
<1>7. Phases' /\ Sorted'
  BY <1>1, <1>2 DEF AInv, Phases, Sorted
<1>8. Mutex'
  BY <1>1, <1>2 DEF AInv, Mutex
<1>9. \A q \in Providers : Appended(q)'
  BY <1>1, <1>2 DEF AInv, Appended
<1> QED BY <1>3, <1>6, <1>7, <1>8, <1>9 DEF AInv

\* What a search for a name may find.
LEMMA SearchFinds ==
    ASSUME NEW p \in Providers, AInv, SearchName(p)
    PROVE  \E site \in Seq(Of(p)) \union Errors, rows \in Seq(Of(p)), n \in ToSet(Names) :
              /\ Inner(p, n, site, rows) \in Seq(Of(p)) \union Errors
              /\ found' = IF Inner(p, n, site, rows) \in Errors THEN found
                          ELSE [found EXCEPT ![p] = @ \o Inner(p, n, site, rows)]
              /\ shown' = [shown EXCEPT ![p] = IF site \in Errors THEN {} ELSE ToSet(site)]
<1> DEFINE n == Names[name[p]]
<1>1. n \in ToSet(Names)
  <2>1. name[p] \in Nat \ {0} /\ name[p] <= Len(Names)
    BY DEF AInv, Types, SearchName
  <2>2. DOMAIN Names = 1..Len(Names) /\ Len(Names) \in Nat
    BY NamesAssumption
  <2>3. name[p] \in DOMAIN Names
    BY <2>1, <2>2
  <2> QED BY <2>3 DEF ToSet
<1>2. PICK site \in Offers[p][n] \union Errors,
           rows \in {<<>>} \union (IF fallback THEN Rows[p][n] ELSE {}) :
           /\ found' = IF Inner(p, n, site, rows) \in Errors THEN found
                       ELSE [found EXCEPT ![p] = @ \o Inner(p, n, site, rows)]
           /\ shown' = [shown EXCEPT ![p] = IF site \in Errors THEN {} ELSE ToSet(site)]
  BY DEF SearchName
<1> HIDE DEF n
<1>3. Offers[p][n] \union Rows[p][n] \subseteq Seq(Of(p))
  BY <1>1, OffersAssumption
<1>4. site \in Seq(Of(p)) \union Errors /\ rows \in Seq(Of(p))
  <2>1. CASE rows = <<>>
    BY <1>2, <1>3, <2>1
  <2>2. CASE rows # <<>>
    <3>1. rows \in Rows[p][n]
      BY <1>2, <2>2
    <3> QED BY <1>2, <1>3, <3>1
  <2> QED BY <2>1, <2>2
<1>5. Inner(p, n, site, rows) \in Seq(Of(p)) \union Errors
  BY <1>1, <1>4, InnerType
<1> QED BY <1>1, <1>2, <1>4, <1>5

\* A search changes nothing that others have to do with.
LEMMA SearchStep == ASSUME NEW p \in Providers PROVE AInv /\ SearchName(p) => AInv'
<1> SUFFICES ASSUME AInv, SearchName(p) PROVE AInv'
  OBVIOUS
<1>1. /\ task[p] = "search" /\ name[p] \in Nat \ {0} /\ name' = [name EXCEPT ![p] = @ + 1]
      /\ UNCHANGED <<pc, task, todo, mu, header, wg, results>>
  BY DEF SearchName, AInv, Types
<1>2. /\ found \in [Providers -> Seq(Results)] /\ found[p] \in Seq(Of(p))
      /\ shown \in [Providers -> SUBSET Results]
      /\ name \in [Providers -> Nat \ {0}]
      /\ \A q \in Providers : found[q] \in Seq(Of(q)) /\ todo[q] \in Seq(Of(q))
  BY DEF AInv, Types
<1>3. PICK site \in Seq(Of(p)) \union Errors, rows \in Seq(Of(p)), n \in ToSet(Names) :
         /\ Inner(p, n, site, rows) \in Seq(Of(p)) \union Errors
         /\ found' = IF Inner(p, n, site, rows) \in Errors THEN found
                     ELSE [found EXCEPT ![p] = @ \o Inner(p, n, site, rows)]
         /\ shown' = [shown EXCEPT ![p] = IF site \in Errors THEN {} ELSE ToSet(site)]
  BY SearchFinds
<1>4. /\ found' \in [Providers -> Seq(Results)]
      /\ \A q \in Providers : found'[q] \in Seq(Of(q))
      /\ \A q \in Providers : q # p => found'[q] = found[q]
  <2> DEFINE r == Inner(p, n, site, rows)
  <2>1. CASE r \in Errors
    BY <1>2, <1>3, <2>1
  <2>2. CASE r \notin Errors
    <3>1. r \in Seq(Of(p)) /\ found' = [found EXCEPT ![p] = @ \o r]
      BY <1>3, <2>2
    <3> HIDE DEF r
    <3>2. found[p] \o r \in Seq(Of(p))
      BY <1>2, <3>1, ConcatProperties
    <3>3. found[p] \o r \in Seq(Results)
      BY <3>2 DEF Of
    <3> QED BY <1>2, <3>1, <3>2, <3>3
  <2> QED BY <2>1, <2>2
<1>5. shown' \in [Providers -> SUBSET Results]
  <2>1. CASE site \in Errors
    BY <1>2, <1>3, <2>1
  <2>2. CASE site \notin Errors
    <3>1. site \in Seq(Of(p))
      BY <2>2
    <3>2. ToSet(site) \subseteq Results
      BY <3>1, ElementOfSeq DEF ToSet, Of
    <3> QED BY <1>2, <1>3, <2>2, <3>2
  <2> QED BY <2>1, <2>2
<1>6. name' \in [Providers -> Nat \ {0}]
  BY <1>1, <1>2
<1>7. Types'
  BY <1>1, <1>2, <1>4, <1>5, <1>6 DEF AInv, Types
<1>8. Live' = Live
  BY <1>1 DEF Live
<1>9. Counted' /\ Phases' /\ Mutex' /\ Sorted'
  BY <1>1, <1>8 DEF AInv, Counted, Phases, Mutex, Sorted
<1>10. \A q \in Providers : Appended(q)'
  BY <1>1, <1>4 DEF AInv, Appended
<1> QED BY <1>7, <1>9, <1>10 DEF AInv

\* What is to be appended is what was found and is valid.
LEMMA DeliverStep == ASSUME NEW p \in Providers PROVE AInv /\ Deliver(p) => AInv'
<1> SUFFICES ASSUME AInv, Deliver(p) PROVE AInv'
  OBVIOUS
<1> DEFINE u == Among(found[p], Valid)
<1>1. /\ task[p] = "search" /\ task' = [task EXCEPT ![p] = "append"]
      /\ todo' = [todo EXCEPT ![p] = u]
      /\ UNCHANGED <<pc, name, found, shown, mu, header, wg, results>>
  BY DEF Deliver, search
<1>2. /\ task \in [Providers -> States] /\ todo \in [Providers -> Seq(Results)]
      /\ found[p] \in Seq(Of(p)) /\ Of(p) \subseteq Results
      /\ \A q \in Providers : todo[q] \in Seq(Of(q))
  BY OfRegistered DEF AInv, Types
<1>3. u \in Seq(Of(p))
  BY <1>2, AmongSeq
<1> HIDE DEF u
<1>4. u \in Seq(Results)
  BY <1>2, <1>3
<1>5. Types'
  BY <1>1, <1>2, <1>3, <1>4 DEF AInv, Types, States
<1>6. Live' = Live
  BY <1>1, <1>2 DEF Live
<1>7. Counted' /\ Phases' /\ Sorted'
  BY <1>1, <1>2, <1>6 DEF AInv, Counted, Phases, Sorted
<1>8. Mutex'
  BY <1>1, <1>2 DEF AInv, Mutex
<1>9. ASSUME NEW q \in Providers PROVE Appended(q)'
  <2>1. CASE q = p
    <3>1. Among(results, Of(p)) = <<>>
      BY <1>1 DEF AInv, Appended
    <3>2. <<>> \o u = u
      BY <1>3, ConcatEmptySeq
    <3> QED BY <1>1, <1>2, <2>1, <3>1, <3>2 DEF Appended, u
  <2>2. CASE q # p
    <3>1. task'[q] = task[q] /\ todo'[q] = todo[q] /\ Appended(q)
      BY <1>1, <1>2, <2>2 DEF AInv
    <3> QED BY <1>1, <3>1 DEF Appended
  <2> QED BY <2>1, <2>2
<1> QED BY <1>5, <1>7, <1>8, <1>9 DEF AInv

\* The goroutine that gets the mutex has read the slice as it is.
LEMMA LoadStep == ASSUME NEW p \in Providers PROVE AInv /\ Load(p) => AInv'
<1> SUFFICES ASSUME AInv, Load(p) PROVE AInv'
  OBVIOUS
<1>1. /\ task[p] = "append" /\ todo[p] # <<>> /\ mu = Nobody /\ mu' = p
      /\ header' = [header EXCEPT ![p] = results] /\ task' = [task EXCEPT ![p] = "store"]
      /\ UNCHANGED <<pc, name, found, shown, todo, wg, results>>
  BY DEF Load, search
<1>2. /\ task \in [Providers -> States] /\ header \in [Providers -> Seq(Registered)]
      /\ results \in Seq(Registered)
  BY DEF AInv, Types
<1>3. Types'
  BY <1>1, <1>2 DEF AInv, Types, States
<1>4. Live' = Live
  BY <1>1, <1>2 DEF Live
<1>5. Counted' /\ Phases' /\ Sorted'
  BY <1>1, <1>2, <1>4 DEF AInv, Counted, Phases, Sorted
<1>6. \A q \in Providers : task[q] # "store"
  BY <1>1, NobodyAssumption DEF AInv, Mutex
<1>7. Mutex'
  BY <1>1, <1>2, <1>6 DEF Mutex
<1>8. ASSUME NEW q \in Providers PROVE Appended(q)'
  <2>1. Appended(q)
    BY DEF AInv
  <2>2. CASE q = p
    <3>1. task'[p] = "store" /\ Among(results, Of(p)) \o todo[p] = Among(found[p], Valid)
      BY <1>1, <1>2, <2>1, <2>2 DEF Appended
    <3> QED BY <1>1, <2>2, <3>1 DEF Appended
  <2>3. CASE q # p
    <3>1. task'[q] = task[q]
      BY <1>1, <1>2, <2>3
    <3> QED BY <1>1, <2>1, <3>1 DEF Appended
  <2> QED BY <2>2, <2>3
<1> QED BY <1>3, <1>5, <1>7, <1>8 DEF AInv

\* It writes to the slice that it read, with one item moved from its own list.
LEMMA StoreStep == ASSUME NEW p \in Providers PROVE AInv /\ Store(p) => AInv'
<1> SUFFICES ASSUME AInv, Store(p) PROVE AInv'
  OBVIOUS
<1> DEFINE t == todo[p]
           x == Head(t)
<1>1. /\ task[p] = "store" /\ results' = Append(header[p], x)
      /\ todo' = [todo EXCEPT ![p] = Tail(t)] /\ header' = [header EXCEPT ![p] = <<>>]
      /\ mu' = Nobody /\ task' = [task EXCEPT ![p] = "append"]
      /\ UNCHANGED <<pc, name, found, shown, wg>>
  BY DEF Store, search
<1>2. /\ task \in [Providers -> States] /\ header \in [Providers -> Seq(Registered)]
      /\ todo \in [Providers -> Seq(Results)] /\ results \in Seq(Registered)
      /\ \A q \in Providers : todo[q] \in Seq(Of(q)) /\ found[q] \in Seq(Of(q))
  BY DEF AInv, Types
<1>3. header[p] = results /\ t # <<>> /\ mu = p
  BY <1>1 DEF AInv, Mutex
<1>4. t \in Seq(Of(p))
  BY <1>2
<1> HIDE DEF t
<1>5. x \in Of(p) /\ Tail(t) \in Seq(Of(p))
  BY <1>3, <1>4, HeadTailProperties, ElementOfSeq
<1> HIDE DEF x
<1>6. x \in Registered /\ Tail(t) \in Seq(Results)
  BY <1>5, OfRegistered
<1>7. results' = Append(results, x) /\ results' \in Seq(Registered)
  BY <1>1, <1>2, <1>3, <1>6, AppendProperties
<1>8. Types'
  BY <1>1, <1>2, <1>5, <1>6, <1>7 DEF AInv, Types, States
<1>9. Live' = Live
  BY <1>1, <1>2 DEF Live
<1>10. pc # "done" /\ pc' # "done"
  BY <1>1 DEF AInv, Phases
<1>11. Counted' /\ Phases' /\ Sorted'
  BY <1>1, <1>2, <1>9, <1>10 DEF AInv, Counted, Phases, Sorted
<1>12. Mutex'
  BY <1>1, <1>2, <1>3, NobodyAssumption DEF AInv, Mutex
<1>13. ASSUME NEW q \in Providers PROVE Appended(q)'
  <2>1. Among(results', Of(q)) =
           IF x \in Of(q) THEN Append(Among(results, Of(q)), x) ELSE Among(results, Of(q))
    BY <1>2, <1>6, <1>7, AmongAppend
  <2>2. CASE q = p
    <3> DEFINE a == Among(results, Of(p))
    <3>1. a \in Seq(Registered) /\ ToSet(a) = ToSet(results) \intersect Of(p)
      BY <1>2, AmongSeq
    <3>2. a \o t = Among(found[p], Valid)
      BY <1>1 DEF AInv, Appended, t
    <3>3. Among(results', Of(p)) = Append(a, x)
      BY <1>5, <2>1, <2>2
    <3> HIDE DEF a
    <3>4. t \in Seq(Registered)
      BY <1>4, OfRegistered
    <3>5. Append(a, Head(t)) \o Tail(t) = a \o t
      BY <1>3, <3>1, <3>4, ConcatShift
    <3>6. Among(results', Of(p)) \o Tail(t) = Among(found[p], Valid)
      BY <3>2, <3>3, <3>5 DEF x
    <3>7. task'[p] = "append" /\ todo'[p] = Tail(t) /\ found'[p] = found[p]
      BY <1>1, <1>2
    <3> QED BY <2>2, <3>6, <3>7 DEF Appended
  <2>3. CASE q # p
    <3>1. task'[q] = task[q] /\ todo'[q] = todo[q] /\ found'[q] = found[q] /\ Appended(q)
      BY <1>1, <1>2, <2>3 DEF AInv
    <3>2. x \notin Of(q)
      BY <1>5, <2>3 DEF Of
    <3>3. Among(results', Of(q)) = Among(results, Of(q))
      BY <2>1, <3>2
    <3> QED BY <3>1, <3>3 DEF Appended
  <2> QED BY <2>2, <2>3
<1> QED BY <1>8, <1>11, <1>12, <1>13 DEF AInv

\* A goroutine that exits has appended everything.
LEMMA ExitStep == ASSUME NEW p \in Providers PROVE AInv /\ Exit(p) => AInv'
<1> SUFFICES ASSUME AInv, Exit(p) PROVE AInv'
  OBVIOUS
<1>1. /\ task[p] = "append" /\ todo[p] = <<>> /\ wg' = wg - 1
      /\ task' = [task EXCEPT ![p] = "exited"]
      /\ UNCHANGED <<pc, name, found, shown, todo, mu, header, results>>
  BY DEF Exit, search
<1>2. task \in [Providers -> States] /\ results \in Seq(Registered)
  BY DEF AInv, Types
<1>3. Types'
  BY <1>1, <1>2 DEF AInv, Types, States
<1>4. Live' = Live \ {p} /\ p \in Live
  BY <1>1, <1>2 DEF Live
<1>5. Cardinality(Live') = Cardinality(Live) - 1
  BY <1>4, LiveFinite, FS_RemoveElement
<1>6. Counted'
  BY <1>1, <1>5 DEF AInv, Counted
<1>7. Phases' /\ Sorted'
  BY <1>1, <1>2 DEF AInv, Phases, Sorted
<1>8. Mutex'
  BY <1>1, <1>2 DEF AInv, Mutex
<1>9. ASSUME NEW q \in Providers PROVE Appended(q)'
  <2>1. CASE q = p
    <3> DEFINE a == Among(results, Of(p))
    <3>1. a \in Seq(Registered) /\ a \o <<>> = Among(found[p], Valid)
      BY <1>1, <1>2, AmongSeq DEF AInv, Appended
    <3> HIDE DEF a
    <3>2. a = Among(found[p], Valid)
      BY <3>1, ConcatEmptySeq
    <3>3. task'[p] = "exited"
      BY <1>1, <1>2
    <3> QED BY <1>1, <2>1, <3>2, <3>3 DEF Appended, a
  <2>2. CASE q # p
    <3>1. task'[q] = task[q] /\ Appended(q)
      BY <1>1, <1>2, <2>2 DEF AInv
    <3> QED BY <1>1, <3>1 DEF Appended
  <2> QED BY <2>1, <2>2
<1> QED BY <1>3, <1>6, <1>7, <1>8, <1>9 DEF AInv

\* A goroutine that panics is not counted any more, and has appended nothing.
LEMMA PanicStep == ASSUME NEW p \in Providers PROVE AInv /\ Panic(p) => AInv'
<1> SUFFICES ASSUME AInv, Panic(p) PROVE AInv'
  OBVIOUS
<1>1. /\ task[p] = "search" /\ wg' = wg - 1
      /\ task' = [task EXCEPT ![p] = "panicked"]
      /\ UNCHANGED <<pc, name, found, shown, todo, mu, header, results>>
  BY DEF Panic, search
<1>2. task \in [Providers -> States]
  BY DEF AInv, Types
<1>3. Types'
  BY <1>1, <1>2 DEF AInv, Types, States
<1>4. Live' = Live \ {p} /\ p \in Live
  BY <1>1, <1>2 DEF Live
<1>5. Cardinality(Live') = Cardinality(Live) - 1
  BY <1>4, LiveFinite, FS_RemoveElement
<1>6. Counted'
  BY <1>1, <1>5 DEF AInv, Counted
<1>7. Phases' /\ Sorted'
  BY <1>1, <1>2 DEF AInv, Phases, Sorted
<1>8. Mutex'
  BY <1>1, <1>2 DEF AInv, Mutex
<1>9. \A q \in Providers : Appended(q)'
  BY <1>1, <1>2 DEF AInv, Appended
<1> QED BY <1>3, <1>6, <1>7, <1>8, <1>9 DEF AInv

\* Nothing runs any more when the server has crashed.
LEMMA CrashStep == AInv /\ Crash => AInv'
<1> SUFFICES ASSUME AInv, Crash PROVE AInv'
  OBVIOUS
<1>1. /\ pc' = "crashed" /\ task' = [p \in Providers |-> "gone"]
      /\ mu' = Nobody /\ wg' = 0
      /\ UNCHANGED <<name, found, shown, todo, header, results>>
  BY DEF Crash, search
<1>2. Types'
  BY <1>1 DEF AInv, Types, States
<1>3. Live' = {}
  BY <1>1 DEF Live
<1>4. Counted'
  BY <1>1, <1>3, FS_EmptySet DEF Counted
<1>5. Phases' /\ Sorted'
  BY <1>1 DEF Phases, Sorted
<1>6. Mutex'
  BY <1>1, NobodyAssumption DEF Mutex
<1>7. \A q \in Providers : Appended(q)'
  BY <1>1 DEF Appended
<1> QED BY <1>2, <1>4, <1>5, <1>6, <1>7 DEF AInv

\* Waiting changes nothing.
LEMMA WaitStep == AInv /\ (Wait \/ UNCHANGED vars) => AInv'
<1> SUFFICES ASSUME AInv, Wait \/ UNCHANGED vars PROVE AInv'
  OBVIOUS
<1>1. /\ UNCHANGED <<task, name, found, shown, todo, mu, header, wg, results>>
      /\ \/ pc' = pc
         \/ /\ pc = "spawn" /\ pc' = "wait"
            /\ \A p \in Providers : task[p] # "none"
  <2>1. CASE Wait
    BY <2>1 DEF Wait, search
  <2>2. CASE UNCHANGED vars
    BY <2>2 DEF vars, search
  <2> QED BY <2>1, <2>2
<1>2. Types' /\ Phases' /\ Mutex' /\ Sorted'
  BY <1>1 DEF AInv, Types, Phases, Mutex, Sorted
<1>3. Live' = Live
  BY <1>1 DEF Live
<1>4. Counted'
  BY <1>1, <1>3 DEF AInv, Counted
<1>5. \A q \in Providers : Appended(q)'
  BY <1>1 DEF AInv, Appended
<1> QED BY <1>2, <1>4, <1>5 DEF AInv

\* The stable sort leaves the results of every provider in their order.
LEMMA ReturnStep == AInv /\ Return => AInv'
<1> SUFFICES ASSUME AInv, Return PROVE AInv'
  OBVIOUS
<1> DEFINE w == [x \in Results |-> Priority[x.provider]]
           reply == SortedStable(w, results)
<1>1. /\ wg = 0 /\ results' = reply /\ pc = "wait" /\ pc' = "done"
      /\ UNCHANGED <<task, name, found, shown, todo, mu, header, wg>>
  BY DEF Return, search
<1>2. task \in [Providers -> States] /\ results \in Seq(Registered)
  BY DEF AInv, Types
<1>3. Live = {}
  BY <1>1, LiveFinite, FS_EmptySet DEF AInv, Counted
<1>4. \A p \in Providers : task[p] \in {"exited", "panicked"}
  BY <1>1, <1>2, <1>3 DEF AInv, Phases, Live, States
<1>5. \A x \in Registered : w[x] = Priority[x.provider] /\ w[x] \in Int
  BY PriorityAssumption DEF Registered
<1>6. \A x \in Registered : w[x] \in Int
  BY <1>5
<1> HIDE DEF w
<1>7. /\ reply \in Seq(Registered) /\ Len(reply) = Len(results)
      /\ \A k, l \in 1..Len(results) : k < l => w[reply[k]] >= w[reply[l]]
  BY <1>2, <1>6, SortedSeq
<1>8. ASSUME NEW p \in Providers PROVE Among(reply, Of(p)) = Among(results, Of(p))
  <2> DEFINE S == Of(p)
  <2>1. \A x, y \in Registered : x \in S /\ y \in S => w[x] = w[y]
    BY <1>5 DEF Of
  <2>2. results \in Seq(Registered)
    BY <1>2
  <2> HIDE DEF S
  <2>3. Among(SortedStable(w, results), S) = Among(results, S)
    BY <1>6, <2>1, <2>2, SortedAmong
  <2> QED BY <2>3 DEF S
<1> HIDE DEF reply
<1>9. Types'
  BY <1>1, <1>7 DEF AInv, Types
<1>10. Live' = Live
  BY <1>1 DEF Live
<1>11. Counted' /\ Phases' /\ Mutex'
  BY <1>1, <1>4, <1>10 DEF AInv, Counted, Phases, Mutex
<1>12. \A p \in Providers : Appended(p)'
  BY <1>1, <1>4, <1>8 DEF AInv, Appended
<1>13. Sorted'
  <2>1. DOMAIN reply = 1..Len(results) /\ \A i \in DOMAIN reply : reply[i] \in Registered
    BY <1>7
  <2>2. ASSUME NEW i \in DOMAIN reply, NEW j \in DOMAIN reply, i < j
        PROVE  Priority[reply[i].provider] >= Priority[reply[j].provider]
    BY <1>5, <1>7, <2>1, <2>2
  <2> QED BY <1>1, <2>2 DEF Sorted
<1> QED BY <1>9, <1>11, <1>12, <1>13 DEF AInv

\* The invariant is inductive.
LEMMA AInvStep == AInv /\ [Next]_vars => AInv'
BY SpawnStep, SearchStep, DeliverStep, LoadStep, StoreStep, ExitStep, PanicStep, CrashStep,
   WaitStep, ReturnStep
   DEF Next, Task, Returned

\* The inductive invariant holds in every reachable state.
LEMMA AInvCorrect == Spec => []AInv
BY AInvInit, AInvStep, PTL DEF Spec

-----------------------------------------------------------------------------
\* The reply has what every provider's search found, provider by provider: no
\* append to the shared slice undoes another (engine/actor.go:127-129), and the
\* sort of the whole keeps the order of each (engine/actor.go:137).
THEOREM NoAppendLost == Spec => []ReplySound
<1>1. AInv => ReplySound
  BY DEF AInv, Phases, Appended, Sorted, ReplySound
<1> QED BY <1>1, AInvCorrect, PTL

\* What a step finds under a key of the site is the site's.
FirstFromSite ==
    \A p \in Providers \ {Gfriends} : name'[p] # name[p] =>
        \A k \in Len(found[p]) + 1..Len(found'[p]) :
            (\E x \in shown'[p] : Key[x] = Key[found'[p][k]])
            => found'[p][k] \in shown'[p]

\* A search adds what innerSearch made of the site and the rows.
LEMMA SearchKeepsSite ==
    ASSUME NEW p \in Providers \ {Gfriends}, AInv, SearchName(p),
           NEW k \in Len(found[p]) + 1..Len(found'[p]),
           NEW x \in shown'[p], Key[x] = Key[found'[p][k]]
    PROVE  found'[p][k] \in shown'[p]
<1>1. PICK site \in Seq(Of(p)) \union Errors, rows \in Seq(Of(p)), n \in ToSet(Names) :
         /\ Inner(p, n, site, rows) \in Seq(Of(p)) \union Errors
         /\ found' = IF Inner(p, n, site, rows) \in Errors THEN found
                     ELSE [found EXCEPT ![p] = @ \o Inner(p, n, site, rows)]
         /\ shown' = [shown EXCEPT ![p] = IF site \in Errors THEN {} ELSE ToSet(site)]
  BY SearchFinds
<1> DEFINE r == Inner(p, n, site, rows)
           g == Merged(site, rows)
           m == Len(found[p])
           y == found'[p][k]
<1>2. found \in [Providers -> Seq(Results)] /\ found[p] \in Seq(Of(p)) /\ m \in Nat
      /\ shown \in [Providers -> SUBSET Results] /\ Of(p) \subseteq Results
  BY OfRegistered DEF AInv, Types
<1>3. site \notin Errors /\ site \in Seq(Of(p)) /\ shown'[p] = ToSet(site)
  BY <1>1, <1>2
<1>4. r \notin Errors
  <2> SUFFICES ASSUME r \in Errors PROVE FALSE
    OBVIOUS
  <2>1. found' = found
    BY <1>1
  <2> QED BY <1>2, <2>1
<1>5. r = Ranked(g, n) /\ g \in Seq(Of(p)) \union Errors
  BY MergedType DEF Inner
<1> HIDE DEF r, g
<1>6. g \in Seq(Of(p))
  <2>1. g \in Errors => Ranked(g, n) = g
    BY DEF Ranked, Errors
  <2> QED BY <1>4, <1>5, <2>1
<1>7. r \in Seq(Of(p)) /\ ToSet(r) \subseteq ToSet(g)
  BY <1>4, <1>5, <1>6, RankedType
<1>8. found'[p] = found[p] \o r
  BY <1>1, <1>2, <1>4 DEF r
<1>9. y \in ToSet(r)
  <2> DEFINE a == found[p]
             b == found'[p]
  <2>1. a \in Seq(Of(p)) /\ m = Len(a) /\ b = a \o r /\ k \in m + 1..Len(b)
    BY <1>2, <1>8
  <2> HIDE DEF a, b, m
  <2>2. /\ Len(b) = m + Len(r) /\ Len(r) \in Nat /\ m \in Nat
        /\ \A i \in 1..(m + Len(r)) : b[i] = IF i <= m THEN a[i] ELSE r[i - m]
    BY <1>7, <2>1, ConcatProperties
  <2>3. k \in 1..(m + Len(r)) /\ ~ (k <= m) /\ k - m \in 1..Len(r)
    BY <2>1, <2>2
  <2>4. b[k] = r[k - m]
    BY <2>2, <2>3
  <2>5. DOMAIN r = 1..Len(r)
    BY <1>7
  <2> QED BY <2>3, <2>4, <2>5 DEF ToSet, b
<1>10. y \in ToSet(Merged(site, rows)) /\ x \in ToSet(site) /\ Key[x] = Key[y]
  BY <1>3, <1>7, <1>9 DEF g
<1> HIDE DEF y
<1>11. y \in ToSet(site)
  BY <1>3, <1>10, SiteWins
<1> QED BY <1>3, <1>11 DEF y

\* No other step searches.
LEMMA StepKeepsSite == AInv /\ [Next]_vars => FirstFromSite
<1> SUFFICES ASSUME AInv, [Next]_vars,
                    NEW p \in Providers \ {Gfriends}, name'[p] # name[p],
                    NEW k \in Len(found[p]) + 1..Len(found'[p]),
                    NEW x \in shown'[p], Key[x] = Key[found'[p][k]]
             PROVE  found'[p][k] \in shown'[p]
  BY DEF FirstFromSite
<1>1. CASE \E q \in Providers : SearchName(q)
  <2>1. PICK q \in Providers : SearchName(q)
    BY <1>1
  <2>2. name' = [name EXCEPT ![q] = @ + 1] /\ name \in [Providers -> Nat \ {0}]
    BY <2>1 DEF SearchName, AInv, Types
  <2>3. q = p
    BY <2>2
  <2> QED BY <2>1, <2>3, SearchKeepsSite
<1>2. CASE ~ \E q \in Providers : SearchName(q)
  <2>1. name' = name
    BY <1>2 DEF Next, Task, Returned, Spawn, Panic, Crash, Deliver, Load, Store, Exit, Wait, Return, vars, search
  <2> QED BY <2>1
<1> QED BY <1>1, <1>2

\* The row of the database never replaces what the site returned
\* (engine/actor.go:66).
THEOREM SiteBeforeRow == Spec => SiteOverwritesRow
<1>1. AInv /\ [Next]_vars => [FirstFromSite]_vars
  BY StepKeepsSite
<1>2. SiteOverwritesRow <=> [][FirstFromSite]_vars
  BY DEF SiteOverwritesRow, FirstFromSite
<1> QED BY <1>1, <1>2, AInvCorrect, PTL DEF Spec
=============================================================================
