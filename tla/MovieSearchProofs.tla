-------------------------- MODULE MovieSearchProofs --------------------------
(***************************************************************************)
(* The fan-out of SearchMovieAll never sends on a closed channel, whatever   *)
(* the number of providers: the closer waits for a counter that is the       *)
(* number of goroutines that have not exited.  So nothing is missing when     *)
(* the range over the channel ends, and what the lists of the replies say of  *)
(* their items is what module ListProofs proves of lists.                     *)
(***************************************************************************)
EXTENDS MovieSearch, ListProofs

States == {"none", "search", "fetch", "save", "send", "finish", "exited", "panicked", "gone"}

Running == {"search", "fetch", "save", "send", "finish"}

Live == {p \in Providers : task[p] \in Running}

\* The counter counts the goroutines that run.
Counted ==
    /\ task \in [Providers -> States]
    /\ wg \in Int
    /\ wg = Cardinality(Live)

\* The caller starts the closer when it has started everything else.
Phases ==
    /\ pc = "spawn" => closer = "none"
    /\ closer # "none" => \A p \in Providers : task[p] # "none"
    /\ closer = "wait" \/ closer = "none" => ch = "open"
    /\ closer \in {"none", "wait", "exited", "gone"}
    /\ closer = "exited" => \A p \in Providers : task[p] \in {"exited", "panicked"}
    /\ closer = "gone" <=> pc = "crashed"
    /\ closer = "gone" => \A p \in Providers : task[p] = "gone"
    /\ (\E p \in Providers : task[p] = "gone") => closer = "gone"

IInv == Counted /\ Phases

\* The goroutines that run are finitely many.
LEMMA LiveFinite == IsFiniteSet(Live) /\ Cardinality(Live) \in Nat
<1>1. IsFiniteSet(Live)
  BY ProvidersAssumption, FS_Subset DEF Live
<1> QED BY <1>1, FS_CardinalityType

\* At first nothing runs.
LEMMA IInvInit == Init => IInv
<1> SUFFICES ASSUME Init PROVE IInv
  OBVIOUS
<1>1. Live = {}
  BY DEF Init, Live, Running
<1>2. Cardinality(Live) = 0
  BY <1>1, FS_EmptySet
<1> QED BY <1>2 DEF Init, IInv, Counted, Phases, States, Running

\* A goroutine that starts is counted before the closer exists.
LEMMA SpawnStep == ASSUME NEW p \in Providers PROVE IInv /\ Spawn(p) => IInv'
<1> SUFFICES ASSUME IInv, Spawn(p) PROVE IInv'
  OBVIOUS
<1>1. task' \in [Providers -> States] /\ Live' = Live \union {p} /\ p \notin Live
  BY DEF IInv, Counted, Spawn, Live, States, Running
<1>2. Cardinality(Live') = Cardinality(Live) + 1
  BY <1>1, LiveFinite, FS_AddElement
<1>3. Counted'
  BY <1>1, <1>2 DEF IInv, Counted, Spawn
<1>4. Phases'
  BY DEF IInv, Phases, Spawn
<1> QED BY <1>3, <1>4 DEF IInv

\* Between search and finish the goroutine is counted.
LEMMA MoveStep ==
    ASSUME NEW p \in Providers
    PROVE  IInv /\ (SearchSite(p) \/ LookupRow(p) \/ LookupMiss(p) \/ FetchPage(p)
                       \/ SavePage(p) \/ LookupFails(p) \/ Receive(p)) => IInv'
<1> SUFFICES ASSUME IInv, SearchSite(p) \/ LookupRow(p) \/ LookupMiss(p) \/ FetchPage(p)
                             \/ SavePage(p) \/ LookupFails(p) \/ Receive(p)
             PROVE  IInv'
  OBVIOUS
<1>1. /\ task[p] \in {"search", "fetch", "save", "send"}
      /\ \E stage \in {"fetch", "save", "send", "finish"} : task' = [task EXCEPT ![p] = stage]
      /\ UNCHANGED <<pc, wg, closer, ch>>
  BY DEF SearchSite, LookupRow, LookupMiss, FetchPage, SavePage, LookupFails, Receive, Respond
<1>2. Live' = Live /\ task' \in [Providers -> States]
  BY <1>1 DEF IInv, Counted, Live, States, Running
<1>3. Counted'
  BY <1>1, <1>2 DEF IInv, Counted
<1>4. closer \notin {"exited", "gone"}
  BY <1>1 DEF IInv, Phases
<1>5. Phases'
  BY <1>1, <1>4 DEF IInv, Counted, Phases
<1> QED BY <1>3, <1>5 DEF IInv

\* wg.Done() is what takes a goroutine out of the count, also when it panics.
LEMMA ExitStep ==
    ASSUME NEW p \in Providers
    PROVE  IInv /\ (Exit(p) \/ Panic(p)) => IInv'
<1> SUFFICES ASSUME IInv, Exit(p) \/ Panic(p) PROVE IInv'
  OBVIOUS
<1>1. /\ task[p] \in Running
      /\ \E stage \in {"exited", "panicked"} : task' = [task EXCEPT ![p] = stage]
      /\ wg' = wg - 1
      /\ UNCHANGED <<pc, closer, ch>>
  BY DEF Exit, Panic, Running
<1>2. task' \in [Providers -> States] /\ Live' = Live \ {p} /\ p \in Live
  BY <1>1 DEF IInv, Counted, Live, States, Running
<1>3. Cardinality(Live') = Cardinality(Live) - 1
  BY <1>2, LiveFinite, FS_RemoveElement
<1>4. Counted'
  BY <1>1, <1>2, <1>3 DEF IInv, Counted
<1>5. closer \notin {"exited", "gone"}
  BY <1>1 DEF IInv, Phases, Running
<1>6. Phases'
  BY <1>1, <1>5 DEF IInv, Counted, Phases
<1> QED BY <1>4, <1>6 DEF IInv

\* Nothing runs any more when the server has crashed.
LEMMA CrashStep == IInv /\ Crash => IInv'
<1> SUFFICES ASSUME IInv, Crash PROVE IInv'
  OBVIOUS
<1>1. /\ task' = [p \in Providers |-> "gone"] /\ wg' = 0
      /\ pc' = "crashed" /\ closer' = "gone"
  BY DEF Crash
<1>2. Live' = {}
  BY <1>1 DEF Live, Running
<1>3. Cardinality(Live') = 0
  BY <1>2, FS_EmptySet
<1>4. task' \in [Providers -> States]
  BY <1>1 DEF States
<1>5. Counted'
  BY <1>1, <1>3, <1>4 DEF Counted
<1>6. Phases'
  BY <1>1 DEF Phases
<1> QED BY <1>5, <1>6 DEF IInv

\* When the closer closes the channel, the counter says that nobody runs.
LEMMA CloseStep == IInv /\ Close => IInv'
<1> SUFFICES ASSUME IInv, Close PROVE IInv'
  OBVIOUS
<1>1. Live = {}
  BY LiveFinite, FS_EmptySet DEF IInv, Counted, Close
<1>2. \A p \in Providers : task[p] \notin {"none", "gone"}
  BY DEF IInv, Phases, Close
<1>3. \A p \in Providers : task[p] \in {"exited", "panicked"}
  BY <1>1, <1>2 DEF IInv, Counted, Live, States, Running
<1>4. Counted'
  BY DEF IInv, Counted, Close, Live
<1>5. Phases'
  BY <1>3 DEF IInv, Phases, Close
<1> QED BY <1>4, <1>5 DEF IInv

\* The caller touches neither the goroutines nor the channel.
LEMMA CallerStep == IInv /\ (Caller \/ UNCHANGED vars) => IInv'
<1> SUFFICES ASSUME IInv, Caller \/ UNCHANGED vars PROVE IInv'
  OBVIOUS
<1> USE DEF Caller, SpawnCloser, EndCollect, QueryDB, PostProcess, fanout, vars
<1>1. UNCHANGED <<task, wg, ch>>
  OBVIOUS
<1>2. Counted'
  BY <1>1 DEF IInv, Counted, Live
<1>3. Phases'
  BY DEF IInv, Phases
<1> QED BY <1>2, <1>3 DEF IInv

\* The invariant is inductive.
LEMMA IInvStep == IInv /\ [Next]_vars => IInv'
BY SpawnStep, MoveStep, ExitStep, CrashStep, CloseStep, CallerStep DEF Next, Task, Returned

\* The inductive invariant holds in every reachable state.
LEMMA IInvCorrect == Spec => []IInv
BY IInvInit, IInvStep, PTL DEF Spec

-----------------------------------------------------------------------------
\* No goroutine ever sends on the closed channel.
THEOREM NoSendAfterClose == Spec => []ClosedAfterLastSend
<1>1. IInv => ClosedAfterLastSend
  BY DEF IInv, Phases, ClosedAfterLastSend
<1> QED BY <1>1, IInvCorrect, PTL

-----------------------------------------------------------------------------
\* What the replies are made of.

\* Rows are valid, and have one row per primary key.
Proper(rows) ==
    /\ rows \in Seq(Results)
    /\ \A i \in DOMAIN rows : rows[i].valid
    /\ Distinct(Key, rows)

Types ==
    /\ resp \in [Providers -> Seq(Results) \union {Failed}]
    /\ results \in Seq(Results)
    /\ Proper(db) /\ Proper(stored)

\* What a goroutine has in hand between its steps.
Stages ==
    \A p \in Providers :
        /\ task[p] = "fetch" => p \notin Searchers
        /\ task[p] = "save" => resp[p] # Failed /\ \A x \in ToSet(resp[p]) : x.valid
        /\ task[p] \in {"none", "search", "fetch", "panicked"} => resp[p] = <<>>

\* The responses that have been received.
Received == {p \in Providers : task[p] \in {"finish", "exited"} /\ resp[p] # Failed}
Brought == UNION {ToSet(resp[p]) : p \in Received}

\* The rows of the query come last in what is post-processed.
StoredLast ==
    \A k \in DOMAIN stored :
        \E i \in DOMAIN results :
            /\ results[i] = stored[k]
            /\ \A j \in DOMAIN results : i < j => Key[results[j]] # Key[results[i]]

\* What the caller holds in each of its phases.
Gathered ==
    /\ pc \in {"spawn", "collect", "fallback"} => ToSet(results) = Brought /\ stored = <<>>
    /\ pc \in {"fallback", "post", "done"} => closer = "exited"
    /\ pc = "post" => ToSet(results) = Brought \union ToSet(stored) /\ StoredLast
    /\ pc = "done" => ReplyComplete /\ ReplyWellFormed /\ StoredWins

SInv == IInv /\ Types /\ Stages /\ Gathered

\* An empty list has no items.
LEMMA EmptyToSet == ToSet(<<>>) = {}
BY DEF ToSet

\* The list of no rows is one that a query may return.
LEMMA ProperEmpty == Proper(<<>>)
BY DEF Proper, Distinct

\* And so is what is left of the table when its rows are picked.
LEMMA ProperAmong == ASSUME NEW S, Proper(db) PROVE Proper(Among(db, S))
<1> DEFINE kept == Among(db, S)
<1>1. db \in Seq(Results) /\ Distinct(Key, db) /\ \A x \in ToSet(db) : x.valid
  BY DEF Proper, ToSet
<1>2. kept \in Seq(Results) /\ ToSet(kept) = ToSet(db) \intersect S
  BY <1>1, AmongSeq
<1>3. Distinct(Key, kept)
  BY <1>1, AmongDistinct
<1> HIDE DEF kept
<1>4. \A i \in DOMAIN kept : kept[i] \in ToSet(kept)
  BY DEF ToSet
<1> QED BY <1>1, <1>2, <1>3, <1>4 DEF Proper, kept

\* At first nothing was received.
LEMMA SInvInit == Init => SInv
<1> SUFFICES ASSUME Init PROVE SInv
  OBVIOUS
<1>1. IInv
  BY IInvInit
<1>2. Proper(db)
  <2>1. db \in Rows
    BY DEF Init
  <2>2. db \in Seq(Results) /\ \A i \in DOMAIN db :
           db[i].valid /\ \A j \in DOMAIN db : i # j => Key[db[i]] # Key[db[j]]
    BY <2>1, RowsAssumption
  <2> QED BY <2>2 DEF Proper, Distinct
<1>3. Types
  BY <1>2, ProperEmpty DEF Init, Types
<1>4. Received = {}
  BY DEF Init, Received
<1>5. Brought = {}
  BY <1>4 DEF Brought
<1>6. Gathered
  BY <1>5, EmptyToSet DEF Init, Gathered
<1>7. Stages
  BY DEF Init, Stages
<1> QED BY <1>1, <1>3, <1>6, <1>7 DEF SInv

\* A provider that is not delivering leaves what was received as it is.
LEMMA BroughtSame ==
    ASSUME NEW p \in Providers, IInv, Types,
           task[p] \notin {"finish", "exited"},
           task' \in [Providers -> States],
           task'[p] \notin {"finish", "exited"},
           \A q \in Providers : q # p => task'[q] = task[q] /\ resp'[q] = resp[q]
    PROVE  Brought' = Brought
<1>1. Received' = Received /\ \A q \in Received : resp'[q] = resp[q]
  BY DEF Received
<1>2. {ToSet(resp'[q]) : q \in Received'} = {ToSet(resp[q]) : q \in Received}
  BY <1>1
<1> QED BY <1>2 DEF Brought

\* A provider that starts, answers or panics is not heard by that.
LEMMA QuietStep ==
    ASSUME NEW p \in Providers, SInv, Types',
           \/ Spawn(p) \/ SearchSite(p) \/ LookupRow(p) \/ LookupMiss(p)
           \/ FetchPage(p) \/ SavePage(p) \/ LookupFails(p)
    PROVE  Gathered'
<1>1. /\ task[p] \in {"none", "search", "fetch", "save"}
      /\ \E stage \in {"search", "fetch", "save", "send"} : task' = [task EXCEPT ![p] = stage]
      /\ UNCHANGED <<pc, closer, stored, results, err>>
      /\ \/ UNCHANGED resp
         \/ \E response : resp' = [resp EXCEPT ![p] = response]
  BY DEF Spawn, SearchSite, LookupRow, LookupMiss, FetchPage, SavePage, LookupFails, Respond
<1>2. task \in [Providers -> States] /\ resp \in [Providers -> Seq(Results) \union {Failed}]
  BY DEF SInv, IInv, Counted, Types
<1>3. /\ task' \in [Providers -> States]
      /\ task[p] \notin {"finish", "exited"} /\ task'[p] \notin {"finish", "exited"}
  BY <1>1, <1>2 DEF States
<1>4. \A q \in Providers : q # p => task'[q] = task[q] /\ resp'[q] = resp[q]
  BY <1>1, <1>2
<1>5. Brought' = Brought
  BY <1>3, <1>4, BroughtSame DEF SInv
<1>6. closer # "exited"
  BY <1>1 DEF SInv, IInv, Phases
<1>7. pc \in {"spawn", "collect"} \/ pc \notin {"fallback", "post", "done"}
  BY <1>6 DEF SInv, Gathered
<1> QED BY <1>1, <1>5, <1>7, <1>6 DEF SInv, Gathered

\* What a step of one provider does to the types.
LEMMA TypesStep ==
    ASSUME NEW p \in Providers, SInv, Spawn(p) \/ Task(p) \/ Panic(p) \/ Receive(p)
    PROVE  Types'
<1>1. /\ resp \in [Providers -> Seq(Results) \union {Failed}]
      /\ results \in Seq(Results) /\ Proper(db) /\ Proper(stored) /\ db \in Seq(Results)
  BY DEF SInv, Types, Proper
<1>2. CASE Spawn(p) \/ LookupMiss(p) \/ Exit(p) \/ Panic(p)
  BY <1>1, <1>2 DEF Spawn, LookupMiss, Exit, Panic, Types
<1>3. CASE Receive(p)
  <2>1. UNCHANGED <<resp, db, stored>>
    BY <1>3 DEF Receive
  <2>2. results' \in Seq(Results)
    <3>1. CASE resp[p] = Failed
      BY <1>1, <1>3, <3>1 DEF Receive
    <3>2. CASE resp[p] # Failed
      <4>1. resp[p] \in Seq(Results) /\ results' = results \o resp[p]
        BY <1>1, <1>3, <3>2 DEF Receive
      <4> QED BY <1>1, <4>1, ConcatProperties
    <3> QED BY <3>1, <3>2
  <2> QED BY <1>1, <2>1, <2>2 DEF Types
<1>4. CASE SearchSite(p)
  <2>1. PICK response \in Offers[p] \union {Failed} : Respond(p, response)
    BY <1>4 DEF SearchSite
  <2>2. response \in Seq(Results) \union {Failed}
    BY OffersAssumption
  <2> QED BY <1>1, <1>4, <2>1, <2>2 DEF SearchSite, Respond, Types
<1>5. CASE LookupRow(p)
  <2>1. RowsOf(p) \in Seq(Results)
    BY <1>1, AmongSeq DEF RowsOf
  <2>2. RowsOf(p) # <<>>
    BY <1>5 DEF LookupRow
  <2> DEFINE r == RowsOf(p)
  <2> HIDE DEF r
  <2>3. r \in Seq(Results) /\ r # <<>>
    BY <2>1, <2>2 DEF r
  <2>4. <<Head(r)>> \in Seq(Results)
    BY <2>3
  <2>5. Respond(p, <<Head(r)>>) /\ UNCHANGED db
    BY <1>5 DEF LookupRow, r
  <2> QED BY <1>1, <2>4, <2>5 DEF Respond, Types
<1>6. CASE FetchPage(p)
  <2>1. PICK response \in Offers[p] : resp' = [resp EXCEPT ![p] = response]
    BY <1>6 DEF FetchPage
  <2>2. response \in Seq(Results)
    BY OffersAssumption
  <2> QED BY <1>1, <1>6, <2>1, <2>2 DEF FetchPage, Types
<1>7. CASE SavePage(p)
  <2> DEFINE response == resp[p]
             s == db \o response
  <2>1. response \in Seq(Results) /\ \A x \in ToSet(response) : x.valid
    BY <1>1, <1>7 DEF SavePage, SInv, Stages
  <2> HIDE DEF response
  <2>2. s \in Seq(Results) /\ ToSet(s) = ToSet(db) \union ToSet(response)
    BY <1>1, <2>1, ConcatProperties, ToSetConcat
  <2>3. \A x \in ToSet(s) : x.valid
    BY <1>1, <2>1, <2>2 DEF Proper, ToSet
  <2> DEFINE u == AsSlice(Key, s)
  <2> HIDE DEF s
  <2>4. /\ u \in Seq(Results)
        /\ \A k, l \in DOMAIN u : k # l => Key[u[k]] # Key[u[l]]
        /\ \A x \in ToSet(u) : \E i \in 1..Len(s) : x = s[i]
    BY <2>2, AsSliceSeq
  <2> HIDE DEF u
  <2>5. \A i \in 1..Len(s) : s[i] \in ToSet(s)
    BY <2>2 DEF ToSet
  <2>6. \A i \in DOMAIN u : u[i].valid
    BY <2>3, <2>4, <2>5 DEF ToSet
  <2>7. Proper(u)
    BY <2>4, <2>6 DEF Proper, Distinct
  <2>8. db' \in {u, db} /\ UNCHANGED <<resp, results, stored>>
    BY <1>7 DEF SavePage, u, s, response
  <2> QED BY <1>1, <2>7, <2>8 DEF Types
<1>8. CASE LookupFails(p)
  BY <1>1, <1>8 DEF LookupFails, Respond, Types
<1> QED BY <1>2, <1>3, <1>4, <1>5, <1>6, <1>7, <1>8 DEF Task

\* What a step of one provider does to what the goroutines have in hand.
LEMMA StagesStep ==
    ASSUME NEW p \in Providers, SInv, Spawn(p) \/ Task(p) \/ Panic(p) \/ Receive(p)
    PROVE  Stages'
<1>1. /\ task \in [Providers -> States]
      /\ resp \in [Providers -> Seq(Results) \union {Failed}]
      /\ Stages
  BY DEF SInv, IInv, Counted, Types
<1>2. CASE FetchPage(p)
  <2>1. PICK response \in Offers[p] : resp' = [resp EXCEPT ![p] = response]
    BY <1>2 DEF FetchPage
  <2>2. task[p] = "fetch" /\ task' = [task EXCEPT ![p] = "save"]
    BY <1>2 DEF FetchPage
  <2>3. p \notin Searchers
    BY <1>1, <2>2 DEF Stages
  <2>4. response # Failed /\ \A x \in ToSet(response) : x.valid
    BY <2>3, OffersAssumption, FailedAssumption, PagesAssumption
  <2> QED BY <1>1, <2>1, <2>2, <2>4 DEF Stages
<1>3. CASE Spawn(p) \/ LookupMiss(p) \/ SavePage(p) \/ Panic(p) \/ Exit(p) \/ Receive(p)
  BY <1>1, <1>3 DEF Spawn, LookupMiss, SavePage, Panic, Exit, Receive, Stages
<1>4. CASE SearchSite(p) \/ LookupRow(p) \/ LookupFails(p)
  <2>1. task' = [task EXCEPT ![p] = "send"] /\ \E response : resp' = [resp EXCEPT ![p] = response]
    BY <1>4 DEF SearchSite, LookupRow, LookupFails, Respond
  <2> QED BY <1>1, <2>1 DEF Stages
<1> QED BY <1>2, <1>3, <1>4 DEF Task

\* Receiving adds the items of one response.
LEMMA ReceiveGathers ==
    ASSUME NEW p \in Providers, SInv, Receive(p)
    PROVE  Gathered'
<1>1. /\ pc = "collect" /\ task[p] = "send"
      /\ task' = [task EXCEPT ![p] = "finish"]
      /\ results' = IF resp[p] = Failed THEN results ELSE results \o resp[p]
      /\ UNCHANGED <<pc, resp, closer, stored>>
  BY DEF Receive
<1>2. task \in [Providers -> States] /\ resp \in [Providers -> Seq(Results) \union {Failed}]
      /\ results \in Seq(Results) /\ ToSet(results) = Brought /\ stored = <<>>
  BY <1>1 DEF SInv, IInv, Counted, Types, Gathered
<1>3. \A q \in Providers : task'[q] \in {"finish", "exited"}
                            <=> q = p \/ task[q] \in {"finish", "exited"}
  BY <1>1, <1>2
<1>4. ToSet(results') = Brought'
  <2>1. CASE resp[p] = Failed
    <3>1. Received' = Received
      BY <1>1, <1>3, <2>1 DEF Received
    <3>2. Brought' = Brought
      BY <1>1, <3>1 DEF Brought
    <3> QED BY <1>1, <1>2, <2>1, <3>2
  <2>2. CASE resp[p] # Failed
    <3>1. Received' = Received \union {p}
      BY <1>1, <1>3, <2>2 DEF Received
    <3>2. Brought' = Brought \union ToSet(resp[p])
      BY <1>1, <3>1 DEF Brought
    <3>3. resp[p] \in Seq(Results) /\ results' = results \o resp[p]
      BY <1>1, <1>2, <2>2
    <3>4. ToSet(results') = ToSet(results) \union ToSet(resp[p])
      BY <1>2, <3>3, ToSetConcat
    <3> QED BY <1>2, <3>2, <3>4
  <2> QED BY <2>1, <2>2
<1> QED BY <1>1, <1>2, <1>4 DEF Gathered

\* A goroutine that exits has been heard, and the caller still collects.
LEMMA ExitGathers ==
    ASSUME NEW p \in Providers, SInv, Exit(p) \/ Panic(p)
    PROVE  Gathered'
<1>1. /\ \/ task[p] = "finish" /\ task' = [task EXCEPT ![p] = "exited"]
         \/ task[p] \in {"search", "fetch"} /\ task' = [task EXCEPT ![p] = "panicked"]
      /\ UNCHANGED <<pc, resp, closer, stored, results>>
  BY DEF Exit, Panic
<1>2. task \in [Providers -> States]
  BY DEF SInv, IInv, Counted
<1>3. Received' = Received
  BY <1>1, <1>2 DEF Received
<1>4. Brought' = Brought
  BY <1>1, <1>3 DEF Brought
<1>5. pc \notin {"fallback", "post", "done"}
  BY <1>1 DEF SInv, IInv, Phases, Gathered
<1> QED BY <1>1, <1>4, <1>5 DEF SInv, Gathered

\* The rows come last, and each has a key of its own.
LEMMA QueryGathers == SInv /\ QueryDB => Types' /\ Gathered'
<1> SUFFICES ASSUME SInv, QueryDB PROVE Types' /\ Gathered'
  OBVIOUS
<1>1. PICK rows \in {Among(db, Matching), <<>>} : stored' = rows /\ results' = results \o rows
  BY DEF QueryDB
<1>2. pc = "fallback" /\ pc' = "post" /\ UNCHANGED <<task, resp, closer, db>>
  BY DEF QueryDB, fanout
<1>3. Proper(rows) /\ rows \in Seq(Results) /\ results \in Seq(Results)
      /\ ToSet(results) = Brought /\ closer = "exited"
  <2>1. Proper(Among(db, Matching))
    BY ProperAmong DEF SInv, Types
  <2> QED BY <1>1, <1>2, <2>1, ProperEmpty DEF SInv, Types, Gathered, Proper
<1> DEFINE m == Len(results)
           n == Len(rows)
           u == results \o rows
<1>4. m \in Nat /\ n \in Nat /\ DOMAIN u = 1..(m + n) /\ DOMAIN rows = 1..n
  BY <1>3, ConcatProperties
<1>5. \A i \in 1..(m + n) : u[i] = IF i <= m THEN results[i] ELSE rows[i - m]
  BY <1>3, ConcatProperties
<1>6. u \in Seq(Results) /\ ToSet(u) = Brought \union ToSet(rows)
  BY <1>3, ConcatProperties, ToSetConcat
<1> HIDE DEF m, n, u
<1>7. ASSUME NEW k \in 1..n
      PROVE  \E i \in 1..(m + n) :
                /\ u[i] = rows[k]
                /\ \A j \in 1..(m + n) : i < j => Key[u[j]] # Key[u[i]]
  <2> DEFINE i == m + k
  <2>1. i \in 1..(m + n) /\ u[i] = rows[k]
    <3>1. i \in 1..(m + n) /\ ~ (i <= m) /\ i - m = k
      BY <1>4
    <3> HIDE DEF i
    <3> QED BY <1>5, <3>1
  <2>2. ASSUME NEW j \in 1..(m + n), i < j PROVE Key[u[j]] # Key[rows[k]]
    <3>1. j - m \in 1..n /\ ~ (j <= m) /\ j - m # k
      BY <1>4, <2>2
    <3>2. u[j] = rows[j - m]
      BY <1>5, <3>1
    <3> QED BY <1>3, <1>4, <3>1, <3>2 DEF Proper, Distinct
  <2> HIDE DEF i
  <2> QED BY <2>1, <2>2
<1>8. StoredLast'
  <2>1. stored' = rows /\ results' = u
    BY <1>1 DEF u
  <2>2. StoredLast' <=> \A k \in DOMAIN rows :
           \E i \in DOMAIN u :
              /\ u[i] = rows[k]
              /\ \A j \in DOMAIN u : i < j => Key[u[j]] # Key[u[i]]
    BY <2>1 DEF StoredLast
  <2> QED BY <1>4, <1>7, <2>2
<1>9. Brought' = Brought
  BY <1>2 DEF Brought, Received
<1>10. ToSet(results') = Brought' \union ToSet(stored')
  BY <1>1, <1>6, <1>9 DEF u
<1>11. Types'
  BY <1>1, <1>2, <1>3, <1>6 DEF SInv, Types, u
<1> QED BY <1>2, <1>3, <1>8, <1>10, <1>11 DEF Gathered

\* When everything has exited, what was received is all there is.
LEMMA CandidatesGathered ==
    ASSUME SInv, closer = "exited"
    PROVE  Candidates = Brought \union ToSet(stored)
<1>1. \A q \in Providers : task[q] \in {"exited", "panicked"}
  BY DEF SInv, IInv, Phases
<1>2. \A q \in Providers : resp[q] # Failed /\ q \notin Received => ToSet(resp[q]) = {}
  BY <1>1, EmptyToSet DEF SInv, Stages, Received
<1>3. \A q \in Received : q \in Providers /\ resp[q] # Failed
  BY DEF Received
<1> QED BY <1>2, <1>3 DEF Candidates, Brought

\* The reply follows from what is proved of the three lists it is made with.
LEMMA PostProcessGathers == SInv /\ PostProcess => Types' /\ Gathered'
<1> SUFFICES ASSUME SInv, PostProcess PROVE Types' /\ Gathered'
  OBVIOUS
<1> DEFINE unique == AsSlice(Key, results)
           kept == Among(unique, Served)
           reply == SortedStable(Weight, kept)
<1>1. /\ pc = "post" /\ pc' = "done" /\ results' = reply
      /\ err' = IF results = <<>> THEN "notfound" ELSE "nil"
      /\ UNCHANGED <<task, resp, closer, db, stored>>
  BY DEF PostProcess, fanout
<1>2. /\ results \in Seq(Results) /\ closer = "exited"
      /\ ToSet(results) = Brought \union ToSet(stored) /\ StoredLast /\ Proper(stored)
  BY <1>1 DEF SInv, Types, Gathered
<1>3. ToSet(results) = Candidates
  BY <1>2, CandidatesGathered
<1>4. /\ unique \in Seq(Results)
      /\ Distinct(Key, unique)
      /\ \A x \in ToSet(unique) : \E i \in 1..Len(results) : x = results[i]
      /\ \A i \in 1..Len(results) :
            IsFinal(Key, results, i) => results[i] \in ToSet(unique)
      /\ \A i \in 1..Len(results) : \E x \in ToSet(unique) : Key[x] = Key[results[i]]
  BY <1>2, AsSliceSeq DEF Distinct
<1> HIDE DEF unique
<1>5. kept \in Seq(Results) /\ ToSet(kept) = ToSet(unique) \intersect Served
  BY <1>4, AmongSeq
<1>6. Distinct(Key, kept)
  BY <1>4, AmongDistinct
<1> HIDE DEF kept
<1>7. \A x \in Results : Weight[x] \in Int
  BY WeightAssumption
<1>8. /\ reply \in Seq(Results) /\ Len(reply) = Len(kept) /\ ToSet(reply) = ToSet(kept)
      /\ \A k, l \in 1..Len(kept) : k < l => Weight[reply[k]] >= Weight[reply[l]]
  BY <1>5, <1>7, SortedSeq
<1>9. Distinct(Key, reply)
  BY <1>5, <1>6, <1>7, SortedDistinct
<1> HIDE DEF reply
<1>10. Types'
  BY <1>1, <1>8 DEF SInv, Types
<1>11. Candidates' = Candidates
  BY <1>1 DEF Candidates
<1>12. DOMAIN results = 1..Len(results) /\ Len(results) \in Nat
  BY <1>2
<1>13. \A i \in 1..Len(results) : results[i] \in ToSet(results) /\ results[i] \in Results
  BY <1>2, <1>12, ElementOfSeq DEF ToSet
<1>14. Candidates = {} <=> err' = "notfound"
  <2>1. results = <<>> <=> ToSet(results) = {}
    <3>1. ASSUME results # <<>> PROVE ToSet(results) # {}
      <4>1. 1 \in 1..Len(results)
        BY <1>2, <3>1, EmptySeq
      <4> QED BY <1>13, <4>1
    <3> QED BY <3>1, EmptyToSet
  <2> QED BY <1>1, <1>3, <2>1
<1>15. ASSUME NEW x \in Candidates, x.provider \in Providers,
              \A y \in Candidates : Key[y] = Key[x] => y.valid
       PROVE  \E z \in ToSet(reply) : Key[z] = Key[x]
  <2>1. PICK i \in 1..Len(results) : results[i] = x
    BY <1>3, <1>12 DEF ToSet
  <2>2. PICK z \in ToSet(unique) : Key[z] = Key[x]
    BY <1>4, <2>1
  <2>3. z \in Candidates /\ z \in Results /\ x \in Results
    BY <1>3, <1>4, <1>13, <2>1
  <2>4. z.valid /\ z.provider = x.provider
    BY <1>15, <2>2, <2>3 DEF Key
  <2>5. z \in Served
    BY <1>15, <2>3, <2>4 DEF Served
  <2> QED BY <1>5, <1>8, <2>2, <2>5
<1>16. ReplyComplete'
  BY <1>1, <1>11, <1>14, <1>15 DEF ReplyComplete
<1>17. DOMAIN reply = 1..Len(kept)
  BY <1>8
<1>18. ReplyWellFormed'
  <2>1. ASSUME NEW i \in DOMAIN reply PROVE reply[i].valid /\ reply[i].provider \in Providers
    <3>1. reply[i] \in ToSet(reply)
      BY DEF ToSet
    <3> QED BY <1>5, <1>8, <3>1 DEF Served
  <2>2. ASSUME NEW i \in DOMAIN reply, NEW j \in DOMAIN reply, i < j
        PROVE  Key[reply[i]] # Key[reply[j]] /\ Weight[reply[i]] >= Weight[reply[j]]
    <3>1. i # j
      BY <1>17, <2>2
    <3>2. Key[reply[i]] # Key[reply[j]]
      BY <1>9, <3>1 DEF Distinct
    <3> QED BY <1>8, <1>17, <2>2, <3>2
  <2>3. ReplyWellFormed' <=>
           (pc' = "done" =>
              /\ \A i \in DOMAIN reply : reply[i].valid /\ reply[i].provider \in Providers
              /\ \A i, j \in DOMAIN reply : i < j =>
                    Key[reply[i]] # Key[reply[j]] /\ Weight[reply[i]] >= Weight[reply[j]])
    BY <1>1 DEF ReplyWellFormed
  <2> QED BY <2>1, <2>2, <2>3
<1>19. ASSUME NEW row \in ToSet(stored), row.provider \in Providers
       PROVE  row \in ToSet(reply)
  <2>1. PICK k \in DOMAIN stored : stored[k] = row
    BY DEF ToSet
  <2>2. PICK i \in DOMAIN results :
           results[i] = row /\ \A j \in DOMAIN results : i < j => Key[results[j]] # Key[results[i]]
    BY <1>2, <2>1 DEF StoredLast
  <2>3. row \in ToSet(unique)
    <3>1. i \in 1..Len(results) /\ IsFinal(Key, results, i)
      BY <1>12, <2>2 DEF IsFinal
    <3> QED BY <1>4, <2>2, <3>1
  <2>4. row \in Served
    BY <1>2, <1>12, <1>13, <1>19, <2>1, <2>2 DEF Served, Proper
  <2> QED BY <1>5, <1>8, <2>3, <2>4
<1>20. StoredWins'
  BY <1>1, <1>19 DEF StoredWins
<1> QED BY <1>1, <1>2, <1>10, <1>16, <1>18, <1>20 DEF Gathered

\* Starting the closer, and the end of the range over the channel.
LEMMA CallerGathers == SInv /\ (SpawnCloser \/ EndCollect) => Types' /\ Gathered'
<1> SUFFICES ASSUME SInv, SpawnCloser \/ EndCollect PROVE Types' /\ Gathered'
  OBVIOUS
<1>1. /\ pc \in {"spawn", "collect"} /\ UNCHANGED <<task, resp, db, stored, results>>
      /\ \/ pc' = "collect"
         \/ closer = "exited" /\ closer' = closer /\ pc' \in {"fallback", "post"}
  BY DEF SpawnCloser, EndCollect, fanout, SInv, IInv, Phases
<1>2. Brought' = Brought
  BY <1>1 DEF Brought, Received
<1>3. ToSet(results) = Brought /\ stored = <<>>
  BY <1>1 DEF SInv, Gathered
<1>4. StoredLast'
  BY <1>1, <1>3 DEF StoredLast
<1>5. Types'
  BY <1>1 DEF SInv, Types
<1> QED BY <1>1, <1>2, <1>3, <1>4, <1>5, EmptyToSet DEF Gathered

\* Closing the channel, and nothing at all.
LEMMA IdleGathers == SInv /\ (Close \/ UNCHANGED vars) => Types' /\ Gathered'
<1> SUFFICES ASSUME SInv, Close \/ UNCHANGED vars PROVE Types' /\ Gathered'
  OBVIOUS
<1>1. /\ UNCHANGED <<pc, task, resp, db, stored, results, err>>
      /\ closer' = closer \/ closer' = "exited"
  BY DEF Close, vars
<1>2. Types'
  BY <1>1 DEF SInv, Types
<1>3. Brought' = Brought /\ (StoredLast' <=> StoredLast)
  BY <1>1 DEF Brought, Received, StoredLast
<1>4. /\ ReplyComplete' <=> ReplyComplete
      /\ ReplyWellFormed' <=> ReplyWellFormed
      /\ StoredWins' <=> StoredWins
  BY <1>1 DEF ReplyComplete, ReplyWellFormed, StoredWins, Candidates
<1>5. Gathered'
  BY <1>1, <1>3, <1>4 DEF SInv, Gathered
<1> QED BY <1>2, <1>5

\* A search that has crashed replies nothing.
LEMMA CrashGathers == SInv /\ Crash => Types' /\ Gathered'
BY DEF SInv, Types, Crash, Gathered

\* The caller and the closer touch no response.
LEMMA CallerStages == SInv /\ (Caller \/ Close \/ Crash \/ UNCHANGED vars) => Stages'
BY DEF SInv, Stages, Caller, SpawnCloser, EndCollect, QueryDB, PostProcess, Close, Crash,
       fanout, vars

\* The strengthened invariant is inductive.
LEMMA SInvStep == SInv /\ [Next]_vars => SInv'
<1> SUFFICES ASSUME SInv, [Next]_vars PROVE SInv'
  OBVIOUS
<1>1. IInv'
  BY IInvStep DEF SInv
<1>2. ASSUME NEW p \in Providers, Spawn(p) \/ Task(p) \/ Panic(p) \/ Receive(p)
      PROVE  Types' /\ Stages' /\ Gathered'
  <2>1. Types' /\ Stages'
    BY <1>2, TypesStep, StagesStep
  <2>2. CASE Receive(p)
    BY <2>1, <2>2, ReceiveGathers
  <2>3. CASE Exit(p) \/ Panic(p)
    BY <2>1, <2>3, ExitGathers
  <2>4. CASE \/ Spawn(p) \/ SearchSite(p) \/ LookupRow(p) \/ LookupMiss(p)
             \/ FetchPage(p) \/ SavePage(p) \/ LookupFails(p)
    BY <2>1, <2>4, QuietStep
  <2> QED BY <1>2, <2>2, <2>3, <2>4, <2>1 DEF Task
<1>3. ASSUME Caller PROVE Types' /\ Stages' /\ Gathered'
  BY <1>3, CallerGathers, QueryGathers, PostProcessGathers, CallerStages DEF Caller
<1>4. ASSUME Close \/ UNCHANGED vars PROVE Types' /\ Stages' /\ Gathered'
  BY <1>4, IdleGathers, CallerStages
<1>5. ASSUME Crash PROVE Types' /\ Stages' /\ Gathered'
  BY <1>5, CrashGathers, CallerStages
<1> QED BY <1>1, <1>2, <1>3, <1>4, <1>5 DEF SInv, Next, Returned

\* What a finished search returned never changes again, and nothing was wrong
\* with it when it returned.
LEMMA SInvCorrect == Spec => []SInv
BY SInvInit, SInvStep, PTL DEF Spec

\* In the state the search returns in, and in every one after it.
LEMMA SInvReturned == SInv => ReplyComplete /\ ReplyWellFormed /\ StoredWins
BY DEF SInv, Gathered, ReplyComplete, ReplyWellFormed, StoredWins

\* Whatever the order of the responses, none of them is lost on the way from the
\* channel to the reply (engine/movie.go:142, 165).
THEOREM NothingLost == Spec => []ReplyComplete
BY SInvCorrect, SInvReturned, PTL

\* SearchMovieAll replies with one valid result per provider and id, the heavier
\* first (engine/movie.go:163-181).
THEOREM ReplyProper == Spec => []ReplyWellFormed
BY SInvCorrect, SInvReturned, PTL

\* A row of the database takes the place of the site's result for its key,
\* being added to the set after it (engine/movie.go:184-195).
THEOREM StoredRowWins == Spec => []StoredWins
BY SInvCorrect, SInvReturned, PTL
=============================================================================
