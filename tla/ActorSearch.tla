----------------------------- MODULE ActorSearch -----------------------------
(***************************************************************************)
(* Engine.SearchActorAll (engine/actor.go): one goroutine per provider       *)
(* searches for every name of the keyword and appends the valid results,     *)
(* one at a time and under a mutex, to the slice all of them share; the      *)
(* caller waits for the WaitGroup and sorts the slice by priority.           *)
(*                                                                          *)
(* As in the search of movies, a provider that panics in its goroutine ends   *)
(* the whole server, after the deferred wg.Done().                           *)
(***************************************************************************)
EXTENDS ResultLists, FiniteSets

CONSTANTS
    Providers,   \* registered providers
    Gfriends,    \* the provider whose results are not post-processed
    Priority,    \* Priority[p]
    Names,       \* the names ParseActorNames finds in the keyword, in order
    Results,     \* search results: [provider, id, rev, valid]
    Offers,      \* Offers[p][n]: what the site of p may return for name n
    Rows,        \* Rows[p][n]: what the database may hold of p under name n
    Similarity,  \* Similarity[x][n]: similarity of the name of x to n
    MinSimilarity,
    Failed,      \* an error other than ErrInfoNotFound
    NotFound,    \* ErrInfoNotFound
    Nobody       \* no goroutine

ASSUME ProvidersAssumption == IsFiniteSet(Providers)
ASSUME PriorityAssumption == Priority \in [Providers -> Nat]
ASSUME NamesAssumption == Names \in Seq(ToSet(Names))
ASSUME SimilarityAssumption ==
    /\ MinSimilarity \in Nat
    /\ \A x \in Results, n \in ToSet(Names) : Similarity[x][n] \in Nat
ASSUME NobodyAssumption == Nobody \notin Providers

Of(p) == {x \in Results : x.provider = p}

ASSUME OffersAssumption ==
    \A p \in Providers, n \in ToSet(Names) :
        Offers[p][n] \union Rows[p][n] \subseteq Seq(Of(p))
ASSUME ErrorsAssumption == {Failed, NotFound} \intersect Seq(Results) = {}

VARIABLES
    pc,        \* the caller: spawn, wait, done, crashed
    task,      \* the goroutine of every provider
    name,      \* the index of the name it searches for next
    found,     \* results of searchActor so far
    failed,    \* whether errors is not empty
    shown,     \* what the site returned for the last name
    todo,      \* results the goroutine has still to append
    mu,        \* who holds the mutex
    header,    \* the slice a goroutine has read under the mutex
    wg,        \* the WaitGroup counter
    fallback,  \* the argument of SearchActorAll
    results    \* the slice

search == <<name, found, failed, shown>>
vars == <<pc, task, search, todo, mu, header, wg, fallback, results>>

Init ==
    /\ pc = "spawn"
    /\ task = [p \in Providers |-> "none"]
    /\ name = [p \in Providers |-> 1]
    /\ found = [p \in Providers |-> <<>>]
    /\ failed = [p \in Providers |-> FALSE]
    /\ shown = [p \in Providers |-> {}]
    /\ todo = [p \in Providers |-> <<>>]
    /\ mu = Nobody
    /\ header = [p \in Providers |-> <<>>]
    /\ wg = 0
    /\ fallback \in BOOLEAN
    /\ results = <<>>

Spawn(p) ==
    /\ pc = "spawn"
    /\ task[p] = "none"
    /\ wg' = wg + 1
    /\ task' = [task EXCEPT ![p] = "search"]
    /\ UNCHANGED <<pc, search, todo, mu, header, fallback, results>>

Wait ==
    /\ pc = "spawn"
    /\ \A p \in Providers : task[p] # "none"
    /\ pc' = "wait"
    /\ UNCHANGED <<task, search, todo, mu, header, wg, fallback, results>>

(***************************************************************************)
(* innerSearch of one name: the site, then the rows of the database under    *)
(* the results of the site, then the filter and the sort by similarity.      *)
(***************************************************************************)
\* The hash of a result: v.Provider + v.ID.
Key == [x \in Results |-> <<x.provider, x.id>>]

\* Mutated form: what the database holds overwrites what the site returned.
MergedRowsWin(site, rows) ==
    IF rows = <<>> THEN site
    ELSE AsSlice(Key, IF site \in {Failed, NotFound} THEN rows ELSE site \o rows)

\* The first deferred function to run; a query that fails leaves rows empty.
Merged(site, rows) ==
    IF rows = <<>> THEN site
    ELSE AsSlice(Key, IF site \in {Failed, NotFound} THEN rows ELSE rows \o site)

\* The other one: results too far from the name go, the closer come first.
Ranked(response, n) ==
    IF response \in {Failed, NotFound, <<>>} THEN response
    ELSE SortedStable([x \in Results |-> Similarity[x][n]],
                      Among(response, {x \in Results : Similarity[x][n] >= MinSimilarity}))

Errors == {Failed, NotFound}

\* Gfriends is asked without the database and without the filter.
Inner(p, n, site, rows) ==
    IF p = Gfriends THEN site ELSE Ranked(Merged(site, rows), n)

SearchName(p) ==
    /\ task[p] = "search"
    /\ name[p] <= Len(Names)
    /\ \E site \in Offers[p][Names[name[p]]] \union Errors,
          rows \in {<<>>} \union (IF fallback THEN Rows[p][Names[name[p]]] ELSE {}) :
       \E response \in {Inner(p, Names[name[p]], site, rows)} :
          /\ found' = IF response \in Errors THEN found
                      ELSE [found EXCEPT ![p] = @ \o response]
          /\ failed' = [failed EXCEPT ![p] = @ \/ response = Failed]
          /\ shown' = [shown EXCEPT ![p] = IF site \in Errors THEN {} ELSE ToSet(site)]
    /\ name' = [name EXCEPT ![p] = @ + 1]
    /\ UNCHANGED <<pc, task, todo, mu, header, wg, fallback, results>>

Valid == {x \in Results : x.valid}

\* searchActor returns.  Errors count only when there are no results, and then
\* there is nothing to append either way: the goroutine ignores them.
Deliver(p) ==
    /\ task[p] = "search"
    /\ name[p] > Len(Names)
    /\ todo' = [todo EXCEPT ![p] = Among(found[p], Valid)]
    /\ task' = [task EXCEPT ![p] = "append"]
    /\ UNCHANGED <<pc, search, mu, header, wg, fallback, results>>

\* Mutated form: nobody waits for the mutex.
LoadUnlocked(p) ==
    /\ task[p] = "append"
    /\ todo[p] # <<>>
    /\ mu' = p
    /\ header' = [header EXCEPT ![p] = results]
    /\ task' = [task EXCEPT ![p] = "store"]
    /\ UNCHANGED <<pc, search, todo, wg, fallback, results>>

(***************************************************************************)
(* results = append(results, result) between Lock and Unlock: a read of the  *)
(* slice and a write of it.                                                  *)
(***************************************************************************)
Load(p) ==
    /\ task[p] = "append"
    /\ todo[p] # <<>>
    /\ mu = Nobody
    /\ mu' = p
    /\ header' = [header EXCEPT ![p] = results]
    /\ task' = [task EXCEPT ![p] = "store"]
    /\ UNCHANGED <<pc, search, todo, wg, fallback, results>>

\* Mutated form: the mutex stays locked.
StoreLocked(p) ==
    /\ task[p] = "store"
    /\ results' = Append(header[p], Head(todo[p]))
    /\ todo' = [todo EXCEPT ![p] = Tail(@)]
    /\ task' = [task EXCEPT ![p] = "append"]
    /\ UNCHANGED <<pc, search, header, mu, wg, fallback>>

Store(p) ==
    /\ task[p] = "store"
    /\ results' = Append(header[p], Head(todo[p]))
    /\ todo' = [todo EXCEPT ![p] = Tail(@)]
    /\ header' = [header EXCEPT ![p] = <<>>]
    /\ mu' = Nobody
    /\ task' = [task EXCEPT ![p] = "append"]
    /\ UNCHANGED <<pc, search, wg, fallback>>

\* The deferred wg.Done().
Exit(p) ==
    /\ task[p] = "append"
    /\ todo[p] = <<>>
    /\ wg' = wg - 1
    /\ task' = [task EXCEPT ![p] = "exited"]
    /\ UNCHANGED <<pc, search, todo, mu, header, fallback, results>>

\* Mutated form: the slice is returned in the order it was appended in.
ReturnUnsorted ==
    /\ pc = "wait"
    /\ wg = 0
    /\ pc' = "done"
    /\ UNCHANGED <<task, search, todo, mu, header, wg, fallback, results>>

\* wg.Wait() returns; the slice is sorted by the priority of the providers.
Return ==
    /\ pc = "wait"
    /\ wg = 0
    /\ results' = SortedStable([x \in Results |-> Priority[x.provider]], results)
    /\ pc' = "done"
    /\ UNCHANGED <<task, search, todo, mu, header, wg, fallback>>

\* The provider panics in the search of a name; only wg.Done() is deferred.
Panic(p) ==
    /\ task[p] = "search"
    /\ name[p] <= Len(Names)
    /\ wg' = wg - 1
    /\ task' = [task EXCEPT ![p] = "panicked"]
    /\ UNCHANGED <<pc, search, todo, mu, header, fallback, results>>

\* No goroutine of the server outlives a panic that nobody recovers.
Crash ==
    /\ \E p \in Providers : task[p] = "panicked"
    /\ pc' = "crashed"
    /\ task' = [p \in Providers |-> "gone"]
    /\ mu' = Nobody
    /\ wg' = 0
    /\ UNCHANGED <<search, todo, header, fallback, results>>

Task(p) ==
    \/ SearchName(p) \/ Deliver(p)
    \/ Load(p) \/ Store(p)
    \/ Exit(p)

\* SearchActorAll has returned, or the server is gone.
Returned ==
    /\ pc \in {"done", "crashed"}
    /\ UNCHANGED vars

Next ==
    \/ \E p \in Providers : Spawn(p) \/ Task(p) \/ Panic(p)
    \/ Wait \/ Return \/ Crash \/ Returned

Spec == Init /\ [][Next]_vars

\* Goroutines are scheduled, and a search ends by the timeout of its provider.
\* Nothing makes a provider panic.
Fairness ==
    /\ \A p \in Providers : WF_vars(Spawn(p)) /\ WF_vars(Task(p))
    /\ WF_vars(Wait) /\ WF_vars(Return) /\ WF_vars(Crash)

FairSpec == Spec /\ Fairness

-----------------------------------------------------------------------------
\* Nothing that a goroutine appended is lost to another one that appended at
\* the same time, and no error takes results away: the reply has, provider by
\* provider and those of higher priority first, exactly the valid results of
\* each search, in their order.  A search that panicked has nothing in it, in
\* the reply that may still be returned before the panic ends the server.
ReplySound ==
    pc = "done" =>
        /\ \A p \in Providers :
              Among(results, Of(p)) =
                  IF task[p] = "panicked" THEN <<>> ELSE Among(found[p], Valid)
        /\ \A i, j \in DOMAIN results :
              i < j => Priority[results[i].provider] >= Priority[results[j].provider]

\* "We want search results go first than DB data" (actor.go:66): what is found
\* under a key that the site returned is what the site returned, and never the
\* row the database has of it.
SiteOverwritesRow ==
    [][\A p \in Providers \ {Gfriends} : name'[p] # name[p] =>
          \A k \in Len(found[p]) + 1..Len(found'[p]) :
              (\E x \in shown'[p] : Key[x] = Key[found'[p][k]])
              => found'[p][k] \in shown'[p]]_vars

\* Every search returns: nobody waits for a mutex that is never unlocked, nor
\* for a counter that never comes to zero.  The exception is a provider that
\* panics in a goroutine of the fan-out, which ends the server instead
\* (actor.go:122-133).
SearchReturns == <>(pc \in {"done", "crashed"})
=============================================================================
