---------------------------- MODULE MovieSearch ----------------------------
(***************************************************************************)
(* Engine.SearchMovieAll (engine/movie.go): one goroutine per provider sends *)
(* its response over an unbuffered channel, a closer waits for the WaitGroup *)
(* and closes the channel, the caller ranges over it.  Its deferred functions *)
(* then append the rows of the database and post-process the whole.          *)
(*                                                                          *)
(* The search is for one keyword.  A provider that is no MovieSearcher is    *)
(* answered through the lazy lookup, which reads and writes the database      *)
(* while the others are searching.                                           *)
(*                                                                          *)
(* A goroutine defers wg.Done() and recovers nothing: when a provider panics  *)
(* in one, Done still runs, and then the Go runtime ends the whole server.    *)
(***************************************************************************)
EXTENDS ResultLists, FiniteSets

CONSTANTS
    Providers,   \* registered providers
    Searchers,   \* those that implement MovieSearcher
    Results,     \* search results: [provider, id, rev, valid]
    Offers,      \* Offers[p]: the responses the site of p may give
    Asked,       \* Asked[p]: the keyword as an id of p (NormalizeMovieID)
    Matching,    \* what the keyword matches by number or by id
    Weight,      \* Weight[x]: similarity to the keyword times priority
    Rows,        \* the databases a search may start from
    Failed       \* the response of a provider that failed

ASSUME ProvidersAssumption == IsFiniteSet(Providers)
ASSUME SearchersAssumption == Searchers \subseteq Providers
ASSUME OffersAssumption == Offers \in [Providers -> SUBSET Seq(Results)]
ASSUME FailedAssumption == Failed \notin Seq(Results)
ASSUME WeightAssumption == Weight \in [Results -> Nat]

\* A page that is not complete is a failure (movie.go:213).
ASSUME PagesAssumption ==
    \A p \in Providers \ Searchers :
        \A response \in Offers[p] : \A x \in ToSet(response) : x.valid

\* The hash of a result: v.Provider + v.ID.
Key == [x \in Results |-> <<x.provider, x.id>>]

\* The primary key, and the check of what a query returns (movie.go:38).
ASSUME RowsAssumption ==
    \A rows \in Rows :
        /\ rows \in Seq(Results)
        /\ \A i \in DOMAIN rows :
              /\ rows[i].valid
              /\ \A j \in DOMAIN rows : i # j => Key[rows[i]] # Key[rows[j]]

VARIABLES
    pc,        \* the caller: spawn, collect, fallback, post, done, crashed
    task,      \* the goroutine of every provider
    resp,      \* the response it has got
    wg,        \* the WaitGroup counter
    closer,    \* the goroutine that closes the channel
    ch,        \* the channel respCh
    db,        \* the table of movies
    fallback,  \* the argument of SearchMovieAll
    stored,    \* the rows the fallback query returned
    results, err

fanout == <<task, resp, wg, closer, ch>>
vars == <<pc, task, resp, wg, closer, ch, db, fallback, stored, results, err>>

Init ==
    /\ pc = "spawn"
    /\ task = [p \in Providers |-> "none"]
    /\ resp = [p \in Providers |-> <<>>]
    /\ wg = 0
    /\ closer = "none"
    /\ ch = "open"
    /\ db \in Rows
    /\ fallback \in BOOLEAN
    /\ stored = <<>>
    /\ results = <<>>
    /\ err = "nil"

(***************************************************************************)
(* The caller starts the goroutines, then the closer.                       *)
(***************************************************************************)
Spawn(p) ==
    /\ pc = "spawn"
    /\ task[p] = "none"
    /\ wg' = wg + 1
    /\ task' = [task EXCEPT ![p] = "search"]
    /\ UNCHANGED <<pc, resp, closer, ch, db, fallback, stored, results, err>>

SpawnCloser ==
    /\ pc = "spawn"
    /\ \A p \in Providers : task[p] # "none"
    /\ closer' = "wait"
    /\ pc' = "collect"
    /\ UNCHANGED <<task, resp, wg, ch, db, fallback, stored, results, err>>

(***************************************************************************)
(* searchMovie without fallback.                                             *)
(***************************************************************************)
Respond(p, response) ==
    /\ resp' = [resp EXCEPT ![p] = response]
    /\ task' = [task EXCEPT ![p] = "send"]
    /\ UNCHANGED <<pc, wg, closer, ch, fallback, stored, results, err>>

SearchSite(p) ==
    /\ task[p] = "search"
    /\ p \in Searchers
    /\ \E response \in Offers[p] \union {Failed} : Respond(p, response)
    /\ UNCHANGED db

\* The query of the lazy lookup: provider and normalised id.
RowsOf(p) == Among(db, {x \in Results : x.provider = p /\ x.id = Asked[p]})

\* A provider without search: a row it has is the answer ...
LookupRow(p) ==
    /\ task[p] = "search"
    /\ p \notin Searchers
    /\ RowsOf(p) # <<>>
    /\ Respond(p, <<Head(RowsOf(p))>>)
    /\ UNCHANGED db

\* ... but there may be none, and the error of a query that fails is ignored.
LookupMiss(p) ==
    /\ task[p] = "search"
    /\ p \notin Searchers
    /\ task' = [task EXCEPT ![p] = "fetch"]
    /\ UNCHANGED <<pc, resp, wg, closer, ch, db, fallback, stored, results, err>>

\* Then the page is fetched, ...
FetchPage(p) ==
    /\ task[p] = "fetch"
    /\ \E response \in Offers[p] : resp' = [resp EXCEPT ![p] = response]
    /\ task' = [task EXCEPT ![p] = "save"]
    /\ UNCHANGED <<pc, wg, closer, ch, db, fallback, stored, results, err>>

\* ... and upserted by the deferred save, whose error is ignored.
SavePage(p) ==
    /\ task[p] = "save"
    /\ db' \in {AsSlice(Key, db \o resp[p]), db}
    /\ task' = [task EXCEPT ![p] = "send"]
    /\ UNCHANGED <<pc, resp, wg, closer, ch, fallback, stored, results, err>>

\* No id of this provider, no such page, or a record that is not complete.
LookupFails(p) ==
    /\ task[p] = "fetch"
    /\ Respond(p, Failed)
    /\ UNCHANGED db

(***************************************************************************)
(* The provider panics, or the deferred save is given the nil record of a     *)
(* provider that returned neither record nor error (movie.go:225).            *)
(***************************************************************************)
Panic(p) ==
    /\ task[p] = "fetch" \/ (task[p] = "search" /\ p \in Searchers)
    /\ wg' = wg - 1
    /\ task' = [task EXCEPT ![p] = "panicked"]
    /\ UNCHANGED <<pc, resp, closer, ch, db, fallback, stored, results, err>>

\* No goroutine of the server outlives a panic that nobody recovers.
Crash ==
    /\ \E p \in Providers : task[p] = "panicked"
    /\ pc' = "crashed"
    /\ task' = [p \in Providers |-> "gone"]
    /\ closer' = "gone"
    /\ wg' = 0
    /\ UNCHANGED <<resp, ch, db, fallback, stored, results, err>>

\* Mutated form: a response takes the place of those before it.
ReceiveLast(p) ==
    /\ pc = "collect"
    /\ ch = "open"
    /\ task[p] = "send"
    /\ task' = [task EXCEPT ![p] = "finish"]
    /\ results' = IF resp[p] = Failed THEN results ELSE resp[p]
    /\ UNCHANGED <<pc, resp, wg, closer, ch, db, fallback, stored, err>>

(***************************************************************************)
(* The send and the receive of an unbuffered channel are one step.  The      *)
(* collector drops the response of a provider that failed.                   *)
(***************************************************************************)
Receive(p) ==
    /\ pc = "collect"
    /\ ch = "open"
    /\ task[p] = "send"
    /\ task' = [task EXCEPT ![p] = "finish"]
    /\ results' = IF resp[p] = Failed THEN results ELSE results \o resp[p]
    /\ UNCHANGED <<pc, resp, wg, closer, ch, db, fallback, stored, err>>

\* The deferred wg.Done().
Exit(p) ==
    /\ task[p] = "finish"
    /\ wg' = wg - 1
    /\ task' = [task EXCEPT ![p] = "exited"]
    /\ UNCHANGED <<pc, resp, closer, ch, db, fallback, stored, results, err>>

\* Mutated form: the closer does not wait.
CloseAtOnce ==
    /\ closer = "wait"
    /\ ch' = "closed"
    /\ closer' = "exited"
    /\ UNCHANGED <<pc, task, resp, wg, db, fallback, stored, results, err>>

Close ==
    /\ closer = "wait"
    /\ wg = 0
    /\ ch' = "closed"
    /\ closer' = "exited"
    /\ UNCHANGED <<pc, task, resp, wg, db, fallback, stored, results, err>>

\* Mutated form: the collector leaves after the first response.
EndCollectEarly ==
    /\ pc = "collect"
    /\ \E p \in Providers : task[p] = "finish"
    /\ pc' = IF fallback THEN "fallback" ELSE "post"
    /\ UNCHANGED <<fanout, db, fallback, stored, results, err>>

\* The range over the closed channel ends.
EndCollect ==
    /\ pc = "collect"
    /\ ch = "closed"
    /\ pc' = IF fallback THEN "fallback" ELSE "post"
    /\ UNCHANGED <<fanout, db, fallback, stored, results, err>>

\* Mutated form: the rows go in front.
QueryDBFirst ==
    /\ pc = "fallback"
    /\ \E rows \in {Among(db, Matching), <<>>} :
          /\ stored' = rows
          /\ results' = rows \o results
    /\ err' = "nil"
    /\ pc' = "post"
    /\ UNCHANGED <<fanout, db, fallback>>

(***************************************************************************)
(* The deferred functions: the query of the database (whose error is         *)
(* ignored), then the post-processing.                                       *)
(***************************************************************************)
QueryDB ==
    /\ pc = "fallback"
    /\ \E rows \in {Among(db, Matching), <<>>} :
          /\ stored' = rows
          /\ results' = results \o rows
    /\ err' = "nil"
    /\ pc' = "post"
    /\ UNCHANGED <<fanout, db, fallback>>

\* Results that are valid and of a registered provider.
Served == {x \in Results : x.valid /\ x.provider \in Providers}

\* Mutated form: results that are not valid stay.
PostProcessUnfiltered ==
    /\ pc = "post"
    /\ \E unique \in {AsSlice(Key, results)} :
          results' = SortedStable(Weight, unique)
    /\ err' = IF results = <<>> THEN "notfound" ELSE "nil"
    /\ pc' = "done"
    /\ UNCHANGED <<fanout, db, fallback, stored>>

\* Deduplicate, drop what is invalid or of no registered provider, sort.
PostProcess ==
    /\ pc = "post"
    /\ \E unique \in {AsSlice(Key, results)} :
       \E kept \in {Among(unique, Served)} :
          results' = SortedStable(Weight, kept)
    /\ err' = IF results = <<>> THEN "notfound" ELSE "nil"
    /\ pc' = "done"
    /\ UNCHANGED <<fanout, db, fallback, stored>>

Task(p) ==
    \/ SearchSite(p)
    \/ LookupRow(p) \/ LookupMiss(p) \/ FetchPage(p) \/ SavePage(p) \/ LookupFails(p)
    \/ Exit(p)

Caller == SpawnCloser \/ EndCollect \/ QueryDB \/ PostProcess

\* SearchMovieAll has returned, or the server is gone.
Returned ==
    /\ pc \in {"done", "crashed"}
    /\ UNCHANGED vars

Next ==
    \/ \E p \in Providers : Spawn(p) \/ Task(p) \/ Panic(p) \/ Receive(p)
    \/ Caller
    \/ Close
    \/ Crash
    \/ Returned

Spec == Init /\ [][Next]_vars

(***************************************************************************)
(* Goroutines are scheduled, and a search ends by the request timeout of     *)
(* its provider at the latest.  Nothing makes a provider panic.              *)
(***************************************************************************)
Fairness ==
    /\ \A p \in Providers : WF_vars(Spawn(p)) /\ WF_vars(Task(p)) /\ WF_vars(Receive(p))
    /\ WF_vars(Caller)
    /\ WF_vars(Close)
    /\ WF_vars(Crash)

FairSpec == Spec /\ Fairness

-----------------------------------------------------------------------------
\* The channel is closed when nobody can send on it any more: a send on a
\* closed channel would bring the whole server down (movie.go:109, 121).
ClosedAfterLastSend ==
    ch = "closed" => \A p \in Providers : task[p] \in {"exited", "panicked", "gone"}

\* Everything the responses and the query of the database brought.
Candidates ==
    ToSet(stored) \union
    UNION {ToSet(resp[p]) : p \in {q \in Providers : resp[q] # Failed}}

\* No response is lost between the goroutines and the reply, in whatever order
\* they arrive: every registered result whose duplicates are all valid is in
\* the reply, and nothing at all is ErrInfoNotFound.
ReplyComplete ==
    pc = "done" =>
        /\ Candidates = {} <=> err = "notfound"
        /\ \A x \in Candidates :
              /\ x.provider \in Providers
              /\ \A y \in Candidates : Key[y] = Key[x] => y.valid
              => \E z \in ToSet(results) : Key[z] = Key[x]

\* The reply holds valid results of registered providers only, one per
\* provider and id, the heavier first.
ReplyWellFormed ==
    pc = "done" =>
        /\ \A i \in DOMAIN results :
              results[i].valid /\ results[i].provider \in Providers
        /\ \A i, j \in DOMAIN results : i < j =>
              /\ Key[results[i]] # Key[results[j]]
              /\ Weight[results[i]] >= Weight[results[j]]

\* A stored row takes the place of the result the site has just returned for
\* the same key, also when a provider saved it during this very search.
StoredWins ==
    pc = "done" =>
        \A row \in ToSet(stored) :
            row.provider \in Providers => row \in ToSet(results)

\* Every search returns and leaves no goroutine behind, unless a provider
\* panics in a goroutine of the fan-out: that ends the server, not the search
\* alone (movie.go:106-117).
SearchReturns ==
    <>(\/ pc = "done" /\ closer = "exited" /\ \A p \in Providers : task[p] = "exited"
       \/ pc = "crashed")
============================================================================
