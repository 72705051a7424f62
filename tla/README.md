# TLA+ specifications of the MetaTube server

This directory holds TLA+ models of the parts of this repository whose
correctness depends on order, concurrency and failure, the TLC configurations
that check them, and TLAPS proofs about them. Line numbers refer to the files
under `src/`; `PROJECT.json` maps every definition of a model to the lines it
translates, and lists the runs, the mutants, the hazards and the theorems.

## 1. The system

The server answers HTTP requests for metadata of movies and actors. A request
goes through the routes to the engine, which looks into its database, calls one
scraping provider or all of them, and writes what it fetched back. Jellyfin
plugins and an actor resolver sit in front of it.

```
  Jellyfin plugins ──HTTP──> route ──> engine ──> database (gorm, SQLite/Postgres)
                                         │
  resolver.py ──HTTP──┘                  ├──> providers (registry) ──> web sites
                                         │       └ gfriends, avbase ──> singledo
                                         └──> orderedset, wslice (post-processing)
```

| Component | State | Operations | What is hard | What makes it correct |
|---|---|---|---|---|
| Metadata tables (`engine/database.go`, `model`) | rows with primary key (id, provider) | query without regard to case, upsert | the key is case-sensitive, the query is not | one row per key |
| Movie lookup (`engine/movie.go` 201-278) | the table, shared by concurrent requests | by id, by URL, lazy or not | deferred save runs before the deferred validation; two requests for one id; ignored database errors; restarts | only valid, published records are stored; a reply is a complete record or an error; each lookup takes effect at one instant |
| Actor lookup (`engine/actor.go` 144-233) | as above | as above, plus the Gfriends bypass and its images | the injection mutates the record that was just saved; it panics when Gfriends is disabled | rows stay original, images are added once |
| Movie search (`engine/movie.go` 79-199) | WaitGroup, channel, results | fan-out to all providers, database fallback, post-processing | the channel is closed by a third goroutine; errors of some providers; database read after the search; a panic in a goroutine ends the server | nothing lost, no send after close, returns unless a provider panics |
| Actor search (`engine/actor.go` 20-142) | WaitGroup, mutex, shared slice | as above, one search per name of the keyword | concurrent appends; error of one name; order of the stored rows; panics as above | nothing lost, sorted by priority, returns unless a provider panics |
| Ordered set, weighted slice (`collection/sets`, `collection/slices`) | list by hash; two parallel slices | Add, Del, AsSlice; Append, SortFunc | replaced values keep their place; a sort that sees only Less and Swap | closed forms of the resulting lists |
| singledo (`common/singledo`) | mutex, time, call in flight, last results | Do, Reset | reads after the unlock, Reset without the lock, panics, expiry during an execution | one execution at a time, no results out of date |
| Users of singledo (`provider/gfriends`, `provider/avbase`) | file tree; build id | query, update | only the caller that runs the update sees its error; the tree is iterated while it may be decoded into | hazards without a property, see section 5 |
| Review lookup (`engine/review.go`) | the reviews table | by id, by URL, lazy or not | reviews carry no key, so the row is stored under the id of the request | a reply has the reviews that were asked for, no older than they may be |
| Routes (`route`) | none beyond a request | redirect, authentication, handlers, recovery | replies in a dozen places; panics on a request's goroutine are recovered, those of a search's goroutines end the process | exactly one reply, 200 only for what was allowed and found; no request without a reply while the server is up |
| Registry and start-up (`provider/factory.go`, `engine/init.go`, `engine/engine.go`) | providers by name and by host | init, lookups by name and URL | the random order of Go maps, hosts that several providers share, ids that are normalised, parsed and read off pages | a page belongs to one provider; one key per movie, two with AVBase |
| Scraping providers (`provider/*`) | the answer of one call | callbacks on elements of pages, visits, goroutines | the order of callbacks and completions, fallbacks, goroutines that write the answer, errors of callbacks | the contract the engine relies on; fallbacks that are fallbacks; no error lost |
| Union-find (`collection/unionfind`) | parent, size and component arrays | Union, Connected, Count | three implementations of one interface | each implements one partition |
| Actor resolver (`metatube-work/stack/actor-resolver`) | cache file | resolve, save | threads that save what they read long before, failing saves, a stop while saving | no entry lost, answers about the right actor |
| Actor creation lock (`Helpers/ActorCreationLock.cs`) | one semaphore per actor name | AcquireAsync, DisposeAsync | several locks per task, cancellation half-way, delayed release; only the build for Emby takes it | exclusion, no circular waiting |
| Worker pools, fetching, images, translation, configuration, text helpers, `engine/dbengine`, rest of the plugins | none that outlives a call, or outside of the server | parsing, image processing, retries | nothing concurrent | not modelled, see section 5 |

Components interact by calls, and share state in five places: the tables
(written by every lookup), the slices and channels of one search, the `Single`
of a provider, the semaphores of the plugin, and the cache file of the resolver.

## 2. Modules

| Module | Models | State ↔ code | Actions ↔ code |
|---|---|---|---|
| `MetadataTable` | a table as gorm uses it | a set of records | `First` is `Where(... COLLATE NOCASE).First`, `Upsert` is `Create` with `OnConflict{UpdateAll}` |
| `MetadataStore` | what the engine promises of a table and the lookups that go through it | `table` the versions stored, `latest` the revision of every site, `lookup` idle, pending, answered or failed | `Begin`, `Hit` (the row is read), `Load` (a version of the site is taken and stored, or not), `Fail`, `Return` |
| `MovieLookup` | `getMovieInfoWithCallback` and its callers | `rows` the table, `info`/`err` the named results, `pc` the place in the function, `asked` its arguments; `revision` the state of the web site, `since` its value at the call | `CallByID`, `CallByURL`, `QueryHit/Miss/Fails`, `FetchOK/Fails/Nil`, `Save`, `SavePanics`, `Validate`, `Finish` (response written), `Publish` (the site changes), `Restart` |
| `ActorLookup` | `getActorInfoWithCallback` and its callers | as above; `injected` in a record counts the Gfriends images put in front of its own | as above, with `Inject` and `InjectPanics` between save and validation |
| `ResultLists` | closed forms `AsSlice` and `SortedStable` of the two collections, `Among` for the loops that keep what passes a test | none | none |
| `OrderedSet` | `sets.OrderedSet` | `m` the ordered map | `Add`, `Del` |
| `WeightedSlice` | `slices.WeightedSlice` under `sort.Stable` | `objects`, `weights` the two slices; `place` where the item at a position was before the sort | `AppendItem`, `Sort`, `Exchange` (one `Swap`, of any two positions), `EndSort` (only when the slice is as `sort.Stable` documents it: nothing before what is less, equal items in their first order) |
| `MovieSearch` | `SearchMovieAll`, `searchMovieAll` | `task`, `resp` per goroutine, `wg`, `ch`, `closer`, `results`, `db` the table | `Spawn`, `SearchSite`, `LookupRow/Miss`, `FetchPage`, `SavePage` and `LookupFails` (the lazy lookup of a provider that cannot search), `Panic`, `Crash`, `Receive` (the rendezvous), `Exit`, `Close`, `EndCollect`, `QueryDB`, `PostProcess` |
| `ActorSearch` | `SearchActorAll`, `searchActor` | `task`, `name`, `found` per goroutine, `mu`, `wg`, `results` | `Spawn`, `SearchName`, `Deliver`, `Load`/`Store` (the two halves of `append`), `Exit`, `Panic`, `Crash`, `Wait`, `Return` |
| `SingleDo` | `singledo.Single` | `last`, `call`, `result` its fields; `begun`, `released`, `dropped` what is known of executions | `Do`, `Cached`, `Join`, `Lead` (first critical section), `ReadVal`, `ReadErr`, `Joined`, `Run`, `Panic`, `CallDone` (`wg.Done`), `Publish` (second critical section), `Reset`, `Tick` |
| `ActorCreationLock` | the C# lock | `count` of every semaphore, and per task `where` it is and `owned` the list `acquired` | `Acquire`, `Take`, `Acquired`, `Cancel`, `Dispose`, `DelayOver`, `Release`, `Released` |
| `ReviewLookup` | `getMovieReviewsWithCallback` and its callers | as `MovieLookup`, with the reviews table | as `MovieLookup`; the key is that of `asked` |
| `Routes` | every route of the server around `ReviewLookup` | `http` the request, `results` the length of a search, `written` the statuses that were sent, `up` whether the process runs | `Arrive`, one action per middleware and handler, `EnginePanics` and `Recover` (on the goroutine of the request), `Crash` (a panic in a goroutine that a search started: no request survives it), `Start` |
| `ProviderIds` | how every registered provider normalises ids, builds the URL of a page and parses an id out of one | none | none |
| `Registry` | `Engine.init` and the way from what was asked for to the key of a row | `installed`, `config` and `left` of the loops; `byName`, `byHost` the maps; `rows` the keys stored | `InitActorProvider`, `InitMovieProvider` (an iteration each), `ByID`, `ByURL`; `InfoIDs` what the scraped record may have for an id |
| `ScrapeSteps` | the steps a scraping function is made of: callbacks, conditions, effects, visits, goroutines | none | none |
| `ScrapeIndex`, `ScrapeStudios`, `ScrapeAmateur`, `ScrapeAPI` | catalogues: the functions of the providers, one definition each, as sequences of these steps in the order of the source | none | none |
| `Scraping` | runs a function of the catalogues on a site | `info` and `err` the named results, `threads` what each goroutine has still to do, `site` what the pages have | `Call`, `VisitOK`, `VisitFails`, … (a visit with all that its callbacks do), `Join`, `Finish` |
| `ProviderCall` | what the engine relies on when it calls a provider | `phase`, `answer` | `Begin`, `End`, `Panic`, `Forget` |
| `UnionFind` | `quickFind`, `quickUnion` and `weightedQuickUnion` side by side | `id`; `link`; `root`, `size`; `counts` | `Union` |
| `Partition` | what `unionfind` promises | `classes`, `count` | `Merge` |
| `ActorResolver` | `resolve` and `save_cache` of `resolver.py` | `file` and `temporary` the two files, `lock`, and per thread `stage`, `cache`, `answer` | `Ask`, `CheckCache` (first critical section), `Resolve`, `ResolveFails`, `LockAndLoad`, `Open`, `Write`, `Replace` (second one), `SaveFails`, `Crash`, `TimePasses` |

`MovieLookup`, `ActorLookup` and `ReviewLookup` extend `MetadataTable`; `Routes`
extends `ReviewLookup` and composes it with the handlers; `Registry` extends
`ProviderIds`. `MovieLookup`, `ActorLookup` and `Routes` (with `ReviewLookup` in
it) implement `MetadataStore`, `UnionFind` implements `Partition` three times and
`Scraping` implements `ProviderCall`, each by `INSTANCE … WITH` a refinement
mapping.

To `MetadataStore` a lookup is pending from its call until it has read its row,
or until its deferred save has run; what the validation and the injection do
afterwards is no step of the store. A record is its key and revision there: that
it is complete, and has images of Gfriends, is for the detailed modules to say.
The three lookups differ in its parameters: an actor of Gfriends is never stored
(`Stored`), and a page of reviews answers for the id that was asked for and no
other (`Answers`). `Restart` there is `Restart` of the lookups of movies and
actors and `Crash` of `Routes`.

`MovieSearch` and
`ActorSearch` post-process with the closed forms of `ResultLists`; `OrderedSet`
and `WeightedSlice` are the state machines of the two collections, whose runs
show that they compute those closed forms. `MC…` modules give the constants
values; `…Proofs` modules hold the theorems.

What is one action is what no other goroutine can observe half-done: a critical
section, one query or one write of the database, one call of a provider, one
read of a shared field after an unlock, one half of the
`append` that the mutex protects. Data is abstracted to what the properties tell apart. A record is its
key, the revision of the page it comes from, and whether its required fields
are there; ids are numbers with a folding that stands for case; a similarity or
a priority is a number. Parsers of pages, names, keywords and URLs are replaced
by the set of values they may return. The hash of a result, its provider and id
put together, is the pair of them.

A panic has one of two ends. On the goroutine of a request, gin's recovery makes
it a 500: `SavePanics`, `InjectPanics`, `EnginePanics` and `Recover`. A search of
all providers asks each in a goroutine which defers `wg.Done()` and recovers
nothing (movie.go:106, actor.go:122): `Panic` counts the WaitGroup down, and
`Crash` ends the process at some later moment. Between the two, the caller may
still receive what the others send, and the actor search may even return.

A definition whose comment begins with *Mutated form* is not part of a
specification. It is the definition below it with a plausible mistake in it, a
dropped guard, a swapped order or a missing reset. `PROJECT.json` pairs each
with the property that the mistake violates, so that every checked property is
known to be able to fail.

## 3. Runs

Run a specification with, for instance,
`tlc -config MCMovieLookup.cfg MCMovieLookup`.

| Run | Asks | Bounds, and why they are enough |
|---|---|---|
| `movie_lookup` | `RowsGenuine`, `ReplySound`, `ImplementsStore`: do concurrent lookups keep table and replies sound, and does each take effect at one instant? | two requests at any step of two calls, two spellings of one id and an alias whose page may answer with another id, two revisions of the site, a provider that may answer nil, an in-memory database and restarts, after which it is empty (`actor_lookup` has a durable one). A conflict over a row needs two writers and two revisions. |
| `movie_nil` (violation) | `NilIsIncomplete`, the nil test of the validation | as above |
| `actor_lookup` | `RowsOriginal`, `InjectedOnce`, `ImplementsStore` | two requests, one Japanese provider and Gfriends, enabled or not, two spellings, of which the tree of Gfriends has one, two revisions, a durable database |
| `movie_search` | `ClosedAfterLastSend`, `ReplyComplete`, `ReplyWellFormed`, `StoredWins`, `SearchReturns` | three providers of which one cannot search; duplicates, invalid results, failures and rows of a provider that is gone; each may panic. The three can finish, send and exit in every order. |
| `actor_search` | `ReplySound`, `SiteOverwritesRow`, `SearchReturns` | three goroutines, two names, both kinds of errors, with and without the database; each may panic |
| `sequential` | `Paired`, `SliceIsClosedForm`, `AsSliceIsClosedForm`, `ImplementPartition`, `OneKeyPerMovie`, `PagesResolve`: the parts that run by themselves, of which a behaviour uses one | lists of up to four objects of three weights, exchanges of any two positions in any order and number; every history of five operations on five items with three hashes, so that a hash can be added, replaced, deleted and added again; every order of unions of five elements, which makes trees of depth two in each forest; every movie provider by itself, and the three sets of providers that share a host or sell the same movies, in every order of the loops, with every choice of providers the operator turns off; every spelling of an id that users write, short ones and numbers included, ids of another form that the provider may reject, and AVBase with and without an answer of its source providers |
| `singledo` | `OneInFlight`, `ResultThere`, `NeverOutdated`, `DroppedStayDropped`, `CallsReturn` | three goroutines, four calls, a clock that goes to three and results that last one tick: a leader, one that joins and one that finds the results, across an expiry |
| `actor_creation_lock` | `OneOwner`, `NoCircle`, `AcquireReturns` | three tasks and three names: the shortest circles are of two and of three tasks |
| `reviews` | `ReviewsSound`, `OneReply`, `RequestEnds`, `ImplementsStore` | a request for any route, with and without a token, beside one for reviews, since requests meet in the table of reviews only; one that is redirected is for one route, since the redirection does not look at it; two spellings, two revisions; a table in memory and a server that a search brings down and that is started again, any number of times |
| `scraping` | `NoGoroutineLeft`, `FallbacksServe`, `Completed`, `ErrorsKept`, `KeepsContract` | every function of the catalogues, on sites that lack any of the sources of one field at a time, or have them blank, in every combination, with all else there or not; two nodes per element, four where ids are collected (three of which are visited); every visit may fail |
| `scraping_fanza` (violation) | `FallbacksAreFallbacks`, a comment in `fanza.go` | one function |
| `actor_resolver` | `AnswerSound`, `NoEntryLost`, `RequestAnswered` | two threads, three queries of which two share a key, entries that expire at the second of two ticks, a stop and start anywhere, an empty or a filled cache file. A lost update needs two threads, a torn file one stop. |

Bounds are constants of the modules and appear in guards: `MaxRev` (revisions a
site publishes), `MaxLen`, `MaxOps` (objects and operations of a collection),
`MaxTime`, `MaxCalls` (clock and calls in `SingleDo`), `MaxNow`, `MaxCrashes`
(clock and restarts in `ActorResolver`). Requests of the lookups start again
after they finish, so their number of calls is not bounded.
`CHECK_DEADLOCK FALSE` stands only where a bound or the end of the tasks stops
the system.

### What the violations show

* `movie_nil`. The deferred save calls `info.IsValid()` without a test for nil
  (movie.go:225) and runs before the deferred validation, which has that test
  (movie.go:213). A provider that answers nil without an error, as
  `theporndb/video.go:84` does without a token, makes the request panic; gin
  recovers it and the caller gets no `ErrIncompleteMetadata`.
* `scraping_fanza`. The callback for FANZA's sample images, whose comment calls
  it "Preview Images Digital (Fallback)" (fanza.go:505), returns when the first
  source had nothing and adds its images when it had something (fanza.go:507).

`FallbacksServe` and `ErrorsKept` hold of every other function; the exceptions,
the functions that assign the visit's error over that of a callback or parse a
second script, are listed by name beside the properties.

Five things the passing runs show are worth knowing. When Gfriends is disabled,
a lookup of a Japanese provider stores its record and then panics in the
injection (actor.go:166), every time. A lookup ignores case where the primary
key does not, so of two rows one hides the other. The resolver keeps a record
for its whole time to live even if only one source had answered. A provider that
panics while all of them are searched takes the server down, with every other
request: `dahlia/core/core.go:169`, for instance, takes the first field of a text
that may have none. That is why `SearchReturns` and `RequestEnds` have `crashed`
and `~ up` for an alternative. And AVBase stores a movie that was asked for
without its maker's name under that id when no source provider answers
(avbase.go:117-119, 148-149), and under the one with the maker's name else;
whoever asks in both ways, or twice, may find two rows of it, and
`OneKeyPerMovie` allows AVBase, and no other provider, these two.

### Fairness

The safety runs of the lookups and of the sequential parts assume none.
`MovieSearch`, `ActorSearch` and `SingleDo` assume weak fairness of every goroutine, which is
what the Go scheduler gives a runnable goroutine, and that a call of a provider
ends, which the request timeout of its HTTP client ensures
(`engine/init.go:31, 58`). `Panic`, `Reset`, `Tick` and new calls are never
assumed to happen; after a panic in a goroutine of a search, its `Crash` is,
since the runtime ends the process. `CallsReturn` excepts behaviours in which a function has
panicked, since who joins that execution does wait for ever.
`ActorCreationLock` assumes strong fairness of a task: while others hold a name
its wait is enabled and disabled again, and `SemaphoreSlim` serves its
asynchronous waiters in turn. It also assumes that the server disposes of a lock
it was given, which `await using` (`Providers/MovieProvider.cs:116`) ensures.
Cancellation is never assumed. `Routes` and `Scraping` assume weak fairness of a
request's and of a call's next step, for the same two reasons: the scheduler and
the timeout of a visit. `ActorResolver` assumes it of every thread: its fetches
have timeouts, and a request has one thread that takes the lock twice, so the
lock cannot be kept from anybody for ever. `SaveFails` and `Crash` are never
assumed. New requests, revisions of a site, crashes of `Routes`, restarts and `Start` are
assumed nowhere.

## 4. Proofs

TLAPS proves the following for every value of the constants that meets the
named assumptions. Run `tlapm MovieLookupProofs.tla` and so on.

| Theorem | States | Argument |
|---|---|---|
| `MovieLookupProofs`: `TypeCorrect`, `StoredRowsGenuine`, `RepliesSound` | `[]TypeOK`, `[]RowsGenuine`, `[]ReplySound` | `IInv == TypeOK /\ RowsGenuine /\ InFlight`. The table alone is not inductive: `InFlight` says of every request, by its `pc`, which record it may carry (fetched for its own provider, no newer than the site, and no older than the call once fetched). |
| `MovieLookupProofs`: `StoreImplemented` | `ImplementsStore`, a refinement | from `IInv`, one lemma per action. `QueryHit` of a complete row is a `Hit`: the versions of the rows have the same first one as the rows (`FirstVersion`). `Save` is a `Load`: `InFlight` says that its record is a version the site has had since the call, and the versions of the new table are the new table of versions (`UpsertVersions`); or it is a `Fail` when there is nothing to save. `Restart`, `Publish`, calls and `Finish` map to their counterparts, all else to a stutter. |
| `ActorLookupProofs`: `TypeCorrect`, `StoredRowsOriginal`, `RepliesInjectedOnce`, `StoreImplemented` | `[]TypeOK`, `[]RowsOriginal`, `[]InjectedOnce`, `ImplementsStore` | the same shape; `InFlight` also says that nothing is injected before `inject`. What Gfriends answers skips the save and is a `Load` that stores nothing (`GfriendsStep`); the injection is a stutter, also when it panics, because a lookup that is about to panic is mapped to a failed one from the moment it has its record. |
| `MovieSearchProofs`: `NoSendAfterClose` | `[]ClosedAfterLastSend` | `Counted`: the WaitGroup equals the number of goroutines that run; hence zero means that all have left, by their end or by a panic |
| `MovieSearchProofs`: `NothingLost`, `ReplyProper`, `StoredRowWins` | `[]ReplyComplete`, `[]ReplyWellFormed`, `[]StoredWins` | `SInv == IInv /\ Types /\ Stages /\ Gathered`. `Stages` says what a goroutine has in hand between its steps: nothing before it has searched, or when it panicked, and a valid page before it saves. `Gathered` says what the caller holds in each of its phases: what was brought by the responses it has received (`Brought`), then that and the stored rows, which come last under their keys (`StoredLast`). The caller goes on when the closer has exited, so by `IInv` nothing is left to receive and `Brought` is all there is. That post-processing keeps what it should, and in which order, are lemmas about lists. |
| `ActorSearchProofs`: `NoAppendLost` | `[]ReplySound` | `AInv`: `Counted` as above; `Mutex` (the goroutine between `Load` and `Store` holds the mutex, and the header it loaded is still the slice); `Appended` (what a provider has in the slice, followed by what it has still to append, is what its search found). `ReplySound` speaks of the end, and `Appended` is what holds on the way, with nothing appended by a search that panicked. |
| `ActorSearchProofs`: `SiteBeforeRow` | the action property `SiteOverwritesRow` | an ordered set gives a key the value it was added with last, and a search adds the rows first |
| `RoutesProofs`: `ReviewsCorrect` | `[]ReviewsSound` | `IInv`: types, `RowsGenuine` and, of every request, `Stage` (where it may be with what it has passed), `Found` (what its lookup knows: the reviews it holds are those it asked for) and `Replied`. Two requests meet in the table only, and a row keeps its key when another spelling is stored. |
| `RoutesProofs`: `RepliedOnce` | `[]OneReply` | the same invariant: `Replied` says that nothing was written before `replied`, and `Stage` what a request must have passed to get to a stage that writes 200 or 307 |
| `RoutesProofs`: `StoreImplemented` | `ImplementsStore`, a refinement | as for the movies. A request begins a lookup when its handler enters the engine and returns from it when it is finished; the middlewares, the other routes and the reply leave the store alone (`HandlersUnseen`). A `Crash` is a `Restart` of the store (`CrashRestarts`). |
| `LockProofs`: `OneExecution`, `NoNilResult`, `Timeliness` | `[]OneInFlight`, `[]ResultThere`, `[]NeverOutdated` of `SingleDo` | `Shape` (types and ranges), `Leaders` (`s.call` is the execution of the one leader), `Kept` (what `s.last` and `s.result` have to do with each other), `Handed` (what each caller has been given). Executions overlap in no way, so their times of beginning increase with their numbers, which is why results that replace fresh ones are not older. |
| `LockProofs`: `DroppedForGood` | `[]DroppedStayDropped` | `DInv == IInv /\ Drops /\ Spared`: `Drops`: neither the execution in flight nor, as long as `s.last` is set, the one the results came from has been dropped; `Spared`: what a call has been given, or is about to read, was not dropped before it took the lock |
| `LockProofs`: `AnswersSound`, `NoEntryIsLost` | `[]AnswerSound`, the action property `NoEntryLost` of `ActorResolver` | `ResolverIInv`: `LockInv` (the thread inside `save_cache` is the one that holds the lock), `SavingInv` (what it is about to save covers what the file holds, since nobody else can change the file meanwhile, and is what the temporary file holds before the rename), `ResolvedInv` (what a resolved record says). Only `Replace` changes the file, and what it puts there covers what it replaces. |
| `LockProofs`: `Exclusion` | `[]OneOwner` of `ActorCreationLock` | a semaphore is free exactly when nobody owns it; `Upwards` adds that names are taken in order |
| `LockProofs`: `NoCircularWaiting` | `[]NoCircle` | a finite set of names has a greatest one (`FiniteHasMaximum`, by a least counterexample over cardinalities); the greatest of the names waited for in a circle is owned by a task of the circle, which by `Upwards` waits for a name after it: there is none |
| `SequentialProofs`: `WeightsFollow`, `SortIsClosedForm` | `[]Paired`, `[]SliceIsClosedForm` | `SliceInv`: the objects are the numbers of their appends, each there (`Complete`), beside its weight (`Beside`); where an item was before the sort is the object it is (`Numbered`); and at the end nothing is before what is less, nor equal items out of order (`Finished`). Nothing is assumed of how `sort.Stable` chooses the exchanges, insertion or symmetric merge, only what it documents of the slice it leaves: that is the order `Heavier`, and a strict order is listed in one way only. |
| `SequentialProofs`: `SetClosedForm` | `[]AsSliceIsClosedForm` | after every history the map is `AsSlice` of the items whose hash was not deleted since they were added. One operation more is one item more, or a hash less: `AsSliceAppend` and `AsSliceAway` say what that does to the closed form. |
| `SequentialProofs`: `ForestImplementsPartition` | `ImplementPartition`, three refinements | `ForestInv`: the parents have no circle, which a depth that decreases towards the root shows (`Rooted`). `Find` then is the root for every element (by a least depth at which it would not be, `LeastDepth`), so to link one root to another is to merge two classes, and anything else is a stutter. The count is one less exactly then. |
| `SequentialProofs`: `KeysAreUnique`, `PagesAreResolved` | `[]OneKeyPerMovie`, `[]PagesResolve` of `Registry` | for every set of imported providers, where the run has each by itself and the sets that share a host. `RegistryInv`: the maps have exactly the enabled providers that the loops have reached (`Registered`), and the table the rows of movies under their keys (`Answers`). From the table of providers: only the three of ThePornDB share a host (`OwnHost`) and none of their paths begins with another's (`OwnPath`), so the order of a host's list does not matter. Whatever spelling a user writes normalises to the site's own id, or to one of three kinds that a page is served for all the same: AVBase's without the maker, a short one, a number of ThePornDB (`SpellingsNormalize`, `OwnPages`). The record found there is stored under the movie's key (`ServedKey`; with AVBase one of two), which normalises to itself (`KeysNormal`), so whatever row a query finds for a spelling is the movie's. |

`UpsertUnique`, `UpsertMembers`, `FirstMembers` and `FirstUnique` (a query
without regard to case finds one row at most) are what the lookups use of
`MetadataTable`.

`ListProofs` has the lemmas about the lists of `ResultLists`. A closed form puts
an element at the place that the number of those before it gives, so there is
nothing to recurse on: `OrderedLists` says that these places list the set,
without gaps and in order, and `OrderedUnique` that nothing else does. From the
two follow what picking, deduplicating and sorting keep, also when an item is
appended or a hash is taken away, without an induction over lists.

The assumptions are the `ASSUME`s of the modules: weights, priorities and
similarities are naturals; sets are sets of naturals or finite; `None`, `NoId`
and `Failed` are outside of what they are told apart from; providers offer
results, and those of whom an actor search asks are their own; a page that is
returned is valid (`PagesAssumption`, movie.go:213) and the rows of a query are
valid and have one row per primary key (`RowsAssumption`, movie.go:38). TLC
evaluates them in the runs.

Only model-checked:

* Liveness (`SearchReturns`, `CallsReturn`, `AcquireReturns`, `RequestEnds`,
  `RequestAnswered`, and with it `KeepsContract`): reasoning about fairness
  needs `ENABLED`, which the prover does not treat.
* The properties of `Scraping`, whose interpreter of steps is recursive.

No module that is proved about uses a `RECURSIVE` operator.

## 5. What is not modelled

* *Texts.* Parsers of pages, names, keywords, numbers and URLs are replaced by
  the values they may return. In `Scraping` a value is the element and the key
  it was read from, so that the model tells sources apart and blank from not
  blank. In `ProviderIds` an id is its shape: site name, case and form. Two
  consequences are in view there: heydouga accepts ids with letters but parses
  none out of its own URLs, so that these are answered with nothing, and FANZA's
  second host is found under no URL.
* *Images, translation, configuration, text helpers, worker pools, fetching,*
  `engine/dbengine`. Each is a function of its arguments. They appear as the
  values they may return, and their failures as failing steps.
* *Transactions and migrations.* SQL errors appear as failing queries and
  ignored failing writes; the engine uses neither outside of start-up.
* *`provider.Register`.* It runs from the `init` functions of packages, one
  after the other, before `main`; `installed` is its result.
* *`SearchMovie` for one provider* and its own fallback: it is `searchMovie`,
  which `MovieSearch` models, without the fan-out. It runs on the goroutine of
  the request.
* *The file tree of Gfriends and the build id of AVBASE.* Callers of `Single`
  that did not run an update take an empty tree for an answer, and a reader may
  iterate over the tree while the next update decodes into it. Nothing in the
  code or its documents promises otherwise, so there is no property to check;
  both are listed as hazards.
* *Panics of goroutines within one lookup* (HeyDouga's score and genres, JavBus's
  thumb, FANZA's comparison of images, the detection of faces): what they run in
  this repository indexes nothing unchecked, so `Crash` of `Routes` is left to
  the searches. The libraries below them are taken not to panic.
* *Merging in the resolver*, its overrides and its sources: functions of what
  the sources return.
* *The plugins* apart from the lock: mapping of metadata and scheduling inside
  Jellyfin. Emby's server, which calls the lock, appears as the task that
  disposes of it. The refresh tracker is left out.
* *The memory model of Go*, except where the code reads shared fields without a
  lock: these reads are actions of their own.

## 6. Plan

1. The generic groups of `common/cluster`, on top of `Partition`.
2. The refresh tracker of the plugin.
3. The resolver's merging of records, as a closed form.
