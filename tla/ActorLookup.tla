---------------------------- MODULE ActorLookup ----------------------------
(***************************************************************************)
(* Actor metadata lookups (engine/actor.go).  getActorInfoWithCallback       *)
(* follows the movie lookup with two differences: the Gfriends provider is    *)
(* answered without the database, and the images Gfriends has of an actor     *)
(* are put in front of the record's own images between the deferred save     *)
(* and the deferred validation.                                              *)
(***************************************************************************)
EXTENDS MetadataTable

CONSTANTS
    Requests,     \* goroutines that serve lookups
    Gfriends,     \* the provider of images, which may be disabled
    Japanese,     \* providers whose Language() is Japanese
    Normalize,    \* Normalize[p][i]: NormalizeActorID, NoId when it rejects i
    Answers,      \* Answers[p][i]: ids the page of i may carry (aliases)
    Nilable,      \* providers that may answer nil with a nil error
    Durable,      \* FALSE for the default in-memory database
    NoId,         \* the empty id
    None,         \* a nil *model.ActorInfo, and the call of an idle request
    MaxRev        \* bound: revisions of a provider's site in a behaviour

\* A model.ActorInfo: its key, the revision it was scraped from, whether the
\* fields IsValid asks for are there, and how many times the Gfriends images
\* stand in front of its own.
Record == [provider : Providers, id : Ids, rev : Nat, complete : BOOLEAN,
           injected : Nat]

\* The arguments of getActorInfoWithCallback.
Calls == [provider : Providers, id : Ids, lazy : BOOLEAN]

ASSUME NormalizeAssumption == Normalize \in [Providers -> [Ids -> Ids \union {NoId}]]
ASSUME AnswersAssumption == Answers \in [Providers -> [Ids -> SUBSET Ids]]
ASSUME JapaneseAssumption == Japanese \subseteq Providers
ASSUME NilableAssumption == Nilable \subseteq Providers
ASSUME DurableAssumption == Durable \in BOOLEAN
ASSUME NoIdAssumption == NoId \notin Ids
ASSUME NoneAssumption == None \notin Record \union Calls
ASSUME MaxRevAssumption == MaxRev \in Nat

VARIABLES
    enabled,   \* Gfriends has a positive priority: initActorProviders keeps it
    rows,      \* the actor_metadata table
    revision,  \* current revision of every provider's site
    pc,        \* where every request is
    asked,     \* the provider, the id and the lazy flag it was called with
    since,     \* the revision of the site when it was called
    info, err  \* its named results

vars == <<enabled, rows, revision, pc, asked, since, info, err>>
request == <<asked, since>>

Labels == {"idle", "query", "fetch", "save", "inject", "validate", "done", "panicked"}
Running == {"query", "fetch", "save", "inject", "validate"}
Errors == {"nil", "invalid", "upstream", "incomplete"}

TypeOK ==
    /\ enabled \in BOOLEAN
    /\ rows \subseteq Record
    /\ revision \in [Providers -> Nat]
    /\ pc \in [Requests -> Labels]
    /\ asked \in [Requests -> Calls \union {None}]
    /\ since \in [Requests -> Nat]
    /\ info \in [Requests -> Record \union {None}]
    /\ err \in [Requests -> Errors]
    /\ \A r \in Requests : pc[r] \in Running => asked[r] \in Calls

Init ==
    /\ enabled \in BOOLEAN
    /\ rows = {}
    /\ revision = [p \in Providers |-> 0]
    /\ pc = [r \in Requests |-> "idle"]
    /\ asked = [r \in Requests |-> None]
    /\ since = [r \in Requests |-> 0]
    /\ info = [r \in Requests |-> None]
    /\ err = [r \in Requests |-> "nil"]

\* The provider's site publishes a new revision of its pages.
Publish(p) ==
    /\ revision[p] < MaxRev
    /\ revision' = [revision EXCEPT ![p] = @ + 1]
    /\ UNCHANGED <<enabled, rows, pc, request, info, err>>

\* Enter getActorInfoWithCallback: Gfriends never sees the database.
Enter(r, p, id, lazy) ==
    /\ asked' = [asked EXCEPT ![r] = [provider |-> p, id |-> id, lazy |-> lazy]]
    /\ since' = [since EXCEPT ![r] = revision[p]]
    /\ pc' = [pc EXCEPT ![r] = IF lazy /\ p # Gfriends THEN "query" ELSE "fetch"]
    /\ info' = [info EXCEPT ![r] = None]
    /\ err' = [err EXCEPT ![r] = "nil"]
    /\ UNCHANGED <<enabled, rows, revision>>

\* Return an error before any lookup.
Reject(r, e) ==
    /\ pc' = [pc EXCEPT ![r] = "done"]
    /\ info' = [info EXCEPT ![r] = None]
    /\ err' = [err EXCEPT ![r] = e]
    /\ UNCHANGED <<enabled, rows, revision, request>>

\* GetActorInfoByProviderID: the id is normalised by the provider.
CallByID(r, p, raw, lazy) ==
    /\ pc[r] = "idle"
    /\ IF Normalize[p][raw] = NoId
          THEN Reject(r, "invalid")
          ELSE Enter(r, p, Normalize[p][raw], lazy)

\* GetActorInfoByURL: the id parsed out of the URL is not normalised.
CallByURL(r, p, parsed, lazy) ==
    /\ pc[r] = "idle"
    /\ IF parsed = NoId
          THEN Reject(r, "invalid")
          ELSE Enter(r, p, parsed, lazy)

(***************************************************************************)
(* The lazy lookup.  Its return runs the injection and the validation, not  *)
(* the save, whose defer statement is not reached.                           *)
(***************************************************************************)
Row(r) == First(rows, asked[r].provider, asked[r].id)

\* Mutated form: the save is deferred before the lookup, and runs after a hit.
QueryHitSaves(r) ==
    /\ pc[r] = "query"
    /\ \E row \in Row(r) :
          /\ row.complete
          /\ info' = [info EXCEPT ![r] = row]
    /\ pc' = [pc EXCEPT ![r] = "save"]
    /\ UNCHANGED <<enabled, rows, revision, request, err>>

QueryHit(r) ==
    /\ pc[r] = "query"
    /\ \E row \in Row(r) :
          /\ row.complete
          /\ info' = [info EXCEPT ![r] = row]
    /\ pc' = [pc EXCEPT ![r] = "inject"]
    /\ UNCHANGED <<enabled, rows, revision, request, err>>

QueryMiss(r) ==
    /\ pc[r] = "query"
    /\ \A row \in Row(r) : ~ row.complete
    /\ pc' = [pc EXCEPT ![r] = "fetch"]
    /\ UNCHANGED <<enabled, rows, revision, request, info, err>>

QueryFails(r) ==
    /\ pc[r] = "query"
    /\ pc' = [pc EXCEPT ![r] = "fetch"]
    /\ UNCHANGED <<enabled, rows, revision, request, info, err>>

\* Mutated form: the return for Gfriends comes after the defer of the save.
AnswerSaves(r, i, e) ==
    /\ info' = [info EXCEPT ![r] = i]
    /\ err' = [err EXCEPT ![r] = e]
    /\ pc' = [pc EXCEPT ![r] = "save"]
    /\ UNCHANGED <<enabled, rows, revision, request>>

\* Mutated form: it comes after the defer of the injection.
AnswerInjects(r, i, e) ==
    /\ info' = [info EXCEPT ![r] = i]
    /\ err' = [err EXCEPT ![r] = e]
    /\ pc' = [pc EXCEPT ![r] = IF asked[r].provider = Gfriends
                                  THEN "inject" ELSE "save"]
    /\ UNCHANGED <<enabled, rows, revision, request>>

(***************************************************************************)
(* The callback, or GetActorInfoByID of Gfriends, after which the deferred   *)
(* validation is the only function to run.                                   *)
(***************************************************************************)
Answer(r, i, e) ==
    /\ info' = [info EXCEPT ![r] = i]
    /\ err' = [err EXCEPT ![r] = e]
    /\ pc' = [pc EXCEPT ![r] = IF asked[r].provider = Gfriends
                                  THEN "validate" ELSE "save"]
    /\ UNCHANGED <<enabled, rows, revision, request>>

Page(p, id, complete) ==
    [provider |-> p, id |-> id, rev |-> revision[p], complete |-> complete,
     injected |-> 0]

FetchOK(r) ==
    /\ pc[r] = "fetch"
    /\ \E id \in Answers[asked[r].provider][asked[r].id], complete \in BOOLEAN :
          Answer(r, Page(asked[r].provider, id, complete), "nil")

FetchFails(r) ==
    /\ pc[r] = "fetch"
    /\ Answer(r, None, "upstream")

FetchNil(r) ==
    /\ pc[r] = "fetch"
    /\ asked[r].provider \in Nilable
    /\ Answer(r, None, "nil")

(***************************************************************************)
(* The deferred save of the original record.  The deferred functions that    *)
(* remain run while a panic unwinds; they find a nil record and change no    *)
(* shared state.                                                             *)
(***************************************************************************)
Saves(r) == err[r] = "nil" /\ info[r] # None /\ info[r].complete

Save(r) ==
    /\ pc[r] = "save"
    /\ err[r] = "nil" => info[r] # None
    /\ \/ Saves(r) /\ rows' = Upsert(rows, info[r])
       \/ rows' = rows  \* nothing to save, or the ignored error of Create
    /\ pc' = [pc EXCEPT ![r] = "inject"]
    /\ UNCHANGED <<enabled, revision, request, info, err>>

SavePanics(r) ==
    /\ pc[r] = "save"
    /\ err[r] = "nil" /\ info[r] = None
    /\ pc' = [pc EXCEPT ![r] = "panicked"]
    /\ err' = [err EXCEPT ![r] = "incomplete"]
    /\ UNCHANGED <<enabled, rows, revision, request, info>>

(***************************************************************************)
(* The deferred injection.  MustGetActorProviderByName panics when Gfriends  *)
(* is disabled, after the record was saved; a Gfriends lookup that fails or  *)
(* finds nothing is ignored.                                                 *)
(***************************************************************************)
Injects(r) ==
    /\ err[r] = "nil" /\ info[r] # None
    /\ asked[r].provider \in Japanese

Inject(r) ==
    /\ pc[r] = "inject"
    /\ Injects(r) => enabled
    /\ \/ Injects(r) /\ info' = [info EXCEPT ![r].injected = @ + 1]
       \/ info' = info  \* nothing to inject
    /\ pc' = [pc EXCEPT ![r] = "validate"]
    /\ UNCHANGED <<enabled, rows, revision, request, err>>

InjectPanics(r) ==
    /\ pc[r] = "inject"
    /\ Injects(r) /\ ~ enabled
    /\ pc' = [pc EXCEPT ![r] = "panicked"]
    /\ UNCHANGED <<enabled, rows, revision, request, info, err>>

\* The deferred validation, the last one to run.
Incomplete(r) == err[r] = "nil" /\ (info[r] = None \/ ~ info[r].complete)

Validate(r) ==
    /\ pc[r] = "validate"
    /\ err' = [err EXCEPT ![r] = IF Incomplete(r) THEN "incomplete" ELSE @]
    /\ pc' = [pc EXCEPT ![r] = "done"]
    /\ UNCHANGED <<enabled, rows, revision, request, info>>

\* The handler has written the response (or gin has recovered the panic).
Finish(r) ==
    /\ pc[r] \in {"done", "panicked"}
    /\ pc' = [pc EXCEPT ![r] = "idle"]
    /\ asked' = [asked EXCEPT ![r] = None]
    /\ since' = [since EXCEPT ![r] = 0]
    /\ info' = [info EXCEPT ![r] = None]
    /\ err' = [err EXCEPT ![r] = "nil"]
    /\ UNCHANGED <<enabled, rows, revision>>

\* The process dies and starts again, perhaps with another priority of Gfriends.
Restart ==
    /\ rows' = IF Durable THEN rows ELSE {}
    /\ pc' = [r \in Requests |-> "idle"]
    /\ asked' = [r \in Requests |-> None]
    /\ since' = [r \in Requests |-> 0]
    /\ info' = [r \in Requests |-> None]
    /\ err' = [r \in Requests |-> "nil"]
    /\ enabled' \in BOOLEAN
    /\ UNCHANGED revision

\* GetActorProviderByName and GetActorProviderByURL find what is enabled.
Call(r) ==
    \E p \in Providers, lazy \in BOOLEAN :
        /\ p = Gfriends => enabled
        /\ \/ \E raw \in Ids : CallByID(r, p, raw, lazy)
           \/ \E parsed \in Ids \union {NoId} : CallByURL(r, p, parsed, lazy)

Lookup(r) ==
    \/ QueryHit(r) \/ QueryMiss(r) \/ QueryFails(r)
    \/ FetchOK(r) \/ FetchFails(r) \/ FetchNil(r)
    \/ Save(r) \/ SavePanics(r)
    \/ Inject(r) \/ InjectPanics(r)
    \/ Validate(r)

Next ==
    \/ \E p \in Providers : Publish(p)
    \/ \E r \in Requests : Call(r) \/ Lookup(r) \/ Finish(r)
    \/ Restart

Spec == Init /\ [][Next]_vars

-----------------------------------------------------------------------------
\* "Make sure we save the original info here" (engine/actor.go:180): no row
\* ever holds images of Gfriends, nor an actor of Gfriends, nor an incomplete
\* record, so every lazy hit starts from what the provider published.
RowsOriginal ==
    /\ KeysUnique(rows)
    /\ \A row \in rows :
          /\ row.complete
          /\ row.injected = 0
          /\ row.provider # Gfriends

\* However often an actor is looked up, from the database or not, the reply
\* carries the Gfriends images at most once, and only for a Japanese provider;
\* without Gfriends a Japanese provider's actors are stored and never answered,
\* since the injection panics (engine/actor.go:166).
InjectedOnce ==
    \A r \in Requests : pc[r] = "done" /\ err[r] = "nil" =>
        /\ info[r] # None
        /\ info[r].complete
        /\ info[r].injected <= (IF info[r].provider \in Japanese \ {Gfriends}
                                   THEN 1 ELSE 0)
        /\ info[r].provider \in Japanese => enabled

\* What the table and the requests are to module MetadataStore.  A reply is
\* settled when the record has been stored, and lost when the injection is
\* about to panic.
Version(record) ==
    [provider |-> record.provider, id |-> record.id, rev |-> record.rev]

Replies(r) ==
    /\ err[r] = "nil" /\ info[r] # None /\ info[r].complete
    /\ pc[r] # "panicked"
    /\ pc[r] = "inject" /\ Injects(r) => enabled

LookupOf(r) ==
    CASE pc[r] = "idle" -> [at |-> "idle"]
      [] pc[r] \in {"query", "fetch", "save"} ->
            [at |-> "pending", provider |-> asked[r].provider, id |-> asked[r].id,
             lazy |-> asked[r].lazy, since |-> since[r]]
      [] OTHER ->
            IF Replies(r) THEN [at |-> "answered", version |-> Version(info[r])]
                          ELSE [at |-> "failed"]

Versions == {Version(row) : row \in rows}
Lookups == [r \in Requests |-> LookupOf(r)]

Store == INSTANCE MetadataStore
    WITH Stored <- Providers \ {Gfriends},
         table <- Versions, latest <- revision, lookup <- Lookups

\* Each lookup of an actor takes effect at one instant, like that of a movie,
\* whatever its record goes through before and after: a hit is not written
\* back, and of the actors of Gfriends none is stored.
ImplementsStore == Store!Spec
============================================================================
