---------------------------- MODULE MovieLookup ----------------------------
(***************************************************************************)
(* Movie metadata lookups (engine/movie.go).  Every request runs            *)
(* getMovieInfoWithCallback in a goroutine of its own: look the record up in *)
(* the database when the request is lazy, else call the provider, then run   *)
(* the deferred functions in reverse order: save the record, validate it.    *)
(* Requests share the table and nothing else, so every access to the table   *)
(* or to the provider is an action of its own.                               *)
(***************************************************************************)
EXTENDS MetadataTable

CONSTANTS
    Requests,     \* goroutines that serve lookups
    Normalize,    \* Normalize[p][i]: NormalizeMovieID, NoId when it rejects i
    Answers,      \* Answers[p][i]: ids the page of i may carry (aliases)
    Nilable,      \* providers that may answer nil with a nil error
    Durable,      \* FALSE for the default in-memory database
    NoId,         \* the empty id
    None,         \* a nil *model.MovieInfo, and the call of an idle request
    MaxRev        \* bound: revisions of a provider's site in a behaviour

\* A model.MovieInfo: its key, the revision of the provider's site it was
\* scraped from, and whether all the fields IsValid asks for are there.
Record == [provider : Providers, id : Ids, rev : Nat, complete : BOOLEAN]

\* The arguments of getMovieInfoWithCallback.
Calls == [provider : Providers, id : Ids, lazy : BOOLEAN]

ASSUME NormalizeAssumption == Normalize \in [Providers -> [Ids -> Ids \union {NoId}]]
ASSUME AnswersAssumption == Answers \in [Providers -> [Ids -> SUBSET Ids]]
ASSUME NilableAssumption == Nilable \subseteq Providers
ASSUME DurableAssumption == Durable \in BOOLEAN
ASSUME NoIdAssumption == NoId \notin Ids
ASSUME NoneAssumption == None \notin Record \union Calls
ASSUME MaxRevAssumption == MaxRev \in Nat

VARIABLES
    rows,      \* the movie_metadata table
    revision,  \* current revision of every provider's site
    pc,        \* where every request is
    asked,     \* the provider, the id and the lazy flag it was called with
    since,     \* the revision of the site when it was called
    info, err  \* its named results

vars == <<rows, revision, pc, asked, since, info, err>>
request == <<asked, since>>

Labels == {"idle", "query", "fetch", "save", "validate", "done", "panicked"}
Running == {"query", "fetch", "save", "validate"}
Errors == {"nil", "invalid", "upstream", "incomplete"}

TypeOK ==
    /\ rows \subseteq Record
    /\ revision \in [Providers -> Nat]
    /\ pc \in [Requests -> Labels]
    /\ asked \in [Requests -> Calls \union {None}]
    /\ since \in [Requests -> Nat]
    /\ info \in [Requests -> Record \union {None}]
    /\ err \in [Requests -> Errors]
    /\ \A r \in Requests : pc[r] \in Running => asked[r] \in Calls

Init ==
    /\ rows = {}
    /\ revision = [p \in Providers |-> 0]
    /\ pc = [r \in Requests |-> "idle"]
    /\ asked = [r \in Requests |-> None]
    /\ since = [r \in Requests |-> 0]
    /\ info = [r \in Requests |-> None]
    /\ err = [r \in Requests |-> "nil"]

(***************************************************************************)
(* The provider's site publishes a new revision of its pages.               *)
(***************************************************************************)
Publish(p) ==
    /\ revision[p] < MaxRev
    /\ revision' = [revision EXCEPT ![p] = @ + 1]
    /\ UNCHANGED <<rows, pc, request, info, err>>

\* Enter getMovieInfoWithCallback with the key its caller computed.
Enter(r, p, id, lazy) ==
    /\ asked' = [asked EXCEPT ![r] = [provider |-> p, id |-> id, lazy |-> lazy]]
    /\ since' = [since EXCEPT ![r] = revision[p]]
    /\ pc' = [pc EXCEPT ![r] = IF lazy THEN "query" ELSE "fetch"]
    /\ info' = [info EXCEPT ![r] = None]
    /\ err' = [err EXCEPT ![r] = "nil"]
    /\ UNCHANGED <<rows, revision>>

\* Return an error before any lookup.
Reject(r, e) ==
    /\ pc' = [pc EXCEPT ![r] = "done"]
    /\ info' = [info EXCEPT ![r] = None]
    /\ err' = [err EXCEPT ![r] = e]
    /\ UNCHANGED <<rows, revision, request>>

(***************************************************************************)
(* GetMovieInfoByProviderID: the id is normalised by the provider.          *)
(***************************************************************************)
CallByID(r, p, raw, lazy) ==
    /\ pc[r] = "idle"
    /\ IF Normalize[p][raw] = NoId
          THEN Reject(r, "invalid")
          ELSE Enter(r, p, Normalize[p][raw], lazy)

(***************************************************************************)
(* GetMovieInfoByURL: the id is what the provider parses out of the URL and *)
(* is not normalised; parsing fails or finds no id.                          *)
(***************************************************************************)
CallByURL(r, p, parsed, lazy) ==
    /\ pc[r] = "idle"
    /\ IF parsed = NoId
          THEN Reject(r, "invalid")
          ELSE Enter(r, p, parsed, lazy)

(***************************************************************************)
(* The lazy lookup.  A valid row is the answer; a missing row, an invalid    *)
(* row and a failing query all lead to the provider.                         *)
(***************************************************************************)
Row(r) == First(rows, asked[r].provider, asked[r].id)

\* Mutated form: the save is deferred before the lookup, and runs after a hit.
QueryHitSaves(r) ==
    /\ pc[r] = "query"
    /\ \E row \in Row(r) :
          /\ row.complete
          /\ info' = [info EXCEPT ![r] = row]
    /\ pc' = [pc EXCEPT ![r] = "save"]
    /\ UNCHANGED <<rows, revision, request, err>>

QueryHit(r) ==
    /\ pc[r] = "query"
    /\ \E row \in Row(r) :
          /\ row.complete
          /\ info' = [info EXCEPT ![r] = row]
    /\ pc' = [pc EXCEPT ![r] = "validate"]
    /\ UNCHANGED <<rows, revision, request, err>>

QueryMiss(r) ==
    /\ pc[r] = "query"
    /\ \A row \in Row(r) : ~ row.complete
    /\ pc' = [pc EXCEPT ![r] = "fetch"]
    /\ UNCHANGED <<rows, revision, request, info, err>>

QueryFails(r) ==
    /\ pc[r] = "query"
    /\ pc' = [pc EXCEPT ![r] = "fetch"]
    /\ UNCHANGED <<rows, revision, request, info, err>>

(***************************************************************************)
(* The callback: a scrape of the provider's page at its current revision.    *)
(***************************************************************************)
Answer(r, i, e) ==
    /\ info' = [info EXCEPT ![r] = i]
    /\ err' = [err EXCEPT ![r] = e]
    /\ pc' = [pc EXCEPT ![r] = "save"]
    /\ UNCHANGED <<rows, revision, request>>

Page(p, id, complete) ==
    [provider |-> p, id |-> id, rev |-> revision[p], complete |-> complete]

FetchOK(r) ==
    /\ pc[r] = "fetch"
    /\ \E id \in Answers[asked[r].provider][asked[r].id], complete \in BOOLEAN :
          Answer(r, Page(asked[r].provider, id, complete), "nil")

FetchFails(r) ==
    /\ pc[r] = "fetch"
    /\ Answer(r, None, "upstream")

FetchNil(r) ==
    /\ pc[r] = "fetch"
    /\ asked[r].provider \in Nilable
    /\ Answer(r, None, "nil")

\* Mutated form: the record is not validated before it is saved.
SavesAnything(r) == err[r] = "nil" /\ info[r] # None

(***************************************************************************)
(* The deferred save.  Its info.IsValid() dereferences the record without a  *)
(* test for nil; the result of Create is ignored.                            *)
(***************************************************************************)
Saves(r) == err[r] = "nil" /\ info[r] # None /\ info[r].complete

Save(r) ==
    /\ pc[r] = "save"
    /\ err[r] = "nil" => info[r] # None
    /\ \/ Saves(r) /\ rows' = Upsert(rows, info[r])
       \/ rows' = rows  \* nothing to save, or the ignored error of Create
    /\ pc' = [pc EXCEPT ![r] = "validate"]
    /\ UNCHANGED <<revision, request, info, err>>

SavePanics(r) ==
    /\ pc[r] = "save"
    /\ err[r] = "nil" /\ info[r] = None
    /\ pc' = [pc EXCEPT ![r] = "panicked"]
    /\ err' = [err EXCEPT ![r] = "incomplete"]
    /\ UNCHANGED <<rows, revision, request, info>>

\* Mutated form: only a nil record is incomplete.
IncompleteNil(r) == err[r] = "nil" /\ info[r] = None

\* The deferred validation, the last one to run.
Incomplete(r) == err[r] = "nil" /\ (info[r] = None \/ ~ info[r].complete)

Validate(r) ==
    /\ pc[r] = "validate"
    /\ err' = [err EXCEPT ![r] = IF Incomplete(r) THEN "incomplete" ELSE @]
    /\ pc' = [pc EXCEPT ![r] = "done"]
    /\ UNCHANGED <<rows, revision, request, info>>

\* The handler has written the response (or gin has recovered the panic).
Finish(r) ==
    /\ pc[r] \in {"done", "panicked"}
    /\ pc' = [pc EXCEPT ![r] = "idle"]
    /\ asked' = [asked EXCEPT ![r] = None]
    /\ since' = [since EXCEPT ![r] = 0]
    /\ info' = [info EXCEPT ![r] = None]
    /\ err' = [err EXCEPT ![r] = "nil"]
    /\ UNCHANGED <<rows, revision>>

\* The process dies and starts again: requests are gone, a durable database
\* keeps its rows.
Restart ==
    /\ rows' = IF Durable THEN rows ELSE {}
    /\ pc' = [r \in Requests |-> "idle"]
    /\ asked' = [r \in Requests |-> None]
    /\ since' = [r \in Requests |-> 0]
    /\ info' = [r \in Requests |-> None]
    /\ err' = [r \in Requests |-> "nil"]
    /\ UNCHANGED revision

Call(r) ==
    \E p \in Providers, lazy \in BOOLEAN :
        \/ \E raw \in Ids : CallByID(r, p, raw, lazy)
        \/ \E parsed \in Ids \union {NoId} : CallByURL(r, p, parsed, lazy)

Lookup(r) ==
    \/ QueryHit(r) \/ QueryMiss(r) \/ QueryFails(r)
    \/ FetchOK(r) \/ FetchFails(r) \/ FetchNil(r)
    \/ Save(r) \/ SavePanics(r) \/ Validate(r)

Next ==
    \/ \E p \in Providers : Publish(p)
    \/ \E r \in Requests : Call(r) \/ Lookup(r) \/ Finish(r)
    \/ Restart

Spec == Init /\ [][Next]_vars

-----------------------------------------------------------------------------
(***************************************************************************)
(* Properties                                                               *)
(***************************************************************************)

\* Whatever requests interleave, the table never holds an incomplete record,
\* two records of one key, or a record its provider never published: the save
\* deferred in getMovieInfoWithCallback is the only writer.
RowsGenuine ==
    /\ KeysUnique(rows)
    /\ \A row \in rows : row.complete /\ row.rev <= revision[row.provider]

\* A lookup that returns without an error returns a complete record of the
\* provider it was asked for; one that is not lazy never returns a record
\* older than its own call, whatever other requests save meanwhile.
ReplySound ==
    \A r \in Requests : pc[r] = "done" /\ err[r] = "nil" =>
        /\ info[r] # None /\ asked[r] # None
        /\ info[r].complete
        /\ info[r].provider = asked[r].provider
        /\ info[r].rev <= revision[info[r].provider]
        /\ ~ asked[r].lazy => info[r].rev >= since[r]

\* What the table and the requests are to module MetadataStore: a lookup is
\* pending until the row it read, or the deferred save, has settled its reply.
Version(record) ==
    [provider |-> record.provider, id |-> record.id, rev |-> record.rev]

Replies(r) == err[r] = "nil" /\ info[r] # None /\ info[r].complete

LookupOf(r) ==
    CASE pc[r] = "idle" -> [at |-> "idle"]
      [] pc[r] \in {"query", "fetch", "save"} ->
            [at |-> "pending", provider |-> asked[r].provider, id |-> asked[r].id,
             lazy |-> asked[r].lazy, since |-> since[r]]
      [] OTHER ->
            IF Replies(r) THEN [at |-> "answered", version |-> Version(info[r])]
                          ELSE [at |-> "failed"]

Versions == {Version(row) : row \in rows}
Lookups == [r \in Requests |-> LookupOf(r)]

Store == INSTANCE MetadataStore
    WITH Stored <- Providers, table <- Versions, latest <- revision, lookup <- Lookups

\* However lookups interleave, fail and restart, each takes effect at one
\* instant: a lazy hit never writes its row back, so that a row changes only to
\* a version its site has had since the lookup that stores it was called, and
\* what a lookup returns is that version or the row it found.
ImplementsStore == Store!Spec

\* The validation check (engine/movie.go:212-215) turns a nil record without an
\* error into ErrIncompleteMetadata: no request ends in a panic.
NilIsIncomplete == \A r \in Requests : pc[r] # "panicked"
============================================================================
