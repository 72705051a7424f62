---------------------------- MODULE ReviewLookup ----------------------------
(***************************************************************************)
(* Lookups of movie reviews (engine/review.go).  The same read-through as    *)
(* for movies, of a table of its own, with one difference that matters: a    *)
(* provider's reviews carry no key, so the key of the row is the one the      *)
(* caller asked with.  The lookup runs in the goroutine of an HTTP request;  *)
(* module Routes calls it and sends what it returns.                         *)
(***************************************************************************)
EXTENDS MetadataTable

CONSTANTS
    Requests,     \* goroutines that serve HTTP requests
    Reviewers,    \* providers that implement MovieReviewer
    Normalize,    \* Normalize[p][i]: NormalizeMovieID, NoId when it rejects i
    NoId,         \* the empty id
    None,         \* no *model.MovieReviewInfo, and the key of no lookup
    Durable,      \* FALSE for the default in-memory database
    MaxRev        \* bound: revisions of a provider's reviews in a behaviour

ASSUME ReviewersAssumption == Reviewers \subseteq Providers
ASSUME NormalizeAssumption == Normalize \in [Providers -> [Ids -> Ids \union {NoId}]]
ASSUME NoIdAssumption == NoId \notin Ids
ASSUME DurableAssumption == Durable \in BOOLEAN
ASSUME MaxRevAssumption == MaxRev \in Nat

\* A row of the table, and the arguments of a lookup.
Reviews == [provider : Providers, id : Ids, rev : Nat, valid : BOOLEAN]
Calls == [provider : Reviewers, id : Ids, lazy : BOOLEAN]

ASSUME NoneAssumption == None \notin Reviews \union Calls

VARIABLES
    rows,      \* the movie_reviews table
    revision,  \* current revision of the reviews on every provider's site
    pc,        \* where every request is
    asked,     \* the provider, the id and the lazy flag of its lookup
    since,     \* the revision of the site when the lookup began
    info, err  \* the named results of the lookup

lookup == <<rows, revision, asked, since, info, err>>

LookupInit ==
    /\ rows = {}
    /\ revision = [p \in Providers |-> 0]
    /\ asked = [r \in Requests |-> None]
    /\ since = [r \in Requests |-> 0]
    /\ info = [r \in Requests |-> None]
    /\ err = [r \in Requests |-> "nil"]

\* Somebody writes a review.
Publish(p) ==
    /\ revision[p] < MaxRev
    /\ revision' = [revision EXCEPT ![p] = @ + 1]
    /\ UNCHANGED <<rows, pc, asked, since, info, err>>

\* Return an error before any lookup.
Reject(r, e) ==
    /\ pc' = [pc EXCEPT ![r] = "done"]
    /\ err' = [err EXCEPT ![r] = e]
    /\ UNCHANGED <<rows, revision, asked, since, info>>

\* Enter getMovieReviewsWithCallback, if the provider has reviews at all.
Enter(r, p, id, lazy) ==
    IF p \notin Reviewers
       THEN Reject(r, "unsupported")
       ELSE /\ asked' = [asked EXCEPT ![r] = [provider |-> p, id |-> id, lazy |-> lazy]]
            /\ since' = [since EXCEPT ![r] = revision[p]]
            /\ pc' = [pc EXCEPT ![r] = IF lazy THEN "query" ELSE "fetch"]
            /\ UNCHANGED <<rows, revision, info, err>>

\* GetMovieReviewsByProviderID, of a provider that exists.
ReviewsByID(r, p, raw, lazy) ==
    IF Normalize[p][raw] = NoId
       THEN Reject(r, "invalid id")
       ELSE Enter(r, p, Normalize[p][raw], lazy)

\* GetMovieReviewsByProviderURL, of a URL on the site of p: what the provider
\* parses out of it is not normalised.  Parsing fails or finds no id.
ReviewsByURL(r, p, parsed, lazy) ==
    IF parsed = NoId
       THEN Reject(r, "invalid url")
       ELSE Enter(r, p, parsed, lazy)

Row(r) == First(rows, asked[r].provider, asked[r].id)

\* Mutated form: the save is deferred before the lookup, and runs after a hit.
QueryHitSaves(r) ==
    /\ pc[r] = "query"
    /\ \E row \in Row(r) :
          /\ row.valid
          /\ info' = [info EXCEPT ![r] = row]
    /\ pc' = [pc EXCEPT ![r] = "save"]
    /\ UNCHANGED <<rows, revision, asked, since, err>>

QueryHit(r) ==
    /\ pc[r] = "query"
    /\ \E row \in Row(r) :
          /\ row.valid
          /\ info' = [info EXCEPT ![r] = row]
    /\ pc' = [pc EXCEPT ![r] = "done"]
    /\ UNCHANGED <<rows, revision, asked, since, err>>

\* There is no valid row, or the query fails, which is ignored.
QueryMiss(r) ==
    /\ pc[r] = "query"
    /\ pc' = [pc EXCEPT ![r] = "fetch"]
    /\ UNCHANGED lookup

\* The row for the reviews as they are on the site now, none included.
Built(r, valid) ==
    [provider |-> asked[r].provider, id |-> asked[r].id, rev |-> revision[asked[r].provider], valid |-> valid]

\* The callback returns reviews.
FetchOK(r) ==
    /\ pc[r] = "fetch"
    /\ \E valid \in BOOLEAN : info' = [info EXCEPT ![r] = Built(r, valid)]
    /\ pc' = [pc EXCEPT ![r] = "save"]
    /\ UNCHANGED <<rows, revision, asked, since, err>>

\* The callback returns an error: nothing to save, nothing to validate.
FetchFails(r) ==
    /\ pc[r] = "fetch"
    /\ Reject(r, "upstream")

\* The deferred functions save nothing: info is nil, or a row that is no
\* longer valid, or err still is the error of the query.
FetchPanics(r) ==
    /\ pc[r] = "fetch"
    /\ pc' = [pc EXCEPT ![r] = "panic"]
    /\ UNCHANGED lookup

\* Mutated form: what has not been validated is saved.
SavesAnything(r) == TRUE

Saves(r) == info[r].valid

\* The deferred functions: the save, which may fail and is ignored then, and
\* the validation.
Save(r) ==
    /\ pc[r] = "save"
    /\ \/ Saves(r) /\ rows' = Upsert(rows, info[r])
       \/ rows' = rows
    /\ err' = [err EXCEPT ![r] = IF info[r].valid THEN @ ELSE "incomplete"]
    /\ pc' = [pc EXCEPT ![r] = "done"]
    /\ UNCHANGED <<revision, asked, since, info>>

Lookup(r) ==
    \/ QueryHit(r) \/ QueryMiss(r)
    \/ FetchOK(r) \/ FetchFails(r) \/ FetchPanics(r)
    \/ Save(r)

-----------------------------------------------------------------------------
\* The table: rows are valid, of reviews the site has had, one per key.
RowsGenuine ==
    /\ KeysUnique(rows)
    /\ \A row \in rows : row.valid /\ row.rev <= revision[row.provider]

\* What a lookup returns without an error is what it was asked for, in
\* whatever spelling it was stored, and no older than its call unless lazy.
ReturnsAsked ==
    \A r \in Requests : pc[r] = "done" /\ err[r] = "nil" /\ asked[r] # None =>
        /\ info[r].valid
        /\ info[r].provider = asked[r].provider
        /\ Fold[info[r].id] = Fold[asked[r].id]
        /\ info[r].rev <= revision[asked[r].provider]
        /\ ~ asked[r].lazy => info[r].rev >= since[r]

\* Reviews are stored under the key they were asked with.  Whatever spellings
\* and URLs are asked for at the same time, no row and no answer mixes the
\* reviews of one movie with the key of another.
ReviewsSound == RowsGenuine /\ ReturnsAsked

\* What the table and the requests are to module MetadataStore.  A page of
\* reviews is an answer for the id that was asked for and for no other.
Version(row) == [provider |-> row.provider, id |-> row.id, rev |-> row.rev]

Returns(r) == err[r] = "nil" /\ info[r] # None /\ info[r].valid

LookupOf(r) ==
    CASE asked[r] = None -> [at |-> "idle"]
      [] asked[r] # None /\ pc[r] \in {"query", "fetch", "save"} ->
            [at |-> "pending", provider |-> asked[r].provider, id |-> asked[r].id,
             lazy |-> asked[r].lazy, since |-> since[r]]
      [] OTHER ->
            IF Returns(r) THEN [at |-> "answered", version |-> Version(info[r])]
                          ELSE [at |-> "failed"]

Versions == {Version(row) : row \in rows}
Lookups == [r \in Requests |-> LookupOf(r)]

Store == INSTANCE MetadataStore
    WITH Stored <- Providers,
         Answers <- [p \in Providers |-> [id \in Ids |-> {id}]],
         table <- Versions, latest <- revision, lookup <- Lookups

\* The lookups of reviews keep the promise that those of movies keep: each takes
\* effect at one instant, and what is stored under a key was fetched for it.
ImplementsStore == Store!Spec
=============================================================================
