---------------------------- MODULE RoutesProofs ----------------------------
(***************************************************************************)
(* One sound reply to every request, sound answers of the review lookup and  *)
(* its refinement of MetadataStore, for any number of requests, any           *)
(* providers, ids and routes.                                                 *)
(***************************************************************************)
EXTENDS Routes, TLAPS

\* Before its handler calls the review lookup; in that lookup.
Early == {"idle", "redirect", "auth", "handler", "engine"}
Looking == {"query", "fetch", "save"}

Stages == Early \union Looking \union {"done", "panic", "replied"}

Errors == EngineErrors \union
    {"nil", "invalid url", "unparsed", "provider not found", "unsupported"}

Statuses == {200, 204, 307, 400, 401, 404, 500}

Types ==
    /\ rows \subseteq Reviews
    /\ revision \in [Providers -> Nat]
    /\ pc \in [Requests -> Stages]
    /\ asked \in [Requests -> Calls \union {None}]
    /\ since \in [Requests -> Nat]
    /\ info \in [Requests -> Reviews \union {None}]
    /\ err \in [Requests -> Errors]
    /\ http \in [Requests -> HTTPRequest \union {NoRequest}]
    /\ results \in [Requests -> 0..1]
    /\ written \in [Requests -> Seq(Statuses)]

\* The request has passed the authentication of its route.
LetThrough(r) == ~ http[r].redirect /\ (http[r].route \in Private => http[r].authorized)

\* How far a request has come, and what that says of it.
Stage(r) ==
    /\ pc[r] \in Early => asked[r] = None
    /\ pc[r] \in Early \union Looking => err[r] = "nil"
    /\ pc[r] = "auth" => ~ http[r].redirect
    /\ pc[r] \in Looking \union {"handler"} => LetThrough(r)
    /\ pc[r] = "engine" => http[r].redirect \/ (LetThrough(r) /\ http[r].route # "review")
    /\ pc[r] = "done" /\ err[r] = "nil" =>
          \/ http[r].redirect
          \/ LetThrough(r) /\ (http[r].route = "review" => info[r] # None)

\* What a lookup knows: reviews of what was asked for, of no revision the site
\* has not had, and of none before the call if they were fetched for it.
Found(r) ==
    /\ pc[r] \in Looking => asked[r] # None
    /\ pc[r] = "query" => asked[r].lazy
    /\ pc[r] \in {"query", "fetch"} => info[r] = None
    /\ pc[r] = "save" => info[r] # None /\ info[r].id = asked[r].id
    /\ asked[r] # None =>
          /\ http[r].route = "review" /\ ~ http[r].redirect
          /\ since[r] <= revision[asked[r].provider]
    /\ info[r] # None =>
          /\ asked[r] # None
          /\ info[r].provider = asked[r].provider
          /\ Fold[info[r].id] = Fold[asked[r].id]
          /\ info[r].rev <= revision[asked[r].provider]
          /\ pc[r] = "save" \/ ~ asked[r].lazy => info[r].rev >= since[r]
          /\ pc[r] = "done" /\ err[r] = "nil" => info[r].valid

\* A reply is one status, and 200 and 307 are deserved.
Replied(r) ==
    /\ pc[r] # "replied" => written[r] = <<>>
    /\ pc[r] = "replied" =>
          \E status \in Statuses :
              /\ written[r] = <<status>>
              /\ status = 200 =>
                    /\ err[r] = "nil" /\ LetThrough(r)
                    /\ http[r].route = "search" => results[r] > 0
                    /\ http[r].route = "review" => info[r] # None
              /\ status = 307 => err[r] = "nil" /\ http[r].redirect

RequestInv(r) == Stage(r) /\ Found(r) /\ Replied(r)

IInv == Types /\ RowsGenuine /\ \A r \in Requests : RequestInv(r)

-----------------------------------------------------------------------------
\* Nothing has been asked yet.
LEMMA IInvInit == Init => IInv
<1> SUFFICES ASSUME Init PROVE IInv
  OBVIOUS
<1>1. Types
  BY DEF Init, LookupInit, Types, Stages, Early, Errors
<1>2. RowsGenuine
  BY DEF Init, LookupInit, RowsGenuine, KeysUnique
<1>3. ASSUME NEW r \in Requests PROVE RequestInv(r)
  BY DEF Init, LookupInit, NoRequest, RequestInv, Stage, Found, Replied, Early, Looking
<1> QED BY <1>1, <1>2, <1>3 DEF IInv

\* A step that is nobody else's.
Alone(r) ==
    /\ revision' = revision
    /\ \A t \in Requests \ {r} :
          /\ pc'[t] = pc[t] /\ asked'[t] = asked[t] /\ since'[t] = since[t]
          /\ info'[t] = info[t] /\ err'[t] = err[t]
          /\ http'[t] = http[t] /\ results'[t] = results[t] /\ written'[t] = written[t]

\* Such a step has to be looked at for its own request only.
LEMMA AloneStep ==
    ASSUME IInv, NEW r \in Requests, Alone(r), Types', RowsGenuine', RequestInv(r)'
    PROVE  IInv'
<1> SUFFICES ASSUME NEW t \in Requests, t # r PROVE RequestInv(t)'
  BY DEF IInv
<1>1. RequestInv(t)
  BY DEF IInv
<1>2. /\ revision' = revision /\ pc'[t] = pc[t] /\ asked'[t] = asked[t]
      /\ since'[t] = since[t] /\ info'[t] = info[t] /\ err'[t] = err[t]
      /\ http'[t] = http[t] /\ results'[t] = results[t] /\ written'[t] = written[t]
  BY DEF Alone
<1>3. Stage(t)'
  BY <1>1, <1>2 DEF RequestInv, Stage, LetThrough
<1>4. Found(t)'
  BY <1>1, <1>2 DEF RequestInv, Found
<1>5. Replied(t)'
  BY <1>1, <1>2 DEF RequestInv, Replied, LetThrough
<1> QED BY <1>3, <1>4, <1>5 DEF RequestInv

-----------------------------------------------------------------------------
\* A status is written for a request that has none, if it is deserved.
LEMMA AbortStep ==
    ASSUME IInv, NEW r \in Requests, NEW status \in Statuses, Abort(r, status),
           pc[r] # "replied",
           status = 200 =>
               /\ err[r] = "nil" /\ LetThrough(r)
               /\ http[r].route = "search" => results[r] > 0
               /\ http[r].route = "review" => info[r] # None,
           status = 307 => err[r] = "nil" /\ http[r].redirect
    PROVE  IInv'
<1>1. /\ pc' = [pc EXCEPT ![r] = "replied"]
      /\ written' = [written EXCEPT ![r] = Append(@, status)]
      /\ UNCHANGED <<rows, revision, asked, since, info, err, http, results>>
  BY DEF Abort, lookup
<1>2. Types'
  BY <1>1 DEF IInv, Types, Stages
<1>3. RowsGenuine'
  BY <1>1 DEF IInv, RowsGenuine
<1>4. Alone(r)
  BY <1>1 DEF IInv, Types, Alone
<1>5. pc'[r] = "replied" /\ written'[r] = <<status>>
  <2>1. written[r] = <<>>
    BY DEF IInv, RequestInv, Replied
  <2>2. pc'[r] = "replied" /\ written'[r] = Append(<<>>, status)
    BY <1>1, <2>1 DEF IInv, Types
  <2> QED BY <2>2
<1>6. Stage(r)'
  BY <1>5 DEF Stage, Early, Looking
<1>7. Found(r)'
  BY <1>1, <1>5 DEF IInv, RequestInv, Found, Looking
<1>8. Replied(r)'
  BY <1>1, <1>5 DEF Replied, LetThrough
<1> QED BY <1>2, <1>3, <1>4, <1>6, <1>7, <1>8, AloneStep DEF RequestInv

\* A request goes on to a stage it is ready for.
LEMMA GoToStep ==
    ASSUME IInv, NEW r \in Requests, NEW stage \in {"engine", "auth", "handler", "panic"},
           GoTo(r, stage), pc[r] # "replied",
           stage # "panic" => pc[r] \in Early,
           stage = "auth" => ~ http[r].redirect,
           stage = "handler" => LetThrough(r),
           stage = "engine" => http[r].redirect \/ (LetThrough(r) /\ http[r].route # "review")
    PROVE  IInv'
<1>1. /\ pc' = [pc EXCEPT ![r] = stage]
      /\ UNCHANGED <<rows, revision, asked, since, info, err, http, results, written>>
  BY DEF GoTo, lookup, handling
<1>2. Types'
  BY <1>1 DEF IInv, Types, Stages, Early
<1>3. RowsGenuine'
  BY <1>1 DEF IInv, RowsGenuine
<1>4. Alone(r)
  BY <1>1 DEF IInv, Types, Alone
<1>5. pc'[r] = stage
  BY <1>1 DEF IInv, Types
<1>6. Stage(r)'
  BY <1>1, <1>5 DEF IInv, RequestInv, Stage, LetThrough, Early, Looking
<1>7. Found(r)'
  BY <1>1, <1>5 DEF IInv, RequestInv, Found, Looking
<1>8. Replied(r)'
  BY <1>1, <1>5 DEF IInv, RequestInv, Replied
<1> QED BY <1>2, <1>3, <1>4, <1>6, <1>7, <1>8, AloneStep DEF RequestInv

\* An error before any lookup, or of the callback.
LEMMA RejectStep ==
    ASSUME IInv, NEW r \in Requests, NEW e \in Errors \ {"nil"}, Reject(r, e),
           pc[r] # "replied", UNCHANGED handling
    PROVE  IInv'
<1>1. /\ pc' = [pc EXCEPT ![r] = "done"]
      /\ err' = [err EXCEPT ![r] = e]
      /\ UNCHANGED <<rows, revision, asked, since, info, http, results, written>>
  BY DEF Reject, handling
<1>2. Types'
  BY <1>1 DEF IInv, Types, Stages
<1>3. RowsGenuine'
  BY <1>1 DEF IInv, RowsGenuine
<1>4. Alone(r)
  BY <1>1 DEF IInv, Types, Alone
<1>5. pc'[r] = "done" /\ err'[r] = e
  BY <1>1 DEF IInv, Types
<1>6. Stage(r)'
  BY <1>5 DEF Stage, Early, Looking
<1>7. Found(r)'
  BY <1>1, <1>5 DEF IInv, RequestInv, Found, Looking
<1>8. Replied(r)'
  BY <1>1, <1>5 DEF IInv, RequestInv, Replied
<1> QED BY <1>2, <1>3, <1>4, <1>6, <1>7, <1>8, AloneStep DEF RequestInv

-----------------------------------------------------------------------------
\* The lookup begins, of a provider with reviews.
LEMMA EnterStep ==
    ASSUME IInv, NEW r \in Requests, NEW p \in Providers, NEW id \in Ids, NEW lazy \in BOOLEAN,
           Enter(r, p, id, lazy), pc[r] = "handler", http[r].route = "review",
           UNCHANGED handling
    PROVE  IInv'
<1>1. CASE p \notin Reviewers
  BY <1>1, RejectStep DEF Enter, Errors
<1>2. CASE p \in Reviewers
  <2> DEFINE call == [provider |-> p, id |-> id, lazy |-> lazy]
             next == IF lazy THEN "query" ELSE "fetch"
  <2>1. /\ asked' = [asked EXCEPT ![r] = call]
        /\ since' = [since EXCEPT ![r] = revision[p]]
        /\ pc' = [pc EXCEPT ![r] = next]
        /\ UNCHANGED <<rows, revision, info, err, http, results, written>>
    BY <1>2 DEF Enter, handling
  <2>2. /\ call \in Calls /\ call.provider = p /\ call.lazy = lazy
        /\ next \in {"query", "fetch"} /\ (next = "query" => lazy)
    BY <1>2 DEF Calls
  <2> HIDE DEF call, next
  <2>3. Types'
    BY <2>1, <2>2 DEF IInv, Types, Stages, Looking
  <2>4. RowsGenuine'
    BY <2>1 DEF IInv, RowsGenuine
  <2>5. Alone(r)
    BY <2>1 DEF IInv, Types, Alone
  <2>6. pc'[r] = next /\ asked'[r] = call /\ since'[r] = revision[p]
    BY <2>1 DEF IInv, Types
  <2>7. Stage(r) /\ Found(r) /\ Replied(r) /\ info[r] = None /\ LetThrough(r)
    BY DEF IInv, RequestInv, Stage, Found, Early
  <2>8. Stage(r)' /\ Replied(r)'
    BY <2>1, <2>2, <2>6, <2>7 DEF Stage, Replied, LetThrough, Early, Looking
  <2>9. Found(r)'
    BY <2>1, <2>2, <2>6, <2>7, NoneAssumption DEF Found, LetThrough, Looking, IInv, Types
  <2> QED BY <2>3, <2>4, <2>5, <2>8, <2>9, AloneStep DEF RequestInv
<1> QED BY <1>1, <1>2

\* getReview replies with an error or begins a lookup.
LEMMA ReviewStep == ASSUME IInv, NEW r \in Requests, Review(r) PROVE IInv'
<1>1. pc[r] = "handler" /\ http[r].route = "review"
  BY DEF Review
<1>2. CASE Abort(r, 400)
  BY <1>1, <1>2, AbortStep DEF Statuses
<1>3. CASE \E p \in Providers, lazy \in BOOLEAN, raw \in Ids :
              ReviewsByID(r, p, raw, lazy) /\ UNCHANGED handling
  <2>1. PICK p \in Providers, lazy \in BOOLEAN, raw \in Ids :
              ReviewsByID(r, p, raw, lazy) /\ UNCHANGED handling
    BY <1>3
  <2>2. CASE Normalize[p][raw] = NoId
    BY <1>1, <2>1, <2>2, RejectStep DEF ReviewsByID, Errors, EngineErrors
  <2>3. CASE Normalize[p][raw] # NoId
    BY <1>1, <2>1, <2>3, EnterStep, NormalizeAssumption DEF ReviewsByID
  <2> QED BY <2>2, <2>3
<1>4. CASE \E p \in Providers, lazy \in BOOLEAN, parsed \in Ids \union {NoId} :
              ReviewsByURL(r, p, parsed, lazy) /\ UNCHANGED handling
  <2>1. PICK p \in Providers, lazy \in BOOLEAN, parsed \in Ids \union {NoId} :
              ReviewsByURL(r, p, parsed, lazy) /\ UNCHANGED handling
    BY <1>4
  <2>2. CASE parsed = NoId
    BY <1>1, <2>1, <2>2, RejectStep DEF ReviewsByURL, Errors
  <2>3. CASE parsed # NoId
    BY <1>1, <2>1, <2>3, EnterStep DEF ReviewsByURL
  <2> QED BY <2>2, <2>3
<1>5. CASE (\E e \in {"unparsed", "provider not found"} : Reject(r, e)) /\ UNCHANGED handling
  BY <1>1, <1>5, RejectStep DEF Errors
<1> QED BY <1>2, <1>3, <1>4, <1>5 DEF Review

\* A row of the table answers a lazy lookup.
LEMMA QueryHitStep ==
    ASSUME IInv, NEW r \in Requests, QueryHit(r), UNCHANGED handling
    PROVE  IInv'
<1>1. PICK row \in Row(r) : row.valid /\ info' = [info EXCEPT ![r] = row]
  BY DEF QueryHit
<1>2. /\ pc[r] = "query" /\ pc' = [pc EXCEPT ![r] = "done"]
      /\ UNCHANGED <<rows, revision, asked, since, err, http, results, written>>
  BY DEF QueryHit, handling
<1>3. row \in rows /\ row.provider = asked[r].provider /\ Fold[row.id] = Fold[asked[r].id]
  BY DEF Row, First, Matching
<1>4. row \in Reviews /\ row # None /\ row.rev <= revision[row.provider]
  BY <1>3, NoneAssumption DEF IInv, Types, RowsGenuine
<1>5. Types'
  BY <1>1, <1>2, <1>4 DEF IInv, Types, Stages
<1>6. RowsGenuine'
  BY <1>2 DEF IInv, RowsGenuine
<1>7. Alone(r)
  BY <1>1, <1>2 DEF IInv, Types, Alone
<1>8. pc'[r] = "done" /\ info'[r] = row
  BY <1>1, <1>2 DEF IInv, Types
<1>9. Stage(r) /\ Found(r) /\ Replied(r)
  BY DEF IInv, RequestInv
<1>10. Stage(r)' /\ Replied(r)'
  BY <1>2, <1>4, <1>8, <1>9 DEF Stage, Replied, LetThrough, Early, Looking
<1>11. Found(r)'
  BY <1>1, <1>2, <1>3, <1>4, <1>8, <1>9 DEF Found, Looking
<1> QED BY <1>5, <1>6, <1>7, <1>10, <1>11, AloneStep DEF RequestInv

\* The lookup goes on without a row, or its callback panics.
LEMMA MoveOnStep ==
    ASSUME IInv, NEW r \in Requests, QueryMiss(r) \/ FetchPanics(r), UNCHANGED handling
    PROVE  IInv'
<1> DEFINE next == pc'[r]
<1>1. /\ pc[r] \in {"query", "fetch"} /\ pc' = [pc EXCEPT ![r] = next]
      /\ next = "fetch" \/ next = "panic"
      /\ UNCHANGED <<rows, revision, asked, since, info, err, http, results, written>>
  BY DEF QueryMiss, FetchPanics, handling, lookup, IInv, Types, Looking
<1> HIDE DEF next
<1>2. Types'
  BY <1>1 DEF IInv, Types, Stages, Looking
<1>3. RowsGenuine'
  BY <1>1 DEF IInv, RowsGenuine
<1>4. Alone(r)
  BY <1>1 DEF IInv, Types, Alone
<1>5. pc'[r] = next
  BY DEF next
<1>6. Stage(r) /\ Found(r) /\ Replied(r)
  BY DEF IInv, RequestInv
<1>7. Stage(r)' /\ Replied(r)'
  BY <1>1, <1>5, <1>6 DEF Stage, Replied, LetThrough, Early, Looking
<1>8. Found(r)'
  BY <1>1, <1>5, <1>6 DEF Found, Looking
<1> QED BY <1>2, <1>3, <1>4, <1>7, <1>8, AloneStep DEF RequestInv

\* Reviews as they are on the site now are no older than the call.
LEMMA FetchOKStep ==
    ASSUME IInv, NEW r \in Requests, FetchOK(r), UNCHANGED handling
    PROVE  IInv'
<1>1. PICK valid \in BOOLEAN : info' = [info EXCEPT ![r] = Built(r, valid)]
  BY DEF FetchOK
<1> DEFINE row == Built(r, valid)
<1>2. /\ pc[r] = "fetch" /\ pc' = [pc EXCEPT ![r] = "save"]
      /\ UNCHANGED <<rows, revision, asked, since, err, http, results, written>>
  BY DEF FetchOK, handling
<1>3. Stage(r) /\ Found(r) /\ Replied(r) /\ asked[r] \in Calls /\ asked[r] # None
  BY <1>2 DEF IInv, RequestInv, Found, Looking, Types
<1>4. /\ row \in Reviews /\ row.provider = asked[r].provider /\ row.id = asked[r].id
      /\ row.rev = revision[asked[r].provider]
  BY <1>3, ReviewersAssumption DEF Built, Reviews, Calls, IInv, Types
<1>5. row # None /\ row.rev \in Nat
  BY <1>4, NoneAssumption DEF Reviews
<1> HIDE DEF row
<1>6. info' = [info EXCEPT ![r] = row]
  BY <1>1 DEF row
<1>7. Types'
  BY <1>2, <1>4, <1>6 DEF IInv, Types, Stages, Looking
<1>8. RowsGenuine'
  BY <1>2 DEF IInv, RowsGenuine
<1>9. Alone(r)
  BY <1>2, <1>6 DEF IInv, Types, Alone
<1>10. pc'[r] = "save" /\ info'[r] = row
  BY <1>2, <1>6 DEF IInv, Types
<1>11. Stage(r)' /\ Replied(r)'
  BY <1>2, <1>3, <1>10 DEF Stage, Replied, LetThrough, Early, Looking
<1>12. Found(r)'
  BY <1>2, <1>3, <1>4, <1>5, <1>10 DEF Found, Looking
<1> QED BY <1>7, <1>8, <1>9, <1>11, <1>12, AloneStep DEF RequestInv

\* What is saved has been validated, and is of the site.
LEMMA SaveStep ==
    ASSUME IInv, NEW r \in Requests, Save(r), UNCHANGED handling
    PROVE  IInv'
<1>1. /\ pc[r] = "save" /\ pc' = [pc EXCEPT ![r] = "done"]
      /\ err' = [err EXCEPT ![r] = IF info[r].valid THEN @ ELSE "incomplete"]
      /\ UNCHANGED <<revision, asked, since, info, http, results, written>>
      /\ (info[r].valid /\ rows' = Upsert(rows, info[r])) \/ rows' = rows
  BY DEF Save, Saves, handling
<1>2. Stage(r) /\ Found(r) /\ Replied(r) /\ asked[r] # None /\ info[r] # None /\ info[r] \in Reviews
      /\ info[r].rev <= revision[info[r].provider]
  BY <1>1 DEF IInv, RequestInv, Found, Looking, Types
<1>3. Types'
  <2>1. rows' \subseteq Reviews
    BY <1>1, <1>2 DEF IInv, Types, Upsert
  <2>2. err' \in [Requests -> Errors]
    BY <1>1 DEF IInv, Types, Errors, EngineErrors
  <2> QED BY <1>1, <2>1, <2>2 DEF IInv, Types, Stages
<1>4. RowsGenuine'
  <2>1. CASE rows' = rows
    BY <1>1, <2>1 DEF IInv, RowsGenuine
  <2>2. CASE info[r].valid /\ rows' = Upsert(rows, info[r])
    <3>1. KeysUnique(rows')
      BY <2>2 DEF IInv, RowsGenuine, KeysUnique, Upsert, SameKey
    <3>2. \A row \in rows' : row.valid /\ row.rev <= revision[row.provider]
      BY <1>2, <2>2 DEF IInv, RowsGenuine, Upsert
    <3> QED BY <1>1, <3>1, <3>2 DEF RowsGenuine
  <2> QED BY <1>1, <2>1, <2>2
<1>5. Alone(r)
  BY <1>1 DEF IInv, Types, Alone
<1>6. pc'[r] = "done" /\ (err'[r] = "nil" => info[r].valid)
  BY <1>1 DEF IInv, Types
<1>7. Stage(r)' /\ Replied(r)'
  BY <1>1, <1>2, <1>6 DEF Stage, Replied, LetThrough, Early, Looking
<1>8. Found(r)'
  BY <1>1, <1>2, <1>6 DEF Found, Looking
<1> QED BY <1>3, <1>4, <1>5, <1>7, <1>8, AloneStep DEF RequestInv

LEMMA LookupStep ==
    ASSUME IInv, NEW r \in Requests, Lookup(r), UNCHANGED handling
    PROVE  IInv'
<1>1. CASE FetchFails(r)
  BY <1>1, RejectStep DEF FetchFails, Errors, EngineErrors
<1> QED BY <1>1, QueryHitStep, MoveOnStep, FetchOKStep, SaveStep DEF Lookup

-----------------------------------------------------------------------------
\* The engine answers a handler or the redirection.
LEMMA EngineReturnsStep == ASSUME IInv, NEW r \in Requests, EngineReturns(r) PROVE IInv'
<1>1. PICK n \in {0, 1} : results' = [results EXCEPT ![r] = n]
  BY DEF EngineReturns
<1>2. /\ pc[r] = "engine" /\ pc' = [pc EXCEPT ![r] = "done"]
      /\ UNCHANGED <<rows, revision, asked, since, info, err, http, written>>
  BY DEF EngineReturns, lookup
<1>3. Types'
  BY <1>1, <1>2 DEF IInv, Types, Stages
<1>4. RowsGenuine'
  BY <1>2 DEF IInv, RowsGenuine
<1>5. Alone(r)
  BY <1>1, <1>2 DEF IInv, Types, Alone
<1>6. pc'[r] = "done"
  BY <1>2 DEF IInv, Types
<1>7. Stage(r) /\ Found(r) /\ Replied(r)
  BY DEF IInv, RequestInv
<1>8. Stage(r)' /\ Replied(r)'
  BY <1>2, <1>6, <1>7 DEF Stage, Replied, LetThrough, Early, Looking
<1>9. Found(r)'
  BY <1>2, <1>6, <1>7 DEF Found, Stage, Looking, Early
<1> QED BY <1>3, <1>4, <1>5, <1>8, <1>9, AloneStep DEF RequestInv

\* A connection is idle again, with nothing left of the last request.
LEMMA ConnectionStep == ASSUME IInv, NEW r \in Requests, Arrive(r) \/ Finish(r) PROVE IInv'
<1>1. CASE Arrive(r)
  <2>1. PICK request \in HTTPRequest : http' = [http EXCEPT ![r] = request]
    BY <1>1, TakesAssumption DEF Arrive
  <2>2. /\ pc[r] = "idle" /\ pc' = [pc EXCEPT ![r] = "redirect"]
        /\ UNCHANGED <<rows, revision, asked, since, info, err, results, written>>
    BY <1>1 DEF Arrive, lookup
  <2>3. Types'
    BY <2>1, <2>2 DEF IInv, Types, Stages, Early
  <2>4. RowsGenuine'
    BY <2>2 DEF IInv, RowsGenuine
  <2>5. Alone(r)
    BY <2>1, <2>2 DEF IInv, Types, Alone
  <2>6. pc'[r] = "redirect"
    BY <2>2 DEF IInv, Types
  <2>7. Stage(r) /\ Found(r) /\ Replied(r)
    BY DEF IInv, RequestInv
  <2>8. Stage(r)' /\ Found(r)' /\ Replied(r)'
    BY <2>2, <2>6, <2>7 DEF Stage, Found, Replied, Early, Looking
  <2> QED BY <2>3, <2>4, <2>5, <2>8, AloneStep DEF RequestInv
<1>2. CASE Finish(r)
  <2>1. /\ pc' = [pc EXCEPT ![r] = "idle"]
        /\ http' = [http EXCEPT ![r] = NoRequest]
        /\ results' = [results EXCEPT ![r] = 0]
        /\ written' = [written EXCEPT ![r] = <<>>]
        /\ asked' = [asked EXCEPT ![r] = None]
        /\ since' = [since EXCEPT ![r] = 0]
        /\ info' = [info EXCEPT ![r] = None]
        /\ err' = [err EXCEPT ![r] = "nil"]
        /\ UNCHANGED <<rows, revision>>
    BY <1>2 DEF Finish
  <2>2. Types'
    <3>1. /\ pc' \in [Requests -> Stages]
          /\ err' \in [Requests -> Errors]
          /\ since' \in [Requests -> Nat]
      BY <2>1 DEF IInv, Types, Stages, Early, Errors
    <3>4. results' \in [Requests -> 0..1]
      BY <2>1 DEF IInv, Types
    <3>5. http' \in [Requests -> HTTPRequest \union {NoRequest}]
      BY <2>1 DEF IInv, Types
    <3>2. written' \in [Requests -> Seq(Statuses)]
      BY <2>1 DEF IInv, Types
    <3>3. asked' \in [Requests -> Calls \union {None}] /\ info' \in [Requests -> Reviews \union {None}]
      BY <2>1 DEF IInv, Types
    <3> QED BY <2>1, <3>1, <3>2, <3>3, <3>4, <3>5 DEF IInv, Types
  <2>3. RowsGenuine'
    BY <2>1 DEF IInv, RowsGenuine
  <2>4. Alone(r)
    BY <2>1 DEF IInv, Types, Alone
  <2>5. pc'[r] = "idle" /\ written'[r] = <<>> /\ asked'[r] = None /\ info'[r] = None /\ err'[r] = "nil"
    BY <2>1 DEF IInv, Types
  <2>6. Stage(r)' /\ Found(r)' /\ Replied(r)'
    BY <2>5 DEF Stage, Found, Replied, Early, Looking
  <2> QED BY <2>2, <2>3, <2>4, <2>6, AloneStep DEF RequestInv
<1> QED BY <1>1, <1>2

\* Middlewares and handlers without a lookup.
LEMMA HandlerStep ==
    ASSUME IInv, NEW r \in Requests,
           \/ Redirect(r) \/ Authenticate(r) \/ NotFound(r) \/ Static(r) \/ BadRequest(r)
           \/ RefuseImage(r) \/ CallEngine(r) \/ EnginePanics(r) \/ Recover(r)
    PROVE  IInv'
<1> USE DEF Statuses, Early
<1>1. CASE Redirect(r)
  BY <1>1, AbortStep, GoToStep DEF Redirect
<1>2. CASE Authenticate(r)
  <2>1. ~ http[r].redirect
    BY <1>2 DEF Authenticate, IInv, RequestInv, Stage
  <2> QED BY <1>2, <2>1, AbortStep, GoToStep DEF Authenticate, LetThrough
<1>3. CASE NotFound(r) \/ BadRequest(r) \/ RefuseImage(r) \/ Recover(r)
  BY <1>3, AbortStep DEF NotFound, BadRequest, RefuseImage, Recover
<1>4. CASE Static(r)
  <2>1. err[r] = "nil" /\ LetThrough(r) /\ http[r].route = "static"
    BY <1>4 DEF Static, IInv, RequestInv, Stage
  <2> QED BY <1>4, <2>1, AbortStep DEF Static
<1>5. CASE CallEngine(r)
  <2>1. LetThrough(r)
    BY <1>5 DEF CallEngine, IInv, RequestInv, Stage
  <2> QED BY <1>5, <2>1, GoToStep DEF CallEngine
<1>6. CASE EnginePanics(r)
  BY <1>6, GoToStep DEF EnginePanics
<1> QED BY <1>1, <1>2, <1>3, <1>4, <1>5, <1>6

\* The status that an outcome of the engine becomes.
LEMMA RespondStep == ASSUME IInv, NEW r \in Requests, Respond(r) PROVE IInv'
<1> USE DEF Statuses
<1>1. pc[r] = "done"
  BY DEF Respond
<1>2. CASE err[r] # "nil"
  <2>1. StatusOf(err[r]) \in {400, 404, 204, 500}
    BY DEF StatusOf
  <2>2. Abort(r, StatusOf(err[r]))
    BY <1>2 DEF Respond
  <2> QED BY <1>1, <2>1, <2>2, AbortStep
<1>3. CASE err[r] = "nil" /\ http[r].redirect
  BY <1>1, <1>3, AbortStep DEF Respond
<1>4. CASE err[r] = "nil" /\ ~ http[r].redirect
  <2>1. LetThrough(r) /\ (http[r].route = "review" => info[r] # None) /\ results[r] \in 0..1
    BY <1>1, <1>4 DEF IInv, RequestInv, Stage, Types
  <2>2. CASE http[r].route = "search" /\ results[r] = 0
    BY <1>1, <1>4, <2>2, AbortStep DEF Respond
  <2>3. CASE ~ (http[r].route = "search" /\ results[r] = 0)
    BY <1>1, <1>4, <2>1, <2>3, AbortStep DEF Respond
  <2> QED BY <2>2, <2>3
<1> QED BY <1>2, <1>3, <1>4

\* Somebody writes a review: what was fetched stays genuine.
LEMMA PublishStep ==
    ASSUME IInv, NEW p \in Reviewers, Publish(p), UNCHANGED handling
    PROVE  IInv'
<1>1. /\ revision' = [revision EXCEPT ![p] = @ + 1]
      /\ UNCHANGED <<rows, pc, asked, since, info, err, http, results, written>>
  BY DEF Publish, handling
<1>2. Types' /\ \A q \in Providers : revision[q] <= revision'[q]
  BY <1>1, ReviewersAssumption DEF IInv, Types
<1>3. RowsGenuine'
  BY <1>1, <1>2 DEF IInv, RowsGenuine, Types, Reviews
<1>4. ASSUME NEW r \in Requests PROVE RequestInv(r)'
  <2>1. Stage(r)' /\ Replied(r)'
    BY <1>1 DEF IInv, RequestInv, Stage, Replied, LetThrough
  <2>2. Found(r)'
    BY <1>1, <1>2, ReviewersAssumption DEF IInv, RequestInv, Found, Types, Calls, Reviews
  <2> QED BY <2>1, <2>2 DEF RequestInv
<1> QED BY <1>2, <1>3, <1>4 DEF IInv

\* The process exits: no request is left, and the table is what it was, or empty.
LEMMA CrashStep == ASSUME IInv, NEW r \in Requests, Crash(r) PROVE IInv'
<1>1. rows' \subseteq rows /\ (rows' = rows \/ rows' = {}) /\ revision' = revision
  BY DEF Crash
<1>2. /\ pc' = [s \in Requests |-> "idle"] /\ http' = [s \in Requests |-> NoRequest]
      /\ results' = [s \in Requests |-> 0] /\ written' = [s \in Requests |-> <<>>]
      /\ asked' = [s \in Requests |-> None] /\ since' = [s \in Requests |-> 0]
      /\ info' = [s \in Requests |-> None] /\ err' = [s \in Requests |-> "nil"]
  BY DEF Crash
<1>3. Types'
  <2>1. rows' \subseteq Reviews /\ revision' \in [Providers -> Nat]
    BY <1>1 DEF IInv, Types
  <2>2. pc' \in [Requests -> Stages] /\ err' \in [Requests -> Errors]
    BY <1>2 DEF Stages, Early, Errors
  <2>3. asked' \in [Requests -> Calls \union {None}] /\ info' \in [Requests -> Reviews \union {None}]
    BY <1>2
  <2>4. since' \in [Requests -> Nat] /\ results' \in [Requests -> 0..1]
    BY <1>2
  <2>5. http' \in [Requests -> HTTPRequest \union {NoRequest}]
    BY <1>2
  <2>6. written' \in [Requests -> Seq(Statuses)]
    BY <1>2
  <2> QED BY <2>1, <2>2, <2>3, <2>4, <2>5, <2>6 DEF Types
<1>4. RowsGenuine'
  BY <1>1 DEF IInv, RowsGenuine, KeysUnique
<1>5. ASSUME NEW s \in Requests PROVE RequestInv(s)'
  BY <1>2 DEF NoRequest, RequestInv, Stage, Found, Replied, Early, Looking
<1> QED BY <1>3, <1>4, <1>5 DEF IInv

\* The invariant is inductive.
LEMMA IInvStep == IInv /\ [Next]_vars => IInv'
<1> SUFFICES ASSUME IInv, [Next]_vars PROVE IInv'
  OBVIOUS
<1>1. CASE \E p \in Reviewers : Publish(p) /\ UNCHANGED handling
  BY <1>1, PublishStep
<1>2. CASE \E r \in Requests : Arrive(r) \/ Finish(r)
  BY <1>2, ConnectionStep
<1>3. CASE \E r \in Requests : Serve(r)
  <2>1. PICK r \in Requests : Serve(r)
    BY <1>3
  <2>2. CASE EngineFails(r)
    BY <2>2, RejectStep DEF EngineFails, EngineErrors, Errors
  <2> QED BY <2>1, <2>2, HandlerStep, ReviewStep, EngineReturnsStep, LookupStep, RespondStep DEF Serve
<1>4. CASE \E r \in Requests : Crash(r)
  BY <1>4, CrashStep
<1>5. CASE UNCHANGED vars \/ Start
  BY <1>5 DEF vars, Start, lookup, handling, IInv, Types, RowsGenuine, RequestInv, Stage, Found,
     Replied, LetThrough
<1> QED BY <1>1, <1>2, <1>3, <1>4, <1>5 DEF Next

LEMMA IInvCorrect == Spec => []IInv
BY IInvInit, IInvStep, PTL DEF Spec

-----------------------------------------------------------------------------
\* Rows are valid and what lookups answer is what they were asked for, whatever
\* spellings and URLs are asked for at the same time, for any number of
\* requests, providers and ids.
THEOREM ReviewsCorrect == Spec => []ReviewsSound
<1>1. IInv => ReviewsSound
  <2> SUFFICES ASSUME IInv, NEW r \in Requests,
                      pc[r] = "done", err[r] = "nil", asked[r] # None
               PROVE  /\ info[r].valid
                      /\ info[r].provider = asked[r].provider
                      /\ Fold[info[r].id] = Fold[asked[r].id]
                      /\ info[r].rev <= revision[asked[r].provider]
                      /\ ~ asked[r].lazy => info[r].rev >= since[r]
    BY DEF IInv, ReviewsSound, ReturnsAsked
  <2>1. info[r] # None
    BY DEF IInv, RequestInv, Stage, Found
  <2> QED BY <2>1 DEF IInv, RequestInv, Found
<1> QED BY <1>1, IInvCorrect, PTL

\* Every request is replied to once at most before it is over, and with 200 or
\* 307 only if that is deserved, for any number of requests and connections,
\* whichever middleware or handler of package route replies.
THEOREM RepliedOnce == Spec => []OneReply
<1>1. IInv => OneReply
  <2> SUFFICES ASSUME IInv, NEW r \in Requests
               PROVE  /\ Len(written[r]) = IF pc[r] = "replied" THEN 1 ELSE 0
                      /\ 200 \in ToSet(written[r]) =>
                            /\ err[r] = "nil" /\ ~ http[r].redirect
                            /\ http[r].route \in Private => http[r].authorized
                            /\ http[r].route = "search" => results[r] > 0
                            /\ http[r].route = "review" => info[r] # None
                      /\ 307 \in ToSet(written[r]) => err[r] = "nil" /\ http[r].redirect
    BY DEF OneReply
  <2>1. Replied(r)
    BY DEF IInv, RequestInv
  <2>2. CASE pc[r] # "replied"
    <3>1. written[r] = <<>>
      BY <2>1, <2>2 DEF Replied
    <3>2. Len(written[r]) = 0 /\ ToSet(written[r]) = {}
      BY <3>1 DEF ToSet
    <3> QED BY <2>2, <3>2
  <2>3. CASE pc[r] = "replied"
    <3>1. PICK status \in Statuses :
              /\ written[r] = <<status>>
              /\ status = 200 =>
                    /\ err[r] = "nil" /\ LetThrough(r)
                    /\ http[r].route = "search" => results[r] > 0
                    /\ http[r].route = "review" => info[r] # None
              /\ status = 307 => err[r] = "nil" /\ http[r].redirect
      BY <2>1, <2>3 DEF Replied
    <3>2. Len(written[r]) = 1 /\ ToSet(written[r]) = {status}
      BY <3>1 DEF ToSet
    <3> QED BY <2>3, <3>1, <3>2 DEF LetThrough
  <2> QED BY <2>2, <2>3
<1> QED BY <1>1, IInvCorrect, PTL

-----------------------------------------------------------------------------
\* A table of versions is written as the table of records is.
LEMMA UpsertVersions ==
    ASSUME NEW T, NEW record
    PROVE  {Version(row) : row \in Upsert(T, record)}
              = Store!Upsert({Version(row) : row \in T}, Version(record))
<1> DEFINE V == {Version(row) : row \in T}
           U == Upsert(T, record)
<1>1. ASSUME NEW row
      PROVE  /\ Version(row).provider = row.provider
             /\ Version(row).id = row.id
  BY DEF Version
<1>2. ASSUME NEW row
      PROVE  SameKey(row, record) <=> Store!SameKey(Version(row), Version(record))
  BY <1>1 DEF SameKey, Store!SameKey
<1>3. ASSUME NEW row \in U PROVE Version(row) \in Store!Upsert(V, Version(record))
  BY <1>2 DEF Upsert, Store!Upsert
<1>4. ASSUME NEW v \in Store!Upsert(V, Version(record)) PROVE \E row \in U : v = Version(row)
  BY <1>2 DEF Upsert, Store!Upsert
<1>5. QED
  BY <1>3, <1>4

\* The row that a query finds is the version that is found among the versions.
LEMMA FirstVersion ==
    ASSUME NEW T, NEW p, NEW id, NEW row \in First(T, p, id)
    PROVE  Version(row) \in Store!First({Version(other) : other \in T}, p, id)
<1>1. ASSUME NEW other
      PROVE  /\ Version(other).provider = other.provider
             /\ Version(other).id = other.id
  BY DEF Version
<1>2. Version(row) \in Store!Matching({Version(other) : other \in T}, p, id)
  BY <1>1 DEF First, Matching, Store!Matching
<1>3. ASSUME NEW v \in Store!Matching({Version(other) : other \in T}, p, id)
      PROVE  Version(row).id <= v.id
  BY <1>1 DEF First, Matching, Store!Matching
<1>4. QED
  BY <1>2, <1>3 DEF Store!First

-----------------------------------------------------------------------------
\* What a request is to the store only depends on what is its own.
LEMMA Untouched ==
    ASSUME NEW s \in Requests,
           pc'[s] = pc[s], asked'[s] = asked[s], since'[s] = since[s],
           info'[s] = info[s], err'[s] = err[s]
    PROVE  LookupOf(s)' = LookupOf(s)
  BY DEF LookupOf, Returns, Version

\* When no lookup and no version changes, the store stutters.
LEMMA StoreStutters ==
    ASSUME \A s \in Requests : LookupOf(s)' = LookupOf(s),
           Versions' = Versions, revision' = revision
    PROVE  UNCHANGED Store!store
  BY DEF Store!store, Lookups

\* A step of one request changes what that request is to the store.
LEMMA LookupBecomes ==
    ASSUME NEW r \in Requests, NEW state, LookupOf(r)' = state,
           \A s \in Requests \ {r} : LookupOf(s)' = LookupOf(s)
    PROVE  Store!Becomes(r, state)
  BY DEF Store!Becomes, Lookups

\* A request without a lookup is idle.
LEMMA IdleAt ==
    ASSUME NEW r \in Requests, asked[r] = None
    PROVE  LookupOf(r) = Store!Idle /\ Lookups[r] = Store!Idle
  BY DEF Lookups, LookupOf, Store!Idle

\* Until its row is read or saved, a lookup is pending.
LEMMA PendingAt ==
    ASSUME NEW r \in Requests, asked[r] # None, pc[r] \in Looking
    PROVE  Lookups[r] =
              Store!Pending(asked[r].provider, asked[r].id, asked[r].lazy, since[r])
  BY DEF Lookups, LookupOf, Looking, Store!Pending

\* Afterwards its outcome is settled.
LEMMA SettledAt ==
    ASSUME NEW r \in Requests, asked[r] # None, pc[r] \notin Looking
    PROVE  Lookups[r] =
              IF Returns(r) THEN Store!Answered(Version(info[r])) ELSE Store!Failed
  BY DEF Lookups, LookupOf, Looking, Store!Answered, Store!Failed

\* The same three of the state a step leads to.
LEMMA IdleNext ==
    ASSUME NEW r \in Requests, asked'[r] = None
    PROVE  LookupOf(r)' = Store!Idle
  BY DEF LookupOf, Store!Idle

\* A lookup that goes on.
LEMMA PendingNext ==
    ASSUME NEW r \in Requests, asked'[r] # None, pc'[r] \in Looking
    PROVE  LookupOf(r)' =
              Store!Pending(asked'[r].provider, asked'[r].id, asked'[r].lazy, since'[r])
  BY DEF LookupOf, Looking, Store!Pending

\* An outcome that the step settles.
LEMMA SettledNext ==
    ASSUME NEW r \in Requests, asked'[r] # None, pc'[r] \notin Looking
    PROVE  LookupOf(r)' =
              IF Returns(r)' THEN Store!Answered(Version(info'[r])) ELSE Store!Failed
  BY DEF LookupOf, Returns, Version, Looking, Store!Answered, Store!Failed

\* The state the store has of a request.
LEMMA LookupAt ==
    ASSUME NEW r \in Requests
    PROVE  Lookups[r] = LookupOf(r)
  BY DEF Lookups

\* The fields of the states of a lookup.
LEMMA Forms ==
    ASSUME NEW p, NEW id, NEW lazy, NEW rev, NEW version
    PROVE  /\ Store!Idle.at = "idle" /\ Store!Failed.at = "failed"
           /\ Store!Answered(version).at = "answered"
           /\ Store!Pending(p, id, lazy, rev).at = "pending"
           /\ Store!Pending(p, id, lazy, rev).provider = p
           /\ Store!Pending(p, id, lazy, rev).id = id
           /\ Store!Pending(p, id, lazy, rev).lazy = lazy
           /\ Store!Pending(p, id, lazy, rev).since = rev
  BY DEF Store!Idle, Store!Failed, Store!Answered, Store!Pending

\* What a pending lookup was called with.
LEMMA PendingLookup ==
    ASSUME NEW r \in Requests, asked[r] # None, pc[r] \in Looking
    PROVE  /\ Lookups[r].at = "pending"
           /\ Lookups[r].provider = asked[r].provider
           /\ Lookups[r].id = asked[r].id
           /\ Lookups[r].lazy = asked[r].lazy
           /\ Lookups[r].since = since[r]
<1> DEFINE L == Store!Pending(asked[r].provider, asked[r].id, asked[r].lazy, since[r])
<1>1. Lookups[r] = L
  BY PendingAt
<1>2. /\ L.at = "pending" /\ L.provider = asked[r].provider /\ L.id = asked[r].id
      /\ L.lazy = asked[r].lazy /\ L.since = since[r]
  BY Forms
<1>3. QED
  BY <1>1, <1>2

-----------------------------------------------------------------------------
\* What a step leaves alone when it is one of the handlers' or of a lookup's
\* outcome: nothing of it shows in the store.
LEMMA Unseen ==
    ASSUME NEW r \in Requests, UNCHANGED <<rows, revision, asked, since, info>>,
           \A s \in Requests \ {r} : pc'[s] = pc[s] /\ err'[s] = err[s],
           asked[r] # None => err'[r] = err[r] /\ pc[r] \notin Looking /\ pc'[r] \notin Looking
    PROVE  UNCHANGED Store!store
<1>1. ASSUME NEW s \in Requests \ {r} PROVE LookupOf(s)' = LookupOf(s)
  BY Untouched
<1>2. CASE asked[r] = None
  <2>1. LookupOf(r)' = LookupOf(r)
    BY <1>2, IdleNext, IdleAt
  <2>2. QED
    BY <1>1, <2>1, StoreStutters DEF Versions
<1>3. CASE asked[r] # None
  <2>1. Returns(r)' <=> Returns(r)
    BY <1>3 DEF Returns
  <2>2. LookupOf(r)' = LookupOf(r)
    BY <1>3, <2>1, SettledNext, SettledAt, LookupAt
  <2>3. QED
    BY <1>1, <2>2, StoreStutters DEF Versions
<1>4. QED
  BY <1>2, <1>3

\* Middlewares and handlers, and the responses to what the engine returned.
LEMMA HandlersUnseen ==
    ASSUME IInv, NEW r \in Requests,
           \/ Redirect(r) \/ Authenticate(r) \/ NotFound(r) \/ Static(r) \/ BadRequest(r)
           \/ RefuseImage(r) \/ CallEngine(r) \/ EnginePanics(r) \/ Recover(r)
           \/ Respond(r) \/ Arrive(r) \/ EngineReturns(r)
    PROVE  UNCHANGED Store!store
<1> USE DEF Looking
<1>1. ASSUME NEW status, Abort(r, status), pc[r] \notin Looking
      PROVE  UNCHANGED Store!store
  BY <1>1, Unseen DEF Abort, lookup, IInv, Types
<1>2. ASSUME NEW stage, stage \notin Looking, GoTo(r, stage), pc[r] \notin Looking
      PROVE  UNCHANGED Store!store
  BY <1>2, Unseen DEF GoTo, lookup, IInv, Types
<1>3. CASE Arrive(r) \/ EngineReturns(r)
  BY <1>3, Unseen DEF Arrive, EngineReturns, lookup, IInv, Types
<1>4. CASE Redirect(r) \/ Authenticate(r) \/ CallEngine(r) \/ EnginePanics(r)
  BY <1>1, <1>2, <1>4 DEF Redirect, Authenticate, CallEngine, EnginePanics
<1>5. CASE NotFound(r) \/ Static(r) \/ BadRequest(r) \/ RefuseImage(r) \/ Recover(r) \/ Respond(r)
  BY <1>1, <1>5 DEF NotFound, Static, BadRequest, RefuseImage, Recover, Respond
<1>6. QED
  BY <1>3, <1>4, <1>5

\* An error before any lookup is none of the store's.
LEMMA RejectUnseen ==
    ASSUME IInv, NEW r \in Requests, NEW e, Reject(r, e), pc[r] \in Early
    PROVE  UNCHANGED Store!store
<1>1. asked[r] = None
  BY DEF IInv, RequestInv, Stage
<1>2. QED
  BY <1>1, Unseen DEF Reject, IInv, Types

\* The lookup of a provider with reviews begins.
LEMMA EnterBegins ==
    ASSUME IInv, NEW r \in Requests, NEW p \in Providers, NEW id \in Ids, NEW lazy \in BOOLEAN,
           Enter(r, p, id, lazy), pc[r] \in Early
    PROVE  Store!Begin(r) \/ UNCHANGED Store!store
<1>1. CASE p \notin Reviewers
  BY <1>1, RejectUnseen DEF Enter
<1>2. CASE p \in Reviewers
  <2> DEFINE call == [provider |-> p, id |-> id, lazy |-> lazy]
  <2>1. /\ asked' = [asked EXCEPT ![r] = call]
        /\ since' = [since EXCEPT ![r] = revision[p]]
        /\ pc' = [pc EXCEPT ![r] = IF lazy THEN "query" ELSE "fetch"]
        /\ UNCHANGED <<rows, revision, info, err>>
    BY <1>2 DEF Enter
  <2>2. /\ asked'[r] = call /\ since'[r] = revision[p] /\ pc'[r] \in Looking
    BY <2>1 DEF IInv, Types, Looking
  <2>3. call # None
    BY <1>2, NoneAssumption DEF Calls
  <2>4. LookupOf(r)' = Store!Pending(p, id, lazy, revision[p])
    BY <2>2, <2>3, PendingNext
  <2>5. ASSUME NEW s \in Requests \ {r} PROVE LookupOf(s)' = LookupOf(s)
    BY <2>1, Untouched DEF IInv, Types
  <2>6. Store!Becomes(r, Store!Pending(p, id, lazy, revision[p]))
    BY <2>4, <2>5, LookupBecomes
  <2>7. Lookups[r] = Store!Idle
    BY IdleAt DEF IInv, RequestInv, Stage
  <2>8. UNCHANGED <<Versions, revision>>
    BY <2>1 DEF Versions
  <2>9. Store!Begin(r)
    BY <2>6, <2>7, <2>8 DEF Store!Begin
  <2>10. QED
    BY <2>9
<1>3. QED
  BY <1>1, <1>2

\* getReview begins a lookup, or is done without one.
LEMMA ReviewBegins ==
    ASSUME IInv, NEW r \in Requests, Review(r)
    PROVE  Store!Begin(r) \/ UNCHANGED Store!store
<1>1. pc[r] = "handler" /\ pc[r] \in Early
  BY DEF Review, Early
<1>2. CASE Abort(r, 400)
  BY <1>1, <1>2, Unseen DEF Abort, lookup, Looking, IInv, Types
<1>3. ASSUME NEW p \in Providers, NEW lazy \in BOOLEAN, NEW raw \in Ids,
             ReviewsByID(r, p, raw, lazy)
      PROVE  Store!Begin(r) \/ UNCHANGED Store!store
  BY <1>1, <1>3, RejectUnseen, EnterBegins, NormalizeAssumption DEF ReviewsByID
<1>4. ASSUME NEW p \in Providers, NEW lazy \in BOOLEAN, NEW parsed \in Ids \union {NoId},
             ReviewsByURL(r, p, parsed, lazy)
      PROVE  Store!Begin(r) \/ UNCHANGED Store!store
  BY <1>1, <1>4, RejectUnseen, EnterBegins DEF ReviewsByURL
<1>5. CASE \E e \in {"unparsed", "provider not found"} : Reject(r, e)
  BY <1>1, <1>5, RejectUnseen
<1>6. QED
  BY <1>2, <1>3, <1>4, <1>5 DEF Review

-----------------------------------------------------------------------------
\* A lazy hit takes effect when the row is read.
LEMMA HitStep ==
    ASSUME IInv, NEW r \in Requests, QueryHit(r)
    PROVE  Store!Hit(r)
<1>1. PICK row \in Row(r) : row.valid /\ info' = [info EXCEPT ![r] = row]
  BY DEF QueryHit
<1>2. /\ pc[r] = "query" /\ pc' = [pc EXCEPT ![r] = "done"]
      /\ UNCHANGED <<rows, revision, asked, since, err>>
  BY DEF QueryHit
<1>3. /\ asked[r] # None /\ asked[r].lazy /\ err[r] = "nil"
      /\ asked[r] \in Calls
  BY <1>2 DEF IInv, RequestInv, Stage, Found, Looking, Types
<1>4. row # None
  BY <1>1, NoneAssumption DEF Row, First, Matching, IInv, Types
<1>5. /\ Lookups[r].at = "pending" /\ Lookups[r].lazy = asked[r].lazy
      /\ Lookups[r].provider = asked[r].provider /\ Lookups[r].id = asked[r].id
  BY <1>2, <1>3, PendingLookup DEF Looking
<1>6. Version(row) \in Store!First(Versions, asked[r].provider, asked[r].id)
  BY <1>1, FirstVersion DEF Row, Versions
<1>7. ASSUME NEW s \in Requests \ {r} PROVE LookupOf(s)' = LookupOf(s)
  BY <1>1, <1>2, Untouched DEF IInv, Types
<1>8. pc'[r] = "done" /\ info'[r] = row /\ err'[r] = err[r] /\ asked'[r] = asked[r]
  BY <1>1, <1>2 DEF IInv, Types
<1>9. Returns(r)'
  BY <1>1, <1>3, <1>4, <1>8 DEF Returns
<1>10. LookupOf(r)' = Store!Answered(Version(row))
  BY <1>3, <1>8, <1>9, SettledNext DEF Looking
<1>11. Store!Becomes(r, Store!Answered(Version(row)))
  BY <1>7, <1>10, LookupBecomes
<1>12. asked[r].provider \in Providers
  BY <1>3, ReviewersAssumption DEF Calls
<1>13. UNCHANGED <<Versions, revision>>
  BY <1>2 DEF Versions
<1>14. QED
  BY <1>3, <1>5, <1>6, <1>11, <1>12, <1>13 DEF Store!Hit

\* Without a row the lookup goes on, and with reviews to the save.
LEMMA PendingStep ==
    ASSUME IInv, NEW r \in Requests, QueryMiss(r) \/ FetchOK(r)
    PROVE  UNCHANGED Store!store
<1>1. /\ pc[r] \in Looking /\ pc'[r] \in Looking
      /\ UNCHANGED <<rows, revision, asked, since>>
  BY DEF QueryMiss, FetchOK, lookup, Looking, IInv, Types
<1>2. ASSUME NEW s \in Requests \ {r}
      PROVE  pc'[s] = pc[s] /\ info'[s] = info[s] /\ err'[s] = err[s]
  BY DEF QueryMiss, FetchOK, lookup, IInv, Types
<1>3. asked[r] # None
  BY <1>1 DEF IInv, RequestInv, Found
<1>4. LookupOf(r)' = LookupOf(r)
  BY <1>1, <1>3, PendingNext, PendingAt, LookupAt
<1>5. ASSUME NEW s \in Requests \ {r} PROVE LookupOf(s)' = LookupOf(s)
  BY <1>1, <1>2, Untouched
<1>6. QED
  BY <1>1, <1>4, <1>5, StoreStutters DEF Versions

\* A callback that fails or panics fails the lookup.
LEMMA FailStep ==
    ASSUME IInv, NEW r \in Requests, FetchFails(r) \/ FetchPanics(r)
    PROVE  Store!Fail(r)
<1>1. /\ pc[r] = "fetch" /\ pc'[r] \in {"done", "panic"}
      /\ UNCHANGED <<rows, revision, asked, since, info>>
  BY DEF FetchFails, FetchPanics, Reject, lookup, IInv, Types
<1>2. ASSUME NEW s \in Requests \ {r} PROVE pc'[s] = pc[s] /\ err'[s] = err[s]
  BY DEF FetchFails, FetchPanics, Reject, lookup, IInv, Types
<1>3. asked[r] # None /\ info[r] = None
  BY <1>1 DEF IInv, RequestInv, Found, Looking
<1>4. LookupOf(r)' = Store!Failed
  BY <1>1, <1>3, SettledNext DEF Returns, Looking
<1>5. ASSUME NEW s \in Requests \ {r} PROVE LookupOf(s)' = LookupOf(s)
  BY <1>1, <1>2, Untouched
<1>6. Store!Becomes(r, Store!Failed)
  BY <1>4, <1>5, LookupBecomes
<1>7. Lookups[r].at = "pending"
  BY <1>1, <1>3, PendingLookup DEF Looking
<1>8. QED
  BY <1>1, <1>6, <1>7 DEF Store!Fail, Versions

\* Every other lookup takes effect at its save: it loads the reviews it fetched
\* under the id it was asked with, or fails.
LEMMA SaveLoads ==
    ASSUME IInv, NEW r \in Requests, Save(r)
    PROVE  Store!Load(r) \/ Store!Fail(r)
<1>1. /\ pc[r] = "save" /\ pc' = [pc EXCEPT ![r] = "done"]
      /\ err' = [err EXCEPT ![r] = IF info[r].valid THEN @ ELSE "incomplete"]
      /\ UNCHANGED <<revision, asked, since, info>>
      /\ (info[r].valid /\ rows' = Upsert(rows, info[r])) \/ rows' = rows
  BY DEF Save, Saves
<1>2. /\ asked[r] # None /\ info[r] # None /\ err[r] = "nil"
      /\ asked[r] \in Calls /\ info[r] \in Reviews
  BY <1>1 DEF IInv, RequestInv, Stage, Found, Looking, Types
<1>3. ASSUME NEW s \in Requests \ {r} PROVE LookupOf(s)' = LookupOf(s)
  BY <1>1, Untouched DEF IInv, Types
<1>4. Returns(r)' <=> info[r].valid
  BY <1>1, <1>2 DEF Returns, IInv, Types
<1>5. /\ Lookups[r].at = "pending" /\ Lookups[r].provider = asked[r].provider
      /\ Lookups[r].id = asked[r].id /\ Lookups[r].since = since[r]
  BY <1>1, <1>2, PendingLookup DEF Looking
<1>6. pc'[r] = "done" /\ pc'[r] \notin Looking
  BY <1>1 DEF Looking, IInv, Types
<1>7. CASE info[r].valid
  <2> DEFINE p == asked[r].provider
             id == asked[r].id
             rev == info[r].rev
  <2>1. Store!Becomes(r, Store!Answered(Version(info[r])))
    BY <1>1, <1>2, <1>3, <1>4, <1>6, <1>7, SettledNext, LookupBecomes
  <2>2. info[r].provider = p /\ info[r].id = id /\ since[r] <= rev /\ rev <= revision[p]
    BY <1>1, <1>2 DEF IInv, RequestInv, Found
  <2>3. Version(info[r]) = Store!Version(p, id, rev)
    BY <2>2 DEF Version, Store!Version
  <2>4. p \in Providers /\ id \in Ids
    BY <1>2, ReviewersAssumption DEF Calls
  <2>5. id \in [q \in Providers |-> [i \in Ids |-> {i}]][p][asked[r].id]
    BY <2>4
  <2>6. rev \in since[r]..revision[p]
    <3>1. rev \in Nat /\ since[r] \in Nat /\ revision[p] \in Nat
      BY <1>2, <2>4 DEF Reviews, IInv, Types
    <3>2. QED
      BY <2>2, <3>1
  <2>7. \/ Versions' = Store!Upsert(Versions, Store!Version(p, id, rev))
        \/ Versions' = Versions
    <3>1. CASE rows' = Upsert(rows, info[r])
      BY <2>3, <3>1, UpsertVersions DEF Versions
    <3>2. CASE rows' = rows
      BY <3>2 DEF Versions
    <3>3. QED
      BY <1>1, <3>1, <3>2
  <2>8. Store!Load(r)
    BY <1>1, <1>5, <2>1, <2>3, <2>4, <2>5, <2>6, <2>7 DEF Store!Load
  <2>9. QED
    BY <2>8
<1>8. CASE ~ info[r].valid
  <2>1. Store!Becomes(r, Store!Failed)
    BY <1>1, <1>2, <1>3, <1>4, <1>6, <1>8, SettledNext, LookupBecomes
  <2>2. QED
    BY <1>1, <1>5, <1>8, <2>1 DEF Store!Fail, Versions
<1>9. QED
  BY <1>7, <1>8

\* A connection that is idle again has no lookup any more.
LEMMA FinishReturns ==
    ASSUME IInv, NEW r \in Requests, Finish(r)
    PROVE  Store!Return(r) \/ UNCHANGED Store!store
<1>1. /\ pc[r] = "replied" /\ asked'[r] = None /\ UNCHANGED <<rows, revision>>
  BY DEF Finish, IInv, Types
<1>2. ASSUME NEW s \in Requests \ {r} PROVE LookupOf(s)' = LookupOf(s)
  BY Untouched DEF Finish, IInv, Types
<1>3. LookupOf(r)' = Store!Idle
  BY <1>1, IdleNext
<1>4. CASE asked[r] = None
  <2>1. LookupOf(r)' = LookupOf(r)
    BY <1>3, <1>4, IdleAt
  <2>2. QED
    BY <1>1, <1>2, <2>1, StoreStutters DEF Versions
<1>5. CASE asked[r] # None
  <2>1. Lookups[r].at \in {"answered", "failed"}
    BY <1>1, <1>5, SettledAt, Forms DEF Looking
  <2>2. Store!Becomes(r, Store!Idle)
    BY <1>2, <1>3, LookupBecomes
  <2>3. Store!Return(r)
    BY <1>1, <2>1, <2>2 DEF Store!Return, Versions
  <2>4. QED
    BY <2>3
<1>6. QED
  BY <1>4, <1>5

\* A crash is a restart of the store: nobody waits any longer, and what it knew
\* is kept if the database is.
LEMMA CrashRestarts ==
    ASSUME NEW r \in Requests, Crash(r)
    PROVE  Store!Restart
<1>1. ASSUME NEW s \in Requests PROVE LookupOf(s)' = Store!Idle
  BY IdleNext DEF Crash
<1>2. Lookups' = [s \in Requests |-> Store!Idle]
  BY <1>1 DEF Lookups
<1>3. Versions' = IF Durable THEN Versions ELSE {}
  BY DEF Crash, Versions
<1>4. revision' = revision
  BY DEF Crash
<1>5. QED
  BY <1>2, <1>3, <1>4 DEF Store!Restart

\* A new review is a new revision of the site.
LEMMA PublishPublishes ==
    ASSUME IInv, NEW p \in Reviewers, Publish(p)
    PROVE  Store!Publish(p)
<1>1. ASSUME NEW s \in Requests PROVE LookupOf(s)' = LookupOf(s)
  BY Untouched DEF Publish
<1>2. UNCHANGED <<Versions, Lookups>>
  BY <1>1 DEF Publish, Versions, Lookups
<1>3. QED
  BY <1>2 DEF Publish, Store!Publish

\* However requests for reviews interleave and fail, whichever routes they come
\* through, the engine behaves as the metadata store of module MetadataStore,
\* one whose versions are always those of the id that was asked for.
THEOREM StoreImplemented == Spec => ImplementsStore
<1>1. Init => Store!Init
  <2> SUFFICES ASSUME Init PROVE Store!Init
    OBVIOUS
  <2>1. ASSUME NEW s \in Requests PROVE LookupOf(s) = Store!Idle
    BY IdleAt DEF Init, LookupInit
  <2>2. QED
    BY <2>1 DEF Init, LookupInit, Store!Init, Versions, Lookups
<1>2. IInv /\ [Next]_vars => [Store!Next]_Store!store
  <2> SUFFICES ASSUME IInv, [Next]_vars PROVE Store!Next \/ UNCHANGED Store!store
    OBVIOUS
  <2>1. CASE \E p \in Reviewers : Publish(p)
    BY <2>1, PublishPublishes, ReviewersAssumption DEF Store!Next
  <2>2. CASE \E r \in Requests : Finish(r)
    BY <2>2, FinishReturns DEF Store!Next
  <2>3. CASE \E r \in Requests : Review(r)
    BY <2>3, ReviewBegins DEF Store!Next
  <2>4. CASE \E r \in Requests : Lookup(r)
    BY <2>4, HitStep, PendingStep, FailStep, SaveLoads DEF Lookup, Store!Next
  <2>5. CASE \E r \in Requests : EngineFails(r)
    BY <2>5, RejectUnseen DEF EngineFails, Early
  <2>6. CASE \E r \in Requests :
                \/ Redirect(r) \/ Authenticate(r) \/ NotFound(r) \/ Static(r) \/ BadRequest(r)
                \/ RefuseImage(r) \/ CallEngine(r) \/ EnginePanics(r) \/ Recover(r)
                \/ Respond(r) \/ Arrive(r) \/ EngineReturns(r)
    BY <2>6, HandlersUnseen
  <2>7. CASE UNCHANGED vars \/ Start
    <3>1. ASSUME NEW s \in Requests PROVE LookupOf(s)' = LookupOf(s)
      BY <2>7, Untouched DEF vars, lookup, Start
    <3>2. QED
      BY <2>7, <3>1, StoreStutters DEF vars, lookup, Versions, Start
  <2>8. CASE \E r \in Requests : Crash(r)
    BY <2>8, CrashRestarts DEF Store!Next
  <2>9. QED
    BY <2>1, <2>2, <2>3, <2>4, <2>5, <2>6, <2>7, <2>8 DEF Next, Serve
<1>3. QED
  BY <1>1, <1>2, IInvCorrect, PTL DEF Spec, ImplementsStore, Store!Spec
=============================================================================
