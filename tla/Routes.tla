------------------------------- MODULE Routes -------------------------------
(***************************************************************************)
(* The HTTP server (package route): every request goes through the recovery, *)
(* the redirection, the authentication of its group and its handler, each of  *)
(* which replies and aborts or lets the next one go on.  Handlers call the    *)
(* engine; the lookup of reviews is that of module ReviewLookup, the other    *)
(* calls return anything they may return.  A panic is recovered if it happens *)
(* on the goroutine of a request; one of a goroutine that a search has         *)
(* started ends the process, and every request that it was serving.           *)
(***************************************************************************)
EXTENDS ReviewLookup, Sequences, SequencesExt

CONSTANT
    Takes     \* bound: Takes[r]: the requests r is used for

VARIABLES
    http,      \* the request: its route, whether it asks for a redirection, its token
    results,   \* resultsLength
    written,   \* the statuses that have been written in reply
    up         \* whether the process runs

handling == <<http, results, written>>
vars == <<lookup, pc, handling, up>>

\* The routes, by what their handlers do: index, modules and providers are
\* static, an info or a search is that of a movie or of an actor.
Handlers == {"static", "translate", "image", "db", "info", "search", "review", "nowhere"}

\* A request, with or without a redirect parameter and a valid token.
HTTPRequest == [route : Handlers, redirect : BOOLEAN, authorized : BOOLEAN]

ASSUME TakesAssumption == Takes \in [Requests -> SUBSET HTTPRequest]

Private == {"db", "info", "search", "review"}

\* Their handlers bind the parameters first and call the engine afterwards.
Binding == {"translate", "image", "info", "search", "review"}

NoRequest == [route |-> "none", redirect |-> FALSE, authorized |-> FALSE]

Init ==
    /\ LookupInit
    /\ pc = [r \in Requests |-> "idle"]
    /\ http = [r \in Requests |-> NoRequest]
    /\ results = [r \in Requests |-> 0]
    /\ written = [r \in Requests |-> <<>>]
    /\ up = TRUE

Arrive(r) ==
    /\ up /\ pc[r] = "idle"
    /\ \E request \in Takes[r] : http' = [http EXCEPT ![r] = request]
    /\ pc' = [pc EXCEPT ![r] = "redirect"]
    /\ UNCHANGED <<lookup, results, written, up>>

\* Write the status and abort the handlers that are left.
Abort(r, status) ==
    /\ written' = [written EXCEPT ![r] = Append(@, status)]
    /\ pc' = [pc EXCEPT ![r] = "replied"]
    /\ UNCHANGED <<lookup, http, results>>

GoTo(r, stage) ==
    /\ pc' = [pc EXCEPT ![r] = stage]
    /\ UNCHANGED <<lookup, handling>>

Redirect(r) ==
    /\ pc[r] = "redirect"
    /\ IF http[r].redirect
          THEN \/ Abort(r, 400)  \* malformed
               \/ Abort(r, 404)  \* of no known provider
               \/ GoTo(r, "engine")
          ELSE GoTo(r, "auth")

Authenticate(r) ==
    /\ pc[r] = "auth"
    /\ IF http[r].route \in Private /\ ~ http[r].authorized
          THEN Abort(r, 401)
          ELSE GoTo(r, "handler")

NotFound(r) ==
    /\ pc[r] = "handler"
    /\ http[r].route = "nowhere"
    /\ Abort(r, 404)

\* getIndex, getModules, getProviders.
Static(r) ==
    /\ pc[r] = "handler"
    /\ http[r].route = "static"
    /\ Abort(r, 200)

BadRequest(r) ==
    /\ pc[r] = "handler"
    /\ http[r].route \in Binding
    /\ Abort(r, 400)

\* An image of a provider that is not known, or an actor's thumb or backdrop.
RefuseImage(r) ==
    /\ pc[r] = "handler"
    /\ http[r].route = "image"
    /\ \E status \in {404, 400} : Abort(r, status)

CallEngine(r) ==
    /\ pc[r] = "handler"
    /\ http[r].route \in {"translate", "image", "db", "info", "search"}
    /\ GoTo(r, "engine")

\* getReview: the provider in the path must be one of movies, and when there
\* is a homepage, its provider and its id are looked up instead.
Review(r) ==
    /\ pc[r] = "handler"
    /\ http[r].route = "review"
    /\ \/ Abort(r, 400)  \* not the name of a movie provider
       \/ /\ \E p \in Providers, lazy \in BOOLEAN :
                \/ \E raw \in Ids : ReviewsByID(r, p, raw, lazy)
                \/ \E parsed \in Ids \union {NoId} : ReviewsByURL(r, p, parsed, lazy)
          /\ UNCHANGED handling
       \/ /\ \E e \in {"unparsed", "provider not found"} : Reject(r, e)
          /\ UNCHANGED handling

\* A search that finds nothing is no error of the engine.
EngineReturns(r) ==
    /\ pc[r] = "engine"
    /\ \E n \in {0, 1} :
          /\ n = 0 => http[r].route = "search" /\ ~ http[r].redirect
          /\ results' = [results EXCEPT ![r] = n]
    /\ pc' = [pc EXCEPT ![r] = "done"]
    /\ UNCHANGED <<lookup, http, written>>

\* The engine's errors; the version of the database has one of its own.
EngineErrors ==
    {"invalid id", "info not found", "incomplete", "upstream", "upstream 404", "upstream 204"}

EngineFails(r) ==
    /\ pc[r] = "engine"
    /\ \E e \in IF http[r].route = "db" /\ ~ http[r].redirect THEN {"upstream"} ELSE EngineErrors :
          Reject(r, e)
    /\ UNCHANGED handling

\* On the goroutine of the request.
EnginePanics(r) ==
    /\ pc[r] = "engine"
    /\ GoTo(r, "panic")

\* A search of all providers asks each in a goroutine of its own, and some ask
\* for details in more of them: nothing recovers a panic there, the process
\* exits, and what it knew of any request is gone, as is a table in memory.
Crash(r) ==
    /\ pc[r] = "engine" /\ http[r].route = "search" /\ ~ http[r].redirect
    /\ up' = FALSE
    /\ rows' = IF Durable THEN rows ELSE {}
    /\ pc' = [s \in Requests |-> "idle"]
    /\ http' = [s \in Requests |-> NoRequest]
    /\ results' = [s \in Requests |-> 0]
    /\ written' = [s \in Requests |-> <<>>]
    /\ asked' = [s \in Requests |-> None]
    /\ since' = [s \in Requests |-> 0]
    /\ info' = [s \in Requests |-> None]
    /\ err' = [s \in Requests |-> "nil"]
    /\ UNCHANGED revision

\* External: somebody starts the server again.
Start ==
    /\ ~ up
    /\ up' = TRUE
    /\ UNCHANGED <<lookup, pc, handling>>

\* abortWithError: the code of an HTTPError, that of an error whose text is
\* the text of a status (what a visit returns for an HTTP error), else 500.
StatusOf(e) ==
    CASE e \in {"invalid id", "invalid url"}                               -> 400
      [] e \in {"info not found", "provider not found", "upstream 404"}    -> 404
      [] e = "upstream 204"                                                -> 204
      [] OTHER                                                             -> 500

\* Mutated form: c.Redirect without c.Abort.
RespondRedirect(r) ==
    /\ pc[r] = "done"
    /\ IF err[r] = "nil" /\ http[r].redirect
          THEN /\ written' = [written EXCEPT ![r] = Append(@, 307)]
               /\ pc' = [pc EXCEPT ![r] = "auth"]
               /\ UNCHANGED <<lookup, http, results>>
          ELSE Abort(r, IF err[r] # "nil" THEN StatusOf(err[r]) ELSE 200)

\* The engine has returned: to the redirection or to the handler.
Respond(r) ==
    /\ pc[r] = "done"
    /\ IF err[r] # "nil" THEN Abort(r, StatusOf(err[r]))
       ELSE IF http[r].redirect THEN Abort(r, 307)
       ELSE IF http[r].route = "search" /\ results[r] = 0 THEN Abort(r, 404)
       ELSE Abort(r, 200)

\* Mutated form: the panic is recovered, and nothing is sent.
RecoverSilently(r) ==
    /\ pc[r] = "panic"
    /\ GoTo(r, "replied")

\* gin.CustomRecovery.
Recover(r) ==
    /\ pc[r] = "panic"
    /\ Abort(r, 500)

\* The connection takes its next request.
Finish(r) ==
    /\ pc[r] = "replied"
    /\ pc' = [pc EXCEPT ![r] = "idle"]
    /\ http' = [http EXCEPT ![r] = NoRequest]
    /\ results' = [results EXCEPT ![r] = 0]
    /\ written' = [written EXCEPT ![r] = <<>>]
    /\ asked' = [asked EXCEPT ![r] = None]
    /\ since' = [since EXCEPT ![r] = 0]
    /\ info' = [info EXCEPT ![r] = None]
    /\ err' = [err EXCEPT ![r] = "nil"]
    /\ UNCHANGED <<rows, revision, up>>

Serve(r) ==
    /\ UNCHANGED up
    /\ \/ Redirect(r) \/ Authenticate(r)
       \/ NotFound(r) \/ Static(r) \/ BadRequest(r) \/ RefuseImage(r) \/ CallEngine(r) \/ Review(r)
       \/ EngineReturns(r) \/ EngineFails(r) \/ EnginePanics(r)
       \/ Lookup(r) /\ UNCHANGED handling
       \/ Respond(r) \/ Recover(r)

Next ==
    \/ \E p \in Reviewers : Publish(p) /\ UNCHANGED <<handling, up>>
    \/ \E r \in Requests : Arrive(r) \/ Serve(r) \/ Crash(r) \/ Finish(r)
    \/ Start

Spec == Init /\ [][Next]_vars

\* A goroutine that can run does, and calls of sites and of the database end:
\* requests have timeouts.  Nothing makes a search panic, or starts the server.
FairSpec == Spec /\ \A r \in Requests : WF_vars(Serve(r))

-----------------------------------------------------------------------------
\* Middlewares and handlers reply in several places, and return after each:
\* a request is replied to once, and with 200 only if it was let through and
\* something was found for it, with 307 only if a redirection was asked for.
OneReply ==
    \A r \in Requests :
        /\ Len(written[r]) = IF pc[r] = "replied" THEN 1 ELSE 0
        /\ 200 \in ToSet(written[r]) =>
              /\ err[r] = "nil" /\ ~ http[r].redirect
              /\ http[r].route \in Private => http[r].authorized
              /\ http[r].route = "search" => results[r] > 0
              /\ http[r].route = "review" => info[r] # None
        /\ 307 \in ToSet(written[r]) => err[r] = "nil" /\ http[r].redirect

\* Every request is replied to, also when the engine panics on its goroutine,
\* and whatever the requests beside it do; unless a provider panics in one that
\* a search has started (engine/movie.go:106, engine/actor.go:122), with which
\* the server goes down.
RequestEnds == \A r \in Requests : pc[r] # "idle" ~> written[r] # <<>> \/ ~ up
=============================================================================
