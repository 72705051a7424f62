------------------------------ MODULE Scraping ------------------------------
(***************************************************************************)
(* One call of a scraping provider's function.                             *)
(*                                                                         *)
(* Catalogue maps the name of a function to its steps.  A site is the set  *)
(* of elements its pages lack and the set of keys that are blank.  Between *)
(* two visits a goroutine only works on its own pages and on the answer,   *)
(* so an action is the end of a visit together with all that runs before   *)
(* the goroutine visits again, waits or ends.                              *)
(***************************************************************************)
EXTENDS ScrapeSteps, Naturals, SequencesExt

CONSTANT Catalogue

VARIABLES
  call,     \* the function
  site,     \* what the pages of the site have
  threads,  \* what each goroutine has still to do; the first is the caller's
  arrived,  \* the pages that have been visited
  info,     \* the answer: for every field the sequence of its values
  err,      \* the error to return
  failed,   \* whether the caller's goroutine has set err
  status    \* "idle", "running", "done" or "panic"

vars == <<call, site, threads, arrived, info, err, failed, status>>

Functions == DOMAIN Catalogue
Fields == {"ID", "Number", "Title", "Summary", "Cover", "Thumb", "BigThumb", "Previews", "First", "Video", "HLS", "Actors",
           "Genres", "Tags", "Details", "Director", "Date", "Score", "Results", "Reviews", "Ids", "Source", "Build",
           "Gallery", "Age", "Caribbeancom", "Homepage", "Name", "Aliases", "Images"}
Scalars == {"ID", "Number", "Title", "Cover", "Thumb", "BigThumb", "Video", "HLS", "Director", "Date", "Score", "Name"}
Required == {"ID", "Number", "Title", "Cover"}

Blank == <<"", "", 0>>
PageURL == <<"page", "url", 0>>
One(v) == IF v = Blank THEN <<>> ELSE <<v>>
OrPage(v) == IF v = Blank THEN PageURL ELSE v

---------------------------------------------------------------------------
(* Where the values of a function's fields come from: field, element, key, *)
(* and the path of pages and elements that leads there.  The conditions on *)
(* a key have field "".                                                    *)
Effects == {"set", "seturl", "text", "default", "defaulturl", "add", "addurl", "addtext", "addfirst", "overflow", "mean"}
Guards == {"iftext", "parsed", "require", "needtext"}
Nodes == {"on", "else", "decode", "when", "whennot"}
Visits == {"visit", "visitany"}

KeyOf(s) == IF s.op = "overflow" THEN "" ELSE s.y

RECURSIVE Sources(_, _, _), Conditions(_)
Sources(steps, element, path) ==
  UNION {LET s == steps[i]
             here == [field |-> IF s.op \in Guards THEN "" ELSE s.x, element |-> element, key |-> KeyOf(s), path |-> path, op |-> s.op]
         IN  (IF s.op \in Effects \union Guards THEN {here} ELSE {}) \union
             Sources(s.do, IF s.op \in Nodes THEN s.x ELSE element,
                     path \union (CASE s.op \in Nodes \union Visits -> {<<s.op, s.x>>}
                                    [] s.op = "iftext" -> {<<s.op, <<element, s.y>>>>}
                                    [] OTHER -> {}))
         : i \in DOMAIN steps}

Conditions(steps) ==
  UNION {(IF steps[i].op \in {"when", "whennot", "decode"} THEN {steps[i].x} ELSE {}) \union Conditions(steps[i].do) : i \in DOMAIN steps}

SourcesOf == [f \in Functions |-> Sources(Catalogue[f], "", {})]
IsFallback(s) == \E p \in s.path : p[1] = "else"
Elements(sources) == {s.element : s \in sources}
Keys(sources) == {<<s.element, s.key>> : s \in sources}

(* The sites a call is tried on: all of its conditions hold and the        *)
(* sources of one field are absent, blank or there in every combination,   *)
(* with two nodes of each other element or none; or some conditions do     *)
(* not hold, and every element is there.                                   *)
Many(sources) == IF \E s \in sources : s.field = "Ids" THEN 4 ELSE 2

Sites(f) ==
  LET sources == SourcesOf[f]
      conditions == Conditions(Catalogue[f])
      groups == {{s \in sources : s.field = field} : field \in {s.field : s \in sources} \ {"Details"}}
      Site(absent, blank, nodes) == [absent |-> absent, blank |-> blank, nodes |-> nodes]
      Varied(group, rest) ==
        UNION {{Site(gone \union rest, b, IF rest = {} THEN Many(sources) ELSE 1) : b \in SUBSET Keys({s \in group : s.element \notin gone})}
               : gone \in SUBSET (Elements(group) \ {""})}
  IN  UNION {Varied(group, {}) \union Varied(group, (Elements(sources) \ Elements(group)) \ conditions) : group \in groups}
      \union {Site(off, {}, n) : off \in SUBSET conditions, n \in {1, Many(sources)}}

---------------------------------------------------------------------------
(* What a step does to the answer.                                         *)
Read(s) == IF <<s.node[1], KeyOf(s)>> \in site.blank THEN Blank ELSE <<s.node[1], KeyOf(s), s.node[2]>>

Target(s, a) == IF s.op = "overflow" /\ a[s.x] # <<>> THEN s.y ELSE s.x

Content(s, a) ==
  LET old == a[Target(s, a)]
      v == Read(s)
  IN  CASE s.op = "set"         -> One(v)
        [] s.op = "seturl"      -> <<OrPage(v)>>
        [] s.op = "text"        -> IF v = Blank THEN old ELSE <<v>>
        [] s.op = "default"     -> IF old = <<>> THEN One(v) ELSE old
        [] s.op = "defaulturl"  -> IF old = <<>> THEN <<OrPage(v)>> ELSE old
        [] s.op = "add"         -> Append(old, v)
        [] s.op = "addurl"      -> Append(old, OrPage(v))
        [] s.op = "addtext"     -> IF v = Blank THEN old ELSE Append(old, v)
        [] s.op = "addfirst"    -> IF old = <<>> THEN <<v>> ELSE old
        [] s.op = "overflow"    -> Append(old, v)
        [] s.op = "mean"        -> <<v>>
        [] s.op = "given"       -> <<<<"given", s.y, 0>>>>
        [] s.op = "clear"       -> <<>>
        [] s.op = "copy"        -> a[s.y]
        [] s.op = "dropfirst"   -> Tail(old)
        [] s.op = "copydefault" -> IF old = <<>> THEN a[s.y] ELSE old
        [] s.op = "copyfirst"   -> IF old = <<>> /\ a[s.y] # <<>> THEN <<Head(a[s.y])>> ELSE old

(* The steps a condition or a callback puts in the place of s, for the     *)
(* answer a and the error e.                                               *)
Bind(do, node) == [i \in DOMAIN do |-> [do[i] EXCEPT !.node = node]]

Count(s) == CASE s.op = "whennot" -> IF s.x \in site.absent THEN 1 ELSE 0
              [] s.op # "whennot" /\ s.x \in site.absent -> 0
              [] OTHER -> IF s.op \in {"when", "decode"} THEN 1 ELSE site.nodes

ForNodes(s, n) == FlattenSeq([i \in 1..n |-> Bind(s.do, <<s.x, i>>)])

Holds(s, a, e) ==
  CASE s.op = "if"      -> a[s.x] # <<>>
    [] s.op = "unless"  -> a[s.x] = <<>>
    [] s.op = "incomplete" -> \E f \in Required : a[f] = <<>>
    [] s.op = "ifok"    -> e = "none"
    [] s.op = "iferror" -> e # "none"
    [] s.op = "ifrefused" -> e = "net"
    [] OTHER            -> Read(s) # Blank

Expansion(s, a, e) ==
  CASE s.op \in Nodes    -> ForNodes(s, Count(s))
    [] s.op = "foreach"  -> ForNodes(s, IF Len(a[s.x]) > 3 THEN 3 ELSE Len(a[s.x]))
    [] s.op \in {"if", "unless", "incomplete", "ifok", "iferror", "ifrefused", "iftext", "parsed", "require"}
                         -> IF Holds(s, a, e) THEN Bind(s.do, s.node) ELSE <<>>
    [] OTHER             -> <<>>

(* The handler's error: a body or a script that does not parse, a value    *)
(* that must be there and is not, an error of the site.                    *)
Fails(s) == \/ s.op = "fail"
            \/ s.op = "decode" /\ Count(s) = 0
            \/ s.op \in {"parsed", "require"} /\ Read(s) = Blank

ErrorAfter(s, e) == IF Fails(s) THEN "handler" ELSE IF s.op \in {"parsed", "adopt", "handled"} THEN "none" ELSE e

(* Goroutine t of m = [threads, info, err, failed, status] takes its next  *)
(* step, and runs until it visits, waits, ends or panics.  (The sets of    *)
(* one element make TLC evaluate what it binds once.)                      *)
Writes == Effects \union {"given", "clear", "copy", "copydefault", "copyfirst", "dropfirst"}

OneStep(t, m) ==
  LET s == Head(m.threads[t])
      rest == IF s.op = "return" THEN <<>> ELSE Expansion(s, m.info, m.err) \o Tail(m.threads[t])
      spawned == IF s.op = "go" THEN <<Bind(s.do, s.node)>> ELSE <<>>
  IN  [threads |-> [m.threads EXCEPT ![t] = rest] \o spawned,
       info    |-> IF s.op \in Writes THEN [m.info EXCEPT ![Target(s, m.info)] = Content(s, m.info)] ELSE m.info,
       err     |-> ErrorAfter(s, m.err),
       failed  |-> (m.failed \/ Fails(s)) /\ s.op # "handled",
       status  |-> IF s.op = "needtext" /\ Read(s) = Blank THEN "panic" ELSE m.status]

Stops(t, m) == m.threads[t] = <<>> \/ m.status = "panic" \/ Head(m.threads[t]).op \in Visits \union {"wait"}

RECURSIVE Execute(_, _)
Execute(t, m) == IF Stops(t, m) THEN m ELSE CHOOSE r \in {Execute(t, n) : n \in {OneStep(t, m)}} : TRUE

RECURSIVE StartFrom(_, _)
StartFrom(t, m) == IF t > Len(m.threads) THEN m ELSE CHOOSE r \in {StartFrom(t + 1, n) : n \in {Execute(t, m)}} : TRUE

(* Goroutine t goes on with todo; those it starts run as far as they can.  *)
Become(t, m) ==
  \E own \in {Execute(t, m)} : \E n \in {StartFrom(Len(m.threads) + 1, own)} :
    /\ threads' = n.threads
    /\ info' = n.info
    /\ err' = n.err
    /\ failed' = n.failed
    /\ status' = n.status

Resume(t, todo, e, f) ==
  Become(t, [threads |-> [threads EXCEPT ![t] = todo], info |-> info, err |-> e, failed |-> f, status |-> status])

---------------------------------------------------------------------------
Nothing == [f \in Fields |-> <<>>]

Init ==
  /\ call \in Functions
  /\ site \in Sites(call)
  /\ threads = <<<<>>>>
  /\ arrived = {}
  /\ info = Nothing
  /\ err = "none"
  /\ failed = FALSE
  /\ status = "idle"

Call ==
  /\ status = "idle"
  /\ Become(1, [threads |-> <<Catalogue[call]>>, info |-> Nothing, err |-> "none", failed |-> FALSE, status |-> "running"])
  /\ UNCHANGED <<call, site, arrived>>

(* The id is not in the URL the function was called with.                  *)
TakesURL == \E i \in DOMAIN Catalogue[call] : Catalogue[call][i].op = "given" /\ Catalogue[call][i].y = "url"

Refuse ==
  /\ status = "idle"
  /\ TakesURL
  /\ err' = "url"
  /\ failed' = TRUE
  /\ status' = "done"
  /\ UNCHANGED <<call, site, threads, arrived, info>>

AtVisit(t, ops) == status \in {"running", "done"} /\ threads[t] # <<>> /\ Head(threads[t]).op \in ops

(* The page arrives: the callbacks run, then the error of the visit, nil,  *)
(* is assigned if the policy says so.                                      *)
Adopt == Step("adopt", "", "", <<>>)

VisitOK(t) ==
  /\ AtVisit(t, Visits)
  /\ LET s == Head(threads[t])
         after == IF s.y \in {"assign", "stop"} THEN <<Adopt>> ELSE <<>>
     IN  Resume(t, Bind(s.do, s.node) \o after \o Tail(threads[t]), err, failed)
  /\ arrived' = arrived \union {Head(threads[t]).x}
  /\ UNCHANGED <<call, site>>

(* The request fails, or the server answers with an HTTP error.            *)
Refused(t, what) ==
  LET s == Head(threads[t])
  IN  CASE s.y = "stop"             -> Resume(t, <<>>, what, TRUE)
        [] s.y \in {"assign", "keep"} -> Resume(t, Tail(threads[t]), what, TRUE)
        [] s.y = "ignore"           -> Resume(t, Tail(threads[t]), err, failed)

VisitFails(t) ==
  /\ AtVisit(t, Visits)
  /\ Refused(t, "net")
  /\ UNCHANGED <<call, site, arrived>>

(* The page of an HTTP error has none of the elements, but its callbacks   *)
(* of the response run.                                                    *)
VisitStatus(t) ==
  /\ AtVisit(t, {"visit"})
  /\ Refused(t, "status")
  /\ UNCHANGED <<call, site, arrived>>

VisitErrorPage(t) ==
  /\ AtVisit(t, {"visitany"})
  /\ LET s == Head(threads[t])
         after == IF s.y \in {"assign", "stop"} THEN <<Adopt>> ELSE <<>>
         scraped == SelectSeq(s.do, LAMBDA step : step.op \notin Nodes)
         parsed == IF \E i \in DOMAIN s.do : s.do[i].op = "decode" THEN <<Fail>> ELSE <<>>
     IN  Resume(t, parsed \o scraped \o after \o Tail(threads[t]), err, failed)
  /\ UNCHANGED <<call, site, arrived>>

(* wg.Wait(), c.Wait(): every goroutine that was started has ended.        *)
Join(t) ==
  /\ AtVisit(t, {"wait"})
  /\ \A u \in DOMAIN threads \ {1} : threads[u] = <<>>
  /\ Resume(t, Tail(threads[t]), err, failed)
  /\ UNCHANGED <<call, site, arrived>>

Finish ==
  /\ status = "running"
  /\ threads[1] = <<>>
  /\ status' = "done"
  /\ UNCHANGED <<call, site, threads, arrived, info, err, failed>>

(* The same call again.                                                    *)
Again ==
  /\ status \in {"done", "panic"}
  /\ \A t \in DOMAIN threads : status = "panic" \/ threads[t] = <<>>
  /\ threads' = <<<<>>>>
  /\ arrived' = {}
  /\ info' = Nothing
  /\ err' = "none"
  /\ failed' = FALSE
  /\ status' = "idle"
  /\ UNCHANGED <<call, site>>

Advance(t) == VisitOK(t) \/ VisitFails(t) \/ VisitStatus(t) \/ VisitErrorPage(t) \/ Join(t)

Next == Call \/ Refuse \/ Finish \/ Again \/ \E t \in DOMAIN threads : Advance(t)

Spec == Init /\ [][Next]_vars

(* A visit ends, at the latest by the timeout of its request, and a        *)
(* goroutine that can run does.                                            *)
FairSpec == Spec /\ WF_vars(Call) /\ WF_vars(Finish \/ \E t \in DOMAIN threads : Advance(t))

---------------------------------------------------------------------------
Answered == status = "done"

(* No goroutine outlives the call: what it would still write is not in the *)
(* answer the caller has been given.                                       *)
NoGoroutineLeft == Answered => \A t \in DOMAIN threads : threads[t] = <<>>

(* A source that is on its page and not blank.  A URL is never blank: that *)
(* of an attribute that is missing is the page's own.                      *)
Reached(s) == \A p \in s.path : IF p[1] \in Visits THEN p[2] \in arrived 
                                ELSE IF p[1] = "iftext" THEN p[2] \notin site.blank
                                ELSE (p[2] \in site.absent) = (p[1] = "whennot")
HasValue(s) == Reached(s) /\ (<<s.element, s.key>> \notin site.blank \/ s.op \in {"seturl", "defaulturl", "addurl"})

FallbacksOf == [f \in Functions |-> {s \in SourcesOf[f] : IsFallback(s) /\ s.field \in Fields}]
MainsOf == [f \in Functions |-> {s \in SourcesOf[f] : ~IsFallback(s)}]
MainHasValue(field) == \E main \in MainsOf[call] : main.field = field /\ HasValue(main)

Used(s) == \E v \in ToSet(info[s.field]) : v[1] = s.element /\ v[2] = s.key

(* FANZA's "Preview Images Digital (Fallback)" is one in its name only.    *)
FallbacksHere == {s \in FallbacksOf[call] : <<call, s.field>> \notin {<<"FANZAMono", "Previews">>}}

(* A value of a fallback is in a field only where no other source of the   *)
(* field had one, and where no other source has one a fallback that has a  *)
(* value serves the field.                                                 *)
FallbacksServe == Answered => \A s \in FallbacksHere :
  IF MainHasValue(s.field) THEN ~Used(s) ELSE HasValue(s) => info[s.field] # <<>>

(* What the comments of the code call a fallback is one, FANZA's too.      *)
FallbacksAreFallbacks ==
  Answered => \A s \in FallbacksOf[call] : HasValue(s) /\ ~MainHasValue(s.field) => info[s.field] # <<>>

(* A field that is completed from another one once a page has been read is *)
(* not blank if the other is not: the completion comes after everything    *)
(* the other field gets.                                                   *)
RECURSIVE Completions(_, _)
Completions(steps, page) ==
  UNION {LET s == steps[i]
         IN  CASE s.op \in {"copy", "copydefault", "copyfirst"} -> {<<page, s.x, s.y>>}
               [] s.op \in Visits -> Completions(s.do, s.x)
               [] s.op = "decode" -> Completions(s.do, page)
               [] OTHER -> {}
         : i \in DOMAIN steps}

CompletionsOf == [f \in Functions |-> Completions(Catalogue[f], "")]

Completed == Answered => \A c \in CompletionsOf[call] : c[1] \in arrived /\ info[c[3]] # <<>> => info[c[2]] # <<>>

(* The error of a callback reaches the caller.  It does not where the      *)
(* function assigns the visit's error, nil, over it, or a second script    *)
(* that parses takes the place of the first.                               *)
Overwriters == {"FC2HubSearch", "HeyzoReviews", "ThePornDBActor", "ThePornDBActorSearch", "ThePornDBMovie", "ThePornDBSearch"}

ErrorsKept == Answered /\ failed /\ call \notin Overwriters => err # "none"

Answer == IF ~Answered THEN "none" ELSE IF err # "none" THEN "error"
          ELSE IF \A f \in Required : info[f] # <<>> THEN "complete" ELSE "incomplete"

Contract == INSTANCE ProviderCall WITH phase <- status, answer <- Answer

(* Every function is a call the engine can rely on: it ends, and its       *)
(* answer does not change afterwards.                                      *)
KeepsContract == Contract!Spec
=============================================================================
