--------------------------- MODULE ActorResolver ---------------------------
(***************************************************************************)
(* The resolver of actor names (stack/actor-resolver/resolver.py): an HTTP    *)
(* service with a thread per request and one cache file.  A thread looks into *)
(* the file, asks the sources without the lock, and saves what it found by    *)
(* reading the file again, writing a temporary file and renaming it.  The     *)
(* service may be stopped at any moment and started again.                    *)
(***************************************************************************)
EXTENDS Naturals

CONSTANTS
    Requests,    \* the requests, each with a thread of its own
    Queries,     \* names as clients write them
    Key,         \* Key[q]: lookup_name(q), folded; the key in the cache
    Preferred,   \* Preferred[q]: the canonical name in q, None without one
    Merged,      \* the name that merge chooses
    None,        \* no name, no thread, no answer
    Files,       \* contents of the cache file when the service first starts
    TTL,         \* CACHE_TTL
    MaxNow,      \* bound: the clock
    MaxCrashes   \* bound: restarts of the service

ASSUME TTLAssumption == TTL \in Nat /\ MaxNow \in Nat /\ MaxCrashes \in Nat
ASSUME NoneAssumption == None \notin Requests
ASSUME FilesAssumption ==
    \A f \in Files : \A k \in DOMAIN f.cache : f.cache[k].key = k /\ f.cache[k].saved = 0

VARIABLES
    now, crashes,
    file,      \* CACHE_FILE
    temporary, \* CACHE_FILE.tmp
    lock,      \* the thread that holds _lock
    stage,     \* where every thread is in resolve
    asked,     \* its query, its refresh flag and when it came
    cache,     \* the local variable cache
    answer     \* the entry it answers with, None for an error

resolverVars == <<now, crashes, file, temporary, lock, stage, asked, cache, answer>>

Entry(key, name, saved) == [key |-> key, name |-> name, saved |-> saved]

Empty == [k \in {} |-> None]
Put(entry, f) ==
    [k \in DOMAIN f \union {entry.key} |-> IF k = entry.key THEN entry ELSE f[k]]

\* A file that holds a cache, and one that is missing or does not parse.
Whole(f) == [parses |-> TRUE, cache |-> f]
Torn == [parses |-> FALSE, cache |-> Empty]

ResolverInit ==
    /\ now = 0 /\ crashes = 0
    /\ file \in Files /\ temporary = Torn
    /\ lock = None
    /\ stage = [r \in Requests |-> "new"]
    /\ asked = [r \in Requests |-> None]
    /\ cache = [r \in Requests |-> Empty]
    /\ answer = [r \in Requests |-> None]

TimePasses == now < MaxNow /\ now' = now + 1
        /\ UNCHANGED <<crashes, file, temporary, lock, stage, asked, cache, answer>>

\* load_cache: no file, or one that does not parse, is an empty cache.
Load(f) == IF f.parses THEN f.cache ELSE Empty

Ask(r, q, refresh) ==
    /\ stage[r] = "new"
    /\ asked' = [asked EXCEPT ![r] = [query |-> q, refresh |-> refresh, at |-> now]]
    /\ stage' = [stage EXCEPT ![r] = "check"]
    /\ UNCHANGED <<now, crashes, file, temporary, lock, cache, answer>>

KeyOf(r) == Key[asked[r].query]

\* The canonical name in the query replaces the one of the record.
Named(r, entry) ==
    LET name == Preferred[asked[r].query]
    IN  IF name = None THEN entry ELSE Entry(entry.key, name, entry.saved)

\* Mutated form: refresh is not looked at.
UsableAlways(r) ==
    /\ KeyOf(r) \in DOMAIN Load(file)
    /\ now - Load(file)[KeyOf(r)].saved < TTL

\* The entry of the cache that may be answered with.
Usable(r) ==
    /\ KeyOf(r) \in DOMAIN Load(file)
    /\ ~ asked[r].refresh
    /\ now - Load(file)[KeyOf(r)].saved < TTL

\* The first block under the lock, which writes nothing.
CheckCache(r) ==
    /\ stage[r] = "check" /\ lock = None
    /\ cache' = [cache EXCEPT ![r] = Load(file)]
    /\ IF Usable(r)
          THEN /\ answer' = [answer EXCEPT ![r] = Named(r, Load(file)[KeyOf(r)])]
               /\ stage' = [stage EXCEPT ![r] = "done"]
          ELSE stage' = [stage EXCEPT ![r] = "resolve"] /\ UNCHANGED answer
    /\ UNCHANGED <<now, crashes, file, temporary, lock, asked>>

\* At least one source has the actor; how many others fail does not matter.
Resolve(r) ==
    /\ stage[r] = "resolve"
    /\ answer' = [answer EXCEPT ![r] = Named(r, Entry(KeyOf(r), Merged, now))]
    /\ stage' = [stage EXCEPT ![r] = "save"]
    /\ UNCHANGED <<now, crashes, file, temporary, lock, asked, cache>>

\* The search fails, or no source has the actor.
ResolveFails(r) ==
    /\ stage[r] = "resolve"
    /\ stage' = [stage EXCEPT ![r] = "done"]
    /\ UNCHANGED <<now, crashes, file, temporary, lock, asked, cache, answer>>

\* Mutated form: the cache is not read again.
ReloadNot(r) == cache[r]

Reload(r) == Load(file)

\* The second block under the lock: the entry goes into what the file holds now.
LockAndLoad(r) ==
    /\ stage[r] = "save" /\ lock = None
    /\ lock' = r
    /\ answer' = [answer EXCEPT ![r] = Entry(@.key, @.name, now)]
    /\ cache' = [cache EXCEPT ![r] = Put(answer'[r], Reload(r))]
    /\ stage' = [stage EXCEPT ![r] = "open"]
    /\ UNCHANGED <<now, crashes, file, temporary, asked>>

\* Mutated form: the cache file itself is written.
OpenInPlace(r) ==
    /\ stage[r] = "open"
    /\ file' = Torn /\ UNCHANGED temporary
    /\ stage' = [stage EXCEPT ![r] = "write"]
    /\ UNCHANGED <<now, crashes, lock, asked, cache, answer>>

\* save_cache opens the temporary file, which empties it ...
Open(r) ==
    /\ stage[r] = "open"
    /\ temporary' = Torn
    /\ stage' = [stage EXCEPT ![r] = "write"]
    /\ UNCHANGED <<now, crashes, file, lock, asked, cache, answer>>

\* ... writes it ...
Write(r) ==
    /\ stage[r] = "write"
    /\ temporary' = Whole(cache[r])
    /\ stage' = [stage EXCEPT ![r] = "replace"]
    /\ UNCHANGED <<now, crashes, file, lock, asked, cache, answer>>

\* ... and renames it.  The lock is released and the record returned.
Replace(r) ==
    /\ stage[r] = "replace"
    /\ file' = temporary /\ temporary' = Torn
    /\ lock' = None
    /\ stage' = [stage EXCEPT ![r] = "done"]
    /\ UNCHANGED <<now, crashes, asked, cache, answer>>

\* Inside save_cache, under the lock.
Critical == {"open", "write", "replace"}

\* Mutated form: the lock is released on the way out of a save that succeeds.
SaveFailsLocked(r) ==
    /\ stage[r] \in Critical
    /\ answer' = [answer EXCEPT ![r] = None]
    /\ stage' = [stage EXCEPT ![r] = "done"]
    /\ UNCHANGED <<now, crashes, file, temporary, lock, asked, cache>>

\* An exception of the file system leaves the block, and with it the lock.
SaveFails(r) ==
    /\ stage[r] \in Critical
    /\ lock' = None
    /\ answer' = [answer EXCEPT ![r] = None]
    /\ stage' = [stage EXCEPT ![r] = "done"]
    /\ UNCHANGED <<now, crashes, file, temporary, asked, cache>>

\* The service is stopped and started: threads are gone, the files stay.
Crash ==
    /\ crashes < MaxCrashes
    /\ crashes' = crashes + 1
    /\ lock' = None
    /\ stage' = [r \in Requests |-> IF stage[r] \in {"new", "done"} THEN stage[r] ELSE "lost"]
    /\ UNCHANGED <<now, file, temporary, asked, cache, answer>>

Serve(r) ==
    \/ CheckCache(r)
    \/ Resolve(r) \/ ResolveFails(r)
    \/ LockAndLoad(r) \/ Open(r) \/ Write(r) \/ Replace(r) \/ SaveFails(r)

ResolverNext ==
    \/ TimePasses \/ Crash
    \/ \E r \in Requests :
          \/ \E q \in Queries, refresh \in BOOLEAN : Ask(r, q, refresh)
          \/ Serve(r)

ResolverSpec == ResolverInit /\ [][ResolverNext]_resolverVars
FairResolverSpec == ResolverSpec /\ \A r \in Requests : WF_resolverVars(Serve(r))

-----------------------------------------------------------------------------
\* No thread undoes what another has saved for some other name, and no restart
\* loses it: an entry of the cache only ever gives way to a later one.
NoEntryLost ==
    [][\A k \in DOMAIN Load(file) :
          /\ k \in DOMAIN Load(file')
          /\ Load(file')[k].saved >= Load(file)[k].saved]_resolverVars

\* An answer is about the actor that was asked for, under the name the query
\* insists on, and is no older than the cache may be, or than the request when
\* that asks for a refresh, whoever saved it and however often the service was
\* restarted in between.
AnswerSound ==
    \A r \in Requests : stage[r] = "done" /\ answer[r] # None =>
        /\ answer[r].key = KeyOf(r)
        /\ Preferred[asked[r].query] # None => answer[r].name = Preferred[asked[r].query]
        /\ \/ asked[r].at <= answer[r].saved
           \/ asked[r].at < answer[r].saved + TTL /\ ~ asked[r].refresh

\* Every request is answered or lost with the service: the lock is given back
\* whatever becomes of a save.
RequestAnswered ==
    \A r \in Requests : stage[r] = "check" ~> stage[r] \in {"done", "lost"}
=============================================================================
