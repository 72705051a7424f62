-------------------------- MODULE ActorCreationLock --------------------------
(***************************************************************************)
(* Helpers/ActorCreationLock.cs of the plugin, which its build for Emby uses: *)
(* a task that is about to create the actors of a movie takes one semaphore  *)
(* per actor name, in the order of the names, and gives them back a while     *)
(* after it disposes of the lock, when the server has saved the actors.       *)
(*                                                                          *)
(* A task stands for one ActorCreationLock; a name for the key NormalizeKey  *)
(* makes of it, as a number in the order StringComparer.OrdinalIgnoreCase    *)
(* gives the keys.                                                           *)
(***************************************************************************)
EXTENDS Integers, FiniteSets

CONSTANTS
    Tasks,    \* calls of AcquireAsync
    Names     \* keys of actor names

ASSUME NamesAssumption == Names \subseteq Nat /\ IsFiniteSet(Names)

VARIABLES
    where,    \* where every task is
    want,     \* the names it was called with
    owned,    \* the names whose semaphore it has taken and not released
    count     \* the count of every semaphore

lockVars == <<where, want, owned, count>>

\* acquire: in AcquireAsync; held: the lock has been returned; delay: disposed
\* of, Task.Delay runs; release, abort: in Release; done, cancelled: gone.
LockLabels == {"idle", "acquire", "held", "delay", "release", "abort", "done", "cancelled"}

TypeOK ==
    /\ where \in [Tasks -> LockLabels]
    /\ want \in [Tasks -> SUBSET Names]
    /\ owned \in [Tasks -> SUBSET Names]
    /\ count \in [Names -> 0..1]

LockInit ==
    /\ where = [t \in Tasks |-> "idle"]
    /\ want = [t \in Tasks |-> {}]
    /\ owned = [t \in Tasks |-> {}]
    /\ count = [n \in Names |-> 1]

\* AcquireAsync is called: the names are cleaned, distinct and in order, and
\* every one of them has its semaphore.
Acquire(t, names) ==
    /\ where[t] = "idle"
    /\ want' = [want EXCEPT ![t] = names]
    /\ where' = [where EXCEPT ![t] = "acquire"]
    /\ UNCHANGED <<owned, count>>

Missing(t) == want[t] \ owned[t]

\* Mutated form: the names are taken in any order.
NextOfAny(t) == Missing(t)

\* The semaphore the task waits for: that of the least name it lacks.
NextOf(t) == {n \in Missing(t) : \A k \in Missing(t) : n <= k}

\* Mutated form: nobody waits.
TakeAnyway(t) ==
    /\ where[t] = "acquire"
    /\ \E n \in NextOf(t) :
          /\ owned' = [owned EXCEPT ![t] = @ \union {n}]
          /\ count' = [count EXCEPT ![n] = 0]
    /\ UNCHANGED <<where, want>>

\* WaitAsync returns.
Take(t) ==
    /\ where[t] = "acquire"
    /\ \E n \in NextOf(t) :
          /\ count[n] = 1
          /\ count' = [count EXCEPT ![n] = 0]
          /\ owned' = [owned EXCEPT ![t] = @ \union {n}]
    /\ UNCHANGED <<where, want>>

Acquired(t) ==
    /\ where[t] = "acquire"
    /\ Missing(t) = {}
    /\ where' = [where EXCEPT ![t] = "held"]
    /\ UNCHANGED <<want, owned, count>>

\* Mutated form: a cancelled task keeps what it has taken.
CancelKeeps(t) ==
    /\ where[t] = "acquire"
    /\ Missing(t) # {}
    /\ where' = [where EXCEPT ![t] = "cancelled"]
    /\ UNCHANGED <<want, owned, count>>

\* WaitAsync throws: the token has been cancelled.
Cancel(t) ==
    /\ where[t] = "acquire"
    /\ Missing(t) # {}
    /\ where' = [where EXCEPT ![t] = "abort"]
    /\ UNCHANGED <<want, owned, count>>

\* DisposeAsync does not wait for the release it starts.
Dispose(t) ==
    /\ where[t] = "held"
    /\ where' = [where EXCEPT ![t] = "delay"]
    /\ UNCHANGED <<want, owned, count>>

DelayOver(t) ==
    /\ where[t] = "delay"
    /\ where' = [where EXCEPT ![t] = "release"]
    /\ UNCHANGED <<want, owned, count>>

\* One turn of the loop in Release, from the last name to the first.
Release(t) ==
    /\ where[t] \in {"release", "abort"}
    /\ \E n \in owned[t] :
          /\ \A k \in owned[t] : k <= n
          /\ count' = [count EXCEPT ![n] = @ + 1]
          /\ owned' = [owned EXCEPT ![t] = @ \ {n}]
    /\ UNCHANGED <<where, want>>

Released(t) ==
    /\ where[t] \in {"release", "abort"}
    /\ owned[t] = {}
    /\ where' = [where EXCEPT ![t] = IF where[t] = "abort" THEN "cancelled" ELSE "done"]
    /\ UNCHANGED <<want, owned, count>>

LockStep(t) ==
    \/ Take(t) \/ Acquired(t)
    \/ Dispose(t) \/ DelayOver(t)
    \/ Release(t) \/ Released(t)

LockNext ==
    \E t \in Tasks :
        \/ \E names \in SUBSET Names : Acquire(t, names)
        \/ LockStep(t)
        \/ Cancel(t)

LockSpec == LockInit /\ [][LockNext]_lockVars

\* The server disposes of what it holds and the runtime runs what it has
\* scheduled.  Take is enabled again and again while the name changes hands;
\* SemaphoreSlim releases its asynchronous waiters in turn, hence SF.
LockFairness == \A t \in Tasks : SF_lockVars(LockStep(t))

FairLockSpec == LockSpec /\ LockFairness

-----------------------------------------------------------------------------
\* A name belongs to one task from the time it is taken until the delay after
\* DisposeAsync has passed, also while other tasks are cancelled half-way.
OneOwner ==
    /\ \A t, u \in Tasks : t # u => owned[t] \intersect owned[u] = {}
    /\ \A n \in Names : count[n] = 1 <=> \A t \in Tasks : n \notin owned[t]
    /\ \A t \in Tasks : where[t] \in {"held", "delay"} => want[t] \subseteq owned[t]

\* Tasks with names in common never wait for each other in a circle: there is
\* no set of waiting tasks each of which waits for a name another one owns.
NoCircle ==
    \A waiting \in SUBSET {t \in Tasks : where[t] = "acquire"} :
        waiting # {} =>
            \E t \in waiting :
                \A n \in NextOf(t) : \A u \in waiting \ {t} : n \notin owned[u]

\* Whoever calls AcquireAsync gets the lock, unless it is cancelled, and every
\* lock is given back.
AcquireReturns ==
    \A t \in Tasks : where[t] = "acquire" ~> where[t] \in {"done", "cancelled"}
=============================================================================
