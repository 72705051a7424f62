------------------------------ MODULE SingleDo ------------------------------
(***************************************************************************)
(* common/singledo: Single.Do runs a function at most once at a time, lets   *)
(* the callers that arrive meanwhile wait for its results, and hands the     *)
(* last results out again until they are older than s.wait.  Providers       *)
(* Gfriends and AVBASE keep what they download behind it.                    *)
(*                                                                          *)
(* What Do does between s.mux.Lock() and s.mux.Unlock() is one action; what  *)
(* it does after the unlock is not.  An execution of fn is known by its      *)
(* number, and so are the two results it returned.                           *)
(***************************************************************************)
EXTENDS Integers, Sequences

CONSTANTS
    Threads,    \* goroutines that call Do
    Wait,       \* s.wait
    MayPanic,   \* whether fn may panic
    MaxTime,    \* bound: the clock
    MaxCalls    \* bound: calls of Do in a behaviour

ASSUME WaitAssumption == Wait \in Nat
ASSUME MayPanicAssumption == MayPanic \in BOOLEAN
ASSUME MaxTimeAssumption == MaxTime \in Nat
ASSUME MaxCallsAssumption == MaxCalls \in Nat

Nobody == 0  \* the nil *call, the nil *Result; executions count from 1
Never == -1  \* the zero time.Time

VARIABLES
    clock,      \* time.Now()
    last,       \* s.last, Never when it is zero
    call,       \* s.call: the execution in flight, or Nobody
    result,     \* s.result: the execution whose results are kept, or Nobody
    begun,      \* begun[c]: when execution c took its time.Now()
    released,   \* executions whose WaitGroup is done
    dropped,    \* executions whose results a Reset has dropped
    pc,         \* where every goroutine is
    mine,       \* the execution it runs or waits for, or Nobody
    arrived,    \* when it took the lock
    stale,      \* the value of dropped when it took the lock
    val, err,   \* the executions whose results it has got
    calls       \* calls of Do so far

single == <<last, call, result>>
history == <<begun, released, dropped>>
local == <<mine, arrived, stale, val, err>>
vars == <<clock, single, history, pc, local, calls>>

Labels == {"idle", "lock", "val", "err", "wait", "run", "release", "publish",
           "done", "panicked"}

Init ==
    /\ clock = 0
    /\ last = Never
    /\ call = Nobody
    /\ result = Nobody
    /\ begun = <<>>
    /\ released = {}
    /\ dropped = {}
    /\ pc = [t \in Threads |-> "idle"]
    /\ mine = [t \in Threads |-> Nobody]
    /\ arrived = [t \in Threads |-> 0]
    /\ stale = [t \in Threads |-> {}]
    /\ val = [t \in Threads |-> Nobody]
    /\ err = [t \in Threads |-> Nobody]
    /\ calls = 0

Tick ==
    /\ clock < MaxTime
    /\ clock' = clock + 1
    /\ UNCHANGED <<single, history, pc, local, calls>>

Do(t) ==
    /\ pc[t] \in {"idle", "done"}
    /\ calls < MaxCalls
    /\ calls' = calls + 1
    /\ pc' = [pc EXCEPT ![t] = "lock"]
    /\ UNCHANGED <<clock, single, history, local>>

\* Mutated form: a result is kept one instant too long.
FreshInclusive == last # Never /\ clock <= last + Wait

(***************************************************************************)
(* The first critical section.                                              *)
(***************************************************************************)
Fresh == last # Never /\ clock < last + Wait

Locked(t, next, execution) ==
    /\ pc' = [pc EXCEPT ![t] = next]
    /\ mine' = [mine EXCEPT ![t] = execution]
    /\ arrived' = [arrived EXCEPT ![t] = clock]
    /\ stale' = [stale EXCEPT ![t] = dropped]
    /\ val' = [val EXCEPT ![t] = Nobody]
    /\ err' = [err EXCEPT ![t] = Nobody]
    /\ UNCHANGED <<clock, calls>>

\* The kept results are fresh: they are read after the unlock.
Cached(t) ==
    /\ pc[t] = "lock"
    /\ Fresh
    /\ Locked(t, "val", Nobody)
    /\ UNCHANGED <<single, history>>

\* An execution is in flight.
Join(t) ==
    /\ pc[t] = "lock"
    /\ ~ Fresh
    /\ call # Nobody
    /\ Locked(t, "wait", call)
    /\ UNCHANGED <<single, history>>

\* Mutated form: nobody looks at s.call.
LeadAnyway(t) ==
    /\ pc[t] = "lock"
    /\ ~ Fresh
    /\ begun' = Append(begun, clock)
    /\ call' = Len(begun')
    /\ Locked(t, "run", call')
    /\ UNCHANGED <<last, result, released, dropped>>

\* Mutated form: s.last is set before fn has run.
LeadStamps(t) ==
    /\ pc[t] = "lock"
    /\ ~ Fresh
    /\ call = Nobody
    /\ last' = clock
    /\ begun' = Append(begun, clock)
    /\ call' = Len(begun')
    /\ Locked(t, "run", call')
    /\ UNCHANGED <<result, released, dropped>>

Lead(t) ==
    /\ pc[t] = "lock"
    /\ ~ Fresh
    /\ call = Nobody
    /\ begun' = Append(begun, clock)
    /\ call' = Len(begun')
    /\ Locked(t, "run", call')
    /\ UNCHANGED <<last, result, released, dropped>>

(***************************************************************************)
(* s.result.Val and s.result.Err: two reads without the lock.               *)
(***************************************************************************)
ReadVal(t) ==
    /\ pc[t] = "val"
    /\ val' = [val EXCEPT ![t] = result]
    /\ pc' = [pc EXCEPT ![t] = "err"]
    /\ UNCHANGED <<clock, single, history, mine, arrived, stale, err, calls>>

ReadErr(t) ==
    /\ pc[t] = "err"
    /\ err' = [err EXCEPT ![t] = result]
    /\ pc' = [pc EXCEPT ![t] = "done"]
    /\ UNCHANGED <<clock, single, history, mine, arrived, stale, val, calls>>

Returns(t, execution) ==
    /\ val' = [val EXCEPT ![t] = execution]
    /\ err' = [err EXCEPT ![t] = execution]
    /\ pc' = [pc EXCEPT ![t] = "done"]

\* call.wg.Wait() and the results of the call.
Joined(t) ==
    /\ pc[t] = "wait"
    /\ mine[t] \in released
    /\ Returns(t, mine[t])
    /\ UNCHANGED <<clock, single, history, mine, arrived, stale, calls>>

(***************************************************************************)
(* The leader: fn, call.wg.Done(), and the second critical section.  A panic *)
(* of fn unwinds through Do, which recovers nothing.                         *)
(***************************************************************************)
Run(t) ==
    /\ pc[t] = "run"
    /\ pc' = [pc EXCEPT ![t] = "release"]
    /\ UNCHANGED <<clock, single, history, local, calls>>

Panic(t) ==
    /\ pc[t] = "run"
    /\ MayPanic
    /\ pc' = [pc EXCEPT ![t] = "panicked"]
    /\ UNCHANGED <<clock, single, history, local, calls>>

\* Mutated form: the WaitGroup is never done.
CallNotDone(t) ==
    /\ pc[t] = "release"
    /\ pc' = [pc EXCEPT ![t] = "publish"]
    /\ UNCHANGED <<clock, single, history, local, calls>>

CallDone(t) ==
    /\ pc[t] = "release"
    /\ released' = released \union {mine[t]}
    /\ pc' = [pc EXCEPT ![t] = "publish"]
    /\ UNCHANGED <<clock, single, begun, dropped, local, calls>>

\* s.last is the time at which the call took the lock the first time.
Publish(t) ==
    /\ pc[t] = "publish"
    /\ call' = Nobody
    /\ result' = mine[t]
    /\ last' = arrived[t]
    /\ Returns(t, mine[t])
    /\ UNCHANGED <<clock, history, mine, arrived, stale, calls>>

\* Mutated form: s.last keeps its value.
ResetNothing ==
    /\ last # Never
    /\ dropped' = dropped \union {result}
    /\ UNCHANGED <<clock, single, begun, released, pc, local, calls>>

\* Reset takes no lock.
Reset ==
    /\ last # Never
    /\ last' = Never
    /\ dropped' = dropped \union {result}
    /\ UNCHANGED <<clock, call, result, begun, released, pc, local, calls>>

Step(t) ==
    \/ Cached(t) \/ Join(t) \/ Lead(t)
    \/ ReadVal(t) \/ ReadErr(t) \/ Joined(t)
    \/ Run(t) \/ CallDone(t) \/ Publish(t)

Next ==
    \/ Tick \/ Reset
    \/ \E t \in Threads : Do(t) \/ Step(t) \/ Panic(t)

Spec == Init /\ [][Next]_vars

\* Goroutines are scheduled and a function that does not panic returns.
Fairness == \A t \in Threads : WF_vars(Step(t))

FairSpec == Spec /\ Fairness

-----------------------------------------------------------------------------
Flying == {"run", "release", "publish"}

\* Whatever calls, joins, expiries and resets interleave, one execution of fn
\* is in flight at a time: its results are published before another starts.
OneInFlight ==
    \A t, u \in Threads : pc[t] \in Flying /\ pc[u] \in Flying => t = u

\* A caller that found fresh results never dereferences a nil s.result
\* (singledo.go:35), also when s.last has been reset meanwhile.
ResultThere ==
    \A t \in Threads : pc[t] \in {"val", "err"} => result # Nobody

\* A call never returns results that were out of date when it took the lock:
\* they come from an execution that was in flight then, or began since, or
\* began less than s.wait before.
NeverOutdated ==
    \A t \in Threads : pc[t] = "done" =>
        \A c \in {val[t], err[t]} :
            /\ c # Nobody
            /\ mine[t] = c \/ arrived[t] < begun[c] + Wait

\* Results that Reset dropped are not returned to a call that took the lock
\* after it: only an execution still in flight then outlives a Reset.
DroppedStayDropped ==
    \A t \in Threads : pc[t] = "done" => val[t] \notin stale[t] /\ err[t] \notin stale[t]

\* Every call returns, unless a function has panicked: Do then leaves s.call
\* and its WaitGroup as they are, and who joins that execution waits for ever.
CallsReturn ==
    \A t \in Threads :
        pc[t] = "lock" ~> \/ pc[t] = "done"
                          \/ \E u \in Threads : pc[u] = "panicked"
=============================================================================
