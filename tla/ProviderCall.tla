---------------------------- MODULE ProviderCall ----------------------------
(***************************************************************************)
(* What the engine relies on when it calls a provider: the call ends, with *)
(* an error or an answer, complete or not, or it panics; and the answer,   *)
(* once given, does not change.                                            *)
(***************************************************************************)
VARIABLES phase, answer

vars == <<phase, answer>>
Kinds == {"complete", "incomplete", "error"}

Init == phase = "idle" /\ answer = "none"

Begin == phase = "idle" /\ phase' = "running" /\ UNCHANGED answer
End == phase \in {"idle", "running"} /\ phase' = "done" /\ answer' \in Kinds
Panic == phase \in {"idle", "running"} /\ phase' = "panic" /\ UNCHANGED answer
Forget == phase \in {"done", "panic"} /\ phase' = "idle" /\ answer' = "none"

Next == Begin \/ End \/ Panic \/ Forget

Spec == Init /\ [][Next]_vars /\ WF_vars(End \/ Panic)
=============================================================================
