----------------------------- MODULE MCSingleDo -----------------------------
(***************************************************************************)
(* Three goroutines and up to four calls, results that stay fresh for one   *)
(* tick of a clock that goes to three.                                      *)
(***************************************************************************)
EXTENDS SingleDo, TLC

CONSTANTS t1, t2, t3

MCThreads == {t1, t2, t3}
MCPair == {t1, t2}
=============================================================================
