------------------------- MODULE MCActorCreationLock -------------------------
(***************************************************************************)
(* Three tasks that ask for any set of three names.                         *)
(***************************************************************************)
EXTENDS ActorCreationLock, TLC

CONSTANTS t1, t2, t3

MCTasks == {t1, t2, t3}
MCNames == 1..3
=============================================================================
