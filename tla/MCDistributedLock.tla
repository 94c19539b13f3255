-------------------------- MODULE MCDistributedLock --------------------------
(***************************************************************************)
(* Constant values of the runs on DistributedLock.                         *)
(***************************************************************************)
EXTENDS DistributedLock

==============================================================================
