---------------------------- MODULE OperationLock ----------------------------
(***************************************************************************)
(* What DistributedCoordinator.WithLock promises its callers: operations   *)
(* under one key are carried out one at a time.                            *)
(***************************************************************************)
CONSTANT Call       \* the operations that ask for the lock

VARIABLE inside     \* the operations being carried out

Init == inside = {}

Enter(c) == /\ inside = {}
            /\ inside' = {c}

Leave(c) == /\ inside = {c}
            /\ inside' = {}

Next == \E c \in Call : Enter(c) \/ Leave(c)

Spec == Init /\ [][Next]_inside

==============================================================================
