------------------------- MODULE MCRevisionRollout -------------------------
(***************************************************************************)
(* Constant values of the runs on RevisionRollout.                         *)
(***************************************************************************)
EXTENDS RevisionRollout

\* The administrator switches approvals, off by default, on and off.
ApprovalsSwitched ==
  {[enabled |-> e, required |-> 1, allowSelf |-> FALSE] : e \in BOOLEAN}

\* Approvals are on and one vote suffices.
OneApproval == {[enabled |-> TRUE, required |-> 1, allowSelf |-> FALSE]}

=============================================================================
