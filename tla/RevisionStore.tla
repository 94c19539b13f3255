---------------------------- MODULE RevisionStore ----------------------------
(***************************************************************************)
(* The revision document of control-plane/internal/revisions/store.go as   *)
(* a value, and each method of Store as an operator from document to       *)
(* document.  Store.mu makes a method atomic within one process; whether   *)
(* the load and the save of a method are atomic across processes is the    *)
(* business of the modules that use these operators.                       *)
(*                                                                         *)
(* A revision id is "rev-%06d" of its version, so a version stands for     *)
(* both.  A build number names one compilation: it stands for the          *)
(* CreatedAt, the checksum and the contents that two compilations never    *)
(* share, even when they are given the same id.                            *)
(***************************************************************************)
EXTENDS Naturals, FiniteSets

CONSTANTS MaxVersion,   \* bound on the versions a run can allocate
          MaxBuild,     \* bound on the compilations of a run
          MaxRequired,  \* bound on RequiredApprovals
          User,         \* users that compile and approve
          NoUser        \* the empty CompiledByUserID of background work

ASSUME StoreAssumption == /\ MaxVersion \in Nat \ {0}
                          /\ MaxBuild \in Nat \ {0}
                          /\ MaxRequired \in Nat \ {0}
                          /\ IsFiniteSet(User)
                          /\ NoUser \notin User

Version == 1..MaxVersion
NoRev == 0
Build == 1..MaxBuild
NoBuild == 0

Status == {"pending", "pending_approval", "active", "inactive", "failed"}
Approval == {"not_required", "pending", "approved"}
ApplyResult == {"none", "succeeded", "failed"}

Revision == [status     : Status,
             approval   : Approval,
             required   : 0..MaxRequired,
             approvals  : SUBSET User,
             compiledBy : User \cup {NoUser},
             build      : Build,
             lastApply  : ApplyResult]

\* The place of a version that the document does not list.
NoRevision == [status     |-> "absent",
               approval   |-> "not_required",
               required   |-> 0,
               approvals  |-> {},
               compiledBy |-> NoUser,
               build      |-> NoBuild,
               lastApply  |-> "none"]

Store == [revs    : [Version -> Revision \cup {NoRevision}],
          current : Version \cup {NoRev}]

EmptyStore == [revs |-> [v \in Version |-> NoRevision], current |-> NoRev]

------------------------------------------------------------------------------

\* The versions in the document, in whatever order sortRevisions leaves them.
Listed(s) == {v \in Version : s.revs[v].status # "absent"}

\* Mutant: the highest version listed, without the increment.
NextVersionOffByOne(s) ==
  CHOOSE n \in 1..(MaxVersion + 1) :
    /\ \A v \in Listed(s) : v <= n
    /\ n = 1 \/ n \in Listed(s)

\* nextRevisionVersion: one more than the highest version listed.  The version
\* of the newest revision is handed out again once that revision is deleted.
NextVersion(s) ==
  CHOOSE n \in 1..(MaxVersion + 1) :
    /\ \A v \in Listed(s) : v < n
    /\ n = 1 \/ n - 1 \in Listed(s)

\* CurrentActive: false also when the id is not in the list.
HasCurrent(s) == s.current # NoRev /\ s.current \in Listed(s)

SavePending(s, v, revision) == [revs    |-> [s.revs EXCEPT ![v] = revision],
                                current |-> s.current]

MarkActive(s, v) ==
  [revs    |-> [w \in Version |->
                  IF w = v THEN [s.revs[w] EXCEPT !.status = "active"]
                  ELSE IF s.revs[w].status = "active"
                       THEN [s.revs[w] EXCEPT !.status = "inactive"]
                       ELSE s.revs[w]],
   current |-> v]

MarkFailed(s, v) ==
  [revs    |-> [s.revs EXCEPT ![v].status = "failed"],
   current |-> IF s.current = v THEN NoRev ELSE s.current]

\* Approve stores the required count of the caller, not the one the revision
\* was compiled with, and reopens a revision that the count no longer covers.
Voted(item, u, required) ==
  LET votes  == item.approvals \cup {u}
      enough == required = 0 \/ Cardinality(votes) >= required
  IN [item EXCEPT !.approvals = votes,
                  !.required  = required,
                  !.approval  = IF enough THEN "approved" ELSE "pending",
                  !.status    = IF ~enough THEN "pending_approval"
                                ELSE IF @ = "pending_approval" THEN "pending" ELSE @]

Approve(s, v, u, required) ==
  [revs    |-> [s.revs EXCEPT ![v] = Voted(s.revs[v], u, required)],
   current |-> s.current]

ResetStatuses(s) ==
  [revs    |-> [v \in Version |->
                  IF v \notin Listed(s) \/ s.revs[v].status = "active"
                  THEN s.revs[v]
                  ELSE [s.revs[v] EXCEPT !.status = "inactive"]],
   current |-> s.current]

RecordApplyResult(s, v, result) ==
  [revs    |-> [s.revs EXCEPT ![v].lastApply = result],
   current |-> s.current]

\* Mutant: Store.Delete trusts the status check its caller made earlier.
CanDeleteListed(s, v) == v \in Listed(s)

\* Store.Delete refuses the current revision; its other guard is Listed.
CanDelete(s, v) == s.current # v /\ v \in Listed(s)

Delete(s, v) == [revs    |-> [s.revs EXCEPT ![v] = NoRevision],
                 current |-> s.current]

\* At most one revision is active, it is the one current_active_revision_id
\* names, and that id is in the list.
Consistent(s) ==
  /\ \A v \in Version : s.revs[v].status = "active" => s.current = v
  /\ s.current # NoRev => s.current \in Listed(s)

==============================================================================
