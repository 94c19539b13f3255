----------------------- MODULE RevisionRollout_proofs -----------------------
(***************************************************************************)
(* Safety of RevisionRollout for every number of versions, builds,         *)
(* requests, users and deleters, and under every fault of the model; then, *)
(* for a control plane in which nothing is deleted, the properties that an *)
(* id given out twice would break.                                         *)
(***************************************************************************)
EXTENDS RevisionRollout, FiniteSetTheorems, TLAPS

(***************************************************************************)
(* The methods of the revision store, for every document: each maps a      *)
(* well-formed document to a well-formed one, each keeps the document      *)
(* consistent, and none but Delete takes a revision, a build or a vote     *)
(* away.                                                                   *)
(***************************************************************************)

\* A listed version has a revision record.
LEMMA ListedRevision ==
  ASSUME NEW s \in Store, NEW v \in Listed(s)
  PROVE  v \in Version /\ s.revs[v] \in Revision
BY DEF Listed, Store, NoRevision

\* MarkFailed keeps the document well formed.
LEMMA MarkFailedType ==
  ASSUME NEW s \in Store, NEW v \in Listed(s)
  PROVE  MarkFailed(s, v) \in Store
BY ListedRevision DEF MarkFailed, Store, Revision, Status

\* MarkActive keeps the document well formed.
LEMMA MarkActiveType ==
  ASSUME NEW s \in Store, NEW v \in Listed(s)
  PROVE  MarkActive(s, v) \in Store
BY ListedRevision DEF MarkActive, Store, Revision, NoRevision, Status

\* A vote keeps a revision record well formed.
LEMMA VotedType ==
  ASSUME NEW r \in Revision, NEW u \in User, NEW n \in 0..MaxRequired
  PROVE  Voted(r, u, n) \in Revision
BY DEF Voted, Revision, Status, Approval

\* Store.Approve keeps the document well formed.
LEMMA ApproveType ==
  ASSUME NEW s \in Store, NEW v \in Listed(s), NEW u \in User, NEW n \in 0..MaxRequired
  PROVE  Approve(s, v, u, n) \in Store
BY ListedRevision, VotedType DEF Approve, Store

\* ResetStatuses keeps the document well formed.
LEMMA ResetType ==
  ASSUME NEW s \in Store
  PROVE  ResetStatuses(s) \in Store
BY ListedRevision DEF ResetStatuses, Store, Revision, NoRevision, Status

\* RecordApplyResult keeps the document well formed.
LEMMA RecordType ==
  ASSUME NEW s \in Store, NEW v \in Listed(s), NEW r \in ApplyResult
  PROVE  RecordApplyResult(s, v, r) \in Store
BY ListedRevision DEF RecordApplyResult, Store, Revision

\* Store.Delete keeps the document well formed.
LEMMA DeleteType ==
  ASSUME NEW s \in Store, NEW v
  PROVE  Delete(s, v) \in Store
BY DEF Delete, Store

\* SavePending keeps the document well formed.
LEMMA SavePendingType ==
  ASSUME NEW s \in Store, NEW v, NEW r \in Revision
  PROVE  SavePending(s, v, r) \in Store
BY DEF SavePending, Store

\* MarkActive leaves one active revision, the current one.
LEMMA MarkActiveConsistent ==
  ASSUME NEW s \in Store, NEW v \in Listed(s), Consistent(s)
  PROVE  Consistent(MarkActive(s, v))
BY ListedRevision DEF MarkActive, Consistent, Store, Revision, NoRevision, Status, Listed

\* MarkFailed clears the current id when it takes the active status away.
LEMMA MarkFailedConsistent ==
  ASSUME NEW s \in Store, NEW v \in Listed(s), Consistent(s)
  PROVE  Consistent(MarkFailed(s, v))
BY ListedRevision DEF MarkFailed, Consistent, Store, Revision, NoRevision, Status, Listed

\* A vote gives no revision the active status, and unlists none.
LEMMA ApproveConsistent ==
  ASSUME NEW s \in Store, NEW v \in Listed(s), NEW u \in User,
         NEW n \in 0..MaxRequired, Consistent(s)
  PROVE  Consistent(Approve(s, v, u, n))
<1> DEFINE r == Voted(s.revs[v], u, n)
<1>1. v \in Version /\ s.revs[v] \in Revision
  BY ListedRevision
<1>2. r.status = "active" => s.revs[v].status = "active"
  BY <1>1 DEF Voted, Revision, Status
<1>3. r.status # "absent"
  BY <1>1, VotedType DEF Revision, Status
<1>4. QED
  BY <1>1, <1>2, <1>3 DEF Approve, Consistent, Store, Listed

\* ResetStatuses gives no revision the active status.
LEMMA ResetConsistent ==
  ASSUME NEW s \in Store, Consistent(s)
  PROVE  Consistent(ResetStatuses(s))
BY ListedRevision DEF ResetStatuses, Consistent, Store, Revision, NoRevision, Status, Listed

\* RecordApplyResult touches neither a status nor the current id.
LEMMA RecordConsistent ==
  ASSUME NEW s \in Store, NEW v \in Listed(s), NEW r \in ApplyResult, Consistent(s)
  PROVE  Consistent(RecordApplyResult(s, v, r))
BY ListedRevision DEF RecordApplyResult, Consistent, Store, Revision, NoRevision, Status, Listed

\* Delete, under its guard, does not take the current revision.
LEMMA DeleteConsistent ==
  ASSUME NEW s \in Store, NEW v \in Version, CanDelete(s, v), Consistent(s)
  PROVE  Consistent(Delete(s, v))
BY DEF Delete, CanDelete, Consistent, Store, NoRevision, Listed

\* A pending revision added to the list is not active.
LEMMA SavePendingConsistent ==
  ASSUME NEW s \in Store, NEW v \in Version \ Listed(s), NEW r \in Revision,
         r.status # "active", Consistent(s)
  PROVE  Consistent(SavePending(s, v, r))
BY DEF SavePending, Consistent, Store, Revision, NoRevision, Status, Listed

------------------------------------------------------------------------------
(***************************************************************************)
(* What the methods leave alone, and what a vote changes.                  *)
(***************************************************************************)

\* The id of a new compilation is not listed.
LEMMA NextVersionFresh ==
  ASSUME NEW s \in Store
  PROVE  NextVersion(s) \notin Listed(s)
<1> DEFINE Above == {n \in Nat : \A v \in Listed(s) : v < n}
           R == OpToRel(<, Nat)
<1>1. MaxVersion + 1 \in Above
  BY StoreAssumption DEF Listed, Version
<1>2. PICK n \in Above : \A m \in Above : ~(<<m, n>> \in R)
  <2>1. IsWellFoundedOn(R, Nat) /\ Above \subseteq Nat /\ Above # {}
    BY <1>1, NatLessThanWellFounded, Zenon
  <2> HIDE DEF R, Above
  <2>2. QED
    BY <2>1, WFMin
<1>3. \A m \in Above : ~(m < n)
  BY <1>2 DEF OpToRel
<1>4. n <= MaxVersion + 1
  BY <1>1, <1>3, StoreAssumption
<1>5. CASE n = 0
  <2>1. Listed(s) = {}
    BY <1>5 DEF Listed, Version
  <2>2. QED
    BY <2>1
<1>6. CASE n # 0
  <2>1. n = 1 \/ n - 1 \in Listed(s)
    <3>1. n - 1 \in Nat /\ n - 1 \notin Above
      BY <1>3, <1>6
    <3>2. PICK v \in Listed(s) : ~(v < n - 1)
      BY <3>1
    <3>3. v < n /\ v \in Nat
      BY DEF Listed, Version
    <3>4. QED
      BY <3>2, <3>3
  <2>2. n \in 1..(MaxVersion + 1)
    BY <1>4, <1>6, StoreAssumption
  <2>3. \E m \in 1..(MaxVersion + 1) :
          (\A v \in Listed(s) : v < m) /\ (m = 1 \/ m - 1 \in Listed(s))
    BY <2>1, <2>2
  <2>4. \A v \in Listed(s) : v < NextVersion(s)
    BY <2>3 DEF NextVersion
  <2>5. QED
    BY <2>4, StoreAssumption DEF Listed, Version
<1>7. QED
  BY <1>5, <1>6

\* Votes are counted by a natural number, which no further vote lowers.
LEMMA VotesCounted ==
  ASSUME NEW votes \in SUBSET User
  PROVE  /\ Cardinality(votes) \in Nat
         /\ \A fewer \in SUBSET votes : Cardinality(fewer) \in Nat /\ Cardinality(fewer) <= Cardinality(votes)
<1>1. IsFiniteSet(votes)
  BY FS_Subset, StoreAssumption
<1>2. QED
  BY <1>1, FS_Subset, FS_CardinalityType

\* MarkActive, MarkFailed, ResetStatuses and RecordApplyResult change neither
\* the list of revisions nor their builds, compilers, votes and approvals.
SameRevisions(s, t) ==
  /\ Listed(t) = Listed(s)
  /\ \A v \in Version : /\ t.revs[v].approvals = s.revs[v].approvals
                        /\ t.revs[v].approval = s.revs[v].approval
                        /\ t.revs[v].required = s.revs[v].required
                        /\ t.revs[v].compiledBy = s.revs[v].compiledBy
                        /\ t.revs[v].build = s.revs[v].build

\* MarkActive changes statuses and the current id only.
LEMMA MarkActiveKeeps ==
  ASSUME NEW s \in Store, NEW v \in Listed(s)
  PROVE  SameRevisions(s, MarkActive(s, v))
BY ListedRevision
DEF MarkActive, Store, Revision, NoRevision, Status, Listed, SameRevisions

\* MarkFailed changes a status and the current id only.
LEMMA MarkFailedKeeps ==
  ASSUME NEW s \in Store, NEW v \in Listed(s)
  PROVE  SameRevisions(s, MarkFailed(s, v))
BY ListedRevision
DEF MarkFailed, Store, Revision, NoRevision, Status, Listed, SameRevisions

\* ResetStatuses changes statuses only.
LEMMA ResetKeeps ==
  ASSUME NEW s \in Store
  PROVE  SameRevisions(s, ResetStatuses(s))
BY ListedRevision
DEF ResetStatuses, Store, Revision, NoRevision, Status, Listed, SameRevisions

\* RecordApplyResult changes the last apply result only.
LEMMA RecordKeeps ==
  ASSUME NEW s \in Store, NEW v \in Listed(s), NEW r \in ApplyResult
  PROVE  SameRevisions(s, RecordApplyResult(s, v, r))
BY ListedRevision
DEF RecordApplyResult, Store, Revision, NoRevision, Status, Listed, SameRevisions

\* SavePending adds one revision and touches no other.
LEMMA SavePendingKeeps ==
  ASSUME NEW s \in Store, NEW v \in Version \ Listed(s), NEW r \in Revision
  PROVE  /\ Listed(SavePending(s, v, r)) = Listed(s) \cup {v}
         /\ SavePending(s, v, r).revs[v] = r
         /\ \A w \in Version \ {v} : SavePending(s, v, r).revs[w] = s.revs[w]
BY DEF SavePending, Store, Revision, Status, Listed

(***************************************************************************)
(* The inductive invariant.                                                *)
(***************************************************************************)

\* A call that has started has its target, a rollback the revision to restore,
\* a compilation its build.
StartedOK ==
  /\ comp.pc # "idle" => comp.version \in Version /\ build \in Build
  /\ \A q \in Request : /\ pc[q] # "new" => tgt[q] \in Version
                        /\ pc[q] \in {"rollback", "restore"} => good[q] \in Version

\* Only the holder of applyMu is between its Lock and its Unlock.
Serialised == \A q \in Request : pc[q] \in Held => applyMu = q

\* What the apply in progress knows of the candidate directories: the known
\* good one is complete and is not the one being written.
StagingOK ==
  \A q \in Request :
    /\ pc[q] = "stage" => good[q] \in {pointer, NoRev}
    /\ pc[q] = "write" => pointer # tgt[q] /\ good[q] # tgt[q]
    /\ pc[q] = "activate" => candidate[tgt[q]].files = "complete"
    /\ pc[q] \in {"stage", "write", "activate", "reload", "rollback"} /\ good[q] # NoRev
         => candidate[good[q]].files = "complete"

\* From Activate to the end of a successful apply the pointer, then nginx,
\* then the store follow the target.
LiveOK ==
  \A q \in Request :
    /\ pc[q] \in {"reload", "markActive", "jobSucceeded"} => pointer = tgt[q]
    /\ pc[q] \in {"markActive", "jobSucceeded"} => serving.version \in {tgt[q], NoRev}
    /\ pc[q] = "jobSucceeded" => st.current = tgt[q]

\* The decision of ApplyIfNoActiveRevision stays valid up to MarkActive.
BootstrapOK ==
  \A q \in Bootstrap :
    pc[q] \in {"get", "create", "running", "load", "pointer", "stage", "write", "activate"}
    => st.current \in {NoRev, tgt[q]}

IInv ==
  /\ TypeOK
  /\ StartedOK
  /\ StoreConsistent
  /\ Serialised
  /\ "unread" \notin Faults => StagingOK /\ PointerBootable
  /\ LiveOK
  /\ BootstrapOK

------------------------------------------------------------------------------
(***************************************************************************)
(* Which actions can change which part of the state.                       *)
(***************************************************************************)

StoreStep ==
  \/ CompileSave \/ ClearStatuses
  \/ \E q \in Request : MarkRevisionActive(q) \/ MarkRevisionFailed(q) \/ RecordResult(q)
  \/ \E d \in Deleter : DeleteRevision(d)
  \/ \E u \in User : ApproveCommit(u)

\* Only StoreStep changes the revision document.
LEMMA StoreFrame ==
  ASSUME [Next]_vars
  PROVE  StoreStep \/ UNCHANGED st
<1> USE DEF StoreStep, documents, settings, locals, catalog, runtime
<1>1. CASE Compile
  BY <1>1 DEF Compile, CompileList, CompileSnapshot, CompileJob, CompileError
<1>2. ASSUME NEW q \in Request, NEW v \in Version, Submit(q, v)
      PROVE  UNCHANGED st
  BY <1>2 DEF Submit
<1>3. ASSUME NEW q \in Request, Lock(q) \/ ApplyError(q)
      PROVE  UNCHANGED st
  BY <1>3 DEF Lock, ApplyError
<1>4. ASSUME NEW q \in Request, ApplyStep(q)
      PROVE  StoreStep \/ UNCHANGED st
  BY <1>4 DEF ApplyStep, CheckNoActive, GetRevision, CreateJob, MarkJobRunning,
       LoadAndCompile, LoadKnownGood, StageReset, StageWrite, Activate, Reload, Rollback,
       Restore, MarkJobSucceeded, MarkJobFailed, JobUpdate
<1>5. CASE Catalog
  BY <1>5 DEF Catalog, DeleteGet, DeleteSnapshot, DeleteJobs, DeleteError, ClearJobs,
       ApproveCheck, UpdatePolicy
<1>6. CASE Crash \/ RuntimeBoot \/ NginxExit \/ UNCHANGED vars
  BY <1>6 DEF Crash, RuntimeBoot, NginxExit, vars
<1>7. QED
  BY <1>1, <1>2, <1>3, <1>4, <1>5, <1>6 DEF Next

RuntimeStep ==
  \/ \E q \in Request :
       \/ StageReset(q) \/ StageWrite(q) \/ Activate(q) \/ Reload(q)
       \/ Rollback(q) \/ Restore(q)
  \/ RuntimeBoot \/ NginxExit

\* Only RuntimeStep changes the runtime's files and what nginx serves.
LEMMA RuntimeFrame ==
  ASSUME [Next]_vars
  PROVE  RuntimeStep \/ UNCHANGED runtime
<1> USE DEF RuntimeStep
<1>1. CASE Compile
  BY <1>1 DEF Compile, CompileList, CompileSnapshot, CompileSave, CompileJob, CompileError
<1>2. ASSUME NEW q \in Request, NEW v \in Version, Submit(q, v)
      PROVE  UNCHANGED runtime
  BY <1>2 DEF Submit
<1>3. ASSUME NEW q \in Request, Lock(q) \/ ApplyError(q)
      PROVE  UNCHANGED runtime
  BY <1>3 DEF Lock, ApplyError
<1>4. ASSUME NEW q \in Request, ApplyStep(q)
      PROVE  RuntimeStep \/ UNCHANGED runtime
  BY <1>4 DEF ApplyStep, CheckNoActive, GetRevision, CreateJob, MarkJobRunning,
       LoadAndCompile, LoadKnownGood, MarkRevisionActive, MarkJobSucceeded,
       MarkRevisionFailed, MarkJobFailed, RecordResult, JobUpdate
<1>5. CASE Catalog
  BY <1>5 DEF Catalog, DeleteGet, DeleteSnapshot, DeleteJobs, DeleteRevision, DeleteError,
       ClearJobs, ClearStatuses, ApproveCheck, ApproveCommit, UpdatePolicy
<1>6. CASE Crash \/ RuntimeBoot \/ NginxExit \/ UNCHANGED vars
  BY <1>6 DEF Crash, vars
<1>7. QED
  BY <1>1, <1>2, <1>3, <1>4, <1>5, <1>6 DEF Next

\* Only calls of Apply and a crash change the calls of Apply; only the calls
\* change the candidate directories and the pointer.
calls == <<applyMu, pc, locals>>
CallStep(q) == \/ \E v \in Version : Submit(q, v)
               \/ Lock(q) \/ ApplyStep(q) \/ ApplyError(q)

\* A step that leaves the variables of the calls alone keeps what is known of them.
LEMMA CallFrame ==
  ASSUME [Next]_vars
  PROVE  \/ \E q \in Request : CallStep(q)
         \/ Crash
         \/ UNCHANGED <<calls, candidate, pointer>>
<1> USE DEF CallStep, calls, runtime
<1>1. CASE Compile
  BY <1>1 DEF Compile, CompileList, CompileSnapshot, CompileSave, CompileJob, CompileError
<1>2. CASE Catalog
  BY <1>2 DEF Catalog, DeleteGet, DeleteSnapshot, DeleteJobs, DeleteRevision, DeleteError,
       ClearJobs, ClearStatuses, ApproveCheck, ApproveCommit, UpdatePolicy
<1>3. CASE RuntimeBoot \/ NginxExit \/ UNCHANGED vars
  BY <1>3 DEF RuntimeBoot, NginxExit, vars
<1>4. QED
  BY <1>1, <1>2, <1>3 DEF Next

------------------------------------------------------------------------------
(***************************************************************************)
(* Type correctness.                                                       *)
(***************************************************************************)

\* The approval settings in use are one of the records the constants allow.
LEMMA PolicyTyped ==
  ASSUME SettingsTyped
  PROVE  policy.enabled \in BOOLEAN /\ policy.required \in 0..MaxRequired
BY RolloutAssumption, StoreAssumption DEF SettingsTyped

\* PrepareCompiledRevision yields a well-formed revision that is not active.
LEMMA PreparedType ==
  ASSUME SettingsTyped, StartedOK, comp.pc # "idle"
  PROVE  PreparedRevision \in Revision /\ PreparedRevision.status # "active"
BY PolicyTyped, StoreAssumption
DEF SettingsTyped, StartedOK, PreparedRevision, Revision, Status, Approval, ApplyResult

\* The initial state is well typed and nothing has started.
LEMMA TypeInit == Init => TypeOK /\ StartedOK
BY StoreAssumption
DEF Init, TypeOK, DocumentsTyped, SettingsTyped, CallsTyped, CatalogTyped, RuntimeTyped,
    StartedOK, EmptyStore, Store, IdleComp, IdleVote, NoBundle, Candidate,
    NoFiles, JobStatus, Version, Build, NoRev, NoBuild

\* The revision document stays well formed.
LEMMA StoreTypeStep ==
  ASSUME TypeOK, StartedOK, [Next]_vars
  PROVE  st' \in Store
<1> USE DEF TypeOK, DocumentsTyped
<1>1. CASE CompileSave
  BY <1>1, SavePendingType, PreparedType DEF CompileSave
<1>2. CASE ClearStatuses
  BY <1>2, ResetType DEF ClearStatuses
<1>3. ASSUME NEW q \in Request, MarkRevisionActive(q)
      PROVE  st' \in Store
  BY <1>3, MarkActiveType DEF MarkRevisionActive
<1>4. ASSUME NEW q \in Request, MarkRevisionFailed(q)
      PROVE  st' \in Store
  BY <1>4, MarkFailedType DEF MarkRevisionFailed
<1>5. ASSUME NEW q \in Request, RecordResult(q)
      PROVE  st' \in Store
  BY <1>5, RecordType DEF RecordResult, ApplyResult
<1>6. ASSUME NEW d \in Deleter, DeleteRevision(d)
      PROVE  st' \in Store
  BY <1>6, DeleteType DEF DeleteRevision
<1>7. ASSUME NEW u \in User, ApproveCommit(u)
      PROVE  st' \in Store
  BY <1>7, ApproveType DEF ApproveCommit, CatalogTyped
<1>8. QED
  BY <1>1, <1>2, <1>3, <1>4, <1>5, <1>6, <1>7, StoreFrame DEF StoreStep

\* Snapshots and job lists stay well formed.
LEMMA DocumentsTypeStep ==
  ASSUME TypeOK, StartedOK, [Next]_vars
  PROVE  DocumentsTyped'
<1> DEFINE Rest == /\ snapshot \in [Version -> Build \cup {NoBuild}]
                   /\ job \in [Request -> JobStatus]
                   /\ compileJobs \subseteq Version
<1> USE DEF TypeOK, DocumentsTyped, SettingsTyped, StartedOK, JobStatus, documents, settings
<1>0. SUFFICES Rest'
  BY StoreTypeStep
<1>1. CASE Compile
  <2>1. CASE CompileSnapshot
    BY <2>1 DEF CompileSnapshot
  <2>2. QED
    BY <1>1, <2>1 DEF Compile, CompileList, CompileSave, CompileJob, CompileError
<1>2. ASSUME NEW q \in Request, NEW v \in Version, Submit(q, v)
      PROVE  Rest'
  BY <1>2 DEF Submit
<1>3. ASSUME NEW q \in Request, Lock(q) \/ ApplyError(q)
      PROVE  Rest'
  BY <1>3 DEF Lock, ApplyError
<1>4. ASSUME NEW q \in Request,
             CreateJob(q) \/ MarkJobRunning(q) \/ MarkJobSucceeded(q) \/ MarkJobFailed(q)
      PROVE  Rest'
  BY <1>4 DEF CreateJob, MarkJobRunning, MarkJobSucceeded, MarkJobFailed, JobUpdate
<1>5. ASSUME NEW q \in Request, ApplyStep(q)
      PROVE  Rest'
  BY <1>4, <1>5 DEF ApplyStep, CheckNoActive, GetRevision, LoadAndCompile, LoadKnownGood,
       StageReset, StageWrite, Activate, Reload, Rollback, Restore, MarkRevisionActive,
       MarkRevisionFailed, RecordResult
<1>6. CASE Catalog
  <2>1. ASSUME NEW d \in Deleter, DeleteSnapshot(d)
        PROVE  Rest'
    BY <2>1 DEF DeleteSnapshot
  <2>2. ASSUME NEW d \in Deleter, DeleteJobs(d)
        PROVE  Rest'
    BY <2>2 DEF DeleteJobs
  <2>3. QED
    BY <1>6, <2>1, <2>2 DEF Catalog, DeleteGet, DeleteRevision, DeleteError,
         ClearJobs, ClearStatuses, ApproveCheck, ApproveCommit, UpdatePolicy
<1>7. CASE Crash \/ RuntimeBoot \/ NginxExit \/ UNCHANGED vars
  BY <1>7 DEF Crash, RuntimeBoot, NginxExit, vars
<1>8. QED
  BY <1>1, <1>2, <1>3, <1>5, <1>6, <1>7 DEF Next

\* Settings and the compilation in progress stay well formed, and it keeps its
\* version and its build.
LEMMA SettingsTypeStep ==
  ASSUME TypeOK, StartedOK, [Next]_vars
  PROVE  SettingsTyped' /\ (comp'.pc # "idle" => comp'.version \in Version /\ build' \in Build)
<1> DEFINE Goal == SettingsTyped' /\ (comp'.pc # "idle" => comp'.version \in Version /\ build' \in Build)
<1> USE StoreAssumption DEF TypeOK, SettingsTyped, StartedOK, settings, IdleComp
<1>1. ASSUME NEW u \in User \cup {NoUser}, CompileList(u)
      PROVE  Goal
  BY <1>1 DEF CompileList, Build
<1>2. CASE CompileSnapshot \/ CompileSave \/ CompileJob \/ CompileError
  BY <1>2 DEF CompileSnapshot, CompileSave, CompileJob, CompileError
<1>3. ASSUME NEW q \in Request, NEW v \in Version, Submit(q, v)
      PROVE  Goal
  BY <1>3 DEF Submit
<1>4. ASSUME NEW q \in Request, Lock(q) \/ ApplyStep(q) \/ ApplyError(q)
      PROVE  Goal
  BY <1>4 DEF Lock, ApplyError, ApplyStep, CheckNoActive, GetRevision, CreateJob,
       MarkJobRunning, LoadAndCompile, LoadKnownGood, StageReset, StageWrite, Activate,
       Reload, Rollback, Restore, MarkRevisionActive, MarkJobSucceeded,
       MarkRevisionFailed, MarkJobFailed, RecordResult, JobUpdate
<1>5. CASE Catalog
  BY <1>5 DEF Catalog, DeleteGet, DeleteSnapshot, DeleteJobs, DeleteRevision, DeleteError,
       ClearJobs, ClearStatuses, ApproveCheck, ApproveCommit, UpdatePolicy
<1>6. CASE Crash \/ RuntimeBoot \/ NginxExit \/ UNCHANGED vars
  BY <1>6 DEF Crash, RuntimeBoot, NginxExit, vars
<1>7. QED
  BY <1>1, <1>2, <1>3, <1>4, <1>5, <1>6 DEF Next, Compile

\* A call that goes on, and one that returns, keep the calls well formed.
LEMMA ContinueTyped ==
  ASSUME CallsTyped, NEW q \in Request, NEW l \in Held, Continue(q, l)
  PROVE  CallsTyped'
BY DEF CallsTyped, Continue, Goto, locals

\* The deferred unlock of Apply keeps the locals well typed.
LEMMA ReturnTyped ==
  ASSUME CallsTyped, NEW q \in Request, Return(q)
  PROVE  CallsTyped'
BY StoreAssumption DEF CallsTyped, Return, Goto, NoBuild, NoRev

\* Each step keeps the lock and the locals of the apply calls well typed.
LEMMA CallsTypeStep ==
  ASSUME TypeOK, StartedOK, [Next]_vars
  PROVE  CallsTyped'
<1> USE DEF TypeOK
<1>1. ASSUME NEW q \in Request, NEW v \in Version, Submit(q, v)
      PROVE  CallsTyped'
  BY <1>1 DEF CallsTyped, Submit, Goto
<1>2. ASSUME NEW q \in Request, Lock(q)
      PROVE  CallsTyped'
  BY <1>2 DEF CallsTyped, Lock, Goto, locals, Held
<1>3. ASSUME NEW q \in Request, GetRevision(q)
      PROVE  CallsTyped'
  <2>1. CASE Return(q)
    BY <2>1, ReturnTyped
  <2>2. CASE ~Return(q)
    <3>1. tgt[q] \in Listed(st)
      BY <1>3, <2>2 DEF GetRevision
    <3>2. st.revs[tgt[q]].build \in 0..MaxBuild
      BY <3>1, ListedRevision, StoreAssumption DEF DocumentsTyped, Revision, Build
    <3>3. QED
      BY <1>3, <2>2, <3>2 DEF CallsTyped, GetRevision, Goto, Held
  <2>3. QED
    BY <2>1, <2>2
<1>4. ASSUME NEW q \in Request, LoadAndCompile(q)
      PROVE  CallsTyped'
  <2>1. CASE Continue(q, "markFailed")
    BY <2>1, ContinueTyped DEF Held
  <2>2. CASE ~Continue(q, "markFailed")
    <3>1. snapshot[tgt[q]] \in 0..MaxBuild
      BY <1>4, StoreAssumption DEF LoadAndCompile, StartedOK, DocumentsTyped, Build, NoBuild
    <3>2. QED
      BY <1>4, <2>2, <3>1 DEF CallsTyped, LoadAndCompile, Goto, Held
  <2>3. QED
    BY <2>1, <2>2
<1>5. ASSUME NEW q \in Request, LoadKnownGood(q)
      PROVE  CallsTyped'
  BY <1>5 DEF CallsTyped, RuntimeTyped, LoadKnownGood, Goto, Held
<1>6. ASSUME NEW q \in Request, MarkJobRunning(q) \/ MarkJobSucceeded(q) \/ MarkJobFailed(q)
      PROVE  CallsTyped'
  BY <1>6, ContinueTyped, ReturnTyped
     DEF MarkJobRunning, MarkJobSucceeded, MarkJobFailed, JobUpdate, Held
<1>7. ASSUME NEW q \in Request,
             CheckNoActive(q) \/ CreateJob(q) \/ StageReset(q) \/ StageWrite(q) \/ Activate(q)
      PROVE  CallsTyped'
  BY <1>7, ContinueTyped, ReturnTyped
     DEF CheckNoActive, CreateJob, StageReset, StageWrite, Activate, Held
<1>8. ASSUME NEW q \in Request,
             Reload(q) \/ Rollback(q) \/ Restore(q) \/ MarkRevisionActive(q)
             \/ MarkRevisionFailed(q) \/ RecordResult(q) \/ ApplyError(q)
      PROVE  CallsTyped'
  BY <1>8, ContinueTyped, ReturnTyped
     DEF Reload, Rollback, Restore, MarkRevisionActive, MarkRevisionFailed, RecordResult,
         ApplyError, Held
<1>9. CASE Crash
  BY <1>9, StoreAssumption DEF CallsTyped, Crash, NoBuild, NoRev
<1>10. CASE UNCHANGED calls
  BY <1>10 DEF CallsTyped, calls, locals
<1>11. QED
  BY <1>1, <1>2, <1>3, <1>4, <1>5, <1>6, <1>7, <1>8, <1>9, <1>10, CallFrame
     DEF CallStep, ApplyStep

\* Each step keeps the delete, approve and clear calls well typed.
LEMMA CatalogTypeStep ==
  ASSUME TypeOK, StartedOK, [Next]_vars
  PROVE  CatalogTyped'
<1> USE DEF TypeOK, CatalogTyped, catalog
<1>1. CASE Compile
  BY <1>1 DEF Compile, CompileList, CompileSnapshot, CompileSave, CompileJob, CompileError
<1>2. ASSUME NEW q \in Request, NEW v \in Version, Submit(q, v)
      PROVE  CatalogTyped'
  BY <1>2 DEF Submit
<1>3. ASSUME NEW q \in Request, Lock(q) \/ ApplyStep(q) \/ ApplyError(q)
      PROVE  CatalogTyped'
  BY <1>3 DEF Lock, ApplyError, ApplyStep, CheckNoActive, GetRevision, CreateJob,
       MarkJobRunning, LoadAndCompile, LoadKnownGood, StageReset, StageWrite, Activate,
       Reload, Rollback, Restore, MarkRevisionActive, MarkJobSucceeded,
       MarkRevisionFailed, MarkJobFailed, RecordResult, JobUpdate
<1>4. ASSUME NEW d \in Deleter, NEW v \in Version, DeleteGet(d, v)
      PROVE  CatalogTyped'
  BY <1>4 DEF DeleteGet
<1>5. ASSUME NEW d \in Deleter,
             DeleteSnapshot(d) \/ DeleteJobs(d) \/ DeleteRevision(d) \/ DeleteError(d)
      PROVE  CatalogTyped'
  BY <1>5 DEF DeleteSnapshot, DeleteJobs, DeleteRevision, DeleteError
<1>6. CASE ClearJobs \/ ClearStatuses \/ UpdatePolicy
  BY <1>6 DEF ClearJobs, ClearStatuses, UpdatePolicy
<1>7. ASSUME NEW u \in User, NEW v \in Version, ApproveCheck(u, v)
      PROVE  CatalogTyped'
  BY <1>7, PolicyTyped DEF ApproveCheck
<1>8. ASSUME NEW u \in User, ApproveCommit(u)
      PROVE  CatalogTyped'
  BY <1>8, StoreAssumption DEF ApproveCommit, IdleVote
<1>9. CASE Crash
  BY <1>9, StoreAssumption DEF Crash, IdleVote
<1>10. CASE RuntimeBoot \/ NginxExit \/ UNCHANGED vars
  BY <1>10 DEF RuntimeBoot, NginxExit, vars
<1>11. QED
  BY <1>1, <1>2, <1>3, <1>4, <1>5, <1>6, <1>7, <1>8, <1>9, <1>10 DEF Next, Catalog

\* The bundle nginx is given is well formed.
LEMMA BundleTyped ==
  ASSUME RuntimeTyped, NEW v \in Version
  PROVE  BundleAt(v) \in [version : Version \cup {NoRev}, meta : 0..MaxBuild, snap : 0..MaxBuild]
BY DEF RuntimeTyped, BundleAt, Candidate

\* Each step keeps the candidate directories, the pointer and nginx well typed.
LEMMA RuntimeTypeStep ==
  ASSUME TypeOK, StartedOK, [Next]_vars
  PROVE  RuntimeTyped'
<1> USE DEF TypeOK, RuntimeTyped
<1>1. ASSUME NEW q \in Request, StageReset(q)
      PROVE  RuntimeTyped'
  BY <1>1, StoreAssumption DEF StageReset, Candidate, NoFiles, NoBuild
<1>2. ASSUME NEW q \in Request, StageWrite(q)
      PROVE  RuntimeTyped'
  BY <1>2, StoreAssumption DEF StageWrite, Candidate, NoFiles, Rendered, NoBuild, CallsTyped
<1>3. ASSUME NEW q \in Request, Activate(q) \/ Rollback(q)
      PROVE  RuntimeTyped'
  BY <1>3 DEF Activate, Rollback, CallsTyped
<1>4. ASSUME NEW q \in Request, Reload(q) \/ Restore(q)
      PROVE  RuntimeTyped'
  <2>1. ASSUME NEW v \in Version, Reloaded(v)
        PROVE  serving' \in [version : Version \cup {NoRev}, meta : 0..MaxBuild, snap : 0..MaxBuild]
    BY <2>1, BundleTyped DEF Reloaded
  <2>2. ASSUME ReloadFailed
        PROVE  serving' \in [version : Version \cup {NoRev}, meta : 0..MaxBuild, snap : 0..MaxBuild]
    BY <2>2, BundleTyped DEF ReloadFailed
  <2>3. QED
    BY <1>4, <2>1, <2>2 DEF Reload, Restore, StartedOK
<1>5. CASE RuntimeBoot \/ NginxExit
  BY <1>5, BundleTyped, StoreAssumption DEF RuntimeBoot, NginxExit, NoBundle, NoBuild
<1>6. CASE UNCHANGED runtime
  BY <1>6 DEF runtime
<1>7. QED
  BY <1>1, <1>2, <1>3, <1>4, <1>5, <1>6, RuntimeFrame DEF RuntimeStep

\* What the next call of q may be, and that a call touches no other call.
LEMMA CallEffect ==
  ASSUME CallsTyped, NEW q \in Request, CallStep(q)
  PROVE  /\ \A r \in Request \ {q} : /\ pc'[r] = pc[r]
                                     /\ tgt'[r] = tgt[r]
                                     /\ good'[r] = good[r]
         /\ pc[q] # "new" => tgt'[q] = tgt[q]
<1> USE DEF CallsTyped, locals
<1>1. ASSUME NEW v \in Version, Submit(q, v)
      PROVE  /\ \A r \in Request \ {q} : pc'[r] = pc[r] /\ tgt'[r] = tgt[r] /\ good'[r] = good[r]
             /\ pc[q] = "new"
  BY <1>1 DEF Submit, Goto
<1>2. ASSUME Lock(q) \/ GetRevision(q) \/ LoadAndCompile(q) \/ LoadKnownGood(q)
      PROVE  /\ \A r \in Request \ {q} : pc'[r] = pc[r] /\ tgt'[r] = tgt[r] /\ good'[r] = good[r]
             /\ tgt' = tgt
  BY <1>2 DEF Lock, GetRevision, LoadAndCompile, LoadKnownGood, Continue, Return, Goto
<1>3. ASSUME NEW l, Continue(q, l) \/ Return(q)
      PROVE  /\ \A r \in Request \ {q} : pc'[r] = pc[r] /\ tgt'[r] = tgt[r] /\ good'[r] = good[r]
             /\ tgt' = tgt
  BY <1>3 DEF Continue, Return, Goto
<1>4. CASE CheckNoActive(q) \/ CreateJob(q) \/ MarkJobRunning(q) \/ StageReset(q)
           \/ StageWrite(q) \/ Activate(q) \/ Reload(q) \/ Rollback(q)
  BY <1>3, <1>4 DEF CheckNoActive, CreateJob, MarkJobRunning, JobUpdate, StageReset,
       StageWrite, Activate, Reload, Rollback
<1>5. CASE Restore(q) \/ MarkRevisionActive(q) \/ MarkJobSucceeded(q) \/ MarkRevisionFailed(q)
           \/ MarkJobFailed(q) \/ RecordResult(q) \/ ApplyError(q)
  BY <1>3, <1>5 DEF Restore, MarkRevisionActive, MarkJobSucceeded, MarkRevisionFailed,
       MarkJobFailed, JobUpdate, RecordResult, ApplyError
<1>6. QED
  BY <1>1, <1>2, <1>4, <1>5 DEF CallStep, ApplyStep

\* A step under applyMu goes on to a call under applyMu or releases it.
LEMMA HeldEffect ==
  ASSUME CallsTyped, NEW q \in Request, ApplyStep(q) \/ ApplyError(q)
  PROVE  /\ pc[q] \in Held
         /\ \/ pc'[q] \in Held /\ applyMu' = applyMu
            \/ pc'[q] = "done" /\ applyMu' = NoRequest
<1> DEFINE Goal == \/ pc'[q] \in Held /\ applyMu' = applyMu
                   \/ pc'[q] = "done" /\ applyMu' = NoRequest
<1>1. ASSUME NEW l \in Held, Continue(q, l)
      PROVE  Goal
  BY <1>1 DEF CallsTyped, Continue, Goto
<1>2. ASSUME Return(q)
      PROVE  Goal
  BY <1>2 DEF CallsTyped, Return, Goto
<1>3. CASE GetRevision(q) \/ LoadAndCompile(q) \/ LoadKnownGood(q)
  BY <1>2, <1>3 DEF CallsTyped, GetRevision, LoadAndCompile, LoadKnownGood, Continue, Goto, Held
<1>4. CASE CheckNoActive(q) \/ CreateJob(q) \/ MarkJobRunning(q) \/ StageReset(q)
           \/ StageWrite(q) \/ Activate(q) \/ Reload(q) \/ Rollback(q)
  BY <1>1, <1>2, <1>4 DEF CheckNoActive, CreateJob, MarkJobRunning, JobUpdate, StageReset,
       StageWrite, Activate, Reload, Rollback, Held
<1>5. CASE Restore(q) \/ MarkRevisionActive(q) \/ MarkJobSucceeded(q) \/ MarkRevisionFailed(q)
           \/ MarkJobFailed(q) \/ RecordResult(q) \/ ApplyError(q)
  BY <1>1, <1>2, <1>5 DEF Restore, MarkRevisionActive, MarkJobSucceeded, MarkRevisionFailed,
       MarkJobFailed, JobUpdate, RecordResult, ApplyError, Held
<1>6. QED
  BY <1>3, <1>4, <1>5 DEF ApplyStep

\* applyMu admits one apply at a time.
LEMMA SerialisedStep ==
  ASSUME TypeOK, Serialised, [Next]_vars
  PROVE  Serialised'
<1> USE DEF TypeOK, Serialised
<1>1. ASSUME NEW q \in Request, NEW v \in Version, Submit(q, v)
      PROVE  Serialised'
  BY <1>1 DEF CallsTyped, Submit, Goto, Held
<1>2. ASSUME NEW q \in Request, Lock(q)
      PROVE  Serialised'
  BY <1>2, RolloutAssumption DEF CallsTyped, Lock, Goto
<1>3. ASSUME NEW q \in Request, ApplyStep(q) \/ ApplyError(q)
      PROVE  Serialised'
  <2>1. \A r \in Request \ {q} : pc[r] \notin Held /\ pc'[r] = pc[r]
    BY <1>3, HeldEffect, CallEffect DEF CallStep
  <2>2. pc'[q] \in Held => applyMu' = q
    BY <1>3, HeldEffect DEF Held
  <2>3. QED
    BY <2>1, <2>2
<1>4. CASE Crash
  BY <1>4 DEF Crash, Held
<1>5. CASE UNCHANGED calls
  BY <1>5 DEF calls
<1>6. QED
  BY <1>1, <1>2, <1>3, <1>4, <1>5, CallFrame DEF CallStep

\* While q takes a step under applyMu nobody else is under it.
LEMMA Alone ==
  ASSUME CallsTyped, Serialised, NEW q \in Request, ApplyStep(q) \/ ApplyError(q)
  PROVE  \A r \in Request \ {q} : pc[r] \notin Held /\ pc'[r] = pc[r]
BY HeldEffect, CallEffect DEF CallStep, Serialised

\* A call that has started keeps its target.
LEMMA StartedStep ==
  ASSUME TypeOK, StartedOK, [Next]_vars
  PROVE  StartedOK'
<1> DEFINE Target(q) == /\ pc'[q] # "new" => tgt'[q] \in Version
                        /\ pc'[q] \in {"rollback", "restore"} => good'[q] \in Version
<1>0. SUFFICES \A r \in Request : Target(r)
  BY SettingsTypeStep DEF StartedOK
<1> USE DEF TypeOK
<1>1. ASSUME NEW q \in Request, CallStep(q)
      PROVE  \A r \in Request : Target(r)
  <2>1. \A r \in Request \ {q} : Target(r)
    BY <1>1, CallEffect DEF StartedOK
  <2>2. pc'[q] # "new" => tgt'[q] \in Version
    <3>1. ASSUME NEW v \in Version, Submit(q, v)
          PROVE  tgt'[q] \in Version
      BY <3>1 DEF Submit, CallsTyped
    <3>2. ASSUME Lock(q) \/ ApplyStep(q) \/ ApplyError(q)
          PROVE  pc[q] # "new"
      BY <3>2, HeldEffect DEF Lock, Held
    <3>3. QED
      BY <1>1, <3>1, <3>2, CallEffect DEF CallStep, StartedOK
  <2>3. pc'[q] \in {"rollback", "restore"} => good'[q] \in Version
    <3>1. CASE Reload(q)
      BY <3>1, CallsTypeStep DEF Reload, Continue, Goto, locals, CallsTyped
    <3>2. CASE Rollback(q)
      BY <3>2 DEF Rollback, Continue, Goto, locals, CallsTyped, StartedOK
    <3>3. CASE (\E v \in Version : Submit(q, v)) \/ Lock(q)
      BY <3>3 DEF Submit, Lock, Goto, CallsTyped
    <3>4. CASE CheckNoActive(q) \/ GetRevision(q) \/ CreateJob(q) \/ MarkJobRunning(q)
               \/ LoadAndCompile(q) \/ LoadKnownGood(q) \/ StageReset(q) \/ StageWrite(q)
      BY <3>4 DEF CheckNoActive, GetRevision, CreateJob, MarkJobRunning, JobUpdate,
           LoadAndCompile, LoadKnownGood, StageReset, StageWrite, Continue, Return, Goto,
           CallsTyped
    <3>5. CASE Activate(q) \/ Restore(q) \/ MarkRevisionActive(q) \/ MarkJobSucceeded(q)
               \/ MarkRevisionFailed(q) \/ MarkJobFailed(q) \/ RecordResult(q) \/ ApplyError(q)
      BY <3>5 DEF Activate, Restore, MarkRevisionActive, MarkJobSucceeded,
           MarkRevisionFailed, MarkJobFailed, JobUpdate, RecordResult, ApplyError,
           Continue, Return, Goto, CallsTyped
    <3>6. QED
      BY <1>1, <3>1, <3>2, <3>3, <3>4, <3>5 DEF CallStep, ApplyStep
  <2>4. QED
    BY <2>1, <2>2, <2>3
<1>2. CASE Crash
  BY <1>2 DEF Crash, StartedOK, CallsTyped
<1>3. CASE UNCHANGED calls
  BY <1>3 DEF calls, locals, StartedOK
<1>4. QED
  BY <1>1, <1>2, <1>3, CallFrame

\* The revision document stays consistent.
LEMMA ConsistentStep ==
  ASSUME TypeOK, StartedOK, StoreConsistent, [Next]_vars
  PROVE  StoreConsistent'
<1> USE DEF TypeOK, DocumentsTyped, StoreConsistent
<1>1. CASE CompileSave
  BY <1>1, SavePendingConsistent, PreparedType DEF CompileSave, StartedOK
<1>2. CASE ClearStatuses
  BY <1>2, ResetConsistent DEF ClearStatuses
<1>3. ASSUME NEW q \in Request, MarkRevisionActive(q)
      PROVE  StoreConsistent'
  BY <1>3, MarkActiveConsistent DEF MarkRevisionActive
<1>4. ASSUME NEW q \in Request, MarkRevisionFailed(q)
      PROVE  StoreConsistent'
  BY <1>4, MarkFailedConsistent DEF MarkRevisionFailed
<1>5. ASSUME NEW q \in Request, RecordResult(q)
      PROVE  StoreConsistent'
  BY <1>5, RecordConsistent DEF RecordResult, ApplyResult
<1>6. ASSUME NEW d \in Deleter, DeleteRevision(d)
      PROVE  StoreConsistent'
  BY <1>6, DeleteConsistent DEF DeleteRevision, CanDelete, Listed
<1>7. ASSUME NEW u \in User, ApproveCommit(u)
      PROVE  StoreConsistent'
  BY <1>7, ApproveConsistent DEF ApproveCommit, CatalogTyped
<1>8. CASE UNCHANGED st
  BY <1>8
<1>9. QED
  BY <1>1, <1>2, <1>3, <1>4, <1>5, <1>6, <1>7, <1>8, StoreFrame DEF StoreStep

------------------------------------------------------------------------------
(***************************************************************************)
(* Candidate directories and the active pointer.                           *)
(***************************************************************************)

\* Staging never touches the directory current.json names, nor the known-good
\* one, as long as it can read current.json.
LEMMA StagingStep ==
  ASSUME "unread" \notin Faults, TypeOK, StartedOK, Serialised, StagingOK, PointerBootable, [Next]_vars
  PROVE  StagingOK' /\ PointerBootable'
<1> DEFINE Staging(q) ==
      /\ pc'[q] = "stage" => good'[q] \in {pointer', NoRev}
      /\ pc'[q] = "write" => pointer' # tgt'[q] /\ good'[q] # tgt'[q]
      /\ pc'[q] = "activate" => candidate'[tgt'[q]].files = "complete"
      /\ pc'[q] \in {"stage", "write", "activate", "reload", "rollback"} /\ good'[q] # NoRev
           => candidate'[good'[q]].files = "complete"
<1>0. SUFFICES (\A r \in Request : Staging(r)) /\ PointerBootable'
  BY DEF StagingOK
<1> USE DEF TypeOK
<1>1. ASSUME NEW q \in Request, (\E v \in Version : Submit(q, v)) \/ Lock(q)
      PROVE  (\A r \in Request : Staging(r)) /\ PointerBootable'
  BY <1>1 DEF Submit, Lock, Goto, CallsTyped, StagingOK, PointerBootable, runtime, locals
<1>2. ASSUME NEW q \in Request, ApplyStep(q) \/ ApplyError(q), Staging(q), PointerBootable'
      PROVE  (\A r \in Request : Staging(r)) /\ PointerBootable'
  BY <1>2, Alone DEF Held
<1>3. ASSUME NEW q \in Request, ApplyStep(q) \/ ApplyError(q)
      PROVE  Staging(q) /\ PointerBootable'
  <2> USE DEF CallsTyped, Continue, Return, Goto, locals
  <2>1. CASE LoadKnownGood(q)
    BY <2>1 DEF LoadKnownGood, RuntimeTyped, PointerBootable, runtime
  <2>2. CASE StageReset(q)
    <3>1. tgt[q] \in Version /\ good[q] \in {pointer, NoRev}
      BY <2>2 DEF StageReset, StartedOK, StagingOK
    <3>2. CASE pc'[q] # "write"
      BY <2>2, <3>1, <3>2 DEF StageReset, StagingOK, PointerBootable, Rendered
    <3>3. CASE pc'[q] = "write"
      <4>1. /\ candidate' = [candidate EXCEPT ![tgt[q]] = NoFiles("empty")]
            /\ candidate[tgt[q]].files = "none" \/ pointer # tgt[q]
            /\ pointer' = pointer /\ pc' = [pc EXCEPT ![q] = "write"]
            /\ good' = good /\ tgt' = tgt
        BY <2>2, <3>3 DEF StageReset
      <4>2. pointer # tgt[q] /\ good[q] # tgt[q]
        BY <3>1, <4>1, StoreAssumption DEF PointerBootable, Version, NoRev
      <4>3. QED
        BY <3>1, <4>1, <4>2 DEF StagingOK, PointerBootable, RuntimeTyped
    <3>4. QED
      BY <3>2, <3>3
  <2>3. CASE StageWrite(q)
    <3>1. /\ tgt[q] \in Version
          /\ pointer # tgt[q] /\ good[q] # tgt[q]
          /\ good[q] # NoRev => candidate[good[q]].files = "complete"
      BY <2>3 DEF StageWrite, StartedOK, StagingOK
    <3>2. QED
      BY <2>3, <3>1 DEF StageWrite, PointerBootable, RuntimeTyped, Rendered
  <2>4. CASE Activate(q)
    BY <2>4 DEF Activate, StagingOK, PointerBootable, RuntimeTyped
  <2>5. CASE Reload(q)
    BY <2>5 DEF Reload, StagingOK, PointerBootable
  <2>6. CASE Rollback(q)
    BY <2>6 DEF Rollback, StagingOK, PointerBootable
  <2>7. CASE CheckNoActive(q) \/ GetRevision(q) \/ CreateJob(q) \/ MarkJobRunning(q)
             \/ LoadAndCompile(q) \/ Restore(q)
    BY <2>7 DEF CheckNoActive, GetRevision, CreateJob, MarkJobRunning, JobUpdate,
         LoadAndCompile, Restore, PointerBootable, runtime
  <2>8. CASE MarkRevisionActive(q) \/ MarkJobSucceeded(q) \/ MarkRevisionFailed(q)
             \/ MarkJobFailed(q) \/ RecordResult(q) \/ ApplyError(q)
    BY <2>8 DEF MarkRevisionActive, MarkJobSucceeded, MarkRevisionFailed, MarkJobFailed,
         JobUpdate, RecordResult, ApplyError, PointerBootable, runtime
  <2>9. QED
    BY <1>3, <2>1, <2>2, <2>3, <2>4, <2>5, <2>6, <2>7, <2>8 DEF ApplyStep
<1>4. CASE Crash
  BY <1>4 DEF Crash, PointerBootable, runtime
<1>5. CASE UNCHANGED <<calls, candidate, pointer>>
  BY <1>5 DEF calls, locals, StagingOK, PointerBootable
<1>6. QED
  BY <1>1, <1>2, <1>3, <1>4, <1>5, CallFrame DEF CallStep

------------------------------------------------------------------------------
(***************************************************************************)
(* The pointer, nginx and the store during an apply.                       *)
(***************************************************************************)

\* What goes on besides the calls of Apply keeps the current revision, and can
\* only stop nginx or start it on what the pointer names.
LEMMA Background ==
  ASSUME [Next]_vars
  PROVE  \/ \E q \in Request : CallStep(q)
         \/ Crash
         \/ /\ UNCHANGED <<calls, candidate, pointer>>
            /\ st'.current = st.current
            /\ serving' \in {serving, NoBundle, BundleAt(pointer)}
<1> USE DEF CallStep, calls, runtime, documents
<1>1. CASE Compile
  BY <1>1 DEF Compile, CompileList, CompileSnapshot, CompileSave, SavePending, CompileJob,
       CompileError
<1>2. CASE Catalog
  BY <1>2 DEF Catalog, DeleteGet, DeleteSnapshot, DeleteJobs, DeleteRevision, Delete,
       DeleteError, ClearJobs, ClearStatuses, ResetStatuses, ApproveCheck, ApproveCommit,
       Approve, UpdatePolicy
<1>3. CASE RuntimeBoot \/ NginxExit \/ UNCHANGED vars
  BY <1>3 DEF RuntimeBoot, NginxExit, vars
<1>4. QED
  BY <1>1, <1>2, <1>3 DEF Next

\* From the reload to the job update the target stays pointed and served.
LEMMA LiveStep ==
  ASSUME TypeOK, StartedOK, Serialised, LiveOK, [Next]_vars
  PROVE  LiveOK'
<1> DEFINE Live(q) ==
      /\ pc'[q] \in {"reload", "markActive", "jobSucceeded"} => pointer' = tgt'[q]
      /\ pc'[q] \in {"markActive", "jobSucceeded"} => serving'.version \in {tgt'[q], NoRev}
      /\ pc'[q] = "jobSucceeded" => st'.current = tgt'[q]
<1>0. SUFFICES \A r \in Request : Live(r)
  BY DEF LiveOK
<1> USE DEF TypeOK
<1>1. ASSUME NEW q \in Request, (\E v \in Version : Submit(q, v)) \/ Lock(q)
      PROVE  \A r \in Request : Live(r)
  BY <1>1 DEF Submit, Lock, Goto, CallsTyped, LiveOK, runtime, locals, documents
<1>2. ASSUME NEW q \in Request, ApplyStep(q) \/ ApplyError(q), Live(q)
      PROVE  \A r \in Request : Live(r)
  BY <1>2, Alone DEF Held
<1>3. ASSUME NEW q \in Request, ApplyStep(q) \/ ApplyError(q)
      PROVE  Live(q)
  <2> USE DEF CallsTyped, Continue, Return, Goto, locals
  <2>1. CASE Activate(q)
    BY <2>1 DEF Activate
  <2>2. CASE Reload(q)
    BY <2>2 DEF Reload, Reloaded, BundleAt, LiveOK
  <2>3. CASE MarkRevisionActive(q)
    BY <2>3 DEF MarkRevisionActive, MarkActive, LiveOK, runtime
  <2>4. CASE CheckNoActive(q) \/ GetRevision(q) \/ CreateJob(q) \/ MarkJobRunning(q)
             \/ LoadAndCompile(q) \/ LoadKnownGood(q) \/ StageReset(q) \/ StageWrite(q)
    BY <2>4 DEF CheckNoActive, GetRevision, CreateJob, MarkJobRunning, JobUpdate,
         LoadAndCompile, LoadKnownGood, StageReset, StageWrite
  <2>5. CASE Rollback(q) \/ Restore(q) \/ MarkJobSucceeded(q) \/ MarkRevisionFailed(q)
             \/ MarkJobFailed(q) \/ RecordResult(q) \/ ApplyError(q)
    BY <2>5 DEF Rollback, Restore, MarkJobSucceeded, MarkRevisionFailed, MarkJobFailed,
         JobUpdate, RecordResult, ApplyError
  <2>6. QED
    BY <1>3, <2>1, <2>2, <2>3, <2>4, <2>5 DEF ApplyStep
<1>4. CASE Crash
  BY <1>4 DEF Crash
<1>5. ASSUME UNCHANGED <<calls, candidate, pointer>>,
             st'.current = st.current,
             serving' \in {serving, NoBundle, BundleAt(pointer)}
      PROVE  \A r \in Request : Live(r)
  <2>1. serving'.version \in {serving.version, NoRev, pointer}
    BY <1>5 DEF NoBundle, BundleAt
  <2>2. QED
    BY <1>5, <2>1 DEF calls, locals, LiveOK
<1>6. QED
  BY <1>1, <1>2, <1>3, <1>4, <1>5, Background DEF CallStep

\* From the check of bootstrap to its activation nobody else activates.
LEMMA BootstrapStep ==
  ASSUME TypeOK, StoreConsistent, Serialised, BootstrapOK, [Next]_vars
  PROVE  BootstrapOK'
<1> DEFINE Early == {"get", "create", "running", "load", "pointer", "stage", "write", "activate"}
           Yields(q) == pc'[q] \in Early => st'.current \in {NoRev, tgt'[q]}
<1>0. SUFFICES \A r \in Bootstrap : Yields(r)
  BY DEF BootstrapOK
<1> USE RolloutAssumption DEF TypeOK
<1>1. ASSUME NEW q \in Request, (\E v \in Version : Submit(q, v)) \/ Lock(q)
      PROVE  \A r \in Bootstrap : Yields(r)
  BY <1>1 DEF Submit, Lock, Goto, CallsTyped, BootstrapOK, locals, documents
<1>2. ASSUME NEW q \in Request, ApplyStep(q) \/ ApplyError(q), q \in Bootstrap => Yields(q)
      PROVE  \A r \in Bootstrap : Yields(r)
  BY <1>2, Alone DEF Held
<1>3. ASSUME NEW q \in Bootstrap, ApplyStep(q) \/ ApplyError(q)
      PROVE  Yields(q)
  <2> USE DEF CallsTyped, Continue, Return, Goto, locals, documents
  <2>1. CASE CheckNoActive(q)
    BY <2>1 DEF CheckNoActive, HasCurrent, StoreConsistent, Consistent
  <2>2. CASE GetRevision(q) \/ CreateJob(q) \/ MarkJobRunning(q) \/ LoadAndCompile(q)
             \/ LoadKnownGood(q) \/ StageReset(q) \/ StageWrite(q)
    BY <2>2 DEF GetRevision, CreateJob, MarkJobRunning, JobUpdate, LoadAndCompile,
         LoadKnownGood, StageReset, StageWrite, BootstrapOK
  <2>3. CASE Activate(q) \/ Reload(q) \/ Rollback(q) \/ Restore(q) \/ MarkRevisionActive(q)
    BY <2>3 DEF Activate, Reload, Rollback, Restore, MarkRevisionActive
  <2>4. CASE MarkJobSucceeded(q) \/ MarkRevisionFailed(q) \/ MarkJobFailed(q)
             \/ RecordResult(q) \/ ApplyError(q)
    BY <2>4 DEF MarkJobSucceeded, MarkRevisionFailed, MarkJobFailed, JobUpdate,
         RecordResult, ApplyError
  <2>5. QED
    BY <1>3, <2>1, <2>2, <2>3, <2>4 DEF ApplyStep
<1>4. CASE Crash
  BY <1>4 DEF Crash
<1>5. CASE UNCHANGED <<calls, candidate, pointer>> /\ st'.current = st.current
  BY <1>5 DEF calls, locals, BootstrapOK
<1>6. QED
  BY <1>1, <1>2, <1>3, <1>4, <1>5, Background DEF CallStep

------------------------------------------------------------------------------
(***************************************************************************)
(* The theorems.                                                           *)
(***************************************************************************)

\* The inductive invariant holds initially.
LEMMA InvInit == Init => IInv
<1>1. ASSUME Init
      PROVE  StoreConsistent
  BY <1>1 DEF Init, StoreConsistent, Consistent, EmptyStore, NoRevision
<1>2. ASSUME Init
      PROVE  Serialised /\ StagingOK /\ PointerBootable /\ LiveOK /\ BootstrapOK
  BY <1>2, RolloutAssumption
     DEF Init, Serialised, StagingOK, PointerBootable, LiveOK, BootstrapOK, Held
<1>3. QED
  BY <1>1, <1>2, TypeInit DEF IInv

\* Every step preserves the inductive invariant.
LEMMA InvStep == IInv /\ [Next]_vars => IInv'
<1> SUFFICES ASSUME IInv, [Next]_vars
             PROVE  IInv'
  OBVIOUS
<1>1. TypeOK'
  BY DocumentsTypeStep, SettingsTypeStep, CallsTypeStep, CatalogTypeStep, RuntimeTypeStep
     DEF IInv, TypeOK
<1>2. QED
  BY <1>1, StartedStep, ConsistentStep, SerialisedStep, StagingStep, LiveStep, BootstrapStep
     DEF IInv

\* The inductive invariant holds in every reachable state of Spec.
THEOREM Invariance == Spec => []IInv
BY InvInit, InvStep, PTL DEF Spec

\* Every document, local, lock and file of RevisionRollout keeps its type.
THEOREM TypeCorrect == Spec => []TypeOK
<1>1. IInv => TypeOK
  BY DEF IInv
<1>2. QED
  BY <1>1, Invariance, PTL

\* The revision document is consistent after every step of every interleaving:
\* one active revision at most, named by current_active_revision_id, listed.
THEOREM DocumentConsistent == Spec => []StoreConsistent
<1>1. IInv => StoreConsistent
  BY DEF IInv
<1>2. QED
  BY <1>1, Invariance, PTL

\* Whatever write fails and wherever the process crashes, current.json names a
\* complete candidate directory: staging never touches the directory the
\* runtime would boot from, as long as it can read current.json.
THEOREM AlwaysBootable ==
  ASSUME "unread" \notin Faults
  PROVE  Spec => []PointerBootable
<1>1. IInv => PointerBootable
  BY DEF IInv
<1>2. QED
  BY <1>1, Invariance, PTL

\* A job turns succeeded only while its revision is current, pointed to and
\* served.
THEOREM SuccessIsTrue == Spec => SucceededIsLive
<1> DEFINE A == \A q \in Request :
                  job'[q] = "succeeded" /\ job[q] # "succeeded"
                  => /\ st.current = tgt[q]
                     /\ pointer = tgt[q]
                     /\ serving.version \in {tgt[q], NoRev}
<1>1. IInv /\ [Next]_vars => A
  <2> SUFFICES ASSUME IInv, [Next]_vars, NEW q \in Request,
                      job'[q] = "succeeded", job[q] # "succeeded"
               PROVE  pc[q] = "jobSucceeded"
    BY DEF IInv, LiveOK
  <2> USE DEF documents, IInv, TypeOK, DocumentsTyped
  <2>1. ASSUME NEW r \in Request, MarkJobSucceeded(r)
        PROVE  pc[q] = "jobSucceeded"
    BY <2>1 DEF MarkJobSucceeded, JobUpdate
  <2>2. ASSUME NEW r \in Request, CreateJob(r) \/ MarkJobRunning(r) \/ MarkJobFailed(r)
        PROVE  FALSE
    BY <2>2 DEF CreateJob, MarkJobRunning, MarkJobFailed, JobUpdate
  <2>3. ASSUME NEW r \in Request, CallStep(r)
        PROVE  pc[q] = "jobSucceeded"
    BY <2>1, <2>2, <2>3 DEF CallStep, ApplyStep, Submit, Lock, ApplyError, CheckNoActive,
         GetRevision, LoadAndCompile, LoadKnownGood, StageReset, StageWrite, Activate,
         Reload, Rollback, Restore, MarkRevisionActive, MarkRevisionFailed, RecordResult
  <2>4. CASE Compile
    BY <2>4 DEF Compile, CompileList, CompileSnapshot, CompileSave, CompileJob, CompileError
  <2>5. CASE Catalog
    BY <2>5 DEF Catalog, DeleteGet, DeleteSnapshot, DeleteJobs, DeleteRevision, DeleteError,
         ClearJobs, ClearStatuses, ApproveCheck, ApproveCommit, UpdatePolicy
  <2>6. CASE Crash \/ RuntimeBoot \/ NginxExit \/ UNCHANGED vars
    BY <2>6 DEF Crash, RuntimeBoot, NginxExit, vars
  <2>7. QED
    BY <2>3, <2>4, <2>5, <2>6 DEF Next, CallStep
<1>2. QED
  BY <1>1, Invariance, PTL DEF Spec, SucceededIsLive

\* ApplyIfNoActiveRevision never activates over another current revision.
THEOREM BootstrapSafe == Spec => BootstrapYields
<1>1. IInv /\ [Next]_vars
      => \A q \in Bootstrap : pc[q] = "activate" /\ pc'[q] = "reload"
                              => st.current \in {NoRev, tgt[q]}
  BY DEF IInv, BootstrapOK
<1>2. QED
  BY <1>1, Invariance, PTL DEF Spec, BootstrapYields

------------------------------------------------------------------------------
(***************************************************************************)
(* Without deletes.  A deleted revision's id may be given to the next      *)
(* compilation, under the feet of an apply or an approval in progress;     *)
(* when nothing is deleted an id keeps its revision, and more is true.     *)
(***************************************************************************)

\* Past GetRevision the target of a call is listed.
Gated == Held \ {"current", "get"}
TargetOK == \A q \in Request : pc[q] \in Gated => tgt[q] \in Listed(st)

\* A compilation works on an id that is not listed, and the snapshot it has
\* written, like that of every listed revision, is the one of its build.
SnapshotOK ==
  /\ comp.pc \in {"snapshot", "save"} => comp.version \notin Listed(st)
  /\ comp.pc = "save" => snapshot[comp.version] = build
  /\ \A v \in Listed(st) : snapshot[v] = st.revs[v].build

\* An apply renders the record it read and the snapshot it loaded, which are
\* those of the listed build; so are a complete candidate and what nginx serves.
BundleOK ==
  /\ \A q \in Request :
       /\ pc[q] \in Gated => seen[q] = st.revs[tgt[q]].build
       /\ pc[q] \in {"pointer", "stage", "write"} => snap[q] = st.revs[tgt[q]].build
  /\ \A v \in Version :
       candidate[v].files = "complete"
       => /\ v \in Listed(st)
          /\ candidate[v].meta = st.revs[v].build
          /\ candidate[v].snap = st.revs[v].build
  /\ serving.version # NoRev
     => /\ serving.version \in Listed(st)
        /\ serving.meta = st.revs[serving.version].build
        /\ serving.snap = st.revs[serving.version].build

\* Votes that suffice under one of the settings an administrator may choose.
Covers(votes) == \E p \in Policies : ~p.enabled \/ Cardinality(votes) >= p.required

\* A revision past the gate, and one that an apply took past it, has the votes.
VotesOK ==
  /\ \A u \in User : vote[u].pc = "approve"
                     => \E p \in Policies : vote[u].required = p.required
  /\ \A v \in Listed(st) : st.revs[v].approval # "pending" => Covers(st.revs[v].approvals)
  /\ \A q \in Request : pc[q] \in Gated => Covers(st.revs[tgt[q]].approvals)
  /\ st.current # NoRev => Covers(st.revs[st.current].approvals)

\* Where the settings forbid voting on one's own revision, no vote cast or
\* about to be cast is the compiler's, and an approval counts the votes.
OthersOK ==
  /\ \A u \in User : vote[u].pc = "approve"
                     => /\ vote[u].version \in Listed(st)
                        /\ st.revs[vote[u].version].compiledBy # u
  /\ \A v \in Version :
       /\ st.revs[v].compiledBy \notin st.revs[v].approvals
       /\ st.revs[v].approval = "approved"
          => Cardinality(st.revs[v].approvals) >= st.revs[v].required

\* Where the pointer and the current revision stand at each call of an apply
\* that meets no fault.
PointedOK ==
  /\ CurrentIsPointed
  /\ \A q \in Request :
       /\ pc[q] \in {"current", "get", "create", "running", "load", "pointer", "stage",
                     "write", "activate", "restore", "jobFailed", "recordFailed"}
          => st.current \in {NoRev, pointer}
       /\ pc[q] \in {"stage", "write", "activate", "reload", "rollback"}
          => st.current \in {NoRev, good[q]}
       /\ pc[q] \in {"rollback", "recordSucceeded"} => pointer = tgt[q]
       /\ pc[q] = "markFailed" => st.current \in {NoRev, tgt[q], pointer}
       /\ pc[q] = "recordSucceeded" => st.current = tgt[q]

------------------------------------------------------------------------------

\* A compilation that adds its revision to the list, and a vote that counts.
Saves ==
  /\ CompileSave
  /\ comp.version \in Version \ Listed(st)
  /\ PreparedRevision \in Revision
  /\ st' = SavePending(st, comp.version, PreparedRevision)
Votes(u) ==
  /\ ApproveCommit(u)
  /\ vote[u].version \in Listed(st)
  /\ vote[u].required \in 0..MaxRequired
  /\ st' = Approve(st, vote[u].version, u, vote[u].required)

\* Without deletes the store only adds revisions and votes.
LEMMA StoreCases ==
  ASSUME Deleter = {}, TypeOK, StartedOK, [Next]_vars
  PROVE  Saves \/ (\E u \in User : Votes(u)) \/ SameRevisions(st, st')
<1> USE DEF TypeOK, DocumentsTyped
<1>1. CASE CompileSave
  <2>1. CASE comp.version \in Listed(st)
    BY <1>1, <2>1 DEF CompileSave, SameRevisions
  <2>2. CASE comp.version \notin Listed(st)
    BY <1>1, <2>2, PreparedType DEF CompileSave, Saves, StartedOK
  <2>3. QED
    BY <2>1, <2>2
<1>2. CASE ClearStatuses
  BY <1>2, ResetKeeps DEF ClearStatuses, SameRevisions
<1>3. ASSUME NEW q \in Request, MarkRevisionActive(q)
      PROVE  SameRevisions(st, st')
  BY <1>3, MarkActiveKeeps DEF MarkRevisionActive, SameRevisions
<1>4. ASSUME NEW q \in Request, MarkRevisionFailed(q)
      PROVE  SameRevisions(st, st')
  BY <1>4, MarkFailedKeeps DEF MarkRevisionFailed, SameRevisions
<1>5. ASSUME NEW q \in Request, RecordResult(q)
      PROVE  SameRevisions(st, st')
  BY <1>5, RecordKeeps DEF RecordResult, ApplyResult, SameRevisions
<1>6. ASSUME NEW u \in User, ApproveCommit(u)
      PROVE  Votes(u) \/ SameRevisions(st, st')
  BY <1>6 DEF ApproveCommit, Votes, CatalogTyped, SameRevisions
<1>7. CASE UNCHANGED st
  BY <1>7 DEF SameRevisions
<1>8. QED
  BY <1>1, <1>2, <1>3, <1>4, <1>5, <1>6, <1>7, StoreFrame DEF StoreStep

\* A vote changes nothing but the votes, the count and the approval of one
\* revision.
LEMMA VoteEffect ==
  ASSUME TypeOK, NEW u \in User, Votes(u), NEW v, v = vote[u].version
  PROVE  /\ v \in Listed(st)
         /\ v \in Version
         /\ Listed(st') = Listed(st)
         /\ \A w \in Version : /\ st'.revs[w].build = st.revs[w].build
                               /\ st'.revs[w].compiledBy = st.revs[w].compiledBy
                               /\ w # v => st'.revs[w] = st.revs[w]
         /\ st'.revs[v].approvals = st.revs[v].approvals \cup {u}
         /\ st'.revs[v].required = vote[u].required
         /\ st'.revs[v].approval # "pending"
            => Cardinality(st'.revs[v].approvals) >= vote[u].required
<1>1. st \in Store /\ v \in Listed(st)
  BY DEF TypeOK, DocumentsTyped, Votes
<1>2. PICK n \in 0..MaxRequired : n = vote[u].required
  BY DEF Votes
<1>3. PICK r \in Revision : r = st.revs[v]
  BY <1>1, ListedRevision
<1>4. PICK x : x = Voted(r, u, n)
  OBVIOUS
<1>5. /\ x.build = r.build
      /\ x.compiledBy = r.compiledBy
      /\ x.approvals = r.approvals \cup {u}
      /\ x.required = n
      /\ x.approval # "pending" => Cardinality(r.approvals \cup {u}) >= n
      /\ x.status # "absent"
  <2>1. r.approvals \cup {u} \in SUBSET User
    BY DEF Revision
  <2>2. Cardinality(r.approvals \cup {u}) \in Nat
    BY <2>1, VotesCounted
  <2>3. x.approval # "pending" => Cardinality(r.approvals \cup {u}) >= n
    BY <1>4, <2>2 DEF Voted, Revision
  <2>4. x.status # "absent"
    BY <1>4, VotedType DEF Revision, Status
  <2>5. QED
    BY <1>4, <2>3, <2>4 DEF Voted, Revision
<1>6. st'.revs = [st.revs EXCEPT ![v] = x]
  BY <1>2, <1>3, <1>4 DEF Votes, Approve
<1>7. v \in Version
  BY <1>1, ListedRevision
<1>8. \A w \in Version : st'.revs[w] = IF w = v THEN x ELSE st.revs[w]
  BY <1>1, <1>6, <1>7 DEF Store
<1>9. Listed(st') = Listed(st)
  BY <1>1, <1>5, <1>7, <1>8 DEF Listed
<1>10. QED
  BY <1>1, <1>2, <1>3, <1>5, <1>7, <1>8, <1>9

\* SavePending of a compilation lists its build, asking for the approval that
\* the settings in use call for.
LEMMA SaveEffect ==
  ASSUME TypeOK, Saves
  PROVE  /\ comp.version \in Version \ Listed(st)
         /\ Listed(st') = Listed(st) \cup {comp.version}
         /\ st'.revs[comp.version].build = build
         /\ st'.revs[comp.version].approvals = {}
         /\ st'.revs[comp.version].approval = IF policy.enabled THEN "pending" ELSE "not_required"
         /\ \A w \in Version \ {comp.version} : st'.revs[w] = st.revs[w]
<1>1. PICK r \in Revision : r = PreparedRevision
  BY DEF Saves
<1>2. /\ r.build = build
      /\ r.approvals = {}
      /\ r.approval = IF policy.enabled THEN "pending" ELSE "not_required"
  BY <1>1 DEF PreparedRevision
<1>3. PICK v \in Version \ Listed(st) : v = comp.version
  BY DEF Saves
<1>4. st \in Store /\ st' = SavePending(st, v, r)
  BY <1>1, <1>3 DEF Saves, TypeOK, DocumentsTyped
<1>5. /\ Listed(st') = Listed(st) \cup {v}
      /\ st'.revs[v] = r
      /\ \A w \in Version \ {v} : st'.revs[w] = st.revs[w]
  BY <1>4, SavePendingKeeps
<1>6. QED
  BY <1>2, <1>3, <1>5

\* Without deletes a listed revision stays, with its build, its compiler and
\* its votes.
LEMMA RevisionKept ==
  ASSUME Deleter = {}, TypeOK, StartedOK, [Next]_vars, NEW v \in Listed(st)
  PROVE  /\ v \in Version
         /\ v \in Listed(st')
         /\ st'.revs[v].build = st.revs[v].build
         /\ st'.revs[v].compiledBy = st.revs[v].compiledBy
         /\ st.revs[v].approvals \subseteq st'.revs[v].approvals
<1>0. st \in Store /\ v \in Version
  BY DEF TypeOK, DocumentsTyped, Listed
<1>1. CASE Saves
  BY <1>0, <1>1, SavePendingKeeps DEF Saves
<1>2. ASSUME NEW u \in User, Votes(u)
      PROVE  /\ v \in Listed(st')
             /\ st'.revs[v].build = st.revs[v].build
             /\ st'.revs[v].compiledBy = st.revs[v].compiledBy
             /\ st.revs[v].approvals \subseteq st'.revs[v].approvals
  <2>1. CASE v = vote[u].version
    BY <1>0, <1>2, <2>1, VoteEffect
  <2>2. CASE v # vote[u].version
    BY <1>0, <1>2, <2>2, VoteEffect
  <2>3. QED
    BY <2>1, <2>2
<1>3. CASE SameRevisions(st, st')
  BY <1>0, <1>3 DEF SameRevisions
<1>4. QED
  BY <1>0, <1>1, <1>2, <1>3, StoreCases

\* A call gets past the gate through GetRevision only, and keeps its target
\* and the record it read until it returns.
LEMMA Passed ==
  ASSUME TypeOK, [Next]_vars, NEW q \in Request, pc'[q] \in Gated
  PROVE  /\ tgt'[q] = tgt[q]
         /\ \/ pc[q] \in Gated /\ seen'[q] = seen[q]
            \/ /\ GetRevision(q)
               /\ tgt[q] \in Listed(st)
               /\ st.revs[tgt[q]].approval # "pending"
               /\ seen'[q] = st.revs[tgt[q]].build
               /\ pc'[q] = "create"
<1> DEFINE Goal == /\ tgt'[q] = tgt[q]
                   /\ \/ pc[q] \in Gated /\ seen'[q] = seen[q]
                      \/ /\ GetRevision(q)
                         /\ tgt[q] \in Listed(st)
                         /\ st.revs[tgt[q]].approval # "pending"
                         /\ seen'[q] = st.revs[tgt[q]].build
                         /\ pc'[q] = "create"
<1> USE DEF TypeOK, CallsTyped, Gated
<1>1. ASSUME NEW r \in Request, (\E v \in Version : Submit(r, v)) \/ Lock(r)
      PROVE  Goal
  BY <1>1 DEF Submit, Lock, Goto, locals, Held
<1>2. ASSUME GetRevision(q)
      PROVE  Goal
  BY <1>2 DEF GetRevision, Return, Goto, Held
<1>3. ASSUME NEW r \in Request \ {q}, GetRevision(r)
      PROVE  Goal
  BY <1>3 DEF GetRevision, Return, Goto, Held
<1>4. ASSUME NEW r \in Request, NEW l, Continue(r, l), pc[r] \in Gated
      PROVE  Goal
  BY <1>4 DEF Continue, Goto, locals
<1>5. ASSUME NEW r \in Request, Return(r)
      PROVE  Goal
  BY <1>5 DEF Return, Goto, Held
<1>6. ASSUME NEW r \in Request, LoadAndCompile(r) \/ LoadKnownGood(r)
      PROVE  Goal
  BY <1>4, <1>6 DEF LoadAndCompile, LoadKnownGood, Goto, Held
<1>7. ASSUME NEW r \in Request, CheckNoActive(r)
      PROVE  Goal
  BY <1>5, <1>7 DEF CheckNoActive, Continue, Goto, locals, Held
<1>8. ASSUME NEW r \in Request,
             CreateJob(r) \/ MarkJobRunning(r) \/ StageReset(r) \/ StageWrite(r)
             \/ Activate(r) \/ Reload(r) \/ Rollback(r) \/ Restore(r)
      PROVE  Goal
  BY <1>4, <1>5, <1>8 DEF CreateJob, MarkJobRunning, JobUpdate, StageReset, StageWrite,
       Activate, Reload, Rollback, Restore, Held
<1>9. ASSUME NEW r \in Request,
             MarkRevisionActive(r) \/ MarkJobSucceeded(r) \/ MarkRevisionFailed(r)
             \/ MarkJobFailed(r) \/ RecordResult(r) \/ ApplyError(r)
      PROVE  Goal
  BY <1>4, <1>5, <1>9 DEF MarkRevisionActive, MarkJobSucceeded, MarkRevisionFailed,
       MarkJobFailed, JobUpdate, RecordResult, ApplyError, Held
<1>10. CASE Crash
  BY <1>10 DEF Crash, Held
<1>11. CASE UNCHANGED calls
  BY <1>11 DEF calls, locals
<1>12. QED
  BY <1>1, <1>2, <1>3, <1>6, <1>7, <1>8, <1>9, <1>10, <1>11, CallFrame
     DEF CallStep, ApplyStep

\* The target of a call past the gate stays listed.
LEMMA TargetStep ==
  ASSUME Deleter = {}, TypeOK, StartedOK, TargetOK, [Next]_vars
  PROVE  TargetOK'
<1>1. ASSUME NEW q \in Request, pc'[q] \in Gated
      PROVE  tgt'[q] \in Listed(st')
  <2>1. tgt'[q] = tgt[q] /\ tgt[q] \in Listed(st)
    BY <1>1, Passed DEF TargetOK
  <2>2. QED
    BY <2>1, RevisionKept
<1>2. QED
  BY <1>1 DEF TargetOK, Listed, Gated

\* Only a compilation changes the snapshots, the builds and itself, as long as
\* nothing is deleted.
LEMMA CompileFrame ==
  ASSUME Deleter = {}, [Next]_vars
  PROVE  \/ Compile
         \/ UNCHANGED <<snapshot, build, comp>>
         \/ UNCHANGED <<snapshot, build>> /\ comp' = IdleComp
<1> USE DEF documents, settings
<1>1. ASSUME NEW q \in Request, CallStep(q)
      PROVE  UNCHANGED <<snapshot, build, comp>>
  BY <1>1 DEF CallStep, Submit, Lock, ApplyError, ApplyStep, CheckNoActive, GetRevision, CreateJob,
       MarkJobRunning, LoadAndCompile, LoadKnownGood, StageReset, StageWrite, Activate,
       Reload, Rollback, Restore, MarkRevisionActive, MarkJobSucceeded,
       MarkRevisionFailed, MarkJobFailed, RecordResult, JobUpdate
<1>2. CASE Catalog
  BY <1>2 DEF Catalog, ClearJobs, ClearStatuses, ApproveCheck, ApproveCommit, UpdatePolicy
<1>3. CASE Crash \/ RuntimeBoot \/ NginxExit \/ UNCHANGED vars
  BY <1>3 DEF Crash, RuntimeBoot, NginxExit, vars
<1>4. QED
  BY <1>1, <1>2, <1>3 DEF Next, CallStep

\* Snapshots are written for the build that is listed afterwards.
LEMMA SnapshotStep ==
  ASSUME Deleter = {}, TypeOK, StartedOK, SnapshotOK, [Next]_vars
  PROVE  SnapshotOK'
<1> DEFINE Comp == /\ comp'.pc \in {"snapshot", "save"} => comp'.version \notin Listed(st')
                   /\ comp'.pc = "save" => snapshot'[comp'.version] = build'
           Snaps == \A v \in Listed(st') : snapshot'[v] = st'.revs[v].build
<1>0. SUFFICES Comp /\ Snaps
  BY DEF SnapshotOK, Listed
<1>t. /\ st \in Store
      /\ snapshot \in [Version -> Build \cup {NoBuild}]
      /\ comp.pc # "idle" => comp.version \in Version
      /\ comp \in [pc      : {"idle", "snapshot", "save", "job"},
                   version : Version \cup {NoRev},
                   by      : User \cup {NoUser}]
  BY DEF TypeOK, DocumentsTyped, SettingsTyped, StartedOK
<1>1. ASSUME NEW u \in User \cup {NoUser}, CompileList(u)
      PROVE  Comp /\ Snaps
  <2>1. comp'.version \notin Listed(st)
    BY <1>1, <1>t, NextVersionFresh DEF CompileList
  <2>2. QED
    BY <1>1, <2>1 DEF CompileList, SnapshotOK, documents
<1>2. CASE CompileSnapshot
  <2>1. /\ comp.version \in Version \ Listed(st)
        /\ snapshot' = [snapshot EXCEPT ![comp.version] = build]
        /\ comp'.pc = "save" /\ comp'.version = comp.version
        /\ st' = st /\ build' = build
    BY <1>2, <1>t DEF CompileSnapshot, SnapshotOK
  <2>2. /\ snapshot'[comp.version] = build
        /\ \A v \in Version \ {comp.version} : snapshot'[v] = snapshot[v]
    BY <2>1, <1>t
  <2>3. QED
    BY <2>1, <2>2 DEF SnapshotOK, Listed
<1>3. CASE Saves
  <2>1. /\ comp.version \in Version \ Listed(st)
        /\ Listed(st') = Listed(st) \cup {comp.version}
        /\ st'.revs[comp.version].build = build
        /\ \A w \in Version \ {comp.version} : st'.revs[w] = st.revs[w]
    BY <1>3, SaveEffect
  <2>2. snapshot[comp.version] = build /\ snapshot' = snapshot /\ comp'.pc \in {"idle", "job"}
    BY <1>3, <1>t DEF Saves, CompileSave, SnapshotOK, IdleComp
  <2>3. QED
    BY <2>1, <2>2 DEF SnapshotOK, Listed
<1>4. ASSUME \/ UNCHANGED <<snapshot, build, comp>>
             \/ UNCHANGED <<snapshot, build>> /\ comp'.pc \in {"idle", "job"},
             Listed(st') = Listed(st),
             \A v \in Version : st'.revs[v].build = st.revs[v].build
      PROVE  Comp /\ Snaps
  BY <1>4 DEF SnapshotOK, Listed
<1>5. CASE CompileSave \/ CompileJob \/ CompileError
  <2>1. UNCHANGED <<snapshot, build>> /\ comp'.pc \in {"idle", "job"}
    BY <1>5, <1>t DEF CompileSave, CompileJob, CompileError, IdleComp, documents
  <2>2. Saves \/ UNCHANGED st
    BY <1>5, <1>t, PreparedType DEF CompileSave, Saves, CompileJob, CompileError, documents, TypeOK
  <2>3. QED
    BY <1>3, <1>4, <2>1, <2>2
<1>6. ASSUME ~Compile
      PROVE  Comp /\ Snaps
  <2>1. \/ UNCHANGED <<snapshot, build, comp>>
        \/ UNCHANGED <<snapshot, build>> /\ comp'.pc \in {"idle", "job"}
    BY <1>6, CompileFrame DEF IdleComp
  <2>2. CASE SameRevisions(st, st')
    BY <1>4, <2>1, <2>2 DEF SameRevisions
  <2>3. ASSUME NEW u \in User, Votes(u)
        PROVE  Comp /\ Snaps
    BY <1>4, <2>1, <2>3, VoteEffect
  <2>4. QED
    BY <1>3, <2>2, <2>3, StoreCases
<1>7. QED
  BY <1>1, <1>2, <1>5, <1>6 DEF Compile

\* What is rendered, staged and served under an id is the listed build.
LEMMA BundleStep ==
  ASSUME Deleter = {}, TypeOK, StartedOK, TargetOK, SnapshotOK, BundleOK, [Next]_vars
  PROVE  BundleOK'
<1> DEFINE Read == \A q \in Request : pc'[q] \in Gated => seen'[q] = st'.revs[tgt'[q]].build
           Loaded == \A q \in Request : pc'[q] \in {"pointer", "stage", "write"}
                                        => snap'[q] = st'.revs[tgt'[q]].build
           Staged == \A v \in Version : candidate'[v].files = "complete"
                       => /\ v \in Listed(st')
                          /\ candidate'[v].meta = st'.revs[v].build
                          /\ candidate'[v].snap = st'.revs[v].build
           Matches(b) == b.version # NoRev
                         => /\ b.version \in Listed(st)
                            /\ b.meta = st.revs[b.version].build
                            /\ b.snap = st.revs[b.version].build
           Served == serving'.version # NoRev
                       => /\ serving'.version \in Listed(st')
                          /\ serving'.meta = st'.revs[serving'.version].build
                          /\ serving'.snap = st'.revs[serving'.version].build
<1>1. Read
  <2> SUFFICES ASSUME NEW q \in Request, pc'[q] \in Gated
               PROVE  seen'[q] = st'.revs[tgt'[q]].build
    OBVIOUS
  <2>1. tgt'[q] = tgt[q] /\ tgt[q] \in Listed(st) /\ seen'[q] = st.revs[tgt[q]].build
    BY Passed DEF TargetOK, BundleOK
  <2>2. QED
    BY <2>1, RevisionKept
<1>2. Loaded
  <2> SUFFICES ASSUME NEW q \in Request, pc'[q] \in {"pointer", "stage", "write"}
               PROVE  snap'[q] = st'.revs[tgt'[q]].build
    OBVIOUS
  <2>1. tgt'[q] = tgt[q] /\ tgt[q] \in Listed(st) /\ pc[q] \in Gated
    BY Passed DEF TargetOK, Gated, Held
  <2>2. snap'[q] = st.revs[tgt[q]].build
    <3> USE DEF TypeOK, CallsTyped
    <3>1. ASSUME NEW r \in Request, CallStep(r), r # q
          PROVE  pc'[q] = pc[q] /\ snap'[q] = snap[q]
      <4>1. pc'[q] = pc[q]
        BY <3>1, CallEffect
      <4>2. ASSUME NEW l, Continue(r, l) \/ Return(r)
            PROVE  snap'[q] = snap[q]
        BY <3>1, <4>2 DEF Continue, Return, locals
      <4>3. CASE (\E v \in Version : Submit(r, v)) \/ Lock(r) \/ GetRevision(r)
                 \/ LoadAndCompile(r) \/ LoadKnownGood(r)
        BY <3>1, <4>1, <4>2, <4>3 DEF Submit, Lock, GetRevision, LoadAndCompile,
             LoadKnownGood, locals
      <4>4. CASE CheckNoActive(r) \/ CreateJob(r) \/ MarkJobRunning(r) \/ StageReset(r)
                 \/ StageWrite(r) \/ Activate(r) \/ Reload(r) \/ Rollback(r)
        BY <4>1, <4>2, <4>4 DEF CheckNoActive, CreateJob, MarkJobRunning, JobUpdate, StageReset,
             StageWrite, Activate, Reload, Rollback
      <4>5. CASE Restore(r) \/ MarkRevisionActive(r) \/ MarkJobSucceeded(r)
                 \/ MarkRevisionFailed(r) \/ MarkJobFailed(r) \/ RecordResult(r) \/ ApplyError(r)
        BY <4>1, <4>2, <4>5 DEF Restore, MarkRevisionActive, MarkJobSucceeded,
             MarkRevisionFailed, MarkJobFailed, JobUpdate, RecordResult, ApplyError
      <4>6. QED
        BY <3>1, <4>3, <4>4, <4>5 DEF CallStep, ApplyStep
    <3>2. CASE LoadAndCompile(q)
      BY <2>1, <3>2 DEF LoadAndCompile, Continue, Goto, SnapshotOK
    <3>3. CASE LoadKnownGood(q) \/ StageReset(q) \/ StageWrite(q)
      BY <3>3 DEF LoadKnownGood, StageReset, StageWrite, Continue, Goto, locals, BundleOK
    <3>4. CASE CreateJob(q) \/ MarkJobRunning(q) \/ Activate(q) \/ Reload(q) \/ Rollback(q)
               \/ CheckNoActive(q) \/ GetRevision(q) \/ (\E v \in Version : Submit(q, v)) \/ Lock(q)
      BY <3>4 DEF CreateJob, MarkJobRunning, JobUpdate, Activate, Reload, Rollback, Continue,
           Return, Goto, CheckNoActive, GetRevision, Submit, Lock
    <3>5. CASE Restore(q) \/ MarkRevisionActive(q) \/ MarkJobSucceeded(q)
               \/ MarkRevisionFailed(q) \/ MarkJobFailed(q) \/ RecordResult(q) \/ ApplyError(q)
      BY <3>5 DEF Restore, MarkRevisionActive, MarkJobSucceeded, MarkRevisionFailed,
           MarkJobFailed, JobUpdate, RecordResult, ApplyError, Continue, Return, Goto
    <3>6. CASE Crash
      BY <3>6 DEF Crash
    <3>7. CASE UNCHANGED calls
      BY <3>7 DEF calls, locals, BundleOK
    <3>8. QED
      BY <3>1, <3>2, <3>3, <3>4, <3>5, <3>6, <3>7, CallFrame DEF CallStep, ApplyStep, BundleOK
  <2>3. QED
    BY <2>1, <2>2, RevisionKept
<1>3. Staged
  <2> SUFFICES ASSUME NEW v \in Version, candidate'[v].files = "complete"
               PROVE  /\ v \in Listed(st)
                      /\ candidate'[v].meta = st.revs[v].build
                      /\ candidate'[v].snap = st.revs[v].build
    BY RevisionKept
  <2> USE DEF TypeOK, RuntimeTyped
  <2>1. ASSUME NEW q \in Request, StageWrite(q), tgt[q] = v
        PROVE  /\ v \in Listed(st)
               /\ candidate'[v].meta = st.revs[v].build
               /\ candidate'[v].snap = st.revs[v].build
    <3>1. /\ tgt[q] \in Listed(st)
          /\ seen[q] = st.revs[tgt[q]].build
          /\ snap[q] = st.revs[tgt[q]].build
      BY <2>1 DEF StageWrite, TargetOK, BundleOK, Gated, Held
    <3>2. QED
      BY <2>1, <3>1 DEF StageWrite, Rendered, NoFiles
  <2>2. ASSUME NEW q \in Request, StageReset(q) \/ (StageWrite(q) /\ tgt[q] # v)
        PROVE  candidate'[v] = candidate[v]
    BY <2>2 DEF StageReset, StageWrite, NoFiles
  <2>3. (\E q \in Request : StageReset(q) \/ StageWrite(q)) \/ UNCHANGED candidate
    BY RuntimeFrame DEF RuntimeStep, runtime, Activate, Reload, Rollback, Restore, RuntimeBoot,
         NginxExit
  <2>4. QED
    BY <2>1, <2>2, <2>3 DEF BundleOK
<1>4. Served
  <2>1. SUFFICES Matches(serving')
    BY RevisionKept
  <2>2. ASSUME NEW v \in Version, candidate[v].files = "complete", serving' = BundleAt(v)
        PROVE  Matches(serving')
    BY <2>2 DEF BundleOK, BundleAt
  <2>3. CASE serving' = serving
    BY <2>3 DEF BundleOK
  <2>4. CASE serving' = NoBundle
    BY <2>4 DEF NoBundle
  <2>5. pointer # NoRev => pointer \in Version
    BY DEF TypeOK, RuntimeTyped
  <2>6. CASE RuntimeBoot \/ NginxExit
    BY <2>2, <2>4, <2>5, <2>6 DEF RuntimeBoot, NginxExit
  <2>7. ASSUME NEW q \in Request, Reload(q) \/ Restore(q)
        PROVE  Matches(serving')
    <3>1. CASE ReloadFailed
      BY <2>2, <2>3, <2>5, <3>1 DEF ReloadFailed
    <3>2. ASSUME NEW v \in Version, Reloaded(v)
          PROVE  Matches(serving')
      BY <2>2, <3>2 DEF Reloaded
    <3>3. QED
      BY <2>7, <3>1, <3>2 DEF Reload, Restore, StartedOK
  <2>8. QED
    BY <2>3, <2>6, <2>7, RuntimeFrame
       DEF RuntimeStep, runtime, StageReset, StageWrite, Activate, Rollback
<1>5. QED
  BY <1>1, <1>2, <1>3, <1>4 DEF BundleOK, Listed, Gated

\* Only ApproveCheck starts an approval.
LEMMA VoteFrame ==
  ASSUME TypeOK, [Next]_vars, NEW u \in User, vote'[u].pc = "approve"
  PROVE  \/ vote'[u] = vote[u]
         \/ \E v \in Version : ApproveCheck(u, v)
<1> USE DEF TypeOK, CatalogTyped, catalog
<1>1. CASE Compile
  BY <1>1 DEF Compile, CompileList, CompileSnapshot, CompileSave, CompileJob, CompileError
<1>2. ASSUME NEW q \in Request, CallStep(q)
      PROVE  vote' = vote
  BY <1>2 DEF CallStep, Submit, Lock, ApplyError, ApplyStep, CheckNoActive, GetRevision,
       CreateJob, MarkJobRunning, LoadAndCompile, LoadKnownGood, StageReset, StageWrite,
       Activate, Reload, Rollback, Restore, MarkRevisionActive, MarkJobSucceeded,
       MarkRevisionFailed, MarkJobFailed, RecordResult, JobUpdate
<1>3. ASSUME NEW d \in Deleter,
             \/ \E v \in Version : DeleteGet(d, v)
             \/ DeleteSnapshot(d) \/ DeleteJobs(d) \/ DeleteRevision(d) \/ DeleteError(d)
      PROVE  vote' = vote
  BY <1>3 DEF DeleteGet, DeleteSnapshot, DeleteJobs, DeleteRevision, DeleteError
<1>4. CASE ClearJobs \/ ClearStatuses \/ UpdatePolicy
  BY <1>4 DEF ClearJobs, ClearStatuses, UpdatePolicy
<1>5. ASSUME NEW w \in User, NEW v \in Version, ApproveCheck(w, v)
      PROVE  vote'[u] = vote[u] \/ \E x \in Version : ApproveCheck(u, x)
  <2>1. CASE w = u
    BY <1>5, <2>1
  <2>2. CASE w # u
    BY <1>5, <2>2 DEF ApproveCheck
  <2>3. QED
    BY <2>1, <2>2
<1>6. ASSUME NEW w \in User, ApproveCommit(w)
      PROVE  vote'[u] = vote[u]
  BY <1>6 DEF ApproveCommit, IdleVote
<1>7. CASE Crash \/ RuntimeBoot \/ NginxExit \/ UNCHANGED vars
  BY <1>7 DEF Crash, RuntimeBoot, NginxExit, vars, IdleVote
<1>8. QED
  BY <1>1, <1>2, <1>3, <1>4, <1>5, <1>6, <1>7 DEF Next, Catalog, CallStep

\* The current revision changes only to none or to the target of MarkActive.
LEMMA CurrentCases ==
  ASSUME TypeOK, [Next]_vars
  PROVE  \/ st'.current \in {st.current, NoRev}
         \/ \E q \in Request : pc[q] = "markActive" /\ st'.current = tgt[q]
<1>1. ASSUME NEW q \in Request, MarkRevisionActive(q)
      PROVE  st'.current = st.current \/ (pc[q] = "markActive" /\ st'.current = tgt[q])
  BY <1>1 DEF MarkRevisionActive, MarkActive
<1>2. ASSUME NEW q \in Request, MarkRevisionFailed(q) \/ RecordResult(q)
      PROVE  st'.current \in {st.current, NoRev}
  BY <1>2 DEF MarkRevisionFailed, RecordResult, MarkFailed, RecordApplyResult
<1>3. QED
  BY <1>1, <1>2, StoreFrame DEF StoreStep, CompileSave, SavePending, ClearStatuses,
     ResetStatuses, DeleteRevision, Delete, ApproveCommit, Approve

\* More votes cover no less.
LEMMA CoversMore ==
  ASSUME NEW votes \in SUBSET User, NEW fewer \in SUBSET votes, Covers(fewer)
  PROVE  Covers(votes)
<1>1. PICK p \in Policies : ~p.enabled \/ Cardinality(fewer) >= p.required
  BY DEF Covers
<1>2. PICK n \in Nat : n = p.required
  BY RolloutAssumption, StoreAssumption
<1>3. PICK few \in Nat : few = Cardinality(fewer)
  BY VotesCounted
<1>4. PICK many \in Nat : many = Cardinality(votes)
  BY VotesCounted
<1>5. few <= many
  BY <1>3, <1>4, VotesCounted
<1>6. few >= n => many >= n
  BY <1>5
<1>7. QED
  BY <1>1, <1>2, <1>3, <1>4, <1>6 DEF Covers

\* The votes that took a revision past the gate are there when it is activated.
LEMMA VotesStep ==
  ASSUME Deleter = {}, TypeOK, StartedOK, StoreConsistent, TargetOK, VotesOK,
         [Next]_vars, st' \in Store
  PROVE  VotesOK'
<1> DEFINE Asked == \A u \in User : vote'[u].pc = "approve"
                                    => \E p \in Policies : vote'[u].required = p.required
           Open == \A v \in Listed(st') : st'.revs[v].approval # "pending"
                                          => Covers(st'.revs[v].approvals)
           Through == \A q \in Request : pc'[q] \in Gated => Covers(st'.revs[tgt'[q]].approvals)
           Now == st'.current # NoRev => Covers(st'.revs[st'.current].approvals)
<1>1. Asked
  <2> SUFFICES ASSUME NEW u \in User, vote'[u].pc = "approve"
               PROVE  \E p \in Policies : vote'[u].required = p.required
    OBVIOUS
  <2>1. CASE vote'[u] = vote[u]
    BY <2>1 DEF VotesOK
  <2>2. ASSUME NEW v \in Version, ApproveCheck(u, v)
        PROVE  vote'[u].required = policy.required /\ policy \in Policies
    BY <2>2 DEF ApproveCheck, TypeOK, CatalogTyped, SettingsTyped
  <2>3. QED
    BY <2>1, <2>2, VoteFrame
<1>2. \A v \in Listed(st) : Covers(st.revs[v].approvals) => Covers(st'.revs[v].approvals)
  <2> SUFFICES ASSUME NEW v \in Listed(st), Covers(st.revs[v].approvals)
               PROVE  Covers(st'.revs[v].approvals)
    OBVIOUS
  <2>1. v \in Listed(st') /\ st.revs[v].approvals \subseteq st'.revs[v].approvals
    BY RevisionKept
  <2>2. st'.revs[v].approvals \in SUBSET User
    BY <2>1, ListedRevision DEF Revision
  <2>3. QED
    BY <2>1, <2>2, CoversMore
<1>3. Open
  <2>0. st \in Store
    BY DEF TypeOK, DocumentsTyped
  <2>1. CASE Saves
    <3>1. ASSUME ~policy.enabled
          PROVE  Covers({})
      BY <3>1 DEF Covers, TypeOK, SettingsTyped
    <3>2. QED
      BY <2>1, <3>1, SaveEffect DEF VotesOK, Listed
  <2>2. ASSUME NEW u \in User, Votes(u)
        PROVE  Open
    <3>1. PICK v : v = vote[u].version
      OBVIOUS
    <3>2. st'.revs[v].approval # "pending" => Covers(st'.revs[v].approvals)
      <4>1. vote[u].pc = "approve"
        BY <2>2 DEF Votes, ApproveCommit
      <4>2. PICK p \in Policies : vote[u].required = p.required
        BY <4>1 DEF VotesOK
      <4>3. QED
        BY <2>2, <3>1, <4>2, VoteEffect DEF Covers
    <3>3. Listed(st') = Listed(st) /\ \A w \in Version : w # v => st'.revs[w] = st.revs[w]
      BY <2>2, <3>1, VoteEffect
    <3>4. QED
      BY <3>2, <3>3 DEF VotesOK, Listed
  <2>3. CASE SameRevisions(st, st')
    BY <2>3 DEF SameRevisions, VotesOK, Listed
  <2>4. QED
    BY <2>1, <2>2, <2>3, StoreCases
<1>4. Through
  <2> SUFFICES ASSUME NEW q \in Request, pc'[q] \in Gated
               PROVE  Covers(st'.revs[tgt'[q]].approvals)
    OBVIOUS
  <2>1. tgt'[q] = tgt[q] /\ tgt[q] \in Listed(st) /\ Covers(st.revs[tgt[q]].approvals)
    BY Passed DEF TargetOK, VotesOK
  <2>2. QED
    BY <1>2, <2>1
<1>5. Now
  <2>1. ASSUME NEW q \in Request, pc[q] = "markActive", st'.current = tgt[q]
        PROVE  Now
    <3>1. tgt[q] \in Listed(st) /\ Covers(st.revs[tgt[q]].approvals)
      BY <2>1 DEF TargetOK, VotesOK, Gated, Held
    <3>2. QED
      BY <1>2, <2>1, <3>1
  <2>2. ASSUME st.current # NoRev, st'.current = st.current
        PROVE  Now
    BY <1>2, <2>2 DEF VotesOK, StoreConsistent, Consistent
  <2>3. QED
    BY <2>1, <2>2, CurrentCases
<1>6. QED
  BY <1>1, <1>3, <1>4, <1>5 DEF VotesOK, Covers, Listed, Gated

\* Where nobody may vote on their own revision, only others approve it.
LEMMA OthersStep ==
  ASSUME Deleter = {}, \A p \in Policies : p.enabled /\ ~p.allowSelf,
         TypeOK, StartedOK, OthersOK, [Next]_vars
  PROVE  OthersOK'
<1> DEFINE Voter == \A u \in User : vote'[u].pc = "approve"
                      => /\ vote'[u].version \in Listed(st')
                         /\ st'.revs[vote'[u].version].compiledBy # u
           Counted(v) == /\ st'.revs[v].compiledBy \notin st'.revs[v].approvals
                         /\ st'.revs[v].approval = "approved"
                            => Cardinality(st'.revs[v].approvals) >= st'.revs[v].required
<1>1. Voter
  <2> SUFFICES ASSUME NEW u \in User, vote'[u].pc = "approve"
               PROVE  /\ vote'[u].version \in Listed(st')
                      /\ st'.revs[vote'[u].version].compiledBy # u
    OBVIOUS
  <2>1. vote'[u].version \in Listed(st) /\ st.revs[vote'[u].version].compiledBy # u
    <3>1. CASE vote'[u] = vote[u]
      BY <3>1 DEF OthersOK
    <3>2. ASSUME NEW v \in Version, ApproveCheck(u, v)
          PROVE  vote'[u].version \in Listed(st) /\ st.revs[vote'[u].version].compiledBy # u
      <4>1. policy \in Policies
        BY DEF TypeOK, SettingsTyped
      <4>2. policy.enabled /\ ~policy.allowSelf
        BY <4>1
      <4>3. vote'[u].version = v
        BY <3>2 DEF ApproveCheck, TypeOK, CatalogTyped
      <4>4. v \in Listed(st) /\ st.revs[v].compiledBy # u
        BY <3>2, <4>2 DEF ApproveCheck
      <4>5. QED
        BY <4>3, <4>4
    <3>3. QED
      BY <3>1, <3>2, VoteFrame
  <2>2. QED
    BY <2>1, RevisionKept
<1>2. \A v \in Version : Counted(v)
  <2> SUFFICES ASSUME NEW v \in Version
               PROVE  Counted(v)
    OBVIOUS
  <2>1. CASE Saves
    <3>1. CASE v = comp.version
      BY <2>1, <3>1, SaveEffect
    <3>2. CASE v # comp.version
      BY <2>1, <3>2, SaveEffect DEF OthersOK
    <3>3. QED
      BY <3>1, <3>2
  <2>2. ASSUME NEW u \in User, Votes(u)
        PROVE  Counted(v)
    <3>1. CASE v = vote[u].version
      <4>1. vote[u].pc = "approve"
        BY <2>2 DEF Votes, ApproveCommit
      <4>2. st.revs[v].compiledBy # u /\ st.revs[v].compiledBy \notin st.revs[v].approvals
        BY <3>1, <4>1 DEF OthersOK
      <4>3. /\ st'.revs[v].compiledBy = st.revs[v].compiledBy
            /\ st'.revs[v].approvals = st.revs[v].approvals \cup {u}
            /\ st'.revs[v].required = vote[u].required
            /\ st'.revs[v].approval # "pending"
               => Cardinality(st'.revs[v].approvals) >= vote[u].required
        BY <2>2, <3>1, VoteEffect
      <4>4. QED
        BY <4>2, <4>3
    <3>2. CASE v # vote[u].version
      BY <2>2, <3>2, VoteEffect DEF OthersOK
    <3>3. QED
      BY <3>1, <3>2
  <2>3. CASE SameRevisions(st, st')
    BY <2>3 DEF SameRevisions, OthersOK
  <2>4. QED
    BY <2>1, <2>2, <2>3, StoreCases
<1>3. QED
  BY <1>1, <1>2 DEF OthersOK, Listed

\* Without faults and deletes every way out of an apply leaves the pointer on
\* the current revision.
LEMMA PointedStep ==
  ASSUME Deleter = {}, Faults = {}, TypeOK, StartedOK, Serialised, StagingOK, LiveOK,
         TargetOK, PointedOK, [Next]_vars
  PROVE  PointedOK'
<1> DEFINE Early == {"current", "get", "create", "running", "load", "pointer", "stage",
                     "write", "activate", "restore", "jobFailed", "recordFailed"}
           Known == {"stage", "write", "activate", "reload", "rollback"}
           Pointed(q) ==
             /\ pc'[q] \in Early => st'.current \in {NoRev, pointer'}
             /\ pc'[q] \in Known => st'.current \in {NoRev, good'[q]}
             /\ pc'[q] \in {"rollback", "recordSucceeded"} => pointer' = tgt'[q]
             /\ pc'[q] = "markFailed" => st'.current \in {NoRev, tgt'[q], pointer'}
             /\ pc'[q] = "recordSucceeded" => st'.current = tgt'[q]
           Free == applyMu' = NoRequest => st'.current \in {NoRev, pointer'}
<1>0. SUFFICES Free /\ \A r \in Request : Pointed(r)
  BY DEF PointedOK, CurrentIsPointed
<1> USE DEF TypeOK
<1>1. ASSUME NEW q \in Request, NEW v \in Version, Submit(q, v)
      PROVE  Free /\ \A r \in Request : Pointed(r)
  BY <1>1 DEF Submit, Goto, CallsTyped, PointedOK, CurrentIsPointed, runtime, documents
<1>2. ASSUME NEW q \in Request, Lock(q)
      PROVE  Free /\ \A r \in Request : Pointed(r)
  BY <1>2, RolloutAssumption
     DEF Lock, Goto, CallsTyped, PointedOK, CurrentIsPointed, runtime, documents, locals
<1>3. ASSUME NEW q \in Request, ApplyStep(q), Pointed(q),
             pc'[q] = "done" => st'.current \in {NoRev, pointer'}
      PROVE  Free /\ \A r \in Request : Pointed(r)
  <2>1. \A r \in Request \ {q} : Pointed(r)
    BY <1>3, Alone DEF Held
  <2>2. pc[q] \in Held /\ (pc'[q] = "done" \/ applyMu' = applyMu)
    BY <1>3, HeldEffect
  <2>3. applyMu = q
    BY <2>2 DEF Serialised
  <2>4. QED
    BY <1>3, <2>1, <2>2, <2>3, RolloutAssumption
<1>4. ASSUME NEW q \in Request, ApplyStep(q)
      PROVE  Pointed(q) /\ (pc'[q] = "done" => st'.current \in {NoRev, pointer'})
  <2> DEFINE Goal == Pointed(q) /\ (pc'[q] = "done" => st'.current \in {NoRev, pointer'})
  <2> USE DEF CallsTyped, Continue, Return, Goto, locals, documents, runtime
  <2>1. CASE CheckNoActive(q) \/ GetRevision(q) \/ CreateJob(q)
    BY <2>1 DEF CheckNoActive, GetRevision, CreateJob, PointedOK
  <2>2. CASE MarkJobRunning(q) \/ LoadAndCompile(q)
    BY <2>2 DEF MarkJobRunning, JobUpdate, LoadAndCompile, PointedOK
  <2>3. CASE LoadKnownGood(q)
    BY <2>3 DEF LoadKnownGood, PointedOK
  <2>4. CASE StageReset(q) \/ StageWrite(q)
    BY <2>4 DEF StageReset, StageWrite, PointedOK
  <2>5. CASE Activate(q)
    BY <2>5 DEF Activate, PointedOK
  <2>6. CASE Reload(q)
    <3>1. pointer = tgt[q] /\ st.current \in {NoRev, good[q]} /\ pc[q] = "reload"
      BY <2>6 DEF Reload, LiveOK, PointedOK
    <3>2. QED
      BY <2>6, <3>1 DEF Reload
  <2>7. CASE Rollback(q)
    <3>1. /\ pointer = tgt[q] /\ st.current \in {NoRev, good[q]} /\ pc[q] = "rollback"
          /\ good[q] \in Version
      BY <2>7 DEF Rollback, PointedOK, StartedOK
    <3>2. Activatable(good[q])
      BY <2>7, <3>1, StoreAssumption DEF Rollback, StagingOK, Activatable, Version, NoRev
    <3>3. QED
      BY <2>7, <3>1, <3>2 DEF Rollback
  <2>8. CASE Restore(q)
    BY <2>8 DEF Restore, PointedOK
  <2>9. CASE MarkRevisionActive(q)
    <3>1. tgt[q] \in Listed(st) /\ pointer = tgt[q]
      BY <2>9 DEF MarkRevisionActive, TargetOK, LiveOK, Gated, Held
    <3>2. QED
      BY <2>9, <3>1 DEF MarkRevisionActive
  <2>10. CASE MarkJobSucceeded(q)
    <3>1. pointer = tgt[q] /\ st.current = tgt[q]
      BY <2>10 DEF MarkJobSucceeded, LiveOK
    <3>2. QED
      BY <2>10, <3>1 DEF MarkJobSucceeded, JobUpdate
  <2>11. CASE MarkRevisionFailed(q)
    <3>1. tgt[q] \in Listed(st) /\ st.current \in {NoRev, tgt[q], pointer}
      BY <2>11 DEF MarkRevisionFailed, TargetOK, PointedOK, Gated, Held
    <3>2. st'.current \in {NoRev, pointer}
      BY <2>11, <3>1 DEF MarkRevisionFailed, MarkFailed
    <3>3. QED
      BY <2>11, <3>2 DEF MarkRevisionFailed
  <2>12. CASE MarkJobFailed(q)
    BY <2>12 DEF MarkJobFailed, JobUpdate, PointedOK
  <2>13. CASE RecordResult(q)
    <3>1. st'.current = st.current
      BY <2>13 DEF RecordResult, RecordApplyResult
    <3>2. QED
      BY <2>13, <3>1 DEF RecordResult, PointedOK
  <2>14. QED
    BY <1>4, <2>1, <2>2, <2>3, <2>4, <2>5, <2>6, <2>7, <2>8, <2>9, <2>10, <2>11, <2>12, <2>13
       DEF ApplyStep
<1>5. CASE UNCHANGED <<calls, candidate, pointer>> /\ st'.current = st.current
  BY <1>5 DEF calls, locals, PointedOK, CurrentIsPointed
<1>6. ~Crash /\ \A q \in Request : ~ApplyError(q)
  BY DEF Crash, ApplyError
<1>7. QED
  BY <1>1, <1>2, <1>3, <1>4, <1>5, <1>6, Background DEF CallStep

------------------------------------------------------------------------------
(***************************************************************************)
(* The theorems for runs without deletes.                                  *)
(***************************************************************************)

\* The invariant of a control plane in which nothing is deleted.
NoDeleteInv == IInv /\ TargetOK /\ SnapshotOK /\ BundleOK /\ VotesOK

\* It holds initially: nothing is listed, staged, served or voted for.
LEMMA NoDeleteInit == Init => NoDeleteInv /\ OthersOK /\ PointedOK
<1> SUFFICES ASSUME Init
             PROVE  NoDeleteInv /\ OthersOK /\ PointedOK
  OBVIOUS
<1>1. /\ Listed(st) = {}
      /\ st.current = NoRev
      /\ \A v \in Version : st.revs[v] = NoRevision
  BY DEF Init, EmptyStore, Listed, NoRevision
<1>2. TargetOK /\ SnapshotOK /\ PointedOK
  BY <1>1 DEF Init, TargetOK, SnapshotOK, PointedOK, CurrentIsPointed, Gated, Held, IdleComp
<1>3. BundleOK
  BY <1>1 DEF Init, BundleOK, Gated, Held, NoFiles, NoBundle
<1>4. \A u \in User : vote[u].pc # "approve"
  BY DEF Init, IdleVote
<1>5. VotesOK
  BY <1>1, <1>4 DEF Init, VotesOK, Gated, Held
<1>6. OthersOK
  BY <1>1, <1>4 DEF OthersOK, NoRevision
<1>7. QED
  BY <1>2, <1>3, <1>5, <1>6, InvInit DEF NoDeleteInv

\* Every step keeps it.
LEMMA NoDeleteStep ==
  ASSUME Deleter = {}, NoDeleteInv, [Next]_vars
  PROVE  NoDeleteInv'
<1>1. IInv' /\ st' \in Store
  BY InvStep DEF NoDeleteInv, IInv, TypeOK, DocumentsTyped
<1>2. QED
  BY <1>1, TargetStep, SnapshotStep, BundleStep, VotesStep DEF NoDeleteInv, IInv

\* It holds in every state of a control plane in which nothing is deleted.
THEOREM NoDeleteInvariance ==
  ASSUME Deleter = {}
  PROVE  Spec => []NoDeleteInv
<1>1. NoDeleteInv /\ [Next]_vars => NoDeleteInv'
  BY NoDeleteStep
<1>2. Init => NoDeleteInv
  BY NoDeleteInit
<1>3. QED
  BY <1>1, <1>2, PTL DEF Spec

\* As long as no revision is deleted, nginx serves under the id of the current
\* revision the build the store lists, whatever call fails, wherever the
\* process crashes and even when current.json cannot be read.
THEOREM ServesListed ==
  ASSUME Deleter = {}
  PROVE  Spec => []ServesListedBuild
<1>1. NoDeleteInv => ServesListedBuild
  BY DEF NoDeleteInv, BundleOK, ServesListedBuild
<1>2. QED
  BY <1>1, NoDeleteInvariance, PTL

\* As long as no revision is deleted, the current revision has the votes of
\* some settings an administrator chose: later votes, resets of the timeline
\* and changes of the settings do not outrun the check of Apply.
THEOREM CurrentVoted ==
  ASSUME Deleter = {}
  PROVE  Spec => []CurrentHasVotes
<1>1. NoDeleteInv => CurrentHasVotes
  BY DEF NoDeleteInv, VotesOK, Covers, CurrentHasVotes
<1>2. QED
  BY <1>1, NoDeleteInvariance, PTL

\* As long as no revision is deleted and every setting in use forbids voting on
\* one's own revision, an approved revision has the votes it asks for, none of
\* them its compiler's.
THEOREM OthersApprove ==
  ASSUME Deleter = {}, \A p \in Policies : p.enabled /\ ~p.allowSelf
  PROVE  Spec => []ApprovedByOthers
<1>1. NoDeleteInv /\ OthersOK /\ [Next]_vars => OthersOK'
  BY OthersStep DEF NoDeleteInv, IInv
<1>2. OthersOK => ApprovedByOthers
  <2>1. ASSUME OthersOK, NEW v \in Version, st.revs[v].approval = "approved"
        PROVE  Cardinality(st.revs[v].approvals \ {st.revs[v].compiledBy}) >= st.revs[v].required
    <3>1. st.revs[v].approvals \ {st.revs[v].compiledBy} = st.revs[v].approvals
      BY <2>1 DEF OthersOK
    <3>2. QED
      BY <2>1, <3>1 DEF OthersOK
  <2>2. QED
    BY <2>1 DEF ApprovedByOthers
<1>3. Init => OthersOK
  BY NoDeleteInit
<1>4. QED
  BY <1>1, <1>2, <1>3, NoDeleteInvariance, PTL DEF Spec

\* Without faults and deletes, whenever no apply is in progress current.json
\* names the current revision: every way out of Apply puts the pointer back.
THEOREM PointerFollowsStore ==
  ASSUME Deleter = {}, Faults = {}
  PROVE  Spec => []CurrentIsPointed
<1>1. NoDeleteInv /\ PointedOK /\ [Next]_vars => PointedOK'
  BY PointedStep DEF NoDeleteInv, IInv
<1>2. PointedOK => CurrentIsPointed
  BY DEF PointedOK
<1>3. Init => PointedOK
  BY NoDeleteInit
<1>4. QED
  BY <1>1, <1>2, <1>3, NoDeleteInvariance, PTL DEF Spec

=============================================================================
