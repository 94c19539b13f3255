--------------------------- MODULE RevisionRollout ---------------------------
(***************************************************************************)
(* One control-plane process rolling revisions out to one runtime: the     *)
(* compile, apply, approve, delete and clear-timeline operations of        *)
(* control-plane/internal/services, each cut into the store, disk and      *)
(* runtime calls it makes, so that the calls of concurrent HTTP requests   *)
(* interleave.  compileMu and applyMu serialise compilations and applies;  *)
(* nothing serialises a delete, an approval or a timeline reset with them. *)
(***************************************************************************)
EXTENDS RevisionStore

CONSTANTS Request,     \* calls of ApplyService.Apply / ApplyIfNoActiveRevision
          Bootstrap,   \* those of them that are ApplyIfNoActiveRevision
          NoRequest,   \* applyMu is free
          Deleter,     \* calls of RevisionCatalogService.Delete
          Policies,    \* approval settings an administrator may choose
          Faults       \* fault classes of a run: "io", "crash" and "unread"

ASSUME RolloutAssumption ==
         /\ Bootstrap \subseteq Request
         /\ NoRequest \notin Request
         /\ Policies \subseteq [enabled   : BOOLEAN,
                                required  : 1..MaxRequired,
                                allowSelf : BOOLEAN]
         /\ Policies # {}
         /\ Faults \subseteq {"io", "crash", "unread"}

VARIABLES
  st,           \* revisions/revisions.json
  snapshot,     \* snapshots/<id>.json: the build it was written for
  job,          \* status of the apply job of each request
  compileJobs,  \* versions with a compile-<id> job
  policy,       \* enterprise approval settings
  build,        \* compilations started so far
  comp,         \* the compilation holding compileMu
  applyMu,      \* the request holding ApplyService.applyMu
  pc,           \* the next call of each apply request
  tgt,          \* the revision it applies
  seen,         \* build of the revision record it read
  snap,         \* build of the snapshot it loaded
  good,         \* the known-good pointer it read
  del,          \* delete calls
  vote,         \* approval calls
  clear,        \* the clear-timeline call
  candidate,    \* <runtime-root>/candidates/<id>
  pointer,      \* <runtime-root>/active/current.json
  serving       \* the bundle nginx serves

documents == <<st, snapshot, job, compileJobs>>
settings  == <<policy, build, comp>>
locals    == <<tgt, seen, snap, good>>
catalog   == <<del, vote, clear>>
runtime   == <<candidate, pointer, serving>>
vars == <<documents, settings, applyMu, pc, locals, catalog, runtime>>

JobStatus == {"none", "pending", "running", "succeeded", "failed"}

\* The calls an apply request makes while it holds applyMu.
Held == {"current", "get", "create", "running", "load", "pointer", "stage",
         "write", "activate", "reload", "rollback", "restore", "markActive",
         "jobSucceeded", "recordSucceeded", "markFailed", "jobFailed",
         "recordFailed"}

\* A candidate directory is missing, emptied, cut short or complete; only a
\* complete one is the rendering of a revision record and a snapshot.
Candidate == [files : {"none", "empty", "partial", "complete"},
              meta  : 0..MaxBuild,
              snap  : 0..MaxBuild]
NoFiles(f) == [files |-> f, meta |-> NoBuild, snap |-> NoBuild]
Rendered(m, s) == [files |-> "complete", meta |-> m, snap |-> s]

NoBundle == [version |-> NoRev, meta |-> NoBuild, snap |-> NoBuild]
BundleAt(v) == [version |-> v, meta |-> candidate[v].meta, snap |-> candidate[v].snap]

DocumentsTyped ==
  /\ st \in Store
  /\ snapshot \in [Version -> Build \cup {NoBuild}]
  /\ job \in [Request -> JobStatus]
  /\ compileJobs \subseteq Version

SettingsTyped ==
  /\ policy \in Policies
  /\ build \in 0..MaxBuild
  /\ comp \in [pc      : {"idle", "snapshot", "save", "job"},
               version : Version \cup {NoRev},
               by      : User \cup {NoUser}]

CallsTyped ==
  /\ applyMu \in Request \cup {NoRequest}
  /\ pc \in [Request -> Held \cup {"new", "lock", "done"}]
  /\ tgt \in [Request -> Version \cup {NoRev}]
  /\ seen \in [Request -> 0..MaxBuild]
  /\ snap \in [Request -> 0..MaxBuild]
  /\ good \in [Request -> Version \cup {NoRev}]

CatalogTyped ==
  /\ del \in [Deleter -> [pc      : {"new", "snapshot", "jobs", "revision", "done"},
                          version : Version \cup {NoRev}]]
  /\ vote \in [User -> [pc       : {"idle", "approve"},
                        version  : Version \cup {NoRev},
                        required : 0..MaxRequired]]
  /\ clear \in {"idle", "reset"}

RuntimeTyped ==
  /\ candidate \in [Version -> Candidate]
  /\ pointer \in Version \cup {NoRev}
  /\ serving \in [version : Version \cup {NoRev}, meta : 0..MaxBuild, snap : 0..MaxBuild]

\* Every document, local, lock and file has one of the values the code can
\* give it; in particular the store never holds an active record of a revision
\* it does not list.
TypeOK == DocumentsTyped /\ SettingsTyped /\ CallsTyped /\ CatalogTyped /\ RuntimeTyped

IdleComp == [pc |-> "idle", version |-> NoRev, by |-> NoUser]
IdleVote == [pc |-> "idle", version |-> NoRev, required |-> 0]

Init ==
  /\ st = EmptyStore
  /\ snapshot = [v \in Version |-> NoBuild]
  /\ job = [q \in Request |-> "none"]
  /\ compileJobs = {}
  /\ policy \in Policies
  /\ build = 0
  /\ comp = IdleComp
  /\ applyMu = NoRequest
  /\ pc = [q \in Request |-> "new"]
  /\ tgt = [q \in Request |-> NoRev]
  /\ seen = [q \in Request |-> NoBuild]
  /\ snap = [q \in Request |-> NoBuild]
  /\ good = [q \in Request |-> NoRev]
  /\ del = [d \in Deleter |-> [pc |-> "new", version |-> NoRev]]
  /\ vote = [u \in User |-> IdleVote]
  /\ clear = "idle"
  /\ candidate = [v \in Version |-> NoFiles("none")]
  /\ pointer = NoRev
  /\ serving = NoBundle

------------------------------------------------------------------------------
(***************************************************************************)
(* RevisionCompileService.createUnlocked, under compileMu.                 *)
(***************************************************************************)

\* List and nextRevisionVersion; MaxVersion and MaxBuild bound the run.
CompileList(u) ==
  /\ comp.pc = "idle"
  /\ NextVersion(st) \in Version
  /\ build < MaxBuild
  /\ build' = build + 1
  /\ comp' = [pc |-> "snapshot", version |-> NextVersion(st), by |-> u]
  /\ UNCHANGED <<documents, policy, applyMu, pc, locals, catalog, runtime>>

CompileSnapshot ==
  /\ comp.pc = "snapshot"
  /\ snapshot' = [snapshot EXCEPT ![comp.version] = build]
  /\ comp' = [comp EXCEPT !.pc = "save"]
  /\ UNCHANGED <<st, job, compileJobs, policy, build, applyMu, pc, locals, catalog, runtime>>

\* PrepareCompiledRevision: what the approval settings make of a new revision.
PreparedRevision ==
  [status     |-> IF policy.enabled THEN "pending_approval" ELSE "pending",
   approval   |-> IF policy.enabled THEN "pending" ELSE "not_required",
   required   |-> IF policy.enabled THEN policy.required ELSE 0,
   approvals  |-> {},
   compiledBy |-> comp.by,
   build      |-> build,
   lastApply  |-> "none"]

\* SavePending fails when the id is already listed.
CompileSave ==
  /\ comp.pc = "save"
  /\ IF comp.version \in Listed(st)
     THEN comp' = IdleComp /\ UNCHANGED st
     ELSE /\ st' = SavePending(st, comp.version, PreparedRevision)
          /\ comp' = [comp EXCEPT !.pc = "job"]
  /\ UNCHANGED <<snapshot, job, compileJobs, policy, build, applyMu, pc, locals, catalog, runtime>>

\* jobs.Create("compile-<id>"), which keeps a job of that id if there is one.
CompileJob ==
  /\ comp.pc = "job"
  /\ compileJobs' = compileJobs \cup {comp.version}
  /\ comp' = IdleComp
  /\ UNCHANGED <<st, snapshot, job, policy, build, applyMu, pc, locals, catalog, runtime>>

CompileError ==
  /\ "io" \in Faults
  /\ comp.pc # "idle"
  /\ comp' = IdleComp
  /\ UNCHANGED <<documents, policy, build, applyMu, pc, locals, catalog, runtime>>

Compile ==
  \/ \E u \in User \cup {NoUser} : CompileList(u)
  \/ CompileSnapshot \/ CompileSave \/ CompileJob \/ CompileError

------------------------------------------------------------------------------
(***************************************************************************)
(* ApplyService.Apply and ApplyIfNoActiveRevision.                         *)
(***************************************************************************)

Goto(q, l) == pc' = [pc EXCEPT ![q] = l]

\* Mutant: an early return that forgets applyMu.Unlock.
ReturnHoldingLock(q) ==
  /\ Goto(q, "done")
  /\ seen' = [seen EXCEPT ![q] = NoBuild]
  /\ snap' = [snap EXCEPT ![q] = NoBuild]
  /\ good' = [good EXCEPT ![q] = NoRev]
  /\ UNCHANGED <<applyMu, tgt>>

\* The deferred applyMu.Unlock; the locals of the call go out of scope, its
\* job keeps the target.
Return(q) ==
  /\ Goto(q, "done")
  /\ applyMu' = NoRequest
  /\ seen' = [seen EXCEPT ![q] = NoBuild]
  /\ snap' = [snap EXCEPT ![q] = NoBuild]
  /\ good' = [good EXCEPT ![q] = NoRev]
  /\ UNCHANGED tgt

\* The call continues at l with its locals unchanged.
Continue(q, l) == Goto(q, l) /\ UNCHANGED <<applyMu, locals>>

Submit(q, v) ==
  /\ pc[q] = "new"
  /\ tgt' = [tgt EXCEPT ![q] = v]
  /\ Goto(q, "lock")
  /\ UNCHANGED <<documents, settings, applyMu, seen, snap, good, catalog, runtime>>

\* Mutant: applies are not serialised.
LockUnserialised(q) ==
  /\ pc[q] = "lock"
  /\ applyMu' = q
  /\ Goto(q, IF q \in Bootstrap THEN "current" ELSE "get")
  /\ UNCHANGED <<documents, settings, locals, catalog, runtime>>

Lock(q) ==
  /\ pc[q] = "lock"
  /\ applyMu = NoRequest
  /\ applyMu' = q
  /\ Goto(q, IF q \in Bootstrap THEN "current" ELSE "get")
  /\ UNCHANGED <<documents, settings, locals, catalog, runtime>>

\* Mutant: bootstrap does not look at the current revision.
CheckNothing(q) ==
  /\ pc[q] = "current"
  /\ Continue(q, "get")
  /\ UNCHANGED <<documents, settings, catalog, runtime>>

\* ApplyIfNoActiveRevision skips when another revision is current.
CheckNoActive(q) ==
  /\ pc[q] = "current"
  /\ IF HasCurrent(st) /\ st.current # tgt[q] THEN Return(q) ELSE Continue(q, "get")
  /\ UNCHANGED <<documents, settings, catalog, runtime>>

\* Mutant: the approval gate looks at the status, which a timeline reset clears.
GetRevisionByStatus(q) ==
  /\ pc[q] = "get"
  /\ IF tgt[q] \notin Listed(st) \/ st.revs[tgt[q]].status = "pending_approval"
     THEN Return(q)
     ELSE /\ Goto(q, "create")
          /\ seen' = [seen EXCEPT ![q] = st.revs[tgt[q]].build]
          /\ UNCHANGED <<applyMu, tgt, snap, good>>
  /\ UNCHANGED <<documents, settings, catalog, runtime>>

\* revisions.Get and EnsureRevisionCanApply.
GetRevision(q) ==
  /\ pc[q] = "get"
  /\ IF tgt[q] \notin Listed(st) \/ st.revs[tgt[q]].approval = "pending"
     THEN Return(q)
     ELSE /\ Goto(q, "create")
          /\ seen' = [seen EXCEPT ![q] = st.revs[tgt[q]].build]
          /\ UNCHANGED <<applyMu, tgt, snap, good>>
  /\ UNCHANGED <<documents, settings, catalog, runtime>>

\* jobs.Create; the time-based id never collides.
CreateJob(q) ==
  /\ pc[q] = "create"
  /\ job' = [job EXCEPT ![q] = "pending"]
  /\ Continue(q, "running")
  /\ UNCHANGED <<st, snapshot, compileJobs, settings, catalog, runtime>>

\* Every jobs.update fails once the job has been deleted.
JobUpdate(q, status, next) ==
  /\ IF job[q] = "none"
     THEN Return(q) /\ UNCHANGED job
     ELSE job' = [job EXCEPT ![q] = status] /\ Continue(q, next)
  /\ UNCHANGED <<st, snapshot, compileJobs, settings, catalog, runtime>>

MarkJobRunning(q) == pc[q] = "running" /\ JobUpdate(q, "running", "load")

\* snapshots.Load, compileBundle, ValidateRevisionBundle and the management
\* safeguard: the bundle is refused before activation, or it is rendered from
\* the record read by GetRevision and the snapshot stored now.
LoadAndCompile(q) ==
  /\ pc[q] = "load"
  /\ \/ Continue(q, "markFailed")
     \/ /\ snapshot[tgt[q]] # NoBuild
        /\ snap' = [snap EXCEPT ![q] = snapshot[tgt[q]]]
        /\ Goto(q, "pointer")
        /\ UNCHANGED <<applyMu, tgt, seen, good>>
  /\ UNCHANGED <<documents, settings, catalog, runtime>>

\* LoadActivePointer, whose error is dropped: no known-good revision then.
LoadKnownGood(q) ==
  /\ pc[q] = "pointer"
  /\ \E p \in {pointer} \cup (IF "unread" \in Faults THEN {NoRev} ELSE {}) :
       good' = [good EXCEPT ![q] = p]
  /\ Goto(q, "stage")
  /\ UNCHANGED <<documents, settings, applyMu, tgt, seen, snap, catalog, runtime>>

\* Mutant: Stage replaces the active candidate when the contents differ.
StageResetAlways(q) ==
  /\ pc[q] = "stage"
  /\ \/ /\ candidate[tgt[q]] = Rendered(seen[q], snap[q])
        /\ Continue(q, "activate")
        /\ UNCHANGED candidate
     \/ /\ candidate[tgt[q]] # Rendered(seen[q], snap[q])
        /\ candidate' = [candidate EXCEPT ![tgt[q]] = NoFiles("empty")]
        /\ Continue(q, "write")
  /\ UNCHANGED <<documents, settings, catalog, pointer, serving>>

\* CandidateStager.Stage up to RemoveAll and MkdirAll: reuse a directory with
\* the same contents, refuse to touch the active one, else empty it.  When
\* current.json cannot be read, activeCandidatePath takes it that none is active.
StageReset(q) ==
  /\ pc[q] = "stage"
  /\ \/ /\ candidate[tgt[q]] = Rendered(seen[q], snap[q])
        /\ Continue(q, "activate")
        /\ UNCHANGED candidate
     \/ /\ candidate[tgt[q]] # Rendered(seen[q], snap[q])
        /\ candidate[tgt[q]].files # "none"
        /\ pointer = tgt[q]
        /\ Continue(q, "markFailed")
        /\ UNCHANGED candidate
     \/ /\ candidate[tgt[q]] # Rendered(seen[q], snap[q])
        /\ candidate[tgt[q]].files = "none" \/ pointer # tgt[q] \/ "unread" \in Faults
        /\ candidate' = [candidate EXCEPT ![tgt[q]] = NoFiles("empty")]
        /\ Continue(q, "write")
  /\ UNCHANGED <<documents, settings, catalog, pointer, serving>>

\* Mutant: an error of a file write is ignored.
StageWriteIgnoringErrors(q) ==
  /\ pc[q] = "write"
  /\ IF candidate[tgt[q]].files = "empty"
     THEN /\ candidate' = [candidate EXCEPT ![tgt[q]] = NoFiles("partial")]
          /\ Continue(q, "write")
     ELSE /\ \/ candidate' = [candidate EXCEPT ![tgt[q]] = Rendered(seen[q], snap[q])]
             \/ "io" \in Faults /\ UNCHANGED candidate
          /\ Continue(q, "activate")
  /\ UNCHANGED <<documents, settings, catalog, pointer, serving>>

\* Stage's loop over the files: some of them, then the rest; a disk error or a
\* crash in between leaves what has been written.
StageWrite(q) ==
  /\ pc[q] = "write"
  /\ IF candidate[tgt[q]].files = "empty"
     THEN /\ candidate' = [candidate EXCEPT ![tgt[q]] = NoFiles("partial")]
          /\ Continue(q, "write")
     ELSE /\ candidate' = [candidate EXCEPT ![tgt[q]] = Rendered(seen[q], snap[q])]
          /\ Continue(q, "activate")
  /\ UNCHANGED <<documents, settings, catalog, pointer, serving>>

\* AtomicActivator.Activate needs the directory and its manifest.json, which a
\* partial directory has; the rename of current.json is atomic.
Activatable(v) == candidate[v].files \in {"partial", "complete"}

Activate(q) ==
  /\ pc[q] = "activate"
  /\ IF Activatable(tgt[q])
     THEN pointer' = tgt[q] /\ Continue(q, "reload")
     ELSE UNCHANGED pointer /\ Continue(q, "markFailed")
  /\ UNCHANGED <<documents, settings, catalog, candidate, serving>>

\* ReloadHealthRunner.Run against the launcher, which loads whatever the
\* pointer names: nginx may switch and the answer still be an error.
Reloaded(v) ==
  /\ pointer = v
  /\ candidate[v].files = "complete"
  /\ serving' = BundleAt(v)
ReloadFailed ==
  serving' \in {serving} \cup (IF pointer # NoRev /\ candidate[pointer].files = "complete"
                               THEN {BundleAt(pointer)} ELSE {})

Reload(q) ==
  /\ pc[q] = "reload"
  /\ \/ Reloaded(tgt[q]) /\ Continue(q, "markActive")
     \/ ReloadFailed /\ Continue(q, IF good[q] = NoRev THEN "markFailed" ELSE "rollback")
  /\ UNCHANGED <<documents, settings, catalog, candidate, pointer>>

\* Mutant: a rollback that does not activate the known-good revision.
RollbackWithoutActivate(q) ==
  /\ pc[q] = "rollback"
  /\ Continue(q, IF good[q] # tgt[q] /\ Activatable(good[q]) THEN "restore" ELSE "markFailed")
  /\ UNCHANGED <<documents, settings, catalog, runtime>>

\* RollbackRunner.Rollback refuses to roll a revision back to itself.
Rollback(q) ==
  /\ pc[q] = "rollback"
  /\ IF good[q] # tgt[q] /\ Activatable(good[q])
     THEN pointer' = good[q] /\ Continue(q, "restore")
     ELSE UNCHANGED pointer /\ Continue(q, "markFailed")
  /\ UNCHANGED <<documents, settings, catalog, candidate, serving>>

\* The reload of the restored pointer; runApply reports the failure either way.
Restore(q) ==
  /\ pc[q] = "restore"
  /\ Reloaded(good[q]) \/ ReloadFailed
  /\ Continue(q, "markFailed")
  /\ UNCHANGED <<documents, settings, catalog, candidate, pointer>>

\* Mutant: MarkActive does not look whether the revision is still listed.
MarkUnlistedActive(q) ==
  /\ pc[q] = "markActive"
  /\ st' = MarkActive(st, tgt[q])
  /\ Continue(q, "jobSucceeded")
  /\ UNCHANGED <<snapshot, job, compileJobs, settings, catalog, runtime>>

MarkRevisionActive(q) ==
  /\ pc[q] = "markActive"
  /\ IF tgt[q] \in Listed(st)
     THEN st' = MarkActive(st, tgt[q]) /\ Continue(q, "jobSucceeded")
     ELSE UNCHANGED st /\ Continue(q, "markFailed")
  /\ UNCHANGED <<snapshot, job, compileJobs, settings, catalog, runtime>>

MarkJobSucceeded(q) ==
  pc[q] = "jobSucceeded" /\ JobUpdate(q, "succeeded", "recordSucceeded")

\* Mutant: the job of a failed apply is not closed.
MarkOnlyRevisionFailed(q) ==
  /\ pc[q] = "markFailed"
  /\ st' = IF tgt[q] \in Listed(st) THEN MarkFailed(st, tgt[q]) ELSE st
  /\ Continue(q, "recordFailed")
  /\ UNCHANGED <<snapshot, job, compileJobs, settings, catalog, runtime>>

\* The error of revisions.MarkFailed is dropped.
MarkRevisionFailed(q) ==
  /\ pc[q] = "markFailed"
  /\ st' = IF tgt[q] \in Listed(st) THEN MarkFailed(st, tgt[q]) ELSE st
  /\ Continue(q, "jobFailed")
  /\ UNCHANGED <<snapshot, job, compileJobs, settings, catalog, runtime>>

MarkJobFailed(q) == pc[q] = "jobFailed" /\ JobUpdate(q, "failed", "recordFailed")

RecordResult(q) ==
  /\ pc[q] \in {"recordSucceeded", "recordFailed"}
  /\ st' = IF tgt[q] \notin Listed(st) THEN st
           ELSE RecordApplyResult(st, tgt[q],
                  IF pc[q] = "recordSucceeded" THEN "succeeded" ELSE "failed")
  /\ Return(q)
  /\ UNCHANGED <<snapshot, job, compileJobs, settings, catalog, runtime>>

\* The error return of every store or disk call that has one of its own.
ApplyError(q) ==
  /\ "io" \in Faults
  /\ \/ /\ pc[q] \in {"current", "get", "create", "running", "jobSucceeded",
                      "jobFailed", "recordSucceeded", "recordFailed"}
        /\ Return(q)
     \/ /\ pc[q] \in {"stage", "write", "activate", "rollback", "markActive"}
        /\ Continue(q, "markFailed")
     \/ pc[q] = "markFailed" /\ Continue(q, "jobFailed")
  /\ UNCHANGED <<documents, settings, catalog, runtime>>

ApplyStep(q) ==
  \/ CheckNoActive(q) \/ GetRevision(q) \/ CreateJob(q) \/ MarkJobRunning(q)
  \/ LoadAndCompile(q) \/ LoadKnownGood(q) \/ StageReset(q) \/ StageWrite(q)
  \/ Activate(q) \/ Reload(q) \/ Rollback(q) \/ Restore(q)
  \/ MarkRevisionActive(q) \/ MarkJobSucceeded(q)
  \/ MarkRevisionFailed(q) \/ MarkJobFailed(q) \/ RecordResult(q)

------------------------------------------------------------------------------
(***************************************************************************)
(* RevisionCatalogService.Delete and ClearTimeline, and                    *)
(* EnterpriseService.ApproveRevision: no service-level lock.               *)
(***************************************************************************)

DeleteGet(d, v) ==
  /\ del[d].pc = "new"
  /\ v \in Listed(st)
  /\ st.revs[v].status # "active"
  /\ del' = [del EXCEPT ![d] = [pc |-> "snapshot", version |-> v]]
  /\ UNCHANGED <<documents, settings, applyMu, pc, locals, vote, clear, runtime>>

DeleteSnapshot(d) ==
  /\ del[d].pc = "snapshot"
  /\ snapshot' = [snapshot EXCEPT ![del[d].version] = NoBuild]
  /\ del' = [del EXCEPT ![d].pc = "jobs"]
  /\ UNCHANGED <<st, job, compileJobs, settings, applyMu, pc, locals, vote, clear, runtime>>

DeleteJobs(d) ==
  /\ del[d].pc = "jobs"
  /\ job' = [q \in Request |-> IF tgt[q] = del[d].version THEN "none" ELSE job[q]]
  /\ compileJobs' = compileJobs \ {del[d].version}
  /\ del' = [del EXCEPT ![d].pc = "revision"]
  /\ UNCHANGED <<st, snapshot, settings, applyMu, pc, locals, vote, clear, runtime>>

DeleteRevision(d) ==
  /\ del[d].pc = "revision"
  /\ st' = IF CanDelete(st, del[d].version) THEN Delete(st, del[d].version) ELSE st
  /\ del' = [del EXCEPT ![d].pc = "done"]
  /\ UNCHANGED <<snapshot, job, compileJobs, settings, applyMu, pc, locals, vote, clear, runtime>>

DeleteError(d) ==
  /\ "io" \in Faults
  /\ del[d].pc \in {"snapshot", "jobs", "revision"}
  /\ del' = [del EXCEPT ![d].pc = "done"]
  /\ UNCHANGED <<documents, settings, applyMu, pc, locals, vote, clear, runtime>>

\* jobs.DeleteByTypes(apply) and ResetStatuses, two calls.
ClearJobs ==
  /\ clear = "idle"
  /\ job' = [q \in Request |-> "none"]
  /\ clear' = "reset"
  /\ UNCHANGED <<st, snapshot, compileJobs, settings, applyMu, pc, locals, del, vote, runtime>>

ClearStatuses ==
  /\ clear = "reset"
  /\ \/ st' = ResetStatuses(st)
     \/ "io" \in Faults /\ UNCHANGED st
  /\ clear' = "idle"
  /\ UNCHANGED <<snapshot, job, compileJobs, settings, applyMu, pc, locals, del, vote, runtime>>

\* Mutant: ApproveRevision lets the compiler vote.
ApproveAnyone(u, v) ==
  /\ vote[u].pc = "idle"
  /\ v \in Listed(st)
  /\ vote' = [vote EXCEPT ![u] = [pc |-> "approve", version |-> v,
                                  required |-> policy.required]]
  /\ UNCHANGED <<documents, settings, applyMu, pc, locals, del, clear, runtime>>

\* ApproveRevision reads the settings and the revision ...
ApproveCheck(u, v) ==
  /\ vote[u].pc = "idle"
  /\ v \in Listed(st)
  /\ ~(policy.enabled /\ ~policy.allowSelf /\ st.revs[v].compiledBy = u)
  /\ vote' = [vote EXCEPT ![u] = [pc |-> "approve", version |-> v,
                                  required |-> policy.required]]
  /\ UNCHANGED <<documents, settings, applyMu, pc, locals, del, clear, runtime>>

\* ... and Store.Approve runs later; it refuses a second vote of a user.
ApproveCommit(u) ==
  /\ vote[u].pc = "approve"
  /\ LET v == vote[u].version
     IN st' = IF v \in Listed(st) /\ u \notin st.revs[v].approvals
              THEN Approve(st, v, u, vote[u].required) ELSE st
  /\ vote' = [vote EXCEPT ![u] = IdleVote]
  /\ UNCHANGED <<snapshot, job, compileJobs, settings, applyMu, pc, locals, del, clear, runtime>>

UpdatePolicy ==
  /\ policy' \in Policies \ {policy}
  /\ UNCHANGED <<documents, build, comp, applyMu, pc, locals, catalog, runtime>>

------------------------------------------------------------------------------
(***************************************************************************)
(* Restarts.  The control plane forgets the calls in progress; there is no *)
(* recovery pass.  The launcher boots what the pointer names, and keeps    *)
(* running without nginx when nginx exits.                                 *)
(***************************************************************************)

Crash ==
  /\ "crash" \in Faults
  /\ comp' = IdleComp
  /\ applyMu' = NoRequest
  /\ pc' = [q \in Request |-> IF pc[q] = "new" THEN "new" ELSE "done"]
  /\ seen' = [q \in Request |-> NoBuild]
  /\ snap' = [q \in Request |-> NoBuild]
  /\ good' = [q \in Request |-> NoRev]
  /\ del' = [d \in Deleter |-> IF del[d].pc = "new" THEN del[d]
                               ELSE [del[d] EXCEPT !.pc = "done"]]
  /\ vote' = [u \in User |-> IdleVote]
  /\ clear' = "idle"
  /\ UNCHANGED <<documents, policy, build, tgt, runtime>>

RuntimeBoot ==
  /\ serving' = IF pointer # NoRev /\ candidate[pointer].files = "complete"
                THEN BundleAt(pointer) ELSE NoBundle
  /\ UNCHANGED <<documents, settings, applyMu, pc, locals, catalog, candidate, pointer>>

NginxExit ==
  /\ serving # NoBundle
  /\ serving' = NoBundle
  /\ UNCHANGED <<documents, settings, applyMu, pc, locals, catalog, candidate, pointer>>

Catalog ==
  \/ \E d \in Deleter :
       \/ \E v \in Version : DeleteGet(d, v)
       \/ DeleteSnapshot(d) \/ DeleteJobs(d) \/ DeleteRevision(d) \/ DeleteError(d)
  \/ ClearJobs \/ ClearStatuses
  \/ \E u \in User : (\E v \in Version : ApproveCheck(u, v)) \/ ApproveCommit(u)
  \/ UpdatePolicy

Next ==
  \/ Compile
  \/ \E q \in Request : \/ \E v \in Version : Submit(q, v)
                        \/ Lock(q) \/ ApplyStep(q) \/ ApplyError(q)
  \/ Catalog
  \/ Crash \/ RuntimeBoot \/ NginxExit

\* Goroutines run on, the HTTP calls to the runtime have timeouts, and
\* sync.Mutex hands the lock over in FIFO order once a waiter has starved.
Fairness == \A q \in Request : WF_vars(ApplyStep(q)) /\ SF_vars(Lock(q))

Spec == Init /\ [][Next]_vars
FairSpec == Spec /\ Fairness

------------------------------------------------------------------------------
(***************************************************************************)
(* Properties.                                                             *)
(***************************************************************************)

\* At most one revision has status active and it is the one
\* current_active_revision_id names, which is always a listed revision:
\* MarkActive, MarkFailed, Approve, ResetStatuses and Delete agree on it.
StoreConsistent == Consistent(st)

\* active/current.json never names a candidate directory that is missing,
\* emptied or cut short, whatever write fails or crashes in staging: the
\* launcher can boot at any moment (Stage, Activate and Rollback together).
PointerBootable == pointer # NoRev => candidate[pointer].files = "complete"

\* An apply job turns succeeded only while its revision is the current one of
\* the store, the one current.json names, and the one nginx serves (if nginx
\* runs): deletes, approvals and timeline resets in between do not disturb it.
SucceededIsLive ==
  [][\A q \in Request :
       job'[q] = "succeeded" /\ job[q] # "succeeded"
       => /\ st.current = tgt[q]
          /\ pointer = tgt[q]
          /\ serving.version \in {tgt[q], NoRev}]_vars

\* ApplyIfNoActiveRevision never replaces a current revision other than its
\* own: bootstrap cannot overwrite what a request activated meanwhile.
BootstrapYields ==
  [][\A q \in Bootstrap :
       pc[q] = "activate" /\ pc'[q] = "reload"
       => st.current \in {NoRev, tgt[q]}]_vars

\* With no apply in progress the store and current.json agree on the current
\* revision: a rejected apply puts the pointer back (runApply's rollback).
CurrentIsPointed == applyMu = NoRequest /\ st.current # NoRev => pointer = st.current

\* The current revision has at least as many votes as the mildest approval
\* settings ask for: the check of EnsureRevisionCanApply, made before the
\* bundle is even compiled, still holds when MarkActive runs.
CurrentHasVotes ==
  st.current # NoRev
  => \E p \in Policies :
       ~p.enabled \/ Cardinality(st.revs[st.current].approvals) >= p.required

\* An approved revision has as many votes as it asks for, none of them from
\* the user who compiled it, although ApproveRevision checks the voter in one
\* call and Store.Approve counts the votes in a later one.
ApprovedByOthers ==
  \A v \in Version :
    st.revs[v].approval = "approved"
    => Cardinality(st.revs[v].approvals \ {st.revs[v].compiledBy}) >= st.revs[v].required

\* What nginx serves under the id of the current revision is the build that
\* the store lists, rendered from the snapshot compiled for it, although
\* compilations fail half-way and candidate directories are reused.
ServesListedBuild ==
  serving.version # NoRev /\ serving.version = st.current
  => /\ serving.meta = st.revs[st.current].build
     /\ serving.snap = st.revs[st.current].build

\* Without faults an apply job does not stay running: it ends, or a delete or
\* a timeline reset removes it.
JobSettles == \A q \in Request : job[q] = "running" ~> job[q] # "running"

\* Every apply that asked for applyMu returns.
ApplyReturns == \A q \in Request : pc[q] = "lock" ~> pc[q] = "done"

==============================================================================
