# TARINIO in TLA+

TARINIO is a self-hosted web application firewall.  A *control plane* (Go, one or
more nodes) stores sites, policies, certificates and accounts, compiles the
configuration into numbered *revisions* and applies a revision to a *runtime*: a
Go launcher that supervises nginx, a packet filter fed by a *Sentinel* that scores
the access log, and a history of requests in files, OpenSearch and ClickHouse.
This directory models the whole of that path: who may change the configuration,
how a change becomes a revision, how a revision becomes traffic, and what the
runtime does with the traffic it sees.

Every definition is translated from the source; `PROJECT.json` names the lines.
Paths below are relative to `src/control-plane/internal/` unless they start with
`compiler/`, `runtime/`, `internal/` or `docs/` (then to `src/`).

## 1. Inventory

| Part | State | Operations | Talks to |
|---|---|---|---|
| Revision store `revisions/store.go` | one JSON document: revisions, `current_active_revision_id` | SavePending, MarkActive, MarkFailed, Approve, ResetStatuses, RecordApplyResult, Delete | compile, apply, catalog, approvals |
| Snapshot and job stores | a file or row per revision; jobs with a status | Save, Load, Delete; Create, MarkRunning/Succeeded/Failed, DeleteByRevision | compile, apply, catalog |
| Compile service `services/revision_compile.go` | `compileMu` | CreateWithTargets, buildSnapshot | all stores, approvals, lock |
| Apply service `services/runtime_apply.go` | `applyMu` | Apply, ApplyIfNoActiveRevision | stores, staging, runtime, lock |
| Staging, activation, rollback `compiler/internal/compiler` | `candidates/<id>/`, `active/current.json` | Stage, Activate, Rollback, LoadActivePointer | apply writes, launcher reads |
| Catalog, approvals `services/revision_catalog.go`, `services/enterprise.go` | approval settings | Delete, ClearTimeline, ApproveRevision, EnsureRevisionCanApply | stores |
| Coordination `services/distributed_coordination.go`, `coordination/redis` | one Redis key per operation | WithLock, TryRunLeader | compile, apply, auto-apply, bootstrap |
| Launcher `runtime/config/launcher` | nginx process, links, readiness, rule sets | boot, `/reload`, `/readyz`, exit of nginx, CRS updates | apply over HTTP, GitHub |
| Site administration `services/`, `handlers/` | a dozen documents (`sites`, `upstreams`, `tlsconfigs`, ...) | create, update, delete, rename, ban, anti-DDoS, management hosts | the stores, auto-apply |
| Easy profiles `easysiteprofiles/` | one profile per site | Get, Upsert, Delete, MarkBasicAuthLogin | compiler, site administration |
| Bundle rendering `compiler/internal/compiler` | none | Render* | apply |
| Accounts `users`, `roles`, `sessions`, `passkeys`, `services/auth_*` | four documents, a rate limiter, the boot token | logins, second factors, administration, SCIM, OIDC | handlers |
| Certificate export `handlers/certificate_material_export.go` | step-up state, approvals | verify, approve, export | accounts |
| Sentinel `internal/sentinel` | scores, state file, two output files | tick, save, publish, suggest | access log, packet filter, ban synchronisation |
| Packet filter `runtime/config/l4guard` | iptables chains | run, from reload and from a refresher | Sentinel's file, launcher |
| Request history `runtime/config/launcher/*request*` | day files, offset, migration marks | ingest, import, migrate, prune, delete, read | OpenSearch, ClickHouse, control plane |
| Security events `services/events.go`, `events/` | one document, a cache, a timer | collect, create, prune, list | launcher |

What is hard in it:

* **Interleaving.**  Every HTTP request is a goroutine.  Stores are atomic call by
  call, with one exception (the sessions document in PostgreSQL); services are not:
  a rename writes seven documents, a delete four, a user
  update writes back a whole record it read earlier, a snapshot reads a dozen
  documents one by one.  The packet filter has two callers and no lock.
* **Failure.**  An apply changes disk, runtime and store in turn; each call can fail
  and the process can die between any two.  There is no recovery pass at start.
  State files are written in place.
* **Stale decisions.**  The approval gate, the delete check, the bootstrap check,
  the login challenge of a passkey, the time of a step-up request.
* **Time.**  Leases, lock-outs, assertions, retention horizons and the five seconds
  that alone keep two collections of events apart.
* **Edges.**  Days in UTC and in the caller's zone, thresholds from three places,
  empty lists, masked secrets, limits on exported rows.

What makes the parts correct is stated by the properties of section 3, and
`PROJECT.json` lists the hazards each is aimed at.

## 2. Modules

| Module | Models |
|---|---|
| `RevisionStore`, `RevisionRollout` | compile, apply, approve, delete, clear, crash, restart of one process and one runtime |
| `OperationLock`, `DistributedLock` | abstract lock; WithLock, TryRunLeader and the Redis lease, which implement it |
| `RuntimeLauncher` | the launcher, nginx and the core rule set |
| `ConfigStores`, `BundleCompile`, `SiteConfig` | the documents; the compiler; the calls of site administration with their auto-apply |
| `EasyProfile` | the profile of a site from form to compiled gate |
| `Authentication`, `CertificateExport` | accounts and sessions; step-up and export of keys |
| `Sentinel`, `L4Guard` | scoring and publication; the chain of rules |
| `RequestStream`, `SecurityEvents` | request history; collection of events |
| `MC*` | constant values of the runs |
| `*_proofs` | theorems |

`SiteConfig` extends `BundleCompile`, which extends `ConfigStores`;
`RevisionRollout` extends `RevisionStore`.  The modules meet at files: what
`SiteConfig` publishes is a build of `RevisionRollout`; the pointer that one writes
is `pointer` of `RuntimeLauncher`; `file` of `Sentinel` is `adaptive` of `L4Guard`.

### RevisionStore and RevisionRollout

A revision id is `rev-%06d` of its version, so versions stand for ids.  A *build*
number stands for one compilation: it identifies CreatedAt, checksum and contents,
so that two compilations that are given the same id can be told apart.

`Store.mu` makes each store method one step.  A service operation is the sequence
of the store, disk and runtime calls it makes, one action each, and the action
contains everything the code does up to the next call:

| Code | Actions |
|---|---|
| `createUnlocked` | CompileList, CompileSnapshot, CompileSave, CompileJob, CompileError |
| `Apply`, `ApplyIfNoActiveRevision` | Submit, Lock, CheckNoActive, Return |
| `applyUnlocked` | GetRevision, CreateJob, MarkJobRunning, MarkRevisionActive, MarkJobSucceeded, MarkRevisionFailed, MarkJobFailed, RecordResult |
| `runApply` | LoadAndCompile, LoadKnownGood, StageReset, StageWrite, Activate, Reload, Rollback, Restore |
| error returns of all of these | ApplyError |
| `RevisionCatalogService.Delete` | DeleteGet, DeleteSnapshot, DeleteJobs, DeleteRevision, DeleteError |
| `ClearTimeline` | ClearJobs, ClearStatuses |
| `ApproveRevision`, settings | ApproveCheck, ApproveCommit, UpdatePolicy |
| control-plane restart; launcher boot; nginx exit | Crash; RuntimeBoot; NginxExit |

Abstractions, and why they lose nothing the properties talk about:

* `compileBundle`, the validators and the management safeguard are one step with
  two outcomes (refused, or rendered from a record and a snapshot).  A candidate
  directory is missing, empty, partial or complete, and a complete one remembers
  the record and the snapshot it was rendered from; `candidateMatchesBundle` is
  equality of these.
* `StageWrite` has one intermediate point (some files written, the manifest among
  them), which is the state a crash or a full disk leaves.
* A reload that fails may or may not have switched nginx: an HTTP answer can be
  lost after the launcher has relinked.  The two attempts of
  `HTTPReloadExecutor.Run` are inside that choice, because `/reload` loads whatever
  the pointer names.  `RuntimeBoot` may happen at any time and also covers the
  launcher's own periodic reload.
* The approval settings are read in the step that saves the revision.  The code
  reads them a moment earlier; no other operation can see the revision in between.
* `Faults` chooses which faults a run has: `io` (any store or disk call returns an
  error), `crash` (the control plane dies at any step), `unread` (`current.json`
  cannot be read, an error the code drops in two places).

### DistributedLock and OperationLock

One key.  A call is a caller goroutine (`pc`), an operation goroutine (`op`) and a
refresher goroutine; the token is the call itself.  Time advances in ticks of
`ttl/3`.  `MaxDelay` says how late, in ticks, a refresh may be; `MaxWait` is the
retry budget.  Backoff between attempts is not modelled: an attempt may happen at
any time while the call waits.  A call may be made again once nothing of the
previous one is left.

`OperationLock` says what callers rely on: the set of operations inside changes
only from empty to a singleton and back.  There are two refinement mappings.
`Leased` counts an operation while its context is live (running, and its caller
neither cancelled nor told that the lease is lost); `Abstract` counts it for as
long as it runs.  The first holds under every fault, the second needs a lock that
is never lost; the difference is a disagreement of section 6.

### RuntimeLauncher

One action per step of `bootCurrent`, `reloadCurrent` and the CRS manager that
other goroutines can see: taking the mutex, loading the pointer, each half of the
relink, start or SIGHUP, the wait for the revision header, `waitForExit` in three
steps.  A slot is one nginx master from start to the end of its `waitForExit`;
`hup` is a signal sent and not yet handled, and an nginx that handles it serves
whatever the links then name.  Revision 0 is the bootstrap page, release 0 the
rule set of the image.  Archives, digests and URLs are a choice of outcome.  The
fault `early` lets a reload run before the boot is over.  `overtaken` is history:
the updaters that still had an older release to hand to nginx when the manager
activated another one.

### ConfigStores, BundleCompile, SiteConfig

A document is a function from ids to records that keep only what other documents
or the compiler look at; each store call is an operator that returns the new
document or `Refused`.  A call of the API is a list of reads, a decision and a
list of writes (`plan`), one step per store call, stopping at the first error and,
for the rename, undoing nothing.  `auto-apply` reads the documents one after
another and publishes what `BundleCompile` accepts.  Site `a` is configured at
first; TLS renewal, ACME and Let's Encrypt calls are left out.  `touched` is
history: which call wrote which record, so that RenameMoves and PromotedDenied can
except what another administrator changed.  `profiled` is history too: the sites
whose easy profile somebody wrote.

The names of a ban are resolved as the code does: `Token` gives what
`normalizeSiteAliasToken` makes of an id or a host, `Rank` is the order of the site
ids, and the first site whose id or host has the token asked for is banned, which
need not be the site with that id.  `EasyFirst` are the sites whose easy policy
sorts before their own one, so that `findBySite` and `mapAccessInputs` pick
different policies.  One address is banned or not; the addresses and countries of a
profile's own lists are one flag, `deny`, rendered on every site.  `BuiltInNames`
are the ids and hosts the compiler takes for the management site while no
management host is configured.  A selector for all sites is the loop of the ban
synchronisation.

### EasyProfile

Normalisation, validation, defaults from older policies, masking, merging, the
recorded login and the renderer of locations.  Lists whose order does not matter
are sets, texts are compared after trimming and case folding, account names are
numbers.  `LastLoginAt` is left out, so a recorded login is a rewrite of what was
read.  The presets of the package have no caller.  Each behaviour has one site,
ordinary or management, and at most one older policy of each kind.  `MaxRules`,
`MaxAccounts` and `MaxStages` stand for 32, 128 and 12.  Upsert is three steps: what
it reads, the write of the profile, and `syncEasyToLegacy`, which writes the WAF,
access and rate policies in this order and stops at the first error; SiteConfig has
these one store call at a time.  Compile and apply after Upsert belong to SiteConfig
and RevisionRollout.  The compiled gate has the paths that are open without a login:
the profile's exclusions, and on the management site the paths of the control plane.

### Authentication and CertificateExport

A request carries in `req` what it has read; `users.Update` writes the whole
record back.  Tokens are numbers.  Cryptography is a choice between the right and
a wrong answer; an entry that has expired may be refused by any reader, which
stands for every expiry.  `spent`, `revoked`, `racing` and `restored` are history.

A store holds its mutex from load to save, so each of its calls is one step.  The
sessions document is the exception when it is kept in PostgreSQL (`Postgres`): the
calls that consume a challenge and those that write the step-up state update the
row in a transaction and do not take the mutex
(`sessions/store.go:281`, `sessions/step_up.go:105`), while GetSession, TouchSession
and the calls that create an entry load the document, and later save it whole,
under the mutex.  `stale` (`loaded` in CertificateExport) is what such a copy still
has that an update has meanwhile removed or changed, and `TouchSession` is the save
that brings it back: `restored` are the challenges, `revived` the sessions' old
assertions, that came back this way.  While a copy is out no other call gets the
mutex (`Unlocked`).  With documents in files every call takes the mutex and `stale`
stays empty.

In CertificateExport time is kept relative to the present in units of five
minutes, so that it goes on for ever in finitely many states; `MaxLag` bounds how
long a request may take between reading the clock and granting its assertion, and
`LockAssumption` states what the constants of the code satisfy (a lock of 15
minutes outlasts an assertion of 10 and a lag of 5).  `MaxHold` bounds how long a
call may hold a copy of the document; in the run it is less than one unit.  Five and
ten wrong codes are scaled to two and three.

### Sentinel and L4Guard

Scores are hundredths, a unit of time is the half-life of a score; a log entry
stands for n equal requests.  A tick is one action (nothing else runs in that
process) followed by one action for each file it writes; each write may fail or be
torn, and a crash may come between.  The machine learning signal (off by default)
and explanations are left out.  Go's map order is a choice.

In L4Guard every iptables command is a step, for IPv4 and IPv6, and the two
callers interleave.  A fingerprint is whether the published file is still the one
it was taken of, because `updated_at` makes every publication different.

### RequestStream and SecurityEvents

The mutex of the stream is `op`; an operation holds it over all its calls to the
stores, and traffic, settings, the OpenSearch refresh and restarts come in
between.  A day has three slots, the last one standing for its last second.
Repeated documents are sets, pages and ranking are left out, the archive directory
can be made, a line is written whole, and a ClickHouse delete takes effect at once.

In SecurityEvents a tick is 0.2 s: an attempt takes at most 6, the interval is 25
and the back-off 150, as in the code.  An answer with another status than 200, one
that cannot be decoded and one with too many items are refusals after which the
launcher may have moved its offset.  Feeds of threat intelligence are a mark of the
line, severities are left out, and any events may be older than the age limit of
the store when it prunes.

## 3. Runs

| Run | Checks | Bounds |
|---|---|---|
| RolloutFaults | TypeOK, StoreConsistent, PointerBootable, SucceededIsLive | 2 applies (1 bootstrap), 1 delete, 1 version built twice, approvals switched on and off, every store and disk error, crashes |
| RolloutRaces | ServesListedBuild, ApprovedByOthers, CurrentHasVotes, CurrentIsPointed, BootstrapYields, JobSettles, ApplyReturns | 2 applies (1 bootstrap), 2 versions, 1 voter, approvals on, no delete; bundles, reloads and rollbacks fail, timelines are reset, the runtime restarts |
| Lock | OneLiveAtATime (refinement), OwnLeaseOnly, WaitEnds, LeaseEnds | 2 calls (1 leader call), lease of 3 ticks, refresh 1 tick late, all four faults |
| Launcher | TrafficOnPointer, ReadyNeedsNginx, Supervised, RulesUsable, RulesAgree | 2 revisions, 1 release, 2 nginx processes, 1 reload caller, 1 hourly updater, errors, exits and restarts (PathFollowsManager has any number of updaters) |
| Logins | ChallengeOnce, PasswordChangeRevokes, SecondFactor, AdminKept | administrator and a user, 2 concurrent requests of any kind, 6 tokens, 1 restart, sessions in PostgreSQL, failing revocations |
| Export | OneExportPerApproval, VerifiedSinceLock | 2 sessions, 2 requests, 1 approval id in use at a time, sessions in PostgreSQL, unbounded time |
| Sites | PublishedSound, ManagementServed, RenameMoves, PromotedDenied | every pair of the calls of `MCSiteConfig` (all 34 kinds), 2 sites, 2 hosts, a site named like the other's host, an easy policy that sorts first, restarts between writes |
| Sentinel | HardBlockEarned, QuietReleased, ThresholdsOrdered | 2 addresses, 2 sites, 5 kinds of batch, 2 batches, 4 half-lives, 1 fault, 5 settings |
| L4Guard | DropEnforced, DropLifted (liveness) | 1 address, 2 configurations, 1 reload, 1 fault |
| Requests | LocalDayRead, RequestsKept | 2 requests around midnight, 3 days, 1 fault, 1 change of settings |
| Events | OneCollection | 2 callers, 2 lines (one blocked, of a listed address), a burst from the first and a burst of a path from the second request, 4 addresses, 1 fault |
| Profiles | EnforcedAsAccepted, WritableAsShown | 2 administrators, 7 forms, 2 edits, recorded logins, a sync that stops half-way |

Why the bounds are enough.

*RolloutFaults*: an apply in progress can be disturbed by an earlier apply, a
delete and a compilation that reuses the id; one version built twice gives exactly
that reuse, and the theorems of section 4 prove its four properties for all bounds.
The safety properties of RolloutRaces, Lock, Launcher, Logins, Export, Sites,
Requests and Events have such theorems too, under the hypotheses listed there.
*RolloutRaces*: a current revision and a candidate need two versions; a third only
repeats them.  It has no delete because the properties about votes and about the
pointer fail with one, see section 6.
*Lock*: with a lease of three ticks a refresh that is one tick late keeps the
lease.  LiveExclusion proves the refinement for any number of calls.
*Launcher*: two slots let a new nginx start while the exit of the old one is
still on its way to the launcher.  A second updater would matter to RulesAgree
alone, which the theorem has for any number.
*Logins*: every hazard there is a race of two requests; a restart and a late save
of the sessions document are the third parties.  *Export*: two requests in one
session and two in different ones, with a late save between any two steps.
*Sites*: the interleavings of two calls, store call by store call, with the
snapshot of the first one's auto-apply; `Quiet` has the second ask for none.
*Sentinel*: limits are small enough that hold times, budgets, the inactivity limit
and emergencies all occur within four half-lives.
*L4Guard*: the order of rules for one address already goes wrong when two callers
rewrite the chain; the second family takes part without a rule.
*Requests*: one request in the last second of a day and one in the first of the
next are where day ranges, zones and export limits bite.
*Events*: the question is whether four attempts fit into the interval; the numbers
are the code's.
*Profiles*: one edit to reach a state, one to break it, from two administrators.

Deadlock checking is off in runs whose calls are served once or whose time is
bounded (Logins, Sites, Sentinel, Requests, Events) and in L4Guard, which rests
when no fault, reload or publication is left.  Elsewhere it is on.

The `TypeOK` of RuntimeLauncher, Authentication, CertificateExport, RequestStream
and SecurityEvents is proved; it is left out of the runs, which are about the
properties above.

### Fairness

* `RevisionRollout`: weak fairness of each call's next step (a goroutine runs on,
  and the HTTP calls to the runtime have timeouts of 25 s and 5 s), strong fairness
  of taking `applyMu` (`sync.Mutex` hands over in FIFO order once a waiter has
  waited for 1 ms).  No fairness of compilations, deletes, approvals or restarts.
* `DistributedLock`: time passes; attempts, refreshes, goroutines and channel
  receives happen.  The operation ends, because each call in it has a timeout.  It
  assumes that a Redis command answers or fails: `Client.connect` sets no read
  deadline, so a half-open connection is outside this assumption.  No fairness of
  starting a call, and none of faults.
* `L4Guard`: weak fairness of the refresher, whose ticker is never stopped, of a
  reload under way, and of the Sentinel publishing again what it published, which
  `SaveAdaptiveIfChanged` does on every interval under a new `updated_at`.  Without
  the last one a chain left wrong by two racing callers stays wrong.

## 4. Proofs

The theorems hold for every value of the constants that the named assumptions
allow, and these say what the code's own values satisfy:

| Assumption | Says |
|---|---|
| `StoreAssumption`, `RolloutAssumption` | bounds are positive, there are finitely many users, distinguished values are distinct, faults are known ones |
| `LockAssumption` (DistributedLock) | lease and budgets are positive, faults are known ones |
| `LauncherAssumption` | there is a revision, slots are finitely many, goroutines of different kinds are distinct, faults are known ones |
| `AdminAssumption`, `BoundAssumption`, `NamesAssumption` | the administrator is one of finitely many users; bounds are natural numbers; there is a password and a credential |
| `ApprovalAssumption`, `UserAssumption`, `LockAssumption` (CertificateExport) | no approval is the empty one; exporter and approver differ; a lock outlasts an assertion and the slowest request |
| `PostgresAssumption` | the sessions document is in PostgreSQL or in a file |
| `UpstreamAssumption`, `PatchesAssumption`, `NamesAssumption` (SiteConfig) | upstream 1, which the first site uses, exists and no upstream has the empty id; virtual patches are finitely many; site ids are ordered, and ids and hosts have a token |
| `StreamAssumption` | instants are distinct natural numbers, a day has slots, batches and retentions are positive, settings name the backends there are, filters are numbers or absent |
| `EventsAssumption`, `ReservationAssumption` | bounds are positive; all attempts of one collection together are shorter than the interval that reserves it |

A theorem that needs more has it as a hypothesis of its own, and in each case the
hypothesis is there because TLC, or a failed proof, shows the property false
without it:

| Hypothesis | Theorems | Without it |
|---|---|---|
| `current.json` can be read (`"unread" \notin Faults`) | AlwaysBootable | Stage empties the candidate it cannot see is active |
| no deletes (`Deleter = {}`) | ServesListed, CurrentVoted, OthersApprove, PointerFollowsStore | a freed id is given to another compilation, section 6 |
| policies stay enabled and forbid self-approval | OthersApprove | an author's vote counts, or none is asked for |
| no faults (`Faults = {}`) | PointerFollowsStore | a crash or an error between activation and MarkActive |
| no reload before the end of the boot (`"early" \notin Faults`) | SupervisedAlways, TrafficFollowsPointer | a second nginx that nobody supervises |
| `MaxDelay + 1 < TTL` | LiveExclusion, Exclusion | the lease ends under a live operation |
| faults are crash and redis | Exclusion | a lost lease does not stop the operation |

`RevisionRollout_proofs` begins with the store: every store operator maps well-formed documents to
well-formed documents and keeps `Consistent`, under the guard its caller applies.
Two more families of lemmas serve the theorems without deletes: `NextVersionFresh`
(the id of a new compilation is not listed), `VotesCounted` (votes are counted by a
natural number, which no further vote lowers), and `SameRevisions` with the `*Keeps` lemmas (which fields of
which revisions an operator leaves alone).

On these lemmas `Invariance` shows `Spec => []IInv`, deletes, crashes and
any number of requests included.

* `TypeCorrect`, `DocumentConsistent`: from the store lemmas, one case per action.
* `AlwaysBootable`: PointerBootable is not inductive.  `StagingOK` adds that an
  apply that writes a directory writes neither the pointed one nor its known-good
  one, that it activates a complete directory, and that the known-good one is
  complete.  It rests on `Serialised` (only the holder of `applyMu` is inside) and
  `StartedOK` (a started call has its target).
* `SuccessIsTrue`: `LiveOK` carries "pointed, served, current" from the reload to
  the job update.
* `BootstrapSafe`: `BootstrapOK` carries the decision of ApplyIfNoActiveRevision to
  the activation; only the holder of `applyMu` can make a revision current.

`NoDeleteInvariance` then shows `Spec => []NoDeleteInv` for systems in which nobody
deletes a revision.  Its parts follow one revision from compilation to traffic:
`SnapshotOK` (a compilation works on an id that is not listed, and a listed revision
and its snapshot are of one build), `TargetOK` (the revision of an apply that has
passed the approval gate is listed), `BundleOK` (what an apply has read, complete
candidates and the served bundle are of the listed build), `VotesOK` (a revision
past the gate has the votes); `OthersOK` (no vote cast or about to be cast is the
compiler's) and `PointedOK` (where the pointer and the current id stand at each call
of an apply) are proved on top of it.

* `ServesListed`: what is served under the current id is the build the store lists,
  rendered from its own snapshot.
* `CurrentVoted`: the current revision has as many votes as the mildest settings ask
  for, although the gate is passed long before MarkActive.
* `OthersApprove`: an approved revision has its votes without its author's.
* `PointerFollowsStore`: while nobody holds `applyMu`, `current.json` names the
  current revision.

`DistributedLock_proofs`:

* `TypeCorrect`;
* `TokenProtects`: OwnLeaseOnly under every fault, with the invariant that a key
  that is set has time left;
* `LiveExclusion`: the refinement OneLiveAtATime under every fault.  The invariant
  `Exclusive` says that the call of an operation with a live context still waits
  for it, its refresher is on, the key holds its token, and the time the lease has
  lost is at most the age of the last refresh;
* `Exclusion`: the refinement OneAtATime, about operations rather than contexts.
  `Undisturbed` adds that then no running operation has lost its context.

`RuntimeLauncher_proofs`:

* `TypeCorrect` proves `Typed`: TypeOK with `Carried`, what a goroutine has in its
  hands at each of its steps;
* `RulesAlwaysUsable`: the link, the path of the next reload and the manager's
  release are whole directories, for any number of updaters: `RulesReady` adds that
  so is the release an updater is about to activate or to hand over;
* `ReadyIsTrue`: readiness implies a running nginx or an exit that is on its way to
  the launcher;
* `SupervisedAlways` and `TrafficFollowsPointer`: boot and reload exclude each
  other once the boot is over, so every nginx that runs has its `waitForExit`, and
  between two operations it serves, or has been signalled to serve, the pointer;
* `PathFollowsManager`: for any number of updaters the path nginx includes is the
  manager's whenever no update is under way and none has overtaken another (section
  6); the next update that runs alone mends the path.

`Authentication_proofs`: every theorem is about any number of users, requests,
roles, passwords and tokens, without further hypotheses.

* `TypeCorrect` proves TypeOK with `FlowOK`: which calls each kind of request can
  be at, and what it holds there.  The other invariants need it to know, say, that
  only a second-factor login carries a challenge, and that the account a delete
  works on is not the administrator's;
* `OneLoginPerChallenge`: ChallengeOnce from `ChallengesOK`: a consumed challenge
  that no late save restored is not stored any more, one request at most holds it,
  and no login was spent on it.  With documents in files nothing is ever restored,
  so there a challenge lets in one request without exception;
* `ChangeEndsSessions`: PasswordChangeRevokes from `SessionsOK`: the sessions a
  change of password is about to end are the user's own, are not the one that asks,
  and their numbers are not given out again.  A change whose revocation fails is
  answered with an error and promises nothing;
* `FactorAsked`: SecondFactor from `FactorOK`: a login that read a record without a
  second factor still finds none, or was in flight when it was switched on;
* `AdminStays`: AdminKept from `AdminSafe` (the stored administrator is active,
  local and has its role) and `UsersKept` (calls other than
  `users.Update` change no stored account and never remove the administrator's).

`CertificateExport_proofs`:

* `TypeCorrect`;
* `ApprovalOnce`: OneExportPerApproval from `ApprovalsOK`: a request that is about
  to answer has used up its approval, no other request answers under it, and no
  answer was given under it yet;
* `StepUpBinds`: VerifiedSinceLock from `LockOK`: a lock-out forgets every
  verification, and an assertion older than the lock ends no later than it, in the
  document and in the copy a call is about to save; a session whose assertion such a
  save brought back is in `revived`, which stays empty with documents in files.

`SiteConfig_proofs`: for any sites, hosts, calls and callers, store call by store
call, restarts and store errors included.  First come lemmas about single store
calls (`ConfigStores`) and about the compiler: `CompiledSound` and `CompiledServing`
say that a bundle compiled from *any* snapshot whose sites have distinct hosts is
sound and serves the management hosts, however the rest of the snapshot is torn
between calls.  `Invariance` then shows `Spec => []Inv`:

* `DocumentsOK`: the stored sites have distinct hosts, ids are finitely many, and
  records have their fields;
* `ReadOK` and `SnapshotOK`, per call: what it has read is of the stored kind, and
  the sites of a snapshot are read in one piece and before all else;
* `PlanOK`: each call still planned is one of the store calls the model has;
* `BanOK`: each id a promotion has listed is still to be resolved, or the site it
  resolves to is about to be written, denies the address in the policy that is
  rendered, or has it in an easy policy that hides the ban (`Shadowed`), unless
  another call wrote sites or policies;
* `RenameOK`: each record a rename has found is still to be written or has moved,
  unless another call wrote there, and nothing is left once the old site is removed.

A step of one call leaves the parts of all others standing because its writes are
recorded as foreign to them (`OthersOK`); its own parts follow from what it planned
(`RenamePlanned`, `PromotePlanned`) and from the write it makes (`OwnRename`,
`OwnBan`).  None of the four properties is inductive alone: each speaks of a last
step, and only `Inv` knows what the steps before it have read.

* `SoundPublished`: PublishedSound, from the compiler's lemmas, `SnapshotOK` and
  `DocumentsOK`;
* `ServedManagement`: ManagementServed, from the same and `Owned`: a profile that
  denies anybody, stored, read or about to be written, is of a site whose profile
  somebody wrote, through renames, restarts and defaults;
* `DeniedPromoted`: PromotedDenied, from `BanOK` when the list is worked off;
* `MovesRename`: RenameMoves, from `RenameOK` when the old site is removed.

`SecurityEvents_proofs`:

* `TypeCorrect`;
* `OneCollectionAlways`: OneCollection from `Reserved`: what is left of the
  reservation is at least the interval less the time the collection can have used
  at its n-th address, and nobody else collects.

`RequestStream_proofs`: for any number of requests, days, faults and changes of
settings, any time zone and any retention.

* `TypeCorrect` proves TypeOK with `OpOK`, what the holder of the mutex has in its
  hands at each call: an import about to remove a day file has every request of it,
  a migration and a pruning work on days beyond their retention or horizon (which
  the passing of days only makes older), a deletion on the day it was asked for;
* `StoredStays`: RequestsKept, one case per step; the import uses that the export
  that was compared is part of what a search finds.  The latest of several days is
  one of them because days are bounded, by the well-foundedness of the naturals;
* `ReadsExact`: LocalDayRead from the arithmetic of days (`Quotient` and the lemmas
  after it, `LocalDay`, `TwoFiles`, `FilesSince`) and `HistoryOK`, that no stored
  request is of a day to come.

Only model-checked:

* the liveness properties ApplyReturns, JobSettles, WaitEnds, LeaseEnds,
  DropEnforced and DropLifted: liveness under fairness is out of this prover's reach;
* EnforcedAsAccepted and WritableAsShown of EasyProfile: they are about what the
  operators compute for every list, which would need induction over data;
* HardBlockEarned and QuietReleased of Sentinel: scores and budgets are folds over
  the entries of a log, which again needs induction over data;
* ThresholdsOrdered of Sentinel: its run enumerates the settings; a profile is
  merged with `@@`, which the provers do not expand.

## 5. Plan

1. *(done)* RevisionStore, RevisionRollout, their runs and the invariant proofs.
2. *(done)* OperationLock, DistributedLock, both refinements and their proofs.
3. *(done)* RuntimeLauncher.
4. *(done)* Site administration, compiler, auto-apply and ban synchronisation of
   one process.
5. *(done)* Accounts, certificate export, easy profiles.
6. *(done)* Sentinel, packet filter, request history, security events.
7. *(done)* Proofs for Authentication, CertificateExport, RuntimeLauncher,
   RequestStream, SecurityEvents and SiteConfig with the compiler it uses, and the
   rollout without deletes.  Next: ThresholdsOrdered of Sentinel.
8. HARollout: two nodes over one document store with unlocked read-modify-write,
   composing RevisionStore with OperationLock; the auto-apply run that is skipped on
   a node that is not the leader.

## 6. Disagreements met

While the models were written and run, the code was seen to do the following.  No
passing property claims the contrary; where a property holds only outside such a
case, the run says so.  Items that contradict a document name it.

Rollout and lock:

* A first apply that fails has nothing to roll back to; `current.json` stays on
  it, and the next failed apply restores it as known good
  (`docs/eng/architecture-source/adr-003-config-rollout-and-rollback.md:260`:
  "rollback target must already be a previously validated successful revision").
* Re-applying the current revision with a bundle that is refused before activation
  clears the current id (adr-003, line 104: "current active revision remains
  unchanged").
* Deleting the newest revision frees its id.  An apply past the approval gate can
  then activate another compilation without votes, and a vote checked for one
  revision can be stored for another, its author's own included
  (`docs/eng/core-docs/enterprise-identity.md:129`: "apply is blocked until the
  approval threshold is met").  Reuse needs a delete, which RolloutRaces leaves out.
* A delete between the governance check and MarkActive leaves the runtime on a
  revision the store no longer lists; nothing rolls back (adr-003, line 291).
* A delete that passed its status check before MarkActive removes the snapshot of
  a revision that is current by the time `Store.Delete` refuses.
* When `current.json` cannot be read, `Stage` does not know which candidate is
  active; with a reused id it empties it (`Faults = {"unread"}`).
* One failed refresh, or a client that disconnects, releases the key under an
  operation that does not watch its context, and another node's operation runs
  beside it (`docs/eng/high-availability-docs/high-availability.md:108`: "Only one
  node can hold the global operation lock at a time.  This prevents: ... concurrent
  writes into the runtime activation path").  Contexts exclude each other,
  operations do not.
* Redis connections have no read deadline.  Two nodes that load and save one
  document lose each other's update.  A change stored on a node that is not the
  leader, while the leader's run has read the stores, is not applied.

Launcher:

* The boot runs without the mutex of `/reload`: a reload that comes first
  (`early`) starts a second nginx which nobody supervises.
* Two updaters of the rule set (the hourly one and an API call) exclude each other
  inside the manager, and hand the path they got to nginx after they have left it
  (`runtime/config/launcher/main.go:574` and 750): the older path can be handed over
  last, and nginx then includes a release the manager no longer names, until the
  next update that runs alone.  RulesAgree excepts it (`overtaken`).

Accounts:

* A recovery code is crossed out by a whole-record write: two logins can use it.
* With PostgreSQL, on a single node, a GetSession or TouchSession that loaded the
  sessions document before a challenge was consumed saves it with the challenge
  (`sessions/store.go:114`, 151, 281): the challenge lets in a second time.  In the
  same way a recorded step-up failure, a lock or a fresh assertion is lost
  (`sessions/step_up.go:105`).  ChallengeOnce and VerifiedSinceLock except the
  challenges and assertions that came back; with documents in files there are none.
* When the deletion of the sessions fails after a new password was stored
  (`handlers/administration_access.go:331`, `services/auth_core_account.go:57`), the
  answer is an error, the password is the new one and the old sessions stay usable.
* Without AutoProvision an OIDC login takes the account as it is stored and opens a
  session without asking whether it is active (`services/enterprise.go:744`); the
  next request of that session is refused by Authenticate.
* An export approval is consumed before the material is read; a failing read
  loses it.

Sites and profiles:

* A rename that stops at an error cannot be repeated: the records it has already
  made are refused as duplicates.
* The address and country lists of an easy profile are rendered on the management
  site too (`compiler/internal/compiler/easy_runtime_site_artifacts.go:143`), so an
  administrator can shut out all of them; access policies and bans cannot.
* `resolveSiteID` takes the first site by id whose id or host resembles the name
  (`services/manual_bans.go:268`): a ban of site `a-b` goes to `a.b` when that sorts
  first, and the loop over all sites then bans one of them twice and the other never.
* `findBySite` writes a ban into the site's first policy by id; when that is the easy
  one and the site has a policy of its own, the compiler renders the other
  (`services/runtime_apply.go:996`) and the ban has no effect.
* Limit rules for paths the control plane reserves (`/`, `/login`, `/api/` and others)
  are accepted for any site and dropped by the compiler without a word
  (`compiler/internal/compiler/easy_rate_limits.go:205`).
* `syncEasyToLegacy` stops at the first error: the profile is stored and answered with
  an error, the policies behind it keep their old contents.
* `MarkBasicAuthLogin` rewrites the profile it read; a save in between is lost.
* A mask that comes back after the account was renamed or the profile deleted is
  stored as the password itself.
* Of two auto-applies the one that ends last publishes its snapshot, which may be
  the older one.
* Sentinel's addresses are marked as promoted before auto-apply runs; when it
  fails, the bans wait for the next apply.
* A negative HSTS age becomes 0 when it is saved and 180 days when it is read; the
  geo block page is disabled again on every read of a profile that disables 451
  alone; the store does not validate the client CA.

Requests and events:

* The hot-to-cold migration exports at most 10000 requests of a day and only up to
  23:59:59, then deletes the whole day
  (`docs/eng/architecture-docs/logging-architecture.md:101`: "older hot data can be
  moved there without losing validated records").  A request of the last second
  fails the validation, so its day is never moved.  RequestsKept holds in the run
  because it lets a day go once it is beyond the retention the
  migration was called with.
* A restart forgets the ingest offset and reads the log again; repeated documents
  have the same id in OpenSearch and are doubled elsewhere.
* `retention_days` of a query prunes the archive.  The control plane passes
  `tz_offset_minutes` on for the dashboard and not for the list of requests.
* Events whose answer is lost after the launcher moved its offset are gone.

## 7. Not modelled

ACME and certificate issuing (an external service; the renewal loop runs under a
leader key), the startup self-check (a list of independent checks that repair
nothing the models depend on), dashboards, reports, audit and telemetry (nothing
above reads them), templates and text of the rendered files, HTTP parsing and the
user interface, LDAP and group mapping, the machine learning signal of the
Sentinel, backup and support bundles, installers and scripts.
`Store.UpdateRevision` has no caller.  The several nodes of an HA installation
share the stores without a transaction; every module but DistributedLock is one
node, see step 8 of the plan.
