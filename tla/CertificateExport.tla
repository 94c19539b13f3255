------------------------- MODULE CertificateExport -------------------------
(***************************************************************************)
(* Export of private keys: the step-up verification of a TOTP code, its    *)
(* lock-out after wrong codes, and the approval of a second administrator. *)
(*                                                                         *)
(* A step-up request takes the time once, at its start, and uses it for    *)
(* the code, the failure count and the grant; other requests of the same   *)
(* user run in between. An approval is written in one update of its        *)
(* document. So are failures and grants, but on PostgreSQL that update     *)
(* does not take the mutex of the sessions store: it falls between the     *)
(* load and the save of a call that does, and the save undoes it.          *)
(* Times are kept relative to the present, in units of five minutes: what  *)
(* is to expire as the units left, what has happened as its age, so that   *)
(* time goes on for ever in finitely many states.                          *)
(***************************************************************************)
EXTENDS Integers, FiniteSets

CONSTANTS
  Exporter, Approver,  \* users; the exporter has TOTP enrolled at first
  Sessions,            \* sessions of the exporter
  Requests,            \* concurrent requests of the exporter, each served once
  Postgres,            \* POSTGRES_DSN is set
  Approvals,           \* ids newCertificateExportApprovalID may return
  FirstLockFailures, SecondLockFails,  \* 5 and 10 in the code
  AssertionTTL, ApprovalTTL,           \* 10 minutes
  FirstLock, Hour,                     \* 15 minutes and an hour
  MaxLag,              \* units a step-up request may take at most
  MaxHold              \* units a call of the sessions store may take at most

\* The lock outlasts every assertion made before it by a request that is not
\* too slow: 15 minutes against 10.
ASSUME LockAssumption ==
  /\ FirstLockFailures \in Nat \ {0} /\ SecondLockFails \in Nat
  /\ FirstLockFailures < SecondLockFails
  /\ AssertionTTL \in Nat \ {0} /\ ApprovalTTL \in Nat \ {0} /\ MaxLag \in Nat /\ MaxHold \in Nat
  /\ FirstLock \in Nat /\ FirstLock >= AssertionTTL + MaxLag
  /\ Hour \in Nat /\ Hour > FirstLock
ASSUME UserAssumption == Exporter # Approver
ASSUME PostgresAssumption == Postgres \in BOOLEAN
\* No id is the empty one a request without an approval presents.
ASSUME ApprovalAssumption == "none" \notin Approvals

VARIABLES
  failure,     \* StepUpFailure of the exporter
  assertions,  \* StepUpAssertion: units left, by session
  loaded,      \* the copy of both that a call under s.mu will save
  approvals,   \* approvals.json: a function on the ids in use
  required,    \* CertificateExportApprovalRequired
  totp,        \* TOTPEnabled of the exporter
  req,         \* requests in progress
  exports,     \* history: answered exports by approval
  fresh,       \* history: sessions verified with no lock-out since
  revived      \* history: sessions verified before a lock-out that a late
               \* save has undone

history == <<exports, fresh, revived>>
vars == <<failure, assertions, loaded, approvals, required, totp, req, history>>

\* last is the age of the last failure, until the units a lock has left (not
\* positive: it is over).
NoFailure == [count |-> 0, last |-> 0, until |-> -MaxLag]
NoCopy == [on |-> FALSE, age |-> 0, failure |-> NoFailure, assertions |-> [s \in Sessions |-> 0], fresh |-> {}]
NoApproval == "none"
NoSession == "none"
\* A request that begins, or goes on to the export.
Starting(pc, s, a) == [pc |-> pc, session |-> s, age |-> 0, approval |-> a]
Idle == Starting("idle", NoSession, NoApproval)
Over == Starting("done", NoSession, NoApproval)
At(p, pc) == req[p].pc = pc
Goto(p, pc) == req' = [req EXCEPT ![p].pc = pc]
Done(p) == req' = [req EXCEPT ![p] = Over]

\* stepUpLocked, pruneStepUp and stepUpStatus, at the time a request of this
\* age began.
Locked(age) == failure.until > -age
Verified(s) == ~Locked(0) /\ assertions[s] > 0

-----------------------------------------------------------------------------
(* StepUpTOTP                                                              *)

\* Authenticate, the time, and StepUpStatus.
BeginStepUp(p, s) ==
  /\ At(p, "idle")
  /\ \/ Locked(0) /\ Done(p)
     \/ /\ ~Locked(0)
        /\ req' = [req EXCEPT ![p] = Starting("check", s, NoApproval)]
  /\ UNCHANGED <<failure, assertions, loaded, approvals, required, totp, history>>

\* The user is read and the code compared.
CheckCode(p) ==
  /\ At(p, "check")
  /\ \/ ~totp /\ Done(p)
     \/ totp /\ (Goto(p, "grant") \/ Goto(p, "fail"))
  /\ UNCHANGED <<failure, assertions, loaded, approvals, required, totp, history>>

\* RecordStepUpFailure: nothing under a lock; an hour without failures clears
\* the count.
Counted(f, age) ==
  LET n == (IF f.last - age > Hour THEN 0 ELSE f.count) + 1 IN
  [count |-> IF n > SecondLockFails THEN SecondLockFails ELSE n,  \* bound: more count alike
   last |-> age,
   until |-> IF n >= SecondLockFails THEN Hour - age
             ELSE IF n >= FirstLockFailures THEN FirstLock - age ELSE f.until]

\* updateStepUpState: on PostgreSQL a call under s.mu may have loaded its copy
\* just before.
Overtakes ==
  \/ UNCHANGED loaded
  \/ /\ Postgres /\ ~loaded.on
     /\ loaded' = [on |-> TRUE, age |-> 0, failure |-> failure, assertions |-> assertions,
                   fresh |-> fresh \cup revived]

RecordStepUpFailure(p) ==
  LET f == Counted(failure, req[p].age)  locks == f.count >= FirstLockFailures IN
  /\ At(p, "fail")
  /\ IF Locked(req[p].age) THEN UNCHANGED <<failure, loaded, fresh, revived>>
     ELSE /\ failure' = f
          /\ fresh' = IF locks THEN {} ELSE fresh
          /\ revived' = IF locks THEN {} ELSE revived
          /\ Overtakes
  /\ Done(p)
  /\ UNCHANGED <<assertions, approvals, required, totp, exports>>

\* Mutant: the grant trusts the status read at the start.
GrantUnchecked(p) ==
  LET s == req[p].session IN
  /\ At(p, "grant")
  /\ failure' = NoFailure
  /\ assertions' = [assertions EXCEPT ![s] = AssertionTTL - req[p].age]
  /\ fresh' = IF Locked(0) THEN fresh ELSE fresh \cup {s}
  /\ Done(p)
  /\ UNCHANGED <<loaded, approvals, required, totp, exports, revived>>

\* GrantStepUp checks the lock again, then forgets the failures.
GrantStepUp(p) ==
  LET s == req[p].session IN
  /\ At(p, "grant")
  /\ IF Locked(req[p].age) THEN UNCHANGED <<failure, assertions, loaded, fresh, revived>>
     ELSE /\ failure' = NoFailure
          /\ assertions' = [assertions EXCEPT ![s] = AssertionTTL - req[p].age]
          /\ fresh' = IF Locked(0) THEN fresh ELSE fresh \cup {s}
          /\ revived' = revived \ {s}
          /\ Overtakes
  /\ Done(p)
  /\ UNCHANGED <<approvals, required, totp, exports>>

\* GetSession, TouchSession and the others that hold s.mu save the whole copy
\* they have loaded: a failure, a lock-out or a grant in between is gone.
TouchSession ==
  /\ loaded.on
  /\ failure' = loaded.failure /\ assertions' = loaded.assertions
  /\ revived' = (revived \cup loaded.fresh) \ fresh
  /\ loaded' = NoCopy
  /\ UNCHANGED <<approvals, required, totp, req, exports, fresh>>

-----------------------------------------------------------------------------
(* Approvals                                                               *)

\* The exporter asks; whoever has the permission approves, the exporter too
\* if the store let it.
Request(a) ==
  /\ a \notin DOMAIN approvals
  /\ approvals' = [x \in DOMAIN approvals \cup {a} |->
       IF x = a THEN [left |-> ApprovalTTL, by |-> NoApproval, used |-> FALSE]
       ELSE approvals[x]]
  /\ UNCHANGED <<failure, assertions, loaded, required, totp, req, history>>

Expired(a) == approvals[a].left = 0

Approve(a, actor) ==
  /\ a \in DOMAIN approvals
  /\ actor # Exporter /\ approvals[a].by = NoApproval /\ ~Expired(a)
  /\ approvals' = [approvals EXCEPT ![a].by = actor]
  /\ UNCHANGED <<failure, assertions, loaded, required, totp, req, history>>

-----------------------------------------------------------------------------
(* Export                                                                  *)

\* RequireStepUp: a user without TOTP keeps the export without a step-up.
RequireStepUp(p, s, a) ==
  /\ At(p, "idle")
  /\ \/ totp /\ ~Verified(s) /\ Done(p)
     \/ ~(totp /\ ~Verified(s)) /\ req' = [req EXCEPT ![p] = Starting("consume", s, a)]
  /\ UNCHANGED <<failure, assertions, loaded, approvals, required, totp, history>>

\* Mutant: an approval that was used is accepted again.
ConsumeAgain(p) ==
  LET a == req[p].approval IN
  /\ At(p, "consume")
  /\ \/ ~required /\ req' = [req EXCEPT ![p].pc = "read", ![p].approval = NoApproval] /\ UNCHANGED approvals
     \/ /\ required /\ a \in DOMAIN approvals /\ ~Expired(a) /\ approvals[a].by # NoApproval
        /\ approvals' = [approvals EXCEPT ![a].used = TRUE] /\ Goto(p, "read")
     \/ required /\ Done(p) /\ UNCHANGED approvals
  /\ UNCHANGED <<failure, assertions, loaded, required, totp, history>>

\* consumeApproval; the setting may change until it is read here.
Consume(p) ==
  LET a == req[p].approval
      valid == /\ a \in DOMAIN approvals /\ ~Expired(a)
               /\ ~approvals[a].used /\ approvals[a].by \notin {NoApproval, Exporter} IN
  /\ At(p, "consume")
  /\ \/ ~required /\ req' = [req EXCEPT ![p].pc = "read", ![p].approval = NoApproval] /\ UNCHANGED approvals
     \/ required /\ valid /\ approvals' = [approvals EXCEPT ![a].used = TRUE] /\ Goto(p, "read")
     \/ required /\ ~valid /\ Done(p) /\ UNCHANGED approvals
  /\ UNCHANGED <<failure, assertions, loaded, required, totp, history>>

\* Read and buildArchive: a missing certificate or an archive past the limit
\* ends the request; the approval stays used.
Answer(p) ==
  /\ At(p, "read")
  /\ exports' \in {exports, [a \in Approvals |-> IF a = req[p].approval THEN exports[a] + 1 ELSE exports[a]]}
  /\ Done(p)
  /\ UNCHANGED <<failure, assertions, loaded, approvals, required, totp, fresh, revived>>

-----------------------------------------------------------------------------
\* The user switches TOTP on or off, an administrator the approval setting.
SetTOTP ==
  /\ totp' = ~totp
  /\ UNCHANGED <<failure, assertions, loaded, approvals, required, req, history>>
SetRequired ==
  /\ required' = ~required
  /\ UNCHANGED <<failure, assertions, loaded, approvals, totp, req, history>>

\* Time passes; no request under way is older than MaxLag, no copy than MaxHold.
\* What is long past is forgotten.
Down(n, low) == IF n > low THEN n - 1 ELSE n
AgedFailure(f) ==
  [count |-> f.count, until |-> Down(f.until, -MaxLag),
   last |-> IF f.count = 0 \/ f.last > Hour + MaxLag THEN f.last ELSE f.last + 1]
AgedAssertions(left) == [s \in Sessions |-> Down(left[s], 0)]
Tick ==
  /\ \A p \in Requests : req[p].age < MaxLag
  /\ loaded.on => loaded.age < MaxHold
  /\ failure' = AgedFailure(failure) /\ assertions' = AgedAssertions(assertions)
  /\ loaded' = IF loaded.on
               THEN [on |-> TRUE, age |-> loaded.age + 1, failure |-> AgedFailure(loaded.failure),
                     assertions |-> AgedAssertions(loaded.assertions), fresh |-> loaded.fresh]
               ELSE loaded
  /\ approvals' = [a \in DOMAIN approvals |-> [approvals[a] EXCEPT !.left = Down(@, 0)]]
  /\ req' = [p \in Requests |-> IF req[p].pc \in {"check", "grant", "fail"} THEN [req[p] EXCEPT !.age = @ + 1] ELSE req[p]]
  /\ UNCHANGED <<required, totp, history>>

\* The next request of a connection that was answered.
Again(p) ==
  /\ At(p, "done") /\ req' = [req EXCEPT ![p] = Idle]
  /\ UNCHANGED <<failure, assertions, loaded, approvals, required, totp, history>>

Init ==
  /\ failure = NoFailure /\ assertions = [s \in Sessions |-> 0] /\ loaded = NoCopy
  /\ approvals = << >> /\ required \in BOOLEAN /\ totp = TRUE
  /\ req = [p \in Requests |-> Idle] /\ exports = [a \in Approvals |-> 0] /\ fresh = {} /\ revived = {}

Next ==
  \/ \E p \in Requests :
       \/ \E s \in Sessions : BeginStepUp(p, s) \/ \E a \in Approvals \cup {NoApproval} : RequireStepUp(p, s, a)
       \/ CheckCode(p) \/ RecordStepUpFailure(p) \/ GrantStepUp(p)
       \/ Consume(p) \/ Answer(p) \/ Again(p)
  \/ \E a \in Approvals : Request(a) \/ \E u \in {Exporter, Approver} : Approve(a, u)
  \/ TouchSession \/ SetTOTP \/ SetRequired \/ Tick

Spec == Init /\ [][Next]_vars

-----------------------------------------------------------------------------
Steps == {"check", "grant", "fail"}  \* of StepUpTOTP
RequestRecord ==
  [pc : Steps \cup {"idle", "consume", "read", "done"}, session : Sessions \cup {NoSession},
   age : 0..MaxLag, approval : Approvals \cup {NoApproval}]
Failure == [count : 0..SecondLockFails, last : Nat, until : (-MaxLag)..Hour]
Assertions == {f \in [Sessions -> Int] : \A s \in Sessions : f[s] <= AssertionTTL}
Copy == [on : BOOLEAN, age : Nat, failure : Failure, assertions : Assertions, fresh : SUBSET Sessions]
StepUpTyped ==
  /\ failure \in Failure /\ assertions \in Assertions /\ loaded \in Copy
  /\ fresh \subseteq Sessions /\ revived \subseteq Sessions
ApprovalsTyped ==
  /\ DOMAIN approvals \subseteq Approvals
  /\ approvals \in [DOMAIN approvals -> [left : Nat, by : {NoApproval, Approver}, used : BOOLEAN]]
  /\ exports \in [Approvals -> Nat]
RequestsTyped ==
  /\ req \in [Requests -> RequestRecord]
  /\ \A p \in Requests : req[p].pc \in Steps => req[p].session \in Sessions
SettingsTyped == required \in BOOLEAN /\ totp \in BOOLEAN
TypeOK == StepUpTyped /\ ApprovalsTyped /\ RequestsTyped /\ SettingsTyped

\* A user with TOTP who starts an export has verified a code in that very
\* session after the last lock-out and outside of any: an assertion made
\* before five wrong codes, perhaps by a request racing with them, is dead
\* before the lock ends. The exception is a lock-out that a save of the
\* sessions document, loaded before it on PostgreSQL, has undone.
VerifiedSinceLock ==
  [][\A p \in Requests :
       At(p, "idle") /\ req'[p].pc = "consume" /\ totp => req'[p].session \in fresh \cup revived]_vars

\* An approval lets out one answer at most, however many requests present it,
\* and only one that another user gave.
OneExportPerApproval ==
  \A a \in Approvals :
    /\ exports[a] <= 1
    /\ exports[a] = 1 => approvals[a].by = Approver
=============================================================================
