---------------------- MODULE CertificateExport_proofs ----------------------
(***************************************************************************)
(* What an approval and a step-up verification are worth, for any number   *)
(* of requests, sessions and approvals, and for all times and limits that  *)
(* satisfy LockAssumption.                                                 *)
(***************************************************************************)
EXTENDS CertificateExport, TLAPS

\* A request that is about to answer has used up its approval, no other
\* request answers under the same one, and no answer was given under it yet.
Reading(p, a) == req[p].pc = "read" /\ req[p].approval = a
Spent(a) == a \in DOMAIN approvals /\ approvals[a].used /\ approvals[a].by = Approver
ApprovalsOK ==
  \A a \in Approvals :
    /\ exports[a] <= 1 /\ (exports[a] = 1 => Spent(a))
    /\ \A p \in Requests :
         Reading(p, a) => /\ Spent(a) /\ exports[a] = 0
                          /\ \A q \in Requests : Reading(q, a) => q = p

\* An assertion that is older than the lock ends no later than it: in the
\* document, and in the copy that may be saved over it.
Outlasted(f, left, since) == \A s \in Sessions \ since : left[s] <= 0 \/ left[s] <= f.until
LockOK ==
  /\ Outlasted(failure, assertions, fresh \cup revived)
  /\ loaded.on => Outlasted(loaded.failure, loaded.assertions, loaded.fresh)

-----------------------------------------------------------------------------
\* The documents and requests have their types at first.
LEMMA TypeInit == Init => TypeOK
  BY LockAssumption DEF Init, TypeOK, StepUpTyped, ApprovalsTyped, RequestsTyped, SettingsTyped,
                        RequestRecord, Steps, Failure, Assertions, Copy, NoFailure, NoCopy, Idle, Starting

\* A request replaced by a record of its type.
LEMMA RequestReplaced ==
  ASSUME NEW p \in Requests, NEW r \in RequestRecord, RequestsTyped,
         r.pc \in Steps => r.session \in Sessions,
         req' = [req EXCEPT ![p] = r]
  PROVE  RequestsTyped'
<1>1. req' \in [Requests -> RequestRecord]
  BY DEF RequestsTyped
<1>2. \A q \in Requests : req'[q] = IF q = p THEN r ELSE req[q]
  BY DEF RequestsTyped
<1> QED
  BY <1>1, <1>2 DEF RequestsTyped

\* A request moved on within the types.
LEMMA RequestMoved ==
  ASSUME NEW p \in Requests, RequestsTyped,
         NEW to \in {"grant", "fail", "read"}, req[p].pc \in Steps \/ to = "read",
         Goto(p, to)
  PROVE  RequestsTyped'
  BY DEF RequestsTyped, RequestRecord, Steps, Goto

\* A request that is started, or over.
LEMMA RequestStarted ==
  ASSUME NEW p \in Requests, RequestsTyped, NEW s, NEW a \in Approvals \cup {NoApproval},
         NEW to \in {"idle", "check", "consume", "done"},
         s \in Sessions \/ (s = NoSession /\ to # "check"),
         req' = [req EXCEPT ![p] = Starting(to, s, a)]
  PROVE  RequestsTyped'
<1>1. Starting(to, s, a) \in RequestRecord
  BY LockAssumption DEF Starting, RequestRecord, Steps
<1>2. Starting(to, s, a).pc \in Steps => Starting(to, s, a).session \in Sessions
  BY DEF Starting, Steps
<1> QED
  BY <1>1, <1>2, RequestReplaced

\* A request that ends keeps the requests well typed.
LEMMA RequestDone ==
  ASSUME NEW p \in Requests, RequestsTyped, Done(p)
  PROVE  RequestsTyped'
  BY RequestStarted DEF Done, Over

\* The steps of StepUpTOTP and of the export handler keep the requests typed.
LEMMA RequestsStep == TypeOK /\ [Next]_vars => RequestsTyped'
<1> SUFFICES ASSUME TypeOK, [Next]_vars PROVE RequestsTyped'
  OBVIOUS
<1> USE DEF TypeOK
<1>1. ASSUME NEW p \in Requests, NEW s \in Sessions, BeginStepUp(p, s) PROVE RequestsTyped'
  <2>1. Done(p) \/ req' = [req EXCEPT ![p] = Starting("check", s, NoApproval)]
    BY <1>1 DEF BeginStepUp
  <2>2. CASE Done(p)
    BY <2>2, RequestDone
  <2>3. CASE req' = [req EXCEPT ![p] = Starting("check", s, NoApproval)]
    <3>1. Starting("check", s, NoApproval) \in RequestRecord
      BY LockAssumption DEF Starting, RequestRecord, Steps
    <3>2. Starting("check", s, NoApproval).session \in Sessions
      BY DEF Starting
    <3> QED
      BY <2>3, <3>1, <3>2, RequestReplaced
  <2> QED
    BY <2>1, <2>2, <2>3
<1>2. ASSUME NEW p \in Requests, NEW s \in Sessions, NEW a \in Approvals \cup {NoApproval},
             RequireStepUp(p, s, a)
      PROVE RequestsTyped'
  BY <1>2, RequestDone, RequestStarted DEF RequireStepUp
<1>3. ASSUME NEW p \in Requests, CheckCode(p) PROVE RequestsTyped'
  BY <1>3, RequestDone, RequestMoved DEF CheckCode, At, Steps
<1>4. ASSUME NEW p \in Requests, RecordStepUpFailure(p) \/ GrantStepUp(p) \/ Answer(p)
      PROVE  RequestsTyped'
  BY <1>4, RequestDone DEF RecordStepUpFailure, GrantStepUp, Answer
<1>5. ASSUME NEW p \in Requests, Consume(p) PROVE RequestsTyped'
  <2>1. CASE req' = [req EXCEPT ![p].pc = "read", ![p].approval = NoApproval]
    BY <2>1 DEF RequestsTyped, RequestRecord, Steps
  <2> QED
    BY <1>5, <2>1, RequestDone, RequestMoved DEF Consume
<1>6. ASSUME NEW p \in Requests, Again(p) PROVE RequestsTyped'
  BY <1>6, RequestStarted DEF Again, Idle
<1>7. CASE Tick
  BY <1>7, LockAssumption DEF Tick, RequestsTyped, RequestRecord, Steps
<1>8. CASE UNCHANGED req
  BY <1>8 DEF RequestsTyped
<1> QED
  BY <1>1, <1>2, <1>3, <1>4, <1>5, <1>6, <1>7, <1>8
     DEF Next, vars, Request, Approve, TouchSession, SetTOTP, SetRequired

\* What updateStepUpState writes is at its type, and so is a copy loaded before.
LEMMA CopyTyped ==
  ASSUME StepUpTyped, UNCHANGED loaded \/ Overtakes
  PROVE  loaded' \in Copy
<1>1. CASE UNCHANGED loaded
  BY <1>1 DEF StepUpTyped
<1>2. CASE Overtakes /\ loaded' # loaded
  <2>1. loaded' = [on |-> TRUE, age |-> 0, failure |-> failure, assertions |-> assertions,
                   fresh |-> fresh \cup revived]
    BY <1>2 DEF Overtakes
  <2>2. failure \in Failure /\ assertions \in Assertions /\ (fresh \cup revived) \in SUBSET Sessions
    BY DEF StepUpTyped
  <2> QED
    BY <2>1, <2>2 DEF Copy
<1> QED
  BY <1>1, <1>2

\* Time keeps a failure record and the assertions at their types.
LEMMA AgedTyped ==
  ASSUME NEW f \in Failure, NEW left \in Assertions
  PROVE  AgedFailure(f) \in Failure /\ AgedAssertions(left) \in Assertions
<1>1. AgedFailure(f) \in Failure
  BY LockAssumption DEF Failure, AgedFailure, Down
<1>2. AgedAssertions(left) \in Assertions
  BY LockAssumption DEF Assertions, AgedAssertions, Down
<1> QED
  BY <1>1, <1>2

\* Only failures, grants, late saves and time touch the verifications; time
\* needs the guard on the age of requests.
LEMMA StepUpStep == TypeOK /\ [Next]_vars => StepUpTyped'
<1> SUFFICES ASSUME TypeOK, [Next]_vars PROVE StepUpTyped'
  OBVIOUS
<1>0. StepUpTyped /\ RequestsTyped
  BY DEF TypeOK
<1>1. ASSUME NEW p \in Requests, RecordStepUpFailure(p) PROVE StepUpTyped'
  <2>1. req[p].age \in 0..MaxLag
    BY <1>0 DEF RequestsTyped, RequestRecord
  <2>2. ~Locked(req[p].age) => Counted(failure, req[p].age) \in Failure
    BY <1>0, <2>1, LockAssumption DEF StepUpTyped, Failure, Counted, Locked
  <2>3. failure' \in Failure /\ UNCHANGED assertions /\ fresh' \subseteq fresh /\ revived' \subseteq revived
    BY <1>0, <1>1, <2>2 DEF RecordStepUpFailure, StepUpTyped
  <2>4. UNCHANGED loaded \/ Overtakes
    BY <1>1 DEF RecordStepUpFailure
  <2> QED
    BY <1>0, <2>3, <2>4, CopyTyped DEF StepUpTyped
<1>2. ASSUME NEW p \in Requests, GrantStepUp(p) PROVE StepUpTyped'
  <2> DEFINE s == req[p].session
  <2>1. s \in Sessions /\ req[p].age \in 0..MaxLag
    BY <1>0, <1>2 DEF GrantStepUp, At, RequestsTyped, RequestRecord, Steps
  <2>2. NoFailure \in Failure
    BY LockAssumption DEF NoFailure, Failure
  <2>3. \/ UNCHANGED <<failure, assertions, loaded, fresh, revived>>
        \/ /\ failure' = NoFailure
           /\ assertions' = [assertions EXCEPT ![s] = AssertionTTL - req[p].age]
           /\ fresh' \in {fresh, fresh \cup {s}} /\ revived' = revived \ {s}
    BY <1>2 DEF GrantStepUp
  <2>4. UNCHANGED loaded \/ Overtakes
    BY <1>2 DEF GrantStepUp
  <2> HIDE DEF s
  <2>5. assertions' \in Assertions
    BY <1>0, <2>1, <2>3, LockAssumption DEF StepUpTyped, Assertions
  <2> QED
    BY <1>0, <2>1, <2>2, <2>3, <2>4, <2>5, CopyTyped DEF StepUpTyped
<1>3. CASE Tick
  <2>1. loaded' \in Copy
    <3>1. loaded \in Copy /\ AgedFailure(loaded.failure) \in Failure /\ AgedAssertions(loaded.assertions) \in Assertions
      BY <1>0, AgedTyped DEF StepUpTyped, Copy
    <3>2. CASE UNCHANGED loaded
      BY <3>1, <3>2
    <3>3. CASE ~UNCHANGED loaded
      <4>1. loaded' = [on |-> TRUE, age |-> loaded.age + 1, failure |-> AgedFailure(loaded.failure),
                       assertions |-> AgedAssertions(loaded.assertions), fresh |-> loaded.fresh]
        BY <1>3, <3>3 DEF Tick
      <4> QED
        BY <3>1, <4>1 DEF Copy
    <3> QED
      BY <3>2, <3>3
  <2> QED
    BY <1>0, <1>3, <2>1, AgedTyped DEF Tick, StepUpTyped, history
<1>4. CASE TouchSession
  <2>1. NoCopy \in Copy
    BY LockAssumption DEF Copy, NoCopy, NoFailure, Failure, Assertions
  <2> QED
    BY <1>0, <1>4, <2>1 DEF TouchSession, StepUpTyped, Copy
<1>5. CASE UNCHANGED <<failure, assertions, loaded, fresh, revived>>
  BY <1>0, <1>5 DEF StepUpTyped
<1> QED
  BY <1>1, <1>2, <1>3, <1>4, <1>5 DEF Next, vars, history, BeginStepUp, RequireStepUp, CheckCode, Consume,
     Answer, Again, Request, Approve, SetTOTP, SetRequired

\* Requesting, approving, consuming and answering keep the approvals typed.
LEMMA ApprovalsStep == TypeOK /\ [Next]_vars => ApprovalsTyped'
<1> SUFFICES ASSUME TypeOK, [Next]_vars PROVE ApprovalsTyped'
  OBVIOUS
<1>1. ASSUME NEW a \in Approvals, Request(a) PROVE ApprovalsTyped'
  BY <1>1, LockAssumption DEF Request, history, TypeOK, ApprovalsTyped
<1>2. ASSUME NEW a \in Approvals, NEW u \in {Exporter, Approver}, Approve(a, u) PROVE ApprovalsTyped'
  BY <1>2 DEF Approve, history, TypeOK, ApprovalsTyped
<1>3. ASSUME NEW p \in Requests, Consume(p) PROVE ApprovalsTyped'
  <2>1. UNCHANGED exports
    BY <1>3 DEF Consume, history
  <2>2. CASE UNCHANGED approvals
    BY <2>1, <2>2 DEF TypeOK, ApprovalsTyped
  <2>3. ASSUME NEW a \in DOMAIN approvals, approvals' = [approvals EXCEPT ![a].used = TRUE]
        PROVE  ApprovalsTyped'
    BY <2>1, <2>3 DEF TypeOK, ApprovalsTyped
  <2> QED
    BY <1>3, <2>2, <2>3 DEF Consume
<1>4. ASSUME NEW p \in Requests, Answer(p) PROVE ApprovalsTyped'
  BY <1>4 DEF Answer, TypeOK, ApprovalsTyped
<1>5. CASE Tick
  BY <1>5 DEF Tick, history, Down, TypeOK, ApprovalsTyped
<1>6. CASE UNCHANGED <<approvals, exports>>
  BY <1>6 DEF TypeOK, ApprovalsTyped
<1> QED
  BY <1>1, <1>2, <1>3, <1>4, <1>5, <1>6 DEF Next, vars, history, BeginStepUp, RequireStepUp, CheckCode,
     RecordStepUpFailure, GrantStepUp, TouchSession, Again, SetTOTP, SetRequired

\* The two settings stay switches.
LEMMA SettingsStep == TypeOK /\ [Next]_vars => SettingsTyped'
<1> SUFFICES ASSUME SettingsTyped, [Next]_vars PROVE SettingsTyped'
  BY DEF TypeOK
<1>1. CASE SetTOTP
  BY <1>1, Zenon DEF SetTOTP, SettingsTyped
<1>2. CASE SetRequired
  BY <1>2, Zenon DEF SetRequired, SettingsTyped
<1>3. CASE UNCHANGED <<required, totp>>
  BY <1>3, Zenon DEF SettingsTyped
<1> QED
  BY <1>1, <1>2, <1>3 DEF Next, vars, BeginStepUp, RequireStepUp, CheckCode, Consume,
     RecordStepUpFailure, GrantStepUp, TouchSession, Answer, Again, Request, Approve, Tick

\* Every variable of the step-up and export handlers keeps its type.
THEOREM TypeCorrect == Spec => []TypeOK
<1>1. TypeOK /\ [Next]_vars => TypeOK'
  BY RequestsStep, StepUpStep, ApprovalsStep, SettingsStep DEF TypeOK
<1> QED
  BY TypeInit, <1>1, PTL DEF Spec

-----------------------------------------------------------------------------
\* At first no approval has let out an answer.
LEMMA ApprovalsInit == Init => ApprovalsOK
  BY ApprovalAssumption DEF Init, ApprovalsOK, Reading, Idle, Starting, NoApproval

\* A request that leaves, or does not enter, "read".
StillReading == \A q \in Requests, a \in Approvals : Reading(q, a)' => Reading(q, a)

\* A request that does not turn to answering leaves who answers as it was.
LEMMA NotReading ==
  ASSUME NEW p \in Requests, RequestsTyped, NEW r, r.pc # "read" \/ r.approval \notin Approvals,
         req' = [req EXCEPT ![p] = r]
  PROVE  StillReading
  BY DEF RequestsTyped, StillReading, Reading

\* Neither does a request that ends.
LEMMA DoneNotReading ==
  ASSUME NEW p \in Requests, RequestsTyped, Done(p)
  PROVE  StillReading
<1>1. Over.pc # "read"
  BY DEF Over, Starting
<1> QED
  BY <1>1, NotReading DEF Done

\* What was spent stays so, and nothing else is answered or read.
LEMMA Untouched ==
  ASSUME ApprovalsOK, StillReading, UNCHANGED exports, \A a \in Approvals : Spent(a) => Spent(a)'
  PROVE  ApprovalsOK'
  BY DEF ApprovalsOK, StillReading

\* Consume refuses a used approval and marks it in the same step, so two
\* requests never read under one approval; Answer then leaves "read".
LEMMA ApprovalsKept == TypeOK /\ ApprovalsOK /\ [Next]_vars => ApprovalsOK'
<1> SUFFICES ASSUME TypeOK, ApprovalsOK, [Next]_vars PROVE ApprovalsOK'
  OBVIOUS
<1>0. RequestsTyped /\ ApprovalsTyped
  BY DEF TypeOK
<1>1. ASSUME UNCHANGED <<approvals, exports>>, StillReading PROVE ApprovalsOK'
  BY <1>1, Untouched DEF Spent
<1>2. ASSUME NEW p \in Requests, Consume(p) PROVE ApprovalsOK'
  <2>1. UNCHANGED exports
    BY <1>2 DEF Consume, history
  <2>2. CASE Done(p) /\ UNCHANGED approvals
    BY <1>0, <1>1, <2>1, <2>2, DoneNotReading
  <2>3. CASE UNCHANGED approvals /\ req' = [req EXCEPT ![p].pc = "read", ![p].approval = NoApproval]
    <3>1. StillReading
      <4>1. req'[p].approval = NoApproval
        BY <1>0, <2>3 DEF RequestsTyped, RequestRecord
      <4>2. \A q \in Requests \ {p} : req'[q] = req[q]
        BY <1>0, <2>3 DEF RequestsTyped
      <4> QED
        BY <4>1, <4>2, ApprovalAssumption DEF StillReading, Reading, NoApproval
    <3> QED
      BY <1>1, <2>1, <2>3, <3>1
  <2>4. CASE /\ req[p].approval \in DOMAIN approvals /\ ~approvals[req[p].approval].used
             /\ approvals[req[p].approval].by # NoApproval
             /\ approvals' = [approvals EXCEPT ![req[p].approval].used = TRUE]
             /\ req' = [req EXCEPT ![p].pc = "read"]
    <3>1. PICK a \in Approvals : a = req[p].approval
      BY <1>0, <2>4 DEF ApprovalsTyped
    <3>2. a \in DOMAIN approvals /\ ~Spent(a)
      BY <2>4, <3>1 DEF Spent
    <3>3. exports[a] = 0 /\ \A q \in Requests : ~Reading(q, a)
      <4>1. exports[a] \in Nat /\ exports[a] <= 1
        BY <1>0 DEF ApprovalsTyped, ApprovalsOK
      <4> QED
        BY <3>2, <4>1 DEF ApprovalsOK
    <3>4. Spent(a)'
      BY <1>0, <2>4, <3>1, <3>2 DEF ApprovalsTyped, Spent
    <3>5. \A b \in Approvals : Spent(b) => Spent(b)'
      BY <1>0, <2>4, <3>1, <3>2 DEF ApprovalsTyped, Spent
    <3>6. \A q \in Requests, b \in Approvals : Reading(q, b)' <=> Reading(q, b) \/ (q = p /\ b = a)
      BY <1>0, <1>2, <2>4, <3>1 DEF Consume, At, RequestsTyped, RequestRecord, Reading
    <3>7. ASSUME NEW b \in Approvals
          PROVE  /\ exports'[b] <= 1 /\ (exports'[b] = 1 => Spent(b)')
                 /\ \A q \in Requests :
                      Reading(q, b)' => /\ Spent(b)' /\ exports'[b] = 0
                                        /\ \A r \in Requests : Reading(r, b)' => r = q
      <4>1. CASE b = a
        BY <2>1, <3>3, <3>4, <3>6, <4>1
      <4>2. CASE b # a
        BY <2>1, <3>5, <3>6, <4>2 DEF ApprovalsOK
      <4> QED
        BY <4>1, <4>2
    <3> QED
      BY <3>7 DEF ApprovalsOK
  <2> QED
    BY <1>2, <2>2, <2>3, <2>4 DEF Consume, Goto
<1>3. ASSUME NEW p \in Requests, Answer(p) PROVE ApprovalsOK'
  <2> DEFINE a == req[p].approval
  <2>1. StillReading /\ \A b \in Approvals : ~Reading(p, b)'
    <3>1. StillReading
      BY <1>0, <1>3, DoneNotReading DEF Answer
    <3>2. req'[p].pc = "done"
      BY <1>0, <1>3 DEF Answer, Done, Over, Starting, RequestsTyped
    <3> QED
      BY <3>1, <3>2 DEF Reading
  <2>2. \A b \in Approvals : Spent(b) => Spent(b)'
    BY <1>3 DEF Answer, Spent
  <2>3. CASE UNCHANGED exports
    BY <2>1, <2>2, <2>3, Untouched
  <2>4. CASE exports' = [b \in Approvals |-> IF b = a THEN exports[b] + 1 ELSE exports[b]]
    <3>1. \A b \in Approvals : b # a => exports'[b] = exports[b]
      BY <2>4
    <3>2. a \in Approvals => Reading(p, a) /\ exports'[a] = exports[a] + 1
      BY <1>3, <2>4 DEF Answer, At, Reading
    <3>3. \A b \in Approvals : exports[b] \in Nat
      BY <1>0 DEF ApprovalsTyped
    <3> HIDE DEF a
    <3> QED
      BY <2>1, <2>2, <3>1, <3>2, <3>3 DEF ApprovalsOK, StillReading
  <2> QED
    BY <1>3, <2>3, <2>4 DEF Answer
<1>4. ASSUME NEW p \in Requests, NEW s \in Sessions, NEW a \in Approvals \cup {NoApproval},
             BeginStepUp(p, s) \/ RequireStepUp(p, s, a)
      PROVE  ApprovalsOK'
  <2>1. UNCHANGED <<approvals, exports>>
    BY <1>4 DEF BeginStepUp, RequireStepUp, history
  <2>2. \/ Done(p) \/ req' = [req EXCEPT ![p] = Starting("check", s, NoApproval)]
        \/ req' = [req EXCEPT ![p] = Starting("consume", s, a)]
    BY <1>4 DEF BeginStepUp, RequireStepUp
  <2>3. Starting("check", s, NoApproval).pc # "read" /\ Starting("consume", s, a).pc # "read"
    BY DEF Starting
  <2>4. StillReading
    BY <1>0, <2>2, <2>3, DoneNotReading, NotReading
  <2> QED
    BY <1>1, <2>1, <2>4
<1>5. ASSUME NEW p \in Requests, CheckCode(p) PROVE ApprovalsOK'
  <2>1. Done(p) \/ Goto(p, "grant") \/ Goto(p, "fail")
    BY <1>5 DEF CheckCode
  <2>2. ASSUME NEW to \in {"grant", "fail"}, Goto(p, to) PROVE StillReading
    BY <1>0, <2>2 DEF Goto, RequestsTyped, RequestRecord, StillReading, Reading
  <2>3. StillReading
    BY <1>0, <2>1, <2>2, DoneNotReading
  <2> QED
    BY <1>1, <1>5, <2>3 DEF CheckCode, history
<1>6. ASSUME NEW p \in Requests, RecordStepUpFailure(p) \/ GrantStepUp(p) PROVE ApprovalsOK'
  BY <1>0, <1>1, <1>6, DoneNotReading DEF RecordStepUpFailure, GrantStepUp
<1>7. ASSUME NEW p \in Requests, Again(p) PROVE ApprovalsOK'
  <2>1. Idle.pc # "read"
    BY DEF Idle, Starting
  <2> QED
    BY <1>0, <1>1, <1>7, <2>1, NotReading DEF Again, history
<1>8. ASSUME NEW a \in Approvals, NEW u \in {Exporter, Approver}, Request(a) \/ Approve(a, u)
      PROVE  ApprovalsOK'
  <2>1. UNCHANGED exports /\ StillReading
    BY <1>8 DEF Request, Approve, history, StillReading, Reading
  <2>2. \A b \in Approvals : Spent(b) => Spent(b)'
    BY <1>0, <1>8 DEF Request, Approve, ApprovalsTyped, Spent
  <2> QED
    BY <2>1, <2>2, Untouched
<1>9. CASE Tick
  <2>1. UNCHANGED exports /\ StillReading
    BY <1>0, <1>9 DEF Tick, history, RequestsTyped, RequestRecord, StillReading, Reading
  <2>2. \A b \in Approvals : Spent(b) => Spent(b)'
    BY <1>0, <1>9 DEF Tick, ApprovalsTyped, Spent
  <2> QED
    BY <2>1, <2>2, Untouched
<1>10. CASE UNCHANGED <<approvals, exports, req>>
  BY <1>1, <1>10 DEF StillReading, Reading
<1> QED
  BY <1>2, <1>3, <1>4, <1>5, <1>6, <1>7, <1>8, <1>9, <1>10
     DEF Next, vars, history, TouchSession, SetTOTP, SetRequired

\* Every approval of a second administrator lets out at most one archive, for
\* any number of concurrent exports, changes of the setting and restarts of
\* the clock.
THEOREM ApprovalOnce == Spec => []OneExportPerApproval
<1>1. TypeOK /\ ApprovalsOK => OneExportPerApproval
  BY DEF TypeOK, ApprovalsTyped, ApprovalsOK, OneExportPerApproval, Spent
<1> QED
  BY TypeCorrect, ApprovalsInit, ApprovalsKept, <1>1, PTL DEF Spec

-----------------------------------------------------------------------------
\* At first no session is verified and nothing is locked.
LEMMA LockInit == Init => LockOK
  BY LockAssumption DEF Init, LockOK, Outlasted, NoFailure, NoCopy

\* Time takes as much from an assertion as from the lock that outlasts it.
LEMMA OutlastedAges ==
  ASSUME NEW f \in Failure, NEW left \in Assertions, NEW since, Outlasted(f, left, since)
  PROVE  Outlasted(AgedFailure(f), AgedAssertions(left), since)
<1>1. AgedFailure(f).until = Down(f.until, -MaxLag) /\ \A s \in Sessions : AgedAssertions(left)[s] = Down(left[s], 0)
  BY DEF AgedFailure, AgedAssertions
<1>2. f.until \in Int /\ f.until >= -MaxLag /\ \A s \in Sessions : left[s] \in Int
  BY LockAssumption DEF Failure, Assertions
<1> QED
  BY <1>1, <1>2, LockAssumption DEF Outlasted, Down

\* A copy is loaded from a document that obeys the rule.
LEMMA CopyOutlasted ==
  ASSUME LockOK, UNCHANGED loaded \/ Overtakes
  PROVE  loaded'.on => Outlasted(loaded'.failure, loaded'.assertions, loaded'.fresh)
  BY DEF LockOK, Overtakes

\* A lock outlasts every assertion: FirstLock covers AssertionTTL and the time
\* a request may lag behind. A grant happens outside of every lock.
LEMMA LockKept == TypeOK /\ LockOK /\ [Next]_vars => LockOK'
<1> SUFFICES ASSUME TypeOK, LockOK, [Next]_vars PROVE LockOK'
  OBVIOUS
<1>0. StepUpTyped /\ RequestsTyped
  BY DEF TypeOK
<1>1. ASSUME NEW p \in Requests, RecordStepUpFailure(p) PROVE LockOK'
  <2> DEFINE age == req[p].age
  <2>1. age \in 0..MaxLag
    BY <1>0 DEF RequestsTyped, RequestRecord
  <2>2. CASE Locked(age)
    BY <1>1, <2>2 DEF RecordStepUpFailure, LockOK
  <2>3. CASE ~Locked(age)
    <3>1. /\ failure' = Counted(failure, age) /\ UNCHANGED assertions
          /\ failure'.count >= FirstLockFailures \/ UNCHANGED <<fresh, revived>>
      BY <1>1, <2>3 DEF RecordStepUpFailure
    <3>2. loaded'.on => Outlasted(loaded'.failure, loaded'.assertions, loaded'.fresh)
      BY <1>1, <2>3, CopyOutlasted DEF RecordStepUpFailure
    <3> HIDE DEF age
    <3> DEFINE n == (IF failure.last - age > Hour THEN 0 ELSE failure.count) + 1
    <3>3. /\ failure'.count = IF n > SecondLockFails THEN SecondLockFails ELSE n
          /\ failure'.until = IF n >= SecondLockFails THEN Hour - age
                              ELSE IF n >= FirstLockFailures THEN FirstLock - age ELSE failure.until
      BY <3>1 DEF Counted
    <3>4. n \in Nat
      BY <1>0 DEF StepUpTyped, Failure
    <3> HIDE DEF n
    <3>5. Outlasted(failure, assertions, fresh \cup revived)'
      <4>1. CASE failure'.count >= FirstLockFailures
        <5>1. failure'.until \in Int /\ failure'.until >= FirstLock - age
          BY <2>1, <3>3, <3>4, <4>1, LockAssumption
        <5>2. \A s \in Sessions : assertions[s] \in Int /\ assertions[s] <= AssertionTTL
          BY <1>0 DEF StepUpTyped, Assertions
        <5> QED
          BY <2>1, <3>1, <5>1, <5>2, LockAssumption DEF Outlasted
      <4>2. CASE ~(failure'.count >= FirstLockFailures)
        <5>1. failure'.until = failure.until
          BY <3>3, <3>4, <4>2, LockAssumption
        <5> QED
          BY <3>1, <4>2, <5>1 DEF LockOK, Outlasted
      <4> QED
        BY <4>1, <4>2
    <3> QED
      BY <3>2, <3>5 DEF LockOK
  <2> QED
    BY <2>2, <2>3
<1>2. ASSUME NEW p \in Requests, GrantStepUp(p) PROVE LockOK'
  <2> DEFINE s == req[p].session
             age == req[p].age
  <2>1. age \in 0..MaxLag /\ s \in Sessions
    BY <1>0, <1>2 DEF GrantStepUp, At, RequestsTyped, RequestRecord, Steps
  <2>2. CASE Locked(age)
    BY <1>2, <2>2 DEF GrantStepUp, LockOK
  <2>3. CASE ~Locked(age)
    <3>1. failure.until <= -age /\ ~Locked(0)
      BY <1>0, <2>1, <2>3, LockAssumption DEF Locked, StepUpTyped, Failure
    <3>2. /\ failure' = NoFailure /\ fresh' = fresh \cup {s} /\ revived' = revived \ {s}
          /\ assertions' = [assertions EXCEPT ![s] = AssertionTTL - age]
      BY <1>2, <2>3, <3>1 DEF GrantStepUp
    <3>3. loaded'.on => Outlasted(loaded'.failure, loaded'.assertions, loaded'.fresh)
      BY <1>2, <2>3, CopyOutlasted DEF GrantStepUp
    <3> HIDE DEF s, age
    <3>4. ASSUME NEW x \in Sessions \ (fresh \cup {s} \cup revived) PROVE assertions'[x] <= 0
      <4>1. assertions'[x] = assertions[x] /\ assertions[x] \in Int /\ failure.until \in Int
        BY <1>0, <2>1, <3>2, <3>4 DEF StepUpTyped, Assertions, Failure
      <4>2. assertions[x] <= 0 \/ assertions[x] <= failure.until
        BY <3>4 DEF LockOK, Outlasted
      <4> QED
        BY <2>1, <3>1, <4>1, <4>2, LockAssumption
    <3> QED
      BY <3>2, <3>3, <3>4 DEF LockOK, Outlasted
  <2> QED
    BY <2>2, <2>3
<1>3. CASE Tick
  <2>1. UNCHANGED <<fresh, revived>> /\ failure' = AgedFailure(failure) /\ assertions' = AgedAssertions(assertions)
    BY <1>3 DEF Tick, history
  <2>2. failure \in Failure /\ assertions \in Assertions /\ loaded.failure \in Failure /\ loaded.assertions \in Assertions
    BY <1>0 DEF StepUpTyped, Copy
  <2>3. Outlasted(failure', assertions', fresh' \cup revived')
    BY <2>1, <2>2, OutlastedAges DEF LockOK
  <2>4. \/ UNCHANGED loaded
        \/ /\ loaded.on /\ loaded'.failure = AgedFailure(loaded.failure)
           /\ loaded'.assertions = AgedAssertions(loaded.assertions) /\ loaded'.fresh = loaded.fresh
    BY <1>0, <1>3 DEF Tick, StepUpTyped, Copy
  <2>5. loaded'.on => Outlasted(loaded'.failure, loaded'.assertions, loaded'.fresh)
    BY <2>2, <2>4, OutlastedAges DEF LockOK
  <2> QED
    BY <2>3, <2>5 DEF LockOK
<1>4. CASE TouchSession
  BY <1>4 DEF TouchSession, LockOK, Outlasted, NoCopy
<1>5. CASE UNCHANGED <<failure, assertions, loaded, fresh, revived>>
  BY <1>5 DEF LockOK
<1> QED
  BY <1>1, <1>2, <1>3, <1>4, <1>5 DEF Next, vars, history, BeginStepUp, RequireStepUp, CheckCode, Consume,
     Answer, Again, Request, Approve, SetTOTP, SetRequired

\* Only RequireStepUp lets a request in, and what it accepts is verified.
LEMMA EntryVerified ==
  ASSUME TypeOK, LockOK, [Next]_vars, NEW p \in Requests,
         At(p, "idle"), req'[p].pc = "consume", totp
  PROVE  req'[p].session \in fresh \cup revived
<1>0. StepUpTyped /\ RequestsTyped
  BY DEF TypeOK
<1>1. ASSUME NEW q \in Requests, NEW s \in Sessions, NEW a \in Approvals \cup {NoApproval},
             RequireStepUp(q, s, a)
      PROVE  req'[p].session \in fresh \cup revived
  <2>1. CASE Verified(s) /\ req' = [req EXCEPT ![q] = Starting("consume", s, a)]
    <3>1. s \in fresh \cup revived
      <4>1. assertions[s] \in Int /\ failure.until \in Int /\ assertions[s] > 0 /\ ~(failure.until > 0)
        BY <1>0, <2>1 DEF Verified, Locked, StepUpTyped, Assertions, Failure
      <4> QED
        BY <4>1 DEF LockOK, Outlasted
    <3>2. p = q /\ req'[p] = Starting("consume", s, a)
      BY <1>0, <2>1 DEF RequestsTyped, At
    <3> QED
      BY <3>1, <3>2 DEF Starting
  <2>2. CASE Done(q)
    BY <1>0, <2>2 DEF Done, Over, Starting, RequestsTyped, At
  <2> QED
    BY <1>1, <2>1, <2>2 DEF RequireStepUp
<1>2. ASSUME NEW q \in Requests, NEW r, req' = [req EXCEPT ![q] = r], r.pc # "consume" PROVE FALSE
  BY <1>0, <1>2 DEF RequestsTyped, At
<1>3. ASSUME NEW q \in Requests, Done(q) PROVE FALSE
  <2>1. Over.pc # "consume"
    BY DEF Over, Starting
  <2> QED
    BY <1>2, <1>3, <2>1 DEF Done
<1>4. ASSUME NEW q \in Requests, NEW s \in Sessions, BeginStepUp(q, s) PROVE FALSE
  <2>1. Starting("check", s, NoApproval).pc # "consume"
    BY DEF Starting
  <2> QED
    BY <1>2, <1>3, <1>4, <2>1 DEF BeginStepUp
<1>5. ASSUME NEW q \in Requests, NEW to \in {"grant", "fail", "read"}, Goto(q, to) PROVE FALSE
  BY <1>0, <1>5 DEF Goto, RequestsTyped, RequestRecord, At
<1>6. ASSUME NEW q \in Requests, CheckCode(q) \/ RecordStepUpFailure(q) \/ GrantStepUp(q) \/ Answer(q)
      PROVE  FALSE
  BY <1>3, <1>5, <1>6 DEF CheckCode, RecordStepUpFailure, GrantStepUp, Answer
<1>7. ASSUME NEW q \in Requests, Consume(q) PROVE FALSE
  <2>1. CASE req' = [req EXCEPT ![q].pc = "read", ![q].approval = NoApproval]
    BY <1>0, <2>1 DEF RequestsTyped, RequestRecord, At
  <2> QED
    BY <1>3, <1>5, <1>7, <2>1 DEF Consume
<1>8. ASSUME NEW q \in Requests, Again(q) PROVE FALSE
  <2>1. Idle.pc # "consume"
    BY DEF Idle, Starting
  <2> QED
    BY <1>2, <1>8, <2>1 DEF Again
<1>9. CASE Tick
  BY <1>0, <1>9 DEF Tick, RequestsTyped, RequestRecord, At
<1>10. CASE UNCHANGED req
  BY <1>10 DEF At
<1> QED
  BY <1>1, <1>4, <1>6, <1>7, <1>8, <1>9, <1>10
     DEF Next, vars, Request, Approve, TouchSession, SetTOTP, SetRequired

\* Without PostgreSQL no copy is overtaken and no lock-out undone.
NoneRevived == ~Postgres => ~loaded.on /\ revived = {}
LEMMA NoneRevivedKept == NoneRevived /\ [Next]_vars => NoneRevived'
<1> SUFFICES ASSUME NoneRevived, ~Postgres, [Next]_vars PROVE ~loaded'.on /\ revived' = {}
  BY DEF NoneRevived
<1>0. ~loaded.on /\ revived = {}
  BY DEF NoneRevived
<1>1. ASSUME NEW p \in Requests, RecordStepUpFailure(p) \/ GrantStepUp(p) PROVE ~loaded'.on /\ revived' = {}
  <2>1. UNCHANGED loaded
    BY <1>1 DEF RecordStepUpFailure, GrantStepUp, Overtakes
  <2>2. revived' \subseteq revived
    BY <1>1 DEF RecordStepUpFailure, GrantStepUp
  <2> QED
    BY <1>0, <2>1, <2>2
<1>2. CASE UNCHANGED <<loaded, revived>>
  BY <1>0, <1>2
<1> QED
  BY <1>0, <1>1, <1>2 DEF Next, vars, history, BeginStepUp, RequireStepUp, CheckCode, Consume,
     TouchSession, Answer, Again, Request, Approve, Tick, SetTOTP, SetRequired

\* An export of a user with TOTP starts only in a session that verified a code
\* since the last lock-out that no late save has undone, for all lags, lock
\* times and numbers of requests; without PostgreSQL none is ever undone.
THEOREM StepUpBinds == Spec => VerifiedSinceLock /\ [](~Postgres => revived = {})
<1>1. TypeOK /\ LockOK /\ [Next]_vars =>
      [\A p \in Requests : At(p, "idle") /\ req'[p].pc = "consume" /\ totp => req'[p].session \in fresh \cup revived]_vars
  BY EntryVerified
<1>2. Spec => [](TypeOK /\ LockOK)
  BY TypeCorrect, LockInit, LockKept, PTL DEF Spec
<1>3. Init => NoneRevived
  BY DEF Init, NoneRevived, NoCopy
<1>4. NoneRevived => (~Postgres => revived = {})
  BY DEF NoneRevived
<1> QED
  BY <1>1, <1>2, <1>3, <1>4, NoneRevivedKept, PTL DEF Spec, VerifiedSinceLock
=============================================================================
