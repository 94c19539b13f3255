------------------------ MODULE DistributedLock_proofs ------------------------
(***************************************************************************)
(* Type correctness, the token check and mutual exclusion of               *)
(* DistributedLock, for any number of calls.  Exclusion needs a refresher  *)
(* that is never so late that the lease runs out.  It then holds under     *)
(* every fault for the operations whose context is live, and for all       *)
(* operations when no refresh fails and no request is cancelled.           *)
(***************************************************************************)
EXTENDS DistributedLock, TLAPS

\* Spec => OneLiveAtATime is not inductive: what an operation with a live context
\* knows is that its call is still waiting for it, that the key holds its
\* token, and that the time the lease has lost is no more than the age of the
\* last refresh.
Holds(c) ==
  /\ pc[c] = "running"
  /\ refresher[c] = "on"
  /\ lease.owner = c
  /\ lease.left + age[c] >= TTL

Exclusive ==
  /\ \A c \in Call : op[c] = "running" /\ ~cancelled[c] => Holds(c)
  /\ \A c \in Call : pc[c] = "waiting" => /\ op[c] # "running"
                                          /\ refresher[c] = "none"

\* Nothing has cancelled an operation or a waiting call: every operation is live.
Undisturbed ==
  \A c \in Call : op[c] = "running" \/ pc[c] = "waiting" => ~cancelled[c]

\* A key that is set has time left.
LeaseAlive == lease.owner # Free => lease.left >= 1

\* The types are those of the initial state.
LEMMA TypeInit == Init => TypeOK
  BY LockAssumption DEF Init, TypeOK, NoLease

\* Cancelling operationCtx keeps its type.
LEMMA CancelTyped ==
  ASSUME NEW c \in Call, cancelled \in [Call -> BOOLEAN],
         \/ cancelled' = [cancelled EXCEPT ![c] = TRUE]
         \/ UNCHANGED cancelled
  PROVE  cancelled' \in [Call -> BOOLEAN]
  BY Zenon

\* Each step keeps the types; Tick needs its guard on age and on waited.
LEMMA TypeStep == TypeOK /\ [Next]_vars => TypeOK'
<1> SUFFICES ASSUME TypeOK, [Next]_vars PROVE TypeOK'
  OBVIOUS
<1> USE LockAssumption DEF TypeOK
<1>1. ASSUME NEW c \in Call, Start(c) PROVE TypeOK'
  BY <1>1 DEF Start
<1>2. ASSUME NEW c \in Call, Acquire(c) PROVE TypeOK'
  BY <1>2 DEF Acquire, LeaseOf
<1>3. ASSUME NEW c \in Call, GiveUp(c) \/ Abandon(c) PROVE TypeOK'
  BY <1>3 DEF GiveUp, Abandon, clocks
<1>4. ASSUME NEW c \in Call, Refresh(c) PROVE TypeOK'
  <2>1. cancelled' \in [Call -> BOOLEAN]
    BY <1>4, CancelTyped DEF Refresh, goroutines
  <2>2. /\ lease' \in [owner : Call \cup {Free}, left : 0..TTL]
        /\ refresher' \in [Call -> {"none", "on", "stopped", "failed"}]
        /\ age' \in [Call -> 0..(1 + MaxDelay)]
    BY <1>4 DEF Refresh, LeaseOf, goroutines
  <2>3. UNCHANGED <<pc, op, waited>>
    BY <1>4 DEF Refresh, goroutines
  <2> QED
    BY <2>1, <2>2, <2>3
<1>5. ASSUME NEW c \in Call, StopRefresher(c) \/ EndOperation(c) PROVE TypeOK'
  BY <1>5 DEF StopRefresher, EndOperation, clocks
<1>6. ASSUME NEW c \in Call, CancelRefresher(c) \/ Disconnect(c) PROVE TypeOK'
  <2>1. cancelled' \in [Call -> BOOLEAN]
    BY <1>6, CancelTyped DEF CancelRefresher, Disconnect
  <2>2. UNCHANGED <<lease, pc, op, refresher, age, waited>>
    BY <1>6 DEF CancelRefresher, Disconnect, clocks
  <2> QED
    BY <2>1, <2>2
<1>7. ASSUME NEW c \in Call, ReturnLeaseLost(c) \/ ReturnResult(c) PROVE TypeOK'
  BY <1>7 DEF ReturnLeaseLost, ReturnResult, Release, NoLease, clocks
<1>8. ASSUME NEW c \in Call, AcquireError(c) \/ Crash(c) PROVE TypeOK'
  BY <1>8 DEF AcquireError, Crash, LeaseOf, clocks
<1>9. ASSUME NEW c \in Call, RefreshError(c) PROVE TypeOK'
  <2>1. cancelled' \in [Call -> BOOLEAN]
    BY <1>9, CancelTyped DEF RefreshError
  <2>2. /\ lease' \in [owner : Call \cup {Free}, left : 0..TTL]
        /\ refresher' \in [Call -> {"none", "on", "stopped", "failed"}]
    BY <1>9 DEF RefreshError, LeaseOf
  <2>3. UNCHANGED <<pc, op, age, waited>>
    BY <1>9 DEF RefreshError, clocks
  <2> QED
    BY <2>1, <2>2, <2>3
<1>10. ASSUME Tick PROVE TypeOK'
  BY <1>10 DEF Tick, NoLease, goroutines
<1>11. ASSUME UNCHANGED vars PROVE TypeOK'
  BY <1>11 DEF vars, goroutines, clocks
<1> QED
  BY <1>1, <1>2, <1>3, <1>4, <1>5, <1>6, <1>7, <1>8, <1>9, <1>10, <1>11
     DEF Next, Step, Fault

\* Every goroutine of every call, the key and the clocks keep their types.
THEOREM TypeCorrect == Spec => []TypeOK
  BY TypeInit, TypeStep, PTL DEF Spec

\* No step leaves a key set without time to live.
LEMMA LeaseAliveStep == TypeOK /\ LeaseAlive /\ [Next]_vars => LeaseAlive'
<1> SUFFICES ASSUME TypeOK, LeaseAlive, [Next]_vars PROVE LeaseAlive'
  OBVIOUS
<1> USE LockAssumption DEF TypeOK, LeaseAlive
<1>1. CASE UNCHANGED lease
  BY <1>1
<1>2. ASSUME NEW c \in Call, Acquire(c) \/ AcquireError(c) PROVE LeaseAlive'
  BY <1>2 DEF Acquire, AcquireError, LeaseOf
<1>3. ASSUME NEW c \in Call, Refresh(c) \/ RefreshError(c) PROVE LeaseAlive'
  BY <1>3 DEF Refresh, RefreshError, LeaseOf
<1>4. ASSUME NEW c \in Call, ReturnLeaseLost(c) \/ ReturnResult(c) PROVE LeaseAlive'
  BY <1>4 DEF ReturnLeaseLost, ReturnResult, Release, NoLease
<1>5. ASSUME Tick PROVE LeaseAlive'
  BY <1>5 DEF Tick, NoLease
<1>6. ASSUME NEW c \in Call, Start(c) \/ GiveUp(c) \/ Abandon(c) \/ StopRefresher(c)
             \/ EndOperation(c) \/ CancelRefresher(c) \/ Disconnect(c) \/ Crash(c)
      PROVE UNCHANGED lease
  BY <1>6 DEF Start, GiveUp, Abandon, StopRefresher, EndOperation, CancelRefresher,
              Disconnect, Crash
<1>7. UNCHANGED vars => UNCHANGED lease
  BY DEF vars
<1> QED
  BY <1>1, <1>2, <1>3, <1>4, <1>5, <1>6, <1>7 DEF Next, Step, Fault

\* A lease ends by its time running out or by its own call returning: the
\* scripts of Refresh and Release compare the token, so no late call of
\* another holder touches it, whatever faults occur.
THEOREM TokenProtects == Spec => OwnLeaseOnly
<1> DEFINE Ends == \A c \in Call :
       lease.owner = c /\ lease'.owner # c
       => lease.left = 1 \/ (pc[c] = "running" /\ pc'[c] = "done")
<1>1. Init => LeaseAlive
  BY DEF Init, LeaseAlive, NoLease
<1>2. TypeOK /\ LeaseAlive /\ [Next]_vars => [Ends]_vars
  <2> SUFFICES ASSUME TypeOK, LeaseAlive, Next PROVE Ends
    OBVIOUS
  <2> USE LockAssumption DEF TypeOK, LeaseAlive
  <2>1. CASE UNCHANGED lease
    BY <2>1
  <2>2. ASSUME NEW c \in Call, Acquire(c) \/ AcquireError(c) PROVE Ends
    BY <2>2 DEF Acquire, AcquireError
  <2>3. ASSUME NEW c \in Call, Refresh(c) \/ RefreshError(c) PROVE Ends
    BY <2>3 DEF Refresh, RefreshError, LeaseOf
  <2>4. ASSUME NEW c \in Call, ReturnLeaseLost(c) \/ ReturnResult(c) PROVE Ends
    BY <2>4 DEF ReturnLeaseLost, ReturnResult, Release, NoLease
  <2>5. ASSUME Tick PROVE Ends
    BY <2>5 DEF Tick, NoLease
  <2>6. ASSUME NEW c \in Call, Start(c) \/ GiveUp(c) \/ Abandon(c) \/ StopRefresher(c)
               \/ EndOperation(c) \/ CancelRefresher(c) \/ Disconnect(c) \/ Crash(c)
        PROVE UNCHANGED lease
    BY <2>6 DEF Start, GiveUp, Abandon, StopRefresher, EndOperation, CancelRefresher,
                Disconnect, Crash
  <2> QED
    BY <2>1, <2>2, <2>3, <2>4, <2>5, <2>6 DEF Next, Step, Fault
<1> QED
  BY <1>1, <1>2, LeaseAliveStep, TypeCorrect, PTL DEF Spec, OwnLeaseOnly

\* Cancelling one call leaves the contexts of the others alone.
LEMMA CancelledOthers ==
  ASSUME NEW c \in Call, cancelled \in [Call -> BOOLEAN],
         cancelled' = [cancelled EXCEPT ![c] = TRUE]
  PROVE  cancelled'[c] /\ \A d \in Call : d # c => cancelled'[d] = cancelled[d]
  BY Zenon

\* A refresh that keeps its deadline: then an operation with a live context
\* holds the lease at every step, whatever fails.
LEMMA ExclusiveStep ==
  ASSUME MaxDelay + 1 < TTL, TypeOK, Exclusive, [Next]_vars
  PROVE  Exclusive'
<1> USE LockAssumption DEF TypeOK, Exclusive, Holds
<1>1. ASSUME NEW c \in Call, Start(c) PROVE Exclusive'
  BY <1>1 DEF Start
<1>2. ASSUME NEW c \in Call, Acquire(c) PROVE Exclusive'
  BY <1>2 DEF Acquire, LeaseOf
<1>3. ASSUME NEW c \in Call, GiveUp(c) \/ Abandon(c) PROVE Exclusive'
  BY <1>3 DEF GiveUp, Abandon, clocks
<1>4. ASSUME NEW c \in Call, Refresh(c) PROVE Exclusive'
  <2>1. CASE lease.owner = c
    BY <1>4, <2>1 DEF Refresh, LeaseOf, goroutines
  <2>2. CASE lease.owner # c
    <3>1. ~(op[c] = "running" /\ ~cancelled[c]) /\ pc[c] # "waiting"
      BY <1>4, <2>2 DEF Refresh
    <3>2. cancelled'[c] /\ \A d \in Call : d # c => cancelled'[d] = cancelled[d]
      BY <1>4, <2>2, CancelledOthers DEF Refresh
    <3> QED
      BY <1>4, <2>2, <3>1, <3>2 DEF Refresh
  <2> QED
    BY <2>1, <2>2
<1>5. ASSUME NEW c \in Call, StopRefresher(c) \/ EndOperation(c)
      PROVE Exclusive'
  BY <1>5 DEF StopRefresher, EndOperation, clocks
<1>6. ASSUME NEW c \in Call, CancelRefresher(c) \/ Disconnect(c)
      PROVE Exclusive'
  <2>1. cancelled'[c] /\ \A d \in Call : d # c => cancelled'[d] = cancelled[d]
    BY <1>6, CancelledOthers DEF CancelRefresher, Disconnect
  <2>2. UNCHANGED <<lease, pc, op, refresher, age>>
    BY <1>6 DEF CancelRefresher, Disconnect, clocks
  <2> QED
    BY <2>1, <2>2
<1>7. ASSUME NEW c \in Call, RefreshError(c) PROVE Exclusive'
  <2>1. cancelled'[c] /\ \A d \in Call : d # c => cancelled'[d] = cancelled[d]
    BY <1>7, CancelledOthers DEF RefreshError
  <2>2. pc[c] # "waiting"
    BY <1>7 DEF RefreshError
  <2>3. lease'.owner = lease.owner /\ lease'.left >= lease.left
    BY <1>7 DEF RefreshError, LeaseOf
  <2> QED
    BY <1>7, <2>1, <2>2, <2>3 DEF RefreshError, clocks
<1>8. ASSUME NEW c \in Call, ReturnLeaseLost(c) \/ ReturnResult(c) PROVE Exclusive'
  BY <1>8 DEF ReturnLeaseLost, ReturnResult, Release, NoLease, clocks
<1>9. ASSUME NEW c \in Call, AcquireError(c) PROVE Exclusive'
  BY <1>9 DEF AcquireError, LeaseOf, clocks
<1>10. ASSUME NEW c \in Call, Crash(c) PROVE Exclusive'
  BY <1>10 DEF Crash, clocks
<1>11. ASSUME Tick PROVE Exclusive'
  <2>1. ASSUME NEW c \in Call, op'[c] = "running", ~cancelled'[c] PROVE Holds(c)'
    <3>1. op[c] = "running" /\ Holds(c)
      BY <1>11, <2>1 DEF Tick, goroutines
    <3>2. age[c] <= MaxDelay /\ lease.left > 1
      BY <1>11, <3>1 DEF Tick
    <3>3. lease'.owner = c /\ lease'.left = lease.left - 1 /\ age'[c] = age[c] + 1
      BY <1>11, <3>1, <3>2 DEF Tick
    <3> QED
      BY <1>11, <3>1, <3>2, <3>3 DEF Tick, goroutines
  <2> QED
    BY <1>11, <2>1 DEF Tick, goroutines
<1>12. ASSUME UNCHANGED vars PROVE Exclusive'
  BY <1>12 DEF vars, goroutines, clocks
<1> QED
  BY <1>1, <1>2, <1>3, <1>4, <1>5, <1>6, <1>7, <1>8, <1>9, <1>10, <1>11, <1>12
     DEF Next, Step, Fault

\* Under every fault, a step of the lock is a step of the abstract lock on the
\* operations whose context is live, or leaves them as they are.
LEMMA LeasedStep ==
  ASSUME TypeOK, Exclusive, [Next]_vars
  PROVE  [Leased!Next]_{c \in Call : op[c] = "running" /\ ~cancelled[c]}
<1> DEFINE live == {c \in Call : op[c] = "running" /\ ~cancelled[c]}
<1> USE LockAssumption DEF TypeOK
<1>1. ASSUME NEW c \in live, NEW d \in live PROVE c = d
  BY DEF Exclusive, Holds
<1>2. ASSUME NEW c \in Call, live' = live \ {c} PROVE Leased!Leave(c) \/ UNCHANGED live
  <2>1. CASE c \in live
    <3>1. live = {c} /\ live' = {}
      BY <1>1, <1>2, <2>1
    <3> QED
      BY <3>1 DEF Leased!Leave
  <2>2. CASE c \notin live
    BY <1>2, <2>2
  <2> QED
    BY <2>1, <2>2
<1>3. ASSUME NEW c \in Call, Acquire(c) PROVE Leased!Enter(c) \/ UNCHANGED live
  <2>1. live = {}
    BY <1>3 DEF Acquire, Exclusive, Holds
  <2>2. live' = {} \/ live' = {c}
    BY <1>3, <2>1 DEF Acquire
  <2> QED
    BY <2>1, <2>2 DEF Leased!Enter
<1>4. ASSUME NEW c \in Call, EndOperation(c) \/ Crash(c) PROVE live' = live \ {c}
  BY <1>4 DEF EndOperation, Crash
<1>5. ASSUME NEW c \in Call, cancelled' = [cancelled EXCEPT ![c] = TRUE], UNCHANGED op
      PROVE live' = live \ {c}
  <2>1. cancelled'[c] /\ \A d \in Call : d # c => cancelled'[d] = cancelled[d]
    BY <1>5, CancelledOthers
  <2> QED
    BY <1>5, <2>1
<1>6. ASSUME NEW c \in Call, CancelRefresher(c) \/ Disconnect(c) \/ RefreshError(c)
      PROVE live' = live \ {c}
  BY <1>5, <1>6 DEF CancelRefresher, Disconnect, RefreshError
<1>7. CASE UNCHANGED <<op, cancelled>>
  <2>1. live' = live
    BY <1>7
  <2> QED
    BY <2>1
<1>8. ASSUME NEW c \in Call, Refresh(c) PROVE live' = live \ {c} \/ UNCHANGED <<op, cancelled>>
  BY <1>5, <1>8 DEF Refresh, goroutines
<1>9. ASSUME NEW c \in Call, Start(c) PROVE UNCHANGED live
  BY <1>9 DEF Start
<1>10. ASSUME NEW c \in Call, GiveUp(c) \/ Abandon(c) \/ StopRefresher(c)
              \/ ReturnLeaseLost(c) \/ ReturnResult(c) \/ AcquireError(c)
       PROVE UNCHANGED <<op, cancelled>>
  BY <1>10 DEF GiveUp, Abandon, StopRefresher, ReturnLeaseLost, ReturnResult, AcquireError
<1>11. Tick \/ UNCHANGED vars => UNCHANGED <<op, cancelled>>
  BY DEF Tick, vars, goroutines
<1> QED
  BY <1>2, <1>3, <1>4, <1>6, <1>7, <1>8, <1>9, <1>10, <1>11
     DEF Next, Step, Fault, Leased!Next

\* The lease lock implements the abstract lock for the operations whose context
\* is live: crashes, lost replies, failed refreshes and cancelled requests
\* included, a call that may lose its lease has cancelled its operation before
\* another call enters, as long as a refresh is late by less than the lease
\* allows.
THEOREM LiveExclusion ==
  ASSUME MaxDelay + 1 < TTL
  PROVE  Spec => OneLiveAtATime
<1>1. Init => Exclusive /\ Leased!Init
  BY DEF Init, Exclusive, Leased!Init
<1>2. TypeOK /\ Exclusive /\ [Next]_vars => Exclusive'
  BY ExclusiveStep
<1>3. TypeOK /\ Exclusive /\ [Next]_vars
      => [Leased!Next]_{c \in Call : op[c] = "running" /\ ~cancelled[c]}
  BY LeasedStep
<1> QED
  BY <1>1, <1>2, <1>3, TypeCorrect, PTL DEF Spec, OneLiveAtATime, Leased!Spec

\* With neither failing refreshes nor cancelled requests no operation is told to
\* stop before it has ended.
LEMMA UndisturbedStep ==
  ASSUME Faults \subseteq {"crash", "redis"}, TypeOK, Exclusive, Undisturbed, [Next]_vars
  PROVE  Undisturbed'
<1> USE LockAssumption DEF TypeOK, Undisturbed
<1>1. ASSUME NEW c \in Call, Start(c) PROVE Undisturbed'
  BY <1>1 DEF Start
<1>2. ASSUME NEW c \in Call, Acquire(c) PROVE Undisturbed'
  BY <1>2 DEF Acquire
<1>3. ASSUME NEW c \in Call, Refresh(c) PROVE Undisturbed'
  <2>1. CASE lease.owner = c
    BY <1>3, <2>1 DEF Refresh, goroutines
  <2>2. CASE lease.owner # c
    <3>1. op[c] # "running" /\ pc[c] # "waiting"
      BY <1>3, <2>2 DEF Refresh, Exclusive, Holds
    <3>2. \A d \in Call : d # c => cancelled'[d] = cancelled[d]
      BY <1>3, <2>2, CancelledOthers DEF Refresh
    <3> QED
      BY <1>3, <2>2, <3>1, <3>2 DEF Refresh
  <2> QED
    BY <2>1, <2>2
<1>4. ASSUME NEW c \in Call, CancelRefresher(c) PROVE Undisturbed'
  <2>1. \A d \in Call : d # c => cancelled'[d] = cancelled[d]
    BY <1>4, CancelledOthers DEF CancelRefresher
  <2> QED
    BY <1>4, <2>1 DEF CancelRefresher
<1>5. ASSUME NEW c \in Call, RefreshError(c) \/ Disconnect(c) PROVE FALSE
  BY <1>5 DEF RefreshError, Disconnect
<1>6. ASSUME NEW c \in Call, GiveUp(c) \/ Abandon(c) \/ StopRefresher(c) \/ EndOperation(c)
             \/ ReturnLeaseLost(c) \/ ReturnResult(c) \/ AcquireError(c) \/ Crash(c)
      PROVE Undisturbed'
  BY <1>6 DEF GiveUp, Abandon, StopRefresher, EndOperation, ReturnLeaseLost, ReturnResult,
              AcquireError, Crash
<1>7. Tick \/ UNCHANGED vars => Undisturbed'
  BY DEF Tick, vars, goroutines
<1> QED
  BY <1>1, <1>2, <1>3, <1>4, <1>5, <1>6, <1>7 DEF Next, Step, Fault

\* A step of the undisturbed lock is a step of the abstract lock or leaves it
\* unchanged.
LEMMA AbstractStep ==
  ASSUME TypeOK, Exclusive, Undisturbed, [Next]_vars
  PROVE  [Abstract!Next]_{c \in Call : op[c] = "running"}
<1> DEFINE inside == {c \in Call : op[c] = "running"}
<1> USE LockAssumption DEF TypeOK, Exclusive, Undisturbed, Holds
<1>1. CASE UNCHANGED op
  <2>1. inside' = inside
    BY <1>1
  <2> QED
    BY <2>1
<1>2. ASSUME NEW c \in Call, Acquire(c) PROVE Abstract!Enter(c)
  <2>1. inside = {} /\ inside' = {c}
    BY <1>2 DEF Acquire
  <2> QED
    BY <2>1 DEF Abstract!Enter
<1>3. ASSUME NEW c \in Call, op[c] = "running", op' = [op EXCEPT ![c] = "ended"]
      PROVE Abstract!Leave(c)
  <2>1. inside = {c} /\ inside' = {}
    BY <1>3
  <2> QED
    BY <2>1 DEF Abstract!Leave
<1>4. ASSUME NEW c \in Call, EndOperation(c) PROVE Abstract!Leave(c)
  BY <1>3, <1>4 DEF EndOperation
<1>5. ASSUME NEW c \in Call, Crash(c) PROVE Abstract!Leave(c) \/ UNCHANGED inside
  <2>1. CASE op[c] = "running"
    BY <1>3, <1>5, <2>1 DEF Crash
  <2>2. CASE op[c] # "running"
    BY <1>5, <2>2 DEF Crash
  <2> QED
    BY <2>1, <2>2
<1>6. ASSUME NEW c \in Call, Start(c) PROVE UNCHANGED inside
  BY <1>6 DEF Start
<1>7. ASSUME NEW c \in Call, GiveUp(c) \/ Abandon(c) \/ Refresh(c) \/ StopRefresher(c)
             \/ CancelRefresher(c) \/ ReturnLeaseLost(c) \/ ReturnResult(c)
             \/ AcquireError(c) \/ RefreshError(c) \/ Disconnect(c)
      PROVE UNCHANGED op
  BY <1>7 DEF GiveUp, Abandon, Refresh, StopRefresher, CancelRefresher, ReturnLeaseLost,
              ReturnResult, AcquireError, RefreshError, Disconnect, goroutines
<1>8. Tick \/ UNCHANGED vars => UNCHANGED op
  BY DEF Tick, vars, goroutines
<1> QED
  BY <1>1, <1>2, <1>4, <1>5, <1>6, <1>7, <1>8 DEF Next, Step, Fault, Abstract!Next

\* The lease lock implements the abstract lock: operations under one key run
\* one at a time, although holders crash and Redis commands fail, as long as a
\* refresh is late by less than the lease allows, no refresh fails and no
\* caller cancels its request.
THEOREM Exclusion ==
  ASSUME MaxDelay + 1 < TTL, Faults \subseteq {"crash", "redis"}
  PROVE  Spec => OneAtATime
<1>1. Init => Exclusive /\ Undisturbed /\ Abstract!Init
  BY DEF Init, Exclusive, Undisturbed, Abstract!Init
<1>2. TypeOK /\ Exclusive /\ Undisturbed /\ [Next]_vars => Exclusive' /\ Undisturbed'
  BY ExclusiveStep, UndisturbedStep
<1>3. TypeOK /\ Exclusive /\ Undisturbed /\ [Next]_vars
      => [Abstract!Next]_{c \in Call : op[c] = "running"}
  BY AbstractStep
<1> QED
  BY <1>1, <1>2, <1>3, TypeCorrect, PTL DEF Spec, OneAtATime, Abstract!Spec

===============================================================================
