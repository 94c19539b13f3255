--------------------------- MODULE DistributedLock ---------------------------
(***************************************************************************)
(* RedisDistributedCoordinator.WithLock and TryRunLeader for one key       *)
(* ("ha:revision:apply", "ha:revision:compile" or a leader key), with the  *)
(* Redis lock of coordination/redis.  A call takes a lease (SET NX PX with *)
(* a random token), runs its operation in one goroutine and refreshes the  *)
(* lease in another every ttl/3.  Calls of one process are also serialised *)
(* by applyMu or compileMu; the calls here are those of different          *)
(* processes.                                                              *)
(*                                                                         *)
(* Time advances in ticks of ttl/3.  A token is drawn for one call, so the *)
(* call stands for its token.                                              *)
(***************************************************************************)
EXTENDS Naturals

CONSTANTS Call,      \* calls of WithLock and TryRunLeader
          Once,      \* those of them that are TryRunLeader
          Free,      \* the key is not set
          TTL,       \* lease duration in refresh periods; 3 in the code
          MaxDelay,  \* how late a refresh may be, in ticks
          MaxWait,   \* ticks acquireWithRetry keeps trying; TTL in the code
          Faults     \* "crash", "redis", "refresh" and "cancel"

ASSUME LockAssumption ==
         /\ Once \subseteq Call
         /\ Free \notin Call
         /\ TTL \in Nat \ {0}
         /\ MaxDelay \in Nat
         /\ MaxWait \in Nat
         /\ Faults \subseteq {"crash", "redis", "refresh", "cancel"}

VARIABLES
  lease,      \* the Redis key: its token and its time to live
  pc,         \* the caller's goroutine
  op,         \* the goroutine that runs the operation
  refresher,  \* the goroutine that refreshes the lease
  cancelled,  \* operationCtx is done
  age,        \* ticks since the lease was last set or refreshed by the call
  waited      \* ticks spent in acquireWithRetry

goroutines == <<pc, op, refresher, cancelled>>
clocks     == <<age, waited>>
vars == <<lease, goroutines, clocks>>

TypeOK ==
  /\ lease \in [owner : Call \cup {Free}, left : 0..TTL]
  /\ pc \in [Call -> {"new", "waiting", "running", "done"}]
  /\ op \in [Call -> {"none", "running", "ended"}]
  /\ refresher \in [Call -> {"none", "on", "stopped", "failed"}]
  /\ cancelled \in [Call -> BOOLEAN]
  /\ age \in [Call -> 0..(1 + MaxDelay)]
  /\ waited \in [Call -> 0..(1 + MaxWait)]

NoLease == [owner |-> Free, left |-> 0]
LeaseOf(c) == [owner |-> c, left |-> TTL]

Init ==
  /\ lease = NoLease
  /\ pc = [c \in Call |-> "new"]
  /\ op = [c \in Call |-> "none"]
  /\ refresher = [c \in Call |-> "none"]
  /\ cancelled = [c \in Call |-> FALSE]
  /\ age = [c \in Call |-> 0]
  /\ waited = [c \in Call |-> 0]

------------------------------------------------------------------------------
(***************************************************************************)
(* acquireWithRetry, and the single attempt of TryRunLeader.               *)
(***************************************************************************)

\* A call is made, the first or another one; it draws a token of its own, so
\* the name of a call is used again only when nothing is left of the last one.
Start(c) ==
  /\ pc[c] \in {"new", "done"}
  /\ op[c] # "running"
  /\ lease.owner # c
  /\ pc' = [pc EXCEPT ![c] = "waiting"]
  /\ op' = [op EXCEPT ![c] = "none"]
  /\ refresher' = [refresher EXCEPT ![c] = "none"]
  /\ cancelled' = [cancelled EXCEPT ![c] = FALSE]
  /\ age' = [age EXCEPT ![c] = 0]
  /\ waited' = [waited EXCEPT ![c] = 0]
  /\ UNCHANGED lease

\* Mutant: SET without NX.
AcquireAnyway(c) ==
  /\ pc[c] = "waiting"
  /\ lease' = LeaseOf(c)
  /\ pc' = [pc EXCEPT ![c] = "running"]
  /\ op' = [op EXCEPT ![c] = "running"]
  /\ refresher' = [refresher EXCEPT ![c] = "on"]
  /\ age' = [age EXCEPT ![c] = 0]
  /\ UNCHANGED <<cancelled, waited>>

\* SET NX PX answers OK: runWithRefreshedLock starts both goroutines.
Acquire(c) ==
  /\ pc[c] = "waiting"
  /\ lease.owner = Free
  /\ lease' = LeaseOf(c)
  /\ pc' = [pc EXCEPT ![c] = "running"]
  /\ op' = [op EXCEPT ![c] = "running"]
  /\ refresher' = [refresher EXCEPT ![c] = "on"]
  /\ age' = [age EXCEPT ![c] = 0]
  /\ UNCHANGED <<cancelled, waited>>

\* Mutant: acquireWithRetry has no deadline.
GiveUpLeader(c) ==
  /\ pc[c] = "waiting"
  /\ lease.owner # Free
  /\ c \in Once
  /\ pc' = [pc EXCEPT ![c] = "done"]
  /\ UNCHANGED <<lease, op, refresher, cancelled, clocks>>

\* SET NX finds the key, and there is no next attempt: the deadline is over, or
\* TryRunLeader skips.
GiveUp(c) ==
  /\ pc[c] = "waiting"
  /\ lease.owner # Free
  /\ c \in Once \/ waited[c] > MaxWait
  /\ pc' = [pc EXCEPT ![c] = "done"]
  /\ UNCHANGED <<lease, op, refresher, cancelled, clocks>>

\* The caller's context is done between two attempts.
Abandon(c) ==
  /\ pc[c] = "waiting"
  /\ cancelled[c]
  /\ pc' = [pc EXCEPT ![c] = "done"]
  /\ UNCHANGED <<lease, op, refresher, cancelled, clocks>>

\* The command fails on the way; Redis may have set the key all the same, and
\* nobody holds that token.
AcquireError(c) ==
  /\ "redis" \in Faults
  /\ pc[c] = "waiting"
  /\ lease' \in {lease} \cup (IF lease.owner = Free THEN {LeaseOf(c)} ELSE {})
  /\ pc' = [pc EXCEPT ![c] = "done"]
  /\ UNCHANGED <<op, refresher, cancelled, clocks>>

------------------------------------------------------------------------------
(***************************************************************************)
(* runWithRefreshedLock.                                                   *)
(***************************************************************************)

\* A tick of the refresher: the script extends the lease of this token only.
Refresh(c) ==
  /\ refresher[c] = "on"
  /\ age[c] > 0
  /\ IF lease.owner = c
     THEN /\ lease' = LeaseOf(c)
          /\ age' = [age EXCEPT ![c] = 0]
          /\ UNCHANGED goroutines
     ELSE /\ refresher' = [refresher EXCEPT ![c] = "failed"]
          /\ cancelled' = [cancelled EXCEPT ![c] = TRUE]
          /\ UNCHANGED <<lease, age, pc, op>>
  /\ UNCHANGED waited

\* Any error of the command ends the refresher, whether the script ran or not.
RefreshError(c) ==
  /\ "refresh" \in Faults
  /\ refresher[c] = "on"
  /\ age[c] > 0
  /\ lease' \in {lease} \cup (IF lease.owner = c THEN {LeaseOf(c)} ELSE {})
  /\ refresher' = [refresher EXCEPT ![c] = "failed"]
  /\ cancelled' = [cancelled EXCEPT ![c] = TRUE]
  /\ UNCHANGED <<pc, op, clocks>>

\* The refresher sees operationCtx.Done and sends nil.
StopRefresher(c) ==
  /\ refresher[c] = "on"
  /\ cancelled[c]
  /\ refresher' = [refresher EXCEPT ![c] = "stopped"]
  /\ UNCHANGED <<lease, pc, op, cancelled, clocks>>

\* The operation itself does not watch its context: it runs to its end.
EndOperation(c) ==
  /\ op[c] = "running"
  /\ op' = [op EXCEPT ![c] = "ended"]
  /\ UNCHANGED <<lease, pc, refresher, cancelled, clocks>>

\* The result of the operation is received first: cancel the refresher and
\* wait for its answer.
CancelRefresher(c) ==
  /\ pc[c] = "running"
  /\ op[c] = "ended"
  /\ ~cancelled[c]
  /\ cancelled' = [cancelled EXCEPT ![c] = TRUE]
  /\ UNCHANGED <<lease, pc, op, refresher, clocks>>

\* Mutant: DEL without the token check.
ReleaseAny(c) == lease' = NoLease

\* The release script deletes the key if it holds this token; its error is
\* reported or dropped, never retried.
Release(c) ==
  \/ lease' = IF lease.owner = c THEN NoLease ELSE lease
  \/ "redis" \in Faults /\ UNCHANGED lease

\* The refresher's error is received: release and return, whatever the
\* operation is doing.
ReturnLeaseLost(c) ==
  /\ pc[c] = "running"
  /\ refresher[c] = "failed"
  /\ Release(c)
  /\ pc' = [pc EXCEPT ![c] = "done"]
  /\ UNCHANGED <<op, refresher, cancelled, clocks>>

\* Both goroutines have answered, in either order.
ReturnResult(c) ==
  /\ pc[c] = "running"
  /\ op[c] = "ended"
  /\ refresher[c] = "stopped"
  /\ Release(c)
  /\ pc' = [pc EXCEPT ![c] = "done"]
  /\ UNCHANGED <<op, refresher, cancelled, clocks>>

------------------------------------------------------------------------------
(***************************************************************************)
(* The environment.                                                        *)
(***************************************************************************)

\* The HTTP client goes away: the request's context is done.
Disconnect(c) ==
  /\ "cancel" \in Faults
  /\ pc[c] \in {"waiting", "running"}
  /\ ~cancelled[c]
  /\ cancelled' = [cancelled EXCEPT ![c] = TRUE]
  /\ UNCHANGED <<lease, pc, op, refresher, clocks>>

\* The process dies with its goroutines; the lease stays.
Crash(c) ==
  /\ "crash" \in Faults
  /\ pc[c] \in {"waiting", "running"} \/ op[c] = "running"
  /\ pc' = [pc EXCEPT ![c] = "done"]
  /\ op' = [op EXCEPT ![c] = IF @ = "running" THEN "ended" ELSE @]
  /\ refresher' = [refresher EXCEPT ![c] = "none"]
  /\ UNCHANGED <<lease, cancelled, clocks>>

\* Mutant: the key has no time to live.
TickWithoutExpiry ==
  /\ \A c \in Call : refresher[c] = "on" => age[c] <= MaxDelay
  /\ age' = [c \in Call |-> IF refresher[c] = "on" THEN age[c] + 1 ELSE age[c]]
  /\ waited' = [c \in Call |-> IF pc[c] = "waiting" /\ waited[c] <= MaxWait
                               THEN waited[c] + 1 ELSE waited[c]]
  /\ UNCHANGED <<lease, goroutines>>

\* One refresh period passes; Redis drops the key when its time is over.  A
\* refresher is never more than MaxDelay late.
Tick ==
  /\ \A c \in Call : refresher[c] = "on" => age[c] <= MaxDelay
  /\ lease' = IF lease.left <= 1 THEN NoLease ELSE [lease EXCEPT !.left = @ - 1]
  /\ age' = [c \in Call |-> IF refresher[c] = "on" THEN age[c] + 1 ELSE age[c]]
  /\ waited' = [c \in Call |-> IF pc[c] = "waiting" /\ waited[c] <= MaxWait
                               THEN waited[c] + 1 ELSE waited[c]]
  /\ UNCHANGED goroutines

Step(c) ==
  \/ Acquire(c) \/ GiveUp(c) \/ Abandon(c)
  \/ Refresh(c) \/ StopRefresher(c)
  \/ EndOperation(c) \/ CancelRefresher(c) \/ ReturnLeaseLost(c) \/ ReturnResult(c)

Fault(c) == AcquireError(c) \/ RefreshError(c) \/ Disconnect(c) \/ Crash(c)

Next == (\E c \in Call : Start(c) \/ Step(c) \/ Fault(c)) \/ Tick

\* Goroutines run on, an attempt is repeated while the call waits, timers fire,
\* a select takes a channel that stays ready sooner or later, and the operation
\* ends because each runtime call in it has a timeout.
Fairness ==
  /\ WF_vars(Tick)
  /\ \A c \in Call : /\ WF_vars(Acquire(c) \/ GiveUp(c))
                     /\ WF_vars(Refresh(c))
                     /\ WF_vars(StopRefresher(c))
                     /\ WF_vars(EndOperation(c))
                     /\ WF_vars(CancelRefresher(c))
                     /\ WF_vars(ReturnLeaseLost(c) \/ ReturnResult(c))

Spec == Init /\ [][Next]_vars
FairSpec == Spec /\ Fairness

------------------------------------------------------------------------------
(***************************************************************************)
(* Properties.                                                             *)
(***************************************************************************)

\* The operations under the key, seen as the abstract lock sees them.
Abstract == INSTANCE OperationLock WITH inside <- {c \in Call : op[c] = "running"}

\* One operation at a time: only one node applies or compiles.  The code gives
\* this much only while no refresh fails and no caller goes away.
OneAtATime == Abstract!Spec

\* The operations that have not been told to stop.
Leased == INSTANCE OperationLock
            WITH inside <- {c \in Call : op[c] = "running" /\ ~cancelled[c]}

\* One operation with a live context at a time, whatever fails: a call whose
\* lease is lost, given up or in doubt cancels its operation before another call
\* can take the key.
OneLiveAtATime == Leased!Spec

\* A lease ends by its own time running out or by its own call returning: the
\* token check keeps a late Release or Refresh off the lease of another call.
OwnLeaseOnly ==
  [][\A c \in Call :
       lease.owner = c /\ lease'.owner # c
       => lease.left = 1 \/ (pc[c] = "running" /\ pc'[c] = "done")]_vars

\* A call that waits for the lock gets it or returns, even if the holder
\* crashed or every command fails.
WaitEnds == \A c \in Call : pc[c] = "waiting" ~> pc[c] # "waiting"

\* No lease outlives its call for ever: it is released or it expires.
LeaseEnds == \A c \in Call : lease.owner = c ~> lease.owner # c

==============================================================================
