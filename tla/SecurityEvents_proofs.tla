----------------------- MODULE SecurityEvents_proofs -----------------------
(***************************************************************************)
(* The collections of security events do not overlap, for any number of    *)
(* callers, addresses and ticks that satisfy ReservationAssumption.        *)
(***************************************************************************)
EXTENDS SecurityEvents, TLAPS

\* The ticks a collection at its n-th address can have taken at most.
Elapsed(r) == (r.n - 1) * AttemptTime + r.spent

\* What is left of the reservation of a caller that collects, and no other
\* caller collects.
Reserved ==
  \A c \in Callers :
    At(c, "attempt") => /\ wait >= Interval - Elapsed(call[c])
                        /\ \A d \in Callers : At(d, "attempt") => d = c

Other == [pc : {"idle", "list"}]
Call == Other \cup Attempts \cup Emissions
CallsTyped == call \in [Callers -> Call]
StoreTyped == events \subseteq Event /\ cache \subseteq Event
LogTyped == log \in Seq(Lines) /\ offset \in Nat /\ wait \in Nat /\ faults \in Nat

-----------------------------------------------------------------------------
(* Types                                                                   *)

\* The types, part by part.
LEMMA TypeParts == TypeOK <=> CallsTyped /\ StoreTyped /\ LogTyped
  BY DEF TypeOK, CallsTyped, StoreTyped, LogTyped, Call, Other

\* What the runtime answers are events.
LEMMA NextTyped ==
  ASSUME log \in Seq(Lines), offset \in Nat
  PROVE  next \subseteq Event
<1>1. Unread \subseteq Lines
  <2>1. ASSUME NEW i \in (IF offset > Len(log) THEN 1 ELSE offset + 1) .. Len(log)
        PROVE  log[i] \in Lines
    <3>1. i \in 1 .. Len(log)
      BY <2>1
    <3> QED
      BY <3>1
  <2> QED
    BY <2>1 DEF Unread
<1>2. ASSUME NEW l \in Lines,
             NEW type \in {"security_access", "security_rate_limit", "security_waf", "apply_started"},
             NEW summary \in {"antibot", "limited", "blocked", "threat", "burst", "path burst", "apply"}
      PROVE  newEventID(type, Line[l].at, summary) \in Event
  BY EventsAssumption DEF newEventID, Event
<1>3. ASSUME NEW e \in BlockEvents(Unread) PROVE e \in Event
  <2>1. PICK l \in Unread :
          e = newEventID(IF Line[l].status = 429 THEN "security_rate_limit" ELSE "security_access",
                Line[l].at,
                securitySummaryForAccess(Line[l], IF Line[l].status = 429 THEN "limited" ELSE "blocked"))
    BY DEF BlockEvents
  <2>2. securitySummaryForAccess(Line[l], IF Line[l].status = 429 THEN "limited" ELSE "blocked")
          \in {"antibot", "limited", "blocked", "threat", "burst", "path burst", "apply"}
    BY DEF securitySummaryForAccess
  <2>3. (IF Line[l].status = 429 THEN "security_rate_limit" ELSE "security_access")
          \in {"security_access", "security_rate_limit", "security_waf", "apply_started"}
    OBVIOUS
  <2>4. l \in Lines
    BY <1>1
  <2> QED
    BY <2>1, <2>2, <2>3, <2>4, EventsAssumption DEF newEventID, Event
<1>4. ASSUME NEW e \in BurstEvents(Unread) PROVE e \in Event
  <2>1. PICK l \in Unread : \/ e = newEventID("security_waf", Line[l].at, "burst")
                            \/ e = newEventID("security_waf", Line[l].at, "path burst")
    BY DEF BurstEvents
  <2> QED
    BY <1>1, <1>2, <2>1
<1>5. ASSUME NEW e \in ThreatEvents(Unread) PROVE e \in Event
  <2>1. PICK l \in Unread : e = newEventID("security_waf", Line[l].at, "threat")
    BY DEF ThreatEvents
  <2> QED
    BY <1>1, <1>2, <2>1
<1> QED
  BY <1>3, <1>4, <1>5 DEF next

\* Calls, events and the log have their types at first.
LEMMA CallsInit == Init => CallsTyped /\ StoreTyped /\ LogTyped
  BY DEF Init, CallsTyped, StoreTyped, LogTyped, Call, Other, Idle

\* A caller set to a record of its type.
LEMMA CallSet ==
  ASSUME NEW c \in Callers, NEW r \in Call, CallsTyped, Set(c, r)
  PROVE  CallsTyped'
  BY DEF CallsTyped, Set

\* The records a caller is given.
LEMMA OtherTyped == [pc |-> "idle"] \in Call /\ [pc |-> "list"] \in Call
  BY DEF Call, Other

\* An attempt at an address is a call.
LEMMA AttemptTyped ==
  ASSUME NEW n \in 1 .. Candidates, NEW s \in 0 .. AttemptTime
  PROVE  Attempt(n, s) \in Call
  BY DEF Attempt, Attempts, Call

\* The creation of a set of events is a call.
LEMMA EmittingTyped ==
  ASSUME NEW pc \in {"create", "prune"}, NEW items \in SUBSET Event, NEW then \in {"idle", "list"}
  PROVE  Emitting(pc, items, then) \in Call
  BY DEF Emitting, Emissions, Call

\* What the place of a caller says of its record.
LEMMA AtAttempt ==
  ASSUME NEW c \in Callers, CallsTyped, At(c, "attempt")
  PROVE  call[c].n \in 1 .. Candidates /\ call[c].spent \in 0 .. AttemptTime
<1>1. call[c] \in Attempts
  BY DEF CallsTyped, Call, Other, Attempts, Emissions, At
<1> QED
  BY <1>1 DEF Attempts

\* A call that creates or prunes carries its events and where it goes then.
LEMMA AtEmission ==
  ASSUME NEW c \in Callers, CallsTyped, At(c, "create") \/ At(c, "prune")
  PROVE  call[c].items \subseteq Event /\ call[c].then \in {"idle", "list"}
<1>1. call[c] \in Emissions
  BY DEF CallsTyped, Call, Other, Attempts, Emissions, At
<1> QED
  BY <1>1 DEF Emissions

\* Every step of a caller gives it a record of its type.
LEMMA CallsStep == TypeOK /\ [Next]_vars => CallsTyped'
<1> SUFFICES ASSUME TypeOK, [Next]_vars PROVE CallsTyped'
  OBVIOUS
<1>0. CallsTyped /\ LogTyped
  BY TypeParts
<1>1. ASSUME NEW c \in Callers, Collect(c) PROVE CallsTyped'
  <2>1. Attempt(1, 0) \in Call
    BY AttemptTyped, EventsAssumption
  <2> QED
    BY <1>0, <1>1, <2>1, CallSet DEF Collect
<1>2. ASSUME NEW c \in Callers, ListOnly(c) \/ ServeEvents(c) PROVE CallsTyped'
  BY <1>0, <1>2, OtherTyped, CallSet DEF ListOnly, ServeEvents, Idle
<1>3. ASSUME NEW c \in Callers, Answered(c) PROVE CallsTyped'
  <2>1. Emitting("create", next, "list") \in Call
    BY <1>0, NextTyped, EmittingTyped DEF LogTyped
  <2> QED
    BY <1>0, <1>3, <2>1, CallSet DEF Answered
<1>4. ASSUME NEW c \in Callers, Refused(c) \/ TimedOut(c) PROVE CallsTyped'
  <2>1. At(c, "attempt") /\ NextAttempt(c)
    BY <1>4 DEF Refused, TimedOut
  <2>2. MoreCandidates(call[c].n) => Attempt(call[c].n + 1, 0) \in Call
    BY <1>0, <2>1, AtAttempt, AttemptTyped, EventsAssumption DEF MoreCandidates
  <2> QED
    BY <1>0, <2>1, <2>2, OtherTyped, CallSet DEF NextAttempt
<1>5. ASSUME NEW c \in Callers, Create(c) PROVE CallsTyped'
  <2>1. call[c].items \subseteq Event /\ call[c].then \in {"idle", "list"}
    BY <1>0, <1>5, AtEmission DEF Create
  <2>2. [pc |-> call[c].then] \in Call
    BY <2>1, OtherTyped
  <2>3. PICK e \in call[c].items :
          \/ Set(c, Emitting(IF e \in events THEN "create" ELSE "prune", call[c].items \ {e}, call[c].then))
          \/ Set(c, Emitting("create", call[c].items \ {e}, call[c].then))
          \/ Set(c, [pc |-> call[c].then])
    BY <1>5 DEF Create
  <2>4. Emitting(IF e \in events THEN "create" ELSE "prune", call[c].items \ {e}, call[c].then) \in Call
        /\ Emitting("create", call[c].items \ {e}, call[c].then) \in Call
    BY <2>1, EmittingTyped
  <2> QED
    BY <1>0, <2>2, <2>3, <2>4, CallSet
<1>6. ASSUME NEW c \in Callers, Prune(c) PROVE CallsTyped'
  <2>1. Emitting("create", call[c].items, call[c].then) \in Call
    BY <1>0, <1>6, AtEmission, EmittingTyped DEF Prune
  <2> QED
    BY <1>0, <1>6, <2>1, CallSet DEF Prune
<1>7. ASSUME NEW c \in Callers, CreateEnd(c) PROVE CallsTyped'
  <2>1. [pc |-> call[c].then] \in Call
    BY <1>0, <1>7, AtEmission, OtherTyped DEF CreateEnd
  <2> QED
    BY <1>0, <1>7, <2>1, CallSet DEF CreateEnd
<1>8. ASSUME NEW c \in Callers, Emit(c) PROVE CallsTyped'
  <2> DEFINE e == newEventID("apply_started", Line[log[Len(log)]].at, "apply")
  <2>1. log[Len(log)] \in Lines
    BY <1>0, <1>8 DEF LogTyped, Emit
  <2>2. e \in Event
    BY <2>1, EventsAssumption DEF newEventID, Event
  <2>3. Emitting("create", {e}, "idle") \in Call
    BY <2>2, EmittingTyped
  <2> QED
    BY <1>0, <1>8, <2>3, CallSet DEF Emit
<1>9. CASE Tick
  <2>1. \A c \in Callers : At(c, "attempt") => Attempt(call[c].n, call[c].spent + 1) \in Call
    BY <1>0, <1>9, AtAttempt, AttemptTyped, EventsAssumption DEF Tick
  <2>2. call' = [c \in Callers |->
                  IF At(c, "attempt") THEN Attempt(call[c].n, call[c].spent + 1) ELSE call[c]]
    BY <1>9 DEF Tick
  <2> QED
    BY <1>0, <2>1, <2>2 DEF CallsTyped
<1>10. CASE UNCHANGED call
  BY <1>0, <1>10 DEF CallsTyped
<1> QED
  BY <1>1, <1>2, <1>3, <1>4, <1>5, <1>6, <1>7, <1>8, <1>9, <1>10
     DEF Next, vars, Traffic, DeleteByTypes, Restart

\* The store and the handler's cache hold events only.
LEMMA StoreStep == TypeOK /\ [Next]_vars => StoreTyped'
<1> SUFFICES ASSUME TypeOK, [Next]_vars PROVE StoreTyped'
  OBVIOUS
<1>0. CallsTyped /\ StoreTyped
  BY TypeParts
<1>1. ASSUME NEW c \in Callers, Create(c) PROVE StoreTyped'
  <2>1. call[c].items \subseteq Event
    BY <1>0, <1>1, AtEmission DEF Create
  <2> QED
    BY <1>0, <1>1, <2>1 DEF Create, StoreTyped
<1>2. ASSUME NEW c \in Callers, Prune(c) PROVE StoreTyped'
  BY <1>0, <1>2 DEF Prune, Newest, Recent, StoreTyped
<1>3. ASSUME NEW c \in Callers, ServeEvents(c) PROVE StoreTyped'
  BY <1>0, <1>3 DEF ServeEvents, StoreTyped
<1>4. CASE DeleteByTypes
  BY <1>0, <1>4 DEF DeleteByTypes, StoreTyped
<1>5. CASE UNCHANGED <<events, cache>>
  BY <1>0, <1>5 DEF StoreTyped
<1> QED
  BY <1>1, <1>2, <1>3, <1>4, <1>5 DEF Next, vars, Collect, ListOnly, Answered, Refused, TimedOut,
     CreateEnd, Emit, Traffic, Restart, Tick

\* Every step keeps the log, the offset, the timer and the faults well typed.
LEMMA LogStep == TypeOK /\ [Next]_vars => LogTyped'
<1> SUFFICES ASSUME LogTyped, [Next]_vars PROVE LogTyped'
  BY TypeParts
<1> USE EventsAssumption DEF LogTyped
<1>1. ASSUME NEW c \in Callers, Collect(c) \/ Answered(c) PROVE LogTyped'
  BY <1>1 DEF Collect, Answered
<1>2. ASSUME NEW c \in Callers, Refused(c) \/ TimedOut(c) PROVE LogTyped'
  BY <1>2 DEF Refused, TimedOut, NextAttempt, Fault
<1>3. ASSUME NEW c \in Callers, Create(c) \/ Prune(c) \/ ServeEvents(c) PROVE LogTyped'
  <2>1. UNCHANGED <<log, offset, wait>>
    BY <1>3 DEF Create, Prune, ServeEvents
  <2>2. Fault \/ NoFault
    BY <1>3 DEF Create, Prune, ServeEvents
  <2> QED
    BY <2>1, <2>2 DEF Fault, NoFault
<1>4. ASSUME NEW l \in Lines, Traffic(l) PROVE LogTyped'
  BY <1>4 DEF Traffic
<1>5. CASE Restart \/ Tick
  BY <1>5 DEF Restart, Fault, Tick
<1>6. CASE UNCHANGED <<log, offset, wait, faults>>
  BY <1>6
<1> HIDE DEF LogTyped
<1> QED
  BY <1>1, <1>2, <1>3, <1>4, <1>5, <1>6 DEF Next, vars, ListOnly, CreateEnd, Emit, DeleteByTypes

\* Callers, store and log keep their types.
THEOREM TypeCorrect == Spec => []TypeOK
<1>1. TypeOK /\ [Next]_vars => TypeOK'
  BY CallsStep, StoreStep, LogStep DEF TypeOK, CallsTyped, StoreTyped, LogTyped, Call, Other
<1>2. Init => TypeOK
  BY CallsInit, TypeParts
<1> QED
  BY <1>1, <1>2, PTL DEF Spec

-----------------------------------------------------------------------------
(* The reservation                                                         *)

\* At first nobody collects.
LEMMA ReservedInit == Init => Reserved
  BY DEF Init, Reserved, At, Idle

\* A collection at one of the addresses has not used up the interval.
LEMMA ElapsedBound ==
  ASSUME NEW n \in 1 .. Candidates, NEW s \in 0 .. AttemptTime
  PROVE  /\ (n - 1) * AttemptTime + s \in Nat
         /\ (n - 1) * AttemptTime + s < Interval
<1>1. \A k, m, t \in Nat : k <= m => k * t \in Nat /\ k * t <= m * t
  OBVIOUS
<1>2. n - 1 \in Nat /\ Candidates - 1 \in Nat /\ AttemptTime \in Nat /\ n - 1 <= Candidates - 1
  BY EventsAssumption
<1>3. (n - 1) * AttemptTime \in Nat /\ (n - 1) * AttemptTime <= (Candidates - 1) * AttemptTime
  BY <1>1, <1>2
<1>4. (Candidates - 1) * AttemptTime + AttemptTime = Candidates * AttemptTime
  BY EventsAssumption
<1>5. Candidates * AttemptTime \in Nat /\ (Candidates - 1) * AttemptTime \in Nat
  BY EventsAssumption, <1>1, <1>2
<1> QED
  BY <1>2, <1>3, <1>4, <1>5, EventsAssumption, ReservationAssumption

\* The next address begins when the time of the last one may be used up.
LEMMA ElapsedNext ==
  ASSUME NEW n \in Nat
  PROVE  (n + 1 - 1) * AttemptTime + 0 = (n - 1) * AttemptTime + AttemptTime
  BY EventsAssumption

\* A step after which whoever collects did so before, in the same attempt.
LEMMA ReservedSame ==
  ASSUME Reserved, UNCHANGED wait,
         \A d \in Callers : At(d, "attempt")' => At(d, "attempt") /\ call'[d] = call[d]
  PROVE  Reserved'
  BY DEF Reserved, Elapsed

\* A caller is set to something else than an attempt.
LEMMA NoAttempt ==
  ASSUME NEW c \in Callers, NEW r, r.pc # "attempt", CallsTyped, Set(c, r)
  PROVE  \A d \in Callers : At(d, "attempt")' => At(d, "attempt") /\ d # c /\ call'[d] = call[d]
  BY DEF CallsTyped, Set, At

\* A collection that goes on, at its next address or for one more tick, takes
\* from its reservation what time took; a second one finds it not used up.
LEMMA ReservedKept == TypeOK /\ Reserved /\ [Next]_vars => Reserved'
<1> SUFFICES ASSUME TypeOK, Reserved, [Next]_vars PROVE Reserved'
  OBVIOUS
<1>0. CallsTyped /\ wait \in Nat
  BY TypeParts DEF LogTyped
<1>a. ASSUME NEW c \in Callers, At(c, "attempt")
      PROVE  /\ call[c].n \in 1 .. Candidates /\ call[c].spent \in 0 .. AttemptTime
             /\ Elapsed(call[c]) \in Nat /\ Elapsed(call[c]) < Interval
             /\ wait >= Interval - Elapsed(call[c])
             /\ \A d \in Callers : At(d, "attempt") => d = c
  BY <1>0, <1>a, AtAttempt, ElapsedBound DEF Elapsed, Reserved
<1>1. ASSUME NEW c \in Callers, Collect(c) PROVE Reserved'
  <2>1. \A d \in Callers : ~At(d, "attempt")
    BY <1>0, <1>1, <1>a, EventsAssumption DEF Collect
  <2>2. \A d \in Callers : At(d, "attempt")' => d = c
    BY <1>0, <1>1, <2>1 DEF Collect, Set, CallsTyped, At
  <2>3. Elapsed(Attempt(1, 0)) = 0
    BY EventsAssumption DEF Elapsed, Attempt
  <2>4. call'[c] = Attempt(1, 0) /\ wait' = Interval
    BY <1>0, <1>1 DEF Collect, Set, CallsTyped
  <2> QED
    BY <2>2, <2>3, <2>4, EventsAssumption DEF Reserved
<1>2. ASSUME NEW c \in Callers, Answered(c) PROVE Reserved'
  <2>1. Emitting("create", next, "list").pc # "attempt"
    BY DEF Emitting
  <2>2. \A d \in Callers : ~At(d, "attempt")'
    BY <1>0, <1>2, <1>a, <2>1, NoAttempt DEF Answered
  <2> QED
    BY <2>2 DEF Reserved
<1>3. ASSUME NEW c \in Callers, Refused(c) \/ TimedOut(c) PROVE Reserved'
  <2>1. At(c, "attempt") /\ NextAttempt(c)
    BY <1>3 DEF Refused, TimedOut
  <2>2. CASE MoreCandidates(call[c].n)
    <3>1. /\ call' = [call EXCEPT ![c] = Attempt(call[c].n + 1, 0)] /\ wait' = wait
      BY <2>1, <2>2 DEF NextAttempt, Set
    <3>2. call'[c] = Attempt(call[c].n + 1, 0) /\ \A d \in Callers \ {c} : call'[d] = call[d]
      BY <1>0, <3>1 DEF CallsTyped
    <3>3. \A d \in Callers : At(d, "attempt")' => d = c
      BY <1>a, <2>1, <3>2 DEF At
    <3>4. Elapsed(call'[c]) = (call[c].n - 1) * AttemptTime + AttemptTime
      BY <1>a, <2>1, <3>2, ElapsedNext DEF Elapsed, Attempt
    <3>5. Elapsed(call[c]) <= Elapsed(call'[c]) /\ Elapsed(call'[c]) \in Int
      <4>1. call[c].n - 1 \in Nat /\ AttemptTime \in Nat /\ call[c].spent \in 0 .. AttemptTime
        BY <1>a, <2>1, EventsAssumption
      <4>2. (call[c].n - 1) * AttemptTime \in Nat
        BY <4>1
      <4> QED
        BY <3>4, <4>1, <4>2 DEF Elapsed
    <3>6. wait' >= Interval - Elapsed(call'[c])
      BY <1>0, <1>a, <2>1, <3>1, <3>5, EventsAssumption
    <3> QED
      BY <3>3, <3>6 DEF Reserved
  <2>3. CASE ~MoreCandidates(call[c].n)
    <3>1. Set(c, [pc |-> "list"])
      BY <2>1, <2>3 DEF NextAttempt
    <3>2. \A d \in Callers : ~At(d, "attempt")'
      BY <1>0, <1>a, <2>1, <3>1, NoAttempt
    <3> QED
      BY <3>2 DEF Reserved
  <2> QED
    BY <2>2, <2>3
<1>4. ASSUME NEW c \in Callers, ListOnly(c) \/ ServeEvents(c) PROVE Reserved'
  <2>1. UNCHANGED wait /\ (Set(c, [pc |-> "list"]) \/ Set(c, [pc |-> "idle"]))
    BY <1>4 DEF ListOnly, ServeEvents, Idle
  <2> QED
    BY <1>0, <2>1, NoAttempt, ReservedSame
<1>5. ASSUME NEW c \in Callers, Create(c) \/ Prune(c) \/ CreateEnd(c) PROVE Reserved'
  <2>1. call[c].then # "attempt"
    BY <1>0, <1>5, AtEmission DEF Create, Prune, CreateEnd
  <2>2. /\ UNCHANGED wait
        /\ \/ \E pc \in {"create", "prune"}, items \in SUBSET Event : Set(c, Emitting(pc, items, call[c].then))
           \/ Set(c, [pc |-> call[c].then])
    <3>1. call[c].items \subseteq Event
      BY <1>0, <1>5, AtEmission DEF Create, Prune, CreateEnd
    <3>2. CASE Create(c)
      BY <3>1, <3>2 DEF Create
    <3>3. CASE Prune(c)
      BY <3>1, <3>3 DEF Prune
    <3>4. CASE CreateEnd(c)
      BY <3>4 DEF CreateEnd
    <3> QED
      BY <1>5, <3>2, <3>3, <3>4
  <2>3. ASSUME NEW pc \in {"create", "prune"}, NEW items PROVE Emitting(pc, items, call[c].then).pc # "attempt"
    BY DEF Emitting
  <2> QED
    BY <1>0, <2>1, <2>2, <2>3, NoAttempt, ReservedSame
<1>6. ASSUME NEW c \in Callers, Emit(c) PROVE Reserved'
  <2>1. \A items : Emitting("create", items, "idle").pc # "attempt"
    BY DEF Emitting
  <2> QED
    BY <1>0, <1>6, <2>1, NoAttempt, ReservedSame DEF Emit
<1>7. CASE Tick
  <2>1. \A d \in Callers : At(d, "attempt")' <=> At(d, "attempt")
    BY <1>7 DEF Tick, At, Attempt
  <2>2. ASSUME NEW c \in Callers, At(c, "attempt")
        PROVE  wait' >= Interval - Elapsed(call'[c])
    <3>1. call'[c] = Attempt(call[c].n, call[c].spent + 1)
      BY <1>7, <2>2 DEF Tick
    <3>2. (call[c].n - 1) * AttemptTime \in Int /\ call[c].spent \in Int
      BY <1>a, <2>2, EventsAssumption
    <3>3. Elapsed(call'[c]) = Elapsed(call[c]) + 1
      BY <3>1, <3>2 DEF Elapsed, Attempt
    <3>4. wait' >= wait - 1 /\ wait' \in Nat
      BY <1>0, <1>7 DEF Tick
    <3> QED
      BY <1>0, <1>a, <2>2, <3>3, <3>4, EventsAssumption
  <2> QED
    BY <1>a, <2>1, <2>2 DEF Reserved
<1>8. CASE UNCHANGED <<wait, call>>
  BY <1>8, ReservedSame DEF At
<1> QED
  BY <1>1, <1>2, <1>3, <1>4, <1>5, <1>6, <1>7, <1>8 DEF Next, vars, Traffic, DeleteByTypes, Restart

\* The runtime is asked by one collection at a time, for any number of callers
\* that list the events and any order of their steps.
THEOREM OneCollectionAlways == Spec => []OneCollection
<1>1. Reserved => OneCollection
  BY DEF Reserved, OneCollection
<1> QED
  BY TypeCorrect, ReservedInit, ReservedKept, <1>1, PTL DEF Spec
=============================================================================
