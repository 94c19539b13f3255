--------------------------- MODULE SecurityEvents ---------------------------
(***************************************************************************)
(* The security events of a node.  Whoever lists the events first has the  *)
(* control plane collect them from the runtime: it asks the addresses of   *)
(* the runtime one after another, each for a bounded time, and the runtime *)
(* answers with what its access log holds behind an offset it keeps in     *)
(* memory.  The collected events are created one by one, each creation     *)
(* followed by a prune, in the store the rollout of revisions writes too.  *)
(* Time passes in ticks; a timer counts down the collector's next attempt. *)
(***************************************************************************)
EXTENDS Integers, Sequences, FiniteSets, FiniteSetsExt

CONSTANTS
  Callers,       \* the requests for the list of events, and the rollouts
  Lines,         \* the access log lines nginx writes
  Line,          \* Line[l]: what the runtime looks at
  Candidates,    \* the addresses runtimeEndpointCandidates gives
  AttemptTime,   \* runtimeSecurityEventsAttemptTimeout
  Interval,      \* between two collections
  Backoff,       \* after a failed one
  BurstThreshold, BurstPathThreshold,
  MaxEvents,     \* the retention of the store
  MaxFaults

ASSUME EventsAssumption ==
  /\ \A l \in Lines : Line[l].at \in Nat
  /\ Candidates \in Nat \ {0} /\ AttemptTime \in Nat \ {0}
  /\ Interval \in Nat /\ Backoff \in Nat /\ MaxEvents \in Nat \ {0}
\* The interval is longer than an attempt at every address: 5 seconds against
\* four times 1.2.
ASSUME ReservationAssumption == Candidates * AttemptTime < Interval

VARIABLES
  log,      \* the lines written
  offset,   \* the source's offset, lost when the launcher restarts
  events,   \* the stored events
  cache,    \* the events the handler listed last
  wait,     \* until collectorNextAttemptAt
  call,     \* the callers
  faults

vars == <<log, offset, events, cache, wait, call, faults>>

-----------------------------------------------------------------------------
(* What the runtime makes of the log                                       *)

shouldSkipInternalManagementRequest(i) == i.management

shouldTrackRequestBurst(i) ==
  ~shouldSkipInternalManagementRequest(i) /\ i.status \notin {403, 429, 444}

\* The identity of an event: its type, its second and its summary, but neither
\* the address nor the site.
newEventID(type, at, summary) == [type |-> type, at |-> at, summary |-> summary]
Event == [type : {"security_access", "security_rate_limit", "security_waf", "apply_started"},
          at : Nat, summary : {"antibot", "limited", "blocked", "threat", "burst", "path burst", "apply"}]

\* A path of the antibot challenge has a summary of its own.
securitySummaryForAccess(i, fallback) == IF i.antibot THEN "antibot" ELSE fallback

BlockEvents(lines) ==
  {newEventID(IF Line[l].status = 429 THEN "security_rate_limit" ELSE "security_access",
              Line[l].at,
              securitySummaryForAccess(Line[l], IF Line[l].status = 429 THEN "limited" ELSE "blocked"))
     : l \in {k \in lines : /\ Line[k].status \in {403, 429, 444}
                            /\ ~shouldSkipInternalManagementRequest(Line[k])}}

\* The first line of an address a feed knows, once in a reading. The control
\* plane does not know the type threat intelligence has here, and takes it for
\* an event of the firewall.
ThreatEvents(lines) ==
  LET known == {l \in lines : Line[l].threat /\ ~shouldSkipInternalManagementRequest(Line[l])}
  IN  {newEventID("security_waf", Line[l].at, "threat") :
         l \in {k \in known : \A j \in known : Line[j].ip = Line[k].ip => Line[k].at <= Line[j].at}}

\* The requests of one client to one site within one second, and those to one
\* path of it, counted in one reading only.
BurstEvents(lines) ==
  LET tracked == {l \in lines : shouldTrackRequestBurst(Line[l])}
      Burst(l) == {k \in tracked : /\ Line[k].ip = Line[l].ip /\ Line[k].site = Line[l].site
                                   /\ Line[k].at = Line[l].at}
      OnPath(l) == {k \in Burst(l) : Line[k].path = Line[l].path}
  IN  {newEventID("security_waf", Line[l].at, "burst") :
         l \in {k \in tracked : Cardinality(Burst(k)) >= BurstThreshold}}
      \cup {newEventID("security_waf", Line[l].at, "path burst") :
              l \in {k \in tracked : Cardinality(OnPath(k)) >= BurstPathThreshold}}

Unread == {log[i] : i \in (IF offset > Len(log) THEN 1 ELSE offset + 1) .. Len(log)}
next == ThreatEvents(Unread) \cup BlockEvents(Unread) \cup BurstEvents(Unread)

-----------------------------------------------------------------------------
(* The store                                                               *)

\* What MaxAge may leave of S: time passes between two lines, so that any
\* second may be the one before which everything is too old.
Recent(S) == {{e \in S : e.at >= cutoff} : cutoff \in {0} \cup {e.at + 1 : e \in S}}
\* What MaxEvents may leave of S: the newest n, in the order of sortEvents,
\* where the hash of an event decides within one second.
Newest(S, n) ==
  {K \in SUBSET S : /\ Cardinality(K) = Min({n, Cardinality(S)})
                    /\ \A e \in K, f \in S \ K : f.at <= e.at}

Fault == faults < MaxFaults /\ faults' = faults + 1
NoFault == UNCHANGED faults

-----------------------------------------------------------------------------
(* The callers                                                             *)

Idle == [pc |-> "idle"]
Init ==
  /\ log = <<>> /\ offset = 0 /\ events = {} /\ cache = {} /\ wait = 0
  /\ call = [c \in Callers |-> Idle] /\ faults = 0

At(c, pc) == call[c].pc = pc
Set(c, r) == call' = [call EXCEPT ![c] = r]
Attempt(n, spent) == [pc |-> "attempt", n |-> n, spent |-> spent]
Emitting(pc, items, then) == [pc |-> pc, items |-> items, then |-> then]

\* Mutant: the caller that goes to collect leaves the next attempt as it was.
CollectUnreserved(c) ==
  /\ At(c, "idle") /\ wait = 0
  /\ Set(c, Attempt(1, 0))
  /\ UNCHANGED <<log, offset, events, cache, wait, faults>>

\* List: shouldCollectRuntimeSecurityEvents reserves the interval.
Collect(c) ==
  /\ At(c, "idle") /\ wait = 0 /\ wait' = Interval
  /\ Set(c, Attempt(1, 0))
  /\ UNCHANGED <<log, offset, events, cache, faults>>

ListOnly(c) ==
  /\ At(c, "idle") /\ wait > 0
  /\ Set(c, [pc |-> "list"])
  /\ UNCHANGED <<log, offset, events, cache, wait, faults>>

\* The runtime reads its log and answers in time: recordCollectorSuccess.
Answered(c) ==
  /\ At(c, "attempt")
  /\ offset' = Len(log) /\ wait' = Interval
  /\ Set(c, Emitting("create", next, "list"))
  /\ UNCHANGED <<log, events, cache, faults>>

\* The runtime's host and the names and loopback addresses it falls back to.
MoreCandidates(n) == n < Candidates

\* The next address, or recordCollectorFailure after the last one.
NextAttempt(c) ==
  IF MoreCandidates(call[c].n)
  THEN Set(c, Attempt(call[c].n + 1, 0)) /\ UNCHANGED wait
  ELSE Set(c, [pc |-> "list"]) /\ wait' = Backoff

\* An address refuses, does not exist or gives an answer the collector does not
\* take (another status, not JSON, too many items): the runtime may have read
\* its log for it, and what it read is lost.
Refused(c) ==
  /\ At(c, "attempt") /\ Fault /\ NextAttempt(c)
  /\ offset' \in {offset, Len(log)}
  /\ UNCHANGED <<log, events, cache>>

\* An attempt runs out of time; the runtime may have read its log for it.
TimedOut(c) ==
  /\ At(c, "attempt") /\ call[c].spent = AttemptTime /\ NextAttempt(c)
  /\ offset' \in {offset, Len(log)}
  /\ UNCHANGED <<log, events, cache, faults>>

\* Create, for one of the items: an event that exists already is passed over,
\* and so is one the store fails for; a transient error gives up the rest.
Create(c) ==
  /\ At(c, "create") /\ call[c].items # {}
  /\ \E e \in call[c].items :
       \/ /\ NoFault /\ events' = events \cup {e}
          /\ Set(c, Emitting(IF e \in events THEN "create" ELSE "prune", call[c].items \ {e}, call[c].then))
       \/ /\ Fault /\ UNCHANGED events
          /\ \/ Set(c, [pc |-> call[c].then])
             \/ Set(c, Emitting("create", call[c].items \ {e}, call[c].then))
  /\ UNCHANGED <<log, offset, cache, wait>>

\* Prune keeps what is recent, and the newest of it; its error is ignored.
Prune(c) ==
  /\ At(c, "prune")
  /\ Set(c, Emitting("create", call[c].items, call[c].then))
  /\ \/ NoFault /\ \E S \in Recent(events) : events' \in Newest(S, MaxEvents)
     \/ Fault /\ UNCHANGED events
  /\ UNCHANGED <<log, offset, cache, wait>>

CreateEnd(c) ==
  /\ At(c, "create") /\ call[c].items = {}
  /\ Set(c, [pc |-> call[c].then])
  /\ UNCHANGED <<log, offset, events, cache, wait, faults>>

\* The handler answers from the store, or from its cache when the store fails.
ServeEvents(c) ==
  /\ At(c, "list") /\ Set(c, Idle)
  /\ \/ NoFault /\ cache' = events
     \/ Fault /\ UNCHANGED cache
  /\ UNCHANGED <<log, offset, events, wait>>

\* The rollout emits an operational event at the current second.
Emit(c) ==
  /\ At(c, "idle") /\ log # <<>>
  /\ Set(c, Emitting("create", {newEventID("apply_started", Line[log[Len(log)]].at, "apply")}, "idle"))
  /\ UNCHANGED <<log, offset, events, cache, wait, faults>>

\* ClearTimeline of the revision catalog.
DeleteByTypes ==
  /\ \E e \in events : e.type = "apply_started"
  /\ events' = {e \in events : e.type # "apply_started"}
  /\ UNCHANGED <<log, offset, cache, wait, call, faults>>

Traffic(l) ==
  /\ \A i \in 1 .. Len(log) : log[i] # l /\ Line[log[i]].at <= Line[l].at
  /\ log' = Append(log, l)
  /\ UNCHANGED <<offset, events, cache, wait, call, faults>>

\* The launcher restarts and will read the log from its start.
Restart ==
  /\ Fault /\ offset' = 0
  /\ UNCHANGED <<log, events, cache, wait, call>>

\* Time passes while no attempt has used up its time.
Tick ==
  /\ \A c \in Callers : At(c, "attempt") => call[c].spent < AttemptTime
  /\ wait > 0 \/ \E c \in Callers : At(c, "attempt")
  /\ wait' = IF wait > 0 THEN wait - 1 ELSE 0
  /\ call' = [c \in Callers |->
               IF At(c, "attempt") THEN Attempt(call[c].n, call[c].spent + 1) ELSE call[c]]
  /\ UNCHANGED <<log, offset, events, cache, faults>>

Next ==
  \/ \E c \in Callers :
       \/ Collect(c) \/ ListOnly(c) \/ Answered(c) \/ Refused(c) \/ TimedOut(c)
       \/ Create(c) \/ Prune(c) \/ CreateEnd(c) \/ ServeEvents(c) \/ Emit(c)
  \/ \E l \in Lines : Traffic(l)
  \/ DeleteByTypes \/ Restart \/ Tick

Spec == Init /\ [][Next]_vars

-----------------------------------------------------------------------------
Attempts == [pc : {"attempt"}, n : 1 .. Candidates, spent : 0 .. AttemptTime]
Emissions == [pc : {"create", "prune"}, items : SUBSET Event, then : {"idle", "list"}]
TypeOK ==
  /\ log \in Seq(Lines) /\ offset \in Nat /\ wait \in Nat /\ faults \in Nat
  /\ events \subseteq Event /\ cache \subseteq Event
  /\ call \in [Callers -> [pc : {"idle", "list"}] \cup Attempts \cup Emissions]

\* The runtime is asked by one collection at a time, whoever lists the events:
\* the interval a collector reserves before it starts
\* (shouldCollectRuntimeSecurityEvents) outlasts an attempt at every address
\* the collector knows, although nothing but time keeps the second caller out.
\* Two collections at once would share out the lines behind one offset, and
\* bursts would be counted in halves.
OneCollection ==
  \A c, d \in Callers : (At(c, "attempt") /\ At(d, "attempt")) => c = d
=============================================================================
