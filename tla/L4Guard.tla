------------------------------ MODULE L4Guard ------------------------------
(* The packet filter in front of nginx.  The Sentinel publishes adaptive.json,
   a reload links another config.json, and waf-runtime-l4-guard turns both into
   a chain of iptables rules.  The launcher runs that program from two places
   that exclude each other by nothing: every reload, and a refresher that looks
   for a changed fingerprint of the two files every few seconds.  Each iptables
   command is a step of its own. *)
EXTENDS Integers, Sequences, FiniteSets, SequencesExt, TLC

CONSTANTS
  Ips,         \* addresses, numbered in the order their text sorts in
  Family,      \* Family[ip]: 4 or 6
  Configs,     \* contents of l4guard/config.json, fields that are set
  Envs,        \* WAF_L4_GUARD_* variables, fields that are set
  Decisions,   \* what the Sentinel may publish, a subset of [Ips -> {None, "throttle", "drop"}]
  Primary,     \* Primary[f]: first address of the family in this namespace, or None
  DockerUser,  \* DockerUser[f]: whether the DOCKER-USER chain is there
  MaxReloads, MaxFaults, None

Families == {4, 6}
Callers == {"refresh", "reload"}
ASSUME FamilyAssumption == Family \in [Ips -> Families]

VARIABLES
  config,    \* config.json of the linked bundle
  adaptive,  \* adaptive.json: what each address gets; torn while half written
  past,      \* addresses whose published expires_at has passed
  env,       \* the environment of the process
  chain,     \* chain[f]: the rules of WAF-RUNTIME-L4, None before it exists
  jumps,     \* jumps[f]: jump rules into it, as <<parent, destination, ports>>
  last,      \* lastFingerprint of the refresher
  call,      \* call[c]: where each caller of the guard program stands
  reloads, faults
vars == <<config, adaptive, past, env, chain, jumps, last, call, reloads, faults>>

Idle == [pc |-> "idle", print |-> None, cfg |-> None, f |-> 4, rest |-> <<>>, failed |-> FALSE]
Disabled == "enabled" \in DOMAIN env /\ ~env.enabled

\* The bytes of both files.  updated_at makes every publication different from
\* all earlier ones, so of adaptive.json a fingerprint tells whether it is the
\* file of now; a publication makes those taken before it outdated.
\* Mutant: only the revision's own file is watched.
PrintOfConfig == <<config, last[2]>>
l4GuardConfigFingerprint == <<config, TRUE>>
Outdated(print) == IF print = None THEN None ELSE <<print[1], FALSE>>

-----------------------------------------------------------------------------
(* What the guard program reads *)

Default == [enabled |-> TRUE, mode |-> "auto", dest |-> None, ports |-> 1, target |-> "DROP"]
\* What the entries of the file come to: unknown actions and expired ones are skipped.
applyAdaptiveFileConfig == {ip \in Ips : adaptive.entries[ip] # None} \ past
\* A variable wins over the file and the file over the default.
loadConfig ==
  (env @@ config @@ Default) @@
  [entries |-> [ip \in applyAdaptiveFileConfig |-> adaptive.entries[ip]]]

resolveDestinationIP(cfg, f) ==
  IF cfg.dest = None THEN Primary[f] ELSE IF cfg.dest = f THEN f ELSE None
\* The chain to hang the rules in with the destination to match, None when the
\* family is not configured, and the empty tuple when the chain is missing.
resolveParentChain(cfg, f) ==
  LET dest == resolveDestinationIP(cfg, f) docker == DockerUser[f] IN
  CASE cfg.mode = "input" -> <<"INPUT", None>>
    [] cfg.mode = "docker-user" -> IF dest = None THEN None ELSE IF docker THEN <<"DOCKER-USER", dest>> ELSE <<>>
    [] OTHER -> IF docker /\ dest # None THEN <<"DOCKER-USER", dest>> ELSE <<"INPUT", None>>
parentJumpRule(cfg, f) == resolveParentChain(cfg, f) \o <<cfg.ports>>

\* Drops sort before throttles, each by address.
adaptiveRules(cfg, f) ==
  LET of(action) == SetToSortSeq({ip \in DOMAIN cfg.entries : Family[ip] = f /\ cfg.entries[ip] = action},
                                 LAMBDA a, b : a < b)
      rules(action, target) == [i \in DOMAIN of(action) |-> <<action, of(action)[i], target>>] IN
  rules("drop", cfg.target) \o rules("throttle", "REJECT")
guardRules(cfg) == << <<"limit", None, cfg.target>>, <<"RETURN", None, None>> >>
DesiredRules(cfg, f) == adaptiveRules(cfg, f) \o guardRules(cfg)

-----------------------------------------------------------------------------
(* The guard program, one iptables command at a time *)

Move(c, upd) == call' = [call EXCEPT ![c] = upd @@ @]
Same(upd) == UNCHANGED <<config, adaptive, past, env, last, reloads>> /\ upd
\* A command fails: the family is given up, the other one is still tried.
NextFamily(c, failed) ==
  IF call[c].f = 4 THEN [pc |-> "chain", f |-> 6, failed |-> failed, rest |-> <<>>]
  ELSE [Idle EXCEPT !.pc = IF failed THEN "failed" ELSE "ok", !.print = call[c].print]
Fails(c) == faults < MaxFaults /\ faults' = faults + 1 /\ Move(c, NextFamily(c, TRUE))

\* An unreadable file ends the program; a disabled guard changes no rule.
run(c) ==
  /\ call[c].pc = "run"
  /\ IF adaptive.torn THEN Move(c, [pc |-> "failed"])
     ELSE Move(c, [cfg |-> loadConfig, f |-> 4, failed |-> FALSE,
                   pc |-> IF loadConfig.enabled THEN "chain" ELSE "ok"])
  /\ Same(UNCHANGED <<chain, jumps, faults>>)

\* resolveParentChain, then the chain is created unless it is there.
ensureChain(c) ==
  LET f == call[c].f parent == resolveParentChain(call[c].cfg, f) IN
  /\ call[c].pc = "chain"
  /\ \/ /\ parent \in {None, <<>>}
        /\ Move(c, NextFamily(c, call[c].failed \/ f = 4 \/ parent = <<>>))
        /\ UNCHANGED <<chain, faults>>
     \/ /\ parent \notin {None, <<>>}
        /\ chain' = [chain EXCEPT ![f] = IF @ = None THEN <<>> ELSE @]
        /\ Move(c, [pc |-> "match"]) /\ UNCHANGED faults
     \/ parent \notin {None, <<>>} /\ chain[f] = None /\ Fails(c) /\ UNCHANGED chain
  /\ Same(UNCHANGED jumps)

\* Mutant: a chain that has all the rules wanted passes, whatever else it has.
MatchSuperset(c) ==
  LET f == call[c].f desired == DesiredRules(call[c].cfg, f) IN
  /\ call[c].pc = "match"
  /\ IF Range(desired) \subseteq Range(chain[f]) THEN Move(c, [pc |-> "jump"])
     ELSE Move(c, [pc |-> "flush", rest |-> desired])
  /\ Same(UNCHANGED <<chain, jumps, faults>>)
\* The listing is compared as text: equal rules may be printed differently.
chainRulesMatch(c) ==
  LET f == call[c].f desired == DesiredRules(call[c].cfg, f) IN
  /\ call[c].pc = "match"
  /\ \/ chain[f] = desired /\ Move(c, [pc |-> "jump"])
     \/ Move(c, [pc |-> "flush", rest |-> desired])
  /\ Same(UNCHANGED <<chain, jumps, faults>>)

flushChain(c) ==
  /\ call[c].pc = "flush"
  /\ \/ chain' = [chain EXCEPT ![call[c].f] = <<>>] /\ Move(c, [pc |-> "append"]) /\ UNCHANGED faults
     \/ Fails(c) /\ UNCHANGED chain
  /\ Same(UNCHANGED jumps)

\* One rule of bootstrapFamily's loop; after the last one, on to the jump.
appendRule(c) ==
  LET rest == call[c].rest IN
  /\ call[c].pc = "append"
  /\ \/ /\ chain' = [chain EXCEPT ![call[c].f] = Append(@, Head(rest))]
        /\ Move(c, [rest |-> Tail(rest), pc |-> IF Len(rest) = 1 THEN "jump" ELSE "append"])
        /\ UNCHANGED faults
     \/ Fails(c) /\ UNCHANGED chain
  /\ Same(UNCHANGED jumps)

\* Jumps of an earlier configuration are left where they are.
ensureJumpRule(c) ==
  LET f == call[c].f jump == parentJumpRule(call[c].cfg, f) IN
  /\ call[c].pc = "jump"
  /\ \/ jumps' = [jumps EXCEPT ![f] = @ \cup {jump}] /\ Move(c, NextFamily(c, call[c].failed)) /\ UNCHANGED faults
     \/ jump \notin jumps[f] /\ Fails(c) /\ UNCHANGED jumps
  /\ Same(UNCHANGED chain)

-----------------------------------------------------------------------------
(* The launcher: the refresher, the reload and the restart *)

\* The first half of a tick: nothing to do while the fingerprint is the last one.
startPeriodicL4GuardRefresh ==
  /\ call["refresh"].pc = "idle" /\ ~Disabled /\ l4GuardConfigFingerprint # last
  /\ Move("refresh", [pc |-> "run", print |-> l4GuardConfigFingerprint])
  /\ UNCHANGED <<config, adaptive, past, env, chain, jumps, last, reloads, faults>>
\* The second half: a success is remembered under the fingerprint read before it.
RefreshDone ==
  LET c == call["refresh"] IN
  /\ c.pc \in {"ok", "failed"} /\ Move("refresh", Idle)
  /\ last' = IF c.pc = "ok" THEN c.print ELSE last
  /\ UNCHANGED <<config, adaptive, past, env, chain, jumps, reloads, faults>>

\* startOrReloadLocked, after the bundle was linked; the mutex admits one reload.
applyL4Guard ==
  /\ call["reload"].pc = "idle" /\ reloads < MaxReloads /\ reloads' = reloads + 1
  /\ config' \in Configs
  /\ Move("reload", [pc |-> IF Disabled THEN "ok" ELSE "run"])
  /\ UNCHANGED <<adaptive, past, env, chain, jumps, last, faults>>
ReloadDone ==
  /\ call["reload"].pc \in {"ok", "failed"} /\ Move("reload", Idle)
  /\ UNCHANGED <<config, adaptive, past, env, chain, jumps, last, reloads, faults>>
\* The launcher comes back: the files of that moment pass for applied ones,
\* and bootCurrent's start of nginx is what applies them.
RestartLauncher ==
  /\ reloads < MaxReloads /\ reloads' = reloads + 1
  /\ last' = l4GuardConfigFingerprint
  /\ call' = [c \in Callers |-> IF c = "reload" /\ ~Disabled THEN [Idle EXCEPT !.pc = "run"] ELSE Idle]
  /\ UNCHANGED <<config, adaptive, past, env, chain, jumps, faults>>

-----------------------------------------------------------------------------
(* The Sentinel, through its file *)

\* The file is truncated and written in place, so it may be met torn.
SaveAdaptiveIfChanged(entries, torn) ==
  /\ adaptive' = [torn |-> torn, entries |-> entries]
  /\ IF torn THEN faults < MaxFaults /\ faults' = faults + 1 ELSE UNCHANGED faults
  /\ past' = {} /\ last' = Outdated(last)
  /\ call' = [call EXCEPT !["refresh"].print = Outdated(@)]
  /\ UNCHANGED <<config, env, chain, jumps, reloads>>
Expire(ip) ==
  /\ adaptive.entries[ip] # None /\ ip \notin past /\ past' = past \cup {ip}
  /\ UNCHANGED <<config, adaptive, env, chain, jumps, last, call, reloads, faults>>

Init ==
  /\ config \in Configs /\ env \in Envs
  /\ adaptive = [torn |-> FALSE, entries |-> [ip \in Ips |-> None]]
  /\ past = {} /\ chain = [f \in Families |-> None] /\ jumps = [f \in Families |-> {}]
  /\ last = <<config, TRUE>>
  /\ call = [c \in Callers |-> Idle]
  /\ reloads = 0 /\ faults = 0

Guard(c) == run(c) \/ ensureChain(c) \/ chainRulesMatch(c) \/ flushChain(c) \/ appendRule(c) \/ ensureJumpRule(c)
Refresher == startPeriodicL4GuardRefresh \/ Guard("refresh") \/ RefreshDone
Next ==
  \/ Refresher \/ applyL4Guard \/ Guard("reload") \/ ReloadDone \/ RestartLauncher
  \/ \E entries \in Decisions, torn \in BOOLEAN : SaveAdaptiveIfChanged(entries, torn)
  \/ \E ip \in Ips : Expire(ip)
\* The refresher's ticker and a reload under way go on; the Sentinel publishes
\* on every interval, at least what it published before under a new updated_at.
Spec ==
  /\ Init /\ [][Next]_vars
  /\ WF_vars(Refresher) /\ WF_vars(Guard("reload") \/ ReloadDone)
  /\ WF_vars(SaveAdaptiveIfChanged(adaptive.entries, FALSE))

-----------------------------------------------------------------------------
\* What a new connection from ip to the ports of the linked configuration meets.
Enforced(ip, action) ==
  LET f == Family[ip] c == chain[f] cfg == env @@ config @@ Default IN
  /\ c # None /\ resolveParentChain(cfg, f) \notin {None, <<>>} /\ parentJumpRule(cfg, f) \in jumps[f]
  /\ \E i \in DOMAIN c : c[i][1] = action /\ c[i][2] = ip /\ \A j \in 1..(i - 1) : c[j][1] # "RETURN"
Guarded(ip) ==
  LET cfg == env @@ config @@ Default IN
  ~Disabled /\ cfg.enabled /\ resolveParentChain(cfg, Family[ip]) \notin {None, <<>>}

(* An address the Sentinel keeps publishing as dropped is dropped again and
   again, whatever reloads, failed commands, torn files and rules appended by
   the two callers at once did before. *)
DropEnforced ==
  \A ip \in Ips :
    <>[](Guarded(ip) /\ adaptive.entries[ip] = "drop" /\ ip \notin past) => []<>Enforced(ip, "drop")

(* An address that leaves the published entries for good is let through again
   for good: no stale rule of a racing reload or of a half-done application
   outlives the next publications. *)
DropLifted ==
  \A ip \in Ips : <>[](Guarded(ip) /\ adaptive.entries[ip] = None) => <>[]~Enforced(ip, "drop")
=============================================================================
