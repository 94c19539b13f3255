------------------------------ MODULE Sentinel ------------------------------
(***************************************************************************)
(* tarinio-sentinel: a loop that reads the access log, keeps a decaying    *)
(* score per site and address, climbs the ladder watch, throttle, drop,    *)
(* temp_ban, and publishes the addresses to throttle or drop together with *)
(* candidates for path rules.                                              *)
(*                                                                         *)
(* Scores are in hundredths. A unit of time is the half-life of a score.   *)
(* An entry of the log stands for n requests of one address to one site in *)
(* one unit. Go maps are walked in any order: where the order shows, the   *)
(* step chooses one. The machine learning signal (off by default) and the  *)
(* texts that explain a decision are left out.                             *)
(***************************************************************************)
EXTENDS Integers, Sequences, FiniteSets, SequencesExt, FiniteSetsExt

CONSTANTS
  IPs, Sites,   \* addresses are numbers, in the order of their text
  Env,          \* MODEL_* environment, 0 where unset
  Settings,     \* anti-DDoS settings an administrator may send
  Batches,      \* what nginx may log in a unit of time: sequences of entries
  None,
  MaxTime, MaxBatches,
  MaxFaults     \* bound on errors, crashes, rotations and new profiles

VARIABLES
  log,       \* access.log: a sequence of entries, None when there is no file
  clock,
  profile,   \* ddos-model/config.json of the active revision, or None
  st,        \* State of the process
  disk,      \* model-state.json: a state, or None when absent or torn
  file,      \* adaptive.json: what l4guard reads, None when absent or torn
  rules,     \* l7-suggestions.json, likewise
  pc,        \* step of Run, "down" between a crash and the restart
  lastWrite, \* lastAdaptiveWrite and lastSuggestionWrite
  faults,
  ever,      \* history: all that was ever logged
  heard      \* history: when an entry of an address was last read, or when no
             \* log was there to tell, by address

outputs == <<disk, file, rules, lastWrite>>
history == <<ever, heard>>
vars == <<log, clock, profile, st, pc, faults, outputs, history>>

-----------------------------------------------------------------------------
(* Configuration                                                           *)

\* LoadConfig: what is not positive takes its default, but for thresholds,
\* weights and emergency limits that are taken as they are.
Defaults ==
  [Watch |-> 100, TempBan |-> 1200, MinSignals |-> 2, Ticks |-> 2, Cooldown |-> 3, MaxActive |-> 50000,
   MaxPublished |-> 1000, Budget |-> 300, Inactive |-> 104, PublishInterval |-> 1, Hold |-> 7,
   MinHits |-> 20, MinUnique |-> 5, ShadowHits |-> 40, TemporaryHits |-> 80, PermanentHits |-> 160,
   MaxFP |-> 2, TemporaryHold |-> 1662, MinLifetime |-> 2493, SuggestInactive |-> 9972]
AsGiven ==
  [Throttle |-> 250, Drop |-> 600, W429 |-> 100, W403 |-> 180, W444 |-> 220, RPS |-> 180,
   UniqueIPs |-> 40, PerIP |-> 60, Botnet |-> 600, Single |-> 400]
LoadConfig ==
  [k \in DOMAIN Defaults \cup DOMAIN AsGiven |->
     IF k \in DOMAIN Defaults THEN IF Env[k] <= 0 THEN Defaults[k] ELSE Env[k]
     ELSE IF Env[k] = 0 THEN AsGiven[k] ELSE Env[k]]
  @@ [enabled |-> TRUE, sites |-> {}, ConnLimit |-> 0, RatePerSecond |-> 0, L7 |-> 0]

\* What a profile sets one by one, with the control plane's defaults.
Overlaid ==
  [Hold |-> 7, W429 |-> 100, W403 |-> 180, W444 |-> 220, RPS |-> 180, UniqueIPs |-> 40, PerIP |-> 60,
   Botnet |-> 600, Single |-> 400]
\* NormalizeSettings and ValidateSettings of the control plane, for what
\* reaches the model. The burst is bounded below by the rate.
NormalizeSettings(s) ==
  LET or(v, d) == IF v <= 0 THEN d ELSE v
      throttle == or(s.Throttle, 250)
      rate == or(s.RatePerSecond, 100) IN
  [k \in DOMAIN Overlaid |-> or(s[k], Overlaid[k])] @@
  [s EXCEPT !.Throttle = throttle, !.Drop = IF @ <= throttle THEN throttle + 50 ELSE @,
            !.ConnLimit = or(@, 200), !.RatePerSecond = rate, !.RateBurst = or(@, rate * 2)]
ValidateSettings(s) ==
  /\ s.ConnLimit > 0 /\ s.RatePerSecond > 0 /\ s.RateBurst >= s.RatePerSecond
  /\ s.enabled => s.Throttle > 0 /\ s.Drop > s.Throttle /\ s.Hold > 0
\* adaptiveModelScope: with site profiles, only the sites that asked for it.
adaptiveModelScope(s) ==
  [enabled |-> s.enabled /\ s.sites # {}, sites |-> IF s.enabled /\ s.sites # None THEN s.sites ELSE {}]
upsertAdaptiveModelArtifact(s) == adaptiveModelScope(s) @@ NormalizeSettings(s)

\* Mutant: the drop threshold is raised past the ban threshold.
KeepTempBan(base, p) ==
  IF ~p.enabled THEN [base EXCEPT !.enabled = FALSE]
  ELSE [base EXCEPT !.sites = p.sites, !.Throttle = p.Throttle, !.Drop = p.Drop,
                    !.Watch = IF @ >= p.Throttle THEN p.Throttle \div 2 ELSE @,
                    !.W403 = p.W403, !.RPS = p.RPS, !.UniqueIPs = p.UniqueIPs, !.PerIP = p.PerIP]

ApplyRuntimeProfile(base, p) ==
  LET throttle == IF p.Throttle > 0 THEN p.Throttle ELSE base.Throttle
      drop == IF p.Drop > throttle THEN p.Drop ELSE base.Drop
      pos(v, d) == IF v > 0 THEN v ELSE d
      limits == [base EXCEPT !.enabled = p.enabled, !.sites = p.sites, !.ConnLimit = p.ConnLimit,
                             !.RatePerSecond = p.RatePerSecond, !.L7 = p.L7] IN
  IF ~p.enabled THEN limits
  ELSE [k \in DOMAIN Overlaid |-> pos(p[k], base[k])] @@
       [limits EXCEPT !.Throttle = throttle, !.Drop = drop,
                      !.Watch = IF @ >= throttle THEN throttle \div 2 ELSE @,
                      !.TempBan = IF @ <= drop THEN drop + 200 ELSE @]
LoadRuntimeProfile(p) == IF p = None THEN LoadConfig ELSE ApplyRuntimeProfile(LoadConfig, p)
Config == LoadRuntimeProfile(profile)

\* The configured limits scale the emergency thresholds up.
EffectiveEmergencyThresholds(cfg) ==
  LET up(v, limit, w) == IF limit > 0 THEN Max({v, Min({limit * w, v * 3})}) ELSE v IN
  [rps |-> up(up(cfg.RPS, cfg.RatePerSecond, 3), cfg.L7, 4),
   perIP |-> up(up(cfg.PerIP, cfg.RatePerSecond, 2), cfg.L7, 2),
   unique |-> IF cfg.ConnLimit > 0
              THEN Max({cfg.UniqueIPs, Min({50, Max({20, cfg.ConnLimit \div 12})})})
              ELSE cfg.UniqueIPs]

-----------------------------------------------------------------------------
(* Signals                                                                 *)

Entries(items, ip) == SelectSeq(items, LAMBDA e : e.ip = ip)
Count(items, P(_)) == FoldLeft(LAMBDA n, e : IF P(e) THEN n + e.n ELSE n, 0, items)
Marked(items, mark) == Count(items, LAMBDA e : mark \in e.marks)
Seconds(items) == {items[k].when : k \in DOMAIN items}

\* The statistics of one address in one read, whatever time it spans.
IpStat(items) ==
  [count |-> Count(items, LAMBDA e : TRUE), notFound |-> Count(items, LAMBDA e : e.status = 404),
   blocked |-> Count(items, LAMBDA e : e.status \in {403, 429, 444}),
   badBehavior |-> Count(items, LAMBDA e : e.status = 429),
   sites |-> {items[k].site : k \in DOMAIN items} \ {None}, site |-> items[1].site,
   scanner |-> Count(items, LAMBDA e : e.scan # None), paths |-> Count(items, LAMBDA e : "fresh" \in e.marks),
   agent |-> Marked(items, "agent"), ja3 |-> Marked(items, "ja3"),
   auth |-> Marked(items, "auth failure"), antibot |-> Marked(items, "antibot")]

\* name, when it is raised, its weight
Candidates(t) ==
  {<<"rps", t.count > 30, (t.count - 30) * 5>>,
   <<"404_ratio", t.count >= 10 /\ t.notFound * 10 >= t.count * 4, (t.notFound * 200) \div t.count>>,
   <<"unique_paths", t.paths >= 20, (t.paths - 20) * 8>>,
   <<"scanner_paths", t.scanner > 0, t.scanner * 120>>,
   <<"ua_risk", t.agent > 0, Min({250, t.agent * 60})>>,
   <<"cross_site_spread", Cardinality(t.sites) >= 2, Min({200, (Cardinality(t.sites) - 1) * 80})>>,
   <<"blocked_ratio", t.count >= 10 /\ t.blocked * 10 >= t.count * 6, (t.blocked * 150) \div t.count>>,
   <<"ja3_risk", t.ja3 > 0, Min({400, t.ja3 * 200})>>,
   <<"credential_stuffing", t.auth >= 5, Min({300, (t.auth - 5) * 40})>>,
   <<"antibot_fail", t.antibot >= 3, Min({400, t.antibot * 80})>>,
   <<"bad_behavior", t.badBehavior >= 5, Min({300, (t.badBehavior - 5) * 30})>>,
   <<"ja3_antibot_correlation", t.ja3 > 0 /\ t.antibot >= 3, 100>>}
deriveSignalWeights(t) == {<<c[1], c[3]>> : c \in {x \in Candidates(t) : x[2] /\ x[3] > 0}}

StatusSignal(status) ==
  IF status = 429 THEN "status_429" ELSE IF status = 403 THEN "status_403" ELSE "status_444"
scoreWeight(cfg, status) ==
  IF status = 429 THEN cfg.W429 ELSE IF status = 403 THEN cfg.W403
  ELSE IF status = 444 THEN cfg.W444 ELSE 0

-----------------------------------------------------------------------------
(* Records                                                                 *)

Global == "global"
Key(site, ip) == <<IF site = None THEN Global ELSE site, ip>>
Decay(v, d) == IF d > 0 THEN v \div (2 ^ d) ELSE v
Fresh == [score |-> 0, top |-> << >>, seen |-> None, updated |-> None, stage |-> "", last |-> "",
          lastAt |-> None, cand |-> "", count |-> 0, expires |-> 0]
RecordAt(ips, key) == IF key \in DOMAIN ips THEN ips[key] ELSE Fresh
Raise(top, name, w) == (name :> (w + IF name \in DOMAIN top THEN top[name] ELSE 0)) @@ top

\* The score decays to the time of the event, which may lie before the last.
applyScore(ips, cfg, key, when, weight, reason) ==
  LET r == RecordAt(ips, key) IN
  IF weight <= 0 THEN ips
  ELSE (key :> [r EXCEPT !.score = weight + (IF r.updated = None THEN @ ELSE Decay(@, when - r.updated)),
                         !.top = Raise(@, reason, weight), !.seen = when, !.updated = when,
                         !.expires = when + cfg.Hold]) @@ ips
\* Twice the emergency threshold: drop at once, outside the budget.
applyImmediateDrop(ips, cfg, ip, when) ==
  LET key == Key(None, ip) r == RecordAt(ips, key) IN
  (key :> [r EXCEPT !.score = Max({@, cfg.Drop}), !.top = Raise(@, "emergency_drop", 100),
                    !.seen = when, !.updated = when, !.stage = "drop", !.last = "drop",
                    !.lastAt = when, !.expires = when + cfg.Hold]) @@ ips

-----------------------------------------------------------------------------
(* Scoring of the entries read                                             *)

ScoreStatuses(ips, cfg, items) ==
  FoldLeft(LAMBDA t, e : applyScore(t, cfg, Key(e.site, e.ip), e.when, scoreWeight(cfg, e.status) * e.n,
                                    StatusSignal(e.status)), ips, items)
\* All at the time of the tick: the order does not show.
ScoreSignals(ips, cfg, items, now) ==
  FoldSet(LAMBDA ip, t :
            LET mine == Entries(items, ip) IN
            IF mine = << >> THEN t
            ELSE FoldSet(LAMBDA w, u : applyScore(u, cfg, Key(mine[1].site, ip), now, w[2], w[1]),
                         t, deriveSignalWeights(IpStat(mine))),
          ips, IPs)
\* A second in which many addresses send much.
ScoreBotnet(ips, cfg, items, s) ==
  LET at == SelectSeq(items, LAMBDA e : e.when = s)
      from == {at[k].ip : k \in DOMAIN at} total == Count(at, LAMBDA e : TRUE)
      limit == EffectiveEmergencyThresholds(cfg) IN
  IF total < limit.rps \/ Cardinality(from) < limit.unique THEN ips
  ELSE FoldSet(LAMBDA ip, t :
                 IF total >= limit.rps * 2 /\ Cardinality(from) >= limit.unique * 2
                 THEN applyImmediateDrop(t, cfg, ip, s)
                 ELSE applyScore(t, cfg, Key(None, ip), s, cfg.Botnet, "emergency_botnet"), ips, from)
\* A second in which one address sends much.
ScoreFlood(ips, cfg, items, s) ==
  LET limit == EffectiveEmergencyThresholds(cfg).perIP
      total(ip) == Count(Entries(items, ip), LAMBDA e : e.when = s) IN
  FoldSet(LAMBDA ip, t :
            IF total(ip) < limit THEN t
            ELSE IF total(ip) >= limit * 2 THEN applyImmediateDrop(t, cfg, ip, s)
            ELSE applyScore(t, cfg, Key(None, ip), s, cfg.Single, "emergency_single"), ips, IPs)

-----------------------------------------------------------------------------
(* The decision for one record                                             *)

Hard == {"drop", "temp_ban"}
selectStage(cfg, score) ==
  IF score >= cfg.TempBan THEN "temp_ban" ELSE IF score >= cfg.Drop THEN "drop"
  ELSE IF score >= cfg.Throttle THEN "throttle" ELSE IF score >= cfg.Watch THEN "watch" ELSE ""
stageRank(stage) ==
  CASE stage = "watch" -> 1 [] stage = "throttle" -> 2 [] stage = "drop" -> 3 [] stage = "temp_ban" -> 4
    [] OTHER -> 0
countStrongSignals(top) == Cardinality({n \in DOMAIN top : top[n] >= 30})
Emergencies == {"emergency_botnet", "emergency_single", "emergency_drop"}
hasEmergencySignal(top) == DOMAIN top \cap Emergencies # {}
currentAction(r) == IF r.last # "" THEN r.last ELSE r.stage

\* The walk over the records first brings each up to date.
DecayRecord(r, now) ==
  LET d == now - r.updated
      kept == {n \in DOMAIN r.top : Decay(r.top[n], d) >= 1} IN
  IF d <= 0 THEN r
  ELSE [r EXCEPT !.score = Decay(@, d), !.top = [n \in kept |-> Decay(r.top[n], d)], !.updated = now]
\* Mutant: activity is when the record was last brought up to date.
ExpiredByUpdate(r, now, cfg) == now - r.updated > cfg.Inactive

isExpiredByInactivity(r, now, cfg) == now - r.seen > cfg.Inactive

\* Mutant: one strong signal is enough.
AnySignal(cfg, r) == selectStage(cfg, r.score)

\* drop and temp_ban need several strong signals or an emergency.
requiresMultiSignalGate(cfg, r) ==
  LET stage == selectStage(cfg, r.score) IN
  IF /\ stage \in Hard /\ cfg.MinSignals > 1 /\ countStrongSignals(r.top) < cfg.MinSignals
     /\ ~hasEmergencySignal(r.top)
  THEN "throttle" ELSE stage
isCooldownDeescalation(cfg, r, to, now) ==
  stageRank(to) < stageRank(currentAction(r)) /\ r.lastAt # None /\ now - r.lastAt < cfg.Cooldown
Desired(cfg, r, now) ==
  LET to == requiresMultiSignalGate(cfg, r) IN
  IF isCooldownDeescalation(cfg, r, to, now) THEN currentAction(r) ELSE to

\* The same wish for some ticks in a row, or an emergency, is a transition.
resolveActionTransition(cfg, r, to) ==
  LET n == IF r.cand = to THEN r.count + 1 ELSE 1
      done == hasEmergencySignal(r.top) \/ n >= cfg.Ticks IN
  IF to = currentAction(r) \/ done THEN [r EXCEPT !.cand = "", !.count = 0]
  ELSE [r EXCEPT !.cand = to, !.count = n]
Transitions(cfg, r, now) ==
  LET to == Desired(cfg, r, now) IN
  to # currentAction(r) /\ resolveActionTransition(cfg, r, to).count = 0

actionExpiry(cfg, stage, now) == now + cfg.Hold * (IF stage = "temp_ban" THEN 6 ELSE 1)
\* A transition past the budget is not made, and its count starts again.
Decide(cfg, r, now, granted) ==
  LET to == Desired(cfg, r, now) r1 == resolveActionTransition(cfg, r, to) IN
  IF granted THEN [r1 EXCEPT !.stage = to, !.last = to, !.lastAt = now, !.expires = actionExpiry(cfg, to, now)]
  ELSE [r1 EXCEPT !.stage = currentAction(r), !.expires = actionExpiry(cfg, currentAction(r), now)]

\* consumeActionBudget: at most Budget transitions in a window of a minute.
Minute == 7
WindowOpen(s, now) == s.window # None /\ now - s.window < Minute
ActionsLeft(s, cfg, now) == cfg.Budget - (IF WindowOpen(s, now) THEN s.used ELSE 0)
consumeActionBudget(s, cfg, now, n) ==
  IF n = 0 THEN s
  ELSE [s EXCEPT !.window = IF WindowOpen(s, now) THEN @ ELSE now,
                 !.used = n + IF WindowOpen(s, now) THEN @ ELSE 0]

\* evictOverflow: the lowest scores go, of equal ones the longest unseen.
Weaker(r, q) == r.score < q.score \/ (r.score = q.score /\ r.seen < q.seen)
evictOverflow(ips, cfg) ==
  {K \in SUBSET DOMAIN ips :
     /\ Cardinality(K) = Min({Cardinality(DOMAIN ips), cfg.MaxActive})
     /\ \A k \in K, x \in DOMAIN ips \ K : ~Weaker(ips[k], ips[x])}

-----------------------------------------------------------------------------
(* Suggested rules, by path prefix                                         *)

\* The first n of S.
Top(S, n, Before(_, _)) == {x \in S : Cardinality({y \in S : Before(y, x)}) < n}
Paths(items) == {items[k].scan : k \in DOMAIN items} \ {None}
scannerPathStat(items, path) ==
  LET hit == SelectSeq(items, LAMBDA e : e.scan = path) IN
  [hits |-> Count(hit, LAMBDA e : TRUE), success |-> Count(hit, LAMBDA e : e.status \in 200..399),
   unique |-> Cardinality({hit[k].ip : k \in DOMAIN hit}),
   first |-> Min(Seconds(hit)), last |-> Max(Seconds(hit))]
NewSuggestion(stat) == [status |-> "suggested", hits |-> 0, shadow |-> 0, fp |-> 0,
                        first |-> stat.first, last |-> stat.last, until |-> None]

\* Rate of false positives against MaxFP hundredths times num / den.
FPAbove(s, cfg, num, den) == s.fp * 100 * den > s.shadow * cfg.MaxFP * num
Promote(cfg, s, hits, now) ==
  LET back(status) == [s EXCEPT !.status = status, !.until = None]
      over == s.until # None /\ now > s.until
      proven == s.shadow >= cfg.PermanentHits /\ ~FPAbove(s, cfg, 1, 2) /\ now - s.first >= cfg.MinLifetime IN
  CASE s.status = "suggested" /\ hits >= cfg.ShadowHits -> [s EXCEPT !.status = "shadow"]
    [] s.status \in {"shadow", "temporary"} /\ FPAbove(s, cfg, 2, 1) -> back("suggested")
    [] s.status = "permanent" /\ FPAbove(s, cfg, 2, 1) -> [s EXCEPT !.status = "shadow"]
    [] s.status = "shadow" /\ ~FPAbove(s, cfg, 1, 1) /\ s.shadow >= cfg.TemporaryHits ->
         [s EXCEPT !.status = "temporary", !.until = now + cfg.TemporaryHold]
    [] s.status = "temporary" /\ ~FPAbove(s, cfg, 2, 1) /\ over ->
         back(IF proven THEN "permanent" ELSE "shadow")
    [] OTHER -> s
\* A path read this time but too rarely loses its suggestion; one not read
\* keeps it until it is inactive.
BuildSuggestion(cfg, stat, prev, now) ==
  LET counts == prev.status # "suggested" IN
  Promote(cfg, [prev EXCEPT !.hits = stat.hits, !.first = Min({@, stat.first}), !.last = Max({@, stat.last}),
                            !.shadow = @ + IF counts THEN stat.hits ELSE 0,
                            !.fp = @ + IF counts THEN stat.success ELSE 0], stat.hits, now)
buildRuleSuggestions(cfg, items, sugs, now) ==
  LET stat(path) == scannerPathStat(items, path)
      read == {path \in Paths(items) : stat(path).hits >= cfg.MinHits /\ stat(path).unique >= cfg.MinUnique}
      kept == {path \in DOMAIN sugs \ Paths(items) : now - sugs[path].last <= cfg.SuggestInactive}
      prev(path) == IF path \in DOMAIN sugs THEN sugs[path] ELSE NewSuggestion(stat(path))
      all == [path \in read |-> BuildSuggestion(cfg, stat(path), prev(path), now)]
             @@ [path \in kept |-> sugs[path]]
      before(x, y) == all[x].hits > all[y].hits \/ (all[x].hits = all[y].hits /\ x < y) IN
  [path \in Top(DOMAIN all, cfg.MaxPublished, before) |-> all[path]]

-----------------------------------------------------------------------------
(* The loop                                                                *)

NotYet == [adaptive |-> None, rules |-> None]
Empty == [offset |-> 0, ips |-> << >>, window |-> None, used |-> 0, sugs |-> << >>]

\* FileBackend.Read: past the end, the log was rotated and is read anew.
ReadLog(offset) == IF offset > Len(log) THEN log ELSE SubSeq(log, offset + 1, Len(log))
Hear(items) ==
  heard' = [ip \in IPs |-> IF Entries(items, ip) # << >> THEN clock ELSE heard[ip]]

Orders(items) == SetToSeqs(Seconds(items))
Scored(cfg, items, o1, o2) ==
  LET t1 == ScoreSignals(ScoreStatuses(st.ips, cfg, items), cfg, items, clock)
      t2 == FoldLeft(LAMBDA t, s : ScoreBotnet(t, cfg, items, s), t1, o1) IN
  FoldLeft(LAMBDA t, s : ScoreFlood(t, cfg, items, s), t2, o2)

\* What the walk over the records leaves when the transitions granted are made.
Walk(cfg, ips, granted) ==
  LET active == {k \in DOMAIN ips : ~isExpiredByInactivity(ips[k], clock, cfg)}
      after == [k \in active |-> Decide(cfg, DecayRecord(ips[k], clock), clock, k \in granted)] IN
  [k \in {x \in active : after[x].stage # "" \/ after[x].score >= 20} |-> after[k]]
Wanting(cfg, ips) ==
  {k \in DOMAIN ips : /\ ~isExpiredByInactivity(ips[k], clock, cfg)
                      /\ Transitions(cfg, DecayRecord(ips[k], clock), clock)}

\* Decay and counts of wishes alone are not saved.
Continue(changed) == pc' = IF changed THEN "save" ELSE "publish"

\* processTick, the model enabled: sites that did not ask for it are skipped.
TickEnabled(cfg) ==
  LET items == SelectSeq(ReadLog(st.offset), LAMBDA e : cfg.sites = {} \/ e.site \in cfg.sites) IN
  \E o1 \in Orders(items), o2 \in Orders(items) :
    LET ips == Scored(cfg, items, o1, o2)
        want == Wanting(cfg, ips)
        n == Min({Cardinality(want), ActionsLeft(st, cfg, clock)}) IN
    \E granted \in kSubset(n, want) :
      LET walked == Walk(cfg, ips, granted)
          spent == consumeActionBudget(st, cfg, clock, n) IN
      \E kept \in evictOverflow(walked, cfg) :
        /\ st' = [spent EXCEPT !.offset = Len(log), !.ips = [k \in kept |-> walked[k]],
                               !.sugs = buildRuleSuggestions(cfg, items, st.sugs, clock)]
        /\ Hear(items)
        /\ Continue(\/ st'.offset # st.offset \/ DOMAIN st'.ips # DOMAIN st.ips
                    \/ granted # {} \/ st'.sugs # st.sugs)
\* Disabled, it reads on and forgets everything else.
TickDisabled(offset) ==
  /\ st' = [Empty EXCEPT !.offset = offset] /\ UNCHANGED heard
  /\ Continue(offset # st.offset \/ st.ips # << >>)

Tick ==
  /\ pc = "tick"
  /\ \/ log # None /\ Config.enabled /\ TickEnabled(Config)
     \/ log # None /\ ~Config.enabled /\ TickDisabled(Len(log))
     \/ /\ log = None /\ Config.enabled /\ Continue(FALSE) /\ UNCHANGED st
        /\ heard' = [ip \in IPs |-> clock]
     \/ log = None /\ ~Config.enabled /\ TickDisabled(st.offset)
  /\ UNCHANGED <<log, clock, profile, faults, outputs, ever>>
\* Any other error of the read leaves everything for the next tick.
TickFails ==
  /\ pc = "tick" /\ log # None /\ faults < MaxFaults /\ faults' = faults + 1
  /\ pc' = "wait"
  /\ UNCHANGED <<log, clock, profile, st, outputs, history>>

\* The file is truncated, then written: an error or a crash may leave it torn.
saveState ==
  /\ pc = "save"
  /\ \/ disk' = st /\ UNCHANGED faults
     \/ faults < MaxFaults /\ faults' = faults + 1 /\ disk' \in {disk, None}
  /\ pc' = "publish"
  /\ UNCHANGED <<log, clock, profile, st, file, rules, lastWrite, history>>

\* An address is published for the global marker or for two sites.
Published(ip) ==
  {k \in DOMAIN st.ips : k[2] = ip /\ st.ips[k].stage \in {"throttle"} \cup Hard}
Worthy(ip) == Key(None, ip) \in Published(ip) \/ Cardinality(Published(ip)) >= 2
TopScore(ip) == Max({st.ips[k].score : k \in Published(ip)})
renderAdaptivePayload(cfg) ==
  LET worthy == {ip \in IPs : Worthy(ip)}
      before(x, y) == TopScore(x) > TopScore(y) \/ (TopScore(x) = TopScore(y) /\ x < y) IN
  [at |-> clock,
   entries |-> [ip \in Top(worthy, cfg.MaxPublished, before) |->
     [action |-> IF \E k \in Published(ip) : st.ips[k].stage \in Hard THEN "drop" ELSE "throttle",
      expires |-> Max({st.ips[k].expires : k \in Published(ip)})]]]
\* Not again within the interval; an error may leave the file torn.
Early(last) == last # None /\ clock - last < Config.PublishInterval
SaveAdaptiveIfChanged ==
  LET new == renderAdaptivePayload(Config) skip == file = new \/ Early(lastWrite.adaptive) IN
  /\ pc = "publish" /\ pc' = "suggest"
  /\ \/ skip /\ UNCHANGED <<file, lastWrite, faults>>
     \/ ~skip /\ file' = new /\ lastWrite' = [lastWrite EXCEPT !.adaptive = clock] /\ UNCHANGED faults
     \/ /\ ~skip /\ faults < MaxFaults /\ faults' = faults + 1
        /\ file' \in {file, None} /\ UNCHANGED lastWrite
  /\ UNCHANGED <<log, clock, profile, st, disk, rules, history>>
SaveSuggestionsIfChanged ==
  LET new == [at |-> clock, items |-> st.sugs] skip == rules = new \/ Early(lastWrite.rules) IN
  /\ pc = "suggest" /\ pc' = "wait"
  /\ \/ skip /\ UNCHANGED <<rules, lastWrite, faults>>
     \/ ~skip /\ rules' = new /\ lastWrite' = [lastWrite EXCEPT !.rules = clock] /\ UNCHANGED faults
     \/ /\ ~skip /\ faults < MaxFaults /\ faults' = faults + 1
        /\ rules' \in {rules, None} /\ UNCHANGED lastWrite
  /\ UNCHANGED <<log, clock, profile, st, disk, file, history>>

\* Run starts, or starts again, from what the state file holds.
loadState ==
  /\ pc = "down" /\ pc' = "tick"
  /\ st' = IF disk = None THEN Empty ELSE disk
  /\ lastWrite' = NotYet
  /\ UNCHANGED <<log, clock, profile, faults, disk, file, rules, history>>
Crash ==
  /\ pc # "down" /\ faults < MaxFaults /\ faults' = faults + 1
  /\ pc' = "down" /\ st' = Empty
  /\ disk' \in IF pc = "save" THEN {disk, None} ELSE {disk}
  /\ file' \in IF pc = "publish" THEN {file, None} ELSE {file}
  /\ rules' \in IF pc = "suggest" THEN {rules, None} ELSE {rules}
  /\ lastWrite' = NotYet
  /\ UNCHANGED <<log, clock, profile, history>>

-----------------------------------------------------------------------------
(* Its surroundings                                                        *)

\* nginx logs at most one batch in a unit of time, before the tick of that
\* unit; a tick that fails or a process that is down reads it later.
Log(b) ==
  /\ pc \in {"tick", "down"} /\ Cardinality(Seconds(ever)) < MaxBatches /\ clock \notin Seconds(ever)
  /\ LET new == [k \in DOMAIN b |-> [b[k] EXCEPT !.when = clock]] IN
     /\ log' = (IF log = None THEN << >> ELSE log) \o new
     /\ ever' = ever \o new
  /\ UNCHANGED <<clock, profile, st, pc, faults, outputs, heard>>
\* The log is moved away: the next line makes a new one.
Rotate ==
  /\ pc \in {"tick", "down"} /\ log # None /\ faults < MaxFaults /\ faults' = faults + 1
  /\ log' = None
  /\ UNCHANGED <<clock, profile, st, pc, outputs, history>>
Advance ==
  /\ clock < MaxTime /\ clock' = clock + 1
  /\ pc \in {"wait", "down"} /\ pc' = IF pc = "wait" THEN "tick" ELSE pc
  /\ UNCHANGED <<log, profile, st, faults, outputs, history>>
\* A revision with other settings becomes active; a round of the loop reads the
\* profile when it begins.
Activate(s) ==
  /\ pc \in {"tick", "down"} /\ faults < MaxFaults /\ faults' = faults + 1
  /\ ValidateSettings(NormalizeSettings(s))
  /\ profile' = upsertAdaptiveModelArtifact(s) /\ profile' # profile
  /\ UNCHANGED <<log, clock, st, pc, outputs, history>>

Init ==
  /\ log = None /\ clock = 0 /\ profile = None /\ st = Empty /\ pc = "down" /\ faults = 0
  /\ disk = None /\ file = None /\ rules = None /\ lastWrite = NotYet
  /\ ever = << >> /\ heard = [ip \in IPs |-> None]

Run == Tick \/ TickFails \/ saveState \/ SaveAdaptiveIfChanged \/ SaveSuggestionsIfChanged
Next ==
  \/ Run \/ loadState \/ Crash \/ Rotate \/ Advance
  \/ \E b \in Batches : Log(b)
  \/ \E s \in Settings : Activate(s)

Spec == Init /\ [][Next]_vars

-----------------------------------------------------------------------------
\* No source is dropped or banned on one kind of evidence, whatever is
\* decayed, read late, read twice after a torn state file or under another
\* profile: some stretch of the log raises as many signals as the promotion
\* needs, or some second of it is an emergency.
Stretches == {SubSeq(ever, i, j) : i, j \in DOMAIN ever}
Kinds(ip) ==
  UNION {LET mine == Entries(s, ip) IN
         IF mine = << >> THEN {} ELSE {w[1] : w \in deriveSignalWeights(IpStat(mine))} : s \in Stretches}
  \cup {StatusSignal(ever[k].status) : k \in {x \in DOMAIN ever : ever[x].ip = ip /\ ever[x].status \in {403, 429, 444}}}
Configs == {LoadConfig} \cup {ApplyRuntimeProfile(LoadConfig, upsertAdaptiveModelArtifact(s)) : s \in Settings}
Emergency(ip) ==
  \E cfg \in Configs, s \in Seconds(ever) :
    LET limit == EffectiveEmergencyThresholds(cfg)
        at == SelectSeq(ever, LAMBDA e : e.when = s) IN
    \/ Count(Entries(at, ip), LAMBDA e : TRUE) >= limit.perIP
    \/ /\ Entries(at, ip) # << >> /\ Count(at, LAMBDA e : TRUE) >= limit.rps
       /\ Cardinality({at[k].ip : k \in DOMAIN at}) >= limit.unique
HardBlockEarned ==
  \A k \in DOMAIN st.ips :
    st.ips[k].stage \in Hard => Emergency(k[2]) \/ Cardinality(Kinds(k[2])) >= LoadConfig.MinSignals

\* A source that has gone quiet is released: none is published that was not
\* heard of for longer than the inactivity limit, however high its score,
\* however scarce the budget for stepping down, and whatever state file the
\* process restarted from. (Without a log it is not: nothing is then decayed.)
QuietReleased ==
  file # None => \A ip \in DOMAIN file.entries : file.at - heard[ip] <= LoadConfig.Inactive

\* Whatever settings the control plane accepts and whatever the environment
\* says, the ladder of the running model is in order.
ThresholdsOrdered ==
  profile # None /\ profile.enabled =>
    LET c == Config IN c.Watch < c.Throttle /\ c.Throttle < c.Drop /\ c.Drop < c.TempBan
=============================================================================
