--------------------------- MODULE RuntimeLauncher ---------------------------
(***************************************************************************)
(* The launcher that supervises nginx (src/runtime/config/launcher): boot, *)
(* /reload, the exit of nginx, and the updates of the OWASP core rule set  *)
(* (CRS) that end in a reload of their own.                                *)
(*                                                                         *)
(* A revision is a number; 0 stands for the bootstrap page.  A CRS release *)
(* is a number, the order of isVersionGreater; 0 is the system fallback.   *)
(* A process slot stands for one nginx master from cmd.Start to the end of *)
(* its waitForExit goroutine.                                              *)
(***************************************************************************)
EXTENDS Naturals, FiniteSets

CONSTANTS MaxRev,      \* bound on the revisions the control plane publishes
          MaxRelease,  \* bound on the CRS releases
          Slot,        \* nginx process slots, a bound on exits not yet reaped
          Reloader,    \* callers of POST /reload
          Updater,     \* goroutines that update the CRS: API calls, the ticker
          Hourly,      \* the updaters that are the hourly ticker
          NoSlot, NoProc, Main,
          Faults       \* "io", "exit", "crash", "early"

ASSUME LauncherAssumption ==
  /\ MaxRev \in Nat \ {0} /\ MaxRelease \in Nat
  /\ IsFiniteSet(Slot) /\ NoSlot \notin Slot
  /\ Hourly \subseteq Updater /\ Reloader \cap Updater = {}
  /\ NoProc \notin Reloader \cup Updater /\ Main \notin Reloader \cup Updater
  /\ Main # NoProc
  /\ Faults \subseteq {"io", "exit", "crash", "early"}

VARIABLES pointer,  \* active/current.json, written by the control plane; 0: missing
          out,      \* the answer to the last /reload since the pointer changed
          link,     \* what the links under /etc/waf point to
          status,   \* runtimeStatus: revision (0: no bundle) and nginxRunning
          mu,       \* runtimeProcess.mu
          cmd,      \* runtimeProcess.cmd
          crsPath,  \* runtimeProcess.crsPath
          nginx,    \* the slots
          pc, rev,  \* per goroutine: its place, the revision or release it carries
          mgr,      \* crsManager: active release, hourlyAuto, firstStartDone
          saved,    \* crs-state/state.json
          dirs,     \* releases whose directory passes isValidCRSPath
          upstream, \* the newest release on GitHub
          overtaken \* history: updaters that had an older release to hand over
                    \* when the active one was activated

control == <<pointer, out>>
process == <<link, status, mu, cmd, crsPath>>
rules == <<mgr, saved, dirs, upstream, overtaken>>
vars == <<control, process, nginx, pc, rev, rules>>

Proc == {Main} \cup Reloader \cup Updater
Rev == 0..MaxRev
Release == 0..MaxRelease
Busy == {"fetch", "download", "activate"}
Manager == [active : Release, auto : BOOLEAN, first : BOOLEAN]
FreeSlot == [state |-> "none", rev |-> 0, rest |-> 0, hup |-> FALSE]

Place == {"idle", "first", "wait", "lock", "load", "links", "rest", "start", "spawn",
          "confirm", "bootstrap", "dead", "setPath"} \cup Busy
Process == [state : {"none", "live", "exited", "waited", "noticed"},
            rev : Rev, rest : Rev, hup : BOOLEAN]

ControlTyped == pointer \in Rev /\ out \in {"none", "ok", "failed"}
ProcessTyped ==
  /\ link \in [nginx : Rev, rest : Rev, crs : Release]
  /\ status \in [rev : Rev, running : BOOLEAN]
  /\ mu \in Proc \cup {NoProc} /\ cmd \in Slot \cup {NoSlot}
  /\ crsPath \in Release
PlacesTyped == pc \in [Proc -> Place] /\ rev \in [Proc -> Rev \cup Release]
RulesTyped ==
  /\ mgr \in Manager /\ saved \in Manager
  /\ dirs \subseteq 1..MaxRelease /\ upstream \in Release /\ overtaken \subseteq Updater
TypeOK ==
  /\ ControlTyped /\ ProcessTyped /\ nginx \in [Slot -> Process]
  /\ PlacesTyped /\ RulesTyped

Live == {k \in Slot : nginx[k].state = "live"}
IsReady == status.rev # 0 /\ status.running

Init ==
  /\ pointer \in {0, 1} /\ out = "none"
  /\ link = [nginx |-> 0, rest |-> 0, crs |-> 0]
  /\ status = [rev |-> 0, running |-> FALSE]
  /\ mu = NoProc /\ cmd = NoSlot /\ crsPath = 0
  /\ nginx = [k \in Slot |-> FreeSlot]
  /\ pc = [p \in Proc |-> IF p = Main THEN "first" ELSE "idle"]
  /\ rev = [p \in Proc |-> 0]
  /\ mgr = [active |-> 0, auto |-> FALSE, first |-> FALSE]
  /\ saved = mgr
  /\ dirs = {} /\ upstream \in Release /\ overtaken = {}

------------------------------------------------------------------------------
(***************************************************************************)
(* Starting: run() up to the boot.                                         *)
(***************************************************************************)

Goto(p, l) == pc' = [pc EXCEPT ![p] = l]

\* First start updates the rules, then crsPath = manager.ActivePath().
RunFirst ==
  /\ pc[Main] = "first"
  /\ \/ ~mgr.first /\ Goto(Main, "fetch") /\ UNCHANGED crsPath
     \/ mgr.first /\ Goto(Main, "wait") /\ crsPath' = mgr.active
  /\ UNCHANGED <<control, link, status, mu, cmd, nginx, rev, rules>>

\* waitForInitialBundle: with no configured wait it returns at once, with one it
\* returns when a bundle is there or ends the process.
WaitForInitialBundle ==
  /\ pc[Main] = "wait"
  /\ \/ Goto(Main, "load")
     \/ pointer = 0 /\ Goto(Main, "dead")
  /\ UNCHANGED <<control, process, nginx, rev, rules>>

\* bootBootstrapUI writes its own nginx.conf and starts nginx on it.
BootBootstrapUI ==
  /\ pc[Main] = "bootstrap"
  /\ link' = [link EXCEPT !.nginx = 0, !.rest = 0]
  /\ Goto(Main, "start")
  /\ UNCHANGED <<control, status, mu, cmd, crsPath, nginx, rev, rules>>

\* The HTTP server is up before bootCurrent runs.
Running ==
  \/ pc[Main] = "idle"
  \/ /\ "early" \in Faults
     /\ pc[Main] \in {"load", "links", "rest", "start", "spawn", "bootstrap"}

------------------------------------------------------------------------------
(***************************************************************************)
(* bootCurrent (without mu) and reloadCurrent (with mu).                   *)
(***************************************************************************)

StartReload(p) ==
  /\ p \in Reloader /\ pc[p] = "idle" /\ Running
  /\ Goto(p, "lock")
  /\ UNCHANGED <<control, process, nginx, rev, rules>>

Lock(p) ==
  /\ pc[p] = "lock" /\ mu = NoProc
  /\ mu' = p
  /\ Goto(p, "load")
  /\ UNCHANGED <<control, link, status, cmd, crsPath, nginx, rev, rules>>

\* The goroutine returns: run() ends the process unless only the pointer was
\* missing, the others unlock and answer.
Finish(p, answer) ==
  /\ mu' = IF mu = p THEN NoProc ELSE mu
  /\ Goto(p, IF p = Main /\ answer = "failed" THEN "dead" ELSE "idle")
  /\ out' = IF p \in Reloader THEN answer ELSE out
  /\ rev' = [rev EXCEPT ![p] = 0]

LoadCurrentBundle(p) ==
  /\ pc[p] = "load"
  /\ \/ /\ pointer = 0
        /\ status' = [status EXCEPT !.rev = 0]
        /\ \/ p = Main /\ Goto(p, "bootstrap") /\ UNCHANGED <<out, mu, rev>>
           \/ p # Main /\ Finish(p, "failed")
     \/ "io" \in Faults /\ Finish(p, "failed") /\ UNCHANGED status
     \/ /\ pointer # 0
        /\ rev' = [rev EXCEPT ![p] = pointer]
        /\ Goto(p, "links")
        /\ UNCHANGED <<out, mu, status>>
  /\ UNCHANGED <<pointer, link, cmd, crsPath, nginx, rules>>

\* prepareRuntimeLayout replaces nearly twenty links one after another; it can
\* fail between any two, so nginx.conf may be new while the rest is old.
RelinkNginx(p) ==
  /\ pc[p] = "links"
  /\ \/ link' = [link EXCEPT !.nginx = rev[p]] /\ Goto(p, "rest") /\ UNCHANGED <<out, mu, rev>>
     \/ "io" \in Faults /\ Finish(p, "failed") /\ UNCHANGED link
  /\ UNCHANGED <<pointer, status, cmd, crsPath, nginx, rules>>

\* The other links, and setActiveBundle.
RelinkRest(p) ==
  /\ pc[p] = "rest"
  /\ \/ /\ link' = [link EXCEPT !.rest = rev[p], !.crs = crsPath]
        /\ status' = [status EXCEPT !.rev = rev[p]]
        /\ Goto(p, "start")
        /\ UNCHANGED <<out, mu, rev>>
     \/ "io" \in Faults /\ Finish(p, "failed") /\ UNCHANGED <<link, status>>
  /\ UNCHANGED <<pointer, cmd, crsPath, nginx, rules>>

Confirmed(p) ==
  IF p = Main THEN Finish(p, "ok")
  ELSE Goto(p, "confirm") /\ UNCHANGED <<out, mu, rev>>

\* startOrReloadLocked: the guard script and nginx -t, then start or SIGHUP.  A
\* process that has exited but was not waited for still takes the signal.
StartOrReload(p) ==
  /\ pc[p] = "start"
  /\ \/ "io" \in Faults /\ Finish(p, "failed") /\ UNCHANGED nginx
     \/ /\ IF cmd = NoSlot THEN TRUE ELSE nginx[cmd].state \in {"none", "waited", "noticed"}
        /\ Goto(p, "spawn") /\ UNCHANGED <<out, mu, rev, nginx>>
     \/ /\ cmd # NoSlot
        /\ nginx[cmd].state \in {"live", "exited"}
        /\ nginx' = [nginx EXCEPT ![cmd].hup = nginx[cmd].state = "live"]
        /\ Confirmed(p)
  /\ UNCHANGED <<pointer, link, status, cmd, crsPath, rules>>

Spawn(p) ==
  /\ pc[p] = "spawn"
  /\ \/ \E k \in Slot :
          /\ nginx[k].state = "none"
          /\ nginx' = [nginx EXCEPT ![k] = [state |-> "live", rev |-> link.nginx,
                                            rest |-> link.rest, hup |-> FALSE]]
          /\ cmd' = k
          /\ status' = [status EXCEPT !.running = TRUE]
          /\ Confirmed(p)
     \/ "io" \in Faults /\ Finish(p, "failed") /\ UNCHANGED <<nginx, cmd, status>>
  /\ UNCHANGED <<pointer, link, crsPath, rules>>

\* Mutant: a reload that answers without waiting for the revision marker.
AnswerAtOnce(p) ==
  /\ pc[p] = "confirm"
  /\ Finish(p, "ok")
  /\ UNCHANGED <<pointer, link, status, cmd, crsPath, nginx, rules>>
\* waitForHTTPProxyRevision: a worker answers with the marker, or the time is up.
WaitForRevision(p) ==
  /\ pc[p] = "confirm"
  /\ \/ (\E k \in Live : nginx[k].rev = rev[p]) /\ Finish(p, "ok")
     \/ Finish(p, "failed")
  /\ UNCHANGED <<pointer, link, status, cmd, crsPath, nginx, rules>>

------------------------------------------------------------------------------
(***************************************************************************)
(* nginx: SIGHUP is handled later, the master may exit.                    *)
(***************************************************************************)

HandleHup(k) ==
  /\ k \in Live /\ nginx[k].hup
  /\ nginx' = [nginx EXCEPT ![k] = [state |-> "live", rev |-> link.nginx,
                                    rest |-> link.rest, hup |-> FALSE]]
  /\ UNCHANGED <<control, process, pc, rev, rules>>

\* Bound: one slot stays free, for the next start.
NginxExit(k) ==
  /\ "exit" \in Faults /\ k \in Live
  /\ \E f \in Slot : nginx[f].state = "none"
  /\ nginx' = [nginx EXCEPT ![k].state = "exited", ![k].hup = FALSE]
  /\ UNCHANGED <<control, process, pc, rev, rules>>

\* cmd.Wait returns and sets ProcessState.
WaitReturns(k) ==
  /\ nginx[k].state = "exited"
  /\ nginx' = [nginx EXCEPT ![k].state = "waited"]
  /\ UNCHANGED <<control, process, pc, rev, rules>>

\* Mutant: the exit is not recorded.
NoticeNothing(k) ==
  /\ nginx[k].state = "waited"
  /\ nginx' = [nginx EXCEPT ![k].state = "noticed"]
  /\ UNCHANGED <<control, process, pc, rev, rules>>
NoticeExit(k) ==
  /\ nginx[k].state = "waited"
  /\ nginx' = [nginx EXCEPT ![k].state = "noticed"]
  /\ status' = [status EXCEPT !.running = FALSE]
  /\ UNCHANGED <<control, link, mu, cmd, crsPath, pc, rev, rules>>

\* Mutant: the handle is cleared whoever it belongs to.
ForgetAny(k) ==
  /\ nginx[k].state = "noticed" /\ mu = NoProc
  /\ nginx' = [nginx EXCEPT ![k] = FreeSlot]
  /\ cmd' = NoSlot
  /\ UNCHANGED <<control, link, status, mu, crsPath, pc, rev, rules>>
\* The rest of waitForExit, under mu.
Forget(k) ==
  /\ nginx[k].state = "noticed" /\ mu = NoProc
  /\ nginx' = [nginx EXCEPT ![k] = FreeSlot]
  /\ cmd' = IF cmd = k THEN NoSlot ELSE cmd
  /\ UNCHANGED <<control, link, status, mu, crsPath, pc, rev, rules>>

------------------------------------------------------------------------------
(***************************************************************************)
(* crsManager; UpdateToLatest holds the manager's mutex throughout.        *)
(***************************************************************************)

\* saveStateLocked, whose error is dropped by every caller.
SaveState ==
  \/ saved' = mgr'
  \/ "io" \in Faults /\ UNCHANGED saved

StartUpdate(u) ==
  /\ u \in Updater /\ pc[u] = "idle" /\ Running
  /\ u \in Hourly => mgr.auto
  /\ Goto(u, "fetch")
  /\ UNCHANGED <<control, process, nginx, rev, rules>>

\* What follows an update: run() goes on, the others return or reload.
AfterUpdate(u, changed) ==
  Goto(u, IF u = Main THEN "wait" ELSE IF changed THEN "setPath" ELSE "idle")

\* Only run() reads crsPath from the manager.
TakePath(u) == crsPath' = IF u = Main THEN mgr'.active ELSE crsPath

\* fetchLatestReleaseLocked and the comparison; CheckForUpdates stops here.
FetchRelease(u) ==
  /\ pc[u] = "fetch" /\ \A v \in Updater \cup {Main} : pc[v] \notin {"download", "activate"}
  /\ \/ /\ "io" \in Faults
        /\ AfterUpdate(u, FALSE) /\ UNCHANGED <<mgr, rev>> /\ SaveState
     \/ /\ upstream <= mgr.active
        /\ mgr' = [mgr EXCEPT !.first = TRUE]
        /\ AfterUpdate(u, FALSE) /\ UNCHANGED rev /\ SaveState
     \/ /\ upstream > mgr.active
        /\ Goto(u, IF upstream \in dirs THEN "activate" ELSE "download")
        /\ rev' = [rev EXCEPT ![u] = upstream]
        /\ UNCHANGED <<mgr, saved>>
  /\ TakePath(u)
  /\ UNCHANGED <<control, link, status, mu, cmd, nginx, dirs, upstream, overtaken>>

\* Mutant: a download that fails its digest is used all the same.
DownloadUnverified(u) ==
  /\ pc[u] = "download"
  /\ Goto(u, "activate")
  /\ dirs' \in {dirs, dirs \cup {rev[u]}}
  /\ UNCHANGED <<control, process, nginx, rev, mgr, saved, upstream, overtaken>>
\* downloadAndExtractLocked unpacks into a pending directory, checks the digest
\* and renames: the release directory is complete or absent, even after a crash.
Download(u) ==
  /\ pc[u] = "download"
  /\ \/ /\ dirs' = dirs \cup {rev[u]}
        /\ Goto(u, "activate") /\ UNCHANGED <<rev, mgr, saved, crsPath>>
     \/ /\ "io" \in Faults
        /\ rev' = [rev EXCEPT ![u] = 0]
        /\ UNCHANGED <<dirs, mgr>> /\ SaveState
        /\ AfterUpdate(u, FALSE) /\ TakePath(u)
  /\ UNCHANGED <<control, link, status, mu, cmd, nginx, upstream, overtaken>>

ActivateRelease(u) ==
  /\ pc[u] = "activate"
  /\ mgr' = [mgr EXCEPT !.active = rev[u], !.first = TRUE]
  /\ SaveState
  /\ overtaken' = {v \in Updater : pc[v] = "setPath"}
  /\ AfterUpdate(u, TRUE) /\ TakePath(u)
  /\ UNCHANGED <<control, link, status, mu, cmd, nginx, rev, dirs, upstream>>

\* Mutant: the new path is not handed to the process.
SkipPath(u) ==
  /\ pc[u] = "setPath" /\ mu = NoProc
  /\ Goto(u, "lock")
  /\ UNCHANGED <<control, process, nginx, rev, rules>>
\* The path that the update returned, not the one the manager has by now.
SetCRSPath(u) ==
  /\ pc[u] = "setPath" /\ mu = NoProc
  /\ crsPath' = rev[u]
  /\ Goto(u, "lock")
  /\ UNCHANGED <<control, link, status, mu, cmd, nginx, rev, rules>>

SetHourlyAutoUpdate ==
  /\ Running /\ \A v \in Updater : pc[v] \notin {"download", "activate"}
  /\ mgr' = [mgr EXCEPT !.auto = ~@]
  /\ SaveState
  /\ UNCHANGED <<control, process, nginx, pc, rev, dirs, upstream, overtaken>>

------------------------------------------------------------------------------
(***************************************************************************)
(* The control plane publishes (and rolls back); GitHub gets a release;    *)
(* the container restarts and manager.Init reads the state file.           *)
(***************************************************************************)

Publish(v) ==
  /\ v \in 1..MaxRev /\ v # pointer
  /\ \A r \in Reloader : pc[r] = "idle"
  /\ pointer' = v /\ out' = "none"
  /\ UNCHANGED <<process, nginx, pc, rev, rules>>

NewRelease ==
  /\ upstream < MaxRelease
  /\ upstream' = upstream + 1
  /\ UNCHANGED <<control, process, nginx, pc, rev, mgr, saved, dirs, overtaken>>

Restart ==
  /\ pc[Main] = "dead" \/ "crash" \in Faults
  /\ status' = [rev |-> 0, running |-> FALSE]
  /\ mu' = NoProc /\ cmd' = NoSlot /\ crsPath' = 0
  /\ nginx' = [k \in Slot |-> FreeSlot]
  /\ pc' = [p \in Proc |-> IF p = Main THEN "first" ELSE "idle"]
  /\ rev' = [p \in Proc |-> 0]
  /\ mgr' = [saved EXCEPT !.active = IF @ \in dirs THEN @ ELSE 0]
  /\ SaveState /\ overtaken' = {}
  /\ UNCHANGED <<control, link, dirs, upstream>>

ProcStep(p) ==
  \/ LoadCurrentBundle(p) \/ RelinkNginx(p) \/ RelinkRest(p)
  \/ StartOrReload(p) \/ Spawn(p) \/ WaitForRevision(p)
  \/ FetchRelease(p) \/ Download(p) \/ ActivateRelease(p)

Next ==
  \/ RunFirst \/ WaitForInitialBundle \/ BootBootstrapUI
  \/ \E p \in Proc : ProcStep(p)
  \/ \E p \in Reloader \cup Updater : StartReload(p) \/ Lock(p)
  \/ \E u \in Updater : StartUpdate(u) \/ SetCRSPath(u)
  \/ \E k \in Slot : HandleHup(k) \/ NginxExit(k) \/ WaitReturns(k) \/ NoticeExit(k) \/ Forget(k)
  \/ \E v \in Rev : Publish(v)
  \/ SetHourlyAutoUpdate \/ NewRelease \/ Restart

Spec == Init /\ [][Next]_vars

------------------------------------------------------------------------------
(***************************************************************************)
(* Properties.                                                             *)
(***************************************************************************)

\* After a /reload answered 204, and until the control plane publishes again,
\* every nginx that lives serves the published revision, or has the whole of
\* it in its pending SIGHUP: late signals, half-replaced links, CRS reloads,
\* exits and restarts do not bring an older revision back.
TrafficOnPointer ==
  out = "ok" => \A k \in Live : /\ nginx[k].rev = pointer
                                /\ (nginx[k].rest = pointer \/ nginx[k].hup)

\* /readyz answers 200 only while an nginx lives or its exit is still on the
\* way to setNginxRunning (waitForExit against startOrReloadLocked).
ReadyNeedsNginx ==
  IsReady => \E k \in Slot : nginx[k].state \in {"live", "exited", "waited"}

\* Every nginx that lives is the one the launcher can signal, as long as no
\* reload runs before the boot is over: waitForExit of an old process does not
\* drop the handle of a new one.
Supervised == \A k \in Live : cmd = k

\* The rule set that nginx is linked to, and the one the next reload will link,
\* is a complete directory, whatever download fails or is cut short.
RulesUsable == {crsPath, link.crs, mgr.active} \subseteq dirs \cup {0}

\* With no update under way the reloads use the release the manager reports,
\* whatever number of updaters ran, failed or were cut short. The one exception
\* is the ticker and an API call that overtook each other: setCRSPath comes
\* after the manager's mutex is released, so the one that activated the older
\* release may hand it over last. The next release activated alone ends it.
RulesAgree ==
  Running /\ (\A u \in Updater : pc[u] = "idle") /\ overtaken = {} => crsPath = mgr.active

==============================================================================
