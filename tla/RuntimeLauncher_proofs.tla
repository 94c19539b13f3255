----------------------- MODULE RuntimeLauncher_proofs -----------------------
(***************************************************************************)
(* The launcher of nginx, for any number of revisions, releases, nginx     *)
(* processes, callers of /reload and updaters of the rule set.             *)
(***************************************************************************)
EXTENDS RuntimeLauncher, TLAPS

Loaded == {"links", "rest", "start", "spawn", "confirm"}
Relinking == {"links", "rest"}
\* The number a goroutine carries: the revision it loaded, or the release it
\* fetched.
Carried ==
  \A p \in Proc :
    /\ pc[p] \in Relinking => rev[p] \in Rev
    /\ pc[p] \in {"download", "activate", "setPath"} => rev[p] \in 1..MaxRelease
Typed == TypeOK /\ Carried

\* A release is activated, and handed over as a path, only once its directory
\* is complete.
RulesReady ==
  /\ RulesUsable
  /\ \A p \in Proc : pc[p] \in {"activate", "setPath"} => rev[p] \in dirs

\* Between setNginxRunning(true) and (false) there is a process to wait for.
RunningNginx == status.running => \E k \in Slot : nginx[k].state \in {"live", "exited", "waited"}

\* Nobody else runs before the rules are updated at the first start, and, if no
\* reload comes early, before the boot is over.
Other == Reloader \cup Updater
UpdateFirst == pc[Main] \in {"first", "wait"} \cup Busy => \A p \in Other : pc[p] = "idle"
BootFirst == pc[Main] # "idle" => \A p \in Other : pc[p] = "idle"

\* Whoever is inside a reload holds the mutex; no nginx lives when one is about
\* to be started.
Inside == {"load"} \cup Loaded
Exclusive == BootFirst /\ \A p \in Other : pc[p] \in Inside => mu = p
Spawning == \A p \in Proc : pc[p] = "spawn" => Live = {}

\* A caller of /reload works for the published revision, and what it has done
\* so far is not undone by others.
ReloadOK ==
  \A p \in Reloader :
    /\ pc[p] \in Loaded => rev[p] = pointer /\ pointer # 0
    /\ pc[p] \in Loaded \ {"links"} => link.nginx = rev[p]
    /\ pc[p] \in Loaded \ Relinking => link.rest = rev[p]
    /\ pc[p] = "confirm" => \A k \in Live : nginx[k].hup \/ nginx[k].rest = link.rest

\* After a successful answer everything that leads to nginx is of the published
\* revision: the links, what is being linked again, and what nginx serves.
Settled ==
  out = "ok" =>
    /\ pointer # 0 /\ link.nginx = pointer /\ link.rest = pointer
    /\ pc[Main] # "bootstrap"
    /\ \A p \in Proc : pc[p] \in Relinking => rev[p] = pointer
    /\ \A k \in Live : nginx[k].rev = pointer /\ (nginx[k].rest = pointer \/ nginx[k].hup)

\* The path in use is the one the manager reports, but for an update that has
\* activated a release and not handed it over yet, and for updates that
\* overtook each other.
Updating == {"first"} \cup Busy
PathOK ==
  /\ \A r \in Reloader : pc[r] \notin Busy \cup {"setPath"}
  /\ overtaken = {} =>
       /\ \A u \in Updater : pc[u] = "setPath" => rev[u] = mgr.active
       /\ pc[Main] \notin Updating /\ (\A u \in Updater : pc[u] # "setPath") => crsPath = mgr.active

-----------------------------------------------------------------------------
(* Types                                                                   *)

\* Launcher, links, processes and rule sets have their types at first.
LEMMA TypedInit == Init => Typed
<1> SUFFICES ASSUME Init PROVE Typed
  OBVIOUS
<1> USE LauncherAssumption DEF Init, Rev, Release
<1>1. ControlTyped
  BY DEF ControlTyped
<1>2. ProcessTyped
  BY DEF ProcessTyped
<1>3. nginx \in [Slot -> Process]
  BY DEF Process, FreeSlot
<1>4. PlacesTyped /\ Carried
  BY DEF PlacesTyped, Place, Carried, Relinking
<1>5. RulesTyped
  BY DEF RulesTyped, Manager
<1> QED
  BY <1>1, <1>2, <1>3, <1>4, <1>5 DEF Typed, TypeOK

\* A goroutine moves, with the number it has or a new one.
LEMMA Moved ==
  ASSUME NEW p \in Proc, NEW l \in Place, PlacesTyped, Goto(p, l)
  PROVE  /\ pc' \in [Proc -> Place] /\ pc'[p] = l
         /\ \A q \in Proc \ {p} : pc'[q] = pc[q]
  BY DEF PlacesTyped, Goto

\* A goroutine that takes up a revision or a release leaves those of the others.
LEMMA Renumbered ==
  ASSUME NEW p \in Proc, NEW n \in Rev \cup Release, PlacesTyped, rev' = [rev EXCEPT ![p] = n]
  PROVE  /\ rev' \in [Proc -> Rev \cup Release] /\ rev'[p] = n
         /\ \A q \in Proc \ {p} : rev'[q] = rev[q]
  BY DEF PlacesTyped

\* A goroutine that returns is idle, or ends the process.
LEMMA Finished ==
  ASSUME NEW p \in Proc, NEW a \in {"ok", "failed"}, TypeOK, Finish(p, a)
  PROVE  /\ PlacesTyped' /\ out' \in {"none", "ok", "failed"} /\ mu' \in Proc \cup {NoProc}
         /\ pc'[p] \in {"idle", "dead"} /\ (p # Main => pc'[p] = "idle")
         /\ \A q \in Proc \ {p} : pc'[q] = pc[q] /\ rev'[q] = rev[q]
<1>1. PlacesTyped
  BY DEF TypeOK
<1>2. (IF p = Main /\ a = "failed" THEN "dead" ELSE "idle") \in Place
  BY DEF Place
<1>3. 0 \in Rev \cup Release
  BY LauncherAssumption DEF Rev
<1> QED
  BY <1>1, <1>2, <1>3, Moved, Renumbered
     DEF Finish, PlacesTyped, TypeOK, ControlTyped, ProcessTyped

\* Nothing happens to the other goroutines.
Alone(p) == \A q \in Proc \ {p} : pc'[q] = pc[q] /\ rev'[q] = rev[q]

\* Where the step of a goroutine takes it, and what it carries there.
LEMMA PlaceStep ==
  ASSUME NEW p \in Proc, Typed, ProcStep(p)
  PROVE  /\ PlacesTyped' /\ Alone(p)
         /\ pc'[p] \in Relinking => rev'[p] \in Rev
         /\ pc'[p] \in {"download", "activate", "setPath"} => rev'[p] \in 1..MaxRelease
<1>0. TypeOK /\ Carried /\ PlacesTyped
  BY DEF Typed, TypeOK
<1>a. ASSUME NEW a \in {"ok", "failed"}, Finish(p, a)
      PROVE  PlacesTyped' /\ Alone(p) /\ pc'[p] \in {"idle", "dead"}
  BY <1>0, <1>a, Finished DEF Alone
<1>b. ASSUME NEW l \in Place, Goto(p, l), UNCHANGED rev
      PROVE  PlacesTyped' /\ Alone(p) /\ pc'[p] = l /\ rev'[p] = rev[p]
  BY <1>0, <1>b, Moved DEF Alone, PlacesTyped
<1>c. ASSUME NEW l \in Place, Goto(p, l), NEW n \in Rev \cup Release, rev' = [rev EXCEPT ![p] = n]
      PROVE  PlacesTyped' /\ Alone(p) /\ pc'[p] = l /\ rev'[p] = n
  BY <1>0, <1>c, Moved, Renumbered DEF Alone, PlacesTyped
<1>d. Loaded \subseteq Place /\ {"idle", "wait", "bootstrap", "download", "activate", "setPath"} \subseteq Place
  BY DEF Loaded, Place, Busy
<1>e. pc[p] \in Relinking => rev[p] \in Rev
  BY <1>0 DEF Carried
<1>f. pc[p] \in {"download", "activate", "setPath"} => rev[p] \in 1..MaxRelease
  BY <1>0 DEF Carried
<1> USE DEF Loaded, Relinking
<1>1. CASE LoadCurrentBundle(p)
  <2>1. pointer \in Rev
    BY <1>0 DEF TypeOK, ControlTyped
  <2>2. \/ Goto(p, "bootstrap") /\ UNCHANGED rev
        \/ Finish(p, "failed")
        \/ Goto(p, "links") /\ rev' = [rev EXCEPT ![p] = pointer]
    BY <1>1 DEF LoadCurrentBundle
  <2> QED
    BY <1>a, <1>b, <1>c, <1>d, <2>1, <2>2
<1>2. CASE RelinkNginx(p) \/ RelinkRest(p)
  <2>1. /\ pc[p] \in Relinking
        /\ \/ Goto(p, "rest") /\ UNCHANGED rev
           \/ Goto(p, "start") /\ UNCHANGED rev
           \/ Finish(p, "failed")
    BY <1>2 DEF RelinkNginx, RelinkRest
  <2> QED
    BY <1>a, <1>b, <1>d, <1>e, <2>1
<1>3. CASE StartOrReload(p) \/ Spawn(p) \/ WaitForRevision(p)
  <2>1. /\ pc[p] \in Loaded
        /\ \/ Goto(p, "spawn") /\ UNCHANGED rev
           \/ Goto(p, "confirm") /\ UNCHANGED rev
           \/ Finish(p, "failed") \/ Finish(p, "ok")
    BY <1>3 DEF StartOrReload, Spawn, WaitForRevision, Confirmed
  <2> QED
    BY <1>a, <1>b, <1>d, <1>e, <2>1
<1>4. CASE FetchRelease(p)
  <2>1. upstream \in Nat /\ upstream <= MaxRelease /\ mgr.active \in Nat
    BY <1>0, LauncherAssumption DEF TypeOK, RulesTyped, Manager, Release
  <2>2. CASE UNCHANGED rev /\ AfterUpdate(p, FALSE)
    BY <1>b, <1>d, <2>2 DEF AfterUpdate
  <2>3. CASE /\ upstream > mgr.active /\ rev' = [rev EXCEPT ![p] = upstream]
             /\ Goto(p, IF upstream \in dirs THEN "activate" ELSE "download")
    <3>1. upstream \in 1..MaxRelease /\ upstream \in Rev \cup Release
      BY <2>1, <2>3, LauncherAssumption DEF Release
    <3> QED
      BY <1>c, <1>d, <2>3, <3>1
  <2> QED
    BY <1>4, <2>2, <2>3 DEF FetchRelease
<1>5. CASE Download(p)
  <2>1. CASE Goto(p, "activate") /\ UNCHANGED rev
    BY <1>5, <1>b, <1>d, <1>f, <2>1 DEF Download
  <2>2. CASE AfterUpdate(p, FALSE) /\ rev' = [rev EXCEPT ![p] = 0]
    <3>1. 0 \in Rev \cup Release
      BY LauncherAssumption DEF Rev
    <3> QED
      BY <1>c, <1>d, <2>2, <3>1 DEF AfterUpdate
  <2> QED
    BY <1>5, <2>1, <2>2 DEF Download
<1>6. CASE ActivateRelease(p)
  BY <1>6, <1>b, <1>d, <1>f DEF ActivateRelease, AfterUpdate
<1> QED
  BY <1>1, <1>2, <1>3, <1>4, <1>5, <1>6 DEF ProcStep

\* The steps that move one goroutine and leave its number alone.
LEMMA PlaceMoves ==
  ASSUME NEW p \in Proc, Typed,
         \/ p = Main /\ (RunFirst \/ WaitForInitialBundle \/ BootBootstrapUI)
         \/ StartReload(p) \/ Lock(p) \/ StartUpdate(p) \/ SetCRSPath(p)
  PROVE  /\ PlacesTyped' /\ Alone(p) /\ rev' = rev
         /\ pc'[p] \in {"fetch", "wait", "load", "dead", "lock", "start"} /\ (pc'[p] = "start" => p = Main)
<1>1. UNCHANGED rev /\ \E l \in {"fetch", "wait", "load", "dead", "lock", "start"} :
        Goto(p, l) /\ (l = "start" => p = Main)
  BY DEF RunFirst, WaitForInitialBundle, BootBootstrapUI, StartReload, Lock, StartUpdate, SetCRSPath
<1>2. {"fetch", "wait", "load", "dead", "lock", "start"} \subseteq Place
  BY DEF Place, Busy
<1> QED
  BY <1>1, <1>2, Moved DEF Typed, TypeOK, PlacesTyped, Alone

\* Every step keeps the places of the goroutines, and what they carry, well
\* typed.
LEMMA PlacesStep == Typed /\ [Next]_vars => PlacesTyped' /\ Carried'
<1> SUFFICES ASSUME Typed, [Next]_vars PROVE PlacesTyped' /\ Carried'
  OBVIOUS
<1>0. PlacesTyped /\ Carried
  BY DEF Typed, TypeOK
<1>1. ASSUME NEW p \in Proc, PlacesTyped', Alone(p),
             pc'[p] \in Relinking => rev'[p] \in Rev,
             pc'[p] \in {"download", "activate", "setPath"} => rev'[p] \in 1..MaxRelease
      PROVE  PlacesTyped' /\ Carried'
  BY <1>0, <1>1 DEF Carried, Alone
<1>2. ASSUME NEW p \in Proc, ProcStep(p) PROVE PlacesTyped' /\ Carried'
  BY <1>1, <1>2, PlaceStep
<1>3. ASSUME NEW p \in Proc,
             \/ p = Main /\ (RunFirst \/ WaitForInitialBundle \/ BootBootstrapUI)
             \/ StartReload(p) \/ Lock(p) \/ StartUpdate(p) \/ SetCRSPath(p)
      PROVE PlacesTyped' /\ Carried'
  BY <1>1, <1>3, PlaceMoves DEF Relinking
<1>4. CASE Restart
  <2>1. pc' \in [Proc -> {"first", "idle"}] /\ rev' = [p \in Proc |-> 0]
    BY <1>4 DEF Restart
  <2>2. {"first", "idle"} \subseteq Place /\ 0 \in Rev
    BY LauncherAssumption DEF Place, Rev
  <2> QED
    BY <2>1, <2>2 DEF PlacesTyped, Carried, Relinking
<1>5. CASE UNCHANGED <<pc, rev>>
  BY <1>0, <1>5 DEF PlacesTyped, Carried
<1> QED
  BY <1>2, <1>3, <1>4, <1>5 DEF Next, vars, Proc, HandleHup, NginxExit, WaitReturns, NoticeExit,
     Forget, Publish, SetHourlyAutoUpdate, NewRelease

\* Every step keeps the mutex, the pointer and the answers well typed.
LEMMA ControlStep == Typed /\ [Next]_vars => ControlTyped'
<1> SUFFICES ASSUME Typed, [Next]_vars PROVE ControlTyped'
  OBVIOUS
<1>0. TypeOK /\ ControlTyped
  BY DEF Typed, TypeOK
<1>1. ASSUME NEW p \in Proc, ProcStep(p) PROVE ControlTyped'
  <2>1. UNCHANGED pointer /\ (UNCHANGED out \/ Finish(p, "ok") \/ Finish(p, "failed"))
    BY <1>1 DEF ProcStep, LoadCurrentBundle, RelinkNginx, RelinkRest, StartOrReload, Spawn, Confirmed,
       WaitForRevision, FetchRelease, Download, ActivateRelease, control
  <2> QED
    BY <1>0, <2>1 DEF Finish, ControlTyped
<1>2. ASSUME NEW v \in Rev, Publish(v) PROVE ControlTyped'
  BY <1>0, <1>2 DEF Publish, ControlTyped
<1>3. CASE UNCHANGED control
  BY <1>0, <1>3 DEF ControlTyped, control
<1> QED
  BY <1>1, <1>2, <1>3 DEF Next, vars, control, RunFirst, WaitForInitialBundle, BootBootstrapUI, StartReload,
     Lock, StartUpdate, SetCRSPath, HandleHup, NginxExit, WaitReturns, NoticeExit, Forget,
     SetHourlyAutoUpdate, NewRelease, Restart

\* Every step keeps the table of nginx processes well typed.
LEMMA NginxStep == Typed /\ [Next]_vars => nginx' \in [Slot -> Process]
<1> SUFFICES ASSUME Typed, [Next]_vars PROVE nginx' \in [Slot -> Process]
  OBVIOUS
<1>0. nginx \in [Slot -> Process] /\ link.nginx \in Rev /\ link.rest \in Rev
  BY DEF Typed, TypeOK, ProcessTyped
<1>1. ASSUME NEW k \in Slot,
             nginx' = [nginx EXCEPT ![k] = [state |-> "live", rev |-> link.nginx,
                                            rest |-> link.rest, hup |-> FALSE]]
      PROVE  nginx' \in [Slot -> Process]
  <2>1. [state |-> "live", rev |-> link.nginx, rest |-> link.rest, hup |-> FALSE] \in Process
    BY <1>0 DEF Process
  <2> QED
    BY <1>0, <1>1, <2>1
<1>2. FreeSlot \in Process
  BY LauncherAssumption DEF FreeSlot, Process, Rev
<1>3. ASSUME NEW p \in Proc, StartOrReload(p) PROVE nginx' \in [Slot -> Process]
  <2>1. CASE UNCHANGED nginx
    BY <1>0, <2>1
  <2>2. CASE cmd # NoSlot /\ nginx' = [nginx EXCEPT ![cmd].hup = nginx[cmd].state = "live"]
    <3>1. cmd \in Slot
      BY <2>2 DEF Typed, TypeOK, ProcessTyped
    <3> QED
      BY <1>0, <2>2, <3>1 DEF Process
  <2> QED
    BY <1>3, <2>1, <2>2 DEF StartOrReload
<1>4. ASSUME NEW p \in Proc, Spawn(p) PROVE nginx' \in [Slot -> Process]
  BY <1>0, <1>1, <1>4 DEF Spawn
<1>5. ASSUME NEW k \in Slot, HandleHup(k) PROVE nginx' \in [Slot -> Process]
  BY <1>1, <1>5 DEF HandleHup
<1>6. ASSUME NEW k \in Slot, NginxExit(k) PROVE nginx' \in [Slot -> Process]
  BY <1>0, <1>6 DEF NginxExit, Process
<1>7. ASSUME NEW k \in Slot, WaitReturns(k) \/ NoticeExit(k) PROVE nginx' \in [Slot -> Process]
  BY <1>0, <1>7 DEF WaitReturns, NoticeExit, Process
<1>8. ASSUME NEW k \in Slot, Forget(k) PROVE nginx' \in [Slot -> Process]
  BY <1>0, <1>2, <1>8 DEF Forget
<1>9. CASE Restart
  BY <1>2, <1>9 DEF Restart
<1>10. CASE UNCHANGED nginx
  BY <1>0, <1>10
<1> QED
  BY <1>3, <1>4, <1>5, <1>6, <1>7, <1>8, <1>9, <1>10
     DEF Next, vars, ProcStep, RunFirst, WaitForInitialBundle, BootBootstrapUI, StartReload, Lock,
         LoadCurrentBundle, RelinkNginx, RelinkRest, WaitForRevision, FetchRelease, Download,
         ActivateRelease, StartUpdate, SetCRSPath, Publish, SetHourlyAutoUpdate, NewRelease

\* Every step keeps the rule sets and the state of their manager well typed.
LEMMA RulesStep == Typed /\ [Next]_vars => RulesTyped'
<1> SUFFICES ASSUME Typed, [Next]_vars PROVE RulesTyped'
  OBVIOUS
<1>0. RulesTyped /\ Carried
  BY DEF Typed, TypeOK
<1>1. ASSUME mgr' \in Manager, SaveState, dirs' \subseteq 1..MaxRelease, upstream' \in Release, overtaken' \subseteq Updater
      PROVE  RulesTyped'
  BY <1>0, <1>1 DEF SaveState, RulesTyped
<1>2. ASSUME NEW p \in Proc, FetchRelease(p) PROVE RulesTyped'
  <2>1. UNCHANGED <<dirs, upstream, overtaken>>
    BY <1>2 DEF FetchRelease
  <2>2. CASE UNCHANGED mgr /\ (UNCHANGED saved \/ SaveState)
    BY <1>0, <1>1, <2>1, <2>2 DEF RulesTyped
  <2>3. CASE mgr' = [mgr EXCEPT !.first = TRUE] /\ SaveState
    <3>1. mgr' \in Manager
      BY <1>0, <2>3 DEF RulesTyped, Manager
    <3> QED
      BY <1>0, <1>1, <2>1, <2>3, <3>1 DEF RulesTyped
  <2> QED
    BY <1>2, <2>2, <2>3 DEF FetchRelease
<1>3. ASSUME NEW p \in Proc, Download(p) PROVE RulesTyped'
  <2>1. rev[p] \in 1..MaxRelease
    BY <1>0, <1>3 DEF Download, Carried
  <2>2. UNCHANGED <<mgr, upstream, overtaken>> /\ (UNCHANGED saved \/ SaveState) /\ dirs' \in {dirs, dirs \cup {rev[p]}}
    BY <1>3 DEF Download
  <2> QED
    BY <1>0, <1>1, <2>1, <2>2 DEF RulesTyped
<1>4. ASSUME NEW p \in Proc, ActivateRelease(p) PROVE RulesTyped'
  <2>1. rev[p] \in Release
    BY <1>0, <1>4, LauncherAssumption DEF ActivateRelease, Carried, Release
  <2>2. mgr' \in Manager
    BY <1>0, <1>4, <2>1 DEF ActivateRelease, RulesTyped, Manager
  <2> QED
    BY <1>0, <1>1, <1>4, <2>2 DEF ActivateRelease, RulesTyped
<1>5. CASE SetHourlyAutoUpdate
  <2>1. mgr' \in Manager
    BY <1>0, <1>5 DEF SetHourlyAutoUpdate, RulesTyped, Manager
  <2> QED
    BY <1>0, <1>1, <1>5, <2>1 DEF SetHourlyAutoUpdate, RulesTyped
<1>6. CASE Restart
  <2>1. mgr' \in Manager
    BY <1>0, <1>6, LauncherAssumption DEF Restart, RulesTyped, Manager, Release
  <2> QED
    BY <1>0, <1>1, <1>6, <2>1 DEF Restart, RulesTyped
<1>7. CASE NewRelease
  BY <1>0, <1>7, LauncherAssumption DEF NewRelease, RulesTyped, Release
<1>8. CASE UNCHANGED rules
  BY <1>0, <1>8 DEF RulesTyped, rules
<1> QED
  BY <1>2, <1>3, <1>4, <1>5, <1>6, <1>7, <1>8
     DEF Next, vars, rules, ProcStep, RunFirst, WaitForInitialBundle, BootBootstrapUI, StartReload, Lock,
         LoadCurrentBundle, RelinkNginx, RelinkRest, StartOrReload, Spawn, WaitForRevision,
         StartUpdate, SetCRSPath, HandleHup, NginxExit, WaitReturns, NoticeExit, Forget, Publish

\* Every step keeps nginx, its links and the status well typed.
LEMMA ProcessStep == Typed /\ [Next]_vars => ProcessTyped'
<1> SUFFICES ASSUME Typed, [Next]_vars PROVE ProcessTyped'
  OBVIOUS
<1>0. TypeOK /\ ProcessTyped /\ ControlTyped /\ RulesTyped /\ Carried
  BY DEF Typed, TypeOK
<1>1. RulesTyped'
  BY RulesStep
<1>2. link' \in [nginx : Rev, rest : Rev, crs : Release]
  <2>1. ASSUME NEW p \in Proc, RelinkNginx(p) \/ RelinkRest(p) PROVE link' \in [nginx : Rev, rest : Rev, crs : Release]
    <3>1. rev[p] \in Rev
      BY <1>0, <2>1 DEF RelinkNginx, RelinkRest, Carried, Relinking
    <3>2. \/ UNCHANGED link \/ link' = [link EXCEPT !.nginx = rev[p]]
          \/ link' = [link EXCEPT !.rest = rev[p], !.crs = crsPath]
      BY <2>1 DEF RelinkNginx, RelinkRest
    <3> QED
      BY <1>0, <3>1, <3>2 DEF ProcessTyped
  <2>2. CASE BootBootstrapUI
    <3>1. 0 \in Rev
      BY LauncherAssumption DEF Rev
    <3> QED
      BY <1>0, <2>2, <3>1 DEF BootBootstrapUI, ProcessTyped
  <2>3. CASE UNCHANGED link
    BY <1>0, <2>3 DEF ProcessTyped
  <2> QED
    BY <2>1, <2>2, <2>3
       DEF Next, vars, process, ProcStep, RunFirst, WaitForInitialBundle, StartReload, Lock,
         LoadCurrentBundle, StartOrReload, Spawn, WaitForRevision, FetchRelease, Download, ActivateRelease,
         StartUpdate, SetCRSPath, HandleHup, NginxExit, WaitReturns, NoticeExit, Forget, Publish,
         SetHourlyAutoUpdate, NewRelease, Restart
<1>3. status' \in [rev : Rev, running : BOOLEAN]
  <2>1. ASSUME NEW p \in Proc, LoadCurrentBundle(p) \/ RelinkRest(p) PROVE status' \in [rev : Rev, running : BOOLEAN]
    <3>1. 0 \in Rev /\ (pc[p] = "rest" => rev[p] \in Rev)
      BY <1>0, LauncherAssumption DEF Carried, Relinking, Rev
    <3>2. \/ UNCHANGED status \/ status' = [status EXCEPT !.rev = 0]
          \/ pc[p] = "rest" /\ status' = [status EXCEPT !.rev = rev[p]]
      BY <2>1 DEF LoadCurrentBundle, RelinkRest
    <3> QED
      BY <1>0, <3>1, <3>2 DEF ProcessTyped
  <2>2. ASSUME NEW b \in BOOLEAN, status' = [status EXCEPT !.running = b] PROVE status' \in [rev : Rev, running : BOOLEAN]
    BY <1>0, <2>2 DEF ProcessTyped
  <2>3. ASSUME NEW p \in Proc, Spawn(p) PROVE UNCHANGED status \/ status' = [status EXCEPT !.running = TRUE]
    BY <2>3 DEF Spawn
  <2>4. CASE Restart
    BY <2>4, LauncherAssumption DEF Restart, Rev
  <2>5. CASE UNCHANGED status
    BY <1>0, <2>5 DEF ProcessTyped
  <2> QED
    BY <2>1, <2>2, <2>3, <2>4, <2>5
       DEF Next, vars, process, ProcStep, RunFirst, WaitForInitialBundle, BootBootstrapUI, StartReload, Lock,
         RelinkNginx, StartOrReload, WaitForRevision, FetchRelease, Download, ActivateRelease,
         StartUpdate, SetCRSPath, HandleHup, NginxExit, WaitReturns, NoticeExit, Forget, Publish,
         SetHourlyAutoUpdate, NewRelease
<1>4. mu' \in Proc \cup {NoProc}
  <2>1. ASSUME NEW p \in Proc, ProcStep(p) PROVE mu' \in Proc \cup {NoProc}
    <3>1. UNCHANGED mu \/ Finish(p, "ok") \/ Finish(p, "failed")
      BY <2>1 DEF ProcStep, LoadCurrentBundle, RelinkNginx, RelinkRest, StartOrReload, Spawn, Confirmed,
         WaitForRevision, FetchRelease, Download, ActivateRelease, process
    <3> QED
      BY <1>0, <3>1 DEF Finish, ProcessTyped
  <2>2. ASSUME NEW p \in Reloader \cup Updater, Lock(p) PROVE mu' \in Proc \cup {NoProc}
    BY <2>2 DEF Lock, Proc
  <2>3. CASE Restart
    BY <2>3 DEF Restart
  <2>4. CASE UNCHANGED mu
    BY <1>0, <2>4 DEF ProcessTyped
  <2> QED
    BY <2>1, <2>2, <2>3, <2>4
       DEF Next, vars, process, RunFirst, WaitForInitialBundle, BootBootstrapUI, StartReload,
         StartUpdate, SetCRSPath, HandleHup, NginxExit, WaitReturns, NoticeExit, Forget, Publish,
         SetHourlyAutoUpdate, NewRelease
<1>5. cmd' \in Slot \cup {NoSlot}
  BY <1>0 DEF ProcessTyped, Next, vars, process, ProcStep, RunFirst, WaitForInitialBundle, BootBootstrapUI,
     StartReload, Lock, LoadCurrentBundle, RelinkNginx, RelinkRest, StartOrReload, Spawn, WaitForRevision,
     FetchRelease, Download, ActivateRelease, StartUpdate, SetCRSPath, HandleHup, NginxExit, WaitReturns,
     NoticeExit, Forget, Publish, SetHourlyAutoUpdate, NewRelease, Restart
<1>6. crsPath' \in Release
  <2>1. mgr'.active \in Release
    BY <1>1 DEF RulesTyped, Manager
  <2>2. ASSUME NEW u \in Updater, SetCRSPath(u) PROVE crsPath' \in Release
    BY <1>0, <2>2, LauncherAssumption DEF SetCRSPath, Carried, Proc, Release
  <2>3. CASE crsPath' \in {crsPath, mgr'.active, 0}
    BY <1>0, <2>1, <2>3, LauncherAssumption DEF ProcessTyped, Release
  <2> QED
    BY <2>2, <2>3 DEF TakePath, Next, vars, process, rules, ProcStep, RunFirst, WaitForInitialBundle, BootBootstrapUI,
     StartReload, Lock, LoadCurrentBundle, RelinkNginx, RelinkRest, StartOrReload, Spawn, WaitForRevision,
     FetchRelease, Download, ActivateRelease, StartUpdate, HandleHup, NginxExit, WaitReturns,
     NoticeExit, Forget, Publish, SetHourlyAutoUpdate, NewRelease, Restart
<1> QED
  BY <1>2, <1>3, <1>4, <1>5, <1>6 DEF ProcessTyped

\* Every variable keeps its type, and a goroutine carries a revision while it
\* relinks and a release that exists while it updates the rules.
THEOREM TypeCorrect == Spec => []Typed
<1>1. Typed /\ [Next]_vars => Typed'
  BY PlacesStep, ControlStep, NginxStep, RulesStep, ProcessStep DEF Typed, TypeOK
<1> QED
  BY TypedInit, <1>1, PTL DEF Spec

-----------------------------------------------------------------------------
(* The rule sets                                                           *)

\* At first the rule set of the image is in use.
LEMMA RulesReadyInit == Init => RulesReady
  BY LauncherAssumption DEF Init, RulesReady, RulesUsable

\* A release gets into crsPath, the links and the manager from a goroutine that
\* has seen or made its directory, or from a state file checked against the
\* directories; no directory goes away.
LEMMA RulesReadyKept == Typed /\ RulesReady /\ [Next]_vars => RulesReady'
<1> SUFFICES ASSUME Typed, RulesReady, [Next]_vars PROVE RulesReady'
  OBVIOUS
<1> DEFINE Usable == dirs \cup {0}
<1>0. /\ crsPath \in Usable /\ link.crs \in Usable /\ mgr.active \in Usable
      /\ link \in [nginx : Rev, rest : Rev, crs : Release] /\ mgr \in Manager /\ saved \in Manager
  BY DEF RulesReady, RulesUsable, Typed, TypeOK, ProcessTyped, RulesTyped
<1>1. dirs \subseteq dirs'
  BY DEF Next, vars, rules, ProcStep, RunFirst, WaitForInitialBundle, BootBootstrapUI,
     StartReload, Lock, LoadCurrentBundle, RelinkNginx, RelinkRest, StartOrReload, Spawn, WaitForRevision,
     FetchRelease, Download, ActivateRelease, StartUpdate, SetCRSPath, HandleHup, NginxExit, WaitReturns,
     NoticeExit, Forget, Publish, SetHourlyAutoUpdate, NewRelease, Restart
<1>2. mgr'.active \in Usable'
  <2>1. ASSUME NEW p \in Proc, ActivateRelease(p) PROVE mgr'.active \in Usable'
    BY <1>0, <2>1 DEF ActivateRelease, RulesReady, Manager
  <2>2. CASE Restart
    BY <1>0, <2>2 DEF Restart, Manager
  <2>3. CASE UNCHANGED mgr \/ mgr' = [mgr EXCEPT !.first = TRUE] \/ mgr' = [mgr EXCEPT !.auto = ~@]
    BY <1>0, <1>1, <2>3 DEF Manager
  <2> QED
    BY <2>1, <2>2, <2>3 DEF Next, vars, rules, ProcStep, RunFirst, WaitForInitialBundle, BootBootstrapUI,
     StartReload, Lock, LoadCurrentBundle, RelinkNginx, RelinkRest, StartOrReload, Spawn, WaitForRevision,
     FetchRelease, Download, StartUpdate, SetCRSPath, HandleHup, NginxExit, WaitReturns,
     NoticeExit, Forget, Publish, SetHourlyAutoUpdate, NewRelease
<1>3. crsPath' \in Usable'
  <2>1. ASSUME NEW u \in Updater, SetCRSPath(u) PROVE crsPath' \in Usable'
    BY <1>1, <2>1 DEF SetCRSPath, RulesReady, Proc
  <2>2. CASE crsPath' \in {crsPath, mgr'.active, 0}
    BY <1>0, <1>1, <1>2, <2>2
  <2> QED
    BY <2>1, <2>2 DEF TakePath, Next, vars, process, rules, ProcStep, RunFirst, WaitForInitialBundle, BootBootstrapUI,
     StartReload, Lock, LoadCurrentBundle, RelinkNginx, RelinkRest, StartOrReload, Spawn, WaitForRevision,
     FetchRelease, Download, ActivateRelease, StartUpdate, HandleHup, NginxExit, WaitReturns,
     NoticeExit, Forget, Publish, SetHourlyAutoUpdate, NewRelease, Restart
<1>4. link'.crs \in Usable'
  <2>1. ASSUME NEW p \in Proc, RelinkNginx(p) \/ RelinkRest(p) PROVE link'.crs \in {link.crs, crsPath}
    BY <1>0, <2>1 DEF RelinkNginx, RelinkRest
  <2>2. CASE BootBootstrapUI
    BY <1>0, <1>1, <2>2 DEF BootBootstrapUI
  <2>3. CASE UNCHANGED link
    BY <1>0, <1>1, <2>3
  <2> QED
    BY <1>0, <1>1, <2>1, <2>2, <2>3
       DEF Next, vars, process, ProcStep, RunFirst, WaitForInitialBundle, StartReload, Lock,
         LoadCurrentBundle, StartOrReload, Spawn, WaitForRevision, FetchRelease, Download, ActivateRelease,
         StartUpdate, SetCRSPath, HandleHup, NginxExit, WaitReturns, NoticeExit, Forget, Publish,
         SetHourlyAutoUpdate, NewRelease, Restart
<1>5. ASSUME NEW q \in Proc, pc'[q] \in {"activate", "setPath"} PROVE rev'[q] \in dirs'
  <2>1. CASE pc'[q] = pc[q] /\ rev'[q] = rev[q]
    BY <1>1, <1>5, <2>1 DEF RulesReady
  <2>2. ASSUME NEW p \in Proc, ProcStep(p) PROVE rev'[q] \in dirs'
    <3>1. Alone(p) /\ PlacesTyped'
      BY <2>2, PlaceStep
    <3>2. CASE q = p
      <4>0. PlacesTyped /\ TypeOK /\ {"bootstrap", "wait", "idle", "activate", "download"} \cup Loaded \subseteq Place
        BY DEF Typed, TypeOK, Place, Busy, Loaded
      <4>1. CASE FetchRelease(p)
        <5>1. upstream \in Release
          BY <4>0 DEF TypeOK, RulesTyped
        <5>2. AfterUpdate(p, FALSE) => pc'[p] \in {"wait", "idle"}
          BY <4>0, Moved DEF AfterUpdate
        <5>3. upstream \notin dirs /\ Goto(p, "download") => pc'[p] = "download"
          BY <4>0, Moved
        <5>4. PICK n \in {upstream} : n \in dirs /\ rev' = [rev EXCEPT ![p] = n]
          BY <1>5, <3>2, <4>1, <5>2, <5>3 DEF FetchRelease
        <5> QED
          BY <1>1, <3>2, <4>0, <5>1, <5>4, Renumbered
      <4>2. CASE Download(p)
        <5>1. AfterUpdate(p, FALSE) => pc'[p] \in {"wait", "idle"}
          BY <4>0, Moved DEF AfterUpdate
        <5>2. dirs' = dirs \cup {rev[p]} /\ UNCHANGED rev
          BY <1>5, <3>2, <4>2, <5>1 DEF Download
        <5> QED
          BY <3>2, <5>2
      <4>3. CASE ActivateRelease(p)
        BY <1>1, <3>2, <4>3 DEF ActivateRelease, RulesReady
      <4>4. ASSUME Finish(p, "ok") \/ Finish(p, "failed") PROVE FALSE
        BY <1>5, <3>2, <4>0, <4>4, Finished
      <4>5. ASSUME NEW l \in Loaded \cup {"bootstrap"}, Goto(p, l) PROVE FALSE
        BY <1>5, <3>2, <4>0, <4>5, Moved DEF Loaded
      <4> QED
        BY <2>2, <4>1, <4>2, <4>3, <4>4, <4>5 DEF Loaded, ProcStep, LoadCurrentBundle, RelinkNginx, RelinkRest,
           StartOrReload, Spawn, Confirmed, WaitForRevision
    <3> QED
      BY <2>1, <3>1, <3>2 DEF Alone
  <2>3. ASSUME NEW p \in Proc,
               \/ p = Main /\ (RunFirst \/ WaitForInitialBundle \/ BootBootstrapUI)
               \/ StartReload(p) \/ Lock(p) \/ StartUpdate(p) \/ SetCRSPath(p)
        PROVE rev'[q] \in dirs'
    BY <1>5, <2>1, <2>3, PlaceMoves DEF Alone
  <2>4. CASE Restart
    BY <1>5, <2>4 DEF Restart
  <2>5. CASE UNCHANGED <<pc, rev>>
    BY <2>1, <2>5
  <2> QED
    BY <2>2, <2>3, <2>4, <2>5 DEF Next, vars, Proc, HandleHup, NginxExit, WaitReturns, NoticeExit,
       Forget, Publish, SetHourlyAutoUpdate, NewRelease
<1> QED
  BY <1>2, <1>3, <1>4, <1>5 DEF RulesReady, RulesUsable

\* The rule set nginx is linked to, and the one the next reload links, are
\* complete directories, for any number of updaters and releases and whatever
\* fails or restarts.
THEOREM RulesAlwaysUsable == Spec => []RulesUsable
<1>1. RulesReady => RulesUsable
  BY DEF RulesReady
<1> QED
  BY TypeCorrect, RulesReadyInit, RulesReadyKept, <1>1, PTL DEF Spec

-----------------------------------------------------------------------------
(* Readiness                                                               *)

Attended == {"live", "exited", "waited"}

\* Only NoticeExit and a restart take a process out of sight, and both record it.
LEMMA RunningKept == Typed /\ RunningNginx /\ [Next]_vars => RunningNginx'
<1> SUFFICES ASSUME Typed, RunningNginx, [Next]_vars PROVE RunningNginx'
  OBVIOUS
<1>0. nginx \in [Slot -> Process] /\ status \in [rev : Rev, running : BOOLEAN]
  BY DEF Typed, TypeOK, ProcessTyped
<1>1. ASSUME status'.running => status.running,
             \A k \in Slot : nginx[k].state \in Attended => nginx'[k].state \in Attended
      PROVE  RunningNginx'
  BY <1>1 DEF RunningNginx, Attended
<1>2. ASSUME ~status'.running PROVE RunningNginx'
  BY <1>2 DEF RunningNginx
<1>3. ASSUME NEW p \in Proc, Spawn(p) PROVE RunningNginx'
  <2>1. CASE UNCHANGED <<nginx, status>>
    BY <1>1, <2>1
  <2>2. CASE \E k \in Slot : nginx' = [nginx EXCEPT ![k] = [state |-> "live", rev |-> link.nginx,
                                            rest |-> link.rest, hup |-> FALSE]]
    BY <1>0, <2>2 DEF RunningNginx
  <2> QED
    BY <1>3, <2>1, <2>2 DEF Spawn
<1>4. ASSUME NEW p \in Proc, StartOrReload(p) PROVE RunningNginx'
  <2>1. UNCHANGED status
    BY <1>4 DEF StartOrReload
  <2>2. \A k \in Slot : nginx'[k].state = nginx[k].state
    BY <1>0, <1>4 DEF StartOrReload, Process
  <2> QED
    BY <1>1, <2>1, <2>2
<1>5. ASSUME NEW k \in Slot, HandleHup(k) \/ NginxExit(k) \/ WaitReturns(k) PROVE RunningNginx'
  <2>1. UNCHANGED status
    BY <1>5 DEF HandleHup, NginxExit, WaitReturns, process
  <2>2. \A j \in Slot : nginx[j].state \in Attended => nginx'[j].state \in Attended
    BY <1>0, <1>5 DEF HandleHup, NginxExit, WaitReturns, Process, Attended
  <2> QED
    BY <1>1, <2>1, <2>2
<1>6. ASSUME NEW k \in Slot, NoticeExit(k) PROVE RunningNginx'
  BY <1>0, <1>2, <1>6 DEF NoticeExit
<1>7. ASSUME NEW k \in Slot, Forget(k) PROVE RunningNginx'
  <2>1. \A j \in Slot : nginx[j].state \in Attended => nginx'[j].state \in Attended
    BY <1>0, <1>7 DEF Forget, Attended
  <2> QED
    BY <1>1, <1>7, <2>1 DEF Forget
<1>8. CASE Restart
  BY <1>2, <1>8 DEF Restart
<1>9. ASSUME NEW p \in Proc, LoadCurrentBundle(p) \/ RelinkRest(p) PROVE RunningNginx'
  <2>1. UNCHANGED nginx /\ status'.running = status.running
    BY <1>0, <1>9 DEF LoadCurrentBundle, RelinkRest
  <2> QED
    BY <1>1, <2>1
<1>10. CASE UNCHANGED <<nginx, status>>
  BY <1>1, <1>10
<1> QED
  BY <1>3, <1>4, <1>5, <1>6, <1>7, <1>8, <1>9, <1>10
     DEF Next, vars, process, ProcStep, RunFirst, WaitForInitialBundle, BootBootstrapUI, StartReload, Lock,
         RelinkNginx, WaitForRevision, FetchRelease, Download, ActivateRelease, StartUpdate, SetCRSPath,
         Publish, SetHourlyAutoUpdate, NewRelease

\* /readyz answers 200 only while nginx lives or its exit is about to be
\* recorded, also when reloads race the boot.
THEOREM ReadyIsTrue == Spec => []ReadyNeedsNginx
<1>1. Init => RunningNginx
  BY DEF Init, RunningNginx
<1>2. RunningNginx => ReadyNeedsNginx
  BY DEF RunningNginx, ReadyNeedsNginx, IsReady
<1> QED
  BY TypeCorrect, RunningKept, <1>1, <1>2, PTL DEF Spec

-----------------------------------------------------------------------------
(* The mutex and the boot                                                  *)

\* Nobody starts before the first update of the rules is over.
LEMMA UpdateFirstKept == Typed /\ UpdateFirst /\ [Next]_vars => UpdateFirst'
<1> SUFFICES ASSUME Typed, UpdateFirst, [Next]_vars PROVE UpdateFirst'
  OBVIOUS
<1> DEFINE Early == {"first", "wait"} \cup Busy
<1>0. Main \in Proc /\ Main \notin Other /\ Other \subseteq Proc
  BY LauncherAssumption DEF Proc, Other
<1>1. ASSUME NEW p \in Other, pc[Main] \notin Early, Alone(p) PROVE UpdateFirst'
  BY <1>0, <1>1 DEF UpdateFirst, Alone
<1>2. ASSUME NEW p \in Other, pc[p] # "idle", Alone(p) PROVE UpdateFirst'
  BY <1>0, <1>1, <1>2 DEF UpdateFirst
<1>3. ASSUME NEW p \in Other, ProcStep(p) PROVE UpdateFirst'
  <2>1. pc[p] # "idle"
    BY <1>3 DEF ProcStep, LoadCurrentBundle, RelinkNginx, RelinkRest, StartOrReload, Spawn,
       WaitForRevision, FetchRelease, Download, ActivateRelease
  <2> QED
    BY <1>0, <1>2, <1>3, <2>1, PlaceStep
<1>4. ASSUME NEW p \in Other, StartReload(p) \/ Lock(p) \/ StartUpdate(p) \/ SetCRSPath(p) PROVE UpdateFirst'
  <2>1. Alone(p)
    BY <1>0, <1>4, PlaceMoves
  <2>2. pc[p] # "idle" \/ Running
    BY <1>4 DEF StartReload, Lock, StartUpdate, SetCRSPath
  <2>3. Running => pc[Main] \notin Early
    BY DEF Running, Busy
  <2> QED
    BY <1>1, <1>2, <2>1, <2>2, <2>3
<1>5. ASSUME pc'[Main] \notin Early \/ pc[Main] \in Early, Alone(Main) PROVE UpdateFirst'
  BY <1>0, <1>5 DEF UpdateFirst, Alone
<1>6. CASE ProcStep(Main)
  <2>0. Alone(Main)
    BY <1>0, <1>6, PlaceStep
  <2>1. CASE pc[Main] \in Early
    BY <1>5, <2>0, <2>1
  <2>2. CASE pc[Main] \notin Early
    <3>1. pc'[Main] \notin Early
      <4>0. PlacesTyped /\ TypeOK /\ {"bootstrap"} \cup Loaded \subseteq Place
        BY DEF Typed, TypeOK, Place, Loaded
      <4>1. \/ Finish(Main, "ok") \/ Finish(Main, "failed")
            \/ \E l \in {"bootstrap"} \cup Loaded : Goto(Main, l)
        BY <1>6, <2>2 DEF ProcStep, LoadCurrentBundle, RelinkNginx, RelinkRest, StartOrReload, Spawn,
           Confirmed, WaitForRevision, FetchRelease, Download, ActivateRelease, Loaded, Busy
      <4>2. pc'[Main] \in {"idle", "dead", "bootstrap"} \cup Loaded
        BY <1>0, <4>0, <4>1, Finished, Moved
      <4> QED
        BY <4>2 DEF Loaded, Busy
    <3> QED
      BY <1>5, <2>0, <3>1
  <2> QED
    BY <2>1, <2>2
<1>7. CASE RunFirst \/ WaitForInitialBundle \/ BootBootstrapUI
  <2>0. Alone(Main) /\ pc'[Main] \in {"fetch", "wait", "load", "dead", "lock", "start"}
    BY <1>0, <1>7, PlaceMoves
  <2>1. CASE BootBootstrapUI
    <3>1. pc'[Main] = "start"
      BY <1>0, <2>1 DEF BootBootstrapUI, Goto, Typed, TypeOK, PlacesTyped
    <3> QED
      BY <1>5, <2>0, <3>1 DEF Busy
  <2>2. CASE RunFirst \/ WaitForInitialBundle
    BY <1>5, <2>0, <2>2 DEF RunFirst, WaitForInitialBundle
  <2> QED
    BY <1>7, <2>1, <2>2
<1>8. CASE Restart
  BY <1>0, <1>8 DEF Restart, UpdateFirst
<1>9. CASE UNCHANGED pc
  BY <1>9 DEF UpdateFirst
<1> QED
  BY <1>3, <1>4, <1>6, <1>7, <1>8, <1>9 DEF Next, vars, Proc, Other, HandleHup, NginxExit, WaitReturns,
     NoticeExit, Forget, Publish, SetHourlyAutoUpdate, NewRelease

\* The mutex after the step of a goroutine: it is released when it returns.
LEMMA MutexStep ==
  ASSUME NEW p \in Proc, Typed, ProcStep(p)
  PROVE  /\ pc[p] # "idle"
         /\ mu' = mu \/ (pc'[p] \in {"idle", "dead"} /\ mu' = IF mu = p THEN NoProc ELSE mu)
         /\ pc'[p] \in Inside => pc[p] \in Inside
<1>0. PlacesTyped /\ TypeOK /\ {"bootstrap", "wait", "idle", "setPath", "activate", "download"} \subseteq Place
  BY DEF Typed, TypeOK, Place, Busy
<1>1. \/ UNCHANGED mu \/ Finish(p, "ok") \/ Finish(p, "failed")
  BY DEF ProcStep, LoadCurrentBundle, RelinkNginx, RelinkRest, StartOrReload, Spawn, Confirmed,
     WaitForRevision, FetchRelease, Download, ActivateRelease, process
<1>2. CASE FetchRelease(p) \/ Download(p) \/ ActivateRelease(p)
  <2>1. \E l \in {"wait", "idle", "setPath", "activate", "download"} : Goto(p, l)
    BY <1>2 DEF FetchRelease, Download, ActivateRelease, AfterUpdate
  <2>2. pc'[p] \in {"wait", "idle", "setPath", "activate", "download"}
    BY <1>0, <2>1, Moved
  <2> QED
    BY <1>1, <1>2, <2>2, <1>0, Finished DEF FetchRelease, Download, ActivateRelease, Finish, Inside, Loaded
<1>3. CASE ~(FetchRelease(p) \/ Download(p) \/ ActivateRelease(p))
  <2>1. pc[p] \in Inside
    BY <1>3 DEF ProcStep, LoadCurrentBundle, RelinkNginx, RelinkRest, StartOrReload, Spawn,
       WaitForRevision, Inside, Loaded
  <2> QED
    BY <1>0, <1>1, <2>1, Finished DEF Finish, Inside, Loaded
<1> QED
  BY <1>2, <1>3

\* At first only the main goroutine runs.
LEMMA ExclusiveInit == Init => Exclusive
  BY LauncherAssumption DEF Init, Exclusive, BootFirst, Other, Proc, Inside, Loaded

\* If no reload comes before the boot is over, one goroutine at most is inside
\* a reload: the boot does without the mutex because it is alone.
LEMMA ExclusiveKept ==
  ASSUME "early" \notin Faults, Typed, Exclusive, [Next]_vars
  PROVE  Exclusive'
<1>0. Main \in Proc /\ Main \notin Other /\ Other \subseteq Proc /\ NoProc \notin Other
  BY LauncherAssumption DEF Proc, Other
<1>1. ASSUME NEW p \in Other, pc[Main] = "idle", Alone(p),
             \A q \in Other \ {p} : pc[q] \in Inside => mu' = q,
             pc'[p] \in Inside => mu' = p
      PROVE  Exclusive'
  BY <1>0, <1>1 DEF Exclusive, BootFirst, Alone
<1>2. ASSUME NEW p \in Other, ProcStep(p) PROVE Exclusive'
  <2>1. Alone(p) /\ pc[p] # "idle"
    BY <1>0, <1>2, PlaceStep, MutexStep
  <2>2. pc[Main] = "idle"
    BY <2>1 DEF Exclusive, BootFirst
  <2>3. pc'[p] \in Inside => mu' = p
    BY <1>0, <1>2, MutexStep DEF Exclusive, Inside, Loaded
  <2>4. \A q \in Other \ {p} : pc[q] \in Inside => mu' = q
    BY <1>0, <1>2, MutexStep DEF Exclusive
  <2> QED
    BY <1>1, <2>1, <2>2, <2>3, <2>4
<1>3. ASSUME NEW p \in Other, StartReload(p) \/ StartUpdate(p) \/ SetCRSPath(p) PROVE Exclusive'
  <2>1. Alone(p) /\ UNCHANGED mu
    BY <1>0, <1>3, PlaceMoves DEF StartReload, StartUpdate, SetCRSPath, process
  <2>2. pc[Main] = "idle"
    BY <1>3 DEF StartReload, StartUpdate, SetCRSPath, Running, Exclusive, BootFirst
  <2>3. pc'[p] \notin Inside
    <3>1. \E l \in {"lock", "fetch"} : Goto(p, l)
      BY <1>3 DEF StartReload, StartUpdate, SetCRSPath
    <3>2. PlacesTyped /\ {"lock", "fetch"} \subseteq Place
      BY DEF Typed, TypeOK, Place, Busy
    <3> QED
      BY <1>0, <3>1, <3>2, Moved DEF Inside, Loaded
  <2> QED
    BY <1>1, <2>1, <2>2, <2>3 DEF Exclusive
<1>4. ASSUME NEW p \in Other, Lock(p) PROVE Exclusive'
  <2>1. Alone(p) /\ mu = NoProc /\ mu' = p /\ pc[p] = "lock"
    BY <1>0, <1>4, PlaceMoves DEF Lock
  <2> QED
    BY <1>0, <1>1, <2>1 DEF Exclusive, BootFirst
<1>5. ASSUME Alone(Main), pc[Main] # "idle" PROVE Exclusive'
  BY <1>0, <1>5 DEF Exclusive, BootFirst, Alone, Inside, Loaded
<1>6. CASE ProcStep(Main)
  BY <1>0, <1>5, <1>6, PlaceStep, MutexStep
<1>7. CASE RunFirst \/ WaitForInitialBundle \/ BootBootstrapUI
  BY <1>0, <1>5, <1>7, PlaceMoves DEF RunFirst, WaitForInitialBundle, BootBootstrapUI
<1>8. CASE Restart
  BY <1>0, <1>8 DEF Restart, Exclusive, BootFirst, Inside, Loaded
<1>9. CASE UNCHANGED <<pc, mu>>
  BY <1>9 DEF Exclusive, BootFirst
<1> QED
  BY <1>2, <1>3, <1>4, <1>6, <1>7, <1>8, <1>9 DEF Next, vars, process, Proc, Other, HandleHup, NginxExit,
     WaitReturns, NoticeExit, Forget, Publish, SetHourlyAutoUpdate, NewRelease

\* One goroutine at most is inside a reload.
LEMMA OneInside ==
  ASSUME Exclusive, NEW p \in Proc, NEW q \in Proc, pc[p] \in Inside, pc[q] \in Inside
  PROVE  p = q
  BY LauncherAssumption DEF Exclusive, BootFirst, Other, Proc, Inside, Loaded

-----------------------------------------------------------------------------
(* The nginx process                                                       *)

\* No step but Spawn brings a process to life.
LEMMA LiveStep ==
  ASSUME Typed, [Next]_vars
  PROVE  \/ Live' \subseteq Live
         \/ \E p \in Proc, k \in Slot :
              /\ pc[p] = "spawn" /\ Spawn(p) /\ cmd' = k /\ Live' = Live \cup {k}
              /\ nginx'[k].rev = link.nginx /\ nginx'[k].rest = link.rest
              /\ \A j \in Slot \ {k} : nginx'[j] = nginx[j]
<1>0. nginx \in [Slot -> Process]
  BY DEF Typed, TypeOK
<1>1. ASSUME NEW p \in Proc, StartOrReload(p) PROVE Live' \subseteq Live
  <2>1. \A k \in Slot : nginx'[k].state = nginx[k].state
    BY <1>0, <1>1 DEF StartOrReload, Process
  <2> QED
    BY <2>1 DEF Live
<1>2. ASSUME NEW k \in Slot, HandleHup(k) \/ NginxExit(k) \/ WaitReturns(k) \/ NoticeExit(k) \/ Forget(k)
      PROVE Live' \subseteq Live
  <2>1. \A j \in Slot \ {k} : nginx'[j] = nginx[j]
    BY <1>0, <1>2 DEF HandleHup, NginxExit, WaitReturns, NoticeExit, Forget
  <2>2. nginx'[k].state = "live" => nginx[k].state = "live"
    BY <1>0, <1>2 DEF HandleHup, NginxExit, WaitReturns, NoticeExit, Forget, FreeSlot, Live, Process
  <2> QED
    BY <2>1, <2>2 DEF Live
<1>3. CASE Restart
  BY <1>3 DEF Restart, FreeSlot, Live
<1>4. ASSUME NEW p \in Proc, Spawn(p)
      PROVE  \/ UNCHANGED nginx
             \/ \E k \in Slot :
                  /\ pc[p] = "spawn" /\ cmd' = k /\ Live' = Live \cup {k}
                  /\ nginx'[k].rev = link.nginx /\ nginx'[k].rest = link.rest
                  /\ \A j \in Slot \ {k} : nginx'[j] = nginx[j]
  <2>1. CASE UNCHANGED nginx
    BY <2>1
  <2>2. CASE \E k \in Slot : cmd' = k /\ nginx' = [nginx EXCEPT ![k] = [state |-> "live",
               rev |-> link.nginx, rest |-> link.rest, hup |-> FALSE]]
    <3>1. PICK k \in Slot : cmd' = k /\ nginx' = [nginx EXCEPT ![k] = [state |-> "live",
               rev |-> link.nginx, rest |-> link.rest, hup |-> FALSE]]
      BY <2>2
    <3>2. /\ nginx'[k].state = "live" /\ nginx'[k].rev = link.nginx /\ nginx'[k].rest = link.rest
          /\ \A j \in Slot \ {k} : nginx'[j] = nginx[j]
      BY <1>0, <3>1
    <3>3. Live' = Live \cup {k}
      BY <3>2 DEF Live
    <3> QED
      BY <1>4, <3>1, <3>2, <3>3 DEF Spawn
  <2> QED
    BY <1>4, <2>1, <2>2 DEF Spawn
<1>5. CASE UNCHANGED nginx
  BY <1>5 DEF Live
<1> QED
  BY <1>1, <1>2, <1>3, <1>4, <1>5
     DEF Next, vars, ProcStep, RunFirst, WaitForInitialBundle, BootBootstrapUI, StartReload, Lock,
         LoadCurrentBundle, RelinkNginx, RelinkRest, WaitForRevision, FetchRelease, Download,
         ActivateRelease, StartUpdate, SetCRSPath, Publish, SetHourlyAutoUpdate, NewRelease

\* At first no nginx lives.
LEMMA SupervisedInit == Init => Supervised /\ Spawning
  BY DEF Init, Supervised, Spawning, Live, FreeSlot, Proc

\* A process is started only where the last one is known to have exited, by the
\* one goroutine inside; the handle of a process that lives is never dropped.
LEMMA SupervisedKept ==
  ASSUME Typed, Exclusive, Supervised, Spawning, [Next]_vars
  PROVE  Supervised' /\ Spawning'
<1>0. PlacesTyped /\ TypeOK /\ Main \in Proc /\ Other \subseteq Proc
  BY DEF Typed, TypeOK, Proc, Other
<1>1. CASE \E p \in Proc, k \in Slot : pc[p] = "spawn" /\ Spawn(p) /\ cmd' = k /\ Live' = Live \cup {k}
  <2>1. PICK p \in Proc, k \in Slot : pc[p] = "spawn" /\ Spawn(p) /\ cmd' = k /\ Live' = Live \cup {k}
    BY <1>1
  <2>2. Supervised'
    BY <2>1 DEF Spawning, Supervised
  <2>3. ASSUME NEW q \in Proc, pc'[q] = "spawn" PROVE FALSE
    <3>1. Alone(p)
      BY <2>1, PlaceStep DEF ProcStep
    <3>2. pc'[p] # "spawn"
      <4>1. Finish(p, "ok") \/ Finish(p, "failed") \/ Goto(p, "confirm")
        BY <2>1 DEF Spawn, Confirmed
      <4> QED
        BY <1>0, <4>1, Finished, Moved DEF Place
    <3> QED
      BY <2>1, <2>3, <3>1, <3>2, OneInside DEF Alone, Inside, Loaded
  <2> QED
    BY <2>2, <2>3 DEF Spawning
<1>2. CASE Live' \subseteq Live
  <2>1. Supervised'
    <3>1. ASSUME NEW p \in Proc, Spawn(p) PROVE UNCHANGED cmd \/ \E k \in Slot : pc[p] = "spawn" /\ nginx'[k].state = "live" /\ cmd' = k
      BY <1>0, <3>1 DEF Spawn, TypeOK
    <3>2. ASSUME NEW p \in Proc, Spawn(p) PROVE Supervised'
      BY <1>2, <3>1, <3>2 DEF Spawning, Supervised, Spawn
    <3>3. ASSUME NEW k \in Slot, Forget(k) PROVE Supervised'
      <4>1. k \notin Live
        BY <3>3 DEF Forget, Live
      <4> QED
        BY <1>2, <3>3, <4>1 DEF Forget, Supervised
    <3>4. CASE Restart
      BY <3>4 DEF Restart, Supervised, Live, FreeSlot
    <3>5. CASE UNCHANGED cmd
      BY <1>2, <3>5 DEF Supervised
    <3> QED
      BY <3>2, <3>3, <3>4, <3>5
       DEF Next, vars, process, ProcStep, RunFirst, WaitForInitialBundle, BootBootstrapUI, StartReload, Lock,
         LoadCurrentBundle, RelinkNginx, RelinkRest, StartOrReload, WaitForRevision, FetchRelease, Download,
         ActivateRelease, StartUpdate, SetCRSPath, HandleHup, NginxExit, WaitReturns, NoticeExit, Publish,
         SetHourlyAutoUpdate, NewRelease
  <2>2. ASSUME NEW q \in Proc, pc'[q] = "spawn" PROVE Live' = {}
    <3>1. CASE pc[q] = "spawn"
      BY <1>2, <3>1 DEF Spawning
    <3>2. ASSUME NEW p \in Proc, ProcStep(p), pc[q] # "spawn" PROVE Live' = {}
      <4>1. q = p
        BY <2>2, <3>2, PlaceStep DEF Alone
      <4>2. StartOrReload(p) /\ Goto(p, "spawn")
        <5>1. \/ StartOrReload(p) /\ Goto(p, "spawn")
              \/ Finish(p, "ok") \/ Finish(p, "failed")
              \/ pc[p] = "spawn"
              \/ \E l \in Place \ {"spawn"} : Goto(p, l)
          BY <3>2 DEF ProcStep, LoadCurrentBundle, RelinkNginx, RelinkRest, StartOrReload, Spawn, Confirmed,
             WaitForRevision, FetchRelease, Download, ActivateRelease, AfterUpdate, Place, Busy
        <5> QED
          BY <1>0, <2>2, <3>2, <4>1, <5>1, Finished, Moved
      <4>3. cmd \notin Live
        <5>1. IF cmd = NoSlot THEN TRUE ELSE nginx[cmd].state \in {"none", "waited", "noticed"}
          <6>1. Confirmed(p) => pc'[p] # "spawn"
            <7>1. Confirmed(p) => Finish(p, "ok") \/ Goto(p, "confirm")
              BY DEF Confirmed
            <7> QED
              BY <1>0, <7>1, Finished, Moved DEF Place
          <6>2. Finish(p, "failed") => pc'[p] # "spawn"
            BY <1>0, Finished
          <6> QED
            BY <2>2, <4>1, <4>2, <6>1, <6>2 DEF StartOrReload
        <5> QED
          BY <5>1, LauncherAssumption DEF Live
      <4> QED
        BY <1>2, <4>3 DEF Supervised
    <3>3. ASSUME NEW p \in Proc,
                 \/ p = Main /\ (RunFirst \/ WaitForInitialBundle \/ BootBootstrapUI)
                 \/ StartReload(p) \/ Lock(p) \/ StartUpdate(p) \/ SetCRSPath(p)
          PROVE pc[q] = "spawn"
      BY <2>2, <3>3, PlaceMoves DEF Alone
    <3>4. CASE Restart
      BY <2>2, <3>4 DEF Restart
    <3>5. CASE UNCHANGED pc
      BY <2>2, <3>1, <3>5
    <3> QED
      BY <3>1, <3>2, <3>3, <3>4, <3>5 DEF Next, vars, Proc, HandleHup, NginxExit, WaitReturns,
         NoticeExit, Forget, Publish, SetHourlyAutoUpdate, NewRelease
  <2> QED
    BY <2>1, <2>2 DEF Spawning
<1> QED
  BY <1>1, <1>2, LiveStep

\* Every nginx that lives is the one the launcher can signal, for any number of
\* processes, reloads and updates, if no reload comes before the boot is over.
THEOREM SupervisedAlways == ASSUME "early" \notin Faults PROVE Spec => []Supervised
<1>1. Typed /\ Exclusive /\ [Next]_vars => Exclusive'
  BY ExclusiveKept
<1>2. Typed /\ Exclusive /\ (Supervised /\ Spawning) /\ [Next]_vars => (Supervised /\ Spawning)'
  BY SupervisedKept
<1> QED
  BY TypeCorrect, ExclusiveInit, SupervisedInit, <1>1, <1>2, PTL DEF Spec

-----------------------------------------------------------------------------
(* Traffic                                                                 *)

\* What a live process serves after a step: what it did, what is linked now, or
\* what it did with a signal pending.
Serves(k) ==
  \/ k \in Live /\ nginx'[k] = nginx[k]
  \/ nginx'[k].rev = link.nginx /\ nginx'[k].rest = link.rest
  \/ k \in Live /\ nginx'[k].rev = nginx[k].rev /\ nginx'[k].hup

\* What an nginx that lives serves comes from before, or from the links.
LEMMA ServesStep ==
  ASSUME Typed, [Next]_vars, NEW j \in Live'
  PROVE  Serves(j)
<1>0. nginx \in [Slot -> Process] /\ j \in Slot /\ nginx'[j].state = "live"
  BY DEF Typed, TypeOK, Live
<1>1. CASE Live' \subseteq Live
  <2>0. j \in Live
    BY <1>1
  <2>1. ASSUME NEW p \in Proc, StartOrReload(p) PROVE Serves(j)
    <3>1. CASE UNCHANGED nginx
      BY <2>0, <3>1 DEF Serves
    <3>2. CASE cmd # NoSlot /\ nginx' = [nginx EXCEPT ![cmd].hup = nginx[cmd].state = "live"]
      <4>1. cmd \in Slot
        BY <3>2 DEF Typed, TypeOK, ProcessTyped
      <4>2. CASE j = cmd
        <5>1. nginx[cmd].state = "live"
          BY <2>0, <4>2 DEF Live
        <5>2. nginx'[cmd].rev = nginx[cmd].rev /\ nginx'[cmd].hup
          BY <1>0, <3>2, <4>1, <5>1 DEF Process
        <5> QED
          BY <2>0, <4>2, <5>2 DEF Serves
      <4>3. CASE j # cmd
        BY <1>0, <2>0, <3>2, <4>3 DEF Serves
      <4> QED
        BY <4>2, <4>3
    <3> QED
      BY <2>1, <3>1, <3>2 DEF StartOrReload
  <2>2. ASSUME NEW k \in Slot, HandleHup(k) PROVE Serves(j)
    <3>1. j # k => nginx'[j] = nginx[j]
      BY <1>0, <2>2 DEF HandleHup
    <3>2. nginx'[k].rev = link.nginx /\ nginx'[k].rest = link.rest
      BY <1>0, <2>2 DEF HandleHup
    <3> QED
      BY <2>0, <3>1, <3>2 DEF Serves
  <2>3. ASSUME NEW k \in Slot, NginxExit(k) \/ WaitReturns(k) \/ NoticeExit(k) \/ Forget(k) PROVE Serves(j)
    <3>1. j # k
      BY <1>0, <2>3 DEF NginxExit, WaitReturns, NoticeExit, Forget, FreeSlot, Process
    <3> QED
      BY <1>0, <2>0, <2>3, <3>1 DEF NginxExit, WaitReturns, NoticeExit, Forget, Serves
  <2>4. CASE Restart
    BY <1>0, <2>4 DEF Restart, FreeSlot
  <2>5. ASSUME NEW p \in Proc, Spawn(p) PROVE Serves(j)
    <3>1. CASE UNCHANGED nginx
      BY <2>0, <3>1 DEF Serves
    <3>2. CASE \E k \in Slot : nginx' = [nginx EXCEPT ![k] = [state |-> "live",
               rev |-> link.nginx, rest |-> link.rest, hup |-> FALSE]]
      <4>1. PICK k \in Slot : nginx' = [nginx EXCEPT ![k] = [state |-> "live",
               rev |-> link.nginx, rest |-> link.rest, hup |-> FALSE]]
        BY <3>2
      <4> QED
        BY <1>0, <2>0, <4>1 DEF Serves
    <3> QED
      BY <2>5, <3>1, <3>2 DEF Spawn
  <2>6. CASE UNCHANGED nginx
    BY <2>0, <2>6 DEF Serves
  <2> QED
    BY <2>1, <2>2, <2>3, <2>4, <2>5, <2>6
     DEF Next, vars, ProcStep, RunFirst, WaitForInitialBundle, BootBootstrapUI, StartReload, Lock,
         LoadCurrentBundle, RelinkNginx, RelinkRest, WaitForRevision, FetchRelease, Download,
         ActivateRelease, StartUpdate, SetCRSPath, Publish, SetHourlyAutoUpdate, NewRelease
<1>2. CASE \E p \in Proc, k \in Slot :
              /\ Live' = Live \cup {k}
              /\ nginx'[k].rev = link.nginx /\ nginx'[k].rest = link.rest
              /\ \A i \in Slot \ {k} : nginx'[i] = nginx[i]
  BY <1>0, <1>2 DEF Serves
<1> QED
  BY <1>1, <1>2, LiveStep

\* The links change only under a goroutine that relinks, or in the bootstrap.
LEMMA LinkStep ==
  ASSUME Typed, [Next]_vars
  PROVE  \/ link' = link
         \/ /\ pc[Main] = "bootstrap" /\ BootBootstrapUI
         \/ \E p \in Proc : RelinkNginx(p) /\ link'.nginx = rev[p] /\ link'.rest = link.rest
         \/ \E p \in Proc : RelinkRest(p) /\ link'.rest = rev[p] /\ link'.nginx = link.nginx
<1>0. link \in [nginx : Rev, rest : Rev, crs : Release]
  BY DEF Typed, TypeOK, ProcessTyped
<1>1. ASSUME NEW p \in Proc, RelinkNginx(p)
      PROVE  link' = link \/ (link'.nginx = rev[p] /\ link'.rest = link.rest)
  BY <1>0, <1>1 DEF RelinkNginx
<1>2. ASSUME NEW p \in Proc, RelinkRest(p)
      PROVE  link' = link \/ (link'.rest = rev[p] /\ link'.nginx = link.nginx)
  BY <1>0, <1>2 DEF RelinkRest
<1>3. BootBootstrapUI => pc[Main] = "bootstrap"
  BY DEF BootBootstrapUI
<1>4. ASSUME NEW p \in Proc, ProcStep(p) PROVE link' = link \/ RelinkNginx(p) \/ RelinkRest(p)
  BY <1>4 DEF ProcStep, LoadCurrentBundle, StartOrReload, Spawn, WaitForRevision, FetchRelease, Download,
     ActivateRelease, process
<1> QED
  BY <1>1, <1>2, <1>3, <1>4 DEF Next, vars, process, RunFirst, WaitForInitialBundle, StartReload, Lock,
     StartUpdate, SetCRSPath, HandleHup, NginxExit, WaitReturns, NoticeExit, Forget, Publish,
     SetHourlyAutoUpdate, NewRelease, Restart

\* Nothing of what a caller of /reload relies on changes under it.
Undisturbed(r) ==
  /\ pc'[r] = pc[r] /\ rev'[r] = rev[r] /\ link' = link /\ pointer' = pointer
ReloadOf(r) ==
  /\ pc[r] \in Loaded => rev[r] = pointer /\ pointer # 0
  /\ pc[r] \in Loaded \ {"links"} => link.nginx = rev[r]
  /\ pc[r] \in Loaded \ Relinking => link.rest = rev[r]
  /\ pc[r] = "confirm" => \A k \in Live : nginx[k].hup \/ nginx[k].rest = link.rest

\* A reload that nobody disturbs keeps what it has done.
LEMMA ReloadUndisturbed ==
  ASSUME Typed, [Next]_vars, NEW r \in Reloader, ReloadOf(r), Undisturbed(r)
  PROVE  ReloadOf(r)'
<1>1. ASSUME pc[r] = "confirm", NEW k \in Live' PROVE nginx'[k].hup \/ nginx'[k].rest = link.rest
  BY <1>1, ServesStep DEF Serves, ReloadOf
<1> QED
  BY <1>1 DEF ReloadOf, Undisturbed

\* Nothing is claimed of a caller that is not past loading the pointer.
LEMMA ReloadAway ==
  ASSUME NEW r, pc'[r] \notin Loaded
  PROVE  ReloadOf(r)'
  BY DEF ReloadOf, Loaded

\* The steps of the caller itself.
LEMMA ReloadOwn ==
  ASSUME Typed, Exclusive, Supervised, Spawning, [Next]_vars, NEW r \in Reloader, ReloadOf(r), ProcStep(r)
  PROVE  ReloadOf(r)'
<1>0. PlacesTyped /\ TypeOK /\ r \in Proc /\ r # Main /\ Loaded \subseteq Place /\ link \in [nginx : Rev, rest : Rev, crs : Release]
  BY LauncherAssumption DEF Typed, TypeOK, Proc, Loaded, Place, ProcessTyped
<1>a. Finish(r, "ok") \/ Finish(r, "failed") => ReloadOf(r)'
  BY <1>0, Finished, ReloadAway DEF Loaded
<1>b. ASSUME NEW l \in Loaded, Goto(r, l) PROVE pc'[r] = l
  BY <1>0, <1>b, Moved
<1>1. CASE LoadCurrentBundle(r)
  <2>1. CASE pointer # 0 /\ rev' = [rev EXCEPT ![r] = pointer] /\ Goto(r, "links")
    <3>1. pc'[r] = "links" /\ UNCHANGED pointer
      BY <1>1, <1>b, <2>1 DEF LoadCurrentBundle, Loaded
    <3>2. rev'[r] = pointer
      BY <1>0, <2>1 DEF PlacesTyped
    <3> QED
      BY <2>1, <3>1, <3>2 DEF ReloadOf, Relinking
  <2> QED
    BY <1>0, <1>1, <1>a, <2>1 DEF LoadCurrentBundle
<1>2. CASE RelinkNginx(r)
  <2>1. CASE link' = [link EXCEPT !.nginx = rev[r]] /\ Goto(r, "rest") /\ UNCHANGED rev
    <3>1. pc'[r] = "rest" /\ UNCHANGED pointer /\ pc[r] = "links"
      BY <1>2, <1>b, <2>1 DEF RelinkNginx, Loaded
    <3>2. link'.nginx = rev[r]
      BY <1>0, <2>1
    <3> QED
      BY <2>1, <3>1, <3>2 DEF ReloadOf, Relinking, Loaded
  <2> QED
    BY <1>2, <1>a, <2>1 DEF RelinkNginx
<1>3. CASE RelinkRest(r)
  <2>1. CASE link' = [link EXCEPT !.rest = rev[r], !.crs = crsPath] /\ Goto(r, "start") /\ UNCHANGED rev
    <3>1. pc'[r] = "start" /\ UNCHANGED pointer /\ pc[r] = "rest"
      BY <1>3, <1>b, <2>1 DEF RelinkRest, Loaded
    <3>2. link'.nginx = link.nginx /\ link'.rest = rev[r]
      BY <1>0, <2>1
    <3> QED
      BY <2>1, <3>1, <3>2 DEF ReloadOf, Relinking, Loaded
  <2> QED
    BY <1>3, <1>a, <2>1 DEF RelinkRest
<1>4. CASE StartOrReload(r)
  <2>0. pc[r] = "start" /\ UNCHANGED <<pointer, link>>
    BY <1>4 DEF StartOrReload
  <2>1. CASE Goto(r, "spawn") /\ UNCHANGED rev
    <3>1. pc'[r] = "spawn"
      BY <1>b, <2>1 DEF Loaded
    <3> QED
      BY <2>0, <2>1, <3>1 DEF ReloadOf, Loaded, Relinking
  <2>2. CASE /\ cmd # NoSlot /\ nginx' = [nginx EXCEPT ![cmd].hup = nginx[cmd].state = "live"]
             /\ Goto(r, "confirm") /\ UNCHANGED rev
    <3>1. pc'[r] = "confirm"
      BY <1>b, <2>2 DEF Loaded
    <3>2. ASSUME NEW k \in Live' PROVE nginx'[k].hup
      <4>0. nginx \in [Slot -> Process] /\ cmd \in Slot
        BY <1>0, <2>2 DEF TypeOK, ProcessTyped
      <4>1. \A j \in Slot : nginx'[j].state = nginx[j].state
        BY <2>2, <4>0 DEF Process
      <4>2. k = cmd /\ nginx[cmd].state = "live"
        BY <4>1 DEF Supervised, Live
      <4> QED
        BY <2>2, <4>0, <4>2 DEF Process
    <3> QED
      BY <2>0, <2>2, <3>1, <3>2 DEF ReloadOf, Loaded, Relinking
  <2> QED
    BY <1>0, <1>4, <1>a, <2>1, <2>2 DEF StartOrReload, Confirmed
<1>5. CASE Spawn(r)
  <2>0. pc[r] = "spawn" /\ UNCHANGED <<pointer, link>>
    BY <1>5 DEF Spawn
  <2>1. CASE Goto(r, "confirm") /\ UNCHANGED rev
    <3>1. pc'[r] = "confirm"
      BY <1>b, <2>1 DEF Loaded
    <3>2. ASSUME NEW k \in Live' PROVE nginx'[k].rest = link.rest
      <4>1. Live = {}
        BY <1>0, <2>0 DEF Spawning
      <4> QED
        BY <3>2, <4>1, ServesStep DEF Serves
    <3> QED
      BY <2>0, <2>1, <3>1, <3>2 DEF ReloadOf, Loaded, Relinking
  <2> QED
    BY <1>0, <1>5, <1>a, <2>1 DEF Spawn, Confirmed
<1>6. CASE WaitForRevision(r)
  BY <1>6, <1>a DEF WaitForRevision
<1>7. CASE FetchRelease(r) \/ Download(r) \/ ActivateRelease(r)
  <2>1. pc[r] \notin Inside
    BY <1>7 DEF FetchRelease, Download, ActivateRelease, Inside, Loaded
  <2>2. pc'[r] \notin Loaded
    BY <1>0, <2>1, MutexStep DEF Inside
  <2> QED
    BY <2>2, ReloadAway
<1> QED
  BY <1>1, <1>2, <1>3, <1>4, <1>5, <1>6, <1>7 DEF ProcStep

\* At first nobody reloads and nothing was answered.
LEMMA ReloadInit == Init => ReloadOK /\ Settled
  BY LauncherAssumption DEF Init, ReloadOK, Settled, Proc, Loaded

\* Reloads are serialised by the mutex, and the control plane publishes only
\* between them.
LEMMA ReloadKept ==
  ASSUME Typed, Exclusive, Supervised, Spawning, ReloadOK, [Next]_vars
  PROVE  ReloadOK'
<1> SUFFICES ASSUME NEW r \in Reloader PROVE ReloadOf(r)'
  BY DEF ReloadOK, ReloadOf
<1>0. ReloadOf(r) /\ r \in Proc /\ r \in Other /\ r # Main /\ Main \in Proc /\ Other \subseteq Proc /\ PlacesTyped
  BY LauncherAssumption DEF ReloadOK, ReloadOf, Other, Proc, Typed, TypeOK
<1>1. ASSUME NEW p \in Proc, ProcStep(p), p # r, p # Main PROVE ReloadOf(r)'
  <2>1. pc'[r] = pc[r] /\ rev'[r] = rev[r]
    BY <1>0, <1>1, PlaceStep DEF Alone
  <2>2. CASE pc[r] \notin Loaded
    BY <2>1, <2>2, ReloadAway
  <2>3. CASE pc[r] \in Loaded
    <3>1. pc[p] \notin Inside
      BY <1>0, <1>1, <2>3, OneInside DEF Inside
    <3>2. UNCHANGED <<link, pointer>>
      BY <1>1, <3>1 DEF ProcStep, LoadCurrentBundle, RelinkNginx, RelinkRest, StartOrReload, Spawn,
         WaitForRevision, FetchRelease, Download, ActivateRelease, Inside, Loaded, control
    <3> QED
      BY <1>0, <2>1, <3>2, ReloadUndisturbed DEF Undisturbed
  <2> QED
    BY <2>2, <2>3
<1>2. ASSUME pc[Main] # "idle", Alone(Main) PROVE ReloadOf(r)'
  BY <1>0, <1>2, ReloadAway DEF Alone, Exclusive, BootFirst, Loaded
<1>3. CASE ProcStep(Main)
  BY <1>0, <1>2, <1>3, PlaceStep, MutexStep
<1>4. CASE RunFirst \/ WaitForInitialBundle \/ BootBootstrapUI
  BY <1>0, <1>2, <1>4, PlaceMoves DEF RunFirst, WaitForInitialBundle, BootBootstrapUI
<1>5. ASSUME NEW p \in Other, StartReload(p) \/ Lock(p) \/ StartUpdate(p) \/ SetCRSPath(p) PROVE ReloadOf(r)'
  <2>1. Alone(p) /\ rev' = rev /\ UNCHANGED <<link, pointer>>
    BY <1>0, <1>5, PlaceMoves DEF StartReload, Lock, StartUpdate, SetCRSPath, process, control
  <2>2. CASE p = r
    <3>1. \E l \in {"lock", "load", "fetch"} : Goto(p, l)
      BY <1>5 DEF StartReload, Lock, StartUpdate, SetCRSPath
    <3>2. pc'[r] \in {"lock", "load", "fetch"}
      BY <1>0, <2>2, <3>1, Moved DEF Place, Busy
    <3> QED
      BY <3>2, ReloadAway DEF Loaded
  <2>3. CASE p # r
    BY <1>0, <2>1, <2>3, ReloadUndisturbed DEF Alone, Undisturbed
  <2> QED
    BY <2>2, <2>3
<1>6. CASE Restart
  BY <1>0, <1>6, ReloadAway DEF Restart, Loaded
<1>7. ASSUME NEW v \in Rev, Publish(v) PROVE ReloadOf(r)'
  BY <1>7, ReloadAway DEF Publish, Loaded
<1>8. CASE UNCHANGED <<pc, rev, link, pointer>>
  BY <1>0, <1>8, ReloadUndisturbed DEF Undisturbed
<1> QED
  BY <1>0, <1>1, <1>3, <1>4, <1>5, <1>6, <1>7, <1>8, ReloadOwn
     DEF Next, vars, process, control, Proc, Other, HandleHup, NginxExit, WaitReturns, NoticeExit, Forget,
         SetHourlyAutoUpdate, NewRelease

\* Nothing that comes after the answer undoes it.
LEMMA SettledStays ==
  ASSUME Typed, Settled, out = "ok", pointer' = pointer, [Next]_vars
  PROVE  Settled'
<1>0. PlacesTyped /\ TypeOK /\ Main \in Proc /\ Other \subseteq Proc
  BY DEF Typed, TypeOK, Proc, Other
<1>1. link'.nginx = pointer /\ link'.rest = pointer
  BY LinkStep DEF Settled, RelinkNginx, RelinkRest, Relinking
<1>2. ASSUME NEW k \in Live' PROVE nginx'[k].rev = pointer /\ (nginx'[k].rest = pointer \/ nginx'[k].hup)
  BY <1>2, ServesStep DEF Serves, Settled
<1>3. ASSUME NEW q \in Proc PROVE /\ pc'[q] \in Relinking => rev'[q] = pointer
                                  /\ ~(q = Main /\ pc'[q] = "bootstrap")
  <2>1. CASE pc'[q] = pc[q] /\ rev'[q] = rev[q]
    BY <1>0, <2>1 DEF Settled
  <2>2. CASE ProcStep(q)
    <3>1. CASE LoadCurrentBundle(q)
      <4>1. Finish(q, "failed") \/ (Goto(q, "links") /\ rev' = [rev EXCEPT ![q] = pointer])
        BY <3>1 DEF LoadCurrentBundle, Settled
      <4>2. rev' = [rev EXCEPT ![q] = pointer] => rev'[q] = pointer
        BY <1>0 DEF PlacesTyped
      <4> QED
        BY <1>0, <4>1, <4>2, Finished, Moved DEF Relinking, Place
    <3>2. CASE RelinkNginx(q)
      <4>1. Finish(q, "failed") \/ (Goto(q, "rest") /\ UNCHANGED rev)
        BY <3>2 DEF RelinkNginx
      <4>2. rev[q] = pointer
        BY <3>2 DEF RelinkNginx, Settled, Relinking
      <4> QED
        BY <1>0, <4>1, <4>2, Finished, Moved DEF Relinking, Place
    <3>3. CASE ~LoadCurrentBundle(q) /\ ~RelinkNginx(q)
      <4>1. \/ Finish(q, "ok") \/ Finish(q, "failed")
            \/ \E l \in Place \ (Relinking \cup {"bootstrap"}) : Goto(q, l)
        BY <2>2, <3>3 DEF ProcStep, RelinkRest, StartOrReload, Spawn, Confirmed, WaitForRevision,
           FetchRelease, Download, ActivateRelease, AfterUpdate, Place, Busy, Relinking
      <4> QED
        BY <1>0, <4>1, Finished, Moved DEF Relinking
    <3> QED
      BY <3>1, <3>2, <3>3
  <2>3. ASSUME NEW p \in Proc, ProcStep(p) PROVE p = q \/ (pc'[q] = pc[q] /\ rev'[q] = rev[q])
    BY <2>3, PlaceStep DEF Alone
  <2>4. ASSUME NEW p \in Proc,
               \/ p = Main /\ (RunFirst \/ WaitForInitialBundle \/ BootBootstrapUI)
               \/ StartReload(p) \/ Lock(p) \/ StartUpdate(p) \/ SetCRSPath(p)
        PROVE pc'[q] \notin Relinking \cup {"bootstrap"} \/ (pc'[q] = pc[q] /\ rev'[q] = rev[q])
    BY <2>4, PlaceMoves DEF Alone, Relinking
  <2>5. CASE Restart
    BY <2>5 DEF Restart, Relinking
  <2>6. CASE UNCHANGED <<pc, rev>>
    BY <2>1, <2>6
  <2> QED
    BY <2>1, <2>2, <2>3, <2>4, <2>5, <2>6
     DEF Next, vars, process, control, Proc, HandleHup, NginxExit, WaitReturns, NoticeExit, Forget, Publish,
         SetHourlyAutoUpdate, NewRelease
<1> QED
  BY <1>0, <1>1, <1>2, <1>3 DEF Settled

\* The answer itself: the marker was seen on the one process there is.
LEMMA SettledAnswer ==
  ASSUME Typed, Exclusive, Supervised, ReloadOK, NEW p \in Reloader, WaitForRevision(p), Finish(p, "ok"),
         \E k \in Live : nginx[k].rev = rev[p]
  PROVE  Settled'
<1>0. /\ PlacesTyped /\ TypeOK /\ p \in Proc /\ p \in Other /\ p # Main /\ Main \in Proc
      /\ UNCHANGED <<pointer, link, nginx>> /\ pc[p] = "confirm" /\ p \in Proc
  BY LauncherAssumption DEF Typed, TypeOK, Proc, Other, WaitForRevision
<1>1. rev[p] = pointer /\ pointer # 0 /\ link.nginx = pointer /\ link.rest = pointer
  BY <1>0 DEF ReloadOK, Loaded, Relinking
<1>2. pc'[p] = "idle" /\ \A q \in Proc \ {p} : pc'[q] = pc[q] /\ rev'[q] = rev[q]
  BY <1>0, Finished
<1>3. pc[Main] = "idle"
  BY <1>0 DEF Exclusive, BootFirst
<1>4. \A q \in Proc : pc'[q] \notin Relinking
  BY <1>0, <1>2, OneInside DEF Inside, Loaded, Relinking
<1>5. \A j \in Live : nginx[j].rev = pointer
  BY <1>1 DEF Supervised
<1>6. \A j \in Live : nginx[j].rest = pointer \/ nginx[j].hup
  BY <1>0, <1>1 DEF ReloadOK
<1>7. Live' = Live
  BY <1>0 DEF Live
<1> QED
  BY <1>0, <1>1, <1>2, <1>3, <1>4, <1>5, <1>6, <1>7 DEF Settled

\* No step of any goroutine or of nginx undoes a successful reload.
LEMMA SettledKept ==
  ASSUME Typed, Exclusive, Supervised, ReloadOK, Settled, [Next]_vars
  PROVE  Settled'
<1>1. ASSUME NEW v \in Rev, Publish(v) PROVE Settled'
  BY <1>1 DEF Publish, Settled
<1>2. ASSUME NEW p \in Proc, ProcStep(p), out' # out PROVE Settled'
  <2>1. CASE out' # "ok"
    BY <2>1 DEF Settled
  <2>2. CASE out' = "ok"
    <3>1. p \in Reloader /\ Finish(p, "ok")
      BY <1>2, <2>2 DEF ProcStep, LoadCurrentBundle, RelinkNginx, RelinkRest, StartOrReload, Spawn, Confirmed,
         WaitForRevision, FetchRelease, Download, ActivateRelease, Finish, control
    <3>2. p # Main
      BY <3>1, LauncherAssumption
    <3>3. WaitForRevision(p) /\ \E k \in Live : nginx[k].rev = rev[p]
      BY <1>2, <2>2, <3>1, <3>2 DEF ProcStep, LoadCurrentBundle, RelinkNginx, RelinkRest, StartOrReload, Spawn, Confirmed,
         WaitForRevision, FetchRelease, Download, ActivateRelease, Finish, control
    <3> QED
      BY <3>1, <3>3, SettledAnswer
  <2> QED
    BY <2>1, <2>2
<1>3. CASE UNCHANGED <<out, pointer>>
  <2>1. CASE out = "ok"
    BY <1>3, <2>1, SettledStays
  <2>2. CASE out # "ok"
    BY <1>3, <2>2 DEF Settled
  <2> QED
    BY <2>1, <2>2
<1>4. ASSUME NEW p \in Proc, ProcStep(p) PROVE UNCHANGED pointer
  BY <1>4 DEF ProcStep, LoadCurrentBundle, RelinkNginx, RelinkRest, StartOrReload, Spawn,
     WaitForRevision, FetchRelease, Download, ActivateRelease, control
<1> QED
  BY <1>1, <1>2, <1>3, <1>4
     DEF Next, vars, control, RunFirst, WaitForInitialBundle, BootBootstrapUI, StartReload, Lock,
         StartUpdate, SetCRSPath, HandleHup, NginxExit, WaitReturns, NoticeExit, Forget,
         SetHourlyAutoUpdate, NewRelease, Restart

\* After a /reload answered 204 every nginx serves the published revision until
\* the next one is published, for any number of reloads, updates of the rules,
\* exits and restarts, if no reload comes before the boot is over.
THEOREM TrafficFollowsPointer == ASSUME "early" \notin Faults PROVE Spec => []TrafficOnPointer
<1>1. Typed /\ Exclusive /\ [Next]_vars => Exclusive'
  BY ExclusiveKept
<1>2. Typed /\ Exclusive /\ (Supervised /\ Spawning) /\ [Next]_vars => (Supervised /\ Spawning)'
  BY SupervisedKept
<1>3. Typed /\ Exclusive /\ (Supervised /\ Spawning) /\ (ReloadOK /\ Settled) /\ [Next]_vars => (ReloadOK /\ Settled)'
  BY ReloadKept, SettledKept
<1>4. Settled => TrafficOnPointer
  BY DEF Settled, TrafficOnPointer
<1> QED
  BY TypeCorrect, ExclusiveInit, SupervisedInit, ReloadInit, <1>1, <1>2, <1>3, <1>4, PTL DEF Spec

-----------------------------------------------------------------------------
(* The path of the rule set                                                *)

\* A step that leaves path and manager alone, and starts or ends no update.
LEMMA PathSame ==
  ASSUME PathOK, UNCHANGED overtaken, crsPath' = crsPath, mgr'.active = mgr.active,
         pc'[Main] \notin Updating => pc[Main] \notin Updating,
         \A p \in Other : pc'[p] \in Busy \cup {"setPath"} => pc[p] \in Busy \cup {"setPath"} \/ p \in Updater,
         \A u \in Updater : (pc'[u] = "setPath" <=> pc[u] = "setPath") /\ (pc[u] = "setPath" => rev'[u] = rev[u])
  PROVE  PathOK'
  BY LauncherAssumption DEF PathOK, Other

\* The goroutines that are left alone by the step of another.
LEMMA PathSameAlone ==
  ASSUME Typed, PathOK, NEW p \in Proc, Alone(p), UNCHANGED <<overtaken, crsPath>>, mgr'.active = mgr.active,
         p = Main => (pc'[p] \notin Updating => pc[p] \notin Updating),
         pc'[p] \in Busy => pc[p] \in Busy \/ p \notin Reloader,
         pc[p] # "setPath", pc'[p] # "setPath"
  PROVE  PathOK'
<1>1. Main \in Proc /\ Other \subseteq Proc /\ Updater \subseteq Other /\ Updater \subseteq Proc
  BY DEF Proc, Other
<1>2. pc'[Main] \notin Updating => pc[Main] \notin Updating
  BY <1>1 DEF Alone
<1>3. \A q \in Other : pc'[q] \in Busy \cup {"setPath"} => pc[q] \in Busy \cup {"setPath"} \/ q \in Updater
  BY <1>1 DEF Alone, Other
<1>4. \A u \in Updater : (pc'[u] = "setPath" <=> pc[u] = "setPath") /\ (pc[u] = "setPath" => rev'[u] = rev[u])
  BY <1>1 DEF Alone
<1> QED
  BY <1>2, <1>3, <1>4, PathSame

\* At first the reloads and the manager name the rule set of the image.
LEMMA PathInit == Init => PathOK /\ UpdateFirst
  BY LauncherAssumption DEF Init, PathOK, UpdateFirst, Updating, Busy, Proc, Other

\* An updater that none overtook hands over the release it activated.
LEMMA PathKept ==
  ASSUME Typed, UpdateFirst, PathOK, [Next]_vars
  PROVE  PathOK'
<1>0. /\ PlacesTyped /\ TypeOK /\ Main \in Proc /\ Other \subseteq Proc /\ Main \notin Other
      /\ Updater \subseteq Other /\ Reloader \subseteq Other /\ mgr \in Manager /\ Reloader \cap Updater = {}
      /\ \A p \in Proc : p = Main \/ p \in Reloader \/ p \in Updater
  BY LauncherAssumption DEF Typed, TypeOK, RulesTyped, Proc, Other
<1>1. ASSUME NEW p \in Proc, pc[p] \in Inside, ProcStep(p) PROVE PathOK'
  <2>1. Alone(p) /\ UNCHANGED <<crsPath, mgr, overtaken>>
    BY <1>1, PlaceStep DEF ProcStep, LoadCurrentBundle, RelinkNginx, RelinkRest, StartOrReload, Spawn,
       WaitForRevision, FetchRelease, Download, ActivateRelease, Inside, Loaded, rules
  <2>2. \/ Finish(p, "ok") \/ Finish(p, "failed")
        \/ \E l \in Loaded \cup {"bootstrap"} : Goto(p, l)
    BY <1>1 DEF ProcStep, LoadCurrentBundle, RelinkNginx, RelinkRest, StartOrReload, Spawn, Confirmed,
       WaitForRevision, FetchRelease, Download, ActivateRelease, Inside, Loaded
  <2>3. pc'[p] \in {"idle", "dead", "bootstrap"} \cup Loaded
    BY <1>0, <2>2, Finished, Moved DEF Place, Loaded
  <2>4. pc[p] \notin Updating \cup {"setPath"} /\ pc'[p] \notin Busy \cup {"setPath"}
    BY <1>1, <2>3 DEF Inside, Loaded, Updating, Busy
  <2> QED
    BY <2>1, <2>4, PathSameAlone
<1>2. ASSUME NEW p \in Proc, pc[p] \in Busy, p = Main, Alone(p), crsPath' = mgr'.active PROVE PathOK'
  BY <1>0, <1>2 DEF UpdateFirst, Alone, PathOK
<1>3. ASSUME NEW p \in Proc, FetchRelease(p) \/ Download(p) PROVE PathOK'
  <2>1. Alone(p) /\ mgr'.active = mgr.active /\ pc[p] \in Busy /\ UNCHANGED overtaken
    BY <1>0, <1>3, PlaceStep DEF ProcStep, FetchRelease, Download, Manager, Busy
  <2>2. CASE p = Main /\ TakePath(p)
    BY <1>2, <2>1, <2>2 DEF TakePath
  <2>3. CASE (p # Main \/ pc'[p] \in Busy) /\ UNCHANGED crsPath
    <3>1. pc'[p] # "setPath"
      <4>1. \E l \in {"wait", "idle", "activate", "download"} : Goto(p, l)
        BY <1>3 DEF FetchRelease, Download, AfterUpdate
      <4> QED
        BY <1>0, <4>1, Moved DEF Place, Busy
    <3>2. pc[p] # "setPath"
      BY <2>1 DEF Busy
    <3> QED
      BY <2>1, <2>3, <3>1, <3>2, PathSameAlone DEF Updating
  <2>4. TakePath(p) \/ (UNCHANGED crsPath /\ Goto(p, "activate"))
    BY <1>3 DEF FetchRelease, Download
  <2>5. Goto(p, "activate") => pc'[p] \in Busy
    BY <1>0, Moved DEF Place, Busy
  <2> QED
    BY <2>2, <2>3, <2>4, <2>5 DEF TakePath
<1>4. ASSUME NEW p \in Proc, ActivateRelease(p) PROVE PathOK'
  <2>1. /\ Alone(p) /\ pc[p] \in Busy /\ rev' = rev /\ mgr'.active = rev[p]
        /\ overtaken' = {v \in Updater : pc[v] = "setPath"}
    BY <1>0, <1>4, PlaceStep DEF ProcStep, ActivateRelease, Manager, Busy
  <2>2. CASE p = Main
    BY <1>2, <1>4, <2>1, <2>2 DEF ActivateRelease, TakePath
  <2>3. CASE p \in Updater
    <3>1. pc'[p] = "setPath"
      BY <1>0, <1>4, <2>3, Moved DEF ActivateRelease, AfterUpdate, Place
    <3>2. \A r \in Reloader : pc'[r] = pc[r]
      BY <1>0, <2>1, <2>3 DEF Alone
    <3>3. overtaken' = {} => \A u \in Updater : pc'[u] = "setPath" => u = p
      BY <1>0, <2>1, <2>3 DEF Alone
    <3> QED
      BY <2>1, <2>3, <3>1, <3>2, <3>3 DEF PathOK
  <2>4. CASE p \in Reloader
    BY <2>1, <2>4 DEF PathOK
  <2> QED
    BY <1>0, <2>2, <2>3, <2>4
<1>5. ASSUME NEW u \in Updater, SetCRSPath(u) PROVE PathOK'
  <2>1. Alone(u) /\ rev' = rev /\ UNCHANGED <<mgr, overtaken>> /\ pc[u] = "setPath" /\ crsPath' = rev[u]
    BY <1>0, <1>5, PlaceMoves DEF SetCRSPath, rules
  <2>2. overtaken = {} => crsPath' = mgr'.active
    BY <2>1 DEF PathOK
  <2>3. pc'[u] = "lock"
    BY <1>0, <1>5, Moved DEF SetCRSPath, Place
  <2>4. \A r \in Reloader : pc'[r] = pc[r]
    BY <1>0, <2>1 DEF Alone
  <2>5. \A v \in Updater \ {u} : pc'[v] = pc[v]
    BY <1>0, <2>1 DEF Alone
  <2> QED
    BY <2>1, <2>2, <2>3, <2>4, <2>5 DEF PathOK
<1>6. ASSUME NEW p \in Other, StartReload(p) \/ Lock(p) \/ StartUpdate(p) PROVE PathOK'
  <2>1. Alone(p) /\ UNCHANGED <<crsPath, mgr, overtaken>> /\ pc'[p] \in {"fetch", "wait", "load", "dead", "lock", "start"}
    BY <1>0, <1>6, PlaceMoves DEF StartReload, Lock, StartUpdate, process, rules
  <2>2. pc[p] # "setPath" /\ (p \in Reloader => pc'[p] # "fetch")
    <3>1. p \in Reloader => Goto(p, "lock") \/ Goto(p, "load")
      BY <1>0, <1>6 DEF StartReload, Lock, StartUpdate
    <3> QED
      BY <1>0, <1>6, <3>1, Moved DEF StartReload, Lock, StartUpdate, Place
  <2> QED
    BY <1>0, <2>1, <2>2, PathSameAlone DEF Busy
<1>7. CASE RunFirst
  <2>1. Alone(Main) /\ pc[Main] = "first" /\ UNCHANGED mgr
    BY <1>0, <1>7, PlaceMoves DEF RunFirst, rules
  <2>2. \A p \in Other : pc'[p] = "idle"
    BY <1>0, <2>1 DEF UpdateFirst, Alone
  <2>3. pc'[Main] \notin Updating => crsPath' = mgr.active
    <3>1. Goto(Main, "fetch") \/ crsPath' = mgr.active
      BY <1>7 DEF RunFirst
    <3> QED
      BY <1>0, <3>1, Moved DEF Place, Busy, Updating
  <2> QED
    BY <1>0, <2>1, <2>2, <2>3 DEF PathOK, Busy
<1>8. CASE WaitForInitialBundle \/ BootBootstrapUI
  <2>1. Alone(Main) /\ UNCHANGED <<crsPath, mgr, overtaken>> /\ pc'[Main] # "setPath"
    BY <1>0, <1>8, PlaceMoves DEF WaitForInitialBundle, BootBootstrapUI, process, rules
  <2>2. pc[Main] \in {"wait", "bootstrap"}
    BY <1>8 DEF WaitForInitialBundle, BootBootstrapUI
  <2>3. pc[Main] \notin Updating /\ Main \notin Reloader
    BY <1>0, <2>2 DEF Updating, Busy
  <2> QED
    BY <1>0, <2>1, <2>2, <2>3, PathSameAlone
<1>9. CASE Restart
  BY <1>0, <1>9 DEF Restart, PathOK, Updating, Busy
<1>10. CASE SetHourlyAutoUpdate
  <2>1. mgr'.active = mgr.active /\ UNCHANGED <<crsPath, pc, rev, overtaken>>
    BY <1>0, <1>10 DEF SetHourlyAutoUpdate, Manager, process
  <2> QED
    BY <2>1 DEF PathOK
<1>11. CASE UNCHANGED <<crsPath, mgr, pc, rev, overtaken>>
  BY <1>11 DEF PathOK
<1>12. ASSUME NEW p \in Proc, ProcStep(p), ~(FetchRelease(p) \/ Download(p) \/ ActivateRelease(p)) PROVE pc[p] \in Inside
  BY <1>12 DEF ProcStep, LoadCurrentBundle, RelinkNginx, RelinkRest, StartOrReload, Spawn,
     WaitForRevision, Inside, Loaded
<1>13. ASSUME NEW p \in Proc, ProcStep(p) PROVE PathOK'
  BY <1>1, <1>3, <1>4, <1>12, <1>13
<1> QED
  BY <1>0, <1>5, <1>6, <1>7, <1>8, <1>9, <1>10, <1>11, <1>13
     DEF Next, vars, process, rules, Other, HandleHup, NginxExit, WaitReturns, NoticeExit, Forget, Publish, NewRelease

\* The reloads use the release the manager reports whenever no update is under
\* way and none overtook another, for any number of updaters, releases,
\* failures and restarts.
THEOREM PathFollowsManager == Spec => []RulesAgree
<1>1. Typed /\ UpdateFirst /\ PathOK /\ [Next]_vars => PathOK'
  BY PathKept
<1>2. PathOK => RulesAgree
  BY DEF PathOK, RulesAgree, Running, Updating, Busy
<1> QED
  BY TypeCorrect, PathInit, UpdateFirstKept, <1>1, <1>2, PTL DEF Spec
=============================================================================
