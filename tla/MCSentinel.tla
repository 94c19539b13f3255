----------------------------- MODULE MCSentinel -----------------------------
(***************************************************************************)
(* The run on Sentinel: two addresses, two sites, limits small enough to   *)
(* be met. A batch is what one unit of time may add to the log.            *)
(***************************************************************************)
EXTENDS Sentinel

\* Thresholds that contradict each other are possible in the environment.
Small ==
  [Watch |-> 300, TempBan |-> 700, Cooldown |-> 2, MaxActive |-> 3, MaxPublished |-> 1, Budget |-> 2,
   Inactive |-> 2, Hold |-> 2, MinUnique |-> 1, TemporaryHold |-> 1, MinLifetime |-> 1,
   SuggestInactive |-> 2, UniqueIPs |-> 1, RPS |-> 100]
Environment == Small @@ [k \in DOMAIN Defaults \cup DOMAIN AsGiven |-> 0]

Entry(ip, site, n, status, scan, marks) ==
  [ip |-> ip, site |-> site, n |-> n, status |-> status, scan |-> scan, marks |-> marks, when |-> 0]
MCBatches ==
  {<<Entry(1, "a", 4, 403, None, {})>>,
   <<Entry(1, "a", 41, 404, 1, {"agent"}), Entry(2, "b", 1, 200, None, {})>>,
   <<Entry(1, "a", 3, 403, None, {}), Entry(1, "b", 3, 444, None, {"antibot", "ja3"})>>,
   <<Entry(2, None, 60, 200, None, {"fresh"})>>,
   <<Entry(2, "a", 130, 429, None, {}), Entry(1, "b", 80, 200, 1, {})>>}

Base == [enabled |-> TRUE, sites |-> {"a"}, Throttle |-> 0, Drop |-> 0, ConnLimit |-> 0,
         RatePerSecond |-> 10, RateBurst |-> 0, L7 |-> 0, Hold |-> 2, W429 |-> 0, W403 |-> 0, W444 |-> 0,
         PerIP |-> 20, RPS |-> 40, UniqueIPs |-> 0, Botnet |-> 0, Single |-> 0]
MCSettings ==
  {Base, [Base EXCEPT !.enabled = FALSE], [Base EXCEPT !.sites = {}],
   [Base EXCEPT !.sites = None, !.Throttle = 400, !.Drop = 900, !.RateBurst = 5],
   [Base EXCEPT !.sites = None, !.Throttle = 200, !.Drop = 800, !.L7 = 20, !.Hold = 0]}
=============================================================================
