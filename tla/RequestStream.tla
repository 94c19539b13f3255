---------------------------- MODULE RequestStream ----------------------------
(***************************************************************************)
(* The request history of a runtime node.  The launcher reads the access   *)
(* log of nginx behind an offset it keeps in memory, appends the requests  *)
(* to one archive file a day and to the stores the logging settings name:  *)
(* OpenSearch (hot) and ClickHouse (cold).  When the log is absent a probe *)
(* also imports whole archive days into the stores, moves old days from    *)
(* the hot store to the cold one and prunes the hot one.                   *)
(*                                                                         *)
(* Every operation holds the mutex of the stream (op) over its calls to    *)
(* the stores; traffic, a change of the settings, the refresh of the       *)
(* OpenSearch index and a restart of the launcher happen in between.       *)
(***************************************************************************)
EXTENDS Integers, Sequences, FiniteSets, FiniteSetsExt

CONSTANTS
  Records,      \* the requests nginx serves
  At,           \* At[r]: the instant of a request, in slots
  Item,         \* Item[r]: what the telemetry filter looks at
  Slots,        \* the slots of a day; the last stands for its last second
  Settings,     \* the logging settings administrators save
  Retentions,   \* the retention_days the clients ask for
  DefaultRetention,
  Queries,      \* the day and since filters of the reads
  BatchLines,   \* requestIngestBatchLines
  ExportLimit,  \* the size of a day export from OpenSearch
  HistoryDays,  \* maxRequestHistoryDays
  MaxDay, MaxFaults, MaxChanges,
  None

\* The backends and routing flags a saved document can name.
LoggingSettings ==
  [hot : {"file", "opensearch"}, cold : {"file", "opensearch", "clickhouse"},
   toHot : BOOLEAN, toCold : BOOLEAN, fallback : BOOLEAN, import : BOOLEAN,
   hotDays : Nat, coldDays : Nat]

ASSUME StreamAssumption ==
  /\ At \in [Records -> Nat] /\ \A r, q \in Records : r # q => At[r] # At[q]
  /\ Slots \in Nat \ {0} /\ BatchLines \in Nat \ {0} /\ ExportLimit \in Nat
  /\ DefaultRetention \in Nat \ {0} /\ Retentions \subseteq Nat \ {0}
  /\ HistoryDays \in Nat /\ MaxDay \in Nat
  /\ Settings \subseteq LoggingSettings
  /\ None \notin Int
  /\ \A q \in Queries : q.day \in Int \cup {None} /\ q.since \in Int \cup {None} /\ q.tz \in Int

VARIABLES
  log,        \* the access log: the requests written, None when the file is absent
  logged,     \* the requests nginx has served
  offset,     \* lastProcessedOffset, in lines
  today,
  archive,    \* the requests in the day files of the archive
  hot,        \* the OpenSearch documents a search returns
  fresh,      \* the documents indexed since the last refresh
  cold,       \* the ClickHouse rows
  imported,   \* the days recorded in the three migration state files
  settings,   \* the logging settings, read again at every use
  failed,     \* lastIngestError is set
  op,         \* the operation that holds the mutex
  reader,     \* a latest that left the mutex to ask the stores
  faults, changes

stores == <<archive, hot, fresh, cold, imported>>
source == <<log, logged, offset, today>>
vars == <<source, stores, settings, failed, op, reader, faults, changes>>

-----------------------------------------------------------------------------
(* Days and queries                                                        *)

DayOf(r) == At[r] \div Slots
Days == 0 .. MaxDay
LastSecond(r) == At[r] % Slots = Slots - 1
OfDay(S, d) == {r \in S : DayOf(r) = d}

\* parsedDay.Before(now.AddDate(0, 0, -n)): midnight of d against an instant
\* of the day n days ago.
Before(d, n) == d + n <= today

requestDayRangeUTC(q) ==
  LET start == q.day * Slots + q.tz IN [start |-> start, end |-> start + Slots]

\* Mutant: the archive keys of a local day are those of its first instant.
KeysFirstOnly(q) ==
  IF q.day # None THEN {requestDayRangeUTC(q).start \div Slots} ELSE Days

requestDayArchiveKeys(q) ==
  IF q.day # None
  THEN {requestDayRangeUTC(q).start \div Slots, requestDayRangeUTC(q).end \div Slots}
  ELSE IF q.since = None THEN {}
  ELSE Max({q.since \div Slots, today - HistoryDays}) .. today

requestTimestampMatchesOptions(r, q) ==
  /\ q.since # None => At[r] >= q.since
  /\ q.day # None => /\ At[r] >= requestDayRangeUTC(q).start
                     /\ At[r] < requestDayRangeUTC(q).end

\* No key at all means every archive file.
loadArchiveRows(q) ==
  {r \in archive : /\ requestTimestampMatchesOptions(r, q)
                   /\ \/ requestDayArchiveKeys(q) = {}
                      \/ DayOf(r) \in requestDayArchiveKeys(q)}

\* The dashboard reads only the keyed files and drops the panel's own requests.
dashboardSummaryArchive(q) ==
  {r \in archive : /\ DayOf(r) \in requestDayArchiveKeys(q)
                   /\ requestTimestampMatchesOptions(r, q)
                   /\ ~Item[r].management}

-----------------------------------------------------------------------------
(* The telemetry filter and the stores                                     *)

\* A line that is neither JSON nor the old format gives no request.
parseAccessLine(i) == i.wellFormed

shouldSkipRequestTelemetry(i) ==
  i.status \notin {403, 444} /\ (i.management \/ i.asset \/ ~i.site \/ ~i.host)

\* Normalize: without any routing flag the requests go where the backends are.
Normalize(s) ==
  IF s.toHot \/ s.toCold \/ s.fallback THEN s
  ELSE [s EXCEPT !.toHot = s.hot = "opensearch",
                 !.toCold = \/ s.cold = "clickhouse"
                            \/ s.cold = "opensearch" /\ s.hot # "opensearch",
                 !.fallback = TRUE]

Logging == Normalize(settings)
EnabledOpenSearch == "opensearch" \in {Logging.hot, Logging.cold}
EnabledClickHouse == Logging.cold = "clickhouse"

writeToOpenSearch ==
  \/ Logging.toHot /\ Logging.hot = "opensearch"
  \/ Logging.toCold /\ Logging.cold = "opensearch"

\* The earliest n requests of S.
Earliest(S, n) == {r \in S : Cardinality({q \in S : At[q] < At[r]}) < n}

\* Both queries leave out the last second of the day.
InDayRange(d) == {r \in OfDay(hot, d) : ~LastSecond(r)}
openSearchExportDay(d) == Earliest(InDayRange(d), ExportLimit)
openSearchDeleteDay(d) ==
  hot' = IF EnabledOpenSearch THEN hot \ InDayRange(d) ELSE hot

clickHouseExportDay(d) == OfDay(cold, d)
clickHouseDeleteDay(d) ==
  cold' = IF EnabledClickHouse THEN cold \ OfDay(cold, d) ELSE cold

\* A call to a store fails when the store does; a failing insert may have
\* stored what it was given.
Fault == faults < MaxFaults /\ faults' = faults + 1
NoFault == UNCHANGED faults

\* insert: nothing, without an error, when the store is not enabled.  The bulk
\* request does not refresh the index; a document indexed again stays visible.
openSearchInsert(rs, ok) ==
  \/ ~EnabledOpenSearch /\ ok /\ NoFault /\ UNCHANGED <<hot, fresh>>
  \/ EnabledOpenSearch /\ ok /\ NoFault /\ fresh' = fresh \cup (rs \ hot) /\ UNCHANGED hot
  \/ EnabledOpenSearch /\ ~ok /\ Fault /\ fresh' \in {fresh, fresh \cup (rs \ hot)}
     /\ UNCHANGED hot

clickHouseInsert(rs, ok) ==
  \/ ~EnabledClickHouse /\ ok /\ NoFault /\ UNCHANGED cold
  \/ EnabledClickHouse /\ ok /\ NoFault /\ cold' = cold \cup rs
  \/ EnabledClickHouse /\ ~ok /\ Fault /\ cold' \in {cold, cold \cup rs}

\* The filter of a search: the retention of the caller counts only without a
\* day and an instant.
buildOpenSearchRequestQuery(r, q, n) ==
  /\ q.day = None /\ q.since = None => DayOf(r) >= today - n
  /\ requestTimestampMatchesOptions(r, q)

openSearchLatest(q, n) ==
  IF EnabledOpenSearch THEN {r \in hot : buildOpenSearchRequestQuery(r, q, n)} ELSE {}
clickHouseLatest(q, n) ==
  IF ~EnabledClickHouse THEN {}
  ELSE {r \in cold : /\ q.day = None /\ q.since = None => DayOf(r) >= today - n
                     /\ requestTimestampMatchesOptions(r, q)}
latestFromBackends(q, n) == openSearchLatest(q, n) \cup clickHouseLatest(q, n)

\* containsDayRecords: the export of the day shows every record, or an error.
\* Mutant: an import trusts the insert.
ContainsTrusted(d, rs) == TRUE

containsDayRecords(d, rs) ==
  EnabledOpenSearch /\ rs \subseteq openSearchExportDay(d)

validateClickHouseDayContainsRecords(d, rs) ==
  EnabledClickHouse /\ rs \subseteq clickHouseExportDay(d)

-----------------------------------------------------------------------------
(* The holder of the mutex                                                 *)

Idle == [pc |-> "idle"]
Held(pc, caller, retention) ==
  [pc |-> pc, caller |-> caller, retention |-> retention, records |-> {},
   days |-> {}, marks |-> {}, day |-> None, horizon |-> None]
At_(pc) == op.pc = pc
Goto(pc) == op' = [op EXCEPT !.pc = pc]

Init ==
  /\ log = <<>> /\ logged = {} /\ offset = 0 /\ today = 0
  /\ archive = {} /\ hot = {} /\ fresh = {} /\ cold = {}
  /\ imported = [f \in {"opensearch", "clickhouse", "hotToCold"} |-> {}]
  /\ settings \in Settings
  /\ failed = FALSE /\ op = Idle /\ reader = FALSE
  /\ faults = 0 /\ changes = 0

-----------------------------------------------------------------------------
(* The surroundings                                                        *)

\* nginx serves a request and writes its line, in the order of time.
Traffic(r) ==
  /\ r \notin logged /\ DayOf(r) = today /\ \A q \in logged : At[q] < At[r]
  /\ log' = Append(IF log = None THEN <<>> ELSE log, r)
  /\ logged' = logged \cup {r}
  /\ UNCHANGED <<offset, today, stores, settings, failed, op, reader, faults, changes>>

\* The log is rotated: emptied, or gone until nginx reopens it.
Rotate(l) ==
  /\ log # l /\ log' = l
  /\ UNCHANGED <<logged, offset, today, stores, settings, failed, op, reader, faults, changes>>

NextDay ==
  /\ today < MaxDay /\ today' = today + 1
  /\ UNCHANGED <<log, logged, offset, stores, settings, failed, op, reader, faults, changes>>

\* OpenSearch makes the indexed documents searchable.
Refresh ==
  /\ fresh # {} /\ hot' = hot \cup fresh /\ fresh' = {}
  /\ UNCHANGED <<source, archive, cold, imported, settings, failed, op, reader, faults, changes>>

ChangeSettings(s) ==
  /\ changes < MaxChanges /\ changes' = changes + 1
  /\ settings # s /\ settings' = s
  /\ UNCHANGED <<source, stores, failed, op, reader, faults>>

\* The launcher restarts: the offset is not persisted.
Restart ==
  /\ Fault
  /\ offset' = 0 /\ failed' = FALSE /\ op' = Idle /\ reader' = FALSE
  /\ UNCHANGED <<log, logged, today, stores, settings, changes>>

-----------------------------------------------------------------------------
(* Ingest                                                                  *)

\* startBackgroundIngest, every few seconds.
BackgroundIngest ==
  /\ At_("idle") /\ op' = Held("ingest", "tick", DefaultRetention)
  /\ UNCHANGED <<source, stores, settings, failed, reader, faults, changes>>

\* latest: the rows of the archive, the stores' when it has none.
Latest(n) ==
  /\ At_("idle") /\ op' = Held("ingest", "latest", n)
  /\ UNCHANGED <<source, stores, settings, failed, reader, faults, changes>>

DashboardSummary(n) ==
  /\ At_("idle") /\ op' = Held("ingest", "summary", n)
  /\ UNCHANGED <<source, stores, settings, failed, reader, faults, changes>>

\* probe ingests, and synchronises the stores, only when the log is absent.
Probe(n) ==
  /\ At_("idle") /\ log = None
  /\ op' = Held("ingest", "probe", n)
  /\ UNCHANGED <<source, stores, settings, failed, reader, faults, changes>>

\* The part of the log an ingest reads: from the offset, or from the start of
\* a file that has become shorter, at most a batch of lines.
IngestFrom == IF offset > Len(log) THEN 0 ELSE offset
IngestTo == Min({Len(log), IngestFrom + BatchLines})
IngestBatch ==
  {r \in {log[i] : i \in IngestFrom + 1 .. IngestTo} :
     parseAccessLine(Item[r]) /\ ~shouldSkipRequestTelemetry(Item[r])}

\* Archive part of ingestArchiveLocked; the rows of a day whose file does not
\* open are dropped, behind an offset that has moved on.
IngestArchive ==
  /\ At_("ingest")
  /\ \/ /\ log = None /\ Goto("prune")
        /\ UNCHANGED <<offset, archive, faults>>
     \/ /\ log # None
        /\ offset' = IngestTo
        /\ op' = [op EXCEPT !.pc = "insertHot", !.records = IngestBatch]
        /\ \/ NoFault /\ archive' = archive \cup IngestBatch
           \/ /\ Fault
              /\ \E d \in Days : OfDay(IngestBatch, d) # {}
                                 /\ archive' = archive \cup (IngestBatch \ OfDay(IngestBatch, d))
  /\ UNCHANGED <<log, logged, today, hot, fresh, cold, imported, settings, failed, reader, changes>>

\* An insert that is not needed leaves the error of an earlier one.
IngestOpenSearch ==
  /\ At_("insertHot") /\ Goto("insertCold")
  /\ \/ /\ op.records # {} /\ writeToOpenSearch
        /\ \E ok \in BOOLEAN : openSearchInsert(op.records, ok) /\ failed' = ~ok
     \/ /\ ~(op.records # {} /\ writeToOpenSearch)
        /\ UNCHANGED <<hot, fresh, failed, faults>>
  /\ UNCHANGED <<source, archive, cold, imported, settings, reader, changes>>

writeToClickHouse == Logging.toCold /\ Logging.cold = "clickhouse"

IngestClickHouse ==
  /\ At_("insertCold") /\ Goto("prune")
  /\ \/ /\ op.records # {} /\ writeToClickHouse
        /\ \E ok \in BOOLEAN : clickHouseInsert(op.records, ok) /\ failed' = ~ok
     \/ /\ ~(op.records # {} /\ writeToClickHouse)
        /\ UNCHANGED <<cold, failed, faults>>
  /\ UNCHANGED <<source, archive, hot, fresh, imported, settings, reader, changes>>

pruneArchive == archive' = {r \in archive : ~Before(DayOf(r), op.retention)}

\* The end of an ingest.  A tick clears the error, even the one this ingest
\* has just recorded; a latest whose query finds no archive row goes on without
\* the mutex.
PruneArchive ==
  /\ At_("prune") /\ pruneArchive
  /\ op' = IF op.caller = "probe" THEN [op EXCEPT !.pc = "importCold", !.records = {}] ELSE Idle
  /\ failed' = (failed /\ op.caller # "tick")
  /\ \/ /\ op.caller = "latest"
        /\ \E q \in Queries : loadArchiveRows(q) \cap archive' = {}
        /\ reader' = TRUE
     \/ /\ op.caller = "latest" => \E q \in Queries : loadArchiveRows(q) \cap archive' # {}
        /\ UNCHANGED reader
  /\ UNCHANGED <<source, hot, fresh, cold, imported, settings, faults, changes>>

\* latestFromBackends: each store answers or leaves its error.
LatestFromBackends ==
  /\ reader /\ reader' = FALSE
  /\ \/ NoFault /\ UNCHANGED failed
     \/ Fault /\ (EnabledOpenSearch \/ EnabledClickHouse) /\ failed' = TRUE
  /\ UNCHANGED <<source, stores, settings, op, changes>>

-----------------------------------------------------------------------------
(* Synchronisation of the stores                                           *)

\* A stage that fails leaves its error and its state file as they were.
Fail(next) == failed' = TRUE /\ op' = [op EXCEPT !.pc = next, !.days = {}, !.marks = {}, !.records = {}]
Skip(next) == op' = [op EXCEPT !.pc = next] /\ UNCHANGED failed
StartDays(pc, days, file) ==
  op' = [op EXCEPT !.pc = pc, !.days = days, !.marks = imported[file], !.records = {}]

ArchiveDays == {DayOf(r) : r \in archive}
NextDayOf == Max(op.days \ op.marks)

\* The end of a stage: the state file is written.
SaveMarks(file, next) ==
  /\ imported' = [imported EXCEPT ![file] = op.marks]
  /\ op' = [op EXCEPT !.pc = next, !.days = {}, !.marks = {}, !.records = {}]

\* importArchiveDaysToClickHouse, today's file included.
ImportColdBegin ==
  /\ At_("importCold")
  /\ \/ ~(EnabledClickHouse /\ Logging.import) /\ Skip("importHot")
     \/ EnabledClickHouse /\ Logging.import /\ UNCHANGED failed
        /\ StartDays("importColdDay", ArchiveDays, "clickhouse")
  /\ UNCHANGED <<source, stores, settings, reader, faults, changes>>

ImportColdDay ==
  /\ At_("importColdDay") /\ op.days \ op.marks # {}
  /\ \E ok \in BOOLEAN :
       /\ clickHouseInsert(OfDay(archive, NextDayOf), ok)
       /\ IF ok THEN /\ op' = [op EXCEPT !.pc = "importColdCheck", !.day = NextDayOf,
                                         !.records = OfDay(archive, NextDayOf)]
                     /\ UNCHANGED failed
          ELSE Fail("importHot")
  /\ UNCHANGED <<source, archive, hot, fresh, imported, settings, reader, changes>>

ImportColdCheck ==
  /\ At_("importColdCheck")
  /\ \/ /\ NoFault /\ validateClickHouseDayContainsRecords(op.day, op.records)
        /\ op' = [op EXCEPT !.pc = "importColdDay", !.marks = @ \cup {op.day}]
        /\ UNCHANGED failed
     \/ /\ \/ NoFault /\ ~validateClickHouseDayContainsRecords(op.day, op.records)
           \/ Fault
        /\ Fail("importHot")
  /\ UNCHANGED <<source, stores, settings, reader, changes>>

ImportColdEnd ==
  /\ At_("importColdDay") /\ op.days \ op.marks = {}
  /\ SaveMarks("clickhouse", "importHot")
  /\ UNCHANGED <<source, archive, hot, fresh, cold, settings, failed, reader, faults, changes>>

\* importArchiveDaysToOpenSearch, the days before today.
ImportHotBegin ==
  /\ At_("importHot")
  /\ \/ ~EnabledOpenSearch /\ Skip("migrate")
     \/ EnabledOpenSearch /\ UNCHANGED failed
        /\ StartDays("importHotDay", {d \in ArchiveDays : d < today}, "opensearch")
  /\ UNCHANGED <<source, stores, settings, reader, faults, changes>>

ImportHotDay ==
  /\ At_("importHotDay") /\ op.days \ op.marks # {}
  /\ \E ok \in BOOLEAN :
       /\ openSearchInsert(OfDay(archive, NextDayOf), ok)
       /\ IF ok THEN /\ op' = [op EXCEPT !.pc = "importHotCheck", !.day = NextDayOf,
                                         !.records = OfDay(archive, NextDayOf)]
                     /\ UNCHANGED failed
          ELSE Fail("migrate")
  /\ UNCHANGED <<source, archive, cold, imported, settings, reader, changes>>

\* A verified day leaves the archive.
ImportHotCheck ==
  /\ At_("importHotCheck")
  /\ \/ /\ NoFault /\ containsDayRecords(op.day, op.records)
        /\ archive' = archive \ OfDay(archive, op.day)
        /\ op' = [op EXCEPT !.pc = "importHotDay", !.marks = @ \cup {op.day}]
        /\ UNCHANGED failed
     \/ /\ \/ NoFault /\ ~containsDayRecords(op.day, op.records)
           \/ Fault
        /\ Fail("migrate") /\ UNCHANGED archive
  /\ UNCHANGED <<source, hot, fresh, cold, imported, settings, reader, changes>>

ImportHotEnd ==
  /\ At_("importHotDay") /\ op.days \ op.marks = {}
  /\ SaveMarks("opensearch", "migrate")
  /\ UNCHANGED <<source, archive, hot, fresh, cold, settings, failed, reader, faults, changes>>

\* migrateHotToCold, the days of OpenSearch beyond the caller's retention.
MigrateBegin ==
  /\ At_("migrate")
  /\ \/ ~(Logging.cold = "clickhouse" /\ Logging.hot = "opensearch") /\ Skip("pruneHot")
     \/ /\ Logging.cold = "clickhouse" /\ Logging.hot = "opensearch" /\ UNCHANGED failed
        /\ StartDays("migrateDay", {d \in {DayOf(r) : r \in hot} : Before(d, op.retention)}, "hotToCold")
  /\ UNCHANGED <<source, stores, settings, reader, faults, changes>>

\* The export of the next day and its insert.
MigrateDay ==
  /\ At_("migrateDay") /\ op.days \ op.marks # {}
  /\ \/ /\ ~EnabledOpenSearch /\ Fail("pruneHot") /\ UNCHANGED <<cold, faults>>
     \/ /\ EnabledOpenSearch
        /\ \E ok \in BOOLEAN :
             /\ clickHouseInsert(openSearchExportDay(NextDayOf), ok)
             /\ IF ok THEN /\ op' = [op EXCEPT !.pc = "migrateCheck", !.day = NextDayOf,
                                               !.records = openSearchExportDay(NextDayOf)]
                           /\ UNCHANGED failed
                ELSE Fail("pruneHot")
  /\ UNCHANGED <<source, archive, hot, fresh, imported, settings, reader, changes>>

MigrateCheck ==
  /\ At_("migrateCheck")
  /\ \/ /\ NoFault
        /\ op.records = {} \/ validateClickHouseDayContainsRecords(op.day, op.records)
        /\ Goto("migrateDelete") /\ UNCHANGED failed
     \/ /\ op.records # {}
        /\ \/ NoFault /\ ~validateClickHouseDayContainsRecords(op.day, op.records)
           \/ Fault
        /\ Fail("pruneHot")
  /\ UNCHANGED <<source, stores, settings, reader, changes>>

MigrateDelete ==
  /\ At_("migrateDelete")
  /\ \/ /\ NoFault /\ openSearchDeleteDay(op.day)
        /\ op' = [op EXCEPT !.pc = "migrateDay", !.marks = @ \cup {op.day}]
        /\ UNCHANGED failed
     \/ Fault /\ EnabledOpenSearch /\ Fail("pruneHot") /\ UNCHANGED hot
  /\ UNCHANGED <<source, archive, fresh, cold, imported, settings, reader, changes>>

MigrateEnd ==
  /\ At_("migrateDay") /\ op.days \ op.marks = {}
  /\ SaveMarks("hotToCold", "pruneHot")
  /\ UNCHANGED <<source, archive, hot, fresh, cold, settings, failed, reader, faults, changes>>

\* The horizon of pruneOpenSearchOldDays.
Horizon ==
  LET days == IF Logging.cold = "opensearch" THEN Logging.coldDays ELSE Logging.hotDays
  IN  IF days > 0 THEN days ELSE op.retention

PruneHotBegin ==
  /\ At_("pruneHot")
  /\ \/ ~EnabledOpenSearch /\ op' = Idle
     \/ /\ EnabledOpenSearch
        /\ op' = [op EXCEPT !.pc = "pruneHotDay", !.horizon = Horizon,
                            !.days = {d \in {DayOf(r) : r \in hot} : Before(d, Horizon)}]
  /\ UNCHANGED <<source, stores, settings, failed, reader, faults, changes>>

PruneHotDay ==
  /\ At_("pruneHotDay") /\ op.days # {}
  /\ \/ /\ NoFault /\ openSearchDeleteDay(Max(op.days))
        /\ op' = [op EXCEPT !.days = @ \ {Max(op.days)}]
        /\ UNCHANGED failed
     \/ Fault /\ EnabledOpenSearch /\ op' = Idle /\ failed' = TRUE /\ UNCHANGED hot
  /\ UNCHANGED <<source, archive, fresh, cold, imported, settings, reader, changes>>

PruneHotEnd ==
  /\ At_("pruneHotDay") /\ op.days = {} /\ op' = Idle
  /\ UNCHANGED <<source, stores, settings, failed, reader, faults, changes>>

-----------------------------------------------------------------------------
(* deleteIndex: the day leaves both stores, the archive and the state      *)
(* files; the error of a store does not stop it.                           *)

DeleteIndex(d) ==
  /\ At_("idle") /\ op' = [Held("deleteHot", "delete", DefaultRetention) EXCEPT !.day = d]
  /\ UNCHANGED <<source, stores, settings, failed, reader, faults, changes>>

DeleteHot ==
  /\ At_("deleteHot") /\ Goto("deleteCold")
  /\ \/ NoFault /\ openSearchDeleteDay(op.day) /\ UNCHANGED failed
     \/ Fault /\ EnabledOpenSearch /\ failed' = TRUE /\ UNCHANGED hot
  /\ UNCHANGED <<source, archive, fresh, cold, imported, settings, reader, changes>>

DeleteCold ==
  /\ At_("deleteCold") /\ Goto("deleteFile")
  /\ \/ NoFault /\ clickHouseDeleteDay(op.day) /\ UNCHANGED failed
     \/ Fault /\ EnabledClickHouse /\ failed' = TRUE /\ UNCHANGED cold
  /\ UNCHANGED <<source, archive, hot, fresh, imported, settings, reader, changes>>

DeleteFile ==
  /\ At_("deleteFile") /\ op' = Idle
  /\ archive' = archive \ OfDay(archive, op.day)
  /\ imported' = [f \in DOMAIN imported |-> imported[f] \ {op.day}]
  /\ UNCHANGED <<source, hot, fresh, cold, settings, failed, reader, faults, changes>>

-----------------------------------------------------------------------------
Surroundings ==
  \/ \E r \in Records : Traffic(r)
  \/ \E l \in {None, <<>>} : Rotate(l)
  \/ NextDay \/ Refresh \/ Restart
  \/ \E s \in Settings : ChangeSettings(s)

\* The control plane asks for rows, a summary or a probe; it asks a second
\* address when the first does not answer in time, and does not wait for a
\* runtime that goes on.
CollectWithOptions == \E n \in Retentions : Latest(n)
CollectDashboardSummary == \E n \in Retentions : DashboardSummary(n)
ProbeRequests == \E n \in Retentions : Probe(n)
ServeRequests == CollectWithOptions \/ ProbeRequests

Calls ==
  \/ BackgroundIngest
  \/ ServeRequests \/ CollectDashboardSummary
  \/ \E d \in {DayOf(r) : r \in logged} : DeleteIndex(d)

Steps ==
  \/ IngestArchive \/ IngestOpenSearch \/ IngestClickHouse \/ PruneArchive \/ LatestFromBackends
  \/ ImportColdBegin \/ ImportColdDay \/ ImportColdCheck \/ ImportColdEnd
  \/ ImportHotBegin \/ ImportHotDay \/ ImportHotCheck \/ ImportHotEnd
  \/ MigrateBegin \/ MigrateDay \/ MigrateCheck \/ MigrateDelete \/ MigrateEnd
  \/ PruneHotBegin \/ PruneHotDay \/ PruneHotEnd
  \/ DeleteHot \/ DeleteCold \/ DeleteFile

Next == Surroundings \/ Calls \/ Steps

Spec == Init /\ [][Next]_vars

-----------------------------------------------------------------------------
Places ==
  {"ingest", "insertHot", "insertCold", "prune", "importCold", "importColdDay", "importColdCheck",
   "importHot", "importHotDay", "importHotCheck", "migrate", "migrateDay", "migrateCheck",
   "migrateDelete", "pruneHot", "pruneHotDay", "deleteHot", "deleteCold", "deleteFile"}
Operation ==
  [pc : Places, caller : {"tick", "latest", "summary", "probe", "delete"}, retention : Nat,
   records : SUBSET Records, days : SUBSET Days, marks : SUBSET Days,
   day : Days \cup {None}, horizon : Nat \cup {None}]

TypeOK ==
  /\ log = None \/ log \in Seq(Records)
  /\ logged \subseteq Records /\ offset \in Nat /\ today \in Days
  /\ archive \subseteq logged /\ hot \subseteq logged /\ fresh \subseteq logged /\ cold \subseteq logged
  /\ imported \in [{"opensearch", "clickhouse", "hotToCold"} -> SUBSET Days]
  /\ settings \in Settings /\ failed \in BOOLEAN
  /\ op \in Operation \cup {Idle} /\ reader \in BOOLEAN

Stored == archive \cup hot \cup fresh \cup cold

\* A request that was stored once stays in the archive, OpenSearch or
\* ClickHouse: it leaves the last of them only when its day is beyond the
\* retention the running operation was called with (pruneArchiveLocked,
\* migrateHotToColdLocked) or took from the settings (pruneOpenSearchOldDays),
\* or when an operator deletes the day.  In particular an import removes a day
\* file only after the records were seen in the store, whatever happens to the
\* settings, the store and the launcher meanwhile.
RequestsKept ==
  [][\A r \in Stored \ Stored' :
       /\ op # Idle
       /\ \/ op.caller = "delete" /\ op.day = DayOf(r)
          \/ Before(DayOf(r), op.retention)
          \/ op.horizon # None /\ Before(DayOf(r), op.horizon)]_vars

\* A read of a local day finds in the archive exactly the archived requests of
\* that day in the caller's time zone, although a local day spreads over two
\* archive files; the stores answer with requests of that day too, and the
\* dashboard counts the archived ones but the panel's own.  A read since an
\* instant finds every later request of the last maxRequestHistoryDays days.
LocalDayRead ==
  \A q \in Queries :
    /\ (q.day # None /\ q.since = None) =>
         /\ loadArchiveRows(q) = {r \in archive : (At[r] - q.tz) \div Slots = q.day}
         /\ \A n \in Retentions :
              latestFromBackends(q, n) \subseteq {r \in Records : (At[r] - q.tz) \div Slots = q.day}
         /\ dashboardSummaryArchive(q) = {r \in loadArchiveRows(q) : ~Item[r].management}
    /\ (q.day = None /\ q.since # None) =>
         {r \in archive : At[r] >= q.since /\ DayOf(r) > today - HistoryDays} \subseteq loadArchiveRows(q)

=============================================================================
