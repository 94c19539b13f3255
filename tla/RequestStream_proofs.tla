------------------------ MODULE RequestStream_proofs ------------------------
(***************************************************************************)
(* Proofs about RequestStream: its types, that a stored request leaves the *)
(* last store only beyond a retention or by a deletion (RequestsKept), and *)
(* that the reads of a local day are exact (LocalDayRead).                 *)
(***************************************************************************)
EXTENDS RequestStream, WellFoundedInduction, TLAPS

\* Requests were served on a day that has come, and the log holds requests
\* that were served.
HistoryOK ==
  /\ \A r \in logged : DayOf(r) <= today
  /\ log # None => \A i \in 1 .. Len(log) : log[i] \in logged

\* What the holder of the mutex has in its hands: an import that is about to
\* remove a day file has every request of it, a migration and a pruning work
\* on days beyond their horizon, a deletion on the day it was asked for.
Migrating(o) == o.pc \in {"migrateDay", "migrateCheck", "migrateDelete"}
Deleting(o) == o.pc \in {"deleteHot", "deleteCold", "deleteFile"}
HandsOK(o) ==
  /\ o.records \subseteq logged
  /\ o.pc \in {"importColdCheck", "importHotCheck"} => o.day \in Days
  /\ o.pc = "importHotCheck" => OfDay(archive, o.day) \subseteq o.records
  /\ Migrating(o) => \A d \in o.days : Before(d, o.retention)
  /\ o.pc \in {"migrateCheck", "migrateDelete"} => o.day \in o.days
  /\ o.pc = "pruneHotDay" => o.horizon \in Nat /\ \A d \in o.days : Before(d, o.horizon)
  /\ Deleting(o) => o.caller = "delete" /\ o.day \in Days
OpOK == op # Idle => HandsOK(op)

Inv == TypeOK /\ HistoryOK /\ OpOK

-----------------------------------------------------------------------------
(* Days                                                                    *)

\* The day of a request is a number.
LEMMA DayNumber ==
  ASSUME NEW r \in Records
  PROVE  DayOf(r) \in Nat
<1>1. At[r] \in Nat /\ Slots \in Nat \ {0}
  BY StreamAssumption
<1> QED
  BY <1>1 DEF DayOf

\* The day of a request that was served has come.
LEMMA ServedDay ==
  ASSUME Inv
  PROVE  /\ today \in Nat /\ today <= MaxDay
         /\ \A r \in logged : r \in Records /\ DayOf(r) \in Nat /\ DayOf(r) <= today /\ DayOf(r) \in Days
  BY DayNumber, StreamAssumption DEF Inv, TypeOK, HistoryOK, Days

\* The latest of finitely many days is one of them.
LEMMA LatestDay ==
  ASSUME NEW S \in SUBSET Days, S # {}
  PROVE  Max(S) \in S
<1> DEFINE T == {MaxDay - d : d \in S}
           R == {ss \in Nat \X Nat : ss[1] < ss[2]}
<1>0. MaxDay \in Nat /\ S \subseteq 0 .. MaxDay
  BY StreamAssumption DEF Days
<1>1. T \subseteq Nat
  <2>1. ASSUME NEW d \in S PROVE MaxDay - d \in Nat
    BY <1>0
  <2> QED
    BY <2>1
<1>2. T # {}
  <2>1. PICK d : d \in S
    OBVIOUS
  <2>2. MaxDay - d \in T
    BY <2>1
  <2> QED
    BY <2>2
<1>3. IsWellFoundedOn(R, Nat)
  BY NatLessThanWellFounded, Zenon DEF OpToRel
<1>4. PICK x \in T : \A y \in T : ~(<<y, x>> \in R)
  <2> HIDE DEF T, R
  <2> QED
    BY <1>1, <1>2, <1>3, WFMin
<1>5. \A y \in T : x <= y
  <2>1. ASSUME NEW y \in T PROVE x <= y
    <3>1. x \in Nat /\ y \in Nat /\ ~(<<y, x>> \in R)
      BY <1>1, <1>4
    <3> QED
      BY <3>1
  <2> QED
    BY <2>1
<1>6. PICK d \in S : x = MaxDay - d
  BY <1>4
<1>7. \A y \in S : d >= y
  BY <1>0, <1>5, <1>6
<1> QED
  BY <1>7 DEF Max

-----------------------------------------------------------------------------
(* Operations                                                              *)

\* A new operation has nothing in its hands.
LEMMA NewOperation ==
  ASSUME NEW pc \in Places, NEW c \in {"tick", "latest", "summary", "probe", "delete"}, NEW n \in Nat
  PROVE  /\ Held(pc, c, n) \in Operation
         /\ Held(pc, c, n).pc = pc /\ Held(pc, c, n).caller = c /\ Held(pc, c, n).records = {}
  BY DEF Held, Operation

\* An operation that is not at rest is whole.
LEMMA NotIdle ==
  ASSUME Inv, op.pc # "idle"
  PROVE  op \in Operation /\ op # Idle /\ HandsOK(op)
  BY DEF Inv, TypeOK, OpOK, Idle

-----------------------------------------------------------------------------
(* The invariant                                                           *)

\* The parts of the type invariant that do not concern the operation.
LogTyped == (log = None \/ log \in Seq(Records)) /\ offset \in Nat
StoresTyped ==
  /\ archive \subseteq logged /\ hot \subseteq logged /\ fresh \subseteq logged /\ cold \subseteq logged
  /\ imported \in [{"opensearch", "clickhouse", "hotToCold"} -> SUBSET Days]
RestTyped == settings \in Settings /\ failed \in BOOLEAN /\ reader \in BOOLEAN
\* Together they are the type invariant.
LEMMA TypeParts ==
  TypeOK <=> /\ LogTyped /\ logged \subseteq Records /\ today \in Days
             /\ StoresTyped /\ RestTyped /\ op \in Operation \cup {Idle}
  BY DEF TypeOK, LogTyped, StoresTyped, RestTyped

\* Init satisfies it.
LEMMA InitInv == ASSUME Init PROVE Inv
<1>1. TypeOK
  <2>1. log \in Seq(Records) /\ 0 \in Days
    BY StreamAssumption DEF Init, Days
  <2>2. imported \in [{"opensearch", "clickhouse", "hotToCold"} -> SUBSET Days]
    BY DEF Init
  <2> QED
    BY <2>1, <2>2 DEF Init, TypeOK
<1>2. HistoryOK
  BY DEF Init, HistoryOK
<1> QED
  BY <1>1, <1>2 DEF Init, Inv, OpOK

\* What happens around the stream changes no operation but a restart's.
LEMMA SurroundingsKeep ==
  ASSUME Inv, Surroundings
  PROVE  Inv'
<1>1. ASSUME NEW r \in Records, Traffic(r) PROVE Inv'
  <2>1. TypeOK'
    BY <1>1 DEF Inv, TypeOK, Traffic, stores
  <2>2. HistoryOK'
    BY <1>1, DayNumber DEF Inv, TypeOK, HistoryOK, Traffic, DayOf, Days
  <2>3. OpOK'
    BY <1>1 DEF Inv, OpOK, HandsOK, Traffic, stores, Migrating, Deleting, Before, OfDay, DayOf
  <2> QED
    BY <2>1, <2>2, <2>3 DEF Inv
<1>2. ASSUME NEW l \in {None, <<>>}, Rotate(l) PROVE Inv'
  <2>0. <<>> \in Seq(Records)
    OBVIOUS
  <2>1. TypeOK'
    BY <1>2, <2>0 DEF Inv, TypeOK, Rotate, stores
  <2>2. HistoryOK'
    BY <1>2 DEF Inv, HistoryOK, Rotate, DayOf
  <2>3. OpOK'
    BY <1>2 DEF Inv, OpOK, HandsOK, Rotate, stores, Migrating, Deleting, Before, OfDay, DayOf
  <2> QED
    BY <2>1, <2>2, <2>3 DEF Inv
<1>3. CASE NextDay
  <2>1. TypeOK'
    BY <1>3, StreamAssumption DEF Inv, TypeOK, NextDay, stores, Days
  <2>2. HistoryOK'
    BY <1>3, ServedDay DEF Inv, HistoryOK, NextDay, DayOf
  <2>3. OpOK'
    <3>1. ASSUME op # Idle PROVE HandsOK(op)'
      <4>1. op \in Operation /\ HandsOK(op) /\ op' = op /\ today' = today + 1
        BY <1>3, <3>1 DEF Inv, TypeOK, OpOK, NextDay
      <4>2. ASSUME NEW d \in Days, NEW n \in Nat, Before(d, n) PROVE Before(d, n)'
        BY <4>1, <4>2, ServedDay DEF Before, Days
      <4> QED
        BY <1>3, <4>1, <4>2 DEF HandsOK, Operation, NextDay, stores, Migrating, Deleting, OfDay, DayOf
    <3> QED
      BY <1>3, <3>1 DEF OpOK, NextDay
  <2> QED
    BY <2>1, <2>2, <2>3 DEF Inv
<1>4. CASE Refresh
  <2>1. TypeOK'
    BY <1>4 DEF Inv, TypeOK, Refresh, source
  <2>2. HistoryOK'
    BY <1>4 DEF Inv, HistoryOK, Refresh, source, DayOf
  <2>3. OpOK'
    BY <1>4 DEF Inv, OpOK, HandsOK, Refresh, source, Migrating, Deleting, Before, OfDay, DayOf
  <2> QED
    BY <2>1, <2>2, <2>3 DEF Inv
<1>5. CASE Restart
  <2>1. TypeOK'
    BY <1>5 DEF Inv, TypeOK, Restart, stores
  <2>2. HistoryOK'
    BY <1>5 DEF Inv, HistoryOK, Restart, DayOf
  <2> QED
    BY <1>5, <2>1, <2>2 DEF Inv, OpOK, Restart
<1>6. ASSUME NEW s \in Settings, ChangeSettings(s) PROVE Inv'
  <2>1. TypeOK'
    BY <1>6 DEF Inv, TypeOK, ChangeSettings, source, stores
  <2>2. HistoryOK'
    BY <1>6 DEF Inv, HistoryOK, ChangeSettings, source, DayOf
  <2>3. OpOK'
    BY <1>6 DEF Inv, OpOK, HandsOK, ChangeSettings, source, stores, Migrating, Deleting, Before, OfDay, DayOf
  <2> QED
    BY <2>1, <2>2, <2>3 DEF Inv
<1> QED
  BY <1>1, <1>2, <1>3, <1>4, <1>5, <1>6 DEF Surroundings

\* A call that begins takes the mutex with empty hands.
LEMMA CallsKeep ==
  ASSUME Inv, Calls
  PROVE  Inv'
<1>1. PICK pc \in {"ingest", "deleteHot"}, c \in {"tick", "latest", "summary", "probe", "delete"},
          n \in Nat, d \in Days \cup {None} :
        /\ op' = [Held(pc, c, n) EXCEPT !.day = d]
        /\ pc = "deleteHot" => c = "delete" /\ d \in Days
        /\ UNCHANGED <<source, stores, settings, failed, reader, faults, changes>>
  <2>1. \A pc, c, n : Held(pc, c, n) = [Held(pc, c, n) EXCEPT !.day = None]
    BY DEF Held
  <2>2. DefaultRetention \in Nat /\ Retentions \subseteq Nat
    BY StreamAssumption
  <2>3. CASE BackgroundIngest
    BY <2>1, <2>2, <2>3 DEF BackgroundIngest
  <2>4. ASSUME NEW n \in Retentions, Latest(n) \/ DashboardSummary(n) \/ Probe(n)
        PROVE  \E c \in {"latest", "summary", "probe"} :
                 /\ op' = Held("ingest", c, n)
                 /\ UNCHANGED <<source, stores, settings, failed, reader, faults, changes>>
    BY <2>4 DEF Latest, DashboardSummary, Probe
  <2>5. CASE ServeRequests \/ CollectDashboardSummary
    <3>1. PICK n \in Retentions : Latest(n) \/ DashboardSummary(n) \/ Probe(n)
      BY <2>5 DEF ServeRequests, CollectWithOptions, CollectDashboardSummary, ProbeRequests
    <3>2. PICK c \in {"latest", "summary", "probe"} :
            /\ op' = Held("ingest", c, n)
            /\ UNCHANGED <<source, stores, settings, failed, reader, faults, changes>>
      BY <2>4, <3>1
    <3>3. op' = [Held("ingest", c, n) EXCEPT !.day = None] /\ n \in Nat
      BY <2>1, <2>2, <3>2
    <3> QED
      BY <3>2, <3>3
  <2>6. ASSUME NEW r \in logged, DeleteIndex(DayOf(r))
        PROVE  /\ op' = [Held("deleteHot", "delete", DefaultRetention) EXCEPT !.day = DayOf(r)]
               /\ DayOf(r) \in Days
               /\ UNCHANGED <<source, stores, settings, failed, reader, faults, changes>>
    BY <2>6, ServedDay DEF DeleteIndex
  <2>7. CASE \E d \in {DayOf(r) : r \in logged} : DeleteIndex(d)
    BY <2>2, <2>6, <2>7
  <2> QED
    BY <2>3, <2>5, <2>7 DEF Calls
<1>2. /\ op' \in Operation /\ op'.pc = pc /\ op'.caller = c /\ op'.day = d /\ op'.records = {}
  <2> DEFINE h == Held(pc, c, n)
  <2>1. h \in Operation /\ h.pc = pc /\ h.caller = c /\ h.records = {}
    BY NewOperation DEF Places
  <2>2. op' = [h EXCEPT !.day = d]
    BY <1>1
  <2> HIDE DEF h
  <2> QED
    BY <2>1, <2>2 DEF Operation
<1>3. TypeOK'
  BY <1>1, <1>2 DEF Inv, TypeOK, source, stores
<1>4. HistoryOK'
  BY <1>1 DEF Inv, HistoryOK, source, DayOf
<1>5. HandsOK(op)'
  BY <1>1, <1>2 DEF HandsOK, Migrating, Deleting
<1> QED
  BY <1>3, <1>4, <1>5 DEF Inv, OpOK

-----------------------------------------------------------------------------
(* The calls to the stores                                                 *)

\* An insert of served requests adds served requests and removes none.
LEMMA HotInsert ==
  ASSUME TypeOK, NEW rs \in SUBSET logged, NEW ok \in BOOLEAN, openSearchInsert(rs, ok)
  PROVE  hot' = hot /\ fresh \subseteq fresh' /\ fresh' \subseteq logged
  BY DEF TypeOK, openSearchInsert

\* So does an insert into the cold store.
LEMMA ColdInsert ==
  ASSUME TypeOK, NEW rs \in SUBSET logged, NEW ok \in BOOLEAN, clickHouseInsert(rs, ok)
  PROVE  cold \subseteq cold' /\ cold' \subseteq logged
  BY DEF TypeOK, clickHouseInsert

\* A deletion removes requests of its day only.
LEMMA HotDelete ==
  ASSUME NEW d, openSearchDeleteDay(d)
  PROVE  hot' \subseteq hot /\ \A r \in hot \ hot' : DayOf(r) = d
  BY DEF openSearchDeleteDay, InDayRange, OfDay

\* In the cold store too.
LEMMA ColdDelete ==
  ASSUME NEW d, clickHouseDeleteDay(d)
  PROVE  cold' \subseteq cold /\ \A r \in cold \ cold' : DayOf(r) = d
  BY DEF clickHouseDeleteDay, OfDay

\* The days of stored requests.
LEMMA StoredDays ==
  ASSUME Inv
  PROVE  /\ ArchiveDays \subseteq Days /\ {DayOf(r) : r \in hot} \subseteq Days
         /\ \A d : OfDay(archive, d) \subseteq logged /\ openSearchExportDay(d) \subseteq logged
<1>1. archive \subseteq logged /\ hot \subseteq logged
  BY DEF Inv, TypeOK
<1>2. ASSUME NEW d PROVE OfDay(archive, d) \subseteq logged /\ openSearchExportDay(d) \subseteq logged
  BY <1>1 DEF OfDay, openSearchExportDay, Earliest, InDayRange
<1> QED
  BY <1>1, <1>2, ServedDay DEF ArchiveDays

\* The horizon of the pruning is a number of days.
LEMMA HorizonNumber ==
  ASSUME Inv, op \in Operation
  PROVE  Horizon \in Nat
<1>1. settings \in LoggingSettings
  BY StreamAssumption DEF Inv, TypeOK
<1>2. Logging.hotDays \in Nat /\ Logging.coldDays \in Nat
  BY <1>1 DEF Logging, Normalize, LoggingSettings
<1> QED
  BY <1>2 DEF Horizon, Operation

\* The next day of a stage is one of its days.
LEMMA NextDayIn ==
  ASSUME op \in Operation, op.days \ op.marks # {}
  PROVE  NextDayOf \in op.days /\ NextDayOf \in Days
  BY LatestDay DEF NextDayOf, Operation

\* The batch of an ingest consists of served requests, and the offset stays a
\* number.
LEMMA Batch ==
  ASSUME Inv, log # None
  PROVE  IngestBatch \subseteq logged /\ IngestTo \in Nat
<1>1. log \in Seq(Records) /\ Len(log) \in Nat /\ offset \in Nat /\ BatchLines \in Nat
  BY StreamAssumption DEF Inv, TypeOK
<1>2. IngestFrom \in Nat
  BY <1>1 DEF IngestFrom
<1>3. IngestTo \in {Len(log), IngestFrom + BatchLines} /\ IngestTo <= Len(log)
  <2> DEFINE a == Len(log)
             b == IngestFrom + BatchLines
  <2>1. a \in Nat /\ b \in Nat
    BY <1>1, <1>2
  <2>2. \E x \in {a, b} : \A y \in {a, b} : x =< y
    BY <2>1
  <2> QED
    BY <2>1, <2>2 DEF IngestTo, Min
<1>4. IngestTo \in Nat
  BY <1>1, <1>2, <1>3
<1>5. \A i \in IngestFrom + 1 .. IngestTo : log[i] \in logged
  BY <1>1, <1>2, <1>3, <1>4 DEF Inv, HistoryOK
<1> QED
  BY <1>4, <1>5 DEF IngestBatch

-----------------------------------------------------------------------------
(* The steps of an operation                                               *)

\* They leave the log, the clock and the settings alone.
Surrounding == <<log, logged, today, settings>>
LEMMA StepsInside ==
  ASSUME Steps
  PROVE  UNCHANGED Surrounding
<1> USE DEF Surrounding, source, stores
<1>1. CASE IngestArchive \/ IngestOpenSearch \/ IngestClickHouse \/ PruneArchive \/ LatestFromBackends
  BY <1>1 DEF IngestArchive, IngestOpenSearch, IngestClickHouse, PruneArchive, LatestFromBackends
<1>2. CASE ImportColdBegin \/ ImportColdDay \/ ImportColdCheck \/ ImportColdEnd
  BY <1>2 DEF ImportColdBegin, ImportColdDay, ImportColdCheck, ImportColdEnd
<1>3. CASE ImportHotBegin \/ ImportHotDay \/ ImportHotCheck \/ ImportHotEnd
  BY <1>3 DEF ImportHotBegin, ImportHotDay, ImportHotCheck, ImportHotEnd
<1>4. CASE MigrateBegin \/ MigrateDay \/ MigrateCheck \/ MigrateDelete \/ MigrateEnd
  BY <1>4 DEF MigrateBegin, MigrateDay, MigrateCheck, MigrateDelete, MigrateEnd
<1>5. CASE PruneHotBegin \/ PruneHotDay \/ PruneHotEnd \/ DeleteHot \/ DeleteCold \/ DeleteFile
  BY <1>5 DEF PruneHotBegin, PruneHotDay, PruneHotEnd, DeleteHot, DeleteCold, DeleteFile
<1> QED
  BY <1>1, <1>2, <1>3, <1>4, <1>5 DEF Steps

\* The flags stay flags, and the offset a number.
LEMMA StepsFlags ==
  ASSUME Inv, Steps
  PROVE  RestTyped' /\ LogTyped'
<1>0. RestTyped /\ LogTyped /\ failed \in BOOLEAN /\ reader \in BOOLEAN
  BY TypeParts DEF Inv, RestTyped
<1>1. settings' = settings /\ log' = log
  BY StepsInside DEF Surrounding
<1>2. offset' \in Nat
  <2>1. CASE IngestArchive
    BY <1>0, <2>1, Batch DEF IngestArchive, LogTyped
  <2>2. CASE ~IngestArchive
    <3>1. offset' = offset
      <4> USE DEF source
      <4>1. CASE IngestOpenSearch \/ IngestClickHouse \/ PruneArchive \/ LatestFromBackends
        BY <4>1 DEF IngestOpenSearch, IngestClickHouse, PruneArchive, LatestFromBackends
      <4>2. CASE ImportColdBegin \/ ImportColdDay \/ ImportColdCheck \/ ImportColdEnd
        BY <4>2 DEF ImportColdBegin, ImportColdDay, ImportColdCheck, ImportColdEnd
      <4>3. CASE ImportHotBegin \/ ImportHotDay \/ ImportHotCheck \/ ImportHotEnd
        BY <4>3 DEF ImportHotBegin, ImportHotDay, ImportHotCheck, ImportHotEnd
      <4>4. CASE MigrateBegin \/ MigrateDay \/ MigrateCheck \/ MigrateDelete \/ MigrateEnd
        BY <4>4 DEF MigrateBegin, MigrateDay, MigrateCheck, MigrateDelete, MigrateEnd
      <4>5. CASE PruneHotBegin \/ PruneHotDay \/ PruneHotEnd \/ DeleteHot \/ DeleteCold \/ DeleteFile
        BY <4>5 DEF PruneHotBegin, PruneHotDay, PruneHotEnd, DeleteHot, DeleteCold, DeleteFile
      <4> QED
        BY <2>2, <4>1, <4>2, <4>3, <4>4, <4>5 DEF Steps
    <3> QED
      BY <1>0, <3>1 DEF LogTyped
  <2> QED
    BY <2>1, <2>2
<1>3. failed' \in BOOLEAN /\ reader' \in BOOLEAN
  <2> USE <1>0
  <2>1. CASE IngestArchive \/ IngestOpenSearch \/ IngestClickHouse
    BY <2>1, Zenon DEF IngestArchive, IngestOpenSearch, IngestClickHouse
  <2>2. CASE PruneArchive \/ LatestFromBackends
    BY <2>2, Zenon DEF PruneArchive, LatestFromBackends
  <2>3. CASE ImportColdBegin \/ ImportColdDay \/ ImportColdCheck \/ ImportColdEnd
    BY <2>3, Zenon DEF ImportColdBegin, ImportColdDay, ImportColdCheck, ImportColdEnd, Skip, Fail
  <2>4. CASE ImportHotBegin \/ ImportHotDay \/ ImportHotCheck \/ ImportHotEnd
    BY <2>4, Zenon DEF ImportHotBegin, ImportHotDay, ImportHotCheck, ImportHotEnd, Skip, Fail
  <2>5. CASE MigrateBegin \/ MigrateDay \/ MigrateCheck \/ MigrateDelete \/ MigrateEnd
    BY <2>5, Zenon DEF MigrateBegin, MigrateDay, MigrateCheck, MigrateDelete, MigrateEnd, Skip, Fail
  <2>6. CASE PruneHotBegin \/ PruneHotDay \/ PruneHotEnd \/ DeleteHot \/ DeleteCold \/ DeleteFile
    BY <2>6, Zenon DEF PruneHotBegin, PruneHotDay, PruneHotEnd, DeleteHot, DeleteCold, DeleteFile
  <2> QED
    BY <2>1, <2>2, <2>3, <2>4, <2>5, <2>6 DEF Steps
<1> QED
  BY <1>0, <1>1, <1>2, <1>3 DEF RestTyped, LogTyped

\* The stores keep requests that were served.
LEMMA StepsStores ==
  ASSUME Inv, Steps
  PROVE  StoresTyped'
<1>0. StoresTyped /\ TypeOK
  BY TypeParts DEF Inv
<1>1. logged' = logged
  BY StepsInside DEF Surrounding
<1>2. op.pc # "idle" => op \in Operation /\ op.records \subseteq logged /\ op.marks \subseteq Days
  BY NotIdle DEF HandsOK, Operation
<1> USE <1>0, <1>1, <1>2 DEF StoresTyped, At_, stores
<1>3. CASE IngestArchive
  BY <1>3, Batch DEF IngestArchive
<1>4. CASE IngestOpenSearch
  BY <1>4, HotInsert DEF IngestOpenSearch
<1>5. CASE IngestClickHouse
  BY <1>5, ColdInsert DEF IngestClickHouse
<1>6. CASE PruneArchive \/ LatestFromBackends
  BY <1>6 DEF PruneArchive, LatestFromBackends, pruneArchive
<1>7. CASE ImportColdBegin \/ ImportColdCheck \/ ImportHotBegin \/ MigrateBegin \/ MigrateCheck
             \/ PruneHotBegin \/ PruneHotEnd
  BY <1>7 DEF ImportColdBegin, ImportColdCheck, ImportHotBegin, MigrateBegin, MigrateCheck,
              PruneHotBegin, PruneHotEnd
<1>8. CASE ImportColdEnd \/ ImportHotEnd \/ MigrateEnd
  BY <1>8 DEF ImportColdEnd, ImportHotEnd, MigrateEnd, SaveMarks
<1>9. CASE ImportColdDay
  BY <1>9, ColdInsert, StoredDays DEF ImportColdDay
<1>10. CASE ImportHotDay
  BY <1>10, HotInsert, StoredDays DEF ImportHotDay
<1>11. CASE ImportHotCheck
  BY <1>11 DEF ImportHotCheck
<1>12. CASE MigrateDay
  BY <1>12, ColdInsert, StoredDays DEF MigrateDay
<1>13. CASE MigrateDelete \/ PruneHotDay \/ DeleteHot
  BY <1>13, HotDelete DEF MigrateDelete, PruneHotDay, DeleteHot
<1>14. CASE DeleteCold
  BY <1>14, ColdDelete DEF DeleteCold
<1>15. CASE DeleteFile
  BY <1>15 DEF DeleteFile
<1> QED
  BY <1>3, <1>4, <1>5, <1>6, <1>7, <1>8, <1>9, <1>10, <1>11, <1>12, <1>13, <1>14, <1>15 DEF Steps

\* An operation keeps in its hands what its next calls rely on.
LEMMA StepsHands ==
  ASSUME Inv, Steps
  PROVE  op' \in Operation \cup {Idle} /\ OpOK'
<1> DEFINE Good == op' \in Operation /\ HandsOK(op)'
<1>0. Good \/ op' = Idle => op' \in Operation \cup {Idle} /\ OpOK'
  BY DEF OpOK
<1>1. logged' = logged /\ today' = today /\ today \in Nat
  BY StepsInside, ServedDay DEF Surrounding
<1>2. op.pc # "idle" => op \in Operation /\ HandsOK(op)
  BY NotIdle
<1>3. CASE IngestArchive
  <2>1. op \in Operation /\ op.pc = "ingest" /\ op.records \subseteq logged
    BY <1>2, <1>3 DEF IngestArchive, At_, HandsOK
  <2>2. log # None => IngestBatch \subseteq logged /\ logged \subseteq Records
    BY Batch DEF Inv, TypeOK
  <2>3. Good
    BY <1>1, <1>3, <2>1, <2>2 DEF IngestArchive, Goto, Operation, Places, HandsOK, Migrating, Deleting
  <2> QED
    BY <1>0, <2>3
<1>4. CASE IngestOpenSearch \/ IngestClickHouse
  <2>1. op \in Operation /\ op.records \subseteq logged
    BY <1>2, <1>4 DEF IngestOpenSearch, IngestClickHouse, At_, HandsOK
  <2>2. \E pc \in {"insertCold", "prune"} : op' = [op EXCEPT !.pc = pc]
    BY <1>4 DEF IngestOpenSearch, IngestClickHouse, Goto
  <2>3. Good
    BY <1>1, <2>1, <2>2 DEF Operation, Places, HandsOK, Migrating, Deleting
  <2> QED
    BY <1>0, <2>3
<1>5. CASE PruneArchive
  <2>1. op \in Operation /\ op.records \subseteq logged
    BY <1>2, <1>5 DEF PruneArchive, At_, HandsOK
  <2>2. op' = Idle \/ op' = [op EXCEPT !.pc = "importCold", !.records = {}]
    BY <1>5 DEF PruneArchive
  <2>3. op' # Idle => Good
    BY <1>1, <2>1, <2>2 DEF Operation, Places, HandsOK, Migrating, Deleting
  <2> QED
    BY <1>0, <2>3
<1>6. CASE LatestFromBackends
  <2>1. UNCHANGED <<op, archive, logged, today>>
    BY <1>6 DEF LatestFromBackends, source, stores
  <2> QED
    BY <2>1 DEF Inv, TypeOK, OpOK, HandsOK, Migrating, Deleting, Before, OfDay, DayOf
<1>7. ASSUME op.pc # "idle",
             \E pc \in {"importHot", "migrate", "pruneHot"} :
               Skip(pc) \/ Fail(pc) \/ \E f \in DOMAIN imported : SaveMarks(f, pc)
      PROVE  Good
  <2>1. op \in Operation /\ op.records \subseteq logged
    BY <1>2, <1>7 DEF HandsOK
  <2>2. \E pc \in {"importHot", "migrate", "pruneHot"} :
          \/ op' = [op EXCEPT !.pc = pc]
          \/ op' = [op EXCEPT !.pc = pc, !.days = {}, !.marks = {}, !.records = {}]
    BY <1>7 DEF Skip, Fail, SaveMarks
  <2> QED
    BY <1>1, <2>1, <2>2 DEF Operation, Places, HandsOK, Migrating, Deleting
<1>8. CASE ImportColdEnd \/ ImportHotEnd \/ MigrateEnd
  <2>1. op.pc # "idle" /\ DOMAIN imported = {"opensearch", "clickhouse", "hotToCold"}
    BY <1>8 DEF ImportColdEnd, ImportHotEnd, MigrateEnd, At_, Inv, TypeOK
  <2> QED
    BY <1>0, <1>7, <1>8, <2>1 DEF ImportColdEnd, ImportHotEnd, MigrateEnd
<1>9. CASE ImportColdBegin \/ ImportHotBegin
  <2>1. op.pc # "idle" /\ imported \in [{"opensearch", "clickhouse", "hotToCold"} -> SUBSET Days]
    BY <1>9 DEF ImportColdBegin, ImportHotBegin, At_, Inv, TypeOK
  <2>2. CASE \E pc \in {"importHot", "migrate"} : Skip(pc)
    BY <1>0, <1>7, <2>1, <2>2
  <2>3. CASE \E pc \in {"importColdDay", "importHotDay"}, S \in SUBSET Days, f \in {"opensearch", "clickhouse"} :
               StartDays(pc, S, f)
    <3>1. PICK pc \in {"importColdDay", "importHotDay"}, S \in SUBSET Days, M \in SUBSET Days :
            op' = [op EXCEPT !.pc = pc, !.days = S, !.marks = M, !.records = {}]
      BY <2>1, <2>3 DEF StartDays
    <3>2. Good
      BY <1>1, <1>2, <2>1, <3>1 DEF Operation, Places, HandsOK, Migrating, Deleting
    <3> QED
      BY <1>0, <3>2
  <2> QED
    BY <1>9, <2>2, <2>3, StoredDays DEF ImportColdBegin, ImportHotBegin
<1>10. CASE ImportColdDay \/ ImportHotDay
  <2>1. op.pc # "idle" /\ op.days \ op.marks # {}
    BY <1>10 DEF ImportColdDay, ImportHotDay, At_
  <2>2. CASE \E pc \in {"importHot", "migrate"} : Fail(pc)
    BY <1>0, <1>7, <2>1, <2>2
  <2>3. CASE /\ UNCHANGED archive
             /\ \E pc \in {"importColdCheck", "importHotCheck"} :
                  op' = [op EXCEPT !.pc = pc, !.day = NextDayOf, !.records = OfDay(archive, NextDayOf)]
    <3>1. op \in Operation /\ NextDayOf \in Days
      BY <1>2, <2>1, NextDayIn
    <3>2. OfDay(archive, NextDayOf) \subseteq logged /\ logged \subseteq Records
      BY StoredDays DEF Inv, TypeOK
    <3>3. PICK d \in Days, S \in SUBSET logged, pc \in {"importColdCheck", "importHotCheck"} :
            /\ d = NextDayOf /\ S = OfDay(archive, d)
            /\ op' = [op EXCEPT !.pc = pc, !.day = d, !.records = S]
      BY <2>3, <3>1, <3>2
    <3>4. op' \in Operation /\ op'.pc = pc /\ op'.day = d /\ op'.records = S
      BY <3>1, <3>2, <3>3 DEF Operation, Places
    <3>5. OfDay(archive, d)' = S
      BY <2>3, <3>3 DEF OfDay, DayOf
    <3>6. HandsOK(op)'
      BY <1>1, <3>3, <3>4, <3>5 DEF HandsOK, Migrating, Deleting, OfDay
    <3> QED
      BY <1>0, <3>4, <3>6
  <2> QED
    BY <1>10, <2>2, <2>3 DEF ImportColdDay, ImportHotDay
<1>11. CASE ImportColdCheck \/ ImportHotCheck
  <2>1. op.pc # "idle" /\ op.day \in Days /\ op \in Operation /\ HandsOK(op)
    BY <1>2, <1>11 DEF ImportColdCheck, ImportHotCheck, At_, HandsOK
  <2>2. CASE \E pc \in {"importHot", "migrate"} : Fail(pc)
    BY <1>0, <1>7, <2>1, <2>2
  <2>3. CASE \E pc \in {"importColdDay", "importHotDay"} : op' = [op EXCEPT !.pc = pc, !.marks = @ \cup {op.day}]
    <3>1. op.marks \cup {op.day} \in SUBSET Days
      BY <2>1 DEF Operation
    <3>2. PICK pc \in {"importColdDay", "importHotDay"}, M \in SUBSET Days : op' = [op EXCEPT !.pc = pc, !.marks = M]
      BY <2>3, <3>1
    <3>3. Good
      BY <1>1, <2>1, <3>2 DEF Operation, Places, HandsOK, Migrating, Deleting
    <3> QED
      BY <1>0, <3>3
  <2> QED
    BY <1>11, <2>2, <2>3 DEF ImportColdCheck, ImportHotCheck
<1>12. CASE MigrateBegin
  <2>1. op.pc # "idle" /\ op \in Operation /\ imported["hotToCold"] \in SUBSET Days
    BY <1>2, <1>12 DEF MigrateBegin, At_, Inv, TypeOK
  <2>2. CASE Skip("pruneHot")
    BY <1>0, <1>7, <2>1, <2>2
  <2>3. CASE StartDays("migrateDay", {d \in {DayOf(r) : r \in hot} : Before(d, op.retention)}, "hotToCold")
    <3>1. PICK S \in SUBSET Days, M \in SUBSET Days :
            /\ \A d \in S : Before(d, op.retention)
            /\ op' = [op EXCEPT !.pc = "migrateDay", !.days = S, !.marks = M, !.records = {}]
      BY <2>1, <2>3, StoredDays DEF StartDays
    <3>2. op' \in Operation /\ op'.pc = "migrateDay" /\ op'.days = S /\ op'.retention = op.retention /\ op'.records = {}
      BY <2>1, <3>1 DEF Operation, Places
    <3>3. HandsOK(op)'
      BY <1>1, <3>1, <3>2 DEF HandsOK, Migrating, Deleting, Before
    <3> QED
      BY <1>0, <3>2, <3>3
  <2> QED
    BY <1>12, <2>2, <2>3 DEF MigrateBegin
<1>13. CASE MigrateDay
  <2>1. op.pc # "idle" /\ op \in Operation /\ HandsOK(op) /\ Migrating(op) /\ op.days \ op.marks # {}
    BY <1>2, <1>13 DEF MigrateDay, At_, Migrating
  <2>2. CASE Fail("pruneHot")
    BY <1>0, <1>7, <2>1, <2>2
  <2>3. CASE op' = [op EXCEPT !.pc = "migrateCheck", !.day = NextDayOf, !.records = openSearchExportDay(NextDayOf)]
    <3>1. openSearchExportDay(NextDayOf) \subseteq logged /\ logged \subseteq Records
      BY StoredDays DEF Inv, TypeOK
    <3>2. PICK d \in Days, S \in SUBSET logged :
            /\ d \in op.days
            /\ op' = [op EXCEPT !.pc = "migrateCheck", !.day = d, !.records = S]
      BY <2>1, <2>3, <3>1, NextDayIn
    <3>3. op' \in Operation /\ op'.pc = "migrateCheck" /\ op'.day = d /\ op'.days = op.days
          /\ op'.retention = op.retention /\ op'.records = S
      BY <2>1, <3>1, <3>2 DEF Operation, Places
    <3>4. HandsOK(op)'
      BY <1>1, <2>1, <3>2, <3>3 DEF HandsOK, Migrating, Deleting, Before
    <3> QED
      BY <1>0, <3>3, <3>4
  <2> QED
    BY <1>13, <2>2, <2>3 DEF MigrateDay
<1>14. CASE MigrateCheck \/ MigrateDelete
  <2>1. op.pc # "idle" /\ op \in Operation /\ HandsOK(op) /\ op.pc \in {"migrateCheck", "migrateDelete"}
    BY <1>2, <1>14 DEF MigrateCheck, MigrateDelete, At_
  <2>2. CASE Fail("pruneHot")
    BY <1>0, <1>7, <2>1, <2>2
  <2>3. CASE \/ op' = [op EXCEPT !.pc = "migrateDelete"]
             \/ op' = [op EXCEPT !.pc = "migrateDay", !.marks = @ \cup {op.day}]
    <3>0. op.marks \in SUBSET Days /\ op.marks \cup {op.day} \in SUBSET Days
      BY <2>1 DEF HandsOK, Operation
    <3>1. PICK pc \in {"migrateDay", "migrateDelete"}, M \in SUBSET Days : op' = [op EXCEPT !.pc = pc, !.marks = M]
      <4>1. CASE op' = [op EXCEPT !.pc = "migrateDelete"]
        <5>1. op' = [op EXCEPT !.pc = "migrateDelete", !.marks = op.marks]
          BY <2>1, <4>1 DEF Operation
        <5> QED
          BY <3>0, <5>1
      <4> QED
        BY <2>3, <3>0, <4>1
    <3>2. op' \in Operation /\ op'.pc \in {"migrateDay", "migrateDelete"} /\ op'.day = op.day /\ op'.days = op.days
          /\ op'.retention = op.retention /\ op'.records = op.records
      BY <2>1, <3>1 DEF Operation, Places
    <3>3. HandsOK(op)'
      BY <1>1, <2>1, <3>2 DEF HandsOK, Migrating, Deleting, Before
    <3> QED
      BY <1>0, <3>2, <3>3
  <2> QED
    BY <1>14, <2>2, <2>3 DEF MigrateCheck, MigrateDelete, Goto
<1>15. CASE PruneHotBegin
  <2>1. op.pc # "idle" /\ op \in Operation /\ HandsOK(op)
    BY <1>2, <1>15 DEF PruneHotBegin, At_
  <2>2. CASE op' = Idle
    BY <1>0, <2>2
  <2>3. CASE op' = [op EXCEPT !.pc = "pruneHotDay", !.horizon = Horizon,
                              !.days = {d \in {DayOf(r) : r \in hot} : Before(d, Horizon)}]
    <3>1. PICK S \in SUBSET Days, h \in Nat :
            /\ \A d \in S : Before(d, h)
            /\ op' = [op EXCEPT !.pc = "pruneHotDay", !.horizon = h, !.days = S]
      BY <2>1, <2>3, StoredDays, HorizonNumber
    <3>2. op' \in Operation /\ op'.pc = "pruneHotDay" /\ op'.days = S /\ op'.horizon = h /\ op'.records = op.records
      BY <2>1, <3>1 DEF Operation, Places
    <3>3. HandsOK(op)'
      BY <1>1, <2>1, <3>1, <3>2 DEF HandsOK, Migrating, Deleting, Before
    <3> QED
      BY <1>0, <3>2, <3>3
  <2> QED
    BY <1>15, <2>2, <2>3 DEF PruneHotBegin
<1>16. CASE PruneHotDay \/ PruneHotEnd
  <2>1. op.pc = "pruneHotDay" /\ op \in Operation /\ HandsOK(op)
    BY <1>2, <1>16 DEF PruneHotDay, PruneHotEnd, At_
  <2>2. CASE op' = Idle
    BY <1>0, <2>2
  <2>3. CASE op' = [op EXCEPT !.days = @ \ {Max(op.days)}]
    <3>1. op' \in Operation /\ op'.pc = "pruneHotDay" /\ op'.days \subseteq op.days /\ op'.horizon = op.horizon
          /\ op'.records = op.records
      BY <2>1, <2>3 DEF Operation
    <3>2. HandsOK(op)'
      BY <1>1, <2>1, <3>1 DEF HandsOK, Migrating, Deleting, Before
    <3> QED
      BY <1>0, <3>1, <3>2
  <2> QED
    BY <1>16, <2>2, <2>3 DEF PruneHotDay, PruneHotEnd
<1>17. CASE DeleteHot \/ DeleteCold
  <2>1. op \in Operation /\ HandsOK(op) /\ Deleting(op)
    BY <1>2, <1>17 DEF DeleteHot, DeleteCold, At_, Deleting
  <2>2. PICK pc \in {"deleteCold", "deleteFile"} : op' = [op EXCEPT !.pc = pc]
    BY <1>17 DEF DeleteHot, DeleteCold, Goto
  <2>3. Good
    BY <1>1, <2>1, <2>2 DEF Operation, Places, HandsOK, Migrating, Deleting
  <2> QED
    BY <1>0, <2>3
<1>18. CASE DeleteFile
  BY <1>0, <1>18 DEF DeleteFile
<1> QED
  BY <1>3, <1>4, <1>5, <1>6, <1>8, <1>9, <1>10, <1>11, <1>12, <1>13, <1>14, <1>15, <1>16, <1>17, <1>18 DEF Steps

-----------------------------------------------------------------------------
(* The theorems                                                            *)

\* Every step keeps the invariant.
LEMMA NextInv == ASSUME Inv, [Next]_vars PROVE Inv'
<1>1. CASE Surroundings
  BY <1>1, SurroundingsKeep
<1>2. CASE Calls
  BY <1>2, CallsKeep
<1>3. CASE Steps
  <2>1. UNCHANGED <<log, logged, today>>
    BY <1>3, StepsInside DEF Surrounding
  <2>2. RestTyped' /\ LogTyped' /\ StoresTyped' /\ op' \in Operation \cup {Idle} /\ OpOK'
    BY <1>3, StepsFlags, StepsStores, StepsHands
  <2>3. TypeOK'
    <3>1. logged' \subseteq Records /\ today' \in Days
      BY <2>1 DEF Inv, TypeOK
    <3> QED
      BY <2>2, <3>1 DEF TypeOK, RestTyped, LogTyped, StoresTyped
  <2>4. HistoryOK'
    BY <2>1 DEF Inv, HistoryOK, DayOf
  <2> QED
    BY <2>2, <2>3, <2>4 DEF Inv
<1>4. CASE UNCHANGED vars
  BY <1>4 DEF vars, source, stores, Inv, TypeOK, HistoryOK, OpOK, HandsOK, Migrating, Deleting,
              Before, OfDay, DayOf
<1> QED
  BY <1>1, <1>2, <1>3, <1>4 DEF Next

\* The log, the archive, the stores, the state files and the operation that
\* holds the mutex keep their types, and what an operation holds is what its
\* next call relies on: requestStreamSource's mutex is held over calls between
\* which settings, stores and the clock change.
THEOREM TypeCorrect == Spec => [](TypeOK /\ OpOK)
<1>1. Init => Inv
  BY InitInv
<1>2. Inv /\ [Next]_vars => Inv'
  BY NextInv
<1>3. Inv => TypeOK /\ OpOK
  BY DEF Inv
<1> QED
  BY <1>1, <1>2, <1>3, PTL DEF Spec

\* What is allowed to leave the stores.
Allowed(r) ==
  /\ op # Idle
  /\ \/ op.caller = "delete" /\ op.day = DayOf(r)
     \/ Before(DayOf(r), op.retention)
     \/ op.horizon # None /\ Before(DayOf(r), op.horizon)

\* A step of an operation takes a request out of the last store that has it
\* only beyond a retention or for a deletion.
LEMMA StepsLose ==
  ASSUME Inv, Steps
  PROVE  \A r \in Stored \ Stored' : Allowed(r)
<1>0. TypeOK
  BY DEF Inv
<1>2. op.pc # "idle" => op \in Operation /\ op # Idle /\ HandsOK(op)
  BY NotIdle
<1> USE <1>0, <1>2 DEF Stored, At_, stores
<1>3. CASE IngestArchive
  BY <1>3 DEF IngestArchive
<1>4. CASE IngestOpenSearch
  BY <1>4, HotInsert DEF IngestOpenSearch, HandsOK
<1>5. CASE IngestClickHouse
  BY <1>5, ColdInsert DEF IngestClickHouse, HandsOK
<1>6. CASE PruneArchive
  BY <1>6 DEF PruneArchive, pruneArchive, Allowed
<1>7. CASE LatestFromBackends \/ ImportColdBegin \/ ImportColdCheck \/ ImportHotBegin \/ MigrateBegin
             \/ MigrateCheck \/ PruneHotBegin \/ PruneHotEnd \/ ImportColdEnd \/ ImportHotEnd \/ MigrateEnd
  BY <1>7 DEF LatestFromBackends, ImportColdBegin, ImportColdCheck, ImportHotBegin, MigrateBegin, MigrateCheck,
              PruneHotBegin, PruneHotEnd, ImportColdEnd, ImportHotEnd, MigrateEnd
<1>8. CASE ImportColdDay \/ MigrateDay
  BY <1>8, ColdInsert, StoredDays DEF ImportColdDay, MigrateDay
<1>9. CASE ImportHotDay
  BY <1>9, HotInsert, StoredDays DEF ImportHotDay
<1>10. CASE ImportHotCheck
  <2>1. OfDay(archive, op.day) \subseteq op.records
    BY <1>10 DEF ImportHotCheck, HandsOK
  <2>2. containsDayRecords(op.day, op.records) => op.records \subseteq hot
    BY DEF containsDayRecords, openSearchExportDay, Earliest, InDayRange, OfDay
  <2> QED
    BY <1>10, <2>1, <2>2 DEF ImportHotCheck
<1>11. CASE MigrateDelete
  <2>1. Before(op.day, op.retention) /\ op # Idle
    BY <1>11 DEF MigrateDelete, HandsOK, Migrating
  <2> QED
    BY <1>11, <2>1, HotDelete DEF MigrateDelete, Allowed
<1>12. CASE PruneHotDay
  <2>1. op # Idle /\ op.horizon \in Nat /\ op.days \subseteq Days /\ op.days # {}
        /\ \A d \in op.days : Before(d, op.horizon)
    BY <1>12 DEF PruneHotDay, HandsOK, Operation
  <2>2. Before(Max(op.days), op.horizon) /\ op.horizon # None
    BY <2>1, LatestDay, StreamAssumption
  <2> QED
    BY <1>12, <2>1, <2>2, HotDelete DEF PruneHotDay, Allowed
<1>13. CASE DeleteHot
  BY <1>13, HotDelete DEF DeleteHot, HandsOK, Deleting, Allowed
<1>14. CASE DeleteCold
  BY <1>14, ColdDelete DEF DeleteCold, HandsOK, Deleting, Allowed
<1>15. CASE DeleteFile
  BY <1>15 DEF DeleteFile, HandsOK, Deleting, Allowed, OfDay
<1> QED
  BY <1>3, <1>4, <1>5, <1>6, <1>7, <1>8, <1>9, <1>10, <1>11, <1>12, <1>13, <1>14, <1>15 DEF Steps

\* A stored request leaves the last of the archive, OpenSearch and ClickHouse
\* only beyond a retention or by the deletion of its day, whatever fails,
\* restarts or is reconfigured between the calls of an operation.
THEOREM StoredStays == Spec => RequestsKept
<1>1. Init => Inv
  BY InitInv
<1>2. Inv /\ [Next]_vars => Inv'
  BY NextInv
<1>3. Inv /\ [Next]_vars => [\A r \in Stored \ Stored' : Allowed(r)]_vars
  <2> SUFFICES ASSUME Inv, Next PROVE \A r \in Stored \ Stored' : Allowed(r)
    OBVIOUS
  <2>1. CASE Surroundings
    BY <2>1 DEF Surroundings, Traffic, Rotate, NextDay, Refresh, Restart, ChangeSettings, Stored, stores
  <2>2. CASE Calls
    BY <2>2 DEF Calls, BackgroundIngest, ServeRequests, CollectWithOptions, CollectDashboardSummary,
                ProbeRequests, Latest, DashboardSummary, Probe, DeleteIndex, Stored, stores
  <2>3. CASE Steps
    BY <2>3, StepsLose
  <2> QED
    BY <2>1, <2>2, <2>3 DEF Next
<1> QED
  BY <1>1, <1>2, <1>3, PTL DEF Spec, RequestsKept, Allowed

-----------------------------------------------------------------------------
(* Reads                                                                   *)

\* What integer division by a positive number computes.
LEMMA Quotient ==
  ASSUME NEW a \in Int, NEW s \in Nat \ {0}
  PROVE  a \div s \in Int /\ s * (a \div s) <= a /\ a < s * (a \div s) + s
  OBVIOUS

\* No other number has that property.
LEMMA QuotientUnique ==
  ASSUME NEW a \in Int, NEW s \in Nat \ {0}, NEW d \in Int, s * d <= a, a < s * d + s
  PROVE  a \div s = d
  OBVIOUS

\* It is monotone.
LEMMA QuotientMonotone ==
  ASSUME NEW a \in Int, NEW b \in Int, NEW s \in Nat \ {0}, a <= b
  PROVE  a \div s <= b \div s
<1> DEFINE x == a \div s
           y == b \div s
<1>1. x \in Int /\ y \in Int /\ s * x <= a /\ b < s * y + s
  BY Quotient
<1> HIDE DEF x, y
<1>2. s * x < s * (y + 1)
  BY <1>1
<1>3. x < y + 1
  BY <1>1, <1>2
<1>4. x <= y
  BY <1>1, <1>3
<1> QED
  BY <1>4 DEF x, y

\* One more divisor is one more.
LEMMA QuotientNext ==
  ASSUME NEW a \in Int, NEW s \in Nat \ {0}
  PROVE  (a + s) \div s = (a \div s) + 1
<1> DEFINE x == a \div s
<1>1. x \in Int /\ s * x <= a /\ a < s * x + s
  BY Quotient
<1> HIDE DEF x
<1>2. s * (x + 1) <= a + s /\ a + s < s * (x + 1) + s
  BY <1>1
<1>3. x + 1 \in Int /\ a + s \in Int
  BY <1>1
<1>4. (a + s) \div s = x + 1
  BY <1>2, <1>3, QuotientUnique
<1> QED
  BY <1>4 DEF x

\* A local day is the instants whose local time lies on that day.
LEMMA LocalDay ==
  ASSUME NEW r \in Records, NEW q \in Queries, q.day # None
  PROVE  /\ requestDayRangeUTC(q).start \in Int
         /\ requestDayRangeUTC(q).end = requestDayRangeUTC(q).start + Slots
         /\ (requestDayRangeUTC(q).start <= At[r] /\ At[r] < requestDayRangeUTC(q).end)
              <=> (At[r] - q.tz) \div Slots = q.day
<1>1. PICK s \in Nat \ {0}, a \in Int, d \in Int, z \in Int : s = Slots /\ a = At[r] /\ d = q.day /\ z = q.tz
  BY StreamAssumption
<1>2. requestDayRangeUTC(q).start = d * s + z /\ requestDayRangeUTC(q).end = d * s + z + s
  BY <1>1 DEF requestDayRangeUTC
<1>3. d * s = s * d /\ s * d \in Int /\ a - z \in Int
  BY <1>1
<1>4. (s * d <= a - z /\ a - z < s * d + s) <=> (a - z) \div s = d
  BY <1>1, <1>3, Quotient, QuotientUnique
<1>5. (d * s + z <= a /\ a < d * s + z + s) <=> (s * d <= a - z /\ a - z < s * d + s)
  BY <1>1, <1>3
<1> QED
  BY <1>1, <1>2, <1>3, <1>4, <1>5

\* It is covered by the two archive files of its ends.
LEMMA TwoFiles ==
  ASSUME NEW r \in Records, NEW q \in Queries, q.day # None,
         requestDayRangeUTC(q).start <= At[r], At[r] < requestDayRangeUTC(q).end
  PROVE  DayOf(r) \in requestDayArchiveKeys(q)
<1>1. PICK s \in Nat \ {0}, a \in Int, b \in Int :
        /\ s = Slots /\ a = At[r] /\ b = requestDayRangeUTC(q).start
        /\ requestDayRangeUTC(q).end = b + s
  <2>1. At[r] \in Int /\ Slots \in Nat \ {0}
    BY StreamAssumption
  <2>2. requestDayRangeUTC(q).start \in Int /\ requestDayRangeUTC(q).end = requestDayRangeUTC(q).start + Slots
    BY LocalDay
  <2> QED
    BY <2>1, <2>2
<1>2. a \div s \in Int /\ b \div s \in Int /\ b \div s <= a \div s
  BY <1>1, Quotient, QuotientMonotone
<1>3. a \div s <= (b \div s) + 1
  <2>0. b + s \in Int /\ a <= b + s
    BY <1>1
  <2>1. a \div s <= (b + s) \div s
    BY <2>0, QuotientMonotone
  <2> QED
    BY <1>1, <2>1, QuotientNext
<1>4. a \div s = b \div s \/ a \div s = (b + s) \div s
  <2>1. PICK j \in Int, k \in Int : j = a \div s /\ k = b \div s
    BY <1>2
  <2>2. j = k \/ j = k + 1
    BY <1>2, <1>3, <2>1
  <2>3. (b + s) \div s = k + 1
    BY <2>1, QuotientNext
  <2> QED
    BY <2>1, <2>2, <2>3
<1> QED
  BY <1>1, <1>4 DEF DayOf, requestDayArchiveKeys

\* The files since an instant cover the later requests of the kept history.
LEMMA FilesSince ==
  ASSUME Inv, NEW r \in archive, NEW q \in Queries, q.day = None, q.since # None,
         At[r] >= q.since, DayOf(r) > today - HistoryDays
  PROVE  DayOf(r) \in requestDayArchiveKeys(q)
<1>1. r \in Records /\ DayOf(r) \in Nat /\ DayOf(r) <= today /\ today \in Nat
  BY ServedDay DEF Inv, TypeOK
<1>2. PICK x \in Int, y \in Int : x = q.since \div Slots /\ y = today - HistoryDays
  BY <1>1, StreamAssumption, Quotient
<1>3. x <= DayOf(r) /\ y <= DayOf(r)
  <2>1. q.since \in Int /\ At[r] \in Int /\ Slots \in Nat \ {0} /\ q.since <= At[r]
    BY <1>1, StreamAssumption
  <2>2. q.since \div Slots <= At[r] \div Slots
    BY <2>1, QuotientMonotone
  <2> QED
    BY <1>1, <1>2, <2>2 DEF DayOf
<1>4. Max({x, y}) \in {x, y}
  <2>1. \E m \in {x, y} : \A n \in {x, y} : m >= n
    OBVIOUS
  <2> QED
    BY <2>1 DEF Max
<1>5. PICK m \in Int : m = Max({x, y}) /\ m <= DayOf(r)
  BY <1>3, <1>4
<1>6. DayOf(r) \in m .. today
  BY <1>1, <1>5
<1> QED
  BY <1>2, <1>5, <1>6 DEF requestDayArchiveKeys

\* The reads of a local day and since an instant, in every state of the
\* stream: for each time zone, filter and length of the history.
THEOREM ReadsExact == Spec => []LocalDayRead
<1>1. Init => Inv
  BY InitInv
<1>2. Inv /\ [Next]_vars => Inv'
  BY NextInv
<1>3. Inv => LocalDayRead
  <2> SUFFICES ASSUME Inv PROVE LocalDayRead
    OBVIOUS
  <2>0. archive \subseteq Records /\ hot \subseteq Records /\ cold \subseteq Records
    BY DEF Inv, TypeOK
  <2>1. ASSUME NEW q \in Queries, q.day # None, q.since = None
        PROVE  /\ loadArchiveRows(q) = {r \in archive : (At[r] - q.tz) \div Slots = q.day}
               /\ \A n \in Retentions :
                    latestFromBackends(q, n) \subseteq {r \in Records : (At[r] - q.tz) \div Slots = q.day}
               /\ dashboardSummaryArchive(q) = {r \in loadArchiveRows(q) : ~Item[r].management}
    <3>1. \A r \in Records :
            requestTimestampMatchesOptions(r, q) <=> (At[r] - q.tz) \div Slots = q.day
      BY <2>1, LocalDay, StreamAssumption DEF requestTimestampMatchesOptions
    <3>2. \A r \in Records :
            requestTimestampMatchesOptions(r, q) => DayOf(r) \in requestDayArchiveKeys(q)
      BY <2>1, TwoFiles, LocalDay, StreamAssumption DEF requestTimestampMatchesOptions
    <3>3. loadArchiveRows(q) = {r \in archive : (At[r] - q.tz) \div Slots = q.day}
      BY <2>0, <3>1, <3>2 DEF loadArchiveRows
    <3>4. ASSUME NEW n \in Retentions
          PROVE  latestFromBackends(q, n) \subseteq {r \in Records : (At[r] - q.tz) \div Slots = q.day}
      BY <2>0, <3>1 DEF latestFromBackends, openSearchLatest, clickHouseLatest, buildOpenSearchRequestQuery
    <3>5. dashboardSummaryArchive(q) = {r \in loadArchiveRows(q) : ~Item[r].management}
      BY <2>0, <3>1, <3>2 DEF loadArchiveRows, dashboardSummaryArchive
    <3> QED
      BY <3>3, <3>4, <3>5
  <2>2. ASSUME NEW q \in Queries, q.day = None, q.since # None
        PROVE  {r \in archive : At[r] >= q.since /\ DayOf(r) > today - HistoryDays} \subseteq loadArchiveRows(q)
    BY <2>2, FilesSince DEF loadArchiveRows, requestTimestampMatchesOptions
  <2> QED
    BY <2>1, <2>2 DEF LocalDayRead
<1> QED
  BY <1>1, <1>2, <1>3, PTL DEF Spec
=============================================================================
