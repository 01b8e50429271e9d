------------------------- MODULE SiStorageScanProofs ------------------------
(***************************************************************************)
(* The scan thread, for every set of transport streams, networks, tables,  *)
(* frequencies and timeouts.                                               *)
(***************************************************************************)
EXTENDS SiStorageScan, TLAPS

\* The types of the variables, those local to the scan thread included.
Wanted == Tables \cup {Nit(PreferredNetworkId)}

Status == SUBSET Flags

\* Where the thread goes on when it has looked for tables.
Thens ==
  {"none", "nit", "home sdt collected", "skip tried", "fast collected",
   "sdt collected", "eit pf collected", "schedule collected", "barker collected"}

ScanType ==
  [fast: BOOLEAN, todo: SUBSET Transports, at: SUBSET Transports,
   tables: SUBSET Tables, schedule: SUBSET Tables,
   fullSchedule: SUBSET Tables, status: Status]

CheckType ==
  [tables: SUBSET Wanted, left: SUBSET Wanted, timeout: Nat,
   found: BOOLEAN, then: Thens]

TypeInv ==
  /\ IsFastScan \in BOOLEAN /\ CurrentTuneStatus \in BOOLEAN
  /\ TsList \in Seq(Entry)
  /\ cached \in SUBSET Tables
  /\ NitTableMap \in [NetworkIds -> SUBSET Transports]
  /\ tuner \in [target: Frequencies \cup {NoFrequency}, locked: BOOLEAN]
  /\ reports \in Seq(BOOLEAN)
  /\ scan \in ScanType
  /\ check \in CheckType
  /\ check.left \subseteq check.tables

\* The label of the thread, or that at which it goes on when it is looking
\* for tables.
Where == IF pc = "check" THEN check.then ELSE pc

AtHome ==
  {"clear caches", "tune home", "home tuned", "nit", "home sdt", "home sdt collected"}
OnTransport ==
  {"tables", "skip", "skip tried", "fast tuned", "fast collected",
   "tune", "tuned", "sdt collected", "eit pf collected", "schedule collected"}
OnBarker == {"clear EITs", "tune barker", "barker tuned", "barker collected"}
Leaving == {"untune", "call untune", "add"}

\* scan.at is the transport stream the thread is at.
IsAt(ts) == ts \in Transports /\ scan.at = {ts}

PlaceInv ==
  /\ Where \in OnTransport => \E ts \in Transports : IsAt(ts)
  /\ Where \in OnBarker => scan.at = {} /\ BarkerFrequency # 0
  /\ Where \in Leaving =>
       \/ \E ts \in Transports : IsAt(ts)
       \/ scan.at = {} /\ BarkerFrequency # 0

-----------------------------------------------------------------------------
LEMMA AtIs ==
  ASSUME NEW ts, IsAt(ts)
  PROVE  At = ts
<1>1. \A u \in Transports : scan.at = {u} => u = ts
  BY DEF IsAt
<1>2. QED
  BY <1>1 DEF At, IsAt

LEMMA NoStatusType == NoStatus \in Status
BY DEF NoStatus, Status

LEMMA ListType == TypeInv => GetTsListByNetIdCache \subseteq Transports
BY DEF TypeInv, GetTsListByNetIdCache, CachedNetworks

LEMMA ServicesType ==
  ASSUME NEW ts \in Transports
  PROVE  /\ Sdt(ts) \in Tables
         /\ \A isPf \in BOOLEAN :
              EitsOf(ts, GetServiceListByTsIdCache(ts), isPf) \subseteq Tables
<1>1. Sdt(ts) \in Tables
  BY DEF Tables
<1>2. GetServiceListByTsIdCache(ts) \subseteq ServicesOf[ts]
  BY DEF GetServiceListByTsIdCache
<1>3. ASSUME NEW isPf \in BOOLEAN
      PROVE  EitsOf(ts, GetServiceListByTsIdCache(ts), isPf) \subseteq Tables
  <2>1. EitsOf(ts, ServicesOf[ts], isPf) \subseteq Tables
    BY DEF Tables
  <2>2. EitsOf(ts, GetServiceListByTsIdCache(ts), isPf) \subseteq EitsOf(ts, ServicesOf[ts], isPf)
    BY <1>2 DEF EitsOf
  <2>3. QED
    BY <2>1, <2>2
<1>4. QED
  BY <1>1, <1>3

LEMMA SetIfFoundType ==
  ASSUME TypeInv, NEW flags \in Status
  PROVE  SetIfFound(flags) \in Status
BY DEF TypeInv, Status, SetIfFound, ScanType, CheckType

LEMMA TypeInvInit == ScanInit => TypeInv
<1> SUFFICES ASSUME ScanInit PROVE TypeInv
  OBVIOUS
<1>1. TsList \in Seq(Entry) /\ reports \in Seq(BOOLEAN)
  BY DEF ScanInit
<1>2. scan \in ScanType
  BY NoStatusType DEF ScanInit, ScanType
<1>3. check \in CheckType /\ check.left \subseteq check.tables
  BY DEF ScanInit, NoCheck, Thens, CheckType
<1>4. QED
  BY <1>1, <1>2, <1>3, ScanAssumption DEF ScanInit, TypeInv

\* The steps that leave the local variables of the two scan functions alone.
KeepsScan ==
  \/ ClearReport \/ FastScanDone \/ BackgroundScanDone \/ ScanFailed \/ NextScan
  \/ ClearCachedTables \/ TuneHome \/ CollectNit \/ CollectHomeSdt
  \/ TrySkipping \/ FastTune \/ CollectFast \/ BackgroundTune \/ CollectSdt
  \/ TuneBarker \/ CollectBarker \/ ResetTuneStatus \/ UnTune
  \/ CheckCacheTableCollections \/ SpuriousWakeUp

LEMMA ScanKept == KeepsScan => scan' = scan
BY DEF KeepsScan, ClearReport, FastScanDone, BackgroundScanDone, ScanFailed, NextScan,
       ClearCachedTables, TuneHome, CollectNit, CollectHomeSdt,
       TrySkipping, FastTune, CollectFast, BackgroundTune, CollectSdt,
       TuneBarker, CollectBarker, ResetTuneStatus, UnTune,
       CheckCacheTableCollections, SpuriousWakeUp

\* The other actors do not touch the thread.
OthersStep ==
  \/ \E t \in Tables : HandleTableEvent(t)
  \/ Lock \/ LoseLock \/ UpdateTuneStatus
  \/ \E isFastScan \in BOOLEAN : UpdateScanType(isFastScan)

LEMMA ThreadKept == OthersStep => UNCHANGED threadVars
BY DEF OthersStep, HandleTableEvent, Lock, LoseLock, UpdateTuneStatus, UpdateScanType

LEMMA ScanTypeNext ==
  ASSUME TypeInv, PlaceInv, ScanNext
  PROVE  scan' \in ScanType
<1>0. scan \in ScanType /\ IsFastScan \in BOOLEAN
  BY DEF TypeInv
<1>1. CASE KeepsScan
  BY <1>0, <1>1, ScanKept
<1>2. CASE OthersStep
  BY <1>0, <1>2, ThreadKept DEF threadVars
<1>3. CASE Top
  BY <1>0, <1>3 DEF Top, ScanType
<1>4. CASE NitCollected
  <2>1. GetTsListByNetIdCache \subseteq Transports
    BY ListType
  <2>2. QED
    BY <1>0, <1>4, <2>1 DEF NitCollected, ScanType
<1>5. CASE SelectHomeSdt
  <2>1. PICK ts \in scan.todo :
          LET wanted == IsFastScan \/ FrequencyOf[ts] = HomeTsFrequency
          IN scan' = [scan EXCEPT
                        !.todo = IF wanted /\ ~ IsFastScan THEN {} ELSE @ \ {ts},
                        !.tables = IF wanted THEN @ \cup {Sdt(ts)} ELSE @]
    BY <1>5 DEF SelectHomeSdt
  <2>2. scan.todo \in SUBSET Transports /\ scan.tables \in SUBSET Tables /\ Sdt(ts) \in Tables
    BY <1>0, ServicesType DEF ScanType
  <2>3. PICK todo \in SUBSET Transports, tables \in SUBSET Tables :
          scan' = [scan EXCEPT !.todo = todo, !.tables = tables]
    BY <2>1, <2>2
  <2>4. QED
    BY <1>0, <2>3 DEF ScanType
<1>6. CASE HomeDone
  BY <1>0, <1>6, NoStatusType DEF HomeDone, ScanType
<1>7. CASE ListTransports
  BY <1>0, <1>7, ListType DEF ListTransports, ScanType
<1>8. CASE FastNext
  <2>1. PICK ts \in scan.todo :
          scan' = [scan EXCEPT !.todo = @ \ {ts}, !.at = {ts}, !.status = NoStatus]
    BY <1>8 DEF FastNext, NextTransport
  <2>2. ts \in Transports /\ NoStatus \in Status
    BY <1>0, NoStatusType DEF ScanType
  <2>3. QED
    BY <1>0, <2>1, <2>2 DEF ScanType
<1>9. CASE BackgroundNext
  <2>1. PICK ts \in scan.todo :
          scan' = [scan EXCEPT !.todo = @ \ {ts}, !.at = {ts}, !.status = NoStatus]
    BY <1>9 DEF BackgroundNext, NextTransport
  <2>2. ts \in Transports /\ NoStatus \in Status
    BY <1>0, NoStatusType DEF ScanType
  <2>3. QED
    BY <1>0, <2>1, <2>2 DEF ScanType
<1>10. CASE LastTransportDone
  BY <1>0, <1>10 DEF LastTransportDone, ScanType
<1>11. CASE FastTables
  <2>1. PICK ts \in Transports : IsAt(ts)
    BY <1>11 DEF FastTables, PlaceInv, Where, OnTransport
  <2>2. At = ts
    BY <2>1, AtIs
  <2>3. {Sdt(At)} \cup EitsOf(At, GetServiceListByTsIdCache(At), TRUE) \subseteq Tables
    BY <2>2, ServicesType
  <2>4. QED
    BY <1>0, <1>11, <2>3 DEF FastTables, ScanType
<1>12. CASE Skip
  BY <1>0, <1>12, SetIfFoundType DEF Skip, ScanType, Status, Flags
<1>13. CASE FastCollected
  BY <1>0, <1>13, SetIfFoundType DEF FastCollected, ScanType, Status, Flags
<1>14. CASE CollectEitPf
  <2>1. PICK ts \in Transports : IsAt(ts)
    BY <1>14 DEF CollectEitPf, PlaceInv, Where, OnTransport
  <2>2. At = ts
    BY <2>1, AtIs
  <2>3. EitsOf(At, GetServiceListByTsIdCache(At), FALSE) \subseteq Tables
    BY <2>2, ServicesType
  <2>4. QED
    BY <1>0, <1>14, <2>3, SetIfFoundType DEF CollectEitPf, ScanType, Status, Flags
<1>15. CASE CollectSchedule
  BY <1>0, <1>15, SetIfFoundType DEF CollectSchedule, ScanType, Status, Flags
<1>16. CASE ScheduleCollected
  BY <1>0, <1>16, SetIfFoundType DEF ScheduleCollected, ScanType, Status, Flags
<1>17. CASE ClearEits
  BY <1>0, <1>17, NoStatusType DEF ClearEits, ScanType
<1>18. CASE AddToReport
  BY <1>0, <1>18, NoStatusType DEF AddToReport, ScanType
<1>19. QED
  BY <1>1, <1>2, <1>3, <1>4, <1>5, <1>6, <1>7, <1>8, <1>9, <1>10, <1>11, <1>12,
     <1>13, <1>14, <1>15, <1>16, <1>17, <1>18 DEF ScanNext, ScanThread, KeepsScan, OthersStep

\* The steps that leave the variables of CheckCacheTableCollections alone.
KeepsCheck ==
  \/ Top \/ ClearReport \/ FastScanDone \/ BackgroundScanDone \/ ScanFailed \/ NextScan
  \/ ClearCachedTables \/ TuneHome \/ SelectHomeSdt
  \/ ListTransports \/ FastNext \/ BackgroundNext \/ LastTransportDone
  \/ FastTables \/ BackgroundTune \/ ClearEits \/ TuneBarker
  \/ ResetTuneStatus \/ UnTune \/ AddToReport \/ SpuriousWakeUp

LEMMA CheckKept == KeepsCheck => check' = check
BY DEF KeepsCheck, Top, ClearReport, FastScanDone, BackgroundScanDone, ScanFailed,
       NextScan, ClearCachedTables, TuneHome, SelectHomeSdt, ListTransports,
       FastNext, BackgroundNext, LastTransportDone, FastTables, BackgroundTune,
       ClearEits, TuneBarker, ResetTuneStatus, UnTune, AddToReport, SpuriousWakeUp

\* Those that begin to look for tables, and those that have done so.
StartsCheck ==
  \/ CollectNit \/ CollectHomeSdt \/ TrySkipping \/ CollectFast \/ CollectSdt
  \/ CollectEitPf \/ CollectSchedule \/ CollectBarker

EndsCheck ==
  \/ NitCollected \/ HomeDone \/ Skip \/ FastTune \/ FastCollected
  \/ CollectSchedule \/ ScheduleCollected

LEMMA CheckStarts ==
  ASSUME TypeInv, PlaceInv, StartsCheck
  PROVE  \/ \E tables \in SUBSET Wanted, timeout \in Nat, then \in Thens \ {"none"} :
              CheckTables(tables, timeout, then)
         \/ check' = NoCheck /\ pc' = "untune"
<1>0. scan \in ScanType /\ IsFastScan \in BOOLEAN /\ Tables \subseteq Wanted
      /\ {NIT_TIMEOUT, SDT_TIMEOUT, SDT_OTHER_TIMEOUT, EIT_PF_TIMEOUT,
          EIT_8_DAY_SCHED_TIMEOUT} \cup BarkerEitTimouts \subseteq Nat
  BY ScanAssumption DEF TypeInv, Wanted
<1> DEFINE Goal == \E tables \in SUBSET Wanted, timeout \in Nat, then \in Thens \ {"none"} :
                     CheckTables(tables, timeout, then)
<1>1. CASE CollectNit
  BY <1>0, <1>1 DEF CollectNit, Wanted, Thens
<1>2. CASE CollectHomeSdt
  BY <1>0, <1>2 DEF CollectHomeSdt, ScanType, Thens
<1>3. CASE TrySkipping
  BY <1>0, <1>3 DEF TrySkipping, ScanType, Thens
<1>4. CASE CollectFast
  BY <1>0, <1>4 DEF CollectFast, ScanType, Thens
<1>5. CASE CollectSdt \/ CollectEitPf
  <2>1. PICK ts \in Transports : IsAt(ts)
    BY <1>5 DEF CollectSdt, CollectEitPf, PlaceInv, Where, OnTransport
  <2>2. At = ts
    BY <2>1, AtIs
  <2>3. /\ {Sdt(At)} \subseteq Wanted
        /\ EitsOf(At, GetServiceListByTsIdCache(At), TRUE) \subseteq Wanted
    BY <1>0, <2>2, ServicesType
  <2>4. QED
    BY <1>0, <1>5, <2>3 DEF CollectSdt, CollectEitPf, Thens
<1>6. CASE CollectSchedule
  BY <1>0, <1>6 DEF CollectSchedule, ScanType, Thens, Goto
<1>7. CASE CollectBarker
  BY <1>0, <1>7 DEF CollectBarker, ScanType, Thens
<1>8. QED
  BY <1>1, <1>2, <1>3, <1>4, <1>5, <1>6, <1>7 DEF StartsCheck

LEMMA CheckEnds ==
  EndsCheck /\ ~ StartsCheck => check' = NoCheck /\ pc' # "check" /\ pc' \notin Thens \ {"none"}
BY DEF EndsCheck, StartsCheck, NitCollected, HomeDone, Skip, FastTune, FastCollected,
       CollectSchedule, ScheduleCollected, Goto, Thens

LEMMA CheckKeptPlaces ==
  KeepsCheck => pc \notin Thens \cup {"check"} /\ pc' \notin Thens \cup {"check"}
BY DEF KeepsCheck, Top, ClearReport, FastScanDone, BackgroundScanDone, ScanFailed,
       NextScan, ClearCachedTables, TuneHome, SelectHomeSdt, ListTransports,
       FastNext, BackgroundNext, NextTransport, LastTransportDone, FastTables,
       BackgroundTune, ClearEits, TuneBarker, ResetTuneStatus, UnTune, AddToReport,
       SpuriousWakeUp, Goto, Thens

\* What is known of the tables that are looked for.  What CheckInv adds to
\* FoundIsCached: those already seen are still in the caches, because nobody
\* takes any out while the thread is looking, and nothing is left of a search
\* once its outcome was read.
CheckInv ==
  /\ pc = "check" => /\ ~ check.found
                     /\ check.tables \ check.left \subseteq cached
                     /\ check.then # "none"
  /\ FoundIsCached
  /\ pc \notin {"check", check.then} => check = NoCheck

LEMMA NoCheckType == NoCheck \in CheckType /\ NoCheck.left \subseteq NoCheck.tables
BY DEF NoCheck, CheckType, Thens

LEMMA CheckNext ==
  ASSUME TypeInv, PlaceInv, CheckInv, ScanNext
  PROVE  /\ check' \in CheckType /\ check'.left \subseteq check'.tables
         /\ CheckInv'
<1>0. check \in CheckType /\ check.left \subseteq check.tables
  BY DEF TypeInv
<1>1. CASE KeepsCheck
  <2>1. check = NoCheck /\ check' = NoCheck
    BY <1>0, <1>1, CheckKept, CheckKeptPlaces DEF CheckInv, CheckType
  <2>2. pc' # "check"
    BY <1>1, CheckKeptPlaces
  <2>3. NoCheck.found = FALSE
    BY DEF NoCheck
  <2>4. QED
    BY <2>1, <2>2, <2>3, NoCheckType DEF CheckInv, FoundIsCached
<1>2. CASE OthersStep
  <2>1. pc' = pc /\ check' = check
    BY <1>2, ThreadKept DEF threadVars
  <2>2. cached \subseteq cached'
    BY <1>2 DEF OthersStep, HandleTableEvent, Lock, LoseLock, UpdateTuneStatus,
                UpdateScanType, cacheVars
  <2>3. QED
    BY <1>0, <2>1, <2>2 DEF CheckInv, FoundIsCached
<1>3. CASE StartsCheck
  <2>1. CASE check' = NoCheck /\ pc' = "untune"
    BY <2>1, NoCheckType DEF CheckInv, FoundIsCached, NoCheck
  <2>2. ASSUME NEW tables \in SUBSET Wanted, NEW timeout \in Nat,
               NEW then \in Thens \ {"none"}, CheckTables(tables, timeout, then)
        PROVE  /\ check' \in CheckType /\ check'.left \subseteq check'.tables
               /\ CheckInv'
    <3>1. then # "check"
      BY DEF Thens
    <3>2. QED
      BY <2>2, <3>1 DEF CheckTables, CheckType, CheckInv, FoundIsCached
  <2>3. QED
    BY <1>3, <2>1, <2>2, CheckStarts
<1>4. CASE EndsCheck /\ ~ StartsCheck
  <2>1. check' = NoCheck /\ pc' # "check"
    BY <1>4, CheckEnds
  <2>2. NoCheck.found = FALSE
    BY DEF NoCheck
  <2>3. QED
    BY <2>1, <2>2, NoCheckType DEF CheckInv, FoundIsCached
<1>5. CASE CheckCacheTableCollections
  <2>1. cached' = cached /\ pc = "check"
    BY <1>5 DEF CheckCacheTableCollections, cacheVars, AllFound, LookUp, Retry, GiveUp, Missing
  <2>2. check.then # "check"
    BY <1>0 DEF CheckType, Thens
  <2>3. CASE AllFound
    <3>1. check' \in CheckType /\ check'.left \subseteq check'.tables
      BY <1>0, <2>3 DEF AllFound, CheckType
    <3>2. check'.tables = check.tables /\ check'.then = check.then /\ pc' = check.then
      BY <1>0, <2>3 DEF AllFound, Goto, CheckType
    <3>3. check.tables \subseteq cached
      BY <2>1, <2>3 DEF AllFound, CheckInv
    <3>4. QED
      BY <2>1, <2>2, <3>1, <3>2, <3>3 DEF CheckInv, FoundIsCached
  <2>4. ASSUME NEW t \in check.left, LookUp(t)
        PROVE  /\ check' \in CheckType /\ check'.left \subseteq check'.tables
               /\ CheckInv'
    BY <1>0, <2>1, <2>2, <2>4 DEF LookUp, CheckType, CheckInv, FoundIsCached
  <2>5. ASSUME NEW t \in check.left, Retry(t)
        PROVE  /\ check' \in CheckType /\ check'.left \subseteq check'.tables
               /\ CheckInv'
    <3>1. check'.tables = check.tables /\ check'.left = check.tables
          /\ check'.then = check.then /\ check'.found = check.found /\ pc' = pc
      BY <1>0, <2>5 DEF Retry, CheckType
    <3>2. check' \in CheckType
      <4>1. check.timeout \in Nat /\ check.timeout > 0
        BY <1>0, <2>5 DEF Retry, CheckType
      <4>2. PICK n \in Nat : n = check.timeout - 1
        BY <4>1
      <4>3. check' = [check EXCEPT !.left = check.tables, !.timeout = n]
        BY <2>5, <4>2 DEF Retry
      <4>4. QED
        BY <1>0, <4>3 DEF CheckType
    <3>3. QED
      BY <2>1, <2>2, <3>1, <3>2 DEF CheckInv, FoundIsCached
  <2>6. ASSUME NEW t \in check.left, GiveUp(t)
        PROVE  /\ check' \in CheckType /\ check'.left \subseteq check'.tables
               /\ CheckInv'
    BY <1>0, <2>1, <2>2, <2>6 DEF GiveUp, Goto, CheckType, CheckInv, FoundIsCached
  <2>7. QED
    BY <1>5, <2>3, <2>4, <2>5, <2>6 DEF CheckCacheTableCollections
<1>6. QED
  BY <1>1, <1>2, <1>3, <1>4, <1>5 DEF ScanNext, ScanThread, KeepsCheck, OthersStep,
     StartsCheck, EndsCheck

-----------------------------------------------------------------------------
\* The steps that stay at a transport stream, and those that go to places
\* where none matters.
StaysOn ==
  \/ FastTables \/ TrySkipping \/ Skip \/ FastTune \/ CollectFast \/ FastCollected
  \/ BackgroundTune \/ CollectSdt \/ CollectEitPf \/ CollectSchedule

StaysOff ==
  \/ Top \/ ClearReport \/ FastScanDone \/ BackgroundScanDone \/ ScanFailed \/ NextScan
  \/ SpuriousWakeUp \/ ClearCachedTables \/ TuneHome \/ CollectNit \/ NitCollected
  \/ SelectHomeSdt \/ CollectHomeSdt \/ HomeDone \/ ListTransports \/ AddToReport

LEMMA ChecksAt ==
  ASSUME NEW tables, NEW timeout, NEW l, CheckTables(tables, timeout, l)
  PROVE  Where' = l
BY DEF CheckTables, Where

LEMMA StaysOnPlaces ==
  ASSUME TypeInv, StaysOn
  PROVE  Where \in OnTransport /\ Where' \in OnTransport \cup Leaving /\ scan'.at = scan.at
<1>1. scan \in ScanType
  BY DEF TypeInv
<1>2. Where \in OnTransport
  BY DEF StaysOn, FastTables, TrySkipping, Skip, FastTune, CollectFast, FastCollected,
     BackgroundTune, CollectSdt, CollectEitPf, CollectSchedule, Where, OnTransport
<1>3. Where' \in OnTransport \cup Leaving
  <2>1. CASE FastTables \/ Skip \/ FastTune \/ FastCollected \/ BackgroundTune
    BY <2>1 DEF FastTables, Skip, FastTune, FastCollected, BackgroundTune, Goto,
       Where, OnTransport, Leaving
  <2>2. CASE TrySkipping \/ CollectFast \/ CollectSdt \/ CollectEitPf
    BY <2>2, ChecksAt DEF TrySkipping, CollectFast, CollectSdt, CollectEitPf, OnTransport
  <2>3. CASE CollectSchedule
    <3>1. CASE FrequencyOf[At] # BarkerFrequency
      BY <2>3, <3>1, ChecksAt DEF CollectSchedule, OnTransport
    <3>2. CASE FrequencyOf[At] = BarkerFrequency
      BY <2>3, <3>2 DEF CollectSchedule, Goto, Where, Leaving
    <3>3. QED
      BY <3>1, <3>2
  <2>4. QED
    BY <2>1, <2>2, <2>3 DEF StaysOn
<1>4. scan'.at = scan.at
  <2>1. CASE TrySkipping \/ FastTune \/ CollectFast \/ BackgroundTune \/ CollectSdt
    BY <2>1, ScanKept DEF KeepsScan
  <2>2. CASE FastTables \/ Skip \/ FastCollected
    BY <1>1, <2>2 DEF FastTables, Skip, FastCollected, ScanType
  <2>3. CASE CollectEitPf
    BY <1>1, <2>3 DEF CollectEitPf, ScanType
  <2>4. CASE CollectSchedule
    BY <1>1, <2>4 DEF CollectSchedule, ScanType
  <2>5. QED
    BY <2>1, <2>2, <2>3, <2>4 DEF StaysOn
<1>5. QED
  BY <1>2, <1>3, <1>4

LEMMA StaysOffPlaces ==
  StaysOff => Where' \notin OnTransport \cup OnBarker \cup Leaving
<1>1. CASE \/ Top \/ ClearReport \/ FastScanDone \/ BackgroundScanDone \/ ScanFailed
           \/ NextScan \/ SpuriousWakeUp \/ ClearCachedTables \/ TuneHome
  BY <1>1 DEF Top, ClearReport, FastScanDone, BackgroundScanDone, ScanFailed,
     NextScan, SpuriousWakeUp, ClearCachedTables, TuneHome, Goto, Where,
     OnTransport, OnBarker, Leaving
<1>2. CASE CollectNit \/ CollectHomeSdt
  BY <1>2, ChecksAt DEF CollectNit, CollectHomeSdt, OnTransport, OnBarker, Leaving
<1>3. CASE NitCollected \/ SelectHomeSdt \/ HomeDone \/ ListTransports
  BY <1>3 DEF NitCollected, SelectHomeSdt, HomeDone, ListTransports, Goto, Where,
     OnTransport, OnBarker, Leaving
<1>4. CASE AddToReport
  BY <1>4 DEF AddToReport, Goto, Where, OnTransport, OnBarker, Leaving
<1>5. QED
  BY <1>1, <1>2, <1>3, <1>4 DEF StaysOff

LEMMA WhereKept ==
  ASSUME TypeInv, CheckInv, CheckCacheTableCollections \/ OthersStep
  PROVE  Where' = Where /\ scan' = scan
<1>0. check \in CheckType
  BY DEF TypeInv
<1>1. CASE OthersStep
  BY <1>1, ThreadKept DEF threadVars, Where
<1>2. CASE CheckCacheTableCollections
  <2>1. scan' = scan /\ pc = "check" /\ check'.then = check.then /\ pc' \in {"check", check.then}
    BY <1>0, <1>2 DEF CheckCacheTableCollections, AllFound, LookUp, Retry, GiveUp,
       Missing, Goto, CheckType
  <2>2. QED
    BY <2>1 DEF Where
<1>3. QED
  BY <1>1, <1>2

LEMMA PlaceNext ==
  ASSUME TypeInv, PlaceInv, CheckInv, ScanNext
  PROVE  PlaceInv'
<1>0. scan \in ScanType
  BY DEF TypeInv
<1>1. CASE StaysOn
  BY <1>1, StaysOnPlaces DEF PlaceInv, IsAt, OnTransport, OnBarker, Leaving
<1>2. CASE StaysOff
  BY <1>2, StaysOffPlaces DEF PlaceInv
<1>3. CASE CheckCacheTableCollections \/ OthersStep
  BY <1>3, WhereKept DEF PlaceInv, IsAt
<1>4. CASE FastNext \/ BackgroundNext
  <2>1. PICK ts \in scan.todo : scan'.at = {ts}
    BY <1>0, <1>4 DEF FastNext, BackgroundNext, NextTransport, ScanType
  <2>2. ts \in Transports
    BY <1>0 DEF ScanType
  <2>3. Where' \in {"tables", "tune"}
    BY <1>4 DEF FastNext, BackgroundNext, NextTransport, Goto, Where
  <2>4. QED
    BY <2>1, <2>2, <2>3 DEF PlaceInv, IsAt, OnTransport, OnBarker, Leaving
<1>5. CASE LastTransportDone
  <2>1. scan'.at = {}
    BY <1>0, <1>5 DEF LastTransportDone, ScanType
  <2>2. \/ Where' = "done"
        \/ Where' = "clear EITs" /\ BarkerFrequency # 0
    BY <1>5 DEF LastTransportDone, Goto, Where
  <2>3. QED
    BY <2>1, <2>2 DEF PlaceInv, OnTransport, OnBarker, Leaving
<1>6. CASE ClearEits \/ TuneBarker \/ CollectBarker
  <2>1. scan'.at = scan.at
    BY <1>0, <1>6 DEF ClearEits, TuneBarker, CollectBarker, ScanType
  <2>2. Where \in OnBarker /\ Where' \in OnBarker
    BY <1>6, ChecksAt DEF ClearEits, TuneBarker, CollectBarker, Goto, Where, OnBarker
  <2>3. QED
    BY <2>1, <2>2 DEF PlaceInv, IsAt, OnTransport, OnBarker, Leaving
<1>7. CASE ScheduleCollected
  <2>1. scan'.at = scan.at
    BY <1>0, <1>7 DEF ScheduleCollected, ScanType
  <2>2. Where \in OnTransport \cup OnBarker /\ Where' \in Leaving
    BY <1>7 DEF ScheduleCollected, Goto, Where, OnTransport, OnBarker, Leaving
  <2>3. QED
    BY <2>1, <2>2 DEF PlaceInv, IsAt, OnTransport, OnBarker, Leaving
<1>8. CASE ResetTuneStatus \/ UnTune
  <2>1. scan' = scan /\ Where \in Leaving /\ Where' \in Leaving
    BY <1>8 DEF ResetTuneStatus, UnTune, Goto, Where, Leaving
  <2>2. QED
    BY <2>1 DEF PlaceInv, IsAt, OnTransport, OnBarker, Leaving
<1>9. QED
  BY <1>1, <1>2, <1>3, <1>4, <1>5, <1>6, <1>7, <1>8 DEF ScanNext, ScanThread,
     StaysOn, StaysOff, OthersStep

-----------------------------------------------------------------------------
\* The steps that leave the report alone.
KeepsReport ==
  \/ Top \/ FastScanDone \/ BackgroundScanDone \/ ScanFailed \/ NextScan
  \/ SpuriousWakeUp \/ ClearCachedTables \/ TuneHome \/ CollectNit \/ NitCollected
  \/ SelectHomeSdt \/ CollectHomeSdt \/ ListTransports \/ FastNext \/ BackgroundNext
  \/ LastTransportDone \/ StaysOn \/ ScheduleCollected
  \/ ClearEits \/ TuneBarker \/ CollectBarker \/ ResetTuneStatus \/ UnTune
  \/ CheckCacheTableCollections \/ OthersStep

LEMMA ReportKept == KeepsReport => TsList' = TsList
<1>1. CASE StaysOn
  BY <1>1 DEF StaysOn, FastTables, TrySkipping, Skip, FastTune, CollectFast, FastCollected,
     BackgroundTune, CollectSdt, CollectEitPf, CollectSchedule, statusVars
<1>2. CASE OthersStep
  BY <1>2 DEF OthersStep, HandleTableEvent, Lock, LoseLock, UpdateTuneStatus,
     UpdateScanType, statusVars
<1>3. CASE KeepsReport /\ ~ StaysOn /\ ~ OthersStep
  BY <1>3 DEF KeepsReport, Top, FastScanDone, BackgroundScanDone, ScanFailed, NextScan,
     SpuriousWakeUp, ClearCachedTables, TuneHome, CollectNit, NitCollected,
     SelectHomeSdt, CollectHomeSdt, ListTransports, FastNext, BackgroundNext,
     LastTransportDone, ScheduleCollected, ClearEits, TuneBarker, CollectBarker,
     ResetTuneStatus, UnTune, CheckCacheTableCollections, statusVars
<1>4. QED
  BY <1>1, <1>2, <1>3

\* An entry of the report: those of the transport streams and of the barker
\* frequency, and that of the home frequency.
LEMMA AddedEntry ==
  ASSUME TypeInv, PlaceInv, AddToReport
  PROVE  \E e \in Entry : TsList' = Append(TsList, e) /\ e.Status = scan.status
<1>1. scan.status \in Status
  BY DEF TypeInv, ScanType
<1>2. \/ \E ts \in Transports : IsAt(ts)
      \/ scan.at = {} /\ BarkerFrequency # 0
  BY DEF AddToReport, PlaceInv, Where, Leaving
<1>3. (IF scan.at = {} THEN BarkerFrequency ELSE FrequencyOf[At]) \in Frequencies
  <2>1. CASE scan.at = {}
    BY <1>2, <2>1, ScanAssumption DEF IsAt
  <2>2. CASE scan.at # {}
    <3>1. PICK ts \in Transports : IsAt(ts)
      BY <1>2, <2>2
    <3>2. At = ts
      BY <3>1, AtIs
    <3>3. QED
      BY <2>2, <3>2, ScanAssumption
  <2>3. QED
    BY <2>1, <2>2
<1>4. QED
  BY <1>1, <1>3 DEF AddToReport, Entry, Status

LEMMA HomeEntry ==
  ASSUME TypeInv, HomeDone
  PROVE  \E e \in Entry : TsList' = Append(TsList, e)
<1>1. SetIfFound({"SdtAcquired"}) \in Status
  BY SetIfFoundType DEF Status, Flags
<1>2. QED
  BY <1>1, ScanAssumption DEF HomeDone, Entry, Status

LEMMA ReportTypeNext ==
  ASSUME TypeInv, PlaceInv, ScanNext
  PROVE  TsList' \in Seq(Entry)
<1>0. TsList \in Seq(Entry)
  BY DEF TypeInv
<1>1. CASE KeepsReport
  BY <1>0, <1>1, ReportKept
<1>2. CASE ClearReport
  <2>1. TsList' = << >>
    BY <1>2 DEF ClearReport
  <2>2. QED
    BY <2>1
<1>3. CASE HomeDone \/ AddToReport
  <2>1. PICK e \in Entry : TsList' = Append(TsList, e)
    BY <1>3, HomeEntry, AddedEntry
  <2>2. QED
    BY <1>0, <2>1
<1>5. QED
  BY <1>1, <1>2, <1>3 DEF ScanNext, ScanThread, KeepsReport, StaysOn, OthersStep

LEMMA TunerTypeNext ==
  ASSUME TypeInv, PlaceInv, ScanNext
  PROVE  /\ tuner' \in [target: Frequencies \cup {NoFrequency}, locked: BOOLEAN]
         /\ reports' \in Seq(BOOLEAN)
<1> DEFINE TunerType == [target: Frequencies \cup {NoFrequency}, locked: BOOLEAN]
<1>0. tuner \in TunerType /\ reports \in Seq(BOOLEAN)
  BY DEF TypeInv
<1>1. ASSUME NEW f \in Frequencies \cup {NoFrequency}, NotifyDvbStorageTuneObserver(f)
      PROVE  tuner' \in TunerType /\ reports' = reports
  BY <1>0, <1>1 DEF NotifyDvbStorageTuneObserver
<1>2. CASE TuneHome \/ TuneBarker
  BY <1>0, <1>1, <1>2, ScanAssumption DEF TuneHome, TuneBarker, NoFrequency
<1>3. CASE FastTune \/ BackgroundTune
  <2>1. PICK ts \in Transports : IsAt(ts)
    BY <1>3 DEF FastTune, BackgroundTune, PlaceInv, Where, OnTransport
  <2>2. At = ts
    BY <2>1, AtIs
  <2>3. FrequencyOf[At] \in Frequencies
    BY <2>2, ScanAssumption
  <2>4. QED
    BY <1>0, <1>1, <1>3, <2>3 DEF FastTune, BackgroundTune
<1>4. CASE UnTune
  BY <1>0, <1>4 DEF UnTune
<1>5. CASE Lock
  <2>1. tuner' \in TunerType
    BY <1>0, <1>5 DEF Lock
  <2>2. reports' = Append(reports, TRUE) /\ TRUE \in BOOLEAN
    BY <1>5 DEF Lock
  <2>3. QED
    BY <1>0, <2>1, <2>2
<1>6. CASE LoseLock
  <2>1. tuner' \in TunerType
    BY <1>0, <1>6 DEF LoseLock
  <2>2. reports' = Append(reports, FALSE) /\ FALSE \in BOOLEAN
    BY <1>6 DEF LoseLock
  <2>3. QED
    BY <1>0, <2>1, <2>2
<1>7. CASE UpdateTuneStatus
  BY <1>0, <1>7 DEF UpdateTuneStatus
<1>8. CASE /\ ScanNext
           /\ ~ (TuneHome \/ TuneBarker \/ FastTune \/ BackgroundTune \/ UnTune
                  \/ Lock \/ LoseLock \/ UpdateTuneStatus)
  <2>1. UNCHANGED <<tuner, reports>>
    BY <1>8 DEF ScanNext, ScanThread, HandleTableEvent, UpdateScanType, Top, ClearReport,
       FastScanDone, BackgroundScanDone, ScanFailed, NextScan, SpuriousWakeUp,
       ClearCachedTables, CollectNit, NitCollected, SelectHomeSdt, CollectHomeSdt, HomeDone,
       ListTransports, FastNext, BackgroundNext, LastTransportDone, FastTables, TrySkipping,
       Skip, CollectFast, FastCollected, CollectSdt, CollectEitPf, CollectSchedule,
       ScheduleCollected, ClearEits, CollectBarker, ResetTuneStatus, AddToReport,
       CheckCacheTableCollections, tunerVars
  <2>2. QED
    BY <1>0, <2>1
<1>9. QED
  BY <1>2, <1>3, <1>4, <1>5, <1>6, <1>7, <1>8

LEMMA CacheTypeNext ==
  ASSUME TypeInv, ScanNext
  PROVE  /\ cached' \in SUBSET Tables
         /\ NitTableMap' \in [NetworkIds -> SUBSET Transports]
<1>0. cached \in SUBSET Tables /\ NitTableMap \in [NetworkIds -> SUBSET Transports]
  BY DEF TypeInv
<1>1. CASE ClearCachedTables
  BY <1>1 DEF ClearCachedTables
<1>2. CASE ClearEits
  BY <1>0, <1>2 DEF ClearEits
<1>3. ASSUME NEW t \in Tables, HandleTableEvent(t)
      PROVE  /\ cached' \in SUBSET Tables
             /\ NitTableMap' \in [NetworkIds -> SUBSET Transports]
  BY <1>0, <1>3, ScanAssumption DEF HandleTableEvent
<1>4. CASE ScanNext /\ ~ ClearCachedTables /\ ~ ClearEits /\ ~ \E t \in Tables : HandleTableEvent(t)
  <2>1. UNCHANGED <<cached, NitTableMap>>
    BY <1>4 DEF ScanNext, ScanThread, Lock, LoseLock, UpdateTuneStatus, UpdateScanType, Top,
       ClearReport, FastScanDone, BackgroundScanDone, ScanFailed, NextScan, SpuriousWakeUp,
       TuneHome, CollectNit, NitCollected, SelectHomeSdt, CollectHomeSdt, HomeDone,
       ListTransports, FastNext, BackgroundNext, LastTransportDone, FastTables, TrySkipping,
       Skip, FastTune, CollectFast, FastCollected, BackgroundTune, CollectSdt, CollectEitPf,
       CollectSchedule, ScheduleCollected, TuneBarker, CollectBarker, ResetTuneStatus,
       UnTune, AddToReport, CheckCacheTableCollections, cacheVars
  <2>2. QED
    BY <1>0, <2>1
<1>5. QED
  BY <1>1, <1>2, <1>3, <1>4

LEMMA FlagTypeNext ==
  ASSUME TypeInv, ScanNext
  PROVE  IsFastScan' \in BOOLEAN /\ CurrentTuneStatus' \in BOOLEAN
<1>0. IsFastScan \in BOOLEAN /\ CurrentTuneStatus \in BOOLEAN /\ reports \in Seq(BOOLEAN)
  BY DEF TypeInv
<1>1. CASE FastScanDone \/ ResetTuneStatus
  BY <1>0, <1>1 DEF FastScanDone, ResetTuneStatus
<1>2. CASE UpdateTuneStatus
  BY <1>0, <1>2 DEF UpdateTuneStatus
<1>3. CASE \E isFastScan \in BOOLEAN : UpdateScanType(isFastScan)
  BY <1>0, <1>3 DEF UpdateScanType
<1>4. CASE /\ ScanNext /\ ~ FastScanDone /\ ~ ResetTuneStatus /\ ~ UpdateTuneStatus
           /\ ~ \E isFastScan \in BOOLEAN : UpdateScanType(isFastScan)
  <2>1. UNCHANGED <<IsFastScan, CurrentTuneStatus>>
    BY <1>4 DEF ScanNext, ScanThread, HandleTableEvent, Lock, LoseLock, Top, ClearReport,
       BackgroundScanDone, ScanFailed, NextScan, SpuriousWakeUp, ClearCachedTables,
       TuneHome, CollectNit, NitCollected, SelectHomeSdt, CollectHomeSdt, HomeDone,
       ListTransports, FastNext, BackgroundNext, LastTransportDone, FastTables, TrySkipping,
       Skip, FastTune, CollectFast, FastCollected, BackgroundTune, CollectSdt, CollectEitPf,
       CollectSchedule, ScheduleCollected, ClearEits, TuneBarker, CollectBarker, UnTune,
       AddToReport, CheckCacheTableCollections, NotifyDvbStorageTuneObserver
  <2>2. QED
    BY <1>0, <2>1
<1>5. QED
  BY <1>1, <1>2, <1>3, <1>4

LEMMA TypeNext ==
  ASSUME TypeInv, PlaceInv, CheckInv, ScanNext
  PROVE  TypeInv'
BY ScanTypeNext, CheckNext, ReportTypeNext, TunerTypeNext, CacheTypeNext, FlagTypeNext
   DEF TypeInv

-----------------------------------------------------------------------------
(***************************************************************************)
(* The report.                                                             *)
(***************************************************************************)
Idle == {"top", "wait", "returned"}
Listed == {"list", "next", "done"} \cup OnTransport \cup OnBarker \cup Leaving

\* While a scan runs the status says of which kind it is, the report is empty
\* until the home frequency is done with, and it is not empty afterwards.
StateInv ==
  /\ Where \notin Idle =>
       ScanState = IF scan.fast THEN "SCAN_IN_PROGRESS_FAST" ELSE "SCAN_IN_PROGRESS_BKGD"
  /\ Where = "top" => ScanState # "SCAN_IN_PROGRESS_BKGD"
  /\ Where = "wait" => ScanState \in {"SCAN_COMPLETED", "SCAN_FAILED"}
  /\ Where \in AtHome => TsList = << >>
  /\ Where \in Listed => TsList # << >>

HomeStep ==
  \/ ClearCachedTables \/ TuneHome \/ CollectNit \/ NitCollected
  \/ SelectHomeSdt \/ CollectHomeSdt

ListedStep ==
  \/ ListTransports \/ FastNext \/ BackgroundNext \/ LastTransportDone
  \/ StaysOn \/ ScheduleCollected \/ ClearEits \/ TuneBarker \/ CollectBarker
  \/ ResetTuneStatus \/ UnTune

LEMMA HomeStepPlaces ==
  HomeStep => Where \in AtHome /\ Where' \in AtHome \cup {"failed"}
<1>1. CASE CollectNit \/ CollectHomeSdt
  BY <1>1, ChecksAt DEF CollectNit, CollectHomeSdt, Where, AtHome
<1>2. CASE ClearCachedTables \/ TuneHome \/ NitCollected \/ SelectHomeSdt
  BY <1>2 DEF ClearCachedTables, TuneHome, NitCollected, SelectHomeSdt, Goto, Where, AtHome
<1>3. QED
  BY <1>1, <1>2 DEF HomeStep

LEMMA ListedStepPlaces ==
  ASSUME TypeInv, ListedStep
  PROVE  Where \in Listed /\ Where' \in Listed
<1>1. CASE StaysOn
  BY <1>1, StaysOnPlaces DEF Listed
<1>2. CASE ListTransports \/ FastNext \/ BackgroundNext \/ LastTransportDone
  BY <1>2 DEF ListTransports, FastNext, BackgroundNext, NextTransport, LastTransportDone,
     Goto, Where, Listed, OnTransport, OnBarker
<1>3. CASE ScheduleCollected \/ ClearEits \/ TuneBarker \/ ResetTuneStatus \/ UnTune
  BY <1>3 DEF ScheduleCollected, ClearEits, TuneBarker, ResetTuneStatus, UnTune,
     Goto, Where, Listed, OnTransport, OnBarker, Leaving
<1>4. CASE CollectBarker
  BY <1>4, ChecksAt DEF CollectBarker, Where, Listed, OnBarker
<1>5. QED
  BY <1>1, <1>2, <1>3, <1>4 DEF ListedStep

\* Neither the state nor the kind of scan changes on the way.
LEMMA StateKept ==
  ASSUME TypeInv,
         HomeStep \/ ListedStep \/ ClearReport \/ HomeDone \/ AddToReport
           \/ CheckCacheTableCollections \/ OthersStep
  PROVE  ScanState' = ScanState /\ scan'.fast = scan.fast
<1>0. scan \in ScanType
  BY DEF TypeInv
<1>1. CASE HomeStep
  BY <1>0, <1>1 DEF HomeStep, ClearCachedTables, TuneHome, CollectNit, NitCollected,
     SelectHomeSdt, CollectHomeSdt, statusVars, ScanType
<1>2. CASE StaysOn
  <2>1. CASE TrySkipping \/ FastTune \/ CollectFast \/ BackgroundTune \/ CollectSdt
    BY <2>1 DEF TrySkipping, FastTune, CollectFast, BackgroundTune, CollectSdt, statusVars
  <2>2. CASE FastTables \/ Skip \/ FastCollected
    BY <1>0, <2>2 DEF FastTables, Skip, FastCollected, statusVars, ScanType
  <2>3. CASE CollectEitPf \/ CollectSchedule
    BY <1>0, <2>3 DEF CollectEitPf, CollectSchedule, statusVars, ScanType
  <2>4. QED
    BY <1>2, <2>1, <2>2, <2>3 DEF StaysOn
<1>3. CASE ListTransports \/ FastNext \/ BackgroundNext \/ LastTransportDone
  BY <1>0, <1>3 DEF ListTransports, FastNext, BackgroundNext, NextTransport,
     LastTransportDone, statusVars, ScanType
<1>4. CASE ScheduleCollected \/ ClearEits \/ TuneBarker \/ CollectBarker
             \/ ResetTuneStatus \/ UnTune
  BY <1>0, <1>4 DEF ScheduleCollected, ClearEits, TuneBarker, CollectBarker,
     ResetTuneStatus, UnTune, statusVars, ScanType
<1>5. CASE ClearReport \/ HomeDone \/ AddToReport
  BY <1>0, <1>5 DEF ClearReport, HomeDone, AddToReport, ScanType
<1>6. CASE CheckCacheTableCollections
  BY <1>6 DEF CheckCacheTableCollections, statusVars
<1>7. CASE OthersStep
  BY <1>7 DEF OthersStep, HandleTableEvent, Lock, LoseLock, UpdateTuneStatus,
     UpdateScanType, statusVars, threadVars
<1>8. QED
  BY <1>1, <1>2, <1>3, <1>4, <1>5, <1>6, <1>7 DEF ListedStep

LEMMA StateNext ==
  ASSUME TypeInv, PlaceInv, CheckInv, StateInv, ScanNext
  PROVE  StateInv'
<1> USE DEF Idle, Listed, AtHome, OnTransport, OnBarker, Leaving
<1>0. scan \in ScanType /\ TsList \in Seq(Entry) /\ IsFastScan \in BOOLEAN
  BY DEF TypeInv
<1>1. CASE Top
  BY <1>0, <1>1 DEF Top, Goto, Where, StateInv, ScanType
<1>2. CASE FastScanDone \/ BackgroundScanDone \/ ScanFailed \/ NextScan \/ SpuriousWakeUp
  <2>1. /\ FastScanDone => Where = "done" /\ scan.fast /\ Where' = "top" /\ ScanState' = ScanState
        /\ BackgroundScanDone => Where' = "wait" /\ ScanState' = "SCAN_COMPLETED"
        /\ ScanFailed => Where' = "wait" /\ ScanState' = "SCAN_FAILED"
        /\ NextScan => Where = "wait" /\ Where' = "top" /\ ScanState' = ScanState
        /\ SpuriousWakeUp => Where' = "returned"
    BY DEF FastScanDone, BackgroundScanDone, ScanFailed, NextScan, SpuriousWakeUp,
       Goto, Where, statusVars
  <2>2. QED
    BY <1>2, <2>1 DEF StateInv
<1>3. CASE ClearReport
  <2>1. /\ Where = "clear report" /\ Where' = "clear caches" /\ TsList' = << >>
    BY <1>3 DEF ClearReport, Goto, Where
  <2>2. QED
    BY <1>3, <2>1, StateKept DEF StateInv
<1>4. CASE HomeStep
  <2>1. TsList' = TsList
    BY <1>4, ReportKept DEF HomeStep, KeepsReport
  <2>2. Where \in AtHome /\ Where' \in AtHome \cup {"failed"}
    BY <1>4, HomeStepPlaces
  <2>3. QED
    BY <1>4, <2>1, <2>2, StateKept DEF StateInv
<1>5. CASE HomeDone \/ AddToReport
  <2>1. PICK e \in Entry : TsList' = Append(TsList, e)
    BY <1>5, HomeEntry, AddedEntry
  <2>2. TsList' # << >>
    BY <1>0, <2>1
  <2>3. Where \in {"home sdt collected", "add"} /\ Where' \in {"list", "next", "done"}
    BY <1>5 DEF HomeDone, AddToReport, Goto, Where
  <2>4. QED
    BY <1>5, <2>2, <2>3, StateKept DEF StateInv
<1>6. CASE ListedStep
  <2>1. TsList' = TsList
    BY <1>6, ReportKept DEF ListedStep, KeepsReport
  <2>2. Where \in Listed /\ Where' \in Listed
    BY <1>6, ListedStepPlaces
  <2>3. QED
    BY <1>6, <2>1, <2>2, StateKept DEF StateInv
<1>7. CASE CheckCacheTableCollections \/ OthersStep
  <2>1. TsList' = TsList
    BY <1>7, ReportKept DEF KeepsReport
  <2>2. Where' = Where
    BY <1>7, WhereKept
  <2>3. QED
    BY <1>7, <2>1, <2>2, StateKept DEF StateInv
<1>8. QED
  BY <1>1, <1>2, <1>3, <1>4, <1>5, <1>6, <1>7 DEF ScanNext, ScanThread,
     HomeStep, ListedStep, StaysOn, OthersStep

-----------------------------------------------------------------------------
\* The inductive invariant.
ScanInv == TypeInv /\ PlaceInv /\ CheckInv /\ StateInv

LEMMA ScanInvInit == ScanInit => ScanInv
<1> SUFFICES ASSUME ScanInit PROVE ScanInv
  OBVIOUS
<1>1. pc = "top" /\ check = NoCheck /\ ScanState = "SCAN_STOPPED"
  BY DEF ScanInit
<1>2. Where = "top"
  BY <1>1 DEF Where
<1>3. PlaceInv
  BY <1>2 DEF PlaceInv, OnTransport, OnBarker, Leaving
<1>4. CheckInv
  BY <1>1 DEF CheckInv, FoundIsCached, NoCheck
<1>5. StateInv
  BY <1>1, <1>2 DEF StateInv, Idle, Listed, AtHome, OnTransport, OnBarker, Leaving
<1>6. QED
  BY <1>3, <1>4, <1>5, TypeInvInit DEF ScanInv

LEMMA ScanInvNext == ScanInv /\ [ScanNext]_scanVars => ScanInv'
<1> SUFFICES ASSUME ScanInv, [ScanNext]_scanVars PROVE ScanInv'
  OBVIOUS
<1>1. CASE ScanNext
  BY <1>1, TypeNext, PlaceNext, CheckNext, StateNext DEF ScanInv
<1>2. CASE UNCHANGED scanVars
  <2>1. UNCHANGED <<IsFastScan, CurrentTuneStatus, ScanState, TsList, cached, NitTableMap,
                    pc, scan, check, tuner, reports>>
    BY <1>2 DEF scanVars, statusVars, cacheVars, threadVars, tunerVars, boundVars
  <2>2. TypeInv'
    BY <2>1 DEF ScanInv, TypeInv
  <2>3. Where' = Where /\ PlaceInv' /\ CheckInv'
    BY <2>1 DEF ScanInv, PlaceInv, CheckInv, FoundIsCached, Where, IsAt
  <2>4. StateInv'
    BY <2>1, <2>3 DEF ScanInv, StateInv
  <2>5. QED
    BY <2>2, <2>3, <2>4 DEF ScanInv
<1>3. QED
  BY <1>1, <1>2

LEMMA ScanInvariant == ScanSpec => []ScanInv
BY ScanInvInit, ScanInvNext, PTL DEF ScanSpec

\* Type correctness.
THEOREM ScanTypes == ScanSpec => []TypeOK
<1>1. ScanInv => TypeOK
  BY DEF ScanInv, TypeInv, TypeOK, Status
<1>2. QED
  BY <1>1, ScanInvariant, PTL

\* CheckCacheTableCollections only returns true when all tables it was asked
\* for are in the caches, whatever is received while it looks.
THEOREM WhatIsFoundIsCached == ScanSpec => []FoundIsCached
<1>1. ScanInv => FoundIsCached
  BY DEF ScanInv, CheckInv
<1>2. QED
  BY <1>1, ScanInvariant, PTL

\* The status is a report in the sense of module ScanReport: every step of the
\* thread begins, extends, discards or ends one, or leaves it alone.
THEOREM StatusImplementsReport == ScanSpec => StatusIsReport
<1>1. ScanInit => StatusReport!ReportInit
  BY DEF ScanInit, StatusReport!ReportInit
<1>2. ScanInv /\ [ScanNext]_scanVars => [StatusReport!ReportNext]_(StatusReport!reportVars)
  <2> SUFFICES ASSUME ScanInv, [ScanNext]_scanVars
               PROVE  [StatusReport!ReportNext]_(StatusReport!reportVars)
    OBVIOUS
  <2>0. TypeInv /\ PlaceInv /\ CheckInv /\ StateInv
    BY DEF ScanInv
  <2>1. CASE Top
    BY <2>0, <2>1 DEF Top, StateInv, Where, StatusReport!ReportNext, StatusReport!Begin,
       StatusReport!InProgress
  <2>2. CASE ClearReport
    <3>1. ScanState \in StatusReport!InProgress
      BY <2>0, <2>2 DEF ClearReport, StateInv, Where, Idle, StatusReport!InProgress
    <3>2. QED
      BY <2>2, <3>1 DEF ClearReport, StatusReport!ReportNext, StatusReport!Discard
  <2>3. CASE HomeDone \/ AddToReport
    <3>1. ScanState \in StatusReport!InProgress
      BY <2>0, <2>3 DEF HomeDone, AddToReport, StateInv, Where, Idle, StatusReport!InProgress
    <3>2. \E e \in Entry : TsList' = Append(TsList, e)
      BY <2>0, <2>3, HomeEntry, AddedEntry
    <3>3. ScanState' = ScanState
      BY <2>0, <2>3, StateKept
    <3>4. QED
      BY <3>1, <3>2, <3>3 DEF StatusReport!ReportNext, StatusReport!Add
  <2>4. CASE BackgroundScanDone
    <3>1. Where = "done" /\ ~ scan.fast /\ ScanState' = "SCAN_COMPLETED" /\ TsList' = TsList
      BY <2>4 DEF BackgroundScanDone, Where
    <3>2. ScanState = "SCAN_IN_PROGRESS_BKGD" /\ TsList # << >>
      BY <2>0, <3>1 DEF StateInv, Idle, Listed
    <3>3. QED
      BY <3>1, <3>2 DEF StatusReport!ReportNext, StatusReport!Complete
  <2>5. CASE ScanFailed
    <3>1. Where = "failed" /\ ScanState' = "SCAN_FAILED" /\ TsList' = TsList
      BY <2>5 DEF ScanFailed, Where
    <3>2. ScanState \in StatusReport!InProgress
      BY <2>0, <3>1 DEF StateInv, Idle, StatusReport!InProgress
    <3>3. QED
      BY <3>1, <3>2 DEF StatusReport!ReportNext, StatusReport!Fail
  <2>6. CASE SpuriousWakeUp
    BY <2>0, <2>6 DEF SpuriousWakeUp, StateInv, Where, StatusReport!ReportNext, StatusReport!Stop
  <2>7. CASE FastScanDone \/ NextScan
    BY <2>7 DEF FastScanDone, NextScan, statusVars, StatusReport!reportVars
  <2>8. CASE HomeStep \/ ListedStep \/ CheckCacheTableCollections \/ OthersStep
    <3>1. TsList' = TsList
      BY <2>8, ReportKept DEF HomeStep, ListedStep, KeepsReport
    <3>2. QED
      BY <2>0, <2>8, <3>1, StateKept DEF StatusReport!reportVars
  <2>9. CASE UNCHANGED scanVars
    BY <2>9 DEF scanVars, statusVars, StatusReport!reportVars
  <2>10. QED
    BY <2>1, <2>2, <2>3, <2>4, <2>5, <2>6, <2>7, <2>8, <2>9 DEF ScanNext, ScanThread,
       HomeStep, ListedStep, StaysOn, OthersStep
<1>3. QED
  BY <1>1, <1>2, ScanInvariant, PTL DEF ScanSpec, StatusIsReport, StatusReport!ReportSpec

-----------------------------------------------------------------------------
(***************************************************************************)
(* Where the thread has set SdtAcquired, the SDT is in the caches.  A flag *)
(* it has not set is another matter: see MissingIsNotReported.             *)
(***************************************************************************)
\* From the SDT's being found to the entry in the report.
Acquiring == {"eit pf collected", "schedule collected"} \cup Leaving

\* The SDT is among the tables a fast scan looks for, and the only one a
\* background scan looks for first.
SearchInv ==
  /\ Where \in {"skip", "skip tried", "fast tuned", "fast collected"} =>
       \A ts \in Transports : IsAt(ts) => Sdt(ts) \in scan.tables
  /\ Where \in {"skip tried", "fast collected"} => check.tables = scan.tables
  /\ Where = "sdt collected" =>
       \A ts \in Transports : IsAt(ts) => check.tables = {Sdt(ts)}

AcquiredInv ==
  "SdtAcquired" \in scan.status =>
    /\ Where \in Acquiring
    /\ \E ts \in Transports : IsAt(ts) /\ Sdt(ts) \in cached

ReportInv == SearchInv /\ AcquiredInv /\ AcquiredSdtIsCached

LEMMA FoundAreCached ==
  ASSUME CheckInv, pc # "check", check.found
  PROVE  check.tables \subseteq cached
<1>1. NoCheck.found = FALSE
  BY DEF NoCheck
<1>2. QED
  BY <1>1 DEF CheckInv, FoundIsCached

\* Only the two kinds of clearing take tables out of the caches, and the
\* second leaves the SDTs.
LEMMA SdtStaysCached ==
  ASSUME ScanNext, ~ ClearCachedTables, NEW ts, Sdt(ts) \in cached
  PROVE  Sdt(ts) \in cached'
<1>1. CASE ClearEits
  BY <1>1 DEF ClearEits, Sdt
<1>2. ASSUME NEW t \in Tables, HandleTableEvent(t) PROVE Sdt(ts) \in cached'
  BY <1>2 DEF HandleTableEvent
<1>3. CASE ~ ClearEits /\ ~ \E t \in Tables : HandleTableEvent(t)
  BY <1>3 DEF ScanNext, ScanThread, Lock, LoseLock, UpdateTuneStatus, UpdateScanType, Top,
     ClearReport, FastScanDone, BackgroundScanDone, ScanFailed, NextScan, SpuriousWakeUp,
     TuneHome, CollectNit, NitCollected, SelectHomeSdt, CollectHomeSdt, HomeDone,
     ListTransports, FastNext, BackgroundNext, LastTransportDone, FastTables, TrySkipping,
     Skip, FastTune, CollectFast, FastCollected, BackgroundTune, CollectSdt, CollectEitPf,
     CollectSchedule, ScheduleCollected, TuneBarker, CollectBarker, ResetTuneStatus,
     UnTune, AddToReport, CheckCacheTableCollections, cacheVars
<1>4. QED
  BY <1>1, <1>2, <1>3

LEMMA SearchNext ==
  ASSUME ScanInv, SearchInv, ScanNext
  PROVE  SearchInv'
<1> DEFINE Searching == {"skip", "skip tried", "fast tuned", "fast collected", "sdt collected"}
<1>0. scan \in ScanType /\ TypeInv /\ PlaceInv /\ CheckInv /\ check \in CheckType
  BY DEF ScanInv, TypeInv
<1>1. CASE FastTables
  <2>1. scan'.tables = {Sdt(At)} \cup EitsOf(At, GetServiceListByTsIdCache(At), TRUE)
        /\ scan'.at = scan.at /\ Where' = "skip"
    BY <1>0, <1>1 DEF FastTables, ScanType, Goto, Where
  <2>2. \A ts \in Transports : IsAt(ts)' => At = ts
    BY <2>1, AtIs DEF IsAt
  <2>3. QED
    BY <2>1, <2>2 DEF SearchInv
<1>2. CASE TrySkipping \/ CollectFast
  <2>1. /\ scan' = scan /\ check'.tables = scan.tables
        /\ Where' \in {"skip tried", "fast collected"} /\ Where \in {"skip", "fast tuned"}
    <3>1. CASE TrySkipping
      BY <3>1 DEF TrySkipping, CheckTables, Where
    <3>2. CASE CollectFast
      <4>1. PICK timeout : CheckTables(scan.tables, timeout, "fast collected")
        BY <3>2 DEF CollectFast
      <4>2. scan' = scan /\ pc = "fast tuned"
        BY <3>2 DEF CollectFast
      <4>3. QED
        BY <4>1, <4>2 DEF CheckTables, Where
    <3>3. QED
      BY <1>2, <3>1, <3>2
  <2>2. QED
    BY <2>1 DEF SearchInv, IsAt
<1>3. CASE FastTune
  <2>1. scan' = scan /\ Where' = "fast tuned" /\ Where \in {"skip", "skip tried"}
    BY <1>3 DEF FastTune, Goto, Where
  <2>2. QED
    BY <2>1 DEF SearchInv, IsAt
<1>4. CASE CollectSdt
  <2>1. scan' = scan /\ check'.tables = {Sdt(At)} /\ Where' = "sdt collected"
    BY <1>4 DEF CollectSdt, CheckTables, Where
  <2>2. \A ts \in Transports : IsAt(ts)' => At = ts
    BY <2>1, AtIs DEF IsAt
  <2>3. QED
    BY <2>1, <2>2 DEF SearchInv
<1>5. CASE CheckCacheTableCollections \/ OthersStep
  <2>1. Where' = Where /\ scan' = scan
    BY <1>0, <1>5, WhereKept
  <2>2. check'.tables = check.tables
    <3>1. CASE OthersStep
      BY <3>1, ThreadKept DEF threadVars
    <3>2. CASE CheckCacheTableCollections
      BY <1>0, <3>2 DEF CheckCacheTableCollections, AllFound, LookUp, Retry, GiveUp, CheckType
    <3>3. QED
      BY <1>5, <3>1, <3>2
  <2>3. QED
    BY <2>1, <2>2 DEF SearchInv, IsAt
<1>6. CASE StaysOff
  BY <1>6, StaysOffPlaces DEF SearchInv, OnTransport
<1>7. CASE \/ Skip \/ FastCollected \/ BackgroundTune \/ FastNext \/ BackgroundNext
           \/ LastTransportDone \/ ScheduleCollected \/ ClearEits \/ TuneBarker
           \/ ResetTuneStatus \/ UnTune
  <2>1. Where' \notin Searching
    BY <1>7 DEF Skip, FastCollected, BackgroundTune, FastNext, BackgroundNext, NextTransport,
       LastTransportDone, ScheduleCollected, ClearEits, TuneBarker, ResetTuneStatus,
       UnTune, Goto, Where
  <2>2. QED
    BY <2>1 DEF SearchInv
<1>8. CASE CollectEitPf \/ CollectSchedule \/ CollectBarker
  <2>1. Where' \notin Searching
    <3>1. CASE CollectEitPf \/ CollectBarker
      BY <3>1, ChecksAt DEF CollectEitPf, CollectBarker
    <3>2. CASE CollectSchedule /\ FrequencyOf[At] # BarkerFrequency
      BY <3>2, ChecksAt DEF CollectSchedule
    <3>3. CASE CollectSchedule /\ FrequencyOf[At] = BarkerFrequency
      BY <3>3 DEF CollectSchedule, Goto, Where
    <3>4. QED
      BY <1>8, <3>1, <3>2, <3>3
  <2>2. QED
    BY <2>1 DEF SearchInv
<1>9. QED
  BY <1>1, <1>2, <1>3, <1>4, <1>5, <1>6, <1>7, <1>8 DEF ScanNext, ScanThread,
     StaysOff, OthersStep

LEMMA AcquiredNext ==
  ASSUME ScanInv, SearchInv, AcquiredInv, ScanNext
  PROVE  AcquiredInv'
<1>0. scan \in ScanType /\ TypeInv /\ PlaceInv /\ CheckInv
  BY DEF ScanInv, TypeInv
<1> DEFINE Acquired == "SdtAcquired" \in scan.status
\* The steps that set the flag when the SDT was found.
<1>1. ASSUME Skip \/ FastCollected \/ CollectEitPf, Acquired'
      PROVE  AcquiredInv'
  <2>1. PICK ts \in Transports : IsAt(ts)
    BY <1>0, <1>1 DEF Skip, FastCollected, CollectEitPf, PlaceInv, Where, OnTransport
  <2>2. Where \in {"skip tried", "fast collected", "sdt collected"} /\ pc # "check"
    BY <1>1 DEF Skip, FastCollected, CollectEitPf, Where
  <2>3. ~ Acquired
    BY <2>2 DEF AcquiredInv, Acquiring, Leaving
  <2>4. check.found
    <3>1. CASE Skip
      BY <3>1 DEF Skip
    <3>2. CASE FastCollected
      BY <1>0, <1>1, <2>3, <3>2 DEF FastCollected, SetIfFound, ScanType, Flags
    <3>3. CASE CollectEitPf
      BY <1>0, <1>1, <2>3, <3>3 DEF CollectEitPf, SetIfFound, ScanType, Flags
    <3>4. QED
      BY <1>1, <3>1, <3>2, <3>3
  <2>5. Sdt(ts) \in cached
    BY <1>0, <2>1, <2>2, <2>4, FoundAreCached DEF SearchInv
  <2>6. Sdt(ts) \in cached'
    BY <1>1, <2>5 DEF Skip, FastCollected, CollectEitPf, cacheVars
  <2>7. Where' \in Acquiring
    <3>1. CASE Skip \/ FastCollected
      BY <3>1 DEF Skip, FastCollected, Goto, Where, Acquiring, Leaving
    <3>2. CASE CollectEitPf
      BY <3>2, ChecksAt DEF CollectEitPf, Acquiring
    <3>3. QED
      BY <1>1, <3>1, <3>2
  <2>8. scan'.at = scan.at
    BY <1>0, <1>1, StaysOnPlaces DEF StaysOn
  <2>9. QED
    BY <2>1, <2>6, <2>7, <2>8 DEF AcquiredInv, IsAt
\* Those that start a new status, or none.
<1>2. CASE FastNext \/ BackgroundNext \/ ClearEits \/ HomeDone \/ AddToReport
  <2>1. scan'.status = NoStatus
    BY <1>0, <1>2 DEF FastNext, BackgroundNext, NextTransport, ClearEits, HomeDone,
       AddToReport, ScanType
  <2>2. QED
    BY <2>1 DEF AcquiredInv, NoStatus
\* Those that keep it while it is not set.
<1>3. ASSUME "SdtAcquired" \in scan'.status <=> "SdtAcquired" \in scan.status,
             Where \notin Acquiring
      PROVE  AcquiredInv'
  BY <1>3 DEF AcquiredInv
\* Those that keep it while it may be.
<1>4. ASSUME "SdtAcquired" \in scan'.status <=> "SdtAcquired" \in scan.status,
             scan'.at = scan.at,
             Where' \in Acquiring, ~ ClearCachedTables
      PROVE  AcquiredInv'
  BY <1>4, SdtStaysCached DEF AcquiredInv, IsAt
<1>5. CASE \/ Top \/ ClearReport \/ FastScanDone \/ BackgroundScanDone \/ ScanFailed
           \/ NextScan \/ SpuriousWakeUp \/ ClearCachedTables \/ TuneHome
           \/ CollectNit \/ SelectHomeSdt \/ CollectHomeSdt \/ ListTransports
           \/ LastTransportDone \/ FastTables \/ TrySkipping \/ FastTune \/ CollectFast
           \/ BackgroundTune \/ CollectSdt \/ TuneBarker \/ CollectBarker \/ NitCollected
  <2>1. scan'.status = scan.status
    <3>1. CASE \/ Top \/ SelectHomeSdt \/ ListTransports \/ LastTransportDone \/ FastTables
               \/ NitCollected
      BY <1>0, <3>1 DEF Top, SelectHomeSdt, ListTransports, LastTransportDone, FastTables,
         NitCollected, ScanType
    <3>2. CASE ~ (\/ Top \/ SelectHomeSdt \/ ListTransports \/ LastTransportDone \/ FastTables
                  \/ NitCollected)
      BY <1>5, <3>2, ScanKept DEF KeepsScan
    <3>3. QED
      BY <3>1, <3>2
  <2>2. Where \notin Acquiring
    BY <1>5 DEF Top, ClearReport, FastScanDone, BackgroundScanDone, ScanFailed, NextScan,
       SpuriousWakeUp, ClearCachedTables, TuneHome, CollectNit, SelectHomeSdt,
       CollectHomeSdt, ListTransports, LastTransportDone, FastTables, TrySkipping,
       FastTune, CollectFast, BackgroundTune, CollectSdt, TuneBarker, CollectBarker,
       NitCollected, Where, Acquiring, Leaving
  <2>3. QED
    BY <1>3, <2>1, <2>2
<1>6. CASE CollectSchedule \/ ResetTuneStatus \/ UnTune \/ ScheduleCollected
  <2>1. ("SdtAcquired" \in scan'.status <=> "SdtAcquired" \in scan.status) /\ scan'.at = scan.at
    <3>1. CASE ResetTuneStatus \/ UnTune
      BY <3>1, ScanKept DEF KeepsScan
    <3>2. CASE CollectSchedule
      BY <1>0, <3>2 DEF CollectSchedule, SetIfFound, ScanType, Flags
    <3>3. CASE ScheduleCollected
      BY <1>0, <3>3 DEF ScheduleCollected, SetIfFound, ScanType, Flags
    <3>4. QED
      BY <1>6, <3>1, <3>2, <3>3
  <2>2. Where' \in Acquiring
    <3>1. CASE ResetTuneStatus \/ UnTune \/ ScheduleCollected
      BY <3>1 DEF ResetTuneStatus, UnTune, ScheduleCollected, Goto, Where, Acquiring, Leaving
    <3>2. CASE CollectSchedule /\ FrequencyOf[At] # BarkerFrequency
      BY <3>2, ChecksAt DEF CollectSchedule, Acquiring
    <3>3. CASE CollectSchedule /\ FrequencyOf[At] = BarkerFrequency
      BY <3>3 DEF CollectSchedule, Goto, Where, Acquiring, Leaving
    <3>4. QED
      BY <1>6, <3>1, <3>2, <3>3
  <2>3. ~ ClearCachedTables
    BY <1>6 DEF CollectSchedule, ResetTuneStatus, UnTune, ScheduleCollected, ClearCachedTables
  <2>4. QED
    BY <1>4, <2>1, <2>2, <2>3
<1>7. CASE CheckCacheTableCollections \/ OthersStep
  <2>1. Where' = Where /\ scan' = scan
    BY <1>0, <1>7, WhereKept
  <2>2. ~ ClearCachedTables \/ Where \notin Acquiring
    BY DEF ClearCachedTables, Where, Acquiring, Leaving
  <2>3. QED
    BY <1>3, <1>4, <2>1, <2>2
<1>8. CASE Skip \/ FastCollected \/ CollectEitPf
  BY <1>1, <1>8 DEF AcquiredInv
<1>9. QED
  BY <1>2, <1>5, <1>6, <1>7, <1>8 DEF ScanNext, ScanThread, OthersStep

LEMMA AcquiredReportNext ==
  ASSUME ScanInv, ReportInv, ScanNext
  PROVE  AcquiredSdtIsCached'
<1>0. TypeInv /\ PlaceInv /\ StateInv /\ TsList \in Seq(Entry)
  BY DEF ScanInv, TypeInv
<1>1. CASE ClearReport
  <2>1. TsList' = << >>
    BY <1>1 DEF ClearReport
  <2>2. QED
    BY <2>1 DEF AcquiredSdtIsCached, SdtIsCached
<1>2. CASE ClearCachedTables
  <2>1. TsList = << >> /\ TsList' = TsList
    BY <1>0, <1>2, ReportKept DEF ClearCachedTables, StateInv, Where, AtHome, KeepsReport
  <2>2. QED
    BY <2>1 DEF AcquiredSdtIsCached, SdtIsCached
<1>3. CASE HomeDone
  <2>1. TsList = << >>
    BY <1>0, <1>3 DEF HomeDone, StateInv, Where, AtHome
  <2>2. PICK e \in Entry : TsList' = Append(TsList, e)
    BY <1>0, <1>3, HomeEntry
  <2>3. Len(TsList') = 1
    BY <1>0, <2>1, <2>2
  <2>4. QED
    BY <2>3 DEF AcquiredSdtIsCached, SdtIsCached
<1>4. CASE KeepsReport /\ ~ ClearCachedTables
  BY <1>4, ReportKept, SdtStaysCached DEF ReportInv, AcquiredSdtIsCached, SdtIsCached
<1>5. CASE AddToReport
  <2>1. PICK e \in Entry : TsList' = Append(TsList, e) /\ e.Status = scan.status
    BY <1>0, <1>5, AddedEntry
  <2>2. cached' = cached
    BY <1>5 DEF AddToReport, cacheVars
  <2>3. ASSUME "SdtAcquired" \in scan.status
        PROVE  SdtIsCached(e.Frequency)
    <3>1. PICK ts \in Transports : IsAt(ts) /\ Sdt(ts) \in cached
      BY <2>3 DEF ReportInv, AcquiredInv
    <3>2. At = ts /\ scan.at # {}
      BY <3>1, AtIs DEF IsAt
    <3>3. TsList' = Append(TsList, [Frequency |-> FrequencyOf[ts], Status |-> scan.status])
      BY <1>5, <3>2 DEF AddToReport
    <3>4. e = [Frequency |-> FrequencyOf[ts], Status |-> scan.status]
      <4>1. TsList'[Len(TsList) + 1] = e
        BY <1>0, <2>1
      <4>2. TsList'[Len(TsList) + 1] = [Frequency |-> FrequencyOf[ts], Status |-> scan.status]
        BY <1>0, <3>3
      <4>3. QED
        BY <4>1, <4>2
    <3>5. QED
      BY <3>1, <3>4 DEF SdtIsCached
  <2>4. \A i \in 2..Len(TsList') : \/ i \in 2..Len(TsList) /\ TsList'[i] = TsList[i]
                                   \/ TsList'[i] = e
    BY <1>0, <2>1
  <2>5. QED
    BY <2>1, <2>2, <2>3, <2>4 DEF ReportInv, AcquiredSdtIsCached, SdtIsCached
<1>6. QED
  BY <1>1, <1>2, <1>3, <1>4, <1>5 DEF ScanNext, ScanThread, KeepsReport, StaysOn, OthersStep

\* The thread never leaves SdtAcquired set for a frequency whose SDT the
\* caches do not have: neither by finding that of an earlier scan, nor by
\* clearing it while the entry stands.
THEOREM AcquiredIsCached == ScanSpec => []AcquiredSdtIsCached
<1>1. ScanInit => ReportInv
  <2> SUFFICES ASSUME ScanInit PROVE ReportInv
    OBVIOUS
  <2>1. pc = "top" /\ TsList = << >> /\ scan.status = NoStatus
    BY DEF ScanInit
  <2>2. QED
    BY <2>1 DEF NoStatus, ReportInv, SearchInv, AcquiredInv, AcquiredSdtIsCached, SdtIsCached, Where
<1>2. ScanInv /\ ReportInv /\ [ScanNext]_scanVars => ReportInv'
  <2> SUFFICES ASSUME ScanInv, ReportInv, [ScanNext]_scanVars PROVE ReportInv'
    OBVIOUS
  <2>1. CASE ScanNext
    BY <2>1, SearchNext, AcquiredNext, AcquiredReportNext DEF ReportInv
  <2>2. CASE UNCHANGED scanVars
    <3>1. UNCHANGED <<TsList, cached, pc, scan, check>>
      BY <2>2 DEF scanVars, statusVars, cacheVars, threadVars
    <3>2. QED
      BY <3>1 DEF ReportInv, SearchInv, AcquiredInv, AcquiredSdtIsCached, SdtIsCached, Where, IsAt
  <2>3. QED
    BY <2>1, <2>2
<1>3. ReportInv => AcquiredSdtIsCached
  BY DEF ReportInv
<1>4. QED
  BY <1>1, <1>2, <1>3, ScanInvariant, PTL DEF ScanSpec

-----------------------------------------------------------------------------
(***************************************************************************)
(* What a background scan reports where reception is good: a frequency     *)
(* carries the tables of its transport streams and the barker frequency    *)
(* carries their schedules, and nothing else of theirs, and they all       *)
(* arrive before the thread gives up.                                      *)
(***************************************************************************)
Schedules == UNION {EitsOf(ts, ServicesOf[ts], FALSE) : ts \in Transports}

GoodReception ==
  /\ InTime
  /\ NoFrequency \notin Frequencies
  /\ \A ts \in Transports :
       /\ FrequencyOf[ts] # BarkerFrequency
       /\ Sdt(ts) \in Carries[FrequencyOf[ts]]
       /\ \A isPf \in BOOLEAN : EitsOf(ts, ServicesOf[ts], isPf) \subseteq Carries[FrequencyOf[ts]]
  /\ BarkerFrequency # 0 => Schedules \subseteq Carries[BarkerFrequency]

\* Where only a fast scan comes to, where the frequency of the transport
\* stream or that of the barker is tuned to, and where tables are looked for
\* there.
OnFast == {"tables", "skip", "skip tried", "fast tuned", "fast collected"}
OnTuned == {"tuned", "sdt collected", "eit pf collected", "schedule collected"}
OnTunedBarker == {"barker tuned", "barker collected"}
OnSearch == (OnTuned \ {"tuned"}) \cup {"barker collected"}

\* Nobody but the thread tunes, so that it looks where the tables are sent and
\* finds them all.
SoughtInv ==
  /\ Where \in OnTuned => \A ts \in Transports : IsAt(ts) => tuner.target = FrequencyOf[ts]
  /\ Where \in OnTunedBarker => tuner.target = BarkerFrequency
  /\ Where \in OnSearch => /\ check.tables \subseteq Carries[tuner.target]
                           /\ pc # "check" => check.found
  /\ Where = "eit pf collected" =>
       \A ts \in Transports : IsAt(ts) => scan.schedule \subseteq EitsOf(ts, ServicesOf[ts], FALSE)

\* What is set on the way to the report.
ToReport(status, at) ==
  IF at = {} THEN "EitAcquired" \in status ELSE status = Flags

OutcomeInv ==
  /\ Where \in OnFast => scan.fast
  /\ Where \in {"eit pf collected", "schedule collected"} => "SdtAcquired" \in scan.status
  /\ Where = "schedule collected" => "EitPfAcquired" \in scan.status
  /\ Where \in Leaving => scan.fast \/ ToReport(scan.status, scan.at)

\* The entries of AllAcquired.
AllListed ==
  \A i \in 2..Len(TsList) :
    IF TsList[i].Frequency = BarkerFrequency
      THEN "EitAcquired" \in TsList[i].Status
      ELSE TsList[i].Status = Flags

ReceptionInv ==
  /\ scan.fullSchedule \subseteq Schedules
  /\ SoughtInv /\ OutcomeInv
  /\ Where \in Listed => scan.fast \/ AllListed
  /\ AllAcquired

LEMMA ServicesCached ==
  ASSUME NEW ts, NEW isPf
  PROVE  EitsOf(ts, GetServiceListByTsIdCache(ts), isPf) \subseteq EitsOf(ts, ServicesOf[ts], isPf)
BY DEF EitsOf, GetServiceListByTsIdCache

\* The services of a transport stream are added when it is tuned to.
LEMMA FullScheduleNext ==
  ASSUME ScanInv, scan.fullSchedule \subseteq Schedules, ScanNext
  PROVE  scan'.fullSchedule \subseteq Schedules
<1>0. scan \in ScanType /\ PlaceInv
  BY DEF ScanInv, TypeInv
<1>1. CASE CollectEitPf
  <2>1. PICK ts \in Transports : IsAt(ts)
    BY <1>0, <1>1 DEF CollectEitPf, PlaceInv, Where, OnTransport
  <2>2. scan'.fullSchedule =
          scan.fullSchedule \cup EitsOf(ts, GetServiceListByTsIdCache(ts), FALSE)
    BY <1>0, <1>1, <2>1, AtIs DEF CollectEitPf, ScanType
  <2>3. EitsOf(ts, ServicesOf[ts], FALSE) \subseteq Schedules
    BY DEF Schedules
  <2>4. QED
    BY <2>2, <2>3, ServicesCached
<1>2. CASE KeepsScan \/ OthersStep
  BY <1>2, ScanKept, ThreadKept DEF threadVars
<1>3. CASE \/ Top \/ NitCollected \/ SelectHomeSdt \/ ListTransports \/ FastNext
           \/ BackgroundNext \/ FastTables \/ Skip \/ FastCollected \/ CollectSchedule
           \/ ScheduleCollected \/ ClearEits
  <2>1. scan'.fullSchedule = scan.fullSchedule
    BY <1>0, <1>3 DEF Top, NitCollected, SelectHomeSdt, ListTransports, FastNext,
       BackgroundNext, NextTransport, FastTables, Skip, FastCollected, CollectSchedule,
       ScheduleCollected, ClearEits, ScanType
  <2>2. QED
    BY <2>1
<1>4. CASE HomeDone \/ LastTransportDone \/ AddToReport
  <2>1. scan'.fullSchedule \in {scan.fullSchedule, {}}
    BY <1>0, <1>4 DEF HomeDone, LastTransportDone, AddToReport, ScanType
  <2>2. QED
    BY <2>1
<1>5. QED
  BY <1>1, <1>2, <1>3, <1>4 DEF ScanNext, ScanThread, KeepsScan, OthersStep

\* The other actors leave the tuner where it is, and the thread does so while
\* it is looking.
LEMMA TargetKept ==
  ASSUME TypeInv,
         \/ CollectSdt \/ CollectEitPf \/ CollectSchedule \/ CollectBarker
         \/ CheckCacheTableCollections \/ OthersStep
  PROVE  tuner'.target = tuner.target
<1>1. CASE CollectSdt \/ CollectEitPf \/ CollectSchedule \/ CollectBarker
             \/ CheckCacheTableCollections
  BY <1>1 DEF CollectSdt, CollectEitPf, CollectSchedule, CollectBarker,
     CheckCacheTableCollections, tunerVars
<1>2. CASE Lock \/ LoseLock
  BY <1>2 DEF TypeInv, Lock, LoseLock
<1>3. CASE OthersStep /\ ~ (Lock \/ LoseLock)
  BY <1>3 DEF OthersStep, HandleTableEvent, UpdateTuneStatus, UpdateScanType, tunerVars
<1>4. QED
  BY <1>1, <1>2, <1>3

\* The steps after which there is nothing to say of a search or a status.
GoesElsewhere ==
  \/ StaysOff \/ BackgroundNext \/ LastTransportDone \/ ClearEits

LEMMA ElsewherePlaces ==
  GoesElsewhere => Where' \notin OnFast \cup OnTuned \cup OnTunedBarker \cup Leaving
<1>1. CASE StaysOff
  BY <1>1, StaysOffPlaces DEF OnTransport, OnBarker, OnFast, OnTuned, OnTunedBarker
<1>2. CASE BackgroundNext \/ LastTransportDone \/ ClearEits
  BY <1>2 DEF BackgroundNext, NextTransport, LastTransportDone, ClearEits, Goto, Where,
     OnFast, OnTuned, OnTunedBarker, Leaving
<1>3. QED
  BY <1>1, <1>2 DEF GoesElsewhere

\* The steps of a fast scan on a transport stream.
FastStep ==
  \/ FastNext \/ FastTables \/ TrySkipping \/ FastTune \/ CollectFast \/ Skip \/ FastCollected

LEMMA FastPlaces ==
  ASSUME TypeInv, FastStep, Where \in OnFast => scan.fast
  PROVE  scan'.fast /\ Where' \in OnFast \cup Leaving
<1>0. scan \in ScanType
  BY DEF TypeInv
<1>1. CASE FastNext
  BY <1>0, <1>1 DEF FastNext, NextTransport, Goto, Where, OnFast, ScanType
<1>2. CASE FastTables \/ FastTune \/ Skip \/ FastCollected
  <2>1. Where \in OnFast /\ Where' \in OnFast \cup Leaving
    BY <1>2 DEF FastTables, FastTune, Skip, FastCollected, Goto, Where, OnFast, Leaving
  <2>2. scan'.fast = scan.fast
    BY <1>2, StateKept DEF ListedStep, StaysOn
  <2>3. QED
    BY <2>1, <2>2
<1>3. CASE TrySkipping \/ CollectFast
  <2>1. Where \in OnFast
    BY <1>3 DEF TrySkipping, CollectFast, Where, OnFast
  <2>2. Where' \in OnFast
    BY <1>3, ChecksAt DEF TrySkipping, CollectFast, OnFast
  <2>3. scan'.fast = scan.fast
    BY <1>3, StateKept DEF ListedStep, StaysOn
  <2>4. QED
    BY <2>1, <2>2, <2>3
<1>4. QED
  BY <1>1, <1>2, <1>3 DEF FastStep

LEMMA SoughtNext ==
  ASSUME GoodReception, ScanInv, scan.fullSchedule \subseteq Schedules, SoughtInv,
         Where \in OnFast => scan.fast, ScanNext
  PROVE  SoughtInv'
<1>0. scan \in ScanType /\ TypeInv /\ PlaceInv /\ CheckInv /\ check \in CheckType
  BY DEF ScanInv, TypeInv
<1>1. CASE GoesElsewhere
  BY <1>1, ElsewherePlaces DEF SoughtInv, OnTuned, OnTunedBarker, OnSearch
<1>2. CASE FastStep
  <2>1. Where' \in OnFast \cup Leaving
    BY <1>0, <1>2, FastPlaces
  <2>2. QED
    BY <2>1 DEF SoughtInv, OnTuned, OnTunedBarker, OnSearch, OnFast, Leaving
<1>3. CASE BackgroundTune
  <2>1. Where' = "tuned" /\ scan' = scan /\ tuner'.target = FrequencyOf[At]
    BY <1>0, <1>3 DEF BackgroundTune, NotifyDvbStorageTuneObserver, Goto, Where
  <2>2. \A ts \in Transports : IsAt(ts)' => At = ts
    BY <2>1, AtIs DEF IsAt
  <2>3. QED
    BY <2>1, <2>2 DEF SoughtInv, OnTunedBarker, OnSearch
<1>4. CASE CollectSdt
  <2>1. PICK ts \in Transports : IsAt(ts)
    BY <1>0, <1>4 DEF CollectSdt, PlaceInv, Where, OnTransport
  <2>2. /\ pc' = "check" /\ check'.tables = {Sdt(ts)} /\ Where' = "sdt collected"
        /\ scan' = scan /\ tuner'.target = tuner.target
    BY <1>0, <1>4, <2>1, AtIs, TargetKept DEF CollectSdt, CheckTables, Where
  <2>3. tuner.target = FrequencyOf[ts]
    BY <1>4, <2>1 DEF CollectSdt, Where, SoughtInv, OnTuned
  <2>4. Sdt(ts) \in Carries[FrequencyOf[ts]]
    BY DEF GoodReception
  <2>5. \A other \in Transports : IsAt(other)' => other = ts
    BY <2>1, <2>2 DEF IsAt
  <2>6. QED
    BY <2>2, <2>3, <2>4, <2>5 DEF SoughtInv, OnTunedBarker
<1>5. CASE CollectEitPf
  <2>1. PICK ts \in Transports : IsAt(ts)
    BY <1>0, <1>5 DEF CollectEitPf, PlaceInv, Where, OnTransport
  <2>2. /\ pc' = "check" /\ Where' = "eit pf collected"
        /\ check'.tables = EitsOf(ts, GetServiceListByTsIdCache(ts), TRUE)
        /\ tuner'.target = tuner.target
    BY <1>0, <1>5, <2>1, AtIs, TargetKept DEF CollectEitPf, CheckTables, Where
  <2>3. scan'.at = scan.at /\ scan'.schedule = EitsOf(ts, GetServiceListByTsIdCache(ts), FALSE)
    BY <1>0, <1>5, <2>1, AtIs DEF CollectEitPf, ScanType
  <2>4. tuner.target = FrequencyOf[ts]
    BY <1>5, <2>1 DEF CollectEitPf, Where, SoughtInv, OnTuned
  <2>5. EitsOf(ts, ServicesOf[ts], TRUE) \subseteq Carries[FrequencyOf[ts]]
    BY DEF GoodReception
  <2>6. \A other \in Transports : IsAt(other)' => other = ts
    BY <2>1, <2>3 DEF IsAt
  <2>7. /\ check'.tables \subseteq Carries[tuner'.target]
        /\ scan'.schedule \subseteq EitsOf(ts, ServicesOf[ts], FALSE)
    BY <2>2, <2>3, <2>4, <2>5, ServicesCached
  <2>8. QED
    BY <2>2, <2>4, <2>6, <2>7 DEF SoughtInv, OnTunedBarker
<1>6. CASE CollectSchedule
  <2>1. PICK ts \in Transports : IsAt(ts)
    BY <1>0, <1>6 DEF CollectSchedule, PlaceInv, Where, OnTransport
  <2>2. FrequencyOf[At] # BarkerFrequency
    BY <2>1, AtIs DEF GoodReception
  <2>3. /\ pc' = "check" /\ Where' = "schedule collected" /\ check'.tables = scan.schedule
    <3>1. CheckTables(scan.schedule, EIT_8_DAY_SCHED_TIMEOUT, "schedule collected")
      BY <1>6, <2>2 DEF CollectSchedule
    <3>2. QED
      BY <3>1 DEF CheckTables, Where
  <2>4. scan'.at = scan.at
    BY <1>0, <1>6 DEF CollectSchedule, ScanType
  <2>5. tuner'.target = tuner.target
    BY <1>0, <1>6, TargetKept
  <2>6. /\ tuner.target = FrequencyOf[ts]
        /\ scan.schedule \subseteq EitsOf(ts, ServicesOf[ts], FALSE)
    BY <1>6, <2>1 DEF CollectSchedule, Where, SoughtInv, OnTuned
  <2>7. EitsOf(ts, ServicesOf[ts], FALSE) \subseteq Carries[FrequencyOf[ts]]
    BY DEF GoodReception
  <2>8. \A other \in Transports : IsAt(other)' => other = ts
    BY <2>1, <2>4 DEF IsAt
  <2>9. QED
    BY <2>3, <2>6, <2>7, <2>8, <2>5 DEF SoughtInv, OnTunedBarker
<1>7. CASE TuneBarker
  <2>1. Where' = "barker tuned" /\ tuner'.target = BarkerFrequency
    BY <1>0, <1>7 DEF TuneBarker, NotifyDvbStorageTuneObserver, Goto, Where
  <2>2. QED
    BY <2>1 DEF SoughtInv, OnTuned, OnSearch
<1>8. CASE CollectBarker
  <2>1. BarkerFrequency # 0 /\ tuner.target = BarkerFrequency
    BY <1>0, <1>8 DEF CollectBarker, PlaceInv, Where, OnBarker, SoughtInv, OnTunedBarker
  <2>2. /\ pc' = "check" /\ Where' = "barker collected" /\ check'.tables = scan.fullSchedule
    <3>1. PICK timeout \in BarkerEitTimouts :
             CheckTables(scan.fullSchedule, timeout, "barker collected")
      BY <1>8 DEF CollectBarker
    <3>2. QED
      BY <3>1 DEF CheckTables, Where
  <2>3. tuner'.target = tuner.target
    BY <1>0, <1>8, TargetKept
  <2>4. scan.fullSchedule \subseteq Carries[BarkerFrequency]
    BY <2>1 DEF GoodReception
  <2>5. QED
    BY <2>1, <2>2, <2>4, <2>3 DEF SoughtInv, OnTuned
<1>9. CASE ScheduleCollected \/ ResetTuneStatus \/ UnTune
  <2>1. Where' \in Leaving
    BY <1>9 DEF ScheduleCollected, ResetTuneStatus, UnTune, Goto, Where, Leaving
  <2>2. QED
    BY <2>1 DEF SoughtInv, OnTuned, OnTunedBarker, OnSearch, Leaving
<1>10. CASE OthersStep
  <2>1. pc' = pc /\ check' = check /\ scan' = scan /\ tuner'.target = tuner.target
    BY <1>0, <1>10, ThreadKept, TargetKept DEF threadVars
  <2>2. QED
    BY <2>1 DEF SoughtInv, Where, IsAt
<1>11. CASE CheckCacheTableCollections
  <2>1. Where' = Where /\ scan' = scan /\ tuner'.target = tuner.target /\ tuner' = tuner
    BY <1>0, <1>11, WhereKept, TargetKept DEF CheckCacheTableCollections, tunerVars
  <2>2. check'.tables = check.tables
    BY <1>0, <1>11 DEF CheckCacheTableCollections, AllFound, LookUp, Retry, GiveUp, CheckType
  <2>3. ASSUME Where \in OnSearch
        PROVE  pc' # "check" => check'.found
    <3>1. check.tables \subseteq Carries[tuner.target] /\ check.left \subseteq check.tables
      BY <1>0, <2>3 DEF SoughtInv, TypeInv
    <3>2. tuner.target # NoFrequency
      <4>1. CASE Where \in OnTuned
        <5>1. PICK ts \in Transports : IsAt(ts)
          BY <1>0, <4>1 DEF PlaceInv, OnTuned, OnTransport
        <5>2. tuner.target \in Frequencies
          BY <4>1, <5>1, ScanAssumption DEF SoughtInv
        <5>3. QED
          BY <5>2 DEF GoodReception
      <4>2. CASE Where = "barker collected"
        BY <1>0, <4>2 DEF PlaceInv, OnBarker, SoughtInv, OnTunedBarker, NoFrequency
      <4>3. QED
        BY <2>3, <4>1, <4>2 DEF OnSearch
    <3>3. \A t \in check.left : ~ GiveUp(t)
      BY <3>1, <3>2 DEF GiveUp, GoodReception
    <3>4. CASE AllFound
      BY <1>0, <3>4 DEF AllFound, CheckType
    <3>5. CASE \E t \in check.left : LookUp(t) \/ Retry(t)
      BY <3>5 DEF LookUp, Retry, Missing
    <3>6. QED
      BY <1>11, <3>3, <3>4, <3>5 DEF CheckCacheTableCollections
  <2>4. QED
    BY <2>1, <2>2, <2>3 DEF SoughtInv, IsAt
<1>12. QED
  BY <1>1, <1>2, <1>3, <1>4, <1>5, <1>6, <1>7, <1>8, <1>9, <1>10, <1>11
  DEF ScanNext, ScanThread, GoesElsewhere, StaysOff, FastStep, OthersStep

LEMMA OutcomeNext ==
  ASSUME GoodReception, ScanInv, SoughtInv, OutcomeInv, ScanNext
  PROVE  OutcomeInv'
<1>0. scan \in ScanType /\ TypeInv /\ PlaceInv /\ CheckInv
  BY DEF ScanInv, TypeInv
<1>1. CASE GoesElsewhere
  BY <1>1, ElsewherePlaces DEF OutcomeInv, OnFast, OnTuned
<1>2. CASE FastStep
  <2>1. scan'.fast /\ Where' \in OnFast \cup Leaving
    BY <1>0, <1>2, FastPlaces DEF OutcomeInv
  <2>2. QED
    BY <2>1 DEF OutcomeInv, OnFast, Leaving
<1>3. CASE BackgroundTune \/ TuneBarker
  <2>1. Where' \in {"tuned", "barker tuned"}
    BY <1>3 DEF BackgroundTune, TuneBarker, Goto, Where
  <2>2. QED
    BY <2>1 DEF OutcomeInv, OnFast, Leaving
<1>4. CASE CollectSdt \/ CollectBarker
  <2>1. Where' \in {"sdt collected", "barker collected"}
    BY <1>4, ChecksAt DEF CollectSdt, CollectBarker
  <2>2. QED
    BY <2>1 DEF OutcomeInv, OnFast, Leaving
<1>5. CASE CollectEitPf
  <2>1. Where' = "eit pf collected"
    BY <1>5, ChecksAt DEF CollectEitPf
  <2>2. check.found
    BY <1>5 DEF CollectEitPf, Where, SoughtInv, OnSearch, OnTuned
  <2>3. "SdtAcquired" \in scan'.status
    BY <1>0, <1>5, <2>2 DEF CollectEitPf, SetIfFound, ScanType, Flags
  <2>4. QED
    BY <2>1, <2>3 DEF OutcomeInv, OnFast, Leaving
<1>6. CASE CollectSchedule
  <2>1. PICK ts \in Transports : IsAt(ts)
    BY <1>0, <1>6 DEF CollectSchedule, PlaceInv, Where, OnTransport
  <2>2. FrequencyOf[At] # BarkerFrequency
    BY <2>1, AtIs DEF GoodReception
  <2>3. Where' = "schedule collected"
    BY <1>6, <2>2, ChecksAt DEF CollectSchedule
  <2>4. check.found /\ "SdtAcquired" \in scan.status
    BY <1>6 DEF CollectSchedule, Where, SoughtInv, OnSearch, OnTuned, OutcomeInv
  <2>5. "SdtAcquired" \in scan'.status /\ "EitPfAcquired" \in scan'.status
    BY <1>0, <1>6, <2>4 DEF CollectSchedule, SetIfFound, ScanType, Flags
  <2>6. QED
    BY <2>3, <2>5 DEF OutcomeInv, OnFast, Leaving
<1>7. CASE ScheduleCollected
  <2>1. Where' = "untune" /\ pc # "check" /\ Where = pc
        /\ pc \in {"schedule collected", "barker collected"}
    BY <1>7 DEF ScheduleCollected, Goto, Where
  <2>2. check.found
    BY <2>1 DEF SoughtInv, OnSearch, OnTuned
  <2>3. /\ scan'.at = scan.at /\ "EitAcquired" \in scan'.status
        /\ scan.status \subseteq scan'.status /\ scan'.status \subseteq Flags
    BY <1>0, <1>7, <2>2 DEF ScheduleCollected, SetIfFound, ScanType, Status, Flags
  <2>4. CASE pc = "schedule collected"
    <3>1. scan'.status = Flags
      BY <2>1, <2>3, <2>4 DEF OutcomeInv, Flags
    <3>2. QED
      BY <2>1, <2>3, <3>1 DEF OutcomeInv, OnFast, ToReport
  <2>5. CASE pc = "barker collected"
    <3>1. scan'.at = {}
      BY <1>0, <2>1, <2>3, <2>5 DEF PlaceInv, OnBarker
    <3>2. QED
      BY <2>1, <2>3, <3>1 DEF OutcomeInv, OnFast, ToReport
  <2>6. QED
    BY <2>1, <2>4, <2>5
<1>8. CASE ResetTuneStatus \/ UnTune
  <2>1. scan' = scan /\ Where \in Leaving /\ Where' \in Leaving
    BY <1>8 DEF ResetTuneStatus, UnTune, Goto, Where, Leaving
  <2>2. QED
    BY <2>1 DEF OutcomeInv, OnFast, Leaving
<1>9. CASE CheckCacheTableCollections \/ OthersStep
  <2>1. Where' = Where /\ scan' = scan
    BY <1>0, <1>9, WhereKept
  <2>2. QED
    BY <2>1 DEF OutcomeInv
<1>10. QED
  BY <1>1, <1>2, <1>3, <1>4, <1>5, <1>6, <1>7, <1>8, <1>9
  DEF ScanNext, ScanThread, GoesElsewhere, StaysOff, FastStep, OthersStep

LEMMA AllListedNext ==
  ASSUME GoodReception, ScanInv, OutcomeInv, Where \in Listed => scan.fast \/ AllListed, ScanNext
  PROVE  Where' \in Listed => scan'.fast \/ AllListed'
<1>0. scan \in ScanType /\ TypeInv /\ PlaceInv /\ CheckInv /\ StateInv /\ TsList \in Seq(Entry)
  BY DEF ScanInv, TypeInv
<1>1. CASE ListedStep
  <2>1. Where \in Listed /\ TsList' = TsList /\ scan'.fast = scan.fast
    BY <1>0, <1>1, ListedStepPlaces, ReportKept, StateKept DEF ListedStep, KeepsReport
  <2>2. QED
    BY <2>1 DEF AllListed
<1>2. CASE CheckCacheTableCollections \/ OthersStep
  <2>1. Where' = Where /\ scan' = scan /\ TsList' = TsList
    BY <1>0, <1>2, WhereKept, ReportKept DEF KeepsReport
  <2>2. QED
    BY <2>1 DEF AllListed
<1>3. CASE HomeStep
  <2>1. Where' \notin Listed
    BY <1>3, HomeStepPlaces DEF AtHome, Listed, OnTransport, OnBarker, Leaving
  <2>2. QED
    BY <2>1
<1>4. CASE \/ Top \/ ClearReport \/ FastScanDone \/ BackgroundScanDone \/ ScanFailed
           \/ NextScan \/ SpuriousWakeUp
  <2>1. Where' \notin Listed
    BY <1>4 DEF Top, ClearReport, FastScanDone, BackgroundScanDone, ScanFailed, NextScan,
       SpuriousWakeUp, Goto, Where, Listed, OnTransport, OnBarker, Leaving
  <2>2. QED
    BY <2>1
<1>5. CASE HomeDone
  <2>1. TsList = << >>
    BY <1>0, <1>5 DEF HomeDone, StateInv, Where, AtHome
  <2>2. PICK e \in Entry : TsList' = Append(TsList, e)
    BY <1>0, <1>5, HomeEntry
  <2>3. Len(TsList') = 1
    BY <1>0, <2>1, <2>2
  <2>4. QED
    BY <2>3 DEF AllListed
<1>6. CASE AddToReport
  <2>1. scan.fast \/ ToReport(scan.status, scan.at)
    BY <1>6 DEF AddToReport, OutcomeInv, Where, Leaving
  <2>2. scan.fast \/ AllListed
    BY <1>6 DEF AddToReport, Where, Listed, Leaving
  <2>3. scan'.fast = scan.fast
    BY <1>0, <1>6, StateKept
  <2> DEFINE e == [Frequency |-> IF scan.at = {} THEN BarkerFrequency ELSE FrequencyOf[At],
                   Status |-> scan.status]
  <2>4. TsList' = Append(TsList, e)
    BY <1>6 DEF AddToReport
  <2>5. \A i \in 2..Len(TsList') : \/ i \in 2..Len(TsList) /\ TsList'[i] = TsList[i]
                                   \/ TsList'[i] = e
    <3> HIDE DEF e
    <3>1. QED
      BY <1>0, <2>4
  <2>6. \/ scan.at = {} /\ e.Frequency = BarkerFrequency /\ e.Status = scan.status
        \/ scan.at # {} /\ e.Frequency # BarkerFrequency /\ e.Status = scan.status
    <3>1. CASE scan.at = {}
      BY <3>1
    <3>2. CASE scan.at # {}
      <4>1. PICK ts \in Transports : IsAt(ts)
        BY <1>0, <1>6, <3>2 DEF AddToReport, PlaceInv, Where, Leaving
      <4>2. FrequencyOf[At] # BarkerFrequency
        BY <4>1, AtIs DEF GoodReception
      <4>3. QED
        BY <3>2, <4>2
    <3>3. QED
      BY <3>1, <3>2
  <2> HIDE DEF e
  <2>7. scan.fast \/ (IF e.Frequency = BarkerFrequency THEN "EitAcquired" \in e.Status
                      ELSE e.Status = Flags)
    BY <2>1, <2>6 DEF ToReport
  <2>8. QED
    BY <2>2, <2>3, <2>5, <2>7 DEF AllListed
<1>7. QED
  BY <1>1, <1>2, <1>3, <1>4, <1>5, <1>6 DEF ScanNext, ScanThread, HomeStep, ListedStep,
     StaysOn, OthersStep

\* A scan is complete when a background scan is done, and its report stays
\* until the next one begins.
LEMMA CompletedNext ==
  ASSUME ScanInv, AllAcquired, Where \in Listed => scan.fast \/ AllListed, ScanNext
  PROVE  AllAcquired'
<1>0. TypeInv /\ PlaceInv /\ StateInv
  BY DEF ScanInv
<1>1. CASE BackgroundScanDone
  <2>1. AllListed /\ TsList' = TsList
    BY <1>1 DEF BackgroundScanDone, Where, Listed
  <2>2. QED
    BY <2>1 DEF AllListed, AllAcquired
<1>2. CASE Top \/ ScanFailed \/ SpuriousWakeUp
  <2>1. ScanState' # "SCAN_COMPLETED"
    BY <1>2 DEF Top, ScanFailed, SpuriousWakeUp
  <2>2. QED
    BY <2>1 DEF AllAcquired
<1>3. CASE FastScanDone \/ NextScan
  BY <1>3 DEF FastScanDone, NextScan, statusVars, AllAcquired
<1>4. CASE HomeStep \/ ListedStep \/ CheckCacheTableCollections \/ OthersStep
  <2>1. TsList' = TsList /\ ScanState' = ScanState
    BY <1>0, <1>4, ReportKept, StateKept DEF HomeStep, ListedStep, KeepsReport
  <2>2. QED
    BY <2>1 DEF AllAcquired
<1>5. CASE ClearReport \/ HomeDone \/ AddToReport
  <2>1. Where \notin Idle
    BY <1>5 DEF ClearReport, HomeDone, AddToReport, Where, Idle
  <2>2. ScanState' # "SCAN_COMPLETED"
    BY <1>0, <1>5, <2>1, StateKept DEF StateInv
  <2>3. QED
    BY <2>2 DEF AllAcquired
<1>6. QED
  BY <1>1, <1>2, <1>3, <1>4, <1>5 DEF ScanNext, ScanThread, HomeStep, ListedStep,
     StaysOn, OthersStep

\* With good reception every transport stream in the report of a completed
\* scan has all its tables: the thread only looks for what the frequency it
\* has tuned to carries, whatever is asked of it meanwhile, and a fast scan
\* that succeeds does not complete.
THEOREM ReceivedIsAcquired ==
  ASSUME GoodReception
  PROVE  ScanSpec => []AllAcquired
<1>1. ScanInit => ReceptionInv
  <2> SUFFICES ASSUME ScanInit PROVE ReceptionInv
    OBVIOUS
  <2>1. pc = "top" /\ TsList = << >> /\ scan.fullSchedule = {} /\ ScanState = "SCAN_STOPPED"
    BY DEF ScanInit
  <2>2. Where = "top"
    BY <2>1 DEF Where
  <2>3. QED
    BY <2>1, <2>2 DEF ReceptionInv, SoughtInv, OutcomeInv, AllAcquired, OnFast, OnTuned,
       OnTunedBarker, OnSearch, Leaving, Listed, OnTransport, OnBarker
<1>2. ScanInv /\ ReceptionInv /\ [ScanNext]_scanVars => ReceptionInv'
  <2> SUFFICES ASSUME ScanInv, ReceptionInv, [ScanNext]_scanVars PROVE ReceptionInv'
    OBVIOUS
  <2>1. CASE ScanNext
    <3>1. scan'.fullSchedule \subseteq Schedules
      BY <2>1, FullScheduleNext DEF ReceptionInv
    <3>2. SoughtInv'
      BY <2>1, SoughtNext DEF ReceptionInv, OutcomeInv
    <3>3. OutcomeInv'
      BY <2>1, OutcomeNext DEF ReceptionInv
    <3>4. Where' \in Listed => scan'.fast \/ AllListed'
      BY <2>1, AllListedNext DEF ReceptionInv
    <3>5. AllAcquired'
      BY <2>1, CompletedNext DEF ReceptionInv
    <3>6. QED
      BY <3>1, <3>2, <3>3, <3>4, <3>5 DEF ReceptionInv
  <2>2. CASE UNCHANGED scanVars
    <3>1. UNCHANGED <<ScanState, TsList, pc, scan, check, tuner>>
      BY <2>2 DEF scanVars, statusVars, threadVars, tunerVars
    <3>2. QED
      BY <3>1 DEF ReceptionInv, SoughtInv, OutcomeInv, AllAcquired, AllListed, Where, IsAt
  <2>3. QED
    BY <2>1, <2>2
<1>3. ReceptionInv => AllAcquired
  BY DEF ReceptionInv
<1>4. QED
  BY <1>1, <1>2, <1>3, ScanInvariant, PTL DEF ScanSpec

=============================================================================
