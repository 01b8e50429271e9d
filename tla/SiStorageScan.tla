---------------------------- MODULE SiStorageScan ---------------------------
(***************************************************************************)
(* The scan thread of class TDvbSiStorage, the thread that delivers tables *)
(* to the storage's caches, the tuner behind the storage observer, and the *)
(* application that changes the kind of scan.                              *)
(*                                                                         *)
(* Every step of the scan thread is one access to what the threads share:  *)
(* a critical section of CacheDataMutex, or a read or write of the plain   *)
(* bools IsFastScan and CurrentTuneStatus and of the public DvbScanStatus, *)
(* which no mutex guards.  HomeBouquetsVector is never filled, so the BATs *)
(* it lists play no part.  Time is left out: sleep(1) is a step in which   *)
(* anything may happen, and the timeouts count the looks at the caches.    *)
(***************************************************************************)
EXTENDS Integers, Sequences

CONSTANTS
  Transports,            \* the transport streams a NIT may list
  FrequencyOf,           \* the frequency in the delivery descriptor of each
  ServicesOf,            \* the services in the SDT of each
  NetworkIds,            \* the networks whose NIT is received
  NitLists,              \* the sets of transport streams a NIT may list
  Carries,               \* the tables sent on each frequency
  HomeTsFrequency,
  BarkerFrequency,       \* 0: SetBarkerInfo was called with 0
  PreferredNetworkId,    \* 0: none
  NIT_TIMEOUT, SDT_TIMEOUT, SDT_OTHER_TIMEOUT, EIT_PF_TIMEOUT,
  EIT_8_DAY_SCHED_TIMEOUT,
  BarkerEitTimouts,      \* what the member may hold: nothing ever sets it
  InTime,                \* TRUE: the tables on a frequency beat the timeouts
  MaxRequests,           \* bound: calls of UpdateScanType
  MaxLosses,             \* bound: how often the tuner loses its lock
  MaxReports             \* bound: reports of the tuner not yet passed on

Nit(n) == [kind |-> "NIT", id |-> n]
Sdt(ts) == [kind |-> "SDT", id |-> ts]
Eit(ts, srv, isPf) == [kind |-> "EIT", id |-> <<ts, srv, isPf>>]

EitsOf(ts, services, isPf) == {Eit(ts, srv, isPf) : srv \in services}

Tables ==
  {Nit(n) : n \in NetworkIds}
    \cup {Sdt(ts) : ts \in Transports}
    \cup UNION {EitsOf(ts, ServicesOf[ts], isPf) : ts \in Transports, isPf \in BOOLEAN}

Frequencies == DOMAIN Carries

ASSUME ScanAssumption ==
  /\ FrequencyOf \in [Transports -> Frequencies]
  /\ DOMAIN ServicesOf = Transports
  /\ NetworkIds \subseteq Nat \ {0}
  /\ NitLists # {} /\ NitLists \subseteq SUBSET Transports
  /\ Carries \in [Frequencies -> SUBSET Tables]
  /\ HomeTsFrequency \in Frequencies
  /\ BarkerFrequency \in Frequencies \cup {0}
  /\ PreferredNetworkId \in Nat
  /\ {NIT_TIMEOUT, SDT_TIMEOUT, SDT_OTHER_TIMEOUT, EIT_PF_TIMEOUT,
      EIT_8_DAY_SCHED_TIMEOUT} \cup BarkerEitTimouts \subseteq Nat
  /\ InTime \in BOOLEAN
  /\ MaxRequests \in Nat /\ MaxLosses \in Nat /\ MaxReports \in Nat \ {0}

VARIABLES
  IsFastScan,
  CurrentTuneStatus,
  ScanState, TsList,     \* DvbScanStatus
  cached,                \* the keys of the four table maps
  NitTableMap,           \* the transport streams in the NIT of each network
  pc, scan, check,       \* the scan thread: where it is, its local variables,
                         \* and those of CheckCacheTableCollections
  tuner, signal, reports,\* the tuner's target and lock, the frequency whose
                         \* sections get to the parser, reports on the way
  requests, losses       \* how often the bounded events took place

statusVars == <<ScanState, TsList>>
cacheVars == <<cached, NitTableMap>>
threadVars == <<pc, scan, check>>
tunerVars == <<tuner, signal, reports>>
boundVars == <<requests, losses>>
scanVars == <<IsFastScan, CurrentTuneStatus, statusVars, cacheVars, threadVars,
              tunerVars, boundVars>>

Flags == {"SdtAcquired", "EitPfAcquired", "EitAcquired"}

\* An element of TsList.  A TDvbSiTableStatus is told by the flags that have
\* been set to true, the only value ever assigned to one: the struct has no
\* constructor, so all others hold what the stack held.
Entry == [Frequency: Frequencies, Status: SUBSET Flags]

\* What somebody may read of it.
Readings(status) == {r \in [Flags -> BOOLEAN] : \A f \in status : r[f]}

NoFrequency == 0

NoStatus == {}

NoCheck == [tables |-> {}, left |-> {}, timeout |-> 0, found |-> FALSE, then |-> "none"]

ScanInit ==
  /\ IsFastScan \in BOOLEAN
  /\ CurrentTuneStatus = FALSE
  /\ ScanState = "SCAN_STOPPED"
  /\ TsList = << >>
  /\ cached = {}
  /\ NitTableMap = [n \in NetworkIds |-> {}]
  /\ pc = "top"
  /\ scan = [fast |-> FALSE, todo |-> {}, at |-> {}, tables |-> {},
             schedule |-> {}, fullSchedule |-> {}, status |-> NoStatus]
  /\ check = NoCheck
  /\ tuner = [target |-> NoFrequency, locked |-> FALSE]
  /\ signal = NoFrequency
  /\ reports = << >>
  /\ requests = 0
  /\ losses = 0

-----------------------------------------------------------------------------
(***************************************************************************)
(* Helpers of the scan thread.                                             *)
(***************************************************************************)

\* GetTsListByNetIdCache(PreferredNetworkId): without a preferred network,
\* the first NIT of the map.
CachedNetworks == {n \in NetworkIds : Nit(n) \in cached}

GetTsListByNetIdCache ==
  UNION {NitTableMap[n] :
           n \in {n \in CachedNetworks :
                    IF PreferredNetworkId # 0
                      THEN n = PreferredNetworkId
                      ELSE \A m \in CachedNetworks : n <= m}}

GetServiceListByTsIdCache(ts) ==
  IF Sdt(ts) \in cached THEN ServicesOf[ts] ELSE {}

\* A call of CheckCacheTableCollections that goes on at label l.
CheckTables(tables, timeout, l) ==
  /\ check' = [tables |-> tables, left |-> tables, timeout |-> timeout,
               found |-> FALSE, then |-> l]
  /\ pc' = "check"

\* status.flag = true if they were all found.
SetIfFound(flags) == scan.status \cup (IF check.found THEN flags ELSE {})

Goto(l) == pc' = l

\* A bug: every tune waits for a report of its own, which a tuner that is
\* already there does not give.
TuneAndReset(f) ==
  /\ tuner' = IF tuner.target = f THEN tuner ELSE [target |-> f, locked |-> FALSE]
  /\ CurrentTuneStatus' = FALSE
  /\ UNCHANGED <<signal, reports>>

\* The observer's Tune: the tuner leaves its frequency for another one.
NotifyDvbStorageTuneObserver(f) ==
  /\ tuner' = IF tuner.target = f THEN tuner ELSE [target |-> f, locked |-> FALSE]
  /\ UNCHANGED <<CurrentTuneStatus, signal, reports>>

-----------------------------------------------------------------------------
(***************************************************************************)
(* ScanThread.                                                             *)
(***************************************************************************)
Top ==
  /\ pc = "top"
  /\ ScanState' = IF IsFastScan THEN "SCAN_IN_PROGRESS_FAST" ELSE "SCAN_IN_PROGRESS_BKGD"
  /\ scan' = [scan EXCEPT !.fast = IsFastScan]
  /\ Goto("clear report")
  /\ UNCHANGED <<IsFastScan, CurrentTuneStatus, TsList, cacheVars, check, tunerVars, boundVars>>

\* A bug: the report of the scan before stays.
ClearReportForgotten ==
  /\ pc = "clear report"
  /\ Goto("clear caches")
  /\ UNCHANGED <<IsFastScan, CurrentTuneStatus, statusVars, cacheVars, scan, check,
                 tunerVars, boundVars>>

ClearReport ==
  /\ pc = "clear report"
  /\ TsList' = << >>
  /\ Goto("clear caches")
  /\ UNCHANGED <<IsFastScan, CurrentTuneStatus, ScanState, cacheVars, scan, check,
                 tunerVars, boundVars>>

\* A bug: a fast scan that succeeded is reported as a completed scan.
FastScanCompletes ==
  /\ pc = "done"
  /\ scan.fast
  /\ IsFastScan' = FALSE
  /\ ScanState' = "SCAN_COMPLETED"
  /\ Goto("top")
  /\ UNCHANGED <<CurrentTuneStatus, TsList, cacheVars, scan, check, tunerVars, boundVars>>

\* A bug: IsFastScan is not reset.
FastScanRepeats ==
  /\ pc = "done"
  /\ scan.fast
  /\ Goto("top")
  /\ UNCHANGED <<IsFastScan, CurrentTuneStatus, statusVars, cacheVars, scan, check,
                 tunerVars, boundVars>>

\* A fast scan that succeeded is followed by a background scan, unless
\* another fast one was asked for between these two steps.
FastScanDone ==
  /\ pc = "done"
  /\ scan.fast
  /\ IsFastScan' = FALSE
  /\ Goto("top")
  /\ UNCHANGED <<CurrentTuneStatus, statusVars, cacheVars, scan, check, tunerVars, boundVars>>

BackgroundScanDone ==
  /\ pc = "done"
  /\ ~ scan.fast
  /\ ScanState' = "SCAN_COMPLETED"
  /\ Goto("wait")
  /\ UNCHANGED <<IsFastScan, CurrentTuneStatus, TsList, cacheVars, scan, check,
                 tunerVars, boundVars>>

ScanFailed ==
  /\ pc = "failed"
  /\ ScanState' = "SCAN_FAILED"
  /\ Goto("wait")
  /\ UNCHANGED <<IsFastScan, CurrentTuneStatus, TsList, cacheVars, scan, check,
                 tunerVars, boundVars>>

\* wait_for runs into its timeout ...
NextScan ==
  /\ pc = "wait"
  /\ Goto("top")
  /\ UNCHANGED <<IsFastScan, CurrentTuneStatus, statusVars, cacheVars, scan, check,
                 tunerVars, boundVars>>

\* ... or wakes up: nobody notifies the condition variable, so it can only
\* be a spurious wake-up, and the thread returns.
SpuriousWakeUp ==
  /\ pc = "wait"
  /\ ScanState' = "SCAN_STOPPED"
  /\ Goto("returned")
  /\ UNCHANGED <<IsFastScan, CurrentTuneStatus, TsList, cacheVars, scan, check,
                 tunerVars, boundVars>>

-----------------------------------------------------------------------------
(***************************************************************************)
(* ScanHome, at the start of both kinds of scan.                           *)
(***************************************************************************)
ClearCachedTables ==
  /\ pc = "clear caches"
  /\ cached' = {}
  /\ NitTableMap' = [n \in NetworkIds |-> {}]
  /\ Goto("tune home")
  /\ UNCHANGED <<IsFastScan, CurrentTuneStatus, statusVars, scan, check, tunerVars, boundVars>>

TuneHome ==
  /\ pc = "tune home"
  /\ NotifyDvbStorageTuneObserver(HomeTsFrequency)
  /\ Goto("home tuned")
  /\ UNCHANGED <<IsFastScan, statusVars, cacheVars, scan, check, boundVars>>

\* IsTuneDone polls the flag, which may still tell of an earlier tune.
CollectNit ==
  /\ pc = "home tuned"
  /\ CurrentTuneStatus
  /\ CheckTables({Nit(PreferredNetworkId)}, NIT_TIMEOUT, "nit")
  /\ UNCHANGED <<IsFastScan, CurrentTuneStatus, statusVars, cacheVars, scan, tunerVars, boundVars>>

NitCollected ==
  /\ pc = "nit"
  /\ IF check.found
       THEN /\ scan' = [scan EXCEPT !.todo = GetTsListByNetIdCache, !.tables = {}]
            /\ Goto("home sdt")
       ELSE /\ Goto("failed")
            /\ UNCHANGED scan
  /\ check' = NoCheck
  /\ UNCHANGED <<IsFastScan, CurrentTuneStatus, statusVars, cacheVars, tunerVars, boundVars>>

\* Every SDT for a fast scan, that of the home frequency for a background
\* scan; IsFastScan is read anew for each transport stream.
SelectHomeSdt ==
  /\ pc = "home sdt"
  /\ \E ts \in scan.todo :
       LET wanted == IsFastScan \/ FrequencyOf[ts] = HomeTsFrequency
       IN scan' = [scan EXCEPT
                     !.todo = IF wanted /\ ~ IsFastScan THEN {} ELSE @ \ {ts},
                     !.tables = IF wanted THEN @ \cup {Sdt(ts)} ELSE @]
  /\ UNCHANGED <<IsFastScan, CurrentTuneStatus, statusVars, cacheVars, pc, check,
                 tunerVars, boundVars>>

CollectHomeSdt ==
  /\ pc = "home sdt"
  /\ scan.todo = {}
  /\ CheckTables(scan.tables, IF IsFastScan THEN SDT_OTHER_TIMEOUT ELSE SDT_TIMEOUT,
                 "home sdt collected")
  /\ UNCHANGED <<IsFastScan, CurrentTuneStatus, statusVars, cacheVars, scan, tunerVars, boundVars>>

\* The home frequency's entry; it stays tuned.
HomeDone ==
  /\ pc = "home sdt collected"
  /\ TsList' = Append(TsList, [Frequency |-> HomeTsFrequency,
                               Status |-> SetIfFound({"SdtAcquired"})])
  /\ scan' = [scan EXCEPT !.tables = {}, !.status = NoStatus, !.fullSchedule = {}]
  /\ Goto("list")
  /\ check' = NoCheck
  /\ UNCHANGED <<IsFastScan, CurrentTuneStatus, ScanState, cacheVars, tunerVars, boundVars>>

-----------------------------------------------------------------------------
(***************************************************************************)
(* IsFastScanEnabled and IsBackgroundScanEnabled: the loop over the        *)
(* transport streams of the NIT, which may have been replaced meanwhile.   *)
(***************************************************************************)
ListTransports ==
  /\ pc = "list"
  /\ scan' = [scan EXCEPT !.todo = GetTsListByNetIdCache]
  /\ Goto("next")
  /\ UNCHANGED <<IsFastScan, CurrentTuneStatus, statusVars, cacheVars, check, tunerVars, boundVars>>

\* The NIT lists them in any order.
NextTransport(then) ==
  \E ts \in scan.todo :
    /\ scan' = [scan EXCEPT !.todo = @ \ {ts}, !.at = {ts}, !.status = NoStatus]
    /\ Goto(then)

FastNext ==
  /\ pc = "next"
  /\ scan.fast
  /\ NextTransport("tables")
  /\ UNCHANGED <<IsFastScan, CurrentTuneStatus, statusVars, cacheVars, check, tunerVars, boundVars>>

BackgroundNext ==
  /\ pc = "next"
  /\ ~ scan.fast
  /\ NextTransport("tune")
  /\ UNCHANGED <<IsFastScan, CurrentTuneStatus, statusVars, cacheVars, check, tunerVars, boundVars>>

\* A bug: the barker information is not checked.
LastTransportDoneUnchecked ==
  /\ pc = "next"
  /\ scan.todo = {}
  /\ Goto(IF scan.fast THEN "done" ELSE "clear EITs")
  /\ scan' = [scan EXCEPT !.at = {}]
  /\ UNCHANGED <<IsFastScan, CurrentTuneStatus, statusVars, cacheVars, check, tunerVars, boundVars>>

LastTransportDone ==
  /\ pc = "next"
  /\ scan.todo = {}
  /\ LET barker == ~ scan.fast /\ BarkerFrequency # 0
     IN /\ Goto(IF barker THEN "clear EITs" ELSE "done")
        /\ scan' = [scan EXCEPT !.at = {}, !.fullSchedule = IF barker THEN @ ELSE {}]
  /\ UNCHANGED <<IsFastScan, CurrentTuneStatus, statusVars, cacheVars, check, tunerVars, boundVars>>

At == CHOOSE ts \in Transports : scan.at = {ts}

\* The EITs of the services in the SDT, if it is in the cache by now.
FastTables ==
  /\ pc = "tables"
  /\ scan' = [scan EXCEPT
                !.tables = {Sdt(At)} \cup EitsOf(At, GetServiceListByTsIdCache(At), TRUE)]
  /\ Goto("skip")
  /\ UNCHANGED <<IsFastScan, CurrentTuneStatus, statusVars, cacheVars, check, tunerVars, boundVars>>

TrySkipping ==
  /\ pc = "skip"
  /\ IsFastScan
  /\ CheckTables(scan.tables, 0, "skip tried")
  /\ UNCHANGED <<IsFastScan, CurrentTuneStatus, statusVars, cacheVars, scan, tunerVars, boundVars>>

Skip ==
  /\ pc = "skip tried"
  /\ check.found
  /\ scan' = [scan EXCEPT !.tables = {}, !.status = SetIfFound({"SdtAcquired", "EitPfAcquired"})]
  /\ Goto("add")
  /\ check' = NoCheck
  /\ UNCHANGED <<IsFastScan, CurrentTuneStatus, statusVars, cacheVars, tunerVars, boundVars>>

FastTune ==
  /\ \/ pc = "skip" /\ ~ IsFastScan
     \/ pc = "skip tried" /\ ~ check.found
  /\ NotifyDvbStorageTuneObserver(FrequencyOf[At])
  /\ Goto("fast tuned")
  /\ check' = NoCheck
  /\ UNCHANGED <<IsFastScan, statusVars, cacheVars, scan, boundVars>>

\* Without waiting for the tune to be done.
CollectFast ==
  /\ pc = "fast tuned"
  /\ CheckTables(scan.tables,
                 IF SDT_TIMEOUT > EIT_PF_TIMEOUT THEN SDT_TIMEOUT ELSE EIT_PF_TIMEOUT,
                 "fast collected")
  /\ UNCHANGED <<IsFastScan, CurrentTuneStatus, statusVars, cacheVars, scan, tunerVars, boundVars>>

FastCollected ==
  /\ pc = "fast collected"
  /\ scan' = [scan EXCEPT !.tables = {}, !.status = SetIfFound({"SdtAcquired", "EitPfAcquired"})]
  /\ Goto("untune")
  /\ check' = NoCheck
  /\ UNCHANGED <<IsFastScan, CurrentTuneStatus, statusVars, cacheVars, tunerVars, boundVars>>

\* A bug: the transport stream is not tuned to.
BackgroundTuneForgotten ==
  /\ pc = "tune"
  /\ Goto("tuned")
  /\ UNCHANGED <<IsFastScan, CurrentTuneStatus, statusVars, cacheVars, scan, check,
                 tunerVars, boundVars>>

BackgroundTune ==
  /\ pc = "tune"
  /\ NotifyDvbStorageTuneObserver(FrequencyOf[At])
  /\ Goto("tuned")
  /\ UNCHANGED <<IsFastScan, statusVars, cacheVars, scan, check, boundVars>>

CollectSdt ==
  /\ pc = "tuned"
  /\ CurrentTuneStatus
  /\ CheckTables({Sdt(At)}, SDT_TIMEOUT, "sdt collected")
  /\ UNCHANGED <<IsFastScan, CurrentTuneStatus, statusVars, cacheVars, scan, tunerVars, boundVars>>

\* Whether the SDT was found or not, the services are looked up next, and an
\* empty list of EITs is found at once.
CollectEitPf ==
  /\ pc = "sdt collected"
  /\ LET services == GetServiceListByTsIdCache(At)
     IN /\ scan' = [scan EXCEPT !.status = SetIfFound({"SdtAcquired"}),
                                !.schedule = EitsOf(At, services, FALSE),
                                !.fullSchedule = @ \cup EitsOf(At, services, FALSE)]
        /\ CheckTables(EitsOf(At, services, TRUE), EIT_PF_TIMEOUT, "eit pf collected")
  /\ UNCHANGED <<IsFastScan, CurrentTuneStatus, statusVars, cacheVars, tunerVars, boundVars>>

\* No schedule is collected on the barker frequency.
CollectSchedule ==
  /\ pc = "eit pf collected"
  /\ scan' = [scan EXCEPT !.status = SetIfFound({"EitPfAcquired"})]
  /\ IF FrequencyOf[At] # BarkerFrequency
       THEN CheckTables(scan.schedule, EIT_8_DAY_SCHED_TIMEOUT, "schedule collected")
       ELSE Goto("untune") /\ check' = NoCheck
  /\ UNCHANGED <<IsFastScan, CurrentTuneStatus, statusVars, cacheVars, tunerVars, boundVars>>

ScheduleCollected ==
  /\ pc \in {"schedule collected", "barker collected"}
  /\ scan' = [scan EXCEPT !.status = SetIfFound({"EitAcquired"})]
  /\ Goto("untune")
  /\ check' = NoCheck
  /\ UNCHANGED <<IsFastScan, CurrentTuneStatus, statusVars, cacheVars, tunerVars, boundVars>>

\* Sitting on the barker frequency: only it carries the whole schedule.
ClearEits ==
  /\ pc = "clear EITs"
  /\ cached' = {t \in cached : t.kind # "EIT"}
  /\ scan' = [scan EXCEPT !.status = NoStatus]
  /\ Goto("tune barker")
  /\ UNCHANGED <<IsFastScan, CurrentTuneStatus, statusVars, NitTableMap, check, tunerVars, boundVars>>

TuneBarker ==
  /\ pc = "tune barker"
  /\ NotifyDvbStorageTuneObserver(BarkerFrequency)
  /\ Goto("barker tuned")
  /\ UNCHANGED <<IsFastScan, statusVars, cacheVars, scan, check, boundVars>>

CollectBarker ==
  /\ pc = "barker tuned"
  /\ CurrentTuneStatus
  /\ \E timeout \in BarkerEitTimouts :
       CheckTables(scan.fullSchedule, timeout, "barker collected")
  /\ UNCHANGED <<IsFastScan, CurrentTuneStatus, statusVars, cacheVars, scan, tunerVars, boundVars>>

\* NotifyDvbStorageUnTuneObserver resets the flag, then calls the observer.
ResetTuneStatus ==
  /\ pc = "untune"
  /\ CurrentTuneStatus' = FALSE
  /\ Goto("call untune")
  /\ UNCHANGED <<IsFastScan, statusVars, cacheVars, scan, check, tunerVars, boundVars>>

UnTune ==
  /\ pc = "call untune"
  /\ tuner' = [target |-> NoFrequency, locked |-> FALSE]
  /\ Goto("add")
  /\ UNCHANGED <<IsFastScan, CurrentTuneStatus, statusVars, cacheVars, scan, check,
                 signal, reports, boundVars>>

AddToReport ==
  /\ pc = "add"
  /\ TsList' = Append(TsList, [Frequency |-> IF scan.at = {} THEN BarkerFrequency ELSE FrequencyOf[At],
                               Status |-> scan.status])
  /\ scan' = [scan EXCEPT !.status = NoStatus, !.schedule = {},
                          !.fullSchedule = IF scan.at = {} THEN {} ELSE @]
  /\ Goto(IF scan.at = {} THEN "done" ELSE "next")
  /\ UNCHANGED <<IsFastScan, CurrentTuneStatus, ScanState, cacheVars, check,
                 tunerVars, boundVars>>

-----------------------------------------------------------------------------
(***************************************************************************)
(* CheckCacheTableCollections: the tables are looked up one by one, each   *)
(* under the mutex of its own; when one is missing the thread sleeps and   *)
(* starts again with all of them.                                          *)
(***************************************************************************)
\* A bug: a table that is missing counts as found.
LookUpAny(t) ==
  /\ pc = "check"
  /\ t \in check.left
  /\ check' = [check EXCEPT !.left = @ \ {t}]
  /\ UNCHANGED pc

LookUp(t) ==
  /\ pc = "check"
  /\ t \in check.left \cap cached
  /\ check' = [check EXCEPT !.left = @ \ {t}]
  /\ UNCHANGED pc

AllFound ==
  /\ pc = "check"
  /\ check.left = {}
  /\ check' = [check EXCEPT !.found = TRUE]
  /\ Goto(check.then)

Missing(t) == pc = "check" /\ t \in check.left \ cached

Retry(t) ==
  /\ Missing(t)
  /\ check.timeout > 0
  /\ check' = [check EXCEPT !.left = check.tables, !.timeout = @ - 1]
  /\ UNCHANGED pc

GiveUp(t) ==
  /\ Missing(t)
  /\ check.timeout = 0
  /\ InTime /\ tuner.target # NoFrequency => t \notin Carries[tuner.target]
  /\ check' = [check EXCEPT !.left = {}]
  /\ Goto(check.then)

CheckCacheTableCollections ==
  /\ AllFound \/ \E t \in check.left : LookUp(t) \/ Retry(t) \/ GiveUp(t)
  /\ UNCHANGED <<IsFastScan, CurrentTuneStatus, statusVars, cacheVars, scan, tunerVars, boundVars>>

-----------------------------------------------------------------------------
(***************************************************************************)
(* The other actors.                                                       *)
(***************************************************************************)

\* HandleTableEvent, on the thread that parses sections: the table goes into
\* its map.  Sections of a frequency may be on their way when it is left.
HandleTableEvent(t) ==
  /\ signal # NoFrequency
  /\ t \in Carries[signal]
  /\ t.kind = "NIT" => PreferredNetworkId \in {0, t.id}
  /\ cached' = cached \cup {t}
  /\ IF t.kind = "NIT"
       THEN \E S \in NitLists : NitTableMap' = [NitTableMap EXCEPT ![t.id] = S]
       ELSE UNCHANGED NitTableMap
  /\ UNCHANGED <<IsFastScan, CurrentTuneStatus, statusVars, threadVars, tunerVars, boundVars>>

\* The tuner finds its signal and will say so.
Lock ==
  /\ tuner.target # NoFrequency
  /\ ~ tuner.locked
  /\ Len(reports) < MaxReports
  /\ tuner' = [tuner EXCEPT !.locked = TRUE]
  /\ signal' = tuner.target
  /\ reports' = Append(reports, TRUE)
  /\ UNCHANGED <<IsFastScan, CurrentTuneStatus, statusVars, cacheVars, threadVars, boundVars>>

LoseLock ==
  /\ tuner.locked
  /\ losses < MaxLosses
  /\ Len(reports) < MaxReports
  /\ losses' = losses + 1
  /\ tuner' = [tuner EXCEPT !.locked = FALSE]
  /\ reports' = Append(reports, FALSE)
  /\ UNCHANGED <<IsFastScan, CurrentTuneStatus, statusVars, cacheVars, threadVars, signal, requests>>

\* The application passes the tuner's reports on in their order.
UpdateTuneStatus ==
  /\ reports # << >>
  /\ CurrentTuneStatus' = Head(reports)
  /\ reports' = Tail(reports)
  /\ UNCHANGED <<IsFastScan, statusVars, cacheVars, threadVars, tuner, signal, boundVars>>

UpdateScanType(isFastScan) ==
  /\ requests < MaxRequests
  /\ requests' = requests + 1
  /\ IsFastScan' = isFastScan
  /\ UNCHANGED <<CurrentTuneStatus, statusVars, cacheVars, threadVars, tunerVars, losses>>

-----------------------------------------------------------------------------
ScanThread ==
  \/ Top \/ ClearReport \/ FastScanDone \/ BackgroundScanDone \/ ScanFailed \/ NextScan
  \/ ClearCachedTables \/ TuneHome \/ CollectNit \/ NitCollected \/ SelectHomeSdt
  \/ CollectHomeSdt \/ HomeDone
  \/ ListTransports \/ FastNext \/ BackgroundNext \/ LastTransportDone
  \/ FastTables \/ TrySkipping \/ Skip \/ FastTune \/ CollectFast \/ FastCollected
  \/ BackgroundTune \/ CollectSdt \/ CollectEitPf \/ CollectSchedule \/ ScheduleCollected
  \/ ClearEits \/ TuneBarker \/ CollectBarker
  \/ ResetTuneStatus \/ UnTune \/ AddToReport
  \/ CheckCacheTableCollections

ScanNext ==
  \/ ScanThread
  \/ SpuriousWakeUp
  \/ \E t \in Tables : HandleTableEvent(t)
  \/ Lock \/ LoseLock \/ UpdateTuneStatus
  \/ \E isFastScan \in BOOLEAN : UpdateScanType(isFastScan)

ScanSpec == ScanInit /\ [][ScanNext]_scanVars

\* The operating system runs the scan thread, the tuner finds the signal of
\* a frequency it stays on, and the application passes its reports on.
FairScanSpec ==
  /\ ScanSpec
  /\ WF_scanVars(ScanThread)
  /\ WF_scanVars(Lock)
  /\ WF_scanVars(UpdateTuneStatus)

\* And the tables sent on a frequency arrive while it is received.
GoodReceptionSpec ==
  FairScanSpec /\ \A t \in Tables : WF_scanVars(HandleTableEvent(t))

-----------------------------------------------------------------------------
(***************************************************************************)
(* Properties.                                                             *)
(***************************************************************************)

\* Type invariant.
TypeOK ==
  /\ IsFastScan \in BOOLEAN /\ CurrentTuneStatus \in BOOLEAN
  /\ TsList \in Seq(Entry)
  /\ cached \subseteq Tables
  /\ NitTableMap \in [NetworkIds -> SUBSET Transports]
  /\ tuner \in [target: Frequencies \cup {NoFrequency}, locked: BOOLEAN]
  /\ check.left \subseteq check.tables

\* When CheckCacheTableCollections returns true, all the tables it was asked
\* for are in the caches, although it looked them up one by one and let go
\* of the mutex in between.
FoundIsCached ==
  pc = check.then /\ check.found => check.tables \subseteq cached

SdtIsCached(frequency) ==
  \E ts \in Transports : FrequencyOf[ts] = frequency /\ Sdt(ts) \in cached

\* Where the scan thread has set SdtAcquired, the caches have the SDT for as
\* long as the report stands: the old report goes before the old tables, and
\* tables are only ever added while a report grows.
AcquiredSdtIsCached ==
  \A i \in 2..Len(TsList) :
    "SdtAcquired" \in TsList[i].Status => SdtIsCached(TsList[i].Frequency)

\* What an application that polls the status sees is a report in the sense
\* of module ScanReport: it is complete in SCAN_COMPLETED, fast scans do not
\* complete, no entry is ever changed or lost, and every scan ends.
StatusReport == INSTANCE ScanReport WITH Entries <- Entry

StatusIsReport == StatusReport!ReportSpec
EveryScanEnds == StatusReport!ReportEnds

\* With good reception every transport stream in the report of a completed
\* scan has all its tables, the schedules from the barker frequency included,
\* and its flags have been set.
AllAcquired ==
  ScanState = "SCAN_COMPLETED" =>
    \A i \in 2..Len(TsList) :
      IF TsList[i].Frequency = BarkerFrequency
        THEN "EitAcquired" \in TsList[i].Status
        ELSE TsList[i].Status = Flags

\* With good reception scans complete, again and again, unless the thread
\* was stopped.  The comment in HandleTableEvent wants NITs "from preferred
\* Network if specified": it need not be specified.
ScansComplete == []<>(ScanState \in {"SCAN_COMPLETED", "SCAN_STOPPED"})

EitsAreCached(frequency) ==
  \E ts \in Transports :
    FrequencyOf[ts] = frequency /\ EitsOf(ts, ServicesOf[ts], TRUE) \subseteq cached

\* The scan functions "collect SDTa & EITa pf" of a transport stream and log
\* what was "not received".  Of one of which neither the SDT nor the EITs were
\* received not both are reported: either no application reads SdtAcquired, or
\* the thread has not set EitPfAcquired.
MissingIsNotReported ==
  \A i \in 2..Len(TsList) :
    LET entry == TsList[i]
    IN \/ SdtIsCached(entry.Frequency)
       \/ EitsAreCached(entry.Frequency)
       \/ \A reading \in Readings(entry.Status) : ~ reading["SdtAcquired"]
       \/ "EitPfAcquired" \notin entry.Status

=============================================================================
