-------------------------- MODULE ParserAndStorage --------------------------
(***************************************************************************)
(* The section parser and the storage's table caches behind it: the        *)
(* application passes every table of its SendEvent on to HandleTableEvent, *)
(* and tunes when the storage asks for it.  Only HandleTableEvent's cache  *)
(* half is here; SiStorageDb has the other.                                *)
(*                                                                         *)
(* The parser tells sub-tables apart by table id and extension, a cache by *)
(* the ids in the table, so that neither can be had from the other.  A     *)
(* sub-table may be announced under its next version while the present one *)
(* is still sent.  The application makes a new parser whenever it tunes,   *)
(* or keeps one: TSectionParser cannot be reset.                           *)
(***************************************************************************)
EXTENDS Broadcast, Functions

CONSTANTS
  Programmes,          \* the sets of sub-tables that may be on air together
  Frequencies,         \* where they are sent
  SentOn,              \* the frequencies of each
  Announced,           \* those that are announced before they change
  Origin,              \* original network and transport stream in its payload
  Home,                \* the home transport stream's frequency
  Barker,              \* the frequency with the schedules
  PreferredNetworkId,  \* 0 for none
  MaxRequests          \* bound on the scan thread's requests

\* On one frequency, table id and extension tell two sub-tables apart.
OneKeyPerFrequency(programme) ==
  \A st1, st2 \in programme :
    SubTableKey(st1) = SubTableKey(st2) /\ SentOn[st1] \cap SentOn[st2] # {}
      => st1 = st2

\* Versions are few enough not to repeat; see Carousel for those that do.
ASSUME FeedAssumption ==
  /\ Programmes \subseteq SUBSET SubTables
  /\ \A programme \in Programmes : OneKeyPerFrequency(programme)
  /\ SentOn \in [SubTables -> SUBSET Frequencies]
  /\ Announced \subseteq {st \in SubTables : ~ IsEit(SubTableId[st])}
  /\ Origin \in [SubTables -> Word \X Word]
  /\ {Home, Barker} \subseteq Frequencies
  /\ PreferredNetworkId \in Word
  /\ \A st \in SubTables : MaxGeneration[st] < 32
  /\ MaxRequests \in Nat

VARIABLES
  onAir,    \* generation and section numbers of each sub-table of the
            \* programme, and the layout announced for the next generation
  cursor,   \* the section of each to be sent next, on the frequency tuned to
  tuned,    \* the frequency
  renews,   \* the application makes a new parser when it tunes
  cache,    \* the four maps, as one: from keys to tables
  given,    \* the generation of each sub-table delivered last; 0: none yet
  requests  \* the requests made, and where to tune after a clearing

receptionVars == <<onAir, cursor, tuned, renews>>
feedVars == <<parserVars, receptionVars, cache, given, requests>>

OnAirNow == DOMAIN onAir
Received == {st \in OnAirNow : tuned \in SentOn[st]}

-----------------------------------------------------------------------------
(***************************************************************************)
(* HandleTableEvent's cache half.                                          *)
(***************************************************************************)

\* NitTableMap's, SdtTableMap's, BatTableMap's and EitTableMap's keys.
CacheKey(id, ext, origin) ==
  CASE id \in {NIT, NIT_OTHER} -> <<"nit", ext>>
    [] id \in {SDT, SDT_OTHER} -> <<"sdt", origin[1], ext>>
    [] id = BAT                -> <<"bat", ext>>
    [] IsEit(id)               -> <<"eit", origin, ext, id \in {EIT_PF, EIT_PF + 1}>>

KeyOfSubTable(st) == CacheKey(SubTableId[st], SubTableExt[st], Origin[st])

\* A bug: network and transport stream are swapped.
KeyOfTableSwapped(t) ==
  CacheKey(t.TableId, t.Ext, <<Origin[t.Content[1].of][2], Origin[t.Content[1].of][1]>>)

\* A table's ids are those in its first section.
KeyOfTable(t) == CacheKey(t.TableId, t.Ext, Origin[t.Content[1].of])

IsHandled(t) ==
  t.TableId \in {NIT, NIT_OTHER} => PreferredNetworkId \in {0, t.Ext}

\* A bug: what is in the cache stays there.
StoreOnce(map, t) ==
  IF KeyOfTable(t) \in DOMAIN map THEN map
  ELSE [k \in DOMAIN map \cup {KeyOfTable(t)} |->
          IF k = KeyOfTable(t) THEN t ELSE map[k]]

\* An entry of the same version is left alone.
Store(map, t) ==
  LET key == KeyOfTable(t)
  IN IF key \in DOMAIN map /\ map[key].Version = t.Version THEN map
     ELSE [k \in DOMAIN map \cup {key} |-> IF k = key THEN t ELSE map[k]]

HandleTableEvent(t) ==
  /\ cache' = IF IsHandled(t) THEN Store(cache, t) ELSE cache
  /\ given' = [given EXCEPT ![t.Content[1].of] = t.Content[1].gen]

\* A section reaches the parser and a table, if it completes one, the cache.
Deliver(s) ==
  /\ ParseSiData(s)
  /\ \/ sent' = {} /\ UNCHANGED <<cache, given>>
     \/ \E m \in sent' : HandleTableEvent(m.table)
  /\ UNCHANGED requests

-----------------------------------------------------------------------------
FeedInit ==
  /\ m_sectionMap = [k \in Keys |-> NewList]
  /\ ObserverVector = [o \in Observers |-> IF o = Application THEN 1 ELSE 0]
  /\ sent = {}
  /\ \E programme \in Programmes :
       onAir \in {f \in [programme -> [gen: {1}, numbers: UNION {Layouts[st] : st \in programme},
                                       announced: {{}}]] :
                    \A st \in programme : f[st].numbers \in Layouts[st]}
  /\ cursor = [st \in OnAirNow |-> Smallest(onAir[st].numbers)]
  /\ tuned = Home
  /\ renews \in BOOLEAN
  /\ cache = << >>
  /\ given = [st \in OnAirNow |-> 0]
  /\ requests = [made |-> 0, next |-> {}]

NothingReceived == sent' = {} /\ UNCHANGED <<m_sectionMap, ObserverVector>>

\* The next section of the present table.
Receive(st) ==
  /\ st \in Received
  /\ \E s \in {SectionOnAir(st, onAir[st].gen, onAir[st].numbers, cursor[st], TRUE)} :
       Deliver(s)
  /\ cursor' = [cursor EXCEPT ![st] = Following(onAir[st].numbers, @)]
  /\ UNCHANGED <<onAir, tuned, renews>>

\* A section of the table announced: CurrentNextIndicator is not set.
ReceiveNext(st) ==
  /\ st \in Received
  /\ \E n \in onAir[st].announced :
       \E s \in {SectionOnAir(st, onAir[st].gen + 1, onAir[st].announced, n, FALSE)} :
         Deliver(s)
  /\ UNCHANGED receptionVars

Announce(st) ==
  /\ st \in Announced
  /\ onAir[st].gen < MaxGeneration[st]
  /\ onAir[st].announced = {}
  /\ \E S \in Layouts[st] : onAir' = [onAir EXCEPT ![st].announced = S]
  /\ NothingReceived
  /\ UNCHANGED <<cursor, tuned, renews, cache, given, requests>>

\* The next version becomes the present one, as announced if it was.  Which
\* of its sections comes first is seen by a receiver of it only.
NewVersion(st) ==
  /\ onAir[st].gen < MaxGeneration[st]
  /\ \E S \in Layouts[st] :
       /\ onAir[st].announced \in {{}, S}
       /\ onAir' = [onAir EXCEPT ![st] =
                      [gen |-> @.gen + 1, numbers |-> S, announced |-> {}]]
       /\ \E n \in S :
            /\ st \in Received \/ n = Smallest(S)
            /\ cursor' = [cursor EXCEPT ![st] = n]
  /\ NothingReceived
  /\ UNCHANGED <<tuned, renews, cache, given, requests>>

-----------------------------------------------------------------------------
(***************************************************************************)
(* The scan thread's requests.                                             *)
(***************************************************************************)

RenewParser ==
  m_sectionMap' = IF renews THEN [k \in Keys |-> NewList] ELSE m_sectionMap

\* The observer tunes and meets each cycle anywhere.
Tune(f) ==
  /\ tuned' = f
  /\ RenewParser
  /\ cursor' \in {c \in [OnAirNow -> UNION {onAir[st].numbers : st \in OnAirNow}] :
                    \A st \in OnAirNow :
                      IF f \in SentOn[st] THEN c[st] \in onAir[st].numbers
                      ELSE c[st] = Smallest(onAir[st].numbers)}
  /\ sent' = {}
  /\ UNCHANGED <<ObserverVector, onAir, renews, cache, given>>

Request(next) ==
  /\ requests.next = {}
  /\ requests.made < MaxRequests
  /\ requests' = [made |-> requests.made + 1, next |-> next]

\* ScanHome clears the caches, and then tunes to the home transport stream.
ClearCachedTables ==
  /\ Request({Home})
  /\ cache' = << >>
  /\ NothingReceived
  /\ UNCHANGED <<receptionVars, given>>

\* Before the barker's schedules are collected EitTableMap is cleared.
ClearEits ==
  /\ Request({Barker})
  /\ cache' = Restrict(cache, {k \in DOMAIN cache : k[1] # "eit"})
  /\ NothingReceived
  /\ UNCHANGED <<receptionVars, given>>

TuneCleared ==
  /\ \E f \in requests.next : Tune(f)
  /\ requests' = [requests EXCEPT !.next = {}]

\* The other frequencies are visited in the course of a scan.
TuneNext == Request({}) /\ \E f \in Frequencies : Tune(f)

Next ==
  \/ \E st \in OnAirNow : Receive(st) \/ ReceiveNext(st) \/ Announce(st) \/ NewVersion(st)
  \/ ClearCachedTables \/ ClearEits \/ TuneCleared \/ TuneNext

FeedSpec == FeedInit /\ [][Next]_feedVars

\* The broadcaster goes on sending, and what it has announced becomes true.
\* The application tunes when it is asked to.
FairFeedSpec ==
  /\ FeedSpec
  /\ \A st \in SubTables :
       /\ WF_feedVars(st \in OnAirNow /\ Receive(st))
       /\ WF_feedVars(st \in OnAirNow /\ onAir[st].announced # {} /\ NewVersion(st))
  /\ WF_feedVars(TuneCleared)

-----------------------------------------------------------------------------
(***************************************************************************)
(* Properties.                                                             *)
(***************************************************************************)

\* No other sub-table on air looks the same to the parser, or to the cache.
AloneInParser(st) ==
  \A other \in OnAirNow : SubTableKey(other) = SubTableKey(st) => other = st

AloneInCache(st) ==
  \A other \in OnAirNow : KeyOfSubTable(other) = KeyOfSubTable(st) => other = st

\* The type invariant of what is added to the parser.
FeedTypeOK ==
  /\ OnAirNow \in Programmes
  /\ \A st \in OnAirNow :
       /\ onAir[st].gen \in 1..MaxGeneration[st]
       /\ onAir[st].numbers \in Layouts[st]
       /\ onAir[st].announced \in Layouts[st] \cup {{}}
       /\ cursor[st] \in onAir[st].numbers
       /\ given[st] \in 0..onAir[st].gen + 1
  /\ DOMAIN cache \subseteq {KeyOfSubTable(st) : st \in OnAirNow}
  /\ tuned \in Frequencies
  /\ requests \in [made: 0..MaxRequests, next: {{}, {Home}, {Barker}}]

\* Every cached table is filed under its own sub-table's key and is one
\* generation of it, whole, announced tables included.  An application that
\* keeps its parser while it tunes has no promise that it is whole of a
\* sub-table that the parser cannot tell from another, nor of an EIT, which
\* it may leave in one place of the cycle and join in another.
CachedWhole ==
  \A key \in DOMAIN cache :
    LET content == cache[key].Content
        st == content[1].of
    IN /\ KeyOfSubTable(st) = key
       /\ renews \/ (AloneInParser(st) /\ ~ IsEit(SubTableId[st])) => IsWhole(content)

\* A table that the cache takes for known because of its version is known:
\* whatever was delivered is in the cache after it, unless a second table id
\* shares its entry there.
DeliveredIsCached ==
  [][\A m \in sent' :
       LET st == m.table.Content[1].of
       IN /\ IsHandled(m.table)
          /\ AloneInCache(st)
          /\ renews \/ AloneInParser(st)
          => /\ KeyOfTable(m.table) \in DOMAIN cache'
             /\ cache'[KeyOfTable(m.table)].Content = m.table.Content
    ]_feedVars

\* With a parser that is kept, a table cleared from the cache comes back in
\* another generation only, however long it stays on air: unless sections of
\* the next one have come between its own.
KeptParserNeverRefills ==
  [][\A key \in DOMAIN cache' \ DOMAIN cache :
       LET content == cache'[key].Content
           st == content[1].of
       IN ~ renews /\ AloneInParser(st) /\ st \notin Announced => content[1].gen # given[st]
    ]_feedVars

\* With a new parser at every tune the caches fill again, however they were
\* cleared and whenever the versions change, with what the frequency carries
\* in the generation then on air.
Refilled(st) ==
  /\ KeyOfSubTable(st) \in DOMAIN cache
  /\ AloneInCache(st) => cache[KeyOfSubTable(st)].Content[1].gen = onAir[st].gen

RefilledByNewParser ==
  \A st \in SubTables :
    <>[](/\ renews
         /\ st \in Received
         /\ SubTableId[st] \in {NIT, NIT_OTHER} => PreferredNetworkId \in {0, SubTableExt[st]}
         => Refilled(st))

=============================================================================
