----------------------------- MODULE SiStorageDb -----------------------------
(***************************************************************************)
(* The half of TDvbSiStorage's table handlers that keeps the database:     *)
(* ProcessNitEventDb, ProcessSdtEventDb, ProcessBatEventDb and             *)
(* ProcessEitEventDb.  A handler is an operator on a database session      *)
(* (module DvbDb); the process may die between any two of its commits.     *)
(*                                                                         *)
(* Around them are a broadcaster, whose sub-tables change their version    *)
(* now and then, and the section parser, which delivers a version of a     *)
(* sub-table once in the life of the process.                              *)
(***************************************************************************)
EXTENDS DvbDb

CONSTANTS
  SubTables,           \* the sub-tables on air
  Contents,            \* the versions of each, a sequence of tables
  PreferredNetworkId,  \* 0 for none
  MaxStarts            \* bound on restarts of the process, crashes included

VARIABLES
  tables,     \* the database
  lastRowId,  \* last_insert_rowid of the connection
  onAir,      \* the version each sub-table is broadcast with
  heard,      \* the version the running process was given last, 0 for none
  restarts,   \* how often the process ended between two tables
  crashes     \* and within the handler of one

vars == <<tables, lastRowId, onAir, heard, restarts, crashes>>

\* The loops of the tables.
IsSeq(items) == items \in Seq(ToSet(items))

Descriptive(items) == IsSeq(items) /\ \A item \in ToSet(items) : IsSeq(item.descriptors)

IsTable(table) ==
  \/ table.kind \in {"nit", "bat"} /\ IsSeq(table.descriptors) /\ Descriptive(table.transports)
  \/ table.kind = "sdt" /\ Descriptive(table.services)
  \/ /\ table.kind = "eit" /\ Descriptive(table.events)
     /\ \A event \in ToSet(table.events) : IsSeq(event.items)

ContentsAssumption ==
  /\ \A st \in SubTables :
       /\ IsSeq(Contents[st]) /\ Contents[st] # << >>
       /\ \A v \in DOMAIN Contents[st] :
            IsTable(Contents[st][v]) /\ Contents[st][v].version = v
  /\ MaxStarts \in Nat

ASSUME ContentsAssumption

\* A sub-table is known by its kind and its ids, and a service of an SDT by its
\* id: no two sub-tables on air share them, no two services of an SDT do.
SameSubTable(table, other) ==
  /\ table.kind = other.kind
  /\ \/ table.kind = "nit" /\ table.network = other.network
     \/ table.kind = "bat" /\ table.bouquet = other.bouquet
     \/ table.kind = "sdt" /\ table.onid = other.onid /\ table.tsid = other.tsid

DistinctAssumption ==
  \A st \in SubTables : \A v \in DOMAIN Contents[st] :
    /\ \A other \in SubTables \ {st} : \A w \in DOMAIN Contents[other] :
         ~ SameSubTable(Contents[st][v], Contents[other][w])
    /\ Contents[st][v].kind = "sdt" =>
         \A a, b \in ToSet(Contents[st][v].services) : a.id = b.id => a = b

ASSUME DistinctAssumption

Broadcast(st) == Contents[st][onAir[st]]

-----------------------------------------------------------------------------
(***************************************************************************)
(* NIT.                                                                    *)
(***************************************************************************)
TransportId(onid, tsid) == [original_network_id |-> onid, transport_id |-> tsid]

ProcessNetwork(s, nit) ==
  Insert(s, "Network", [network_id |-> nit.network, version |-> nit.version])

ProcessTransport(s, ts, network_fk) ==
  Insert(s, "Transport",
         [original_network_id |-> ts.onid, transport_id |-> ts.tsid,
          network_fk |-> network_fk, bouquet_fk |-> NULL, frequency |-> ts.frequency])

\* A transport stream of the NIT; network_fk is -1 in the code, here 0, for
\* the transport streams of a NIT already known.
StoreNitTransport(s, ts, nit_fk, network_fk) ==
  LET known == FindPrimaryKey(s, "NitTransport", TransportId(ts.onid, ts.tsid))
      inserted == Insert(s, "NitTransport",
                         [original_network_id |-> ts.onid, transport_id |-> ts.tsid,
                          nit_fk |-> nit_fk])
      parsed == IF network_fk > 0 THEN ProcessTransport(inserted, ts, network_fk)
                ELSE inserted
  IN IF known > 0
       THEN InsertDescriptor(s, "NitTransportDescriptor", known, ts.descriptors)
       ELSE InsertDescriptor(parsed, "NitTransportDescriptor",
                             inserted.lastRowId, ts.descriptors)

EachNitTransport ==
  INSTANCE Loop WITH
    Body <- LAMBDA s, of, ts : StoreNitTransport(s, ts, of.nit_fk, of.network_fk)

StoreNit(s, nit, nit_fk, network_fk) ==
  EachNitTransport!Run(InsertDescriptor(s, "NitDescriptor", nit_fk, nit.descriptors),
                       [nit_fk |-> nit_fk, network_fk |-> network_fk], nit.transports)

\* A bug: a new version replaces the raw NIT only.
ProcessNitEventDbRaw(s, nit) ==
  LET nit_fk == FindPrimaryKey(s, "Nit", [network_id |-> nit.network])
      d1 == Delete(s, "Nit", {nit_fk})
      d2 == Prune(d1, "NitTransport", "nit_fk", "Nit")
      d3 == IF nit_fk > 0 /\ s.tables["Nit"][nit_fk].version # nit.version THEN d2 ELSE s
      inserted == Insert(d3, "Nit", [network_id |-> nit.network, version |-> nit.version])
      named == ProcessNetwork(inserted, nit)
  IN IF d3 = s /\ nit_fk > 0 THEN StoreNit(s, nit, nit_fk, 0)
     ELSE StoreNit(named, nit, inserted.lastRowId, named.lastRowId)

\* A new version of a NIT empties the database and is not stored itself.
ProcessNitEventDb(s, nit) ==
  LET nit_fk == FindPrimaryKey(s, "Nit", [network_id |-> nit.network])
      inserted == Insert(s, "Nit", [network_id |-> nit.network, version |-> nit.version])
      named == ProcessNetwork(inserted, nit)
  IN IF nit_fk = 0 THEN StoreNit(named, nit, inserted.lastRowId, named.lastRowId)
     ELSE IF s.tables["Nit"][nit_fk].version = nit.version THEN StoreNit(s, nit, nit_fk, 0)
     ELSE CreateTables(DropTables(s))

-----------------------------------------------------------------------------
(***************************************************************************)
(* SDT.                                                                    *)
(***************************************************************************)
NitTransports(s, table) ==
  Matching(s, "NitTransport", TransportId(table.onid, table.tsid))

Transports(s, table) ==
  Matching(s, "Transport", TransportId(table.onid, table.tsid))

\* The rows of a service, by the joins with NitTransport and Transport.
SdtRows(s, sdt, service) ==
  {id \in Matching(s, "Sdt", [service_id |-> service.id]) :
     s.tables["Sdt"][id].nit_transport_fk \in NitTransports(s, sdt)}

ServiceRows(s, sdt, service) ==
  {id \in Matching(s, "Service", [service_id |-> service.id]) :
     s.tables["Service"][id].transport_fk \in Transports(s, sdt)}

OtherVersion(s, t, ids, version) == {id \in ids : s.tables[t][id].version # version}

EventsOf(s, t, sdt, service) ==
  Matching(s, t, [network_id |-> sdt.onid, transport_id |-> sdt.tsid,
                  service_id |-> service.id])

\* With a new version of its SDT a service goes, and its events with it.
DropService(s, sdt, service) ==
  LET d1 == Delete(TTransaction(s), "Service",
                   OtherVersion(s, "Service", ServiceRows(s, sdt, service), sdt.version))
      d2 == Prune(d1, "ServiceComponent", "fkey", "Service")
      d3 == Delete(d2, "Event", EventsOf(d2, "Event", sdt, service))
      d4 == Prune(d3, "EventItem", "event_fk", "Event")
  IN CommitSqlStatements(s, Prune(d4, "EventComponent", "fkey", "Event"))

\* A bug: a service that is known is not looked at again.
StoreServiceOnce(s, sdt, service, transport_fk) ==
  IF ServiceRows(s, sdt, service) # {} THEN s
  ELSE Insert(s, "Service",
              [service_id |-> service.id, transport_fk |-> transport_fk,
               version |-> sdt.version, service_name |-> service.name])

StoreService(s, sdt, service, transport_fk) ==
  LET found == LastKey(ServiceRows(s, sdt, service))
      current == IF found > 0 /\ s.tables["Service"][found].version # sdt.version
                   THEN DropService(s, sdt, service)
                   ELSE s
  IN InsertComponent(
       IF ServiceRows(current, sdt, service) # {} THEN current
       ELSE Insert(current, "Service",
                   [service_id |-> service.id, transport_fk |-> transport_fk,
                    version |-> sdt.version, service_name |-> service.name]),
       "Service")

EachParsedService ==
  INSTANCE Loop WITH
    Body <- LAMBDA s, of, service : StoreService(s, of.sdt, service, of.transport_fk)

ProcessService(s, sdt) ==
  LET transport_fk == LastKey(Transports(s, sdt))
  IN IF transport_fk = 0 THEN s
     ELSE EachParsedService!Run(s, [sdt |-> sdt, transport_fk |-> transport_fk],
                                sdt.services)

\* A bug: the descriptors of the old version stay.
DropSdtOnly(s, sdt, service) ==
  CommitSqlStatements(
    s, Delete(TTransaction(s), "Sdt",
              OtherVersion(s, "Sdt", SdtRows(s, sdt, service), sdt.version)))

DropSdt(s, sdt, service) ==
  LET d1 == Delete(TTransaction(s), "Sdt",
                   OtherVersion(s, "Sdt", SdtRows(s, sdt, service), sdt.version))
      d2 == Prune(d1, "SdtDescriptor", "fkey", "Sdt")
      d3 == Delete(d2, "Eit", EventsOf(d2, "Eit", sdt, service))
  IN CommitSqlStatements(s, Prune(d3, "EitDescriptor", "fkey", "Eit"))

\* A bug: only a new version is parsed into Service.
StoreSdtUnparsed(s, sdt, service, nit_transport_fk) ==
  LET found == LastKey(SdtRows(s, sdt, service))
  IN IF found > 0 /\ s.tables["Sdt"][found].version # sdt.version
       THEN ProcessService(DropSdt(s, sdt, service), sdt)
       ELSE Insert(s, "Sdt", [service_id |-> service.id, version |-> sdt.version,
                              nit_transport_fk |-> nit_transport_fk])

\* One round of the loop over the services.  A new version is parsed into
\* Service before its row in Sdt is inserted, and again after that.
StoreSdt(s, sdt, service, nit_transport_fk) ==
  LET found == LastKey(SdtRows(s, sdt, service))
      current == IF found > 0 /\ s.tables["Sdt"][found].version # sdt.version
                   THEN ProcessService(DropSdt(s, sdt, service), sdt)
                   ELSE s
      known == LastKey(SdtRows(current, sdt, service))
      inserted == Insert(current, "Sdt",
                         [service_id |-> service.id, version |-> sdt.version,
                          nit_transport_fk |-> nit_transport_fk])
  IN IF known > 0
       THEN InsertDescriptor(current, "SdtDescriptor", known, service.descriptors)
       ELSE InsertDescriptor(ProcessService(inserted, sdt), "SdtDescriptor",
                             inserted.lastRowId, service.descriptors)

EachService ==
  INSTANCE Loop WITH
    Body <- LAMBDA s, of, service : StoreSdt(s, of.sdt, service, of.nit_transport_fk)

\* The SDT of a transport stream that no NIT has announced is forgotten.
ProcessSdtEventDb(s, sdt) ==
  LET nit_transport_fk == LastKey(NitTransports(s, sdt))
  IN IF nit_transport_fk = 0 THEN s
     ELSE EachService!Run(s, [sdt |-> sdt, nit_transport_fk |-> nit_transport_fk],
                          sdt.services)

-----------------------------------------------------------------------------
(***************************************************************************)
(* BAT.                                                                    *)
(***************************************************************************)
Bouquet(bat) == [bouquet_id |-> bat.bouquet]

\* UPDATE Transport SET bouquet_fk, for a transport stream of the BAT.
JoinBouquet(s, ts, bouquet_fk) ==
  LET transport_fk == LastKey(Transports(s, ts))
  IN IF s.failed \/ transport_fk = 0 THEN s
     ELSE Write(s, "Transport",
                [s.tables["Transport"] EXCEPT ![transport_fk].bouquet_fk = bouquet_fk])

EachJoined ==
  INSTANCE Loop WITH Body <- LAMBDA s, bouquet_fk, ts : JoinBouquet(s, ts, bouquet_fk)

\* The DELETE binds the version to the bouquet id.
ProcessBouquet(s, bat) ==
  LET found == FindPrimaryKey(s, "Bouquet", Bouquet(bat))
      dropped == Delete(TTransaction(s), "Bouquet",
                        OtherVersion(s, "Bouquet",
                                     Matching(s, "Bouquet", [bouquet_id |-> bat.version]),
                                     bat.version))
      current == IF found > 0 /\ s.tables["Bouquet"][found].version # bat.version
                   THEN CommitSqlStatements(s, dropped)
                   ELSE s
      inserted == Insert(current, "Bouquet", [bouquet_id |-> bat.bouquet, version |-> bat.version])
  IN IF FindPrimaryKey(current, "Bouquet", Bouquet(bat)) > 0 THEN current
     ELSE EachJoined!Run(inserted, inserted.lastRowId, bat.transports)

\* A bug: the transport streams of the old version stay.
DropBatOnly(s, bat) ==
  LET d1 == Delete(TTransaction(s), "Bat",
                   OtherVersion(s, "Bat", Matching(s, "Bat", Bouquet(bat)), bat.version))
  IN CommitSqlStatements(s, Prune(d1, "BatDescriptor", "fkey", "Bat"))

\* A bug: the DELETE binds the version to the bouquet id, as that of
\* ProcessBouquet does.
DropBatUnbound(s, bat) ==
  LET d1 == Delete(TTransaction(s), "Bat",
                   OtherVersion(s, "Bat",
                                Matching(s, "Bat", [bouquet_id |-> bat.version]), bat.version))
      d2 == Prune(d1, "BatDescriptor", "fkey", "Bat")
      d3 == Prune(d2, "BatTransport", "bat_fk", "Bat")
  IN CommitSqlStatements(s, Prune(d3, "BatTransportDescriptor", "fkey", "BatTransport"))

DropBat(s, bat) ==
  LET d1 == Delete(TTransaction(s), "Bat",
                   OtherVersion(s, "Bat", Matching(s, "Bat", Bouquet(bat)), bat.version))
      d2 == Prune(d1, "BatDescriptor", "fkey", "Bat")
      d3 == Prune(d2, "BatTransport", "bat_fk", "Bat")
  IN CommitSqlStatements(s, Prune(d3, "BatTransportDescriptor", "fkey", "BatTransport"))

\* A transport stream of the BAT, if a NIT has announced it.  Its row is
\* looked up whichever bouquet it belongs to.
StoreBatTransport(s, ts, bat_fk) ==
  LET nit_transport_fk == LastKey(NitTransports(s, ts))
      known == FindPrimaryKey(s, "BatTransport", TransportId(ts.onid, ts.tsid))
      inserted == Insert(s, "BatTransport",
                         [original_network_id |-> ts.onid, transport_id |-> ts.tsid,
                          bat_fk |-> bat_fk, nit_transport_fk |-> nit_transport_fk])
  IN IF nit_transport_fk = 0 THEN s
     ELSE IF known > 0
       THEN InsertDescriptor(s, "BatTransportDescriptor", known, ts.descriptors)
       ELSE InsertDescriptor(inserted, "BatTransportDescriptor", inserted.lastRowId,
                             ts.descriptors)

EachBatTransport ==
  INSTANCE Loop WITH Body <- LAMBDA s, bat_fk, ts : StoreBatTransport(s, ts, bat_fk)

ProcessBatEventDb(s, bat) ==
  LET found == FindPrimaryKey(s, "Bat", Bouquet(bat))
      current == IF found > 0 /\ s.tables["Bat"][found].version # bat.version
                   THEN ProcessBouquet(DropBat(s, bat), bat)
                   ELSE s
      known == FindPrimaryKey(current, "Bat", Bouquet(bat))
      inserted == Insert(current, "Bat", [bouquet_id |-> bat.bouquet, version |-> bat.version])
      bat_fk == IF known > 0 THEN known ELSE inserted.lastRowId
      stored == IF known > 0 THEN current ELSE ProcessBouquet(inserted, bat)
      isOther == /\ PreferredNetworkId # 0
                 /\ FindPrimaryKey(s, "Network", [network_id |-> PreferredNetworkId]) = 0
  IN IF isOther THEN s
     ELSE EachBatTransport!Run(
            InsertDescriptor(stored, "BatDescriptor", bat_fk, bat.descriptors),
            bat_fk, bat.transports)

-----------------------------------------------------------------------------
(***************************************************************************)
(* EIT.                                                                    *)
(***************************************************************************)
EventId(eit, event) ==
  [network_id |-> eit.network, transport_id |-> eit.tsid,
   service_id |-> eit.service, event_id |-> event.id]

EventRow(eit, event) ==
  [network_id |-> eit.network, transport_id |-> eit.tsid, service_id |-> eit.service,
   event_id |-> event.id, version |-> eit.version]

\* The rows of table t that the DELETE for a new version removes: it binds
\* the service id to the event id.
RowsOfOldVersion(s, t, eit) ==
  OtherVersion(s, t,
               Matching(s, t, [network_id |-> eit.network, transport_id |-> eit.tsid,
                               event_id |-> eit.service]),
               eit.version)

DropEit(s, eit) ==
  LET d1 == Delete(TTransaction(s), "Eit", RowsOfOldVersion(s, "Eit", eit))
  IN CommitSqlStatements(s, Prune(d1, "EitDescriptor", "fkey", "Eit"))

\* A bug: the row is taken to be gone after the DELETE.
StoreEitUnseen(s, eit, event) ==
  LET found == FindPrimaryKey(s, "Eit", EventId(eit, event))
  IN IF found > 0 /\ s.tables["Eit"][found].version = eit.version THEN s
     ELSE Insert(DropEit(s, eit), "Eit", EventRow(eit, event))

StoreEit(s, eit, event) ==
  LET found == FindPrimaryKey(s, "Eit", EventId(eit, event))
      current == IF found > 0 /\ s.tables["Eit"][found].version # eit.version
                   THEN DropEit(s, eit) ELSE s
      known == FindPrimaryKey(current, "Eit", EventId(eit, event))
      inserted == Insert(current, "Eit", EventRow(eit, event))
  IN IF known > 0
       THEN InsertDescriptor(current, "EitDescriptor", known, event.descriptors)
       ELSE InsertDescriptor(inserted, "EitDescriptor", inserted.lastRowId,
                             event.descriptors)

\* The stream that spells the ids into the query is not cleared between the
\* first two: the transport id is looked up with the network id before it.
Spelled(nid, tsid) ==
  nid * (CASE tsid < 10 -> 10 [] tsid < 100 -> 100 [] tsid < 1000 -> 1000
           [] tsid < 10000 -> 10000 [] OTHER -> 100000) + tsid

LookedUpEvent(eit, event) ==
  [EventId(eit, event) EXCEPT !.transport_id = Spelled(eit.network, eit.tsid)]

DropEvent(s, eit) ==
  LET d1 == Delete(TTransaction(s), "Event", RowsOfOldVersion(s, "Event", eit))
      d2 == Prune(d1, "EventItem", "event_fk", "Event")
  IN CommitSqlStatements(s, Prune(d2, "EventComponent", "fkey", "Event"))

EachItem ==
  INSTANCE Loop WITH
    Body <- LAMBDA s, event_fk, item :
              Insert(s, "EventItem", [event_fk |-> event_fk, language |-> item.language,
                                      title |-> item.title])

ProcessEventItem(s, items, event_fk) == EachItem!Run(s, event_fk, items)

\* A bug: the row id is read before the event is inserted.
StoreEventBefore(s, eit, event) ==
  LET inserted == Insert(s, "Event", EventRow(eit, event))
  IN IF FindPrimaryKey(s, "Event", LookedUpEvent(eit, event)) > 0 THEN s
     ELSE ProcessEventItem(inserted, event.items, s.lastRowId)

StoreEvent(s, eit, event) ==
  LET found == FindPrimaryKey(s, "Event", LookedUpEvent(eit, event))
      current == IF found > 0 /\ s.tables["Event"][found].version # eit.version
                   THEN DropEvent(s, eit) ELSE s
      inserted == Insert(current, "Event", EventRow(eit, event))
  IN IF FindPrimaryKey(current, "Event", LookedUpEvent(eit, event)) > 0 THEN current
     ELSE IF inserted.lastRowId = 0 THEN inserted
     ELSE InsertComponent(
            ProcessEventItem(inserted, event.items, inserted.lastRowId), "Event")

EachEit == INSTANCE Loop WITH Body <- LAMBDA s, eit, event : StoreEit(s, eit, event)

EachEvent == INSTANCE Loop WITH Body <- LAMBDA s, eit, event : StoreEvent(s, eit, event)

ProcessEvent(s, eit) == EachEvent!Run(s, eit, eit.events)

ProcessEitEventDb(s, eit) == ProcessEvent(EachEit!Run(s, eit, eit.events), eit)

-----------------------------------------------------------------------------
(***************************************************************************)
(* The process.                                                            *)
(***************************************************************************)
HandleTableEvent(s, table) ==
  CASE table.kind = "nit" ->
         IF PreferredNetworkId \in {0, table.network} THEN ProcessNitEventDb(s, table) ELSE s
    [] table.kind = "sdt" -> ProcessSdtEventDb(s, table)
    [] table.kind = "bat" -> ProcessBatEventDb(s, table)
    [] table.kind = "eit" -> ProcessEitEventDb(s, table)

DbInit ==
  /\ tables = EmptyDatabase
  /\ lastRowId = 0
  /\ onAir = [st \in SubTables |-> 1]
  /\ heard = [st \in SubTables |-> 0]
  /\ restarts = 0
  /\ crashes = 0

NewVersion(st) ==
  /\ onAir[st] < Len(Contents[st])
  /\ onAir' = [onAir EXCEPT ![st] = @ + 1]
  /\ UNCHANGED <<tables, lastRowId, heard, restarts, crashes>>

\* The parser has a version complete that it has not delivered yet.
Deliver(st) ==
  /\ heard[st] # onAir[st]
  /\ \E s \in {HandleTableEvent(Session(tables, lastRowId), Broadcast(st))} :
       tables' = s.tables /\ lastRowId' = s.lastRowId
  /\ heard' = [heard EXCEPT ![st] = onAir[st]]
  /\ UNCHANGED <<onAir, restarts, crashes>>

\* A new process opens what it finds on the disk, with a new parser.
Start(db) ==
  /\ tables' = CreateDbFile(db)
  /\ lastRowId' = 0
  /\ heard' = [st \in SubTables |-> 0]

Restart ==
  /\ restarts + crashes < MaxStarts
  /\ Start(tables)
  /\ restarts' = restarts + 1
  /\ UNCHANGED <<onAir, crashes>>

\* The process dies after some commit of a handler.
Crash(st) ==
  /\ restarts + crashes < MaxStarts
  /\ heard[st] # onAir[st]
  /\ \E db \in Range(HandleTableEvent(Session(tables, lastRowId), Broadcast(st)).durable) :
       Start(db)
  /\ crashes' = crashes + 1
  /\ UNCHANGED <<onAir, restarts>>

Next ==
  \/ \E st \in SubTables : NewVersion(st) \/ Deliver(st) \/ Crash(st)
  \/ Restart

DbSpec == DbInit /\ [][Next]_vars

-----------------------------------------------------------------------------
(***************************************************************************)
(* What an application reads.                                              *)
(***************************************************************************)
Database == Session(tables, lastRowId)
IsComplete == DOMAIN tables = ToSet(DatabaseTables)

\* The rows of Transport behind GetTsListByNetId, by the join with Network;
\* for no network it is the preferred one.
GetTsListByNetId(network_id) ==
  LET network == IF network_id = 0 THEN PreferredNetworkId ELSE network_id
      networks == Matching(Database, "Network", [network_id |-> network])
  IN {id \in DOMAIN Rows(Database, "Transport") :
        network # 0 /\ tables["Transport"][id].network_fk \in networks}

\* The rows behind GetServiceListByTsId.
GetServiceListByTsId(sdt) ==
  {tables["Service"][id] :
     id \in {id \in DOMAIN Rows(Database, "Service") :
               tables["Service"][id].transport_fk \in Transports(Database, sdt)}}

\* The rows of EventItem behind GetEventListByServiceId, by the join with
\* Event, and what it tells of each.
EventItems(eit) ==
  {id \in DOMAIN Rows(Database, "EventItem") :
     tables["EventItem"][id].event_fk \in
       Matching(Database, "Event", [network_id |-> eit.network, transport_id |-> eit.tsid,
                                    service_id |-> eit.service])}

GetEventListByServiceId(eit) ==
  {LET item == tables["EventItem"][id]
   IN <<tables["Event"][item.event_fk].event_id, item.language, item.title>> :
     id \in EventItems(eit)}

-----------------------------------------------------------------------------
(***************************************************************************)
(* Properties.                                                             *)
(***************************************************************************)

\* The type invariant: tables of the schema, rows under positive ids, no two
\* of which agree in the columns of the unique index.
TypeOK ==
  /\ DOMAIN tables \subseteq ToSet(DatabaseTables)
  /\ \A t \in DOMAIN tables :
       /\ DOMAIN tables[t] \subseteq Nat \ {0}
       /\ UniqueIndex[t] # {} =>
            \A i, j \in DOMAIN tables[t] :
              Restrict(tables[t][i], UniqueIndex[t]) = Restrict(tables[t][j], UniqueIndex[t])
                => i = j
  /\ lastRowId \in Nat
  /\ onAir \in [SubTables -> Nat \ {0}]
  /\ \A st \in SubTables : heard[st] \in 0..onAir[st] /\ onAir[st] \in DOMAIN Contents[st]
  /\ restarts \in Nat /\ crashes \in Nat /\ restarts + crashes <= MaxStarts

ItemKey == <<"EventItem", "event_fk", "Event">>
BouquetKey == <<"Transport", "bouquet_fk", "Bouquet">>

References(key) ==
  LET child == key[1]
      column == key[2]
      parent == key[3]
  IN \A id \in DOMAIN Rows(Database, child) :
       \/ tables[child][id][column] \in DOMAIN Rows(Database, parent)
       \/ key = BouquetKey /\ tables[child][id][column] = NULL

\* Whatever the handlers delete and wherever the process dies, no row is left
\* behind by the row it belongs to, but for two kinds: the items of events and
\* the transport streams of bouquets, see below.
NoOrphans == \A key \in ForeignKeys \ {ItemKey, BouquetKey} : References(key)

\* The schema declares that an item's event_fk is the primary key of an event
\* and a transport stream's bouquet_fk that of a bouquet.  Nobody enforces it,
\* but one of the two at least should hold.
ItemsOrTransportsHaveParents == References(ItemKey) \/ References(BouquetKey)

DescriptorsUnder(t, fkey) ==
  {Rows(Database, t)[id].descriptor : id \in Matching(Database, t, [fkey |-> fkey])}

\* Row ids are used again after a deletion.  Still the descriptors filed
\* under the row of a NIT, a BAT or a service of an SDT are ones that the
\* broadcaster sent with the version in that row.
DescriptorsBelong ==
  \A st \in SubTables : \A v \in DOMAIN Contents[st] :
    LET table == Contents[st][v]
    IN CASE table.kind = "nit" ->
              \A id \in Matching(Database, "Nit", [network_id |-> table.network, version |-> v]) :
                DescriptorsUnder("NitDescriptor", id) \subseteq ToSet(table.descriptors)
         [] table.kind = "bat" ->
              \A id \in Matching(Database, "Bat", [bouquet_id |-> table.bouquet, version |-> v]) :
                DescriptorsUnder("BatDescriptor", id) \subseteq ToSet(table.descriptors)
         [] table.kind = "sdt" ->
              \A service \in ToSet(table.services) :
                \A id \in SdtRows(Database, table, service) :
                  tables["Sdt"][id].version = v =>
                    DescriptorsUnder("SdtDescriptor", id) \subseteq ToSet(service.descriptors)
         [] table.kind = "eit" -> TRUE

\* In a complete database, the services that the application is given for a
\* transport stream have the version and the name that the SDT heard last
\* gave them, as far as it lists them.  Two crashes may break that: one after
\* the row of the old version is taken from Sdt, one after the row of the new
\* version is there.  The next delivery then finds nothing to parse.
ServicesAreCurrent ==
  IsComplete /\ crashes <= 1 =>
    \A st \in SubTables :
      LET sdt == Contents[st][heard[st]]
      IN heard[st] > 0 /\ sdt.kind = "sdt" =>
           \A service \in ToSet(sdt.services) :
             \A row \in GetServiceListByTsId(sdt) :
               row.service_id = service.id =>
                 row.version = sdt.version /\ row.service_name = service.name

\* And the bouquets in Bat have the version heard last.
BouquetsAreCurrent ==
  IsComplete =>
    \A st \in SubTables :
      LET bat == Contents[st][heard[st]]
      IN heard[st] > 0 /\ bat.kind = "bat" =>
           \A id \in Matching(Database, "Bat", Bouquet(bat)) :
             tables["Bat"][id].version = bat.version

\* As long as no handler was cut short, the raw and the parsed half of the
\* database tell of the same services in the same versions: what is in Sdt
\* is what GetServiceListByTsId finds.
SdtAndServiceAgree ==
  crashes = 0 =>
    \A st \in SubTables :
      LET table == Broadcast(st)
      IN table.kind = "sdt" =>
           {<<row.service_id, row.version>> : row \in GetServiceListByTsId(table)} =
           {<<row.service_id, row.version>> :
              row \in {tables["Sdt"][id] :
                         id \in {id \in DOMAIN Rows(Database, "Sdt") :
                                   tables["Sdt"][id].nit_transport_fk
                                     \in NitTransports(Database, table)}}}

\* The stored version of a NIT and what GetTsListByNetId tells of its network.
\* Network id 0 is reserved: it asks for the preferred network.
StoredNit(nit) ==
  /\ nit.kind = "nit" /\ nit.network # 0
  /\ IsComplete
  /\ Matching(Database, "Nit", [network_id |-> nit.network, version |-> nit.version]) # {}

\* GetTsListByNetId lists transport streams of the NIT version that is stored,
\* each once and on the frequency which that version gives it, although
\* Transport is not touched when another NIT lists what is known.
TsListIsNit ==
  \A st \in SubTables : \A v \in DOMAIN Contents[st] :
    LET nit == Contents[st][v]
        listed == GetTsListByNetId(nit.network)
    IN StoredNit(nit) =>
         \A id \in listed : \E ts \in ToSet(nit.transports) :
           /\ \A other \in listed :
                /\ tables["Transport"][other].original_network_id = ts.onid
                /\ tables["Transport"][other].transport_id = ts.tsid
                <=> other = id
           /\ tables["Transport"][id].frequency = ts.frequency

\* And all of them, unless a handler was cut short.
TsListIsWhole ==
  crashes = 0 =>
    \A st \in SubTables : \A v \in DOMAIN Contents[st] :
      LET nit == Contents[st][v]
      IN StoredNit(nit) => Cardinality(GetTsListByNetId(nit.network)) = Len(nit.transports)

\* Row ids reach the items of an event by way of last_insert_rowid.  As long
\* as no EIT has changed its version and the process has lived, the events of
\* a service are listed with their own titles, and all or none of them: all,
\* if neither the NIT nor an SDT changed after them.
EventsHaveTheirTitles ==
  \A st \in SubTables :
    LET eit == Broadcast(st)
        listed == GetEventListByServiceId(eit)
        sent == UNION {{<<event.id, item.language, item.title>> :
                          item \in ToSet(event.items)} : event \in ToSet(eit.events)}
    IN eit.kind = "eit" /\ onAir[st] = 1 /\ restarts + crashes = 0 =>
         /\ listed \in {{}, sent}
         /\ heard[st] = 1 /\ (\A other \in SubTables : onAir[other] = 1) => listed # {}

\* There is one row per event in Eit although its unique index is missing.
OneRowPerEvent ==
  \A i, j \in DOMAIN Rows(Database, "Eit") :
    (\A column \in {"network_id", "transport_id", "service_id", "event_id"} :
       tables["Eit"][i][column] = tables["Eit"][j][column]) => i = j

\* The comment on SanityCheck, "to determine if the database file is valid":
\* the database the storage works with has the tables of its schema.
OpenedIsValid == IsComplete

=============================================================================
