-------------------------- MODULE SiStorageDbProofs --------------------------
(***************************************************************************)
(* The database under the table handlers, for every broadcast and wherever *)
(* the process dies: its tables and rows are those of the schema, no row   *)
(* is left behind by the row it belongs to, and each event of an EIT has   *)
(* one row.                                                                *)
(*                                                                         *)
(* The order is that of the code: statements, the transactions that take   *)
(* an old version away, loops, handlers, and the process around them.      *)
(***************************************************************************)
EXTENDS SiStorageDb, WellFoundedInduction, TLAPS

-----------------------------------------------------------------------------
(***************************************************************************)
(* What holds of every database, on the disk or not.                       *)
(***************************************************************************)
RowsOf(db, t) == IF t \in DOMAIN db THEN db[t] ELSE << >>

Refers(db, key) ==
  \A id \in DOMAIN RowsOf(db, key[1]) :
    \/ RowsOf(db, key[1])[id][key[2]] \in DOMAIN RowsOf(db, key[3])
    \/ key = BouquetKey /\ RowsOf(db, key[1])[id][key[2]] = NULL

\* The foreign keys that hold.
Kept == ForeignKeys \ {ItemKey, BouquetKey}

\* Row ids are bounded, so that there is a last one.
IsBounded(ids) == \E n \in Nat : ids \subseteq 1..n

RowsFit(t, rows) ==
  /\ IsBounded(DOMAIN rows)
  /\ UniqueIndex[t] # {} =>
       \A i, j \in DOMAIN rows :
         (\A column \in UniqueIndex[t] : rows[i][column] = rows[j][column]) => i = j

EventColumns == {"network_id", "transport_id", "service_id", "event_id"}
TransportColumns == {"original_network_id", "transport_id", "network_fk", "frequency"}

\* A table that some sub-table is or has been or will be broadcast with.
IsSent(table) == \E st \in SubTables : \E v \in DOMAIN Contents[st] : table = Contents[st][v]

\* The service of that id in a version of the SDT of a transport stream.
SentService(table, service, ts, version, id) ==
  /\ IsSent(table) /\ table.kind = "sdt" /\ table.version = version
  /\ table.onid = ts.original_network_id /\ table.tsid = ts.transport_id
  /\ service \in ToSet(table.services) /\ service.id = id

\* What the rows of a table tell of is what was sent in the version that is
\* in the row they belong to.
FiledUnderNit(db, row) ==
  LET nit == RowsOf(db, "Nit")[row.fkey]
  IN \E table : /\ IsSent(table) /\ table.kind = "nit"
                /\ table.network = nit.network_id /\ table.version = nit.version
                /\ row.descriptor \in ToSet(table.descriptors)

FiledUnderBat(db, row) ==
  LET bat == RowsOf(db, "Bat")[row.fkey]
  IN \E table : /\ IsSent(table) /\ table.kind = "bat"
                /\ table.bouquet = bat.bouquet_id /\ table.version = bat.version
                /\ row.descriptor \in ToSet(table.descriptors)

FiledUnderSdt(db, row) ==
  LET sdt == RowsOf(db, "Sdt")[row.fkey]
      ts == RowsOf(db, "NitTransport")[sdt.nit_transport_fk]
  IN \E table, service :
       /\ SentService(table, service, ts, sdt.version, sdt.service_id)
       /\ row.descriptor \in ToSet(service.descriptors)

NamedBySdt(db, row) ==
  LET ts == RowsOf(db, "Transport")[row.transport_fk]
  IN \E table, service :
       /\ SentService(table, service, ts, row.version, row.service_id)
       /\ row.service_name = service.name

\* A transport stream is listed by the stored version of its network's NIT.
ListedByNit(db, row) ==
  "Nit" \in DOMAIN db =>
    \E nit \in DOMAIN RowsOf(db, "Nit") : \E table, ts :
      /\ RowsOf(db, "Nit")[nit].network_id = RowsOf(db, "Network")[row.network_fk].network_id
      /\ IsSent(table) /\ table.kind = "nit"
      /\ table.network = RowsOf(db, "Nit")[nit].network_id
      /\ table.version = RowsOf(db, "Nit")[nit].version
      /\ ts \in ToSet(table.transports)
      /\ ts.onid = row.original_network_id /\ ts.tsid = row.transport_id
      /\ ts.frequency = row.frequency

SameTransport(row, other) ==
  row.original_network_id = other.original_network_id /\ row.transport_id = other.transport_id

\* The raw half of the database knows every transport stream of the parsed one.
Announced(db, row) ==
  "NitTransport" \in DOMAIN db =>
    \E id \in DOMAIN RowsOf(db, "NitTransport") : SameTransport(RowsOf(db, "NitTransport")[id], row)

IsFiled(db, t, row) ==
  /\ t = "NitDescriptor" => FiledUnderNit(db, row)
  /\ t = "BatDescriptor" => FiledUnderBat(db, row)
  /\ t = "SdtDescriptor" => FiledUnderSdt(db, row)
  /\ t = "Service" => NamedBySdt(db, row)
  /\ t = "Transport" => ListedByNit(db, row) /\ Announced(db, row)

OneTransport(rows) == \A i, j \in DOMAIN rows : SameTransport(rows[i], rows[j]) => i = j

\* The preferred network, if there is one, among the rows of Network.
HasPreferred(rows) ==
  PreferredNetworkId # 0 => \E id \in DOMAIN rows : rows[id].network_id = PreferredNetworkId

DbInv(db) ==
  /\ DOMAIN db \subseteq ToSet(DatabaseTables)
  /\ \A t \in DOMAIN db : RowsFit(t, db[t])
  /\ \A key \in Kept : Refers(db, key)
  /\ \A id \in DOMAIN RowsOf(db, "Transport") :
       TransportColumns \cup {"bouquet_fk"} \subseteq DOMAIN RowsOf(db, "Transport")[id]
  \* A network is named after its NIT has been stored.
  /\ "Nit" \in DOMAIN db =>
       \A id \in DOMAIN RowsOf(db, "Network") : \E nit \in DOMAIN db["Nit"] :
         db["Nit"][nit].network_id = RowsOf(db, "Network")[id].network_id
  /\ \A i, j \in DOMAIN RowsOf(db, "Eit") :
       (\A column \in EventColumns :
          RowsOf(db, "Eit")[i][column] = RowsOf(db, "Eit")[j][column]) => i = j
  \* A transport stream that is known is not stored again, whoever lists it.
  /\ OneTransport(RowsOf(db, "NitTransport")) /\ OneTransport(RowsOf(db, "Transport"))
  \* A BAT is not stored before the NIT of the preferred network.
  /\ DOMAIN RowsOf(db, "Bat") # {} => HasPreferred(RowsOf(db, "Network"))
  /\ \A t : \A id \in DOMAIN RowsOf(db, t) : IsFiled(db, t, RowsOf(db, t)[id])

-----------------------------------------------------------------------------
(***************************************************************************)
(* Sessions.                                                               *)
(***************************************************************************)
IsSession(s) ==
  /\ s = [tables |-> s.tables, lastRowId |-> s.lastRowId,
          inTransaction |-> s.inTransaction, failed |-> s.failed,
          durable |-> s.durable]
  /\ s.inTransaction \in BOOLEAN /\ s.failed \in BOOLEAN

\* What reached the disk.
OnDisk(s) == \E DBs : s.durable \in Seq(DBs) /\ \A db \in DBs : DbInv(db)

SInv(s) ==
  /\ IsSession(s) /\ ~ s.inTransaction
  /\ s.lastRowId \in Nat
  /\ DbInv(s.tables) /\ OnDisk(s)

\* From s to r nothing but the rows of the tables in T is touched.  A failure
\* lasts, and there is none unless one of these tables is missing.
Touches(s, r, T) ==
  /\ DOMAIN r.tables = DOMAIN s.tables
  /\ \A t : t \notin T => Rows(r, t) = Rows(s, t)
  /\ s.failed => r.failed
  /\ r.failed => s.failed \/ ~ (T \subseteq DOMAIN s.tables)

\* References, of a session.
Referenced(s, key) ==
  \A id \in DOMAIN Rows(s, key[1]) :
    \/ Rows(s, key[1])[id][key[2]] \in DOMAIN Rows(s, key[3])
    \/ key = BouquetKey /\ Rows(s, key[1])[id][key[2]] = NULL

LEMMA ReferencedIsRefers ==
  ASSUME NEW s, NEW key
  PROVE  Referenced(s, key) <=> Refers(s.tables, key)
BY DEF Referenced, Refers, Rows, RowsOf

LEMMA RowsIsRowsOf ==
  ASSUME NEW s, NEW t
  PROVE  Rows(s, t) = RowsOf(s.tables, t)
BY DEF Rows, RowsOf

LEMMA TouchesTrans ==
  ASSUME NEW s, NEW e, NEW r, NEW T, NEW U, U \subseteq T,
         Touches(s, e, T), Touches(e, r, U)
  PROVE  Touches(s, r, T)
BY DEF Touches

LEMMA TouchesSelf ==
  ASSUME NEW s, NEW T
  PROVE  Touches(s, s, T)
BY DEF Touches

\* The last row id of a table.
LEMMA LastKeyIs ==
  ASSUME NEW ids, IsBounded(ids)
  PROVE  /\ LastKey(ids) \in Nat
         /\ LastKey(ids) = 0 <=> ids = {}
         /\ ids # {} => LastKey(ids) \in ids
         /\ \A id \in ids : id \in Nat /\ id <= LastKey(ids)
<1>1. CASE ids = {}
  BY <1>1 DEF LastKey
<1>2. CASE ids # {}
  <2>1. PICK n \in Nat : ids \subseteq 1..n
    BY DEF IsBounded
  <2> DEFINE gaps == {n - id : id \in ids}
  <2>2. gaps \subseteq Nat /\ gaps # {}
    <3>1. \A id \in ids : n - id \in Nat
      BY <2>1
    <3>2. QED
      BY <1>2, <3>1
  <2>3. PICK m \in gaps : \A k \in gaps : ~ (<<k, m>> \in OpToRel(<, Nat))
    BY <2>2, NatLessThanWellFounded, WFMin
  <2>4. PICK last \in ids : m = n - last
    BY <2>3
  <2>5. ASSUME NEW id \in ids
        PROVE  last >= id
    <3>1. n - id \in gaps /\ n - id \in Nat /\ m \in Nat
      BY <2>2, <2>5
    <3>2. ~ (n - id < m)
      BY <2>3, <3>1 DEF OpToRel
    <3>3. id \in Nat /\ last \in Nat
      BY <2>1
    <3>4. QED
      BY <2>4, <3>2, <3>3
  <2>6. Max(ids) \in ids /\ \A id \in ids : Max(ids) >= id
    BY <2>5 DEF Max
  <2>7. \A id \in ids : id \in Nat /\ id # 0
    BY <2>1
  <2>8. LastKey(ids) = Max(ids)
    BY <1>2 DEF LastKey
  <2>9. QED
    BY <1>2, <2>6, <2>7, <2>8
<1>3. QED
  BY <1>1, <1>2

\* The next row id is a new one.
LEMMA NewRowId ==
  ASSUME NEW ids, IsBounded(ids)
  PROVE  /\ LastKey(ids) + 1 \in Nat /\ LastKey(ids) + 1 # 0
         /\ LastKey(ids) + 1 \notin ids
         /\ IsBounded(ids \cup {LastKey(ids) + 1})
<1>1. /\ LastKey(ids) \in Nat
      /\ \A id \in ids : id \in Nat /\ id <= LastKey(ids)
  BY LastKeyIs
<1>2. \A id \in ids : id # 0
  BY DEF IsBounded
<1>3. ids \cup {LastKey(ids) + 1} \subseteq 1..(LastKey(ids) + 1)
  BY <1>1, <1>2
<1>4. QED
  BY <1>1, <1>3 DEF IsBounded

\* The rows of a subset of the ids are bounded, too.
LEMMA SubsetIsBounded ==
  ASSUME NEW ids, IsBounded(ids), NEW some, some \subseteq ids
  PROVE  IsBounded(some)
BY DEF IsBounded

\* What is written to the disk.
LEMMA AppendOnDisk ==
  ASSUME NEW s, OnDisk(s), NEW r, NEW db, DbInv(db), r.durable = Append(s.durable, db)
  PROVE  OnDisk(r)
<1>1. PICK DBs : s.durable \in Seq(DBs) /\ \A d \in DBs : DbInv(d)
  BY DEF OnDisk
<1>2. s.durable \in Seq(DBs \cup {db})
  BY <1>1
<1>3. r.durable \in Seq(DBs \cup {db})
  BY <1>2
<1>4. QED
  BY <1>1, <1>3 DEF OnDisk

\* Nothing has changed.
LEMMA SameSession ==
  ASSUME NEW s, SInv(s), NEW r, IsSession(r), ~ r.inTransaction,
         r.tables = s.tables, r.durable = s.durable, r.lastRowId \in Nat
  PROVE  SInv(r)
BY DEF SInv, OnDisk

-----------------------------------------------------------------------------
(***************************************************************************)
(* The statements.                                                         *)
(***************************************************************************)
LEMMA WriteIs ==
  ASSUME NEW e, IsSession(e), NEW t, NEW rows
  PROVE  LET d == Write(e, t, rows)
         IN /\ IsSession(d)
            /\ d.inTransaction = e.inTransaction
            /\ d.failed = e.failed /\ d.lastRowId = e.lastRowId
            /\ e.inTransaction => d.durable = e.durable
            /\ ~ e.inTransaction => d.durable = Append(e.durable, d.tables)
            /\ DOMAIN d.tables = DOMAIN e.tables \cup {t}
            /\ Rows(d, t) = rows
            /\ \A u : u # t => Rows(d, u) = Rows(e, u)
<1> DEFINE d == Write(e, t, rows)
           written == [u \in DOMAIN e.tables \cup {t} |-> IF u = t THEN rows ELSE e.tables[u]]
           o == [e EXCEPT !.tables = written]
<1>1. d = Autocommit(o)
  BY DEF Write
<1>2. /\ IsSession(o) /\ o.tables = written
      /\ o.inTransaction = e.inTransaction /\ o.failed = e.failed
      /\ o.durable = e.durable /\ o.lastRowId = e.lastRowId
  BY DEF IsSession
<1> HIDE DEF o
<1>3. /\ IsSession(d) /\ d.tables = written
      /\ d.inTransaction = e.inTransaction /\ d.failed = e.failed
      /\ d.lastRowId = e.lastRowId
      /\ e.inTransaction => d.durable = e.durable
      /\ ~ e.inTransaction => d.durable = Append(e.durable, d.tables)
  <2>1. CASE e.inTransaction
    <3>1. d = o
      BY <1>1, <1>2, <2>1 DEF Autocommit
    <3>2. QED
      BY <1>2, <2>1, <3>1
  <2>2. CASE ~ e.inTransaction
    <3>1. d = [o EXCEPT !.durable = Append(@, o.tables)]
      BY <1>1, <1>2, <2>2 DEF Autocommit
    <3> HIDE DEF d, written
    <3>2. QED
      BY <1>2, <2>2, <3>1 DEF IsSession
  <2>3. QED
    BY <2>1, <2>2
<1> HIDE DEF d
<1>4. /\ DOMAIN d.tables = DOMAIN e.tables \cup {t}
      /\ d.tables[t] = rows
      /\ \A u \in DOMAIN e.tables : u # t => d.tables[u] = e.tables[u]
  BY <1>3
<1>5. /\ Rows(d, t) = rows
      /\ \A u : u # t => Rows(d, u) = Rows(e, u)
  BY <1>4 DEF Rows
<1>6. QED
  BY <1>3, <1>4, <1>5 DEF d

\* A row fits into table t: what it refers to is there, and it keeps the
\* promises that no index and no foreign key makes.
Fits(s, t, row) ==
  /\ \A key \in Kept :
       key[1] = t => row[key[2]] \in DOMAIN Rows(s, key[3])
  /\ t = "Transport" => TransportColumns \cup {"bouquet_fk"} \subseteq DOMAIN row
  /\ t = "Network" =>
       \E nit \in DOMAIN Rows(s, "Nit") : Rows(s, "Nit")[nit].network_id = row.network_id
  /\ t = "Eit" =>
       \A id \in DOMAIN Rows(s, "Eit") :
         \E column \in EventColumns : Rows(s, "Eit")[id][column] # row[column]
  /\ t \in {"NitTransport", "Transport"} =>
       \A id \in DOMAIN Rows(s, t) : ~ SameTransport(Rows(s, t)[id], row)
  /\ t = "Bat" => HasPreferred(Rows(s, "Network"))
  /\ IsFiled(s.tables, t, row)

\* The rows of table t grow, at most by the given row.
Gains(s, r, t, row) ==
  \A id \in DOMAIN Rows(r, t) :
    \/ id \in DOMAIN Rows(s, t) /\ Rows(r, t)[id] = Rows(s, t)[id]
    \/ id \notin DOMAIN Rows(s, t) /\ Rows(r, t)[id] = row

\* The schema refers from one table to another.
LEMMA KeysAre ==
  \A key \in ForeignKeys :
    key[1] # key[3] /\ key[1] \in ToSet(DatabaseTables) /\ key[3] \in ToSet(DatabaseTables)
  BY DEF ForeignKeys, ToSet, DatabaseTables

\* Those that a row is filed under.
LEMMA KeptKeys ==
  /\ <<"NitDescriptor", "fkey", "Nit">> \in Kept
  /\ <<"BatDescriptor", "fkey", "Bat">> \in Kept
  /\ <<"SdtDescriptor", "fkey", "Sdt">> \in Kept
  /\ <<"Sdt", "nit_transport_fk", "NitTransport">> \in Kept
  /\ <<"Service", "transport_fk", "Transport">> \in Kept
  /\ <<"Transport", "network_fk", "Network">> \in Kept
BY DEF Kept, ForeignKeys, ItemKey, BouquetKey

\* The same row, but for the bouquet of a transport stream.
SameRow(t, row, other) ==
  IF t = "Transport" THEN \A column \in TransportColumns : row[column] = other[column]
  ELSE row = other

\* From database db to new no row has changed, and what is there of the
\* NIT's tables is whole.
Keeps(db, new) ==
  /\ \A u : \A id \in DOMAIN RowsOf(db, u) \cap DOMAIN RowsOf(new, u) :
       SameRow(u, RowsOf(db, u)[id], RowsOf(new, u)[id])
  /\ \A u \in {"Nit", "NitTransport"} :
       u \in DOMAIN new => u \in DOMAIN db /\ DOMAIN RowsOf(db, u) \subseteq DOMAIN RowsOf(new, u)

\* What is filed stays so, as long as the row that it is filed under is there.
LEMMA FiledStays ==
  ASSUME NEW db, NEW new, Keeps(db, new),
         \A key \in Kept : Refers(db, key) /\ Refers(new, key),
         NEW t, NEW row, IsFiled(db, t, row),
         \A key \in Kept :
           key[1] = t =>
             row[key[2]] \in DOMAIN RowsOf(db, key[3]) \cap DOMAIN RowsOf(new, key[3])
  PROVE  IsFiled(new, t, row)
<1>1. \A u : u # "Transport" =>
        \A id \in DOMAIN RowsOf(db, u) \cap DOMAIN RowsOf(new, u) :
          RowsOf(db, u)[id] = RowsOf(new, u)[id]
  BY DEF Keeps, SameRow
<1>2. ASSUME t = "NitDescriptor"
      PROVE  FiledUnderNit(new, row)
  <2>1. row.fkey \in DOMAIN RowsOf(db, "Nit") \cap DOMAIN RowsOf(new, "Nit")
    BY <1>2, KeptKeys
  <2>2. RowsOf(db, "Nit")[row.fkey] = RowsOf(new, "Nit")[row.fkey]
    BY <1>1, <2>1
  <2>3. QED
    BY <1>2, <2>2 DEF IsFiled, FiledUnderNit
<1>3. ASSUME t = "BatDescriptor"
      PROVE  FiledUnderBat(new, row)
  <2>1. row.fkey \in DOMAIN RowsOf(db, "Bat") \cap DOMAIN RowsOf(new, "Bat")
    BY <1>3, KeptKeys
  <2>2. RowsOf(db, "Bat")[row.fkey] = RowsOf(new, "Bat")[row.fkey]
    BY <1>1, <2>1
  <2>3. QED
    BY <1>3, <2>2 DEF IsFiled, FiledUnderBat
<1>4. ASSUME t = "SdtDescriptor"
      PROVE  FiledUnderSdt(new, row)
  <2>1. row.fkey \in DOMAIN RowsOf(db, "Sdt") \cap DOMAIN RowsOf(new, "Sdt")
    BY <1>4, KeptKeys
  <2>2. RowsOf(db, "Sdt")[row.fkey] = RowsOf(new, "Sdt")[row.fkey]
    BY <1>1, <2>1
  <2> DEFINE fk == RowsOf(db, "Sdt")[row.fkey].nit_transport_fk
  <2>3. Refers(db, <<"Sdt", "nit_transport_fk", "NitTransport">>)
        /\ Refers(new, <<"Sdt", "nit_transport_fk", "NitTransport">>)
    BY KeptKeys
  <2>4. fk \in DOMAIN RowsOf(db, "NitTransport") \cap DOMAIN RowsOf(new, "NitTransport")
    BY <2>1, <2>2, <2>3, KeptKeys DEF Refers, Kept
  <2>5. RowsOf(db, "NitTransport")[fk] = RowsOf(new, "NitTransport")[fk]
    BY <1>1, <2>4
  <2>6. QED
    BY <1>4, <2>2, <2>5 DEF IsFiled, FiledUnderSdt
<1>5. ASSUME t = "Service"
      PROVE  NamedBySdt(new, row)
  <2> DEFINE fk == row.transport_fk
  <2>1. fk \in DOMAIN RowsOf(db, "Transport") \cap DOMAIN RowsOf(new, "Transport")
    BY <1>5, KeptKeys
  <2>2. SameTransport(RowsOf(db, "Transport")[fk], RowsOf(new, "Transport")[fk])
    BY <2>1 DEF Keeps, SameRow, TransportColumns, SameTransport
  <2>3. \A table, service :
          SentService(table, service, RowsOf(db, "Transport")[fk], row.version, row.service_id)
            => SentService(table, service, RowsOf(new, "Transport")[fk], row.version, row.service_id)
    BY <2>2 DEF SentService, SameTransport
  <2>4. QED
    BY <1>5, <2>3 DEF IsFiled, NamedBySdt
<1>6. ASSUME t = "Transport"
      PROVE  ListedByNit(new, row) /\ Announced(new, row)
  <2>1. ListedByNit(new, row)
    <3>1. SUFFICES ASSUME "Nit" \in DOMAIN new
                   PROVE  ListedByNit(new, row)
      BY DEF ListedByNit
    <3> DEFINE fk == row.network_fk
    <3>2. fk \in DOMAIN RowsOf(db, "Network") \cap DOMAIN RowsOf(new, "Network")
      BY <1>6, KeptKeys
    <3>3. RowsOf(db, "Network")[fk] = RowsOf(new, "Network")[fk]
      BY <1>1, <3>2
    <3>4. "Nit" \in DOMAIN db /\ DOMAIN RowsOf(db, "Nit") \subseteq DOMAIN RowsOf(new, "Nit")
      BY <3>1 DEF Keeps
    <3>5. \A nit \in DOMAIN RowsOf(db, "Nit") :
            nit \in DOMAIN RowsOf(new, "Nit") /\ RowsOf(db, "Nit")[nit] = RowsOf(new, "Nit")[nit]
      BY <1>1, <3>4
    <3>6. ListedByNit(db, row)
      BY <1>6 DEF IsFiled
    <3>7. QED
      BY <3>3, <3>4, <3>5, <3>6 DEF ListedByNit
  <2>2. Announced(new, row)
    <3>1. SUFFICES ASSUME "NitTransport" \in DOMAIN new
                   PROVE  Announced(new, row)
      BY DEF Announced
    <3>2. /\ "NitTransport" \in DOMAIN db
          /\ DOMAIN RowsOf(db, "NitTransport") \subseteq DOMAIN RowsOf(new, "NitTransport")
      BY <3>1 DEF Keeps
    <3>3. Announced(db, row)
      BY <1>6 DEF IsFiled
    <3>4. QED
      BY <1>1, <3>2, <3>3 DEF Announced
  <2>3. QED
    BY <2>1, <2>2
<1>7. QED
  BY <1>2, <1>3, <1>4, <1>5, <1>6 DEF IsFiled

\* All the rows of a database.
LEMMA AllFiledStay ==
  ASSUME NEW db, DbInv(db), NEW new, Keeps(db, new),
         \A key \in Kept : Refers(new, key),
         \A t : DOMAIN RowsOf(new, t) \subseteq DOMAIN RowsOf(db, t)
  PROVE  \A t : \A id \in DOMAIN RowsOf(new, t) : IsFiled(new, t, RowsOf(new, t)[id])
<1>1. SUFFICES ASSUME NEW t, NEW id \in DOMAIN RowsOf(new, t)
               PROVE  IsFiled(new, t, RowsOf(new, t)[id])
  OBVIOUS
<1> DEFINE old == RowsOf(db, t)[id]
           row == RowsOf(new, t)[id]
<1>2. id \in DOMAIN RowsOf(db, t) /\ SameRow(t, old, row) /\ IsFiled(db, t, old)
  BY <1>1 DEF Keeps, DbInv
<1>3. IsFiled(db, t, row)
  BY <1>2 DEF SameRow, TransportColumns, IsFiled, ListedByNit, Announced, SameTransport
<1>4. ASSUME NEW key \in Kept, key[1] = t
      PROVE  row[key[2]] \in DOMAIN RowsOf(db, key[3]) \cap DOMAIN RowsOf(new, key[3])
  BY <1>1, <1>4 DEF Refers, Kept
<1> HIDE DEF row
<1>5. IsFiled(new, t, row)
  BY <1>3, <1>4, FiledStays DEF DbInv
<1>6. QED
  BY <1>5 DEF row

\* A database with one row more in table t.
LEMMA RowAdded ==
  ASSUME NEW s, DbInv(s.tables), NEW t \in DOMAIN s.tables, NEW row,
         Fits(s, t, row), ~ IsDuplicate(s, t, row),
         NEW id, id \notin DOMAIN s.tables[t], IsBounded(DOMAIN s.tables[t] \cup {id}),
         NEW r, DOMAIN r.tables = DOMAIN s.tables,
         Rows(r, t) = WithRow(s.tables[t], id, row),
         \A u : u # t => Rows(r, u) = Rows(s, u)
  PROVE  DbInv(r.tables)
<1>1. /\ Rows(s, t) = s.tables[t]
      /\ DOMAIN Rows(r, t) = DOMAIN Rows(s, t) \cup {id}
      /\ Rows(r, t)[id] = row
      /\ \A k \in DOMAIN Rows(s, t) : Rows(r, t)[k] = Rows(s, t)[k]
  BY DEF Rows, WithRow
<1>2. \A u \in DOMAIN r.tables : r.tables[u] = Rows(r, u) /\ s.tables[u] = Rows(s, u)
  BY DEF Rows
<1>3. DOMAIN r.tables \subseteq ToSet(DatabaseTables)
  BY DEF DbInv
<1>4. ASSUME NEW u \in DOMAIN r.tables
      PROVE  RowsFit(u, r.tables[u])
  <2>1. RowsFit(u, Rows(s, u))
    BY <1>2 DEF DbInv
  <2>2. CASE u # t
    BY <1>2, <2>1, <2>2
  <2>3. CASE u = t
    <3>1. IsBounded(DOMAIN Rows(r, t))
      BY <1>1
    <3>2. ASSUME UniqueIndex[t] # {},
                 NEW i \in DOMAIN Rows(r, t), NEW j \in DOMAIN Rows(r, t),
                 \A column \in UniqueIndex[t] : Rows(r, t)[i][column] = Rows(r, t)[j][column]
          PROVE  i = j
      <4>1. ASSUME NEW k \in DOMAIN Rows(s, t)
            PROVE  \E column \in UniqueIndex[t] : Rows(s, t)[k][column] # row[column]
        BY <3>2, <4>1 DEF IsDuplicate, Matching, Restrict
      <4>2. QED
        BY <1>1, <2>1, <2>3, <3>2, <4>1 DEF RowsFit
    <3>3. QED
      BY <1>2, <2>3, <3>1, <3>2 DEF RowsFit
  <2>4. QED
    BY <2>2, <2>3
<1>5. ASSUME NEW key \in Kept
      PROVE  Refers(r.tables, key)
  <2>1. Referenced(s, key)
    BY ReferencedIsRefers DEF DbInv
  <2>2. key[1] # key[3]
    BY KeysAre DEF Kept
  <2>3. DOMAIN Rows(s, key[3]) \subseteq DOMAIN Rows(r, key[3])
    BY <1>1
  <2>4. CASE key[1] = t
    <3>1. ASSUME NEW k \in DOMAIN Rows(r, key[1])
          PROVE  Rows(r, key[1])[k][key[2]] \in DOMAIN Rows(r, key[3])
      <4>1. CASE k \in DOMAIN Rows(s, t) /\ Rows(r, t)[k] = Rows(s, t)[k]
        BY <2>1, <2>3, <2>4, <4>1 DEF Referenced, Kept
      <4>2. CASE Rows(r, t)[k] = row
        BY <2>3, <2>4, <4>2 DEF Fits
      <4>3. QED
        BY <1>1, <2>4, <3>1, <4>1, <4>2
    <3>2. QED
      BY <3>1, ReferencedIsRefers DEF Referenced
  <2>5. CASE key[1] # t
    BY <2>1, <2>3, <2>5, ReferencedIsRefers DEF Referenced
  <2>6. QED
    BY <2>4, <2>5
<1>6. \A k \in DOMAIN Rows(r, "Transport") :
        TransportColumns \cup {"bouquet_fk"} \subseteq DOMAIN Rows(r, "Transport")[k]
  BY <1>1, RowsIsRowsOf DEF Fits, DbInv
<1>7. "Nit" \in DOMAIN r.tables =>
        \A k \in DOMAIN Rows(r, "Network") : \E nit \in DOMAIN r.tables["Nit"] :
          r.tables["Nit"][nit].network_id = Rows(r, "Network")[k].network_id
  <2>1. SUFFICES ASSUME "Nit" \in DOMAIN r.tables, NEW k \in DOMAIN Rows(r, "Network")
                 PROVE  \E nit \in DOMAIN Rows(r, "Nit") :
                          Rows(r, "Nit")[nit].network_id = Rows(r, "Network")[k].network_id
    BY <1>2
  <2>2. \A old \in DOMAIN Rows(s, "Network") : \E nit \in DOMAIN Rows(s, "Nit") :
          Rows(s, "Nit")[nit].network_id = Rows(s, "Network")[old].network_id
    BY <1>2, <2>1, RowsIsRowsOf DEF DbInv
  <2>3. CASE t = "Network"
    BY <1>1, <2>1, <2>2, <2>3 DEF Fits
  <2>4. CASE t # "Network"
    BY <1>1, <2>1, <2>2, <2>4
  <2>5. QED
    BY <2>3, <2>4
<1>8. ASSUME NEW i \in DOMAIN Rows(r, "Eit"), NEW j \in DOMAIN Rows(r, "Eit"),
             \A column \in EventColumns : Rows(r, "Eit")[i][column] = Rows(r, "Eit")[j][column]
      PROVE  i = j
  <2>1. \A k, l \in DOMAIN Rows(s, "Eit") :
          (\A column \in EventColumns : Rows(s, "Eit")[k][column] = Rows(s, "Eit")[l][column])
            => k = l
    BY RowsIsRowsOf DEF DbInv
  <2>2. QED
    BY <1>1, <1>8, <2>1 DEF Fits
<1>9. ASSUME NEW u \in {"NitTransport", "Transport"}
       PROVE  OneTransport(Rows(r, u))
  <2>1. OneTransport(Rows(s, u))
    BY RowsIsRowsOf DEF DbInv
  <2>2. CASE u = t
    <3>1. \A k \in DOMAIN Rows(s, t) : ~ SameTransport(Rows(s, t)[k], row)
      BY <2>2 DEF Fits
    <3>2. QED
      BY <1>1, <2>1, <2>2, <3>1 DEF OneTransport, SameTransport
  <2>3. CASE u # t
    BY <2>1, <2>3
  <2>4. QED
    BY <2>2, <2>3
<1>10. ASSUME NEW u, NEW k \in DOMAIN RowsOf(r.tables, u)
       PROVE  IsFiled(r.tables, u, RowsOf(r.tables, u)[k])
  <2> DEFINE other == RowsOf(r.tables, u)[k]
  <2>1. \A v : RowsOf(r.tables, v) = Rows(r, v) /\ RowsOf(s.tables, v) = Rows(s, v)
    BY RowsIsRowsOf
  <2>2. \A v : /\ DOMAIN Rows(s, v) \subseteq DOMAIN Rows(r, v)
               /\ \A i \in DOMAIN Rows(s, v) : Rows(s, v)[i] = Rows(r, v)[i]
    BY <1>1
  <2>3. Keeps(s.tables, r.tables)
    BY <2>1, <2>2 DEF Keeps, SameRow
  <2>4. \A key \in Kept : Refers(s.tables, key) /\ Refers(r.tables, key)
    BY <1>5 DEF DbInv
  <2>5. IsFiled(s.tables, u, other)
    <3>1. CASE k \in DOMAIN Rows(s, u)
      BY <2>1, <2>2, <3>1 DEF DbInv
    <3>2. CASE u = t /\ other = row
      BY <3>2 DEF Fits
    <3>3. QED
      BY <1>1, <1>10, <2>1, <3>1, <3>2
  <2>6. ASSUME NEW key \in Kept, key[1] = u
        PROVE  other[key[2]] \in DOMAIN RowsOf(s.tables, key[3]) \cap DOMAIN RowsOf(r.tables, key[3])
    <3>1. CASE k \in DOMAIN Rows(s, u)
      BY <2>1, <2>2, <2>4, <2>6, <3>1 DEF Refers, Kept
    <3>2. CASE u = t /\ other = row
      BY <2>1, <2>2, <2>6, <3>2 DEF Fits
    <3>3. QED
      BY <1>1, <1>10, <2>1, <3>1, <3>2
  <2> HIDE DEF other
  <2>7. IsFiled(r.tables, u, other)
    BY <2>3, <2>4, <2>5, <2>6, FiledStays
  <2>8. QED
    BY <2>7 DEF other
<1>11. DOMAIN Rows(r, "Bat") # {} => HasPreferred(Rows(r, "Network"))
  <2>1. HasPreferred(Rows(s, "Network")) => HasPreferred(Rows(r, "Network"))
    BY <1>1 DEF HasPreferred
  <2>2. DOMAIN Rows(s, "Bat") # {} => HasPreferred(Rows(s, "Network"))
    BY RowsIsRowsOf DEF DbInv
  <2>3. QED
    BY <1>1, <2>1, <2>2 DEF Fits
<1>12. QED
  BY <1>3, <1>4, <1>5, <1>6, <1>7, <1>8, <1>9, <1>10, <1>11, RowsIsRowsOf DEF DbInv

LEMMA InsertIs ==
  ASSUME NEW s, SInv(s), NEW t, NEW row, s.failed \/ Fits(s, t, row)
  PROVE  LET r == Insert(s, t, row)
         IN /\ SInv(r) /\ Touches(s, r, {t})
            /\ Gains(s, r, t, row)
            /\ DOMAIN Rows(s, t) \subseteq DOMAIN Rows(r, t)
            /\ \/ r.failed \/ IsDuplicate(s, t, row)
               \/ r.lastRowId \in DOMAIN Rows(r, t) /\ Rows(r, t)[r.lastRowId] = row
<1> DEFINE r == Insert(s, t, row)
<1>1. CASE s.failed
  BY <1>1 DEF Insert, Touches, Gains
<1>2. CASE ~ s.failed /\ t \notin DOMAIN s.tables
  <2>1. r = [s EXCEPT !.failed = TRUE]
    BY <1>2 DEF Insert
  <2>2. /\ IsSession(r) /\ ~ r.inTransaction /\ r.failed
        /\ r.tables = s.tables /\ r.durable = s.durable /\ r.lastRowId = s.lastRowId
    BY <2>1 DEF IsSession, SInv
  <2>3. SInv(r)
    BY <2>2, SameSession DEF SInv
  <2>4. QED
    BY <1>2, <2>2, <2>3 DEF Touches, Gains, Rows
<1>3. CASE ~ s.failed /\ t \in DOMAIN s.tables /\ IsDuplicate(s, t, row)
  BY <1>3 DEF Insert, Touches, Gains
<1>4. CASE ~ s.failed /\ t \in DOMAIN s.tables /\ ~ IsDuplicate(s, t, row)
  <2> DEFINE id == LastKey(DOMAIN s.tables[t]) + 1
             rows == WithRow(s.tables[t], id, row)
             w == Write(s, t, rows)
  <2>1. r = [w EXCEPT !.lastRowId = id]
    BY <1>4 DEF Insert
  <2>2. IsBounded(DOMAIN s.tables[t])
    BY <1>4 DEF SInv, DbInv, RowsFit
  <2>3. id \in Nat /\ id \notin DOMAIN s.tables[t] /\ IsBounded(DOMAIN s.tables[t] \cup {id})
    BY <2>2, NewRowId
  <2>4. DOMAIN rows = DOMAIN s.tables[t] \cup {id} /\ rows[id] = row
        /\ \A k \in DOMAIN s.tables[t] : k # id => rows[k] = s.tables[t][k]
    BY DEF WithRow
  <2> HIDE DEF id
  <2>5. /\ IsSession(w) /\ ~ w.inTransaction /\ w.failed = s.failed
        /\ w.durable = Append(s.durable, w.tables)
        /\ DOMAIN w.tables = DOMAIN s.tables
        /\ Rows(w, t) = rows
        /\ \A u : u # t => Rows(w, u) = Rows(s, u)
    <3>1. IsSession(s) /\ ~ s.inTransaction
      BY DEF SInv
    <3> HIDE DEF rows
    <3>2. /\ IsSession(w) /\ w.inTransaction = s.inTransaction /\ w.failed = s.failed
          /\ ~ s.inTransaction => w.durable = Append(s.durable, w.tables)
          /\ DOMAIN w.tables = DOMAIN s.tables \cup {t}
          /\ Rows(w, t) = rows
          /\ \A u : u # t => Rows(w, u) = Rows(s, u)
      BY <3>1, WriteIs
    <3> HIDE DEF w
    <3>3. QED
      BY <1>4, <3>1, <3>2
  <2>6. DbInv(w.tables)
    BY <1>4, <2>3, <2>5, RowAdded DEF SInv
  <2> HIDE DEF w, rows
  <2>7. /\ IsSession(r) /\ ~ r.inTransaction /\ r.failed = w.failed
        /\ r.tables = w.tables /\ r.durable = w.durable /\ r.lastRowId = id
    BY <2>1, <2>5 DEF IsSession
  <2> HIDE DEF r
  <2>8. OnDisk(r)
    BY <2>5, <2>6, <2>7, AppendOnDisk DEF SInv
  <2>9. SInv(r)
    BY <2>3, <2>6, <2>7, <2>8 DEF SInv
  <2>10. /\ Rows(r, t) = rows /\ Rows(s, t) = s.tables[t]
         /\ \A u : u # t => Rows(r, u) = Rows(s, u)
    BY <1>4, <2>5, <2>7 DEF Rows
  <2>11. Touches(s, r, {t})
    BY <2>5, <2>7, <2>10 DEF Touches
  <2>12. Gains(s, r, t, row)
    BY <2>3, <2>4, <2>10 DEF Gains
  <2>13. QED
    BY <2>4, <2>7, <2>9, <2>10, <2>11, <2>12 DEF r
<1>5. QED
  BY <1>1, <1>2, <1>3, <1>4

-----------------------------------------------------------------------------
(***************************************************************************)
(* Deleting and pruning within a transaction.                              *)
(***************************************************************************)
\* Session d is reached from e by taking rows out of the tables in T.
Within(e, d, T) ==
  /\ IsSession(d) /\ d.inTransaction
  /\ d.durable = e.durable /\ d.lastRowId = e.lastRowId
  /\ DOMAIN d.tables = DOMAIN e.tables
  /\ \A t : /\ DOMAIN Rows(d, t) \subseteq DOMAIN Rows(e, t)
            /\ \A id \in DOMAIN Rows(d, t) : Rows(d, t)[id] = Rows(e, t)[id]
            /\ t \notin T => Rows(d, t) = Rows(e, t)
  /\ e.failed => d = e

\* Taking out all rows but some of a table.
LEMMA KeptWithin ==
  ASSUME NEW e, IsSession(e), e.inTransaction, ~ e.failed,
         NEW t \in DOMAIN e.tables, NEW T, t \in T,
         NEW kept, DOMAIN kept \subseteq DOMAIN e.tables[t],
         \A id \in DOMAIN kept : kept[id] = e.tables[t][id]
  PROVE  LET d == Write(e, t, kept)
         IN /\ Within(e, d, T) /\ ~ d.failed
            /\ Rows(d, t) = kept
            /\ \A u : u # t => Rows(d, u) = Rows(e, u)
            /\ \A key \in ForeignKeys :
                 key[3] # t /\ Referenced(e, key) => Referenced(d, key)
<1> DEFINE d == Write(e, t, kept)
<1>1. /\ IsSession(d) /\ d.inTransaction
      /\ d.durable = e.durable /\ d.failed = e.failed /\ d.lastRowId = e.lastRowId
      /\ Rows(d, t) = kept
      /\ \A u : u # t => Rows(d, u) = Rows(e, u)
      /\ DOMAIN d.tables = DOMAIN e.tables \cup {t}
  BY WriteIs
<1> HIDE DEF d
<1>2. Rows(e, t) = e.tables[t]
  BY DEF Rows
<1>3. \A u : /\ DOMAIN Rows(d, u) \subseteq DOMAIN Rows(e, u)
             /\ \A id \in DOMAIN Rows(d, u) : Rows(d, u)[id] = Rows(e, u)[id]
             /\ u \notin T => Rows(d, u) = Rows(e, u)
  BY <1>1, <1>2
<1>4. Within(e, d, T)
  BY <1>1, <1>3 DEF Within
<1>5. ASSUME NEW key \in ForeignKeys, key[3] # t, Referenced(e, key)
      PROVE  Referenced(d, key)
  <2>1. Rows(d, key[3]) = Rows(e, key[3])
    BY <1>1, <1>5
  <2>2. QED
    BY <1>3, <1>5, <2>1 DEF Referenced
<1>6. QED
  BY <1>1, <1>4, <1>5 DEF d

\* A deletion can only break the foreign keys that refer to its table.
LEMMA DeleteWithin ==
  ASSUME NEW e, IsSession(e), e.inTransaction, NEW t, NEW ids, NEW T, t \in T
  PROVE  LET d == Delete(e, t, ids)
         IN /\ Within(e, d, T)
            /\ ~ d.failed => t \in DOMAIN d.tables
            /\ d.failed => e.failed \/ t \notin DOMAIN e.tables
            /\ \A key \in ForeignKeys :
                 key[3] # t /\ Referenced(e, key) => Referenced(d, key)
            /\ \A id \in DOMAIN Rows(e, t) : id \notin ids => id \in DOMAIN Rows(d, t)
<1> DEFINE d == Delete(e, t, ids)
           kept == Restrict(e.tables[t], DOMAIN e.tables[t] \ ids)
<1>1. CASE e.failed
  BY <1>1 DEF Delete, Within
<1>2. CASE ~ e.failed /\ t \notin DOMAIN e.tables
  <2>1. d = [e EXCEPT !.failed = TRUE]
    BY <1>2 DEF Delete
  <2>2. /\ IsSession(d) /\ d.inTransaction = e.inTransaction /\ d.failed
        /\ d.tables = e.tables /\ d.durable = e.durable /\ d.lastRowId = e.lastRowId
    BY <2>1 DEF IsSession
  <2>3. QED
    BY <1>2, <2>2 DEF Within, Referenced, Rows
<1>3. CASE ~ e.failed /\ t \in DOMAIN e.tables
  <2>1. d = Write(e, t, kept)
    BY <1>3 DEF Delete
  <2>2. /\ DOMAIN kept = DOMAIN e.tables[t] \ ids
        /\ \A id \in DOMAIN kept : kept[id] = e.tables[t][id]
    BY DEF Restrict
  <2> HIDE DEF kept, d
  <2>3. /\ Within(e, d, T) /\ ~ d.failed /\ Rows(d, t) = kept
        /\ \A key \in ForeignKeys :
             key[3] # t /\ Referenced(e, key) => Referenced(d, key)
    BY <1>3, <2>1, <2>2, KeptWithin
  <2>4. \A id \in DOMAIN Rows(e, t) : id \notin ids => id \in DOMAIN Rows(d, t)
    BY <1>3, <2>2, <2>3 DEF Rows
  <2>5. QED
    BY <1>3, <2>3, <2>4 DEF Within, d
<1>4. QED
  BY <1>1, <1>2, <1>3

\* Pruning mends the foreign key it is about, if there is the table that this
\* refers to, and can only break those that refer to the table it prunes.
LEMMA PruneWithin ==
  ASSUME NEW e, IsSession(e), e.inTransaction, NEW T,
         NEW t \in T, NEW column, NEW parent, t # parent
  PROVE  LET d == Prune(e, t, column, parent)
         IN /\ Within(e, d, T) /\ d.failed = e.failed
            /\ \A key \in ForeignKeys :
                 key[3] # t /\ Referenced(e, key) => Referenced(d, key)
            /\ ~ e.failed /\ parent \in DOMAIN e.tables => Referenced(d, <<t, column, parent>>)
            /\ t \notin DOMAIN e.tables => d = e
<1> DEFINE d == Prune(e, t, column, parent)
           left == {id \in DOMAIN e.tables[t] : e.tables[t][id][column] \in DOMAIN e.tables[parent]}
           kept == Restrict(e.tables[t], left)
<1>1. CASE e.failed
  BY <1>1 DEF Prune, Within
<1>2. CASE ~ e.failed /\ t \notin DOMAIN e.tables
  <2>1. d = e /\ Rows(d, t) = << >>
    BY <1>2 DEF Prune, Rows
  <2>2. Referenced(d, <<t, column, parent>>)
    BY <2>1 DEF Referenced
  <2>3. QED
    BY <1>2, <2>1, <2>2 DEF Within
<1>3. CASE ~ e.failed /\ t \in DOMAIN e.tables /\ parent \notin DOMAIN e.tables
  <2>1. d = e
    BY <1>3 DEF Prune
  <2>2. QED
    BY <1>3, <2>1 DEF Within
<1>4. CASE ~ e.failed /\ t \in DOMAIN e.tables /\ parent \in DOMAIN e.tables
  <2>1. d = Write(e, t, kept)
    BY <1>4 DEF Prune
  <2>2. /\ DOMAIN kept \subseteq DOMAIN e.tables[t]
        /\ \A id \in DOMAIN kept : /\ kept[id] = e.tables[t][id]
                                   /\ kept[id][column] \in DOMAIN e.tables[parent]
    BY DEF Restrict
  <2> HIDE DEF kept, d
  <2>3. /\ Within(e, d, T) /\ ~ d.failed /\ Rows(d, t) = kept
        /\ Rows(d, parent) = Rows(e, parent)
        /\ \A key \in ForeignKeys :
             key[3] # t /\ Referenced(e, key) => Referenced(d, key)
    BY <1>4, <2>1, <2>2, KeptWithin
  <2>4. Rows(e, parent) = e.tables[parent]
    BY <1>4 DEF Rows
  <2>5. Referenced(d, <<t, column, parent>>)
    BY <2>2, <2>3, <2>4 DEF Referenced
  <2>6. d.failed = e.failed
    BY <1>4, <2>3 DEF Within, IsSession
  <2>7. QED
    BY <1>4, <2>3, <2>5, <2>6 DEF d
<1>5. QED
  BY <1>1, <1>2, <1>3, <1>4

\* The end of a transaction.
LEMMA EndIs ==
  ASSUME NEW e, IsSession(e), NEW o, o = [e EXCEPT !.inTransaction = FALSE]
  PROVE  /\ IsSession(o) /\ ~ o.inTransaction
         /\ o.tables = e.tables /\ o.durable = e.durable
         /\ o.lastRowId = e.lastRowId /\ o.failed = e.failed
BY DEF IsSession

\* What is rolled back or committed at the end.
LEMMA CommitIs ==
  ASSUME NEW s, IsSession(s), ~ s.inTransaction, NEW T,
         NEW e, Within(TTransaction(s), e, T)
  PROVE  LET r == CommitSqlStatements(s, e)
         IN /\ IsSession(r) /\ ~ r.inTransaction
            /\ r.lastRowId = s.lastRowId
            /\ s.failed => r = s
            /\ r.failed => s.failed \/ e.failed
            /\ \/ r.tables = s.tables /\ r.durable = s.durable
               \/ ~ e.failed /\ r.tables = e.tables /\ r.durable = Append(s.durable, e.tables)
<1> DEFINE r == CommitSqlStatements(s, e)
           o == [e EXCEPT !.inTransaction = FALSE]
<1>1. e.durable = s.durable /\ e.lastRowId = s.lastRowId /\ IsSession(e)
  BY DEF Within, TTransaction, IsSession
<1>2. CASE s.failed
  BY <1>2 DEF CommitSqlStatements
<1>3. CASE ~ s.failed /\ e.failed
  <2>1. r = [e EXCEPT !.tables = s.tables, !.inTransaction = FALSE]
    BY <1>3 DEF CommitSqlStatements
  <2> HIDE DEF r
  <2>2. /\ r.tables = s.tables /\ r.durable = e.durable /\ r.lastRowId = e.lastRowId
        /\ IsSession(r) /\ ~ r.inTransaction
    BY <1>1, <2>1 DEF IsSession
  <2>3. QED
    BY <1>1, <1>3, <2>2 DEF r
<1>4. CASE ~ s.failed /\ ~ e.failed
  <2>1. r = Autocommit(o)
    BY <1>4 DEF CommitSqlStatements
  <2>2. /\ ~ o.inTransaction /\ o.tables = e.tables /\ o.durable = e.durable
        /\ o.lastRowId = e.lastRowId /\ o.failed = e.failed /\ IsSession(o)
    BY <1>1, EndIs
  <2>3. r = [o EXCEPT !.durable = Append(@, o.tables)]
    BY <2>1, <2>2 DEF Autocommit
  <2> HIDE DEF r, o
  <2>4. /\ r.tables = e.tables /\ r.durable = Append(s.durable, e.tables)
        /\ r.lastRowId = e.lastRowId /\ IsSession(r) /\ ~ r.inTransaction
        /\ r.failed = e.failed
    BY <1>1, <2>2, <2>3 DEF IsSession
  <2>5. QED
    BY <1>1, <1>4, <2>4 DEF r
<1>5. QED
  BY <1>2, <1>3, <1>4 DEF IsSession

-----------------------------------------------------------------------------
(***************************************************************************)
(* The transaction of a new version.                                       *)
(***************************************************************************)
Children(t) == {key \in ForeignKeys : key[3] = t}

\* Session d is on the way from s to a commit, and has not broken any foreign
\* key but those given, nor touched a table but those in T.
OnTheWay(s, d, broken, T) ==
  /\ Within(TTransaction(s), d, T)
  /\ DOMAIN d.tables = DOMAIN s.tables
  /\ d.failed => s.failed \/ ~ (T \subseteq DOMAIN s.tables)
  /\ ~ d.failed =>
       \A key \in ForeignKeys \ broken : Referenced(s, key) => Referenced(d, key)

\* What may be broken after rows of table t have been taken out, so that its
\* foreign key is mended.
Leaves(broken, t, mended, left) == (broken \cup Children(t)) \ {mended} \subseteq left

\* The tables that are deleted from or pruned, and what refers to them.
LEMMA ChildrenAre ==
  /\ Children("Service") = {<<"ServiceComponent", "fkey", "Service">>}
  /\ Children("Event") = {<<"EventItem", "event_fk", "Event">>,
                          <<"EventComponent", "fkey", "Event">>}
  /\ Children("Sdt") = {<<"SdtDescriptor", "fkey", "Sdt">>}
  /\ Children("Eit") = {<<"EitDescriptor", "fkey", "Eit">>}
  /\ Children("Bat") = {<<"BatDescriptor", "fkey", "Bat">>,
                        <<"BatTransport", "bat_fk", "Bat">>}
  /\ Children("Bouquet") = {BouquetKey}
  /\ Children("BatTransport") = {<<"BatTransportDescriptor", "fkey", "BatTransport">>}
  /\ \A t \in {"ServiceComponent", "EventItem", "EventComponent", "SdtDescriptor",
               "EitDescriptor", "BatDescriptor", "BatTransportDescriptor"} :
       Children(t) = {}
  BY DEF Children, ForeignKeys, BouquetKey

\* A transaction begins with nothing broken.
LEMMA BeginStep ==
  ASSUME NEW s, IsSession(s), NEW T
  PROVE  OnTheWay(s, TTransaction(s), {}, T)
<1> DEFINE d == TTransaction(s)
<1>1. IsSession(d) /\ d.inTransaction /\ d.tables = s.tables /\ d.failed = s.failed
  <2>1. d = [s EXCEPT !.inTransaction = TRUE]
    BY DEF TTransaction
  <2> HIDE DEF d
  <2>2. QED
    BY <2>1 DEF IsSession
<1> HIDE DEF d
<1>2. d = TTransaction(s)
  BY DEF d
<1>3. QED
  BY <1>1, <1>2 DEF OnTheWay, Within, Referenced, Rows

\* A deletion breaks what refers to its table.
LEMMA DeleteStep ==
  ASSUME NEW s, NEW e, NEW broken, NEW T, OnTheWay(s, e, broken, T),
         NEW t \in T, NEW ids, NEW left, broken \cup Children(t) \subseteq left
  PROVE  LET d == Delete(e, t, ids)
         IN /\ OnTheWay(s, d, left, T)
            /\ ~ d.failed => t \in DOMAIN d.tables
<1> DEFINE d == Delete(e, t, ids)
<1>1. IsSession(e) /\ e.inTransaction
  BY DEF OnTheWay, Within
<1>2. /\ Within(e, d, T)
      /\ ~ d.failed => t \in DOMAIN d.tables
      /\ d.failed => e.failed \/ t \notin DOMAIN e.tables
      /\ \A key \in ForeignKeys :
           key[3] # t /\ Referenced(e, key) => Referenced(d, key)
  BY <1>1, DeleteWithin
<1> HIDE DEF d
<1>3. Within(TTransaction(s), d, T)
  BY <1>2 DEF OnTheWay, Within
<1>4. ~ d.failed => ~ e.failed
  BY <1>2 DEF Within
<1>5. ASSUME ~ d.failed, NEW key \in ForeignKeys \ left,
             Referenced(s, key)
      PROVE  Referenced(d, key)
  <2>1. key[3] # t /\ key \notin broken
    BY <1>5 DEF Children, Leaves
  <2>2. Referenced(e, key)
    BY <1>4, <1>5, <2>1 DEF OnTheWay
  <2>3. QED
    BY <1>2, <2>1, <2>2
<1>6. /\ DOMAIN d.tables = DOMAIN s.tables
      /\ d.failed => s.failed \/ ~ (T \subseteq DOMAIN s.tables)
  BY <1>2 DEF OnTheWay, Within
<1>7. QED
  BY <1>2, <1>3, <1>5, <1>6 DEF OnTheWay, d

\* Pruning mends one foreign key and breaks what refers to the table pruned.
LEMMA PruneStep ==
  ASSUME NEW s, NEW e, NEW broken, NEW T, OnTheWay(s, e, broken, T),
         NEW t \in T, NEW column, NEW parent, t # parent,
         NEW mended, mended = <<t, column, parent>>,
         NEW left, Leaves(broken, t, mended, left),
         ~ e.failed => parent \in DOMAIN e.tables
  PROVE  LET d == Prune(e, t, column, parent)
         IN /\ OnTheWay(s, d, left, T)
            /\ d.failed = e.failed
            /\ DOMAIN d.tables = DOMAIN e.tables
            /\ t \notin DOMAIN e.tables => d = e
<1> DEFINE d == Prune(e, t, column, parent)
<1>1. IsSession(e) /\ e.inTransaction
  BY DEF OnTheWay, Within
<1>2. /\ Within(e, d, T) /\ d.failed = e.failed
      /\ \A key \in ForeignKeys :
           key[3] # t /\ Referenced(e, key) => Referenced(d, key)
      /\ ~ e.failed => Referenced(d, <<t, column, parent>>)
      /\ t \notin DOMAIN e.tables => d = e
  BY <1>1, PruneWithin
<1> HIDE DEF d
<1>3. Within(TTransaction(s), d, T)
  BY <1>2 DEF OnTheWay, Within
<1>4. ASSUME ~ d.failed,
             NEW key \in ForeignKeys \ left, Referenced(s, key)
      PROVE  Referenced(d, key)
  <2>1. CASE key = <<t, column, parent>>
    BY <1>2, <1>4, <2>1
  <2>2. CASE key # <<t, column, parent>>
    <3>1. key[3] # t /\ key \notin broken
      BY <1>4, <2>2 DEF Children, Leaves
    <3>2. Referenced(e, key)
      BY <1>2, <1>4, <3>1 DEF OnTheWay
    <3>3. QED
      BY <1>2, <3>1, <3>2
  <2>3. QED
    BY <2>1, <2>2
<1>5. QED
  BY <1>2, <1>3, <1>4 DEF OnTheWay, Within, d

\* What r makes of s: all of it in one commit or nothing, and no reference
\* that is not one.
IsAtomic(s, r) ==
  \/ r.tables = s.tables /\ r.durable = s.durable
  \/ r.durable = Append(s.durable, r.tables)

KeepsReferences(s, r) ==
  \A key \in ForeignKeys : Referenced(s, key) => Referenced(r, key)

\* Rows of the tables in T are taken away in one commit, or nothing.
Thins(s, r, T) ==
  /\ IsSession(r) /\ ~ r.inTransaction
  /\ r.lastRowId = s.lastRowId
  /\ DOMAIN r.tables = DOMAIN s.tables
  /\ \A t : /\ DOMAIN Rows(r, t) \subseteq DOMAIN Rows(s, t)
            /\ \A id \in DOMAIN Rows(r, t) : Rows(r, t)[id] = Rows(s, t)[id]
            /\ t \notin T => Rows(r, t) = Rows(s, t)
  /\ s.failed => r = s
  /\ r.failed => s.failed \/ ~ (T \subseteq DOMAIN s.tables)
  /\ IsAtomic(s, r)

LEMMA CommitStep ==
  ASSUME NEW s, IsSession(s), ~ s.inTransaction, NEW broken, NEW T,
         NEW e, OnTheWay(s, e, broken, T)
  PROVE  LET r == CommitSqlStatements(s, e)
         IN /\ Thins(s, r, T) /\ IsAtomic(s, r)
            /\ \A key \in ForeignKeys \ broken : Referenced(s, key) => Referenced(r, key)
<1> DEFINE r == CommitSqlStatements(s, e)
<1>1. Within(TTransaction(s), e, T)
  BY DEF OnTheWay
<1>2. /\ IsSession(r) /\ ~ r.inTransaction
      /\ r.lastRowId = s.lastRowId
      /\ s.failed => r = s
      /\ r.failed => s.failed \/ e.failed
      /\ \/ r.tables = s.tables /\ r.durable = s.durable
         \/ ~ e.failed /\ r.tables = e.tables /\ r.durable = Append(s.durable, e.tables)
  BY <1>1, CommitIs
<1> HIDE DEF r
<1>3. IsAtomic(s, r) /\ (r.failed => s.failed \/ ~ (T \subseteq DOMAIN s.tables))
  BY <1>2 DEF IsAtomic, OnTheWay
<1>4. TTransaction(s).tables = s.tables
  BY DEF TTransaction, IsSession
<1>5. CASE r.tables = s.tables
  <2>1. \A t : Rows(r, t) = Rows(s, t)
    BY <1>5 DEF Rows
  <2>2. Thins(s, r, T)
    BY <1>2, <1>3, <1>5, <2>1 DEF Thins
  <2>3. \A key : Referenced(s, key) => Referenced(r, key)
    BY <2>1 DEF Referenced
  <2>4. QED
    BY <1>3, <2>2, <2>3 DEF r
<1>6. CASE ~ e.failed /\ r.tables = e.tables
  <2>1. \A t : Rows(r, t) = Rows(e, t) /\ Rows(TTransaction(s), t) = Rows(s, t)
    BY <1>4, <1>6 DEF Rows
  <2>2. Thins(s, r, T)
    BY <1>1, <1>2, <1>3, <1>4, <1>6, <2>1 DEF Thins, Within
  <2>3. \A key \in ForeignKeys \ broken : Referenced(s, key) => Referenced(e, key)
    BY <1>6 DEF OnTheWay
  <2>4. \A key : Referenced(e, key) => Referenced(r, key)
    BY <2>1 DEF Referenced
  <2>5. QED
    BY <1>3, <2>2, <2>3, <2>4 DEF r
<1>7. QED
  BY <1>2, <1>5, <1>6

\* The rows of those ids are gone from table t, unless the session failed.
Rid(s, t, ids) == s.failed \/ DOMAIN Rows(s, t) \cap ids = {}

LEMMA DeleteRids ==
  ASSUME NEW e, IsSession(e), e.inTransaction, NEW t, NEW ids
  PROVE  Rid(Delete(e, t, ids), t, ids)
<1> DEFINE d == Delete(e, t, ids)
           kept == Restrict(e.tables[t], DOMAIN e.tables[t] \ ids)
<1>1. CASE e.failed
  BY <1>1 DEF Delete, Rid
<1>2. CASE ~ e.failed /\ t \notin DOMAIN e.tables
  <2>1. d = [e EXCEPT !.failed = TRUE]
    BY <1>2 DEF Delete
  <2>2. d.failed
    BY <2>1 DEF IsSession
  <2>3. QED
    BY <2>2 DEF Rid
<1>3. CASE ~ e.failed /\ t \in DOMAIN e.tables
  <2>1. d = Write(e, t, kept)
    BY <1>3 DEF Delete
  <2>2. DOMAIN kept \cap ids = {}
    BY DEF Restrict
  <2> HIDE DEF kept, d
  <2>3. Rows(d, t) = kept
    BY <2>1, WriteIs
  <2>4. QED
    BY <2>2, <2>3 DEF Rid, d
<1>4. QED
  BY <1>1, <1>2, <1>3

LEMMA WithinRids ==
  ASSUME NEW e, NEW d, NEW T, Within(e, d, T), NEW t, NEW ids, Rid(e, t, ids)
  PROVE  Rid(d, t, ids)
<1>1. DOMAIN Rows(d, t) \subseteq DOMAIN Rows(e, t) /\ (e.failed => d = e)
  BY DEF Within
<1>2. QED
  BY <1>1 DEF Rid

LEMMA CommitRids ==
  ASSUME NEW s, IsSession(s), ~ s.inTransaction, NEW e, IsSession(e), e.inTransaction,
         NEW t, NEW ids, Rid(e, t, ids)
  PROVE  Rid(CommitSqlStatements(s, e), t, ids)
<1> DEFINE r == CommitSqlStatements(s, e)
           o == [e EXCEPT !.inTransaction = FALSE]
<1>1. CASE s.failed
  BY <1>1 DEF CommitSqlStatements, Rid
<1>2. CASE ~ s.failed /\ e.failed
  <2>1. r = [e EXCEPT !.tables = s.tables, !.inTransaction = FALSE]
    BY <1>2 DEF CommitSqlStatements
  <2>2. r.failed
    BY <1>2, <2>1 DEF IsSession
  <2>3. QED
    BY <2>2 DEF Rid
<1>3. CASE ~ s.failed /\ ~ e.failed
  <2>1. r = Autocommit(o)
    BY <1>3 DEF CommitSqlStatements
  <2>2. IsSession(o) /\ ~ o.inTransaction /\ o.tables = e.tables
    BY EndIs
  <2>3. r = [o EXCEPT !.durable = Append(@, o.tables)]
    BY <2>1, <2>2 DEF Autocommit
  <2> HIDE DEF r, o
  <2>4. r.tables = e.tables
    BY <2>2, <2>3 DEF IsSession
  <2>5. QED
    BY <1>3, <2>4 DEF Rid, Rows, r
<1>4. QED
  BY <1>1, <1>2, <1>3

-----------------------------------------------------------------------------
(***************************************************************************)
(* The five handlers of a new version.                                     *)
(***************************************************************************)
LEMMA DropServiceIs ==
  ASSUME NEW s, IsSession(s), ~ s.inTransaction, NEW sdt, NEW service,
         NEW T, "Service" \in T, "ServiceComponent" \in T, "Event" \in T,
         "EventItem" \in T, "EventComponent" \in T
  PROVE  LET r == DropService(s, sdt, service)
         IN IsAtomic(s, r) /\ KeepsReferences(s, r) /\ Thins(s, r, T)
<1> DEFINE d1 == Delete(TTransaction(s), "Service",
                        OtherVersion(s, "Service", ServiceRows(s, sdt, service), sdt.version))
           d2 == Prune(d1, "ServiceComponent", "fkey", "Service")
           d3 == Delete(d2, "Event", EventsOf(d2, "Event", sdt, service))
           d4 == Prune(d3, "EventItem", "event_fk", "Event")
           d5 == Prune(d4, "EventComponent", "fkey", "Event")
<1>1. OnTheWay(s, d1, {<<"ServiceComponent", "fkey", "Service">>}, T)
      /\ (~ d1.failed => "Service" \in DOMAIN d1.tables)
  <2>1. OnTheWay(s, TTransaction(s), {}, T)
    BY BeginStep
  <2>2. {} \cup Children("Service")
          \subseteq {<<"ServiceComponent", "fkey", "Service">>}
    BY ChildrenAre
  <2>3. QED
    BY <2>1, <2>2, DeleteStep
<1>2. OnTheWay(s, d2, {}, T)
      /\ (~ d2.failed => "Service" \in DOMAIN d2.tables)
  <2>2. Leaves({<<"ServiceComponent", "fkey", "Service">>}, "ServiceComponent",
              <<"ServiceComponent", "fkey", "Service">>,
              {})
    BY ChildrenAre DEF Leaves
  <2> HIDE DEF d1
  <2>3. "ServiceComponent" # "Service"
    OBVIOUS
  <2>4. QED
    BY <1>1, <2>2, <2>3, PruneStep
<1>3. OnTheWay(s, d3, {<<"EventItem", "event_fk", "Event">>,
                         <<"EventComponent", "fkey", "Event">>}, T)
      /\ (~ d3.failed => "Event" \in DOMAIN d3.tables)
  <2>2. {} \cup Children("Event")
          \subseteq {<<"EventItem", "event_fk", "Event">>,
                     <<"EventComponent", "fkey", "Event">>}
    BY ChildrenAre
  <2> HIDE DEF d2
  <2>3. QED
    BY <1>2, <2>2, DeleteStep
<1>4. OnTheWay(s, d4, {<<"EventComponent", "fkey", "Event">>}, T)
      /\ (~ d4.failed => "Event" \in DOMAIN d4.tables)
  <2>2. Leaves({<<"EventItem", "event_fk", "Event">>,
               <<"EventComponent", "fkey", "Event">>}, "EventItem",
              <<"EventItem", "event_fk", "Event">>,
              {<<"EventComponent", "fkey", "Event">>})
    BY ChildrenAre DEF Leaves
  <2> HIDE DEF d3
  <2>3. "EventItem" # "Event"
    OBVIOUS
  <2>4. QED
    BY <1>3, <2>2, <2>3, PruneStep
<1>5. OnTheWay(s, d5, {}, T)
      /\ (~ d5.failed => "Event" \in DOMAIN d5.tables)
  <2>2. Leaves({<<"EventComponent", "fkey", "Event">>}, "EventComponent",
              <<"EventComponent", "fkey", "Event">>,
              {})
    BY ChildrenAre DEF Leaves
  <2> HIDE DEF d4
  <2>3. "EventComponent" # "Event"
    OBVIOUS
  <2>4. QED
    BY <1>4, <2>2, <2>3, PruneStep
<1>6. DropService(s, sdt, service) = CommitSqlStatements(s, d5)
  BY DEF DropService
<1> HIDE DEF d5
<1>7. QED
  BY <1>5, <1>6, CommitStep DEF KeepsReferences

LEMMA DropSdtIs ==
  ASSUME NEW s, IsSession(s), ~ s.inTransaction, NEW sdt, NEW service,
         NEW T, "Sdt" \in T, "SdtDescriptor" \in T, "Eit" \in T,
         "EitDescriptor" \in T
  PROVE  LET r == DropSdt(s, sdt, service)
         IN IsAtomic(s, r) /\ KeepsReferences(s, r) /\ Thins(s, r, T)
<1> DEFINE d1 == Delete(TTransaction(s), "Sdt",
                        OtherVersion(s, "Sdt", SdtRows(s, sdt, service), sdt.version))
           d2 == Prune(d1, "SdtDescriptor", "fkey", "Sdt")
           d3 == Delete(d2, "Eit", EventsOf(d2, "Eit", sdt, service))
           d4 == Prune(d3, "EitDescriptor", "fkey", "Eit")
<1>1. OnTheWay(s, d1, {<<"SdtDescriptor", "fkey", "Sdt">>}, T)
      /\ (~ d1.failed => "Sdt" \in DOMAIN d1.tables)
  <2>1. OnTheWay(s, TTransaction(s), {}, T)
    BY BeginStep
  <2>2. {} \cup Children("Sdt")
          \subseteq {<<"SdtDescriptor", "fkey", "Sdt">>}
    BY ChildrenAre
  <2>3. QED
    BY <2>1, <2>2, DeleteStep
<1>2. OnTheWay(s, d2, {}, T)
      /\ (~ d2.failed => "Sdt" \in DOMAIN d2.tables)
  <2>2. Leaves({<<"SdtDescriptor", "fkey", "Sdt">>}, "SdtDescriptor",
              <<"SdtDescriptor", "fkey", "Sdt">>,
              {})
    BY ChildrenAre DEF Leaves
  <2> HIDE DEF d1
  <2>3. "SdtDescriptor" # "Sdt"
    OBVIOUS
  <2>4. QED
    BY <1>1, <2>2, <2>3, PruneStep
<1>3. OnTheWay(s, d3, {<<"EitDescriptor", "fkey", "Eit">>}, T)
      /\ (~ d3.failed => "Eit" \in DOMAIN d3.tables)
  <2>2. {} \cup Children("Eit")
          \subseteq {<<"EitDescriptor", "fkey", "Eit">>}
    BY ChildrenAre
  <2> HIDE DEF d2
  <2>3. QED
    BY <1>2, <2>2, DeleteStep
<1>4. OnTheWay(s, d4, {}, T)
      /\ (~ d4.failed => "Eit" \in DOMAIN d4.tables)
  <2>2. Leaves({<<"EitDescriptor", "fkey", "Eit">>}, "EitDescriptor",
              <<"EitDescriptor", "fkey", "Eit">>,
              {})
    BY ChildrenAre DEF Leaves
  <2> HIDE DEF d3
  <2>3. "EitDescriptor" # "Eit"
    OBVIOUS
  <2>4. QED
    BY <1>3, <2>2, <2>3, PruneStep
<1>5. DropSdt(s, sdt, service) = CommitSqlStatements(s, d4)
  BY DEF DropSdt
<1> HIDE DEF d4
<1>6. QED
  BY <1>4, <1>5, CommitStep DEF KeepsReferences

LEMMA DropSdtRids ==
  ASSUME NEW s, IsSession(s), ~ s.inTransaction, NEW sdt, NEW service,
         NEW ids, ids = OtherVersion(s, "Sdt", SdtRows(s, sdt, service), sdt.version)
  PROVE  Rid(DropSdt(s, sdt, service), "Sdt", ids)
<1> DEFINE begun == TTransaction(s)
           d1 == Delete(begun, "Sdt", ids)
           d2 == Prune(d1, "SdtDescriptor", "fkey", "Sdt")
           d3 == Delete(d2, "Eit", EventsOf(d2, "Eit", sdt, service))
           d4 == Prune(d3, "EitDescriptor", "fkey", "Eit")
<1>1. IsSession(begun) /\ begun.inTransaction
  BY BeginStep DEF OnTheWay, Within
<1> HIDE DEF begun
<1>2. IsSession(d1) /\ d1.inTransaction /\ Rid(d1, "Sdt", ids)
  <2>1. Within(begun, d1, {"Sdt"})
    BY <1>1, DeleteWithin
  <2>2. QED
    BY <1>1, <2>1, DeleteRids DEF Within
<1> HIDE DEF d1
<1>3. IsSession(d2) /\ d2.inTransaction /\ Rid(d2, "Sdt", ids)
  <2>1. Within(d1, d2, {"SdtDescriptor"})
    <3>1. "SdtDescriptor" # "Sdt"
      OBVIOUS
    <3>2. QED
      BY <1>2, <3>1, PruneWithin
  <2>2. QED
    BY <1>2, <2>1, WithinRids DEF Within
<1> HIDE DEF d2
<1>4. IsSession(d3) /\ d3.inTransaction /\ Rid(d3, "Sdt", ids)
  <2>1. Within(d2, d3, {"Eit"})
    BY <1>3, DeleteWithin
  <2>2. QED
    BY <1>3, <2>1, WithinRids DEF Within
<1> HIDE DEF d3
<1>5. IsSession(d4) /\ d4.inTransaction /\ Rid(d4, "Sdt", ids)
  <2>1. Within(d3, d4, {"EitDescriptor"})
    <3>1. "EitDescriptor" # "Eit"
      OBVIOUS
    <3>2. QED
      BY <1>4, <3>1, PruneWithin
  <2>2. QED
    BY <1>4, <2>1, WithinRids DEF Within
<1>6. DropSdt(s, sdt, service) = CommitSqlStatements(s, d4)
  BY DEF DropSdt, begun, d1, d2, d3
<1> HIDE DEF d4
<1>7. QED
  BY <1>5, <1>6, CommitRids

LEMMA DropBatIs ==
  ASSUME NEW s, IsSession(s), ~ s.inTransaction, NEW bat,
         NEW T, "Bat" \in T, "BatDescriptor" \in T, "BatTransport" \in T,
         "BatTransportDescriptor" \in T
  PROVE  LET r == DropBat(s, bat)
         IN IsAtomic(s, r) /\ KeepsReferences(s, r) /\ Thins(s, r, T)
<1> DEFINE d1 == Delete(TTransaction(s), "Bat",
                        OtherVersion(s, "Bat", Matching(s, "Bat", Bouquet(bat)), bat.version))
           d2 == Prune(d1, "BatDescriptor", "fkey", "Bat")
           d3 == Prune(d2, "BatTransport", "bat_fk", "Bat")
           d4 == Prune(d3, "BatTransportDescriptor", "fkey", "BatTransport")
<1>1. OnTheWay(s, d1, {<<"BatDescriptor", "fkey", "Bat">>,
                         <<"BatTransport", "bat_fk", "Bat">>}, T)
      /\ (~ d1.failed => "Bat" \in DOMAIN d1.tables)
  <2>1. OnTheWay(s, TTransaction(s), {}, T)
    BY BeginStep
  <2>2. {} \cup Children("Bat")
          \subseteq {<<"BatDescriptor", "fkey", "Bat">>,
                     <<"BatTransport", "bat_fk", "Bat">>}
    BY ChildrenAre
  <2>3. QED
    BY <2>1, <2>2, DeleteStep
<1>2. OnTheWay(s, d2, {<<"BatTransport", "bat_fk", "Bat">>}, T)
      /\ (~ d2.failed => "Bat" \in DOMAIN d2.tables)
  <2>2. Leaves({<<"BatDescriptor", "fkey", "Bat">>,
               <<"BatTransport", "bat_fk", "Bat">>}, "BatDescriptor",
              <<"BatDescriptor", "fkey", "Bat">>,
              {<<"BatTransport", "bat_fk", "Bat">>})
    BY ChildrenAre DEF Leaves
  <2> HIDE DEF d1
  <2>3. "BatDescriptor" # "Bat"
    OBVIOUS
  <2>4. QED
    BY <1>1, <2>2, <2>3, PruneStep
<1>3. OnTheWay(s, d3, {<<"BatTransportDescriptor", "fkey", "BatTransport">>}, T)
      /\ (~ d3.failed => "Bat" \in DOMAIN d3.tables)
  <2>2. Leaves({<<"BatTransport", "bat_fk", "Bat">>}, "BatTransport",
              <<"BatTransport", "bat_fk", "Bat">>,
              {<<"BatTransportDescriptor", "fkey", "BatTransport">>})
    BY ChildrenAre DEF Leaves
  <2> HIDE DEF d2
  <2>3. "BatTransport" # "Bat"
    OBVIOUS
  <2>4. QED
    BY <1>2, <2>2, <2>3, PruneStep
\* Without the table BatTransport nothing has been pruned, and the only key
\* broken so far is that of a table without rows.
<1>4. OnTheWay(s, d4, {}, T)
  <2>1. CASE "BatTransport" \in DOMAIN d2.tables
    <3>1. DOMAIN d3.tables = DOMAIN d2.tables
      <4>1. Leaves({<<"BatTransport", "bat_fk", "Bat">>}, "BatTransport",
                   <<"BatTransport", "bat_fk", "Bat">>,
                   {<<"BatTransportDescriptor", "fkey", "BatTransport">>})
        BY ChildrenAre DEF Leaves
      <4> HIDE DEF d2
      <4>2. "BatTransport" # "Bat"
        OBVIOUS
      <4>3. QED
        BY <1>2, <4>1, <4>2, PruneStep
    <3>2. Leaves({<<"BatTransportDescriptor", "fkey", "BatTransport">>},
                 "BatTransportDescriptor",
                 <<"BatTransportDescriptor", "fkey", "BatTransport">>, {})
      BY ChildrenAre DEF Leaves
    <3> HIDE DEF d2, d3
    <3>3. "BatTransportDescriptor" # "BatTransport"
      OBVIOUS
    <3>4. QED
      BY <1>3, <2>1, <3>1, <3>2, <3>3, PruneStep
  <2>2. CASE "BatTransport" \notin DOMAIN d2.tables
    <3> HIDE DEF d2
    <3>1. d3 = d2
      BY <2>2 DEF Prune
    <3> HIDE DEF d3
    <3>2. d4 = d3
      BY <2>2, <3>1 DEF Prune
    <3> HIDE DEF d4
    <3>3. Referenced(d2, <<"BatTransport", "bat_fk", "Bat">>)
      BY <2>2 DEF Referenced, Rows
    <3>4. QED
      BY <1>2, <3>1, <3>2, <3>3 DEF OnTheWay
  <2>3. QED
    BY <2>1, <2>2
<1>5. DropBat(s, bat) = CommitSqlStatements(s, d4)
  BY DEF DropBat
<1> HIDE DEF d4
<1>6. QED
  BY <1>4, <1>5, CommitStep DEF KeepsReferences

LEMMA DropBatRids ==
  ASSUME NEW s, IsSession(s), ~ s.inTransaction, NEW bat,
         NEW ids, ids = OtherVersion(s, "Bat", Matching(s, "Bat", Bouquet(bat)), bat.version)
  PROVE  Rid(DropBat(s, bat), "Bat", ids)
<1> DEFINE begun == TTransaction(s)
           d1 == Delete(begun, "Bat", ids)
           d2 == Prune(d1, "BatDescriptor", "fkey", "Bat")
           d3 == Prune(d2, "BatTransport", "bat_fk", "Bat")
           d4 == Prune(d3, "BatTransportDescriptor", "fkey", "BatTransport")
<1>1. IsSession(begun) /\ begun.inTransaction
  BY BeginStep DEF OnTheWay, Within
<1> HIDE DEF begun
<1>2. IsSession(d1) /\ d1.inTransaction /\ Rid(d1, "Bat", ids)
  <2>1. Within(begun, d1, {"Bat"})
    BY <1>1, DeleteWithin
  <2>2. QED
    BY <1>1, <2>1, DeleteRids DEF Within
<1> HIDE DEF d1
<1>3. IsSession(d2) /\ d2.inTransaction /\ Rid(d2, "Bat", ids)
  <2>1. Within(d1, d2, {"BatDescriptor"})
    <3>1. "BatDescriptor" # "Bat"
      OBVIOUS
    <3>2. QED
      BY <1>2, <3>1, PruneWithin
  <2>2. QED
    BY <1>2, <2>1, WithinRids DEF Within
<1> HIDE DEF d2
<1>4. IsSession(d3) /\ d3.inTransaction /\ Rid(d3, "Bat", ids)
  <2>1. Within(d2, d3, {"BatTransport"})
    <3>1. "BatTransport" # "Bat"
      OBVIOUS
    <3>2. QED
      BY <1>3, <3>1, PruneWithin
  <2>2. QED
    BY <1>3, <2>1, WithinRids DEF Within
<1> HIDE DEF d3
<1>5. IsSession(d4) /\ d4.inTransaction /\ Rid(d4, "Bat", ids)
  <2>1. Within(d3, d4, {"BatTransportDescriptor"})
    <3>1. "BatTransportDescriptor" # "BatTransport"
      OBVIOUS
    <3>2. QED
      BY <1>4, <3>1, PruneWithin
  <2>2. QED
    BY <1>4, <2>1, WithinRids DEF Within
<1>6. DropBat(s, bat) = CommitSqlStatements(s, d4)
  BY DEF DropBat, begun, d1, d2, d3
<1> HIDE DEF d4
<1>7. QED
  BY <1>5, <1>6, CommitRids

LEMMA DropEitIs ==
  ASSUME NEW s, IsSession(s), ~ s.inTransaction, NEW eit,
         NEW T, "Eit" \in T, "EitDescriptor" \in T
  PROVE  LET r == DropEit(s, eit)
         IN IsAtomic(s, r) /\ KeepsReferences(s, r) /\ Thins(s, r, T)
<1> DEFINE d1 == Delete(TTransaction(s), "Eit", RowsOfOldVersion(s, "Eit", eit))
           d2 == Prune(d1, "EitDescriptor", "fkey", "Eit")
<1>1. OnTheWay(s, d1, {<<"EitDescriptor", "fkey", "Eit">>}, T)
      /\ (~ d1.failed => "Eit" \in DOMAIN d1.tables)
  <2>1. OnTheWay(s, TTransaction(s), {}, T)
    BY BeginStep
  <2>2. {} \cup Children("Eit")
          \subseteq {<<"EitDescriptor", "fkey", "Eit">>}
    BY ChildrenAre
  <2>3. QED
    BY <2>1, <2>2, DeleteStep
<1>2. OnTheWay(s, d2, {}, T)
      /\ (~ d2.failed => "Eit" \in DOMAIN d2.tables)
  <2>2. Leaves({<<"EitDescriptor", "fkey", "Eit">>}, "EitDescriptor",
              <<"EitDescriptor", "fkey", "Eit">>,
              {})
    BY ChildrenAre DEF Leaves
  <2> HIDE DEF d1
  <2>3. "EitDescriptor" # "Eit"
    OBVIOUS
  <2>4. QED
    BY <1>1, <2>2, <2>3, PruneStep
<1>3. DropEit(s, eit) = CommitSqlStatements(s, d2)
  BY DEF DropEit
<1> HIDE DEF d2
<1>4. QED
  BY <1>2, <1>3, CommitStep DEF KeepsReferences

LEMMA DropEventIs ==
  ASSUME NEW s, IsSession(s), ~ s.inTransaction, NEW eit,
         NEW T, "Event" \in T, "EventItem" \in T, "EventComponent" \in T
  PROVE  LET r == DropEvent(s, eit)
         IN IsAtomic(s, r) /\ KeepsReferences(s, r) /\ Thins(s, r, T)
<1> DEFINE d1 == Delete(TTransaction(s), "Event", RowsOfOldVersion(s, "Event", eit))
           d2 == Prune(d1, "EventItem", "event_fk", "Event")
           d3 == Prune(d2, "EventComponent", "fkey", "Event")
<1>1. OnTheWay(s, d1, {<<"EventItem", "event_fk", "Event">>,
                         <<"EventComponent", "fkey", "Event">>}, T)
      /\ (~ d1.failed => "Event" \in DOMAIN d1.tables)
  <2>1. OnTheWay(s, TTransaction(s), {}, T)
    BY BeginStep
  <2>2. {} \cup Children("Event")
          \subseteq {<<"EventItem", "event_fk", "Event">>,
                     <<"EventComponent", "fkey", "Event">>}
    BY ChildrenAre
  <2>3. QED
    BY <2>1, <2>2, DeleteStep
<1>2. OnTheWay(s, d2, {<<"EventComponent", "fkey", "Event">>}, T)
      /\ (~ d2.failed => "Event" \in DOMAIN d2.tables)
  <2>2. Leaves({<<"EventItem", "event_fk", "Event">>,
               <<"EventComponent", "fkey", "Event">>}, "EventItem",
              <<"EventItem", "event_fk", "Event">>,
              {<<"EventComponent", "fkey", "Event">>})
    BY ChildrenAre DEF Leaves
  <2> HIDE DEF d1
  <2>3. "EventItem" # "Event"
    OBVIOUS
  <2>4. QED
    BY <1>1, <2>2, <2>3, PruneStep
<1>3. OnTheWay(s, d3, {}, T)
      /\ (~ d3.failed => "Event" \in DOMAIN d3.tables)
  <2>2. Leaves({<<"EventComponent", "fkey", "Event">>}, "EventComponent",
              <<"EventComponent", "fkey", "Event">>,
              {})
    BY ChildrenAre DEF Leaves
  <2> HIDE DEF d2
  <2>3. "EventComponent" # "Event"
    OBVIOUS
  <2>4. QED
    BY <1>2, <2>2, <2>3, PruneStep
<1>4. DropEvent(s, eit) = CommitSqlStatements(s, d3)
  BY DEF DropEvent
<1> HIDE DEF d3
<1>5. QED
  BY <1>3, <1>4, CommitStep DEF KeepsReferences

-----------------------------------------------------------------------------
(***************************************************************************)
(* The theorems.                                                           *)
(***************************************************************************)
\* What the handlers do to the rows of an old version in a transaction of
\* their own.  The one of Bouquet, which may take a bouquet id for a version,
\* and that of a NIT, which drops the tables, are not among them.
VersionChange(s, r) ==
  \/ \E sdt, service : r = DropService(s, sdt, service) \/ r = DropSdt(s, sdt, service)
  \/ \E bat : r = DropBat(s, bat)
  \/ \E eit : r = DropEit(s, eit) \/ r = DropEvent(s, eit)

LEMMA VersionChangeIs ==
  ASSUME NEW s, IsSession(s), ~ s.inTransaction, NEW r, VersionChange(s, r)
  PROVE  IsAtomic(s, r) /\ KeepsReferences(s, r)
<1> DEFINE T == {"Service", "ServiceComponent", "Event", "EventItem", "EventComponent",
                 "Sdt", "SdtDescriptor", "Eit", "EitDescriptor", "Bat", "BatDescriptor",
                 "BatTransport", "BatTransportDescriptor"}
<1>1. /\ "Service" \in T /\ "ServiceComponent" \in T
      /\ "Event" \in T /\ "EventItem" \in T /\ "EventComponent" \in T
      /\ "Sdt" \in T /\ "SdtDescriptor" \in T /\ "Eit" \in T /\ "EitDescriptor" \in T
      /\ "Bat" \in T /\ "BatDescriptor" \in T
      /\ "BatTransport" \in T /\ "BatTransportDescriptor" \in T
  OBVIOUS
<1> HIDE DEF T
<1>2. QED
  BY <1>1, DropServiceIs, DropSdtIs, DropBatIs, DropEitIs, DropEventIs DEF VersionChange

\* A new version of a table takes the rows of the old one away in one commit
\* or not at all, whatever is in the database and in the table: a crash finds
\* the database before or after it.
THEOREM VersionChangeIsAtomic ==
  ASSUME NEW s, IsSession(s), ~ s.inTransaction, NEW r, VersionChange(s, r)
  PROVE  IsAtomic(s, r)
BY VersionChangeIs

\* And it leaves no row behind by the row it belongs to: a foreign key that
\* held before holds after it.
THEOREM VersionChangeKeepsReferences ==
  ASSUME NEW s, IsSession(s), ~ s.inTransaction, NEW r, VersionChange(s, r)
  PROVE  KeepsReferences(s, r)
BY VersionChangeIs

\* In the state of the module: from a database without orphans, a new version
\* leads to one without.
THEOREM NoOrphansAfterVersionChange ==
  ASSUME NoOrphans, NEW r, VersionChange(Database, r)
  PROVE  \A key \in Kept : Referenced(r, key)
<1>1. /\ IsSession(Database) /\ ~ Database.inTransaction
      /\ Database.tables = tables
  BY DEF Database, Session, IsSession
<1>2. KeepsReferences(Database, r)
  BY <1>1, VersionChangeKeepsReferences
<1>3. \A key \in Kept : Referenced(Database, key)
  <2>1. SUFFICES ASSUME NEW key \in Kept,
                        NEW id \in DOMAIN Rows(Database, key[1])
                 PROVE  Rows(Database, key[1])[id][key[2]] \in DOMAIN Rows(Database, key[3])
    BY DEF Referenced
  <2>2. References(key)
    BY DEF NoOrphans, Kept
  <2>3. key[1] \in DOMAIN tables /\ Rows(Database, key[1]) = tables[key[1]]
    BY <1>1 DEF Rows
  <2>4. QED
    BY <2>2, <2>3 DEF References, Kept
<1>4. QED
  BY <1>2, <1>3 DEF KeepsReferences, Kept

-----------------------------------------------------------------------------
(***************************************************************************)
(* Transactions and loops keep what holds of every database.               *)
(***************************************************************************)
LEMMA ThinIs ==
  ASSUME NEW s, SInv(s),
         NEW T, "Nit" \notin T, "NitTransport" \notin T, "Network" \notin T,
         NEW r, Thins(s, r, T),
         \A key \in Kept : Referenced(s, key) => Referenced(r, key)
  PROVE  SInv(r) /\ Touches(s, r, T)
<1>1. /\ IsSession(r) /\ ~ r.inTransaction
      /\ r.lastRowId = s.lastRowId
      /\ DOMAIN r.tables = DOMAIN s.tables
      /\ \A t : /\ DOMAIN Rows(r, t) \subseteq DOMAIN Rows(s, t)
                /\ \A id \in DOMAIN Rows(r, t) : Rows(r, t)[id] = Rows(s, t)[id]
                /\ t \notin T => Rows(r, t) = Rows(s, t)
      /\ s.failed => r = s
      /\ r.failed => s.failed \/ ~ (T \subseteq DOMAIN s.tables)
      /\ IsAtomic(s, r)
  BY DEF Thins
<1>2. \A t \in DOMAIN s.tables : r.tables[t] = Rows(r, t) /\ s.tables[t] = Rows(s, t)
  BY <1>1 DEF Rows
<1>3. DbInv(r.tables)
  <2>1. DOMAIN r.tables \subseteq ToSet(DatabaseTables)
    BY <1>1 DEF SInv, DbInv
  <2>2. ASSUME NEW t \in DOMAIN r.tables
        PROVE  RowsFit(t, r.tables[t])
    <3>1. RowsFit(t, Rows(s, t))
      BY <1>1, <1>2 DEF SInv, DbInv
    <3>2. IsBounded(DOMAIN Rows(r, t))
      BY <1>1, <3>1, SubsetIsBounded DEF RowsFit
    <3>3. QED
      BY <1>1, <1>2, <3>1, <3>2 DEF RowsFit
  <2>3. \A key \in Kept : Refers(r.tables, key)
    BY ReferencedIsRefers DEF SInv, DbInv
  <2>4. \A id \in DOMAIN Rows(r, "Transport") :
          TransportColumns \cup {"bouquet_fk"} \subseteq DOMAIN Rows(r, "Transport")[id]
    BY <1>1, RowsIsRowsOf DEF SInv, DbInv
  <2>5. "Nit" \in DOMAIN r.tables =>
          \A id \in DOMAIN Rows(r, "Network") : \E nit \in DOMAIN r.tables["Nit"] :
            r.tables["Nit"][nit].network_id = Rows(r, "Network")[id].network_id
    <3>1. SUFFICES ASSUME "Nit" \in DOMAIN r.tables, NEW id \in DOMAIN Rows(r, "Network")
                   PROVE  \E nit \in DOMAIN Rows(r, "Nit") :
                            Rows(r, "Nit")[nit].network_id = Rows(r, "Network")[id].network_id
      BY <1>1, <1>2
    <3>2. \E nit \in DOMAIN Rows(s, "Nit") :
            Rows(s, "Nit")[nit].network_id = Rows(s, "Network")[id].network_id
      BY <1>1, <1>2, <3>1, RowsIsRowsOf DEF SInv, DbInv
    <3>3. QED
      BY <1>1, <3>1, <3>2
  <2>6. ASSUME NEW i \in DOMAIN Rows(r, "Eit"), NEW j \in DOMAIN Rows(r, "Eit"),
               \A column \in EventColumns : Rows(r, "Eit")[i][column] = Rows(r, "Eit")[j][column]
        PROVE  i = j
    BY <1>1, <2>6, RowsIsRowsOf DEF SInv, DbInv
  <2>7. ASSUME NEW t \in {"NitTransport", "Transport"}
        PROVE  OneTransport(Rows(r, t))
    <3>1. OneTransport(Rows(s, t))
      BY RowsIsRowsOf DEF SInv, DbInv
    <3>2. QED
      BY <1>1, <3>1 DEF OneTransport
  <2>8. \A t : \A id \in DOMAIN RowsOf(r.tables, t) :
          IsFiled(r.tables, t, RowsOf(r.tables, t)[id])
    <3>1. \A t : RowsOf(r.tables, t) = Rows(r, t) /\ RowsOf(s.tables, t) = Rows(s, t)
      BY RowsIsRowsOf
    <3>2. Keeps(s.tables, r.tables)
      BY <1>1, <3>1 DEF Keeps, SameRow
    <3>3. \A t : DOMAIN RowsOf(r.tables, t) \subseteq DOMAIN RowsOf(s.tables, t)
      BY <1>1, <3>1
    <3>4. QED
      BY <2>3, <3>2, <3>3, AllFiledStay DEF SInv
  <2>9. DOMAIN Rows(r, "Bat") # {} => HasPreferred(Rows(r, "Network"))
    BY <1>1, RowsIsRowsOf DEF SInv, DbInv
  <2>10. QED
    BY <2>1, <2>2, <2>3, <2>4, <2>5, <2>6, <2>7, <2>8, <2>9, RowsIsRowsOf DEF DbInv
<1>4. OnDisk(r)
  <2>1. CASE r.durable = s.durable
    BY <2>1 DEF SInv, OnDisk
  <2>2. CASE r.durable = Append(s.durable, r.tables)
    BY <1>3, <2>2, AppendOnDisk DEF SInv
  <2>3. QED
    BY <1>1, <2>1, <2>2 DEF IsAtomic
<1>5. Touches(s, r, T)
  BY <1>1 DEF Touches
<1>6. QED
  BY <1>1, <1>3, <1>4, <1>5 DEF SInv

\* What a transaction that keeps the foreign keys makes of a session.
LEMMA TransactionIs ==
  ASSUME NEW s, SInv(s),
         NEW T, "Nit" \notin T, "NitTransport" \notin T, "Network" \notin T,
         NEW r, Thins(s, r, T), KeepsReferences(s, r)
  PROVE  SInv(r) /\ Touches(s, r, T)
<1>1. \A key \in Kept : Referenced(s, key) => Referenced(r, key)
  BY DEF KeepsReferences, Kept
<1>2. QED
  BY <1>1, ThinIs

\* A loop keeps what each of its rounds keeps.
LEMMA RoundsKeep ==
  ASSUME NEW s, NEW T, NEW items, Len(items) \in Nat, NEW after,
         SInv(after[0]), Touches(s, after[0], T),
         \A n \in 1..Len(items) :
           SInv(after[n - 1]) /\ Touches(s, after[n - 1], T)
             => SInv(after[n]) /\ Touches(after[n - 1], after[n], T)
  PROVE  SInv(after[Len(items)]) /\ Touches(s, after[Len(items)], T)
<1> DEFINE S == {n \in Nat : n <= Len(items) => SInv(after[n]) /\ Touches(s, after[n], T)}
<1>1. 0 \in S
  OBVIOUS
<1>2. ASSUME NEW n \in Nat, n \in S
      PROVE  n + 1 \in S
  <2>1. CASE n + 1 <= Len(items)
    <3>1. /\ n + 1 \in 1..Len(items) /\ (n + 1) - 1 = n
          /\ SInv(after[n]) /\ Touches(s, after[n], T)
      BY <1>2, <2>1
    <3>2. SInv(after[n + 1]) /\ Touches(after[n], after[n + 1], T)
      BY <3>1
    <3>3. Touches(s, after[n + 1], T)
      BY <3>1, <3>2, TouchesTrans
    <3>4. QED
      BY <3>2, <3>3
  <2>2. CASE ~ (n + 1 <= Len(items))
    BY <2>2
  <2>3. QED
    BY <2>1, <2>2
<1>3. Nat \subseteq S
  <2> HIDE DEF S
  <2>1. QED
    BY <1>1, <1>2, EachItem!InductionOnNat
<1>4. QED
  BY <1>3

\* The items of a loop.
LEMMA ItemsAre ==
  ASSUME NEW items, IsSeq(items)
  PROVE  Len(items) \in Nat /\ \A n \in 1..Len(items) : items[n] \in ToSet(items)
BY DEF IsSeq

\* The tables of descriptors and what they describe.
DescriptorTables ==
  {<<"NitDescriptor", "Nit">>, <<"NitTransportDescriptor", "NitTransport">>,
   <<"SdtDescriptor", "Sdt">>, <<"EitDescriptor", "Eit">>, <<"BatDescriptor", "Bat">>,
   <<"BatTransportDescriptor", "BatTransport">>}

LEMMA DescriptorFits ==
  ASSUME NEW s, NEW t, NEW parent, <<t, parent>> \in DescriptorTables,
         NEW row, row.fkey \in DOMAIN Rows(s, parent), IsFiled(s.tables, t, row)
  PROVE  Fits(s, t, row)
<1>1. \A key \in ForeignKeys : key[1] = t => key[2] = "fkey" /\ key[3] = parent
  BY DEF ForeignKeys, DescriptorTables
<1>2. t \notin {"NitTransport", "Transport", "Network", "Bouquet", "Eit", "Bat"}
  BY DEF DescriptorTables
<1>3. QED
  BY <1>1, <1>2 DEF Fits, Kept

\* What the rows of the others are filed under.
FilingTables == {"Nit", "NitTransport", "Sdt", "Bat", "Transport", "Network"}

LEMMA FilingFrame ==
  ASSUME NEW s, NEW r, NEW T, Touches(s, r, T), T \cap FilingTables = {},
         NEW t, NEW row, IsFiled(s.tables, t, row)
  PROVE  IsFiled(r.tables, t, row)
<1>1. \A u \in FilingTables : RowsOf(r.tables, u) = RowsOf(s.tables, u)
  BY RowsIsRowsOf DEF Touches
<1>2. DOMAIN r.tables = DOMAIN s.tables
  BY DEF Touches
<1>3. QED
  BY <1>1, <1>2
  DEF FilingTables, IsFiled, FiledUnderNit, FiledUnderBat, FiledUnderSdt, NamedBySdt,
      ListedByNit, Announced

\* There is nothing to show for the other tables.
LEMMA NothingToFile ==
  ASSUME NEW db, NEW row,
         NEW t, t \notin {"NitDescriptor", "BatDescriptor", "SdtDescriptor", "Service", "Transport"}
  PROVE  IsFiled(db, t, row)
BY DEF IsFiled

\* The descriptors of a list are inserted one after the other, in the list's order.
InsertedInOrder(after, s, of, descriptors) ==
  /\ after[0] = s
  /\ \A n \in 1..Len(descriptors) :
       after[n] = Insert(after[n - 1], of.table,
                         [fkey |-> of.fkey, descriptor |-> descriptors[n]])
  /\ EachDescriptor!Run(s, of, descriptors) = after[Len(descriptors)]

LEMMA DescriptorsInOrder ==
  ASSUME NEW s, NEW of, NEW descriptors, Len(descriptors) \in Nat
  PROVE  \E after : InsertedInOrder(after, s, of, descriptors)
BY EachDescriptor!RunIs DEF InsertedInOrder

LEMMA InsertDescriptorIs ==
  ASSUME NEW s, SInv(s), NEW t, NEW parent, <<t, parent>> \in DescriptorTables,
         NEW fkey, s.failed \/ fkey \in DOMAIN Rows(s, parent),
         NEW descriptors, IsSeq(descriptors),
         \/ s.failed
         \/ \A row : row.fkey = fkey /\ row.descriptor \in ToSet(descriptors)
              => IsFiled(s.tables, t, row)
  PROVE  LET r == InsertDescriptor(s, t, fkey, descriptors)
         IN SInv(r) /\ Touches(s, r, {t})
<1> DEFINE of == [table |-> t, fkey |-> fkey]
           r == InsertDescriptor(s, t, fkey, descriptors)
<1>1. CASE fkey = 0 \/ t \notin DOMAIN s.tables
  <2>1. r = s
    BY <1>1 DEF InsertDescriptor
  <2>2. QED
    BY <2>1, TouchesSelf
<1>2. CASE ~ (fkey = 0 \/ t \notin DOMAIN s.tables)
  <2>1. Len(descriptors) \in Nat
    BY ItemsAre
  <2> HIDE DEF of
  <2>2. PICK after : InsertedInOrder(after, s, of, descriptors)
    BY <2>1, DescriptorsInOrder
  <2>3. ASSUME NEW n \in 1..Len(descriptors),
               SInv(after[n - 1]), Touches(s, after[n - 1], {t})
        PROVE  SInv(after[n]) /\ Touches(after[n - 1], after[n], {t})
    <3> DEFINE row == [fkey |-> fkey, descriptor |-> descriptors[n]]
    <3>1. after[n] = Insert(after[n - 1], t, row)
      BY <2>2 DEF InsertedInOrder, of
    <3>2. t # parent
      BY DEF DescriptorTables
    <3>3. row.fkey = fkey
      OBVIOUS
    <3> HIDE DEF row
    <3>4. s.failed \/ IsFiled(after[n - 1].tables, t, row)
      <4>1. {t} \cap FilingTables = {}
        BY DEF DescriptorTables, FilingTables
      <4>2. row.descriptor \in ToSet(descriptors)
        BY ItemsAre DEF row
      <4>3. s.failed \/ IsFiled(s.tables, t, row)
        BY <3>3, <4>2
      <4>4. QED
        BY <2>3, <4>1, <4>3, FilingFrame
    <3>5. after[n - 1].failed \/ Fits(after[n - 1], t, row)
      BY <2>3, <3>2, <3>3, <3>4, DescriptorFits DEF Touches
    <3> HIDE DEF r
    <3>6. LET q == Insert(after[n - 1], t, row)
          IN SInv(q) /\ Touches(after[n - 1], q, {t})
      BY <2>3, <3>5, InsertIs
    <3>7. QED
      BY <3>1, <3>6
  <2>4. r = after[Len(descriptors)]
    BY <1>2, <2>2 DEF InsertDescriptor, InsertedInOrder, of
  <2>5. SInv(after[0]) /\ Touches(s, after[0], {t})
    BY <2>2, TouchesSelf DEF InsertedInOrder
  <2>6. SInv(after[Len(descriptors)]) /\ Touches(s, after[Len(descriptors)], {t})
    BY <2>1, <2>3, <2>5, RoundsKeep
  <2>7. QED
    BY <2>4, <2>6
<1>3. QED
  BY <1>1, <1>2

-----------------------------------------------------------------------------
(***************************************************************************)
(* Looking rows up.                                                        *)
(***************************************************************************)
\* The last of some rows of a table.
LEMMA LastOf ==
  ASSUME NEW s, SInv(s), NEW t, NEW ids, ids \subseteq DOMAIN Rows(s, t)
  PROVE  /\ LastKey(ids) \in Nat
         /\ LastKey(ids) > 0 <=> LastKey(ids) # 0
         /\ LastKey(ids) = 0 <=> ids = {}
         /\ LastKey(ids) # 0 => LastKey(ids) \in ids
<1>1. IsBounded(DOMAIN Rows(s, t))
  <2>1. CASE t \in DOMAIN s.tables
    BY <2>1 DEF SInv, DbInv, RowsFit, Rows
  <2>2. CASE t \notin DOMAIN s.tables
    <3>1. DOMAIN Rows(s, t) \subseteq 1..0
      BY <2>2 DEF Rows
    <3>2. QED
      BY <3>1 DEF IsBounded
  <2>3. QED
    BY <2>1, <2>2
<1>2. IsBounded(ids)
  BY <1>1, SubsetIsBounded
<1>3. QED
  BY <1>2, LastKeyIs

LEMMA MatchingIs ==
  ASSUME NEW s, NEW t, NEW values
  PROVE  Matching(s, t, values) \subseteq DOMAIN Rows(s, t)
BY DEF Matching

\* A row is new if nothing is found under some of the columns of the index.
LEMMA NotDuplicate ==
  ASSUME NEW s, NEW t, NEW values, Matching(s, t, values) = {},
         DOMAIN values \subseteq UniqueIndex[t],
         NEW row, \A column \in DOMAIN values : values[column] = row[column]
  PROVE  ~ IsDuplicate(s, t, row)
<1>1. SUFFICES ASSUME IsDuplicate(s, t, row)
               PROVE  FALSE
  OBVIOUS
<1>2. PICK id : id \in Matching(s, t, Restrict(row, UniqueIndex[t]))
  BY <1>1 DEF IsDuplicate
<1>3. /\ id \in DOMAIN Rows(s, t)
      /\ \A column \in UniqueIndex[t] : Rows(s, t)[id][column] = row[column]
  BY <1>2 DEF Matching, Restrict
<1>4. id \in Matching(s, t, values)
  BY <1>3 DEF Matching
<1>5. QED
  BY <1>4

-----------------------------------------------------------------------------
(***************************************************************************)
(* NIT.                                                                    *)
(***************************************************************************)
\* The row of a NIT that is on air, and that of its network.
NitRow(s, nit, id) ==
  /\ id \in DOMAIN Rows(s, "Nit")
  /\ Rows(s, "Nit")[id].network_id = nit.network /\ Rows(s, "Nit")[id].version = nit.version

NetworkRow(s, nit, id) ==
  id \in DOMAIN Rows(s, "Network") /\ Rows(s, "Network")[id].network_id = nit.network

\* A transport stream among the rows of a table.
IsKnown(s, t, ts) ==
  \E id \in DOMAIN Rows(s, t) : SameTransport(Rows(s, t)[id], TransportId(ts.onid, ts.tsid))

LEMMA KnownIs ==
  ASSUME NEW s, NEW t, NEW ts
  PROVE  IsKnown(s, t, ts) <=> Matching(s, t, TransportId(ts.onid, ts.tsid)) # {}
<1> DEFINE values == TransportId(ts.onid, ts.tsid)
<1>1. /\ DOMAIN values = {"original_network_id", "transport_id"}
      /\ values["original_network_id"] = values.original_network_id
      /\ values["transport_id"] = values.transport_id
  BY DEF TransportId
<1> HIDE DEF values
<1>2. QED
  BY <1>1 DEF IsKnown, Matching, SameTransport, values

LEMMA ProcessTransportIs ==
  ASSUME NEW s, SInv(s), NEW nit, IsSent(nit), nit.kind = "nit",
         NEW ts, ts \in ToSet(nit.transports), NEW nit_fk, NEW network_fk,
         \/ s.failed
         \/ /\ NitRow(s, nit, nit_fk) /\ NetworkRow(s, nit, network_fk)
            /\ IsKnown(s, "NitTransport", ts) /\ ~ IsKnown(s, "Transport", ts)
  PROVE  LET r == ProcessTransport(s, ts, network_fk)
         IN SInv(r) /\ Touches(s, r, {"Transport"})
<1> DEFINE row == [original_network_id |-> ts.onid, transport_id |-> ts.tsid,
                   network_fk |-> network_fk, bouquet_fk |-> NULL, frequency |-> ts.frequency]
           id == TransportId(ts.onid, ts.tsid)
<1>1. /\ row.network_fk = network_fk
      /\ TransportColumns \cup {"bouquet_fk"} \subseteq DOMAIN row
      /\ row.original_network_id = ts.onid /\ row.transport_id = ts.tsid
      /\ row.frequency = ts.frequency
      /\ id.original_network_id = ts.onid /\ id.transport_id = ts.tsid
  BY DEF TransportColumns, TransportId
<1>2. \A key \in ForeignKeys :
        key[1] = "Transport" => \/ key[2] = "network_fk" /\ key[3] = "Network"
                                \/ key = BouquetKey
  BY DEF ForeignKeys, BouquetKey
<1> HIDE DEF row, id
<1>3. ASSUME ~ s.failed
      PROVE  Fits(s, "Transport", row)
  <2>1. ListedByNit(s.tables, row)
    <3>1. /\ nit_fk \in DOMAIN RowsOf(s.tables, "Nit")
          /\ RowsOf(s.tables, "Nit")[nit_fk].network_id = nit.network
          /\ RowsOf(s.tables, "Nit")[nit_fk].version = nit.version
          /\ RowsOf(s.tables, "Network")[network_fk].network_id = nit.network
      BY <1>3, RowsIsRowsOf DEF NitRow, NetworkRow
    <3>2. QED
      BY <1>1, <3>1 DEF ListedByNit
  <2>2. Announced(s.tables, row)
    BY <1>1, <1>3, RowsIsRowsOf DEF Announced, IsKnown, SameTransport, id
  <2>3. \A k \in DOMAIN Rows(s, "Transport") : ~ SameTransport(Rows(s, "Transport")[k], row)
    BY <1>1, <1>3 DEF IsKnown, SameTransport, id
  <2>4. network_fk \in DOMAIN Rows(s, "Network")
    BY <1>3 DEF NetworkRow
  <2>5. IsFiled(s.tables, "Transport", row)
    BY <2>1, <2>2 DEF IsFiled
  <2>6. QED
    BY <1>1, <1>2, <2>3, <2>4, <2>5 DEF Fits, Kept
<1>4. ProcessTransport(s, ts, network_fk) = Insert(s, "Transport", row)
  BY DEF ProcessTransport, row
<1>5. QED
  BY <1>3, <1>4, InsertIs

LEMMA StoreNitTransportIs ==
  ASSUME NEW s, SInv(s), NEW nit, IsSent(nit), nit.kind = "nit",
         NEW ts, ts \in ToSet(nit.transports), IsSeq(ts.descriptors),
         NEW nit_fk, NEW network_fk \in Nat,
         \/ s.failed
         \/ /\ NitRow(s, nit, nit_fk)
            /\ network_fk > 0 => NetworkRow(s, nit, network_fk),
         NEW T, T = {"NitTransport", "NitTransportDescriptor", "Transport"}
  PROVE  LET r == StoreNitTransport(s, ts, nit_fk, network_fk)
         IN SInv(r) /\ Touches(s, r, T)
<1> DEFINE values == TransportId(ts.onid, ts.tsid)
           known == FindPrimaryKey(s, "NitTransport", values)
           row == [original_network_id |-> ts.onid, transport_id |-> ts.tsid,
                   nit_fk |-> nit_fk]
           inserted == Insert(s, "NitTransport", row)
           parsed == IF network_fk > 0 THEN ProcessTransport(inserted, ts, network_fk)
                     ELSE inserted
           r == StoreNitTransport(s, ts, nit_fk, network_fk)
<1>1. /\ known \in Nat
      /\ known > 0 <=> known # 0
      /\ known = 0 => Matching(s, "NitTransport", values) = {}
      /\ known # 0 => known \in DOMAIN Rows(s, "NitTransport")
  BY LastOf, MatchingIs DEF FindPrimaryKey
<1>2. <<"NitTransportDescriptor", "NitTransport">> \in DescriptorTables
  BY DEF DescriptorTables
<1>3. {"NitTransport"} \subseteq T /\ {"NitTransportDescriptor"} \subseteq T
      /\ {"Transport"} \subseteq T
  OBVIOUS
<1>4. CASE known > 0
  <2>1. r = InsertDescriptor(s, "NitTransportDescriptor", known, ts.descriptors)
    BY <1>4 DEF StoreNitTransport
  <2> HIDE DEF r, known
  <2>2. SInv(r) /\ Touches(s, r, {"NitTransportDescriptor"})
    <3>1. \A d : IsFiled(s.tables, "NitTransportDescriptor", d)
      BY NothingToFile
    <3>2. QED
      BY <1>1, <1>2, <1>4, <2>1, <3>1, InsertDescriptorIs
  <2>3. QED
    BY <1>3, <2>2, TouchesSelf, TouchesTrans DEF r
<1>5. CASE ~ (known > 0)
  <2>1. r = InsertDescriptor(parsed, "NitTransportDescriptor", inserted.lastRowId, ts.descriptors)
    BY <1>5 DEF StoreNitTransport
  <2>2. ~ IsDuplicate(s, "NitTransport", row)
    <3>1. /\ DOMAIN values \subseteq UniqueIndex["NitTransport"]
          /\ \A column \in DOMAIN values : values[column] = row[column]
      BY DEF TransportId, UniqueIndex
    <3> HIDE DEF row, values
    <3>2. QED
      BY <1>1, <1>5, <3>1, NotDuplicate
  <2>3. /\ row.nit_fk = nit_fk
        /\ row.original_network_id = ts.onid /\ row.transport_id = ts.tsid
        /\ values.original_network_id = ts.onid /\ values.transport_id = ts.tsid
    BY DEF TransportId
  <2>4. ~ IsKnown(s, "NitTransport", ts)
    BY <1>1, <1>5, KnownIs
  <2>5. "NitTransport" \in DOMAIN s.tables => ~ IsKnown(s, "Transport", ts)
    <3>1. SUFFICES ASSUME NEW id \in DOMAIN Rows(s, "Transport"),
                          "NitTransport" \in DOMAIN s.tables,
                          SameTransport(Rows(s, "Transport")[id], values)
                   PROVE  FALSE
      BY DEF IsKnown
    <3>2. Announced(s.tables, Rows(s, "Transport")[id])
      BY <3>1, RowsIsRowsOf DEF SInv, DbInv, IsFiled
    <3>3. QED
      BY <2>4, <3>1, <3>2, RowsIsRowsOf DEF Announced, IsKnown, SameTransport
  <2> HIDE DEF row, known, values, r
  <2>6. s.failed \/ Fits(s, "NitTransport", row)
    <3>1. \A key \in ForeignKeys : key[1] = "NitTransport" => key[2] = "nit_fk" /\ key[3] = "Nit"
      BY DEF ForeignKeys
    <3>2. \A id \in DOMAIN Rows(s, "NitTransport") :
            ~ SameTransport(Rows(s, "NitTransport")[id], row)
      BY <2>3, <2>4 DEF IsKnown, SameTransport, values
    <3>3. IsFiled(s.tables, "NitTransport", row)
      BY NothingToFile
    <3>4. QED
      BY <2>3, <3>1, <3>2, <3>3 DEF Fits, Kept, NitRow
  <2>7. /\ SInv(inserted) /\ Touches(s, inserted, {"NitTransport"})
        /\ \/ inserted.failed
           \/ /\ inserted.lastRowId \in DOMAIN Rows(inserted, "NitTransport")
              /\ Rows(inserted, "NitTransport")[inserted.lastRowId] = row
    BY <2>2, <2>6, InsertIs
  <2> HIDE DEF inserted
  <2>8. SInv(parsed) /\ Touches(inserted, parsed, {"Transport"})
    <3>1. CASE network_fk > 0
      <4>1. ASSUME ~ inserted.failed
            PROVE  /\ NitRow(inserted, nit, nit_fk) /\ NetworkRow(inserted, nit, network_fk)
                   /\ ~ IsKnown(inserted, "Transport", ts)
        <5>1. "NitTransport" \in DOMAIN s.tables
          BY <2>7, <4>1 DEF Touches, Rows
        <5>2. QED
          BY <2>5, <2>7, <3>1, <4>1, <5>1 DEF Touches, NitRow, NetworkRow, IsKnown
      <4>2. ASSUME ~ inserted.failed
            PROVE  IsKnown(inserted, "NitTransport", ts)
        BY <2>3, <2>7, <4>2 DEF IsKnown, SameTransport, values
      <4>3. QED
        BY <2>7, <3>1, <4>1, <4>2, ProcessTransportIs
    <3>2. CASE ~ (network_fk > 0)
      BY <2>7, <3>2, TouchesSelf
    <3>3. QED
      BY <3>1, <3>2
  <2> HIDE DEF parsed
  <2>9. parsed.failed \/ inserted.lastRowId \in DOMAIN Rows(parsed, "NitTransport")
    BY <2>7, <2>8 DEF Touches
  <2>10. SInv(r) /\ Touches(parsed, r, {"NitTransportDescriptor"})
    <3>1. \A d : IsFiled(parsed.tables, "NitTransportDescriptor", d)
      BY NothingToFile
    <3>2. QED
      BY <1>2, <2>1, <2>8, <2>9, <3>1, InsertDescriptorIs
  <2>11. Touches(s, r, T)
    <3>1. Touches(s, inserted, T)
      BY <1>3, <2>7, TouchesSelf, TouchesTrans
    <3>2. Touches(s, parsed, T)
      BY <1>3, <2>8, <3>1, TouchesTrans
    <3>3. QED
      BY <1>3, <2>10, <3>2, TouchesTrans
  <2>12. QED
    BY <2>10, <2>11 DEF r
<1>6. QED
  BY <1>4, <1>5

NitTables ==
  {"Nit", "NitDescriptor", "NitTransport", "NitTransportDescriptor", "Network", "Transport"}

LEMMA StoreNitIs ==
  ASSUME NEW s, SInv(s), NEW nit, IsSent(nit), nit.kind = "nit",
         IsSeq(nit.descriptors), Descriptive(nit.transports),
         NEW nit_fk, NEW network_fk \in Nat,
         \/ s.failed
         \/ /\ NitRow(s, nit, nit_fk)
            /\ network_fk > 0 => NetworkRow(s, nit, network_fk)
  PROVE  LET r == StoreNit(s, nit, nit_fk, network_fk)
         IN SInv(r) /\ Touches(s, r, NitTables)
<1> DEFINE first == InsertDescriptor(s, "NitDescriptor", nit_fk, nit.descriptors)
           of == [nit_fk |-> nit_fk, network_fk |-> network_fk]
           items == nit.transports
           T == {"NitTransport", "NitTransportDescriptor", "Transport"}
<1>1. SInv(first) /\ Touches(s, first, {"NitDescriptor"})
  <2>1. <<"NitDescriptor", "Nit">> \in DescriptorTables
    BY DEF DescriptorTables
  <2>2. ASSUME ~ s.failed, NEW row, row.fkey = nit_fk, row.descriptor \in ToSet(nit.descriptors)
        PROVE  IsFiled(s.tables, "NitDescriptor", row)
    <3>1. FiledUnderNit(s.tables, row)
      BY <2>2, RowsIsRowsOf DEF NitRow, FiledUnderNit
    <3>2. QED
      BY <3>1 DEF IsFiled
  <2>3. s.failed \/ nit_fk \in DOMAIN Rows(s, "Nit")
    BY DEF NitRow
  <2>4. QED
    BY <2>1, <2>2, <2>3, InsertDescriptorIs
<1>2. /\ Len(items) \in Nat
      /\ \A n \in 1..Len(items) : items[n] \in ToSet(items) /\ IsSeq(items[n].descriptors)
  BY ItemsAre DEF Descriptive
<1> HIDE DEF first, items, of
<1>3. PICK after :
        /\ after[0] = first
        /\ \A n \in 1..Len(items) :
             after[n] = StoreNitTransport(after[n - 1], items[n], of.nit_fk, of.network_fk)
        /\ EachNitTransport!Run(first, of, items) = after[Len(items)]
  BY <1>2, EachNitTransport!RunIs
<1>4. ASSUME NEW n \in 1..Len(items), SInv(after[n - 1]), Touches(first, after[n - 1], T)
      PROVE  SInv(after[n]) /\ Touches(after[n - 1], after[n], T)
  <2>1. after[n] = StoreNitTransport(after[n - 1], items[n], nit_fk, network_fk)
    BY <1>3 DEF of
  <2>2. \/ after[n - 1].failed
        \/ /\ NitRow(after[n - 1], nit, nit_fk)
           /\ network_fk > 0 => NetworkRow(after[n - 1], nit, network_fk)
    BY <1>1, <1>4 DEF Touches, NitRow, NetworkRow
  <2>3. items[n] \in ToSet(nit.transports) /\ IsSeq(items[n].descriptors)
    BY <1>2 DEF items
  <2>4. QED
    BY <1>4, <2>1, <2>2, <2>3, StoreNitTransportIs
<1>5. SInv(after[0]) /\ Touches(first, after[0], T)
  BY <1>1, <1>3, TouchesSelf
<1>6. T \subseteq NitTables /\ {"NitDescriptor"} \subseteq NitTables
  BY DEF NitTables
<1> HIDE DEF T
<1>7. SInv(after[Len(items)]) /\ Touches(first, after[Len(items)], T)
  BY <1>2, <1>4, <1>5, RoundsKeep
<1>8. StoreNit(s, nit, nit_fk, network_fk) = after[Len(items)]
  BY <1>3 DEF StoreNit, first, items, of
<1>9. Touches(s, first, NitTables)
  BY <1>1, <1>6, TouchesSelf, TouchesTrans
<1>10. Touches(s, after[Len(items)], NitTables)
  BY <1>6, <1>7, <1>9, TouchesTrans
<1>11. QED
  BY <1>7, <1>8, <1>10

\* A database without rows, whichever tables it has.
LEMMA EmptyIs ==
  ASSUME NEW db, DOMAIN db \subseteq ToSet(DatabaseTables), \A t \in DOMAIN db : db[t] = << >>
  PROVE  DbInv(db)
<1>1. \A t : DOMAIN RowsOf(db, t) = {}
  BY DEF RowsOf
<1>2. IsBounded({})
  BY DEF IsBounded
<1>3. \A t \in DOMAIN db : DOMAIN db[t] = {}
  OBVIOUS
<1>4. \A t \in DOMAIN db : RowsFit(t, db[t])
  BY <1>2, <1>3 DEF RowsFit
<1>5. \A key \in Kept : Refers(db, key)
  BY <1>1 DEF Refers
<1>6. QED
  BY <1>1, <1>4, <1>5 DEF DbInv, OneTransport

\* What a statement writes to the disk outside a transaction.
LEMMA AutocommitIs ==
  ASSUME NEW s, SInv(s), NEW db, DbInv(db),
         NEW o, o = [s EXCEPT !.tables = db]
  PROVE  SInv(Autocommit(o)) /\ Autocommit(o).tables = db
<1> DEFINE r == Autocommit(o)
<1>1. IsSession(s) /\ ~ s.inTransaction /\ s.lastRowId \in Nat
  BY DEF SInv
<1>2. /\ IsSession(o) /\ ~ o.inTransaction /\ o.lastRowId = s.lastRowId
      /\ o.tables = db /\ o.durable = s.durable
  BY <1>1 DEF IsSession
<1>3. r = [o EXCEPT !.durable = Append(@, o.tables)]
  BY <1>2 DEF Autocommit
<1> HIDE DEF r
<1>4. /\ IsSession(r) /\ ~ r.inTransaction /\ r.lastRowId = o.lastRowId
      /\ r.tables = db /\ r.durable = Append(s.durable, db)
  BY <1>2, <1>3 DEF IsSession
<1>5. OnDisk(r)
  BY <1>4, AppendOnDisk DEF SInv
<1>6. QED
  BY <1>1, <1>2, <1>4, <1>5 DEF SInv, r

\* A table may go when those that refer to it are gone.
LEMMA DropTableIs ==
  ASSUME NEW s, SInv(s), NEW t,
         \A key \in ForeignKeys : key[3] = t => key[1] \notin DOMAIN s.tables,
         t = "Network" => "Bat" \notin DOMAIN s.tables
  PROVE  LET r == DropTable(s, t)
         IN SInv(r) /\ DOMAIN r.tables = DOMAIN s.tables \ {t}
<1> DEFINE db == Restrict(s.tables, DOMAIN s.tables \ {t})
<1>1. /\ DOMAIN db = DOMAIN s.tables \ {t}
      /\ \A u \in DOMAIN db : db[u] = s.tables[u]
  BY DEF Restrict
<1> HIDE DEF db
<1>2. \A u : /\ u # t => RowsOf(db, u) = RowsOf(s.tables, u)
             /\ DOMAIN RowsOf(db, t) = {}
  BY <1>1 DEF RowsOf
<1>3. DbInv(s.tables)
  BY DEF SInv
<1>4. DbInv(db)
  <2>1. DOMAIN db \subseteq ToSet(DatabaseTables) /\ \A u \in DOMAIN db : RowsFit(u, db[u])
    BY <1>1, <1>3 DEF DbInv
  <2>2. ASSUME NEW key \in Kept
        PROVE  Refers(db, key)
    <3>1. CASE key[1] \notin DOMAIN db
      <4>1. DOMAIN RowsOf(db, key[1]) = {}
        BY <3>1 DEF RowsOf
      <4>2. QED
        BY <4>1 DEF Refers
    <3>2. CASE key[1] \in DOMAIN db
      <4>1. key[1] # t /\ key[3] # t
        BY <1>1, <3>2 DEF Kept
      <4>2. QED
        BY <1>2, <1>3, <4>1 DEF DbInv, Refers
    <3>3. QED
      BY <3>1, <3>2
  <2>3. "Nit" \in DOMAIN db =>
          \A id \in DOMAIN RowsOf(db, "Network") : \E nit \in DOMAIN db["Nit"] :
            db["Nit"][nit].network_id = RowsOf(db, "Network")[id].network_id
    BY <1>1, <1>2, <1>3 DEF DbInv
  <2>4. /\ \A id \in DOMAIN RowsOf(db, "Transport") :
             TransportColumns \cup {"bouquet_fk"} \subseteq DOMAIN RowsOf(db, "Transport")[id]
        /\ \A i, j \in DOMAIN RowsOf(db, "Eit") :
             (\A column \in EventColumns :
                RowsOf(db, "Eit")[i][column] = RowsOf(db, "Eit")[j][column]) => i = j
    BY <1>2, <1>3 DEF DbInv
  <2>5. \A u : DOMAIN RowsOf(db, u) \subseteq DOMAIN RowsOf(s.tables, u)
    BY <1>2
  <2>6. \A u : \A id \in DOMAIN RowsOf(db, u) : RowsOf(db, u)[id] = RowsOf(s.tables, u)[id]
    BY <1>2
  <2>7. OneTransport(RowsOf(db, "NitTransport")) /\ OneTransport(RowsOf(db, "Transport"))
    BY <1>3, <2>5, <2>6 DEF DbInv, OneTransport
  <2>8. Keeps(s.tables, db)
    <3>1. \A u \in {"Nit", "NitTransport"} :
            u \in DOMAIN db => u \in DOMAIN s.tables /\ RowsOf(db, u) = RowsOf(s.tables, u)
      BY <1>1 DEF RowsOf
    <3>2. QED
      BY <2>6, <3>1 DEF Keeps, SameRow
  <2>9. \A u : \A id \in DOMAIN RowsOf(db, u) : IsFiled(db, u, RowsOf(db, u)[id])
    BY <1>3, <2>2, <2>5, <2>8, AllFiledStay
  <2>10. DOMAIN RowsOf(db, "Bat") # {} => HasPreferred(RowsOf(db, "Network"))
    <3>1. CASE t = "Network"
      BY <1>1, <3>1 DEF RowsOf
    <3>2. CASE t # "Network"
      BY <1>2, <1>3, <2>5, <3>2 DEF DbInv
    <3>3. QED
      BY <3>1, <3>2
  <2>11. QED
    BY <2>1, <2>2, <2>3, <2>4, <2>7, <2>9, <2>10 DEF DbInv
<1> DEFINE o == [s EXCEPT !.tables = db]
<1>5. SInv(Autocommit(o)) /\ Autocommit(o).tables = db
  BY <1>4, AutocommitIs
<1>6. DropTable(s, t) = Autocommit(o)
  BY DEF DropTable, db, SInv, IsSession
<1> HIDE DEF o
<1>7. QED
  BY <1>1, <1>5, <1>6

LEMMA CreateTableIs ==
  ASSUME NEW s, SInv(s), \A u \in DOMAIN s.tables : s.tables[u] = << >>,
         NEW t \in ToSet(DatabaseTables)
  PROVE  LET r == CreateTable(s, t)
         IN SInv(r) /\ \A u \in DOMAIN r.tables : r.tables[u] = << >>
<1> DEFINE r == CreateTable(s, t)
           w == Write(s, t, << >>)
<1>1. CASE t \in DOMAIN s.tables
  BY <1>1 DEF CreateTable
<1>2. CASE t \notin DOMAIN s.tables
  <2>1. r = w
    BY <1>2 DEF CreateTable
  <2>2. IsSession(s) /\ ~ s.inTransaction /\ s.lastRowId \in Nat
        /\ DOMAIN s.tables \subseteq ToSet(DatabaseTables)
    BY DEF SInv, DbInv
  <2>3. /\ IsSession(w) /\ ~ w.inTransaction
        /\ w.lastRowId = s.lastRowId /\ w.durable = Append(s.durable, w.tables)
        /\ DOMAIN w.tables = DOMAIN s.tables \cup {t}
        /\ Rows(w, t) = << >>
        /\ \A u : u # t => Rows(w, u) = Rows(s, u)
    BY <2>2, WriteIs
  <2> HIDE DEF r, w
  <2>4. \A u \in DOMAIN w.tables : w.tables[u] = << >>
    <3>1. ASSUME NEW u \in DOMAIN w.tables
          PROVE  w.tables[u] = << >>
      <4>1. w.tables[u] = Rows(w, u)
        BY DEF Rows
      <4>2. CASE u = t
        BY <2>3, <4>1, <4>2
      <4>3. CASE u # t
        BY <2>3, <4>1, <4>3 DEF Rows
      <4>4. QED
        BY <4>2, <4>3
    <3>2. QED
      BY <3>1
  <2>5. DbInv(w.tables)
    BY <2>2, <2>3, <2>4, EmptyIs
  <2>6. OnDisk(w)
    BY <2>3, <2>5, AppendOnDisk DEF SInv
  <2>7. QED
    BY <2>1, <2>2, <2>3, <2>4, <2>5, <2>6 DEF SInv, r
<1>3. QED
  BY <1>1, <1>2

\* The tables are dropped children first, and created all.
LEMMA DropOrder ==
  /\ Len(DatabaseTables) = 20 /\ Len(DatabaseSchema) = 20
  /\ \A n \in 1..20 : DatabaseSchema[n] \in ToSet(DatabaseTables)
  /\ ToSet(DatabaseTables) = {DatabaseTables[n] : n \in 1..20}
  /\ \A n \in 1..20 : \A key \in ForeignKeys :
       key[3] = DatabaseTables[n] => \E m \in 1..(n - 1) : key[1] = DatabaseTables[m]
  /\ \A n \in 1..20 :
       DatabaseTables[n] = "Network" => \E m \in 1..(n - 1) : DatabaseTables[m] = "Bat"
<1>1. Len(DatabaseTables) = 20 /\ Len(DatabaseSchema) = 20
  BY DEF DatabaseTables, DatabaseSchema
<1>2. ToSet(DatabaseTables) = {DatabaseTables[n] : n \in 1..20}
  BY <1>1 DEF ToSet, DatabaseTables
<1>3. ASSUME NEW n \in 1..20
      PROVE  DatabaseSchema[n] \in ToSet(DatabaseTables)
  <2>1. /\ "Nit" \in ToSet(DatabaseTables) /\ "NitDescriptor" \in ToSet(DatabaseTables)
        /\ "NitTransport" \in ToSet(DatabaseTables)
        /\ "NitTransportDescriptor" \in ToSet(DatabaseTables)
        /\ "Sdt" \in ToSet(DatabaseTables) /\ "SdtDescriptor" \in ToSet(DatabaseTables)
        /\ "Eit" \in ToSet(DatabaseTables) /\ "EitDescriptor" \in ToSet(DatabaseTables)
        /\ "Bat" \in ToSet(DatabaseTables) /\ "BatDescriptor" \in ToSet(DatabaseTables)
        /\ "BatTransport" \in ToSet(DatabaseTables)
        /\ "BatTransportDescriptor" \in ToSet(DatabaseTables)
        /\ "Bouquet" \in ToSet(DatabaseTables) /\ "Network" \in ToSet(DatabaseTables)
        /\ "Transport" \in ToSet(DatabaseTables) /\ "Service" \in ToSet(DatabaseTables)
        /\ "ServiceComponent" \in ToSet(DatabaseTables)
        /\ "Event" \in ToSet(DatabaseTables) /\ "EventComponent" \in ToSet(DatabaseTables)
        /\ "EventItem" \in ToSet(DatabaseTables)
    BY DEF ToSet, DatabaseTables
  <2>2. DatabaseSchema[n] \in
          {"Nit", "NitDescriptor", "NitTransport", "NitTransportDescriptor", "Sdt",
           "SdtDescriptor", "Eit", "EitDescriptor", "Bat", "BatDescriptor",
           "BatTransport", "BatTransportDescriptor", "Bouquet", "Network",
           "Transport", "Service", "ServiceComponent", "Event", "EventComponent",
           "EventItem"}
    BY DEF DatabaseSchema
  <2>3. QED
    BY <2>1, <2>2
<1>4. ASSUME NEW n \in 1..20, NEW key \in ForeignKeys, key[3] = DatabaseTables[n]
      PROVE  \E m \in 1..(n - 1) : key[1] = DatabaseTables[m]
  <2>1. /\ key[3] = "Nit" => n = 12
        /\ key[3] = "NitTransport" => n = 11
        /\ key[3] = "Sdt" => n = 4 /\ key[3] = "Sdt"
        /\ key[3] = "Eit" => n = 2
        /\ key[3] = "Bat" => n = 8
        /\ key[3] = "BatTransport" => n = 7
        /\ key[3] = "Network" => n = 20
        /\ key[3] = "Bouquet" => n = 19
        /\ key[3] = "Transport" => n = 18
        /\ key[3] = "Service" => n = 17
        /\ key[3] = "Event" => n = 15
    BY <1>4 DEF DatabaseTables
  <2>2. /\ DatabaseTables[1] = "EitDescriptor" /\ DatabaseTables[3] = "SdtDescriptor"
        /\ DatabaseTables[4] = "Sdt" /\ DatabaseTables[5] = "BatDescriptor"
        /\ DatabaseTables[6] = "BatTransportDescriptor" /\ DatabaseTables[7] = "BatTransport"
        /\ DatabaseTables[9] = "NitDescriptor"
        /\ DatabaseTables[10] = "NitTransportDescriptor"
        /\ DatabaseTables[11] = "NitTransport" /\ DatabaseTables[13] = "EventItem"
        /\ DatabaseTables[14] = "EventComponent" /\ DatabaseTables[16] = "ServiceComponent"
        /\ DatabaseTables[17] = "Service" /\ DatabaseTables[18] = "Transport"
    BY DEF DatabaseTables
  <2>3. \/ key[3] = "Nit" /\ key[1] \in {"NitDescriptor", "NitTransport"}
        \/ key[3] = "NitTransport"
           /\ key[1] \in {"NitTransportDescriptor", "Sdt", "BatTransport"}
        \/ key[3] = "Sdt" /\ key[1] = "SdtDescriptor"
        \/ key[3] = "Eit" /\ key[1] = "EitDescriptor"
        \/ key[3] = "Bat" /\ key[1] \in {"BatDescriptor", "BatTransport"}
        \/ key[3] = "BatTransport" /\ key[1] = "BatTransportDescriptor"
        \/ key[3] \in {"Network", "Bouquet"} /\ key[1] = "Transport"
        \/ key[3] = "Transport" /\ key[1] = "Service"
        \/ key[3] = "Service" /\ key[1] = "ServiceComponent"
        \/ key[3] = "Event" /\ key[1] \in {"EventItem", "EventComponent"}
    BY DEF ForeignKeys
  <2>4. QED
    BY <2>1, <2>2, <2>3
<1>5. ASSUME NEW n \in 1..20, DatabaseTables[n] = "Network"
      PROVE  \E m \in 1..(n - 1) : DatabaseTables[m] = "Bat"
  <2>1. DatabaseTables[8] = "Bat" /\ n = 20
    BY <1>5 DEF DatabaseTables
  <2>2. QED
    BY <2>1
<1>6. QED
  BY <1>1, <1>2, <1>3, <1>4, <1>5

LEMMA DropTablesIs ==
  ASSUME NEW s, SInv(s)
  PROVE  SInv(DropTables(s)) /\ DOMAIN DropTables(s).tables = {}
<1> DEFINE D == DatabaseTables
           schema == "DatabaseTables"
<1>1. Len(D) = 20 /\ Len(D) \in Nat
  BY DropOrder
<1> HIDE DEF D, schema
<1>2. PICK after :
        /\ after[0] = s
        /\ \A n \in 1..Len(D) : after[n] = DropTable(after[n - 1], D[n])
        /\ EachDropped!Run(s, schema, D) = after[Len(D)]
  <2>1. Len(D) \in Nat
    BY <1>1
  <2>2. PICK run : run = EachDropped!Run(s, schema, D)
    OBVIOUS
  <2>3. QED
    BY <2>1, <2>2, EachDropped!RunIs
<1> DEFINE Dropped(n) == SInv(after[n]) /\ \A m \in 1..n : D[m] \notin DOMAIN after[n].tables
           S == {n \in Nat : n <= 20 => Dropped(n)}
<1>3. 0 \in S
  BY <1>2
<1>4. ASSUME NEW n \in Nat, n \in S
      PROVE  n + 1 \in S
  <2>1. CASE n + 1 <= 20
    <3>1. n + 1 \in 1..20 /\ (n + 1) - 1 = n /\ n <= 20
      BY <2>1
    <3>2. Dropped(n)
      BY <1>4, <3>1
    <3>3. after[n + 1] = DropTable(after[n], D[n + 1])
      BY <1>1, <1>2, <3>1
    <3>4. \A key \in ForeignKeys : key[3] = D[n + 1] => key[1] \notin DOMAIN after[n].tables
      <4>1. \A key \in ForeignKeys :
              key[3] = D[n + 1] => \E m \in 1..n : key[1] = D[m]
        BY <3>1, DropOrder DEF D
      <4>2. QED
        BY <3>2, <4>1
    <3>5. D[n + 1] = "Network" => "Bat" \notin DOMAIN after[n].tables
      <4>1. D[n + 1] = "Network" => \E m \in 1..n : D[m] = "Bat"
        BY <3>1, DropOrder DEF D
      <4>2. QED
        BY <3>2, <4>1
    <3>6. SInv(after[n + 1]) /\ DOMAIN after[n + 1].tables = DOMAIN after[n].tables \ {D[n + 1]}
      BY <3>2, <3>3, <3>4, <3>5, DropTableIs
    <3>7. Dropped(n + 1)
      BY <3>1, <3>2, <3>6
    <3>8. QED
      BY <3>7
  <2>2. CASE ~ (n + 1 <= 20)
    BY <2>2
  <2>3. QED
    BY <2>1, <2>2
<1>5. Nat \subseteq S
  <2> HIDE DEF S
  <2>1. QED
    BY <1>3, <1>4, EachItem!InductionOnNat
<1>6. Dropped(20)
  BY <1>5
<1>7. DropTables(s) = after[20]
  BY <1>1, <1>2 DEF DropTables, D, schema
<1>8. DOMAIN after[20].tables \subseteq {D[n] : n \in 1..20}
  <2>1. DOMAIN after[20].tables \subseteq ToSet(DatabaseTables)
    BY <1>6 DEF SInv, DbInv
  <2>2. QED
    BY <2>1, DropOrder DEF D
<1>9. QED
  <2>1. DOMAIN after[20].tables = {}
    BY <1>6, <1>8
  <2>2. QED
    BY <1>6, <1>7, <2>1

LEMMA CreateTablesIs ==
  ASSUME NEW s, SInv(s), \A u \in DOMAIN s.tables : s.tables[u] = << >>
  PROVE  LET r == CreateTables(s)
         IN SInv(r) /\ \A u \in DOMAIN r.tables : r.tables[u] = << >>
<1> DEFINE D == DatabaseSchema
           schema == "DatabaseSchema"
<1>1. Len(D) = 20 /\ Len(D) \in Nat /\ \A n \in 1..20 : D[n] \in ToSet(DatabaseTables)
  BY DropOrder
<1> HIDE DEF D, schema
<1>2. PICK after :
        /\ after[0] = s
        /\ \A n \in 1..Len(D) : after[n] = CreateTable(after[n - 1], D[n])
        /\ EachCreated!Run(s, schema, D) = after[Len(D)]
  <2>1. Len(D) \in Nat
    BY <1>1
  <2>2. PICK run : run = EachCreated!Run(s, schema, D)
    OBVIOUS
  <2>3. QED
    BY <2>1, <2>2, EachCreated!RunIs
<1> DEFINE Created(n) == SInv(after[n]) /\ \A u \in DOMAIN after[n].tables : after[n].tables[u] = << >>
           S == {n \in Nat : n <= 20 => Created(n)}
<1>3. 0 \in S
  BY <1>2
<1>4. ASSUME NEW n \in Nat, n \in S
      PROVE  n + 1 \in S
  <2>1. CASE n + 1 <= 20
    <3>1. n + 1 \in 1..20 /\ (n + 1) - 1 = n /\ n <= 20
      BY <2>1
    <3>2. Created(n)
      BY <1>4, <3>1
    <3>3. after[n + 1] = CreateTable(after[n], D[n + 1]) /\ D[n + 1] \in ToSet(DatabaseTables)
      BY <1>1, <1>2, <3>1
    <3>4. Created(n + 1)
      BY <3>2, <3>3, CreateTableIs
    <3>5. QED
      BY <3>4
  <2>2. CASE ~ (n + 1 <= 20)
    BY <2>2
  <2>3. QED
    BY <2>1, <2>2
<1>5. Nat \subseteq S
  <2> HIDE DEF S
  <2>1. QED
    BY <1>3, <1>4, EachItem!InductionOnNat
<1>6. Created(20)
  BY <1>5
<1>7. CreateTables(s) = after[20]
  BY <1>1, <1>2 DEF CreateTables, D, schema
<1>8. QED
  BY <1>6, <1>7

LEMMA ProcessNitEventDbIs ==
  ASSUME NEW s, SInv(s), NEW nit, IsSent(nit), nit.kind = "nit",
         IsSeq(nit.descriptors), Descriptive(nit.transports)
  PROVE  LET r == ProcessNitEventDb(s, nit)
         IN SInv(r) /\ (Touches(s, r, NitTables) \/ DOMAIN Rows(r, "Bat") = {})
<1> DEFINE values == [network_id |-> nit.network]
           row == [network_id |-> nit.network, version |-> nit.version]
           nit_fk == FindPrimaryKey(s, "Nit", values)
           inserted == Insert(s, "Nit", row)
           named == ProcessNetwork(inserted, nit)
           r == ProcessNitEventDb(s, nit)
<1>1. /\ nit_fk \in Nat
      /\ nit_fk = 0 => Matching(s, "Nit", values) = {}
      /\ nit_fk # 0 => nit_fk \in DOMAIN Rows(s, "Nit")
  BY LastOf, MatchingIs DEF FindPrimaryKey
<1>2. CASE nit_fk = 0
  <2>1. r = StoreNit(named, nit, inserted.lastRowId, named.lastRowId)
    BY <1>2 DEF ProcessNitEventDb
  <2>2. /\ DOMAIN values \subseteq UniqueIndex["Nit"] /\ DOMAIN values \subseteq UniqueIndex["Network"]
        /\ \A column \in DOMAIN values : values[column] = row[column]
        /\ row.network_id = nit.network /\ row.version = nit.version
    BY DEF UniqueIndex
  <2>3. Fits(s, "Nit", row)
    <3>1. \A key \in ForeignKeys : key[1] # "Nit"
      BY DEF ForeignKeys
    <3> HIDE DEF row
    <3>2. IsFiled(s.tables, "Nit", row)
      BY NothingToFile
    <3>3. QED
      BY <3>1, <3>2 DEF Fits, Kept
  <2>4. named = Insert(inserted, "Network", row)
    BY DEF ProcessNetwork
  <2>5. \A e : Matching(e, "Network", values) =
                 {id \in DOMAIN Rows(e, "Network") : Rows(e, "Network")[id].network_id = nit.network}
    BY DEF Matching
  <2>6. \A e : Matching(e, "Nit", values) =
                 {id \in DOMAIN Rows(e, "Nit") : Rows(e, "Nit")[id].network_id = nit.network}
    BY DEF Matching
  <2>7. \A key \in ForeignKeys : key[1] # "Network"
    BY DEF ForeignKeys
  <2> HIDE DEF values, row, nit_fk, r
  <2>8. ~ IsDuplicate(s, "Nit", row)
    BY <1>1, <1>2, <2>2, NotDuplicate
  <2>9. /\ SInv(inserted) /\ Touches(s, inserted, {"Nit"})
        /\ \/ inserted.failed
           \/ /\ inserted.lastRowId \in DOMAIN Rows(inserted, "Nit")
              /\ Rows(inserted, "Nit")[inserted.lastRowId] = row
    BY <2>3, <2>8, InsertIs
  <2> HIDE DEF inserted
  <2>10. inserted.failed \/ Fits(inserted, "Network", row)
    <3>1. IsFiled(inserted.tables, "Network", row)
      BY NothingToFile
    <3>2. QED
      BY <2>2, <2>7, <2>9, <3>1 DEF Fits, Kept
  <2>11. inserted.failed \/ ~ IsDuplicate(inserted, "Network", row)
    <3>1. SUFFICES ASSUME ~ inserted.failed
                   PROVE  Matching(inserted, "Network", values) = {}
      BY <2>2, NotDuplicate
    <3>2. "Nit" \in DOMAIN s.tables
      BY <2>9, <3>1 DEF Rows, Touches
    <3>3. ASSUME NEW id \in DOMAIN Rows(inserted, "Network"),
                 Rows(inserted, "Network")[id].network_id = nit.network
          PROVE  FALSE
      <4>1. Rows(inserted, "Network") = RowsOf(s.tables, "Network") /\ Rows(s, "Nit") = s.tables["Nit"]
        BY <2>9, <3>2, RowsIsRowsOf DEF Touches, RowsOf
      <4>2. PICK old \in DOMAIN Rows(s, "Nit") : Rows(s, "Nit")[old].network_id = nit.network
        BY <3>2, <3>3, <4>1 DEF SInv, DbInv
      <4>3. QED
        BY <1>1, <1>2, <2>6, <4>2
    <3>4. QED
      BY <2>5, <3>3
  <2>12. /\ SInv(named) /\ Touches(inserted, named, {"Network"})
         /\ \/ named.failed
            \/ /\ named.lastRowId \in DOMAIN Rows(named, "Network")
               /\ Rows(named, "Network")[named.lastRowId] = row
    BY <2>4, <2>9, <2>10, <2>11, InsertIs DEF Touches
  <2> HIDE DEF named
  <2>13. /\ named.lastRowId \in Nat
         /\ \/ named.failed
            \/ /\ NitRow(named, nit, inserted.lastRowId)
               /\ NetworkRow(named, nit, named.lastRowId)
    BY <2>2, <2>9, <2>12 DEF SInv, Touches, NitRow, NetworkRow
  <2>14. SInv(r) /\ Touches(named, r, NitTables)
    BY <2>1, <2>12, <2>13, StoreNitIs
  <2>15. {"Nit"} \subseteq NitTables /\ {"Network"} \subseteq NitTables
    BY DEF NitTables
  <2>16. Touches(s, inserted, NitTables)
    BY <2>9, <2>15, TouchesSelf, TouchesTrans
  <2>17. Touches(s, named, NitTables)
    BY <2>12, <2>15, <2>16, TouchesTrans
  <2>18. Touches(s, r, NitTables)
    BY <2>14, <2>17, TouchesTrans
  <2>19. QED
    BY <2>14, <2>18 DEF r
<1>3. CASE nit_fk # 0 /\ s.tables["Nit"][nit_fk].version = nit.version
  <2>1. r = StoreNit(s, nit, nit_fk, 0)
    BY <1>3 DEF ProcessNitEventDb
  <2>2. NitRow(s, nit, nit_fk)
    <3>1. nit_fk \in Matching(s, "Nit", values)
      BY <1>3, LastOf, MatchingIs DEF FindPrimaryKey
    <3>2. QED
      BY <1>3, <3>1 DEF Matching, NitRow, Rows
  <2> HIDE DEF nit_fk, r
  <2>3. SInv(r) /\ Touches(s, r, NitTables)
    BY <1>1, <1>3, <2>1, <2>2, StoreNitIs
  <2>4. QED
    BY <2>3 DEF r
<1>4. CASE nit_fk # 0 /\ s.tables["Nit"][nit_fk].version # nit.version
  <2>1. r = CreateTables(DropTables(s))
    BY <1>4 DEF ProcessNitEventDb
  <2> HIDE DEF nit_fk, r
  <2>2. SInv(r) /\ \A u \in DOMAIN r.tables : r.tables[u] = << >>
    BY <2>1, DropTablesIs, CreateTablesIs
  <2>3. DOMAIN Rows(r, "Bat") = {}
    BY <2>2 DEF Rows
  <2>4. QED
    BY <2>2, <2>3 DEF r
<1>5. QED
  BY <1>2, <1>3, <1>4

-----------------------------------------------------------------------------
(***************************************************************************)
(* SDT.                                                                    *)
(***************************************************************************)
ServiceTables == {"Service", "ServiceComponent", "Event", "EventItem", "EventComponent"}
SdtTables == ServiceTables \cup {"Sdt", "SdtDescriptor", "Eit", "EitDescriptor"}

\* A lookup in a table that is not touched.
LEMMA MatchingFrame ==
  ASSUME NEW s, NEW r, NEW T, Touches(s, r, T), NEW t, t \notin T, NEW values
  PROVE  Matching(r, t, values) = Matching(s, t, values)
<1>1. Rows(r, t) = Rows(s, t)
  BY DEF Touches
<1>2. QED
  BY <1>1 DEF Matching

LEMMA DropServiceKeeps ==
  ASSUME NEW s, SInv(s), NEW sdt, NEW service
  PROVE  LET r == DropService(s, sdt, service)
         IN SInv(r) /\ Touches(s, r, ServiceTables)
<1>1. /\ "Service" \in ServiceTables /\ "ServiceComponent" \in ServiceTables
      /\ "Event" \in ServiceTables /\ "EventItem" \in ServiceTables
      /\ "EventComponent" \in ServiceTables
      /\ "Nit" \notin ServiceTables /\ "NitTransport" \notin ServiceTables
      /\ "Network" \notin ServiceTables
  BY DEF ServiceTables
<1>2. IsSession(s) /\ ~ s.inTransaction
  BY DEF SInv
<1>3. QED
  BY <1>1, <1>2, DropServiceIs, TransactionIs

LEMMA DropSdtKeeps ==
  ASSUME NEW s, SInv(s), NEW sdt, NEW service
  PROVE  LET r == DropSdt(s, sdt, service)
         IN SInv(r) /\ Touches(s, r, SdtTables)
<1>1. /\ "Sdt" \in SdtTables /\ "SdtDescriptor" \in SdtTables
      /\ "Eit" \in SdtTables /\ "EitDescriptor" \in SdtTables
      /\ "Nit" \notin SdtTables /\ "NitTransport" \notin SdtTables
      /\ "Network" \notin SdtTables
  BY DEF SdtTables, ServiceTables
<1>2. IsSession(s) /\ ~ s.inTransaction
  BY DEF SInv
<1>3. QED
  BY <1>1, <1>2, DropSdtIs, TransactionIs

LEMMA StoreServiceIs ==
  ASSUME NEW s, SInv(s), NEW sdt, IsSent(sdt), sdt.kind = "sdt",
         NEW service, service \in ToSet(sdt.services),
         NEW transport_fk, s.failed \/ transport_fk \in Transports(s, sdt)
  PROVE  LET r == StoreService(s, sdt, service, transport_fk)
         IN SInv(r) /\ Touches(s, r, ServiceTables)
<1> DEFINE found == LastKey(ServiceRows(s, sdt, service))
           current == IF found > 0 /\ s.tables["Service"][found].version # sdt.version
                        THEN DropService(s, sdt, service)
                        ELSE s
           row == [service_id |-> service.id, transport_fk |-> transport_fk,
                   version |-> sdt.version, service_name |-> service.name]
           inserted == Insert(current, "Service", row)
           r == StoreService(s, sdt, service, transport_fk)
<1>1. r = IF ServiceRows(current, sdt, service) # {} THEN current ELSE inserted
  BY DEF StoreService, InsertComponent
<1>2. SInv(current) /\ Touches(s, current, ServiceTables)
  BY DropServiceKeeps, TouchesSelf
<1>3. /\ row.transport_fk = transport_fk /\ row.service_id = service.id
      /\ row.version = sdt.version /\ row.service_name = service.name
  OBVIOUS
<1>4. \A key \in ForeignKeys :
        key[1] = "Service" => key[2] = "transport_fk" /\ key[3] = "Transport"
  BY DEF ForeignKeys
<1>5. "Service" \in ServiceTables /\ "Transport" \notin ServiceTables
  BY DEF ServiceTables
<1> HIDE DEF current, row, r
<1>6. current.failed \/ Fits(current, "Service", row)
  <2>1. SUFFICES ASSUME ~ current.failed
                 PROVE  Fits(current, "Service", row)
    OBVIOUS
  <2>2. transport_fk \in Transports(current, sdt)
    <3>1. transport_fk \in Transports(s, sdt)
      BY <1>2, <2>1 DEF Touches
    <3>2. QED
      BY <1>2, <1>5, <3>1, MatchingFrame DEF Transports
  <2>3. /\ transport_fk \in DOMAIN Rows(current, "Transport")
        /\ Rows(current, "Transport")[transport_fk].original_network_id = sdt.onid
        /\ Rows(current, "Transport")[transport_fk].transport_id = sdt.tsid
    BY <2>2 DEF Transports, Matching, TransportId
  <2>4. NamedBySdt(current.tables, row)
    BY <1>3, <2>3, RowsIsRowsOf DEF NamedBySdt, SentService
  <2>5. IsFiled(current.tables, "Service", row)
    BY <2>4 DEF IsFiled
  <2>6. QED
    BY <1>3, <1>4, <2>3, <2>5 DEF Fits, Kept
<1>7. SInv(inserted) /\ Touches(current, inserted, {"Service"})
  BY <1>2, <1>6, InsertIs
<1> HIDE DEF inserted
<1>8. Touches(s, inserted, ServiceTables)
  BY <1>2, <1>5, <1>7, TouchesTrans
<1>9. SInv(r) /\ Touches(s, r, ServiceTables)
  BY <1>1, <1>2, <1>7, <1>8
<1>10. QED
  BY <1>9 DEF r

LEMMA ProcessServiceIs ==
  ASSUME NEW s, SInv(s), NEW sdt, IsSent(sdt), sdt.kind = "sdt", IsSeq(sdt.services)
  PROVE  LET r == ProcessService(s, sdt)
         IN SInv(r) /\ Touches(s, r, ServiceTables)
<1> DEFINE transport_fk == LastKey(Transports(s, sdt))
           of == [sdt |-> sdt, transport_fk |-> transport_fk]
           items == sdt.services
           r == ProcessService(s, sdt)
<1>1. CASE transport_fk = 0
  <2>1. r = s
    BY <1>1 DEF ProcessService
  <2>2. QED
    BY <2>1, TouchesSelf
<1>2. CASE transport_fk # 0
  <2>1. transport_fk \in Transports(s, sdt)
    BY <1>2, LastOf, MatchingIs DEF Transports
  <2>2. Len(items) \in Nat /\ \A n \in 1..Len(items) : items[n] \in ToSet(sdt.services)
    BY ItemsAre
  <2> HIDE DEF transport_fk, items, of
  <2>3. PICK after :
          /\ after[0] = s
          /\ \A n \in 1..Len(items) :
               after[n] = StoreService(after[n - 1], of.sdt, items[n], of.transport_fk)
          /\ EachParsedService!Run(s, of, items) = after[Len(items)]
    BY <2>2, EachParsedService!RunIs
  <2>4. ASSUME NEW n \in 1..Len(items), SInv(after[n - 1]), Touches(s, after[n - 1], ServiceTables)
        PROVE  SInv(after[n]) /\ Touches(after[n - 1], after[n], ServiceTables)
    <3>1. after[n] = StoreService(after[n - 1], sdt, items[n], transport_fk)
      BY <2>3 DEF of
    <3>2. "Transport" \notin ServiceTables
      BY DEF ServiceTables
    <3>3. transport_fk \in Transports(after[n - 1], sdt)
      BY <2>1, <2>4, <3>2, MatchingFrame DEF Transports
    <3>4. items[n] \in ToSet(sdt.services)
      BY <2>2
    <3> HIDE DEF r
    <3>5. QED
      BY <2>4, <3>1, <3>3, <3>4, StoreServiceIs
  <2>5. SInv(after[0]) /\ Touches(s, after[0], ServiceTables)
    BY <2>3, TouchesSelf
  <2>6. SInv(after[Len(items)]) /\ Touches(s, after[Len(items)], ServiceTables)
    BY <2>2, <2>4, <2>5, RoundsKeep
  <2>7. r = after[Len(items)]
    BY <1>2, <2>3 DEF ProcessService, transport_fk, items, of
  <2>8. QED
    BY <2>6, <2>7
<1>3. QED
  BY <1>1, <1>2

\* The rows of a service in Sdt have the version of its SDT, unless the
\* session failed.
SdtIsCurrent(s, sdt, service) ==
  s.failed \/ \A id \in SdtRows(s, sdt, service) : Rows(s, "Sdt")[id].version = sdt.version

LEMMA SdtRowsAre ==
  ASSUME NEW s, NEW sdt, NEW service
  PROVE  SdtRows(s, sdt, service) =
           {id \in DOMAIN Rows(s, "Sdt") :
              /\ Rows(s, "Sdt")[id].service_id = service.id
              /\ Rows(s, "Sdt")[id].nit_transport_fk \in NitTransports(s, sdt)}
<1> DEFINE values == [service_id |-> service.id]
<1>1. DOMAIN values = {"service_id"} /\ values["service_id"] = service.id
  OBVIOUS
<1> HIDE DEF values
<1>2. \A id : id \in Matching(s, "Sdt", values)
                <=> id \in DOMAIN Rows(s, "Sdt") /\ Rows(s, "Sdt")[id].service_id = service.id
  BY <1>1 DEF Matching
<1>3. \A id : id \in DOMAIN Rows(s, "Sdt") => s.tables["Sdt"] = Rows(s, "Sdt")
  BY DEF Rows
<1>4. SdtRows(s, sdt, service) =
        {id \in Matching(s, "Sdt", values) :
           s.tables["Sdt"][id].nit_transport_fk \in NitTransports(s, sdt)}
  BY DEF SdtRows, values
<1>5. QED
  BY <1>2, <1>3, <1>4

\* A service has one row at most.
LEMMA OneSdtRow ==
  ASSUME NEW s, SInv(s), NEW sdt, NEW service,
         NEW i \in SdtRows(s, sdt, service), NEW j \in SdtRows(s, sdt, service)
  PROVE  i = j
<1> DEFINE rows == Rows(s, "Sdt")
<1>1. /\ i \in DOMAIN rows /\ j \in DOMAIN rows
      /\ rows[i].service_id = rows[j].service_id
      /\ rows[i].nit_transport_fk \in NitTransports(s, sdt)
      /\ rows[j].nit_transport_fk \in NitTransports(s, sdt)
  BY SdtRowsAre
<1>2. \A k, l \in NitTransports(s, sdt) : k = l
  <2>1. SUFFICES ASSUME NEW k \in NitTransports(s, sdt), NEW l \in NitTransports(s, sdt)
                 PROVE  k = l
    OBVIOUS
  <2>2. /\ k \in DOMAIN Rows(s, "NitTransport") /\ l \in DOMAIN Rows(s, "NitTransport")
        /\ SameTransport(Rows(s, "NitTransport")[k], Rows(s, "NitTransport")[l])
    BY DEF NitTransports, Matching, TransportId, SameTransport
  <2>3. OneTransport(Rows(s, "NitTransport"))
    BY RowsIsRowsOf DEF SInv, DbInv
  <2>4. QED
    BY <2>2, <2>3 DEF OneTransport
<1>3. "Sdt" \in DOMAIN s.tables /\ rows = s.tables["Sdt"]
  BY <1>1 DEF Rows
<1>4. RowsFit("Sdt", rows)
  BY <1>3 DEF SInv, DbInv
<1>5. UniqueIndex["Sdt"] = {"service_id", "nit_transport_fk"}
  BY DEF UniqueIndex
<1> HIDE DEF rows
<1>6. QED
  BY <1>1, <1>2, <1>4, <1>5 DEF RowsFit

\* What DropSdt leaves is current.
LEMMA DropSdtIsCurrent ==
  ASSUME NEW s, SInv(s), NEW sdt, NEW service
  PROVE  SdtIsCurrent(DropSdt(s, sdt, service), sdt, service)
<1> DEFINE r == DropSdt(s, sdt, service)
           ids == OtherVersion(s, "Sdt", SdtRows(s, sdt, service), sdt.version)
           T == SdtTables
<1>1. IsSession(s) /\ ~ s.inTransaction
  BY DEF SInv
<1>2. Rid(r, "Sdt", ids)
  BY <1>1, DropSdtRids
<1>3. Thins(s, r, T)
  <2>1. "Sdt" \in T /\ "SdtDescriptor" \in T /\ "Eit" \in T /\ "EitDescriptor" \in T
    BY DEF SdtTables, ServiceTables
  <2>2. QED
    BY <1>1, <2>1, DropSdtIs
<1>4. Touches(s, r, T)
  BY DropSdtKeeps
<1>5. "NitTransport" \notin T
  BY DEF SdtTables, ServiceTables
<1>6. NitTransports(r, sdt) = NitTransports(s, sdt)
  BY <1>4, <1>5, MatchingFrame DEF NitTransports
<1> HIDE DEF r
<1>7. ASSUME ~ r.failed, NEW id \in SdtRows(r, sdt, service),
             Rows(r, "Sdt")[id].version # sdt.version
      PROVE  FALSE
  <2>1. /\ id \in DOMAIN Rows(r, "Sdt") /\ id \in DOMAIN Rows(s, "Sdt")
        /\ Rows(r, "Sdt")[id] = Rows(s, "Sdt")[id]
    BY <1>3, <1>7, SdtRowsAre DEF Thins
  <2>2. id \in SdtRows(s, sdt, service)
    BY <1>6, <1>7, <2>1, SdtRowsAre
  <2>3. s.tables["Sdt"][id].version # sdt.version
    BY <1>7, <2>1 DEF Rows
  <2>4. id \in ids
    BY <2>2, <2>3 DEF OtherVersion
  <2>5. QED
    BY <1>2, <1>7, <2>1, <2>4 DEF Rid
<1>8. QED
  BY <1>7 DEF SdtIsCurrent, r

\* And stays so while the rows of Sdt are not touched.
LEMMA StaysCurrent ==
  ASSUME NEW s, NEW r, NEW T, Touches(s, r, T), "Sdt" \notin T, "NitTransport" \notin T,
         NEW sdt, NEW service, SdtIsCurrent(s, sdt, service)
  PROVE  SdtIsCurrent(r, sdt, service)
<1>1. Rows(r, "Sdt") = Rows(s, "Sdt") /\ (s.failed => r.failed)
  BY DEF Touches
<1>2. NitTransports(r, sdt) = NitTransports(s, sdt)
  BY MatchingFrame DEF NitTransports
<1>3. SdtRows(r, sdt, service) = SdtRows(s, sdt, service)
  BY <1>1, <1>2, SdtRowsAre
<1>4. QED
  BY <1>1, <1>3 DEF SdtIsCurrent

\* The row of a service in Sdt.
SdtRow(s, sdt, service, id) ==
  /\ id \in SdtRows(s, sdt, service) /\ Rows(s, "Sdt")[id].version = sdt.version

\* The descriptors of the service are filed under it.
LEMMA SdtRowFiles ==
  ASSUME NEW s, NEW sdt, IsSent(sdt), sdt.kind = "sdt",
         NEW service, service \in ToSet(sdt.services), NEW id, SdtRow(s, sdt, service, id),
         NEW row, row.fkey = id, row.descriptor \in ToSet(service.descriptors)
  PROVE  IsFiled(s.tables, "SdtDescriptor", row)
<1> DEFINE fk == Rows(s, "Sdt")[id].nit_transport_fk
<1>1. /\ Rows(s, "Sdt")[id].service_id = service.id
      /\ Rows(s, "Sdt")[id].version = sdt.version
      /\ fk \in NitTransports(s, sdt)
  BY SdtRowsAre DEF SdtRow
<1>2. /\ Rows(s, "NitTransport")[fk].original_network_id = sdt.onid
      /\ Rows(s, "NitTransport")[fk].transport_id = sdt.tsid
  BY <1>1 DEF NitTransports, Matching, TransportId
<1>3. FiledUnderSdt(s.tables, row)
  BY <1>1, <1>2, RowsIsRowsOf DEF FiledUnderSdt, SentService
<1>4. QED
  BY <1>3 DEF IsFiled

LEMMA StoreSdtIs ==
  ASSUME NEW s, SInv(s), NEW sdt, IsSent(sdt), sdt.kind = "sdt", IsSeq(sdt.services),
         NEW service, service \in ToSet(sdt.services), IsSeq(service.descriptors),
         NEW nit_transport_fk, s.failed \/ nit_transport_fk \in NitTransports(s, sdt)
  PROVE  LET r == StoreSdt(s, sdt, service, nit_transport_fk)
         IN SInv(r) /\ Touches(s, r, SdtTables)
<1> DEFINE found == LastKey(SdtRows(s, sdt, service))
           current == IF found > 0 /\ s.tables["Sdt"][found].version # sdt.version
                        THEN ProcessService(DropSdt(s, sdt, service), sdt)
                        ELSE s
           known == LastKey(SdtRows(current, sdt, service))
           row == [service_id |-> service.id, version |-> sdt.version,
                   nit_transport_fk |-> nit_transport_fk]
           inserted == Insert(current, "Sdt", row)
           parsed == ProcessService(inserted, sdt)
           r == StoreSdt(s, sdt, service, nit_transport_fk)
<1>1. /\ known > 0 => r = InsertDescriptor(current, "SdtDescriptor", known, service.descriptors)
      /\ ~ (known > 0) =>
           r = InsertDescriptor(parsed, "SdtDescriptor", inserted.lastRowId, service.descriptors)
  BY DEF StoreSdt
<1>2. /\ ServiceTables \subseteq SdtTables
      /\ {"Sdt"} \subseteq SdtTables /\ {"SdtDescriptor"} \subseteq SdtTables
      /\ "NitTransport" \notin SdtTables /\ "NitTransport" \notin ServiceTables
      /\ "Sdt" \notin ServiceTables
  BY DEF SdtTables, ServiceTables
<1>3. SInv(current) /\ Touches(s, current, SdtTables) /\ SdtIsCurrent(current, sdt, service)
  <2> DEFINE dropped == DropSdt(s, sdt, service)
  <2>1. /\ SInv(dropped) /\ Touches(s, dropped, SdtTables)
        /\ SdtIsCurrent(dropped, sdt, service)
    BY DropSdtKeeps, DropSdtIsCurrent
  <2> HIDE DEF dropped
  <2>2. SInv(ProcessService(dropped, sdt)) /\ Touches(dropped, ProcessService(dropped, sdt), ServiceTables)
    BY <2>1, ProcessServiceIs
  <2>3. Touches(s, ProcessService(dropped, sdt), SdtTables)
    BY <1>2, <2>1, <2>2, TouchesTrans
  <2>4. SdtIsCurrent(ProcessService(dropped, sdt), sdt, service)
    BY <1>2, <2>1, <2>2, StaysCurrent
  <2>5. current = ProcessService(dropped, sdt) \/ (current = s /\ SdtIsCurrent(s, sdt, service))
    <3>1. /\ SdtRows(s, sdt, service) \subseteq DOMAIN Rows(s, "Sdt")
          /\ \A id \in SdtRows(s, sdt, service) : s.tables["Sdt"] = Rows(s, "Sdt")
      BY SdtRowsAre DEF Rows
    <3>2. /\ found = 0 => SdtRows(s, sdt, service) = {}
          /\ found # 0 => found > 0 /\ found \in SdtRows(s, sdt, service)
      BY <3>1, LastOf
    <3> HIDE DEF found
    <3>3. CASE found > 0 /\ s.tables["Sdt"][found].version # sdt.version
      BY <3>3 DEF dropped
    <3>4. CASE ~ (found > 0 /\ s.tables["Sdt"][found].version # sdt.version)
      <4>1. current = s
        BY <3>4
      <4>2. SdtIsCurrent(s, sdt, service)
        BY <3>1, <3>2, <3>4, OneSdtRow DEF SdtIsCurrent
      <4>3. QED
        BY <4>1, <4>2
    <3>5. QED
      BY <3>3, <3>4
  <2> HIDE DEF current
  <2>6. QED
    BY <2>2, <2>3, <2>4, <2>5, TouchesSelf
<1>4. /\ row.service_id = service.id /\ row.nit_transport_fk = nit_transport_fk
      /\ row.version = sdt.version
  OBVIOUS
<1>5. "SdtDescriptor" # "Sdt" /\ <<"SdtDescriptor", "Sdt">> \in DescriptorTables
  BY DEF DescriptorTables
<1> HIDE DEF current, row, r
<1>6. current.failed \/ nit_transport_fk \in NitTransports(current, sdt)
  BY <1>2, <1>3, MatchingFrame DEF NitTransports, Touches
<1>7. /\ known \in Nat
      /\ ~ (known > 0) => SdtRows(current, sdt, service) = {}
      /\ known > 0 => known \in SdtRows(current, sdt, service)
  <2>1. SdtRows(current, sdt, service) \subseteq DOMAIN Rows(current, "Sdt")
    BY MatchingIs DEF SdtRows
  <2>2. QED
    BY <1>3, <2>1, LastOf
<1> HIDE DEF known
<1>8. CASE known > 0
  <2>1. current.failed \/ SdtRow(current, sdt, service, known)
    BY <1>3, <1>7, <1>8 DEF SdtIsCurrent, SdtRow
  <2>2. \/ current.failed
        \/ \A d : d.fkey = known /\ d.descriptor \in ToSet(service.descriptors)
             => IsFiled(current.tables, "SdtDescriptor", d)
    BY <2>1, SdtRowFiles
  <2>3. known \in DOMAIN Rows(current, "Sdt")
    BY <1>7, <1>8, SdtRowsAre
  <2>4. SInv(r) /\ Touches(current, r, {"SdtDescriptor"})
    BY <1>1, <1>3, <1>5, <1>8, <2>2, <2>3, InsertDescriptorIs
  <2>5. QED
    BY <1>2, <1>3, <2>4, TouchesTrans DEF r
<1>9. CASE ~ (known > 0)
  <2>1. current.failed \/ ~ IsDuplicate(current, "Sdt", row)
    <3>1. SUFFICES ASSUME ~ current.failed, IsDuplicate(current, "Sdt", row)
                   PROVE  FALSE
      OBVIOUS
    <3>2. "service_id" \in UniqueIndex["Sdt"] /\ "nit_transport_fk" \in UniqueIndex["Sdt"]
      BY DEF UniqueIndex
    <3>3. PICK id \in DOMAIN Rows(current, "Sdt") :
            /\ Rows(current, "Sdt")[id].service_id = service.id
            /\ Rows(current, "Sdt")[id].nit_transport_fk = nit_transport_fk
      BY <1>4, <3>1, <3>2 DEF IsDuplicate, Matching, Restrict
    <3>4. Rows(current, "Sdt") = current.tables["Sdt"]
      BY <3>3 DEF Rows
    <3>5. id \in Matching(current, "Sdt", [service_id |-> service.id])
      BY <3>3 DEF Matching
    <3>6. id \in SdtRows(current, sdt, service)
      BY <1>6, <3>1, <3>3, <3>4, <3>5 DEF SdtRows
    <3>7. QED
      BY <1>7, <1>9, <3>6
  <2>2. current.failed \/ Fits(current, "Sdt", row)
    <3>1. \A key \in ForeignKeys :
            key[1] = "Sdt" => key[2] = "nit_transport_fk" /\ key[3] = "NitTransport"
      BY DEF ForeignKeys
    <3>2. current.failed \/ nit_transport_fk \in DOMAIN Rows(current, "NitTransport")
      BY <1>6, MatchingIs DEF NitTransports
    <3>3. IsFiled(current.tables, "Sdt", row)
      BY NothingToFile
    <3>4. QED
      BY <1>4, <3>1, <3>2, <3>3 DEF Fits, Kept
  <2>3. /\ SInv(inserted) /\ Touches(current, inserted, {"Sdt"})
        /\ \/ inserted.failed
           \/ /\ inserted.lastRowId \in DOMAIN Rows(inserted, "Sdt")
              /\ Rows(inserted, "Sdt")[inserted.lastRowId] = row
    BY <1>3, <2>1, <2>2, InsertIs DEF Touches
  <2> HIDE DEF inserted
  <2>4. SInv(parsed) /\ Touches(inserted, parsed, ServiceTables)
    BY <2>3, ProcessServiceIs
  <2> HIDE DEF parsed
  <2>5. parsed.failed \/ SdtRow(parsed, sdt, service, inserted.lastRowId)
    <3>1. SUFFICES ASSUME ~ parsed.failed
                   PROVE  SdtRow(parsed, sdt, service, inserted.lastRowId)
      OBVIOUS
    <3>2. /\ ~ inserted.failed /\ ~ current.failed
          /\ Rows(parsed, "Sdt") = Rows(inserted, "Sdt")
      BY <1>2, <2>3, <2>4, <3>1 DEF Touches
    <3>3. nit_transport_fk \in NitTransports(parsed, sdt)
      <4>1. nit_transport_fk \in NitTransports(inserted, sdt)
        BY <1>6, <2>3, <3>2, MatchingFrame DEF NitTransports
      <4>2. QED
        BY <1>2, <2>4, <4>1, MatchingFrame DEF NitTransports
    <3>4. QED
      BY <1>4, <2>3, <3>2, <3>3, SdtRowsAre DEF SdtRow
  <2>6. SInv(r) /\ Touches(parsed, r, {"SdtDescriptor"})
    <3>1. \/ parsed.failed
          \/ \A d : d.fkey = inserted.lastRowId /\ d.descriptor \in ToSet(service.descriptors)
               => IsFiled(parsed.tables, "SdtDescriptor", d)
      BY <2>5, SdtRowFiles
    <3>2. parsed.failed \/ inserted.lastRowId \in DOMAIN Rows(parsed, "Sdt")
      BY <2>5, SdtRowsAre DEF SdtRow
    <3>3. QED
      BY <1>1, <1>5, <1>9, <2>4, <3>1, <3>2, InsertDescriptorIs
  <2>7. Touches(s, inserted, SdtTables)
    BY <1>2, <1>3, <2>3, TouchesTrans
  <2>8. Touches(s, parsed, SdtTables)
    BY <1>2, <2>4, <2>7, TouchesTrans
  <2>9. Touches(s, r, SdtTables)
    BY <1>2, <2>6, <2>8, TouchesTrans
  <2>10. QED
    BY <2>6, <2>9 DEF r
<1>10. QED
  BY <1>8, <1>9

LEMMA ProcessSdtEventDbIs ==
  ASSUME NEW s, SInv(s), NEW sdt, IsSent(sdt), sdt.kind = "sdt", Descriptive(sdt.services)
  PROVE  LET r == ProcessSdtEventDb(s, sdt)
         IN SInv(r) /\ Touches(s, r, SdtTables)
<1> DEFINE nit_transport_fk == LastKey(NitTransports(s, sdt))
           of == [sdt |-> sdt, nit_transport_fk |-> nit_transport_fk]
           items == sdt.services
           r == ProcessSdtEventDb(s, sdt)
<1>1. CASE nit_transport_fk = 0
  BY <1>1, TouchesSelf DEF ProcessSdtEventDb
<1>2. CASE nit_transport_fk # 0
  <2>1. nit_transport_fk \in NitTransports(s, sdt)
    BY <1>2, LastOf, MatchingIs DEF NitTransports
  <2>2. IsSeq(sdt.services)
    BY DEF Descriptive
  <2>3. /\ Len(items) \in Nat
        /\ \A n \in 1..Len(items) : items[n] \in ToSet(sdt.services) /\ IsSeq(items[n].descriptors)
    BY ItemsAre DEF Descriptive
  <2> HIDE DEF nit_transport_fk, items, of
  <2>4. PICK after :
          /\ after[0] = s
          /\ \A n \in 1..Len(items) :
               after[n] = StoreSdt(after[n - 1], of.sdt, items[n], of.nit_transport_fk)
          /\ EachService!Run(s, of, items) = after[Len(items)]
    BY <2>3, EachService!RunIs
  <2>5. ASSUME NEW n \in 1..Len(items), SInv(after[n - 1]), Touches(s, after[n - 1], SdtTables)
        PROVE  SInv(after[n]) /\ Touches(after[n - 1], after[n], SdtTables)
    <3>1. after[n] = StoreSdt(after[n - 1], sdt, items[n], nit_transport_fk)
      BY <2>4 DEF of
    <3>2. "NitTransport" \notin SdtTables
      BY DEF SdtTables, ServiceTables
    <3>3. nit_transport_fk \in NitTransports(after[n - 1], sdt)
      BY <2>1, <2>5, <3>2, MatchingFrame DEF NitTransports
    <3>4. items[n] \in ToSet(sdt.services) /\ IsSeq(items[n].descriptors)
      BY <2>3
    <3> HIDE DEF r
    <3>5. QED
      BY <2>2, <2>5, <3>1, <3>3, <3>4, StoreSdtIs
  <2>6. SInv(after[0]) /\ Touches(s, after[0], SdtTables)
    BY <2>4, TouchesSelf
  <2>7. SInv(after[Len(items)]) /\ Touches(s, after[Len(items)], SdtTables)
    BY <2>3, <2>5, <2>6, RoundsKeep
  <2>8. r = after[Len(items)]
    BY <1>2, <2>4 DEF ProcessSdtEventDb, nit_transport_fk, items, of
  <2>9. QED
    BY <2>7, <2>8
<1>3. QED
  BY <1>1, <1>2

-----------------------------------------------------------------------------
(***************************************************************************)
(* BAT.                                                                    *)
(***************************************************************************)
LEMMA JoinBouquetIs ==
  ASSUME NEW s, SInv(s), NEW ts, NEW bouquet_fk
  PROVE  LET r == JoinBouquet(s, ts, bouquet_fk)
         IN SInv(r) /\ Touches(s, r, {"Transport"})
<1> DEFINE k == LastKey(Transports(s, ts))
           old == s.tables["Transport"]
           new == [old EXCEPT ![k].bouquet_fk = bouquet_fk]
           w == Write(s, "Transport", new)
           r == JoinBouquet(s, ts, bouquet_fk)
<1>1. CASE s.failed \/ k = 0
  <2>1. r = s
    BY <1>1 DEF JoinBouquet
  <2>2. QED
    BY <2>1, TouchesSelf
<1>2. CASE ~ (s.failed \/ k = 0)
  <2>1. r = w
    BY <1>2 DEF JoinBouquet
  <2>2. k \in DOMAIN Rows(s, "Transport")
    BY <1>2, LastOf, MatchingIs DEF Transports
  <2>3. "Transport" \in DOMAIN s.tables /\ Rows(s, "Transport") = old
    BY <2>2 DEF Rows
  <2>4. \A id \in DOMAIN old : TransportColumns \cup {"bouquet_fk"} \subseteq DOMAIN old[id]
    BY <2>3, RowsIsRowsOf DEF SInv, DbInv
  <2> HIDE DEF k, old
  <2>5. /\ DOMAIN new = DOMAIN old
        /\ \A id \in DOMAIN old :
             /\ DOMAIN new[id] = DOMAIN old[id]
             /\ \A column \in TransportColumns : new[id][column] = old[id][column]
    <3>1. \A id \in DOMAIN old : id # k => new[id] = old[id]
      OBVIOUS
    <3>2. new[k] = [old[k] EXCEPT !.bouquet_fk = bouquet_fk]
      BY <2>2, <2>3
    <3>3. DOMAIN new = DOMAIN old
      OBVIOUS
    <3> HIDE DEF new
    <3>4. /\ DOMAIN new[k] = DOMAIN old[k]
          /\ \A column \in TransportColumns : new[k][column] = old[k][column]
      BY <2>2, <2>3, <2>4, <3>2 DEF TransportColumns
    <3>5. QED
      BY <3>1, <3>3, <3>4
  <2> HIDE DEF new
  <2>6. IsSession(s) /\ ~ s.inTransaction /\ s.lastRowId \in Nat /\ DbInv(s.tables)
    BY DEF SInv
  <2>7. /\ IsSession(w) /\ ~ w.inTransaction
        /\ w.lastRowId = s.lastRowId /\ w.failed = s.failed
        /\ w.durable = Append(s.durable, w.tables)
        /\ DOMAIN w.tables = DOMAIN s.tables
        /\ Rows(w, "Transport") = new
        /\ \A u : u # "Transport" => Rows(w, u) = Rows(s, u)
    <3>1. /\ IsSession(w) /\ w.inTransaction = s.inTransaction
          /\ w.lastRowId = s.lastRowId /\ w.failed = s.failed
          /\ ~ s.inTransaction => w.durable = Append(s.durable, w.tables)
          /\ DOMAIN w.tables = DOMAIN s.tables \cup {"Transport"}
          /\ Rows(w, "Transport") = new
          /\ \A u : u # "Transport" => Rows(w, u) = Rows(s, u)
      BY <2>6, WriteIs
    <3> HIDE DEF w
    <3>2. DOMAIN s.tables \cup {"Transport"} = DOMAIN s.tables
      BY <2>3
    <3>3. QED
      BY <2>6, <3>1, <3>2
  <2> HIDE DEF w, r
  <2>8. Touches(s, w, {"Transport"})
    BY <2>7 DEF Touches
  <2>9. \A u \in DOMAIN s.tables : w.tables[u] = Rows(w, u) /\ s.tables[u] = Rows(s, u)
    BY <2>7 DEF Rows
  <2>10. DbInv(w.tables)
    <3>1. DOMAIN w.tables \subseteq ToSet(DatabaseTables)
      BY <2>6, <2>7 DEF DbInv
    <3>2. ASSUME NEW u \in DOMAIN w.tables
          PROVE  RowsFit(u, w.tables[u])
      <4>1. RowsFit(u, Rows(s, u))
        BY <2>6, <2>7, <2>9 DEF DbInv
      <4>2. CASE u = "Transport"
        <5>1. UniqueIndex[u] \subseteq TransportColumns
          BY <4>2 DEF UniqueIndex, TransportColumns
        <5>2. QED
          BY <2>3, <2>5, <2>7, <2>9, <4>1, <4>2, <5>1 DEF RowsFit
      <4>3. CASE u # "Transport"
        BY <2>7, <2>9, <4>1, <4>3
      <4>4. QED
        BY <4>2, <4>3
    <3>3. ASSUME NEW key \in Kept
          PROVE  Refers(w.tables, key)
      <4>1. Referenced(s, key)
        BY <2>6, ReferencedIsRefers DEF DbInv
      <4>2. DOMAIN Rows(w, key[3]) = DOMAIN Rows(s, key[3])
        BY <2>3, <2>5, <2>7
      <4>3. CASE key[1] # "Transport"
        BY <2>7, <4>1, <4>2, <4>3, ReferencedIsRefers DEF Referenced
      <4>4. CASE key[1] = "Transport"
        <5>1. key[2] = "network_fk" /\ key[3] = "Network"
          BY <4>4 DEF Kept, ForeignKeys, BouquetKey
        <5>2. SUFFICES ASSUME NEW id \in DOMAIN new
                       PROVE  new[id].network_fk \in DOMAIN Rows(w, key[3])
          BY <2>7, <4>4, <5>1, ReferencedIsRefers DEF Referenced
        <5>3. old[id].network_fk \in DOMAIN Rows(s, key[3])
          BY <2>3, <2>5, <4>1, <4>4, <5>1 DEF Referenced, Kept
        <5>4. new[id].network_fk = old[id].network_fk
          BY <2>5, <5>2 DEF TransportColumns
        <5>5. QED
          BY <4>2, <5>3, <5>4
      <4>5. QED
        BY <4>3, <4>4
    <3>4. \A id \in DOMAIN Rows(w, "Transport") :
            TransportColumns \cup {"bouquet_fk"} \subseteq DOMAIN Rows(w, "Transport")[id]
      BY <2>4, <2>5, <2>7
    <3>5. "Nit" \in DOMAIN w.tables =>
            \A id \in DOMAIN Rows(w, "Network") : \E nit \in DOMAIN w.tables["Nit"] :
              w.tables["Nit"][nit].network_id = Rows(w, "Network")[id].network_id
      <4>1. SUFFICES ASSUME "Nit" \in DOMAIN s.tables
                     PROVE  \A id \in DOMAIN Rows(s, "Network") : \E nit \in DOMAIN Rows(s, "Nit") :
                              Rows(s, "Nit")[nit].network_id = Rows(s, "Network")[id].network_id
        BY <2>7, <2>9
      <4>2. QED
        BY <2>6, <2>9, <4>1, RowsIsRowsOf DEF DbInv
    <3>6. \A i, j \in DOMAIN Rows(w, "Eit") :
            (\A column \in EventColumns : Rows(w, "Eit")[i][column] = Rows(w, "Eit")[j][column])
              => i = j
      BY <2>6, <2>7, RowsIsRowsOf DEF DbInv
    <3>7. \A t : RowsOf(w.tables, t) = Rows(w, t)
      BY RowsIsRowsOf
    <3>8. \A t : RowsOf(s.tables, t) = Rows(s, t)
      BY RowsIsRowsOf
    <3>9. Keeps(s.tables, w.tables)
      <4>1. \A t : \A id \in DOMAIN Rows(w, t) : SameRow(t, Rows(s, t)[id], Rows(w, t)[id])
        BY <2>3, <2>5, <2>7 DEF SameRow
      <4>2. \A t \in {"Nit", "NitTransport"} : Rows(s, t) = Rows(w, t)
        BY <2>7
      <4>3. QED
        BY <2>7, <3>7, <3>8, <4>1, <4>2 DEF Keeps
    <3>10. \A t : DOMAIN RowsOf(w.tables, t) = DOMAIN RowsOf(s.tables, t)
      BY <2>3, <2>5, <2>7, <3>7, <3>8
    <3>11. \A t : \A id \in DOMAIN RowsOf(w.tables, t) :
             IsFiled(w.tables, t, RowsOf(w.tables, t)[id])
      BY <2>6, <3>3, <3>9, <3>10, AllFiledStay
    <3>12. OneTransport(Rows(w, "NitTransport")) /\ OneTransport(Rows(w, "Transport"))
      <4>1. OneTransport(Rows(s, "NitTransport")) /\ OneTransport(old)
        BY <2>3, <2>6, <3>8 DEF DbInv
      <4>2. \A i, j \in DOMAIN new : SameTransport(new[i], new[j]) => SameTransport(old[i], old[j])
        BY <2>5 DEF TransportColumns, SameTransport
      <4>3. QED
        BY <2>5, <2>7, <4>1, <4>2 DEF OneTransport
    <3>13. DOMAIN Rows(w, "Bat") # {} => HasPreferred(Rows(w, "Network"))
      BY <2>6, <2>7, RowsIsRowsOf DEF DbInv
    <3>14. QED
      BY <3>1, <3>2, <3>3, <3>4, <3>5, <3>6, <3>7, <3>11, <3>12, <3>13 DEF DbInv
  <2>11. OnDisk(w)
    BY <2>7, <2>10, AppendOnDisk DEF SInv
  <2>12. SInv(w)
    BY <2>6, <2>7, <2>10, <2>11 DEF SInv
  <2>13. QED
    BY <2>1, <2>8, <2>12 DEF r
<1>3. QED
  BY <1>1, <1>2

BouquetTables == {"Bouquet", "Transport"}
BatTables == {"Bat", "BatDescriptor", "BatTransport", "BatTransportDescriptor"}

\* The DELETE of an old bouquet, whichever row it finds, breaks no foreign key
\* but the one that refers to bouquets.
LEMMA DropBouquetKeeps ==
  ASSUME NEW s, SInv(s), NEW bat, NEW version
  PROVE  LET ids == OtherVersion(s, "Bouquet",
                                 Matching(s, "Bouquet", [bouquet_id |-> bat.version]), version)
             r == CommitSqlStatements(s, Delete(TTransaction(s), "Bouquet", ids))
         IN SInv(r) /\ Touches(s, r, BouquetTables)
<1> DEFINE e == TTransaction(s)
           ids == OtherVersion(s, "Bouquet",
                               Matching(s, "Bouquet", [bouquet_id |-> bat.version]), version)
           d == Delete(e, "Bouquet", ids)
           r == CommitSqlStatements(s, d)
<1>1. /\ "Bouquet" \in BouquetTables
      /\ "Nit" \notin BouquetTables /\ "NitTransport" \notin BouquetTables
      /\ "Network" \notin BouquetTables
  BY DEF BouquetTables
<1>2. IsSession(s) /\ ~ s.inTransaction
  BY DEF SInv
<1> HIDE DEF ids
<1>3. OnTheWay(s, e, {}, BouquetTables)
  BY <1>2, BeginStep
<1>4. {} \cup Children("Bouquet") \subseteq {BouquetKey}
  BY ChildrenAre
<1>5. OnTheWay(s, d, {BouquetKey}, BouquetTables)
  <2> HIDE DEF e
  <2>1. QED
    BY <1>1, <1>3, <1>4, DeleteStep
<1>6. Thins(s, r, BouquetTables)
      /\ \A key \in ForeignKeys \ {BouquetKey} : Referenced(s, key) => Referenced(r, key)
  <2> HIDE DEF d
  <2>1. QED
    BY <1>2, <1>5, CommitStep
<1>7. \A key \in Kept : Referenced(s, key) => Referenced(r, key)
  BY <1>6 DEF Kept
<1> HIDE DEF r
<1>8. SInv(r) /\ Touches(s, r, BouquetTables)
  BY <1>1, <1>6, <1>7, ThinIs
<1>9. QED
  BY <1>8 DEF r, d, e, ids

LEMMA ProcessBouquetIs ==
  ASSUME NEW s, SInv(s), NEW bat, IsSeq(bat.transports)
  PROVE  LET r == ProcessBouquet(s, bat)
         IN SInv(r) /\ Touches(s, r, BouquetTables)
<1> DEFINE found == FindPrimaryKey(s, "Bouquet", Bouquet(bat))
           dropped == Delete(TTransaction(s), "Bouquet",
                             OtherVersion(s, "Bouquet",
                                          Matching(s, "Bouquet", [bouquet_id |-> bat.version]),
                                          bat.version))
           current == IF found > 0 /\ s.tables["Bouquet"][found].version # bat.version
                        THEN CommitSqlStatements(s, dropped)
                        ELSE s
           row == [bouquet_id |-> bat.bouquet, version |-> bat.version]
           inserted == Insert(current, "Bouquet", row)
           known == FindPrimaryKey(current, "Bouquet", Bouquet(bat))
           items == bat.transports
           r == ProcessBouquet(s, bat)
<1>1. r = IF known > 0 THEN current ELSE EachJoined!Run(inserted, inserted.lastRowId, items)
  BY DEF ProcessBouquet
<1>2. SInv(current) /\ Touches(s, current, BouquetTables)
  BY DropBouquetKeeps, TouchesSelf
<1>3. row.bouquet_id = bat.bouquet
  OBVIOUS
<1>4. {"Bouquet"} \subseteq BouquetTables /\ {"Transport"} \subseteq BouquetTables
  BY DEF BouquetTables
<1> HIDE DEF current, row, r
<1>5. known \in Nat /\ (~ (known > 0) => Matching(current, "Bouquet", Bouquet(bat)) = {})
  BY <1>2, LastOf, MatchingIs DEF FindPrimaryKey
<1>6. CASE known > 0
  BY <1>1, <1>2, <1>6 DEF r
<1>7. CASE ~ (known > 0)
  <2>1. ~ IsDuplicate(current, "Bouquet", row)
    <3>1. /\ DOMAIN Bouquet(bat) \subseteq UniqueIndex["Bouquet"]
          /\ \A column \in DOMAIN Bouquet(bat) : Bouquet(bat)[column] = row[column]
      BY <1>3 DEF Bouquet, UniqueIndex
    <3>2. QED
      BY <1>5, <1>7, <3>1, NotDuplicate
  <2>2. Fits(current, "Bouquet", row)
    <3>1. \A key \in ForeignKeys : key[1] # "Bouquet"
      BY DEF ForeignKeys
    <3>2. IsFiled(current.tables, "Bouquet", row)
      BY NothingToFile
    <3>3. QED
      BY <1>3, <3>1, <3>2 DEF Fits, Kept
  <2>3. SInv(inserted) /\ Touches(current, inserted, {"Bouquet"})
    BY <1>2, <2>1, <2>2, InsertIs
  <2>4. Len(items) \in Nat
    BY ItemsAre
  <2> HIDE DEF inserted, items, known
  <2> DEFINE bouquet_fk == inserted.lastRowId
  <2> HIDE DEF bouquet_fk
  <2>5. PICK after :
          /\ after[0] = inserted
          /\ \A n \in 1..Len(items) : after[n] = JoinBouquet(after[n - 1], items[n], bouquet_fk)
          /\ EachJoined!Run(inserted, bouquet_fk, items) = after[Len(items)]
    BY <2>4, EachJoined!RunIs
  <2>6. ASSUME NEW n \in 1..Len(items), SInv(after[n - 1]), Touches(inserted, after[n - 1], {"Transport"})
        PROVE  SInv(after[n]) /\ Touches(after[n - 1], after[n], {"Transport"})
    <3>1. after[n] = JoinBouquet(after[n - 1], items[n], bouquet_fk)
      BY <2>5
    <3>2. QED
      BY <2>6, <3>1, JoinBouquetIs
  <2>7. SInv(after[0]) /\ Touches(inserted, after[0], {"Transport"})
    BY <2>3, <2>5, TouchesSelf
  <2>8. SInv(after[Len(items)]) /\ Touches(inserted, after[Len(items)], {"Transport"})
    BY <2>4, <2>6, <2>7, RoundsKeep
  <2>9. r = after[Len(items)]
    BY <1>1, <1>7, <2>5 DEF bouquet_fk
  <2>10. Touches(s, inserted, BouquetTables)
    BY <1>2, <1>4, <2>3, TouchesTrans
  <2>11. Touches(s, r, BouquetTables)
    BY <1>4, <2>8, <2>9, <2>10, TouchesTrans
  <2>12. QED
    BY <2>8, <2>9, <2>11 DEF r
<1>8. QED
  BY <1>6, <1>7

\* From s to r nothing but rows of the bouquet come and go in Bat.
OthersStay(s, r, bat) ==
  \A id \in DOMAIN Rows(r, "Bat") :
    \/ Rows(r, "Bat")[id].bouquet_id = bat.bouquet
    \/ id \in DOMAIN Rows(s, "Bat") /\ Rows(r, "Bat")[id] = Rows(s, "Bat")[id]

LEMMA OthersStayTrans ==
  ASSUME NEW s, NEW e, NEW r, NEW bat, OthersStay(s, e, bat), OthersStay(e, r, bat)
  PROVE  OthersStay(s, r, bat)
BY DEF OthersStay

LEMMA OthersStayFrame ==
  ASSUME NEW s, NEW r, NEW T, Touches(s, r, T), "Bat" \notin T, NEW bat
  PROVE  OthersStay(s, r, bat)
BY DEF OthersStay, Touches

LEMMA DropBatKeeps ==
  ASSUME NEW s, SInv(s), NEW bat
  PROVE  LET r == DropBat(s, bat)
         IN SInv(r) /\ Touches(s, r, BatTables) /\ OthersStay(s, r, bat)
<1>1. /\ "Bat" \in BatTables /\ "BatDescriptor" \in BatTables
      /\ "BatTransport" \in BatTables /\ "BatTransportDescriptor" \in BatTables
      /\ "Nit" \notin BatTables /\ "NitTransport" \notin BatTables
      /\ "Network" \notin BatTables
  BY DEF BatTables
<1>2. IsSession(s) /\ ~ s.inTransaction
  BY DEF SInv
<1> DEFINE r == DropBat(s, bat)
<1>3. KeepsReferences(s, r) /\ Thins(s, r, BatTables)
  BY <1>1, <1>2, DropBatIs
<1> HIDE DEF r
<1>4. SInv(r) /\ Touches(s, r, BatTables)
  BY <1>1, <1>3, TransactionIs
<1>5. OthersStay(s, r, bat)
  BY <1>3 DEF Thins, OthersStay
<1>6. QED
  BY <1>4, <1>5 DEF r

\* The row of a bouquet in Bat has the version of the BAT, unless the session
\* failed.
BatIsCurrent(s, bat) ==
  s.failed \/ \A id \in Matching(s, "Bat", Bouquet(bat)) : Rows(s, "Bat")[id].version = bat.version

LEMMA BatRowsAre ==
  ASSUME NEW s, NEW bat
  PROVE  Matching(s, "Bat", Bouquet(bat)) =
           {id \in DOMAIN Rows(s, "Bat") : Rows(s, "Bat")[id].bouquet_id = bat.bouquet}
<1> DEFINE values == Bouquet(bat)
<1>1. DOMAIN values = {"bouquet_id"} /\ values["bouquet_id"] = bat.bouquet
  BY DEF Bouquet
<1> HIDE DEF values
<1>2. Matching(s, "Bat", values) =
        {id \in DOMAIN Rows(s, "Bat") : Rows(s, "Bat")[id].bouquet_id = bat.bouquet}
  BY <1>1 DEF Matching
<1>3. QED
  BY <1>2 DEF values

LEMMA OneBatRow ==
  ASSUME NEW s, SInv(s), NEW bat,
         NEW i \in Matching(s, "Bat", Bouquet(bat)), NEW j \in Matching(s, "Bat", Bouquet(bat))
  PROVE  i = j
<1>1. /\ i \in DOMAIN Rows(s, "Bat") /\ j \in DOMAIN Rows(s, "Bat")
      /\ Rows(s, "Bat")[i].bouquet_id = Rows(s, "Bat")[j].bouquet_id
  BY BatRowsAre
<1>2. "Bat" \in DOMAIN s.tables /\ Rows(s, "Bat") = s.tables["Bat"]
  BY <1>1 DEF Rows
<1>3. RowsFit("Bat", Rows(s, "Bat"))
  BY <1>2 DEF SInv, DbInv
<1>4. UniqueIndex["Bat"] = {"bouquet_id"}
  BY DEF UniqueIndex
<1>5. QED
  BY <1>1, <1>3, <1>4 DEF RowsFit

LEMMA DropBatIsCurrent ==
  ASSUME NEW s, SInv(s), NEW bat
  PROVE  BatIsCurrent(DropBat(s, bat), bat)
<1> DEFINE r == DropBat(s, bat)
           ids == OtherVersion(s, "Bat", Matching(s, "Bat", Bouquet(bat)), bat.version)
<1>1. IsSession(s) /\ ~ s.inTransaction
  BY DEF SInv
<1>2. Rid(r, "Bat", ids)
  BY <1>1, DropBatRids
<1>3. Thins(s, r, BatTables)
  <2>1. /\ "Bat" \in BatTables /\ "BatDescriptor" \in BatTables
        /\ "BatTransport" \in BatTables /\ "BatTransportDescriptor" \in BatTables
    BY DEF BatTables
  <2>2. QED
    BY <1>1, <2>1, DropBatIs
<1> HIDE DEF r
<1>4. ASSUME ~ r.failed, NEW id \in Matching(r, "Bat", Bouquet(bat)),
             Rows(r, "Bat")[id].version # bat.version
      PROVE  FALSE
  <2>1. /\ id \in DOMAIN Rows(r, "Bat") /\ id \in DOMAIN Rows(s, "Bat")
        /\ Rows(r, "Bat")[id] = Rows(s, "Bat")[id]
    BY <1>3, <1>4, BatRowsAre DEF Thins
  <2>2. id \in Matching(s, "Bat", Bouquet(bat))
    BY <1>4, <2>1, BatRowsAre
  <2>3. s.tables["Bat"][id].version # bat.version
    BY <1>4, <2>1 DEF Rows
  <2>4. id \in ids
    BY <2>2, <2>3 DEF OtherVersion
  <2>5. QED
    BY <1>2, <1>4, <2>1, <2>4 DEF Rid
<1>5. QED
  BY <1>4 DEF BatIsCurrent, r

LEMMA BatStaysCurrent ==
  ASSUME NEW s, NEW r, NEW T, Touches(s, r, T), "Bat" \notin T,
         NEW bat, BatIsCurrent(s, bat)
  PROVE  BatIsCurrent(r, bat)
<1>1. Rows(r, "Bat") = Rows(s, "Bat") /\ (s.failed => r.failed)
  BY DEF Touches
<1>2. Matching(r, "Bat", Bouquet(bat)) = Matching(s, "Bat", Bouquet(bat))
  BY MatchingFrame
<1>3. QED
  BY <1>1, <1>2 DEF BatIsCurrent

\* The row of a BAT.
BatRow(s, bat, id) ==
  id \in Matching(s, "Bat", Bouquet(bat)) /\ Rows(s, "Bat")[id].version = bat.version

LEMMA BatRowFiles ==
  ASSUME NEW s, NEW bat, IsSent(bat), bat.kind = "bat", NEW id, BatRow(s, bat, id),
         NEW row, row.fkey = id, row.descriptor \in ToSet(bat.descriptors)
  PROVE  IsFiled(s.tables, "BatDescriptor", row)
<1>1. Rows(s, "Bat")[id].bouquet_id = bat.bouquet /\ Rows(s, "Bat")[id].version = bat.version
  BY BatRowsAre DEF BatRow
<1>2. FiledUnderBat(s.tables, row)
  BY <1>1, RowsIsRowsOf DEF FiledUnderBat
<1>3. QED
  BY <1>2 DEF IsFiled

LEMMA StoreBatTransportIs ==
  ASSUME NEW s, SInv(s), NEW ts, IsSeq(ts.descriptors),
         NEW bat_fk, s.failed \/ bat_fk \in DOMAIN Rows(s, "Bat"),
         NEW T, T = {"BatTransport", "BatTransportDescriptor"}
  PROVE  LET r == StoreBatTransport(s, ts, bat_fk)
         IN SInv(r) /\ Touches(s, r, T)
<1> DEFINE nit_transport_fk == LastKey(NitTransports(s, ts))
           values == TransportId(ts.onid, ts.tsid)
           known == FindPrimaryKey(s, "BatTransport", values)
           row == [original_network_id |-> ts.onid, transport_id |-> ts.tsid,
                   bat_fk |-> bat_fk, nit_transport_fk |-> nit_transport_fk]
           inserted == Insert(s, "BatTransport", row)
           r == StoreBatTransport(s, ts, bat_fk)
<1>1. /\ nit_transport_fk = 0 => r = s
      /\ nit_transport_fk # 0 /\ known > 0 =>
           r = InsertDescriptor(s, "BatTransportDescriptor", known, ts.descriptors)
      /\ nit_transport_fk # 0 /\ ~ (known > 0) =>
           r = InsertDescriptor(inserted, "BatTransportDescriptor", inserted.lastRowId,
                                ts.descriptors)
  BY DEF StoreBatTransport
<1>2. nit_transport_fk # 0 => nit_transport_fk \in DOMAIN Rows(s, "NitTransport")
  BY LastOf, MatchingIs DEF NitTransports
<1>3. /\ known \in Nat
      /\ known > 0 <=> known # 0
      /\ known = 0 => Matching(s, "BatTransport", values) = {}
      /\ known # 0 => known \in DOMAIN Rows(s, "BatTransport")
  BY LastOf, MatchingIs DEF FindPrimaryKey
<1>4. <<"BatTransportDescriptor", "BatTransport">> \in DescriptorTables
  BY DEF DescriptorTables
<1>5. {"BatTransport"} \subseteq T /\ {"BatTransportDescriptor"} \subseteq T
  OBVIOUS
<1>6. /\ DOMAIN values \subseteq UniqueIndex["BatTransport"]
      /\ \A column \in DOMAIN values : values[column] = row[column]
      /\ row.bat_fk = bat_fk /\ row.nit_transport_fk = nit_transport_fk
  BY DEF TransportId, UniqueIndex
<1> HIDE DEF values, row, nit_transport_fk, r
<1>7. \A e, d : IsFiled(e.tables, "BatTransportDescriptor", d)
  BY NothingToFile
<1>8. CASE nit_transport_fk = 0
  BY <1>1, <1>8, TouchesSelf DEF r
<1>9. CASE nit_transport_fk # 0 /\ known > 0
  <2> HIDE DEF known
  <2>1. SInv(r) /\ Touches(s, r, {"BatTransportDescriptor"})
    BY <1>1, <1>3, <1>4, <1>9, <1>7, InsertDescriptorIs
  <2>2. QED
    BY <1>5, <2>1, TouchesSelf, TouchesTrans DEF r
<1>10. CASE nit_transport_fk # 0 /\ ~ (known > 0)
  <2> HIDE DEF known
  <2>1. ~ IsDuplicate(s, "BatTransport", row)
    BY <1>3, <1>6, <1>10, NotDuplicate
  <2>2. s.failed \/ Fits(s, "BatTransport", row)
    <3>1. \A key \in ForeignKeys :
            key[1] = "BatTransport" => \/ key[2] = "bat_fk" /\ key[3] = "Bat"
                                       \/ key[2] = "nit_transport_fk" /\ key[3] = "NitTransport"
      BY DEF ForeignKeys
    <3>2. IsFiled(s.tables, "BatTransport", row)
      BY NothingToFile
    <3>3. QED
      BY <1>2, <1>6, <1>10, <3>1, <3>2 DEF Fits, Kept
  <2>3. /\ SInv(inserted) /\ Touches(s, inserted, {"BatTransport"})
        /\ inserted.failed \/ inserted.lastRowId \in DOMAIN Rows(inserted, "BatTransport")
    BY <2>1, <2>2, InsertIs
  <2> HIDE DEF inserted
  <2>4. SInv(r) /\ Touches(inserted, r, {"BatTransportDescriptor"})
    BY <1>1, <1>4, <1>10, <1>7, <2>3, InsertDescriptorIs
  <2>5. Touches(s, inserted, T)
    BY <1>5, <2>3, TouchesSelf, TouchesTrans
  <2>6. Touches(s, r, T)
    BY <1>5, <2>4, <2>5, TouchesTrans
  <2>7. QED
    BY <2>4, <2>6 DEF r
<1>11. QED
  BY <1>8, <1>9, <1>10

LEMMA InsertBatIs ==
  ASSUME NEW s, SInv(s), NEW bat, Matching(s, "Bat", Bouquet(bat)) = {},
         HasPreferred(Rows(s, "Network"))
  PROVE  LET r == Insert(s, "Bat", [bouquet_id |-> bat.bouquet, version |-> bat.version])
         IN /\ SInv(r) /\ Touches(s, r, {"Bat"}) /\ OthersStay(s, r, bat)
            /\ r.failed \/ BatRow(r, bat, r.lastRowId)
<1> DEFINE row == [bouquet_id |-> bat.bouquet, version |-> bat.version]
           r == Insert(s, "Bat", row)
<1>1. /\ DOMAIN Bouquet(bat) \subseteq UniqueIndex["Bat"]
      /\ \A column \in DOMAIN Bouquet(bat) : Bouquet(bat)[column] = row[column]
      /\ row.bouquet_id = bat.bouquet /\ row.version = bat.version
  BY DEF Bouquet, UniqueIndex
<1> HIDE DEF row
<1>2. Fits(s, "Bat", row)
  <2>1. \A key \in ForeignKeys : key[1] # "Bat"
    BY DEF ForeignKeys
  <2>2. IsFiled(s.tables, "Bat", row)
    BY NothingToFile
  <2>3. QED
    BY <2>1, <2>2 DEF Fits, Kept
<1>3. ~ IsDuplicate(s, "Bat", row)
  BY <1>1, NotDuplicate
<1>4. /\ SInv(r) /\ Touches(s, r, {"Bat"}) /\ Gains(s, r, "Bat", row)
      /\ \/ r.failed
         \/ r.lastRowId \in DOMAIN Rows(r, "Bat") /\ Rows(r, "Bat")[r.lastRowId] = row
  BY <1>2, <1>3, InsertIs
<1> HIDE DEF r
<1>5. r.failed \/ BatRow(r, bat, r.lastRowId)
  BY <1>1, <1>4, BatRowsAre DEF BatRow
<1>6. OthersStay(s, r, bat)
  BY <1>1, <1>4 DEF Gains, OthersStay
<1>7. QED
  BY <1>4, <1>5, <1>6 DEF r, row

\* What the handler of a BAT does to the rows of Bat, on its way to r.
BatHandling(s, r, bat) ==
  SInv(r) /\ Touches(s, r, BatTables \cup BouquetTables) /\ OthersStay(s, r, bat)

LEMMA BatHandlingGoesOn ==
  ASSUME NEW s, NEW e, NEW r, NEW bat, BatHandling(s, e, bat),
         SInv(r), NEW T, T \subseteq BatTables \cup BouquetTables, Touches(e, r, T),
         OthersStay(e, r, bat)
  PROVE  BatHandling(s, r, bat)
BY TouchesTrans, OthersStayTrans DEF BatHandling

LEMMA PreferredStays ==
  ASSUME NEW s, NEW r, NEW bat, BatHandling(s, r, bat), HasPreferred(Rows(s, "Network"))
  PROVE  HasPreferred(Rows(r, "Network"))
<1>1. "Network" \notin BatTables \cup BouquetTables
  BY DEF BatTables, BouquetTables
<1>2. QED
  BY <1>1 DEF BatHandling, Touches

LEMMA NotOtherIs ==
  ASSUME NEW s, SInv(s), PreferredNetworkId # 0
  PROVE  FindPrimaryKey(s, "Network", [network_id |-> PreferredNetworkId]) # 0
           <=> HasPreferred(Rows(s, "Network"))
<1> DEFINE values == [network_id |-> PreferredNetworkId]
<1>1. DOMAIN values = {"network_id"} /\ values["network_id"] = PreferredNetworkId
  OBVIOUS
<1> HIDE DEF values
<1>2. Matching(s, "Network", values) =
        {id \in DOMAIN Rows(s, "Network") :
           Rows(s, "Network")[id].network_id = PreferredNetworkId}
  BY <1>1 DEF Matching
<1>3. FindPrimaryKey(s, "Network", values) = 0 <=> Matching(s, "Network", values) = {}
  BY LastOf, MatchingIs DEF FindPrimaryKey
<1>4. QED
  BY <1>2, <1>3 DEF HasPreferred, values

LEMMA ProcessBatEventDbIs ==
  ASSUME NEW s, SInv(s), NEW bat, IsSent(bat), bat.kind = "bat",
         IsSeq(bat.descriptors), Descriptive(bat.transports)
  PROVE  LET r == ProcessBatEventDb(s, bat)
         IN BatHandling(s, r, bat) /\ BatIsCurrent(r, bat)
<1> DEFINE found == FindPrimaryKey(s, "Bat", Bouquet(bat))
           current == IF found > 0 /\ s.tables["Bat"][found].version # bat.version
                        THEN ProcessBouquet(DropBat(s, bat), bat)
                        ELSE s
           known == FindPrimaryKey(current, "Bat", Bouquet(bat))
           row == [bouquet_id |-> bat.bouquet, version |-> bat.version]
           inserted == Insert(current, "Bat", row)
           bat_fk == IF known > 0 THEN known ELSE inserted.lastRowId
           stored == IF known > 0 THEN current ELSE ProcessBouquet(inserted, bat)
           first == InsertDescriptor(stored, "BatDescriptor", bat_fk, bat.descriptors)
           items == bat.transports
           isOther == /\ PreferredNetworkId # 0
                      /\ FindPrimaryKey(s, "Network", [network_id |-> PreferredNetworkId]) = 0
           T == {"BatTransport", "BatTransportDescriptor"}
           r == ProcessBatEventDb(s, bat)
<1>1. /\ isOther => r = s
      /\ ~ isOther => r = EachBatTransport!Run(first, bat_fk, items)
  BY DEF ProcessBatEventDb
<1>2. IsSeq(items) /\ Len(items) \in Nat /\ \A n \in 1..Len(items) : IsSeq(items[n].descriptors)
  BY ItemsAre DEF Descriptive
<1>3. /\ "Bat" \in BatTables /\ "BatDescriptor" \in BatTables /\ T \subseteq BatTables
      /\ "Bat" \notin BouquetTables
  BY DEF BatTables, BouquetTables
<1>4. BatHandling(s, s, bat)
  BY TouchesSelf DEF BatHandling, OthersStay
<1>5. isOther <=> ~ HasPreferred(Rows(s, "Network"))
  BY NotOtherIs DEF HasPreferred
<1> HIDE DEF isOther
<1>6. CASE isOther
  <2>1. DOMAIN Rows(s, "Bat") = {}
    BY <1>5, <1>6, RowsIsRowsOf DEF SInv, DbInv
  <2>2. BatIsCurrent(s, bat)
    BY <2>1, MatchingIs DEF BatIsCurrent
  <2>3. QED
    BY <1>1, <1>4, <1>6, <2>2 DEF r
<1>7. CASE ~ isOther
  <2>1. HasPreferred(Rows(s, "Network"))
    BY <1>5, <1>7
  <2>2. BatHandling(s, current, bat) /\ BatIsCurrent(current, bat)
    <3> DEFINE dropped == DropBat(s, bat)
    <3>1. BatHandling(s, dropped, bat) /\ BatIsCurrent(dropped, bat)
      <4>1. SInv(dropped) /\ Touches(s, dropped, BatTables) /\ OthersStay(s, dropped, bat)
        BY DropBatKeeps
      <4>2. BatIsCurrent(dropped, bat)
        BY DropBatIsCurrent
      <4> HIDE DEF dropped
      <4>3. QED
        BY <1>4, <4>1, <4>2, BatHandlingGoesOn
    <3> HIDE DEF dropped
    <3> DEFINE parsed == ProcessBouquet(dropped, bat)
    <3>2. BatHandling(s, parsed, bat) /\ BatIsCurrent(parsed, bat)
      <4>1. SInv(dropped)
        BY <3>1 DEF BatHandling
      <4>2. SInv(parsed) /\ Touches(dropped, parsed, BouquetTables)
        BY <1>2, <4>1, ProcessBouquetIs
      <4> HIDE DEF parsed
      <4>3. BatIsCurrent(parsed, bat)
        BY <1>3, <3>1, <4>2, BatStaysCurrent
      <4>4. OthersStay(dropped, parsed, bat)
        BY <1>3, <4>2, OthersStayFrame
      <4>5. QED
        BY <3>1, <4>2, <4>3, <4>4, BatHandlingGoesOn
    <3>3. current = parsed \/ (current = s /\ BatIsCurrent(s, bat))
      <4>1. /\ Matching(s, "Bat", Bouquet(bat)) \subseteq DOMAIN Rows(s, "Bat")
            /\ \A id \in Matching(s, "Bat", Bouquet(bat)) : s.tables["Bat"] = Rows(s, "Bat")
        BY MatchingIs DEF Rows
      <4>2. /\ found = 0 => Matching(s, "Bat", Bouquet(bat)) = {}
            /\ found # 0 => found > 0 /\ found \in Matching(s, "Bat", Bouquet(bat))
        BY <4>1, LastOf DEF FindPrimaryKey
      <4> HIDE DEF found
      <4>3. CASE found > 0 /\ s.tables["Bat"][found].version # bat.version
        BY <4>3 DEF dropped
      <4>4. CASE ~ (found > 0 /\ s.tables["Bat"][found].version # bat.version)
        <5>1. current = s
          BY <4>4
        <5>2. BatIsCurrent(s, bat)
          BY <4>1, <4>2, <4>4, OneBatRow DEF BatIsCurrent
        <5>3. QED
          BY <5>1, <5>2
      <4>5. QED
        BY <4>3, <4>4
    <3> HIDE DEF current, parsed
    <3>4. QED
      BY <1>4, <3>2, <3>3
  <2> HIDE DEF current
  <2>3. SInv(current) /\ HasPreferred(Rows(current, "Network"))
    BY <2>1, <2>2, PreferredStays DEF BatHandling
  <2>4. /\ known \in Nat
        /\ ~ (known > 0) => Matching(current, "Bat", Bouquet(bat)) = {}
        /\ known > 0 => known \in Matching(current, "Bat", Bouquet(bat))
    BY <2>3, LastOf, MatchingIs DEF FindPrimaryKey
  <2> HIDE DEF known
  <2>5. BatHandling(s, stored, bat) /\ (stored.failed \/ BatRow(stored, bat, bat_fk))
    <3>1. CASE known > 0
      BY <2>2, <2>4, <3>1 DEF BatIsCurrent, BatRow
    <3>2. CASE ~ (known > 0)
      <4>1. /\ SInv(inserted) /\ Touches(current, inserted, {"Bat"})
            /\ OthersStay(current, inserted, bat)
            /\ inserted.failed \/ BatRow(inserted, bat, inserted.lastRowId)
        BY <2>3, <2>4, <3>2, InsertBatIs
      <4> HIDE DEF inserted
      <4>2. BatHandling(s, inserted, bat)
        BY <1>3, <2>2, <4>1, BatHandlingGoesOn
      <4> DEFINE parsed == ProcessBouquet(inserted, bat)
      <4>3. SInv(parsed) /\ Touches(inserted, parsed, BouquetTables)
        BY <1>2, <4>1, ProcessBouquetIs
      <4>4. stored = parsed /\ bat_fk = inserted.lastRowId
        BY <3>2
      <4> HIDE DEF parsed, stored, bat_fk
      <4>5. OthersStay(inserted, parsed, bat)
        BY <1>3, <4>3, OthersStayFrame
      <4>6. BatHandling(s, parsed, bat)
        BY <4>2, <4>3, <4>5, BatHandlingGoesOn
      <4>7. parsed.failed \/ BatRow(parsed, bat, inserted.lastRowId)
        BY <1>3, <4>1, <4>3, BatRowsAre DEF Touches, BatRow
      <4>8. QED
        BY <4>4, <4>6, <4>7
    <3>3. QED
      BY <3>1, <3>2
  <2> HIDE DEF stored, bat_fk
  <2>6. BatHandling(s, first, bat) /\ (first.failed \/ BatRow(first, bat, bat_fk))
    <3>1. <<"BatDescriptor", "Bat">> \in DescriptorTables
      BY DEF DescriptorTables
    <3>2. SInv(first) /\ Touches(stored, first, {"BatDescriptor"})
      <4>1. \/ stored.failed
            \/ \A d : d.fkey = bat_fk /\ d.descriptor \in ToSet(bat.descriptors)
                 => IsFiled(stored.tables, "BatDescriptor", d)
        BY <2>5, BatRowFiles
      <4>2. stored.failed \/ bat_fk \in DOMAIN Rows(stored, "Bat")
        BY <2>5, BatRowsAre DEF BatRow
      <4>3. QED
        BY <2>5, <3>1, <4>1, <4>2, InsertDescriptorIs DEF BatHandling
    <3> HIDE DEF first
    <3>3. OthersStay(stored, first, bat)
      BY <3>2, OthersStayFrame
    <3>4. BatHandling(s, first, bat)
      BY <1>3, <2>5, <3>2, <3>3, BatHandlingGoesOn
    <3>5. first.failed \/ BatRow(first, bat, bat_fk)
      BY <2>5, <3>2, BatRowsAre DEF Touches, BatRow
    <3>6. QED
      BY <3>4, <3>5
  <2> HIDE DEF first, items, r
  <2>7. PICK after :
          /\ after[0] = first
          /\ \A n \in 1..Len(items) : after[n] = StoreBatTransport(after[n - 1], items[n], bat_fk)
          /\ EachBatTransport!Run(first, bat_fk, items) = after[Len(items)]
    BY <1>2, EachBatTransport!RunIs
  <2>8. ASSUME NEW n \in 1..Len(items), SInv(after[n - 1]), Touches(first, after[n - 1], T)
        PROVE  SInv(after[n]) /\ Touches(after[n - 1], after[n], T)
    <3>1. after[n] = StoreBatTransport(after[n - 1], items[n], bat_fk)
      BY <2>7
    <3>2. after[n - 1].failed \/ bat_fk \in DOMAIN Rows(after[n - 1], "Bat")
      BY <2>6, <2>8, BatRowsAre DEF Touches, BatRow
    <3>3. IsSeq(items[n].descriptors)
      BY <1>2
    <3>4. QED
      BY <2>8, <3>1, <3>2, <3>3, StoreBatTransportIs
  <2>9. SInv(after[0]) /\ Touches(first, after[0], T)
    BY <2>6, <2>7, TouchesSelf DEF BatHandling
  <2>10. SInv(after[Len(items)]) /\ Touches(first, after[Len(items)], T)
    <3> HIDE DEF T
    <3>1. QED
      BY <1>2, <2>8, <2>9, RoundsKeep
  <2>11. r = after[Len(items)]
    BY <1>1, <1>7, <2>7
  <2>12. SInv(r) /\ Touches(first, r, T)
    BY <2>10, <2>11
  <2>13. OthersStay(first, r, bat) /\ (r.failed \/ BatRow(r, bat, bat_fk))
    BY <2>6, <2>12, BatRowsAre DEF Touches, BatRow, OthersStay
  <2>14. BatHandling(s, r, bat)
    BY <1>3, <2>6, <2>12, <2>13, BatHandlingGoesOn
  <2>15. BatIsCurrent(r, bat)
    BY <2>12, <2>13, OneBatRow DEF BatRow, BatIsCurrent
  <2>16. QED
    BY <2>14, <2>15 DEF r
<1>8. QED
  BY <1>6, <1>7

-----------------------------------------------------------------------------
(***************************************************************************)
(* EIT.                                                                    *)
(***************************************************************************)
EitTables == {"Eit", "EitDescriptor"}
EventTables == {"Event", "EventItem", "EventComponent"}

LEMMA DropEitKeeps ==
  ASSUME NEW s, SInv(s), NEW eit
  PROVE  LET r == DropEit(s, eit)
         IN SInv(r) /\ Touches(s, r, EitTables)
<1>1. /\ "Eit" \in EitTables /\ "EitDescriptor" \in EitTables
      /\ "Nit" \notin EitTables /\ "NitTransport" \notin EitTables
      /\ "Network" \notin EitTables
  BY DEF EitTables
<1>2. IsSession(s) /\ ~ s.inTransaction
  BY DEF SInv
<1>3. QED
  BY <1>1, <1>2, DropEitIs, TransactionIs

LEMMA DropEventKeeps ==
  ASSUME NEW s, SInv(s), NEW eit
  PROVE  LET r == DropEvent(s, eit)
         IN SInv(r) /\ Touches(s, r, EventTables)
<1>1. /\ "Event" \in EventTables /\ "EventItem" \in EventTables
      /\ "EventComponent" \in EventTables
      /\ "Nit" \notin EventTables /\ "NitTransport" \notin EventTables
      /\ "Network" \notin EventTables
  BY DEF EventTables
<1>2. IsSession(s) /\ ~ s.inTransaction
  BY DEF SInv
<1>3. QED
  BY <1>1, <1>2, DropEventIs, TransactionIs

LEMMA StoreEitIs ==
  ASSUME NEW s, SInv(s), NEW eit, NEW event, IsSeq(event.descriptors)
  PROVE  LET r == StoreEit(s, eit, event)
         IN SInv(r) /\ Touches(s, r, EitTables)
<1> DEFINE found == FindPrimaryKey(s, "Eit", EventId(eit, event))
           current == IF found > 0 /\ s.tables["Eit"][found].version # eit.version
                        THEN DropEit(s, eit) ELSE s
           known == FindPrimaryKey(current, "Eit", EventId(eit, event))
           row == EventRow(eit, event)
           inserted == Insert(current, "Eit", row)
           r == StoreEit(s, eit, event)
<1>1. /\ known > 0 => r = InsertDescriptor(current, "EitDescriptor", known, event.descriptors)
      /\ ~ (known > 0) =>
           r = InsertDescriptor(inserted, "EitDescriptor", inserted.lastRowId, event.descriptors)
  BY DEF StoreEit
<1>2. SInv(current) /\ Touches(s, current, EitTables)
  BY DropEitKeeps, TouchesSelf
<1>3. /\ {"Eit"} \subseteq EitTables /\ {"EitDescriptor"} \subseteq EitTables
      /\ <<"EitDescriptor", "Eit">> \in DescriptorTables
      /\ \A e, d : IsFiled(e.tables, "EitDescriptor", d)
  BY NothingToFile DEF EitTables, DescriptorTables
<1> HIDE DEF current, r
<1>4. /\ known \in Nat
      /\ ~ (known > 0) => Matching(current, "Eit", EventId(eit, event)) = {}
      /\ known > 0 => known \in DOMAIN Rows(current, "Eit")
  BY <1>2, LastOf, MatchingIs DEF FindPrimaryKey
<1> HIDE DEF known
<1>5. CASE known > 0
  <2>1. SInv(r) /\ Touches(current, r, {"EitDescriptor"})
    BY <1>1, <1>2, <1>3, <1>4, <1>5, InsertDescriptorIs
  <2>2. QED
    BY <1>2, <1>3, <2>1, TouchesTrans DEF r
<1>6. CASE ~ (known > 0)
  <2>1. /\ DOMAIN EventId(eit, event) = EventColumns
        /\ \A column \in EventColumns : EventId(eit, event)[column] = row[column]
    BY DEF EventId, EventRow, EventColumns
  <2>2. \A key \in ForeignKeys : key[1] # "Eit"
    BY DEF ForeignKeys
  <2>3. ~ IsDuplicate(current, "Eit", row)
    BY DEF IsDuplicate, UniqueIndex
  <2> HIDE DEF row
  <2>4. \A id \in DOMAIN Rows(current, "Eit") :
          \E column \in EventColumns : Rows(current, "Eit")[id][column] # row[column]
    BY <1>4, <1>6, <2>1 DEF Matching
  <2>5. Fits(current, "Eit", row)
    <3>1. IsFiled(current.tables, "Eit", row)
      BY NothingToFile
    <3>2. QED
      BY <2>2, <2>4, <3>1 DEF Fits, Kept
  <2>6. /\ SInv(inserted) /\ Touches(current, inserted, {"Eit"})
        /\ inserted.failed \/ inserted.lastRowId \in DOMAIN Rows(inserted, "Eit")
    BY <1>2, <2>3, <2>5, InsertIs
  <2> HIDE DEF inserted
  <2>7. SInv(r) /\ Touches(inserted, r, {"EitDescriptor"})
    BY <1>1, <1>3, <1>6, <2>6, InsertDescriptorIs
  <2>8. Touches(s, inserted, EitTables)
    BY <1>2, <1>3, <2>6, TouchesTrans
  <2>9. Touches(s, r, EitTables)
    BY <1>3, <2>7, <2>8, TouchesTrans
  <2>10. QED
    BY <2>7, <2>9 DEF r
<1>7. QED
  BY <1>5, <1>6

LEMMA ProcessEventItemIs ==
  ASSUME NEW s, SInv(s), NEW items, IsSeq(items), NEW event_fk
  PROVE  LET r == ProcessEventItem(s, items, event_fk)
         IN SInv(r) /\ Touches(s, r, {"EventItem"})
<1> DEFINE r == ProcessEventItem(s, items, event_fk)
<1>1. Len(items) \in Nat
  BY ItemsAre
<1>2. PICK after :
        /\ after[0] = s
        /\ \A n \in 1..Len(items) :
             after[n] = Insert(after[n - 1], "EventItem",
                               [event_fk |-> event_fk, language |-> items[n].language,
                                title |-> items[n].title])
        /\ EachItem!Run(s, event_fk, items) = after[Len(items)]
  BY <1>1, EachItem!RunIs
<1>3. ASSUME NEW n \in 1..Len(items), SInv(after[n - 1]), Touches(s, after[n - 1], {"EventItem"})
      PROVE  SInv(after[n]) /\ Touches(after[n - 1], after[n], {"EventItem"})
  <2> DEFINE row == [event_fk |-> event_fk, language |-> items[n].language,
                     title |-> items[n].title]
  <2>1. after[n] = Insert(after[n - 1], "EventItem", row)
    BY <1>2
  <2> HIDE DEF row
  <2>2. \A key \in ForeignKeys : key[1] = "EventItem" => key = ItemKey
    BY DEF ForeignKeys, ItemKey
  <2>3. Fits(after[n - 1], "EventItem", row)
    <3>1. IsFiled(after[n - 1].tables, "EventItem", row)
      BY NothingToFile
    <3>2. QED
      BY <2>2, <3>1 DEF Fits, Kept
  <2>4. LET q == Insert(after[n - 1], "EventItem", row)
        IN SInv(q) /\ Touches(after[n - 1], q, {"EventItem"})
    BY <1>3, <2>3, InsertIs
  <2>5. QED
    BY <2>1, <2>4
<1>4. SInv(after[0]) /\ Touches(s, after[0], {"EventItem"})
  BY <1>2, TouchesSelf
<1>5. SInv(after[Len(items)]) /\ Touches(s, after[Len(items)], {"EventItem"})
  BY <1>1, <1>3, <1>4, RoundsKeep
<1>6. r = after[Len(items)]
  BY <1>2 DEF ProcessEventItem
<1>7. QED
  BY <1>5, <1>6

LEMMA StoreEventIs ==
  ASSUME NEW s, SInv(s), NEW eit, NEW event, IsSeq(event.items)
  PROVE  LET r == StoreEvent(s, eit, event)
         IN SInv(r) /\ Touches(s, r, EventTables)
<1> DEFINE found == FindPrimaryKey(s, "Event", LookedUpEvent(eit, event))
           current == IF found > 0 /\ s.tables["Event"][found].version # eit.version
                        THEN DropEvent(s, eit) ELSE s
           row == EventRow(eit, event)
           inserted == Insert(current, "Event", row)
           titled == ProcessEventItem(inserted, event.items, inserted.lastRowId)
           r == StoreEvent(s, eit, event)
<1>1. r \in {current, inserted, titled}
  BY DEF StoreEvent, InsertComponent
<1>2. SInv(current) /\ Touches(s, current, EventTables)
  BY DropEventKeeps, TouchesSelf
<1>3. {"Event"} \subseteq EventTables /\ {"EventItem"} \subseteq EventTables
  BY DEF EventTables
<1> HIDE DEF current, row, r
<1>4. Fits(current, "Event", row)
  <2>1. \A key \in ForeignKeys : key[1] # "Event"
    BY DEF ForeignKeys
  <2>2. IsFiled(current.tables, "Event", row)
    BY NothingToFile
  <2>3. QED
    BY <2>1, <2>2 DEF Fits, Kept
<1>5. SInv(inserted) /\ Touches(current, inserted, {"Event"})
  BY <1>2, <1>4, InsertIs
<1> HIDE DEF inserted
<1>6. SInv(titled) /\ Touches(inserted, titled, {"EventItem"})
  BY <1>5, ProcessEventItemIs
<1> HIDE DEF titled
<1>7. Touches(s, inserted, EventTables)
  BY <1>2, <1>3, <1>5, TouchesTrans
<1>8. Touches(s, titled, EventTables)
  BY <1>3, <1>6, <1>7, TouchesTrans
<1>9. QED
  BY <1>1, <1>2, <1>5, <1>6, <1>7, <1>8 DEF r

LEMMA ProcessEventIs ==
  ASSUME NEW s, SInv(s), NEW eit, Descriptive(eit.events),
         \A event \in ToSet(eit.events) : IsSeq(event.items)
  PROVE  LET r == ProcessEvent(s, eit)
         IN SInv(r) /\ Touches(s, r, EventTables)
<1> DEFINE items == eit.events
<1>1. Len(items) \in Nat /\ \A n \in 1..Len(items) : IsSeq(items[n].items)
  BY ItemsAre DEF Descriptive
<1> HIDE DEF items
<1>2. PICK after :
        /\ after[0] = s
        /\ \A n \in 1..Len(items) : after[n] = StoreEvent(after[n - 1], eit, items[n])
        /\ EachEvent!Run(s, eit, items) = after[Len(items)]
  <2>1. Len(items) \in Nat
    BY <1>1
  <2>2. PICK run : run = EachEvent!Run(s, eit, items)
    OBVIOUS
  <2>3. QED
    BY <2>1, <2>2, EachEvent!RunIs
<1>3. ASSUME NEW n \in 1..Len(items), SInv(after[n - 1]), Touches(s, after[n - 1], EventTables)
      PROVE  SInv(after[n]) /\ Touches(after[n - 1], after[n], EventTables)
  BY <1>1, <1>2, <1>3, StoreEventIs
<1>4. SInv(after[0]) /\ Touches(s, after[0], EventTables)
  BY <1>2, TouchesSelf
<1>5. SInv(after[Len(items)]) /\ Touches(s, after[Len(items)], EventTables)
  BY <1>1, <1>3, <1>4, RoundsKeep
<1>6. ProcessEvent(s, eit) = after[Len(items)]
  BY <1>2 DEF ProcessEvent, items
<1>7. QED
  BY <1>5, <1>6

LEMMA ProcessEitEventDbIs ==
  ASSUME NEW s, SInv(s), NEW eit, Descriptive(eit.events),
         \A event \in ToSet(eit.events) : IsSeq(event.items)
  PROVE  LET r == ProcessEitEventDb(s, eit)
         IN SInv(r) /\ Touches(s, r, EitTables \cup EventTables)
<1> DEFINE items == eit.events
<1>1. Len(items) \in Nat /\ \A n \in 1..Len(items) : IsSeq(items[n].descriptors)
  BY ItemsAre DEF Descriptive
<1> HIDE DEF items
<1>2. PICK after :
        /\ after[0] = s
        /\ \A n \in 1..Len(items) : after[n] = StoreEit(after[n - 1], eit, items[n])
        /\ EachEit!Run(s, eit, items) = after[Len(items)]
  <2>1. Len(items) \in Nat
    BY <1>1
  <2>2. PICK run : run = EachEit!Run(s, eit, items)
    OBVIOUS
  <2>3. QED
    BY <2>1, <2>2, EachEit!RunIs
<1>3. ASSUME NEW n \in 1..Len(items), SInv(after[n - 1]), Touches(s, after[n - 1], EitTables)
      PROVE  SInv(after[n]) /\ Touches(after[n - 1], after[n], EitTables)
  BY <1>1, <1>2, <1>3, StoreEitIs
<1>4. SInv(after[0]) /\ Touches(s, after[0], EitTables)
  BY <1>2, TouchesSelf
<1>5. SInv(after[Len(items)]) /\ Touches(s, after[Len(items)], EitTables)
  BY <1>1, <1>3, <1>4, RoundsKeep
<1>6. ProcessEitEventDb(s, eit) = ProcessEvent(after[Len(items)], eit)
  BY <1>2 DEF ProcessEitEventDb, items
<1> DEFINE r == ProcessEvent(after[Len(items)], eit)
<1>7. SInv(r) /\ Touches(after[Len(items)], r, EventTables)
  BY <1>5, ProcessEventIs
<1> HIDE DEF r
<1>8. Touches(s, after[Len(items)], EitTables \cup EventTables)
  BY <1>5, TouchesSelf, TouchesTrans
<1>9. Touches(s, r, EitTables \cup EventTables)
  BY <1>7, <1>8, TouchesTrans
<1>10. QED
  BY <1>6, <1>7, <1>9 DEF r

-----------------------------------------------------------------------------
(***************************************************************************)
(* The process.                                                            *)
(***************************************************************************)
\* No handler but that of a BAT touches the rows of Bat, if it leaves any.
BatsStay(s, r) ==
  \/ DOMAIN Rows(r, "Bat") = {}
  \/ DOMAIN r.tables = DOMAIN s.tables /\ Rows(r, "Bat") = Rows(s, "Bat")

LEMMA BatsStayFrame ==
  ASSUME NEW s, NEW r, NEW T, Touches(s, r, T), "Bat" \notin T
  PROVE  BatsStay(s, r)
BY DEF BatsStay, Touches

LEMMA HandleTableEventIs ==
  ASSUME NEW s, SInv(s), NEW table, IsSent(table), IsTable(table)
  PROVE  LET r == HandleTableEvent(s, table)
         IN /\ SInv(r)
            /\ table.kind = "bat" => BatHandling(s, r, table) /\ BatIsCurrent(r, table)
            /\ table.kind # "bat" => BatsStay(s, r)
<1> DEFINE r == HandleTableEvent(s, table)
<1>1. CASE table.kind = "nit"
  <2>1. IsSeq(table.descriptors) /\ Descriptive(table.transports)
    BY <1>1 DEF IsTable
  <2>2. r = ProcessNitEventDb(s, table) \/ r = s
    BY <1>1 DEF HandleTableEvent
  <2> HIDE DEF r
  <2>3. SInv(r) /\ (Touches(s, r, NitTables) \/ DOMAIN Rows(r, "Bat") = {})
    BY <1>1, <2>1, <2>2, ProcessNitEventDbIs, TouchesSelf
  <2>4. "Bat" \notin NitTables
    BY DEF NitTables
  <2>5. BatsStay(s, r)
    BY <2>3, <2>4, BatsStayFrame DEF BatsStay
  <2>6. QED
    BY <1>1, <2>3, <2>5 DEF r
<1>2. CASE table.kind = "sdt"
  <2>1. Descriptive(table.services)
    BY <1>2 DEF IsTable
  <2>2. r = ProcessSdtEventDb(s, table)
    BY <1>2 DEF HandleTableEvent
  <2> HIDE DEF r
  <2>3. SInv(r) /\ Touches(s, r, SdtTables)
    BY <1>2, <2>1, <2>2, ProcessSdtEventDbIs
  <2>4. "Bat" \notin SdtTables
    BY DEF SdtTables, ServiceTables
  <2>5. QED
    BY <1>2, <2>3, <2>4, BatsStayFrame DEF r
<1>3. CASE table.kind = "bat"
  <2>1. IsSeq(table.descriptors) /\ Descriptive(table.transports)
    BY <1>3 DEF IsTable
  <2>2. r = ProcessBatEventDb(s, table)
    BY <1>3 DEF HandleTableEvent
  <2> HIDE DEF r
  <2>3. BatHandling(s, r, table) /\ BatIsCurrent(r, table)
    BY <1>3, <2>1, <2>2, ProcessBatEventDbIs
  <2>4. QED
    BY <1>3, <2>3 DEF BatHandling, r
<1>4. CASE table.kind = "eit"
  <2>1. Descriptive(table.events) /\ \A event \in ToSet(table.events) : IsSeq(event.items)
    BY <1>4 DEF IsTable
  <2>2. r = ProcessEitEventDb(s, table)
    BY <1>4 DEF HandleTableEvent
  <2> HIDE DEF r
  <2>3. SInv(r) /\ Touches(s, r, EitTables \cup EventTables)
    BY <2>1, <2>2, ProcessEitEventDbIs
  <2>4. "Bat" \notin EitTables \cup EventTables
    BY DEF EitTables, EventTables
  <2>5. QED
    BY <1>4, <2>3, <2>4, BatsStayFrame DEF r
<1>5. QED
  BY <1>1, <1>2, <1>3, <1>4 DEF IsTable

\* The inductive invariant: the database is sound, and so is the rest.
IInv ==
  /\ DbInv(tables)
  /\ lastRowId \in Nat
  /\ onAir \in [SubTables -> Nat \ {0}] /\ heard \in [SubTables -> Nat]
  /\ \A st \in SubTables : heard[st] \in 0..onAir[st] /\ onAir[st] \in DOMAIN Contents[st]
  /\ restarts \in Nat /\ crashes \in Nat /\ restarts + crashes <= MaxStarts

\* The handler of the table on air, from the database as it is.
LEMMA HandledIs ==
  ASSUME IInv, NEW st \in SubTables
  PROVE  LET s == Session(tables, lastRowId)
             table == Broadcast(st)
             r == HandleTableEvent(s, table)
         IN /\ SInv(r)
            /\ table.kind = "bat" => BatHandling(s, r, table) /\ BatIsCurrent(r, table)
            /\ table.kind # "bat" => BatsStay(s, r)
<1> DEFINE s == Session(tables, lastRowId)
           table == Broadcast(st)
           v == onAir[st]
<1>1. SInv(s)
  <2>1. IsSession(s) /\ ~ s.inTransaction /\ s.lastRowId = lastRowId /\ s.tables = tables
        /\ s.durable = << >>
    BY DEF Session, IsSession
  <2> HIDE DEF s
  <2>2. OnDisk(s)
    <3>1. s.durable \in Seq({})
      BY <2>1
    <3>2. QED
      BY <3>1 DEF OnDisk
  <2>3. QED
    BY <2>1, <2>2 DEF SInv, IInv
<1>2. /\ v \in DOMAIN Contents[st] /\ table = Contents[st][v]
      /\ IsSent(table) /\ IsTable(table) /\ table.version = v
  BY ContentsAssumption DEF IInv, Broadcast, ContentsAssumption, IsSent
<1> HIDE DEF s, table, v
<1>3. QED
  BY <1>1, <1>2, HandleTableEventIs DEF s, table

LEMMA EmptyDatabaseIs == DbInv(EmptyDatabase)
<1>1. \A t \in ToSet(DatabaseSchema) : t \in ToSet(DatabaseTables)
  BY DropOrder DEF ToSet
<1>2. DOMAIN EmptyDatabase \subseteq ToSet(DatabaseTables)
      /\ \A t \in DOMAIN EmptyDatabase : EmptyDatabase[t] = << >>
  BY <1>1 DEF EmptyDatabase
<1>3. QED
  BY <1>2, EmptyIs

\* A new process takes over a database that is sound.
LEMMA StartIs ==
  ASSUME NEW db, DbInv(db), Start(db)
  PROVE  DbInv(tables') /\ lastRowId' = 0 /\ heard' = [st \in SubTables |-> 0]
BY EmptyDatabaseIs DEF Start, CreateDbFile

LEMMA InitIs == DbInit => IInv
<1>1. SUFFICES ASSUME DbInit
               PROVE  IInv
  OBVIOUS
<1>2. DbInv(tables)
  BY <1>1, EmptyDatabaseIs DEF DbInit
<1>3. \A st \in SubTables : 1 \in DOMAIN Contents[st]
  BY ContentsAssumption DEF ContentsAssumption, IsSeq
<1>4. MaxStarts \in Nat
  BY ContentsAssumption DEF ContentsAssumption
<1>5. QED
  BY <1>1, <1>2, <1>3, <1>4 DEF DbInit, IInv

LEMMA NextIs == IInv /\ [Next]_vars => IInv'
<1> SUFFICES ASSUME IInv, [Next]_vars
             PROVE  IInv'
  OBVIOUS
<1>1. ASSUME NEW st \in SubTables, NewVersion(st)
      PROVE  IInv'
  <2>1. /\ onAir[st] \in Nat \ {0} /\ onAir[st] < Len(Contents[st])
        /\ onAir' = [onAir EXCEPT ![st] = onAir[st] + 1]
        /\ UNCHANGED <<tables, lastRowId, heard, restarts, crashes>>
    BY <1>1 DEF NewVersion, IInv
  <2>2. DOMAIN Contents[st] = 1..Len(Contents[st]) /\ Len(Contents[st]) \in Nat
    BY ContentsAssumption DEF ContentsAssumption, IsSeq
  <2>3. onAir'[st] = onAir[st] + 1 /\ \A other \in SubTables : other # st => onAir'[other] = onAir[other]
    BY <2>1 DEF IInv
  <2>4. onAir[st] + 1 \in DOMAIN Contents[st]
    BY <2>1, <2>2
  <2>5. onAir' \in [SubTables -> Nat \ {0}]
    BY <2>1 DEF IInv
  <2>6. \A other \in SubTables : heard[other] \in 0..onAir'[other] /\ onAir'[other] \in DOMAIN Contents[other]
    BY <2>1, <2>3, <2>4 DEF IInv
  <2>7. QED
    BY <2>1, <2>5, <2>6 DEF IInv
<1>2. ASSUME NEW st \in SubTables, Deliver(st)
      PROVE  IInv'
  <2> DEFINE s == HandleTableEvent(Session(tables, lastRowId), Broadcast(st))
  <2>1. /\ tables' = s.tables /\ lastRowId' = s.lastRowId
        /\ heard' = [heard EXCEPT ![st] = onAir[st]]
        /\ UNCHANGED <<onAir, restarts, crashes>>
    BY <1>2 DEF Deliver
  <2>2. SInv(s)
    BY HandledIs
  <2> HIDE DEF s
  <2>3. DbInv(tables') /\ lastRowId' \in Nat
    BY <2>1, <2>2 DEF SInv
  <2>4. onAir[st] \in Nat /\ heard \in [SubTables -> Nat]
    BY DEF IInv
  <2>5. heard' \in [SubTables -> Nat]
    BY <2>1, <2>4
  <2>6. \A other \in SubTables : heard'[other] \in 0..onAir[other]
    BY <2>1, <2>4 DEF IInv
  <2>7. QED
    BY <2>1, <2>3, <2>5, <2>6 DEF IInv
<1>3. ASSUME NEW st \in SubTables, Crash(st)
      PROVE  IInv'
  <2> DEFINE s == HandleTableEvent(Session(tables, lastRowId), Broadcast(st))
  <2>1. PICK db \in Range(s.durable) : Start(db)
    BY <1>3 DEF Crash
  <2>2. /\ restarts + crashes < MaxStarts /\ crashes' = crashes + 1
        /\ UNCHANGED <<onAir, restarts>>
    BY <1>3 DEF Crash
  <2>3. SInv(s)
    BY HandledIs
  <2> HIDE DEF s
  <2>4. PICK DBs : s.durable \in Seq(DBs) /\ \A d \in DBs : DbInv(d)
    BY <2>3 DEF SInv, OnDisk
  <2>5. DbInv(db)
    BY <2>1, <2>4 DEF Range
  <2>6. DbInv(tables') /\ lastRowId' = 0 /\ heard' = [other \in SubTables |-> 0]
    BY <2>1, <2>5, StartIs
  <2>7. MaxStarts \in Nat
    BY ContentsAssumption DEF ContentsAssumption
  <2>8. QED
    BY <2>2, <2>6, <2>7 DEF IInv
<1>4. ASSUME Restart
      PROVE  IInv'
  <2>1. /\ restarts + crashes < MaxStarts /\ restarts' = restarts + 1
        /\ Start(tables) /\ UNCHANGED <<onAir, crashes>>
    BY <1>4 DEF Restart
  <2>2. DbInv(tables') /\ lastRowId' = 0 /\ heard' = [other \in SubTables |-> 0]
    BY <2>1, StartIs DEF IInv
  <2>3. MaxStarts \in Nat
    BY ContentsAssumption DEF ContentsAssumption
  <2>4. QED
    BY <2>1, <2>2, <2>3 DEF IInv
<1>5. ASSUME UNCHANGED vars
      PROVE  IInv'
  BY <1>5 DEF vars, IInv
<1>6. QED
  BY <1>1, <1>2, <1>3, <1>4, <1>5 DEF Next

\* Whatever is broadcast, however often its versions change, and between
\* whichever two commits of a table handler the process dies and starts
\* again, its tables keep the invariant DbInv, and so they can be taken over.
THEOREM DatabaseIsSound == DbSpec => []IInv
  BY InitIs, NextIs, PTL DEF DbSpec

-----------------------------------------------------------------------------
(***************************************************************************)
(* What follows from it.                                                   *)
(***************************************************************************)
\* The type invariant: whatever is broadcast and wherever the process dies,
\* the tables are those of the schema, the unique indexes hold, and an
\* application finds positive row ids.
THEOREM DatabaseTypes == DbSpec => []TypeOK
<1>1. IInv => TypeOK
  <2>1. SUFFICES ASSUME IInv
                 PROVE  TypeOK
    OBVIOUS
  <2>2. ASSUME NEW t \in DOMAIN tables
        PROVE  /\ DOMAIN tables[t] \subseteq Nat \ {0}
               /\ UniqueIndex[t] # {} =>
                    \A i, j \in DOMAIN tables[t] :
                      Restrict(tables[t][i], UniqueIndex[t]) = Restrict(tables[t][j], UniqueIndex[t])
                        => i = j
    <3>1. RowsFit(t, tables[t])
      BY <2>1 DEF IInv, DbInv
    <3>2. DOMAIN tables[t] \subseteq Nat \ {0}
      BY <3>1 DEF RowsFit, IsBounded
    <3>3. ASSUME NEW f, NEW g, NEW S, Restrict(f, S) = Restrict(g, S), NEW column \in S
          PROVE  f[column] = g[column]
      <4>1. Restrict(f, S)[column] = f[column] /\ Restrict(g, S)[column] = g[column]
        BY DEF Restrict
      <4>2. QED
        BY <3>3, <4>1
    <3>4. QED
      BY <3>1, <3>2, <3>3 DEF RowsFit
  <2>3. QED
    BY <2>1, <2>2 DEF TypeOK, IInv, DbInv
<1>2. QED
  BY <1>1, DatabaseIsSound, PTL

LEMMA KeptIsReferences ==
  ASSUME IInv, NEW key \in Kept
  PROVE  References(key)
<1>1. Refers(tables, key)
  BY DEF IInv, DbInv
<1>2. Database.tables = tables
  BY DEF Database, Session
<1>3. \A t : Rows(Database, t) = RowsOf(tables, t)
  BY <1>2 DEF Rows, RowsOf
<1>4. ASSUME NEW id \in DOMAIN Rows(Database, key[1])
      PROVE  tables[key[1]][id] = RowsOf(tables, key[1])[id]
  BY <1>3, <1>4 DEF RowsOf
<1>5. QED
  BY <1>1, <1>3, <1>4 DEF References, Refers, Kept

\* Whatever the handlers delete and wherever the process dies, no row but an
\* item of an event and a transport stream of a bouquet is left behind by the
\* row it belongs to.
THEOREM NoOrphansEver == DbSpec => []NoOrphans
<1>1. IInv => NoOrphans
  BY KeptIsReferences DEF Kept, NoOrphans
<1>2. QED
  BY <1>1, DatabaseIsSound, PTL

\* StoreEit finds the row of an event before it inserts one, so that Eit
\* needs no unique index.
THEOREM OneRowPerEventEver == DbSpec => []OneRowPerEvent
<1>1. IInv => OneRowPerEvent
  <2>1. SUFFICES ASSUME IInv
                 PROVE  OneRowPerEvent
    OBVIOUS
  <2>2. Rows(Database, "Eit") = RowsOf(tables, "Eit")
    BY DEF Rows, RowsOf, Database, Session
  <2>3. \A i \in DOMAIN Rows(Database, "Eit") : tables["Eit"][i] = RowsOf(tables, "Eit")[i]
    BY <2>2 DEF RowsOf
  <2>4. QED
    BY <2>1, <2>2, <2>3 DEF OneRowPerEvent, IInv, DbInv, EventColumns
<1>2. QED
  BY <1>1, DatabaseIsSound, PTL

-----------------------------------------------------------------------------
(***************************************************************************)
(* What the rows hold.                                                     *)
(***************************************************************************)
\* A table that is known by the same ids and has the same version is the same.
LEMMA SentIs ==
  ASSUME NEW st \in SubTables, NEW v \in DOMAIN Contents[st],
         NEW other, IsSent(other), SameSubTable(Contents[st][v], other), other.version = v
  PROVE  other = Contents[st][v]
<1>1. PICK ot \in SubTables : \E w \in DOMAIN Contents[ot] : other = Contents[ot][w]
  BY DEF IsSent
<1>2. PICK w \in DOMAIN Contents[ot] : other = Contents[ot][w]
  BY <1>1
<1>3. ot = st
  BY <1>2, DistinctAssumption DEF DistinctAssumption
<1>4. w = v
  BY <1>2, ContentsAssumption DEF ContentsAssumption
<1>5. QED
  BY <1>2, <1>3, <1>4

\* Database is the session that looks at the tables.
LEMMA DatabaseRows ==
  ASSUME IInv
  PROVE  /\ SInv(Database)
         /\ Database.tables = tables
         /\ \A t : Rows(Database, t) = RowsOf(tables, t)
         /\ \A t : \A id \in DOMAIN Rows(Database, t) :
              /\ tables[t][id] = Rows(Database, t)[id]
              /\ IsFiled(tables, t, Rows(Database, t)[id])
<1>1. /\ IsSession(Database) /\ ~ Database.inTransaction
      /\ Database.tables = tables /\ Database.lastRowId = lastRowId
      /\ Database.durable = << >>
  BY DEF Database, Session, IsSession
<1>2. OnDisk(Database)
  <2>1. Database.durable \in Seq({})
    BY <1>1
  <2>2. QED
    BY <2>1 DEF OnDisk
<1>3. SInv(Database)
  BY <1>1, <1>2 DEF SInv, IInv
<1>4. \A t : Rows(Database, t) = RowsOf(tables, t)
  BY <1>1, RowsIsRowsOf
<1>5. \A t : \A id \in DOMAIN Rows(Database, t) : tables[t][id] = Rows(Database, t)[id]
  BY <1>1 DEF Rows
<1>6. \A t : \A id \in DOMAIN RowsOf(tables, t) : IsFiled(tables, t, RowsOf(tables, t)[id])
  BY DEF IInv, DbInv
<1>7. QED
  BY <1>1, <1>3, <1>4, <1>5, <1>6

\* BouquetsAreCurrent, of a database and the versions that were given.
BatsAreCurrent(db, given) ==
  DOMAIN db = ToSet(DatabaseTables) =>
    \A st \in SubTables : given[st] > 0 /\ Contents[st][given[st]].kind = "bat" =>
      \A id \in DOMAIN RowsOf(db, "Bat") :
        RowsOf(db, "Bat")[id].bouquet_id = Contents[st][given[st]].bouquet =>
          RowsOf(db, "Bat")[id].version = Contents[st][given[st]].version

\* The handler of the table on air leaves the bouquets as current as they were,
\* and its own as current as it can be.
LEMMA DeliveredBats ==
  ASSUME IInv, BatsAreCurrent(tables, heard), NEW st \in SubTables, Deliver(st)
  PROVE  BatsAreCurrent(tables', heard')
<1> DEFINE s == Session(tables, lastRowId)
           table == Broadcast(st)
           r == HandleTableEvent(s, table)
<1>1. /\ tables' = r.tables /\ heard' = [heard EXCEPT ![st] = onAir[st]]
  BY DEF Deliver
<1>2. heard'[st] = onAir[st] /\ \A ot \in SubTables \ {st} : heard'[ot] = heard[ot]
  BY <1>1 DEF IInv
<1>3. /\ SInv(r)
      /\ table.kind = "bat" => BatHandling(s, r, table) /\ BatIsCurrent(r, table)
      /\ table.kind # "bat" => BatsStay(s, r)
  BY HandledIs
<1>4. s.tables = tables /\ ~ s.failed
  BY DEF Session
<1>5. table = Contents[st][onAir[st]] /\ onAir[st] \in DOMAIN Contents[st]
  BY DEF IInv, Broadcast
<1> HIDE DEF s, table, r
<1>6. \A t : Rows(s, t) = RowsOf(tables, t) /\ Rows(r, t) = RowsOf(tables', t)
  BY <1>1, <1>4 DEF Rows, RowsOf
<1>7. SUFFICES ASSUME DOMAIN tables' = ToSet(DatabaseTables),
                      NEW ot \in SubTables, heard'[ot] > 0,
                      Contents[ot][heard'[ot]].kind = "bat",
                      NEW id \in DOMAIN RowsOf(tables', "Bat"),
                      RowsOf(tables', "Bat")[id].bouquet_id = Contents[ot][heard'[ot]].bouquet
               PROVE  RowsOf(tables', "Bat")[id].version = Contents[ot][heard'[ot]].version
  BY DEF BatsAreCurrent
<1>8. CASE ot = st
  <2>1. heard'[ot] = onAir[st] /\ Contents[ot][heard'[ot]] = table
    BY <1>2, <1>5, <1>8
  <2>2. BatHandling(s, r, table) /\ BatIsCurrent(r, table)
    BY <1>3, <1>7, <2>1
  <2>3. ~ r.failed
    <3>1. BatTables \cup BouquetTables \subseteq ToSet(DatabaseTables)
      <4>1. /\ DatabaseTables[5] = "BatDescriptor" /\ DatabaseTables[6] = "BatTransportDescriptor"
            /\ DatabaseTables[7] = "BatTransport" /\ DatabaseTables[8] = "Bat"
            /\ DatabaseTables[18] = "Transport" /\ DatabaseTables[19] = "Bouquet"
            /\ \A n \in 1..20 : DatabaseTables[n] \in ToSet(DatabaseTables)
        BY DropOrder DEF DatabaseTables, ToSet
      <4>2. QED
        BY <4>1 DEF BatTables, BouquetTables
    <3>2. QED
      BY <1>1, <1>4, <1>7, <2>2, <3>1 DEF BatHandling, Touches
  <2>4. id \in Matching(r, "Bat", Bouquet(table))
    BY <1>6, <1>7, <2>1, BatRowsAre
  <2>5. QED
    BY <1>6, <2>1, <2>2, <2>3, <2>4 DEF BatIsCurrent
<1>9. CASE ot # st
  <2> DEFINE bat == Contents[ot][heard[ot]]
  <2>1. heard'[ot] = heard[ot] /\ heard[ot] > 0 /\ bat.kind = "bat"
    BY <1>2, <1>7, <1>9
  <2>2. heard[ot] \in DOMAIN Contents[ot]
    <3>1. heard[ot] \in 0..onAir[ot] /\ onAir[ot] \in DOMAIN Contents[ot]
      BY DEF IInv
    <3>2. DOMAIN Contents[ot] = 1..Len(Contents[ot]) /\ Len(Contents[ot]) \in Nat
      BY ContentsAssumption DEF ContentsAssumption, IsSeq
    <3>3. QED
      BY <2>1, <3>1, <3>2
  <2>3. table.kind = "bat" => table.bouquet # bat.bouquet
    BY <1>5, <1>9, <2>1, <2>2, DistinctAssumption DEF DistinctAssumption, SameSubTable
  <2> HIDE DEF bat
  <2>4. /\ DOMAIN tables = ToSet(DatabaseTables)
        /\ id \in DOMAIN RowsOf(tables, "Bat")
        /\ RowsOf(tables, "Bat")[id] = RowsOf(tables', "Bat")[id]
    <3>1. CASE table.kind = "bat"
      <4>1. /\ DOMAIN r.tables = DOMAIN s.tables
            /\ OthersStay(s, r, table)
        BY <1>3, <3>1 DEF BatHandling, Touches
      <4>2. RowsOf(tables', "Bat")[id].bouquet_id # table.bouquet
        BY <1>7, <2>1, <2>3, <3>1 DEF bat
      <4>3. QED
        BY <1>1, <1>4, <1>6, <1>7, <4>1, <4>2 DEF OthersStay
    <3>2. CASE table.kind # "bat"
      BY <1>1, <1>3, <1>4, <1>6, <1>7, <3>2 DEF BatsStay
    <3>3. QED
      BY <3>1, <3>2
  <2>5. QED
    BY <1>7, <2>1, <2>4 DEF BatsAreCurrent, bat
<1>10. QED
  BY <1>8, <1>9

\* Whatever the other handlers do, and although the DELETE of ProcessBouquet
\* binds a version to a bouquet id: in a complete database the rows of Bat have
\* the versions that the process heard last.
THEOREM BouquetsAreCurrentEver == DbSpec => []BouquetsAreCurrent
<1> DEFINE Inv == IInv /\ BatsAreCurrent(tables, heard)
<1>1. DbInit => Inv
  <2>1. SUFFICES ASSUME DbInit
                 PROVE  BatsAreCurrent(tables, heard)
    BY InitIs
  <2>2. \A st \in SubTables : heard[st] = 0
    BY <2>1 DEF DbInit
  <2>3. QED
    BY <2>2 DEF BatsAreCurrent
<1>2. Inv /\ [Next]_vars => Inv'
  <2>1. SUFFICES ASSUME IInv, BatsAreCurrent(tables, heard), [Next]_vars
                 PROVE  BatsAreCurrent(tables', heard')
    BY NextIs
  <2>2. ASSUME \A st \in SubTables : heard'[st] = 0
        PROVE  BatsAreCurrent(tables', heard')
    BY <2>2 DEF BatsAreCurrent
  <2>3. ASSUME NEW st \in SubTables, NewVersion(st)
        PROVE  BatsAreCurrent(tables', heard')
    BY <2>1, <2>3 DEF NewVersion
  <2>4. ASSUME NEW st \in SubTables, Deliver(st)
        PROVE  BatsAreCurrent(tables', heard')
    BY <2>1, <2>4, DeliveredBats
  <2>5. ASSUME NEW st \in SubTables, Crash(st)
        PROVE  BatsAreCurrent(tables', heard')
    BY <2>2, <2>5 DEF Crash, Start
  <2>6. ASSUME Restart
        PROVE  BatsAreCurrent(tables', heard')
    BY <2>2, <2>6 DEF Restart, Start
  <2>7. ASSUME UNCHANGED vars
        PROVE  BatsAreCurrent(tables', heard')
    BY <2>1, <2>7 DEF vars
  <2>8. QED
    BY <2>1, <2>3, <2>4, <2>5, <2>6, <2>7 DEF Next
<1>3. Inv => BouquetsAreCurrent
  <2>1. SUFFICES ASSUME IInv, BatsAreCurrent(tables, heard), IsComplete,
                        NEW st \in SubTables, heard[st] > 0, Contents[st][heard[st]].kind = "bat",
                        NEW id \in Matching(Database, "Bat", Bouquet(Contents[st][heard[st]]))
                 PROVE  tables["Bat"][id].version = Contents[st][heard[st]].version
    BY DEF BouquetsAreCurrent
  <2>2. /\ id \in DOMAIN Rows(Database, "Bat")
        /\ Rows(Database, "Bat")[id].bouquet_id = Contents[st][heard[st]].bouquet
    BY <2>1, BatRowsAre
  <2>3. Rows(Database, "Bat") = RowsOf(tables, "Bat") /\ tables["Bat"][id] = RowsOf(tables, "Bat")[id]
    BY <2>1, <2>2, DatabaseRows
  <2>4. QED
    BY <2>1, <2>2, <2>3 DEF BatsAreCurrent, IsComplete
<1>4. QED
  BY <1>1, <1>2, <1>3, PTL DEF DbSpec

\* Whatever was deleted, inserted under row ids that were used before, or cut
\* short: what is filed under the row of a NIT, a BAT or a service of an SDT
\* was sent with the version in that row.
THEOREM DescriptorsBelongEver == DbSpec => []DescriptorsBelong
<1>1. IInv => DescriptorsBelong
  <2>1. SUFFICES ASSUME IInv, NEW st \in SubTables, NEW v \in DOMAIN Contents[st]
                 PROVE  LET table == Contents[st][v]
                        IN /\ table.kind = "nit" =>
                                \A id \in Matching(Database, "Nit",
                                                   [network_id |-> table.network, version |-> v]) :
                                  DescriptorsUnder("NitDescriptor", id) \subseteq ToSet(table.descriptors)
                           /\ table.kind = "bat" =>
                                \A id \in Matching(Database, "Bat",
                                                   [bouquet_id |-> table.bouquet, version |-> v]) :
                                  DescriptorsUnder("BatDescriptor", id) \subseteq ToSet(table.descriptors)
                           /\ table.kind = "sdt" =>
                                \A service \in ToSet(table.services) :
                                  \A id \in SdtRows(Database, table, service) :
                                    tables["Sdt"][id].version = v =>
                                      DescriptorsUnder("SdtDescriptor", id)
                                        \subseteq ToSet(service.descriptors)
    <3>1. \A st \in SubTables : \A v \in DOMAIN Contents[st] :
            Contents[st][v].kind \in {"nit", "bat", "sdt", "eit"}
      BY ContentsAssumption DEF ContentsAssumption, IsTable
    <3>2. QED
      BY <3>1 DEF DescriptorsBelong
  <2> DEFINE table == Contents[st][v]
  <2>2. IsTable(table) /\ table.version = v
    BY <2>1, ContentsAssumption DEF ContentsAssumption
  <2>3. DbInv(tables)
    BY <2>1 DEF IInv
  <2>4. ASSUME table.kind = "nit",
               NEW id \in Matching(Database, "Nit", [network_id |-> table.network, version |-> v]),
               NEW row \in DOMAIN Rows(Database, "NitDescriptor"),
               Rows(Database, "NitDescriptor")[row].fkey = id
        PROVE  Rows(Database, "NitDescriptor")[row].descriptor \in ToSet(table.descriptors)
    <3>1. /\ RowsOf(tables, "Nit")[id].network_id = table.network
          /\ RowsOf(tables, "Nit")[id].version = v
      BY <2>1, <2>4, DatabaseRows DEF Matching
    <3>2. FiledUnderNit(tables, Rows(Database, "NitDescriptor")[row])
      BY <2>1, <2>4, DatabaseRows DEF IsFiled
    <3>3. PICK other :
            /\ IsSent(other) /\ other.kind = "nit"
            /\ other.network = table.network /\ other.version = v
            /\ Rows(Database, "NitDescriptor")[row].descriptor \in ToSet(other.descriptors)
      BY <2>4, <3>1, <3>2 DEF FiledUnderNit
    <3>4. SameSubTable(table, other)
      BY <2>4, <3>3 DEF SameSubTable
    <3>5. other = table
      BY <3>3, <3>4, SentIs
    <3>6. QED
      BY <3>3, <3>5
  <2>5. ASSUME table.kind = "bat",
               NEW id \in Matching(Database, "Bat", [bouquet_id |-> table.bouquet, version |-> v]),
               NEW row \in DOMAIN Rows(Database, "BatDescriptor"),
               Rows(Database, "BatDescriptor")[row].fkey = id
        PROVE  Rows(Database, "BatDescriptor")[row].descriptor \in ToSet(table.descriptors)
    <3>1. /\ RowsOf(tables, "Bat")[id].bouquet_id = table.bouquet
          /\ RowsOf(tables, "Bat")[id].version = v
      BY <2>1, <2>5, DatabaseRows DEF Matching
    <3>2. FiledUnderBat(tables, Rows(Database, "BatDescriptor")[row])
      BY <2>1, <2>5, DatabaseRows DEF IsFiled
    <3>3. PICK other :
            /\ IsSent(other) /\ other.kind = "bat"
            /\ other.bouquet = table.bouquet /\ other.version = v
            /\ Rows(Database, "BatDescriptor")[row].descriptor \in ToSet(other.descriptors)
      BY <2>5, <3>1, <3>2 DEF FiledUnderBat
    <3>4. SameSubTable(table, other)
      BY <2>5, <3>3 DEF SameSubTable
    <3>5. other = table
      BY <3>3, <3>4, SentIs
    <3>6. QED
      BY <3>3, <3>5
  <2>6. ASSUME table.kind = "sdt",
               NEW service \in ToSet(table.services),
               NEW id \in SdtRows(Database, table, service),
               tables["Sdt"][id].version = v,
               NEW row \in DOMAIN Rows(Database, "SdtDescriptor"),
               Rows(Database, "SdtDescriptor")[row].fkey = id
        PROVE  Rows(Database, "SdtDescriptor")[row].descriptor \in ToSet(service.descriptors)
    <3> DEFINE ts == RowsOf(tables, "NitTransport")[RowsOf(tables, "Sdt")[id].nit_transport_fk]
    <3>1. /\ id \in DOMAIN Rows(Database, "Sdt")
          /\ Rows(Database, "Sdt")[id].service_id = service.id
          /\ Database.tables["Sdt"][id].nit_transport_fk \in NitTransports(Database, table)
      BY <2>6 DEF SdtRows, Matching
    <3>2. RowsOf(tables, "Sdt")[id] = tables["Sdt"][id]
      BY <2>1, <3>1, DatabaseRows
    <3>3. /\ RowsOf(tables, "Sdt")[id].service_id = service.id
          /\ RowsOf(tables, "Sdt")[id].version = v
          /\ RowsOf(tables, "Sdt")[id].nit_transport_fk \in NitTransports(Database, table)
      BY <2>1, <2>6, <3>1, <3>2, DatabaseRows
    <3>4. ts.original_network_id = table.onid /\ ts.transport_id = table.tsid
      BY <2>1, <3>3, DatabaseRows DEF NitTransports, Matching, TransportId
    <3>5. FiledUnderSdt(tables, Rows(Database, "SdtDescriptor")[row])
      BY <2>1, <2>6, DatabaseRows DEF IsFiled
    <3>6. PICK other, named :
            /\ SentService(other, named, ts, v, service.id)
            /\ Rows(Database, "SdtDescriptor")[row].descriptor \in ToSet(named.descriptors)
      BY <2>6, <3>3, <3>5 DEF FiledUnderSdt
    <3>7. /\ IsSent(other) /\ other.kind = "sdt" /\ other.version = v
          /\ other.onid = table.onid /\ other.tsid = table.tsid
          /\ named \in ToSet(other.services) /\ named.id = service.id
      BY <3>4, <3>6 DEF SentService
    <3>8. SameSubTable(table, other)
      BY <2>6, <3>7 DEF SameSubTable
    <3>9. other = table
      BY <3>7, <3>8, SentIs
    <3>10. named = service
      BY <2>6, <3>7, <3>9, DistinctAssumption DEF DistinctAssumption
    <3>11. QED
      BY <3>6, <3>10
  <2>7. QED
    BY <2>4, <2>5, <2>6 DEF DescriptorsUnder, Matching
<1>2. QED
  BY <1>1, DatabaseIsSound, PTL

\* GetTsListByNetId tells of a network what the stored version of its NIT
\* told, each transport stream once, after whatever crash: a transport stream
\* that is known is not stored again, and a new version of a NIT takes all
\* rows away.
THEOREM TsListIsNitEver == DbSpec => []TsListIsNit
<1>1. IInv => TsListIsNit
  <2>1. SUFFICES ASSUME IInv, NEW st \in SubTables, NEW v \in DOMAIN Contents[st],
                        StoredNit(Contents[st][v]),
                        NEW id \in GetTsListByNetId(Contents[st][v].network)
                 PROVE  \E ts \in ToSet(Contents[st][v].transports) :
                          /\ \A other \in GetTsListByNetId(Contents[st][v].network) :
                               /\ tables["Transport"][other].original_network_id = ts.onid
                               /\ tables["Transport"][other].transport_id = ts.tsid
                               <=> other = id
                          /\ tables["Transport"][id].frequency = ts.frequency
    BY DEF TsListIsNit
  <2> DEFINE nit == Contents[st][v]
  <2>2. DbInv(tables)
    BY <2>1 DEF IInv
  <2>3. nit.kind = "nit" /\ nit.version = v /\ nit.network # 0 /\ "Nit" \in DOMAIN tables
    <3>1. "Nit" \in ToSet(DatabaseTables)
      BY DEF ToSet, DatabaseTables
    <3>2. QED
      BY <2>1, <3>1, ContentsAssumption DEF StoredNit, IsComplete, ContentsAssumption
  <2>4. \A other \in GetTsListByNetId(nit.network) :
          /\ other \in DOMAIN RowsOf(tables, "Transport")
          /\ tables["Transport"][other] = RowsOf(tables, "Transport")[other]
          /\ tables["Transport"][other].network_fk
               \in Matching(Database, "Network", [network_id |-> nit.network])
    BY <2>1, <2>3, DatabaseRows DEF GetTsListByNetId
  <2> DEFINE row == RowsOf(tables, "Transport")[id]
  <2>5. RowsOf(tables, "Network")[row.network_fk].network_id = nit.network
    BY <2>1, <2>4, DatabaseRows DEF Matching
  <2>6. PICK n \in DOMAIN RowsOf(tables, "Nit") : \E table, ts :
          /\ RowsOf(tables, "Nit")[n].network_id = nit.network
          /\ IsSent(table) /\ table.kind = "nit"
          /\ table.network = nit.network
          /\ table.version = RowsOf(tables, "Nit")[n].version
          /\ ts \in ToSet(table.transports)
          /\ ts.onid = row.original_network_id /\ ts.tsid = row.transport_id
          /\ ts.frequency = row.frequency
    <3>1. ListedByNit(tables, row)
      BY <2>2, <2>4 DEF DbInv, IsFiled
    <3>2. QED
      BY <2>3, <2>5, <3>1 DEF ListedByNit
  <2>7. RowsOf(tables, "Nit")[n].version = v
    <3>1. PICK m \in DOMAIN RowsOf(tables, "Nit") :
            /\ RowsOf(tables, "Nit")[m].network_id = nit.network
            /\ RowsOf(tables, "Nit")[m].version = v
      BY <2>1, <2>3, DatabaseRows DEF StoredNit, Matching
    <3>2. UniqueIndex["Nit"] = {"network_id"} /\ RowsOf(tables, "Nit") = tables["Nit"]
      BY <2>3 DEF UniqueIndex, RowsOf
    <3>3. RowsFit("Nit", tables["Nit"])
      BY <2>2, <2>3 DEF DbInv
    <3>4. \A i, j \in DOMAIN tables["Nit"] :
            tables["Nit"][i].network_id = tables["Nit"][j].network_id => i = j
      BY <3>2, <3>3 DEF RowsFit
    <3>5. m = n
      BY <2>6, <3>1, <3>2, <3>4
    <3>6. QED
      BY <3>1, <3>5
  <2>8. PICK table, ts :
          /\ IsSent(table) /\ table.kind = "nit"
          /\ table.network = nit.network /\ table.version = v
          /\ ts \in ToSet(table.transports)
          /\ ts.onid = row.original_network_id /\ ts.tsid = row.transport_id
          /\ ts.frequency = row.frequency
    BY <2>6, <2>7
  <2>9. table = nit
    <3>1. SameSubTable(nit, table)
      BY <2>3, <2>8 DEF SameSubTable
    <3>2. QED
      BY <2>8, <3>1, SentIs
  <2>10. \A other \in GetTsListByNetId(nit.network) :
           /\ tables["Transport"][other].original_network_id = ts.onid
           /\ tables["Transport"][other].transport_id = ts.tsid
           <=> other = id
    BY <2>1, <2>2, <2>4, <2>8 DEF DbInv, OneTransport, SameTransport
  <2>11. QED
    BY <2>1, <2>4, <2>8, <2>9, <2>10
<1>2. QED
  BY <1>1, DatabaseIsSound, PTL

=============================================================================
