-------------------------------- MODULE DvbDb --------------------------------
(***************************************************************************)
(* The database wrapper TDvbDb over SQLite, as operators on a session.  A  *)
(* database is a function from the names of its tables to their rows, and  *)
(* the rows of a table a function from row ids to the columns that some    *)
(* statement of the storage looks at.  A statement maps a session to the   *)
(* session after it; durable is the sequence of databases that were on     *)
(* disk meanwhile, one per statement outside a transaction and one per     *)
(* transaction.  failed tells that a statement could not be prepared and   *)
(* the exception has left the handler.                                     *)
(*                                                                         *)
(* Foreign keys are declared and not enforced: that is SQLite's default.   *)
(* I/O errors are left out.  Without them the UPDATE of a row just found   *)
(* modifies it, so UpdateList stays empty and PerformUpdate does nothing.  *)
(***************************************************************************)
EXTENDS Naturals, Sequences, FiniteSets, SequencesExt

\* The tables in the order in which they are dropped, the leaves first.
DatabaseTables ==
  << "EitDescriptor", "Eit", "SdtDescriptor", "Sdt", "BatDescriptor",
     "BatTransportDescriptor", "BatTransport", "Bat", "NitDescriptor",
     "NitTransportDescriptor", "NitTransport", "Nit", "EventItem",
     "EventComponent", "Event", "ServiceComponent", "Service", "Transport",
     "Bouquet", "Network" >>

\* The same tables in the order in which they are created.
DatabaseSchema ==
  << "Nit", "NitDescriptor", "NitTransport", "NitTransportDescriptor", "Sdt",
     "SdtDescriptor", "Eit", "EitDescriptor", "Bat", "BatDescriptor",
     "BatTransport", "BatTransportDescriptor", "Bouquet", "Network",
     "Transport", "Service", "ServiceComponent", "Event", "EventComponent",
     "EventItem" >>

\* The columns of a table's unique index.  Eit has none: its two statements
\* are one string, for want of a comma, and only the first one is executed.
DescriptorIndex == {"fkey", "descriptor"}
ComponentIndex == {"fkey", "stream_content", "component_type", "component_tag"}

UniqueIndex ==
  [Nit |-> {"network_id"},
   NitTransport |-> {"original_network_id", "transport_id", "nit_fk"},
   Sdt |-> {"service_id", "nit_transport_fk"},
   Eit |-> {},
   Bat |-> {"bouquet_id"},
   BatTransport |-> {"original_network_id", "transport_id", "bat_fk"},
   NitDescriptor |-> DescriptorIndex, NitTransportDescriptor |-> DescriptorIndex,
   SdtDescriptor |-> DescriptorIndex, EitDescriptor |-> DescriptorIndex,
   BatDescriptor |-> DescriptorIndex, BatTransportDescriptor |-> DescriptorIndex,
   Bouquet |-> {"bouquet_id"},
   Network |-> {"network_id"},
   Transport |-> {"original_network_id", "transport_id", "network_fk"},
   Service |-> {"service_id", "transport_fk"},
   Event |-> {"network_id", "transport_id", "service_id", "event_id"},
   EventItem |-> {"event_fk", "language"},
   ServiceComponent |-> ComponentIndex, EventComponent |-> ComponentIndex]

\* The foreign keys; the column of Transport may be NULL, written 0.  The
\* schema lets nit_fk refer to Nit's network_id; what is stored is nit_pk.
ForeignKeys ==
  { <<"NitDescriptor", "fkey", "Nit">>, <<"NitTransport", "nit_fk", "Nit">>,
    <<"NitTransportDescriptor", "fkey", "NitTransport">>,
    <<"Sdt", "nit_transport_fk", "NitTransport">>, <<"SdtDescriptor", "fkey", "Sdt">>,
    <<"EitDescriptor", "fkey", "Eit">>, <<"BatDescriptor", "fkey", "Bat">>,
    <<"BatTransport", "bat_fk", "Bat">>,
    <<"BatTransport", "nit_transport_fk", "NitTransport">>,
    <<"BatTransportDescriptor", "fkey", "BatTransport">>,
    <<"Transport", "network_fk", "Network">>, <<"Transport", "bouquet_fk", "Bouquet">>,
    <<"Service", "transport_fk", "Transport">>, <<"ServiceComponent", "fkey", "Service">>,
    <<"EventComponent", "fkey", "Event">>, <<"EventItem", "event_fk", "Event">> }

NULL == 0

-----------------------------------------------------------------------------
(***************************************************************************)
(* Sessions.                                                               *)
(***************************************************************************)
Session(db, rowId) ==
  [tables |-> db, lastRowId |-> rowId, inTransaction |-> FALSE,
   failed |-> FALSE, durable |-> << >>]

Rows(s, t) == IF t \in DOMAIN s.tables THEN s.tables[t] ELSE << >>

Autocommit(s) ==
  IF s.inTransaction THEN s ELSE [s EXCEPT !.durable = Append(@, s.tables)]

WithRow(rows, id, row) ==
  [k \in DOMAIN rows \cup {id} |-> IF k = id THEN row ELSE rows[k]]

Write(s, t, rows) ==
  Autocommit([s EXCEPT !.tables =
                [u \in DOMAIN @ \cup {t} |-> IF u = t THEN rows ELSE @[u]]])

\* The ids of the rows that have the given values in the given columns.
Matching(s, t, values) ==
  {id \in DOMAIN Rows(s, t) :
     \A column \in DOMAIN values : Rows(s, t)[id][column] = values[column]}

\* The key of the last row of a result, 0 if there is none.
LastKey(ids) == IF ids = {} THEN 0 ELSE Max(ids)

FindPrimaryKey(s, t, values) == LastKey(Matching(s, t, values))

\* A transaction begun in session s.  Its statements reach the disk together
\* when it is committed, and an exception before that rolls them back.
TTransaction(s) == [s EXCEPT !.inTransaction = TRUE]

CommitSqlStatements(s, e) ==
  IF s.failed THEN s
  ELSE IF e.failed THEN [e EXCEPT !.tables = s.tables, !.inTransaction = FALSE]
  ELSE Autocommit([e EXCEPT !.inTransaction = FALSE])

-----------------------------------------------------------------------------
(***************************************************************************)
(* Statements.                                                             *)
(***************************************************************************)

\* A bug: the unique indexes are not there.
NeverDuplicate(s, t, row) == FALSE

\* INSERT OR IGNORE by a TCommand.  What is reported to the caller is
\* last_insert_rowid, whether a row was inserted or not.
IsDuplicate(s, t, row) ==
  /\ UniqueIndex[t] # {}
  /\ Matching(s, t, Restrict(row, UniqueIndex[t])) # {}

Insert(s, t, row) ==
  IF s.failed THEN s
  ELSE IF t \notin DOMAIN s.tables THEN [s EXCEPT !.failed = TRUE]
  ELSE IF IsDuplicate(s, t, row) THEN s
  ELSE LET id == LastKey(DOMAIN s.tables[t]) + 1
       IN [Write(s, t, WithRow(s.tables[t], id, row)) EXCEPT !.lastRowId = id]

\* DELETE by a TCommand.
Delete(s, t, ids) ==
  IF s.failed THEN s
  ELSE IF t \notin DOMAIN s.tables THEN [s EXCEPT !.failed = TRUE]
  ELSE Write(s, t, Restrict(s.tables[t], DOMAIN s.tables[t] \ ids))

\* DELETE FROM t WHERE column NOT IN (SELECT key FROM parent), by SqlCommand,
\* which catches what goes wrong.
Prune(s, t, column, parent) ==
  IF s.failed \/ ~({t, parent} \subseteq DOMAIN s.tables) THEN s
  ELSE Write(s, t, Restrict(s.tables[t],
                     {id \in DOMAIN s.tables[t] :
                        s.tables[t][id][column] \in DOMAIN s.tables[parent]}))

\* InsertDescriptor catches what goes wrong, too.
EachDescriptor ==
  INSTANCE Loop WITH
    Body <- LAMBDA s, of, d : Insert(s, of.table, [fkey |-> of.fkey, descriptor |-> d])

InsertDescriptor(s, t, fkey, descriptors) ==
  IF fkey = 0 \/ t \notin DOMAIN s.tables THEN s
  ELSE EachDescriptor!Run(s, [table |-> t, fkey |-> fkey], descriptors)

\* InsertComponent is given "Service" or "Event" for the table, which lack
\* its columns: the statement cannot be prepared, and nothing is written.
InsertComponent(s, t) == s

-----------------------------------------------------------------------------
(***************************************************************************)
(* The life of the database file.                                          *)
(***************************************************************************)
DropTable(s, t) == Autocommit([s EXCEPT !.tables = Restrict(@, DOMAIN @ \ {t})])

CreateTable(s, t) == IF t \in DOMAIN s.tables THEN s ELSE Write(s, t, << >>)

EachDropped == INSTANCE Loop WITH Body <- LAMBDA s, schema, t : DropTable(s, t)

EachCreated == INSTANCE Loop WITH Body <- LAMBDA s, schema, t : CreateTable(s, t)

DropTables(s) == EachDropped!Run(s, "DatabaseTables", DatabaseTables)

CreateTables(s) == EachCreated!Run(s, "DatabaseSchema", DatabaseSchema)

EmptyDatabase == [t \in ToSet(DatabaseSchema) |-> << >>]

\* Opening a file that exists: it is taken as it is when Nit has a row, and
\* replaced by a new one otherwise.
ContentCheck(db) == "Nit" \in DOMAIN db /\ db["Nit"] # << >>

CreateDbFile(db) == IF ContentCheck(db) THEN db ELSE EmptyDatabase

=============================================================================
