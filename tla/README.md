# DVB SI parser and storage in TLA+

This directory is a verification project for the two modules of the
repository, `sectionparser/` and `storage/` (paths below are relative to
`src/`). It models the program's own code; the bundled Boost, jansson, SQLite
and sqlite3pp sources are taken as they are used.

| file | what it is |
|---|---|
| `SectionList.tla` | the section list of one sub-table (`TSectionList`), as operators |
| `SectionParser.tla` | the parser (`TSectionParser`): all lists, all observers |
| `TableFeed.tla` | abstract specification: what the parser promises an application |
| `Broadcast.tla` | what a DVB broadcaster sends, as the parser sees it |
| `Carousel.tla` | the parser listening to a lossy broadcast, implementing `TableFeed` |
| `ParserAndStorage.tla` | the parser and the storage's table caches behind it |
| `EitScan.tla` | the loop over an EIT's segments, step by step |
| `TableContent.tla` | that loop, the table builders and readers on the bytes of the sections |
| `Descriptors.tla`, `DvbTime.tla` | the descriptor classes; BCD and MJD conversions; as operators |
| `TableCoding.tla` | how a multiplexer codes tables: the reference the readers are compared with |
| `ScanReport.tla` | abstract specification: what the scan status promises |
| `SiStorageScan.tla` | the storage's scan thread with caches, tuner and application, implementing `ScanReport` |
| `DvbDb.tla` | the database wrapper (`TDvbDb`) over SQLite, as operators on a session |
| `Loop.tla` | a loop over the items of a table, instantiated by each loop of a handler, with a lemma on how it runs |
| `SiStorageDb.tla` | the storage's table handlers, the rows they write and the queries that read them |
| `SectionParserProofs.tla` (with the section list), `CarouselProofs.tla`, `ParserAndStorageProofs.tla`, `TableContentProofs.tla` (with `DvbTime`), `SiStorageScanProofs.tla`, `SiStorageDbProofs.tla` | theorems and their TLAPS proofs |
| `BroadcastProofs.tla` | the lemmas about broadcasts on which `CarouselProofs` and `ParserAndStorageProofs` rest |
| `MC*.tla`, `*.cfg` | instances for TLC |
| `PROJECT.json` | components, runs, mutants, source map, findings, hazards, theorems |

## 1. The system

```
 demultiplexer --ParseSiData--> TSectionParser --SendEvent(table)--> application
                                 |  map (table id, extension)            |
                                 v                                       | HandleTableEvent
                               TSectionList                              v
 application/tuner <--Tune, UnTune-- TDvbSiStorage (caches | handlers --> TDvbDb --> SQLite)
        |  UpdateTuneStatus, UpdateScanType   ^
        +-------------------------------------+   scan thread (ScanThreadInit)
```

| component | state | operations | interacts with |
|---|---|---|---|
| section object `TSiSection` | header fields, payload | constructor | parser |
| section list `TSectionList` | sections, first received number, completeness flag | `AddSiSection`, `BuildTable` | parser |
| section parser `TSectionParser` | map of lists, observer vector | `ParseSiData`, register, remove, notify | callback `SendEvent` |
| tables and descriptors | parsed content | readers of bytes | list, storage |
| conversions `DvbUtils` | none | BCD, MJD, text | tables, storage |
| storage: caches | four maps under `CacheDataMutex` | cache half of the table handlers, clearing, lookup | handler thread, scan thread |
| storage: scan thread | `IsFastScan`, `CurrentTuneStatus`, `DvbScanStatus` (no mutex) | `ScanThread` and what it calls, `UpdateTuneStatus`, `UpdateScanType`, `GetScanStatus` | tuner callbacks, caches |
| storage: database handlers | rows of the SI tables | `Process...EventDb` | `TDvbDb` |
| storage: queries | none | `Get...List...` | `TDvbDb` |
| database wrapper `TDvbDb` | file, schema, settings, list of updates, `DbMutex` | create/open/close, `SqlCommand`, commands, transactions, `PerformUpdate` | SQLite |
| profiles `TDvbJanssonParser` | one JSON file | read, write | jansson |

What makes each of them correct, and what is hard about it:

* *List and parser.* Sections arrive lost, repeated and out of order, and
  versions change at any point of a cycle. A table must never mix versions,
  must be whole when it is published, must be published once, and the version
  that stays on air must be published in the end. The version number wraps
  after 32.
* *Tables and descriptors.* Everything is found by adding up lengths that were
  received; an item of length zero, one at the end of its loop or one longer than
  a byte can count must neither be overlooked nor taken twice.
* *Caches.* They are keyed by the ids in the table, the parser's lists by table id
  and extension, and neither can be had from the other. The caches are cleared by
  scans, the parser cannot be.
* *Scan thread.* It runs beside the thread that delivers tables, the tuner's
  reports and the application's requests; three plain variables are shared
  without a mutex, and the caches are looked up table by table. Its report must
  be true, must be complete when it says so, and every scan must end.
* *Database handlers.* Several statements per table, some in a transaction;
  the database must reflect the last table delivered, also over a restart.
* *Database wrapper.* One mutex that some functions take and others expect to
  be held; retries with a limit; a file with a life cycle.

`PROJECT.json` lists the hazards of the code one by one, at their lines, with
the properties that watch them or the reason why none does yet.

## 2. What is modelled, and how it corresponds to the code

**SectionList.** A `TSectionList` is a record `[IsComplete, First, Sections]`
and its methods are operators on it; every condition of `AddSiSection` is a
named predicate (`StartsAgain`, `Accepts`, `SameTable`). A section is a record of
the header fields. Its payload is an opaque `Body` and, for an EIT, byte 4
(`SegLast`). `BuildTable` yields the table's header and the bodies of its
sections; what the builders do with a body is in `TableContent`.

**SectionParser.** `m_sectionMap` is a function from keys to lists. `ParseSiData`
is one action: the parser is not thread-safe and is called by one thread. Any
section of `Sections` may come at any time. `sent` holds the `SendEvent` calls of
the last step. Registration counts how often an object is in the vector.
`ParseShortData` is a buffer of one or two bytes: the constructor returns early
and leaves the table id and the syntax indicator as the memory held them, so
any value of `Uninitialized` may result. The build modelled is the default one,
without `DVB_SECTION_OUTPUT`; `DVB_TABLE_DEBUG`, which `TSectionParser.cpp:34` defines,
adds logging only.

**Broadcast.** Contents are numbered by generations, and the section header
carries the generation modulo 32 (`VersionNumber`). A sub-table may have several
layouts (sets of section numbers), only an EIT's with gaps. `SectionOnAir` is a
section as the `TSiSection` constructor reads it. Everything here is the
broadcaster's and stands for what is outside the repository, except for the header
fields.

**Carousel.** The broadcaster sends the sections of each sub-table of a programme
cyclically, moves to a new version now and then, and sections may be lost. The
application keeps the table it was given last. The refinement mapping to
`TableFeed` maps what the application holds to a generation, or to -1 if it
holds anything but one whole generation.

**ParserAndStorage.** The parser with the cache half of `HandleTableEvent` behind it
and the scan thread's requests around it. The four maps are one function from
`CacheKey`s, which are the keys of `NitTableMap`, `SdtTableMap`, `BatTableMap` and
`EitTableMap`; `Store` replaces an entry of another version. The parser knows
`SubTableKey`, table id and extension. `Receive` is a section of the current table,
`ReceiveNext` one of the table announced (`CurrentNextIndicator` 0, at which the
code never looks). `ClearCachedTables` and `ClearEits` are the two clearings of a
scan, each followed by a tune (`TuneCleared`); a scan also tunes without clearing
(`TuneNext`). `TSectionParser` has no reset, so what the application does when it
tunes is a choice made at the start (`renews`): it makes a new parser, or keeps
one. On one frequency no two sub-tables have the same key (`OneKeyPerFrequency`):
table id and extension identify a sub-table within a transport stream, except for
the EITs of other streams, whose service ids would have to clash there. On
different frequencies keys do clash in the instance.

**EitScan and TableContent.** `IsSectionListComplete` walks the list of an EIT with two
nested loops and looks at `segment_last_section_number`. `SectionList` says in one
line what this computes; `EitScan` has one action per movement of the iterator and
shows that line right. Of any other table `TableContent` takes the verdict of
`SectionList` (`NonEitComplete`) and compares it with what was sent. `TableContent` runs the
loop on payloads of real bytes and then builds the table: `BuildNit`, `BuildSdt`,
`BuildEit` and `BuildTot` (a BAT is built like a NIT) with the loops that add up lengths, `Descriptors` with `ParseMpegDescriptors`
and one operator per descriptor class, which returns what all getters of the class
return, and `DvbTime` with `MjdToDate`, `GetDuration` and the test for near video on
demand. A pointer into a payload is the number of bytes before it. What was sent
is a table in terms of its content, which `TableCoding` codes after the DVB layouts:
that module and the calendar in `DvbTime` are the reference, and no code of the
repository is in them. Sections arrive whole; the flag `IsScrambled` of an event is
built as the code builds it (from a bit of the length) and compared with nothing.

**SiStorageScan.** One action per access of the scan thread to shared state; `pc`
names the place in `ScanThread`, `ScanHome`, `IsFastScanEnabled` or
`IsBackgroundScanEnabled`, `scan` and `check` hold the locals.
`CheckCacheTableCollections` is a sub-machine that returns to `check.then`. The
tables are the NIT, one SDT per transport stream, and the present/following and
schedule EIT of every service. `HomeBouquetsVector` is never filled, so no BAT is
waited for. Other actors: `HandleTableEvent` (its cache half),
`UpdateTuneStatus`, `UpdateScanType`, and the tuner, which is external: it finds
a signal some time after `Tune`, may lose it, and its reports are passed on late
but in order. Tables of a frequency may still arrive after it was left. Time is
left out: a try of the lookup may fail at any time, and the timeouts are numbers
of tries. `BarkerEitTimout` is never set, and its value is a choice (`BarkerEitTimouts`). The flags
of a new `TDvbSiTableStatus` are not initialised and the code only ever sets them to
true: `Status` is the set of the flags that were set, and `Readings` are all the values that
a reader of such a status may find. The spurious wake-up of the condition variable, the only event
that stops the thread, is an action of its own.

**DvbDb.** A database is a function from table names to rows, and a row a record
of the columns that some statement looks at. A statement is an operator that
maps a session to the session after it; a session also carries
`last_insert_rowid`, whether a transaction is open, whether a statement could not
be prepared (the constructor of `TCommand` throws, the rest of the handler is
skipped, an open transaction rolls back), and `durable`, the sequence of databases
that were on disk meanwhile: one per statement outside a transaction, one per
transaction. `Insert` is `INSERT OR IGNORE` under the schema's unique indexes, of
which `Eit` has none: a missing comma makes its `CREATE TABLE` and its `CREATE
UNIQUE INDEX` one string, and only the first statement of a string is executed.
Row ids are used again after a deletion, as SQLite does without `AUTOINCREMENT`.
Foreign keys are declared and not enforced, SQLite's default. A query that yields
several rows hands back the key of its last one; the model takes the greatest.
Components are never stored: `InsertComponent` is given the names of the wrong
tables. A loop is an instance of `Loop`, whose `Run` hands what one round has left to
the next one; the body of `EachDescriptor`, say, is the `INSERT` of one descriptor. I/O errors are left out; without them `UPDATE` modifies the row that was
just found, so that `UpdateList` stays empty and `PerformUpdate` has nothing to do.

**SiStorageDb.** One operator per handler and per part of it, in the order of the
code. `Deliver` runs a handler on the current database, `Crash` lets the process
die after one of its commits, `Restart` ends it between two tables; both go on
with `CreateDbFile` on what is on the disk and with a parser that has heard
nothing. Around that are a broadcaster that moves to the next version of a
sub-table and the parser's promise (module `TableFeed`): each version is delivered
once per process. A version in the model is a position in the list of what is broadcast,
not a number of five bits. The database outlives the process and the parser, so that a
table may come back 32 versions later under the stored number and be taken for the
stored one; this is left out, and `ServicesAreCurrent` and `BouquetsAreCurrent`, the theorem
on the latter included, like every other property here that compares versions, are
about broadcasts in which no number comes back. The application is assumed to survive an exception from
`HandleTableEvent`. A column holds a number or a model value; descriptors and
titles are tuples that tell where they come from, and the items of an event stand
for its short event descriptors. Of what the columns of parsed descriptors hold,
only the frequency of a transport stream and the name of a service are there;
`TableContent` shows that the readers behind them are right. `GetTsListByNetId`,
`GetServiceListByTsId` and `GetEventListByServiceId` are what the three queries find
by their joins.

**ScanReport.** A poller sees a state and a list: a scan begins, the old report
goes as a whole, entries are only added, only a background scan with an entry
completes, and every scan ends.

## 3. What the runs check

| run | shows | bounds |
|---|---|---|
| `parser` | `ListsCoherent`, `ListsOrdered`, `ListsWhole`, `CompletionAnnounced`, `AnnouncedOnce`, `TypeOK` | two NIT versions (0 and 31), section numbers 0 to 2 with 1 as the last (so one past it), a 3-section EIT, a TDT, short reads that look like a NIT or an unknown id, two observers registered up to twice |
| `carousel` | `NoTornList`; refinement of `FairFeedSpec` | two programmes: an EIT with a gap between its segments that may shrink, received whole, beside an SDT of three sections or one, any of them lost at times, 2 generations each; and a bouquet with losses, 34 generations, at most 31 unheard in a row |
| `carousel_lossy_eit` | finding | one EIT, two generations |
| `table_content` | `ScanAgrees`, `ScanTerminates`, `CompleteIsWhole`, `TableIsSent`, `DescriptorsAreRead`, `TimesAreRead` | see below |
| `cache_feed` | `CachedWhole`, `DeliveredIsCached`, `KeptParserNeverRefills`, `RefilledByNewParser`, `FeedTypeOK` | two frequencies; programmes of one or two of seven sub-tables: a NIT and one of another network, present/following EITs of equal service ids, one of three sections with a gap between them and one of two, an SDT and the same one as "other", a bouquet; 2 generations, 2 of the sub-tables announced; 4 requests |
| `scan` | `FoundIsCached`, `AcquiredSdtIsCached`, `StatusIsReport`, `EveryScanEnds`, `TypeOK` | two transport streams, one service, two NIT contents, one request, one lost lock |
| `scan_reception` | `AllAcquired`, `ScansComplete` | the same with a barker frequency |
| `scan_missing`, `scan_no_network` | findings | the first as `scan`, the second as `scan_reception` without preferred network |
| `database` | `NoOrphans`, `DescriptorsBelong`, `ServicesAreCurrent`, `BouquetsAreCurrent`, `SdtAndServiceAgree`, `OneRowPerEvent`, `TsListIsNit`, `TsListIsWhole`, `EventsHaveTheirTitles`, `TypeOK` | two versions each of a NIT, an SDT with services that come, stay and go, a bouquet and an EIT; one restart or crash |
| `database_keys` | two findings | as `database`, with a second bouquet, whose id is 2, and without a restart |
| `database_crash` | finding | as `database` |

The contents of `table_content`: every descriptor class with every value of its
getters at the limits of its fields, texts of 0 to 2 bytes and lists of 0 to 2 items;
each of these descriptors alone in a loop, behind and in front of an empty one;
loops without descriptors and of more than 255 bytes; tables with 0 to 2 entries in
one section and spread over two; EITs with sections 0, 1, 8 and 255 in every
combination under three segment numbers each; NITs of 2, 255 and 256 sections, whole
and without the first, the second or the last of them; and a time table for every day from
1900 to 22 April 2038, the last the 16 bits can hold.

Why the bounds are enough. The parser treats lists independently and compares
a section only with the front of its list, so two versions, three numbers and
three kinds of table meet every branch; the theorems remove these bounds
altogether. The bouquet of `carousel` has more than 32 generations and the most
unheard versions that the five bits can bridge: with a version number one bit
narrower the run fails.
Its tables are short, for with losses the parser would have 2^256 lists of the longest
table to meet; the byte that counts its sections is in `table_content`, and the theorem
`AlwaysWhole` is about all lists. The loop of `EitScan` compares numbers only for equality and
order, and the theorem about it has no bounds. The readers add up lengths: an item
has no influence on the next one but by its length, so what can go wrong shows with
two, one of them empty or long. In `cache_feed` a second generation is a change of
version, four requests make a scan with both clearings and a retune between
them, and an EIT of three sections has one that a kept parser may miss when it comes
back in the middle of the cycle. The scan thread treats the transport streams one after the other with fresh
locals, so one besides the home stream suffices for the interleavings; more than
one request or loss repeats the same races. The handlers compare a version with
the stored one and nothing else, so two versions meet both branches; a third
would meet them again. One crash leaves every state that a handler can leave when it
finds what handlers leave that were not cut short; for what holds after any number of
crashes there are the theorems. The instance of the database has a service whose id is that of one of its events,
because one `DELETE` mistakes the one for the other. Another takes the version for the
bouquet id: `database` has bouquet 100 only, whose old rows it does not find, and
`database_keys` adds a bouquet 2, which it removes instead. `NoOrphans`
leaves the key that breaks out, and its theorem is about any bouquet ids.

**Fairness.** `FairCarouselSpec`: the broadcaster goes on sending every sub-table
(weak fairness of its next section, received or lost), and of a sub-table in
`Lossy` no section is lost every time it comes round (strong fairness of receiving
each number). Both are about the broadcast, nothing is asked of the parser, which
only reacts. `FairFeedSpec` of `ParserAndStorage` adds that a version that was
announced is put on air, and that the application tunes when the scan thread asks
it to; sections are not lost there. In `TableContent` the steps of one loop run on
(`WF` of `ScanStep`), as those of any function do. `FairScanSpec`:
the operating system runs the thread; the tuner finds the signal of a frequency
it stays on; the application passes its reports on. Without the last two
`IsTuneDone` waits for ever, it has no timeout. `GoodReceptionSpec` adds that the
tables sent on a frequency arrive while it is received, and the run sets
`InTime`, so that they beat the timeouts. The timeouts then cover the tune, too: where
`IsTuneDone` returns at once, on the status left by an earlier tune, the thread looks for
tables before the tuner has locked, and `AllAcquired` holds because the tries last that
long. Nothing in the repository says whether they are meant to. `DbSpec`
has no fairness and only safety properties. `CHECK_DEADLOCK FALSE` stands where
the machine really stops: a table is built once (`table_content`), a frequency may
carry nothing once the requests and generations are used up (`cache_feed`), the scan
thread may return (the four scan runs), and once every version has been broadcast
and delivered nothing happens to the database any more (the three database runs).

Every property of a passing run has a mutant in `PROJECT.json`: a definition with
a plausible bug (`SameLastSection`, `EitCompleteEager`, `TuneAndReset`, ...) under which
the same run finds the property violated.

### Findings

* **An EIT may be published incomplete.** `TSectionList.cpp:503` waits for a full
  cycle "to make sure we got all the sections"; a section lost in that cycle is
  not missed, and the version is ignored afterwards (`carousel_lossy_eit`).
* **Flags of the scan status are reported unset.** `TDvbSiTableStatus` has no initialisers
  and its objects at `TDvbSiStorage.cpp:1154`, 1211, 1286 and 1566 are locals, so that
  `GetScanStatus` may say `SdtAcquired` where line 1232 has just logged that the SDT was
  not received (`scan_missing`). What the thread does set is true (`AcquiredSdtIsCached`).
* **Present/following EITs reported as acquired without any.**
  `TDvbSiStorage.cpp:1256`, when the SDT is missing (`scan_missing`).
* **Without a preferred network no scan completes.** `TDvbSiStorage.cpp:1573`
  waits for the NIT of network 0 (`scan_no_network`).
* **A new version of one bouquet may remove another bouquet.** The `DELETE` at
  `TDvbSiStorage.cpp:706` is given the version where the bouquet's id belongs (line 707).
  Version 2 of any bouquet takes the row of bouquet 2 away, whose transport streams keep
  its key, against the foreign key declared at `TDvbDb.cpp:238`
  (`database_keys`).
* **Titles filed under foreign row ids.** `TDvbSiStorage.cpp:934` does not clear its
  stream, so a stored event is not found, the insertion is ignored, and
  `TDvbDb.cpp:1142` returns an unrelated row id under which the title is filed
  (`database_keys`).
* **A half-dropped database passes the sanity check.** `TDvbDb.cpp:489` looks into
  `Nit` only; the tables dropped before a crash stay missing until the handler of
  a new NIT version creates them, and the handlers of their tables throw until
  then (`database_crash`).

Two of the violated properties are disjunctions. `MissingIsNotReported` holds unless a flag
is read that was not set and another one was set for an empty list, and
`ItemsOrTransportsHaveParents` unless both foreign keys are broken: what TLC shows is one
entry of the report, and one database, with both of the findings in it.

What the runs that pass say of the composition is worth a remark.
`KeptParserNeverRefills` and `RefilledByNewParser` are two halves of one answer: the
caches that `ScanHome` clears fill again if the application makes a new
`TSectionParser` whenever it tunes, and if it keeps one, a table comes back only in
another version. Nothing in the repository tells the application so. A kept parser has
another fault, which is why `CachedWhole` makes an exception for it: an EIT is complete
when its first section comes round again (`TSectionList.cpp:503`), and to a parser
that was tuned away in between, and back, it does so although sections are missing.

What holds is weaker than one might expect, and the properties say so.
`SdtAndServiceAgree` is about a database no crash has touched: a death between the
insertion into `Sdt` and `ProcessService` leaves a service in `Sdt` that never gets
its row in `Service`, because the next delivery finds the version stored.
`ServicesAreCurrent` speaks of the services that the SDT lists; the rows of a service
that has left it stay. It also speaks of one crash at most, which is all the run has. Two
of them, with an SDT of one service, leave `Service` with the old version for good: one
after `DropSdt` has taken the old row out of `Sdt` (`TDvbSiStorage.cpp:333`) and before
`ProcessService`, the other after the new row is inserted and before the second
`ProcessService` (line 351). The next delivery finds the version known and parses nothing. Rows of an EIT whose version has changed are neither
deleted nor updated, except those of the event whose id is the service's
(`OneRowPerEvent` is what is left), and once an EIT has changed its version titles go
astray: `EventsHaveTheirTitles` ends there. A new version of a NIT empties the
database and is stored only when a later process receives it, so that
`TsListIsNit` and `TsListIsWhole` speak of the version stored; a process that dies between
the insertions into `Nit` and `Transport` leaves transport streams out of the list for
good, so that the second of them is about a database no crash has touched.

## 4. What is proved

| module | theorem | property |
|---|---|---|
| `SectionParserProofs` | `AddSiSectionInv` | `AddSiSection` preserves `ListInv` |
| | `TypeCorrect` | `TypeOK` |
| | `AlwaysCoherent`, `AlwaysOrdered`, `AlwaysWhole` | `ListsCoherent`, `ListsOrdered`, `ListsWhole` |
| | `AlwaysAnnounced`, `NeverAnnouncedTwice` | `CompletionAnnounced`, `AnnouncedOnce` |
| `CarouselProofs` | `NeverTorn` | `NoTornList` |
| | `AlwaysShownWhole` | `ShownWhole`, without EITs |
| | `CarouselImplementsFeed` | `Feed!FeedSpec`, without EITs |
| `ParserAndStorageProofs` | `FeedInvariant` | `FeedInv`, from which the next four follow |
| | `FeedTypes` | `FeedTypeOK` |
| | `CachesAreWhole` | `CachedWhole` |
| | `DeliveredIsKnown` | `DeliveredIsCached` |
| | `KeptParserRefillsNewOnly` | `KeptParserNeverRefills` |
| `TableContentProofs` | `ScanAlwaysAgrees` | `ScanAgrees` |
| | `DurationRoundTrip`, `StartTimeIsNotNvod` | about `GetDuration` and `IsNvod` |
| `SiStorageScanProofs` | `ScanTypes`, `WhatIsFoundIsCached` | `TypeOK`, `FoundIsCached` |
| | `StatusImplementsReport` | `StatusIsReport` |
| | `AcquiredIsCached` | `AcquiredSdtIsCached` |
| | `ReceivedIsAcquired` | `AllAcquired`, with good reception |
| `SiStorageDbProofs` | `DatabaseIsSound` | `IInv`, from which the next six follow |
| | `DatabaseTypes` | `TypeOK` |
| | `NoOrphansEver` | `NoOrphans` |
| | `OneRowPerEventEver` | `OneRowPerEvent` |
| | `DescriptorsBelongEver` | `DescriptorsBelong` |
| | `TsListIsNitEver` | `TsListIsNit` |
| | `BouquetsAreCurrentEver` | `BouquetsAreCurrent` |
| | `VersionChangeIsAtomic`, `VersionChangeKeepsReferences`, `NoOrphansAfterVersionChange` | about the removal of an old version; the last one about `NoOrphans` |

**Section parser.** For every set of sections, observers and bounds that meets
`SectionsAssumption`: sections are well-typed, and an object left by a short read
holds the zeros of the constructor's initialisers. The inductive invariant
`ParserInv` says of every list that it satisfies `ListInv` and is filed under the key
its sections have. Neither is implied by the properties: `AddSiSection` compares a
section with the front of the list only, so coherence of the whole list is what
carries over to the next insertion; that the insertion position exists and keeps
the list sorted (`InsertPositionExists`, `InsertSection`) needs the well-ordering of
the naturals; and `ListsWhole` for a table other than an EIT rests on the byte
counter of the completeness loop (`ByteCounter`): in a sorted list of bytes the
position minus one is below 256, so `% 256` never bites. An EIT's part of `ListInv`
remembers that the list holds the section received first. The announcement theorems
need the key part: the list a section is added to is the one whose table id and
extension the announced table has.

**Carousel.** For every set of sub-tables, layouts and generations that meets
`BroadcastAssumption`, `SectionsOnAirAssumption` and `CarouselAssumption`. `NoTornList`
is not inductive: whether a section starts a list again is decided by its version
number, which tells generations apart only if the receiver is at most 31 behind.
`CarouselInv` adds this (`InTouch`) and that a list holds sections of one layout,
the one on air if it is the generation on air (`Held`). For the refinement, a list
that is complete without being an EIT's has every section of its layout
(`ShownInvariant`), so what is shown is the generation on air. With an EIT this is
false, as `carousel_lossy_eit` shows, so these two theorems assume there is none.

**Parser and caches.** For every set of programmes, frequencies, sub-tables and layouts
that meets `BroadcastAssumption`, `SectionsOnAirAssumption` and `FeedAssumption`; EITs
are included. The properties speak of the caches and of the last delivery, and what
makes them true is spread over the whole reception. `FeedInv` therefore says, in this
order: every section in any list is one that was on air, under the ids of its own
sub-table (`AllFromAir`); a list that no other sub-table can have filled holds one
generation in one layout (`ListHeld`), where a new parser is safe from all other
sub-tables because table id and extension are unique on one frequency, and a kept one
only from those whose key is different (`Mine`); a cache entry was on air, has its
generation's version and is whole where that is promised (`EntryInv`); and a kept
parser has delivered exactly what its complete list holds (`GivenInv`).

Wholeness of an EIT needs more, since its completeness rule does not look at the
numbers. `EitCycle` relates the list to the broadcaster's position: of the sections on
air, those sent between the first one in the list and the one to be sent next are in
the list, whatever the gaps (`Passed`). When the first one comes round again, these are
all of them (`CycleStep`). This is the argument that the comment at `TSectionList.cpp:503`
makes, with what it takes for granted: no loss, no other version between, and a parser
that has not been elsewhere.

`DeliveredIsKnown` is about the test in `Process...EventCache` that leaves an entry of
equal version alone. With fewer than 32 generations a version means one generation
(`VersionsTell`), a generation on air one layout (`OneShape`), and one generation in one
layout is one table (`OneTable`), so that entry and delivery are equal. For an EIT in a
kept parser they need not be whole, and the case is excluded otherwise: what is in the
cache was delivered, and what is delivered now is newer (`GivenLess`). The same lemma
is `KeptParserRefillsNewOnly`. TLC has checked `FeedInv` on the instance of `cache_feed`
before it was proved.

**EIT loop.** For every content that meets `TablesAssumption`. `ScanInv`: as long as the
loop runs, none of the sections passed is the last one, and the inner loop stops
in front of it, so that the `++it` that closes the outer loop does not step over it.

**Scan thread.** For every set of transport streams, services, frequencies, timeouts
and bounds that meets `ScanAssumption`. `ScanInv` has four parts: the types of all
variables and locals; at which labels the thread is at a transport stream or at the
barker (`PlaceInv`); that tables found stay in the caches as long as the thread is
looking, for only the thread itself clears them (`CheckInv`); and that the status
fits the kind of scan, with a report that is empty until the home stream is done
(`StateInv`). `AcquiredIsCached` needs two more: the flags set for the stream the thread is
at speak of tables still cached, and so do those in the report (`SearchInv`,
`AcquiredInv`). It says nothing of a flag that was not set, see `scan_missing`.

`ReceivedIsAcquired` is about a completed scan, and therefore about everything the thread
has done since it tuned. Its assumption `GoodReception`, which the constants of
`scan_reception` meet, is that the tables sent on a frequency arrive before the thread
gives up, that a frequency carries the SDT and the EITs of its transport streams, and
that the barker frequency, if there is one, carries all schedules and is none of theirs.
What has to be shown is that the thread only looks for what comes: `SoughtInv` relates the
tables looked for at each place to the frequency tuned to, which nobody but the thread
changes (`TargetKept`), though a request may come at any moment and the tuner may lose its
lock. So every lookup succeeds (`OutcomeInv`), the entries added to the report are
complete (`AllListed`), and a fast scan, which looks for less, never says completed.

**Removing an old version.** For every content of the database, tables missing
included, and every table received: `DropService`, `DropSdt`, `DropBat`, `DropEit` and
`DropEvent` are one commit or none, and no foreign key that held before is broken
afterwards. A `DELETE` breaks only the keys that refer to its table (`DeleteWithin`); a
`Prune` mends the one it is about and breaks those that refer to the table it prunes
(`PruneWithin`); `OnTheWay` keeps the set of keys broken so far, and at the commit it
is empty, because the code prunes parents before children. A `Prune` whose parent
table is missing does nothing and would mend nothing: in `DropBat` this can only
happen when there were no rows to prune.

**The database.** For every set of sub-tables, versions and contents that meets
`ContentsAssumption`: the loops of a table are sequences, and a sub-table is broadcast
under its version; and `DistinctAssumption`: no two sub-tables have the same ids and no two
services of an SDT the same service id, which is how DVB tells them apart. Of a database, `DbInv` says that its tables are those of the
schema, its row ids are bounded and its unique indexes hold, that the foreign keys
hold (`Kept`: all but `EventItem`'s and the bouquet's in `Transport`, of which findings above tell), that each row of
`Transport` has the columns by which it is joined and updated, that a network has a
NIT, that `Eit` has one row for each event, that a
transport stream has one row in `NitTransport` and one in `Transport`, that no BAT is
stored before the NIT of the preferred network, and that each row is filed under what it
was sent with (`IsFiled`). None of this could be left out. Without bounded row ids there is no last row for
`FindPrimaryKey` to return, and no new id. `Network` has a unique index, so that the
`INSERT OR IGNORE` of `ProcessNetwork` may do nothing and return the row id of another
table, under which the transport streams would be filed: it does not, because
`ProcessNetwork` runs for a NIT that is not stored, and a network in the database has
one that is. `Eit` has no unique index, so what is left of it must come from the query
before the `INSERT`. `DropTables` drops one table after the other, each on the disk at
once; no key is broken on the way, because the list begins with the tables that
refer to others (`DropOrder`).

A handler is followed through its statements. `SInv` says that a session is outside
of a transaction, that its database satisfies `DbInv`, and so does everything that was
on the disk meanwhile: a crash may pick any of it, and the next process begins with it.
Between a row's insertion and its last use other statements run; `Touches` says which
tables they may have changed, so that the row is still where it was. `RoundsKeep` is
the induction over the rounds of a loop, from the lemma `RunIs` of `Loop`. TLC has checked `DbInv` of the
current database and of all on the disk, on the instance of `database`, before it was
proved.

`DescriptorsBelongEver` and `TsListIsNitEver` follow from `IsFiled`, which says what a row of
five tables has to do with the row it refers to and with the broadcast: a descriptor of a
NIT, a BAT or a service of an SDT was sent in that version of that table; a service is
named as some version of its SDT has it; a transport stream is listed by the version of the NIT that
is stored, with its frequency. It has to be an invariant of every commit, because row ids
are used again: a descriptor left behind for a moment would be filed under the next
version. A handler may insert below a row that it has found (`FindPrimaryKey`) and not
inserted only because that row has the version at hand, and the rows in between
stay as they are (`FilingFrame`). The frequency of a transport stream in `Transport` is
safe because the `INSERT` for one that `NitTransport` knows is never reached
(`OneTransport`), and because a new version of a NIT takes all rows away.

`BouquetsAreCurrentEver` relates the database to what the process has heard, so that it is
not about single commits but about whole handlers: a BAT handler that ends without a
failure leaves its bouquet in the version at hand (`BatIsCurrent`), no handler touches the
rows of another bouquet in `Bat` (`OthersStay`) but for a new NIT, which takes them all, and
a process that starts has heard nothing. A handler fails only where a table is missing,
and then the property asks nothing; it takes a NIT to complete the database again, and
that leaves `Bat` empty. The one return that stores nothing, for a preferred network that
is not there, finds no row of an old version, because no BAT is stored before that
network.

Only model-checked: all liveness and with it the fair halves of the refinements,
which TLAPS cannot prove, nor ENABLED; `TableIsSent`, `DescriptorsAreRead` and the calendar
in `TimesAreRead`, whose readers are recursive over the bytes: a proof would have to say
what each prefix of a payload yields; and, of the database, `ServicesAreCurrent`,
`SdtAndServiceAgree`, `TsListIsWhole` and `EventsHaveTheirTitles`. These four say that a
handler has done all of its work: they hold for one crash or for none, and their invariants
would have to follow several tables through the middle of a loop. Of `ParserAndStorage` this
leaves `RefilledByNewParser`.

## 5. What is not modelled

* Reads past the end of a buffer of 3 to 7 bytes, of a payload shorter than its
  header or of a descriptor shorter than its class expects: what is there is not a
  state of the program. No CRC is checked by the code.
* Text decoding (`DecodeText`: tables of characters), `mktime` and time zones, the BCD
  getters that return raw fields, `FindMpegDescriptor`, `TUdtTable`, of which nothing
  is read.
* The builds with `DVB_SECTION_OUTPUT`; observers that change
  the observer list from within a callback.
* The copy made by `GetScanStatus` while the scan thread writes: a data race inside
  a library's vector.
* `HandleTotEvent`: it sets the clock of the machine and keeps nothing.
* `DbMutex` and `UpdateList`. `PerformUpdate` locks the mutex it holds, and tries
  scheduled updates again, but only when the list is not empty. Its one writer is
  `ProcessBouquet`, for an `UPDATE` that modifies no row, and it has found the row just
  before: with one thread that calls the handlers and no I/O errors the list stays
  empty. Transactions begun without the mutex matter only with several such threads.
  Who calls from which thread is up to the application, which is not in the
  repository.
* Functions without a caller: scan settings, `FindDescriptor`, `DumpUpdate`,
  `ClearUpdate`, the audits. I/O errors. Several networks in one database.
* The profiles (one file, read and written on request) and logging.

## 6. Plan

1. `SectionList`, `SectionParser`, `TableFeed`, `Broadcast`, `Carousel`, `EitScan`, with
   proofs: done.
2. `ScanReport`, `SiStorageScan`, with proofs: done.
3. `DvbDb`, `SiStorageDb` with the queries, `ParserAndStorage`: done. To come: a second
   network, whose tables a new version of the first one's NIT drops as well.
4. `DvbTime`, `Descriptors`, `TableCoding`, `TableContent`: done. The raw getters are left.
5. The database is sound, at every commit, and so are the caches; descriptors, bouquets and
   transport streams are the ones that were sent; what a scan reports with good reception:
   done. Proofs to come: `TsListIsWhole`, `SdtAndServiceAgree` and `ServicesAreCurrent`.
