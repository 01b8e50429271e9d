---------------------------- MODULE TableContent ----------------------------
(***************************************************************************)
(* From the bytes of the sections to the table that is announced: the      *)
(* builders of TSectionList, behind the completeness loop of an EIT        *)
(* (EitScan), with the descriptor and time readers that the storage then   *)
(* applies to the table.                                                   *)
(*                                                                         *)
(* A multiplexer codes the content of a table into sections (TableCoding); *)
(* what comes out must be that content.  Sections arrive whole: a buffer   *)
(* cut short, whose bytes the builders would read past its end, has no     *)
(* place here.                                                             *)
(***************************************************************************)
EXTENDS EitScan, Descriptors, TableCoding

CONSTANTS
  Tables,        \* the contents that are sent
  Years          \* the years on whose days a TDT is sent

Seqs == INSTANCE SequencesExt

\* A list is built once it is not empty; some sections may be missing.
ASSUME TablesAssumption ==
  \A t \in Tables :
    /\ t.Last \in Nat
    /\ t.sections \in Seq({t.sections[i] : i \in DOMAIN t.sections}) \ {<< >>}
    /\ \A i \in DOMAIN t.sections : t.sections[i].Number \in Nat

VARIABLES
  sent,          \* the content that was coded into the list
  table          \* the table built from it, or Unbuilt

contentVars == <<scanVars, sent, table>>

\* The parts one behind the other.
Joined(parts) == Seqs!FlattenSeq(SelectSeq(parts, LAMBDA part : part # << >>))

Unbuilt == [header |-> << >>, descriptors |-> << >>, entries |-> << >>]

-----------------------------------------------------------------------------
(***************************************************************************)
(* The builders, in terms of the list of sections.  An empty payload is    *)
(* skipped.  Each loop over a section is a function of the position.  A    *)
(* table has a header, descriptors of its own (the network's, the          *)
(* bouquet's or a TOT's) and entries: transport streams, services, events. *)
(***************************************************************************)
\* What every section contributes, in the order of the list.
FromSections(list, Read(_)) ==
  Joined([i \in DOMAIN list |->
    IF list[i].Payload = << >> THEN << >> ELSE Read(list[i].Payload)])

\* The loop over transport streams of BuildNit and BuildBat.
TransportStreams(b) ==
  LET start == Length12(b, 0) + 2
      loopEnd == start + 2 + Length12(b, start)
      From[p \in Nat] ==
        IF p + 6 > loopEnd THEN << >>
        ELSE <<[id |-> Word16(b, p), network |-> Word16(b, p + 2),
                descriptors |-> ParseMpegDescriptors(b, p + 6, Length12(b, p + 4))]>>
             \o From[p + 6 + Length12(b, p + 4)]
  IN From[start + 2]

BuildNit(list) ==
  [header      |-> << >>,
   descriptors |-> FromSections(list, LAMBDA b :
                     ParseMpegDescriptors(b, 2, Length12(b, 0))),
   entries     |-> FromSections(list, TransportStreams)]

\* The loop stops at a service whose descriptors do not fit.
Services(b) ==
  LET From[p \in Nat] ==
        IF p + 4 >= Len(b) THEN << >>
        ELSE LET length == Length12(b, p + 3)
             IN IF p + 5 + length > Len(b) THEN << >>
                ELSE <<[id |-> Word16(b, p),
                        schedule |-> (At(b, p + 2) \div 2) % 2 = 1,
                        present |-> At(b, p + 2) % 2 = 1,
                        running |-> At(b, p + 3) \div 32,
                        scrambled |-> (At(b, p + 3) \div 16) % 2 = 1,
                        descriptors |-> ParseMpegDescriptors(b, p + 5, length)]>>
                     \o From[p + 5 + length]
  IN From[3]

BuildSdt(list) ==
  [header      |-> <<Word16(list[1].Payload, 0)>>,
   descriptors |-> << >>,
   entries     |-> FromSections(list, Services)]

\* scrambled is what the code computes: not bit 3 of the byte, which is the
\* top bit of the length, where free_CA_mode is bit 4.
Events(b) ==
  LET From[p \in Nat] ==
        IF p + 12 >= Len(b) THEN << >>
        ELSE <<[id |-> Word16(b, p), start |-> Bytes(b, p + 2, 5),
                duration |-> Bytes(b, p + 7, 3),
                running |-> At(b, p + 10) \div 32,
                scrambled |-> (At(b, p + 10) \div 8) % 2 = 0,
                descriptors |-> ParseMpegDescriptors(b, p + 12, Length12(b, p + 10))]>>
             \o From[p + 12 + Length12(b, p + 10)]
  IN From[6]

BuildEit(list) ==
  LET b == list[1].Payload
  IN [header      |-> <<Word16(b, 0), Word16(b, 2), At(b, 5)>>,
      descriptors |-> << >>,
      entries     |-> FromSections(list, Events)]

\* The first section only, and descriptors for a TOT only.
BuildTot(list) ==
  LET b == list[1].Payload
  IN [header      |-> IF Len(b) >= 5 THEN Bytes(b, 0, 5) ELSE <<0, 0, 0, 0, 0>>,
      descriptors |-> IF list[1].TableId = TSectionList!TOT
                        THEN ParseMpegDescriptors(b, 7, Length12(b, 5))
                        ELSE << >>,
      entries     |-> << >>]

IsNetwork(id) ==
  id \in {TSectionList!NIT, TSectionList!NIT_OTHER, TSectionList!BAT}
IsSdt(id) == id \in {TSectionList!SDT, TSectionList!SDT_OTHER}

Built(list) ==
  LET id == list[1].TableId
  IN IF IsNetwork(id) THEN BuildNit(list)
     ELSE IF IsSdt(id) THEN BuildSdt(list)
     ELSE IF TSectionList!IsEit(id) THEN BuildEit(list)
     ELSE BuildTot(list)

-----------------------------------------------------------------------------
(***************************************************************************)
(* A list that is coded from some content, its completeness loop if it is  *)
(* an EIT's, and the table.                                                *)
(***************************************************************************)
PayloadOf(t, section) ==
  IF IsNetwork(t.TableId) THEN NetworkPayload(section)
  ELSE IF IsSdt(t.TableId) THEN ServicePayload(t, section)
  ELSE IF TSectionList!IsEit(t.TableId) THEN EventPayload(t, section)
  ELSE IF t.TableId = TSectionList!TOT THEN TotPayload(t)
  ELSE TdtPayload(t)

SectionsOf(t) ==
  [i \in DOMAIN t.sections |->
     [TableId |-> t.TableId, Number |-> t.sections[i].Number, Last |-> t.Last,
      Payload |-> PayloadOf(t, t.sections[i])]]

\* The time of day goes round with the days, so that all its values occur.
TimeOn(date) ==
  LET n == DayNumber(date)
  IN [date |-> date, hour |-> n % 24, min |-> n % 60, sec |-> (7 * n) % 60]

Tdt(time) ==
  [TableId |-> TSectionList!TDT, Last |-> 0, header |-> << >>, time |-> time,
   sections |-> <<[Number |-> 0, SegLast |-> 0, descriptors |-> << >>,
                   entries |-> << >>]>>]

ContentInit ==
  /\ \/ sent \in Tables
     \/ \E year \in Years : \E date \in DatesOf(year) : sent = Tdt(TimeOn(date))
  /\ SiSectionList = SectionsOf(sent)
  /\ it = 1
  /\ IF TSectionList!IsEit(sent.TableId)
       THEN pc = "outer" /\ complete = FALSE
       ELSE pc = "done" /\ complete = TSectionList!NonEitComplete(SiSectionList)
  /\ table = Unbuilt

ScanStep == Scan /\ UNCHANGED <<sent, table>>

\* BuildTable, once the list is complete.
BuildTable ==
  /\ pc = "done"
  /\ complete
  /\ pc' = "built"
  /\ table' = Built(SiSectionList)
  /\ UNCHANGED <<SiSectionList, it, complete, sent>>

ContentNext == ScanStep \/ BuildTable

ContentSpec ==
  ContentInit /\ [][ContentNext]_contentVars /\ WF_contentVars(ScanStep)

-----------------------------------------------------------------------------
SentEntries ==
  Joined([i \in DOMAIN sent.sections |-> sent.sections[i].entries])

SentDescriptors ==
  Joined([i \in DOMAIN sent.sections |-> sent.sections[i].descriptors])

CodedDescriptors(ds) == [i \in DOMAIN ds |-> CodedDescriptor(ds[i])]

IsTime(id) == id \in {TSectionList!TDT, TSectionList!TOT}

\* TimesAreRead is about the times of events; about their scrambled flag no
\* property holds.
Comparable(e) ==
  IF "duration" \in DOMAIN e
    THEN [id |-> e.id, running |-> e.running, descriptors |-> e.descriptors]
    ELSE e

\* Any other table is complete if and only if no section is missing, even
\* one of 256 sections, with which the byte that counts them runs over.
CompleteIsWhole ==
  ~ TSectionList!IsEit(sent.TableId) =>
    (complete <=> {sent.sections[i].Number : i \in DOMAIN sent.sections} = 0..sent.Last)

\* The table holds the entries of all sections in the order of the section
\* numbers, each with its fields and its descriptors, no matter how they are
\* spread over the sections and how long they are, and nothing else: neither
\* a header, a length nor the checksum is taken for an entry.
TableIsSent ==
  pc = "built" =>
    /\ ~ IsTime(sent.TableId) => table.header = sent.header
    /\ table.descriptors = CodedDescriptors(SentDescriptors)
    /\ Len(table.entries) = Len(SentEntries)
    /\ \A i \in DOMAIN table.entries :
         Comparable(table.entries[i]) =
           Comparable([SentEntries[i] EXCEPT !.descriptors = CodedDescriptors(@)])

AllDescriptors(own, entries) ==
  own \o Joined([i \in DOMAIN entries |-> entries[i].descriptors])

\* Whoever reads a descriptor of the table gets the items and texts that were
\* sent, those of length zero and those behind them included.
DescriptorsAreRead ==
  pc = "built" =>
    LET read == AllDescriptors(table.descriptors, table.entries)
        said == AllDescriptors(SentDescriptors, SentEntries)
    IN \A i \in DOMAIN read : ReadDescriptor(read[i]) = said[i].value

\* Dates are the calendar's on every day the 16 bits can hold, leap years and
\* the ends of centuries included; times and durations are those sent; and an
\* event passes for near video on demand if and only if it is not running and
\* has no start time.
TimesAreRead ==
  pc = "built" =>
    /\ IsTime(sent.TableId) => MjdToDate(table.header) = sent.time
    /\ \A i \in DOMAIN table.entries :
         "duration" \in DOMAIN table.entries[i] =>
           LET e == table.entries[i]
               s == SentEntries[i]
           IN /\ GetDuration(e.duration) = s.duration
              /\ ~ s.nvod => MjdToDate(e.start) = s.start
              /\ IsNvod(e.start, e.running) = (s.nvod /\ s.running = 0)

=============================================================================
