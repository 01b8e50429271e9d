---------------------------- MODULE TableCoding -----------------------------
(***************************************************************************)
(* How a multiplexer codes the tables the parser builds, after the layouts *)
(* of the DVB service information standard: what the builders and readers  *)
(* are compared with.  Nothing here is the repository's.                   *)
(***************************************************************************)
EXTENDS DvbTime

LOCAL INSTANCE SequencesExt

\* Applies Code to every element and joins the results.
Coded(seq, Code(_)) == FlattenSeq([i \in DOMAIN seq |-> Code(seq[i])])

Bytes16(n) == <<n \div 256, n % 256>>
Bcd16(n) == <<Bcd(n \div 100), Bcd(n % 100)>>

\* A 12-bit length below upper bits that are somebody else's.
WithLength(upper, bytes) ==
  <<16 * upper + (Len(bytes) \div 256), Len(bytes) % 256>> \o bytes

\* A text behind its length.
Counted(text) == <<Len(text)>> \o text

Crc == <<218, 177, 66, 255>>

-----------------------------------------------------------------------------
LanguageItem(i) == i.language \o Counted(i.text)

\* The body of a descriptor: v is what its getters should return.
DescriptorBody(tag, v) ==
  CASE tag = 64  -> v.name
    [] tag = 65  -> Coded(v, LAMBDA s : Bytes16(s.service) \o <<s.type>>)
    [] tag = 68  ->
         Bcd16(v.frequency \div 1000000) \o Bcd16((v.frequency \div 100) % 10000)
           \o <<255, 240 + v.fecOuter, v.modulation>>
           \o Bcd16(v.symbolRate \div 100000)
           \o <<Bcd((v.symbolRate \div 1000) % 100),
                16 * ((v.symbolRate \div 100) % 10) + v.fecInner>>
    [] tag = 72  -> <<v.type>> \o Counted(v.provider) \o Counted(v.name)
    [] tag = 77  -> v.language \o Counted(v.name) \o Counted(v.text)
    [] tag = 78  ->
         <<16 * v.number + v.last>> \o v.language
           \o Counted(Coded(v.items, LAMBDA i : Counted(i.description)
                                                  \o Counted(i.item)))
           \o Counted(v.text)
    [] tag = 80  ->
         <<240 + v.content, v.type, v.component>> \o v.language \o v.text
    [] tag = 84  ->
         Coded(v, LAMBDA c : <<16 * c.level1 + c.level2, c.user>>)
    [] tag = 85  -> Coded(v, LAMBDA r : r.country \o <<r.rating>>)
    [] tag = 88  ->
         Coded(v, LAMBDA o : o.country \o <<4 * o.region + 2 + o.polarity>>
                               \o Bytes16(o.offset) \o o.change
                               \o Bytes16(o.next))
    [] tag = 91  -> Coded(v, LanguageItem)
    [] tag = 93  ->
         Coded(v, LAMBDA i : i.language \o Counted(i.provider)
                               \o Counted(i.name))
    [] tag = 94  -> <<v.component>> \o Coded(v.items, LanguageItem)
    [] tag = 156 ->
         Coded(v, LAMBDA c : Bytes16(c.service)
                     \o <<(IF c.visible THEN 252 ELSE 124) + c.number \div 256,
                          c.number % 256>>)

CodedDescriptor(d) ==
  [tag |-> d.tag, data |-> DescriptorBody(d.tag, d.value)]

DescriptorLoop(ds) ==
  Coded(ds, LAMBDA d : <<d.tag>> \o Counted(DescriptorBody(d.tag, d.value)))

-----------------------------------------------------------------------------
Flag(b) == IF b THEN 1 ELSE 0

\* running_status, free_CA_mode and the upper four bits of the length.
StatusBits(e) == 2 * e.running + Flag(e.scrambled)

\* NIT and BAT.
NetworkPayload(section) ==
  WithLength(15, DescriptorLoop(section.descriptors))
    \o WithLength(15, Coded(section.entries,
         LAMBDA t : Bytes16(t.id) \o Bytes16(t.network)
                      \o WithLength(15, DescriptorLoop(t.descriptors))))
    \o Crc

ServicePayload(table, section) ==
  Bytes16(table.header[1]) \o <<255>>
    \o Coded(section.entries,
         LAMBDA s : Bytes16(s.id)
                      \o <<252 + 2 * Flag(s.schedule) + Flag(s.present)>>
                      \o WithLength(StatusBits(s), DescriptorLoop(s.descriptors)))
    \o Crc

CodedStart(e) == IF e.nvod THEN UndefinedTime ELSE EncodeTime(e.start)

EventPayload(table, section) ==
  Bytes16(table.header[1]) \o Bytes16(table.header[2])
    \o <<section.SegLast, table.header[3]>>
    \o Coded(section.entries,
         LAMBDA e : Bytes16(e.id) \o CodedStart(e)
                      \o EncodeDuration(e.duration)
                      \o WithLength(StatusBits(e), DescriptorLoop(e.descriptors)))
    \o Crc

TdtPayload(table) == EncodeTime(table.time)

TotPayload(table) ==
  EncodeTime(table.time)
    \o WithLength(15, DescriptorLoop(table.sections[1].descriptors))
    \o Crc

=============================================================================
