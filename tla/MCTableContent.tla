--------------------------- MODULE MCTableContent ---------------------------
(***************************************************************************)
(* Contents for TLC: one or more descriptors of every class that has a     *)
(* reader, with texts of no byte and of some; loops of none to two, and of *)
(* more than 255 bytes; tables over one and two sections; lists of EIT     *)
(* sections with gaps, and of all but one section of a network, with up to *)
(* 256 of them; and a time table for every day of the calendar.            *)
(***************************************************************************)
EXTENDS TableContent

Texts == {<< >>, <<65>>, <<0, 255>>}
English == <<101, 110, 103>>

Of(tag, values) == {[tag |-> tag, value |-> v] : v \in values}
\* Sequences of at most two elements.
UpToTwo(S) == {<< >>} \union {<<x>> : x \in S} \union {<<x, y>> : x, y \in S}

LanguageTexts == UpToTwo([language: {English}, text: Texts])

NetworkDescriptors ==
  Of(64, {[name |-> t] : t \in Texts})
    \union Of(65, UpToTwo([service: {1, 258, 65535}, type: {25}]))
    \union Of(68, [frequency: {100, 474000000, 123456700},
                   fecOuter: {2}, modulation: {5},
                   symbolRate: {6900000, 999999900}, fecInner: {15, 3}])
    \union Of(91, LanguageTexts)
    \union Of(156, UpToTwo([service: {258}, visible: BOOLEAN,
                            number: {0, 255, 256, 1023}]))

ServiceDescriptors ==
  Of(72, [type: {1, 25}, provider: Texts, name: Texts])
    \union Of(93, UpToTwo([language: {English}, provider: Texts,
                           name: {<< >>, <<66>>}]))

EventDescriptors ==
  Of(77, [language: {English}, name: Texts, text: Texts])
    \union Of(78, [number: {0, 2}, last: {15}, language: {English},
                   items: UpToTwo([description: {<< >>, <<66>>}, item: Texts]),
                   text: {<< >>, <<67>>}])
    \union Of(80, [content: {1, 15}, type: {3}, component: {255},
                   language: {English}, text: Texts])
    \union Of(84, UpToTwo([level1: {0, 15}, level2: {1}, user: {0, 255}]))
    \union Of(85, UpToTwo([country: {English}, rating: {0, 18}]))
    \union Of(94, [component: {7}, items: LanguageTexts])

TimeDescriptors ==
  Of(88, UpToTwo([country: {English}, region: {0, 63}, polarity: {0, 1},
                  offset: {256}, change: {<<1, 2, 3, 4, 5>>}, next: {512}]))

\* Loops with each descriptor alone, behind an empty one and in front of one,
\* and a loop longer than a byte can count.
Empty == [tag |-> 64, value |-> [name |-> << >>]]
Long == [tag |-> 64, value |-> [name |-> [i \in 1..250 |-> i]]]

Loops(ds) ==
  {<< >>, <<Empty>>, <<Long, Long>>}
    \union {<<d>> : d \in ds} \union {<<Empty, d>> : d \in ds}
    \union {<<d, Empty>> : d \in ds}
FewLoops == {<< >>, <<Empty>>, <<Long, Long, Empty>>}

-----------------------------------------------------------------------------
Party == TimeOn([year |-> 1999, month |-> 12, day |-> 31])

Sections(own, entries) ==
  [Number: {0}, SegLast: {0}, descriptors: own, entries: entries]

\* One section with any loop in one place, or two sections of up to two
\* entries with a few loops everywhere.
OneSection(ids, header, own, entries) ==
  {[TableId |-> id, Last |-> 0, header |-> header, time |-> Party,
    sections |-> <<s>>] :
     id \in ids, s \in Sections(own, entries)}

TwoSections(ids, header, own, entries) ==
  {[TableId |-> id, Last |-> 1, header |-> header, time |-> Party,
    sections |-> <<s, [s2 EXCEPT !.Number = 1]>>] :
     id \in ids, s, s2 \in Sections(own, entries)}

Transports(loops) ==
  [id: {258}, network: {65535}, descriptors: loops]

NetworkIds == {64, 65, 74}

Networks ==
  OneSection(NetworkIds, << >>, Loops(NetworkDescriptors),
             {<< >>, <<[id |-> 1, network |-> 2, descriptors |-> << >>]>>})
    \union OneSection({64}, << >>, {<< >>},
                      {<<t>> : t \in Transports(Loops(NetworkDescriptors))})
    \union TwoSections({65, 74}, << >>, FewLoops, UpToTwo(Transports(FewLoops)))

ServiceEntries(flags, loops) ==
  [id: {258}, schedule: flags, present: flags, running: {5},
   scrambled: flags, descriptors: loops]

ServiceTables ==
  OneSection({66, 70}, <<65535>>, {<< >>},
             {<<s>> : s \in ServiceEntries({FALSE}, Loops(ServiceDescriptors))})
    \union TwoSections({66, 70}, <<256>>, {<< >>},
                       {<< >>} \union {<<s>> : s \in ServiceEntries(BOOLEAN, FewLoops)})

EventEntries(ids, seconds, status, loops) ==
  [id: ids, start: {Party}, nvod: BOOLEAN, duration: seconds, running: status,
   scrambled: BOOLEAN, descriptors: loops]

EventTables ==
  OneSection({78, 111}, <<1, 258, 79>>, {<< >>},
             {<<e>> : e \in EventEntries({258}, {5400}, {4}, Loops(EventDescriptors))})
    \union OneSection({79}, <<1, 258, 79>>, {<< >>},
             UpToTwo(EventEntries({1}, {59, 60, 86399}, {0, 7}, {<<Empty>>})))

\* EITs of which some sections were received, under any segment numbers; what
\* an event is follows from the number of its section.
EventsOf(number) ==
  <<[id |-> number, start |-> Party, nvod |-> FALSE, duration |-> number,
     running |-> 1, scrambled |-> FALSE, descriptors |-> <<Empty>>]>>

SegmentedEits ==
  {[TableId |-> 80, Last |-> last, header |-> <<1, 2, 80>>, time |-> Party,
    sections |->
      [i \in DOMAIN numbers |->
         [Number |-> numbers[i], SegLast |-> segs[i], descriptors |-> << >>,
          entries |-> EventsOf(numbers[i])]]] :
     last \in {0, 1, 8, 255}, segs \in [1..4 -> {1, 8, 255}],
     numbers \in {Seqs!SetToSortSeq(S, <) : S \in SUBSET {0, 1, 8, 255} \ {{}}}}

\* Networks of which all sections were received, or all but one.
Without(gone, last) ==
  [i \in 1..(IF gone \in 0..last THEN last ELSE last + 1) |->
     IF i <= gone THEN i - 1 ELSE i]

NumberedNetworks ==
  UNION {{[TableId |-> 64, Last |-> last, header |-> << >>, time |-> Party,
           sections |->
             [i \in DOMAIN numbers |->
                [Number |-> numbers[i], SegLast |-> 0, descriptors |-> << >>,
                 entries |-> << >>]]] :
            numbers \in {Without(gone, last) : gone \in {0, 1, last, last + 1}}} :
           last \in {1, 254, 255}}

TimeTables ==
  OneSection({115}, << >>, Loops(TimeDescriptors), {<< >>})

MCYears == 1900..2038

MCTables ==
  Networks \union ServiceTables \union EventTables \union SegmentedEits
    \union NumberedNetworks \union TimeTables

=============================================================================
