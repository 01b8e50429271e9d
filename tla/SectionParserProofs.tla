------------------------- MODULE SectionParserProofs ------------------------
(***************************************************************************)
(* The section list and the parser's invariants and what it announces, for *)
(* every set of sections, of observers and of leftovers of short reads.    *)
(***************************************************************************)
EXTENDS SectionParser, WellFoundedInduction, TLAPS

-----------------------------------------------------------------------------
(***************************************************************************)
(* The section list of one sub-table, for every list and every section:    *)
(* what InsertSectionIntoList and AddSiSection return and keep.            *)
(***************************************************************************)
\* A non-empty set of natural numbers has a least element.
LEMMA LeastNat ==
  ASSUME NEW T \in SUBSET Nat, T # {}
  PROVE  \E m \in T : \A k \in T : m <= k
<1>1. \E m \in T : \A k \in T : ~ (<<k, m>> \in OpToRel(<, Nat))
  BY NatLessThanWellFounded, WFMin
<1>2. ASSUME NEW m \in T, NEW k \in T, ~ (<<k, m>> \in OpToRel(<, Nat))
      PROVE  m <= k
  BY <1>2 DEF OpToRel
<1>3. QED
  BY <1>1, <1>2

\* The numbers in a section are bytes.
LEMMA SectionNumbers ==
  ASSUME NEW s \in Section
  PROVE  s.Number \in Nat /\ s.Number <= 255 /\ s.Last \in Nat
BY DEF Section, Byte

\* So are those of the sections of a list.
LEMMA ListNumbers ==
  ASSUME NEW secs \in Seq(Section), NEW i \in 1..Len(secs)
  PROVE  /\ secs[i] \in Section
         /\ secs[i].Number \in Nat /\ secs[i].Number <= 255
         /\ secs[i].Last \in Nat
<1>1. secs[i] \in Section
  OBVIOUS
<1>2. QED
  BY <1>1, SectionNumbers

\* The loop of InsertSectionIntoList stops at the first section whose number
\* is not smaller than the new one, or at the end.
LEMMA InsertPositionExists ==
  ASSUME NEW secs \in Seq(Section), NEW s \in Section
  PROVE  LET k == InsertPosition(secs, s)
         IN /\ k \in 1..(Len(secs) + 1)
            /\ \A i \in 1..(k - 1) : secs[i].Number < s.Number
            /\ k <= Len(secs) => secs[k].Number >= s.Number
<1> DEFINE T == {k \in Nat : 1 <= k /\ (k <= Len(secs) => secs[k].Number >= s.Number)}
<1>1. Len(secs) + 1 \in T
  OBVIOUS
<1>2. PICK m \in T : \A k \in T : m <= k
  BY <1>1, LeastNat
<1>3. m \in 1..(Len(secs) + 1)
  BY <1>1, <1>2
<1>4. ASSUME NEW i \in 1..(m - 1)
      PROVE  secs[i].Number < s.Number
  <2>1. i \notin T /\ i \in Nat /\ 1 <= i /\ i <= Len(secs)
    BY <1>2, <1>3
  <2>2. ~ (secs[i].Number >= s.Number)
    BY <2>1
  <2>3. secs[i].Number \in Nat /\ s.Number \in Nat
    BY <2>1, SectionNumbers, ListNumbers
  <2>4. QED
    BY <2>2, <2>3
<1>5. \E k \in 1..(Len(secs) + 1) :
        /\ \A i \in 1..(k - 1) : secs[i].Number < s.Number
        /\ k <= Len(secs) => secs[k].Number >= s.Number
  BY <1>2, <1>3, <1>4
<1>6. QED
  BY <1>5 DEF InsertPosition

\* InsertSectionIntoList keeps the sections it finds, adds at most the new
\* one, leaves its number in the list and keeps the order.
LEMMA InsertSection ==
  ASSUME NEW secs \in Seq(Section), NEW s \in Section, Ordered(secs)
  PROVE  LET new == InsertSectionIntoList(secs, s)
         IN /\ new \in Seq(Section)
            /\ \A i \in DOMAIN new : new[i] = s \/ \E j \in DOMAIN secs : new[i] = secs[j]
            /\ \A j \in DOMAIN secs : \E i \in DOMAIN new : new[i] = secs[j]
            /\ \E i \in DOMAIN new : new[i].Number = s.Number
            /\ Ordered(new)
<1> DEFINE k == InsertPosition(secs, s)
           new == InsertSectionIntoList(secs, s)
<1>1. /\ k \in 1..(Len(secs) + 1)
      /\ \A i \in 1..(k - 1) : secs[i].Number < s.Number
      /\ k <= Len(secs) => secs[k].Number >= s.Number
  BY InsertPositionExists
<1>2. /\ s.Number \in Nat
      /\ \A i \in 1..Len(secs) : secs[i] \in Section /\ secs[i].Number \in Nat
  BY SectionNumbers, ListNumbers
<1>3. CASE k <= Len(secs) /\ secs[k].Number = s.Number
  <2>1. new = secs
    BY <1>3 DEF InsertSectionIntoList
  <2>2. k \in DOMAIN secs
    BY <1>1, <1>3
  <2>3. QED
    BY <1>3, <2>1, <2>2
<1>4. CASE ~ (k <= Len(secs) /\ secs[k].Number = s.Number)
  <2> HIDE DEF k
  <2>1. new = InsertAt(secs, k, s)
    BY <1>4 DEF InsertSectionIntoList, k
  <2> HIDE DEF new
  <2>2. /\ new \in Seq(Section)
        /\ Len(new) = Len(secs) + 1
        /\ DOMAIN new = 1..(Len(secs) + 1)
    BY <1>1, <1>2, <2>1 DEF InsertAt
  <2>3. /\ \A i \in 1..(k - 1) : new[i] = secs[i]
        /\ new[k] = s
        /\ \A i \in (k + 1)..(Len(secs) + 1) : new[i] = secs[i - 1]
    BY <1>1, <2>1 DEF InsertAt
  <2>4. \A i \in DOMAIN new : new[i] = s \/ \E j \in DOMAIN secs : new[i] = secs[j]
    <3> SUFFICES ASSUME NEW i \in 1..(Len(secs) + 1)
                 PROVE  new[i] = s \/ \E j \in DOMAIN secs : new[i] = secs[j]
      BY <2>2
    <3>1. CASE i < k
      BY <3>1, <1>1, <2>3
    <3>2. CASE i = k
      BY <3>2, <2>3
    <3>3. CASE i > k
      <4>1. i - 1 \in DOMAIN secs /\ new[i] = secs[i - 1]
        BY <3>3, <1>1, <2>3
      <4>2. QED
        BY <4>1
    <3>4. QED
      BY <3>1, <3>2, <3>3, <1>1
  <2>5. \A j \in DOMAIN secs : \E i \in DOMAIN new : new[i] = secs[j]
    <3> SUFFICES ASSUME NEW j \in 1..Len(secs)
                 PROVE  \E i \in DOMAIN new : new[i] = secs[j]
      OBVIOUS
    <3>1. CASE j < k
      BY <3>1, <1>1, <2>2, <2>3
    <3>2. CASE j >= k
      <4>1. /\ j + 1 \in DOMAIN new
            /\ j + 1 \in (k + 1)..(Len(secs) + 1)
            /\ (j + 1) - 1 = j
        BY <3>2, <1>1, <2>2
      <4>2. new[j + 1] = secs[j]
        BY <4>1, <2>3
      <4>3. QED
        BY <4>1, <4>2
    <3>3. QED
      BY <3>1, <3>2, <1>1
  <2>6. \E i \in DOMAIN new : new[i].Number = s.Number
    BY <1>1, <2>2, <2>3
  <2>7. \A i \in k..Len(secs) : s.Number < secs[i].Number
    <3> SUFFICES ASSUME NEW i \in k..Len(secs)
                 PROVE  s.Number < secs[i].Number
      OBVIOUS
    <3>1. k \in DOMAIN secs /\ i \in DOMAIN secs /\ s.Number < secs[k].Number
      BY <1>1, <1>2, <1>4
    <3>2. k < i => secs[k].Number < secs[i].Number
      BY <3>1 DEF Ordered
    <3>3. QED
      BY <3>1, <3>2, <1>2
  <2>8. Ordered(new)
    <3> SUFFICES ASSUME NEW i \in 1..(Len(secs) + 1), NEW j \in 1..(Len(secs) + 1), i < j
                 PROVE  new[i].Number < new[j].Number
      BY <2>2 DEF Ordered
    <3>1. CASE j < k
      <4>1. /\ i \in 1..(k - 1) /\ j \in 1..(k - 1)
            /\ i \in 1..Len(secs) /\ j \in 1..Len(secs)
        BY <3>1, <1>1
      <4>2. new[i] = secs[i] /\ new[j] = secs[j]
        BY <4>1, <2>3
      <4>3. DOMAIN secs = 1..Len(secs)
        OBVIOUS
      <4>4. QED
        BY <4>1, <4>2, <4>3 DEF Ordered
    <3>2. CASE j = k
      <4>1. i \in 1..(k - 1)
        BY <3>2, <1>1
      <4>2. QED
        BY <3>2, <4>1, <1>1, <2>3
    <3>3. CASE j > k /\ i = k
      <4>1. j \in (k + 1)..(Len(secs) + 1) /\ j - 1 \in k..Len(secs)
        BY <3>3, <1>1
      <4>2. new[i] = s /\ new[j] = secs[j - 1] /\ s.Number < secs[j - 1].Number
        BY <3>3, <4>1, <2>3, <2>7
      <4>3. QED
        BY <4>2
    <3>4. CASE j > k /\ i < k
      <4>1. /\ i \in 1..(k - 1) /\ i \in 1..Len(secs)
            /\ j \in (k + 1)..(Len(secs) + 1) /\ j - 1 \in k..Len(secs) /\ j - 1 \in 1..Len(secs)
        BY <3>4, <1>1
      <4>2. new[i] = secs[i] /\ secs[i].Number < s.Number
        BY <4>1, <1>1, <2>3
      <4>3. new[j] = secs[j - 1] /\ s.Number < secs[j - 1].Number
        BY <4>1, <2>3, <2>7
      <4>4. QED
        BY <4>1, <4>2, <4>3, <1>2
    <3>5. CASE i > k
      <4>1. /\ i \in (k + 1)..(Len(secs) + 1) /\ j \in (k + 1)..(Len(secs) + 1)
            /\ i - 1 \in 1..Len(secs) /\ j - 1 \in 1..Len(secs) /\ i - 1 < j - 1
        BY <3>5, <1>1
      <4>2. new[i] = secs[i - 1] /\ new[j] = secs[j - 1]
        BY <4>1, <2>3
      <4>3. DOMAIN secs = 1..Len(secs)
        OBVIOUS
      <4>4. QED
        BY <4>1, <4>2, <4>3 DEF Ordered
    <3>6. QED
      BY <3>1, <3>2, <3>3, <3>4, <3>5, <1>1
  <2>9. QED
    BY <2>2, <2>4, <2>5, <2>6, <2>8 DEF new
<1>5. QED
  BY <1>3, <1>4

-----------------------------------------------------------------------------
(***************************************************************************)
(* The invariant of a list stored under key k = <<table id, extension>>.   *)
(***************************************************************************)
Keyed(l, k) ==
  l.Sections # << >> => Front(l).TableId = k[1] /\ Front(l).Ext = k[2]

ListInv(l, k) ==
  /\ l \in List
  /\ Coherent(l)
  /\ Ordered(l.Sections)
  /\ l.Sections # << >> => Contains(l, l.First)
  /\ Whole(l)
  /\ Keyed(l, k)

\* An empty list satisfies it.
LEMMA NewListInv ==
  ASSUME NEW k
  PROVE  ListInv(NewList, k)
BY DEF ListInv, NewList, List, Coherent, Ordered, Contains, Whole, Keyed, Byte

\* The loop counter of IsSectionListComplete is a byte.
LEMMA ByteCounter ==
  /\ \A n \in Nat : n <= 255 => n % 256 = n
  /\ 256 % 256 = 0
OBVIOUS

\* A list started again from one section satisfies it.
LEMMA InitializeInv ==
  ASSUME NEW s \in Section
  PROVE  ListInv(InitializeSectionList(s), <<s.TableId, s.Ext>>)
<1> DEFINE l == InitializeSectionList(s)
<1>1. /\ l.Sections = <<s>>
      /\ l.First = s.Number
      /\ l.IsComplete => ~ IsEit(s.TableId) /\ IsSectionListComplete(<<s>>, s.Number, s)
  BY DEF InitializeSectionList
<1>2. l \in List
  <2>1. <<s>> \in Seq(Section) /\ s.Number \in Byte
    BY DEF Section
  <2>2. (~ IsEit(s.TableId) /\ IsSectionListComplete(<<s>>, s.Number, s)) \in BOOLEAN
    OBVIOUS
  <2>3. QED
    BY <2>1, <2>2 DEF InitializeSectionList, List
<1> HIDE DEF l
<1>3. Whole(l)
  <2> SUFFICES ASSUME l.IsComplete, s.SSI
               PROVE  /\ \A i \in DOMAIN <<s>> : <<s>>[i].Number = i - 1
                      /\ s.Last < Len(<<s>>)
    <3>1. /\ <<s>> # << >>
          /\ Front(l) = s
          /\ DOMAIN l.Sections = DOMAIN <<s>>
      BY <1>1 DEF Front
    <3>2. QED
      BY <1>1, <3>1 DEF Whole
  <2>1. NonEitComplete(<<s>>)
    BY <1>1 DEF IsSectionListComplete
  <2>2. s.Number = 0 /\ s.Last = s.Number
    BY <2>1 DEF NonEitComplete
  <2>3. QED
    BY <2>2
<1>4. QED
  BY <1>1, <1>2, <1>3 DEF l, ListInv, Coherent, Ordered, Contains, Keyed, Front

\* So does a list a section of the same sub-table and version is added to:
\* this is where sections are merged and completeness is decided.
LEMMA AddedToInv ==
  ASSUME NEW s \in Section, NEW l,
         ListInv(l, <<s.TableId, s.Ext>>),
         ~ StartsAgain(l, s)
  PROVE  ListInv(AddedTo(l, s), <<s.TableId, s.Ext>>)
<1> DEFINE new == AddedTo(l, s)
           secs == InsertSectionIntoList(l.Sections, s)
<1>1. l \in List /\ l.Sections \in Seq(Section) /\ l.Sections # << >> /\ Ordered(l.Sections)
  BY DEF ListInv, List, StartsAgain
<1>2. /\ secs \in Seq(Section)
      /\ \A i \in DOMAIN secs : secs[i] = s \/ \E j \in DOMAIN l.Sections : secs[i] = l.Sections[j]
      /\ \A j \in DOMAIN l.Sections : \E i \in DOMAIN secs : secs[i] = l.Sections[j]
      /\ \E i \in DOMAIN secs : secs[i].Number = s.Number
      /\ Ordered(secs)
  BY <1>1, InsertSection
<1> HIDE DEF secs
<1>3. /\ new.Sections = secs
      /\ new.First = l.First
      /\ new.IsComplete = IsSectionListComplete(secs, l.First, s)
  BY <1>1 DEF AddedTo, List, secs
<1>4. secs # << >> /\ 1 \in DOMAIN secs
  BY <1>2
<1>5. \A i \in DOMAIN secs :
        /\ secs[i].TableId = s.TableId
        /\ secs[i].Ext = s.Ext
        /\ secs[i].Version = s.Version
        /\ secs[i].Last = s.Last
  <2>1. /\ Front(l).TableId = s.TableId
        /\ Front(l).Ext = s.Ext
        /\ Front(l).Version = s.Version
        /\ Front(l).Last = s.Last
    BY <1>1 DEF ListInv, Keyed, StartsAgain, SameTable
  <2>2. QED
    BY <1>2, <2>1 DEF ListInv, Coherent
<1>6. Coherent(new) /\ Keyed(new, <<s.TableId, s.Ext>>)
  BY <1>3, <1>4, <1>5 DEF Coherent, Keyed, Front
<1>7. Contains(new, l.First)
  <2>1. PICK j \in DOMAIN l.Sections : l.Sections[j].Number = l.First
    BY <1>1 DEF ListInv, Contains
  <2>2. PICK i \in DOMAIN secs : secs[i] = l.Sections[j]
    BY <1>2
  <2>3. QED
    BY <1>3, <2>1, <2>2 DEF Contains
<1>8. new \in List
  <2>1. IsSectionListComplete(secs, l.First, s) \in BOOLEAN
    BY DEF IsSectionListComplete
  <2>2. QED
    BY <1>1, <1>2, <2>1 DEF AddedTo, List, secs
<1>9. Whole(new)
  <2> SUFFICES ASSUME new.IsComplete, secs[1].SSI
               PROVE  IF IsEit(secs[1].TableId)
                        THEN Contains(new, l.First) /\ Contains(new, secs[1].Last)
                        ELSE /\ \A i \in DOMAIN secs : secs[i].Number = i - 1
                             /\ secs[1].Last < Len(secs)
    BY <1>3, <1>4 DEF Whole, Front
  <2>1. CASE IsEit(secs[1].TableId)
    BY <1>3, <1>7, <2>1 DEF IsSectionListComplete, EitComplete, Contains
  <2>2. CASE ~ IsEit(secs[1].TableId)
    <3>1. /\ \A i \in DOMAIN secs : secs[i].Number = (i - 1) % 256
          /\ \E i \in DOMAIN secs : secs[i].Last = secs[i].Number
      BY <1>3, <2>2 DEF IsSectionListComplete, NonEitComplete
    <3>2. Len(secs) <= 256
      <4> SUFFICES ASSUME Len(secs) > 256 PROVE FALSE
        BY <1>2
      <4>1. 256 \in DOMAIN secs /\ 257 \in DOMAIN secs
        BY <1>2
      <4>2. secs[256].Number = 255 /\ secs[257].Number = 0
        <5>1. secs[256].Number = (256 - 1) % 256 /\ secs[257].Number = (257 - 1) % 256
          BY <3>1, <4>1, ZenonT(30)
        <5>2. 256 - 1 = 255 /\ 257 - 1 = 256 /\ 255 % 256 = 255
          BY ByteCounter
        <5>3. QED
          BY <5>1, <5>2, ByteCounter
      <4>3. secs[256].Number < secs[257].Number
        BY <1>2, <4>1 DEF Ordered
      <4>4. QED
        BY <4>2, <4>3
    <3>3. \A i \in DOMAIN secs : secs[i].Number = i - 1
      <4> SUFFICES ASSUME NEW i \in DOMAIN secs PROVE secs[i].Number = i - 1
        OBVIOUS
      <4>1. i - 1 \in Nat /\ i - 1 <= 255
        BY <1>2, <3>2
      <4>2. (i - 1) % 256 = i - 1
        BY <4>1, ByteCounter
      <4>3. QED
        BY <3>1, <4>2
    <3>4. PICK i \in DOMAIN secs : secs[i].Last = secs[i].Number
      BY <3>1
    <3>5. secs[1].Last = i - 1
      BY <1>4, <1>5, <3>3, <3>4
    <3>6. secs[1].Last < Len(secs)
      BY <1>2, <3>5
    <3>7. QED
      BY <2>2, <3>3, <3>6
  <2>3. QED
    BY <2>1, <2>2
<1>10. QED
  BY <1>2, <1>3, <1>6, <1>7, <1>8, <1>9 DEF ListInv

\* AddSiSection keeps the invariant of the list it is called on.
THEOREM AddSiSectionInv ==
  ASSUME NEW s \in Section, NEW l, ListInv(l, <<s.TableId, s.Ext>>)
  PROVE  ListInv(AddSiSection(l, s), <<s.TableId, s.Ext>>)
BY InitializeInv, AddedToInv DEF AddSiSection

-----------------------------------------------------------------------------
(***************************************************************************)
(* The parser.                                                             *)
(***************************************************************************)
USE SectionsAssumption

\* The inductive invariant: TypeOK alone is inductive only together with
\* the invariant of every list, since BuildTable reads the list's front.
ParserInv ==
  /\ TypeOK
  /\ \A k \in Keys : ListInv(m_sectionMap[k], k)

-----------------------------------------------------------------------------
\* A table built from a list is well-typed, and stored under the list's key.
LEMMA BuildTableType ==
  ASSUME NEW l \in List, NEW t \in BuildTable(l)
  PROVE  /\ t \in Table
         /\ l.Sections # << >>
         /\ t.TableId = Front(l).TableId /\ t.Ext = Front(l).Ext
<1>1. l.Sections # << >> /\ t = TableOf(l)
  BY DEF BuildTable
<1>2. Front(l) \in Section
  BY <1>1 DEF List, Front
<1>3. Content(l.Sections) \in Seq(Bodies)
  <2>1. l.Sections \in Seq(Section) /\ 1 \in DOMAIN l.Sections
    BY <1>1 DEF List
  <2>2. \A i \in DOMAIN l.Sections : l.Sections[i].Body \in Bodies
    <3>1. \A i \in DOMAIN l.Sections : l.Sections[i] \in Section
      BY <2>1
    <3>2. QED
      BY <3>1 DEF Section
  <2>3. QED
    BY <2>1, <2>2 DEF Content
<1>4. QED
  BY <1>1, <1>2, <1>3 DEF TableOf, Table, Section

\* The step of one section, from either of the two kinds of delivery.
LEMMA HandleSectionInv ==
  ASSUME ParserInv, NEW s \in Sections \cup Uninitialized, HandleSection(s)
  PROVE  ParserInv'
<1> DEFINE k == KeyOf(s)
           new == AddSiSection(m_sectionMap[k], s)
<1>1. s \in Section /\ k \in Keys /\ k = <<s.TableId, s.Ext>>
  BY DEF Keys, KeyOf
<1>2. ListInv(new, k)
  BY <1>1, AddSiSectionInv DEF ParserInv
<1>3. /\ m_sectionMap' = [m_sectionMap EXCEPT ![k] = new]
      /\ \/ sent' = NotifyDvbSectionParserObserver(BuildTable(new))
         \/ sent' = {}
      /\ ObserverVector' = ObserverVector
  BY DEF HandleSection
<1> HIDE DEF k, new
<1>4. new \in List
  BY <1>2 DEF ListInv
<1>5. m_sectionMap' \in [Keys -> List]
  BY <1>1, <1>3, <1>4 DEF ParserInv, TypeOK
<1>6. sent' \subseteq [to: Observers, table: Table]
  <2>1. ASSUME NEW m \in NotifyDvbSectionParserObserver(BuildTable(new))
        PROVE  m \in [to: Observers, table: Table]
    BY <1>4, BuildTableType DEF NotifyDvbSectionParserObserver, ParserInv, TypeOK
  <2>2. QED
    BY <1>3, <2>1
<1>7. \A j \in Keys : ListInv(m_sectionMap'[j], j)
  BY <1>1, <1>2, <1>3 DEF ParserInv, TypeOK
<1>8. QED
  BY <1>3, <1>5, <1>6, <1>7 DEF ParserInv, TypeOK

\* Registration changes the vector of observers only.
LEMMA RegistrationInv ==
  ASSUME ParserInv, NEW o \in Observers,
         \/ RegisterDvbSectionParserObserver(o)
         \/ RemoveDvbSectionParserObserver(o)
  PROVE  ParserInv'
<1>1. m_sectionMap' = m_sectionMap /\ sent' = {}
  BY DEF RegisterDvbSectionParserObserver, RemoveDvbSectionParserObserver
<1>2. ObserverVector' \in [Observers -> Nat]
  BY DEF RegisterDvbSectionParserObserver, RemoveDvbSectionParserObserver, ParserInv, TypeOK
<1>3. QED
  BY <1>1, <1>2 DEF ParserInv, TypeOK

LEMMA ParserInvInit == ParserInit => ParserInv
<1> SUFFICES ASSUME ParserInit PROVE ParserInv
  OBVIOUS
<1>1. NewList \in List
  BY DEF NewList, List, Byte
<1>2. QED
  BY <1>1, NewListInv DEF ParserInit, ParserInv, TypeOK

LEMMA ParserInvNext == ParserInv /\ [ParserNext]_parserVars => ParserInv'
<1> SUFFICES ASSUME ParserInv, [ParserNext]_parserVars PROVE ParserInv'
  OBVIOUS
<1>1. ASSUME NEW s \in Sections, ParseSiData(s) PROVE ParserInv'
  BY <1>1, HandleSectionInv DEF ParseSiData
<1>2. CASE ParseShortData
  BY <1>2, HandleSectionInv DEF ParseShortData
<1>3. ASSUME NEW o \in Observers, RegisterDvbSectionParserObserver(o) PROVE ParserInv'
  BY <1>3, RegistrationInv
<1>4. ASSUME NEW o \in Observers, RemoveDvbSectionParserObserver(o) PROVE ParserInv'
  BY <1>4, RegistrationInv
<1>5. CASE UNCHANGED parserVars
  BY <1>5 DEF parserVars, ParserInv, TypeOK, Keys
<1>6. QED
  BY <1>1, <1>2, <1>3, <1>4, <1>5 DEF ParserNext

LEMMA ParserInvariant == ParserSpec => []ParserInv
BY ParserInvInit, ParserInvNext, PTL DEF ParserSpec

-----------------------------------------------------------------------------
\* The state of the parser is well-typed.
THEOREM TypeCorrect == ParserSpec => []TypeOK
<1>1. ParserInv => TypeOK
  BY DEF ParserInv
<1>2. QED
  BY <1>1, ParserInvariant, PTL

\* No list mixes two versions or two sub-tables.
THEOREM AlwaysCoherent == ParserSpec => []ListsCoherent
<1>1. ParserInv => ListsCoherent
  BY DEF ParserInv, ListInv, ListsCoherent, Lists
<1>2. QED
  BY <1>1, ParserInvariant, PTL

\* No list is out of order or holds a section twice.
THEOREM AlwaysOrdered == ParserSpec => []ListsOrdered
<1>1. ParserInv => ListsOrdered
  BY DEF ParserInv, ListInv, ListsOrdered, Lists
<1>2. QED
  BY <1>1, ParserInvariant, PTL

\* A list that says it is complete is as whole as its kind of table shows.
THEOREM AlwaysWhole == ParserSpec => []ListsWhole
<1>1. ParserInv => ListsWhole
  BY DEF ParserInv, ListInv, ListsWhole, Lists
<1>2. QED
  BY <1>1, ParserInvariant, PTL

-----------------------------------------------------------------------------
(***************************************************************************)
(* What the observers are told.                                            *)
(***************************************************************************)
\* Every supported table id has a builder.
LEMMA SupportedIsBuildable ==
  ASSUME NEW id, IsTableSupported(id)
  PROVE  IsBuildable(id)
BY DEF IsTableSupported, IsBuildable, NIT, NIT_OTHER, SDT, SDT_OTHER

\* A list that comes to be complete was handed the section, and is announced.
LEMMA HandleSectionAnnounces ==
  ASSUME ParserInv, NEW s \in Sections \cup Uninitialized, HandleSection(s),
         NEW k \in Keys, IsTableSupported(k[1]),
         m_sectionMap'[k].IsComplete, m_sectionMap'[k] # m_sectionMap[k],
         NEW o \in Observers, ObserverVector[o] > 0
  PROVE  \E m \in sent' : m.to = o /\ <<m.table.TableId, m.table.Ext>> = k
<1> DEFINE old == m_sectionMap[KeyOf(s)]
           new == AddSiSection(old, s)
<1>1. s \in Section /\ KeyOf(s) \in Keys /\ KeyOf(s) = <<s.TableId, s.Ext>>
  BY DEF Keys, KeyOf
<1>2. ListInv(old, KeyOf(s)) /\ ListInv(new, KeyOf(s))
  BY <1>1, AddSiSectionInv DEF ParserInv
<1>3. m_sectionMap' = [m_sectionMap EXCEPT ![KeyOf(s)] = new]
  BY DEF HandleSection
<1>4. k = KeyOf(s) /\ m_sectionMap'[k] = new /\ new.IsComplete /\ new # old
  BY <1>1, <1>3 DEF ParserInv, TypeOK
<1>5. Accepts(old, s)
  BY <1>4 DEF AddSiSection, Accepts
<1>6. sent' = NotifyDvbSectionParserObserver(BuildTable(new))
  BY <1>4, <1>5 DEF HandleSection
<1>7. new.Sections # << >> /\ Front(new).TableId = k[1] /\ Front(new).Ext = k[2]
  BY <1>2, <1>4 DEF ListInv, Whole, Keyed
<1>8. BuildTable(new) = {TableOf(new)}
  BY <1>7, SupportedIsBuildable DEF BuildTable
<1>9. [to |-> o, table |-> TableOf(new)] \in sent'
  BY <1>6, <1>8 DEF NotifyDvbSectionParserObserver
<1>10. <<TableOf(new).TableId, TableOf(new).Ext>> = k
  BY <1>1, <1>4, <1>7 DEF TableOf
<1>11. QED
  BY <1>9, <1>10

\* Every table that is completed is announced to every observer registered
\* at that moment.
THEOREM AlwaysAnnounced == ParserSpec => CompletionAnnounced
<1>1. ParserInv /\ [ParserNext]_parserVars
        => [\A k \in Keys :
              LET new == m_sectionMap'[k]
              IN  /\ new.IsComplete
                  /\ new # m_sectionMap[k]
                  /\ IsTableSupported(k[1])
                  => \A o \in Observers : ObserverVector[o] > 0 =>
                       \E m \in sent' :
                         /\ m.to = o
                         /\ <<m.table.TableId, m.table.Ext>> = k]_parserVars
  <2> SUFFICES ASSUME ParserInv, ParserNext,
                      NEW k \in Keys, IsTableSupported(k[1]),
                      m_sectionMap'[k].IsComplete, m_sectionMap'[k] # m_sectionMap[k],
                      NEW o \in Observers, ObserverVector[o] > 0
               PROVE  \E m \in sent' : m.to = o /\ <<m.table.TableId, m.table.Ext>> = k
    OBVIOUS
  <2>1. ASSUME NEW s \in Sections, ParseSiData(s)
        PROVE  \E m \in sent' : m.to = o /\ <<m.table.TableId, m.table.Ext>> = k
    BY <2>1, HandleSectionAnnounces DEF ParseSiData
  <2>2. CASE ParseShortData
    BY <2>2, HandleSectionAnnounces DEF ParseShortData
  <2>3. ASSUME NEW p \in Observers,
               RegisterDvbSectionParserObserver(p) \/ RemoveDvbSectionParserObserver(p)
        PROVE  FALSE
    BY <2>3 DEF RegisterDvbSectionParserObserver, RemoveDvbSectionParserObserver
  <2>4. QED
    BY <2>1, <2>2, <2>3 DEF ParserNext
<1>2. QED
  BY <1>1, ParserInvariant, PTL DEF ParserSpec, CompletionAnnounced

\* A step that announces a table found no complete list of that version.
LEMMA HandleSectionOnce ==
  ASSUME ParserInv, NEW s \in Sections \cup Uninitialized, HandleSection(s),
         NEW m \in sent'
  PROVE  LET k == <<m.table.TableId, m.table.Ext>>
             old == m_sectionMap[k]
         IN  ~ /\ old.IsComplete
               /\ Front(old).SSI
               /\ Front(old).Version = m.table.Version
               /\ Front(old).Last = Front(m_sectionMap'[k]).Last
<1> DEFINE k == KeyOf(s)
           old == m_sectionMap[k]
           new == AddSiSection(old, s)
<1>1. s \in Section /\ k \in Keys /\ k = <<s.TableId, s.Ext>>
  BY DEF Keys, KeyOf
<1>2. ListInv(old, k) /\ ListInv(new, k) /\ new \in List
  BY <1>1, AddSiSectionInv DEF ParserInv, ListInv
<1>3. m_sectionMap'[k] = new
  BY <1>1 DEF HandleSection, ParserInv, TypeOK
<1>4. Accepts(old, s) /\ m.table \in BuildTable(new)
  BY DEF HandleSection, NotifyDvbSectionParserObserver
<1> HIDE DEF k, new
<1>5. m.table = TableOf(new) /\ new.Sections # << >>
  BY <1>4 DEF BuildTable
<1>6. <<m.table.TableId, m.table.Ext>> = k
  BY <1>1, <1>2, <1>5 DEF TableOf, ListInv, Keyed
<1>7. SUFFICES ASSUME old.IsComplete, Front(old).SSI,
                      Front(old).Version = m.table.Version,
                      Front(old).Last = Front(new).Last
               PROVE  FALSE
  BY <1>3, <1>6
<1>8. old.Sections # << >> /\ ~ SameTable(old, s) /\ StartsAgain(old, s)
  BY <1>2, <1>4, <1>7 DEF ListInv, Whole, Accepts, StartsAgain
<1>9. Front(new) = s
  BY <1>8 DEF new, AddSiSection, InitializeSectionList, Front
<1>10. QED
  BY <1>5, <1>7, <1>8, <1>9 DEF TableOf, SameTable

\* No table with section syntax is announced again while the same version
\* goes on being received.
THEOREM NeverAnnouncedTwice == ParserSpec => AnnouncedOnce
<1>1. ParserInv /\ [ParserNext]_parserVars
        => [\A m \in sent' :
              LET k == <<m.table.TableId, m.table.Ext>>
                  old == m_sectionMap[k]
              IN  ~ /\ old.IsComplete
                    /\ Front(old).SSI
                    /\ Front(old).Version = m.table.Version
                    /\ Front(old).Last = Front(m_sectionMap'[k]).Last]_parserVars
  <2> SUFFICES ASSUME ParserInv, ParserNext, NEW m \in sent'
               PROVE  LET k == <<m.table.TableId, m.table.Ext>>
                          old == m_sectionMap[k]
                      IN  ~ /\ old.IsComplete
                            /\ Front(old).SSI
                            /\ Front(old).Version = m.table.Version
                            /\ Front(old).Last = Front(m_sectionMap'[k]).Last
    OBVIOUS
  <2>1. CASE \E s \in Sections : ParseSiData(s)
    BY <2>1, HandleSectionOnce DEF ParseSiData
  <2>2. CASE ParseShortData
    BY <2>2, HandleSectionOnce DEF ParseShortData
  <2>3. ASSUME NEW p \in Observers,
               RegisterDvbSectionParserObserver(p) \/ RemoveDvbSectionParserObserver(p)
        PROVE  FALSE
    BY <2>3 DEF RegisterDvbSectionParserObserver, RemoveDvbSectionParserObserver
  <2>4. QED
    BY <2>1, <2>2, <2>3 DEF ParserNext
<1>2. QED
  BY <1>1, ParserInvariant, PTL DEF ParserSpec, AnnouncedOnce

=============================================================================
