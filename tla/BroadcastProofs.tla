---------------------------- MODULE BroadcastProofs --------------------------
(***************************************************************************)
(* What a section list makes of one sub-table's broadcast, for every       *)
(* sub-table, shape and generation: lemmas about one list and one section, *)
(* for the modules that put a broadcaster before the parser.               *)
(***************************************************************************)
EXTENDS Broadcast, SectionParserProofs

\* The section numbers in a list.
NumbersIn(l) == {l.Sections[i].Number : i \in DOMAIN l.Sections}

\* A list holds sections of one generation of a sub-table, in one shape.
HeldOf(st, l, gen, S) ==
  \A i \in DOMAIN l.Sections :
    \E n \in S, current \in BOOLEAN :
      l.Sections[i] = SectionOnAir(st, gen, S, n, current)

\* What the section numbered n carries.
BodyOf(st, gen, S, n) == [of |-> st, gen |-> gen, number |-> n, layout |-> S]

\* A table's content is all of one generation of a sub-table, in one shape.
IsTableOf(content, st, gen, S) ==
  /\ content \in Seq(Bodies)
  /\ content # << >>
  /\ \A i \in DOMAIN content :
       content[i] = BodyOf(st, gen, S, content[i].number)
  /\ \A i, j \in DOMAIN content : i < j => content[i].number < content[j].number
  /\ {content[i].number : i \in DOMAIN content} = S

-----------------------------------------------------------------------------
(***************************************************************************)
(* Numbers, cycles and versions.                                           *)
(***************************************************************************)
\* Generations at most 31 apart have different version numbers.
LEMMA VersionsDiffer ==
  ASSUME NEW g \in Nat, NEW h \in Nat, h < g, g - h <= 31
  PROVE  VersionNumber(g) # VersionNumber(h)
BY DEF VersionNumber

\* A set of bytes that has elements has a smallest.
LEMMA SmallestIsIn ==
  ASSUME NEW S \in SUBSET Byte, S # {}
  PROVE  Smallest(S) \in S /\ \A m \in S : Smallest(S) <= m
<1>1. S \in SUBSET Nat
  BY DEF Byte
<1>2. \E n \in S : IsSmallest(n, S)
  BY <1>1, LeastNat DEF IsSmallest
<1>3. QED
  BY <1>2 DEF Smallest, IsSmallest

\* A cycle stays within its sections.
LEMMA FollowingIsIn ==
  ASSUME NEW S \in SUBSET Byte, S # {}, NEW n
  PROVE  Following(S, n) \in S
<1>1. {m \in S : m > n} \in SUBSET Byte
  OBVIOUS
<1>2. QED
  BY <1>1, SmallestIsIn DEF Following

\* The following section is the next higher one, or the smallest after the
\* largest.
LEMMA FollowingIsNext ==
  ASSUME NEW S \in SUBSET Byte, NEW n \in S
  PROVE  LET f == Following(S, n)
         IN \/ /\ f > n
               /\ \A m \in S : m <= n \/ f <= m
            \/ /\ f <= n
               /\ \A m \in S : f <= m /\ m <= n
<1> DEFINE higher == {m \in S : m > n}
<1>1. higher \in SUBSET Byte /\ n \in Nat /\ \A m \in S : m \in Nat
  <2>1. Byte \subseteq Nat
    BY DEF Byte
  <2>2. QED
    BY <2>1
<1>2. CASE higher = {}
  <2>1. Following(S, n) = Smallest(S)
    BY <1>2 DEF Following
  <2>2. \A m \in S : m <= n
    BY <1>1, <1>2
  <2>3. QED
    BY <2>1, <2>2, SmallestIsIn
<1>3. CASE higher # {}
  <2>1. Following(S, n) = Smallest(higher)
    BY <1>3 DEF Following
  <2>2. Smallest(higher) \in higher /\ \A m \in higher : Smallest(higher) <= m
    BY <1>1, <1>3, SmallestIsIn
  <2>3. QED
    BY <1>1, <2>1, <2>2
<1>4. QED
  BY <1>2, <1>3

LEMMA LargestOfInterval ==
  ASSUME NEW n \in Nat
  PROVE  Largest(0..n) = n
<1>1. n \in 0..n /\ \A m \in 0..n : m <= n
  OBVIOUS
<1>2. ASSUME NEW p \in 0..n, \A m \in 0..n : m <= p PROVE p = n
  BY <1>1, <1>2
<1>3. QED
  BY <1>1, <1>2 DEF Largest

\* There is one way to put a set of numbers in order.
LEMMA OneOrder ==
  ASSUME NEW p \in Nat, NEW q \in Nat, NEW a \in [1..p -> Nat], NEW b \in [1..q -> Nat],
         \A i, j \in 1..p : i < j => a[i] < a[j],
         \A i, j \in 1..q : i < j => b[i] < b[j],
         {a[i] : i \in 1..p} = {b[i] : i \in 1..q}
  PROVE  p = q /\ \A i \in 1..p : a[i] = b[i]
<1> DEFINE T == {i \in Nat : i \in 1..p /\ ~ (i \in 1..q /\ a[i] = b[i])}
<1>1. /\ \A i \in 1..p : \E j \in 1..q : a[i] = b[j]
      /\ \A j \in 1..q : \E i \in 1..p : b[j] = a[i]
  OBVIOUS
<1>2. T = {}
  <2> SUFFICES ASSUME T # {} PROVE FALSE
    OBVIOUS
  <2>1. PICK m \in T : \A k \in T : m <= k
    BY LeastNat
  <2>2. \A i \in 1..p : i < m => i \in 1..q /\ a[i] = b[i]
    BY <2>1
  <2> HIDE DEF T
  <2>3. m \in 1..p /\ ~ (m \in 1..q /\ a[m] = b[m])
    BY <2>1 DEF T
  <2>4. PICK j \in 1..q : a[m] = b[j]
    BY <1>1, <2>3
  <2>5. m <= j
    <3>1. j < m => j \in 1..p /\ a[j] = b[j] /\ a[j] < a[m]
      BY <2>2, <2>3
    <3>2. QED
      BY <2>3, <2>4, <3>1
  <2>6. m \in 1..q
    BY <2>3, <2>5
  <2>7. PICK k \in 1..p : b[m] = a[k]
    BY <1>1, <2>6
  <2>8. m <= k
    <3>1. k < m => k \in 1..q /\ a[k] = b[k] /\ b[k] < b[m]
      BY <2>2, <2>6
    <3>2. QED
      BY <2>3, <2>6, <2>7, <3>1
  <2>9. m < j => b[m] < b[j]
    BY <2>6
  <2>10. m < k => a[m] < a[k]
    BY <2>3
  <2>11. QED
    BY <2>3, <2>4, <2>5, <2>6, <2>7, <2>8, <2>9, <2>10
<1>3. \A i \in 1..p : i \in 1..q /\ a[i] = b[i]
  <2> SUFFICES ASSUME NEW i \in 1..p, ~ (i \in 1..q /\ a[i] = b[i]) PROVE FALSE
    OBVIOUS
  <2>1. i \in T
    OBVIOUS
  <2>2. QED
    BY <1>2, <2>1
<1> HIDE DEF T
<1>4. \A j \in 1..q : j \in 1..p
  <2> SUFFICES ASSUME NEW j \in 1..q PROVE j \in 1..p
    OBVIOUS
  <2>1. PICK i \in 1..p : b[j] = a[i]
    BY <1>1
  <2>2. i \in 1..q /\ b[i] = b[j]
    BY <1>3, <2>1
  <2>3. i = j
    <3>1. (i < j => b[i] < b[j]) /\ (j < i => b[j] < b[i])
      BY <2>2
    <3>2. QED
      BY <2>2, <3>1
  <2>4. QED
    BY <2>3
<1>5. p = q
  <2>1. (p > 0 => p \in 1..p) /\ (q > 0 => q \in 1..q)
    OBVIOUS
  <2>2. (p > 0 => p \in 1..q) /\ (q > 0 => q \in 1..p)
    BY <2>1, <1>3, <1>4
  <2>3. p <= q /\ q <= p
    BY <2>2
  <2>4. QED
    BY <2>3
<1>6. QED
  BY <1>3, <1>5

-----------------------------------------------------------------------------
(***************************************************************************)
(* What is on air.                                                         *)
(***************************************************************************)
\* Shapes are sets of bytes that have elements.
LEMMA LayoutsAreBytes ==
  ASSUME NEW st \in SubTables, NEW S \in Layouts[st]
  PROVE  S \in SUBSET Byte /\ S # {}
BY BroadcastAssumption

\* What is on air is a section the parser may be handed, under the key of its
\* sub-table.
LEMMA OnAirIsSection ==
  ASSUME NEW st \in SubTables, NEW g \in 1..MaxGeneration[st],
         NEW S \in Layouts[st], NEW n \in S, NEW current \in BOOLEAN
  PROVE  LET s == SectionOnAir(st, g, S, n, current)
         IN /\ s \in Sections /\ s \in Section
            /\ KeyOf(s) = SubTableKey(st)
<1> DEFINE s == SectionOnAir(st, g, S, n, current)
<1>1. s \in BroadcastSections
  <2>1. \E m \in S, h \in 1..MaxGeneration[st], c \in BOOLEAN :
          s = SectionOnAir(st, h, S, m, c)
    OBVIOUS
  <2> HIDE DEF s
  <2>2. s \in SectionsOnAir(st)
    BY <2>1 DEF SectionsOnAir
  <2>3. QED
    BY <2>2 DEF BroadcastSections
<1>2. KeyOf(s) = SubTableKey(st)
  BY DEF KeyOf, SubTableKey, SectionOnAir
<1>3. QED
  BY <1>1, <1>2, SectionsOnAirAssumption, SectionsAssumption

\* The parser has a list for every sub-table.
LEMMA SubTableHasList ==
  ASSUME NEW st \in SubTables
  PROVE  SubTableKey(st) \in Keys
<1>1. PICK S \in Layouts[st] : S # {}
  BY BroadcastAssumption
<1>2. PICK n \in S : TRUE
  BY <1>1
<1>3. 1 \in 1..MaxGeneration[st] /\ TRUE \in BOOLEAN
  BY BroadcastAssumption
<1>4. QED
  BY <1>2, <1>3, OnAirIsSection DEF Keys

\* The sections in a list of one generation.
LEMMA HeldSections ==
  ASSUME NEW st, NEW l, NEW g, NEW S, HeldOf(st, l, g, S)
  PROVE  \A i \in DOMAIN l.Sections :
           /\ l.Sections[i].TableId = SubTableId[st]
           /\ l.Sections[i].Ext = SubTableExt[st]
           /\ l.Sections[i].SSI
           /\ l.Sections[i].Version = VersionNumber(g)
           /\ l.Sections[i].Last = Largest(S)
           /\ l.Sections[i].Number \in S
           /\ l.Sections[i].Body = BodyOf(st, g, S, l.Sections[i].Number)
<1> SUFFICES ASSUME NEW i \in DOMAIN l.Sections
             PROVE  /\ l.Sections[i].TableId = SubTableId[st]
                    /\ l.Sections[i].Ext = SubTableExt[st]
                    /\ l.Sections[i].SSI
                    /\ l.Sections[i].Version = VersionNumber(g)
                    /\ l.Sections[i].Last = Largest(S)
                    /\ l.Sections[i].Number \in S
                    /\ l.Sections[i].Body = BodyOf(st, g, S, l.Sections[i].Number)
  OBVIOUS
<1>1. PICK n \in S, current \in BOOLEAN : l.Sections[i] = SectionOnAir(st, g, S, n, current)
  BY DEF HeldOf
<1>2. QED
  BY <1>1 DEF SectionOnAir, BodyOf

\* Byte numbers are natural.
LEMMA BytesAreNat == Byte \subseteq Nat
BY DEF Byte

-----------------------------------------------------------------------------
(***************************************************************************)
(* The step of one section on a list of one generation.                    *)
(***************************************************************************)
\* The list starts again exactly when its version number is another one.
LEMMA StartsOnVersion ==
  ASSUME NEW st \in SubTables, NEW l, ListInv(l, SubTableKey(st)), l.Sections # << >>,
         NEW h, NEW g \in 1..MaxGeneration[st],
         NEW T, NEW S \in Layouts[st], NEW n \in S, NEW current \in BOOLEAN,
         VersionNumber(h) = VersionNumber(g) => h = g /\ T = S,
         HeldOf(st, l, h, T)
  PROVE  LET s == SectionOnAir(st, g, S, n, current)
         IN /\ StartsAgain(l, s) <=> VersionNumber(h) # VersionNumber(g)
            /\ Accepts(l, s) <=> StartsAgain(l, s) \/ ~ l.IsComplete
<1> DEFINE s == SectionOnAir(st, g, S, n, current)
<1>1. 1 \in DOMAIN l.Sections
  BY DEF ListInv, List
<1>2. /\ Front(l).SSI
      /\ Front(l).Ext = SubTableExt[st]
      /\ Front(l).Version = VersionNumber(h)
      /\ Front(l).Last = Largest(T)
  BY <1>1, HeldSections DEF Front
<1>3. s.Ext = SubTableExt[st] /\ s.Version = VersionNumber(g) /\ s.Last = Largest(S)
  BY DEF SectionOnAir
<1> HIDE DEF s
<1>4. StartsAgain(l, s) <=> ~ SameTable(l, s)
  BY <1>2, <1>3 DEF StartsAgain
<1>5. SameTable(l, s) <=> VersionNumber(h) = VersionNumber(g)
  BY <1>2, <1>3 DEF SameTable
<1>6. Accepts(l, s) <=> StartsAgain(l, s) \/ ~ l.IsComplete
  BY <1>2, <1>3 DEF Accepts
<1>7. QED
  BY <1>4, <1>5, <1>6 DEF s

\* A list started again holds the section it started with; an EIT's is not
\* complete.
LEMMA StartedAgain ==
  ASSUME NEW st \in SubTables, NEW l, NEW g, NEW S, NEW n \in S, NEW current \in BOOLEAN,
         StartsAgain(l, SectionOnAir(st, g, S, n, current))
  PROVE  LET new == AddSiSection(l, SectionOnAir(st, g, S, n, current))
         IN /\ HeldOf(st, new, g, S)
            /\ new.Sections # << >>
            /\ NumbersIn(new) = {n}
            /\ new.First = n
            /\ IsEit(SubTableId[st]) => ~ new.IsComplete
<1> DEFINE s == SectionOnAir(st, g, S, n, current)
           new == AddSiSection(l, s)
<1>1. new = InitializeSectionList(s)
  BY DEF AddSiSection
<1>2. s.Number = n /\ s.TableId = SubTableId[st]
  BY DEF SectionOnAir
<1>3. /\ new.Sections = <<s>>
      /\ new.First = n
      /\ IsEit(SubTableId[st]) => ~ new.IsComplete
  BY <1>1, <1>2 DEF InitializeSectionList
<1>4. DOMAIN <<s>> = {1} /\ <<s>>[1] = s /\ <<s>> # << >>
  OBVIOUS
<1>5. \E m \in S, c \in BOOLEAN : s = SectionOnAir(st, g, S, m, c)
  OBVIOUS
<1> HIDE DEF s, new
<1>6. HeldOf(st, new, g, S) /\ NumbersIn(new) = {n}
  BY <1>2, <1>3, <1>4, <1>5 DEF HeldOf, NumbersIn
<1>7. QED
  BY <1>3, <1>4, <1>6 DEF s, new

\* A section of its generation adds its number to a list that is not
\* complete.  An EIT's is complete when the first number comes round again.
LEMMA SectionAdded ==
  ASSUME NEW st \in SubTables, NEW l, ListInv(l, SubTableKey(st)), ~ l.IsComplete,
         NEW g \in 1..MaxGeneration[st],
         NEW S \in Layouts[st], NEW n \in S, NEW current \in BOOLEAN,
         ~ StartsAgain(l, SectionOnAir(st, g, S, n, current)),
         Accepts(l, SectionOnAir(st, g, S, n, current)),
         HeldOf(st, l, g, S)
  PROVE  LET new == AddSiSection(l, SectionOnAir(st, g, S, n, current))
         IN /\ HeldOf(st, new, g, S)
            /\ new.Sections # << >>
            /\ NumbersIn(new) = NumbersIn(l) \cup {n}
            /\ new.First = l.First
            /\ IsEit(SubTableId[st]) /\ new.IsComplete => l.First = n
<1> DEFINE s == SectionOnAir(st, g, S, n, current)
           new == AddSiSection(l, s)
           secs == InsertSectionIntoList(l.Sections, s)
<1>1. l.Sections # << >> /\ l.Sections \in Seq(Section) /\ Ordered(l.Sections) /\ l \in List
  BY DEF StartsAgain, ListInv, List
<1>2. s \in Section /\ s.Number = n
  BY OnAirIsSection DEF SectionOnAir
<1>3. \E m \in S, c \in BOOLEAN : s = SectionOnAir(st, g, S, m, c)
  OBVIOUS
<1> HIDE DEF s
<1>4. /\ secs \in Seq(Section)
      /\ \A i \in DOMAIN secs : secs[i] = s \/ \E j \in DOMAIN l.Sections : secs[i] = l.Sections[j]
      /\ \A j \in DOMAIN l.Sections : \E i \in DOMAIN secs : secs[i] = l.Sections[j]
      /\ \E i \in DOMAIN secs : secs[i].Number = s.Number
  BY <1>1, <1>2, InsertSection
<1>5. new = AddedTo(l, s)
  BY DEF AddSiSection, s
<1>6. /\ new.Sections = secs
      /\ new.First = l.First
      /\ new.IsComplete = IsSectionListComplete(secs, l.First, s)
  BY <1>1, <1>5 DEF AddedTo, List
<1> HIDE DEF new, secs
<1>7. HeldOf(st, new, g, S)
  <2>1. ASSUME NEW i \in DOMAIN secs
        PROVE  \E m \in S, c \in BOOLEAN : secs[i] = SectionOnAir(st, g, S, m, c)
    <3>1. CASE secs[i] = s
      BY <1>3, <3>1
    <3>2. CASE \E j \in DOMAIN l.Sections : secs[i] = l.Sections[j]
      BY <3>2 DEF HeldOf
    <3>3. QED
      BY <1>4, <3>1, <3>2
  <2>2. QED
    BY <1>6, <2>1 DEF HeldOf
<1>8. new.Sections # << >> /\ 1 \in DOMAIN secs
  BY <1>4, <1>6
<1>9. NumbersIn(new) = NumbersIn(l) \cup {n}
  <2>1. ASSUME NEW m PROVE m \in NumbersIn(new) <=> m \in NumbersIn(l) \/ m = n
    <3>1. m \in NumbersIn(new) => m \in NumbersIn(l) \/ m = n
      BY <1>2, <1>4, <1>6 DEF NumbersIn
    <3>2. m \in NumbersIn(l) => m \in NumbersIn(new)
      BY <1>4, <1>6 DEF NumbersIn
    <3>3. n \in NumbersIn(new)
      BY <1>2, <1>4, <1>6 DEF NumbersIn
    <3>4. QED
      BY <3>1, <3>2, <3>3
  <2>2. QED
    BY <2>1
<1>10. IsEit(SubTableId[st]) /\ new.IsComplete => l.First = n
  <2>1. secs[1].TableId = SubTableId[st] /\ secs[1].SSI
    BY <1>6, <1>7, <1>8, HeldSections
  <2>2. QED
    BY <1>2, <1>6, <2>1 DEF IsSectionListComplete, EitComplete
<1>11. QED
  BY <1>6, <1>7, <1>8, <1>9, <1>10 DEF s, new

\* What AddSiSection makes of a list of one generation whose version number
\* tells it from the generation of the section: a list of the latter.
LEMMA AddSiSectionHolds ==
  ASSUME NEW st \in SubTables, NEW l, ListInv(l, SubTableKey(st)),
         NEW h, NEW g \in 1..MaxGeneration[st],
         NEW T, NEW S \in Layouts[st], NEW n \in S, NEW current \in BOOLEAN,
         l.Sections # << >> /\ VersionNumber(h) = VersionNumber(g) => h = g /\ T = S,
         HeldOf(st, l, h, T)
  PROVE  LET new == AddSiSection(l, SectionOnAir(st, g, S, n, current))
         IN HeldOf(st, new, g, S) /\ new.Sections # << >>
<1> DEFINE s == SectionOnAir(st, g, S, n, current)
           new == AddSiSection(l, s)
<1>1. CASE StartsAgain(l, s)
  <2>1. HeldOf(st, new, g, S)
    BY <1>1, StartedAgain
  <2>2. new.Sections # << >>
    BY <1>1, StartedAgain
  <2>3. QED
    BY <2>1, <2>2
<1>2. CASE ~ StartsAgain(l, s)
  <2>1. l.Sections # << >>
    BY <1>2 DEF StartsAgain
  <2>2. VersionNumber(h) = VersionNumber(g) /\ (Accepts(l, s) <=> ~ l.IsComplete)
    BY <1>2, <2>1, StartsOnVersion, ZenonT(60)
  <2>3. HeldOf(st, l, g, S)
    BY <2>1, <2>2
  <2>4. CASE l.IsComplete
    BY <1>2, <2>1, <2>2, <2>3, <2>4 DEF AddSiSection
  <2>5. CASE ~ l.IsComplete
    <3>1. Accepts(l, s)
      BY <2>2, <2>5
    <3>2. QED
      BY <1>2, <2>3, <2>5, <3>1, SectionAdded
  <2>6. QED
    BY <2>4, <2>5
<1>3. QED
  BY <1>1, <1>2

-----------------------------------------------------------------------------
(***************************************************************************)
(* Tables.                                                                 *)
(***************************************************************************)
\* A complete list of a table without gaps has all its sections.
LEMMA CompleteHasAll ==
  ASSUME NEW st \in SubTables, ~ IsEit(SubTableId[st]),
         NEW l, ListInv(l, SubTableKey(st)), l.IsComplete,
         NEW g, NEW S \in Layouts[st], HeldOf(st, l, g, S)
  PROVE  l.Sections # << >> /\ NumbersIn(l) = S
<1> DEFINE secs == l.Sections
<1>1. secs \in Seq(Section) /\ secs # << >> /\ 1 \in DOMAIN secs
  BY DEF ListInv, List, Whole
<1>2. PICK n \in Nat : S = 0..n
  <2>1. \E n \in Byte : S = 0..n
    BY BroadcastAssumption
  <2>2. QED
    BY <2>1, BytesAreNat
<1>3. Front(l).TableId = SubTableId[st] /\ Front(l).SSI /\ Front(l).Last = n
  BY <1>1, <1>2, HeldSections, LargestOfInterval DEF Front
<1>4. /\ \A i \in DOMAIN secs : secs[i].Number = i - 1
      /\ n < Len(secs)
  BY <1>1, <1>3 DEF ListInv, Whole
<1>5. Len(secs) = n + 1
  <2>1. Len(secs) \in DOMAIN secs /\ Len(secs) \in Nat
    BY <1>1
  <2>2. secs[Len(secs)].Number \in 0..n
    BY <1>2, <2>1, HeldSections
  <2>3. QED
    BY <1>2, <1>4, <2>1, <2>2
<1>6. DOMAIN secs = 1..(n + 1)
  BY <1>1, <1>5
<1> HIDE DEF secs
<1>7. \A m \in 0..n : m + 1 \in 1..(n + 1) /\ m = (m + 1) - 1
  BY <1>2
<1>8. \A m \in 0..n : \E i \in DOMAIN secs : m = secs[i].Number
  <2> SUFFICES ASSUME NEW m \in 0..n PROVE \E i \in DOMAIN secs : m = secs[i].Number
    OBVIOUS
  <2>1. m + 1 \in DOMAIN secs /\ secs[m + 1].Number = m
    BY <1>4, <1>6, <1>7
  <2>2. QED
    BY <2>1
<1>9. \A i \in DOMAIN secs : secs[i].Number \in 0..n
  BY <1>2, HeldSections DEF secs
<1>10. QED
  BY <1>1, <1>2, <1>8, <1>9 DEF NumbersIn, secs

\* A list with all the sections makes the table.
LEMMA TableFromList ==
  ASSUME NEW st \in SubTables, NEW l, ListInv(l, SubTableKey(st)), l.Sections # << >>,
         NEW g, NEW S, HeldOf(st, l, g, S), NumbersIn(l) = S
  PROVE  IsTableOf(Content(l.Sections), st, g, S)
<1> DEFINE secs == l.Sections
           content == Content(secs)
<1>1. secs \in Seq(Section) /\ 1 \in DOMAIN secs /\ Ordered(secs)
  BY DEF ListInv, List
<1>2. content = [i \in DOMAIN secs |-> secs[i].Body]
  <2>1. secs[1].TableId \notin {TDT, TOT}
    BY <1>1, HeldSections, BroadcastAssumption
  <2>2. QED
    BY <2>1 DEF Content
<1>3. \A i \in DOMAIN secs :
        secs[i].Body = BodyOf(st, g, S, secs[i].Number)
  BY HeldSections
<1>4. \A i \in DOMAIN secs : secs[i].Body \in Bodies
  <2>1. \A i \in DOMAIN secs : secs[i] \in Section
    BY <1>1
  <2>2. QED
    BY <2>1 DEF Section
<1>5. NumbersIn(l) = {secs[i].Number : i \in DOMAIN secs}
  BY DEF NumbersIn
<1> HIDE DEF content, secs
<1>6. content \in Seq(Bodies) /\ DOMAIN content = DOMAIN secs /\ content # << >>
  BY <1>1, <1>2, <1>4
<1>7. \A i \in DOMAIN content :
        /\ content[i] = BodyOf(st, g, S, content[i].number)
        /\ content[i].number = secs[i].Number
  <2> SUFFICES ASSUME NEW i \in DOMAIN secs
               PROVE  /\ content[i] = BodyOf(st, g, S, content[i].number)
                      /\ content[i].number = secs[i].Number
    BY <1>6
  <2>1. content[i] = BodyOf(st, g, S, secs[i].Number)
    BY <1>2, <1>3
  <2>2. content[i].number = secs[i].Number
    BY <2>1 DEF BodyOf
  <2>3. QED
    BY <2>1, <2>2
<1>8. {content[i].number : i \in DOMAIN content} = S
  <2>1. {content[i].number : i \in DOMAIN content} = {secs[i].Number : i \in DOMAIN secs}
    BY <1>6, <1>7
  <2>2. QED
    BY <1>5, <2>1
<1>9. \A i, j \in DOMAIN content : i < j => content[i].number < content[j].number
  BY <1>1, <1>6, <1>7 DEF Ordered
<1>10. QED
  BY <1>6, <1>7, <1>8, <1>9 DEF IsTableOf, content, secs

\* A sub-table's table of a generation is whole.
LEMMA TableIsWhole ==
  ASSUME NEW content, NEW st, NEW g, NEW S, IsTableOf(content, st, g, S)
  PROVE  content[1].of = st /\ content[1].gen = g /\ IsWhole(content)
<1>1. 1 \in DOMAIN content
  BY DEF IsTableOf
<1>2. \A i \in DOMAIN content :
        content[i].of = st /\ content[i].gen = g /\ content[i].layout = S
  <2>1. ASSUME NEW i \in DOMAIN content
        PROVE  content[i].of = st /\ content[i].gen = g /\ content[i].layout = S
    <3>1. content[i] = BodyOf(st, g, S, content[i].number)
      BY DEF IsTableOf
    <3>2. QED
      BY <3>1 DEF BodyOf
  <2>2. QED
    BY <2>1
<1>3. QED
  BY <1>1, <1>2 DEF IsTableOf, IsWhole

\* There is one such table.
LEMMA OneTable ==
  ASSUME NEW a, NEW b, NEW st, NEW g, NEW S \in SUBSET Byte,
         IsTableOf(a, st, g, S), IsTableOf(b, st, g, S)
  PROVE  a = b
<1> DEFINE p == Len(a)
           q == Len(b)
           f == [i \in 1..p |-> a[i].number]
           h == [i \in 1..q |-> b[i].number]
<1>1. /\ a \in Seq(Bodies) /\ p \in Nat /\ DOMAIN a = 1..p
      /\ b \in Seq(Bodies) /\ q \in Nat /\ DOMAIN b = 1..q
  BY DEF IsTableOf
<1>2. /\ \A i \in 1..p : a[i].number \in Nat
      /\ \A i \in 1..q : b[i].number \in Nat
  <2>1. (\A i \in 1..p : a[i].number \in S) /\ (\A i \in 1..q : b[i].number \in S)
    BY <1>1 DEF IsTableOf
  <2>2. QED
    BY <2>1, BytesAreNat
<1>3. /\ \A i, j \in 1..p : i < j => a[i].number < a[j].number
      /\ \A i, j \in 1..q : i < j => b[i].number < b[j].number
      /\ {a[i].number : i \in 1..p} = S
      /\ {b[i].number : i \in 1..q} = S
  BY <1>1 DEF IsTableOf
<1> HIDE DEF p, q
<1>4. f \in [1..p -> Nat] /\ h \in [1..q -> Nat]
  BY <1>2
<1>5. (\A i \in 1..p : f[i] = a[i].number) /\ (\A i \in 1..q : h[i] = b[i].number)
  OBVIOUS
<1> HIDE DEF f, h
<1>6. {f[i] : i \in 1..p} = {h[i] : i \in 1..q}
  <2>1. {f[i] : i \in 1..p} = {a[i].number : i \in 1..p}
    BY <1>5
  <2>2. {h[i] : i \in 1..q} = {b[i].number : i \in 1..q}
    BY <1>5
  <2>3. QED
    BY <1>3, <2>1, <2>2
<1>7. p = q /\ \A i \in 1..p : f[i] = h[i]
  <2>1. /\ \A i, j \in 1..p : i < j => f[i] < f[j]
        /\ \A i, j \in 1..q : i < j => h[i] < h[j]
    BY <1>3, <1>5
  <2>2. p \in Nat /\ q \in Nat
    BY <1>1
  <2>3. QED
    BY <1>4, <1>6, <2>1, <2>2, OneOrder, ZenonT(60)
<1>8. \A i \in 1..p : a[i] = b[i]
  <2> SUFFICES ASSUME NEW i \in 1..p PROVE a[i] = b[i]
    OBVIOUS
  <2>1. a[i].number = b[i].number /\ i \in DOMAIN a /\ i \in DOMAIN b
    BY <1>1, <1>5, <1>7
  <2>2. /\ a[i] = BodyOf(st, g, S, a[i].number)
        /\ b[i] = BodyOf(st, g, S, b[i].number)
    BY <2>1 DEF IsTableOf
  <2>3. QED
    BY <2>1, <2>2
<1>9. QED
  BY <1>1, <1>7, <1>8

=============================================================================
