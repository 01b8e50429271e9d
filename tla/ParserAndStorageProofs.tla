----------------------- MODULE ParserAndStorageProofs ------------------------
(***************************************************************************)
(* The parser with the table caches behind it, for every set of            *)
(* programmes, of frequencies, of sub-tables and of their shapes: what the *)
(* caches hold is whole, a table taken for known is known, and a kept      *)
(* parser never fills a cache again with what it has delivered.            *)
(***************************************************************************)
EXTENDS ParserAndStorage, BroadcastProofs

\* The list of a sub-table, and the generation and shape its front is of.
ListOf(st) == m_sectionMap[SubTableKey(st)]
GenOf(l) == Front(l).Body.gen
LayoutOf(l) == Front(l).Body.layout

\* A generation of a sub-table that may have been received, in its shape.
Possible(st, g, S) ==
  /\ g \in 1..MaxGeneration[st]
  /\ g <= onAir[st].gen + 1
  /\ S \in Layouts[st]
  /\ g = onAir[st].gen => S = onAir[st].numbers
  /\ g = onAir[st].gen + 1 => S = onAir[st].announced

\* A section that is or was on air: its header goes with what it carries.
FromAir(s) ==
  /\ s.Body.of \in OnAirNow
  /\ s.Body.gen \in 1..onAir[s.Body.of].gen + 1
  /\ s.TableId = SubTableId[s.Body.of]
  /\ s.Ext = SubTableExt[s.Body.of]
  /\ s.Version = VersionNumber(s.Body.gen)

AllFromAir ==
  \A k \in Keys : \A i \in DOMAIN m_sectionMap[k].Sections :
    FromAir(m_sectionMap[k].Sections[i])

\* The parser's list under the sub-table's key is that sub-table's alone: a
\* new parser has heard the present frequency only, a kept one them all.
Mine(st) == IF renews THEN st \in Received ELSE AloneInParser(st)

\* It then holds one generation.
ListHeld(st) ==
  LET l == ListOf(st)
  IN Mine(st) /\ l.Sections # << >> =>
       /\ Possible(st, GenOf(l), LayoutOf(l))
       /\ HeldOf(st, l, GenOf(l), LayoutOf(l))

\* Section m is sent from section f on before section c is.
Passed(f, c, m) == IF f < c THEN f <= m /\ m < c ELSE f <= m \/ m < c

\* The list of an EIT heard since its parser was made misses nothing that was
\* sent since the first of its sections.
EitCycle(st) ==
  LET l == ListOf(st)
  IN /\ renews /\ st \in Received /\ IsEit(SubTableId[st])
     /\ l.Sections # << >> /\ GenOf(l) = onAir[st].gen
     => \A m \in onAir[st].numbers :
          l.IsComplete \/ Passed(l.First, cursor[st], m) => m \in NumbersIn(l)

\* What CachedWhole is promised of.
Trusted(st) == renews \/ (AloneInParser(st) /\ ~ IsEit(SubTableId[st]))

\* A cache entry is under its sub-table's key, with its version number, and
\* whole if that is promised.
EntryInv(key) ==
  LET content == cache[key].Content
      st == content[1].of
      g == content[1].gen
  IN /\ content # << >>
     /\ st \in OnAirNow
     /\ KeyOfSubTable(st) = key
     /\ g \in 1..onAir[st].gen + 1
     /\ cache[key].Version = VersionNumber(g)
     /\ Trusted(st) => /\ Possible(st, g, content[1].layout)
                       /\ IsTableOf(content, st, g, content[1].layout)

\* A kept parser has delivered the generation its complete list holds, and
\* none so recent if the list is not complete; the cache holds no later one.
GivenInv(st) ==
  LET l == ListOf(st)
  IN ~ renews /\ AloneInParser(st) /\ st \notin Announced =>
       /\ l.Sections = << >> => given[st] = 0
       /\ l.Sections # << >> /\ l.IsComplete => given[st] = GenOf(l)
       /\ l.Sections # << >> /\ ~ l.IsComplete => given[st] < GenOf(l)
       /\ \A key \in DOMAIN cache :
            cache[key].Content[1].of = st => cache[key].Content[1].gen <= given[st]

\* What is announced is so for a reason.
AnnouncedInv(st) ==
  onAir[st].announced # {} => st \in Announced /\ onAir[st].gen < MaxGeneration[st]

\* The state besides the parser's, as functions.
FeedFunctions ==
  /\ onAir \in [OnAirNow -> [gen: Nat, numbers: SUBSET Byte, announced: SUBSET Byte]]
  /\ cursor \in [OnAirNow -> Byte]
  /\ given \in [OnAirNow -> Nat]
  /\ renews \in BOOLEAN

\* The inductive invariant.
FeedInv ==
  /\ ParserInv
  /\ ObserverVector[Application] > 0
  /\ FeedFunctions
  /\ FeedTypeOK
  /\ AllFromAir
  /\ \A st \in OnAirNow : AnnouncedInv(st) /\ ListHeld(st) /\ EitCycle(st) /\ GivenInv(st)
  /\ \A key \in DOMAIN cache : EntryInv(key)

-----------------------------------------------------------------------------
(***************************************************************************)
(* Sub-tables on air.                                                      *)
(***************************************************************************)
\* What is on air are sub-tables.
LEMMA OnAirAreSubTables ==
  ASSUME FeedTypeOK
  PROVE  /\ OnAirNow \subseteq SubTables
         /\ Received \subseteq OnAirNow
         /\ OneKeyPerFrequency(OnAirNow)
BY FeedAssumption DEF FeedTypeOK, Received

\* A list that is one sub-table's alone receives no section of another.
LEMMA MineAlone ==
  ASSUME FeedTypeOK, NEW u \in OnAirNow, NEW st \in Received,
         Mine(u), SubTableKey(u) = SubTableKey(st)
  PROVE  u = st
<1>1. st \in OnAirNow /\ OneKeyPerFrequency(OnAirNow)
  BY OnAirAreSubTables
<1>2. CASE renews
  <2>1. tuned \in SentOn[u] /\ tuned \in SentOn[st]
    BY <1>2 DEF Mine, Received
  <2>2. QED
    BY <1>1, <2>1 DEF OneKeyPerFrequency
<1>3. CASE ~ renews
  BY <1>1, <1>3 DEF Mine, AloneInParser
<1>4. QED
  BY <1>2, <1>3

\* Version numbers tell the generations of a sub-table apart.
LEMMA VersionsTell ==
  ASSUME NEW st \in SubTables,
         NEW g \in 1..MaxGeneration[st], NEW h \in 1..MaxGeneration[st],
         VersionNumber(g) = VersionNumber(h)
  PROVE  g = h
<1>1. MaxGeneration[st] \in Nat /\ MaxGeneration[st] < 32
  BY FeedAssumption, BroadcastAssumption
<1>2. g \in Nat /\ h \in Nat /\ g - h <= 31 /\ h - g <= 31
  BY <1>1
<1>3. ~ (h < g) /\ ~ (g < h)
  BY <1>2, VersionsDiffer
<1>4. QED
  BY <1>2, <1>3

\* A generation that is possible and sent now has the shape that is sent.
LEMMA OneShape ==
  ASSUME NEW st, NEW g, NEW S, NEW T, Possible(st, g, S), Possible(st, g, T),
         onAir[st].gen \in Nat, g >= onAir[st].gen
  PROVE  S = T
<1>1. g \in Int
  BY DEF Possible
<1>2. g = onAir[st].gen \/ g = onAir[st].gen + 1
  BY <1>1 DEF Possible
<1>3. QED
  BY <1>2 DEF Possible

\* What is on air, and what is announced, is possible.
LEMMA OnAirIsPossible ==
  ASSUME FeedTypeOK, FeedFunctions, NEW st \in OnAirNow
  PROVE  /\ onAir[st].gen \in Nat \ {0}
         /\ Possible(st, onAir[st].gen, onAir[st].numbers)
         /\ cursor[st] \in onAir[st].numbers
         /\ AnnouncedInv(st) /\ onAir[st].announced # {}
              => Possible(st, onAir[st].gen + 1, onAir[st].announced)
<1>1. /\ onAir[st].gen \in 1..MaxGeneration[st]
      /\ onAir[st].numbers \in Layouts[st]
      /\ onAir[st].announced \in Layouts[st] \cup {{}}
      /\ cursor[st] \in onAir[st].numbers
  BY DEF FeedTypeOK
<1>2. onAir[st].gen \in Nat
  BY DEF FeedFunctions
<1>3. MaxGeneration[st] \in Nat
  BY OnAirAreSubTables, BroadcastAssumption
<1>4. QED
  BY <1>1, <1>2, <1>3 DEF Possible, AnnouncedInv

-----------------------------------------------------------------------------
(***************************************************************************)
(* The lists.                                                              *)
(***************************************************************************)
\* AddSiSection leaves the new section and sections of the old list.
LEMMA AddSiSectionAdds ==
  ASSUME NEW s \in Section, NEW l, ListInv(l, <<s.TableId, s.Ext>>)
  PROVE  LET new == AddSiSection(l, s)
         IN /\ new.Sections # << >>
            /\ \A i \in DOMAIN new.Sections :
                 new.Sections[i] = s \/ \E j \in DOMAIN l.Sections : new.Sections[i] = l.Sections[j]
<1> DEFINE new == AddSiSection(l, s)
           secs == InsertSectionIntoList(l.Sections, s)
<1>1. CASE StartsAgain(l, s)
  <2>1. new.Sections = <<s>>
    BY <1>1 DEF AddSiSection, InitializeSectionList
  <2>2. QED
    BY <2>1
<1>2. CASE ~ StartsAgain(l, s)
  <2>1. l.Sections # << >> /\ l.Sections \in Seq(Section) /\ Ordered(l.Sections) /\ l \in List
    BY <1>2 DEF StartsAgain, ListInv, List
  <2>2. CASE ~ Accepts(l, s)
    <3>1. new = l
      BY <1>2, <2>2 DEF AddSiSection
    <3>2. QED
      BY <2>1, <3>1
  <2>3. CASE Accepts(l, s)
    <3>1. new.Sections = secs
      BY <1>2, <2>1, <2>3 DEF AddSiSection, AddedTo, List
    <3>2. /\ \A i \in DOMAIN secs : secs[i] = s \/ \E j \in DOMAIN l.Sections : secs[i] = l.Sections[j]
          /\ \E i \in DOMAIN secs : secs[i].Number = s.Number
      BY <2>1, InsertSection
    <3> HIDE DEF new, secs
    <3>3. secs # << >>
      BY <3>2
    <3>4. QED
      BY <3>1, <3>2, <3>3 DEF new
  <2>4. QED
    BY <2>2, <2>3
<1>3. QED
  BY <1>1, <1>2

\* A section sent now is from the air, for the parser, and a supported one.
LEMMA SentIsFromAir ==
  ASSUME FeedInv, NEW st \in Received, NEW g, NEW S, Possible(st, g, S),
         NEW n \in S, NEW current \in BOOLEAN
  PROVE  LET s == SectionOnAir(st, g, S, n, current)
         IN /\ s \in Sections /\ s \in Section
            /\ KeyOf(s) = SubTableKey(st) /\ SubTableKey(st) = <<s.TableId, s.Ext>>
            /\ SubTableKey(st) \in Keys
            /\ FromAir(s)
<1> DEFINE s == SectionOnAir(st, g, S, n, current)
<1>1. st \in SubTables /\ st \in OnAirNow
  BY OnAirAreSubTables DEF FeedInv
<1>2. g \in 1..MaxGeneration[st] /\ S \in Layouts[st] /\ g <= onAir[st].gen + 1
  BY DEF Possible
<1>3. s \in Sections /\ s \in Section /\ KeyOf(s) = SubTableKey(st)
  BY <1>1, <1>2, OnAirIsSection
<1>4. /\ s.Body.of = st /\ s.Body.gen = g
      /\ s.TableId = SubTableId[st] /\ s.Ext = SubTableExt[st]
      /\ s.Version = VersionNumber(g)
  BY DEF SectionOnAir
<1>5. onAir[st].gen \in Nat /\ MaxGeneration[st] \in Nat
  BY <1>1, BroadcastAssumption DEF FeedInv, FeedFunctions
<1> HIDE DEF s
<1>6. FromAir(s)
  BY <1>1, <1>2, <1>4, <1>5 DEF FromAir
<1>7. SubTableKey(st) = <<s.TableId, s.Ext>>
  BY <1>3 DEF KeyOf
<1>8. QED
  BY <1>1, <1>3, <1>6, <1>7, SubTableHasList DEF s

\* The version number of a section sent now tells its generation from the one
\* in the list, if the list is its sub-table's alone.
LEMMA ListTells ==
  ASSUME FeedInv, NEW st \in Received, Mine(st),
         NEW g, NEW S, Possible(st, g, S), g >= onAir[st].gen
  PROVE  LET l == ListOf(st)
         IN /\ HeldOf(st, l, GenOf(l), LayoutOf(l))
            /\ l.Sections # << >> => Possible(st, GenOf(l), LayoutOf(l))
            /\ l.Sections # << >> /\ VersionNumber(GenOf(l)) = VersionNumber(g)
                 => GenOf(l) = g /\ LayoutOf(l) = S
<1> DEFINE l == ListOf(st)
<1>1. st \in OnAirNow /\ st \in SubTables /\ onAir[st].gen \in Nat
  BY OnAirAreSubTables DEF FeedInv, FeedFunctions
<1>2. l.Sections # << >> => /\ Possible(st, GenOf(l), LayoutOf(l))
                            /\ HeldOf(st, l, GenOf(l), LayoutOf(l))
  BY <1>1 DEF FeedInv, ListHeld
<1>3. l.Sections = << >> => HeldOf(st, l, GenOf(l), LayoutOf(l))
  BY DEF HeldOf
<1>4. ASSUME l.Sections # << >>, VersionNumber(GenOf(l)) = VersionNumber(g)
      PROVE  GenOf(l) = g /\ LayoutOf(l) = S
  <2>1. Possible(st, GenOf(l), LayoutOf(l))
    BY <1>2, <1>4
  <2>2. GenOf(l) \in 1..MaxGeneration[st] /\ g \in 1..MaxGeneration[st]
    BY <2>1 DEF Possible
  <2>3. GenOf(l) = g
    BY <1>1, <1>4, <2>2, VersionsTell
  <2>4. QED
    BY <1>1, <2>1, <2>3, OneShape
<1>5. QED
  BY <1>2, <1>3, <1>4

\* What a section sent now makes of the lists: the one of its key is changed
\* and holds, if it is its sub-table's alone, the generation of the section.
LEMMA ListStep ==
  ASSUME FeedInv, NEW st \in Received, NEW g, NEW S, Possible(st, g, S), g >= onAir[st].gen,
         NEW n \in S, NEW current \in BOOLEAN,
         HandleSection(SectionOnAir(st, g, S, n, current))
  PROVE  LET k == SubTableKey(st)
             new == AddSiSection(ListOf(st), SectionOnAir(st, g, S, n, current))
         IN /\ m_sectionMap' = [m_sectionMap EXCEPT ![k] = new]
            /\ m_sectionMap'[k] = new
            /\ ListInv(new, k)
            /\ new.Sections # << >>
            /\ \A i \in DOMAIN new.Sections : FromAir(new.Sections[i])
            /\ Mine(st) => /\ HeldOf(st, new, g, S)
                           /\ GenOf(new) = g
                           /\ LayoutOf(new) = S
<1> DEFINE s == SectionOnAir(st, g, S, n, current)
           k == SubTableKey(st)
           l == ListOf(st)
           new == AddSiSection(l, s)
<1>1. /\ s \in Section /\ k = <<s.TableId, s.Ext>> /\ KeyOf(s) = k /\ k \in Keys
      /\ FromAir(s)
  BY SentIsFromAir
<1>2. m_sectionMap' = [m_sectionMap EXCEPT ![k] = new]
  BY <1>1 DEF HandleSection, ListOf
<1>3. ListInv(l, k)
  BY <1>1 DEF FeedInv, ParserInv, ListOf
<1>4. st \in OnAirNow /\ st \in SubTables /\ onAir[st].gen \in Nat
  BY OnAirAreSubTables DEF FeedInv, FeedFunctions
<1> HIDE DEF s
<1>5. ListInv(new, k)
  BY <1>1, <1>3, AddSiSectionInv
<1>6. m_sectionMap'[k] = new
  BY <1>1, <1>2 DEF FeedInv, ParserInv, TypeOK
<1>7. /\ new.Sections # << >>
      /\ \A i \in DOMAIN new.Sections :
           new.Sections[i] = s \/ \E j \in DOMAIN l.Sections : new.Sections[i] = l.Sections[j]
  BY <1>1, <1>3, AddSiSectionAdds
<1>8. \A j \in DOMAIN l.Sections : FromAir(l.Sections[j])
  BY <1>1 DEF FeedInv, AllFromAir, ListOf
<1>9. \A i \in DOMAIN new.Sections : FromAir(new.Sections[i])
  BY <1>1, <1>7, <1>8
<1>10. ASSUME Mine(st) PROVE HeldOf(st, new, g, S) /\ GenOf(new) = g /\ LayoutOf(new) = S
  <2>1. HeldOf(st, l, GenOf(l), LayoutOf(l))
    BY <1>10, ListTells
  <2>2. l.Sections # << >> /\ VersionNumber(GenOf(l)) = VersionNumber(g)
          => GenOf(l) = g /\ LayoutOf(l) = S
    BY <1>10, ListTells
  <2>4. HeldOf(st, new, g, S)
    <3>1. g \in 1..MaxGeneration[st] /\ S \in Layouts[st]
      BY DEF Possible
    <3>2. QED
      BY <1>3, <1>4, <2>1, <2>2, <3>1, AddSiSectionHolds DEF s
  <2>5. Front(new).Body = BodyOf(st, g, S, Front(new).Number)
    <3>1. 1 \in DOMAIN new.Sections
      BY <1>5, <1>7 DEF ListInv, List
    <3> HIDE DEF new
    <3>2. QED
      BY <2>4, <3>1, HeldSections DEF Front
  <2>6. QED
    BY <2>4, <2>5 DEF BodyOf, GenOf, LayoutOf
<1>11. QED
  BY <1>2, <1>5, <1>6, <1>7, <1>9, <1>10 DEF s

-----------------------------------------------------------------------------
(***************************************************************************)
(* EITs, which are complete when their first section comes round again.    *)
(***************************************************************************)
\* After the first section only that has passed.
LEMMA PassedFirst ==
  ASSUME NEW S \in SUBSET Byte, NEW n \in S, NEW m \in S, Passed(n, Following(S, n), m)
  PROVE  m = n
<1>1. n \in Nat /\ m \in Nat
  BY BytesAreNat
<1>2. Following(S, n) \in Nat
  BY FollowingIsIn, BytesAreNat
<1>3. \/ /\ Following(S, n) > n
         /\ m <= n \/ Following(S, n) <= m
      \/ /\ Following(S, n) <= n
         /\ Following(S, n) <= m /\ m <= n
  BY FollowingIsNext
<1>4. QED
  BY <1>1, <1>2, <1>3 DEF Passed

\* After another what had passed before has, and that one.
LEMMA PassedNext ==
  ASSUME NEW S \in SUBSET Byte, NEW f \in S, NEW n \in S, NEW m \in S, f # n,
         Passed(f, Following(S, n), m)
  PROVE  Passed(f, n, m) \/ m = n
<1>1. n \in Nat /\ m \in Nat /\ f \in Nat
  BY BytesAreNat
<1>2. Following(S, n) \in Nat
  BY FollowingIsIn, BytesAreNat
<1>3. \/ /\ Following(S, n) > n
         /\ m <= n \/ Following(S, n) <= m
         /\ f <= n \/ Following(S, n) <= f
      \/ /\ Following(S, n) <= n
         /\ Following(S, n) <= m /\ m <= n
         /\ Following(S, n) <= f /\ f <= n
  BY FollowingIsNext
<1>4. QED
  BY <1>1, <1>2, <1>3 DEF Passed

\* The section numbers in a list of one generation are of its shape.
LEMMA NumbersAreOfShape ==
  ASSUME NEW st, NEW l, NEW g, NEW S, HeldOf(st, l, g, S)
  PROVE  NumbersIn(l) \subseteq S
BY HeldSections DEF NumbersIn

\* A list that misses nothing sent since its first section does not after the
\* next.
LEMMA CycleStep ==
  ASSUME NEW st \in SubTables, IsEit(SubTableId[st]),
         NEW l, ListInv(l, SubTableKey(st)),
         NEW h, NEW g \in 1..MaxGeneration[st],
         NEW T, NEW S \in Layouts[st], NEW n \in S, NEW current \in BOOLEAN,
         l.Sections # << >> /\ VersionNumber(h) = VersionNumber(g) => h = g /\ T = S,
         HeldOf(st, l, h, T),
         NEW m \in S,
         /\ l.Sections # << >> /\ h = g
         /\ l.IsComplete \/ Passed(l.First, n, m)
         => m \in NumbersIn(l)
  PROVE  LET new == AddSiSection(l, SectionOnAir(st, g, S, n, current))
         IN new.IsComplete \/ Passed(new.First, Following(S, n), m) => m \in NumbersIn(new)
<1> DEFINE s == SectionOnAir(st, g, S, n, current)
           new == AddSiSection(l, s)
<1>1. S \in SUBSET Byte
  BY LayoutsAreBytes
<1>2. CASE StartsAgain(l, s)
  <2>1. NumbersIn(new) = {n} /\ new.First = n
    BY <1>2, StartedAgain
  <2>2. ~ new.IsComplete
    BY <1>2, StartedAgain
  <2> HIDE DEF new
  <2>3. Passed(n, Following(S, n), m) => m = n
    BY <1>1, PassedFirst
  <2>4. new.IsComplete \/ Passed(new.First, Following(S, n), m) => m \in NumbersIn(new)
    BY <2>1, <2>2, <2>3
  <2>5. QED
    BY <2>4 DEF new
<1>3. CASE ~ StartsAgain(l, s)
  <2>1. l.Sections # << >>
    BY <1>3 DEF StartsAgain
  <2>2. /\ VersionNumber(h) = VersionNumber(g)
        /\ Accepts(l, s) <=> ~ l.IsComplete
    BY <1>3, <2>1, StartsOnVersion, ZenonT(60)
  <2>3. h = g /\ HeldOf(st, l, g, S)
    BY <2>1, <2>2
  <2>4. l.IsComplete \/ Passed(l.First, n, m) => m \in NumbersIn(l)
    BY <2>1, <2>3
  <2>5. l.First \in S
    <3>1. l.First \in NumbersIn(l)
      BY <2>1 DEF ListInv, Contains, NumbersIn
    <3>2. QED
      BY <2>3, <3>1, NumbersAreOfShape
  <2>6. CASE l.IsComplete
    <3>1. new = l
      BY <1>3, <2>2, <2>6 DEF AddSiSection
    <3>2. QED
      BY <2>4, <2>6, <3>1
  <2>7. CASE ~ l.IsComplete
    <3>1. Accepts(l, s)
      BY <2>2, <2>7
    <3>2. NumbersIn(new) = NumbersIn(l) \cup {n} /\ new.First = l.First
      BY <1>3, <2>3, <2>7, <3>1, SectionAdded
    <3>3. new.IsComplete => l.First = n
      BY <1>3, <2>3, <2>7, <3>1, SectionAdded
    <3> HIDE DEF new
    <3>4. CASE l.First = n
      <4>1. n \in Nat /\ m \in Nat
        BY <1>1, BytesAreNat
      <4>2. Passed(n, n, m)
        BY <4>1 DEF Passed
      <4>3. m \in NumbersIn(new)
        BY <2>4, <3>2, <3>4, <4>2
      <4>4. QED
        BY <4>3 DEF new
    <3>5. CASE l.First # n
      <4>1. Passed(l.First, Following(S, n), m) => Passed(l.First, n, m) \/ m = n
        BY <1>1, <2>5, <3>5, PassedNext
      <4>2. new.IsComplete \/ Passed(new.First, Following(S, n), m) => m \in NumbersIn(new)
        BY <2>4, <3>2, <3>3, <3>5, <4>1
      <4>3. QED
        BY <4>2 DEF new
    <3>6. QED
      BY <3>4, <3>5
  <2>8. QED
    BY <2>6, <2>7
<1>4. QED
  BY <1>2, <1>3

\* The list of an EIT that a new parser is sent the next section of.
LEMMA EitStep ==
  ASSUME FeedInv, renews, NEW st \in Received, IsEit(SubTableId[st]),
         NEW g, NEW S, Possible(st, g, S), g >= onAir[st].gen,
         NEW n \in S, NEW current \in BOOLEAN, NEW m \in S
  PROVE  LET new == AddSiSection(ListOf(st), SectionOnAir(st, g, S, n, current))
         IN /\ g = onAir[st].gen /\ n = cursor[st]
            /\ new.IsComplete \/ Passed(new.First, Following(S, n), m)
            => m \in NumbersIn(new)
<1> DEFINE l == ListOf(st)
           new == AddSiSection(l, SectionOnAir(st, g, S, n, current))
<1>1. /\ st \in OnAirNow /\ st \in SubTables
      /\ S \in Layouts[st] /\ g \in 1..MaxGeneration[st]
  BY OnAirAreSubTables DEF FeedInv, Possible
<1>2. Mine(st)
  BY DEF Mine
<1>3. ListInv(l, SubTableKey(st))
  BY <1>1, SubTableHasList DEF FeedInv, ParserInv, ListOf
<1>4. /\ HeldOf(st, l, GenOf(l), LayoutOf(l))
      /\ l.Sections # << >> /\ VersionNumber(GenOf(l)) = VersionNumber(g)
           => GenOf(l) = g /\ LayoutOf(l) = S
  BY <1>2, ListTells
<1>5. /\ g = onAir[st].gen /\ n = cursor[st]
      /\ l.Sections # << >> /\ GenOf(l) = g
      /\ l.IsComplete \/ Passed(l.First, n, m)
      => m \in NumbersIn(l)
  <2>1. g = onAir[st].gen => S = onAir[st].numbers
    BY DEF Possible
  <2>2. QED
    BY <1>1, <2>1 DEF FeedInv, EitCycle
<1> HIDE DEF l
<1>6. ASSUME /\ l.Sections # << >> /\ GenOf(l) = g
             /\ l.IsComplete \/ Passed(l.First, n, m)
             => m \in NumbersIn(l)
      PROVE  new.IsComplete \/ Passed(new.First, Following(S, n), m) => m \in NumbersIn(new)
  BY <1>1, <1>3, <1>4, <1>6, CycleStep
<1> HIDE DEF new
<1>7. /\ g = onAir[st].gen /\ n = cursor[st]
      /\ new.IsComplete \/ Passed(new.First, Following(S, n), m)
      => m \in NumbersIn(new)
  BY <1>5, <1>6
<1>8. QED
  BY <1>7 DEF new, l

-----------------------------------------------------------------------------
(***************************************************************************)
(* The table.                                                              *)
(***************************************************************************)
\* The table in a SendEvent: of one sub-table with the key of the section,
\* the section's own and whole where that is promised.
LEMMA TableStep ==
  ASSUME FeedInv, NEW st \in Received, NEW g, NEW S, Possible(st, g, S), g >= onAir[st].gen,
         NEW n \in S, NEW current \in BOOLEAN,
         IsEit(SubTableId[st]) => g = onAir[st].gen /\ n = cursor[st],
         HandleSection(SectionOnAir(st, g, S, n, current)),
         NEW m \in sent'
  PROVE  LET new == AddSiSection(ListOf(st), SectionOnAir(st, g, S, n, current))
             content == m.table.Content
             u == content[1].of
         IN /\ new.IsComplete /\ m.table = TableOf(new)
            /\ content # << >>
            /\ u \in OnAirNow /\ SubTableKey(u) = SubTableKey(st)
            /\ KeyOfTable(m.table) = KeyOfSubTable(u)
            /\ content[1].gen \in 1..onAir[u].gen + 1
            /\ m.table.Version = VersionNumber(content[1].gen)
            /\ Mine(u) => u = st
            /\ Mine(st) => u = st /\ content[1].gen = g
            /\ Trusted(u) => IsTableOf(content, u, g, S)
<1> DEFINE s == SectionOnAir(st, g, S, n, current)
           k == SubTableKey(st)
           new == AddSiSection(ListOf(st), s)
           content == m.table.Content
           u == content[1].of
<1>1. /\ m_sectionMap'[k] = new
      /\ ListInv(new, k)
      /\ new.Sections # << >>
      /\ \A i \in DOMAIN new.Sections : FromAir(new.Sections[i])
      /\ Mine(st) => /\ HeldOf(st, new, g, S)
                     /\ GenOf(new) = g
                     /\ LayoutOf(new) = S
  BY ListStep
<1>2. KeyOf(s) = k /\ k \in Keys
  BY SentIsFromAir
<1>3. new.IsComplete /\ m.table \in BuildTable(new)
  BY <1>2 DEF HandleSection, NotifyDvbSectionParserObserver, ListOf
<1>4. FeedTypeOK /\ OnAirNow \subseteq SubTables
  BY OnAirAreSubTables DEF FeedInv
<1> HIDE DEF new, s, k
<1>5. 1 \in DOMAIN new.Sections /\ FromAir(Front(new))
  <2>1. 1 \in DOMAIN new.Sections
    BY <1>1 DEF ListInv, List
  <2>2. QED
    BY <1>1, <2>1 DEF Front
<1>6. m.table = TableOf(new)
  BY <1>3 DEF BuildTable
<1>7. /\ content = Content(new.Sections)
      /\ m.table.TableId = Front(new).TableId /\ m.table.Ext = Front(new).Ext
      /\ m.table.Version = Front(new).Version
  BY <1>6 DEF TableOf
<1>8. content # << >> /\ content[1] = Front(new).Body
  <2>1. Front(new).TableId \notin {TDT, TOT}
    BY <1>4, <1>5, BroadcastAssumption DEF FromAir
  <2>2. content = [i \in DOMAIN new.Sections |-> new.Sections[i].Body]
    BY <1>7, <2>1 DEF Content, Front
  <2>3. QED
    BY <1>5, <2>2 DEF Front
<1> HIDE DEF content
<1>9. /\ u \in OnAirNow
      /\ content[1].gen \in 1..onAir[u].gen + 1
      /\ m.table.Version = VersionNumber(content[1].gen)
      /\ m.table.TableId = SubTableId[u] /\ m.table.Ext = SubTableExt[u]
  BY <1>5, <1>7, <1>8 DEF FromAir
<1>10. SubTableKey(u) = k
  BY <1>1, <1>7, <1>9 DEF ListInv, Keyed, SubTableKey, k
<1>11. KeyOfTable(m.table) = KeyOfSubTable(u)
  BY <1>9 DEF KeyOfTable, KeyOfSubTable, content
<1>12. Mine(u) => u = st
  BY <1>4, <1>9, <1>10, MineAlone DEF k
<1>13. Mine(st) => u = st /\ content[1].gen = g
  <2>1. Front(new).Body = BodyOf(st, GenOf(new), LayoutOf(new), Front(new).Number) \/ ~ Mine(st)
    BY <1>1, <1>5, HeldSections DEF Front
  <2>2. QED
    BY <1>1, <1>8, <2>1 DEF BodyOf
<1>14. ASSUME Trusted(u) PROVE IsTableOf(content, u, g, S)
  <2>1. Mine(st) /\ u = st
    <3>1. renews => Mine(st)
      BY DEF Mine
    <3>2. ~ renews => Mine(u)
      BY <1>14 DEF Mine, Trusted
    <3>3. QED
      BY <1>12, <1>13, <3>1, <3>2
  <2>2. NumbersIn(new) = S
    <3>1. CASE IsEit(SubTableId[st])
      <4>1. renews
        BY <1>14, <2>1, <3>1 DEF Trusted
      <4>2. \A p \in S : p \in NumbersIn(new)
        BY <1>3, <3>1, <4>1, EitStep DEF new, s
      <4>3. NumbersIn(new) \subseteq S
        BY <1>1, <2>1, NumbersAreOfShape
      <4>4. QED
        BY <4>2, <4>3
    <3>2. CASE ~ IsEit(SubTableId[st])
      <4>1. st \in SubTables /\ S \in Layouts[st]
        BY <1>4, <1>9, <2>1 DEF Possible
      <4>2. QED
        BY <1>1, <1>3, <2>1, <3>2, <4>1, CompleteHasAll DEF k
    <3>3. QED
      BY <3>1, <3>2
  <2>3. st \in SubTables
    BY <1>4, <1>9, <2>1
  <2>4. IsTableOf(Content(new.Sections), st, g, S)
    BY <1>1, <2>1, <2>2, <2>3, TableFromList DEF k
  <2>5. QED
    BY <1>7, <2>1, <2>4
<1>15. QED
  BY <1>3, <1>6, <1>8, <1>9, <1>10, <1>11, <1>12, <1>13, <1>14 DEF content, new, s, k

-----------------------------------------------------------------------------
(***************************************************************************)
(* What a delivered section leaves: lists, cache, and what was given.      *)
(***************************************************************************)
\* What is on air says what may have been received.
LEMMA SameAir ==
  ASSUME UNCHANGED <<onAir, renews>>
  PROVE  /\ OnAirNow' = OnAirNow
         /\ \A v, h, T : Possible(v, h, T)' <=> Possible(v, h, T)
         /\ \A v : (AloneInParser(v)' <=> AloneInParser(v)) /\ (Trusted(v)' <=> Trusted(v))
         /\ \A x : FromAir(x)' <=> FromAir(x)
<1>1. onAir' = onAir /\ renews' = renews
  OBVIOUS
<1>2. OnAirNow' = OnAirNow
  BY <1>1 DEF OnAirNow
<1>3. \A v, h, T : Possible(v, h, T)' <=> Possible(v, h, T)
  BY <1>1 DEF Possible
<1>4. \A v : AloneInParser(v)' <=> AloneInParser(v)
  BY <1>2 DEF AloneInParser
<1>5. \A v : Trusted(v)' <=> Trusted(v)
  BY <1>1, <1>4 DEF Trusted
<1>6. \A x : FromAir(x)' <=> FromAir(x)
  BY <1>1, <1>2 DEF FromAir
<1>7. QED
  BY <1>2, <1>3, <1>4, <1>5, <1>6

\* The lists are sound after it.
LEMMA ListsAfter ==
  ASSUME FeedInv, NEW st \in Received, NEW g, NEW S, Possible(st, g, S), g >= onAir[st].gen,
         NEW n \in S, NEW current \in BOOLEAN,
         HandleSection(SectionOnAir(st, g, S, n, current)),
         UNCHANGED <<onAir, tuned, renews>>
  PROVE  /\ ParserInv' /\ ObserverVector'[Application] > 0
         /\ AllFromAir'
         /\ \A u \in OnAirNow : ListHeld(u)'
<1> DEFINE s == SectionOnAir(st, g, S, n, current)
           k == SubTableKey(st)
           new == AddSiSection(ListOf(st), s)
<1>1. ParserInv' /\ ObserverVector' = ObserverVector
  BY SentIsFromAir, HandleSectionInv DEF FeedInv, HandleSection
<1>2. /\ m_sectionMap' = [m_sectionMap EXCEPT ![k] = new]
      /\ m_sectionMap'[k] = new
      /\ new.Sections # << >>
      /\ \A i \in DOMAIN new.Sections : FromAir(new.Sections[i])
      /\ Mine(st) => /\ HeldOf(st, new, g, S)
                     /\ GenOf(new) = g
                     /\ LayoutOf(new) = S
  BY ListStep
<1> HIDE DEF new, k
<1>3. DOMAIN m_sectionMap = Keys
  BY DEF FeedInv, ParserInv, TypeOK
<1>4. AllFromAir'
  <2> SUFFICES ASSUME NEW j \in Keys, NEW i \in DOMAIN m_sectionMap'[j].Sections
               PROVE  FromAir(m_sectionMap[j].Sections[i])'
    BY DEF AllFromAir
  <2>1. FromAir(m_sectionMap'[j].Sections[i])
    <3>1. CASE j = k
      BY <1>2, <3>1
    <3>2. CASE j # k
      <4>1. m_sectionMap'[j] = m_sectionMap[j]
        BY <1>2, <1>3, <3>2
      <4>2. QED
        BY <4>1 DEF FeedInv, AllFromAir
    <3>3. QED
      BY <3>1, <3>2
  <2>2. FromAir(m_sectionMap[j].Sections[i])' <=> FromAir(m_sectionMap'[j].Sections[i])
    BY SameAir DEF FromAir
  <2>3. QED
    BY <2>1, <2>2
<1>5. ASSUME NEW u \in OnAirNow PROVE ListHeld(u)'
  <2>1. Mine(u)' <=> Mine(u)
    <3>1. tuned' = tuned /\ renews' = renews
      OBVIOUS
    <3>2. Received' = Received
      BY <3>1, SameAir DEF Received
    <3>3. QED
      BY <3>1, <3>2, SameAir DEF Mine
  <2>2. \A h, T : Possible(u, h, T)' <=> Possible(u, h, T)
    BY SameAir
  <2>3. CASE SubTableKey(u) = k /\ Mine(u)
    <3>1. u = st
      BY <2>3, MineAlone DEF FeedInv, k
    <3>2. ListOf(u)' = new
      BY <1>2, <2>3 DEF ListOf
    <3>3. QED
      BY <1>2, <2>2, <2>3, <3>1, <3>2 DEF ListHeld
  <2>4. CASE SubTableKey(u) # k
    <3>1. SubTableKey(u) \in Keys
      BY OnAirAreSubTables, SubTableHasList DEF FeedInv
    <3>2. ListOf(u)' = ListOf(u)
      BY <1>2, <1>3, <2>4, <3>1 DEF ListOf
    <3>3. ListHeld(u)
      BY DEF FeedInv
    <3>4. QED
      BY <2>1, <2>2, <3>2, <3>3 DEF ListHeld
  <2>5. CASE ~ Mine(u)
    BY <2>1, <2>5 DEF ListHeld
  <2>6. QED
    BY <2>3, <2>4, <2>5
<1>6. QED
  BY <1>1, <1>4, <1>5, SameAir DEF FeedInv

\* A kept parser accepts sections of a generation later than the one it has
\* delivered only.
LEMMA GivenLess ==
  ASSUME FeedInv, NEW st \in Received, NEW g, NEW S, Possible(st, g, S), g >= onAir[st].gen,
         NEW n \in S, NEW current \in BOOLEAN,
         ~ renews, AloneInParser(st), st \notin Announced,
         Accepts(ListOf(st), SectionOnAir(st, g, S, n, current))
  PROVE  given[st] < g
<1> DEFINE l == ListOf(st)
           s == SectionOnAir(st, g, S, n, current)
<1>1. /\ st \in OnAirNow /\ st \in SubTables /\ onAir[st].gen \in Nat /\ g \in Nat \ {0}
      /\ S \in Layouts[st] /\ g \in 1..MaxGeneration[st] /\ given[st] \in Nat
      /\ S # {}
  BY OnAirAreSubTables, BroadcastAssumption DEF FeedInv, FeedFunctions, Possible
<1>2. Mine(st)
  BY DEF Mine
<1>3. onAir[st].announced = {}
  BY <1>1 DEF FeedInv, AnnouncedInv
<1>4. g = onAir[st].gen
  <2>1. g <= onAir[st].gen + 1 /\ g # onAir[st].gen + 1
    BY <1>1, <1>3 DEF Possible
  <2>2. QED
    BY <1>1, <2>1
<1>5. /\ l.Sections = << >> => given[st] = 0
      /\ l.Sections # << >> /\ l.IsComplete => given[st] = GenOf(l)
      /\ l.Sections # << >> /\ ~ l.IsComplete => given[st] < GenOf(l)
  BY <1>1 DEF FeedInv, GivenInv
<1>6. CASE l.Sections = << >>
  BY <1>1, <1>5, <1>6
<1>7. CASE l.Sections # << >>
  <2>1. /\ HeldOf(st, l, GenOf(l), LayoutOf(l))
        /\ Possible(st, GenOf(l), LayoutOf(l))
        /\ VersionNumber(GenOf(l)) = VersionNumber(g) => GenOf(l) = g /\ LayoutOf(l) = S
    BY <1>2, <1>7, ListTells
  <2>2. GenOf(l) \in Nat /\ GenOf(l) <= g
    <3>1. /\ GenOf(l) \in 1..MaxGeneration[st] /\ GenOf(l) <= onAir[st].gen + 1
          /\ LayoutOf(l) # {}
      BY <1>1, <2>1, BroadcastAssumption DEF Possible
    <3>2. GenOf(l) # onAir[st].gen + 1
      BY <1>3, <2>1, <3>1 DEF Possible
    <3>3. QED
      BY <1>1, <1>4, <3>1, <3>2
  <2>3. ListInv(l, SubTableKey(st))
    BY <1>1, SubTableHasList DEF FeedInv, ParserInv, ListOf
  <2>4. /\ StartsAgain(l, s) <=> VersionNumber(GenOf(l)) # VersionNumber(g)
        /\ StartsAgain(l, s) \/ ~ l.IsComplete
    BY <1>1, <1>7, <2>1, <2>3, StartsOnVersion
  <2>5. CASE l.IsComplete
    <3>1. GenOf(l) # g
      BY <2>4, <2>5
    <3>2. QED
      BY <1>1, <1>5, <1>7, <2>2, <2>5, <3>1
  <2>6. CASE ~ l.IsComplete
    BY <1>1, <1>5, <1>7, <2>2, <2>6
  <2>7. QED
    BY <2>5, <2>6
<1>8. QED
  BY <1>6, <1>7

\* What the step of HandleTableEvent changes in the cache.
LEMMA StoreChanges ==
  ASSUME NEW t, HandleTableEvent(t), NEW key \in DOMAIN cache'
  PROVE  \/ key \in DOMAIN cache /\ cache'[key] = cache[key]
         \/ key = KeyOfTable(t) /\ cache'[key] = t
BY DEF HandleTableEvent, Store

\* The cache is sound after it.
LEMMA CacheAfter ==
  ASSUME FeedInv, NEW st \in Received, NEW g, NEW S, Possible(st, g, S), g >= onAir[st].gen,
         NEW n \in S, NEW current \in BOOLEAN,
         IsEit(SubTableId[st]) => g = onAir[st].gen /\ n = cursor[st],
         HandleSection(SectionOnAir(st, g, S, n, current)),
         NEW m \in sent', HandleTableEvent(m.table),
         UNCHANGED <<onAir, tuned, renews>>
  PROVE  /\ \A key \in DOMAIN cache' : EntryInv(key)'
         /\ DOMAIN cache' \subseteq {KeyOfSubTable(u) : u \in OnAirNow}
         /\ given' \in [OnAirNow -> Nat]
         /\ \A u \in OnAirNow : given'[u] \in 0..onAir[u].gen + 1
<1> DEFINE content == m.table.Content
           w == content[1].of
<1>1. /\ content # << >>
      /\ w \in OnAirNow
      /\ KeyOfTable(m.table) = KeyOfSubTable(w)
      /\ content[1].gen \in 1..onAir[w].gen + 1
      /\ m.table.Version = VersionNumber(content[1].gen)
      /\ Mine(w) => w = st
      /\ Mine(st) => w = st /\ content[1].gen = g
      /\ Trusted(w) => IsTableOf(content, w, g, S)
  BY TableStep
<1>2. Trusted(w) => w = st /\ content[1].gen = g /\ content[1].layout = S
  <2>1. Trusted(w) => Mine(w) \/ Mine(st)
    BY DEF Trusted, Mine
  <2>2. IsTableOf(content, w, g, S) => content[1].layout = S
    <3> SUFFICES ASSUME IsTableOf(content, w, g, S) PROVE content[1].layout = S
      OBVIOUS
    <3>1. 1 \in DOMAIN content
      BY DEF IsTableOf
    <3>2. content[1] = BodyOf(w, g, S, content[1].number)
      BY <3>1 DEF IsTableOf
    <3>3. QED
      BY <3>2 DEF BodyOf
  <2>3. Mine(w) => Mine(st)
    BY <1>1
  <2>4. QED
    BY <1>1, <2>1, <2>2, <2>3
<1> HIDE DEF content
<1>3. \A v, h, T : (Possible(v, h, T)' <=> Possible(v, h, T)) /\ (Trusted(v)' <=> Trusted(v))
  BY SameAir
<1>4. OnAirNow' = OnAirNow /\ onAir' = onAir
  BY SameAir
<1>5. ASSUME NEW key \in DOMAIN cache' PROVE EntryInv(key)'
  <2>1. CASE key \in DOMAIN cache /\ cache'[key] = cache[key]
    <3>1. EntryInv(key)
      BY <2>1 DEF FeedInv
    <3>2. QED
      BY <1>3, <1>4, <2>1, <3>1 DEF EntryInv
  <2>2. CASE key = KeyOfTable(m.table) /\ cache'[key] = m.table
    <3>1. /\ content # << >> /\ w \in OnAirNow /\ KeyOfSubTable(w) = key
          /\ content[1].gen \in 1..onAir[w].gen + 1
          /\ cache'[key].Version = VersionNumber(content[1].gen)
          /\ Trusted(w) => /\ Possible(w, content[1].gen, content[1].layout)
                           /\ IsTableOf(content, w, content[1].gen, content[1].layout)
      BY <1>1, <1>2, <2>2
    <3>2. cache'[key].Content = content
      BY <2>2 DEF content
    <3>3. QED
      BY <1>3, <1>4, <3>1, <3>2 DEF EntryInv
  <2>3. QED
    BY <2>1, <2>2, StoreChanges
<1>6. DOMAIN cache' \subseteq {KeyOfSubTable(u) : u \in OnAirNow}
  <2>1. DOMAIN cache \subseteq {KeyOfSubTable(u) : u \in OnAirNow}
    BY DEF FeedInv, FeedTypeOK
  <2>2. KeyOfTable(m.table) \in {KeyOfSubTable(u) : u \in OnAirNow}
    BY <1>1
  <2>3. QED
    BY <2>1, <2>2, StoreChanges
<1>7. given' = [given EXCEPT ![w] = content[1].gen]
  BY DEF HandleTableEvent, content
<1>8. given \in [OnAirNow -> Nat] /\ \A u \in OnAirNow : given[u] \in 0..onAir[u].gen + 1 /\ onAir[u].gen \in Nat
  BY DEF FeedInv, FeedFunctions, FeedTypeOK
<1>9. given' \in [OnAirNow -> Nat] /\ \A u \in OnAirNow : given'[u] \in 0..onAir[u].gen + 1
  BY <1>1, <1>7, <1>8
<1>10. QED
  BY <1>5, <1>6, <1>9

\* A list that accepts a section and is complete with it is announced.
LEMMA CompletedIsSent ==
  ASSUME FeedInv, NEW st \in Received, NEW g, NEW S, Possible(st, g, S), g >= onAir[st].gen,
         NEW n \in S, NEW current \in BOOLEAN,
         HandleSection(SectionOnAir(st, g, S, n, current)),
         Accepts(ListOf(st), SectionOnAir(st, g, S, n, current)),
         AddSiSection(ListOf(st), SectionOnAir(st, g, S, n, current)).IsComplete
  PROVE  sent' # {}
<1> DEFINE s == SectionOnAir(st, g, S, n, current)
           k == SubTableKey(st)
           new == AddSiSection(ListOf(st), s)
<1>1. KeyOf(s) = k
  BY SentIsFromAir
<1>2. ListInv(new, k) /\ new.Sections # << >>
  BY ListStep
<1>3. IsTableSupported(SubTableId[st])
  BY OnAirAreSubTables, BroadcastAssumption DEF FeedInv
<1>4. ObserverVector[Application] > 0 /\ Application \in Observers
  BY BroadcastAssumption DEF FeedInv
<1>5. Accepts(m_sectionMap[k], s) /\ AddSiSection(m_sectionMap[k], s) = new
  BY DEF ListOf
<1> HIDE DEF new, s
<1>6. sent' = NotifyDvbSectionParserObserver(BuildTable(new))
  BY <1>1, <1>5 DEF HandleSection, new, s
<1>7. Front(new).TableId = SubTableId[st]
  BY <1>2 DEF ListInv, Keyed, SubTableKey
<1>8. BuildTable(new) = {TableOf(new)}
  BY <1>2, <1>3, <1>7, SupportedIsBuildable DEF BuildTable
<1>9. [to |-> Application, table |-> TableOf(new)] \in sent'
  BY <1>4, <1>6, <1>8 DEF NotifyDvbSectionParserObserver
<1>10. QED
  BY <1>9

\* What was given of a sub-table stays in step with its list in a kept parser.
LEMMA GivenAfter ==
  ASSUME FeedInv, NEW st \in Received, NEW g, NEW S, Possible(st, g, S), g >= onAir[st].gen,
         NEW n \in S, NEW current \in BOOLEAN,
         IsEit(SubTableId[st]) => g = onAir[st].gen /\ n = cursor[st],
         HandleSection(SectionOnAir(st, g, S, n, current)),
         UNCHANGED <<onAir, tuned, renews>>,
         \/ sent' = {} /\ UNCHANGED <<cache, given>>
         \/ \E m \in sent' : HandleTableEvent(m.table)
  PROVE  \A u \in OnAirNow : GivenInv(u)'
<1> DEFINE s == SectionOnAir(st, g, S, n, current)
           k == SubTableKey(st)
           l == ListOf(st)
           new == AddSiSection(l, s)
<1> SUFFICES ASSUME NEW u \in OnAirNow, ~ renews, AloneInParser(u), u \notin Announced
             PROVE  GivenInv(u)'
  <2>1. renews' = renews /\ (\A v : AloneInParser(v)' <=> AloneInParser(v)) /\ OnAirNow' = OnAirNow
    BY SameAir
  <2>2. QED
    BY <2>1 DEF GivenInv
<1>1. /\ m_sectionMap' = [m_sectionMap EXCEPT ![k] = new]
      /\ m_sectionMap'[k] = new
      /\ new.Sections # << >>
      /\ Mine(st) => GenOf(new) = g
  BY ListStep
<1>2. Mine(u) /\ FeedTypeOK /\ st \in OnAirNow
  BY OnAirAreSubTables DEF Mine, FeedInv
<1>3. DOMAIN m_sectionMap = Keys
  BY DEF FeedInv, ParserInv, TypeOK
<1>4. /\ ListOf(u).Sections = << >> => given[u] = 0
      /\ ListOf(u).Sections # << >> /\ ListOf(u).IsComplete => given[u] = GenOf(ListOf(u))
      /\ ListOf(u).Sections # << >> /\ ~ ListOf(u).IsComplete => given[u] < GenOf(ListOf(u))
      /\ \A key \in DOMAIN cache :
           cache[key].Content[1].of = u => cache[key].Content[1].gen <= given[u]
  BY DEF FeedInv, GivenInv
<1>5. given \in [OnAirNow -> Nat]
  BY DEF FeedInv, FeedFunctions
<1>6. \A key \in DOMAIN cache : cache[key].Content[1].of = u => cache[key].Content[1].gen \in Nat
  <2>1. onAir[u].gen \in Nat
    BY DEF FeedInv, FeedFunctions
  <2>2. QED
    BY <2>1 DEF FeedInv, EntryInv
<1> HIDE DEF new, k
<1>7. CASE SubTableKey(u) # k
  <2>1. ListOf(u)' = ListOf(u)
    <3>1. SubTableKey(u) \in Keys
      BY OnAirAreSubTables, SubTableHasList DEF FeedInv
    <3>2. QED
      BY <1>1, <1>3, <1>7, <3>1 DEF ListOf
  <2>2. CASE sent' = {} /\ UNCHANGED <<cache, given>>
    BY <1>4, <2>1, <2>2 DEF GivenInv, GenOf
  <2>3. ASSUME NEW m \in sent', HandleTableEvent(m.table) PROVE GivenInv(u)'
    <3>1. m.table.Content[1].of \in OnAirNow /\ SubTableKey(m.table.Content[1].of) = k
      BY TableStep DEF k
    <3>2. m.table.Content[1].of # u
      BY <1>7, <3>1
    <3>3. given'[u] = given[u]
      BY <1>5, <2>3, <3>2 DEF HandleTableEvent
    <3>4. ASSUME NEW key \in DOMAIN cache', cache'[key].Content[1].of = u
          PROVE  key \in DOMAIN cache /\ cache'[key] = cache[key]
      BY <2>3, <3>2, <3>4, StoreChanges
    <3>5. QED
      BY <1>4, <2>1, <3>3, <3>4 DEF GivenInv, GenOf
  <2>4. QED
    BY <2>2, <2>3
<1>8. CASE SubTableKey(u) = k
  <2>1. u = st
    BY <1>2, <1>8, MineAlone DEF k
  <2>2. ListOf(u)' = new
    BY <1>1, <1>8 DEF ListOf
  <2>3. Mine(st) /\ GenOf(new) = g
    BY <1>1, <1>2, <2>1
  <2>4. Accepts(l, s) => given[u] < g
    BY <2>1, GivenLess
  <2>5. ~ Accepts(l, s) => new = l
    BY DEF new, AddSiSection, Accepts
  <2>6. CASE sent' = {} /\ UNCHANGED <<cache, given>>
    <3>1. CASE Accepts(l, s)
      <4>1. ~ new.IsComplete
        BY <2>6, <3>1, CompletedIsSent DEF new
      <4>2. QED
        BY <1>1, <1>4, <2>2, <2>3, <2>4, <2>6, <3>1, <4>1 DEF GivenInv, GenOf
    <3>2. CASE ~ Accepts(l, s)
      <4>1. ListOf(u)' = ListOf(u)
        BY <2>1, <2>2, <2>5, <3>2
      <4>2. QED
        BY <1>4, <2>6, <4>1 DEF GivenInv, GenOf
    <3>3. QED
      BY <3>1, <3>2
  <2>7. ASSUME NEW m \in sent', HandleTableEvent(m.table) PROVE GivenInv(u)'
    <3>1. /\ new.IsComplete /\ m.table.Content[1].of = st /\ m.table.Content[1].gen = g
      BY <2>3, TableStep DEF new
    <3>2. Accepts(l, s)
      <4>1. KeyOf(s) = k
        BY SentIsFromAir DEF k
      <4>2. QED
        BY <2>7, <4>1 DEF HandleSection, ListOf, k
    <3>3. given'[u] = g
      BY <1>5, <2>1, <2>7, <3>1 DEF HandleTableEvent
    <3>4. given[u] < g /\ g \in Nat
      BY <2>4, <3>2 DEF Possible
    <3>5. ASSUME NEW key \in DOMAIN cache', cache'[key].Content[1].of = u
          PROVE  cache'[key].Content[1].gen <= given'[u]
      <4>1. CASE key \in DOMAIN cache /\ cache'[key] = cache[key]
        BY <1>4, <1>5, <1>6, <3>3, <3>4, <3>5, <4>1
      <4>2. CASE cache'[key] = m.table
        BY <3>1, <3>3, <3>4, <4>2
      <4>3. QED
        BY <2>7, <4>1, <4>2, StoreChanges
    <3>6. QED
      BY <1>1, <2>2, <2>3, <3>1, <3>3, <3>5 DEF GivenInv, GenOf
  <2>8. QED
    BY <2>6, <2>7
<1>9. QED
  BY <1>7, <1>8

-----------------------------------------------------------------------------
(***************************************************************************)
(* The steps.                                                              *)
(***************************************************************************)
\* What FeedInv says, but for what a step says itself.
FeedCore ==
  /\ ParserInv
  /\ ObserverVector[Application] > 0
  /\ AllFromAir
  /\ \A st \in OnAirNow : ListHeld(st) /\ GivenInv(st)
  /\ \A key \in DOMAIN cache : EntryInv(key)
  /\ DOMAIN cache \subseteq {KeyOfSubTable(st) : st \in OnAirNow}
  /\ given \in [OnAirNow -> Nat]
  /\ \A st \in OnAirNow : given[st] \in 0..onAir[st].gen + 1

\* A section of the present table or of the announced one leaves it.
LEMMA DeliverCore ==
  ASSUME FeedInv, NEW st \in Received, NEW g, NEW S, Possible(st, g, S), g >= onAir[st].gen,
         NEW n \in S, NEW current \in BOOLEAN,
         IsEit(SubTableId[st]) => g = onAir[st].gen /\ n = cursor[st],
         Deliver(SectionOnAir(st, g, S, n, current)),
         UNCHANGED <<onAir, tuned, renews>>
  PROVE  /\ FeedCore'
         /\ HandleSection(SectionOnAir(st, g, S, n, current))
<1> DEFINE s == SectionOnAir(st, g, S, n, current)
<1>1. HandleSection(s)
  BY DEF Deliver, ParseSiData
<1>2. \/ sent' = {} /\ UNCHANGED <<cache, given>>
      \/ \E m \in sent' : HandleTableEvent(m.table)
  BY DEF Deliver
<1> HIDE DEF s
<1>3. /\ ParserInv' /\ ObserverVector'[Application] > 0
      /\ AllFromAir'
      /\ \A u \in OnAirNow : ListHeld(u)'
  BY <1>1, ListsAfter DEF s
<1>4. \A u \in OnAirNow : GivenInv(u)'
  BY <1>1, <1>2, GivenAfter DEF s
<1>5. OnAirNow' = OnAirNow /\ onAir' = onAir
  BY SameAir
<1>6. /\ \A key \in DOMAIN cache' : EntryInv(key)'
      /\ DOMAIN cache' \subseteq {KeyOfSubTable(u) : u \in OnAirNow}
      /\ given' \in [OnAirNow -> Nat]
      /\ \A u \in OnAirNow : given'[u] \in 0..onAir[u].gen + 1
  <2>1. CASE sent' = {} /\ UNCHANGED <<cache, given>>
    <3>1. \A v, h, T : (Possible(v, h, T)' <=> Possible(v, h, T)) /\ (Trusted(v)' <=> Trusted(v))
      BY SameAir
    <3>2. ASSUME NEW key \in DOMAIN cache' PROVE EntryInv(key)'
      <4>1. cache' = cache /\ EntryInv(key)
        BY <2>1 DEF FeedInv
      <4>2. QED
        BY <1>5, <3>1, <4>1 DEF EntryInv
    <3>3. QED
      BY <2>1, <3>2 DEF FeedInv, FeedFunctions, FeedTypeOK
  <2>2. CASE \E m \in sent' : HandleTableEvent(m.table)
    BY <1>1, <2>2, CacheAfter DEF s
  <2>3. QED
    BY <1>2, <2>1, <2>2
<1>7. FeedCore'
  BY <1>3, <1>4, <1>5, <1>6 DEF FeedCore
<1>8. QED
  BY <1>1, <1>7 DEF s

\* So does what the parser does not hear of: the broadcaster goes on to what
\* it has announced, and the caches lose entries.
LEMMA QuietCore ==
  ASSUME FeedInv, UNCHANGED <<m_sectionMap, ObserverVector, tuned, renews, given>>,
         sent' \in {{}, sent},
         OnAirNow' = OnAirNow,
         \A st \in OnAirNow : onAir'[st].gen \in Nat /\ onAir'[st].gen >= onAir[st].gen,
         \A st \in OnAirNow : \A g, S : Possible(st, g, S) => Possible(st, g, S)',
         \A key \in DOMAIN cache' : key \in DOMAIN cache /\ cache'[key] = cache[key]
  PROVE  FeedCore'
<1>1. ParserInv'
  BY DEF FeedInv, ParserInv, TypeOK
<1>2. ObserverVector'[Application] > 0
  BY DEF FeedInv
<1>3. \A st \in OnAirNow : onAir[st].gen \in Nat
  BY DEF FeedInv, FeedFunctions
<1>4. AllFromAir'
  <2>1. ASSUME NEW x, FromAir(x) PROVE FromAir(x)'
    BY <1>3, <2>1 DEF FromAir
  <2>2. QED
    BY <2>1 DEF FeedInv, AllFromAir
<1>5. \A v : (AloneInParser(v)' <=> AloneInParser(v)) /\ (Trusted(v)' <=> Trusted(v))
  BY DEF AloneInParser, Trusted
<1>6. Received' = Received /\ \A v : Mine(v)' <=> Mine(v)
  <2>1. Received' = Received
    BY DEF Received
  <2>2. QED
    BY <1>5, <2>1 DEF Mine
<1>7. ASSUME NEW st \in OnAirNow PROVE ListHeld(st)' /\ GivenInv(st)'
  <2>1. ListHeld(st) /\ GivenInv(st)
    BY DEF FeedInv
  <2>2. ListOf(st)' = ListOf(st)
    BY DEF ListOf
  <2>3. ListHeld(st)'
    BY <1>6, <2>1, <2>2 DEF ListHeld, GenOf, LayoutOf
  <2>4. GivenInv(st)'
    BY <1>5, <2>1, <2>2 DEF GivenInv, GenOf
  <2>5. QED
    BY <2>3, <2>4
<1>8. ASSUME NEW key \in DOMAIN cache' PROVE EntryInv(key)'
  <2>1. EntryInv(key) /\ cache'[key] = cache[key]
    BY DEF FeedInv
  <2>2. cache[key].Content[1].of \in OnAirNow
    BY <2>1 DEF EntryInv
  <2>3. QED
    BY <1>3, <1>5, <2>1, <2>2 DEF EntryInv
<1>9. DOMAIN cache' \subseteq {KeyOfSubTable(st) : st \in OnAirNow}
  BY DEF FeedInv, FeedTypeOK
<1>10. given' \in [OnAirNow -> Nat]
  BY DEF FeedInv, FeedFunctions
<1>11. \A st \in OnAirNow : given'[st] \in 0..onAir'[st].gen + 1
  <2>1. \A st \in OnAirNow : given[st] \in 0..onAir[st].gen + 1
    BY DEF FeedInv, FeedTypeOK
  <2>2. QED
    BY <1>3, <2>1
<1>12. QED
  BY <1>1, <1>2, <1>4, <1>7, <1>8, <1>9, <1>10, <1>11 DEF FeedCore

\* The lists of the EITs that a section is not of are as they were.
LEMMA EitOthers ==
  ASSUME FeedInv, NEW st \in Received, NEW g, NEW S, Possible(st, g, S), g >= onAir[st].gen,
         NEW n \in S, NEW current \in BOOLEAN,
         HandleSection(SectionOnAir(st, g, S, n, current)),
         UNCHANGED <<onAir, tuned, renews>>,
         NEW u \in OnAirNow, u # st, cursor'[u] = cursor[u]
  PROVE  EitCycle(u)'
<1> DEFINE k == SubTableKey(st)
           new == AddSiSection(ListOf(st), SectionOnAir(st, g, S, n, current))
<1>1. Received' = Received
  BY SameAir DEF Received
<1>2. CASE u \notin Received \/ ~ renews
  BY <1>1, <1>2 DEF EitCycle
<1>3. CASE u \in Received /\ renews
  <2>1. SubTableKey(u) # k
    BY <1>3, MineAlone DEF Mine, FeedInv
  <2>2. SubTableKey(u) \in Keys
    BY OnAirAreSubTables, SubTableHasList DEF FeedInv
  <2>3. m_sectionMap' = [m_sectionMap EXCEPT ![k] = new] /\ DOMAIN m_sectionMap = Keys
    BY ListStep DEF FeedInv, ParserInv, TypeOK
  <2> HIDE DEF new, k
  <2>4. ListOf(u)' = ListOf(u)
    BY <2>1, <2>2, <2>3 DEF ListOf
  <2>5. EitCycle(u)
    BY DEF FeedInv
  <2>6. QED
    BY <1>1, <1>3, <2>4, <2>5 DEF EitCycle, GenOf
<1>4. QED
  BY <1>2, <1>3

\* A section of the present table.
LEMMA ReceiveInv ==
  ASSUME FeedInv, NEW st \in OnAirNow, Receive(st)
  PROVE  FeedInv'
<1> DEFINE S == onAir[st].numbers
           g == onAir[st].gen
           n == cursor[st]
           s == SectionOnAir(st, g, S, n, TRUE)
           new == AddSiSection(ListOf(st), s)
<1>1. /\ st \in Received
      /\ Deliver(s)
      /\ cursor' = [cursor EXCEPT ![st] = Following(S, n)]
      /\ UNCHANGED <<onAir, tuned, renews>>
      /\ UNCHANGED requests
  BY DEF Receive, Deliver
<1>2. /\ g \in Nat \ {0} /\ Possible(st, g, S) /\ n \in S
  BY OnAirIsPossible DEF FeedInv
<1>3. /\ FeedCore'
      /\ ListOf(st)' = new
      /\ renews /\ IsEit(SubTableId[st]) =>
           \A m \in S : new.IsComplete \/ Passed(new.First, Following(S, n), m)
                        => m \in NumbersIn(new)
      /\ \A u \in OnAirNow : u # st /\ cursor'[u] = cursor[u] => EitCycle(u)'
  <2>1. g >= onAir[st].gen
    BY <1>2
  <2>2. g = onAir[st].gen /\ n = cursor[st]
    OBVIOUS
  <2> HIDE DEF g, S, n
  <2>3. FeedCore' /\ HandleSection(s)
    BY <1>1, <1>2, <2>1, <2>2, DeliverCore
  <2>4. ListOf(st)' = new
    BY <1>1, <1>2, <2>1, <2>3, ListStep DEF ListOf
  <2>5. ASSUME renews, IsEit(SubTableId[st]), NEW m \in S
        PROVE  new.IsComplete \/ Passed(new.First, Following(S, n), m) => m \in NumbersIn(new)
    <3>1. /\ g = onAir[st].gen /\ n = cursor[st]
          /\ new.IsComplete \/ Passed(new.First, Following(S, n), m)
          => m \in NumbersIn(new)
      BY <1>1, <1>2, <2>1, <2>5, EitStep
    <3>2. QED
      BY <2>2, <3>1
  <2>6. \A u \in OnAirNow : u # st /\ cursor'[u] = cursor[u] => EitCycle(u)'
    BY <1>1, <1>2, <2>1, <2>3, EitOthers
  <2>7. QED
    BY <2>3, <2>4, <2>5, <2>6
<1>4. onAir' = onAir /\ OnAirNow' = OnAirNow
  BY <1>1, SameAir
<1>5. cursor \in [OnAirNow -> Byte] /\ \A u \in OnAirNow : cursor[u] \in onAir[u].numbers
  BY DEF FeedInv, FeedFunctions, FeedTypeOK
<1>6. Following(S, n) \in S /\ S \in SUBSET Byte
  <2>1. S \in SUBSET Byte /\ S # {}
    BY <1>2, OnAirAreSubTables, LayoutsAreBytes DEF FeedInv, Possible
  <2>2. QED
    BY <2>1, FollowingIsIn
<1>7. cursor' \in [OnAirNow -> Byte] /\ \A u \in OnAirNow : cursor'[u] \in onAir'[u].numbers
  BY <1>1, <1>4, <1>5, <1>6
<1>8. ASSUME NEW u \in OnAirNow PROVE EitCycle(u)'
  <2>1. CASE u # st
    <3>1. cursor'[u] = cursor[u]
      BY <1>1, <1>5, <2>1
    <3>2. QED
      BY <1>3, <2>1, <3>1
  <2>2. CASE u = st
    <3>1. CASE ~ renews \/ ~ IsEit(SubTableId[st])
      BY <1>1, <2>2, <3>1 DEF EitCycle
    <3>2. CASE renews /\ IsEit(SubTableId[st])
      <4> HIDE DEF new
      <4>1. cursor'[st] = Following(S, n)
        BY <1>1, <1>5
      <4>2. QED
        BY <1>3, <1>4, <2>2, <3>2, <4>1 DEF EitCycle
    <3>3. QED
      BY <3>1, <3>2
  <2>3. QED
    BY <2>1, <2>2
<1>9. FeedFunctions'
  BY <1>3, <1>4, <1>7, <1>1 DEF FeedInv, FeedFunctions, FeedCore
<1>10. FeedTypeOK'
  BY <1>1, <1>3, <1>4, <1>7 DEF FeedInv, FeedTypeOK, FeedCore
<1>11. \A u \in OnAirNow : AnnouncedInv(u)'
  BY <1>4 DEF FeedInv, AnnouncedInv
<1>12. QED
  BY <1>3, <1>4, <1>8, <1>9, <1>10, <1>11 DEF FeedInv, FeedCore

\* A section of the announced table, which is not of an EIT.
LEMMA ReceiveNextInv ==
  ASSUME FeedInv, NEW st \in OnAirNow, ReceiveNext(st)
  PROVE  FeedInv'
<1> DEFINE S == onAir[st].announced
           g == onAir[st].gen + 1
<1>1. PICK n \in S : Deliver(SectionOnAir(st, g, S, n, FALSE))
  BY DEF ReceiveNext
<1>2. /\ st \in Received
      /\ UNCHANGED <<onAir, cursor, tuned, renews>>
      /\ UNCHANGED requests
  BY DEF ReceiveNext, receptionVars, Deliver
<1>3. Possible(st, g, S) /\ g >= onAir[st].gen /\ st \in Announced
  <2>1. onAir[st].gen \in Nat /\ S # {} /\ AnnouncedInv(st)
    BY DEF FeedInv, FeedFunctions
  <2>2. QED
    BY <2>1, OnAirIsPossible DEF FeedInv, AnnouncedInv
<1>4. ~ IsEit(SubTableId[st])
  BY <1>3, FeedAssumption
<1> HIDE DEF g, S
<1>5. FeedCore' /\ HandleSection(SectionOnAir(st, g, S, n, FALSE))
  BY <1>1, <1>2, <1>3, <1>4, DeliverCore
<1>6. onAir' = onAir /\ OnAirNow' = OnAirNow
  BY <1>2, SameAir
<1>7. ASSUME NEW u \in OnAirNow PROVE EitCycle(u)'
  <2>1. CASE u # st
    BY <1>2, <1>3, <1>5, <2>1, EitOthers
  <2>2. CASE u = st
    BY <1>4, <2>2 DEF EitCycle
  <2>3. QED
    BY <2>1, <2>2
<1>8. FeedFunctions' /\ FeedTypeOK'
  BY <1>2, <1>5, <1>6 DEF FeedInv, FeedFunctions, FeedTypeOK, FeedCore
<1>9. \A u \in OnAirNow : AnnouncedInv(u)'
  BY <1>6 DEF FeedInv, AnnouncedInv
<1>10. QED
  BY <1>5, <1>6, <1>7, <1>8, <1>9 DEF FeedInv, FeedCore

\* The next table is announced.
LEMMA AnnounceInv ==
  ASSUME FeedInv, NEW st \in OnAirNow, Announce(st)
  PROVE  FeedInv'
<1>1. PICK S \in Layouts[st] : onAir' = [onAir EXCEPT ![st].announced = S]
  BY DEF Announce
<1>2. /\ st \in Announced /\ onAir[st].gen < MaxGeneration[st] /\ onAir[st].announced = {}
      /\ sent' = {}
      /\ UNCHANGED <<m_sectionMap, ObserverVector, cursor, tuned, renews, cache, given, requests>>
  BY DEF Announce, NothingReceived
<1>3. /\ onAir \in [OnAirNow -> [gen: Nat, numbers: SUBSET Byte, announced: SUBSET Byte]]
      /\ S \in SUBSET Byte
      /\ {} \notin Layouts[st]
  BY OnAirAreSubTables, LayoutsAreBytes DEF FeedInv, FeedFunctions
<1>4. /\ onAir' \in [OnAirNow -> [gen: Nat, numbers: SUBSET Byte, announced: SUBSET Byte]]
      /\ OnAirNow' = OnAirNow
  BY <1>1, <1>3 DEF OnAirNow
<1>5. ASSUME NEW u \in OnAirNow
      PROVE  /\ onAir'[u].gen = onAir[u].gen /\ onAir'[u].numbers = onAir[u].numbers
             /\ onAir[u].gen \in Nat
             /\ u # st => onAir'[u] = onAir[u]
             /\ onAir'[st].announced = S
  BY <1>1, <1>3
<1>6. \A u \in OnAirNow : \A g, T : Possible(u, g, T) => Possible(u, g, T)'
  <2> SUFFICES ASSUME NEW u \in OnAirNow, NEW g, NEW T, Possible(u, g, T)
               PROVE  Possible(u, g, T)'
    OBVIOUS
  <2>1. CASE u # st
    BY <1>5, <2>1 DEF Possible
  <2>2. CASE u = st
    <3>1. g # onAir[st].gen + 1
      BY <1>2, <1>3, <2>2 DEF Possible
    <3>2. onAir'[st].gen = onAir[st].gen /\ onAir'[st].numbers = onAir[st].numbers
      BY <1>5
    <3>3. QED
      BY <2>2, <3>1, <3>2 DEF Possible
  <2>3. QED
    BY <2>1, <2>2
<1>7. FeedCore'
  BY <1>2, <1>4, <1>5, <1>6, QuietCore
<1>8. FeedFunctions'
  BY <1>2, <1>4, <1>7 DEF FeedInv, FeedFunctions, FeedCore
<1>9. FeedTypeOK'
  BY <1>2, <1>4, <1>5, <1>7 DEF FeedInv, FeedTypeOK, FeedCore
<1>10. ASSUME NEW u \in OnAirNow PROVE AnnouncedInv(u)' /\ EitCycle(u)'
  <2>1. AnnouncedInv(u)'
    BY <1>2, <1>5 DEF FeedInv, AnnouncedInv
  <2>2. Received' = Received /\ ListOf(u)' = ListOf(u)
    BY <1>2, <1>4 DEF Received, ListOf
  <2>3. EitCycle(u)'
    BY <1>2, <1>5, <2>2 DEF FeedInv, EitCycle, GenOf
  <2>4. QED
    BY <2>1, <2>3
<1>11. QED
  BY <1>4, <1>7, <1>8, <1>9, <1>10 DEF FeedInv, FeedCore

\* The next table becomes the present one: if its sections have been heard it
\* was announced, and is none of an EIT.
LEMMA NewVersionInv ==
  ASSUME FeedInv, NEW st \in OnAirNow, NewVersion(st)
  PROVE  FeedInv'
<1>1. PICK S \in Layouts[st] :
        /\ onAir[st].announced \in {{}, S}
        /\ onAir' = [onAir EXCEPT ![st] = [gen |-> @.gen + 1, numbers |-> S, announced |-> {}]]
        /\ \E n \in S : cursor' = [cursor EXCEPT ![st] = n]
  BY DEF NewVersion
<1>2. /\ onAir[st].gen < MaxGeneration[st]
      /\ sent' = {}
      /\ UNCHANGED <<m_sectionMap, ObserverVector, tuned, renews, cache, given, requests>>
  BY DEF NewVersion, NothingReceived
<1>3. /\ onAir \in [OnAirNow -> [gen: Nat, numbers: SUBSET Byte, announced: SUBSET Byte]]
      /\ cursor \in [OnAirNow -> Byte]
      /\ S \in SUBSET Byte
      /\ {} \notin Layouts[st]
      /\ st \in SubTables /\ MaxGeneration[st] \in Nat
  BY OnAirAreSubTables, LayoutsAreBytes, BroadcastAssumption DEF FeedInv, FeedFunctions
<1>4. /\ onAir' \in [OnAirNow -> [gen: Nat, numbers: SUBSET Byte, announced: SUBSET Byte]]
      /\ OnAirNow' = OnAirNow
  BY <1>1, <1>3 DEF OnAirNow
<1>5. /\ onAir'[st].gen = onAir[st].gen + 1
      /\ onAir'[st].numbers = S
      /\ onAir'[st].announced = {}
      /\ \A u \in OnAirNow : u # st => onAir'[u] = onAir[u]
      /\ \A u \in OnAirNow : onAir[u].gen \in Nat
  BY <1>1, <1>3
<1>6. \A u \in OnAirNow : \A g, T : Possible(u, g, T) => Possible(u, g, T)'
  <2> SUFFICES ASSUME NEW u \in OnAirNow, NEW g, NEW T, Possible(u, g, T)
               PROVE  Possible(u, g, T)'
    OBVIOUS
  <2>1. CASE u # st
    BY <1>5, <2>1 DEF Possible
  <2>2. CASE u = st
    <3>1. /\ g \in 1..MaxGeneration[st] /\ g <= onAir[st].gen + 1 /\ T \in Layouts[st]
          /\ g = onAir[st].gen + 1 => T = onAir[st].announced
      BY <2>2 DEF Possible
    <3>2. g = onAir[st].gen + 1 => T = S
      BY <1>1, <1>3, <3>1
    <3>3. g \in Int /\ onAir[st].gen \in Nat
      BY <1>5, <3>1
    <3>4. /\ g <= onAir'[st].gen + 1
          /\ g # onAir'[st].gen + 1
          /\ g = onAir'[st].gen => T = onAir'[st].numbers
      BY <1>5, <3>1, <3>2, <3>3
    <3>5. QED
      BY <2>2, <3>1, <3>4 DEF Possible
  <2>3. QED
    BY <2>1, <2>2
<1>7. FeedCore'
  <2>1. \A u \in OnAirNow : onAir'[u].gen \in Nat /\ onAir'[u].gen >= onAir[u].gen
    BY <1>5
  <2>2. QED
    BY <1>2, <1>4, <1>6, <2>1, QuietCore
<1>8. /\ cursor' \in [OnAirNow -> Byte]
      /\ \A u \in OnAirNow : u # st => cursor'[u] = cursor[u]
      /\ cursor'[st] \in S
  BY <1>1, <1>3
<1>9. FeedFunctions'
  BY <1>2, <1>4, <1>7, <1>8 DEF FeedInv, FeedFunctions, FeedCore
<1>10. FeedTypeOK'
  <2>1. ASSUME NEW u \in OnAirNow
        PROVE  /\ onAir'[u].gen \in 1..MaxGeneration[u]
               /\ onAir'[u].numbers \in Layouts[u]
               /\ onAir'[u].announced \in Layouts[u] \cup {{}}
               /\ cursor'[u] \in onAir'[u].numbers
    <3>1. /\ onAir[u].gen \in 1..MaxGeneration[u]
          /\ onAir[u].numbers \in Layouts[u]
          /\ onAir[u].announced \in Layouts[u] \cup {{}}
          /\ cursor[u] \in onAir[u].numbers
      BY DEF FeedInv, FeedTypeOK
    <3>2. CASE u = st
      BY <1>2, <1>3, <1>5, <1>8, <3>1, <3>2
    <3>3. CASE u # st
      BY <1>5, <1>8, <3>1, <3>3
    <3>4. QED
      BY <3>2, <3>3
  <2>2. QED
    BY <1>2, <1>4, <1>7, <2>1 DEF FeedInv, FeedTypeOK, FeedCore
<1>11. ASSUME NEW u \in OnAirNow PROVE AnnouncedInv(u)' /\ EitCycle(u)'
  <2>1. Received' = Received /\ ListOf(u)' = ListOf(u)
    BY <1>2, <1>4 DEF Received, ListOf
  <2>2. CASE u # st
    BY <1>2, <1>5, <1>8, <2>1, <2>2 DEF FeedInv, AnnouncedInv, EitCycle, GenOf
  <2>3. CASE u = st
    <3>1. AnnouncedInv(st)'
      BY <1>5 DEF AnnouncedInv
    <3>2. ASSUME renews, st \in Received, ListOf(st).Sections # << >>,
                 GenOf(ListOf(st)) = onAir[st].gen + 1
          PROVE  ~ IsEit(SubTableId[st])
      <4>1. Possible(st, GenOf(ListOf(st)), LayoutOf(ListOf(st)))
        BY <3>2 DEF FeedInv, ListHeld, Mine
      <4>2. onAir[st].announced # {}
        BY <1>3, <3>2, <4>1 DEF Possible
      <4>3. QED
        BY <4>2, FeedAssumption DEF FeedInv, AnnouncedInv
    <3>3. EitCycle(st)'
      BY <1>2, <1>5, <2>1, <2>3, <3>2 DEF EitCycle, GenOf
    <3>4. QED
      BY <2>3, <3>1, <3>3
  <2>4. QED
    BY <2>2, <2>3
<1>12. QED
  BY <1>4, <1>7, <1>9, <1>10, <1>11 DEF FeedInv, FeedCore

\* The caches are cleared, or a part of them.
LEMMA ClearInv ==
  ASSUME FeedInv, ClearCachedTables \/ ClearEits
  PROVE  FeedInv'
<1>1. /\ sent' = {}
      /\ UNCHANGED <<m_sectionMap, ObserverVector, onAir, cursor, tuned, renews, given>>
      /\ requests.made < MaxRequests
      /\ requests' \in {[made |-> requests.made + 1, next |-> {Home}],
                        [made |-> requests.made + 1, next |-> {Barker}]}
  BY DEF ClearCachedTables, ClearEits, Request, NothingReceived, receptionVars
<1>2. \A key \in DOMAIN cache' : key \in DOMAIN cache /\ cache'[key] = cache[key]
  <2>1. CASE ClearCachedTables
    <3>1. DOMAIN cache' = {}
      BY <2>1 DEF ClearCachedTables
    <3>2. QED
      BY <3>1
  <2>2. CASE ClearEits
    BY <2>2 DEF ClearEits, Restrict
  <2>3. QED
    BY <2>1, <2>2
<1>3. OnAirNow' = OnAirNow /\ Received' = Received
  BY <1>1, SameAir DEF Received
<1>4. \A st \in OnAirNow : onAir[st].gen \in Nat
  BY DEF FeedInv, FeedFunctions
<1>5. FeedCore'
  <2>1. \A st \in OnAirNow : onAir'[st].gen \in Nat /\ onAir'[st].gen >= onAir[st].gen
    BY <1>1, <1>4
  <2>2. \A st \in OnAirNow : \A g, S : Possible(st, g, S) => Possible(st, g, S)'
    BY <1>1, SameAir
  <2>3. QED
    BY <1>1, <1>2, <1>3, <2>1, <2>2, QuietCore
<1>6. requests' \in [made: 0..MaxRequests, next: {{}, {Home}, {Barker}}]
  <2>1. requests.made \in 0..MaxRequests /\ MaxRequests \in Nat
    BY FeedAssumption DEF FeedInv, FeedTypeOK
  <2>2. QED
    BY <1>1, <2>1
<1>7. FeedFunctions' /\ FeedTypeOK'
  BY <1>1, <1>3, <1>5, <1>6 DEF FeedInv, FeedFunctions, FeedTypeOK, FeedCore
<1>8. ASSUME NEW st \in OnAirNow PROVE AnnouncedInv(st)' /\ EitCycle(st)'
  <2>1. ListOf(st)' = ListOf(st)
    BY <1>1 DEF ListOf
  <2>2. QED
    BY <1>1, <1>3, <2>1 DEF FeedInv, AnnouncedInv, EitCycle, GenOf
<1>9. QED
  BY <1>3, <1>5, <1>7, <1>8 DEF FeedInv, FeedCore

\* A new parser has empty lists; a kept one has those it had.
LEMMA TuneInv ==
  ASSUME FeedInv, NEW f \in Frequencies, Tune(f),
         requests' \in [made: 0..MaxRequests, next: {{}, {Home}, {Barker}}]
  PROVE  FeedInv'
<1>1. /\ tuned' = f /\ sent' = {}
      /\ m_sectionMap' = IF renews THEN [k \in Keys |-> NewList] ELSE m_sectionMap
      /\ UNCHANGED <<ObserverVector, onAir, renews, cache, given>>
      /\ cursor' \in [OnAirNow -> UNION {onAir[st].numbers : st \in OnAirNow}]
      /\ \A st \in OnAirNow : IF f \in SentOn[st] THEN cursor'[st] \in onAir[st].numbers
                              ELSE cursor'[st] = Smallest(onAir[st].numbers)
  BY DEF Tune, RenewParser
<1>2. OnAirNow' = OnAirNow /\ onAir' = onAir /\ renews' = renews
  BY <1>1, SameAir
<1>3. \A st \in OnAirNow : cursor'[st] \in onAir[st].numbers /\ onAir[st].numbers \in SUBSET Byte
  <2> TAKE st \in OnAirNow
  <2>1. onAir[st].numbers \in SUBSET Byte /\ onAir[st].numbers # {}
    BY OnAirAreSubTables, LayoutsAreBytes DEF FeedInv, FeedTypeOK
  <2>2. QED
    BY <1>1, <2>1, SmallestIsIn
<1>4. cursor' \in [OnAirNow -> Byte]
  BY <1>1, <1>3
<1>5. ParserInv' /\ ObserverVector'[Application] > 0
  <2>1. NewList \in List /\ \A k \in Keys : ListInv(NewList, k)
    BY NewListInv DEF ListInv
  <2>2. m_sectionMap' \in [Keys -> List] /\ \A k \in Keys : ListInv(m_sectionMap'[k], k)
    BY <1>1, <2>1 DEF FeedInv, ParserInv, TypeOK
  <2>3. QED
    BY <1>1, <2>2 DEF FeedInv, ParserInv, TypeOK
<1>6. ASSUME renews
      PROVE  AllFromAir' /\ \A st \in OnAirNow : ListHeld(st)' /\ EitCycle(st)' /\ GivenInv(st)'
  <2>1. \A k \in Keys : m_sectionMap'[k].Sections = << >>
    BY <1>1, <1>6 DEF NewList
  <2>2. AllFromAir'
    <3>1. \A k \in Keys : DOMAIN m_sectionMap'[k].Sections = {}
      BY <2>1
    <3>2. QED
      BY <3>1 DEF AllFromAir
  <2>3. \A st \in OnAirNow : ListOf(st)'.Sections = << >>
    BY <2>1, OnAirAreSubTables, SubTableHasList DEF FeedInv, ListOf
  <2>4. \A st \in OnAirNow : ListHeld(st)' /\ EitCycle(st)' /\ GivenInv(st)'
    BY <1>2, <1>6, <2>3 DEF ListHeld, EitCycle, GivenInv
  <2>5. QED
    BY <2>2, <2>4
<1>7. ASSUME ~ renews
      PROVE  AllFromAir' /\ \A st \in OnAirNow : ListHeld(st)' /\ EitCycle(st)' /\ GivenInv(st)'
  <2>1. m_sectionMap' = m_sectionMap
    BY <1>1, <1>7
  <2>2. AllFromAir'
    BY <1>1, <2>1, SameAir DEF FeedInv, AllFromAir
  <2>3. \A st : Mine(st)' <=> Mine(st)
    BY <1>1, <1>2, <1>7, SameAir DEF Mine
  <2>4. \A st : ListOf(st)' = ListOf(st)
    BY <2>1 DEF ListOf
  <2>5. \A st, g, S : Possible(st, g, S)' <=> Possible(st, g, S)
    BY <1>1, SameAir
  <2>6. \A st \in OnAirNow : ListHeld(st)'
    BY <2>3, <2>4, <2>5 DEF FeedInv, ListHeld, GenOf, LayoutOf
  <2>7. \A st \in OnAirNow : EitCycle(st)'
    BY <1>2, <1>7 DEF EitCycle
  <2>8. \A st \in OnAirNow : GivenInv(st)'
    BY <1>1, <1>2, <2>4, SameAir DEF FeedInv, GivenInv, GenOf
  <2>9. QED
    BY <2>2, <2>6, <2>7, <2>8
<1>8. \A key \in DOMAIN cache' : EntryInv(key)'
  BY <1>1, <1>2, SameAir DEF FeedInv, EntryInv
<1>9. FeedFunctions' /\ FeedTypeOK'
  BY <1>1, <1>2, <1>3, <1>4 DEF FeedInv, FeedFunctions, FeedTypeOK
<1>10. \A st \in OnAirNow : AnnouncedInv(st)'
  BY <1>2 DEF FeedInv, AnnouncedInv
<1>11. QED
  BY <1>2, <1>5, <1>6, <1>7, <1>8, <1>9, <1>10 DEF FeedInv

-----------------------------------------------------------------------------
(***************************************************************************)
(* The invariant.                                                          *)
(***************************************************************************)
\* At first a programme is on air, and nothing has been received of it.
LEMMA FeedStarts ==
  ASSUME FeedInit
  PROVE  FeedInv
<1>1. PICK programme \in Programmes :
        onAir \in {f \in [programme -> [gen: {1}, numbers: UNION {Layouts[st] : st \in programme},
                                        announced: {{}}]] :
                     \A st \in programme : f[st].numbers \in Layouts[st]}
  BY DEF FeedInit
<1>2. OnAirNow = programme /\ programme \subseteq SubTables
  BY <1>1, FeedAssumption DEF OnAirNow
<1>3. ASSUME NEW st \in OnAirNow
      PROVE  /\ onAir[st].gen = 1 /\ onAir[st].announced = {}
             /\ onAir[st].numbers \in Layouts[st] /\ onAir[st].numbers \in SUBSET Byte
             /\ cursor[st] \in onAir[st].numbers
             /\ given[st] = 0
             /\ MaxGeneration[st] \in Nat \ {0}
  <2>1. /\ onAir[st].gen = 1 /\ onAir[st].announced = {}
        /\ onAir[st].numbers \in Layouts[st]
    BY <1>1, <1>2
  <2>2. onAir[st].numbers \in SUBSET Byte /\ onAir[st].numbers # {}
    BY <1>2, <2>1, LayoutsAreBytes
  <2>3. cursor[st] \in onAir[st].numbers
    BY <2>2, SmallestIsIn DEF FeedInit
  <2>4. QED
    BY <1>2, <2>1, <2>2, <2>3, BroadcastAssumption DEF FeedInit
<1>4. FeedFunctions
  <2>1. onAir \in [OnAirNow -> [gen: Nat, numbers: SUBSET Byte, announced: SUBSET Byte]]
    <3>1. \A st \in OnAirNow : onAir[st] \in [gen: {1}, numbers: SUBSET Byte, announced: {{}}]
      BY <1>1, <1>2, <1>3
    <3>2. QED
      BY <1>1, <1>2, <3>1
  <2>2. cursor \in [OnAirNow -> Byte]
    BY <1>3 DEF FeedInit
  <2>3. given \in [OnAirNow -> Nat]
    BY DEF FeedInit
  <2>4. QED
    BY <2>1, <2>2, <2>3 DEF FeedFunctions, FeedInit
<1>5. FeedTypeOK
  <2>1. DOMAIN cache = {}
    BY DEF FeedInit
  <2>2. tuned \in Frequencies
    BY FeedAssumption DEF FeedInit
  <2>3. requests \in [made: 0..MaxRequests, next: {{}, {Home}, {Barker}}]
    BY FeedAssumption DEF FeedInit
  <2>4. QED
    BY <1>2, <1>3, <2>1, <2>2, <2>3 DEF FeedTypeOK
<1>6. ParserInv /\ ObserverVector[Application] > 0
  <2>1. m_sectionMap \in [Keys -> List] /\ \A k \in Keys : ListInv(m_sectionMap[k], k)
    <3>1. \A k : NewList \in List /\ ListInv(NewList, k)
      BY NewListInv DEF ListInv
    <3>2. QED
      BY <3>1 DEF FeedInit
  <2>2. ObserverVector \in [Observers -> Nat] /\ ObserverVector[Application] = 1
    BY BroadcastAssumption DEF FeedInit
  <2>3. sent \subseteq [to: Observers, table: Table]
    BY DEF FeedInit
  <2>4. QED
    BY <2>1, <2>2, <2>3 DEF ParserInv, TypeOK
<1>7. \A k \in Keys : m_sectionMap[k].Sections = << >>
  BY DEF FeedInit, NewList
<1>8. AllFromAir
  <2>1. \A k \in Keys : DOMAIN m_sectionMap[k].Sections = {}
    BY <1>7
  <2>2. QED
    BY <2>1 DEF AllFromAir
<1>9. ASSUME NEW st \in OnAirNow
      PROVE  AnnouncedInv(st) /\ ListHeld(st) /\ EitCycle(st) /\ GivenInv(st)
  <2>1. ListOf(st).Sections = << >>
    BY <1>2, <1>7, SubTableHasList DEF ListOf
  <2>2. DOMAIN cache = {}
    BY DEF FeedInit
  <2>3. QED
    BY <1>3, <2>1, <2>2 DEF AnnouncedInv, ListHeld, EitCycle, GivenInv
<1>10. \A key \in DOMAIN cache : EntryInv(key)
  <2>1. DOMAIN cache = {}
    BY DEF FeedInit
  <2>2. QED
    BY <2>1
<1>11. QED
  BY <1>4, <1>5, <1>6, <1>8, <1>9, <1>10 DEF FeedInv

\* Every step keeps it.
LEMMA FeedStep ==
  ASSUME FeedInv, [Next]_feedVars
  PROVE  FeedInv'
<1>1. ASSUME NEW st \in OnAirNow, Receive(st) PROVE FeedInv'
  BY <1>1, ReceiveInv
<1>2. ASSUME NEW st \in OnAirNow, ReceiveNext(st) PROVE FeedInv'
  BY <1>2, ReceiveNextInv
<1>3. ASSUME NEW st \in OnAirNow, Announce(st) PROVE FeedInv'
  BY <1>3, AnnounceInv
<1>4. ASSUME NEW st \in OnAirNow, NewVersion(st) PROVE FeedInv'
  BY <1>4, NewVersionInv
<1>5. CASE ClearCachedTables \/ ClearEits
  BY <1>5, ClearInv
<1>6. /\ requests \in [made: 0..MaxRequests, next: {{}, {Home}, {Barker}}]
      /\ MaxRequests \in Nat
  BY FeedAssumption DEF FeedInv, FeedTypeOK
<1>7. CASE TuneCleared
  <2>1. PICK f \in requests.next : Tune(f)
    BY <1>7 DEF TuneCleared
  <2>2. f \in Frequencies
    BY <1>6, FeedAssumption
  <2>3. requests' \in [made: 0..MaxRequests, next: {{}, {Home}, {Barker}}]
    BY <1>6, <1>7 DEF TuneCleared
  <2>4. QED
    BY <2>1, <2>2, <2>3, TuneInv
<1>8. CASE TuneNext
  <2>1. PICK f \in Frequencies : Tune(f)
    BY <1>8 DEF TuneNext
  <2>2. requests' \in [made: 0..MaxRequests, next: {{}, {Home}, {Barker}}]
    BY <1>6, <1>8 DEF TuneNext, Request
  <2>3. QED
    BY <2>1, <2>2, TuneInv
<1>9. CASE UNCHANGED feedVars
  <2>1. /\ UNCHANGED <<m_sectionMap, ObserverVector, sent, onAir, cursor, tuned, renews,
                      cache, given, requests>>
    BY <1>9 DEF feedVars, receptionVars, parserVars
  <2>2. OnAirNow' = OnAirNow /\ Received' = Received
    BY <2>1, SameAir DEF Received
  <2>3. FeedCore'
    <3>1. \A st \in OnAirNow : onAir'[st].gen \in Nat /\ onAir'[st].gen >= onAir[st].gen
      BY <2>1 DEF FeedInv, FeedFunctions
    <3>2. \A st \in OnAirNow : \A g, S : Possible(st, g, S) => Possible(st, g, S)'
      BY <2>1, SameAir
    <3>3. QED
      BY <2>1, <2>2, <3>1, <3>2, QuietCore
  <2>4. FeedFunctions' /\ FeedTypeOK'
    BY <2>1, <2>2, <2>3 DEF FeedInv, FeedFunctions, FeedTypeOK, FeedCore
  <2>5. ASSUME NEW st \in OnAirNow PROVE AnnouncedInv(st)' /\ EitCycle(st)'
    <3>1. ListOf(st)' = ListOf(st)
      BY <2>1 DEF ListOf
    <3>2. QED
      BY <2>1, <2>2, <3>1 DEF FeedInv, AnnouncedInv, EitCycle, GenOf
  <2>6. QED
    BY <2>2, <2>3, <2>4, <2>5 DEF FeedInv, FeedCore
<1>10. QED
  BY <1>1, <1>2, <1>3, <1>4, <1>5, <1>7, <1>8, <1>9 DEF Next

\* The inductive invariant holds of the parser with the caches behind it.
THEOREM FeedInvariant == FeedSpec => []FeedInv
<1>1. FeedInit => FeedInv
  BY FeedStarts
<1>2. FeedInv /\ [Next]_feedVars => FeedInv'
  BY FeedStep
<1>3. QED
  BY <1>1, <1>2, PTL DEF FeedSpec

\* The broadcast, the tuner, the caches and the requests keep their shape, and
\* no more has been given of a sub-table than was on air or announced.
THEOREM FeedTypes == FeedSpec => []FeedTypeOK
<1>1. FeedInv => FeedTypeOK
  BY DEF FeedInv
<1>2. QED
  BY <1>1, FeedInvariant, PTL

\* A cached table is filed under its sub-table's key and is one generation of
\* it, whole: sections of two generations, or of two sub-tables, never meet in
\* a cache of an application that makes a new parser when it tunes.
THEOREM CachesAreWhole == FeedSpec => []CachedWhole
<1>1. FeedInv => CachedWhole
  <2> SUFFICES ASSUME FeedInv, NEW key \in DOMAIN cache
               PROVE  LET content == cache[key].Content
                          st == content[1].of
                      IN /\ KeyOfSubTable(st) = key
                         /\ Trusted(st) => IsWhole(content)
    BY DEF CachedWhole, Trusted
  <2> DEFINE content == cache[key].Content
             st == content[1].of
  <2>1. /\ KeyOfSubTable(st) = key /\ st \in OnAirNow
        /\ Trusted(st) => IsTableOf(content, st, content[1].gen, content[1].layout)
    BY DEF FeedInv, EntryInv
  <2>2. Trusted(st) => IsWhole(content)
    <3>1. st \in SubTables
      BY <2>1, OnAirAreSubTables DEF FeedInv
    <3> HIDE DEF content
    <3>2. QED
      BY <2>1, <3>1, TableIsWhole
  <2>3. QED
    BY <2>1, <2>2
<1>2. QED
  BY <1>1, FeedInvariant, PTL

-----------------------------------------------------------------------------
(***************************************************************************)
(* What a step may not do.                                                 *)
(***************************************************************************)
\* A section is sent in a step of the broadcast only.
LEMMA SectionsAreSent ==
  ASSUME FeedInv, NEW st \in OnAirNow, Receive(st) \/ ReceiveNext(st)
  PROVE  /\ st \in Received
         /\ \E g, S, n, current :
              /\ Possible(st, g, S) /\ g >= onAir[st].gen
              /\ n \in S /\ current \in BOOLEAN
              /\ IsEit(SubTableId[st]) => g = onAir[st].gen /\ n = cursor[st]
              /\ Deliver(SectionOnAir(st, g, S, n, current))
<1>1. /\ onAir[st].gen \in Nat
      /\ Possible(st, onAir[st].gen, onAir[st].numbers)
      /\ cursor[st] \in onAir[st].numbers
      /\ onAir[st].announced # {} => /\ Possible(st, onAir[st].gen + 1, onAir[st].announced)
                                     /\ ~ IsEit(SubTableId[st])
  <2>1. AnnouncedInv(st)
    BY DEF FeedInv
  <2>2. QED
    BY <2>1, OnAirIsPossible, FeedAssumption DEF FeedInv, AnnouncedInv
<1>2. CASE Receive(st)
  <2>1. st \in Received /\ Deliver(SectionOnAir(st, onAir[st].gen, onAir[st].numbers, cursor[st], TRUE))
    BY <1>2 DEF Receive
  <2>2. onAir[st].gen >= onAir[st].gen
    BY <1>1
  <2>3. QED
    BY <1>1, <2>1, <2>2
<1>3. CASE ReceiveNext(st)
  <2>1. /\ st \in Received
        /\ \E n \in onAir[st].announced :
             Deliver(SectionOnAir(st, onAir[st].gen + 1, onAir[st].announced, n, FALSE))
    BY <1>3 DEF ReceiveNext
  <2>2. onAir[st].gen + 1 >= onAir[st].gen /\ onAir[st].announced # {}
    BY <1>1, <2>1
  <2>3. QED
    BY <1>1, <2>1, <2>2
<1>4. QED
  BY <1>2, <1>3

\* All other steps send nothing, and add nothing to a cache.
LEMMA NothingIsSent ==
  ASSUME [Next]_feedVars, \A st \in OnAirNow : ~ Receive(st) /\ ~ ReceiveNext(st)
  PROVE  /\ sent' = {} \/ UNCHANGED feedVars
         /\ DOMAIN cache' \subseteq DOMAIN cache
<1>1. ASSUME NEW st \in OnAirNow, Announce(st) \/ NewVersion(st)
      PROVE  sent' = {} /\ cache' = cache
  BY <1>1 DEF Announce, NewVersion, NothingReceived
<1>2. CASE ClearCachedTables
  <2>1. sent' = {} /\ DOMAIN cache' = {}
    BY <1>2 DEF ClearCachedTables, NothingReceived
  <2>2. QED
    BY <2>1
<1>3. CASE ClearEits
  BY <1>3 DEF ClearEits, NothingReceived, Restrict
<1>4. ASSUME TuneCleared \/ TuneNext PROVE sent' = {} /\ cache' = cache
  BY <1>4 DEF TuneCleared, TuneNext, Tune
<1>5. CASE UNCHANGED feedVars
  BY <1>5 DEF feedVars
<1>6. QED
  BY <1>1, <1>2, <1>3, <1>4, <1>5 DEF Next

\* What is delivered is in the cache after it: it was stored, or an entry of its
\* version was there, which is the same table.
LEMMA DeliveredStored ==
  ASSUME FeedInv, NEW st \in Received, NEW g, NEW S, Possible(st, g, S), g >= onAir[st].gen,
         NEW n \in S, NEW current \in BOOLEAN,
         IsEit(SubTableId[st]) => g = onAir[st].gen /\ n = cursor[st],
         Deliver(SectionOnAir(st, g, S, n, current)),
         NEW m \in sent',
         IsHandled(m.table),
         AloneInCache(m.table.Content[1].of),
         renews \/ AloneInParser(m.table.Content[1].of)
  PROVE  /\ KeyOfTable(m.table) \in DOMAIN cache'
         /\ cache'[KeyOfTable(m.table)].Content = m.table.Content
<1> DEFINE s == SectionOnAir(st, g, S, n, current)
           t == m.table
           content == t.Content
           key == KeyOfTable(t)
<1>1. HandleSection(s) /\ \E p \in sent' : HandleTableEvent(p.table)
  BY DEF Deliver, ParseSiData
<1>2. \A p \in sent' : p.table = t
  <2>1. \A p \in sent' : p.table = TableOf(AddSiSection(ListOf(st), s))
    BY <1>1, TableStep
  <2>2. QED
    BY <2>1
<1>3. HandleTableEvent(t)
  BY <1>1, <1>2
<1>4. /\ key = KeyOfSubTable(content[1].of)
      /\ content[1].of \in OnAirNow
      /\ t.Version = VersionNumber(content[1].gen)
      /\ Mine(content[1].of) => content[1].of = st
      /\ Mine(st) => content[1].of = st /\ content[1].gen = g
      /\ Trusted(content[1].of) => IsTableOf(content, content[1].of, g, S)
  BY <1>1, TableStep
<1>5. Mine(st) /\ content[1].of = st /\ content[1].gen = g
  <2>1. renews => Mine(st)
    BY DEF Mine
  <2>2. ~ renews => Mine(content[1].of)
    BY DEF Mine
  <2>3. QED
    BY <1>4, <2>1, <2>2
<1>6. st \in OnAirNow /\ st \in SubTables /\ onAir[st].gen \in Nat
  BY OnAirAreSubTables DEF FeedInv, FeedFunctions
<1>7. Accepts(ListOf(st), s)
  <2>1. KeyOf(s) = SubTableKey(st)
    BY SentIsFromAir
  <2>2. QED
    BY <1>1, <2>1 DEF HandleSection, ListOf
<1>8. cache' = Store(cache, t)
  BY <1>3 DEF HandleTableEvent
<1> HIDE DEF t, key, content, s
<1>9. CASE key \in DOMAIN cache /\ cache[key].Version = t.Version
  <2> DEFINE old == cache[key].Content
             h == old[1].gen
  <2>1. cache' = cache
    BY <1>8, <1>9 DEF Store, key
  <2>2. /\ old[1].of \in OnAirNow /\ KeyOfSubTable(old[1].of) = key
        /\ h \in 1..onAir[old[1].of].gen + 1
        /\ cache[key].Version = VersionNumber(h)
        /\ Trusted(old[1].of) => /\ Possible(old[1].of, h, old[1].layout)
                                /\ IsTableOf(old, old[1].of, h, old[1].layout)
    BY <1>9 DEF FeedInv, EntryInv
  <2>3. old[1].of = st
    BY <1>4, <1>5, <2>2 DEF AloneInCache, content, t
  <2>4. VersionNumber(h) = VersionNumber(g)
    BY <1>4, <1>5, <1>9, <2>2
  <2>5. g \in 1..MaxGeneration[st] /\ MaxGeneration[st] \in Nat
    BY <1>6, BroadcastAssumption DEF Possible
  <2> HIDE DEF old, h
  <2>6. CASE Trusted(st)
    <3>1. Possible(st, h, old[1].layout) /\ IsTableOf(old, st, h, old[1].layout)
      BY <2>2, <2>3, <2>6
    <3>2. h = g
      <4>1. h \in 1..MaxGeneration[st]
        BY <3>1 DEF Possible
      <4>2. QED
        BY <1>6, <2>4, <2>5, <4>1, VersionsTell
    <3>3. old[1].layout = S
      BY <1>6, <3>1, <3>2, OneShape
    <3>4. IsTableOf(old, st, g, S) /\ IsTableOf(content, st, g, S)
      BY <1>4, <1>5, <2>6, <3>1, <3>2, <3>3
    <3>5. S \in SUBSET Byte
      BY <1>6, LayoutsAreBytes DEF Possible
    <3>6. old = content
      BY <3>4, <3>5, OneTable
    <3>7. QED
      BY <1>9, <2>1, <3>6 DEF old, content, t, key
  <2>7. CASE ~ Trusted(st)
    <3>1. ~ renews /\ AloneInParser(st) /\ IsEit(SubTableId[st])
      BY <1>5, <2>7 DEF Trusted, content, t
    <3>2. st \notin Announced
      BY <3>1, FeedAssumption
    <3>3. h <= given[st]
      BY <1>6, <1>9, <2>3, <3>1, <3>2 DEF FeedInv, GivenInv, h, old
    <3>4. given[st] < g
      BY <1>7, <3>1, <3>2, GivenLess DEF s
    <3>5. h \in Nat \ {0} /\ given[st] \in Nat
      BY <1>6, <2>2, <2>3 DEF FeedInv, FeedFunctions
    <3>6. h \in 1..MaxGeneration[st] /\ h # g
      BY <2>5, <3>3, <3>4, <3>5
    <3>7. QED
      BY <1>6, <2>4, <2>5, <3>6, VersionsTell
  <2>8. QED
    BY <2>6, <2>7
<1>10. CASE ~ (key \in DOMAIN cache /\ cache[key].Version = t.Version)
  <2>1. key \in DOMAIN cache' /\ cache'[key] = t
    BY <1>8, <1>10 DEF Store, key
  <2>2. QED
    BY <2>1 DEF key, t
<1>11. QED
  BY <1>9, <1>10

\* A delivered table that the cache takes for known, because the version of its
\* entry is the same, is known.
THEOREM DeliveredIsKnown == FeedSpec => DeliveredIsCached
<1> DEFINE Cached(m) ==
      /\ IsHandled(m.table)
      /\ AloneInCache(m.table.Content[1].of)
      /\ renews \/ AloneInParser(m.table.Content[1].of)
      => /\ KeyOfTable(m.table) \in DOMAIN cache'
         /\ cache'[KeyOfTable(m.table)].Content = m.table.Content
<1>1. ASSUME FeedInv, [Next]_feedVars PROVE [\A m \in sent' : Cached(m)]_feedVars
  <2>1. ASSUME NEW st \in OnAirNow, Receive(st) \/ ReceiveNext(st) PROVE \A m \in sent' : Cached(m)
    BY <1>1, <2>1, SectionsAreSent, DeliveredStored
  <2>2. CASE \A st \in OnAirNow : ~ Receive(st) /\ ~ ReceiveNext(st)
    BY <1>1, <2>2, NothingIsSent
  <2>3. QED
    BY <2>1, <2>2
<1>2. QED
  BY <1>1, FeedInvariant, PTL DEF FeedSpec, DeliveredIsCached

\* A table that a kept parser delivers is of a later generation than the one it
\* delivered before: what is cleared from the cache does not come back in the
\* generation it had.
LEMMA RefillIsNewer ==
  ASSUME FeedInv, NEW st \in Received, NEW g, NEW S, Possible(st, g, S), g >= onAir[st].gen,
         NEW n \in S, NEW current \in BOOLEAN,
         IsEit(SubTableId[st]) => g = onAir[st].gen /\ n = cursor[st],
         Deliver(SectionOnAir(st, g, S, n, current)),
         NEW key \in DOMAIN cache' \ DOMAIN cache,
         ~ renews, AloneInParser(cache'[key].Content[1].of),
         cache'[key].Content[1].of \notin Announced
  PROVE  cache'[key].Content[1].gen # given[cache'[key].Content[1].of]
<1> DEFINE s == SectionOnAir(st, g, S, n, current)
<1>1. HandleSection(s)
  BY DEF Deliver, ParseSiData
<1>2. PICK m \in sent' : HandleTableEvent(m.table)
  BY DEF Deliver
<1>3. cache'[key] = m.table
  BY <1>2, StoreChanges
<1>4. /\ Mine(m.table.Content[1].of) => m.table.Content[1].of = st
      /\ Mine(st) => m.table.Content[1].gen = g
  BY <1>1, TableStep
<1>5. m.table.Content[1].of = st /\ m.table.Content[1].gen = g
  BY <1>3, <1>4 DEF Mine
<1>6. Accepts(ListOf(st), s)
  <2>1. KeyOf(s) = SubTableKey(st)
    BY SentIsFromAir
  <2>2. QED
    BY <1>1, <1>2, <2>1 DEF HandleSection, ListOf
<1> HIDE DEF s
<1>7. given[st] < g
  BY <1>3, <1>5, <1>6, GivenLess DEF s
<1>8. g \in Nat /\ given[st] \in Nat
  BY OnAirAreSubTables DEF FeedInv, FeedFunctions, Possible
<1>9. QED
  BY <1>3, <1>5, <1>7, <1>8

\* With a kept parser, what is cleared is not filled in again until its version
\* changes, in any order of clearing, tuning and sending.
THEOREM KeptParserRefillsNewOnly == FeedSpec => KeptParserNeverRefills
<1> DEFINE Newer(key) ==
      LET content == cache'[key].Content
          st == content[1].of
      IN ~ renews /\ AloneInParser(st) /\ st \notin Announced => content[1].gen # given[st]
<1>1. ASSUME FeedInv, [Next]_feedVars
      PROVE  [\A key \in DOMAIN cache' \ DOMAIN cache : Newer(key)]_feedVars
  <2>1. ASSUME NEW st \in OnAirNow, Receive(st) \/ ReceiveNext(st)
        PROVE  \A key \in DOMAIN cache' \ DOMAIN cache : Newer(key)
    BY <1>1, <2>1, SectionsAreSent, RefillIsNewer
  <2>2. CASE \A st \in OnAirNow : ~ Receive(st) /\ ~ ReceiveNext(st)
    BY <1>1, <2>2, NothingIsSent
  <2>3. QED
    BY <2>1, <2>2
<1>2. QED
  BY <1>1, FeedInvariant, PTL DEF FeedSpec, KeptParserNeverRefills

=============================================================================
