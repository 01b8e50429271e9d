---------------------------- MODULE CarouselProofs --------------------------
(***************************************************************************)
(* What the parser makes of a broadcast, for every set of sub-tables, of   *)
(* shapes and of generations: no list is ever torn, and, of tables whose   *)
(* sections are numbered without gaps, the application is shown whole ones *)
(* in the order in which they are on air.                                  *)
(***************************************************************************)
EXTENDS Carousel, BroadcastProofs

\* The list of a sub-table holds the generation heard last.
Held(st) ==
  \E S \in Layouts[st] :
    /\ heard[st] = onAir[st].gen /\ heard[st] > 0 => S = onAir[st].numbers
    /\ HeldOf(st, m_sectionMap[SubTableKey(st)], heard[st], S)

\* The generation heard last is at most MaxMissed behind the one on air.
InTouch(st) ==
  /\ onAir[st].gen \in 0..MaxGeneration[st]
  /\ onAir[st].gen > 0 => /\ onAir[st].numbers \in Layouts[st]
                          /\ cursor[st] \in onAir[st].numbers
  /\ heard[st] \in 0..onAir[st].gen
  /\ onAir[st].gen - heard[st] <= MaxMissed

\* The inductive invariant.  NoTornList alone is not inductive: whether a
\* section starts a list again is decided by its version number, and that
\* tells generations apart only while InTouch holds.
CarouselInv ==
  /\ ParserInv
  /\ onAir \in [SubTables -> [gen: Nat, numbers: SUBSET Byte]]
  /\ DOMAIN cursor = SubTables /\ DOMAIN heard = SubTables
  /\ \A st \in SubTables : InTouch(st) /\ Held(st)

-----------------------------------------------------------------------------
(***************************************************************************)
(* The invariant is one.                                                   *)
(***************************************************************************)
LEMMA CarouselInvInit == CarouselInit => CarouselInv
<1> SUFFICES ASSUME CarouselInit PROVE CarouselInv
  OBVIOUS
<1>1. ParserInv
  <2>1. NewList \in List
    BY DEF NewList, List, Byte
  <2>2. QED
    BY <2>1, NewListInv DEF CarouselInit, ParserInv, TypeOK
<1>2. ASSUME NEW st \in SubTables
      PROVE  /\ onAir[st] \in [gen: Nat, numbers: SUBSET Byte]
             /\ onAir[st].gen \in 0..1
             /\ onAir[st].gen > 0 => onAir[st].numbers \in Layouts[st]
             /\ cursor[st] = Smallest(onAir[st].numbers)
  <2>1. PICK programme \in Programmes : onAir[st] \in OnAir(st, programme)
    BY DEF CarouselInit
  <2>2. 0 \in Byte
    BY DEF Byte
  <2>3. QED
    BY <2>1, <2>2, LayoutsAreBytes DEF OnAir, CarouselInit
<1>3. onAir \in [SubTables -> [gen: Nat, numbers: SUBSET Byte]]
  BY <1>2 DEF CarouselInit
<1>4. ASSUME NEW st \in SubTables PROVE InTouch(st) /\ Held(st)
  <2>1. /\ heard[st] = 0
        /\ m_sectionMap[SubTableKey(st)].Sections = << >>
    BY SubTableHasList DEF CarouselInit, NewList
  <2>2. PICK S \in Layouts[st] : TRUE
    BY BroadcastAssumption
  <2>3. Held(st)
    BY <2>1, <2>2 DEF Held, HeldOf
  <2>4. MaxMissed \in 1..31 /\ MaxGeneration[st] \in Nat \ {0}
    BY CarouselAssumption, BroadcastAssumption
  <2>5. onAir[st].gen > 0 => cursor[st] \in onAir[st].numbers
    BY <1>2, SmallestIsIn, LayoutsAreBytes
  <2>6. onAir[st].gen \in 0..MaxGeneration[st] /\ onAir[st].gen - heard[st] <= MaxMissed
    <3>1. PICK g \in 0..1 : g = onAir[st].gen
      BY <1>2
    <3>2. g \in 0..MaxGeneration[st] /\ g - 0 <= MaxMissed
      BY <2>4
    <3>3. heard[st] = 0
      BY <2>1
    <3>4. QED
      BY <3>1, <3>2, <3>3
  <2>7. heard[st] \in 0..onAir[st].gen
    BY <1>2, <2>1
  <2>8. QED
    BY <1>2, <2>3, <2>5, <2>6, <2>7 DEF InTouch
<1>5. QED
  BY <1>1, <1>3, <1>4 DEF CarouselInv, CarouselInit

\* A section that is received.
LEMMA ReceiveInv ==
  ASSUME CarouselInv, NEW st \in SubTables, Receive(st)
  PROVE  CarouselInv'
<1> DEFINE g == onAir[st].gen
           S == onAir[st].numbers
           s == SectionOnAir(st, g, S, cursor[st], TRUE)
           k == SubTableKey(st)
           new == AddSiSection(m_sectionMap[k], s)
<1>1. g \in 1..MaxGeneration[st] /\ S \in Layouts[st] /\ cursor[st] \in S
  BY DEF Receive, CarouselInv, InTouch
<1>2. s \in Sections /\ s \in Section /\ KeyOf(s) = k /\ k \in Keys
  BY <1>1, OnAirIsSection, SubTableHasList
<1>3. HandleSection(s)
  BY DEF Receive, ParseSiData
<1>4. ParserInv'
  BY <1>2, <1>3, HandleSectionInv DEF CarouselInv
<1>5. m_sectionMap' = [m_sectionMap EXCEPT ![k] = new]
  BY <1>2, <1>3 DEF HandleSection
<1>6. /\ onAir' = onAir
      /\ heard' = [heard EXCEPT ![st] = g]
      /\ cursor' = [cursor EXCEPT ![st] = Following(S, cursor[st])]
  BY DEF Receive, Advance
<1>7. HeldOf(st, new, g, S)
  <2>1. PICK T \in Layouts[st] :
          /\ heard[st] = g /\ heard[st] > 0 => T = S
          /\ HeldOf(st, m_sectionMap[k], heard[st], T)
    BY DEF CarouselInv, Held
  <2>2. heard[st] \in Nat /\ heard[st] <= g /\ g - heard[st] <= 31
    BY <1>1, CarouselAssumption DEF CarouselInv, InTouch
  <2>3. ListInv(m_sectionMap[k], k)
    BY <1>2 DEF CarouselInv, ParserInv
  <2>4. VersionNumber(heard[st]) = VersionNumber(g) => heard[st] = g /\ T = S
    <3>1. heard[st] = g => T = S
      BY <1>1, <2>1
    <3>2. g \in Nat
      BY <1>1, BroadcastAssumption
    <3>3. heard[st] < g => VersionNumber(heard[st]) # VersionNumber(g)
      BY <2>2, <3>2, VersionsDiffer
    <3>4. QED
      BY <2>2, <3>1, <3>2, <3>3
  <2>5. TRUE \in BOOLEAN
    OBVIOUS
  <2>6. QED
    BY <1>1, <2>1, <2>3, <2>4, <2>5, AddSiSectionHolds
<1> HIDE DEF new, s
<1>8. ASSUME NEW u \in SubTables PROVE InTouch(u)' /\ Held(u)'
  <2>1. CASE u = st
    <3>1. m_sectionMap'[k] = new /\ heard'[st] = g
      BY <1>2, <1>5, <1>6 DEF CarouselInv, ParserInv, TypeOK
    <3>2. Held(st)'
      BY <1>1, <1>6, <1>7, <3>1 DEF Held
    <3>3. cursor'[st] \in S
      BY <1>1, <1>6, FollowingIsIn, LayoutsAreBytes DEF CarouselInv
    <3>4. MaxMissed \in 1..31
      BY CarouselAssumption
    <3>5. InTouch(st)'
      BY <1>1, <1>6, <3>1, <3>3, <3>4 DEF InTouch, CarouselInv
    <3>6. QED
      BY <2>1, <3>2, <3>5
  <2>2. CASE u # st
    <3>1. SubTableKey(u) # k /\ SubTableKey(u) \in Keys
      BY <2>2, SubTableHasList, CarouselAssumption
    <3>2. /\ m_sectionMap'[SubTableKey(u)] = m_sectionMap[SubTableKey(u)]
          /\ heard'[u] = heard[u] /\ cursor'[u] = cursor[u]
      BY <1>5, <1>6, <2>2, <3>1 DEF CarouselInv, ParserInv, TypeOK
    <3>3. QED
      BY <1>6, <3>2 DEF CarouselInv, InTouch, Held
  <2>3. QED
    BY <2>1, <2>2
<1>9. QED
  BY <1>4, <1>6, <1>8 DEF CarouselInv

\* A section that is lost.
LEMMA LoseInv ==
  ASSUME CarouselInv, NEW st \in SubTables, Lose(st)
  PROVE  CarouselInv'
<1>1. /\ UNCHANGED <<parserVars, onAir, heard>>
      /\ cursor' = [cursor EXCEPT ![st] = Following(onAir[st].numbers, cursor[st])]
      /\ onAir[st].gen > 0
  BY DEF Lose, Advance
<1>2. ParserInv'
  BY <1>1 DEF CarouselInv, ParserInv, TypeOK, parserVars
<1>3. cursor'[st] \in onAir[st].numbers
  BY <1>1, FollowingIsIn, LayoutsAreBytes DEF CarouselInv, InTouch
<1>4. ASSUME NEW u \in SubTables PROVE InTouch(u)' /\ Held(u)'
  <2>1. Held(u)'
    BY <1>1 DEF CarouselInv, Held, parserVars
  <2>2. u # st => cursor'[u] = cursor[u]
    BY <1>1 DEF CarouselInv
  <2>3. QED
    BY <1>1, <1>3, <2>1, <2>2 DEF CarouselInv, InTouch
<1>5. QED
  BY <1>1, <1>2, <1>4 DEF CarouselInv

\* A new version.
LEMMA NewVersionInv ==
  ASSUME CarouselInv, NEW st \in SubTables, NewVersion(st)
  PROVE  CarouselInv'
<1>1. PICK S \in Layouts[st] :
        /\ onAir' = [onAir EXCEPT ![st] = [gen |-> onAir[st].gen + 1, numbers |-> S]]
        /\ \E n \in S : cursor' = [cursor EXCEPT ![st] = n]
  BY DEF NewVersion
<1>2. UNCHANGED <<parserVars, heard>>
  BY DEF NewVersion
<1>3. ParserInv'
  BY <1>2 DEF CarouselInv, ParserInv, TypeOK, parserVars
<1>4. /\ onAir[st].gen \in 1..MaxGeneration[st] - 1
      /\ onAir[st].gen - heard[st] < MaxMissed
      /\ heard[st] \in 0..onAir[st].gen
      /\ MaxMissed \in 1..31
      /\ MaxGeneration[st] \in Nat
  BY CarouselAssumption, BroadcastAssumption DEF NewVersion, CarouselInv, InTouch
<1>5. /\ onAir'[st] = [gen |-> onAir[st].gen + 1, numbers |-> S]
      /\ cursor'[st] \in S
      /\ \A u \in SubTables \ {st} : onAir'[u] = onAir[u] /\ cursor'[u] = cursor[u]
  BY <1>1 DEF CarouselInv
<1>6. onAir' \in [SubTables -> [gen: Nat, numbers: SUBSET Byte]]
  BY <1>1, <1>4, LayoutsAreBytes DEF CarouselInv
<1>7. ASSUME NEW u \in SubTables PROVE InTouch(u)' /\ Held(u)'
  <2>1. CASE u = st
    <3>1. heard'[st] # onAir'[st].gen
      BY <1>2, <1>4, <1>5
    <3>2. Held(st)'
      BY <1>2, <3>1 DEF CarouselInv, Held, parserVars
    <3>3. InTouch(st)'
      BY <1>2, <1>4, <1>5 DEF InTouch
    <3>4. QED
      BY <2>1, <3>2, <3>3
  <2>2. CASE u # st
    BY <1>2, <1>5, <2>2 DEF CarouselInv, InTouch, Held, parserVars
  <2>3. QED
    BY <2>1, <2>2
<1>8. QED
  BY <1>1, <1>2, <1>3, <1>6, <1>7 DEF CarouselInv

LEMMA CarouselInvNext == CarouselInv /\ [Next]_vars => CarouselInv'
<1> SUFFICES ASSUME CarouselInv, [Next]_vars PROVE CarouselInv'
  OBVIOUS
<1>1. CASE UNCHANGED vars
  <2>1. UNCHANGED <<m_sectionMap, ObserverVector, sent, onAir, cursor, heard>>
    BY <1>1 DEF vars, parserVars, carouselVars
  <2>2. ParserInv'
    BY <2>1 DEF CarouselInv, ParserInv, TypeOK
  <2>3. QED
    BY <2>1, <2>2 DEF CarouselInv, InTouch, Held
<1>2. QED
  BY <1>1, ReceiveInv, LoseInv, NewVersionInv DEF Next

LEMMA CarouselInvariant == Spec => []CarouselInv
BY CarouselInvInit, CarouselInvNext, PTL DEF Spec

\* No list ever mixes generations, nor holds an old one for a new one that
\* has its version number.
THEOREM NeverTorn == Spec => []NoTornList
<1>1. CarouselInv => NoTornList
  <2> SUFFICES ASSUME CarouselInv, NEW st \in SubTables,
                      NEW i \in DOMAIN m_sectionMap[SubTableKey(st)].Sections
               PROVE  LET s == m_sectionMap[SubTableKey(st)].Sections[i]
                      IN s.Body.of = st /\ s.Body.gen = heard[st] /\ s.Body.number = s.Number
    BY DEF NoTornList
  <2>1. PICK S \in Layouts[st] : HeldOf(st, m_sectionMap[SubTableKey(st)], heard[st], S)
    BY DEF CarouselInv, Held
  <2>2. PICK n \in S, c \in BOOLEAN :
          m_sectionMap[SubTableKey(st)].Sections[i] = SectionOnAir(st, heard[st], S, n, c)
    BY <2>1 DEF HeldOf
  <2>3. QED
    BY <2>2 DEF SectionOnAir
<1>2. QED
  BY <1>1, CarouselInvariant, PTL

-----------------------------------------------------------------------------
(***************************************************************************)
(* Tables without gaps in their section numbers.                           *)
(***************************************************************************)
NoEit == \A st \in SubTables : ~ IsEit(SubTableId[st])

\* What a step that receives a section shows, if anything, is the table on air.
LEMMA ReceiveShows ==
  ASSUME NoEit, CarouselInv, NEW st \in SubTables, Receive(st), DOMAIN shown = SubTables
  PROVE  /\ DOMAIN shown' = SubTables
         /\ \A u \in SubTables \ {st} : shown'[u] = shown[u]
         /\ \/ shown'[st] = shown[st]
            \/ /\ shown'[st] # << >>
               /\ GivenWhole(st)'
               /\ shown'[st][1].gen = onAir[st].gen
<1> DEFINE k == SubTableKey(st)
           list == m_sectionMap'[k]
           g == onAir[st].gen
<1>1. /\ DOMAIN shown' = SubTables
      /\ \A u \in SubTables \ {st} : shown'[u] = shown[u]
  BY DEF Receive, KeepShown
<1>2. CASE ~ \E m \in sent' : <<m.table.TableId, m.table.Ext>> = k
  BY <1>1, <1>2 DEF Receive, KeepShown
<1>3. CASE \E m \in sent' : <<m.table.TableId, m.table.Ext>> = k
  <2>1. PICK m \in sent' : shown'[st] = m.table.Content
    BY <1>3 DEF Receive, KeepShown
  <2>2. PICK s \in Sections : HandleSection(s) /\ KeyOf(s) = k
    <3>1. onAir[st].gen \in 1..MaxGeneration[st] /\ onAir[st].numbers \in Layouts[st]
            /\ cursor[st] \in onAir[st].numbers
      BY DEF Receive, CarouselInv, InTouch
    <3>2. QED
      BY <3>1, OnAirIsSection DEF Receive, ParseSiData
  <2>3. k \in Keys /\ m_sectionMap'[k] = AddSiSection(m_sectionMap[k], s)
    BY <2>2, SubTableHasList DEF HandleSection, CarouselInv, ParserInv, TypeOK
  <2>4. list.IsComplete /\ m.table \in BuildTable(list)
    BY <2>1, <2>2, <2>3 DEF HandleSection, NotifyDvbSectionParserObserver
  <2>5. CarouselInv' /\ heard'[st] = g /\ onAir' = onAir
    BY ReceiveInv DEF Receive, CarouselInv
  <2>6. PICK S \in Layouts[st] : HeldOf(st, list, g, S)
    BY <2>5 DEF CarouselInv, Held
  <2>7. ListInv(list, k)
    BY <2>3, <2>5 DEF CarouselInv, ParserInv, Keys
  <2>8. shown'[st] = Content(list.Sections)
    BY <2>1, <2>4 DEF BuildTable, TableOf
  <2> HIDE DEF list, g
  <2>9. IsTableOf(Content(list.Sections), st, g, S)
    <3>1. list.Sections # << >> /\ NumbersIn(list) = S
      BY <2>4, <2>6, <2>7, CompleteHasAll DEF NoEit
    <3>2. QED
      BY <2>6, <2>7, <3>1, TableFromList
  <2>10. /\ Content(list.Sections) # << >>
         /\ Content(list.Sections)[1].of = st
         /\ Content(list.Sections)[1].gen = g
         /\ IsWhole(Content(list.Sections))
    <3>1. Content(list.Sections) # << >>
      BY <2>9 DEF IsTableOf
    <3>2. QED
      BY <2>9, <3>1, TableIsWhole
  <2>11. QED
    BY <1>1, <2>8, <2>10 DEF GivenWhole, g
<1>4. QED
  BY <1>2, <1>3

\* The tables the application was given are whole.
ShownInv == CarouselInv /\ DOMAIN shown = SubTables /\ ShownWhole

LEMMA ShownInvariant ==
  ASSUME NoEit
  PROVE  Spec => []ShownInv
<1>1. CarouselInit => ShownInv
  BY CarouselInvInit DEF CarouselInit, ShownInv, ShownWhole
<1>2. ShownInv /\ [Next]_vars => ShownInv'
  <2> SUFFICES ASSUME ShownInv, [Next]_vars PROVE ShownInv'
    OBVIOUS
  <2>1. CarouselInv'
    BY CarouselInvNext DEF ShownInv
  <2>2. ASSUME NEW st \in SubTables, Receive(st)
        PROVE  DOMAIN shown' = SubTables /\ ShownWhole'
    BY <2>2, ReceiveShows DEF ShownInv, ShownWhole, GivenWhole
  <2>3. ASSUME NEW st \in SubTables, Lose(st) \/ NewVersion(st)
        PROVE  DOMAIN shown' = SubTables /\ ShownWhole'
    BY <2>3 DEF Lose, NewVersion, ShownInv, ShownWhole, GivenWhole
  <2>4. ASSUME UNCHANGED vars
        PROVE  DOMAIN shown' = SubTables /\ ShownWhole'
    BY <2>4 DEF vars, carouselVars, ShownInv, ShownWhole, GivenWhole
  <2>5. DOMAIN shown' = SubTables /\ ShownWhole'
    BY <2>2, <2>3, <2>4 DEF Next
  <2>6. QED
    BY <2>1, <2>5 DEF ShownInv
<1>3. QED
  BY <1>1, <1>2, PTL DEF Spec

\* Of tables without gaps the application only ever holds whole ones.
THEOREM AlwaysShownWhole ==
  ASSUME NoEit
  PROVE  Spec => []ShownWhole
<1>1. ShownInv => ShownWhole
  BY DEF ShownInv
<1>2. QED
  BY <1>1, ShownInvariant, PTL

\* The parser implements the safety half of the table feed: every step of it
\* replaces a table on air, shows the one on air, or changes nothing that the
\* feed knows of.
THEOREM CarouselImplementsFeed ==
  ASSUME NoEit
  PROVE  Spec => Feed!FeedSpec
<1>1. CarouselInit => Feed!FeedInit
  <2> SUFFICES ASSUME CarouselInit PROVE Feed!FeedInit
    OBVIOUS
  <2>1. \A st \in SubTables : shown[st] = << >>
    BY DEF CarouselInit
  <2>2. \A st \in SubTables : onAir[st].gen \in 0..1
    <3> SUFFICES ASSUME NEW st \in SubTables PROVE onAir[st].gen \in 0..1
      OBVIOUS
    <3>1. PICK programme \in Programmes : onAir[st] \in OnAir(st, programme)
      BY DEF CarouselInit
    <3>2. \/ onAir[st] \in [gen: {1}, numbers: Layouts[st]]
          \/ onAir[st] = [gen |-> 0, numbers |-> {0}]
      BY <3>1 DEF OnAir
    <3>3. QED
      BY <3>2
  <2>3. QED
    BY <2>1, <2>2 DEF Feed!FeedInit, ShownGeneration
<1>2. ShownInv /\ ShownInv' /\ [Next]_vars => [Feed!FeedNext]_(Feed!feedVars)
  <2> SUFFICES ASSUME ShownInv, ShownInv', [Next]_vars
               PROVE  [Feed!FeedNext]_(Feed!feedVars)
    OBVIOUS
  <2>1. ASSUME NEW st \in SubTables, Receive(st)
        PROVE  Feed!Show(st) \/ UNCHANGED Feed!feedVars
    <3>1. onAir' = onAir /\ onAir[st].gen \in Nat \ {0}
      BY <2>1 DEF Receive, ShownInv, CarouselInv
    <3>2. /\ \A u \in SubTables \ {st} : shown'[u] = shown[u]
          /\ \/ shown'[st] = shown[st]
             \/ /\ shown'[st] # << >>
                /\ GivenWhole(st)'
                /\ shown'[st][1].gen = onAir[st].gen
      BY <2>1, ReceiveShows DEF ShownInv
    <3>3. \A u \in SubTables \ {st} : ShownGeneration(u)' = ShownGeneration(u)
      BY <3>2 DEF ShownGeneration, GivenWhole
    <3>4. \/ ShownGeneration(st)' = ShownGeneration(st)
          \/ ShownGeneration(st)' = onAir[st].gen
      BY <3>2 DEF ShownGeneration, GivenWhole
    <3>5. CASE ShownGeneration(st)' = ShownGeneration(st)
      BY <3>1, <3>3, <3>5 DEF Feed!feedVars
    <3>6. CASE ShownGeneration(st)' = onAir[st].gen /\ ShownGeneration(st) # onAir[st].gen
      BY <3>1, <3>3, <3>6 DEF Feed!Show
    <3>7. QED
      BY <3>4, <3>5, <3>6
  <2>2. ASSUME NEW st \in SubTables, Lose(st)
        PROVE  UNCHANGED Feed!feedVars
    BY <2>2 DEF Lose, Feed!feedVars, ShownGeneration, GivenWhole
  <2>3. ASSUME NEW st \in SubTables, NewVersion(st)
        PROVE  Feed!Replace(st)
    <3>1. onAir[st].gen > 0 /\ shown' = shown
      BY <2>3 DEF NewVersion, ShownInv, CarouselInv
    <3>2. /\ onAir'[st].gen = onAir[st].gen + 1
          /\ \A u \in SubTables \ {st} : onAir'[u] = onAir[u]
      BY <2>3 DEF NewVersion, ShownInv, CarouselInv
    <3>3. \A u \in SubTables : ShownGeneration(u)' = ShownGeneration(u)
      BY <3>1 DEF ShownGeneration, GivenWhole
    <3>4. QED
      BY <3>1, <3>2, <3>3 DEF Feed!Replace
  <2>4. CASE UNCHANGED vars
    BY <2>4 DEF vars, carouselVars, Feed!feedVars, ShownGeneration, GivenWhole
  <2>5. QED
    BY <2>1, <2>2, <2>3, <2>4 DEF Next, Feed!FeedNext
<1>3. QED
  BY <1>1, <1>2, ShownInvariant, PTL DEF Spec, Feed!FeedSpec

=============================================================================
