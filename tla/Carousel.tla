------------------------------ MODULE Carousel ------------------------------
(***************************************************************************)
(* The section parser listening to a broadcast on one transport stream.    *)
(* Now and then a sub-table moves to a new version.  The receiver starts   *)
(* listening anywhere in the cycle, may lose sections, and may be tuned    *)
(* away for a while.  One application is registered with the parser from   *)
(* the start.                                                              *)
(***************************************************************************)
EXTENDS Broadcast

CONSTANTS
  Programmes,     \* the sets of sub-tables that may be on air together
  MaxMissed,      \* how many versions in a row may go unheard
  Lossy           \* the sub-tables whose sections may get lost

\* Two sub-tables differ in table id or extension, all the parser looks at.
\* The version field has 5 bits, so after 32 unheard versions it repeats.
ASSUME CarouselAssumption ==
  /\ Programmes \subseteq SUBSET SubTables
  /\ \A st1, st2 \in SubTables :
       SubTableKey(st1) = SubTableKey(st2) => st1 = st2
  /\ MaxMissed \in 1..31
  /\ Lossy \subseteq SubTables

VARIABLES
  onAir,    \* the generation and section numbers of each sub-table, 0: none
  cursor,   \* the section to be sent next
  heard,    \* the generation of the section received last; 0: none yet
  shown     \* what the last SendEvent carried; << >>: none yet

carouselVars == <<onAir, cursor, heard, shown>>
vars == <<parserVars, carouselVars>>

-----------------------------------------------------------------------------
OnAir(st, programme) ==
  IF st \in programme THEN [gen: {1}, numbers: Layouts[st]]
  ELSE {[gen |-> 0, numbers |-> {0}]}

CarouselInit ==
  /\ m_sectionMap = [k \in Keys |-> NewList]
  /\ ObserverVector = [o \in Observers |-> IF o = Application THEN 1 ELSE 0]
  /\ sent = {}
  /\ \E programme \in Programmes :
       onAir \in {f \in [SubTables -> UNION {OnAir(st, programme) : st \in SubTables}] :
                    \A st \in SubTables : f[st] \in OnAir(st, programme)}
  /\ cursor = [st \in SubTables |-> Smallest(onAir[st].numbers)]
  /\ heard = [st \in SubTables |-> 0]
  /\ shown = [st \in SubTables |-> << >>]

Advance(st) ==
  cursor' = [cursor EXCEPT ![st] = Following(onAir[st].numbers, @)]

\* The application keeps the content of the table its SendEvent was given.
KeepShown(st) ==
  shown' = [shown EXCEPT ![st] =
              IF \E m \in sent' : <<m.table.TableId, m.table.Ext>> = SubTableKey(st)
                THEN (CHOOSE m \in sent' :
                        <<m.table.TableId, m.table.Ext>> = SubTableKey(st)).table.Content
                ELSE @]

\* The next section of the sub-table reaches the parser.
Receive(st) ==
  /\ onAir[st].gen > 0
  /\ \E s \in {SectionOnAir(st, onAir[st].gen, onAir[st].numbers, cursor[st], TRUE)} :
       ParseSiData(s)
  /\ Advance(st)
  /\ heard' = [heard EXCEPT ![st] = onAir[st].gen]
  /\ KeepShown(st)
  /\ UNCHANGED onAir

\* It is broadcast but does not get through.
Lose(st) ==
  /\ onAir[st].gen > 0
  /\ st \in Lossy
  /\ Advance(st)
  /\ UNCHANGED <<parserVars, onAir, heard, shown>>

\* The sub-table moves to its next version and a new cycle, which the
\* receiver joins at any section of it.
NewVersion(st) ==
  /\ onAir[st].gen \in 1..MaxGeneration[st] - 1
  /\ onAir[st].gen - heard[st] < MaxMissed
  /\ \E S \in Layouts[st] :
       /\ onAir' = [onAir EXCEPT ![st] = [gen |-> @.gen + 1, numbers |-> S]]
       /\ \E n \in S : cursor' = [cursor EXCEPT ![st] = n]
  /\ UNCHANGED <<parserVars, heard, shown>>

Next == \E st \in SubTables : Receive(st) \/ Lose(st) \/ NewVersion(st)

Spec == CarouselInit /\ [][Next]_vars

\* The broadcaster goes on sending every sub-table, and no section of it is
\* lost every time it comes round.
Numbers == UNION {UNION Layouts[st] : st \in SubTables}

FairCarouselSpec ==
  /\ Spec
  /\ \A st \in SubTables : WF_vars(Receive(st) \/ Lose(st))
  /\ \A st \in Lossy : \A n \in UNION Layouts[st] :
       SF_vars(cursor[st] = n /\ Receive(st))

-----------------------------------------------------------------------------
(***************************************************************************)
(* Properties.                                                             *)
(***************************************************************************)

\* All sections of a list carry the content of one generation, the one
\* received last: a list never mixes what was broadcast under one version
\* number with what is broadcast under it 32 versions later.
NoTornList ==
  \A st \in SubTables :
    LET l == m_sectionMap[SubTableKey(st)]
    IN \A i \in DOMAIN l.Sections :
         /\ l.Sections[i].Body.of = st
         /\ l.Sections[i].Body.gen = heard[st]
         /\ l.Sections[i].Body.number = l.Sections[i].Number

\* What the application holds of a sub-table is one generation of it, whole.
GivenWhole(st) == shown[st][1].of = st /\ IsWhole(shown[st])

ShownWhole == \A st \in SubTables : shown[st] # << >> => GivenWhole(st)

\* The generation shown last, as TableFeed counts it; -1 is no generation.
ShownGeneration(st) ==
  IF shown[st] = << >> THEN 0
  ELSE IF GivenWhole(st) THEN shown[st][1].gen
  ELSE -1

\* The parser implements the table feed: what the application is shown is
\* always the table then on air, whole, and the table that stays on air is
\* shown in the end.
Feed == INSTANCE TableFeed
          WITH aired <- [st \in SubTables |-> onAir[st].gen],
               shown <- [st \in SubTables |-> ShownGeneration(st)]

FairTableFeed == Feed!FairFeedSpec

\* The comment in IsSectionListComplete: an EIT is only taken for complete
\* after a full cycle "to make sure we got all the sections".
AllSectionsOfFullCycle == ShownWhole

=============================================================================
