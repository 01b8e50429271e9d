---------------------------- MODULE SectionParser ---------------------------
(***************************************************************************)
(* The section parser: class TSectionParser.  It keeps a section list per  *)
(* (table id, table id extension), feeds each section the demultiplexer    *)
(* delivers to its list, and hands the table built from a list that became *)
(* complete to every registered observer.                                  *)
(*                                                                         *)
(* The parser is called from one thread, so a call of ParseSiData is one   *)
(* step.  Which section comes next is the demultiplexer's business: the    *)
(* module allows any section of Sections at any time, which covers loss,   *)
(* repetition and every order.  Module Carousel puts a broadcaster there.  *)
(***************************************************************************)
EXTENDS SectionList

CONSTANTS
  Sections,       \* the sections the demultiplexer may deliver
  Uninitialized,  \* what a section object may hold after 1 or 2 bytes
  Observers,      \* the objects that may register
  MaxRegistered   \* bound: how often one object may be registered at once

\* Sections are well-typed; a section object made from fewer than 3 bytes
\* keeps the constructor's zeros and has no payload, while its table id and
\* syntax indicator are whatever the allocation held.
ASSUME SectionsAssumption ==
  /\ Sections \subseteq Section
  /\ Uninitialized \subseteq Section
  /\ \A s \in Uninitialized :
       s.Ext = 0 /\ s.Version = 0 /\ s.Number = 0 /\ s.Last = 0
  /\ MaxRegistered \in Nat

VARIABLES
  m_sectionMap,    \* the section list of every key; a new list if absent
  ObserverVector,  \* how many times each object is in the vector
  sent             \* the calls of SendEvent the last step made

parserVars == <<m_sectionMap, ObserverVector, sent>>

KeyOf(s) == <<s.TableId, s.Ext>>

Keys == {KeyOf(s) : s \in Sections \cup Uninitialized}

IsTableSupported(id) ==
  \/ id \in NIT..SDT
  \/ id \in {SDT_OTHER, BAT, TDT, TOT}
  \/ IsEit(id)
  \/ id \in USER_DEFINED_START..USER_DEFINED_END

ParserInit ==
  /\ m_sectionMap = [k \in Keys |-> NewList]
  /\ ObserverVector = [o \in Observers |-> 0]
  /\ sent = {}

(***************************************************************************)
(* NotifyDvbSectionParserObserver: a SendEvent for every element of the   *)
(* vector, all with the same table, so their order does not matter.        *)
(***************************************************************************)
NotifyDvbSectionParserObserver(tables) ==
  {[to |-> o, table |-> t] : o \in {o \in Observers : ObserverVector[o] > 0},
                             t \in tables}

\* What the rest of ParseSiData does with the section object it made: the
\* table is built when the section was added and the list is now complete.
HandleSection(s) ==
  \E list \in {AddSiSection(m_sectionMap[KeyOf(s)], s)} :
    /\ m_sectionMap' = [m_sectionMap EXCEPT ![KeyOf(s)] = list]
    /\ sent' = IF Accepts(m_sectionMap[KeyOf(s)], s) /\ list.IsComplete
                 THEN NotifyDvbSectionParserObserver(BuildTable(list))
                 ELSE {}
    /\ UNCHANGED ObserverVector

ParseSiData(s) ==
  /\ IsTableSupported(s.TableId)
  /\ HandleSection(s)

\* One or two bytes with a supported table id in the first: the constructor
\* returns early and the object is used all the same.
ParseShortData == \E s \in Uninitialized : HandleSection(s)

\* push_back, without a look at what is in the vector.
RegisterDvbSectionParserObserver(o) ==
  /\ ObserverVector[o] < MaxRegistered
  /\ ObserverVector' = [ObserverVector EXCEPT ![o] = @ + 1]
  /\ sent' = {}
  /\ UNCHANGED m_sectionMap

\* A bug: one registration is dropped, registered or not.
RemoveOneRegistration(o) ==
  /\ ObserverVector' = [ObserverVector EXCEPT ![o] = @ - 1]
  /\ sent' = {}
  /\ UNCHANGED m_sectionMap

\* erase(remove(...)): every element equal to the observer goes.
RemoveDvbSectionParserObserver(o) ==
  /\ ObserverVector' = [ObserverVector EXCEPT ![o] = 0]
  /\ sent' = {}
  /\ UNCHANGED m_sectionMap

ParserNext ==
  \/ \E s \in Sections : ParseSiData(s)
  \/ ParseShortData
  \/ \E o \in Observers : RegisterDvbSectionParserObserver(o)
  \/ \E o \in Observers : RemoveDvbSectionParserObserver(o)

ParserSpec == ParserInit /\ [][ParserNext]_parserVars

-----------------------------------------------------------------------------
(***************************************************************************)
(* Properties.                                                             *)
(***************************************************************************)

\* Type invariant of the parser's state.
TypeOK ==
  /\ m_sectionMap \in [Keys -> List]
  /\ ObserverVector \in [Observers -> Nat]
  /\ sent \subseteq [to: Observers, table: Table]

Lists == {m_sectionMap[k] : k \in Keys}

\* A table is never assembled from sections of two versions, whatever
\* arrives in between.
ListsCoherent == \A l \in Lists : Coherent(l)

\* No section is in a table twice, and the loops of the table builders meet
\* the sections in broadcast order, whatever the order of arrival.
ListsOrdered == \A l \in Lists : Ordered(l.Sections)

\* A table is published whole as far as its kind shows it, and the flag
\* that says so is never left over from an earlier content of the list.
ListsWhole == \A l \in Lists : Whole(l)

\* A list that becomes complete is announced to every observer in the same
\* step.  There is no second chance: from then on every section of that
\* version is ignored.  (Garbage may complete a list of an id no builder
\* knows, so only supported ids count.)
CompletionAnnounced ==
  [][\A k \in Keys :
       LET new == m_sectionMap'[k]
       IN  /\ new.IsComplete
           /\ new # m_sectionMap[k]
           /\ IsTableSupported(k[1])
           => \A o \in Observers : ObserverVector[o] > 0 =>
                \E m \in sent' :
                  /\ m.to = o
                  /\ <<m.table.TableId, m.table.Ext>> = k
    ]_parserVars

\* A table with section syntax is announced only when its list was not
\* complete with that very version before the step: the repetitions of a
\* table on air never reach the observers twice, unless another version or
\* another last section number was received in between.
AnnouncedOnce ==
  [][\A m \in sent' :
       LET k == <<m.table.TableId, m.table.Ext>>
           old == m_sectionMap[k]
       IN  ~ /\ old.IsComplete
             /\ Front(old).SSI
             /\ Front(old).Version = m.table.Version
             /\ Front(old).Last = Front(m_sectionMap'[k]).Last
    ]_parserVars

=============================================================================
