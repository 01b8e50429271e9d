---------------------------- MODULE SectionList ----------------------------
(***************************************************************************)
(* The section list of one sub-table: class TSectionList.  The parser      *)
(* keeps one such list per (table id, table id extension) and adds to it   *)
(* every section the demultiplexer hands over, until the list is complete  *)
(* and a table can be built from it.                                       *)
(*                                                                         *)
(* The class has no concurrency of its own, so its state is a record and   *)
(* its methods are operators from the old record to the new one.  Field    *)
(* names follow the members of TSiSection and TSectionList.                *)
(***************************************************************************)
EXTENDS Integers, Sequences

CONSTANT Bodies        \* what a section carries; opaque to this class

Byte == 0..255
Word == 0..65535

\* Table identifiers (enum TTableId).
NIT == 64
NIT_OTHER == 65
SDT == 66
SDT_OTHER == 70
BAT == 74
EIT_PF == 78
EIT_SCHED_OTHER_END == 111
TDT == 112
TOT == 115
USER_DEFINED_START == 128
USER_DEFINED_END == 254

(***************************************************************************)
(* A section after the TSiSection constructor.  SegLast is Payload[4], the *)
(* segment_last_section_number of an EIT; Body is the rest of the payload. *)
(***************************************************************************)
Section == [TableId: Byte, SSI: BOOLEAN, Ext: Word, Version: 0..31,
            Current: BOOLEAN, Number: Byte, Last: Byte, SegLast: Byte,
            Body: Bodies]

List == [IsComplete: BOOLEAN, First: Byte, Sections: Seq(Section)]

NewList == [IsComplete |-> FALSE, First |-> 0, Sections |-> << >>]

Front(l) == l.Sections[1]

IsEit(id) == id \in EIT_PF..EIT_SCHED_OTHER_END

-----------------------------------------------------------------------------
(***************************************************************************)
(* IsSectionListComplete, called with the section received last.  A table  *)
(* without section syntax is a single section.  An EIT may have gaps       *)
(* between its segments, so it is taken for complete when the section      *)
(* received first comes round again and the last section is in the list:   *)
(* the loop over the segments never steps over the section numbered Last   *)
(* (module EitScan follows it step by step).  Any other table is complete  *)
(* when the numbers run from 0 without a gap and reach the last one.       *)
(***************************************************************************)
\* A bug: completeness is checked on every section, not after a full cycle.
EitCompleteEager(secs, first, s) ==
  \E i \in DOMAIN secs : secs[i].Number = secs[1].Last

EitComplete(secs, first, s) ==
  /\ first = s.Number
  /\ \E i \in DOMAIN secs : secs[i].Number = secs[1].Last

\* A bug: the last section is there, so it is taken for complete.
NonEitCompleteWithGaps(secs) ==
  \E i \in DOMAIN secs : secs[i].Last = secs[i].Number

\* A bug: the sections are counted in a byte.
NonEitCompleteCounted(secs) == Len(secs) % 256 = secs[1].Last + 1

NonEitComplete(secs) ==
  /\ \A i \in DOMAIN secs : secs[i].Number = (i - 1) % 256
  /\ \E i \in DOMAIN secs : secs[i].Last = secs[i].Number

IsSectionListComplete(secs, first, s) ==
  /\ secs # << >>
  /\ \/ ~ secs[1].SSI
     \/ /\ secs[1].SSI
        /\ IF IsEit(secs[1].TableId)
             THEN EitComplete(secs, first, s)
             ELSE NonEitComplete(secs)

(***************************************************************************)
(* InsertSectionIntoList: the loop stops at the first section whose number *)
(* is not smaller than the new one; an equal number leaves the list alone. *)
(***************************************************************************)
InsertPosition(secs, s) ==
  CHOOSE k \in 1..(Len(secs) + 1) :
    /\ \A i \in 1..(k - 1) : secs[i].Number < s.Number
    /\ k <= Len(secs) => secs[k].Number >= s.Number

InsertAt(secs, k, s) ==
  [i \in 1..(Len(secs) + 1) |->
     IF i < k THEN secs[i] ELSE IF i = k THEN s ELSE secs[i - 1]]

\* A bug: sections are kept in the order of arrival.
InsertSectionAtEnd(secs, s) == Append(secs, s)

InsertSectionIntoList(secs, s) ==
  LET k == InsertPosition(secs, s)
  IN IF k <= Len(secs) /\ secs[k].Number = s.Number
       THEN secs
       ELSE InsertAt(secs, k, s)

-----------------------------------------------------------------------------
(***************************************************************************)
(* InitializeSectionList: the list starts again from this section.         *)
(***************************************************************************)
InitializeSectionList(s) ==
  [IsComplete |-> /\ ~ IsEit(s.TableId)
                  /\ IsSectionListComplete(<<s>>, s.Number, s),
   First      |-> s.Number,
   Sections   |-> <<s>>]

(***************************************************************************)
(* AddSiSection.  The list starts again on its first section, on a table   *)
(* without section syntax, and when the version or the last section number *)
(* changed; it returns false for another extension and, once complete, for *)
(* every section of the version it holds.                                  *)
(***************************************************************************)
\* A bug: only the last section number is compared.
SameLastSection(l, s) == Front(l).Last = s.Last

SameTable(l, s) ==
  /\ Front(l).Version = s.Version
  /\ Front(l).Last = s.Last

StartsAgain(l, s) ==
  \/ l.Sections = << >>
  \/ ~ Front(l).SSI
  \/ Front(l).Ext = s.Ext /\ ~ SameTable(l, s)

\* A bug: sections are added to a complete list, too.
AcceptsWhenComplete(l, s) ==
  \/ StartsAgain(l, s)
  \/ Front(l).Ext = s.Ext

Accepts(l, s) ==
  \/ StartsAgain(l, s)
  \/ Front(l).Ext = s.Ext /\ ~ l.IsComplete

AddedTo(l, s) ==
  LET secs == InsertSectionIntoList(l.Sections, s)
  IN [l EXCEPT !.Sections = secs,
               !.IsComplete = IsSectionListComplete(secs, l.First, s)]

AddSiSection(l, s) ==
  IF StartsAgain(l, s) THEN InitializeSectionList(s)
  ELSE IF Accepts(l, s) THEN AddedTo(l, s)
  ELSE l

-----------------------------------------------------------------------------
(***************************************************************************)
(* BuildTable: the header comes from the first section of the list, the    *)
(* content from all of them, except for the time tables, which read the    *)
(* first only.  The result is the set of tables built: empty stands for    *)
(* the NULL of an empty list or an unknown table id.                       *)
(***************************************************************************)
\* A bug: no builder for the tables about other networks.
IsBuildableActual(id) ==
  \/ id \in {NIT, SDT, BAT, TDT, TOT}
  \/ IsEit(id)
  \/ id \in USER_DEFINED_START..USER_DEFINED_END

IsBuildable(id) ==
  \/ id \in {NIT, NIT_OTHER, SDT, SDT_OTHER, BAT, TDT, TOT}
  \/ IsEit(id)
  \/ id \in USER_DEFINED_START..USER_DEFINED_END

Table == [TableId: Byte, Ext: Word, Version: 0..31, Current: BOOLEAN,
          Content: Seq(Bodies)]

Content(secs) ==
  IF secs[1].TableId \in {TDT, TOT}
    THEN <<secs[1].Body>>
    ELSE [i \in DOMAIN secs |-> secs[i].Body]

TableOf(l) ==
  [TableId |-> Front(l).TableId, Ext |-> Front(l).Ext,
   Version |-> Front(l).Version, Current |-> Front(l).Current,
   Content |-> Content(l.Sections)]

BuildTable(l) ==
  IF l.Sections # << >> /\ IsBuildable(Front(l).TableId)
    THEN {TableOf(l)}
    ELSE {}

-----------------------------------------------------------------------------
(***************************************************************************)
(* What a list should be.                                                  *)
(***************************************************************************)

\* All its sections belong to the sub-table and to the version in its front,
\* which is the only section AddSiSection compares with.
Coherent(l) ==
  \A i \in DOMAIN l.Sections :
    /\ l.Sections[i].TableId = Front(l).TableId
    /\ l.Sections[i].Ext = Front(l).Ext
    /\ l.Sections[i].Version = Front(l).Version
    /\ l.Sections[i].Last = Front(l).Last

\* Section numbers strictly increase along it.
Ordered(secs) ==
  \A i, j \in DOMAIN secs : i < j => secs[i].Number < secs[j].Number

Contains(l, n) == \E i \in DOMAIN l.Sections : l.Sections[i].Number = n

\* If it says it is complete it has what its kind of table needs: the only
\* section of a table without section syntax, the sections 0 to Last of a
\* table other than an EIT, and for an EIT the section received first and
\* the section Last.
Whole(l) ==
  l.IsComplete =>
    /\ l.Sections # << >>
    /\ Front(l).SSI =>
         IF IsEit(Front(l).TableId)
           THEN Contains(l, l.First) /\ Contains(l, Front(l).Last)
           ELSE /\ \A i \in DOMAIN l.Sections : l.Sections[i].Number = i - 1
                /\ Front(l).Last < Len(l.Sections)

=============================================================================
