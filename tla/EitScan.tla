------------------------------- MODULE EitScan ------------------------------
(***************************************************************************)
(* The loop in IsSectionListComplete that walks an EIT's section list, one *)
(* step per movement of the iterator.  Module SectionList replaces it by   *)
(* what it computes: ScanAgrees says that the two agree, whatever the      *)
(* segment_last_section_number bytes say.                                  *)
(***************************************************************************)
EXTENDS Integers, Sequences

VARIABLES
  SiSectionList,   \* the list, sorted by number
  it,              \* the iterator; Len + 1 is end()
  complete,
  pc               \* "outer", "inner" loop, or "done"

scanVars == <<SiSectionList, it, complete, pc>>

LastNumber == SiSectionList[1].Last

\* Payload[4], the segment_last_section_number.
SegLast(section) == section.Payload[5]

\* A bug: the inner loop may step over the last section itself.
NextIsUpToLast ==
  it < Len(SiSectionList) /\ SiSectionList[it + 1].Number <= LastNumber

NextIsBeforeLast ==
  it < Len(SiSectionList) /\ SiSectionList[it + 1].Number < LastNumber

OuterEnds ==
  /\ pc = "outer"
  /\ it > Len(SiSectionList)
  /\ pc' = "done"
  /\ UNCHANGED <<SiSectionList, it, complete>>

OuterFindsLast ==
  /\ pc = "outer"
  /\ it <= Len(SiSectionList)
  /\ SiSectionList[it].Number = LastNumber
  /\ complete' = TRUE
  /\ pc' = "done"
  /\ UNCHANGED <<SiSectionList, it>>

\* At the end of a segment the inner loop begins, elsewhere ++it.
OuterSteps ==
  /\ pc = "outer"
  /\ it <= Len(SiSectionList)
  /\ SiSectionList[it].Number # LastNumber
  /\ IF SiSectionList[it].Number = SegLast(SiSectionList[it])
       THEN pc' = "inner" /\ UNCHANGED it
       ELSE it' = it + 1 /\ UNCHANGED pc
  /\ UNCHANGED <<SiSectionList, complete>>

\* A bug: no ++it behind the inner loop.
InnerStepsInPlace ==
  /\ pc = "inner"
  /\ IF NextIsBeforeLast
       THEN it' = it + 1 /\ UNCHANGED pc
       ELSE pc' = "outer" /\ UNCHANGED it
  /\ UNCHANGED <<SiSectionList, complete>>

\* When the inner loop is through, the ++it that closes the outer one.
InnerSteps ==
  /\ pc = "inner"
  /\ it' = it + 1
  /\ pc' = IF NextIsBeforeLast THEN "inner" ELSE "outer"
  /\ UNCHANGED <<SiSectionList, complete>>

Scan == OuterEnds \/ OuterFindsLast \/ OuterSteps \/ InnerSteps

-----------------------------------------------------------------------------
TSectionList == INSTANCE SectionList WITH Bodies <- {}

\* The loop comes to the verdict EitComplete gives on the received section
\* that was also the first: the segment numbers change nothing.
ScanAgrees ==
  pc = "done" /\ TSectionList!IsEit(SiSectionList[1].TableId) =>
    complete = TSectionList!EitComplete(SiSectionList, 0, [Number |-> 0])

\* The iterator always reaches the end or the last section.
ScanTerminates == pc = "outer" ~> pc = "done"

=============================================================================
