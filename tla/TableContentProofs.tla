------------------------- MODULE TableContentProofs -------------------------
(***************************************************************************)
(* The completeness loop of an EIT, for every list of sections and every   *)
(* segment number in them: it comes to the verdict of EitComplete.  And    *)
(* the conversions of times and durations, for every value their fields    *)
(* can hold.                                                               *)
(***************************************************************************)
EXTENDS TableContent, TLAPS

\* A list of sections with numbers.
IsList(list) ==
  /\ Len(list) \in Nat \ {0} /\ DOMAIN list = 1..Len(list)
  /\ \A i \in DOMAIN list : list[i].Number \in Nat /\ list[i].Last \in Nat

\* The sections the iterator has passed are not the last one.
NotPassed == \A j \in DOMAIN SiSectionList : j < it => SiSectionList[j].Number # LastNumber

\* What EitComplete says of a section that was also the first.
Verdict == \E i \in DOMAIN SiSectionList : SiSectionList[i].Number = LastNumber

\* The inductive invariant: the inner loop stops in front of the last section,
\* so that the ++it of the outer loop does not step over it.
ScanInv ==
  /\ IsList(SiSectionList)
  /\ it \in Nat \ {0}
  /\ complete \in BOOLEAN
  /\ pc \in {"outer", "inner"} => ~ complete /\ NotPassed
  /\ pc = "inner" => /\ it \in DOMAIN SiSectionList
                     /\ SiSectionList[it].Number # LastNumber
  /\ pc = "done" /\ TSectionList!IsEit(SiSectionList[1].TableId) =>
       (complete <=> Verdict)

\* A content of which a list is made, as TablesAssumption has it.
IsContent(t) ==
  /\ t.Last \in Nat
  /\ t.sections \in Seq({t.sections[i] : i \in DOMAIN t.sections}) \ {<< >>}
  /\ \A i \in DOMAIN t.sections : t.sections[i].Number \in Nat

LEMMA TdtIsContent == ASSUME NEW time PROVE IsContent(Tdt(time))
<1> DEFINE section == [Number |-> 0, SegLast |-> 0, descriptors |-> << >>, entries |-> << >>]
<1>1. Tdt(time).sections = <<section>> /\ Tdt(time).Last = 0
  BY DEF Tdt
<1>2. section.Number = 0
  OBVIOUS
<1> HIDE DEF section
<1>3. DOMAIN <<section>> = {1} /\ <<section>>[1] = section /\ <<section>> # << >>
  OBVIOUS
<1>4. <<section>> \in Seq({<<section>>[i] : i \in DOMAIN <<section>>})
  BY <1>3
<1>5. QED
  BY <1>1, <1>2, <1>3, <1>4 DEF IsContent

\* The list keeps the numbers.
LEMMA ContentIsList ==
  ASSUME NEW t, IsContent(t)
  PROVE  /\ IsList(SectionsOf(t))
         /\ DOMAIN SectionsOf(t) = DOMAIN t.sections
         /\ \A i \in DOMAIN t.sections :
              /\ SectionsOf(t)[i].Number = t.sections[i].Number
              /\ SectionsOf(t)[i].Last = t.Last
              /\ SectionsOf(t)[i].TableId = t.TableId
<1> DEFINE list == SectionsOf(t)
           n == Len(t.sections)
<1>1. n \in Nat \ {0} /\ DOMAIN t.sections = 1..n
  BY DEF IsContent
<1>2. /\ DOMAIN list = 1..n
      /\ \A i \in 1..n : /\ list[i].Number = t.sections[i].Number
                         /\ list[i].Last = t.Last
                         /\ list[i].TableId = t.TableId
      /\ list = [i \in 1..n |-> list[i]]
  BY <1>1 DEF SectionsOf
<1> HIDE DEF list
<1>3. list \in Seq({list[i] : i \in 1..n})
  BY <1>1, <1>2
<1>4. Len(list) = n
  BY <1>1, <1>2, <1>3
<1>5. QED
  BY <1>1, <1>2, <1>4 DEF IsList, IsContent, list

LEMMA ContentInitInv == ContentInit => ScanInv
<1> SUFFICES ASSUME ContentInit PROVE ScanInv
  OBVIOUS
<1>1. IsContent(sent)
  <2>1. CASE sent \in Tables
    BY <2>1, TablesAssumption DEF IsContent
  <2>2. CASE \E year \in Years : \E date \in DatesOf(year) : sent = Tdt(TimeOn(date))
    BY <2>2, TdtIsContent
  <2>3. QED
    BY <2>1, <2>2 DEF ContentInit
<1>2. /\ SiSectionList = SectionsOf(sent) /\ it = 1
      /\ \/ pc = "outer" /\ complete = FALSE
         \/ /\ ~ TSectionList!IsEit(sent.TableId)
            /\ pc = "done"
            /\ complete = TSectionList!NonEitComplete(SiSectionList)
  BY DEF ContentInit
<1>3. /\ IsList(SiSectionList)
      /\ \A i \in DOMAIN SiSectionList :
           /\ SiSectionList[i].Number = sent.sections[i].Number
           /\ SiSectionList[i].Last = sent.Last
           /\ SiSectionList[i].TableId = sent.TableId
      /\ DOMAIN SiSectionList = DOMAIN sent.sections
  BY <1>1, <1>2, ContentIsList
<1>4. LastNumber = sent.Last
  BY <1>3 DEF LastNumber, IsList
<1>5. NotPassed
  BY <1>2, <1>3 DEF NotPassed, IsList
<1>6. complete \in BOOLEAN
  BY <1>2 DEF TSectionList!NonEitComplete
<1>7. pc = "done" => ~ TSectionList!IsEit(SiSectionList[1].TableId)
  BY <1>2, <1>3 DEF IsList
<1>8. QED
  BY <1>2, <1>3, <1>5, <1>6, <1>7 DEF ScanInv

LEMMA ScanStepInv == ScanInv /\ Scan => ScanInv'
<1> SUFFICES ASSUME ScanInv, Scan PROVE ScanInv'
  OBVIOUS
<1>1. SiSectionList' = SiSectionList /\ LastNumber' = LastNumber
  BY DEF Scan, OuterEnds, OuterFindsLast, OuterSteps, InnerSteps, LastNumber
<1>2. IsList(SiSectionList)' /\ (Verdict' <=> Verdict)
  BY <1>1 DEF ScanInv, IsList, Verdict
<1>3. CASE OuterEnds
  <2>1. ~ complete /\ NotPassed /\ it > Len(SiSectionList)
    BY <1>3 DEF OuterEnds, ScanInv
  <2>2. ~ Verdict
    BY <2>1 DEF NotPassed, Verdict, ScanInv, IsList
  <2>3. QED
    BY <1>2, <1>3, <2>1, <2>2 DEF OuterEnds, ScanInv
<1>4. CASE OuterFindsLast
  <2>1. it \in DOMAIN SiSectionList
    BY <1>4 DEF OuterFindsLast, ScanInv, IsList
  <2>2. Verdict
    BY <1>4, <2>1 DEF OuterFindsLast, Verdict
  <2>3. QED
    BY <1>2, <1>4, <2>2 DEF OuterFindsLast, ScanInv
<1>5. CASE OuterSteps
  <2>1. /\ it \in DOMAIN SiSectionList /\ SiSectionList[it].Number # LastNumber
        /\ ~ complete /\ complete' = complete /\ NotPassed
    BY <1>5 DEF OuterSteps, ScanInv, IsList
  <2>2. \/ pc' = "inner" /\ it' = it
        \/ pc' = "outer" /\ it' = it + 1
    BY <1>5 DEF OuterSteps
  <2>3. NotPassed'
    BY <1>1, <2>1, <2>2 DEF NotPassed, ScanInv, IsList
  <2>4. QED
    BY <1>1, <1>2, <2>1, <2>2, <2>3 DEF ScanInv
<1>6. CASE InnerSteps
  <2>1. /\ it \in DOMAIN SiSectionList /\ SiSectionList[it].Number # LastNumber
        /\ ~ complete /\ complete' = complete /\ NotPassed /\ it' = it + 1
    BY <1>6 DEF InnerSteps, ScanInv
  <2>2. NotPassed'
    BY <1>1, <2>1 DEF NotPassed, ScanInv, IsList
  <2>3. CASE NextIsBeforeLast /\ pc' = "inner"
    <3>1. it + 1 \in DOMAIN SiSectionList
      BY <2>3 DEF NextIsBeforeLast, ScanInv, IsList
    <3>2. SiSectionList[it + 1].Number # LastNumber
      <4>1. SiSectionList[it + 1].Number \in Nat /\ LastNumber \in Nat
        BY <3>1 DEF ScanInv, IsList, LastNumber
      <4>2. QED
        BY <2>3, <4>1 DEF NextIsBeforeLast
    <3>3. QED
      BY <1>1, <1>2, <2>1, <2>2, <2>3, <3>1, <3>2 DEF ScanInv
  <2>4. CASE pc' = "outer"
    BY <1>1, <1>2, <2>1, <2>2, <2>4 DEF ScanInv
  <2>5. QED
    BY <1>6, <2>3, <2>4 DEF InnerSteps
<1>7. QED
  BY <1>3, <1>4, <1>5, <1>6 DEF Scan

LEMMA ScanInvNext == ScanInv /\ [ContentNext]_contentVars => ScanInv'
<1> SUFFICES ASSUME ScanInv, [ContentNext]_contentVars PROVE ScanInv'
  OBVIOUS
<1>1. CASE ScanStep
  BY <1>1, ScanStepInv DEF ScanStep
<1>2. CASE BuildTable
  BY <1>2 DEF BuildTable, ScanInv, IsList, Verdict, NotPassed, LastNumber
<1>3. CASE UNCHANGED contentVars
  BY <1>3 DEF contentVars, scanVars, ScanInv, IsList, Verdict, NotPassed, LastNumber
<1>4. QED
  BY <1>1, <1>2, <1>3 DEF ContentNext

\* Of whatever tables the lists are coded, the loop over the segments of an
\* EIT comes to the verdict EitComplete gives without looking at segments.
THEOREM ScanAlwaysAgrees == ContentSpec => []ScanAgrees
<1>1. ScanInv => ScanAgrees
  <2> SUFFICES ASSUME ScanInv, pc = "done",
                      TSectionList!IsEit(SiSectionList[1].TableId)
               PROVE  complete = TSectionList!EitComplete(SiSectionList, 0, [Number |-> 0])
    BY DEF ScanAgrees
  <2>1. TSectionList!EitComplete(SiSectionList, 0, [Number |-> 0]) <=> Verdict
    BY DEF TSectionList!EitComplete, Verdict, LastNumber
  <2>2. TSectionList!EitComplete(SiSectionList, 0, [Number |-> 0]) \in BOOLEAN
    BY DEF TSectionList!EitComplete
  <2>3. complete \in BOOLEAN /\ (complete <=> Verdict)
    BY DEF ScanInv
  <2>4. QED
    BY <2>1, <2>2, <2>3
<1>2. QED
  BY <1>1, ContentInitInv, ScanInvNext, PTL DEF ContentSpec

-----------------------------------------------------------------------------
(***************************************************************************)
(* Times and durations.                                                    *)
(***************************************************************************)
\* A number of two digits is made of them.
LEMMA TwoDigits ==
  ASSUME NEW n \in Nat, n < 100
  PROVE  /\ n \div 10 \in 0..9 /\ n % 10 \in 0..9
         /\ n = (n \div 10) * 10 + (n % 10)
OBVIOUS

\* Bcd keeps them apart.
LEMMA BcdIsDigits ==
  ASSUME NEW tens \in 0..9, NEW ones \in 0..9
  PROVE  /\ 16 * tens + ones \in 0..153
         /\ (16 * tens + ones) \div 16 = tens
         /\ (16 * tens + ones) % 16 = ones
OBVIOUS

\* BcdByteToDec undoes the coding.
LEMMA BcdByteRoundTrip ==
  ASSUME NEW n \in Nat, n < 100
  PROVE  BcdByteToDec(Bcd(n)) = n
<1>1. PICK tens \in 0..9, ones \in 0..9 :
        tens = n \div 10 /\ ones = n % 10 /\ n = tens * 10 + ones
  BY TwoDigits
<1>2. Bcd(n) = 16 * tens + ones
  BY <1>1 DEF Bcd
<1>3. BcdByteToDec(Bcd(n)) = tens * 10 + ones
  <2>1. (16 * tens + ones) \div 16 = tens /\ (16 * tens + ones) % 16 = ones
    BY BcdIsDigits
  <2>2. QED
    BY <1>2, <2>1, Zenon DEF BcdByteToDec
<1>4. QED
  BY <1>1, <1>3

\* So does the general BcdToDec, whose two upper digits are zero then.
LEMMA BcdRoundTrip ==
  ASSUME NEW n \in Nat, n < 100
  PROVE  BcdToDec(Bcd(n)) = n
<1>1. PICK tens \in 0..9, ones \in 0..9 :
        tens = n \div 10 /\ ones = n % 10 /\ n = tens * 10 + ones
  BY TwoDigits
<1>2. PICK b \in 0..153 :
        b = Bcd(n) /\ b = 16 * tens + ones
  <2>1. Bcd(n) = 16 * tens + ones
    BY <1>1, Zenon DEF Bcd
  <2>2. 16 * tens + ones \in 0..153
    OBVIOUS
  <2>3. QED
    BY <2>1, <2>2
<1>3. 16^0 = 1 /\ 16^1 = 16 /\ 16^2 = 256 /\ 16^3 = 4096
  OBVIOUS
<1>4. b \div 16 = tens /\ b % 16 = ones
  BY <1>2
<1>5. b \div 1 = b /\ b \div 256 = 0 /\ b \div 4096 = 0
  OBVIOUS
<1>6. tens % 16 = tens /\ 0 % 16 = 0
  OBVIOUS
<1>7. /\ (b \div 16^0) % 16 = ones /\ (b \div 16^1) % 16 = tens
      /\ (b \div 16^2) % 16 = 0 /\ (b \div 16^3) % 16 = 0
  BY <1>3, <1>4, <1>5, <1>6
<1>8. BcdToDec(b) = ones + 10 * tens + 100 * 0 + 1000 * 0
  <2>1. BcdToDec(b) = ((b \div 16^0) % 16) + 10 * ((b \div 16^1) % 16)
                        + 100 * ((b \div 16^2) % 16) + 1000 * ((b \div 16^3) % 16)
    BY DEF BcdToDec
  <2>2. QED
    BY <1>7, <2>1
<1>9. QED
  BY <1>1, <1>2, <1>8

\* An event may last up to 99:59:59, and GetDuration returns the seconds
\* that were sent, whatever they are.
THEOREM DurationRoundTrip ==
  ASSUME NEW s \in Nat, s < 360000
  PROVE  GetDuration(EncodeDuration(s)) = s
<1>1. PICK h \in Nat, m \in Nat, sec \in Nat :
        /\ h = s \div 3600 /\ m = (s \div 60) % 60 /\ sec = s % 60
        /\ h < 100 /\ m < 60 /\ sec < 60
  OBVIOUS
<1>2. s = h * 3600 + m * 60 + sec
  BY <1>1
<1>3. EncodeDuration(s) = <<Bcd(h), Bcd(m), Bcd(sec)>>
  BY <1>1 DEF EncodeDuration
<1>4. /\ BcdByteToDec(Bcd(h)) = h /\ BcdByteToDec(Bcd(m)) = m
      /\ BcdByteToDec(Bcd(sec)) = sec
  BY <1>1, BcdByteRoundTrip
<1>5. GetDuration(EncodeDuration(s)) = h * 3600 + m * 60 + sec
  BY <1>3, <1>4 DEF GetDuration
<1>6. QED
  BY <1>2, <1>5

\* An event with a start time is never taken for near video on demand, on
\* whatever day it starts: no hour has the BCD digits of the mark.
THEOREM StartTimeIsNotNvod ==
  ASSUME NEW t, t.hour \in 0..23, NEW status
  PROVE  ~ IsNvod(EncodeTime(t), status)
<1>1. EncodeTime(t)[3] = Bcd(t.hour)
  BY DEF EncodeTime
<1>2. PICK n \in 0..23 : n = t.hour
  OBVIOUS
<1>3. Bcd(n) < 255
  BY DEF Bcd
<1>4. QED
  BY <1>1, <1>2, <1>3 DEF IsNvod

=============================================================================
