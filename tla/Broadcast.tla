----------------------------- MODULE Broadcast ------------------------------
(***************************************************************************)
(* What a DVB broadcaster sends to the section parser: the sections of     *)
(* every sub-table, round and round, as the TSiSection constructor reads   *)
(* them.  The content of a sub-table is told by its generation, a number   *)
(* of which the section header carries the last five bits.                 *)
(***************************************************************************)
EXTENDS SectionParser, FiniteSets

CONSTANTS
  SubTables,      \* the sub-tables on air
  SubTableId,     \* the table id of each
  SubTableExt,    \* its table id extension
  Layouts,        \* the sets of section numbers it may consist of
  Application,    \* the registered observer
  MaxGeneration   \* bound: how many times the content of each is made

SubTableKey(st) == <<SubTableId[st], SubTableExt[st]>>

\* Only an EIT has gaps in its section numbers.  The time tables, which have
\* no versions, are not broadcast here.
ASSUME BroadcastAssumption ==
  /\ SubTableId \in [SubTables -> Byte]
  /\ SubTableExt \in [SubTables -> Word]
  /\ \A st \in SubTables :
       /\ IsTableSupported(SubTableId[st])
       /\ SubTableId[st] \notin {TDT, TOT}
       /\ Layouts[st] # {}
       /\ \A S \in Layouts[st] :
            /\ S # {} /\ S \subseteq Byte
            /\ ~ IsEit(SubTableId[st]) => \E n \in Byte : S = 0..n
  /\ Application \in Observers
  /\ MaxGeneration \in [SubTables -> Nat \ {0}]

IsSmallest(n, S) == n \in S /\ \A m \in S : n <= m
Smallest(S) == CHOOSE n \in S : IsSmallest(n, S)
Largest(S) == CHOOSE n \in S : \A m \in S : m <= n

\* The section sent after section n of S: the next higher, or the first.
Following(S, n) ==
  LET higher == {m \in S : m > n}
  IN IF higher = {} THEN Smallest(S) ELSE Smallest(higher)

\* A bug: one bit too few.
VersionNumberNarrow(g) == g % 16

\* Bits 1 to 5 of the sixth byte.
VersionNumber(g) == g % 32

\* A section as the TSiSection constructor reads it; an EIT segment is 8
\* sections long.
SectionOnAir(st, g, S, n, current) ==
  [TableId |-> SubTableId[st],
   SSI     |-> TRUE,
   Ext     |-> SubTableExt[st],
   Version |-> VersionNumber(g),
   Current |-> current,
   Number  |-> n,
   Last    |-> Largest(S),
   SegLast |-> Largest({m \in S : m \div 8 = n \div 8}),
   Body    |-> [of |-> st, gen |-> g, number |-> n, layout |-> S]]

\* Every section that can be on air, the value of Sections.
SectionsOnAir(st) ==
  UNION {{SectionOnAir(st, g, S, n, current) :
            n \in S, g \in 1..MaxGeneration[st], current \in BOOLEAN}
           : S \in Layouts[st]}

BroadcastSections == UNION {SectionsOnAir(st) : st \in SubTables}

\* They are among the sections the demultiplexer may deliver.
ASSUME SectionsOnAirAssumption == BroadcastSections \subseteq Sections

\* A table's content is every section of one generation of one sub-table,
\* in order, and nothing else.
IsWhole(content) ==
  /\ \A i \in DOMAIN content :
       content[i].of = content[1].of /\ content[i].gen = content[1].gen
  /\ \A i, j \in DOMAIN content : i < j => content[i].number < content[j].number
  /\ {content[i].number : i \in DOMAIN content} = content[1].layout

=============================================================================
