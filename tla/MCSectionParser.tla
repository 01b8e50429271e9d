--------------------------- MODULE MCSectionParser --------------------------
(***************************************************************************)
(* A NIT and an EIT whose sections arrive in every order, with losses and  *)
(* repetitions, a time table without section syntax, one section numbered  *)
(* past the last one, and the objects left by one- and two-byte reads.     *)
(***************************************************************************)
EXTENDS SectionParser

NoPayload == "none"
MCBodies == {"a", NoPayload}

MakeSection(id, ssi, ext, ver, num, last) ==
  [TableId |-> id, SSI |-> ssi, Ext |-> ext, Version |-> ver,
   Current |-> TRUE, Number |-> num, Last |-> last, SegLast |-> last,
   Body |-> "a"]

NitSections ==
  {MakeSection(NIT_OTHER, TRUE, 1, v, n, 1) : v \in {0, 31}, n \in 0..2}

EitSections == {MakeSection(EIT_PF, TRUE, 1, 0, n, 2) : n \in 0..2}

TdtSections == {MakeSection(TDT, FALSE, 0, 0, 0, 0)}

MCSections == NitSections \cup EitSections \cup TdtSections

MCUninitialized ==
  {[MakeSection(id, ssi, 0, 0, 0, 0) EXCEPT !.Body = NoPayload] :
     id \in {NIT_OTHER, 5}, ssi \in BOOLEAN}

=============================================================================
