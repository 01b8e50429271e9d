----------------------------- MODULE MCCarousel -----------------------------
(***************************************************************************)
(* Broadcasts for the parser: which sub-tables are on air, and in which    *)
(* shapes.  eit is a schedule with a segment of two sections and one of    *)
(* one section, sometimes shortened; sdt and bat are the plain kinds.      *)
(***************************************************************************)
EXTENDS Carousel

IdOf == [eit |-> EIT_PF + 2, sdt |-> SDT, bat |-> BAT]
ExtOf == [eit |-> 1, sdt |-> 1, bat |-> 2]
LayoutsOf == [eit |-> {{0, 1, 8}, {0, 8}}, sdt |-> {{0, 1, 2}, {0}}, bat |-> {{0, 1}}]
GenerationsOf == [eit |-> 2, sdt |-> 2, bat |-> 34]

BroadcastBodies ==
  UNION {[of: {st}, gen: 1..MaxGeneration[st], number: Numbers, layout: Layouts[st]]
           : st \in SubTables}

MCSubTableId == [st \in SubTables |-> IdOf[st]]
MCSubTableExt == [st \in SubTables |-> ExtOf[st]]
MCLayouts == [st \in SubTables |-> LayoutsOf[st]]
MCMaxGeneration == [st \in SubTables |-> GenerationsOf[st]]

=============================================================================
