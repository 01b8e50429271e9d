------------------------- MODULE MCParserAndStorage -------------------------
(***************************************************************************)
(* Two transport streams.  nit is sent on both, nitO is about a network   *)
(* that is not the preferred one; eitA and eitB are present/following EITs  *)
(* of equal service ids; sdt is the actual SDT of stream 1 and sdtO the    *)
(* same stream's SDT as sent on stream 2; bat is a bouquet.                *)
(***************************************************************************)
EXTENDS ParserAndStorage

IdOf == [nit |-> NIT, nitO |-> NIT_OTHER, eitA |-> EIT_PF, eitB |-> EIT_PF,
         sdt |-> SDT, sdtO |-> SDT_OTHER, bat |-> BAT]
ExtOf == [nit |-> 7, nitO |-> 8, eitA |-> 5, eitB |-> 5, sdt |-> 1, sdtO |-> 1, bat |-> 9]
OriginOf == [nit |-> <<0, 0>>, nitO |-> <<0, 0>>, eitA |-> <<3, 1>>, eitB |-> <<3, 2>>,
             sdt |-> <<3, 1>>, sdtO |-> <<3, 1>>, bat |-> <<0, 0>>]
LayoutsOf == [nit |-> {{0, 1}, {0}}, nitO |-> {{0}}, eitA |-> {{0, 1, 8}}, eitB |-> {{0, 1}},
              sdt |-> {{0}, {0, 1}}, sdtO |-> {{0}}, bat |-> {{0, 1}}]
SentOnOf == [nit |-> Frequencies, nitO |-> {Home}, eitA |-> {Home}, eitB |-> {Barker},
             sdt |-> {Home}, sdtO |-> {Barker}, bat |-> {Barker}]

MCSubTableId == [st \in SubTables |-> IdOf[st]]
MCSubTableExt == [st \in SubTables |-> ExtOf[st]]
MCOrigin == [st \in SubTables |-> OriginOf[st]]
MCLayouts == [st \in SubTables |-> LayoutsOf[st]]
MCSentOn == [st \in SubTables |-> SentOnOf[st]]
MCMaxGeneration == [st \in SubTables |-> 2]

Numbers == UNION {UNION Layouts[st] : st \in SubTables}
MCBodies ==
  UNION {[of: {st}, gen: 1..MaxGeneration[st], number: Numbers, layout: Layouts[st]]
           : st \in SubTables}

=============================================================================
