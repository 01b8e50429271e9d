-------------------------- MODULE MCSiStorageScan ---------------------------
(***************************************************************************)
(* A network of two transport streams: home without services, away with    *)
(* one.  The home frequency also carries the NIT and the other SDT; the    *)
(* barker frequency carries the schedule.                                  *)
(***************************************************************************)
EXTENDS SiStorageScan

HomeFrequency == 1
AwayFrequency == 2
BarkerOnly == 3

MCFrequencyOf == [ts \in Transports |-> IF ts = "home" THEN HomeFrequency ELSE AwayFrequency]
MCServicesOf == [ts \in Transports |-> IF ts = "home" THEN {} ELSE {"tv"}]
MCNitLists == {Transports, Transports \ {"away"}}

Own(ts) == {Sdt(ts)} \cup UNION {EitsOf(ts, ServicesOf[ts], isPf) : isPf \in BOOLEAN}

MCCarries ==
  [f \in 1..3 |->
     CASE f = HomeFrequency -> {Nit(n) : n \in NetworkIds} \cup Own("home")
                                 \cup {Sdt(ts) : ts \in Transports}
       [] f = AwayFrequency -> IF "away" \in Transports THEN Own("away") ELSE {}
       [] f = BarkerOnly ->
            UNION {EitsOf(ts, ServicesOf[ts], FALSE) : ts \in Transports}]

=============================================================================
