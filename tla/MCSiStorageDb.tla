---------------------------- MODULE MCSiStorageDb ----------------------------
(***************************************************************************)
(* One network, the versions of its NIT, and what is broadcast about its    *)
(* transport stream 1: an SDT, a bouquet and the events of service 5, one  *)
(* of which has the id 5, the case in which the DELETE of an EIT that      *)
(* binds the service id to the event id finds a row.  The id of the other  *)
(* bouquet is a version of the first, the case in which the DELETE of a    *)
(* bouquet that binds the version to the bouquet id finds one.             *)
(***************************************************************************)
EXTENDS SiStorageDb

Transport(tsid, of, v) ==
  [onid |-> 1, tsid |-> tsid, frequency |-> 100 * tsid + v,
   descriptors |-> <<<<of, tsid, v>>>>]

Nit(v, tsids) ==
  [kind |-> "nit", network |-> 1, version |-> v, descriptors |-> <<<<"nit", v>>>>,
   transports |-> [i \in DOMAIN tsids |-> Transport(tsids[i], "nit", v)]]

Sdt(tsid, v, ids) ==
  [kind |-> "sdt", onid |-> 1, tsid |-> tsid, version |-> v,
   services |-> [i \in DOMAIN ids |->
                   [id |-> ids[i], name |-> <<tsid, ids[i], v>>,
                    descriptors |-> <<<<"sdt", ids[i], v>>>>]]]

Bat(bouquet, v, tsids) ==
  [kind |-> "bat", bouquet |-> bouquet, version |-> v,
   descriptors |-> <<<<"bat", bouquet, v>>>>,
   transports |-> [i \in DOMAIN tsids |-> Transport(tsids[i], "bat", v)]]

Eit(tsid, sid, v, ids) ==
  [kind |-> "eit", network |-> 1, tsid |-> tsid, service |-> sid, version |-> v,
   events |-> [i \in DOMAIN ids |->
                 [id |-> ids[i], descriptors |-> <<<<"event", tsid, sid, ids[i], v>>>>,
                  items |-> <<[language |-> "eng", title |-> <<tsid, sid, ids[i], v>>]>>]]]

Everything ==
  [nit |-> <<Nit(1, <<1, 11>>), Nit(2, <<11>>)>>,
   sdt |-> <<Sdt(1, 1, <<4, 5, 6>>), Sdt(1, 2, <<6, 5, 7>>)>>,
   bat |-> <<Bat(100, 1, <<1>>), Bat(100, 2, <<11, 1>>)>>,
   other |-> <<Bat(2, 1, <<11>>)>>,
   eit |-> <<Eit(1, 5, 1, <<5, 7>>), Eit(1, 5, 2, <<5, 7>>)>>]

MCContents == [st \in SubTables |-> Everything[st]]

=============================================================================
