----------------------------- MODULE MCListTrust -----------------------------
(***************************************************************************)
(* ListTrust with a build that only knows v10, one that knows v10 and v11, *)
(* and one that trusts any server key; a server may already know a field   *)
(* ("hops") that no released schema declares.  The exit X is re-keyed and  *)
(* moved between list and roster.                                          *)
(***************************************************************************)
EXTENDS ListTrust

MCV10 == {"tcp_fallback"}
MCV11 == {"stale"}
MCUnknown == {"hops"}

MCClientBuilds ==
  {[fields |-> MCV10, versions |-> {10}, pins |-> {"k1"}],
   [fields |-> MCV10 \cup MCV11, versions |-> {10, 11}, pins |-> {"k1", "k2"}],
   [fields |-> MCV10 \cup MCV11, versions |-> {10, 11}, pins |-> {}]}

MCSignerFields == {MCV10 \cup MCV11, MCV10 \cup MCV11 \cup MCUnknown}

MCRelay(id, place) == [id |-> id, place |-> place, exit_id |-> "X"]

MCBodies ==
  {[relays |-> {MCRelay("old", "nl"), MCRelay("new", "nl"), MCRelay("new", "de")},
    malformed |-> FALSE],
   [relays |-> {MCRelay("new", "nl")}, malformed |-> TRUE]}

MCRosters == {{MCRelay("old", "nl")}, {MCRelay("new", "de")}}

MCFieldSets == {{}, {"tcp_fallback"}, {"tcp_fallback", "stale"}, {"hops"}}
=============================================================================
