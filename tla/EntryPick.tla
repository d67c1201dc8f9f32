------------------------------ MODULE EntryPick ------------------------------
(***************************************************************************)
(* The picks of a client without path signals                              *)
(* (warren-discovery/src/pick.rs): the exit by weight, then, among the     *)
(* entries permitted for it, one on the client's own continent if there    *)
(* is any, by weight again.  A location-blind client has continent None.   *)
(*                                                                         *)
(* The client here is the SDK's: it projects the directory of the moment   *)
(* on the flat views, drops what is drained, picks the exit, then the      *)
(* entry, and dials through via_entry.  It keeps nothing between two       *)
(* picks; the directories and the drains are those of DirectoryFeed.       *)
(***************************************************************************)
EXTENDS DirectoryFeed

CONSTANT Timezones  \* continents a client's timezone may name, or None

-----------------------------------------------------------------------------
(* The picks, on index sets into a sequence of hops *)

Europe == {"at", "be", "bg", "ch", "cz", "de", "dk", "ee", "es", "fi", "fr",
           "gb", "gr", "hr", "hu", "ie", "is", "it", "lt", "lu", "lv", "md",
           "mt", "nl", "no", "pl", "pt", "ro", "rs", "se", "si", "sk", "tr", "ua"}
Americas == {"ar", "br", "ca", "cl", "co", "mx", "pe", "us"}
Asia == {"ae", "hk", "id", "il", "in", "jp", "kr", "my", "ph", "sg", "th", "tw", "vn"}
Africa == {"eg", "ke", "ma", "ng", "za"}
Oceania == {"au", "nz"}

\* `continent_of_country`, on lower-cased codes.
ContinentOf(country) ==
  CASE country \in Europe   -> "europe"
    [] country \in Americas -> "americas"
    [] country \in Asia     -> "asia"
    [] country \in Africa   -> "africa"
    [] country \in Oceania  -> "oceania"
    [] OTHER                -> None

\* Ties broken by position alone.
SlipTieOnPosition(hopsSeq, i, j) ==
  \/ hopsSeq[i].weight > hopsSeq[j].weight
  \/ hopsSeq[i].weight = hopsSeq[j].weight /\ i <= j

\* The key (Reverse(weight), id), then the index: `min_by_key` keeps the first.
WeightOrder(hopsSeq, i, j) ==
  \/ hopsSeq[i].weight > hopsSeq[j].weight
  \/ /\ hopsSeq[i].weight = hopsSeq[j].weight
     /\ \/ hopsSeq[i].exit_id < hopsSeq[j].exit_id
        \/ hopsSeq[i].exit_id = hopsSeq[j].exit_id /\ i <= j

\* `pick_exit`
PickedExit(exits, candidates, i) ==
  i \in candidates /\ \A j \in candidates : WeightOrder(exits, i, j)

\* `prefer_client_continent`
PreferClientContinent(hopsSeq, candidates, client) ==
  LET near == {i \in candidates :
                 client # None /\ ContinentOf(hopsSeq[i].country) = client}
  IN  IF near = {} THEN candidates ELSE near

\* `pick_entry`
PickedEntry(entries, candidates, client, i) ==
  LET preferred == PreferClientContinent(entries, candidates, client)
  IN  i \in preferred /\ \A j \in preferred : WeightOrder(entries, i, j)

-----------------------------------------------------------------------------
(* The client *)

AsRequired(nodes) == AsDiversityRequired(FleetAsns(nodes))

ExitCandidates(nodes) == {j \in DOMAIN nodes : nodes[j].exit_id \notin drained}

EntryCandidates(nodes, j) ==
  {i \in PermittedEntries(Entries(nodes), Exits(nodes)[j], AsRequired(nodes)) :
     nodes[i].exit_id \notin drained}

\* i and j are the entry and the exit a client on that continent dials.
Dialed(nodes, client, i, j) ==
  /\ PickedExit(Exits(nodes), ExitCandidates(nodes), j)
  /\ PickedEntry(Entries(nodes), EntryCandidates(nodes, j), client, i)

-----------------------------------------------------------------------------
(* Properties *)

DistinctExitIds(nodes) ==
  \A i, j \in DOMAIN nodes : nodes[i].exit_id = nodes[j].exit_id => i = j

(***************************************************************************)
(* A directory that only lists its nodes in another order dials the same   *)
(* hops: a poll cannot tear down a tunnel because the server reshuffled.   *)
(***************************************************************************)
ReorderNeverMoves ==
  DistinctExitIds(dir) =>
    \A client \in Timezones, i, j \in DOMAIN dir :
      Dialed(dir, client, i, j)
        <=> Dialed(Reversed(dir), client, Len(dir) + 1 - i, Len(dir) + 1 - j)

(***************************************************************************)
(* The doc of pick_entry: for a fixed exit it is exactly the no-signal     *)
(* order of select_entry_path_aware restricted to the continent partition. *)
(* The path-aware order ranks the combined weights, which are floored at 1 *)
(* and saturate.  Where neither happens the two agree; where one does, the *)
(* path-aware order may tie entries that pick_entry tells apart, and the   *)
(* pick is one of its best all the same.                                   *)
(***************************************************************************)
NoSignals ==
  [dir |-> dir, advisory |-> [l \in {} |-> None],
   rtt |-> [k \in Pubkeys |-> None], now |-> 0]

Preferred(client, j) ==
  PreferClientContinent(Entries(dir), EntryCandidates(dir, j), client)

SameOrder(client, j) ==
  \A i \in DOMAIN dir :
    PickedEntry(Entries(dir), EntryCandidates(dir, j), client, i)
      <=> IsBestEntry(NoSignals, Entries(dir), Preferred(client, j), Exits(dir)[j], i)

OneOfTheBest(client, j) ==
  \A i, other \in Preferred(client, j) :
    PickedEntry(Entries(dir), EntryCandidates(dir, j), client, i) =>
      EntryScore(NoSignals, Entries(dir)[i], Exits(dir)[j])
        >= EntryScore(NoSignals, Entries(dir)[other], Exits(dir)[j])

ExactWeights(j) ==
  \A i \in DOMAIN dir :
    /\ dir[i].weight # 0
    /\ AtLeastOne(dir[i].weight) * AtLeastOne(dir[j].weight) <= MaxWeight

FollowsNoSignalOrder ==
  \A client \in Timezones, j \in DOMAIN dir :
    /\ OneOfTheBest(client, j)
    /\ ExactWeights(j) => SameOrder(client, j)
=============================================================================
