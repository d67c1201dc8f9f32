---------------------------- MODULE DirectoryFeed ----------------------------
(***************************************************************************)
(* What the embedder feeds every multi-hop client: the directory it        *)
(* verified last, and the avoid-set of the exits that told their clients   *)
(* to leave.  CircuitClient and EntryPick read both at each poll.          *)
(***************************************************************************)
EXTENDS PathAware

CONSTANTS
  Directories,  \* the verified directories a refresh may deliver
  Drainable     \* exit ids that may signal a drain

ASSUME DirectoriesAssumption == Directories \subseteq Seq(Node)
ASSUME DrainableAssumption == Drainable \subseteq Nat

VARIABLES
  dir,     \* the verified directory
  drained  \* the avoid-set

FeedTypeOK == dir \in Directories /\ drained \subseteq Drainable

FeedInit == dir \in Directories /\ drained = {}

RefreshDirectory(d) == dir' = d /\ UNCHANGED drained

SignalDrain(x) == drained' = drained \cup {x} /\ UNCHANGED dir

EndDrain(x) == drained' = drained \ {x} /\ UNCHANGED dir

\* A directory with its nodes listed the other way round.
Reversed(nodes) == [i \in DOMAIN nodes |-> nodes[Len(nodes) + 1 - i]]

FeedNext ==
  \/ \E d \in Directories : RefreshDirectory(d)
  \/ \E x \in Drainable : SignalDrain(x) \/ EndDrain(x)
=============================================================================
