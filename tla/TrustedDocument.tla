---------------------------- MODULE TrustedDocument ----------------------------
(***************************************************************************)
(* What a signed, generation-numbered document promises to the clients     *)
(* that act on it, with nothing said of schemas, keys, caches or builds:   *)
(* a client acts on a document that was issued, whole, and never goes back *)
(* to an older one as long as it remembers the one it has.  An issuer      *)
(* never has two documents of one generation.                              *)
(***************************************************************************)
EXTENDS Integers

CONSTANTS
  Clients,
  Documents,  \* what may be issued: records with a generation
  None

VARIABLES
  issued,  \* the documents issued so far
  view     \* the document each client acts on, or None

vars == <<issued, view>>

Init == issued = {} /\ view = [c \in Clients |-> None]

Issue(d) ==
  /\ \A e \in issued : e.generation < d.generation
  /\ issued' = issued \cup {d}
  /\ UNCHANGED view

Adopt(c, d) ==
  /\ view[c] # None => view[c].generation <= d.generation
  /\ view' = [view EXCEPT ![c] = d]
  /\ UNCHANGED issued

\* A client starts over without the document it had.
Forget(c) ==
  /\ view' = [view EXCEPT ![c] = None]
  /\ UNCHANGED issued

Next ==
  \/ \E d \in Documents : Issue(d)
  \/ \E c \in Clients, d \in issued : Adopt(c, d)
  \/ \E c \in Clients : Forget(c)

Spec == Init /\ [][Next]_vars
=============================================================================
