--------------------------- MODULE VersionedStore ---------------------------
(***************************************************************************)
(* What vivim.vault promises, without tables, blobs, hashes, tiers, queue   *)
(* or crashes: each key has a history of revisions that only ever grows,    *)
(* one revision at a time, and only revisions in the history are            *)
(* acknowledged.                                                            *)
(***************************************************************************)
EXTENDS Naturals, Sequences

CONSTANTS Keys, Contents

VARIABLES
  history,   \* history[k][r]: the content of revision r of k
  acked      \* <<k, r>>: the revisions whose append was answered with success

vars == <<history, acked>>

Init ==
  /\ history = [k \in Keys |-> <<>>]
  /\ acked = {}

\* A revision is added, and its writer told, or not.
Commit(k, c) ==
  /\ history' = [history EXCEPT ![k] = Append(@, c)]
  /\ \/ acked' = acked
     \/ acked' = acked \cup {<<k, Len(history[k]) + 1>>}

Next == \E k \in Keys, c \in Contents : Commit(k, c)

Spec == Init /\ [][Next]_vars
=============================================================================
