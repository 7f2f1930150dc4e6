--------------------------- MODULE MCRaftSnapshot ---------------------------
(***************************************************************************)
(* RaftSnapshot with a leader and two followers.  A behavior ends with the *)
(* first lapse, as no property of the passing run says anything of what    *)
(* follows; the runs of the disagreements follow it.                       *)
(***************************************************************************)
EXTENDS RaftSnapshot

CONSTANTS p1, p2

PeerOrder == <<p1, p2>>

NoEntries == {<<>>}
FewEntries == {<<>>, <<1, 2>>}
TwoTerms == {<<1, 2>>}

\* On top of two earlier entries a second one is offered only while no connection
\* has broken, and from then on the leader alone begins to compact.
BoundedNext ==
    /\ Next /\ lapses = {}
    /\ 3 < Len(ledger') =>
           drops' = 0 /\ \A p \in Peer : ~ snapshot_in_progress'[p]

BoundedSpec == Init /\ [][BoundedNext]_vars /\ Fairness
=============================================================================
