--------------------------- MODULE MCPathHistory ----------------------------
(* Small instances of PathHistory for TLC. *)
EXTENDS PathHistory

\* Node 3 may turn out to be node 1 or node 2.
MCEdges  == {<<1, 2>>, <<2, 3>>}
MCMerges == {<<1, 3>>, <<2, 3>>}

=============================================================================
