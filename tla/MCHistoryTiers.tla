--------------------------- MODULE MCHistoryTiers ---------------------------
(* Small instances of HistoryTiers for TLC. *)
EXTENDS HistoryTiers

\* Node 3 may turn out to be node 1, which turns the edge <<2, 3>> around.
MCEdges   == {<<1, 2>>, <<2, 3>>}
MCMerges  == {<<1, 3>>}
MCSamples == {[ab |-> 1, ba |-> 2]}

=============================================================================
