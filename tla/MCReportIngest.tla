--------------------------- MODULE MCReportIngest ---------------------------
(* Small instances of ReportIngest for TLC. *)
EXTENDS ReportIngest, TLC

CONSTANTS r1, r2, o1, p1, gEmpty, gPeer

\* gEmpty hashes an inventory without peers, gPeer every peer.
MCMembersOf == [g \in Generations |-> IF g = gPeer THEN Peers ELSE {}]

MCSymmetry == Permutations(Reporters)

\* The receipt is an output: no action reads it.
MCView == <<reporterVars, observerVars, historyVars, clockVars, delivered>>

=============================================================================
