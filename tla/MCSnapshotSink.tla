---------------------------- MODULE MCSnapshotSink ----------------------------
(* Small instances of SnapshotSink for TLC. *)
EXTENDS SnapshotSink, TLC

CONSTANTS k1, k2, r1, r2, i1, i2, g1, g2

\* With one key every registration is for it, with two each key has its own.
MCKeyOf == [r \in Registrations |-> IF r = r2 /\ k2 \in Keys THEN k2 ELSE k1]

MCIdentitiesOf ==
    [k \in Keys |-> IF k2 \notin Keys THEN Identities ELSE IF k = k1 THEN {i1} ELSE {i2}]

MCSymmetry == Permutations(Generations) \cup (IF k2 \in Keys THEN {} ELSE Permutations(Identities) \cup Permutations(Registrations))

===============================================================================
