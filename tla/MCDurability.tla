---------------------------- MODULE MCDurability ----------------------------
(* Small instances of Durability for TLC. *)
EXTENDS Durability, TLC

CONSTANTS a, b, c, d

MCSymmetry == Permutations(Reports)

=============================================================================
