--------------------------- MODULE MCLiveDirectory ---------------------------
(* Small instances of LiveDirectory for TLC. *)
EXTENDS LiveDirectory

CONSTANT l1

MCLists == {l1}

=============================================================================
