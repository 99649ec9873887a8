----------------------------- MODULE DurableLog -----------------------------
(* What the server promises of its runtime state: a log of entries (reports    *)
(* and directory changes), each applied once, in order, and never lost; a      *)
(* report is acknowledged when the log holds it, possibly more than once.      *)
EXTENDS Sequences, Naturals

CONSTANTS Reports, Changes

VARIABLES
    log,          \* the entries committed so far
    acknowledged  \* the reports whose sender was told so

Holds(entry) == \E i \in 1 .. Len(log) : log[i] = entry

Init == log = <<>> /\ acknowledged = {}

Commit(entry) ==
    /\ ~Holds(entry)
    /\ log' = Append(log, entry)
    /\ UNCHANGED acknowledged

Acknowledge(report) ==
    /\ Holds(report)
    /\ acknowledged' = acknowledged \cup {report}
    /\ UNCHANGED log

Next ==
    \/ \E entry \in Reports \cup Changes : Commit(entry)
    \/ \E report \in Reports : Acknowledge(report)

Spec == Init /\ [][Next]_<<log, acknowledged>>

=============================================================================
