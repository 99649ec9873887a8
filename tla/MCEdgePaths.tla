---------------------------- MODULE MCEdgePaths -----------------------------
(* A small instance of EdgePaths for TLC. *)
EXTENDS EdgePaths

CONSTANTS e1, a1

Direct(port) == [NoPath EXCEPT !.kind = "direct", !.endpoint = [address |-> a1, port |-> port]]
Relay(stable, resolution, vni) ==
    [NoPath EXCEPT !.kind = "peer_relay", !.stable = stable, !.endpoint = e1,
                   !.resolution = resolution, !.vni = vni]
Derp == [NoPath EXCEPT !.kind = "derp", !.region = "fra"]

Says(path) == [path |-> path, fallback |-> Nothing, evidence |-> "observed"]

\* One end knows relay 1 by its id, the other by its endpoint only; a relay that
\* has just fallen back; two ports of one address.
MCSayings == {Says(Direct(1)), Says(Direct(2)),
              Says(Relay(1, "address", Nothing)), Says(Relay(Nothing, Nothing, 7)),
              [path |-> Relay(1, "address", Nothing), fallback |-> Derp, evidence |-> "inferred"]}

\* Only ages matter, and of an observation that no longer counts only that it is
\* there: the clock is not set back.  No action reads the last transitions.
Age(observation) ==
    IF now - observation.receivedAt > EvidenceWindow THEN "aged" ELSE now - observation.receivedAt

Seen(o) ==
    IF observations[o] = Unobserved THEN "none"
    ELSE IF Counts(observations[o], now) THEN <<observations[o].said, Age(observations[o])>>
    ELSE "gone"

MCView == <<[o \in Observers |-> Seen(o)], membership, lastKnown, recorded,
            [o \in DOMAIN told |-> <<told[o].said, Age(told[o])>>]>>

=============================================================================
