---------------------------- MODULE LiveDirectory ----------------------------
(* The directory synchronisation and the way of a change to a page composed:   *)
(* every directory that is stored is published by App.commitDirectoryCandidate *)
(* through Aggregator.ReplaceWith, which notifies; reports go on as well.      *)
EXTENDS Integers, Sequences

CONSTANTS Lists, NoList, Backoffs, MaxAttempts
CONSTANTS MaxVersion, MaxDrops, MaxFailures

ASSUME DirectoryAssumption ==
    NoList \notin Lists /\ Backoffs \in Nat \ {0} /\ MaxAttempts \in Nat
ASSUME RefreshBoundsAssumption == MaxVersion \in Nat /\ MaxDrops \in Nat /\ MaxFailures \in Nat

VARIABLES directory, phase, failureCount, attempts
VARIABLES version, notified, channel, coalescer, handler, wire, drops,
          flights, pending, shown, armed, error, failures

Sync == INSTANCE DirectorySync
Page == INSTANCE RefreshPipeline

syncVars == <<directory, phase, failureCount, attempts>>
pageVars == <<version, notified, channel, coalescer, handler, wire, drops,
              flights, pending, shown, armed, error, failures>>
vars     == <<syncVars, pageVars>>

Init == Sync!Init /\ Page!Init

\* ReplaceWith: the new state and its notification are one step under the lock.
PublishDirectory == Sync!Publishing /\ Page!Commit
SyncQuietly      == Sync!Silent /\ UNCHANGED pageVars
Elsewhere        == Page!Next /\ UNCHANGED syncVars

Next == PublishDirectory \/ SyncQuietly \/ Elsewhere

\* The page's side moves on (RefreshPipeline); the bounded number of attempts
\* leaves nothing to say of the synchronizer's own progress.
FairSpec == Init /\ [][Next]_vars /\ Page!Fairness

-----------------------------------------------------------------------------
(* Properties: those of the parts, over the composed system. *)

TypeOK            == Page!TypeOK /\ Sync!SyncTypeOK
NoLostWakeup      == Page!NoLostWakeup
NeverGoesBack     == Page!NeverGoesBack
SettlesOrSaysSo   == Page!SettlesOrSaysSo
DevicesRetained   == Sync!DevicesRetained
StaleUntilSuccess == Sync!StaleUntilSuccess

=============================================================================
