---------------------------- MODULE DirectorySync ----------------------------
(* The synchronisation of the tailnet's device directory:                      *)
(* internal/devicesync/synchronizer.go, the directory operations of            *)
(* internal/app/app.go and internal/aggregate, and the start of the server     *)
(* that turns it on or off (cmd/tailpath/main.go).                             *)
(*                                                                             *)
(* Abstractions.  A device list that the API returns is a model value; which   *)
(* node each device is, is left out, and so is the jitter of a retry.  Times   *)
(* are left out: a stale state that the clock makes invalid (it was set back   *)
(* behind the last success) is one more way not to report a failure.           *)
(* A directory change is stored and published in one transaction or not at     *)
(* all (Durability), so that a restart finds the directory it had.  Nothing    *)
(* else writes the directory, so that one attempt is one step.                 *)
(*                                                                             *)
(* A definition called Faulty... is the definition that follows it with one    *)
(* plausible bug; the specification uses none of them.                         *)
EXTENDS Integers

CONSTANTS
    Lists,        \* what the Devices API may answer with
    NoList,
    Backoffs,     \* the number of entries of retryBackoff
    MaxAttempts   \* bound: attempts in all

VARIABLES
    directory,    \* Aggregator.state.Directory: the list, its sync status, the retry announced
    phase,        \* the synchronizer: "down", "unconfigured", "listing", "waiting"
    failureCount, \* failures, as far as it picks a backoff
    attempts      \* history, for the bound

syncVars == <<directory, phase, failureCount, attempts>>

NoRetry  == 0
Disabled == [status |-> "disabled", list |-> NoList, retry |-> NoRetry]

Init ==
    /\ directory = Disabled
    /\ phase = "down"
    /\ failureCount = 0
    /\ attempts = 0

\* DirectorySyncState.Validate, without the times.
Valid(sync) ==
    /\ sync.status \in {"disabled", "syncing", "healthy"} => sync.retry = NoRetry
    /\ sync.status = "healthy" => sync.list # NoList
    /\ sync.status = "stale" => sync.retry # NoRetry

-----------------------------------------------------------------------------
(* Steps that publish a directory. *)

\* ClearDirectory, at a start without a configuration.
StartUnconfigured ==
    /\ phase = "down"
    /\ directory # Disabled
    /\ directory' = Disabled
    /\ phase' = "unconfigured"
    /\ UNCHANGED <<failureCount, attempts>>

\* Both main and Run do it, the second time in vain.
StartSyncing ==
    /\ phase = "down"
    /\ directory.status = "disabled"
    /\ directory' = [directory EXCEPT !.status = "syncing"]
    /\ phase' = "listing"
    /\ failureCount' = 0
    /\ UNCHANGED attempts

Attempt ==
    /\ phase = "listing"
    /\ attempts < MaxAttempts
    /\ attempts' = attempts + 1
    /\ phase' = "waiting"

Succeed(list) ==
    /\ Attempt
    /\ directory' = [status |-> "healthy", list |-> list, retry |-> NoRetry]
    /\ failureCount' = 0

\* The entry of retryBackoff that the next failure waits for.
NextBackoff == IF failureCount < Backoffs THEN failureCount + 1 ELSE Backoffs

FaultyStale == [status |-> "stale", list |-> NoList, retry |-> NextBackoff]

\* What a failed attempt makes of the directory: the list stays.
Stale == [directory EXCEPT !.status = "stale", !.retry = NextBackoff]

\* The request, the answer or the commit of the list failed.
Degrade ==
    /\ Attempt
    /\ directory' = Stale
    /\ failureCount' = NextBackoff

-----------------------------------------------------------------------------
(* Steps that publish nothing. *)

StartAgain ==
    /\ phase = "down"
    /\ directory.status # "disabled"
    /\ phase' = "listing"
    /\ failureCount' = 0
    /\ UNCHANGED <<directory, attempts>>

StayUnconfigured ==
    /\ phase = "down"
    /\ directory = Disabled
    /\ phase' = "unconfigured"
    /\ UNCHANGED <<directory, failureCount, attempts>>

\* The attempt failed, and its stale state was not valid or could not be stored.
FailUnreported ==
    /\ Attempt
    /\ failureCount' = NextBackoff
    /\ UNCHANGED directory

\* The refresh interval or the retry delay is over.
Wake ==
    /\ phase = "waiting"
    /\ phase' = "listing"
    /\ UNCHANGED <<directory, failureCount, attempts>>

\* The context is cancelled, or the process dies.
Stop ==
    /\ phase # "down"
    /\ phase' = "down"
    /\ UNCHANGED <<directory, failureCount, attempts>>

Publishing ==
    \/ StartUnconfigured
    \/ StartSyncing
    \/ \E list \in Lists : Succeed(list)
    \/ Degrade

Silent ==
    \/ StartAgain
    \/ StayUnconfigured
    \/ FailUnreported
    \/ Wake
    \/ Stop

-----------------------------------------------------------------------------
(* Properties *)

\* Every sync state that is published is one DirectorySyncState.Validate accepts,
\* also over restarts and lost failures: a refused one would leave the directory
\* as it was for ever.
SyncTypeOK ==
    /\ directory \in [status : {"disabled", "syncing", "healthy", "stale"},
                      list : Lists \cup {NoList}, retry : 0 .. Backoffs]
    /\ phase \in {"down", "unconfigured", "listing", "waiting"}
    /\ failureCount \in 0 .. Backoffs
    /\ Valid(directory)

\* "A failed request or storage commit retains the last successful directory
\* layer" (docs/architecture.md), as does a restart; only a start without a
\* configuration removes it.
DevicesRetained ==
    [][directory.list # NoList /\ directory'.list = NoList => phase' = "unconfigured"]_syncVars

\* Once a failure has been told of, it stays in sight until an attempt succeeds
\* or the directory is configured away: a restart is neither.
StaleUntilSuccess ==
    [][directory.status = "stale" /\ directory'.status # "stale" =>
           (phase = "listing" /\ directory'.status = "healthy") \/ phase' = "unconfigured"]_syncVars

=============================================================================
