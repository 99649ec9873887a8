------------------------- MODULE LiveDirectoryProofs -------------------------
(* Proofs about LiveDirectory.  A change that was notified reaches the page     *)
(* because at any time one of the things it passes through holds a signal: a   *)
(* strengthening of NoLostWakeup says which one, for each fetch under way.     *)
EXTENDS LiveDirectory, SequenceTheorems, TLAPS

-----------------------------------------------------------------------------
(* The directory. *)

LEMMA SyncInit == Init => Sync!SyncTypeOK
  BY DirectoryAssumption
  DEF Init, Sync!Init, Sync!SyncTypeOK, Sync!Disabled, Sync!NoRetry, Sync!Valid

LEMMA SyncSteps ==
  ASSUME Sync!SyncTypeOK, [Next]_vars
  PROVE  Sync!Publishing \/ Sync!Silent \/ UNCHANGED syncVars
  BY DEF Next, PublishDirectory, SyncQuietly, Elsewhere, vars

LEMMA BackoffBound ==
  ASSUME failureCount \in 0 .. Backoffs
  PROVE  Sync!NextBackoff \in 1 .. Backoffs
  BY DirectoryAssumption DEF Sync!NextBackoff

LEMMA SyncNext ==
  ASSUME Sync!SyncTypeOK, [Next]_vars
  PROVE  Sync!SyncTypeOK'
<1> USE DEF Sync!SyncTypeOK, Sync!Valid, Sync!NoRetry
<1>1. CASE UNCHANGED syncVars
  BY <1>1 DEF syncVars
<1>2. CASE Sync!Silent
  <2>1. UNCHANGED directory /\ phase' \in {"down", "unconfigured", "listing", "waiting"}
    BY <1>2
    DEF Sync!Silent, Sync!StartAgain, Sync!StayUnconfigured, Sync!FailUnreported, Sync!Wake,
        Sync!Stop, Sync!Attempt
  <2>2. failureCount' \in {failureCount, 0, Sync!NextBackoff}
    BY <1>2
    DEF Sync!Silent, Sync!StartAgain, Sync!StayUnconfigured, Sync!FailUnreported, Sync!Wake,
        Sync!Stop, Sync!Attempt
  <2>3. failureCount' \in 0 .. Backoffs
    BY <2>2, BackoffBound, DirectoryAssumption
  <2> QED
    BY <2>1, <2>3
<1>3. CASE Sync!StartUnconfigured
  BY <1>3, DirectoryAssumption DEF Sync!StartUnconfigured, Sync!Disabled
<1>4. CASE Sync!StartSyncing
  <2>1. directory' = [status |-> "syncing", list |-> directory.list, retry |-> directory.retry]
    BY <1>4 DEF Sync!StartSyncing
  <2>2. directory.retry = 0
    BY <1>4 DEF Sync!StartSyncing
  <2>3. failureCount' = 0 /\ phase' = "listing"
    BY <1>4 DEF Sync!StartSyncing
  <2> QED
    BY <2>1, <2>2, <2>3, DirectoryAssumption
<1>5. ASSUME NEW list \in Lists, Sync!Succeed(list)
      PROVE  Sync!SyncTypeOK'
  BY <1>5, DirectoryAssumption DEF Sync!Succeed, Sync!Attempt
<1>6. CASE Sync!Degrade
  <2>1. directory' = [status |-> "stale", list |-> directory.list, retry |-> Sync!NextBackoff]
    BY <1>6 DEF Sync!Degrade, Sync!Stale
  <2>2. failureCount' = Sync!NextBackoff /\ phase' = "waiting"
    BY <1>6 DEF Sync!Degrade, Sync!Attempt
  <2> QED
    BY <2>1, <2>2, BackoffBound, DirectoryAssumption
<1> QED
  BY <1>1, <1>2, <1>3, <1>4, <1>5, <1>6, SyncSteps DEF Sync!Publishing

\* The steps that touch the directory, and what they do to it.
LEMMA DirectorySteps ==
  ASSUME [Next]_vars
  PROVE  \/ UNCHANGED directory
         \/ directory' = Sync!Disabled /\ phase' = "unconfigured"
         \/ directory.status = "disabled" /\ directory'.list = directory.list
         \/ phase = "listing" /\ directory'.status = "healthy" /\ directory'.list \in Lists
         \/ directory'.list = directory.list /\ directory'.status = "stale"
<1>1. CASE UNCHANGED syncVars
  BY <1>1 DEF syncVars
<1>2. CASE Sync!Silent
  BY <1>2
  DEF Sync!Silent, Sync!StartAgain, Sync!StayUnconfigured, Sync!FailUnreported, Sync!Wake,
      Sync!Stop
<1>3. CASE Sync!StartUnconfigured
  BY <1>3 DEF Sync!StartUnconfigured
<1>4. CASE Sync!StartSyncing
  BY <1>4 DEF Sync!StartSyncing
<1>5. ASSUME NEW list \in Lists, Sync!Succeed(list)
      PROVE  phase = "listing" /\ directory'.status = "healthy" /\ directory'.list \in Lists
  BY <1>5 DEF Sync!Succeed, Sync!Attempt
<1>6. CASE Sync!Degrade
  BY <1>6 DEF Sync!Degrade, Sync!Stale
<1> QED
  BY <1>1, <1>2, <1>3, <1>4, <1>5, <1>6
  DEF Next, PublishDirectory, SyncQuietly, Elsewhere, vars, Sync!Publishing

\* No step takes the devices away but a start without a configuration
\* (ClearDirectory): failures, lost failures and restarts keep them.
THEOREM DevicesAreRetained == FairSpec => DevicesRetained
<1>1. [Next]_vars =>
          [directory.list # NoList /\ directory'.list = NoList => phase' = "unconfigured"]_Sync!syncVars
  BY DirectorySteps, DirectoryAssumption DEF Sync!syncVars
<1> QED
  BY <1>1, PTL DEF FairSpec, DevicesRetained, Sync!DevicesRetained

\* A failure stays in sight until an attempt succeeds or the directory is
\* configured away (commitDirectorySyncState, RestoreState).
THEOREM FailuresStayInSight == FairSpec => StaleUntilSuccess
<1>1. [Next]_vars =>
          [directory.status = "stale" /\ directory'.status # "stale" =>
             (phase = "listing" /\ directory'.status = "healthy") \/ phase' = "unconfigured"]_Sync!syncVars
  BY DirectorySteps DEF Sync!syncVars
<1> QED
  BY <1>1, PTL DEF FairSpec, StaleUntilSuccess, Sync!StaleUntilSuccess

-----------------------------------------------------------------------------
(* The way to the page. *)

\* A signal that is not a fetch: it will lead to one.
Ahead ==
    \/ handler \in {"none", "greeting"}
    \/ channel = "full" \/ coalescer.pc = "sending" \/ coalescer.pending
    \/ wire # <<>>
    \/ pending

\* singleFlight: one fetch at a time, and a follow-up only behind one.
SingleFlight ==
    /\ Len(flights) <= 1
    /\ pending => flights # <<>>

\* What a fetch has read is between what is shown and what there is.
ReadsForward ==
    /\ shown <= version
    /\ \A i \in 1 .. Len(flights) :
           flights[i] # Page!NotRead => shown <= flights[i] /\ flights[i] <= version

\* A change is signalled after every fetch that has missed it; without a fetch
\* that may be due to a failure the page shows.
Signalled ==
    /\ \A i \in 1 .. Len(flights) :
           flights[i] # Page!NotRead /\ flights[i] < notified => Ahead
    /\ flights = <<>> /\ shown < notified => Ahead \/ error

Wakeup ==
    /\ Page!TypeOK
    /\ SingleFlight
    /\ ReadsForward
    /\ Signalled

LEMMA WakeupInit == Init => Wakeup
<1> SUFFICES ASSUME Init PROVE Wakeup
  OBVIOUS
<1> USE DEF Init, Page!Init, Page!Idle, Page!Nothing, Page!NotRead
<1>1. MaxVersion \in Nat /\ MaxDrops \in Nat /\ MaxFailures \in Nat
  BY RefreshBoundsAssumption
<1>2. Page!TypeOK
  <2>1. version \in Page!Versions /\ notified \in 0 .. version
    BY <1>1 DEF Page!Versions
  <2>2. coalescer \in [pc : {"waiting", "sending"}, timer : BOOLEAN, pending : BOOLEAN]
    OBVIOUS
  <2>3. wire \in Seq({"ready", "topology"}) /\ flights \in Seq(Page!Versions \cup {Page!NotRead})
    OBVIOUS
  <2>4. shown \in Page!Versions \cup {Page!Nothing} /\ drops \in 0 .. MaxDrops /\ failures \in 0 .. MaxFailures
    BY <1>1
  <2> QED
    BY <2>1, <2>2, <2>3, <2>4 DEF Page!TypeOK
<1>3. SingleFlight /\ ReadsForward /\ Signalled
  BY DEF SingleFlight, ReadsForward, Signalled, Ahead
<1> QED
  BY <1>2, <1>3 DEF Wakeup

LEMMA AtMostOne == \A n \in Nat : n <= 1 => n = 0 \/ n = 1
  OBVIOUS

LEMMA ShortSequence ==
  ASSUME NEW S, NEW s \in Seq(S), Len(s) <= 1
  PROVE  s = <<>> \/ (Len(s) = 1 /\ s = <<s[1]>> /\ s[1] \in S)
<1>1. CASE Len(s) = 1
  <2>1. s[1] \in S
    BY <1>1, ElementOfSeq
  <2>2. <<s[1]>> \in Seq(S) /\ Len(<<s[1]>>) = 1
    BY <2>1
  <2>3. \A i \in 1 .. Len(s) : s[i] = <<s[1]>>[i]
    BY <1>1
  <2>4. s = <<s[1]>>
    BY <1>1, <2>2, <2>3, SeqEqual
  <2> QED
    BY <1>1, <2>1, <2>4
<1>2. CASE Len(s) # 1
  <2>1. Len(s) \in Nat
    BY LenProperties
  <2>2. s # <<>> => Len(s) # 0
    BY EmptySeq
  <2>3. Len(s) = 0
    BY <1>2, <2>1, AtMostOne, Zenon
  <2> QED
    BY <2>2, <2>3
<1> QED
  BY <1>1, <1>2

LEMMA OneReplaced ==
  ASSUME NEW S, NEW s \in Seq(S), Len(s) = 1, NEW x \in S
  PROVE  /\ [s EXCEPT ![1] = x] \in Seq(S)
         /\ Len([s EXCEPT ![1] = x]) = 1
         /\ [s EXCEPT ![1] = x][1] = x
<1>1. 1 \in 1 .. Len(s)
  OBVIOUS
<1> QED
  BY <1>1, ExceptSeq

LEMMA SingleElement == ASSUME NEW S, NEW x \in S PROVE <<x>> \in Seq(S) /\ Len(<<x>>) = 1
  OBVIOUS

Fetch == Page!Versions \cup {Page!NotRead}

LEMMA NotReadIsFetch == Page!NotRead \in Fetch /\ <<Page!NotRead>> \in Seq(Fetch) /\ <<>> \in Seq(Fetch)
  BY SingleElement, EmptySeq DEF Fetch

\* There is no fetch, or one, the first of its sequence.
LEMMA NoneOrOne ==
  ASSUME Page!TypeOK, SingleFlight
  PROVE  /\ flights \in Seq(Fetch)
         /\ flights = <<>> \/ (Len(flights) = 1 /\ flights = <<flights[1]>> /\ flights[1] \in Fetch)
<1>1. flights \in Seq(Fetch)
  BY DEF Page!TypeOK, Fetch
<1> QED
  BY <1>1, ShortSequence DEF SingleFlight

LEMMA TheFetch ==
  ASSUME Page!TypeOK, SingleFlight, NEW i \in 1 .. Len(flights)
  PROVE  i = 1 /\ flights = <<flights[1]>> /\ Len(flights) = 1 /\ flights[1] \in Fetch
<1>1. CASE flights = <<>>
  BY <1>1
<1>2. CASE Len(flights) = 1 /\ flights = <<flights[1]>> /\ flights[1] \in Fetch
  BY <1>2
<1> QED
  BY <1>1, <1>2, NoneOrOne

\* A request of the page starts a fetch or leaves a follow-up behind.
LEMMA Requested ==
  ASSUME Page!TypeOK, SingleFlight, Page!Request
  PROVE  /\ flights' \in Seq(Fetch) /\ pending' \in BOOLEAN
         /\ SingleFlight'
         /\ \/ flights # <<>> /\ pending' /\ UNCHANGED flights
            \/ flights' = <<Page!NotRead>> /\ UNCHANGED pending /\ ~pending
<1>1. pending \in BOOLEAN /\ flights \in Seq(Fetch)
  BY NoneOrOne DEF Page!TypeOK
<1>2. CASE flights # <<>>
  BY <1>1, <1>2 DEF Page!Request, SingleFlight
<1>3. CASE flights = <<>>
  <2>1. flights' = <<Page!NotRead>> /\ UNCHANGED pending
    BY <1>3 DEF Page!Request
  <2>2. ~pending
    BY <1>3 DEF SingleFlight
  <2> QED
    BY <1>1, <2>1, <2>2, NotReadIsFetch DEF SingleFlight
<1> QED
  BY <1>2, <1>3

\* The end of a fetch leaves none, or the follow-up.
LEMMA NextRunEnds ==
  ASSUME Page!TypeOK, SingleFlight, NEW i \in 1 .. Len(flights), Page!NextRun(i)
  PROVE  /\ flights' \in Seq(Fetch) /\ pending' = FALSE
         /\ SingleFlight'
         /\ flights' = IF pending THEN <<Page!NotRead>> ELSE <<>>
         /\ i = 1 /\ Len(flights) = 1 /\ flights[1] \in Fetch
<1>1. i = 1 /\ flights = <<flights[1]>> /\ Len(flights) = 1 /\ flights[1] \in Fetch
  BY TheFetch
<1>2. Page!RemoveAt(flights, i) = <<>>
  BY <1>1 DEF Page!RemoveAt
<1>3. flights' = IF pending THEN <<Page!NotRead>> ELSE <<>>
  BY <1>2 DEF Page!NextRun
<1>4. pending' = FALSE
  BY DEF Page!NextRun
<1>5. Len(flights') <= 1
  BY <1>3
<1> QED
  BY <1>1, <1>3, <1>4, <1>5, NotReadIsFetch DEF SingleFlight

\* What every step keeps of the types, where a step of its own has no more to say.
PlainTypes ==
    /\ version \in Page!Versions /\ notified \in 0 .. version
    /\ channel \in {"none", "empty", "full"}
    /\ coalescer \in [pc : {"waiting", "sending"}, timer : BOOLEAN, pending : BOOLEAN]
    /\ handler \in {"none", "greeting", "looping"}
    /\ channel = "none" <=> handler = "none"
    /\ wire \in Seq({"ready", "topology"})

PageTypes ==
    /\ flights \in Seq(Fetch)
    /\ pending \in BOOLEAN /\ armed \in BOOLEAN /\ error \in BOOLEAN
    /\ shown \in Page!Versions \cup {Page!Nothing}

BoundTypes == drops \in 0 .. MaxDrops /\ failures \in 0 .. MaxFailures

LEMMA TypesSplit == Page!TypeOK <=> PlainTypes /\ PageTypes /\ BoundTypes
  BY DEF Page!TypeOK, PlainTypes, PageTypes, BoundTypes, Fetch

\* A step of the server: no fetch and nothing of the page changes.
LEMMA ServerStep ==
  ASSUME Wakeup, UNCHANGED <<flights, pending, shown, armed, error, failures>>,
         PlainTypes', drops' \in 0 .. MaxDrops,
         version' >= version, notified' >= notified,
         Ahead' \/ (notified' = notified /\ ~Ahead)
  PROVE  Wakeup'
<1>1. Page!TypeOK'
  <2>1. PageTypes' /\ BoundTypes'
    BY TypesSplit DEF Wakeup, PageTypes, BoundTypes
  <2> QED
    BY <2>1, TypesSplit, PTL
<1>2. SingleFlight'
  BY DEF Wakeup, SingleFlight
<1>3. ReadsForward'
  <2>1. version \in Nat /\ version' \in Nat /\ shown \in Int
    BY TypesSplit DEF Wakeup, PlainTypes, PageTypes, Page!Versions, Page!Nothing
  <2>2. \A i \in 1 .. Len(flights) : flights[i] \in Int
    BY TypesSplit, ElementOfSeq DEF Wakeup, PageTypes, Fetch, Page!Versions, Page!NotRead
  <2> QED
    BY <2>1, <2>2 DEF Wakeup, ReadsForward
<1>4. Signalled'
  BY DEF Wakeup, Signalled
<1> QED
  BY <1>1, <1>2, <1>3, <1>4 DEF Wakeup

LEMMA Appended ==
  ASSUME NEW S, NEW s \in Seq(S), NEW x \in S
  PROVE  Append(s, x) \in Seq(S) /\ Append(s, x) # <<>>
  BY AppendProperties

\* The notification goes into the channel when there is one.
LEMMA CommitStep == ASSUME Wakeup, Page!Commit PROVE Wakeup'
<1>1. PlainTypes /\ BoundTypes
  BY TypesSplit DEF Wakeup
<1>2. version' = version + 1 /\ notified' = version + 1 /\ version < MaxVersion
  BY DEF Page!Commit
<1>3. version \in Nat /\ notified \in Nat /\ notified <= version /\ version' \in Page!Versions
  BY <1>1, <1>2, RefreshBoundsAssumption DEF PlainTypes, Page!Versions
<1>4. UNCHANGED <<coalescer, handler, wire, drops, flights, pending, shown, armed, error, failures>>
  BY DEF Page!Commit, Page!pageVars
<1>5. channel' = IF channel = "none" THEN "none" ELSE "full"
  BY DEF Page!Commit
<1>6. PlainTypes'
  <2>1. notified' \in 0 .. version' /\ channel' \in {"none", "empty", "full"}
    BY <1>2, <1>3, <1>5
  <2>2. channel' = "none" <=> handler' = "none"
    BY <1>1, <1>4, <1>5 DEF PlainTypes
  <2> QED
    BY <1>1, <1>3, <1>4, <2>1, <2>2 DEF PlainTypes
<1>7. Ahead'
  BY <1>1, <1>4, <1>5 DEF Ahead, PlainTypes
<1> QED
  BY <1>1, <1>2, <1>3, <1>4, <1>6, <1>7, ServerStep DEF BoundTypes

LEMMA AgeStep == ASSUME Wakeup, Page!Age PROVE Wakeup'
<1>1. PlainTypes /\ BoundTypes
  BY TypesSplit DEF Wakeup
<1>2. version' = version + 1 /\ version < MaxVersion
  BY DEF Page!Age
<1>3. UNCHANGED <<notified, channel, coalescer, handler, wire, drops,
                  flights, pending, shown, armed, error, failures>>
  BY DEF Page!Age, Page!streamVars, Page!pageVars
<1>4. version \in Nat /\ notified \in Nat /\ version' \in Page!Versions /\ notified' \in 0 .. version'
  BY <1>1, <1>2, <1>3, RefreshBoundsAssumption DEF PlainTypes, Page!Versions
<1>5. PlainTypes'
  BY <1>1, <1>3, <1>4 DEF PlainTypes
<1>6. Ahead' <=> Ahead
  BY <1>3 DEF Ahead
<1> QED
  BY <1>1, <1>2, <1>3, <1>4, <1>5, <1>6, ServerStep DEF BoundTypes

\* The other steps of the stream leave the versions alone.
LEMMA StreamStep ==
  ASSUME Wakeup,
         UNCHANGED <<version, notified, flights, pending, shown, armed, error, failures>>,
         drops' \in 0 .. MaxDrops,
         channel' \in {"none", "empty", "full"},
         coalescer' \in [pc : {"waiting", "sending"}, timer : BOOLEAN, pending : BOOLEAN],
         handler' \in {"none", "greeting", "looping"},
         channel' = "none" <=> handler' = "none",
         wire' \in Seq({"ready", "topology"}),
         Ahead' \/ ~Ahead
  PROVE  Wakeup'
<1>1. PlainTypes
  BY TypesSplit DEF Wakeup
<1>2. version \in Nat /\ notified \in Nat
  BY <1>1 DEF PlainTypes, Page!Versions
<1>3. PlainTypes'
  BY <1>1 DEF PlainTypes
<1> QED
  BY <1>2, <1>3, ServerStep

LEMMA ConnectionStep ==
  ASSUME Wakeup, Page!Connect \/ Page!Greet \/ Page!Drop
  PROVE  Wakeup'
<1>1. PlainTypes /\ BoundTypes
  BY TypesSplit DEF Wakeup
<1> USE <1>1 DEF PlainTypes, BoundTypes, Page!Idle, Page!pageVars
<1>2. CASE Page!Connect
  BY <1>2, StreamStep DEF Page!Connect, Ahead
<1>3. CASE Page!Greet
  <2>1. wire' \in Seq({"ready", "topology"}) /\ wire' # <<>>
    BY <1>3, Appended DEF Page!Greet
  <2> QED
    BY <1>3, <2>1, StreamStep DEF Page!Greet, Ahead
<1>4. CASE Page!Drop
  <2>1. wire' \in Seq({"ready", "topology"}) /\ handler' = "none" /\ channel' = "none"
    BY <1>4 DEF Page!Drop
  <2>2. drops' \in 0 .. MaxDrops
    BY <1>4, RefreshBoundsAssumption DEF Page!Drop
  <2>3. coalescer' \in [pc : {"waiting", "sending"}, timer : BOOLEAN, pending : BOOLEAN]
    BY <1>4 DEF Page!Drop
  <2>4. UNCHANGED <<version, notified, flights, pending, shown, armed, error, failures>>
    BY <1>4 DEF Page!Drop
  <2>5. Ahead'
    BY <2>1 DEF Ahead
  <2> QED
    BY <2>1, <2>2, <2>3, <2>4, <2>5, StreamStep
<1> QED
  BY <1>2, <1>3, <1>4

LEMMA AfterWindow ==
  ASSUME NEW c \in [pc : {"waiting", "sending"}, timer : BOOLEAN, pending : BOOLEAN]
  PROVE  /\ [c EXCEPT !.pc = "sending", !.pending = FALSE]
                \in [pc : {"waiting", "sending"}, timer : BOOLEAN, pending : BOOLEAN]
         /\ [c EXCEPT !.pc = "sending", !.pending = FALSE].pc = "sending"
         /\ [c EXCEPT !.timer = FALSE]
                \in [pc : {"waiting", "sending"}, timer : BOOLEAN, pending : BOOLEAN]
         /\ [c EXCEPT !.timer = FALSE].pc = c.pc
         /\ [c EXCEPT !.timer = FALSE].pending = c.pending
  OBVIOUS

LEMMA CoalescerStep ==
  ASSUME Wakeup, Page!PassOn \/ Page!HoldBack \/ Page!WindowEnds \/ Page!WriteEvent
  PROVE  Wakeup'
<1>1. PlainTypes /\ BoundTypes
  BY TypesSplit DEF Wakeup
<1>2. coalescer = [pc |-> coalescer.pc, timer |-> coalescer.timer, pending |-> coalescer.pending]
      /\ coalescer.pc \in {"waiting", "sending"} /\ coalescer.timer \in BOOLEAN /\ coalescer.pending \in BOOLEAN
  BY <1>1 DEF PlainTypes
<1>3. UNCHANGED <<version, notified, handler, drops, flights, pending, shown, armed, error, failures>>
  BY DEF Page!PassOn, Page!HoldBack, Page!WindowEnds, Page!WriteEvent, Page!Coalesces, Page!pageVars
<1>4. CASE Page!PassOn
  <2>1. channel' = "empty" /\ channel = "full" /\ wire' = wire
    BY <1>4 DEF Page!PassOn, Page!Coalesces
  <2>2. coalescer' = [pc |-> "sending", timer |-> coalescer.timer, pending |-> coalescer.pending]
    BY <1>2, <1>4 DEF Page!PassOn
  <2>3. Ahead'
    BY <2>2 DEF Ahead
  <2> QED
    BY <1>1, <1>2, <1>3, <2>1, <2>2, <2>3, StreamStep DEF PlainTypes, BoundTypes
<1>5. CASE Page!HoldBack
  <2>1. channel' = "empty" /\ channel = "full" /\ wire' = wire
    BY <1>5 DEF Page!HoldBack, Page!Coalesces
  <2>2. coalescer' = [pc |-> coalescer.pc, timer |-> coalescer.timer, pending |-> TRUE]
    BY <1>2, <1>5 DEF Page!HoldBack
  <2>3. Ahead'
    BY <2>2 DEF Ahead
  <2> QED
    BY <1>1, <1>2, <1>3, <2>1, <2>2, <2>3, StreamStep DEF PlainTypes, BoundTypes
<1>6. CASE Page!WindowEnds
  <2>1. channel' = channel /\ wire' = wire /\ coalescer.pc = "waiting"
    BY <1>6 DEF Page!WindowEnds, Page!Coalesces
  <2>2. coalescer' = IF coalescer.pending
                     THEN [coalescer EXCEPT !.pc = "sending", !.pending = FALSE]
                     ELSE [coalescer EXCEPT !.timer = FALSE]
    BY <1>6 DEF Page!WindowEnds
  <2>3. coalescer \in [pc : {"waiting", "sending"}, timer : BOOLEAN, pending : BOOLEAN]
    BY <1>1 DEF PlainTypes
  <2>4. coalescer' \in [pc : {"waiting", "sending"}, timer : BOOLEAN, pending : BOOLEAN]
    BY <2>2, <2>3, AfterWindow
  <2>5. \/ coalescer'.pc = "sending"
        \/ coalescer'.pc = coalescer.pc /\ coalescer'.pending = coalescer.pending
    BY <2>2, <2>3, AfterWindow
  <2>6. Ahead' \/ ~Ahead
    BY <1>3, <2>1, <2>5 DEF Ahead
  <2> QED
    BY <1>1, <1>3, <2>1, <2>4, <2>6, StreamStep DEF PlainTypes, BoundTypes
<1>7. CASE Page!WriteEvent
  <2>1. channel' = channel /\ wire' \in Seq({"ready", "topology"}) /\ wire' # <<>>
    BY <1>1, <1>7, Appended DEF Page!WriteEvent, PlainTypes
  <2>2. coalescer' = [pc |-> "waiting", timer |-> TRUE, pending |-> coalescer.pending]
    BY <1>2, <1>7 DEF Page!WriteEvent
  <2>3. Ahead'
    BY <2>1 DEF Ahead
  <2> QED
    BY <1>1, <1>2, <1>3, <2>1, <2>2, <2>3, StreamStep DEF PlainTypes, BoundTypes
<1> QED
  BY <1>4, <1>5, <1>6, <1>7

-----------------------------------------------------------------------------
(* The steps of the page. *)

\* A step of the page that keeps what it shows and requests a fetch: that fetch
\* or the follow-up makes up for the signal that was used.
LEMMA RequestStep ==
  ASSUME Wakeup, Page!Request,
         UNCHANGED <<version, notified, channel, coalescer, handler, drops, shown, error, failures>>,
         wire' \in Seq({"ready", "topology"}), armed' \in BOOLEAN
  PROVE  Wakeup'
<1>1. Page!TypeOK /\ SingleFlight
  BY DEF Wakeup
<1>2. /\ flights' \in Seq(Fetch) /\ pending' \in BOOLEAN /\ SingleFlight'
      /\ \/ flights # <<>> /\ pending' /\ UNCHANGED flights
         \/ flights' = <<Page!NotRead>> /\ UNCHANGED pending /\ ~pending
  BY <1>1, Requested
<1>3. Page!TypeOK'
  <2>1. PlainTypes' /\ PageTypes' /\ BoundTypes'
    BY <1>1, <1>2, TypesSplit DEF PlainTypes, PageTypes, BoundTypes
  <2> QED
    BY <2>1, TypesSplit, PTL
<1>4. CASE flights # <<>> /\ pending' /\ UNCHANGED flights
  <2>1. ReadsForward'
    BY <1>4 DEF Wakeup, ReadsForward
  <2>2. Signalled'
    BY <1>4 DEF Signalled, Ahead
  <2> QED
    BY <1>2, <1>3, <2>1, <2>2 DEF Wakeup
<1>5. CASE flights' = <<Page!NotRead>>
  <2>1. \A i \in 1 .. Len(flights') : flights'[i] = Page!NotRead
    BY <1>5
  <2>2. flights' # <<>>
    BY <1>5
  <2>3. ReadsForward' /\ Signalled'
    BY <2>1, <2>2 DEF Wakeup, ReadsForward, Signalled
  <2> QED
    BY <1>2, <1>3, <2>3 DEF Wakeup
<1> QED
  BY <1>2, <1>4, <1>5

LEMMA RequestingStep == ASSUME Wakeup, Page!Receive \/ Page!TimerFires PROVE Wakeup'
<1>1. PlainTypes /\ PageTypes
  BY TypesSplit DEF Wakeup
<1>2. CASE Page!Receive
  <2>1. wire' \in Seq({"ready", "topology"})
    BY <1>1, <1>2, HeadTailProperties DEF Page!Receive, PlainTypes
  <2> QED
    BY <1>1, <1>2, <2>1, RequestStep DEF Page!Receive, PageTypes
<1>3. CASE Page!TimerFires
  BY <1>1, <1>3, RequestStep DEF Page!TimerFires, Page!streamVars, PlainTypes
<1> QED
  BY <1>2, <1>3

\* The server answers with the topology there is.
LEMMA ReadStep == ASSUME Wakeup, NEW i \in 1 .. Len(flights), Page!Read(i) PROVE Wakeup'
<1>1. PlainTypes /\ PageTypes /\ BoundTypes /\ SingleFlight
  BY TypesSplit DEF Wakeup
<1>2. version \in Fetch /\ version \in Nat /\ notified \in Nat /\ notified <= version
  BY <1>1 DEF PlainTypes, Fetch, Page!Versions
<1>3. i = 1 /\ Len(flights) = 1 /\ flights \in Seq(Fetch)
  BY TheFetch, NoneOrOne DEF Wakeup
<1>4. UNCHANGED <<version, notified, channel, coalescer, handler, wire, drops,
                  pending, shown, armed, error, failures>>
  BY DEF Page!Read, Page!streamVars
<1>5. flights' \in Seq(Fetch) /\ Len(flights') = 1 /\ flights'[1] = version
  <2>1. flights' = [flights EXCEPT ![1] = version]
    BY <1>3 DEF Page!Read
  <2>2. /\ [flights EXCEPT ![1] = version] \in Seq(Fetch)
        /\ Len([flights EXCEPT ![1] = version]) = 1
        /\ [flights EXCEPT ![1] = version][1] = version
    BY <1>2, <1>3, OneReplaced
  <2> QED
    BY <2>1, <2>2
<1>6. Page!TypeOK'
  <2>1. PlainTypes' /\ PageTypes' /\ BoundTypes'
    BY <1>1, <1>4, <1>5 DEF PlainTypes, PageTypes, BoundTypes
  <2> QED
    BY <2>1, TypesSplit, PTL
<1>7. flights' # <<>>
  BY <1>5
<1>8. SingleFlight'
  BY <1>5, <1>7 DEF SingleFlight
<1>9. ReadsForward'
  BY <1>2, <1>4, <1>5 DEF Wakeup, ReadsForward
<1>10. Signalled'
  BY <1>2, <1>4, <1>5, <1>7 DEF Signalled
<1> QED
  BY <1>6, <1>8, <1>9, <1>10 DEF Wakeup


\* An answer is newer than what was shown, and what it misses is signalled.
LEMMA ArriveStep == ASSUME Wakeup, NEW i \in 1 .. Len(flights), Page!Arrive(i) PROVE Wakeup'
<1>1. PlainTypes /\ PageTypes /\ BoundTypes /\ SingleFlight
  BY TypesSplit DEF Wakeup
<1>2. i = 1 /\ flights[1] \in Fetch /\ flights[1] # Page!NotRead /\ flights # <<>>
  BY TheFetch DEF Wakeup, Page!Arrive
<1>3. /\ flights' \in Seq(Fetch) /\ pending' = FALSE /\ SingleFlight'
      /\ flights' = IF pending THEN <<Page!NotRead>> ELSE <<>>
  BY NextRunEnds DEF Wakeup, Page!Arrive
<1>4. UNCHANGED <<version, notified, channel, coalescer, handler, wire, drops, failures>>
  BY DEF Page!Arrive, Page!streamVars
<1>5. shown' = flights[1] /\ armed' = TRUE /\ error' = FALSE
  BY <1>2 DEF Page!Arrive
<1>6. shown' \in Page!Versions /\ version \in Page!Versions /\ shown' <= version
  BY <1>2, <1>5 DEF Wakeup, ReadsForward, Fetch, PlainTypes, Page!TypeOK
<1>7. Page!TypeOK'
  <2>1. PlainTypes' /\ PageTypes' /\ BoundTypes'
    BY <1>1, <1>3, <1>4, <1>5, <1>6 DEF PlainTypes, PageTypes, BoundTypes
  <2> QED
    BY <2>1, TypesSplit, PTL
<1>8. \A j \in 1 .. Len(flights') : flights'[j] = Page!NotRead
  BY <1>3
<1>9. ReadsForward'
  BY <1>4, <1>6, <1>8 DEF ReadsForward
<1>10. Signalled'
  <2>1. flights' = <<>> /\ shown' < notified' => Ahead'
    <3> SUFFICES ASSUME flights' = <<>>, shown' < notified' PROVE Ahead'
      OBVIOUS
    <3>1. ~pending /\ pending' = FALSE
      BY <1>3
    <3>2. Ahead
      BY <1>2, <1>4, <1>5 DEF Wakeup, Signalled
    <3> QED
      BY <1>4, <3>1, <3>2 DEF Ahead
  <2> QED
    BY <1>8, <2>1 DEF Signalled
<1> QED
  BY <1>3, <1>7, <1>9, <1>10 DEF Wakeup

\* A fetch that failed shows an error.
LEMMA FailStep == ASSUME Wakeup, NEW i \in 1 .. Len(flights), Page!Fail(i) PROVE Wakeup'
<1>1. PlainTypes /\ PageTypes /\ BoundTypes /\ SingleFlight
  BY TypesSplit DEF Wakeup
<1>2. /\ flights' \in Seq(Fetch) /\ pending' = FALSE /\ SingleFlight'
      /\ flights' = IF pending THEN <<Page!NotRead>> ELSE <<>>
  BY NextRunEnds DEF Wakeup, Page!Fail
<1>3. UNCHANGED <<version, notified, channel, coalescer, handler, wire, drops, shown, armed>>
  BY DEF Page!Fail, Page!streamVars
<1>4. error' = TRUE /\ failures' \in 0 .. MaxFailures
  BY <1>1, RefreshBoundsAssumption DEF Page!Fail, BoundTypes
<1>5. Page!TypeOK'
  <2>1. PlainTypes' /\ PageTypes' /\ BoundTypes'
    BY <1>1, <1>2, <1>3, <1>4 DEF PlainTypes, PageTypes, BoundTypes
  <2> QED
    BY <2>1, TypesSplit, PTL
<1>6. \A j \in 1 .. Len(flights') : flights'[j] = Page!NotRead
  BY <1>2
<1>7. ReadsForward' /\ Signalled'
  BY <1>3, <1>4, <1>6 DEF Wakeup, ReadsForward, Signalled
<1> QED
  BY <1>2, <1>5, <1>7 DEF Wakeup

LEMMA WakeupNext == ASSUME Wakeup, [Next]_vars PROVE Wakeup'
<1>1. CASE Page!Next
  BY <1>1, CommitStep, AgeStep, ConnectionStep, CoalescerStep, RequestingStep, ReadStep,
     ArriveStep, FailStep
  DEF Page!Next
<1>2. CASE UNCHANGED pageVars
  BY <1>2
  DEF pageVars, Wakeup, Page!TypeOK, SingleFlight, ReadsForward, Signalled, Ahead
<1>3. Page!Commit => Page!Next
  BY DEF Page!Next
<1> QED
  BY <1>1, <1>2, <1>3 DEF Next, PublishDirectory, SyncQuietly, Elsewhere, vars

THEOREM WakeupInvariant == FairSpec => []Wakeup
  BY WakeupInit, WakeupNext, PTL DEF FairSpec

\* Types, and that every published sync state is one DirectorySyncState.Validate
\* accepts, for any lists, backoffs and number of changes.
THEOREM Typed == FairSpec => []TypeOK
<1>1. FairSpec => []Sync!SyncTypeOK
  BY SyncInit, SyncNext, PTL DEF FairSpec
<1>2. Wakeup /\ Sync!SyncTypeOK => TypeOK
  BY DEF Wakeup, TypeOK
<1> QED
  BY <1>1, <1>2, WakeupInvariant, PTL

\* No change that was notified is lost on its way to the page: not in the full
\* channel (notifyLocked), not in the coalescer, not behind a fetch that had
\* begun (singleFlight) and not with a connection.
THEOREM NoWakeupIsLost == FairSpec => []NoLostWakeup
<1>1. Wakeup => NoLostWakeup
  <2> SUFFICES ASSUME Wakeup, shown < notified PROVE Page!SignalUnderWay \/ error
    BY DEF NoLostWakeup, Page!NoLostWakeup
  <2>1. CASE flights = <<>>
    BY <2>1 DEF Wakeup, Signalled, Ahead, Page!SignalUnderWay
  <2>2. CASE Len(flights) = 1 /\ flights[1] \in Fetch
    <3>1. flights[1] = Page!NotRead \/ flights[1] >= notified \/ Ahead
      BY <2>2, TypesSplit DEF Wakeup, Signalled, Fetch, PlainTypes, Page!Versions
    <3> QED
      BY <2>2, <3>1 DEF Ahead, Page!SignalUnderWay
  <2> QED
    BY <2>1, <2>2, NoneOrOne DEF Wakeup
<1> QED
  BY <1>1, WakeupInvariant, PTL

\* The page never goes back to an earlier topology: one fetch at a time
\* (singleFlight), and the server's topology only moves on.
THEOREM PageMovesOn == FairSpec => NeverGoesBack
<1>1. Wakeup /\ [Next]_vars => [shown' >= shown]_Page!vars
  <2> SUFFICES ASSUME Wakeup, [Next]_vars PROVE shown' >= shown \/ UNCHANGED Page!vars
    BY DEF Page!vars
  <2>1. shown \in Int
    BY TypesSplit DEF Wakeup, PageTypes, Page!Versions, Page!Nothing
  <2>2. ASSUME NEW i \in 1 .. Len(flights), Page!Arrive(i)
        PROVE  shown' >= shown
    <3>1. i = 1 /\ flights[1] \in Fetch
      BY TheFetch DEF Wakeup
    <3>2. shown' = flights[1] /\ flights[1] # Page!NotRead
      BY <2>2, <3>1 DEF Page!Arrive
    <3> QED
      BY <2>1, <3>1, <3>2 DEF Wakeup, ReadsForward, Fetch, Page!Versions
  <2>3. (\E i \in 1 .. Len(flights) : Page!Arrive(i)) \/ UNCHANGED shown
    BY DEF Next, PublishDirectory, SyncQuietly, Elsewhere, vars, pageVars, Page!Next, Page!Commit,
           Page!Age, Page!Connect, Page!Greet, Page!PassOn, Page!HoldBack, Page!WindowEnds,
           Page!WriteEvent, Page!Drop, Page!Receive, Page!TimerFires, Page!Read, Page!Fail,
           Page!Coalesces, Page!pageVars
  <2> QED
    BY <2>1, <2>2, <2>3
<1> QED
  BY <1>1, WakeupInvariant, PTL DEF FairSpec, NeverGoesBack, Page!NeverGoesBack

=============================================================================
