----------------------- MODULE WebhookDispatchProofs ------------------------
(***************************************************************************)
(* Proofs about the dispatcher table and the webhook review path, for any  *)
(* number of merge requests, deliveries, commits, crashes and ticks and    *)
(* for every timeout, zero included.  The first part is about the          *)
(* dispatcher's own specification; the second says, field by field, what   *)
(* each method does to the table when the review path calls it; the rest   *)
(* is one inductive invariant per property.                                *)
(***************************************************************************)
EXTENDS WebhookDispatch, TLAPS

LEMMA OlderType == ASSUME NEW a \in Marker PROVE Older(a) \in Marker
  BY DispatcherAssumption DEF Older, Marker, Idle, IsExpired

LEMMA FreshType == ASSUME NEW a \in Marker PROVE Fresh(a) \in Marker
  BY DispatcherAssumption DEF Fresh, Marker, Idle, IsExpired

\* Ageing two markers that agree up to expiry keeps them in agreement.
LEMMA FreshOlder ==
  ASSUME NEW a \in Marker, NEW b \in Marker, Fresh(a) = Fresh(b)
  PROVE  Fresh(Older(a)) = Fresh(Older(b))
  BY DispatcherAssumption DEF Fresh, Older, Marker, Idle, IsExpired

LEMMA FreshIdempotent ==
  ASSUME NEW a \in Marker
  PROVE  Fresh(Fresh(a)) = Fresh(a)
  BY DispatcherAssumption DEF Fresh, Marker, Idle, IsExpired

LEMMA IdleMarker == Idle \in Marker /\ 0 \in Marker
  BY DispatcherAssumption DEF Marker, Idle

LEMMA SnapshotType ==
  ASSUME NEW t \in [Mr -> MrStatus]
  PROVE  Snapshot(t) \in [Mr -> PersistedEntry]
  BY DEF Snapshot, MrStatus, PersistedEntry

LEMMA PersistType ==
  ASSUME DispatcherTypeOK, status' \in [Mr -> MrStatus], PersistLocked
  PROVE  disk' \in [Mr -> PersistedEntry]
  BY SnapshotType DEF PersistLocked, DispatcherTypeOK

LEMMA TellType ==
  ASSUME DispatcherTypeOK, NEW u \in Mr, NEW n \in News, Tell(u, n)
  PROVE  waiter' \in [Waiter -> WaiterState]
  BY DEF Tell, DispatcherTypeOK, WaiterState

LEMMA NotifyType ==
  ASSUME DispatcherTypeOK, NEW u \in Mr, Notify(u)
  PROVE  waiter' \in [Waiter -> WaiterState]
  BY TellType DEF Notify, News

\* Replacing one entry by a well-formed one keeps the table well formed.
LEMMA PointUpdate ==
  ASSUME DispatcherTypeOK, NEW u \in Mr, NEW e \in MrStatus,
         status' = [status EXCEPT ![u] = e]
  PROVE  status' \in [Mr -> MrStatus]
  BY DEF DispatcherTypeOK

\* The entries the methods write: a marker set or cleared, a commit recorded.
LEMMA EntryWithMarker ==
  ASSUME NEW e \in MrStatus, NEW r \in Marker
  PROVE  /\ [e EXCEPT !.running = r] \in MrStatus
         /\ [e EXCEPT !.known = TRUE, !.running = r] \in MrStatus
         /\ [e EXCEPT !.running = r, !.signal = TRUE] \in MrStatus
  BY DEF MrStatus

LEMMA EntryClaimed ==
  ASSUME NEW e \in MrStatus, NEW s \in Sha
  PROVE  /\ [e EXCEPT !.known = TRUE] \in MrStatus
         /\ [e EXCEPT !.known = TRUE, !.running = Idle, !.last_sha = s, !.signal = TRUE]
              \in MrStatus
  BY IdleMarker DEF MrStatus

\* Every method keeps the table, the file and the waiters well formed.
LEMMA DispatcherTypeStep ==
  ASSUME DispatcherTypeOK, [DispatcherNext]_dispatcherVars
  PROVE  DispatcherTypeOK'
<1> USE IdleMarker
<1>1. ASSUME NEW u \in Mr, NEW s \in Sha, NEW o, TryStart(u, s, o)
      PROVE  DispatcherTypeOK'
  <2>1. status' \in [Mr -> MrStatus]
    <3>1. status[u] \in MrStatus /\ 0 \in Marker
      BY DispatcherAssumption DEF DispatcherTypeOK, Marker, Idle
    <3>2. CASE o = "InProgress"
      BY <1>1, <3>2 DEF TryStart, DispatcherTypeOK
    <3>3. CASE o = "AlreadyReviewed"
      <4>1. status' = [status EXCEPT ![u] = [status[u] EXCEPT !.running = Idle]]
        BY <1>1, <3>3 DEF TryStart
      <4>2. QED BY <3>1, <4>1, EntryWithMarker, PointUpdate
    <3>4. CASE o = "Go"
      <4>1. status' = [status EXCEPT ![u] = [status[u] EXCEPT !.known = TRUE, !.running = 0]]
        BY <1>1, <3>4 DEF TryStart
      <4>2. QED BY <3>1, <4>1, EntryWithMarker, PointUpdate
    <3>5. QED BY <1>1, <3>2, <3>3, <3>4 DEF TryStart
  <2>2. disk' \in [Mr -> PersistedEntry]
    BY <1>1, <2>1, PersistType DEF TryStart, DispatcherTypeOK
  <2>3. QED BY <1>1, <2>1, <2>2 DEF TryStart, DispatcherTypeOK
<1>2. ASSUME NEW u \in Mr, NEW s \in Sha, NEW f \in Fingerprint, NEW d,
             ClaimContent(u, s, f, d)
      PROVE  DispatcherTypeOK'
  <2>1. status' \in [Mr -> MrStatus]
    <3>1. status[u] \in MrStatus
      BY DEF DispatcherTypeOK
    <3>2. CASE d = "Skip"
      <4>1. status' = [status EXCEPT ![u] =
                         [status[u] EXCEPT !.known = TRUE, !.running = Idle,
                                           !.last_sha = s, !.signal = TRUE]]
        BY <1>2, <3>2 DEF ClaimContent
      <4>2. QED BY <3>1, <4>1, EntryClaimed, PointUpdate
    <3>3. CASE d = "Review"
      <4>1. status' = [status EXCEPT ![u] = [status[u] EXCEPT !.known = TRUE]]
        BY <1>2, <3>3 DEF ClaimContent
      <4>2. QED BY <3>1, <4>1, EntryClaimed, PointUpdate
    <3>4. QED BY <1>2, <3>2, <3>3 DEF ClaimContent
  <2>2. disk' \in [Mr -> PersistedEntry]
    BY <1>2, <2>1, PersistType DEF ClaimContent, DispatcherTypeOK
  <2>3. waiter' \in [Waiter -> WaiterState]
    BY <1>2, NotifyType DEF ClaimContent, DispatcherTypeOK
  <2>4. QED BY <2>1, <2>2, <2>3 DEF DispatcherTypeOK
<1>3. ASSUME NEW u \in Mr, NEW s \in Sha, NEW f \in Fingerprint \cup {None},
             Complete(u, s, f)
      PROVE  DispatcherTypeOK'
  <2>1. CASE UNCHANGED dispatcherVars
    BY <2>1 DEF DispatcherTypeOK, dispatcherVars
  <2>2. CASE ~UNCHANGED dispatcherVars
    <3>1. status' \in [Mr -> MrStatus]
      <4>1. status[u] \in MrStatus
        BY DEF DispatcherTypeOK
      <4>2. (IF f = None THEN status[u].last_fp ELSE f) \in Fingerprint \cup {None}
        BY <4>1 DEF MrStatus
      <4>3. [status[u] EXCEPT !.running = Idle, !.last_sha = s,
                              !.last_fp = IF f = None THEN status[u].last_fp ELSE f,
                              !.signal = TRUE] \in MrStatus
        BY <4>1, <4>2 DEF MrStatus
      <4>4. status' = [status EXCEPT ![u] =
                         [status[u] EXCEPT !.running = Idle, !.last_sha = s,
                                           !.last_fp = IF f = None THEN status[u].last_fp ELSE f,
                                           !.signal = TRUE]]
        BY <1>3, <2>2 DEF Complete
      <4>5. QED BY <4>3, <4>4 DEF DispatcherTypeOK
    <3>2. QED BY <1>3, <2>2, <3>1, PersistType, NotifyType DEF Complete, DispatcherTypeOK
  <2>3. QED BY <2>1, <2>2
<1>4. ASSUME NEW u \in Mr, Reset(u)
      PROVE  DispatcherTypeOK'
  <2>1. CASE UNCHANGED dispatcherVars
    BY <2>1 DEF DispatcherTypeOK, dispatcherVars
  <2>2. CASE ~UNCHANGED dispatcherVars
    <3>1. status' \in [Mr -> MrStatus]
      <4>1. status[u] \in MrStatus
        BY DEF DispatcherTypeOK
      <4>2. status' = [status EXCEPT ![u] =
                         [status[u] EXCEPT !.running = Idle, !.signal = TRUE]]
        BY <1>4, <2>2 DEF Reset
      <4>3. QED BY <4>1, <4>2, EntryWithMarker, PointUpdate
    <3>2. QED BY <1>4, <2>2, <3>1, PersistType, NotifyType DEF Reset, DispatcherTypeOK
  <2>3. QED BY <2>1, <2>2
<1>5. ASSUME NEW u \in Mr, Remove(u)
      PROVE  DispatcherTypeOK'
  <2>1. status' \in [Mr -> MrStatus]
    BY <1>5 DEF Remove, NoEntry, DispatcherTypeOK, MrStatus
  <2>2. QED BY <1>5, <2>1, PersistType, TellType DEF Remove, News, DispatcherTypeOK
<1>6. ASSUME NEW w \in Waiter, NEW u \in Mr,
             WaitReturnsAtOnce(w, u) \/ WaitLooksUp(w, u)
      PROVE  DispatcherTypeOK'
  <2>1. CASE WaitReturnsAtOnce(w, u)
    BY <2>1 DEF WaitReturnsAtOnce, DispatcherTypeOK, dispatcherVars
  <2>2. CASE WaitLooksUp(w, u)
    <3>1. [pc |-> "subscribed", mr |-> u, left |-> 0,
           told |-> IF status[u].signal THEN "sent" ELSE "no"] \in WaiterState
      BY DispatcherAssumption DEF WaiterState, News
    <3>2. QED BY <2>2, <3>1 DEF WaitLooksUp, DispatcherTypeOK
  <2>3. QED BY <1>6, <2>1, <2>2
<1>12. ASSUME NEW w \in Waiter, WaitSeesSignal(w) \/ WaitListens(w)
       PROVE  DispatcherTypeOK'
  <2>1. CASE WaitSeesSignal(w)
    BY <2>1, DispatcherAssumption
    DEF WaitSeesSignal, NotWaiting, DispatcherTypeOK, WaiterState, News
  <2>2. CASE WaitListens(w)
    <3>1. [waiter[w] EXCEPT !.pc = "listening", !.left = Timeout] \in WaiterState
      <4>1. waiter[w] \in WaiterState /\ Timeout \in 0 .. Timeout
        BY DispatcherAssumption DEF DispatcherTypeOK
      <4>2. QED BY <4>1 DEF WaiterState
    <3>2. QED BY <2>2, <3>1 DEF WaitListens, DispatcherTypeOK
  <2>3. QED BY <1>12, <2>1, <2>2
<1>7. ASSUME NEW w \in Waiter, NEW o, WaitReturns(w, o)
      PROVE  DispatcherTypeOK'
  BY <1>7, DispatcherAssumption
  DEF WaitReturns, NotWaiting, DispatcherTypeOK, WaiterState, News
<1>8. CASE DispatcherTick
  <2>1. status' \in [Mr -> MrStatus] /\ disk' \in [Mr -> PersistedEntry]
    <3>1. \A u \in Mr : status[u] \in MrStatus /\ disk[u] \in PersistedEntry
      BY DEF DispatcherTypeOK
    <3>2. ASSUME NEW e \in MrStatus PROVE [e EXCEPT !.running = Older(@)] \in MrStatus
      BY OlderType DEF MrStatus
    <3>3. ASSUME NEW e \in PersistedEntry
          PROVE  [e EXCEPT !.running = Older(@)] \in PersistedEntry
      BY OlderType DEF PersistedEntry
    <3>4. QED BY <1>8, <3>1, <3>2, <3>3 DEF DispatcherTick
  <2>2. waiter' \in [Waiter -> WaiterState]
    <3>1. ASSUME NEW w \in Waiter
          PROVE  [waiter[w] EXCEPT !.left = IF @ > 0 THEN @ - 1 ELSE 0] \in WaiterState
      <4>1. waiter[w] \in WaiterState
        BY DEF DispatcherTypeOK
      <4>2. (IF waiter[w].left > 0 THEN waiter[w].left - 1 ELSE 0) \in 0 .. Timeout
        BY <4>1, DispatcherAssumption DEF WaiterState
      <4>3. QED BY <4>1, <4>2 DEF WaiterState
    <3>2. QED BY <1>8, <3>1 DEF DispatcherTick
  <2>3. QED BY <2>1, <2>2 DEF DispatcherTypeOK
<1>9. CASE DispatcherRestart
  <2>1. status' \in [Mr -> MrStatus]
    BY <1>9, FreshType DEF DispatcherRestart, LoadState, DispatcherTypeOK, MrStatus, PersistedEntry
  <2>2. QED
    BY <1>9, <2>1, DispatcherAssumption
    DEF DispatcherRestart, NotWaiting, DispatcherTypeOK, WaiterState, News
<1>10. CASE UNCHANGED dispatcherVars
  BY <1>10 DEF DispatcherTypeOK, dispatcherVars
<1>11. QED
  BY <1>1, <1>2, <1>3, <1>4, <1>5, <1>6, <1>7, <1>8, <1>9, <1>10, <1>12
  DEF DispatcherNext, TryStartStep, ClaimContentStep, CompleteStep, ResetStep,
      RemoveStep, WaitStep, ListenStep, WaitReturnsStep

LEMMA DispatcherTypeInit == DispatcherInit => DispatcherTypeOK
  BY IdleMarker, DispatcherAssumption
  DEF DispatcherInit, NoEntry, NoFile, NotWaiting, DispatcherTypeOK, MrStatus,
      PersistedEntry, WaiterState, News

\* Type correctness of the dispatcher of server/dispatcher.rs.
THEOREM DispatcherTypeCorrect == DispatcherSpec => []DispatcherTypeOK
<1>1. DispatcherTypeOK /\ [DispatcherNext]_dispatcherVars => DispatcherTypeOK'
  BY DispatcherTypeStep
<1>2. QED BY DispatcherTypeInit, <1>1, PTL DEF DispatcherSpec

-----------------------------------------------------------------------------
\* The file agrees with the table on one entry, as RecoveryLosesNothing says.
Agrees(u) ==
  /\ disk[u].last_sha = status[u].last_sha
  /\ disk[u].last_fp = status[u].last_fp
  /\ Fresh(disk[u].running) = Fresh(status[u].running)

\* After a write that did not fail the file agrees with the table.
LEMMA PersistAgrees ==
  ASSUME ~WriteFailures, PersistLocked, NEW u \in Mr
  PROVE  Agrees(u)'
  BY DEF PersistLocked, Snapshot, Agrees

LEMMA RecoveryStep ==
  ASSUME DispatcherTypeOK, RecoveryLosesNothing, [DispatcherNext]_dispatcherVars
  PROVE  RecoveryLosesNothing'
<1> SUFFICES ASSUME ~WriteFailures, NEW v \in Mr PROVE Agrees(v)'
  BY DEF RecoveryLosesNothing, Agrees
<1>a. Agrees(v)
  BY DEF RecoveryLosesNothing, Agrees
<1>u. UNCHANGED <<status, disk>> => Agrees(v)'
  BY <1>a DEF Agrees
<1>t. /\ status \in [Mr -> MrStatus] /\ disk \in [Mr -> PersistedEntry]
      /\ status[v].running \in Marker /\ disk[v].running \in Marker
  BY DEF DispatcherTypeOK, MrStatus, PersistedEntry
<1>1. ASSUME NEW u \in Mr, NEW s \in Sha, NEW o, TryStart(u, s, o)
      PROVE  Agrees(v)'
  <2>1. CASE o = "InProgress"
    BY <1>1, <1>u, <2>1 DEF TryStart
  <2>2. CASE o = "AlreadyReviewed"
    <3>1. /\ status' = [status EXCEPT ![u] = [@ EXCEPT !.running = Idle]]
          /\ disk' = disk
      BY <1>1, <2>2 DEF TryStart
    <3>2. ~Blocked(status[u])
      BY <1>1, <2>2 DEF TryStart, TryStartOutcome
    <3>3. Fresh(status'[v].running) = Fresh(status[v].running)
      BY <1>t, <3>1, <3>2, DispatcherAssumption
      DEF Blocked, Fresh, IsExpired, Idle, Marker
    <3>4. status'[v].last_sha = status[v].last_sha /\ status'[v].last_fp = status[v].last_fp
      BY <1>t, <3>1 DEF MrStatus
    <3>5. QED BY <1>a, <3>1, <3>3, <3>4 DEF Agrees
  <2>3. CASE o = "Go"
    BY <1>1, <2>3, PersistAgrees DEF TryStart
  <2>4. QED BY <1>1, <2>1, <2>2, <2>3 DEF TryStart
<1>2. ASSUME NEW u \in Mr, NEW s \in Sha, NEW f \in Fingerprint, NEW d,
             ClaimContent(u, s, f, d)
      PROVE  Agrees(v)'
  <2>1. CASE d = "Skip"
    BY <1>2, <2>1, PersistAgrees DEF ClaimContent
  <2>2. CASE d = "Review"
    BY <1>2, <2>2, <1>a, <1>t DEF ClaimContent, Agrees, MrStatus
  <2>3. QED BY <1>2, <2>1, <2>2 DEF ClaimContent
<1>3. ASSUME NEW u \in Mr, NEW s \in Sha, NEW f \in Fingerprint \cup {None},
             Complete(u, s, f)
      PROVE  Agrees(v)'
  BY <1>3, <1>u, PersistAgrees DEF Complete, dispatcherVars
<1>4. ASSUME NEW u \in Mr, Reset(u)
      PROVE  Agrees(v)'
  BY <1>4, <1>u, PersistAgrees DEF Reset, dispatcherVars
<1>5. ASSUME NEW u \in Mr, Remove(u)
      PROVE  Agrees(v)'
  BY <1>5, PersistAgrees DEF Remove
<1>6. ASSUME NEW w \in Waiter, NEW u \in Mr,
             WaitReturnsAtOnce(w, u) \/ WaitLooksUp(w, u)
      PROVE  Agrees(v)'
  BY <1>6, <1>u DEF WaitReturnsAtOnce, WaitLooksUp, dispatcherVars
<1>12. ASSUME NEW w \in Waiter, WaitSeesSignal(w) \/ WaitListens(w)
       PROVE  Agrees(v)'
  BY <1>12, <1>u DEF WaitSeesSignal, WaitListens
<1>7. ASSUME NEW w \in Waiter, NEW o, WaitReturns(w, o)
      PROVE  Agrees(v)'
  BY <1>7, <1>u DEF WaitReturns
<1>8. CASE DispatcherTick
  <2>1. /\ status'[v] = [status[v] EXCEPT !.running = Older(@)]
        /\ disk'[v] = [disk[v] EXCEPT !.running = Older(@)]
    BY <1>8 DEF DispatcherTick
  <2>2. /\ status'[v].running = Older(status[v].running)
        /\ disk'[v].running = Older(disk[v].running)
        /\ status'[v].last_sha = status[v].last_sha
        /\ status'[v].last_fp = status[v].last_fp
        /\ disk'[v].last_sha = disk[v].last_sha
        /\ disk'[v].last_fp = disk[v].last_fp
    BY <1>t, <2>1 DEF MrStatus, PersistedEntry
  <2>3. Fresh(disk'[v].running) = Fresh(status'[v].running)
    BY <1>a, <1>t, <2>2, FreshOlder DEF Agrees
  <2>4. QED BY <1>a, <2>2, <2>3 DEF Agrees
<1>9. CASE DispatcherRestart
  BY <1>9, <1>t, FreshIdempotent DEF DispatcherRestart, LoadState, Agrees
<1>10. CASE UNCHANGED dispatcherVars
  BY <1>10, <1>u DEF dispatcherVars
<1>11. QED
  BY <1>1, <1>2, <1>3, <1>4, <1>5, <1>6, <1>7, <1>8, <1>9, <1>10, <1>12
  DEF DispatcherNext, TryStartStep, ClaimContentStep, CompleteStep, ResetStep,
      RemoveStep, WaitStep, ListenStep, WaitReturnsStep

\* Crash safety of the state file: as long as writes succeed, a restart at
\* any point resumes with the recorded work and the live markers the process
\* had, for any number of merge requests and any timeout.
THEOREM RecoveryCorrect == DispatcherSpec => []RecoveryLosesNothing
<1>1. DispatcherInit => RecoveryLosesNothing
  <2> SUFFICES ASSUME DispatcherInit, NEW u \in Mr PROVE Agrees(u)
    BY DEF RecoveryLosesNothing, Agrees
  <2> QED BY DEF DispatcherInit, NoEntry, NoFile, Agrees
<1>2. DispatcherTypeOK /\ RecoveryLosesNothing /\ [DispatcherNext]_dispatcherVars
        => RecoveryLosesNothing'
  BY RecoveryStep
<1>3. QED BY <1>1, <1>2, DispatcherTypeCorrect, PTL DEF DispatcherSpec

-----------------------------------------------------------------------------
(* Waiters.  A marker is only ever set on a known key, in memory and in    *)
(* the file a restart reads, and whoever has been told nothing waits on an *)
(* entry of the table whose channel has never fired.                       *)

RunningIsKnown ==
  \A u \in Mr : /\ status[u].running # Idle => status[u].known
                /\ disk[u].running # Idle => disk[u].known

Asleep(w) == waiter[w].pc # "idle" /\ waiter[w].told = "no"

SleeperIsRight(w) ==
  Asleep(w) => /\ waiter[w].mr \in Mr
               /\ ~status[waiter[w].mr].signal /\ status[waiter[w].mr].known

SleeperInv == RunningIsKnown /\ \A w \in Waiter : SleeperIsRight(w)

\* A successful write gives the file the table's markers; a failed one keeps it.
LEMMA PersistKnown ==
  ASSUME PersistLocked, NEW v \in Mr,
         status'[v].running # Idle => status'[v].known,
         disk[v].running # Idle => disk[v].known
  PROVE  disk'[v].running # Idle => disk'[v].known
  BY DEF PersistLocked, Snapshot

LEMMA KnownStep ==
  ASSUME DispatcherTypeOK, RunningIsKnown, [DispatcherNext]_dispatcherVars
  PROVE  RunningIsKnown'
<1> SUFFICES ASSUME NEW v \in Mr
             PROVE  /\ status'[v].running # Idle => status'[v].known
                    /\ disk'[v].running # Idle => disk'[v].known
  BY DEF RunningIsKnown
<1>a. /\ status[v].running # Idle => status[v].known
      /\ disk[v].running # Idle => disk[v].known
  BY DEF RunningIsKnown
<1>t. /\ status \in [Mr -> MrStatus] /\ status[v] \in MrStatus
      /\ disk[v] \in PersistedEntry
  BY DEF DispatcherTypeOK
<1>1. ASSUME NEW u \in Mr, NEW s \in Sha, NEW o, TryStart(u, s, o)
      PROVE  /\ status'[v].running # Idle => status'[v].known
             /\ disk'[v].running # Idle => disk'[v].known
  <2>1. status'[v].running # Idle => status'[v].known
    <3>1. CASE status' = status
      BY <1>a, <3>1
    <3>2. CASE status' = [status EXCEPT ![u] = [@ EXCEPT !.running = Idle]]
      BY <1>a, <1>t, <3>2 DEF MrStatus
    <3>3. CASE status' = [status EXCEPT ![u] = [@ EXCEPT !.known = TRUE, !.running = 0]]
      BY <1>a, <1>t, <3>3 DEF MrStatus
    <3>4. QED BY <1>1, <3>1, <3>2, <3>3 DEF TryStart
  <2>2. QED BY <1>1, <1>a, <2>1, PersistKnown DEF TryStart
<1>2. ASSUME NEW u \in Mr, NEW s \in Sha, NEW f \in Fingerprint, NEW d,
             ClaimContent(u, s, f, d)
      PROVE  /\ status'[v].running # Idle => status'[v].known
             /\ disk'[v].running # Idle => disk'[v].known
  <2>1. status'[v].running # Idle => status'[v].known
    <3>1. CASE status' = [status EXCEPT ![u] = [@ EXCEPT !.known = TRUE, !.running = Idle,
                                                         !.last_sha = s, !.signal = TRUE]]
      BY <1>a, <1>t, <3>1 DEF MrStatus
    <3>2. CASE status' = [status EXCEPT ![u] = [@ EXCEPT !.known = TRUE]]
      BY <1>a, <1>t, <3>2 DEF MrStatus
    <3>3. QED BY <1>2, <3>1, <3>2 DEF ClaimContent
  <2>2. QED BY <1>2, <1>a, <2>1, PersistKnown DEF ClaimContent
<1>3. ASSUME NEW u \in Mr, NEW s \in Sha, NEW f \in Fingerprint \cup {None},
             Complete(u, s, f)
      PROVE  /\ status'[v].running # Idle => status'[v].known
             /\ disk'[v].running # Idle => disk'[v].known
  <2>1. status'[v].running # Idle => status'[v].known
    <3>1. CASE status' = status
      BY <1>a, <3>1
    <3>2. CASE status' = [status EXCEPT ![u] =
                            [@ EXCEPT !.running = Idle, !.last_sha = s,
                                      !.last_fp = IF f = None THEN status[u].last_fp ELSE f,
                                      !.signal = TRUE]]
      BY <1>a, <1>t, <3>2 DEF MrStatus
    <3>3. QED BY <1>3, <3>1, <3>2 DEF Complete, dispatcherVars
  <2>2. QED BY <1>3, <1>a, <2>1, PersistKnown DEF Complete, dispatcherVars
<1>4. ASSUME NEW u \in Mr, Reset(u)
      PROVE  /\ status'[v].running # Idle => status'[v].known
             /\ disk'[v].running # Idle => disk'[v].known
  <2>1. status'[v].running # Idle => status'[v].known
    BY <1>4, <1>a, <1>t DEF Reset, dispatcherVars, MrStatus
  <2>2. QED BY <1>4, <1>a, <2>1, PersistKnown DEF Reset, dispatcherVars
<1>5. ASSUME NEW u \in Mr, Remove(u)
      PROVE  /\ status'[v].running # Idle => status'[v].known
             /\ disk'[v].running # Idle => disk'[v].known
  <2>1. status'[v].running # Idle => status'[v].known
    BY <1>5, <1>a, <1>t DEF Remove, NoEntry
  <2>2. QED BY <1>5, <1>a, <2>1, PersistKnown DEF Remove
<1>6. CASE WaitStep \/ ListenStep \/ WaitReturnsStep \/ UNCHANGED dispatcherVars
  BY <1>6, <1>a
  DEF WaitStep, ListenStep, WaitReturnsStep, WaitReturnsAtOnce, WaitLooksUp, WaitSeesSignal,
      WaitListens, WaitReturns, dispatcherVars
<1>7. CASE DispatcherTick
  <2>1. /\ status'[v].running = Older(status[v].running) /\ status'[v].known = status[v].known
        /\ disk'[v].running = Older(disk[v].running) /\ disk'[v].known = disk[v].known
    BY <1>7, <1>t DEF DispatcherTick, MrStatus, PersistedEntry
  <2>2. QED BY <1>a, <2>1 DEF Older
<1>8. CASE DispatcherRestart
  BY <1>8, <1>a DEF DispatcherRestart, LoadState, Fresh
<1>9. QED
  BY <1>1, <1>2, <1>3, <1>4, <1>5, <1>6, <1>7, <1>8
  DEF DispatcherNext, TryStartStep, ClaimContentStep, CompleteStep, ResetStep, RemoveStep

\* A method that sends on u, or drops its channel, leaves no one asleep on it.
LEMMA TellWakes ==
  ASSUME DispatcherTypeOK, NEW u \in Mr, NEW n \in News \ {"no"}, Tell(u, n), NEW w \in Waiter
  PROVE  Asleep(w)' => Asleep(w) /\ waiter'[w] = waiter[w] /\ waiter[w].mr # u
<1>1. waiter[w] \in WaiterState
  BY DEF DispatcherTypeOK
<1>2. CASE waiter[w].pc # "idle" /\ waiter[w].mr = u /\ waiter[w].told = "no"
  <2>1. waiter'[w] = [waiter[w] EXCEPT !.told = n]
    BY <1>2 DEF Tell
  <2>2. QED BY <1>1, <2>1 DEF Asleep, WaiterState
<1>3. CASE ~(waiter[w].pc # "idle" /\ waiter[w].mr = u /\ waiter[w].told = "no")
  <2>1. waiter'[w] = waiter[w]
    BY <1>3 DEF Tell
  <2>2. QED BY <1>3, <2>1 DEF Asleep
<1>4. QED BY <1>2, <1>3

LEMMA TellKeepsRight ==
  ASSUME DispatcherTypeOK, NEW u \in Mr, NEW n \in News \ {"no"}, Tell(u, n),
         NEW w \in Waiter, SleeperIsRight(w),
         \A v \in Mr \ {u} : status'[v] = status[v]
  PROVE  SleeperIsRight(w)'
  BY TellWakes DEF SleeperIsRight

LEMMA NotifyWakes ==
  ASSUME DispatcherTypeOK, NEW u \in Mr, Notify(u), NEW w \in Waiter, SleeperIsRight(w),
         \A v \in Mr \ {u} : status'[v] = status[v]
  PROVE  SleeperIsRight(w)'
  BY TellKeepsRight DEF Notify, News

LEMMA SleeperStep ==
  ASSUME DispatcherTypeOK, SleeperInv, [DispatcherNext]_dispatcherVars
  PROVE  SleeperInv'
<1>k. RunningIsKnown'
  BY KnownStep DEF SleeperInv
<1> SUFFICES ASSUME NEW w \in Waiter PROVE SleeperIsRight(w)'
  BY <1>k DEF SleeperInv
<1>a. SleeperIsRight(w)
  BY DEF SleeperInv
<1>t. /\ status \in [Mr -> MrStatus] /\ waiter \in [Waiter -> WaiterState]
      /\ waiter[w] \in WaiterState
  BY DEF DispatcherTypeOK
<1>1. ASSUME NEW u \in Mr, NEW s \in Sha, NEW o, TryStart(u, s, o)
      PROVE  SleeperIsRight(w)'
  <2>1. waiter' = waiter
    BY <1>1 DEF TryStart
  <2>2. \A v \in Mr : /\ status'[v].signal = status[v].signal
                      /\ status[v].known => status'[v].known
    <3>1. CASE status' = status
      BY <3>1
    <3>2. CASE status' = [status EXCEPT ![u] = [@ EXCEPT !.running = Idle]]
      BY <1>t, <3>2 DEF MrStatus
    <3>3. CASE status' = [status EXCEPT ![u] = [@ EXCEPT !.known = TRUE, !.running = 0]]
      BY <1>t, <3>3 DEF MrStatus
    <3>4. QED BY <1>1, <3>1, <3>2, <3>3 DEF TryStart
  <2>3. QED BY <1>a, <2>1, <2>2 DEF SleeperIsRight, Asleep
<1>2. ASSUME NEW u \in Mr, NEW s \in Sha, NEW f \in Fingerprint, NEW d,
             ClaimContent(u, s, f, d)
      PROVE  SleeperIsRight(w)'
  <2>1. CASE d = "Skip"
    <3>1. Notify(u) /\ \A v \in Mr \ {u} : status'[v] = status[v]
      BY <1>2, <1>t, <2>1 DEF ClaimContent
    <3>2. QED BY <1>a, <3>1, NotifyWakes
  <2>2. CASE d = "Review"
    <3>1. waiter' = waiter
      BY <1>2, <2>2 DEF ClaimContent
    <3>2. \A v \in Mr : /\ status'[v].signal = status[v].signal
                        /\ status[v].known => status'[v].known
      BY <1>2, <1>t, <2>2 DEF ClaimContent, MrStatus
    <3>3. QED BY <1>a, <3>1, <3>2 DEF SleeperIsRight, Asleep
  <2>3. QED BY <1>2, <2>1, <2>2 DEF ClaimContent
<1>3. ASSUME NEW u \in Mr, NEW s \in Sha, NEW f \in Fingerprint \cup {None},
             Complete(u, s, f)
      PROVE  SleeperIsRight(w)'
  <2>1. CASE UNCHANGED dispatcherVars
    BY <1>a, <2>1 DEF dispatcherVars, SleeperIsRight, Asleep
  <2>2. CASE ~UNCHANGED dispatcherVars
    <3>1. Notify(u) /\ \A v \in Mr \ {u} : status'[v] = status[v]
      BY <1>3, <1>t, <2>2 DEF Complete
    <3>2. QED BY <1>a, <3>1, NotifyWakes
  <2>3. QED BY <2>1, <2>2
<1>4. ASSUME NEW u \in Mr, Reset(u)
      PROVE  SleeperIsRight(w)'
  <2>1. CASE UNCHANGED dispatcherVars
    BY <1>a, <2>1 DEF dispatcherVars, SleeperIsRight, Asleep
  <2>2. CASE ~UNCHANGED dispatcherVars
    <3>1. Notify(u) /\ \A v \in Mr \ {u} : status'[v] = status[v]
      BY <1>4, <1>t, <2>2 DEF Reset
    <3>2. QED BY <1>a, <3>1, NotifyWakes
  <2>3. QED BY <2>1, <2>2
<1>5. ASSUME NEW u \in Mr, Remove(u)
      PROVE  SleeperIsRight(w)'
  <2>1. Tell(u, "closed") /\ \A v \in Mr \ {u} : status'[v] = status[v]
    BY <1>5, <1>t DEF Remove
  <2>2. QED BY <1>a, <2>1, TellKeepsRight DEF News
<1>6. ASSUME NEW x \in Waiter, NEW u \in Mr,
             WaitReturnsAtOnce(x, u) \/ WaitLooksUp(x, u)
      PROVE  SleeperIsRight(w)'
  <2>1. CASE WaitReturnsAtOnce(x, u)
    BY <1>a, <2>1 DEF WaitReturnsAtOnce, dispatcherVars, SleeperIsRight, Asleep
  <2>2. CASE WaitLooksUp(x, u)
    <3>1. status[u].known /\ status' = status
      BY <2>2 DEF WaitLooksUp, SleeperInv, RunningIsKnown
    <3>2. CASE x = w
      <4>1. waiter'[w] = [pc |-> "subscribed", mr |-> u, left |-> 0,
                          told |-> IF status[u].signal THEN "sent" ELSE "no"]
        BY <1>t, <2>2, <3>2 DEF WaitLooksUp
      <4>2. QED BY <3>1, <4>1 DEF SleeperIsRight, Asleep
    <3>3. CASE x # w
      BY <1>a, <1>t, <2>2, <3>1, <3>3 DEF WaitLooksUp, SleeperIsRight, Asleep
    <3>4. QED BY <3>2, <3>3
  <2>3. QED BY <1>6, <2>1, <2>2
<1>12. ASSUME NEW x \in Waiter, WaitSeesSignal(x) \/ WaitListens(x)
       PROVE  SleeperIsRight(w)'
  <2>1. CASE WaitSeesSignal(x)
    BY <2>1, <1>a, <1>t DEF WaitSeesSignal, NotWaiting, SleeperIsRight, Asleep
  <2>2. CASE WaitListens(x)
    <3>1. /\ status' = status
          /\ waiter'[w].mr = waiter[w].mr /\ waiter'[w].told = waiter[w].told
          /\ waiter'[w].pc # "idle" => waiter[w].pc # "idle"
      BY <2>2, <1>t DEF WaitListens, WaiterState
    <3>2. QED BY <1>a, <3>1 DEF SleeperIsRight, Asleep
  <2>3. QED BY <1>12, <2>1, <2>2
<1>7. ASSUME NEW x \in Waiter, NEW o, WaitReturns(x, o)
      PROVE  SleeperIsRight(w)'
  BY <1>7, <1>a, <1>t DEF WaitReturns, NotWaiting, SleeperIsRight, Asleep
<1>8. CASE DispatcherTick
  <2>1. /\ waiter'[w].pc = waiter[w].pc /\ waiter'[w].mr = waiter[w].mr
        /\ waiter'[w].told = waiter[w].told
    BY <1>8, <1>t DEF DispatcherTick, WaiterState
  <2>2. \A v \in Mr : status'[v].signal = status[v].signal /\ status'[v].known = status[v].known
    BY <1>8, <1>t DEF DispatcherTick, MrStatus
  <2>3. QED BY <1>a, <2>1, <2>2 DEF SleeperIsRight, Asleep
<1>9. CASE DispatcherRestart
  BY <1>9 DEF DispatcherRestart, NotWaiting, SleeperIsRight, Asleep
<1>10. CASE UNCHANGED dispatcherVars
  BY <1>a, <1>10 DEF dispatcherVars, SleeperIsRight, Asleep
<1>11. QED
  BY <1>1, <1>2, <1>3, <1>4, <1>5, <1>6, <1>7, <1>8, <1>9, <1>10, <1>12
  DEF DispatcherNext, TryStartStep, ClaimContentStep, CompleteStep, ResetStep,
      RemoveStep, WaitStep, ListenStep, WaitReturnsStep

LEMMA SleeperInit == DispatcherInit => SleeperInv
  BY DEF DispatcherInit, NoEntry, NoFile, NotWaiting, SleeperInv, RunningIsKnown, SleeperIsRight, Asleep

LEMMA SleeperCorrect == DispatcherSpec => []SleeperInv
<1>1. DispatcherTypeOK /\ SleeperInv /\ [DispatcherNext]_dispatcherVars => SleeperInv'
  BY SleeperStep
<1>2. QED BY SleeperInit, <1>1, DispatcherTypeCorrect, PTL DEF DispatcherSpec

-----------------------------------------------------------------------------
(* The review path.                                                        *)

\* The recorded work of an entry is kept.
WorkKept(v) == /\ status'[v].last_sha = status[v].last_sha
               /\ status'[v].last_fp = status[v].last_fp

\* The file keeps what it says of an entry or takes it over from the table.
FileFollows(v) == /\ disk'[v].last_sha \in {disk[v].last_sha, status'[v].last_sha}
                  /\ disk'[v].last_fp \in {disk[v].last_fp, status'[v].last_fp}

LEMMA PersistFollows == ASSUME PersistLocked, NEW v \in Mr PROVE FileFollows(v)
  BY DEF PersistLocked, Snapshot, FileFollows

LEMMA TryStartEffect ==
  ASSUME DispatcherTypeOK, NEW u \in Mr, NEW s, NEW o, TryStart(u, s, o), NEW v \in Mr
  PROVE  /\ WorkKept(v) /\ FileFollows(v)
         /\ v # u => status'[v] = status[v]
         /\ o = "Go" => ~Blocked(status[u]) /\ status'[u].running = 0
         /\ o # "Go" => status'[u].running = status[u].running \/ ~Blocked(status[u])
<1>t. status \in [Mr -> MrStatus] /\ status[u] \in MrStatus
  BY DEF DispatcherTypeOK
<1>1. CASE o = "InProgress"
  <2>1. status' = status /\ disk' = disk
    BY <1>1 DEF TryStart
  <2>2. QED BY <1>1, <2>1 DEF WorkKept, FileFollows
<1>2. CASE o = "AlreadyReviewed"
  <2>1. status' = [status EXCEPT ![u] = [@ EXCEPT !.running = Idle]] /\ disk' = disk
    BY <1>2 DEF TryStart
  <2>2. ~Blocked(status[u])
    BY <1>2 DEF TryStart, TryStartOutcome
  <2>3. QED BY <1>2, <1>t, <2>1, <2>2 DEF WorkKept, FileFollows, MrStatus
<1>3. CASE o = "Go"
  <2>1. status' = [status EXCEPT ![u] = [@ EXCEPT !.known = TRUE, !.running = 0]]
        /\ FileFollows(v)
    BY <1>3, PersistFollows DEF TryStart
  <2>2. ~Blocked(status[u])
    BY <1>3 DEF TryStart, TryStartOutcome
  <2>3. QED BY <1>3, <1>t, <2>1, <2>2 DEF WorkKept, MrStatus
<1>4. QED BY <1>1, <1>2, <1>3 DEF TryStart

LEMMA ResetEffect ==
  ASSUME DispatcherTypeOK, NEW u \in Mr, Reset(u), NEW v \in Mr
  PROVE  WorkKept(v) /\ FileFollows(v) /\ (v # u => status'[v] = status[v])
<1>1. CASE UNCHANGED dispatcherVars
  BY <1>1 DEF dispatcherVars, WorkKept, FileFollows
<1>2. CASE ~UNCHANGED dispatcherVars
  <2>1. status' = [status EXCEPT ![u] = [@ EXCEPT !.running = Idle, !.signal = TRUE]]
        /\ FileFollows(v)
    BY <1>2, PersistFollows DEF Reset
  <2>2. QED BY <2>1 DEF WorkKept, DispatcherTypeOK, MrStatus
<1>3. QED BY <1>1, <1>2

LEMMA ClaimSkipEffect ==
  ASSUME DispatcherTypeOK, NEW u \in Mr, NEW s, NEW f, ClaimContent(u, s, f, "Skip"), NEW v \in Mr
  PROVE  /\ FileFollows(v)
         /\ v # u => status'[v] = status[v]
         /\ status'[v].last_fp = status[v].last_fp
         /\ status'[u].last_sha = s /\ status[u].last_fp = f
<1>1. status' = [status EXCEPT ![u] = [@ EXCEPT !.known = TRUE, !.running = Idle,
                                                !.last_sha = s, !.signal = TRUE]]
      /\ FileFollows(v)
  BY PersistFollows DEF ClaimContent
<1>2. status[u].last_fp = f
  BY DEF ClaimContent, DecideContent
<1>3. QED BY <1>1, <1>2 DEF DispatcherTypeOK, MrStatus

LEMMA ClaimReviewEffect ==
  ASSUME DispatcherTypeOK, NEW u \in Mr, NEW s, NEW f \in Fingerprint,
         ClaimContent(u, s, f, "Review"), NEW v \in Mr
  PROVE  /\ WorkKept(v) /\ FileFollows(v)
         /\ status'[v].running = status[v].running
         /\ status[u].last_fp # f
<1>1. status' = [status EXCEPT ![u] = [@ EXCEPT !.known = TRUE]] /\ disk' = disk
  BY DEF ClaimContent
<1>2. status[u].last_fp # f
  BY DispatcherAssumption DEF ClaimContent, DecideContent
<1>3. QED BY <1>1, <1>2 DEF WorkKept, FileFollows, DispatcherTypeOK, MrStatus

LEMMA CompleteEffect ==
  ASSUME DispatcherTypeOK, NEW u \in Mr, NEW s, NEW f \in Fingerprint, Complete(u, s, f), NEW v \in Mr
  PROVE  /\ FileFollows(v)
         /\ v # u => status'[v] = status[v]
         /\ status[u].known => status'[u].last_sha = s /\ status'[u].last_fp = f
         /\ ~status[u].known => status' = status
<1>n. f # None
  BY DispatcherAssumption
<1>1. CASE ~status[u].known
  BY <1>1 DEF Complete, dispatcherVars, FileFollows
<1>2. CASE status[u].known
  <2>1. status' = [status EXCEPT ![u] =
                     [@ EXCEPT !.running = Idle, !.last_sha = s,
                               !.last_fp = IF f = None THEN status[u].last_fp ELSE f,
                               !.signal = TRUE]]
        /\ FileFollows(v)
    BY <1>2, PersistFollows DEF Complete
  <2>2. QED BY <1>2, <1>n, <2>1 DEF DispatcherTypeOK, MrStatus
<1>3. QED BY <1>1, <1>2

LEMMA WaitEffect ==
  ASSUME NEW w, NEW u, NEW o,
         \/ WaitReturnsAtOnce(w, u) \/ WaitLooksUp(w, u)
         \/ WaitSeesSignal(w) \/ WaitListens(w) \/ WaitReturns(w, o)
  PROVE  status' = status /\ disk' = disk
  BY DEF WaitReturnsAtOnce, WaitLooksUp, WaitSeesSignal, WaitListens, WaitReturns, dispatcherVars

LEMMA TickEffect ==
  ASSUME DispatcherTypeOK, DispatcherTick, NEW v \in Mr
  PROVE  /\ WorkKept(v) /\ FileFollows(v)
         /\ status'[v].running = Older(status[v].running)
  BY DEF DispatcherTick, DispatcherTypeOK, MrStatus, PersistedEntry, WorkKept, FileFollows

LEMMA RestartEffect ==
  ASSUME DispatcherRestart, NEW v \in Mr
  PROVE  /\ disk' = disk
         /\ status'[v].last_sha = disk[v].last_sha
         /\ status'[v].last_fp = disk[v].last_fp
  BY DEF DispatcherRestart, LoadState

-----------------------------------------------------------------------------
(* Types.  A call on the dispatcher is well typed only because a handler   *)
(* past "unsent" names a merge request and a commit, a review runs only    *)
(* behind a handler that spawned it, and one past its fetch knows the      *)
(* fingerprint.                                                            *)

Fetched == {"gate", "review", "published"}

Named(d) ==
  /\ handler[d].pc # "unsent" => handler[d].mr \in Mr /\ handler[d].sha \in Sha
  /\ handler[d].pc = "unsent" => handler[d].mr = None
  /\ task[d].pc \in Active => handler[d].pc = "spawned"
  /\ task[d].pc \in Fetched => task[d].fp \in Fingerprint

TypeInv == TypeOK /\ \A d \in Delivery : Named(d)

Moved(d, to) == handler' = [handler EXCEPT ![d] = [@ EXCEPT !.pc = to]]

\* The table keeps its recorded work, and every entry but one keeps everything.
OnlyMarkerOf(u) ==
  \A v \in Mr : WorkKept(v) /\ FileFollows(v) /\ (v # u => status'[v] = status[v])

\* The two things a handler's step can be: it gets Go and spawns a review, or
\* it moves on without one.
Spawned(d) ==
  /\ Moved(d, "spawned")
  /\ task' = [task EXCEPT ![d] = [pc |-> "fetch", fp |-> None, age |-> 0]]
  /\ ~Blocked(status[handler[d].mr]) /\ status'[handler[d].mr].running = 0

Answered(d) ==
  /\ \E to \in HandlerPc \ {"unsent"} : Moved(d, to)
  /\ task' = task
  /\ \/ status'[handler[d].mr].running = status[handler[d].mr].running
     \/ ~Blocked(status[handler[d].mr])

LEMMA HandlerEffect ==
  ASSUME TypeInv, NEW d \in Delivery, HandlerStep(d)
  PROVE  /\ handler[d].mr \in Mr /\ handler[d].sha \in Sha
         /\ handler[d].pc \in {"received", "waiting", "retry"}
         /\ DispatcherNext
         /\ Spawned(d) \/ Answered(d)
         /\ OnlyMarkerOf(handler[d].mr)
         /\ UNCHANGED <<head, historyVars>>
<1> DEFINE u == handler[d].mr
<1>p. handler[d].pc \in {"received", "waiting", "retry"}
  BY DEF HandlerStep, DispatchGo, DispatchAlreadyReviewed, DispatchInProgress,
         CommentInProgress, BeginWait, EndWait, RetryGo, RetryDropped, HandlerAt
<1>n. u \in Mr /\ handler[d].sha \in Sha /\ d \in Waiter
  BY <1>p, WebhookAssumption DEF TypeInv, Named
<1>t. DispatcherTypeOK
  BY DEF TypeInv, TypeOK
<1>1. CASE DispatchGo(d) \/ RetryGo(d)
  <2>1. /\ TryStart(u, handler[d].sha, "Go") /\ Moved(d, "spawned") /\ SpawnReview(d)
    BY <1>1 DEF DispatchGo, RetryGo, HandlerAt, Moved
  <2>2. DispatcherNext
    BY <1>n, <2>1 DEF DispatcherNext, TryStartStep
  <2>3. OnlyMarkerOf(u) /\ ~Blocked(status[u]) /\ status'[u].running = 0
    BY <1>n, <1>t, <2>1, TryStartEffect DEF OnlyMarkerOf
  <2>4. QED BY <1>n, <1>p, <2>1, <2>2, <2>3 DEF Spawned, SpawnReview
<1>2. ASSUME NEW to \in HandlerPc \ {"unsent"}, NEW o \in {"AlreadyReviewed", "InProgress"},
             Moved(d, to), NoReview, TryStart(u, handler[d].sha, o)
      PROVE  DispatcherNext /\ Answered(d) /\ OnlyMarkerOf(u) /\ UNCHANGED <<head, historyVars>>
  <2>1. DispatcherNext
    BY <1>n, <1>2 DEF DispatcherNext, TryStartStep
  <2>2. o # "Go"
    BY <1>2
  <2>3. OnlyMarkerOf(u) /\ (status'[u].running = status[u].running \/ ~Blocked(status[u]))
    BY <1>n, <1>t, <1>2, <2>2, TryStartEffect DEF OnlyMarkerOf
  <2>4. QED BY <1>2, <2>1, <2>3 DEF Answered, NoReview
<1>3. CASE \/ DispatchAlreadyReviewed(d) \/ DispatchInProgress(d)
           \/ CommentInProgress(d) \/ RetryDropped(d)
  <2>1. \E to \in HandlerPc \ {"unsent"}, o \in {"AlreadyReviewed", "InProgress"} :
          Moved(d, to) /\ NoReview /\ TryStart(u, handler[d].sha, o)
    BY <1>3 DEF DispatchAlreadyReviewed, DispatchInProgress, CommentInProgress,
                RetryDropped, HandlerAt, Moved, HandlerPc
  <2>2. QED BY <1>n, <1>p, <1>2, <2>1
<1>4. CASE BeginWait(d) \/ EndWait(d)
  <2>1. /\ \E to \in HandlerPc \ {"unsent"} : Moved(d, to)
        /\ NoReview
        /\ \/ WaitReturnsAtOnce(d, u) \/ WaitLooksUp(d, u)
           \/ WaitSeesSignal(d) \/ WaitListens(d)
           \/ \E o \in {"Completed", "TimedOut"} : WaitReturns(d, o)
    BY <1>4 DEF BeginWait, EndWait, HandlerAt, Moved, HandlerPc
  <2>2. DispatcherNext
    BY <1>n, <2>1 DEF DispatcherNext, WaitStep, ListenStep, WaitReturnsStep
  <2>3. status' = status /\ disk' = disk
    BY <2>1, WaitEffect
  <2>4. OnlyMarkerOf(u)
    BY <2>3 DEF OnlyMarkerOf, WorkKept, FileFollows
  <2>5. QED BY <1>n, <1>p, <2>1, <2>2, <2>3, <2>4 DEF Answered, NoReview
<1>5. QED BY <1>1, <1>3, <1>4 DEF HandlerStep

\* A step of a background review: the handler that spawned it is named, and
\* what it asks of the dispatcher is a call some client could make.
LEMMA TaskEffect ==
  ASSUME TypeInv, NEW d \in Delivery, TaskStep(d)
  PROVE  /\ handler[d].mr \in Mr /\ handler[d].sha \in Sha
         /\ task[d].pc \in Active
         /\ task[d].pc \in Fetched => task[d].fp \in Fingerprint
         /\ [DispatcherNext]_dispatcherVars
         /\ UNCHANGED <<handler, head, pushed, rewound, overran, crashes>>
<1>p. task[d].pc \in Active
  BY DEF TaskStep, FetchDiff, FetchFails, GateReview, GateSkip, ReviewFails, Publish,
         FinishReview, TaskAborts, TaskAt, TaskEnds, Active
<1>n. /\ handler[d].mr \in Mr /\ handler[d].sha \in Sha
      /\ task[d].pc \in Fetched => task[d].fp \in Fingerprint
  BY <1>p DEF TypeInv, Named
<1>u. UNCHANGED <<handler, head, pushed, rewound, overran, crashes>>
  BY DEF TaskStep, FetchDiff, FetchFails, GateReview, GateSkip, ReviewFails, Publish,
         FinishReview, TaskAborts, historyVars
<1>1. CASE FetchDiff(d) \/ Publish(d) \/ TaskAborts(d)
  BY <1>1, <1>p, <1>n, <1>u DEF FetchDiff, Publish, TaskAborts
<1>2. CASE FetchFails(d) \/ ReviewFails(d)
  <2>1. Reset(handler[d].mr)
    BY <1>2 DEF FetchFails, ReviewFails
  <2>2. QED BY <1>p, <1>n, <1>u, <2>1 DEF DispatcherNext, ResetStep
<1>3. CASE GateReview(d) \/ GateSkip(d)
  <2>1. task[d].fp \in Fingerprint
    BY <1>3, <1>n DEF GateReview, GateSkip, TaskAt, TaskEnds, Fetched
  <2>2. [DispatcherNext]_dispatcherVars
    BY <1>3, <1>n, <2>1 DEF GateReview, GateSkip, DispatcherNext, ClaimContentStep
  <2>3. QED BY <1>p, <1>n, <1>u, <2>2
<1>4. CASE FinishReview(d)
  <2>1. task[d].fp \in Fingerprint
    BY <1>4, <1>n DEF FinishReview, TaskEnds, Fetched
  <2>2. DispatcherNext
    BY <1>4, <1>n, <2>1 DEF FinishReview, DispatcherNext, CompleteStep
  <2>3. QED BY <1>p, <1>n, <1>u, <2>2
<1>5. QED BY <1>1, <1>2, <1>3, <1>4 DEF TaskStep

\* The review path is a client of the dispatcher: each of its steps is a step
\* of the most general client, or leaves the dispatcher alone.
LEMMA IsDispatcherStep ==
  ASSUME TypeInv, [Next]_vars
  PROVE  [DispatcherNext]_dispatcherVars
<1>1. ASSUME NEW d \in Delivery, EnvironmentStep(d) PROVE [DispatcherNext]_dispatcherVars
  BY <1>1 DEF EnvironmentStep, Announce, Comment, Push
<1>2. ASSUME NEW d \in Delivery, HandlerStep(d) PROVE [DispatcherNext]_dispatcherVars
  BY <1>2, HandlerEffect
<1>3. ASSUME NEW d \in Delivery, TaskStep(d) PROVE [DispatcherNext]_dispatcherVars
  BY <1>3, TaskEffect
<1>4. CASE Tick \/ Restart \/ UNCHANGED vars
  BY <1>4 DEF Tick, Restart, DispatcherNext, vars
<1>5. QED BY <1>1, <1>2, <1>3, <1>4 DEF Next

\* A delivery arrives: its handler is named, nothing else but the head of the
\* merge request may move.
Arrives(d) ==
  /\ handler[d].pc = "unsent"
  /\ \E u \in Mr, s \in Sha, k \in {"push", "note"} :
       handler' = [handler EXCEPT ![d] = [pc |-> "received", kind |-> k, mr |-> u, sha |-> s]]
  /\ head' \in [Mr -> Rev] /\ pushed' \in [Mr -> SUBSET Rev] /\ rewound' \in [Mr -> BOOLEAN]
  /\ UNCHANGED <<dispatcherVars, task, reviewed, posted, unrecorded, overran, crashes>>

LEMMA EnvironmentEffect ==
  ASSUME TypeInv, NEW d \in Delivery, EnvironmentStep(d)
  PROVE  Arrives(d)
<1>t. /\ head \in [Mr -> Rev] /\ pushed \in [Mr -> SUBSET Rev] /\ rewound \in [Mr -> BOOLEAN]
      /\ Rev \subseteq Sha /\ Delivery \subseteq Sha
  BY WebhookAssumption DEF TypeInv, TypeOK
<1>1. ASSUME NEW u \in Mr, Announce(d, u) PROVE Arrives(d)
  BY <1>1, <1>t DEF Announce, Arrives, historyVars
<1>2. ASSUME NEW u \in Mr, Comment(d, u) PROVE Arrives(d)
  BY <1>2, <1>t DEF Comment, Arrives, historyVars
<1>3. ASSUME NEW u \in Mr, NEW r \in Rev, Push(d, u, r) PROVE Arrives(d)
  <2>1. /\ head' \in [Mr -> Rev] /\ pushed' \in [Mr -> SUBSET Rev]
    BY <1>3, <1>t DEF Push
  <2>2. rewound' \in [Mr -> BOOLEAN]
    BY <1>3, <1>t DEF Push
  <2>3. QED BY <1>3, <1>t, <2>1, <2>2 DEF Push, Arrives
<1>4. QED BY <1>1, <1>2, <1>3 DEF EnvironmentStep

\* What a review's step leaves of its task.
LEMMA TaskNext ==
  ASSUME TypeInv, NEW d \in Delivery, TaskStep(d)
  PROVE  \E t \in TaskState : /\ task' = [task EXCEPT ![d] = t]
                              /\ t.pc \in Fetched => t.fp \in Fingerprint
<1>t. /\ task \in [Delivery -> TaskState] /\ task[d] \in TaskState
      /\ head \in [Mr -> Rev] /\ Content \in [Rev -> Fingerprint]
  BY WebhookAssumption DEF TypeInv, TypeOK
<1>n. /\ handler[d].mr \in Mr
      /\ task[d].pc \in Fetched => task[d].fp \in Fingerprint
  BY TaskEffect
<1>0. \A how \in {"failed", "skipped", "completed", "dead"} :
        /\ [pc |-> how, fp |-> None, age |-> 0] \in TaskState
        /\ [pc |-> how, fp |-> None, age |-> 0].pc \notin Fetched
  BY DispatcherAssumption DEF TaskState, TaskPc, Fetched
<1>1. CASE FetchDiff(d)
  <2>1. Content[head[handler[d].mr]] \in Fingerprint
    BY <1>t, <1>n
  <2>2. [task[d] EXCEPT !.pc = "gate", !.fp = Content[head[handler[d].mr]]] \in TaskState
    BY <1>t, <2>1 DEF TaskState, TaskPc
  <2>3. QED BY <1>1, <1>t, <2>1, <2>2 DEF FetchDiff, TaskState
<1>2. CASE GateReview(d) \/ Publish(d)
  <2>1. PICK to \in {"review", "published"} : task' = [task EXCEPT ![d] = [@ EXCEPT !.pc = to]]
    BY <1>2 DEF GateReview, Publish, TaskAt
  <2>2. [task[d] EXCEPT !.pc = to] \in TaskState
    BY <1>t DEF TaskState, TaskPc
  <2>3. task[d].fp \in Fingerprint
    BY <1>2, <1>n DEF GateReview, Publish, TaskAt, Fetched
  <2>4. QED BY <1>t, <2>1, <2>2, <2>3 DEF TaskState
<1>3. CASE FetchFails(d) \/ GateSkip(d) \/ ReviewFails(d) \/ FinishReview(d) \/ TaskAborts(d)
  <2>1. \E how \in {"failed", "skipped", "completed", "dead"} :
          task' = [task EXCEPT ![d] = [pc |-> how, fp |-> None, age |-> 0]]
    BY <1>3 DEF FetchFails, GateSkip, ReviewFails, FinishReview, TaskAborts, TaskEnds
  <2>2. QED BY <1>0, <2>1
<1>4. QED BY <1>1, <1>2, <1>3 DEF TaskStep

\* The clock and a restart change no task's or handler's name.
LEMMA OlderTaskType ==
  ASSUME NEW t \in TaskState
  PROVE  OlderTask(t) \in TaskState /\ OlderTask(t).pc = t.pc /\ OlderTask(t).fp = t.fp
<1>1. CASE t.pc \in Active /\ t.age < Timeout
  <2>1. t.age + 1 \in 0 .. Timeout
    BY <1>1, DispatcherAssumption DEF TaskState
  <2>2. QED BY <1>1, <2>1 DEF OlderTask, TaskState
<1>2. CASE ~(t.pc \in Active /\ t.age < Timeout)
  BY <1>2 DEF OlderTask
<1>3. QED BY <1>1, <1>2

LEMMA TypeStep ==
  ASSUME TypeInv, [Next]_vars
  PROVE  TypeInv'
<1>d. DispatcherTypeOK'
  BY IsDispatcherStep, DispatcherTypeStep DEF TypeInv, TypeOK
<1>t. /\ handler \in [Delivery -> HandlerState] /\ task \in [Delivery -> TaskState]
      /\ \A d \in Delivery : Named(d)
  BY DEF TypeInv, TypeOK
<1>1. ASSUME NEW d \in Delivery, EnvironmentStep(d) PROVE TypeInv'
  <2>1. Arrives(d)
    BY <1>1, EnvironmentEffect
  <2>2. PICK u \in Mr, s \in Sha, k \in {"push", "note"} :
          handler' = [handler EXCEPT ![d] = [pc |-> "received", kind |-> k, mr |-> u, sha |-> s]]
    BY <2>1 DEF Arrives
  <2>3. [pc |-> "received", kind |-> k, mr |-> u, sha |-> s] \in HandlerState
    BY DEF HandlerState, HandlerPc
  <2>4. handler' \in [Delivery -> HandlerState]
    BY <1>t, <2>2, <2>3
  <2>5. ASSUME NEW e \in Delivery PROVE Named(e)'
    BY <1>t, <2>1, <2>2 DEF Named, Arrives
  <2>6. QED BY <1>d, <2>1, <2>4, <2>5 DEF TypeInv, TypeOK, Arrives
<1>2. ASSUME NEW d \in Delivery, HandlerStep(d) PROVE TypeInv'
  <2>1. /\ handler[d].mr \in Mr /\ handler[d].sha \in Sha
        /\ handler[d].pc \in {"received", "waiting", "retry"}
        /\ Spawned(d) \/ Answered(d)
        /\ UNCHANGED <<head, historyVars>>
    BY <1>2, HandlerEffect
  <2>2. PICK to \in HandlerPc \ {"unsent"} : Moved(d, to)
    BY <2>1 DEF Spawned, Answered, HandlerPc
  <2>3. handler' \in [Delivery -> HandlerState]
    <3>1. [handler[d] EXCEPT !.pc = to] \in HandlerState
      BY <1>t DEF HandlerState
    <3>2. QED BY <1>t, <2>2, <3>1 DEF Moved
  <2>4. task' \in [Delivery -> TaskState]
    <3>1. [pc |-> "fetch", fp |-> None, age |-> 0] \in TaskState
      BY DispatcherAssumption DEF TaskState, TaskPc
    <3>2. QED BY <1>t, <2>1, <3>1 DEF Spawned, Answered
  <2>5. ASSUME NEW e \in Delivery PROVE Named(e)'
    <3>1. CASE e # d
      <4>1. handler'[e] = handler[e] /\ task'[e] = task[e]
        BY <1>t, <2>1, <2>2, <3>1 DEF Moved, Spawned, Answered
      <4>2. QED BY <1>t, <4>1 DEF Named
    <3>2. CASE e = d
      <4>1. handler'[d].mr \in Mr /\ handler'[d].sha \in Sha /\ handler'[d].pc = to
        BY <1>t, <2>1, <2>2 DEF Moved, HandlerState
      <4>2. CASE Answered(d)
        <5>1. task'[d] = task[d] /\ task[d].pc \notin Active
          BY <1>t, <2>1, <4>2 DEF Answered, Named
        <5>2. QED BY <3>2, <4>1, <5>1 DEF Named, Active, Fetched
      <4>3. CASE Spawned(d)
        <5>1. handler'[d].pc = "spawned" /\ task'[d].pc = "fetch"
          BY <1>t, <4>3 DEF Spawned, Moved, HandlerState
        <5>2. QED BY <3>2, <4>1, <5>1 DEF Named, Fetched
      <4>4. QED BY <2>1, <4>2, <4>3
    <3>3. QED BY <3>1, <3>2
  <2>6. QED BY <1>d, <2>1, <2>3, <2>4, <2>5 DEF TypeInv, TypeOK, historyVars
<1>3. ASSUME NEW d \in Delivery, TaskStep(d) PROVE TypeInv'
  <2>1. /\ handler[d].mr \in Mr /\ task[d].pc \in Active
        /\ UNCHANGED <<handler, head, pushed, rewound, overran, crashes>>
        /\ task[d].pc \in Fetched => task[d].fp \in Fingerprint
    BY <1>3, TaskEffect
  <2>2. PICK t \in TaskState : /\ task' = [task EXCEPT ![d] = t]
                               /\ t.pc \in Fetched => t.fp \in Fingerprint
    BY <1>3, TaskNext
  <2>3. task' \in [Delivery -> TaskState]
    BY <1>t, <2>2
  <2>4. ASSUME NEW e \in Delivery PROVE Named(e)'
    <3>1. handler' = handler /\ Named(e) /\ Named(d)
      BY <1>t, <2>1
    <3>2. CASE e = d
      <4>1. task'[d] = t
        BY <1>t, <2>2
      <4>2. QED BY <2>1, <2>2, <3>1, <3>2, <4>1 DEF Named
    <3>3. CASE e # d
      <4>1. task'[e] = task[e]
        BY <1>t, <2>2, <3>3
      <4>2. QED BY <3>1, <4>1 DEF Named
    <3>4. QED BY <3>2, <3>3
  <2>5. /\ reviewed' \in [Mr -> SUBSET Fingerprint]
        /\ posted' \in [Mr -> Fingerprint \cup {None}]
        /\ unrecorded' \in [Mr -> BOOLEAN]
    <3>1. /\ reviewed \in [Mr -> SUBSET Fingerprint]
          /\ posted \in [Mr -> Fingerprint \cup {None}]
          /\ unrecorded \in [Mr -> BOOLEAN]
      BY DEF TypeInv, TypeOK
    <3>2. CASE Publish(d)
      BY <2>1, <3>1, <3>2 DEF Publish, TaskAt, Fetched
    <3>3. CASE FinishReview(d)
      BY <2>1, <3>1, <3>3 DEF FinishReview, TaskEnds, Fetched
    <3>4. CASE TaskAborts(d)
      BY <2>1, <3>1, <3>4 DEF TaskAborts
    <3>5. CASE ~(Publish(d) \/ FinishReview(d) \/ TaskAborts(d))
      BY <1>3, <3>1, <3>5 DEF TaskStep, FetchDiff, FetchFails, GateReview, GateSkip,
                              ReviewFails, historyVars
    <3>6. QED BY <3>2, <3>3, <3>4, <3>5
  <2>6. QED BY <1>d, <2>1, <2>3, <2>4, <2>5 DEF TypeInv, TypeOK
<1>4. CASE Tick
  <2>1. task' \in [Delivery -> TaskState]
    BY <1>4, <1>t, OlderTaskType DEF Tick
  <2>2. overran' \in [Mr -> BOOLEAN]
    BY <1>4 DEF Tick, TypeInv, TypeOK
  <2>3. ASSUME NEW e \in Delivery PROVE Named(e)'
    <3>1. task'[e].pc = task[e].pc /\ task'[e].fp = task[e].fp
      BY <1>4, <1>t, OlderTaskType DEF Tick
    <3>2. handler' = handler /\ Named(e)
      BY <1>4, <1>t DEF Tick
    <3>3. QED BY <3>1, <3>2 DEF Named
  <2>4. QED BY <1>4, <1>d, <2>1, <2>2, <2>3 DEF Tick, TypeInv, TypeOK
<1>5. CASE Restart
  <2>1. handler' \in [Delivery -> HandlerState] /\ task' \in [Delivery -> TaskState]
    <3>1. \A d \in Delivery : [handler[d] EXCEPT !.pc = "dead"] \in HandlerState
      BY <1>t DEF HandlerState, HandlerPc
    <3>2. [pc |-> "dead", fp |-> None, age |-> 0] \in TaskState
      BY DispatcherAssumption DEF TaskState, TaskPc
    <3>3. QED BY <1>5, <1>t, <3>1, <3>2 DEF Restart
  <2>2. unrecorded' \in [Mr -> BOOLEAN]
    BY <1>5 DEF Restart, TypeInv, TypeOK
  <2>3. crashes' \in 0 .. Crashes
    BY <1>5, WebhookAssumption DEF Restart, TypeInv, TypeOK
  <2>4. ASSUME NEW e \in Delivery PROVE Named(e)'
    <3>1. task'[e].pc \notin Active
      BY <1>5 DEF Restart, Active
    <3>2. handler'[e].mr = handler[e].mr /\ handler'[e].sha = handler[e].sha
      BY <1>5, <1>t DEF Restart, HandlerState
    <3>3. handler'[e].pc # "unsent" <=> handler[e].pc # "unsent"
      BY <1>5, <1>t DEF Restart, HandlerState
    <3>4. QED BY <1>t, <3>1, <3>2, <3>3 DEF Named, Active, Fetched
  <2>5. QED BY <1>5, <1>d, <2>1, <2>2, <2>3, <2>4 DEF Restart, TypeInv, TypeOK
<1>6. CASE UNCHANGED vars
  BY <1>6, <1>d DEF vars, historyVars, TypeInv, TypeOK, Named, dispatcherVars
<1>7. QED BY <1>1, <1>2, <1>3, <1>4, <1>5, <1>6 DEF Next

LEMMA TypeInit == Init => TypeInv
<1> SUFFICES ASSUME Init PROVE TypeInv
  OBVIOUS
<1>1. DispatcherTypeOK
  BY DispatcherTypeInit DEF Init
<1>2. /\ NoHandler \in HandlerState /\ NoTask \in TaskState
      /\ NoHandler.pc = "unsent" /\ NoTask.pc = "none"
  BY DispatcherAssumption
  DEF NoHandler, NoTask, HandlerState, TaskState, HandlerPc, TaskPc
<1>3. \A d \in Delivery : Named(d)
  BY <1>2 DEF Init, Named, NoHandler, Active, Fetched
<1>4. QED BY <1>1, <1>2, <1>3, WebhookAssumption DEF Init, TypeInv, TypeOK

LEMMA TypeCorrect == Spec => []TypeInv
<1>1. TypeInv /\ [Next]_vars => TypeInv'
  BY TypeStep
<1>2. QED BY TypeInit, <1>1, PTL DEF Spec

\* The webhook handlers and reviews of server/gitlab, server/github and
\* server/mod.rs implement the most general client of the dispatcher, so
\* every theorem about the table holds of it as they use it.
THEOREM ImplementsDispatcher == Spec => DispatcherSpec
<1>1. Init => DispatcherInit
  BY DEF Init
<1>2. TypeInv /\ [Next]_vars => [DispatcherNext]_dispatcherVars
  BY IsDispatcherStep
<1>3. QED BY <1>1, <1>2, TypeCorrect, PTL DEF Spec, DispatcherSpec

-----------------------------------------------------------------------------
(* No sleep without a review.  A marker is set by the handler that spawns  *)
(* the review, and every end of a review clears the marker and tells the   *)
(* waiters in one step; between the two the review runs or has died.       *)

Awaited(u) == status[u].running # Idle \/ \E w \in Waiter : Asleep(w) /\ waiter[w].mr = u

AwaitInv == \A u \in Mr : Awaited(u) => RunsOrDied(u)

\* The ends of a review leave nothing to wait for.
LEMMA TellEnds ==
  ASSUME DispatcherTypeOK, NEW u \in Mr, Notify(u), status'[u].running = Idle
  PROVE  ~Awaited(u)'
<1>1. ASSUME NEW w \in Waiter, Asleep(w)' PROVE waiter'[w].mr # u
  BY <1>1, TellWakes DEF Notify, News
<1>2. QED BY <1>1 DEF Awaited

LEMMA UnknownIsNotAwaited ==
  ASSUME SleeperInv, NEW u \in Mr, ~status[u].known, UNCHANGED dispatcherVars
  PROVE  ~Awaited(u)'
  BY DEF SleeperInv, RunningIsKnown, SleeperIsRight, Awaited, Asleep, dispatcherVars

LEMMA ResetEnds ==
  ASSUME DispatcherTypeOK, SleeperInv, NEW u \in Mr, Reset(u)
  PROVE  ~Awaited(u)'
<1>1. CASE ~status[u].known
  BY <1>1, UnknownIsNotAwaited DEF Reset
<1>2. CASE status[u].known
  <2>1. /\ Notify(u)
        /\ status' = [status EXCEPT ![u] = [@ EXCEPT !.running = Idle, !.signal = TRUE]]
    BY <1>2 DEF Reset
  <2>2. status'[u].running = Idle
    BY <2>1 DEF DispatcherTypeOK, MrStatus
  <2>3. QED BY <2>1, <2>2, TellEnds
<1>3. QED BY <1>1, <1>2

LEMMA SkipEnds ==
  ASSUME DispatcherTypeOK, NEW u \in Mr, NEW s, NEW f, ClaimContent(u, s, f, "Skip")
  PROVE  ~Awaited(u)'
<1>1. /\ Notify(u)
      /\ status' = [status EXCEPT ![u] =
                      [@ EXCEPT !.known = TRUE, !.running = Idle, !.last_sha = s, !.signal = TRUE]]
  BY DEF ClaimContent
<1>2. status'[u].running = Idle
  BY <1>1 DEF DispatcherTypeOK, MrStatus
<1>3. QED BY <1>1, <1>2, TellEnds

LEMMA CompleteEnds ==
  ASSUME DispatcherTypeOK, SleeperInv, NEW u \in Mr, NEW s, NEW f, Complete(u, s, f)
  PROVE  ~Awaited(u)'
<1>1. CASE ~status[u].known
  BY <1>1, UnknownIsNotAwaited DEF Complete
<1>2. CASE status[u].known
  <2>1. Notify(u) /\ status'[u].running = Idle
    <3>1. /\ Notify(u)
          /\ status' = [status EXCEPT ![u] =
                          [@ EXCEPT !.running = Idle, !.last_sha = s,
                                    !.last_fp = IF f = None THEN status[u].last_fp ELSE f,
                                    !.signal = TRUE]]
      BY <1>2 DEF Complete
    <3>2. QED BY <3>1 DEF DispatcherTypeOK, MrStatus
  <2>2. QED BY <2>1, TellEnds
<1>3. QED BY <1>1, <1>2

\* Telling others wakes nobody up late: whoever sleeps afterwards slept before.
LEMMA OthersStayAwaited ==
  ASSUME DispatcherTypeOK, NEW u \in Mr, NEW v \in Mr,
         Notify(u) \/ waiter' = waiter,
         status'[v].running = status[v].running, Awaited(v)'
  PROVE  Awaited(v)
<1>1. ASSUME NEW w \in Waiter, Asleep(w)' PROVE Asleep(w) /\ waiter'[w] = waiter[w]
  BY <1>1, TellWakes DEF Notify, News, Asleep
<1>2. QED BY <1>1 DEF Awaited

\* What a handler makes others await was awaited before, unless it spawns the review.
LEMMA HandlerAwaits ==
  ASSUME TypeInv, NEW d \in Delivery, HandlerStep(d), ~Spawned(d), NEW v \in Mr, Awaited(v)'
  PROVE  Awaited(v)
<1> DEFINE u == handler[d].mr
<1>n. u \in Mr /\ handler[d].sha \in Sha /\ d \in Waiter
  BY HandlerEffect, WebhookAssumption
<1>t. DispatcherTypeOK /\ waiter \in [Waiter -> WaiterState] /\ status \in [Mr -> MrStatus]
  BY DEF TypeInv, TypeOK, DispatcherTypeOK
<1>1. ASSUME NEW o \in {"AlreadyReviewed", "InProgress"}, TryStart(u, handler[d].sha, o)
      PROVE  Awaited(v)
  <2>1. /\ waiter' = waiter
        /\ status' = status \/ status' = [status EXCEPT ![u] = [@ EXCEPT !.running = Idle]]
    BY <1>1 DEF TryStart
  <2>2. status'[v].running # Idle => status[v].running # Idle
    BY <1>t, <2>1 DEF MrStatus
  <2>3. QED BY <2>1, <2>2 DEF Awaited, Asleep
<1>2. CASE DispatchAlreadyReviewed(d) \/ DispatchInProgress(d) \/ CommentInProgress(d)
           \/ RetryDropped(d)
  BY <1>1, <1>2 DEF DispatchAlreadyReviewed, DispatchInProgress, CommentInProgress, RetryDropped
<1>3. CASE DispatchGo(d) \/ RetryGo(d)
  <2>1. Spawned(d)
    <3>1. /\ TryStart(u, handler[d].sha, "Go") /\ Moved(d, "spawned") /\ SpawnReview(d)
      BY <1>3 DEF DispatchGo, RetryGo, HandlerAt, Moved
    <3>2. ~Blocked(status[u]) /\ status'[u].running = 0
      BY <1>n, <1>t, <3>1, TryStartEffect
    <3>3. QED BY <3>1, <3>2 DEF Spawned, SpawnReview
  <2>2. QED BY <2>1
<1>4. CASE WaitLooksUp(d, u)
  <2>1. status' = status /\ status[u].running # Idle
    BY <1>4 DEF WaitLooksUp
  <2>2. ASSUME NEW w \in Waiter, w # d PROVE waiter'[w] = waiter[w]
    BY <1>4, <1>t, <2>2 DEF WaitLooksUp
  <2>3. waiter'[d].mr = u
    BY <1>4, <1>t, <1>n DEF WaitLooksUp
  <2>4. QED BY <2>1, <2>2, <2>3 DEF Awaited, Asleep
<1>5. ASSUME NEW o,
             \/ WaitReturnsAtOnce(d, u) \/ WaitSeesSignal(d) \/ WaitListens(d) \/ WaitReturns(d, o)
      PROVE  Awaited(v)
  <2>1. status' = status
    BY <1>5, WaitEffect
  <2>2. ASSUME NEW w \in Waiter, Asleep(w)'
        PROVE  Asleep(w) /\ waiter'[w].mr = waiter[w].mr
    <3>1. CASE WaitReturnsAtOnce(d, u)
      BY <2>2, <3>1 DEF WaitReturnsAtOnce, dispatcherVars, Asleep
    <3>2. CASE WaitSeesSignal(d) \/ WaitReturns(d, o)
      <4>1. waiter' = [waiter EXCEPT ![d] = NotWaiting]
        BY <3>2 DEF WaitSeesSignal, WaitReturns
      <4>2. QED BY <1>t, <2>2, <4>1 DEF NotWaiting, Asleep
    <3>3. CASE WaitListens(d)
      <4>1. /\ waiter'[w].mr = waiter[w].mr /\ waiter'[w].told = waiter[w].told
            /\ waiter'[w].pc # "idle" => waiter[w].pc # "idle"
        BY <1>t, <3>3 DEF WaitListens, WaiterState
      <4>2. QED BY <2>2, <4>1 DEF Asleep
    <3>4. QED BY <1>5, <3>1, <3>2, <3>3
  <2>3. QED BY <2>1, <2>2 DEF Awaited
<1>6. CASE BeginWait(d) \/ EndWait(d)
  <2>1. \/ WaitLooksUp(d, u)
        \/ \E o \in {"Completed", "TimedOut"} :
             \/ WaitReturnsAtOnce(d, u) \/ WaitSeesSignal(d) \/ WaitListens(d) \/ WaitReturns(d, o)
    BY <1>6 DEF BeginWait, EndWait
  <2>2. QED BY <1>4, <1>5, <2>1
<1>7. QED BY <1>2, <1>3, <1>6 DEF HandlerStep

LEMMA AwaitStep ==
  ASSUME ~WriteFailures, TypeInv, SleeperInv, RecoveryLosesNothing, AwaitInv, [Next]_vars
  PROVE  AwaitInv'
<1> SUFFICES ASSUME NEW v \in Mr, Awaited(v)' PROVE RunsOrDied(v)'
  BY DEF AwaitInv
<1>a. Awaited(v) => RunsOrDied(v)
  BY DEF AwaitInv
<1>t. /\ handler \in [Delivery -> HandlerState] /\ task \in [Delivery -> TaskState]
      /\ DispatcherTypeOK /\ \A d \in Delivery : Named(d)
  BY DEF TypeInv, TypeOK
<1>m. status \in [Mr -> MrStatus] /\ disk \in [Mr -> PersistedEntry]
      /\ waiter \in [Waiter -> WaiterState]
  BY <1>t DEF DispatcherTypeOK
<1>1. ASSUME NEW d \in Delivery, EnvironmentStep(d) PROVE RunsOrDied(v)'
  <2>1. Arrives(d)
    BY <1>1, EnvironmentEffect
  <2>2. Awaited(v)
    BY <2>1 DEF Arrives, Awaited, Asleep, dispatcherVars
  <2>3. PICK e \in Delivery : handler[e].mr = v /\ task[e].pc \in Active \cup {"dead"}
    BY <1>a, <2>2 DEF RunsOrDied
  <2>4. e # d
    BY <1>t, <2>1, <2>3, WebhookAssumption DEF Arrives, Named
  <2>5. handler'[e] = handler[e] /\ task'[e] = task[e]
    BY <1>t, <2>1, <2>4 DEF Arrives
  <2>6. QED BY <2>3, <2>5 DEF RunsOrDied
<1>2. ASSUME NEW d \in Delivery, HandlerStep(d) PROVE RunsOrDied(v)'
  <2>1. /\ handler[d].mr \in Mr /\ handler[d].pc \in {"received", "waiting", "retry"}
        /\ Spawned(d) \/ Answered(d)
        /\ OnlyMarkerOf(handler[d].mr)
    BY <1>2, HandlerEffect
  <2>2. \A e \in Delivery : handler'[e].mr = handler[e].mr
    BY <1>t, <2>1 DEF Spawned, Answered, Moved, HandlerState
  <2>3. CASE Spawned(d) /\ handler[d].mr = v
    BY <1>t, <2>2, <2>3 DEF Spawned, RunsOrDied, Active
  <2>4. CASE Spawned(d) /\ handler[d].mr # v
    <3>1. Awaited(v)
      <4>1. waiter' = waiter
        <5>1. handler'[d].pc = "spawned"
          BY <1>t, <2>4 DEF Spawned, Moved, HandlerState
        <5>2. DispatchGo(d) \/ RetryGo(d)
          BY <1>2, <1>t, <5>1 DEF HandlerStep, DispatchAlreadyReviewed, DispatchInProgress,
               CommentInProgress, RetryDropped, BeginWait, EndWait, HandlerAt, HandlerState
        <5>3. QED BY <5>2 DEF DispatchGo, RetryGo, TryStart
      <4>2. status'[v] = status[v]
        BY <2>1, <2>4 DEF OnlyMarkerOf
      <4>3. QED BY <4>1, <4>2 DEF Awaited, Asleep
    <3>2. PICK e \in Delivery : handler[e].mr = v /\ task[e].pc \in Active \cup {"dead"}
      BY <1>a, <3>1 DEF RunsOrDied
    <3>3. task'[e] = task[e]
      BY <1>t, <2>4, <3>2 DEF Spawned
    <3>4. QED BY <2>2, <3>2, <3>3 DEF RunsOrDied
  <2>5. CASE ~Spawned(d)
    <3>1. Awaited(v)
      BY <1>2, <2>5, HandlerAwaits
    <3>2. task' = task
      BY <2>1, <2>5 DEF Answered
    <3>3. QED BY <1>a, <2>2, <3>1, <3>2 DEF RunsOrDied
  <2>6. QED BY <2>3, <2>4, <2>5
<1>3. ASSUME NEW d \in Delivery, TaskStep(d) PROVE RunsOrDied(v)'
  <2> DEFINE u == handler[d].mr
  <2>1. /\ u \in Mr /\ task[d].pc \in Active /\ handler' = handler
        /\ task[d].pc \in Fetched => task[d].fp \in Fingerprint
    BY <1>3, TaskEffect
  <2>2. \A e \in Delivery \ {d} : task'[e] = task[e]
    BY <1>3, <1>t, TaskNext
  <2>3. CASE FetchDiff(d) \/ GateReview(d) \/ Publish(d) \/ TaskAborts(d)
    <3>1. task'[d].pc \in Active \cup {"dead"}
      <4>1. CASE FetchDiff(d)
        BY <1>t, <4>1 DEF FetchDiff, Active, TaskState
      <4>2. CASE GateReview(d)
        BY <1>t, <4>2 DEF GateReview, TaskAt, Active, TaskState
      <4>3. CASE Publish(d)
        BY <1>t, <4>3 DEF Publish, TaskAt, Active, TaskState
      <4>4. CASE TaskAborts(d)
        BY <1>t, <4>4 DEF TaskAborts, TaskEnds, Active, TaskState
      <4>5. QED BY <2>3, <4>1, <4>2, <4>3, <4>4
    <3>2. Awaited(v)
      <4>1. waiter' = waiter /\ status'[v].running = status[v].running
        <5>1. CASE FetchDiff(d) \/ Publish(d) \/ TaskAborts(d)
          BY <5>1 DEF FetchDiff, Publish, TaskAborts, dispatcherVars
        <5>2. CASE GateReview(d)
          <6>1. task[d].fp \in Fingerprint
            BY <2>1, <5>2 DEF GateReview, TaskAt, Fetched
          <6>2. waiter' = waiter
            BY <5>2 DEF GateReview, ClaimContent, dispatcherVars
          <6>3. QED
            BY <1>t, <2>1, <5>2, <6>1, <6>2, ClaimReviewEffect DEF GateReview, dispatcherVars
        <5>3. QED BY <2>3, <5>1, <5>2
      <4>2. QED BY <4>1 DEF Awaited, Asleep
    <3>3. PICK e \in Delivery : handler[e].mr = v /\ task[e].pc \in Active \cup {"dead"}
      BY <1>a, <3>2 DEF RunsOrDied
    <3>4. task'[e].pc \in Active \cup {"dead"}
      BY <2>2, <3>1, <3>3
    <3>5. QED BY <2>1, <3>3, <3>4 DEF RunsOrDied
  <2>4. CASE FetchFails(d) \/ GateSkip(d) \/ ReviewFails(d) \/ FinishReview(d)
    <3>1. ~Awaited(u)'
      <4>1. CASE FetchFails(d) \/ ReviewFails(d)
        BY <1>t, <2>1, <4>1, ResetEnds DEF FetchFails, ReviewFails
      <4>2. CASE GateSkip(d)
        BY <1>t, <2>1, <4>2, SkipEnds DEF GateSkip
      <4>3. CASE FinishReview(d)
        BY <1>t, <2>1, <4>3, CompleteEnds DEF FinishReview
      <4>4. QED BY <2>4, <4>1, <4>2, <4>3
    <3>2. v # u
      BY <2>1, <3>1 DEF Awaited, Asleep
    <3>3. status'[v] = status[v] /\ (Notify(u) \/ waiter' = waiter)
      <4>1. CASE FetchFails(d) \/ ReviewFails(d)
        <5>1. Reset(u)
          BY <4>1 DEF FetchFails, ReviewFails
        <5>2. QED BY <1>t, <2>1, <3>2, <5>1, ResetEffect DEF Reset, dispatcherVars
      <4>2. CASE GateSkip(d)
        <5>1. ClaimContent(u, handler[d].sha, task[d].fp, "Skip")
          BY <4>2 DEF GateSkip
        <5>2. Notify(u)
          BY <5>1 DEF ClaimContent
        <5>3. QED BY <1>t, <2>1, <3>2, <5>1, <5>2, ClaimSkipEffect
      <4>3. CASE FinishReview(d)
        <5>1. Complete(u, handler[d].sha, task[d].fp) /\ task[d].fp \in Fingerprint
          BY <2>1, <4>3 DEF FinishReview, TaskEnds, Fetched
        <5>2. Notify(u) \/ waiter' = waiter
          BY <5>1 DEF Complete, dispatcherVars
        <5>3. QED BY <1>t, <2>1, <3>2, <5>1, <5>2, CompleteEffect
      <4>4. QED BY <2>4, <4>1, <4>2, <4>3
    <3>4. Awaited(v)
      BY <1>t, <2>1, <3>3, OthersStayAwaited
    <3>5. PICK e \in Delivery : handler[e].mr = v /\ task[e].pc \in Active \cup {"dead"}
      BY <1>a, <3>4 DEF RunsOrDied
    <3>6. task'[e] = task[e]
      BY <2>2, <3>2, <3>5
    <3>7. QED BY <2>1, <3>5, <3>6 DEF RunsOrDied
  <2>5. QED BY <1>3, <2>3, <2>4 DEF TaskStep
<1>4. CASE Tick
  <2>1. handler' = handler /\ \A e \in Delivery : task'[e].pc = task[e].pc
    BY <1>4, <1>t, OlderTaskType DEF Tick
  <2>2. status'[v].running = Idle \/ status[v].running # Idle
    BY <1>4, <1>t, TickEffect DEF Tick, Older
  <2>3. \A w \in Waiter : /\ waiter'[w].pc = waiter[w].pc /\ waiter'[w].mr = waiter[w].mr
                         /\ waiter'[w].told = waiter[w].told
    BY <1>4, <1>m DEF Tick, DispatcherTick, WaiterState
  <2>4. Awaited(v)
    BY <2>2, <2>3 DEF Awaited, Asleep
  <2>5. QED BY <1>a, <2>1, <2>4 DEF RunsOrDied
<1>5. CASE Restart
  <2>1. \A w \in Waiter : ~Asleep(w)'
    BY <1>5 DEF Restart, DispatcherRestart, NotWaiting, Asleep
  <2>2. Fresh(disk[v].running) # Idle
    BY <1>5, <2>1 DEF Restart, DispatcherRestart, LoadState, Awaited
  <2>3. status[v].running # Idle
    BY <2>2 DEF RecoveryLosesNothing, Fresh
  <2>4. PICK e \in Delivery : handler[e].mr = v /\ task[e].pc \in Active \cup {"dead"}
    BY <1>a, <2>3 DEF Awaited, RunsOrDied
  <2>5. handler'[e].mr = v
    BY <1>5, <1>t, <2>4 DEF Restart, HandlerState
  <2>6. task'[e].pc = "dead"
    BY <1>5, <1>t, <2>4 DEF Restart
  <2>7. QED BY <2>5, <2>6 DEF RunsOrDied
<1>6. CASE UNCHANGED vars
  BY <1>a, <1>6 DEF vars, dispatcherVars, Awaited, Asleep, RunsOrDied
<1>7. QED BY <1>1, <1>2, <1>3, <1>4, <1>5, <1>6 DEF Next

LEMMA AwaitInit == Init => AwaitInv
  BY DEF Init, DispatcherInit, NoEntry, NotWaiting, AwaitInv, Awaited, Asleep

\* No sleep without a review and no lost wake-up, for any number of deliveries,
\* merge requests, crashes and ticks: a delivery inside `wait` that was told
\* nothing, at whatever point between its lookup and its timer, waits for a
\* review of its merge request that still runs or that died.
THEOREM NobodySleepsWithoutAReview == Spec => []SleepersHaveAReview
<1>1. ASSUME ~WriteFailures PROVE Spec => []AwaitInv
  <2>1. TypeInv /\ SleeperInv /\ RecoveryLosesNothing /\ AwaitInv /\ [Next]_vars => AwaitInv'
    BY <1>1, AwaitStep
  <2>2. QED
    BY AwaitInit, <2>1, TypeCorrect, ImplementsDispatcher, SleeperCorrect, RecoveryCorrect,
       PTL DEF Spec
<1>2. TypeInv /\ SleeperInv /\ AwaitInv => SleepersHaveAReview
  BY WebhookAssumption
  DEF SleeperInv, SleeperIsRight, AwaitInv, Awaited, Asleep, Sleeps, SleepersHaveAReview
<1>3. CASE ~WriteFailures
  BY <1>1, <1>2, <1>3, TypeCorrect, ImplementsDispatcher, SleeperCorrect, PTL
<1>4. CASE WriteFailures
  <2>1. SleepersHaveAReview
    BY <1>4 DEF SleepersHaveAReview
  <2>2. QED BY <2>1, PTL
<1>5. QED BY <1>3, <1>4

-----------------------------------------------------------------------------
(* One review at a time.  What keeps a second one out is that the marker   *)
(* of the table and the running review age together: until the review      *)
(* overruns, the marker is exactly as old as it and not yet expired.       *)

Covered(u) ==
  ~overran[u] =>
    \A d, e \in ActiveOn(u) : d = e /\ status[u].running = task[d].age /\ task[d].age < Timeout

CoverInv == \A u \in Mr : Covered(u)

\* A review that is covered keeps its entry blocked.
LEMMA CoveredBlocks ==
  ASSUME TypeInv, NEW u \in Mr, Covered(u), ~overran[u], NEW d \in ActiveOn(u)
  PROVE  Blocked(status[u])
  BY DispatcherAssumption
  DEF Covered, Blocked, IsExpired, Idle, ActiveOn, TypeInv, TypeOK, TaskState

LEMMA CoverStep ==
  ASSUME Timeout # 0, TypeInv, CoverInv, [Next]_vars
  PROVE  CoverInv'
<1> SUFFICES ASSUME NEW v \in Mr, ~overran'[v] PROVE Covered(v)'
  BY DEF CoverInv, Covered
<1>a. Covered(v)
  BY DEF CoverInv
<1>t. /\ handler \in [Delivery -> HandlerState] /\ task \in [Delivery -> TaskState]
      /\ status \in [Mr -> MrStatus] /\ DispatcherTypeOK
      /\ \A d \in Delivery : Named(d)
  BY DEF TypeInv, TypeOK, DispatcherTypeOK
<1>1. ASSUME NEW d \in Delivery, EnvironmentStep(d) PROVE Covered(v)'
  <2>1. Arrives(d)
    BY <1>1, EnvironmentEffect
  <2>2. task[d].pc \notin Active
    BY <1>t, <2>1 DEF Arrives, Named
  <2>3. ActiveOn(v)' \subseteq ActiveOn(v)
    BY <1>t, <2>1, <2>2 DEF Arrives, ActiveOn
  <2>4. QED BY <1>a, <2>1, <2>3 DEF Arrives, Covered, dispatcherVars
<1>2. ASSUME NEW d \in Delivery, HandlerStep(d) PROVE Covered(v)'
  <2> DEFINE u == handler[d].mr
  <2>1. /\ u \in Mr /\ handler[d].pc \in {"received", "waiting", "retry"}
        /\ Spawned(d) \/ Answered(d)
        /\ OnlyMarkerOf(u) /\ overran' = overran
    BY <1>2, HandlerEffect DEF historyVars
  <2>2. task[d].pc \notin Active
    BY <1>t, <2>1 DEF Named
  <2>3. \A e \in Delivery : handler'[e].mr = handler[e].mr
    BY <1>t, <2>1 DEF Spawned, Answered, Moved, HandlerState
  <2>4. CASE Answered(d)
    <3>1. ActiveOn(v)' = ActiveOn(v) /\ task' = task
      BY <2>3, <2>4 DEF Answered, ActiveOn
    <3>2. CASE ActiveOn(v) = {}
      BY <3>1, <3>2 DEF Covered
    <3>3. CASE ActiveOn(v) # {}
      <4>1. Blocked(status[v])
        BY <1>a, <2>1, <3>3, CoveredBlocks
      <4>2. status'[v].running = status[v].running
        BY <2>1, <2>4, <4>1 DEF Answered, OnlyMarkerOf
      <4>3. QED BY <1>a, <2>1, <3>1, <4>2 DEF Covered
    <3>4. QED BY <3>2, <3>3
  <2>5. CASE Spawned(d)
    <3>1. /\ \A e \in Delivery \ {d} : task'[e] = task[e]
          /\ task'[d] = [pc |-> "fetch", fp |-> None, age |-> 0]
          /\ ~Blocked(status[u]) /\ status'[u].running = 0
      BY <1>t, <2>5 DEF Spawned
    <3>2. CASE v # u
      <4>1. d \notin ActiveOn(v)' /\ d \notin ActiveOn(v)
        BY <2>2, <2>3, <3>2 DEF ActiveOn
      <4>2. ActiveOn(v)' = ActiveOn(v) /\ \A e \in ActiveOn(v) : task'[e] = task[e]
        BY <2>3, <3>1, <4>1 DEF ActiveOn
      <4>3. status'[v] = status[v]
        BY <2>1, <3>2 DEF OnlyMarkerOf
      <4>4. QED BY <1>a, <2>1, <4>2, <4>3 DEF Covered
    <3>3. CASE v = u
      <4>1. ActiveOn(v) = {}
        BY <1>a, <2>1, <3>1, <3>3, CoveredBlocks
      <4>2. ActiveOn(v)' \subseteq {d}
        BY <2>3, <3>1, <4>1 DEF ActiveOn
      <4>3. task'[d].age = 0 /\ 0 < Timeout
        BY <3>1, DispatcherAssumption
      <4>4. QED BY <3>1, <3>3, <4>2, <4>3 DEF Covered
    <3>4. QED BY <3>2, <3>3
  <2>6. QED BY <2>1, <2>4, <2>5
<1>3. ASSUME NEW d \in Delivery, TaskStep(d) PROVE Covered(v)'
  <2> DEFINE u == handler[d].mr
  <2>1. /\ u \in Mr /\ task[d].pc \in Active /\ handler' = handler /\ overran' = overran
        /\ task[d].pc \in Fetched => task[d].fp \in Fingerprint
    BY <1>3, TaskEffect
  <2>2. \A e \in Delivery \ {d} : task'[e] = task[e]
    BY <1>3, <1>t, TaskNext
  <2>3. d \in ActiveOn(u)
    BY <2>1 DEF ActiveOn
  <2>4. CASE v # u
    <3>1. d \notin ActiveOn(v)' /\ d \notin ActiveOn(v)
      BY <2>1, <2>4 DEF ActiveOn
    <3>2. ActiveOn(v)' = ActiveOn(v) /\ \A e \in ActiveOn(v) : task'[e] = task[e]
      BY <2>1, <2>2, <3>1 DEF ActiveOn
    <3>3. status'[v].running = status[v].running
      <4>1. CASE FetchDiff(d) \/ Publish(d) \/ TaskAborts(d)
        BY <4>1 DEF FetchDiff, Publish, TaskAborts, dispatcherVars
      <4>2. CASE FetchFails(d) \/ ReviewFails(d)
        BY <1>t, <2>1, <2>4, <4>2, ResetEffect DEF FetchFails, ReviewFails
      <4>3. CASE GateReview(d)
        <5>1. task[d].fp \in Fingerprint
          BY <2>1, <4>3 DEF GateReview, TaskAt, Fetched
        <5>2. QED BY <1>t, <2>1, <4>3, <5>1, ClaimReviewEffect DEF GateReview, dispatcherVars
      <4>4. CASE GateSkip(d)
        BY <1>t, <2>1, <2>4, <4>4, ClaimSkipEffect DEF GateSkip
      <4>5. CASE FinishReview(d)
        <5>1. task[d].fp \in Fingerprint
          BY <2>1, <4>5 DEF FinishReview, TaskEnds, Fetched
        <5>2. QED BY <1>t, <2>1, <2>4, <4>5, <5>1, CompleteEffect DEF FinishReview
      <4>6. QED BY <1>3, <4>1, <4>2, <4>3, <4>4, <4>5 DEF TaskStep
    <3>4. QED BY <1>a, <2>1, <3>2, <3>3 DEF Covered
  <2>5. CASE v = u
    <3>1. ActiveOn(v) = {d}
      BY <1>a, <2>1, <2>3, <2>5 DEF Covered
    <3>2. ActiveOn(v)' \subseteq {d}
      BY <2>1, <2>2, <3>1 DEF ActiveOn
    <3>3. CASE FetchDiff(d) \/ GateReview(d) \/ Publish(d)
      <4>1. task'[d].age = task[d].age
        <5>1. CASE FetchDiff(d)
          BY <1>t, <5>1 DEF FetchDiff, TaskState
        <5>2. CASE GateReview(d) \/ Publish(d)
          <6>1. PICK to \in TaskPc : task' = [task EXCEPT ![d] = [@ EXCEPT !.pc = to]]
            BY <5>2 DEF GateReview, Publish, TaskAt, TaskPc
          <6>2. QED BY <1>t, <6>1 DEF TaskState
        <5>3. QED BY <3>3, <5>1, <5>2
      <4>2. status'[v].running = status[v].running
        <5>1. CASE FetchDiff(d) \/ Publish(d)
          BY <5>1 DEF FetchDiff, Publish, dispatcherVars
        <5>2. CASE GateReview(d)
          <6>1. task[d].fp \in Fingerprint
            BY <2>1, <5>2 DEF GateReview, TaskAt, Fetched
          <6>2. QED BY <1>t, <2>1, <5>2, <6>1, ClaimReviewEffect DEF GateReview, dispatcherVars
        <5>3. QED BY <3>3, <5>1, <5>2
      <4>3. QED BY <1>a, <2>1, <3>1, <3>2, <4>1, <4>2 DEF Covered
    <3>4. CASE FetchFails(d) \/ GateSkip(d) \/ ReviewFails(d) \/ FinishReview(d) \/ TaskAborts(d)
      <4>1. task'[d].pc \notin Active
        BY <1>t, <3>4 DEF FetchFails, GateSkip, ReviewFails, FinishReview, TaskAborts,
                          TaskEnds, Active
      <4>2. ActiveOn(v)' = {}
        BY <3>2, <4>1 DEF ActiveOn
      <4>3. QED BY <4>2 DEF Covered
    <3>5. QED BY <1>3, <3>3, <3>4 DEF TaskStep
  <2>6. QED BY <2>4, <2>5
<1>4. CASE Tick
  <2>1. /\ handler' = handler
        /\ \A e \in Delivery : task'[e] = OlderTask(task[e]) /\ task'[e].pc = task[e].pc
    BY <1>4, <1>t, OlderTaskType DEF Tick
  <2>2. ActiveOn(v)' = ActiveOn(v)
    BY <2>1 DEF ActiveOn
  <2>3. /\ ~overran[v]
        /\ \A e \in ActiveOn(v) : ~(task'[e].age >= Timeout)
    BY <1>4, <2>1 DEF Tick, TypeInv, TypeOK, ActiveOn
  <2>4. status'[v].running = Older(status[v].running)
    BY <1>4, <1>t, TickEffect DEF Tick
  <2>5. ASSUME NEW d \in ActiveOn(v), NEW e \in ActiveOn(v)
        PROVE  d = e /\ status'[v].running = task'[d].age /\ task'[d].age < Timeout
    <3>1. d = e /\ status[v].running = task[d].age /\ task[d].age < Timeout
      BY <1>a, <2>3 DEF Covered
    <3>2. d \in Delivery /\ task[d] \in TaskState /\ task[d].pc \in Active
      BY <1>t DEF ActiveOn
    <3>3. task'[d].age = task[d].age + 1
      BY <2>1, <3>1, <3>2 DEF OlderTask, TaskState
    <3>4. Older(task[d].age) = task[d].age + 1
      BY <3>1, <3>2, DispatcherAssumption DEF Older, IsExpired, Idle, TaskState
    <3>5. ~(task'[d].age >= Timeout)
      BY <2>3
    <3>6. QED BY <2>4, <3>1, <3>2, <3>3, <3>4, <3>5, DispatcherAssumption DEF TaskState
  <2>6. QED BY <2>2, <2>5 DEF Covered
<1>5. CASE Restart
  <2>1. ActiveOn(v)' = {}
    BY <1>5 DEF Restart, ActiveOn, Active
  <2>2. QED BY <2>1 DEF Covered
<1>6. CASE UNCHANGED vars
  BY <1>a, <1>6 DEF vars, historyVars, dispatcherVars, Covered, ActiveOn
<1>7. QED BY <1>1, <1>2, <1>3, <1>4, <1>5, <1>6 DEF Next

LEMMA CoverInit == Init => CoverInv
  BY DEF Init, NoTask, CoverInv, Covered, ActiveOn, Active

LEMMA CoverCorrect == ASSUME Timeout # 0 PROVE Spec => []CoverInv
<1>1. TypeInv /\ CoverInv /\ [Next]_vars => CoverInv'
  BY CoverStep
<1>2. QED BY CoverInit, <1>1, TypeCorrect, PTL DEF Spec

\* Mutual exclusion of reviews on a merge request: through pushes, comments,
\* retries, failures, aborts and restarts, two reviews overlap only after one
\* has outlived REVIEW_DISPATCH_TIMEOUT_SECS.  A timeout of zero, which the
\* environment variable may set, switches the marker off and is excluded.
THEOREM OneReview == ASSUME Timeout # 0 PROVE Spec => []OneReviewUntilTimeout
<1>1. TypeInv /\ CoverInv => OneReviewUntilTimeout
  <2> SUFFICES ASSUME TypeInv, CoverInv, NEW u \in Mr, ~overran[u],
                      NEW d \in ActiveOn(u), NEW e \in ActiveOn(u)
               PROVE  d = e /\ Blocked(status[u])
    BY DEF OneReviewUntilTimeout
  <2>1. Covered(u)
    BY DEF CoverInv
  <2>2. Blocked(status[u])
    BY <2>1, CoveredBlocks
  <2>3. QED BY <2>1, <2>2 DEF Covered
<1>2. QED BY <1>1, TypeCorrect, CoverCorrect, PTL

-----------------------------------------------------------------------------
(* The record is honest.  A review records its delivery's commit although  *)
(* it read the diff of the head it found; the invariant therefore follows  *)
(* the commits: only a commit the merge request has had, or the made-up id *)
(* of a comment, is ever recorded, so a new head is not in the record, and *)
(* a review announced for the head at hand has read that head.             *)

Ids(u) == pushed[u] \cup Delivery \cup {None}

Known(u) ==
  /\ head[u] \in pushed[u]
  /\ status[u].last_sha \in Ids(u) /\ disk[u].last_sha \in Ids(u)
  /\ status[u].last_fp \in reviewed[u] \cup {None}
  /\ disk[u].last_fp \in reviewed[u] \cup {None}

HeadDone(u) ==
  ~rewound[u] =>
    /\ status[u].last_sha = head[u] => Content[head[u]] \in reviewed[u]
    /\ disk[u].last_sha = head[u] => Content[head[u]] \in reviewed[u]

ReadsHead(d) ==
  handler[d].pc # "unsent" =>
    /\ handler[d].sha \in pushed[handler[d].mr] \cup Delivery
    /\ /\ ~rewound[handler[d].mr]
       /\ handler[d].sha = head[handler[d].mr]
       /\ task[d].pc \in Fetched
       => task[d].fp = Content[head[handler[d].mr]]

HonestInv == /\ \A u \in Mr : Known(u) /\ HeadDone(u)
             /\ \A d \in Delivery : ReadsHead(d)

\* Whatever keeps the recorded work, the head and the history keeps the record
\* of an entry honest; more reviewed contents do no harm.
LEMMA RecordKept ==
  ASSUME NEW v \in Mr, Known(v), HeadDone(v), WorkKept(v), FileFollows(v),
         head'[v] = head[v], pushed'[v] = pushed[v], rewound'[v] = rewound[v],
         reviewed[v] \subseteq reviewed'[v]
  PROVE  Known(v)' /\ HeadDone(v)'
<1>1. Known(v)'
  BY DEF Known, Ids, WorkKept, FileFollows
<1>2. HeadDone(v)'
  BY DEF HeadDone, WorkKept, FileFollows
<1>3. QED BY <1>1, <1>2

\* A review that ends well, or is skipped as unchanged, records its commit and
\* a content that has been reviewed.
LEMMA RecordMade ==
  ASSUME TypeInv, HonestInv, NEW d \in Delivery, NEW u \in Mr, handler[d].mr = u,
         task[d].pc \in Fetched, FileFollows(u),
         status'[u].last_sha = handler[d].sha, status'[u].last_fp = task[d].fp,
         task[d].fp \in reviewed'[u], reviewed[u] \subseteq reviewed'[u],
         UNCHANGED <<head, pushed, rewound>>
  PROVE  Known(u)' /\ HeadDone(u)'
<1>a. Known(u) /\ HeadDone(u) /\ ReadsHead(d)
  BY DEF HonestInv
<1>s. handler[d].pc # "unsent"
  BY DEF TypeInv, Named, Fetched, Active
<1>1. handler[d].sha \in Ids(u)
  BY <1>a, <1>s DEF ReadsHead, Ids
<1>2. Known(u)'
  BY <1>a, <1>1 DEF Known, Ids, FileFollows
<1>3. ~rewound[u] /\ handler[d].sha = head[u] => Content[head[u]] \in reviewed'[u]
  BY <1>a, <1>s DEF ReadsHead
<1>4. HeadDone(u)'
  BY <1>a, <1>3 DEF HeadDone, FileFollows
<1>5. QED BY <1>2, <1>4

LEMMA HonestStep ==
  ASSUME TypeInv, HonestInv, [Next]_vars
  PROVE  HonestInv'
<1>t. /\ handler \in [Delivery -> HandlerState] /\ task \in [Delivery -> TaskState]
      /\ DispatcherTypeOK
      /\ head \in [Mr -> Rev] /\ pushed \in [Mr -> SUBSET Rev] /\ rewound \in [Mr -> BOOLEAN]
      /\ reviewed \in [Mr -> SUBSET Fingerprint]
      /\ \A d \in Delivery : Named(d)
  BY DEF TypeInv, TypeOK
<1>h. /\ \A u \in Mr : Known(u) /\ HeadDone(u)
      /\ \A d \in Delivery : ReadsHead(d)
  BY DEF HonestInv
<1>1. ASSUME NEW d \in Delivery, NEW u \in Mr, NEW r \in Rev, Push(d, u, r) PROVE HonestInv'
  <2>1. /\ head' = [head EXCEPT ![u] = r]
        /\ pushed' = [pushed EXCEPT ![u] = @ \cup {r}]
        /\ rewound' = [rewound EXCEPT ![u] = @ \/ r \in pushed[u]]
        /\ handler' = [handler EXCEPT ![d] = [pc |-> "received", kind |-> "push",
                                              mr |-> u, sha |-> r]]
        /\ status' = status /\ disk' = disk /\ task' = task /\ reviewed' = reviewed
        /\ handler[d].pc = "unsent"
    BY <1>1 DEF Push, dispatcherVars
  <2>r. r \notin Delivery /\ r # None
    BY WebhookAssumption, DispatcherAssumption
  <2>2. ASSUME NEW v \in Mr PROVE Known(v)' /\ HeadDone(v)'
    <3>1. CASE v # u
      <4>1. head'[v] = head[v] /\ pushed'[v] = pushed[v] /\ rewound'[v] = rewound[v]
        BY <1>t, <2>1, <3>1
      <4>2. QED BY <1>h, <2>1, <4>1, RecordKept DEF WorkKept, FileFollows
    <3>2. CASE v = u
      <4>1. head'[u] = r /\ pushed'[u] = pushed[u] \cup {r}
            /\ (~rewound'[u] => r \notin pushed[u])
        BY <1>t, <2>1
      <4>2. Known(u)'
        BY <1>h, <2>1, <4>1 DEF Known, Ids
      <4>3. HeadDone(u)'
        BY <1>h, <2>1, <2>r, <4>1 DEF HeadDone, Known, Ids
      <4>4. QED BY <3>2, <4>2, <4>3
    <3>3. QED BY <3>1, <3>2
  <2>3. ASSUME NEW e \in Delivery PROVE ReadsHead(e)'
    <3>1. CASE e = d
      <4>1. task'[d].pc \notin Fetched
        BY <1>t, <2>1 DEF Named, Active, Fetched
      <4>2. handler'[d].mr = u /\ handler'[d].sha = r /\ r \in pushed'[u]
        BY <1>t, <2>1
      <4>3. QED BY <3>1, <4>1, <4>2 DEF ReadsHead
    <3>2. CASE e # d
      <4>1. handler'[e] = handler[e] /\ task'[e] = task[e]
        BY <1>t, <2>1, <3>2
      <4>2. handler[e].pc # "unsent" => handler[e].mr \in Mr
        BY <1>t DEF Named
      <4>3. CASE handler[e].mr = u
        <5>1. pushed'[u] = pushed[u] \cup {r} /\ head'[u] = r
              /\ (~rewound'[u] => r \notin pushed[u])
          BY <1>t, <2>1
        <5>2. QED BY <1>h, <2>r, <4>1, <4>3, <5>1 DEF ReadsHead
      <4>4. CASE handler[e].mr # u /\ handler[e].pc # "unsent"
        <5>1. /\ pushed'[handler[e].mr] = pushed[handler[e].mr]
              /\ head'[handler[e].mr] = head[handler[e].mr]
              /\ rewound'[handler[e].mr] = rewound[handler[e].mr]
          BY <1>t, <2>1, <4>2, <4>4
        <5>2. QED BY <1>h, <4>1, <5>1 DEF ReadsHead
      <4>5. QED BY <4>1, <4>3, <4>4 DEF ReadsHead
    <3>3. QED BY <3>1, <3>2
  <2>4. QED BY <2>2, <2>3 DEF HonestInv
<1>2. ASSUME NEW d \in Delivery, NEW u \in Mr, Announce(d, u) \/ Comment(d, u) PROVE HonestInv'
  <2>1. /\ UNCHANGED <<status, disk, task, head, pushed, rewound, reviewed>>
        /\ handler[d].pc = "unsent"
        /\ \E k \in {"push", "note"}, s \in {head[u], d} :
             handler' = [handler EXCEPT ![d] = [pc |-> "received", kind |-> k,
                                                mr |-> u, sha |-> s]]
    BY <1>2 DEF Announce, Comment, dispatcherVars, historyVars
  <2>2. ASSUME NEW v \in Mr PROVE Known(v)' /\ HeadDone(v)'
    BY <1>h, <2>1, RecordKept DEF WorkKept, FileFollows
  <2>3. ASSUME NEW e \in Delivery PROVE ReadsHead(e)'
    <3>1. CASE e = d
      <4>1. task'[d].pc \notin Fetched
        BY <1>t, <2>1 DEF Named, Active, Fetched
      <4>2. handler'[d].mr = u /\ handler'[d].sha \in {head[u], d}
        BY <1>t, <2>1
      <4>3. QED BY <1>h, <2>1, <3>1, <4>1, <4>2 DEF ReadsHead, Known
    <3>2. CASE e # d
      <4>1. handler'[e] = handler[e]
        BY <1>t, <2>1, <3>2
      <4>2. QED BY <1>h, <2>1, <4>1 DEF ReadsHead
    <3>3. QED BY <3>1, <3>2
  <2>4. QED BY <2>2, <2>3 DEF HonestInv
<1>3. ASSUME NEW d \in Delivery, HandlerStep(d) PROVE HonestInv'
  <2>1. /\ handler[d].pc \in {"received", "waiting", "retry"}
        /\ Spawned(d) \/ Answered(d)
        /\ OnlyMarkerOf(handler[d].mr)
        /\ UNCHANGED <<head, pushed, rewound, reviewed>>
    BY <1>3, HandlerEffect DEF historyVars
  <2>2. ASSUME NEW v \in Mr PROVE Known(v)' /\ HeadDone(v)'
    BY <1>h, <2>1, RecordKept DEF OnlyMarkerOf
  <2>3. ASSUME NEW e \in Delivery PROVE ReadsHead(e)'
    <3>1. /\ handler'[e].mr = handler[e].mr /\ handler'[e].sha = handler[e].sha
          /\ handler'[e].pc # "unsent" => handler[e].pc # "unsent"
      BY <1>t, <2>1 DEF Spawned, Answered, Moved, HandlerState
    <3>2. task'[e].pc \in Fetched => task'[e] = task[e]
      BY <1>t, <2>1 DEF Spawned, Answered, Fetched
    <3>3. QED BY <1>h, <2>1, <3>1, <3>2 DEF ReadsHead
  <2>4. QED BY <2>2, <2>3 DEF HonestInv
<1>4. ASSUME NEW d \in Delivery, TaskStep(d) PROVE HonestInv'
  <2> DEFINE u == handler[d].mr
  <2>1. /\ u \in Mr /\ task[d].pc \in Active
        /\ task[d].pc \in Fetched => task[d].fp \in Fingerprint
        /\ UNCHANGED <<handler, head, pushed, rewound>>
    BY <1>4, TaskEffect
  <2>2. \A e \in Delivery \ {d} : task'[e] = task[e]
    BY <1>4, <1>t, TaskNext
  <2>3. ASSUME NEW e \in Delivery PROVE ReadsHead(e)'
    <3>1. CASE e # d
      BY <1>h, <2>1, <2>2, <3>1 DEF ReadsHead
    <3>2. CASE e = d
      <4>1. CASE FetchDiff(d)
        <5>1. task'[d].fp = Content[head[u]]
          BY <1>t, <4>1 DEF FetchDiff, TaskState
        <5>2. QED BY <1>h, <2>1, <3>2, <5>1 DEF ReadsHead
      <4>2. CASE GateReview(d) \/ Publish(d)
        <5>1. task'[d].fp = task[d].fp /\ task[d].pc \in Fetched
          BY <1>t, <4>2 DEF GateReview, Publish, TaskAt, TaskState, Fetched
        <5>2. QED BY <1>h, <2>1, <3>2, <5>1 DEF ReadsHead
      <4>3. CASE FetchFails(d) \/ GateSkip(d) \/ ReviewFails(d) \/ FinishReview(d) \/ TaskAborts(d)
        <5>1. task'[d].pc \notin Fetched
          BY <1>t, <4>3 DEF FetchFails, GateSkip, ReviewFails, FinishReview, TaskAborts,
                            TaskEnds, Fetched
        <5>2. QED BY <1>h, <2>1, <3>2, <5>1 DEF ReadsHead
      <4>4. QED BY <1>4, <4>1, <4>2, <4>3 DEF TaskStep
    <3>3. QED BY <3>1, <3>2
  <2>4. ASSUME NEW v \in Mr PROVE Known(v)' /\ HeadDone(v)'
    <3>1. CASE FetchDiff(d) \/ Publish(d) \/ TaskAborts(d)
      <4>1. status' = status /\ disk' = disk /\ reviewed' = reviewed
        BY <3>1 DEF FetchDiff, Publish, TaskAborts, dispatcherVars, historyVars
      <4>2. QED BY <1>h, <2>1, <4>1, RecordKept DEF WorkKept, FileFollows
    <3>2. CASE FetchFails(d) \/ ReviewFails(d)
      <4>1. Reset(u) /\ reviewed' = reviewed
        BY <3>2 DEF FetchFails, ReviewFails, historyVars
      <4>2. QED BY <1>h, <1>t, <2>1, <4>1, RecordKept, ResetEffect
    <3>3. CASE GateReview(d)
      <4>1. task[d].fp \in Fingerprint
        BY <2>1, <3>3 DEF GateReview, TaskAt, Fetched
      <4>2. WorkKept(v) /\ FileFollows(v) /\ reviewed' = reviewed
        BY <1>t, <2>1, <3>3, <4>1, ClaimReviewEffect
        DEF GateReview, WorkKept, FileFollows, dispatcherVars, historyVars
      <4>3. QED BY <1>h, <2>1, <4>2, RecordKept
    <3>4. CASE GateSkip(d)
      <4>1. /\ ClaimContent(u, handler[d].sha, task[d].fp, "Skip")
            /\ task[d].pc \in Fetched /\ reviewed' = reviewed
        BY <3>4 DEF GateSkip, TaskEnds, Fetched, historyVars
      <4>2. /\ FileFollows(v) /\ FileFollows(u)
            /\ v # u => status'[v] = status[v]
            /\ status'[u].last_fp = status[u].last_fp
            /\ status'[u].last_sha = handler[d].sha /\ status[u].last_fp = task[d].fp
        BY <1>t, <2>1, <4>1, ClaimSkipEffect
      <4>3. task[d].fp \in reviewed[u]
        BY <1>h, <2>1, <4>1, <4>2, DispatcherAssumption DEF Known
      <4>4. CASE v = u
        BY <2>1, <4>1, <4>2, <4>3, <4>4, RecordMade
      <4>5. CASE v # u
        BY <1>h, <2>1, <4>1, <4>2, <4>5, RecordKept DEF WorkKept
      <4>6. QED BY <4>4, <4>5
    <3>5. CASE FinishReview(d)
      <4>1. /\ Complete(u, handler[d].sha, task[d].fp)
            /\ task[d].pc \in Fetched /\ task[d].fp \in Fingerprint
            /\ reviewed' = [reviewed EXCEPT ![u] = @ \cup {task[d].fp}]
        BY <2>1, <3>5 DEF FinishReview, TaskEnds, Fetched
      <4>2. /\ FileFollows(v) /\ FileFollows(u)
            /\ v # u => status'[v] = status[v]
            /\ status[u].known => status'[u].last_sha = handler[d].sha
                                  /\ status'[u].last_fp = task[d].fp
            /\ ~status[u].known => status' = status
        BY <1>t, <2>1, <4>1, CompleteEffect
      <4>3. reviewed[v] \subseteq reviewed'[v] /\ reviewed[u] \subseteq reviewed'[u]
            /\ task[d].fp \in reviewed'[u]
        BY <1>t, <2>1, <4>1
      <4>4. CASE v = u /\ status[u].known
        BY <2>1, <4>1, <4>2, <4>3, <4>4, RecordMade
      <4>5. CASE v # u \/ ~status[u].known
        BY <1>h, <2>1, <4>2, <4>3, <4>5, RecordKept DEF WorkKept
      <4>6. QED BY <4>4, <4>5
    <3>6. QED BY <1>4, <3>1, <3>2, <3>3, <3>4, <3>5 DEF TaskStep
  <2>5. QED BY <2>3, <2>4 DEF HonestInv
<1>5. CASE Tick
  <2>1. /\ UNCHANGED <<handler, head, pushed, rewound, reviewed>>
        /\ \A e \in Delivery : task'[e].pc = task[e].pc /\ task'[e].fp = task[e].fp
    BY <1>5, <1>t, OlderTaskType DEF Tick
  <2>2. ASSUME NEW v \in Mr PROVE Known(v)' /\ HeadDone(v)'
    BY <1>5, <1>h, <1>t, <2>1, RecordKept, TickEffect DEF Tick
  <2>3. ASSUME NEW e \in Delivery PROVE ReadsHead(e)'
    BY <1>h, <2>1 DEF ReadsHead
  <2>4. QED BY <2>2, <2>3 DEF HonestInv
<1>6. CASE Restart
  <2>1. /\ UNCHANGED <<head, pushed, rewound, reviewed>>
        /\ \A e \in Delivery : task'[e].pc \notin Fetched
        /\ \A e \in Delivery : /\ handler'[e].mr = handler[e].mr
                               /\ handler'[e].sha = handler[e].sha
                               /\ handler'[e].pc # "unsent" => handler[e].pc # "unsent"
    BY <1>6, <1>t DEF Restart, Fetched, Active, HandlerState
  <2>2. ASSUME NEW v \in Mr PROVE Known(v)' /\ HeadDone(v)'
    <3>1. /\ disk' = disk /\ status'[v].last_sha = disk[v].last_sha
          /\ status'[v].last_fp = disk[v].last_fp
      BY <1>6, RestartEffect DEF Restart
    <3>2. Known(v)'
      BY <1>h, <2>1, <3>1 DEF Known, Ids
    <3>3. HeadDone(v)'
      BY <1>h, <2>1, <3>1 DEF HeadDone
    <3>4. QED BY <3>2, <3>3
  <2>3. ASSUME NEW e \in Delivery PROVE ReadsHead(e)'
    BY <1>h, <2>1 DEF ReadsHead
  <2>4. QED BY <2>2, <2>3 DEF HonestInv
<1>7. CASE UNCHANGED vars
  BY <1>7, <1>h DEF vars, historyVars, dispatcherVars, HonestInv, Known, Ids, HeadDone, ReadsHead
<1>8. QED BY <1>1, <1>2, <1>3, <1>4, <1>5, <1>6, <1>7 DEF Next, EnvironmentStep

LEMMA HonestInit == Init => HonestInv
<1> SUFFICES ASSUME Init PROVE HonestInv
  OBVIOUS
<1>1. ASSUME NEW u \in Mr PROVE Known(u) /\ HeadDone(u)
  <2>1. /\ status[u].last_sha = None /\ status[u].last_fp = None
        /\ disk[u].last_sha = None /\ disk[u].last_fp = None
        /\ head[u] \in Rev /\ pushed[u] = {head[u]} /\ reviewed[u] = {}
    BY DEF Init, DispatcherInit, NoEntry, NoFile
  <2>2. head[u] # None
    BY <2>1, WebhookAssumption, DispatcherAssumption
  <2>3. QED BY <2>1, <2>2 DEF Known, Ids, HeadDone
<1>2. ASSUME NEW d \in Delivery PROVE ReadsHead(d)
  BY DEF Init, NoHandler, ReadsHead
<1>3. QED BY <1>1, <1>2 DEF HonestInv

LEMMA HonestCorrect == Spec => []HonestInv
<1>1. TypeInv /\ HonestInv /\ [Next]_vars => HonestInv'
  BY HonestStep
<1>2. QED BY HonestInit, <1>1, TypeCorrect, PTL DEF Spec

\* What skip_reason answers from is true: a recorded fingerprint was covered
\* by a finished review, and if the recorded commit is the head, the head's
\* content was, whether or not writes of the state file succeed.
THEOREM HonestRecord == Spec => []RecordIsHonest
<1>1. TypeInv /\ HonestInv => RecordIsHonest
  BY DEF TypeInv, HonestInv, Known, HeadDone, RecordIsHonest, RecordedWasReviewed,
         HeadRecordedMeansReviewed
<1>2. QED BY <1>1, TypeCorrect, HonestCorrect, PTL

-----------------------------------------------------------------------------
(* No round is posted twice.  While one review at a time holds the entry,  *)
(* what is on the merge request is what the table records, except between  *)
(* a review's post and its `complete`.                                     *)

RoundRecorded(u) ==
  ~WriteFailures /\ ~overran[u] /\ ~unrecorded[u] =>
    /\ (\A d \in ActiveOn(u) : task[d].pc # "published")
         => posted[u] \in {None, status[u].last_fp}
    /\ \A d \in ActiveOn(u) :
         /\ task[d].pc = "published" => posted[u] \in {None, task[d].fp}
         /\ task[d].pc = "review" /\ handler[d].kind = "push"
              => task[d].fp # status[u].last_fp

RoundInv == \A u \in Mr : RoundRecorded(u)

\* A step that leaves the reviews of a merge request, its record and its
\* history alone leaves the relation between them alone.
LEMMA RoundKept ==
  ASSUME NEW v \in Mr, RoundRecorded(v), ActiveOn(v)' = ActiveOn(v),
         \A e \in ActiveOn(v) : /\ task'[e].pc = task[e].pc /\ task'[e].fp = task[e].fp
                                /\ handler'[e].kind = handler[e].kind,
         status'[v].last_fp = status[v].last_fp, posted'[v] = posted[v],
         overran'[v] = FALSE => overran[v] = FALSE,
         unrecorded'[v] = FALSE => unrecorded[v] = FALSE,
         ~overran'[v] => overran'[v] = FALSE, ~unrecorded'[v] => unrecorded'[v] = FALSE
  PROVE  RoundRecorded(v)'
  BY DEF RoundRecorded

LEMMA RoundStep ==
  ASSUME Timeout # 0, TypeInv, TypeInv', CoverInv, RunningIsKnown, RecoveryLosesNothing,
         RoundInv, [Next]_vars
  PROVE  RoundInv'
<1> SUFFICES ASSUME NEW v \in Mr, ~WriteFailures, ~overran'[v], ~unrecorded'[v]
             PROVE  RoundRecorded(v)'
  BY DEF RoundInv, RoundRecorded
<1>a. Covered(v) /\ RoundRecorded(v)
  BY DEF CoverInv, RoundInv
<1>t. /\ handler \in [Delivery -> HandlerState] /\ task \in [Delivery -> TaskState]
      /\ DispatcherTypeOK
      /\ posted \in [Mr -> Fingerprint \cup {None}]
      /\ overran \in [Mr -> BOOLEAN] /\ unrecorded \in [Mr -> BOOLEAN]
      /\ overran' \in [Mr -> BOOLEAN] /\ unrecorded' \in [Mr -> BOOLEAN]
      /\ \A d \in Delivery : Named(d)
  BY DEF TypeInv, TypeOK
<1>f. (~overran'[v] => overran'[v] = FALSE) /\ (~unrecorded'[v] => unrecorded'[v] = FALSE)
  BY <1>t
<1>1. ASSUME NEW d \in Delivery, EnvironmentStep(d) PROVE RoundRecorded(v)'
  <2>1. Arrives(d)
    BY <1>1, EnvironmentEffect
  <2>2. task[d].pc \notin Active
    BY <1>t, <2>1 DEF Arrives, Named
  <2>3. \A e \in Delivery \ {d} : handler'[e] = handler[e]
    BY <1>t, <2>1 DEF Arrives
  <2>4. ActiveOn(v)' = ActiveOn(v) /\ d \notin ActiveOn(v)
    BY <2>1, <2>2, <2>3 DEF Arrives, ActiveOn
  <2>5. \A e \in ActiveOn(v) : handler'[e] = handler[e] /\ task'[e] = task[e]
    BY <2>1, <2>3, <2>4 DEF ActiveOn, Arrives
  <2>6. UNCHANGED <<status, posted, overran, unrecorded>>
    BY <2>1 DEF Arrives, dispatcherVars
  <2>7. QED BY <1>a, <1>f, <2>4, <2>5, <2>6, RoundKept
<1>2. ASSUME NEW d \in Delivery, HandlerStep(d) PROVE RoundRecorded(v)'
  <2> DEFINE u == handler[d].mr
  <2>1. /\ u \in Mr /\ handler[d].pc \in {"received", "waiting", "retry"}
        /\ Spawned(d) \/ Answered(d)
        /\ OnlyMarkerOf(u) /\ overran' = overran /\ unrecorded' = unrecorded /\ posted' = posted
    BY <1>2, HandlerEffect DEF historyVars
  <2>2. task[d].pc \notin Active
    BY <1>t, <2>1 DEF Named
  <2>3. \A e \in Delivery : handler'[e].mr = handler[e].mr /\ handler'[e].kind = handler[e].kind
    BY <1>t, <2>1 DEF Spawned, Answered, Moved, HandlerState
  <2>4. status'[v].last_fp = status[v].last_fp
    BY <2>1 DEF OnlyMarkerOf, WorkKept
  <2>5. CASE Answered(d)
    <3>1. ActiveOn(v)' = ActiveOn(v) /\ task' = task /\ ActiveOn(v) \subseteq Delivery
      BY <2>3, <2>5 DEF Answered, ActiveOn
    <3>2. QED BY <1>a, <1>f, <2>1, <2>3, <2>4, <3>1, RoundKept
  <2>6. CASE Spawned(d)
    <3>1. /\ \A e \in Delivery \ {d} : task'[e] = task[e]
          /\ task'[d].pc = "fetch"
          /\ ~Blocked(status[u])
      BY <1>t, <2>6 DEF Spawned
    <3>2. CASE v # u
      <4>1. d \notin ActiveOn(v)' /\ d \notin ActiveOn(v)
        BY <2>2, <2>3, <3>2 DEF ActiveOn
      <4>2. /\ ActiveOn(v)' = ActiveOn(v) /\ ActiveOn(v) \subseteq Delivery
            /\ \A e \in ActiveOn(v) : task'[e] = task[e]
        BY <2>3, <3>1, <4>1 DEF ActiveOn
      <4>3. QED BY <1>a, <1>f, <2>1, <2>3, <2>4, <4>2, RoundKept
    <3>3. CASE v = u
      <4>1. ActiveOn(v) = {}
        BY <1>a, <2>1, <3>1, <3>3, CoveredBlocks
      <4>2. ActiveOn(v)' \subseteq {d}
        BY <2>3, <3>1, <4>1 DEF ActiveOn
      <4>3. posted[v] \in {None, status[v].last_fp}
        BY <1>a, <2>1, <4>1 DEF RoundRecorded
      <4>4. QED BY <2>1, <2>4, <3>1, <4>2, <4>3 DEF RoundRecorded
    <3>4. QED BY <3>2, <3>3
  <2>7. QED BY <2>1, <2>5, <2>6
<1>3. ASSUME NEW d \in Delivery, TaskStep(d) PROVE RoundRecorded(v)'
  <2> DEFINE u == handler[d].mr
  <2>1. /\ u \in Mr /\ task[d].pc \in Active /\ handler' = handler /\ overran' = overran
        /\ task[d].pc \in Fetched => task[d].fp \in Fingerprint
    BY <1>3, TaskEffect
  <2>2. \A e \in Delivery \ {d} : task'[e] = task[e]
    BY <1>3, <1>t, TaskNext
  <2>3. d \in ActiveOn(u)
    BY <2>1 DEF ActiveOn
  <2>4. CASE v # u
    <3>1. d \notin ActiveOn(v)' /\ d \notin ActiveOn(v)
      BY <2>1, <2>4 DEF ActiveOn
    <3>2. ActiveOn(v)' = ActiveOn(v) /\ \A e \in ActiveOn(v) : task'[e] = task[e]
      BY <2>1, <2>2, <3>1 DEF ActiveOn
    <3>3. /\ status'[v].last_fp = status[v].last_fp
          /\ posted'[v] = posted[v] /\ unrecorded'[v] = unrecorded[v]
      <4>1. CASE FetchDiff(d) \/ Publish(d) \/ TaskAborts(d)
        BY <1>t, <2>1, <2>4, <4>1
        DEF FetchDiff, Publish, TaskAborts, dispatcherVars, historyVars
      <4>2. CASE FetchFails(d) \/ ReviewFails(d)
        <5>1. Reset(u) /\ posted' = posted /\ unrecorded' = unrecorded
          BY <4>2 DEF FetchFails, ReviewFails, historyVars
        <5>2. QED BY <1>t, <2>1, <5>1, ResetEffect DEF WorkKept
      <4>3. CASE GateReview(d)
        <5>1. task[d].fp \in Fingerprint /\ posted' = posted /\ unrecorded' = unrecorded
          BY <2>1, <4>3 DEF GateReview, TaskAt, Fetched, historyVars
        <5>2. QED
          BY <1>t, <2>1, <4>3, <5>1, ClaimReviewEffect DEF GateReview, dispatcherVars, WorkKept
      <4>4. CASE GateSkip(d)
        <5>1. posted' = posted /\ unrecorded' = unrecorded
          BY <4>4 DEF GateSkip, historyVars
        <5>2. QED BY <1>t, <2>1, <4>4, <5>1, ClaimSkipEffect DEF GateSkip
      <4>5. CASE FinishReview(d)
        <5>1. task[d].fp \in Fingerprint /\ posted' = posted /\ unrecorded' = unrecorded
          BY <2>1, <4>5 DEF FinishReview, TaskEnds, Fetched
        <5>2. QED BY <1>t, <2>1, <2>4, <4>5, <5>1, CompleteEffect DEF FinishReview
      <4>6. QED BY <1>3, <4>1, <4>2, <4>3, <4>4, <4>5 DEF TaskStep
    <3>4. QED BY <1>a, <1>f, <2>1, <3>2, <3>3, RoundKept
  <2>5. CASE v = u
    <3>1. ActiveOn(v) = {d} /\ status[v].running = task[d].age /\ task[d].age < Timeout
      BY <1>a, <2>1, <2>3, <2>5 DEF Covered
    <3>2. ActiveOn(v)' \subseteq {d}
      BY <2>1, <2>2, <3>1 DEF ActiveOn
    <3>u. ~unrecorded[v]
      <4>1. CASE TaskAborts(d)
        BY <1>t, <2>5, <4>1 DEF TaskAborts
      <4>2. CASE ~TaskAborts(d)
        BY <1>3, <4>2 DEF TaskStep, FetchDiff, FetchFails, GateReview, GateSkip, ReviewFails,
                          Publish, FinishReview, historyVars
      <4>3. QED BY <4>1, <4>2
    <3>r. /\ task[d].pc # "published" => posted[v] \in {None, status[v].last_fp}
          /\ task[d].pc = "published" => posted[v] \in {None, task[d].fp}
      BY <1>a, <2>1, <3>1, <3>u DEF RoundRecorded
    <3>3. CASE FetchDiff(d)
      <4>1. /\ task[d].pc = "fetch" /\ task'[d].pc = "gate"
            /\ status' = status /\ posted' = posted
        BY <1>t, <3>3 DEF FetchDiff, dispatcherVars, historyVars, TaskState
      <4>2. QED BY <3>2, <3>r, <4>1 DEF RoundRecorded
    <3>4. CASE GateReview(d)
      <4>1. /\ task[d].pc = "gate" /\ task'[d].pc = "review" /\ task'[d].fp = task[d].fp
            /\ task[d].fp \in Fingerprint /\ posted' = posted
        BY <1>t, <2>1, <3>4 DEF GateReview, TaskAt, Fetched, historyVars, TaskState
      <4>2. status'[v].last_fp = status[v].last_fp
        BY <1>t, <2>1, <3>4, <4>1, ClaimReviewEffect DEF GateReview, dispatcherVars, WorkKept
      <4>3. handler[d].kind = "push" => task[d].fp # status[v].last_fp
        BY <1>t, <2>1, <2>5, <3>4, <4>1, ClaimReviewEffect DEF GateReview
      <4>4. QED BY <2>1, <3>2, <3>r, <4>1, <4>2, <4>3 DEF RoundRecorded
    <3>5. CASE Publish(d)
      <4>1. /\ task'[d].pc = "published" /\ task'[d].fp = task[d].fp
            /\ posted'[v] \in {None, task[d].fp}
        BY <1>t, <2>5, <3>5 DEF Publish, TaskAt, TaskState
      <4>2. d \in ActiveOn(v)'
        BY <2>1, <2>5, <4>1 DEF ActiveOn, Active
      <4>3. QED BY <3>2, <4>1, <4>2 DEF RoundRecorded
    <3>6. CASE FetchFails(d) \/ GateSkip(d) \/ ReviewFails(d) \/ FinishReview(d) \/ TaskAborts(d)
      <4>1. task'[d].pc \notin Active
        BY <1>t, <3>6 DEF FetchFails, GateSkip, ReviewFails, FinishReview, TaskAborts,
                          TaskEnds, Active
      <4>2. ActiveOn(v)' = {}
        BY <3>2, <4>1 DEF ActiveOn
      <4>3. posted'[v] \in {None, status'[v].last_fp}
        <5>1. CASE FetchFails(d) \/ ReviewFails(d)
          <6>1. Reset(u) /\ posted' = posted /\ task[d].pc # "published"
            BY <5>1 DEF FetchFails, ReviewFails, TaskEnds, historyVars
          <6>2. QED BY <1>t, <2>1, <3>r, <6>1, ResetEffect DEF WorkKept
        <5>2. CASE GateSkip(d)
          <6>1. posted' = posted /\ task[d].pc # "published"
            BY <5>2 DEF GateSkip, TaskEnds, historyVars
          <6>2. status'[v].last_fp = status[v].last_fp
            BY <1>t, <2>1, <5>2, ClaimSkipEffect DEF GateSkip
          <6>3. QED BY <3>r, <6>1, <6>2
        <5>3. CASE FinishReview(d)
          <6>1. task[d].pc = "published" /\ task[d].fp \in Fingerprint /\ posted' = posted
            BY <2>1, <5>3 DEF FinishReview, TaskEnds, Fetched
          <6>2. status[v].running # Idle
            BY <1>t, <3>1 DEF Idle, TaskState
          <6>3. status[u].known
            BY <2>5, <6>2 DEF RunningIsKnown
          <6>4. status'[v].last_fp = task[d].fp
            BY <1>t, <2>1, <2>5, <5>3, <6>1, <6>3, CompleteEffect DEF FinishReview
          <6>5. QED BY <3>r, <6>1, <6>4
        <5>4. CASE TaskAborts(d)
          <6>1. status' = status /\ posted' = posted
            BY <5>4 DEF TaskAborts, dispatcherVars
          <6>2. task[d].pc # "published"
            BY <1>t, <2>5, <5>4 DEF TaskAborts
          <6>3. QED BY <3>r, <6>1, <6>2
        <5>5. QED BY <3>6, <5>1, <5>2, <5>3, <5>4
      <4>4. QED BY <4>2, <4>3 DEF RoundRecorded
    <3>7. QED BY <1>3, <3>3, <3>4, <3>5, <3>6 DEF TaskStep
  <2>6. QED BY <2>4, <2>5
<1>4. CASE Tick
  <2>1. /\ handler' = handler /\ posted' = posted /\ unrecorded' = unrecorded
        /\ \A e \in Delivery : task'[e].pc = task[e].pc /\ task'[e].fp = task[e].fp
    BY <1>4, <1>t, OlderTaskType DEF Tick
  <2>2. ActiveOn(v)' = ActiveOn(v) /\ ActiveOn(v) \subseteq Delivery
    BY <2>1 DEF ActiveOn
  <2>3. ~overran[v] /\ status'[v].last_fp = status[v].last_fp
    BY <1>4, <1>t, TickEffect DEF Tick, WorkKept
  <2>4. QED BY <1>a, <1>f, <1>t, <2>1, <2>2, <2>3, RoundKept
<1>5. CASE Restart
  <2>1. ActiveOn(v)' = {}
    BY <1>5 DEF Restart, ActiveOn, Active
  <2>2. /\ posted' = posted /\ ~overran[v] /\ ~unrecorded[v]
        /\ \A d \in ActiveOn(v) : task[d].pc # "published"
    BY <1>5 DEF Restart
  <2>3. posted[v] \in {None, status[v].last_fp}
    BY <1>a, <2>2 DEF RoundRecorded
  <2>4. status'[v].last_fp = status[v].last_fp
    BY <1>5, RestartEffect DEF Restart, RecoveryLosesNothing
  <2>5. QED BY <2>1, <2>2, <2>3, <2>4 DEF RoundRecorded
<1>6. CASE UNCHANGED vars
  BY <1>a, <1>6 DEF vars, historyVars, dispatcherVars, RoundRecorded, ActiveOn
<1>7. QED BY <1>1, <1>2, <1>3, <1>4, <1>5, <1>6 DEF Next

LEMMA RoundInit == Init => RoundInv
  BY DEF Init, NoTask, RoundInv, RoundRecorded, ActiveOn, Active

LEMMA RoundCorrect == ASSUME Timeout # 0 PROVE Spec => []RoundInv
<1>1. TypeInv /\ TypeInv' /\ CoverInv /\ SleeperInv /\ RecoveryLosesNothing /\ RoundInv
        /\ [Next]_vars => RoundInv'
  BY RoundStep DEF SleeperInv
<1>2. QED
  BY RoundInit, <1>1, TypeCorrect, CoverCorrect, ImplementsDispatcher, SleeperCorrect,
     RecoveryCorrect, PTL DEF Spec

\* The content gate works across the whole life of a merge request: as long
\* as writes of the state file succeed, a push posts no round that is already
\* there, whatever amends, comments, failures and restarts come in between,
\* until a review outlives the timeout or dies between post and record.
THEOREM NoRoundTwice == ASSUME Timeout # 0 PROVE Spec => NoRepeatedRound
<1> DEFINE PostsNewRound ==
      \A d \in Delivery :
        LET u == handler[d].mr IN
        /\ task[d].pc = "review" /\ task'[d].pc = "published"
        /\ handler[d].kind = "push"
        /\ ~WriteFailures /\ ~overran[u] /\ ~unrecorded[u]
        => task[d].fp # posted[u]
<1>1. TypeInv /\ CoverInv /\ RoundInv => PostsNewRound
  <2> SUFFICES ASSUME TypeInv, CoverInv, RoundInv, NEW d \in Delivery,
                      task[d].pc = "review", handler[d].kind = "push",
                      ~WriteFailures, ~overran[handler[d].mr], ~unrecorded[handler[d].mr]
               PROVE  task[d].fp # posted[handler[d].mr]
    OBVIOUS
  <2> DEFINE u == handler[d].mr
  <2>1. u \in Mr /\ task[d].fp \in Fingerprint /\ d \in ActiveOn(u)
    BY DEF TypeInv, TypeOK, Named, Active, Fetched, ActiveOn
  <2>2. ActiveOn(u) = {d}
    BY <2>1 DEF CoverInv, Covered
  <2>3. posted[u] \in {None, status[u].last_fp} /\ task[d].fp # status[u].last_fp
    BY <2>1, <2>2 DEF RoundInv, RoundRecorded
  <2>4. QED BY <2>1, <2>3, DispatcherAssumption
<1>2. Spec => [][PostsNewRound]_vars
  BY <1>1, TypeCorrect, CoverCorrect, RoundCorrect, PTL
<1>3. QED BY <1>2 DEF NoRepeatedRound
=============================================================================
