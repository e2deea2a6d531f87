---------------------------- MODULE MrDispatcher ----------------------------
(***************************************************************************)
(* The webhook de-duplication table of server/dispatcher.rs: one entry per *)
(* merge request, kept in memory under a mutex and mirrored, best effort,  *)
(* to a JSON file.  Every method of the Rust type holds the mutex from its *)
(* first line to its last, so every method is one action; `wait` takes the *)
(* mutex only to look its receiver up, checks the receiver after it gave   *)
(* the mutex back, and then listens: three steps, with any method between. *)
(*                                                                         *)
(* Time is relative: a running marker is represented by its age (the code  *)
(* keeps the instant and subtracts), saturating at Timeout, because        *)
(* `is_expired` can tell apart no two ages beyond it.                      *)
(***************************************************************************)
EXTENDS Integers

CONSTANTS
  Mr,             \* merge-request URLs, the keys of the table
  Sha,            \* commit ids (and the ids made up for /review comments)
  Fingerprint,    \* digests of diffs
  Waiter,         \* callers of wait()
  None,           \* Option::None
  Timeout,        \* REVIEW_DISPATCH_TIMEOUT_SECS, in ticks
  WriteFailures   \* whether a write of the state file may fail

ASSUME DispatcherAssumption ==
  /\ Timeout \in Nat
  /\ WriteFailures \in BOOLEAN
  /\ None \notin Sha /\ None \notin Fingerprint

VARIABLES
  status,   \* MrDispatcher::inner, the in-memory table
  disk,     \* the JSON state file
  waiter    \* the callers inside wait()

dispatcherVars == <<status, disk, waiter>>

Idle == -1                       \* running_since = None
Marker == Idle .. Timeout        \* age of running_since, or Idle

MrStatus == [known      : BOOLEAN,              \* the key is in the table
             running    : Marker,
             last_sha   : Sha \cup {None},
             last_fp    : Fingerprint \cup {None},
             signal     : BOOLEAN]              \* value of the watch channel

PersistedEntry == [known    : BOOLEAN,
                   running  : Marker,
                   last_sha : Sha \cup {None},
                   last_fp  : Fingerprint \cup {None}]

\* What a receiver has seen coming: nothing yet, a send, or the end of its channel.
News == {"no", "sent", "closed"}

WaiterState == [pc   : {"idle", "subscribed", "listening"},
                mr   : Mr \cup {None},
                left : 0 .. Timeout,            \* time to the end of the wait
                told : News]

DispatcherTypeOK ==
  /\ status \in [Mr -> MrStatus]
  /\ disk \in [Mr -> PersistedEntry]
  /\ waiter \in [Waiter -> WaiterState]

NoEntry == [known |-> FALSE, running |-> Idle, last_sha |-> None,
            last_fp |-> None, signal |-> FALSE]

NotWaiting == [pc |-> "idle", mr |-> None, left |-> 0, told |-> "no"]

NoFile == [u \in Mr |-> [known |-> FALSE, running |-> Idle,
                         last_sha |-> None, last_fp |-> None]]

DispatcherInit ==
  /\ status = [u \in Mr |-> NoEntry]
  /\ disk = NoFile
  /\ waiter = [w \in Waiter |-> NotWaiting]

-----------------------------------------------------------------------------
IsExpired(age) == age >= Timeout

Blocked(e) == e.running # Idle /\ ~IsExpired(e.running)

\* The file a successful write leaves behind: the whole table, without the
\* watch channels.
Snapshot(table) ==
  [u \in Mr |-> [known |-> table[u].known, running |-> table[u].running,
                 last_sha |-> table[u].last_sha, last_fp |-> table[u].last_fp]]

\* Temp file and rename: the file is the old one or the new one, never a part.
PersistLocked ==
  \/ disk' = Snapshot(status')
  \/ WriteFailures /\ disk' = disk

\* Everyone who holds a receiver of the entry gets the news.
Tell(u, news) ==
  waiter' = [w \in Waiter |->
               IF waiter[w].pc # "idle" /\ waiter[w].mr = u /\ waiter[w].told = "no"
               THEN [waiter[w] EXCEPT !.told = news]
               ELSE waiter[w]]

\* signal_tx.send(true).
Notify(u) == Tell(u, "sent")

\* Fault: the running marker is not looked at.
TryStartIgnoresMarker(e, sha) == IF e.last_sha = sha THEN "AlreadyReviewed" ELSE "Go"

TryStartOutcome(e, sha) ==
  IF Blocked(e) THEN "InProgress"
  ELSE IF e.last_sha = sha THEN "AlreadyReviewed" ELSE "Go"

\* An expired marker is dropped on the way to AlreadyReviewed, in memory only.
TryStart(u, sha, outcome) ==
  /\ outcome = TryStartOutcome(status[u], sha)
  /\ \/ /\ outcome = "InProgress"
        /\ UNCHANGED <<status, disk>>
     \/ /\ outcome = "AlreadyReviewed"
        /\ status' = [status EXCEPT ![u] = [@ EXCEPT !.running = Idle]]
        /\ UNCHANGED disk
     \/ /\ outcome = "Go"
        /\ status' = [status EXCEPT ![u] = [@ EXCEPT !.known = TRUE, !.running = 0]]
        /\ PersistLocked
  /\ UNCHANGED waiter

\* Fault: the content gate never skips.
DecideContentAlwaysReviews(last_fp, fp) == "Review"

DecideContent(last_fp, fp) == IF last_fp # None /\ last_fp = fp
                              THEN "Skip" ELSE "Review"

\* Fault: the fingerprint is recorded when the review begins.
ClaimContentRecordsEarly(u, sha, fp, decision) ==
  /\ decision = DecideContent(status[u].last_fp, fp)
  /\ status' = [status EXCEPT ![u] =
                 [@ EXCEPT !.known = TRUE, !.last_fp = fp,
                           !.running = IF decision = "Skip" THEN Idle ELSE status[u].running]]
  /\ PersistLocked
  /\ Notify(u)

ClaimContent(u, sha, fp, decision) ==
  /\ decision = DecideContent(status[u].last_fp, fp)
  /\ \/ /\ decision = "Skip"
        /\ status' = [status EXCEPT ![u] =
                       [@ EXCEPT !.known = TRUE, !.running = Idle,
                                 !.last_sha = sha, !.signal = TRUE]]
        /\ PersistLocked
        /\ Notify(u)
     \/ /\ decision = "Review"
        /\ status' = [status EXCEPT ![u] = [@ EXCEPT !.known = TRUE]]
        /\ UNCHANGED <<disk, waiter>>

\* Fault: a finished review clears its marker and does not send.
CompleteTellsNobody(u, sha, fp) ==
  /\ status[u].known
  /\ status' = [status EXCEPT ![u] =
                  [@ EXCEPT !.running = Idle, !.last_sha = sha,
                            !.last_fp = IF fp = None THEN status[u].last_fp ELSE fp]]
  /\ PersistLocked
  /\ UNCHANGED waiter

\* fp = None leaves the recorded fingerprint alone; an unknown key is ignored.
Complete(u, sha, fp) ==
  \/ /\ status[u].known
     /\ status' = [status EXCEPT ![u] =
                     [@ EXCEPT !.running = Idle, !.last_sha = sha,
                               !.last_fp = IF fp = None THEN status[u].last_fp ELSE fp,
                               !.signal = TRUE]]
     /\ PersistLocked
     /\ Notify(u)
  \/ ~status[u].known /\ UNCHANGED dispatcherVars

\* Fault: the marker is cleared in memory and left in the file.
ResetForgetsToSave(u) ==
  /\ status' = [status EXCEPT ![u] = [@ EXCEPT !.running = Idle, !.signal = TRUE]]
  /\ UNCHANGED disk
  /\ Notify(u)

Reset(u) ==
  \/ /\ status[u].known
     /\ status' = [status EXCEPT ![u] = [@ EXCEPT !.running = Idle, !.signal = TRUE]]
     /\ PersistLocked
     /\ Notify(u)
  \/ ~status[u].known /\ UNCHANGED dispatcherVars

\* Dropping the entry drops its watch sender, which ends every wait on it.
Remove(u) ==
  /\ status[u].known
  /\ status' = [status EXCEPT ![u] = NoEntry]
  /\ PersistLocked
  /\ Tell(u, "closed")

-----------------------------------------------------------------------------
\* wait() looks the entry up under the mutex: without a running review there
\* is nothing to wait for.
WaitReturnsAtOnce(w, u) ==
  /\ waiter[w].pc = "idle"
  /\ status[u].running = Idle
  /\ UNCHANGED dispatcherVars

\* Otherwise it clones the receiver of the entry, which was never read: it
\* knows of every send since the channel was made, and of every one to come.
WaitLooksUp(w, u) ==
  /\ waiter[w].pc = "idle"
  /\ status[u].running # Idle
  /\ waiter' = [waiter EXCEPT ![w] = [pc |-> "subscribed", mr |-> u, left |-> 0,
                                      told |-> IF status[u].signal THEN "sent" ELSE "no"]]
  /\ UNCHANGED <<status, disk>>

\* The mutex is free again: the check of the value the channel holds by now.
WaitSeesSignal(w) ==
  /\ waiter[w].pc = "subscribed"
  /\ waiter[w].told = "sent"
  /\ waiter' = [waiter EXCEPT ![w] = NotWaiting]
  /\ UNCHANGED <<status, disk>>

\* Fault: the receiver hears only what is sent after it began to listen.
WaitListensAfresh(w) ==
  /\ waiter[w].pc = "subscribed"
  /\ waiter' = [waiter EXCEPT ![w] = [@ EXCEPT !.pc = "listening", !.left = Timeout, !.told = "no"]]
  /\ UNCHANGED <<status, disk>>

WaitListens(w) ==
  /\ waiter[w].pc = "subscribed"
  /\ waiter[w].told # "sent"
  /\ waiter' = [waiter EXCEPT ![w] = [@ EXCEPT !.pc = "listening", !.left = Timeout]]
  /\ UNCHANGED <<status, disk>>

\* Fault: the wait has no timer.
WaitReturnsOnSignalOnly(w, outcome) ==
  /\ waiter[w].pc = "listening"
  /\ outcome = "Completed" /\ waiter[w].told # "no"
  /\ waiter' = [waiter EXCEPT ![w] = NotWaiting]
  /\ UNCHANGED <<status, disk>>

\* WaitOutcome: the channel changed or ended, or the timer of the wait ran out.
WaitReturns(w, outcome) ==
  /\ waiter[w].pc = "listening"
  /\ \/ outcome = "Completed" /\ waiter[w].told # "no"
     \/ outcome = "TimedOut" /\ waiter[w].left = 0 /\ waiter[w].told = "no"
  /\ waiter' = [waiter EXCEPT ![w] = NotWaiting]
  /\ UNCHANGED <<status, disk>>

-----------------------------------------------------------------------------
Older(age) == IF age = Idle \/ IsExpired(age) THEN age ELSE age + 1

\* One tick of the clock ages the markers, in memory and on disk, and runs
\* the timers of the waiters down.
DispatcherTick ==
  /\ status' = [u \in Mr |-> [status[u] EXCEPT !.running = Older(@)]]
  /\ disk' = [u \in Mr |-> [disk[u] EXCEPT !.running = Older(@)]]
  /\ waiter' = [w \in Waiter |->
                  [waiter[w] EXCEPT !.left = IF @ > 0 THEN @ - 1 ELSE 0]]

Fresh(age) == IF IsExpired(age) THEN Idle ELSE age

\* load_state: the recorded work survives, an expired marker does not, and
\* every entry gets a new watch channel.
LoadState(file) ==
  [u \in Mr |-> [known |-> file[u].known, running |-> Fresh(file[u].running),
                 last_sha |-> file[u].last_sha, last_fp |-> file[u].last_fp,
                 signal |-> FALSE]]

\* The process dies and with_state_file() builds its successor.
DispatcherRestart ==
  /\ status' = LoadState(disk)
  /\ waiter' = [w \in Waiter |-> NotWaiting]
  /\ UNCHANGED disk

-----------------------------------------------------------------------------
\* The most general client: any caller, any method, any order.
TryStartStep == \E u \in Mr, s \in Sha, o \in {"Go", "InProgress", "AlreadyReviewed"} :
                  TryStart(u, s, o)
ClaimContentStep == \E u \in Mr, s \in Sha, f \in Fingerprint, d \in {"Skip", "Review"} :
                      ClaimContent(u, s, f, d)
CompleteStep == \E u \in Mr, s \in Sha, f \in Fingerprint \cup {None} :
                  Complete(u, s, f)
ResetStep == \E u \in Mr : Reset(u)
RemoveStep == \E u \in Mr : Remove(u)
WaitStep == \E w \in Waiter, u \in Mr : WaitReturnsAtOnce(w, u) \/ WaitLooksUp(w, u)
ListenStep == \E w \in Waiter : WaitSeesSignal(w) \/ WaitListens(w)
WaitReturnsStep == \E w \in Waiter, o \in {"Completed", "TimedOut"} : WaitReturns(w, o)

DispatcherNext ==
  \/ TryStartStep
  \/ ClaimContentStep
  \/ CompleteStep
  \/ ResetStep
  \/ RemoveStep
  \/ WaitStep
  \/ ListenStep
  \/ WaitReturnsStep
  \/ DispatcherTick
  \/ DispatcherRestart

DispatcherSpec == DispatcherInit /\ [][DispatcherNext]_dispatcherVars

-----------------------------------------------------------------------------
(* What the table promises.                                                *)

\* A restart at any moment resumes with the table the process had: the file
\* holds the same recorded work, and the same marker once expired markers
\* are dropped on both sides.  Every method that changes an entry must
\* therefore save it, and the one that does not (try_start dropping an
\* expired marker on the way to AlreadyReviewed) must not need to.
RecoveryLosesNothing ==
  ~WriteFailures =>
    \A u \in Mr :
      /\ disk[u].last_sha = status[u].last_sha
      /\ disk[u].last_fp = status[u].last_fp
      /\ Fresh(disk[u].running) = Fresh(status[u].running)
=============================================================================
