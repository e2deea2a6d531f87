----------------------------- MODULE TaskQueue -----------------------------
(***************************************************************************)
(* The review task queue: TaskStore (server/task_queue.rs), the REST and   *)
(* webhook workers that drive it, the HTTP handlers that cancel, retry,    *)
(* pause and re-limit it, and the `reviews` table it is written through    *)
(* to.                                                                     *)
(*                                                                         *)
(* Every TaskStore method takes the map lock for its in-memory half and    *)
(* gives it back before it awaits the database, so a method that persists  *)
(* is two actions and anything may happen in between.  Admission           *)
(* (can_start_new_task, then update) takes four locks one after the other  *)
(* and is four actions.                                                    *)
(***************************************************************************)
EXTENDS Integers, FiniteSets, TLC

CONSTANTS
  Task,        \* task ids; each is used for one submission
  Client,      \* HTTP requests in flight that cancel or retry
  Kinds,       \* who submits: "rest" (reviews, repository scans), "webhook"
  Limits,      \* the values given to set_max_concurrent
  DefaultMax,  \* max_concurrent of a new TaskStore
  Crashes,     \* bound: how often the process dies
  DbFailures,  \* whether a database write may fail
  HangUps,     \* whether an HTTP client may close its connection early
  NoTask

ASSUME QueueAssumption ==
  /\ Kinds \subseteq {"rest", "webhook"}
  /\ Limits \subseteq Nat
  /\ DefaultMax \in Nat
  /\ Crashes \in Nat
  /\ DbFailures \in BOOLEAN
  /\ HangUps \in BOOLEAN
  /\ NoTask \notin Task

VARIABLES
  mem,       \* TaskStore::inner
  row,       \* reviews.state of each row
  paused,    \* TaskStore::is_paused
  max,       \* TaskStore::max_concurrent
  worker,    \* the thread of control that runs each task
  client,    \* the cancel and retry handlers, between their two halves
  crashes    \* how often the process has died

vars == <<mem, row, paused, max, worker, client, crashes>>

TaskState == {"pending", "running", "completed", "failed", "cancelled"}

\* `ended` is completed_at.is_some(), what the reaper looks at.
TaskEntry == [state : TaskState \cup {"absent"}, ended : BOOLEAN]

Waiting == {"poll", "limit", "count", "admit"}
WorkerPc == Waiting \cup {"new", "insert", "start", "mark_started", "work",
                          "persist", "persist_again", "done", "lost"}

\* `seen` is the limit an admission check has read, `out` the outcome in the
\* snapshot that update() takes for the database.
WorkerState == [pc : WorkerPc, kind : Kinds \cup {"none"}, seen : Nat,
                out : {"none", "completed", "failed"}]

ClientState == [pc : {"idle", "mark_cancelled", "mark_retry"},
                task : Task \cup {NoTask}]

TypeOK ==
  /\ mem \in [Task -> TaskEntry]
  /\ row \in [Task -> TaskState \cup {"absent"}]
  /\ paused \in BOOLEAN
  /\ max \in Nat
  /\ worker \in [Task -> WorkerState]
  /\ client \in [Client -> ClientState]
  /\ crashes \in Nat

Absent == [state |-> "absent", ended |-> FALSE]
Resting == [pc |-> "idle", task |-> NoTask]

Init ==
  /\ mem = [t \in Task |-> Absent]
  /\ row = [t \in Task |-> "absent"]
  /\ paused = FALSE
  /\ max = DefaultMax
  /\ worker = [t \in Task |-> [pc |-> "new", kind |-> "none", seen |-> 0,
                                out |-> "none"]]
  /\ client = [c \in Client |-> Resting]
  /\ crashes = 0

-----------------------------------------------------------------------------
(* The in-memory half of the TaskStore methods.                            *)

Active == {t \in Task : mem[t].state = "running"}

Go(t, pc) == worker' = [worker EXCEPT ![t] = [@ EXCEPT !.pc = pc]]

\* Fault: a cancelled entry is updated like any other.
CanUpdateCancelled(t) == mem[t].state # "absent"

\* update(): nothing happens to a cancelled or forgotten entry.
CanUpdate(t) == mem[t].state \notin {"cancelled", "absent"}

Update(t, new) ==
  mem' = [mem EXCEPT ![t] =
            [state |-> new, ended |-> mem[t].ended \/ new \in {"completed", "failed"}]]

(* The write-through half.  Every UPDATE is keyed by the task id alone, so *)
(* it overwrites whatever the row says and does nothing without a row.     *)

WriteRow(t, new) ==
  \/ row' = [row EXCEPT ![t] = IF @ = "absent" THEN "absent" ELSE new]
  \/ DbFailures /\ row' = row

-----------------------------------------------------------------------------
(* Submitting and admitting.                                               *)

\* create_with_request(): the entry is visible before its row exists.
Submit(t, kind) ==
  /\ worker[t].pc = "new"
  /\ mem' = [mem EXCEPT ![t] = [state |-> "pending", ended |-> FALSE]]
  /\ worker' = [worker EXCEPT ![t] = [@ EXCEPT !.pc = "insert", !.kind = kind]]
  /\ UNCHANGED <<row, paused, max, client, crashes>>

\* ... and the INSERT, of the entry as it was created.
Insert(t) ==
  /\ worker[t].pc = "insert"
  /\ \/ row' = [row EXCEPT ![t] = "pending"]
     \/ DbFailures /\ row' = row
  /\ Go(t, IF worker[t].kind = "rest" THEN "poll" ELSE "start")
  /\ UNCHANGED <<mem, paused, max, client, crashes>>

\* enqueue_review runs in the HTTP handler up to the spawn: a submitter that
\* disconnects during the INSERT leaves an entry nobody works on.
SubmitterHangsUp(t) ==
  /\ HangUps
  /\ worker[t].pc = "insert" /\ worker[t].kind = "rest"
  /\ row' = row \/ row' = [row EXCEPT ![t] = "pending"]
  /\ Go(t, "done")
  /\ UNCHANGED <<mem, paused, max, client, crashes>>

\* start(): unconditional, whatever the entry says.
Start(t) ==
  /\ worker[t].pc = "start"
  /\ \/ /\ mem[t].state # "absent"
        /\ mem' = [mem EXCEPT ![t] = [@ EXCEPT !.state = "running"]]
        /\ Go(t, "mark_started")
     \/ /\ mem[t].state = "absent"
        /\ mem' = mem
        /\ Go(t, "work")
  /\ UNCHANGED <<row, paused, max, client, crashes>>

MarkStarted(t) ==
  /\ worker[t].pc = "mark_started"
  /\ WriteRow(t, "running")
  /\ Go(t, "work")
  /\ UNCHANGED <<mem, paused, max, client, crashes>>

\* can_start_new_task(): three reads under three locks; a refusal sleeps two
\* seconds and asks again.
ReadPaused(t) ==
  /\ worker[t].pc = "poll"
  /\ ~paused
  /\ Go(t, "limit")
  /\ UNCHANGED <<mem, row, paused, max, client, crashes>>

ReadLimit(t) ==
  /\ worker[t].pc = "limit"
  /\ worker' = [worker EXCEPT ![t] = [@ EXCEPT !.pc = "count", !.seen = max]]
  /\ UNCHANGED <<mem, row, paused, max, client, crashes>>

CountActive(t) ==
  /\ worker[t].pc = "count"
  /\ \/ Cardinality(Active) < worker[t].seen /\ Go(t, "admit")
     \/ ~(Cardinality(Active) < worker[t].seen) /\ Go(t, "poll")
  /\ UNCHANGED <<mem, row, paused, max, client, crashes>>

\* update(Running): memory only, and the worker goes on whether or not the
\* entry moved.
Admit(t) ==
  /\ worker[t].pc = "admit"
  /\ \/ CanUpdate(t) /\ Update(t, "running")
     \/ ~CanUpdate(t) /\ mem' = mem
  /\ Go(t, "work")
  /\ UNCHANGED <<row, paused, max, client, crashes>>

-----------------------------------------------------------------------------
(* Running and recording the outcome.                                      *)

\* Fault: the error path returns without recording the failure.
FinishDropsFailure(t, outcome) ==
  /\ worker[t].pc = "work"
  /\ \/ /\ outcome = "completed" /\ CanUpdate(t)
        /\ Update(t, outcome)
        /\ worker' = [worker EXCEPT ![t] = [@ EXCEPT !.pc = "persist", !.out = outcome]]
     \/ /\ outcome = "failed" \/ ~CanUpdate(t)
        /\ mem' = mem
        /\ Go(t, "done")
  /\ UNCHANGED <<row, paused, max, client, crashes>>

\* The review ends (one that completed has published its comment by then) and
\* update() records it; only an entry that moved is persisted.
Finish(t, outcome) ==
  /\ worker[t].pc = "work"
  /\ \/ /\ CanUpdate(t)
        /\ Update(t, outcome)
        /\ worker' = [worker EXCEPT ![t] = [@ EXCEPT !.pc = "persist", !.out = outcome]]
     \/ /\ ~CanUpdate(t)
        /\ mem' = mem
        /\ Go(t, "done")
  /\ UNCHANGED <<row, paused, max, client, crashes>>

\* db.complete() of the snapshot, tried twice.
PersistOutcome(t) ==
  /\ worker[t].pc \in {"persist", "persist_again"}
  /\ \/ /\ row' = [row EXCEPT ![t] = IF @ = "absent" THEN "absent" ELSE worker[t].out]
        /\ Go(t, "done")
     \/ /\ DbFailures
        /\ row' = row
        /\ Go(t, IF worker[t].pc = "persist" THEN "persist_again" ELSE "done")
  /\ UNCHANGED <<mem, paused, max, client, crashes>>

-----------------------------------------------------------------------------
(* The HTTP handlers.                                                      *)

\* delete(): DELETE /queue/tasks/{id}, and /reviews/{id} for a live entry.
Cancel(c, t) ==
  /\ client[c].pc = "idle"
  /\ mem[t].state \in {"pending", "running"}
  /\ mem' = [mem EXCEPT ![t] = [state |-> "cancelled", ended |-> TRUE]]
  /\ client' = [client EXCEPT ![c] = [pc |-> "mark_cancelled", task |-> t]]
  /\ UNCHANGED <<row, paused, max, worker, crashes>>

\* delete_review() of a task only the table knows: it reads the row, and
\* cancel_persisted() writes it in a second step.
CancelHistory(c, t) ==
  /\ client[c].pc = "idle"
  /\ mem[t].state = "absent"
  /\ row[t] \in {"pending", "running"}
  /\ client' = [client EXCEPT ![c] = [pc |-> "mark_cancelled", task |-> t]]
  /\ UNCHANGED <<mem, row, paused, max, worker, crashes>>

\* retry(): a failed entry is pending again; no worker is spawned for it.
Retry(c, t) ==
  /\ client[c].pc = "idle"
  /\ mem[t].state = "failed"
  /\ mem' = [mem EXCEPT ![t] = [state |-> "pending", ended |-> FALSE]]
  /\ client' = [client EXCEPT ![c] = [pc |-> "mark_retry", task |-> t]]
  /\ UNCHANGED <<row, paused, max, worker, crashes>>

\* mark_cancelled() or mark_retry(): the second half of the three above.
ClientWrites(c) ==
  /\ \/ /\ client[c].pc = "mark_cancelled"
        /\ WriteRow(client[c].task, "cancelled")
     \/ /\ client[c].pc = "mark_retry"
        /\ WriteRow(client[c].task, "pending")
  /\ client' = [client EXCEPT ![c] = Resting]
  /\ UNCHANGED <<mem, paused, max, worker, crashes>>

\* The connection closes and the handler is dropped at its await.
ClientHangsUp(c) ==
  /\ HangUps
  /\ client[c].pc # "idle"
  /\ client' = [client EXCEPT ![c] = Resting]
  /\ UNCHANGED <<mem, row, paused, max, worker, crashes>>

Pause ==
  /\ paused' = TRUE
  /\ UNCHANGED <<mem, row, max, worker, client, crashes>>

Resume ==
  /\ paused' = FALSE
  /\ UNCHANGED <<mem, row, max, worker, client, crashes>>

SetMaxConcurrent(n) ==
  /\ max' = n
  /\ UNCHANGED <<mem, row, paused, worker, client, crashes>>

-----------------------------------------------------------------------------
(* The reaper and the restart.                                             *)

\* A database write does not take the half hour after which the reaper drops
\* an entry whose completed_at is set.
NoWriteInFlight(t) ==
  /\ worker[t].pc \notin {"insert", "mark_started", "persist", "persist_again"}
  /\ \A c \in Client : client[c].task # t

Reap(t) ==
  /\ mem[t].ended
  /\ NoWriteInFlight(t)
  /\ mem' = [mem EXCEPT ![t] = Absent]
  /\ UNCHANGED <<row, paused, max, worker, client, crashes>>

\* Faults: queued rows are forgotten, a state the code does not know is written.
SweptRunningOnly(state) == IF state = "running" THEN "failed" ELSE state
SweptToInterrupted(state) ==
  IF state \in {"pending", "running"} THEN "interrupted" ELSE state

\* mark_interrupted(), before the new process listens.
Swept(state) == IF state \in {"pending", "running"} THEN "failed" ELSE state

Restart ==
  /\ crashes < Crashes
  /\ crashes' = crashes + 1
  /\ mem' = [t \in Task |-> Absent]
  /\ \/ row' = [t \in Task |-> Swept(row[t])]
     \/ DbFailures /\ row' = row
  /\ paused' = FALSE
  /\ max' = DefaultMax
  /\ worker' = [t \in Task |-> IF worker[t].pc = "new" THEN worker[t]
                               ELSE [worker[t] EXCEPT !.pc = "lost"]]
  /\ client' = [c \in Client |-> Resting]

-----------------------------------------------------------------------------
WorkerStep(t) ==
  \/ Insert(t)
  \/ Start(t)
  \/ MarkStarted(t)
  \/ ReadPaused(t)
  \/ ReadLimit(t)
  \/ CountActive(t)
  \/ Admit(t)
  \/ Finish(t, "completed")
  \/ Finish(t, "failed")
  \/ PersistOutcome(t)

TaskStep(t) ==
  \/ \E k \in Kinds : Submit(t, k)
  \/ WorkerStep(t)
  \/ SubmitterHangsUp(t)
  \/ Reap(t)

ClientStep(c) ==
  \/ \E t \in Task : Cancel(c, t) \/ CancelHistory(c, t) \/ Retry(c, t)
  \/ ClientWrites(c)
  \/ ClientHangsUp(c)

Next ==
  \/ \E t \in Task : TaskStep(t)
  \/ \E c \in Client : ClientStep(c)
  \/ Pause
  \/ Resume
  \/ \E n \in Limits : SetMaxConcurrent(n)
  \/ Restart

Spec == Init /\ [][Next]_vars

\* The runtime keeps polling a spawned worker, the review of a worker ends
\* (every call it makes has a timeout), and a database call returns.
LiveSpec ==
  /\ Spec
  /\ \A t \in Task : WF_vars(WorkerStep(t))
  /\ \A c \in Client : WF_vars(ClientWrites(c))

-----------------------------------------------------------------------------
(* What the queue promises.                                                *)

Lifecycle == INSTANCE TaskLifecycle WITH state <- [t \in Task |-> mem[t].state]

\* Memory follows the documented life of a task, whatever workers, cancels,
\* retries, the reaper and restarts do to it: a cancellation is never undone
\* by a worker that was already past its check, a task that ended is only
\* revived by a retry, and the reaper takes ended entries only.
FollowsLifecycle == Lifecycle!Spec

\* A slot of the queue is held by a live worker: an entry counted as running
\* has a worker that has yet to record an outcome.  Otherwise active_count()
\* would count it for ever and admission would shrink for good.
RunningHasWorker ==
  \A t \in Task : mem[t].state = "running" => worker[t].pc \in {"mark_started", "work"}

\* After a restart no row of the dead process still says it is queued or
\* running, and none says so again later: no handler or late write of the new
\* process may revive a task that no worker will ever run.
NoOrphanRow ==
  ~DbFailures =>
    \A t \in Task : row[t] \in {"pending", "running"} => worker[t].pc # "lost"

\* History keeps a completed review: once a row says completed, no write that
\* was still on its way when the review ended (a cancellation, a retry, the
\* sweep of a restart) replaces it.
CompletedRowStays ==
  [][\A t \in Task : row[t] = "completed" => row'[t] = "completed"]_vars

\* Once an operator leaves the queue open, every submitted task reaches the
\* end of its worker: no admission waits for ever, whatever is cancelled,
\* retried, reaped or forgotten meanwhile.
QueueDrains ==
  <>[](~paused /\ max > 0) =>
    \A t \in Task : worker[t].pc = "insert" ~> worker[t].pc \in {"done", "lost"}

\* Tasks and clients are interchangeable where nothing that must happen is checked.
Interchangeable == Permutations(Task) \cup Permutations(Client)
=============================================================================
