-------------------------- MODULE TaskQueueProofs --------------------------
(***************************************************************************)
(* Proofs about the task queue, for every set of tasks and clients, every  *)
(* limit, any number of restarts, and with or without failing database     *)
(* writes and dropped connections.                                         *)
(***************************************************************************)
EXTENDS TaskQueue, TLAPS

\* A worker on its way to the database carries an outcome: without it the type
\* of the table is not inductive.
SnapshotTaken ==
  \A t \in Task : worker[t].pc \in {"persist", "persist_again"} => worker[t].out # "none"

\* The steps that move one worker and leave the rest of the type to others.
LEMMA GoType ==
  ASSUME TypeOK, NEW t \in Task, NEW pc \in WorkerPc, Go(t, pc)
  PROVE  worker' \in [Task -> WorkerState]
  BY DEF Go, TypeOK, WorkerState

LEMMA WriteRowType ==
  ASSUME TypeOK, NEW t, NEW new \in TaskState, WriteRow(t, new)
  PROVE  row' \in [Task -> TaskState \cup {"absent"}]
  BY DEF WriteRow, TypeOK

LEMMA UpdateType ==
  ASSUME TypeOK, NEW t \in Task, NEW new \in TaskState, Update(t, new)
  PROVE  mem' \in [Task -> TaskEntry]
<1> DEFINE e == mem[t].ended \/ new \in {"completed", "failed"}
<1>1. e \in BOOLEAN
  OBVIOUS
<1>2. mem' = [mem EXCEPT ![t] = [state |-> new, ended |-> e]]
  BY DEF Update
<1> HIDE DEF e
<1>3. [state |-> new, ended |-> e] \in TaskEntry
  BY <1>1 DEF TaskEntry
<1>4. QED BY <1>2, <1>3 DEF TypeOK

\* What update() does, with the disjunction in `ended` kept away from the rest.
LEMMA UpdateEffect ==
  ASSUME TypeOK, NEW t \in Task, NEW new \in TaskState, Update(t, new)
  PROVE  /\ mem'[t].state = new
         /\ new \in {"completed", "failed"} => mem'[t].ended = TRUE
         /\ new = "running" => mem'[t].ended = mem[t].ended
         /\ \A u \in Task \ {t} : mem'[u] = mem[u]
<1> DEFINE e == mem[t].ended \/ new \in {"completed", "failed"}
<1>1. mem' = [mem EXCEPT ![t] = [state |-> new, ended |-> e]]
  BY DEF Update
<1>2. /\ new \in {"completed", "failed"} => e = TRUE
      /\ new = "running" => e = mem[t].ended
  BY DEF TypeOK, TaskEntry
<1> HIDE DEF e
<1>3. QED BY <1>1, <1>2 DEF TypeOK

\* Every step of a worker keeps the variables well formed.
LEMMA WorkerTypeStep ==
  ASSUME TypeOK, SnapshotTaken, NEW t \in Task, WorkerStep(t)
  PROVE  TypeOK'
<1> USE DEF WorkerPc, Waiting
<1>1. CASE Insert(t)
  BY <1>1, GoType DEF Insert, TypeOK, TaskState
<1>2. CASE Start(t)
  <2>1. mem' \in [Task -> TaskEntry]
    BY <1>2 DEF Start, TypeOK, TaskEntry, TaskState
  <2>2. QED BY <1>2, <2>1, GoType DEF Start, TypeOK
<1>3. CASE MarkStarted(t)
  BY <1>3, GoType, WriteRowType DEF MarkStarted, TypeOK, TaskState
<1>4. CASE ReadPaused(t)
  BY <1>4, GoType DEF ReadPaused, TypeOK
<1>5. CASE ReadLimit(t)
  BY <1>5 DEF ReadLimit, TypeOK, WorkerState
<1>6. CASE CountActive(t)
  BY <1>6, GoType DEF CountActive, TypeOK
<1>7. CASE Admit(t)
  <2>1. mem' \in [Task -> TaskEntry]
    BY <1>7, UpdateType DEF Admit, TypeOK, TaskState
  <2>2. QED BY <1>7, <2>1, GoType DEF Admit, TypeOK
<1>8. ASSUME NEW o \in {"completed", "failed"}, Finish(t, o)
      PROVE  TypeOK'
  <2>1. mem' \in [Task -> TaskEntry]
    BY <1>8, UpdateType DEF Finish, TypeOK, TaskState
  <2>2. worker' \in [Task -> WorkerState]
    <3>1. [worker[t] EXCEPT !.pc = "persist", !.out = o] \in WorkerState
      BY DEF TypeOK, WorkerState
    <3>2. QED BY <1>8, <3>1, GoType DEF Finish, TypeOK
  <2>3. QED BY <1>8, <2>1, <2>2 DEF Finish, TypeOK
<1>9. CASE PersistOutcome(t)
  <2>1. row' \in [Task -> TaskState \cup {"absent"}]
    <3>1. worker[t].out \in TaskState
      BY <1>9 DEF PersistOutcome, SnapshotTaken, TypeOK, WorkerState, TaskState
    <3>2. QED BY <1>9, <3>1 DEF PersistOutcome, TypeOK
  <2>2. worker' \in [Task -> WorkerState]
    BY <1>9, GoType DEF PersistOutcome
  <2>3. QED BY <1>9, <2>1, <2>2 DEF PersistOutcome, TypeOK
<1>10. QED
  BY <1>1, <1>2, <1>3, <1>4, <1>5, <1>6, <1>7, <1>8, <1>9 DEF WorkerStep

\* Every step of the queue does.
LEMMA TypeStep ==
  ASSUME TypeOK, SnapshotTaken, [Next]_vars
  PROVE  TypeOK'
<1>1. ASSUME NEW t \in Task, NEW k \in Kinds, Submit(t, k)
      PROVE  TypeOK'
  <2>1. mem' \in [Task -> TaskEntry]
    BY <1>1 DEF Submit, TypeOK, TaskEntry, TaskState
  <2>2. worker' \in [Task -> WorkerState]
    BY <1>1 DEF Submit, TypeOK, WorkerState, WorkerPc
  <2>3. QED BY <1>1, <2>1, <2>2 DEF Submit, TypeOK
<1>2. ASSUME NEW t \in Task, SubmitterHangsUp(t)
      PROVE  TypeOK'
  BY <1>2, GoType DEF SubmitterHangsUp, TypeOK, TaskState, WorkerPc
<1>3. ASSUME NEW t \in Task, Reap(t)
      PROVE  TypeOK'
  BY <1>3 DEF Reap, Absent, TypeOK, TaskEntry
<1>4. ASSUME NEW c \in Client, NEW t \in Task,
             Cancel(c, t) \/ CancelHistory(c, t) \/ Retry(c, t)
      PROVE  TypeOK'
  <2>1. mem' \in [Task -> TaskEntry]
    <3>1. /\ [state |-> "cancelled", ended |-> TRUE] \in TaskEntry
          /\ [state |-> "pending", ended |-> FALSE] \in TaskEntry
      BY DEF TaskEntry, TaskState
    <3>2. QED BY <1>4, <3>1 DEF Cancel, CancelHistory, Retry, TypeOK
  <2>2. client' \in [Client -> ClientState]
    BY <1>4 DEF Cancel, CancelHistory, Retry, TypeOK, ClientState
  <2>3. QED BY <1>4, <2>1, <2>2 DEF Cancel, CancelHistory, Retry, TypeOK
<1>5. ASSUME NEW c \in Client, ClientWrites(c)
      PROVE  TypeOK'
  <2>1. row' \in [Task -> TaskState \cup {"absent"}]
    BY <1>5, WriteRowType DEF ClientWrites, TaskState
  <2>2. QED BY <1>5, <2>1 DEF ClientWrites, Resting, TypeOK, ClientState
<1>6. ASSUME NEW c \in Client, ClientHangsUp(c)
      PROVE  TypeOK'
  BY <1>6 DEF ClientHangsUp, Resting, TypeOK, ClientState
<1>7. CASE Pause \/ Resume
  BY <1>7 DEF Pause, Resume, TypeOK
<1>8. ASSUME NEW n \in Limits, SetMaxConcurrent(n)
      PROVE  TypeOK'
  BY <1>8, QueueAssumption DEF SetMaxConcurrent, TypeOK
<1>9. CASE Restart
  <2>1. row' \in [Task -> TaskState \cup {"absent"}]
    BY <1>9 DEF Restart, Swept, TypeOK, TaskState
  <2>2. worker' \in [Task -> WorkerState]
    BY <1>9 DEF Restart, TypeOK, WorkerState, WorkerPc
  <2>3. Absent \in TaskEntry /\ Resting \in ClientState
    BY DEF Absent, Resting, TaskEntry, ClientState
  <2>4. mem' \in [Task -> TaskEntry] /\ client' \in [Client -> ClientState]
    BY <1>9, <2>3 DEF Restart
  <2>5. max' = DefaultMax /\ paused' = FALSE /\ crashes' = crashes + 1
    BY <1>9 DEF Restart
  <2>6. max' \in Nat /\ paused' \in BOOLEAN
    BY <2>5, QueueAssumption
  <2>7. crashes' \in Nat
    BY <2>5 DEF TypeOK
  <2>8. QED BY <2>1, <2>2, <2>4, <2>6, <2>7 DEF TypeOK
<1>10. CASE UNCHANGED vars
  BY <1>10 DEF vars, TypeOK
<1>11. QED
  BY <1>1, <1>2, <1>3, <1>4, <1>5, <1>6, <1>7, <1>8, <1>9, <1>10, WorkerTypeStep
  DEF Next, TaskStep, ClientStep

LEMMA TypeInit == Init => TypeOK /\ SnapshotTaken
<1>1. Absent \in TaskEntry /\ Resting \in ClientState
  BY DEF Absent, Resting, TaskEntry, ClientState
<1>2. [pc |-> "new", kind |-> "none", seen |-> 0, out |-> "none"] \in WorkerState
  BY DEF WorkerState, WorkerPc
<1>3. ASSUME Init PROVE TypeOK
  <2>1. mem \in [Task -> TaskEntry] /\ client \in [Client -> ClientState]
    BY <1>1, <1>3 DEF Init
  <2>2. worker \in [Task -> WorkerState] /\ row \in [Task -> TaskState \cup {"absent"}]
    BY <1>2, <1>3 DEF Init
  <2>3. paused \in BOOLEAN /\ max \in Nat /\ crashes \in Nat
    BY <1>3, QueueAssumption DEF Init
  <2>4. QED BY <2>1, <2>2, <2>3 DEF TypeOK
<1>4. Init => SnapshotTaken
  BY DEF Init, SnapshotTaken
<1>5. QED BY <1>3, <1>4

LEMMA SnapshotStep ==
  ASSUME TypeOK, SnapshotTaken, [Next]_vars
  PROVE  SnapshotTaken'
<1>1. ASSUME NEW t \in Task, TaskStep(t)
      PROVE  SnapshotTaken'
  <2> USE DEF TypeOK, WorkerState, SnapshotTaken
  <2>1. CASE \E pc \in WorkerPc \ {"persist", "persist_again"} : Go(t, pc)
    BY <2>1 DEF Go
  <2>2. CASE ReadLimit(t)
    BY <2>2 DEF ReadLimit
  <2>3. CASE Finish(t, "completed") \/ Finish(t, "failed")
    <3>1. PICK o \in {"completed", "failed"} : Finish(t, o)
      BY <2>3
    <3>2. \/ worker' = [worker EXCEPT ![t] = [@ EXCEPT !.pc = "persist", !.out = o]]
          \/ worker' = [worker EXCEPT ![t] = [@ EXCEPT !.pc = "done"]]
      BY <3>1 DEF Finish, Go
    <3>3. QED BY <3>2
  <2>4. CASE PersistOutcome(t)
    BY <2>4 DEF PersistOutcome, Go
  <2>5. CASE Reap(t)
    BY <2>5 DEF Reap
  <2>6. ASSUME NEW k \in Kinds, Submit(t, k) PROVE SnapshotTaken'
    BY <2>6 DEF Submit
  <2>7. QED
    BY <1>1, <2>1, <2>2, <2>3, <2>4, <2>5, <2>6
    DEF TaskStep, WorkerStep, Insert, Start, MarkStarted, ReadPaused, CountActive, Admit,
        SubmitterHangsUp, WorkerPc, Waiting
<1>2. ASSUME NEW c \in Client, ClientStep(c)
      PROVE  SnapshotTaken'
  BY <1>2 DEF ClientStep, Cancel, CancelHistory, Retry, ClientWrites, ClientHangsUp,
              SnapshotTaken
<1>3. CASE Pause \/ Resume \/ (\E n \in Limits : SetMaxConcurrent(n)) \/ UNCHANGED vars
  BY <1>3 DEF Pause, Resume, SetMaxConcurrent, vars, SnapshotTaken
<1>4. CASE Restart
  BY <1>4 DEF Restart, TypeOK, WorkerState, SnapshotTaken
<1>5. QED BY <1>1, <1>2, <1>3, <1>4 DEF Next

\* The queue, its table, its workers and its handlers stay well formed.
THEOREM TypeCorrect == Spec => []TypeOK
<1>1. TypeOK /\ SnapshotTaken /\ [Next]_vars => TypeOK' /\ SnapshotTaken'
  BY TypeStep, SnapshotStep
<1>2. QED BY <1>1, TypeInit, PTL DEF Spec

-----------------------------------------------------------------------------
(* Slots.  RunningHasWorker is inductive over well-formed states.          *)

LEMMA SlotWorkerStep ==
  ASSUME TypeOK, RunningHasWorker, NEW t \in Task, WorkerStep(t)
  PROVE  RunningHasWorker'
<1> USE DEF RunningHasWorker, TypeOK, WorkerState, TaskEntry
<1>1. CASE Insert(t) \/ ReadPaused(t) \/ CountActive(t)
  BY <1>1 DEF Insert, ReadPaused, CountActive, Go
<1>2. CASE Start(t)
  <2>1. CASE mem[t].state # "absent"
    <3>1. /\ mem' = [mem EXCEPT ![t] = [@ EXCEPT !.state = "running"]]
          /\ worker' = [worker EXCEPT ![t] = [@ EXCEPT !.pc = "mark_started"]]
      BY <1>2, <2>1 DEF Start, Go
    <3>2. worker'[t].pc = "mark_started"
      BY <3>1
    <3>3. \A u \in Task \ {t} : mem'[u] = mem[u] /\ worker'[u] = worker[u]
      BY <3>1
    <3>4. QED BY <3>2, <3>3
  <2>2. CASE mem[t].state = "absent"
    <3>1. /\ mem' = mem
          /\ worker' = [worker EXCEPT ![t] = [@ EXCEPT !.pc = "work"]]
      BY <1>2, <2>2 DEF Start, Go
    <3>2. QED BY <3>1
  <2>3. QED BY <2>1, <2>2
<1>3. CASE MarkStarted(t)
  BY <1>3 DEF MarkStarted, Go
<1>4. CASE ReadLimit(t)
  BY <1>4 DEF ReadLimit
<1>5. CASE Admit(t)
  <2>1. /\ \A u \in Task \ {t} : mem'[u] = mem[u] /\ worker'[u] = worker[u]
        /\ worker'[t].pc = "work"
    <3>1. worker' = [worker EXCEPT ![t] = [@ EXCEPT !.pc = "work"]]
      BY <1>5 DEF Admit, Go
    <3>2. \A u \in Task \ {t} : mem'[u] = mem[u]
      BY <1>5, UpdateEffect DEF TaskState, Admit
    <3>3. QED BY <3>1, <3>2
  <2>2. QED BY <2>1
<1>6. ASSUME NEW o \in {"completed", "failed"}, Finish(t, o)
      PROVE  RunningHasWorker'
  <2>1. \A u \in Task \ {t} : mem'[u] = mem[u] /\ worker'[u] = worker[u]
    BY <1>6, UpdateEffect DEF TaskState, Finish, Go
  <2>2. mem'[t].state # "running" \/ worker'[t].pc = "work"
    <3>1. CASE CanUpdate(t)
      BY <1>6, <3>1, UpdateEffect DEF TaskState, Finish
    <3>2. CASE ~CanUpdate(t)
      BY <1>6, <3>2 DEF Finish, CanUpdate
    <3>3. QED BY <3>1, <3>2
  <2>3. QED BY <2>1, <2>2
<1>7. CASE PersistOutcome(t)
  BY <1>7 DEF PersistOutcome, Go
<1>8. QED BY <1>1, <1>2, <1>3, <1>4, <1>5, <1>6, <1>7 DEF WorkerStep

LEMMA SlotStep ==
  ASSUME TypeOK, RunningHasWorker, [Next]_vars
  PROVE  RunningHasWorker'
<1> USE DEF RunningHasWorker, TypeOK, WorkerState, TaskEntry
<1>1. ASSUME NEW t \in Task, NEW k \in Kinds, Submit(t, k)
      PROVE  RunningHasWorker'
  BY <1>1 DEF Submit
<1>2. ASSUME NEW t \in Task, SubmitterHangsUp(t) \/ Reap(t)
      PROVE  RunningHasWorker'
  BY <1>2 DEF SubmitterHangsUp, Reap, Absent, Go
<1>3. ASSUME NEW c \in Client, ClientStep(c)
      PROVE  RunningHasWorker'
  BY <1>3 DEF ClientStep, Cancel, CancelHistory, Retry, ClientWrites, ClientHangsUp
<1>4. CASE Pause \/ Resume \/ (\E n \in Limits : SetMaxConcurrent(n)) \/ UNCHANGED vars
  BY <1>4 DEF Pause, Resume, SetMaxConcurrent, vars
<1>5. CASE Restart
  BY <1>5 DEF Restart, Absent
<1>6. QED
  BY <1>1, <1>2, <1>3, <1>4, <1>5, SlotWorkerStep DEF Next, TaskStep

\* No slot leaks: whatever is cancelled, retried, reaped or restarted, an entry
\* that active_count() counts has a worker that will record its outcome.
THEOREM SlotsHeldByWorkers == Spec => []RunningHasWorker
<1>1. Init => RunningHasWorker
  BY DEF Init, RunningHasWorker, Absent
<1>2. TypeOK /\ RunningHasWorker /\ [Next]_vars => RunningHasWorker'
  BY SlotStep
<1>3. QED BY <1>1, <1>2, TypeCorrect, PTL DEF Spec

-----------------------------------------------------------------------------
(* Rows of a dead process.  A late write could revive one only from a      *)
(* handler that found the task in memory, and memory knows none of them.   *)

Forgotten ==
  \A t \in Task : worker[t].pc = "lost" =>
    /\ mem[t].state = "absent"
    /\ mem[t].ended = FALSE
    /\ \A c \in Client : client[c].task = t => client[c].pc # "mark_retry"

\* A step of one worker leaves the entries and workers of other tasks alone,
\* and no handler moves.
LEMMA WorkerStepIsLocal ==
  ASSUME TypeOK, NEW t \in Task, WorkerStep(t)
  PROVE  /\ \A u \in Task \ {t} : worker'[u] = worker[u] /\ mem'[u] = mem[u]
         /\ client' = client
         /\ worker[t].pc # "lost" /\ worker'[t].pc # "lost"
<1> DEFINE Local == /\ \A u \in Task \ {t} : worker'[u] = worker[u] /\ mem'[u] = mem[u]
                    /\ client' = client
                    /\ worker[t].pc # "lost" /\ worker'[t].pc # "lost"
<1>1. ASSUME NEW pc \in WorkerPc, pc # "lost", Go(t, pc)
      PROVE  /\ \A u \in Task \ {t} : worker'[u] = worker[u]
             /\ worker'[t].pc # "lost"
  BY <1>1 DEF Go, TypeOK, WorkerState
<1>2. CASE Insert(t) \/ MarkStarted(t) \/ ReadPaused(t) \/ CountActive(t)
  <2>1. Local
    BY <1>1, <1>2 DEF Insert, MarkStarted, ReadPaused, CountActive, WorkerPc, Waiting
  <2>2. QED BY <2>1
<1>3. CASE Start(t)
  <2>1. \A u \in Task \ {t} : mem'[u] = mem[u]
    BY <1>3 DEF Start, TypeOK
  <2>2. Local
    BY <1>1, <1>3, <2>1 DEF Start, WorkerPc
  <2>3. QED BY <2>2
<1>4. CASE ReadLimit(t)
  <2>1. Local BY <1>4 DEF ReadLimit, TypeOK, WorkerState
  <2>2. QED BY <2>1
<1>5. CASE Admit(t)
  <2>1. \A u \in Task \ {t} : mem'[u] = mem[u]
    BY <1>5, UpdateEffect DEF TaskState, Admit
  <2>2. Local
    BY <1>1, <1>5, <2>1 DEF Admit, WorkerPc
  <2>3. QED BY <2>2
<1>6. ASSUME NEW o \in {"completed", "failed"}, Finish(t, o)
      PROVE  Local
  <2>1. \A u \in Task \ {t} : mem'[u] = mem[u]
    BY <1>6, UpdateEffect DEF TaskState, Finish
  <2>2. worker'[t].pc # "lost" /\ \A u \in Task \ {t} : worker'[u] = worker[u]
    BY <1>6 DEF Finish, Go, TypeOK, WorkerState
  <2>3. QED BY <1>6, <2>1, <2>2 DEF Finish
<1>7. CASE PersistOutcome(t)
  <2>1. Local BY <1>1, <1>7 DEF PersistOutcome, WorkerPc
  <2>2. QED BY <2>1
<1>8. QED BY <1>2, <1>3, <1>4, <1>5, <1>6, <1>7 DEF WorkerStep

LEMMA ForgottenStep ==
  ASSUME TypeOK, Forgotten, [Next]_vars
  PROVE  Forgotten'
<1> USE DEF Forgotten, TypeOK, WorkerState, TaskEntry, ClientState
<1>1. ASSUME NEW t \in Task, NEW k \in Kinds, Submit(t, k)
      PROVE  Forgotten'
  BY <1>1 DEF Submit
<1>2. ASSUME NEW t \in Task, SubmitterHangsUp(t) \/ Reap(t)
      PROVE  Forgotten'
  BY <1>2 DEF SubmitterHangsUp, Reap, Absent, Go
<1>3. ASSUME NEW t \in Task, WorkerStep(t)
      PROVE  Forgotten'
  BY <1>3, WorkerStepIsLocal
<1>4. ASSUME NEW c \in Client, ClientStep(c)
      PROVE  Forgotten'
  <2>1. ASSUME NEW t \in Task, Cancel(c, t) \/ CancelHistory(c, t) \/ Retry(c, t)
        PROVE  Forgotten'
    <3>1. CASE Cancel(c, t)
      BY <3>1 DEF Cancel
    <3>2. CASE CancelHistory(c, t)
      BY <3>2 DEF CancelHistory
    <3>3. CASE Retry(c, t)
      BY <3>3 DEF Retry
    <3>4. QED BY <2>1, <3>1, <3>2, <3>3
  <2>2. CASE ClientWrites(c) \/ ClientHangsUp(c)
    BY <2>2, QueueAssumption DEF ClientWrites, ClientHangsUp, Resting
  <2>3. QED BY <1>4, <2>1, <2>2 DEF ClientStep
<1>5. CASE Pause \/ Resume \/ (\E n \in Limits : SetMaxConcurrent(n)) \/ UNCHANGED vars
  BY <1>5 DEF Pause, Resume, SetMaxConcurrent, vars
<1>6. CASE Restart
  BY <1>6, QueueAssumption DEF Restart, Absent, Resting
<1>7. QED
  BY <1>1, <1>2, <1>3, <1>4, <1>5, <1>6 DEF Next, TaskStep

LEMMA WriteRowEffect ==
  ASSUME TypeOK, NEW t \in Task, NEW new \in TaskState, WriteRow(t, new)
  PROVE  /\ \A u \in Task \ {t} : row'[u] = row[u]
         /\ row'[t] \in {row[t], new}
  BY DEF WriteRow, TypeOK

\* A step of one worker writes no row but its own.
LEMMA WorkerRowIsLocal ==
  ASSUME TypeOK, NEW t \in Task, WorkerStep(t)
  PROVE  \A u \in Task \ {t} : row'[u] = row[u]
<1>1. CASE Insert(t)
  BY <1>1 DEF Insert, TypeOK
<1>2. CASE MarkStarted(t)
  BY <1>2, WriteRowEffect DEF MarkStarted, TaskState
<1>3. CASE PersistOutcome(t)
  BY <1>3 DEF PersistOutcome, TypeOK
<1>4. QED
  BY <1>1, <1>2, <1>3
  DEF WorkerStep, Start, ReadPaused, ReadLimit, CountActive, Admit, Finish

LEMMA OrphanStep ==
  ASSUME TypeOK, Forgotten, NoOrphanRow, [Next]_vars
  PROVE  NoOrphanRow'
<1> SUFFICES ASSUME ~DbFailures,
                    \A t \in Task : row[t] \in {"pending", "running"} => worker[t].pc # "lost"
             PROVE  \A t \in Task : row'[t] \in {"pending", "running"} => worker'[t].pc # "lost"
  BY DEF NoOrphanRow
<1>1. ASSUME NEW t \in Task, WorkerStep(t)
      PROVE  \A u \in Task : row'[u] \in {"pending", "running"} => worker'[u].pc # "lost"
  BY <1>1, WorkerStepIsLocal, WorkerRowIsLocal
<1>2. ASSUME NEW t \in Task, TaskStep(t), ~WorkerStep(t)
      PROVE  \A u \in Task : row'[u] \in {"pending", "running"} => worker'[u].pc # "lost"
  <2>1. CASE Reap(t)
    BY <2>1 DEF Reap
  <2>2. ASSUME NEW k \in Kinds, Submit(t, k) 
        PROVE  \A u \in Task : row'[u] \in {"pending", "running"} => worker'[u].pc # "lost"
    BY <2>2 DEF Submit, TypeOK, WorkerState
  <2>3. CASE SubmitterHangsUp(t)
    BY <2>3 DEF SubmitterHangsUp, Go, TypeOK, WorkerState
  <2>4. QED BY <1>2, <2>1, <2>2, <2>3 DEF TaskStep
<1>3. ASSUME NEW c \in Client, ClientStep(c)
      PROVE  \A u \in Task : row'[u] \in {"pending", "running"} => worker'[u].pc # "lost"
  <2>1. CASE ClientWrites(c)
    BY <2>1 DEF ClientWrites, WriteRow, Forgotten, TypeOK, ClientState
  <2>2. CASE ~ClientWrites(c)
    BY <1>3, <2>2 DEF ClientStep, Cancel, CancelHistory, Retry, ClientHangsUp
  <2>3. QED BY <2>1, <2>2
<1>4. CASE Pause \/ Resume \/ (\E n \in Limits : SetMaxConcurrent(n)) \/ UNCHANGED vars
  BY <1>4 DEF Pause, Resume, SetMaxConcurrent, vars
<1>5. CASE Restart
  BY <1>5 DEF Restart, Swept
<1>6. QED BY <1>1, <1>2, <1>3, <1>4, <1>5 DEF Next

\* The sweep of a restart is final: with a working database no row of a dead
\* process says pending or running, then or later.
THEOREM OrphansStaySwept == Spec => []NoOrphanRow
<1>1. Init => Forgotten /\ NoOrphanRow
  BY DEF Init, Forgotten, NoOrphanRow
<1>2. TypeOK /\ Forgotten /\ NoOrphanRow /\ [Next]_vars => Forgotten' /\ NoOrphanRow'
  BY ForgottenStep, OrphanStep
<1>3. QED BY <1>1, <1>2, TypeCorrect, PTL DEF Spec

-----------------------------------------------------------------------------
(* The life of a REST task.  What the worker may find in memory depends on *)
(* where it is: before admission no running entry, during the review no    *)
(* pending or ended one.  A webhook's start() breaks this, so the theorems *)
(* below are about queues fed by the REST API alone.                       *)

BeforeRun == Waiting \cup {"insert"}
Ended == {"completed", "failed", "cancelled"}

RestTask(t) ==
  /\ worker[t].pc \notin {"start", "mark_started"}
  /\ worker[t].pc = "insert" => worker[t].kind = "rest"
  /\ worker[t].pc = "new" => mem[t].state = "absent" /\ row[t] = "absent"
  /\ worker[t].pc \in BeforeRun => mem[t].state \in {"pending", "cancelled", "absent"}
  /\ worker[t].pc = "work" => mem[t].state \in {"running", "cancelled", "absent"}
  /\ mem[t].ended = TRUE => mem[t].state \in Ended

RestInv == \A t \in Task : RestTask(t)

LEMMA RestWorkerStep ==
  ASSUME TypeOK, RestInv, NEW t \in Task, WorkerStep(t)
  PROVE  RestInv'
<1>1. RestTask(t)
  BY DEF RestInv
<1>2. ASSUME RestTask(t)'
      PROVE  RestInv'
  BY <1>2, WorkerStepIsLocal, WorkerRowIsLocal DEF RestInv, RestTask
<1> USE <1>1 DEF RestTask, BeforeRun, Waiting
<1>3. CASE Insert(t) \/ ReadPaused(t) \/ CountActive(t)
  <2>1. worker'[t].pc \in Waiting /\ mem' = mem
    BY <1>3 DEF Insert, ReadPaused, CountActive, Go, TypeOK, WorkerState
  <2>2. worker[t].pc \in BeforeRun
    BY <1>3 DEF Insert, ReadPaused, CountActive
  <2>3. QED BY <1>2, <2>1, <2>2
<1>4. CASE ReadLimit(t)
  BY <1>2, <1>4 DEF ReadLimit, TypeOK, WorkerState
<1>5. CASE Start(t) \/ MarkStarted(t)
  BY <1>5 DEF Start, MarkStarted
<1>6. CASE Admit(t)
  <2>1. worker'[t].pc = "work"
    BY <1>6 DEF Admit, Go, TypeOK, WorkerState
  <2>2. CASE CanUpdate(t)
    <3>1. mem'[t].state = "running" /\ mem'[t].ended = mem[t].ended
      BY <1>6, <2>2, UpdateEffect DEF TaskState, Admit
    <3>2. mem[t].state = "pending"
      BY <1>6, <2>2 DEF Admit, CanUpdate
    <3>3. QED BY <1>2, <2>1, <3>1, <3>2 DEF Ended
  <2>3. CASE ~CanUpdate(t)
    BY <1>2, <1>6, <2>1, <2>3 DEF Admit, CanUpdate
  <2>4. QED BY <2>2, <2>3
<1>7. ASSUME NEW o \in {"completed", "failed"}, Finish(t, o)
      PROVE  RestInv'
  <2>1. worker'[t].pc \in {"persist", "done"}
    BY <1>7 DEF Finish, Go, TypeOK, WorkerState
  <2>2. mem'[t] = mem[t] \/ mem'[t].state = o
    BY <1>7, UpdateEffect DEF TaskState, Finish
  <2>3. QED BY <1>2, <2>1, <2>2 DEF Ended
<1>8. CASE PersistOutcome(t)
  <2>1. worker'[t].pc \in {"persist_again", "done"} /\ mem' = mem
    BY <1>8 DEF PersistOutcome, Go, TypeOK, WorkerState
  <2>2. QED BY <1>2, <2>1
<1>9. QED BY <1>3, <1>4, <1>5, <1>6, <1>7, <1>8 DEF WorkerStep

LEMMA RestStep ==
  ASSUME TypeOK, RestInv, Kinds = {"rest"}, [Next]_vars
  PROVE  RestInv'
<1> USE DEF RestInv, RestTask, BeforeRun, Waiting, Ended, TypeOK, WorkerState, TaskEntry
<1>1. ASSUME NEW t \in Task, NEW k \in Kinds, Submit(t, k)
      PROVE  RestInv'
  BY <1>1 DEF Submit
<1>2. ASSUME NEW t \in Task, SubmitterHangsUp(t)
      PROVE  RestInv'
  BY <1>2 DEF SubmitterHangsUp, Go
<1>3. ASSUME NEW t \in Task, Reap(t)
      PROVE  RestInv'
  BY <1>3 DEF Reap, Absent
<1>4. ASSUME NEW c \in Client, NEW t \in Task, Cancel(c, t)
      PROVE  RestInv'
  BY <1>4 DEF Cancel
<1>5. ASSUME NEW c \in Client, NEW t \in Task, Retry(c, t)
      PROVE  RestInv'
  BY <1>5 DEF Retry
<1>6. ASSUME NEW c \in Client, ClientWrites(c)
      PROVE  RestInv'
  BY <1>6 DEF ClientWrites, WriteRow, ClientState
<1>7. CASE \/ \E c \in Client : ClientHangsUp(c) \/ \E t \in Task : CancelHistory(c, t)
           \/ Pause \/ Resume \/ \E n \in Limits : SetMaxConcurrent(n)
           \/ UNCHANGED vars
  BY <1>7 DEF ClientHangsUp, CancelHistory, Pause, Resume, SetMaxConcurrent, vars
<1>8. CASE Restart
  BY <1>8, SMTT(30) DEF Restart, Absent, Swept
<1>9. QED
  BY <1>1, <1>2, <1>3, <1>4, <1>5, <1>6, <1>7, <1>8, RestWorkerStep
  DEF Next, TaskStep, ClientStep

LEMMA RestInit == Init => RestInv
  BY DEF Init, RestInv, RestTask, BeforeRun, Waiting, Absent

LEMMA RestCorrect ==
  ASSUME Kinds = {"rest"}
  PROVE  Spec => []RestInv
<1>1. TypeOK /\ RestInv /\ [Next]_vars => RestInv'
  BY RestStep
<1>2. QED BY <1>1, RestInit, TypeCorrect, PTL DEF Spec

\* Every step of the queue is a step of the abstract life of one task, or
\* changes no entry.
LEMMA LifecycleStep ==
  ASSUME TypeOK, RestInv, Kinds = {"rest"}, [Next]_vars
  PROVE  [Lifecycle!Next]_([t \in Task |-> mem[t].state])
<1> DEFINE st == [t \in Task |-> mem[t].state]
<1>1. ASSUME NEW t \in Task, NEW from, NEW to,
             \A u \in Task \ {t} : mem'[u] = mem[u],
             mem[t].state \in from, mem'[t].state = to
      PROVE  Lifecycle!Move(t, from, to)
  <2>1. [u \in Task |-> mem'[u].state] = [st EXCEPT ![t] = to]
    BY <1>1
  <2>2. QED BY <1>1, <2>1 DEF Lifecycle!Move
<1>2. ASSUME NEW t \in Task,
             \/ Lifecycle!Create(t) \/ Lifecycle!Begin(t) \/ Lifecycle!Succeed(t)
             \/ Lifecycle!Fail(t) \/ Lifecycle!Cancel(t) \/ Lifecycle!Requeue(t)
             \/ Lifecycle!Forget(t)
      PROVE  Lifecycle!Next
  BY <1>2 DEF Lifecycle!Next
<1>3. ASSUME mem' = mem
      PROVE  st' = st
  BY <1>3
<1>4. ASSUME NEW t \in Task, NEW k \in Kinds, Submit(t, k)
      PROVE  Lifecycle!Next
  <2>1. /\ \A u \in Task \ {t} : mem'[u] = mem[u]
        /\ mem[t].state = "absent" /\ mem'[t].state = "pending"
    BY <1>4 DEF Submit, RestInv, RestTask, TypeOK
  <2>2. QED BY <1>1, <1>2, <2>1 DEF Lifecycle!Create
<1>5. ASSUME NEW t \in Task, Reap(t)
      PROVE  Lifecycle!Next
  <2>1. /\ \A u \in Task \ {t} : mem'[u] = mem[u]
        /\ mem[t].ended = TRUE /\ mem'[t].state = "absent"
    BY <1>5 DEF Reap, Absent, TypeOK, TaskEntry
  <2>2. mem[t].state \in Lifecycle!Terminal
    BY <2>1 DEF RestInv, RestTask, Ended, Lifecycle!Terminal
  <2>3. QED BY <1>1, <1>2, <2>1, <2>2 DEF Lifecycle!Forget
<1>6. ASSUME NEW t \in Task, Admit(t)
      PROVE  Lifecycle!Next \/ st' = st
  <2>1. CASE CanUpdate(t)
    <3>1. mem[t].state = "pending"
      BY <1>6, <2>1 DEF Admit, CanUpdate, RestInv, RestTask, BeforeRun, Waiting
    <3>2. mem'[t].state = "running" /\ \A u \in Task \ {t} : mem'[u] = mem[u]
      BY <1>6, <2>1, UpdateEffect DEF TaskState, Admit
    <3>3. QED BY <1>1, <1>2, <3>1, <3>2 DEF Lifecycle!Begin
  <2>2. CASE ~CanUpdate(t)
    BY <1>3, <1>6, <2>2 DEF Admit
  <2>3. QED BY <2>1, <2>2
<1>7. ASSUME NEW t \in Task, NEW o \in {"completed", "failed"}, Finish(t, o)
      PROVE  Lifecycle!Next \/ st' = st
  <2>1. CASE CanUpdate(t)
    <3>1. mem[t].state = "running"
      BY <1>7, <2>1 DEF Finish, CanUpdate, RestInv, RestTask
    <3>2. mem'[t].state = o /\ \A u \in Task \ {t} : mem'[u] = mem[u]
      BY <1>7, <2>1, UpdateEffect DEF TaskState, Finish
    <3>3. Lifecycle!Succeed(t) \/ Lifecycle!Fail(t)
      BY <1>1, <3>1, <3>2 DEF Lifecycle!Succeed, Lifecycle!Fail
    <3>4. QED BY <1>2, <3>3
  <2>2. CASE ~CanUpdate(t)
    BY <1>3, <1>7, <2>2 DEF Finish
  <2>3. QED BY <2>1, <2>2
<1>8. ASSUME NEW t \in Task, WorkerStep(t)
      PROVE  Lifecycle!Next \/ st' = st
  <2>1. CASE mem' = mem
    BY <1>3, <2>1
  <2>2. CASE mem' # mem
    <3>1. Admit(t) \/ Finish(t, "completed") \/ Finish(t, "failed")
      BY <1>8, <2>2
      DEF WorkerStep, Insert, Start, MarkStarted, ReadPaused, ReadLimit, CountActive,
          PersistOutcome, RestInv, RestTask
    <3>2. QED BY <1>6, <1>7, <3>1
  <2>3. QED BY <2>1, <2>2
<1>9. ASSUME NEW c \in Client, NEW t \in Task, Cancel(c, t)
      PROVE  Lifecycle!Next
  <2>1. /\ \A u \in Task \ {t} : mem'[u] = mem[u]
        /\ mem[t].state \in {"pending", "running"} /\ mem'[t].state = "cancelled"
    BY <1>9 DEF Cancel, TypeOK
  <2>2. QED BY <1>1, <1>2, <2>1 DEF Lifecycle!Cancel
<1>10. ASSUME NEW c \in Client, NEW t \in Task, Retry(c, t)
       PROVE  Lifecycle!Next
  <2>1. /\ \A u \in Task \ {t} : mem'[u] = mem[u]
        /\ mem[t].state = "failed" /\ mem'[t].state = "pending"
    BY <1>10 DEF Retry, TypeOK
  <2>2. QED BY <1>1, <1>2, <2>1 DEF Lifecycle!Requeue
<1>11. CASE Restart
  <2>1. Lifecycle!Wipe
    BY <1>11 DEF Restart, Absent, Lifecycle!Wipe
  <2>2. QED BY <2>1 DEF Lifecycle!Next
<1>12. CASE mem' = mem
  BY <1>3, <1>12
<1>13. CASE mem' # mem
  <2>1. \/ \E t \in Task : WorkerStep(t) \/ Reap(t) \/ \E k \in Kinds : Submit(t, k)
        \/ \E c \in Client, t \in Task : Cancel(c, t) \/ Retry(c, t)
        \/ Restart
    BY <1>13
    DEF Next, vars, TaskStep, SubmitterHangsUp, ClientStep, CancelHistory, ClientWrites,
        ClientHangsUp, Pause, Resume, SetMaxConcurrent
  <2>2. QED BY <1>4, <1>5, <1>8, <1>9, <1>10, <1>11, <2>1
<1>14. QED BY <1>12, <1>13

\* Memory implements the abstract life of a task when the REST API alone feeds
\* the queue: no order of admissions, cancellations, retries, reaping and
\* restarts revives a cancelled or completed task.
THEOREM ImplementsLifecycle ==
  ASSUME Kinds = {"rest"}
  PROVE  Spec => FollowsLifecycle
<1>1. Init => Lifecycle!Init
  BY DEF Init, Absent, Lifecycle!Init
<1>2. TypeOK /\ RestInv /\ [Next]_vars => [Lifecycle!Next]_([t \in Task |-> mem[t].state])
  BY LifecycleStep
<1>3. QED
  BY <1>1, <1>2, TypeCorrect, RestCorrect, PTL DEF Spec, FollowsLifecycle, Lifecycle!Spec

-----------------------------------------------------------------------------
(* Completed rows.  A handler between its two halves has taken the task    *)
(* out of the worker's hands: the entry is neither running nor completed,  *)
(* and a retried one has no worker before it.                              *)

NoHandler(t) == \A c \in Client : client[c].task # t

HistoryTask(t) ==
  /\ worker[t].pc \in {"persist", "persist_again"} /\ worker[t].out = "completed"
       => mem[t].state = "completed"
  /\ row[t] = "completed"
       => /\ mem[t].state \in {"completed", "absent"}
          /\ worker[t].pc \in {"done", "lost"}
          /\ NoHandler(t)
  /\ \/ NoHandler(t)
     \/ /\ mem[t].state \notin {"running", "completed"}
        /\ worker[t].pc # "new"
        /\ mem[t].state = "pending" => worker[t].pc \notin BeforeRun

HistoryInv == \A t \in Task : HistoryTask(t)

LEMMA HistoryWorkerStep ==
  ASSUME TypeOK, RestInv, HistoryInv, NEW t \in Task, WorkerStep(t)
  PROVE  HistoryInv'
<1>1. RestTask(t) /\ HistoryTask(t)
  BY DEF RestInv, HistoryInv
<1>2. ASSUME HistoryTask(t)'
      PROVE  HistoryInv'
  BY <1>2, WorkerStepIsLocal, WorkerRowIsLocal DEF HistoryInv, HistoryTask, NoHandler
<1>3. NoHandler(t)' <=> NoHandler(t)
  BY WorkerStepIsLocal DEF NoHandler
<1> USE <1>1 DEF HistoryTask, RestTask, BeforeRun, Waiting
<1>4. CASE Insert(t)
  <2>1. worker'[t].pc = "poll" /\ mem' = mem /\ row'[t] \in {"pending", row[t]}
    BY <1>4 DEF Insert, Go, TypeOK, WorkerState
  <2>2. worker[t].pc = "insert"
    BY <1>4 DEF Insert
  <2>3. QED BY <1>2, <1>3, <2>1, <2>2
<1>5. CASE ReadPaused(t) \/ ReadLimit(t) \/ CountActive(t)
  <2>1. worker[t].pc \in Waiting /\ worker'[t].pc \in Waiting /\ mem' = mem /\ row' = row
    BY <1>5 DEF ReadPaused, ReadLimit, CountActive, Go, TypeOK, WorkerState
  <2>2. QED BY <1>2, <1>3, <2>1
<1>6. CASE Start(t) \/ MarkStarted(t)
  BY <1>6 DEF Start, MarkStarted
<1>7. CASE Admit(t)
  <2>1. worker[t].pc = "admit" /\ worker'[t].pc = "work" /\ row' = row
    BY <1>7 DEF Admit, Go, TypeOK, WorkerState
  <2>2. CASE CanUpdate(t)
    <3>1. mem[t].state = "pending"
      BY <2>1, <2>2 DEF CanUpdate
    <3>2. NoHandler(t)
      BY <2>1, <3>1
    <3>3. QED BY <1>2, <1>3, <2>1, <3>2
  <2>3. CASE ~CanUpdate(t)
    <3>1. mem' = mem BY <1>7, <2>3 DEF Admit
    <3>2. QED BY <1>2, <1>3, <2>1, <3>1
  <2>4. QED BY <2>2, <2>3
<1>8. ASSUME NEW o \in {"completed", "failed"}, Finish(t, o)
      PROVE  HistoryInv'
  <2>1. worker[t].pc = "work" /\ row' = row
    BY <1>8 DEF Finish
  <2>2. CASE CanUpdate(t)
    <3>1. mem[t].state = "running"
      BY <2>1, <2>2 DEF CanUpdate
    <3>2. mem'[t].state = o
      BY <1>8, <2>2, UpdateEffect DEF TaskState, Finish
    <3>3. worker'[t].pc = "persist" /\ worker'[t].out = o
      BY <1>8, <2>2 DEF Finish, TypeOK, WorkerState
    <3>4. QED BY <1>2, <1>3, <2>1, <3>1, <3>2, <3>3
  <2>3. CASE ~CanUpdate(t)
    <3>1. mem' = mem /\ worker'[t].pc = "done"
      BY <1>8, <2>3 DEF Finish, Go, TypeOK, WorkerState
    <3>2. QED BY <1>2, <1>3, <2>1, <3>1
  <2>4. QED BY <2>2, <2>3
<1>9. CASE PersistOutcome(t)
  <2>1. mem' = mem /\ worker'[t].out = worker[t].out
    BY <1>9 DEF PersistOutcome, Go, TypeOK, WorkerState
  <2>2. /\ worker[t].pc \in {"persist", "persist_again"}
        /\ \/ worker'[t].pc = "done" /\ row'[t] \in {"absent", worker[t].out}
           \/ worker'[t].pc \in {"persist_again", "done"} /\ row'[t] = row[t]
    BY <1>9 DEF PersistOutcome, Go, TypeOK, WorkerState
  <2>3. QED BY <1>2, <1>3, <2>1, <2>2
<1>10. QED BY <1>4, <1>5, <1>6, <1>7, <1>8, <1>9 DEF WorkerStep

LEMMA HistoryStep ==
  ASSUME TypeOK, RestInv, HistoryInv, Kinds = {"rest"}, [Next]_vars
  PROVE  HistoryInv'
<1> USE DEF HistoryInv, HistoryTask, NoHandler, RestInv, RestTask, BeforeRun, Waiting,
            TypeOK, WorkerState, TaskEntry, ClientState
<1>1. ASSUME NEW t \in Task, NEW k \in Kinds, Submit(t, k)
      PROVE  HistoryInv'
  BY <1>1 DEF Submit
<1>2. ASSUME NEW t \in Task, SubmitterHangsUp(t)
      PROVE  HistoryInv'
  BY <1>2 DEF SubmitterHangsUp, Go
<1>3. ASSUME NEW t \in Task, Reap(t)
      PROVE  HistoryInv'
  BY <1>3 DEF Reap, NoWriteInFlight, Absent
<1>4. ASSUME NEW c \in Client, NEW t \in Task, Cancel(c, t)
      PROVE  HistoryInv'
  BY <1>4 DEF Cancel
<1>5. ASSUME NEW c \in Client, NEW t \in Task, CancelHistory(c, t)
      PROVE  HistoryInv'
  BY <1>5 DEF CancelHistory
<1>6. ASSUME NEW c \in Client, NEW t \in Task, Retry(c, t)
      PROVE  HistoryInv'
  BY <1>6 DEF Retry
<1>7. ASSUME NEW c \in Client, ClientWrites(c)
      PROVE  HistoryInv'
  BY <1>7, QueueAssumption DEF ClientWrites, WriteRow, Resting
<1>8. ASSUME NEW c \in Client, ClientHangsUp(c)
      PROVE  HistoryInv'
  BY <1>8, QueueAssumption DEF ClientHangsUp, Resting
<1>9. CASE Pause \/ Resume \/ (\E n \in Limits : SetMaxConcurrent(n)) \/ UNCHANGED vars
  BY <1>9 DEF Pause, Resume, SetMaxConcurrent, vars
<1>10. CASE Restart
  BY <1>10, QueueAssumption DEF Restart, Absent, Resting, Swept
<1>11. QED
  BY <1>1, <1>2, <1>3, <1>4, <1>5, <1>6, <1>7, <1>8, <1>9, <1>10, HistoryWorkerStep
  DEF Next, TaskStep, ClientStep

LEMMA CompletedStep ==
  ASSUME TypeOK, RestInv, HistoryInv, [Next]_vars
  PROVE  \A t \in Task : row[t] = "completed" => row'[t] = "completed"
<1> USE DEF HistoryInv, HistoryTask, NoHandler
<1>1. ASSUME NEW t \in Task, WorkerStep(t), row[t] = "completed"
      PROVE  row' = row
  <2>1. CASE Insert(t) \/ Start(t) \/ MarkStarted(t)
    BY <1>1, <2>1 DEF Insert, Start, MarkStarted
  <2>2. CASE ReadPaused(t) \/ ReadLimit(t) \/ CountActive(t) \/ Admit(t)
    BY <2>2 DEF ReadPaused, ReadLimit, CountActive, Admit
  <2>3. CASE Finish(t, "completed") \/ Finish(t, "failed")
    BY <2>3 DEF Finish
  <2>4. CASE PersistOutcome(t)
    BY <1>1, <2>4 DEF PersistOutcome
  <2>5. QED BY <1>1, <2>1, <2>2, <2>3, <2>4 DEF WorkerStep
<1>2. ASSUME NEW t \in Task, SubmitterHangsUp(t)
      PROVE  \A u \in Task : row[u] = "completed" => row'[u] = "completed"
  BY <1>2 DEF SubmitterHangsUp, TypeOK
<1>3. ASSUME NEW c \in Client, ClientWrites(c)
      PROVE  \A u \in Task : row[u] = "completed" => row'[u] = "completed"
  BY <1>3 DEF ClientWrites, WriteRow, TypeOK
<1>4. CASE Restart
  BY <1>4 DEF Restart, Swept
<1>5. CASE row' = row
  BY <1>5
<1>6. ASSUME NEW t \in Task, TaskStep(t)
      PROVE  \A u \in Task : row[u] = "completed" => row'[u] = "completed"
  <2>1. CASE WorkerStep(t)
    BY <1>1, <2>1, WorkerRowIsLocal
  <2>2. CASE ~WorkerStep(t) /\ ~SubmitterHangsUp(t)
    BY <1>6, <2>2, <1>5 DEF TaskStep, Submit, Reap
  <2>3. QED BY <1>2, <2>1, <2>2
<1>7. ASSUME NEW c \in Client, ClientStep(c)
      PROVE  \A u \in Task : row[u] = "completed" => row'[u] = "completed"
  BY <1>3, <1>7 DEF ClientStep, Cancel, CancelHistory, Retry, ClientHangsUp
<1>8. QED
  BY <1>4, <1>5, <1>6, <1>7 DEF Next, Pause, Resume, SetMaxConcurrent, vars

\* History keeps a completed review for good when the REST API alone feeds the
\* queue: no cancellation, retry or sweep still under way overwrites it.
THEOREM CompletedRowKept ==
  ASSUME Kinds = {"rest"}
  PROVE  Spec => CompletedRowStays
<1>1. Init => HistoryInv
  BY QueueAssumption DEF Init, HistoryInv, HistoryTask, NoHandler, Resting
<1>2. TypeOK /\ RestInv /\ HistoryInv /\ [Next]_vars => HistoryInv'
  BY HistoryStep
<1>3. TypeOK /\ RestInv /\ HistoryInv /\ [Next]_vars
      => [\A t \in Task : row[t] = "completed" => row'[t] = "completed"]_vars
  BY CompletedStep
<1>4. QED
  BY <1>1, <1>2, <1>3, TypeCorrect, RestCorrect, PTL DEF Spec, CompletedRowStays
=============================================================================
