--------------------------- MODULE TaskLifecycle ---------------------------
(***************************************************************************)
(* What the task queue promises about one review task, as the comment on   *)
(* TaskState (server/task_queue.rs) and the queue API describe it: a task  *)
(* waits, runs and ends; it can be cancelled until it has ended, and a     *)
(* cancellation is final; only a failed task can be queued again; and the  *)
(* reaper forgets ended tasks only.  Nothing is said here of workers,      *)
(* limits or the database.                                                 *)
(***************************************************************************)
CONSTANTS Task

VARIABLE state

Terminal == {"completed", "failed", "cancelled"}
LifecycleState == {"absent", "pending", "running"} \cup Terminal

Move(t, from, to) ==
  /\ state[t] \in from
  /\ state' = [state EXCEPT ![t] = to]

Create(t)    == Move(t, {"absent"}, "pending")
Begin(t)     == Move(t, {"pending"}, "running")
Succeed(t)   == Move(t, {"running"}, "completed")
Fail(t)      == Move(t, {"running"}, "failed")
Cancel(t)    == Move(t, {"pending", "running"}, "cancelled")
Requeue(t)   == Move(t, {"failed"}, "pending")
Forget(t)    == Move(t, Terminal, "absent")

\* The process dies: the queue lives in memory only.
Wipe == state' = [t \in Task |-> "absent"]

Init == state = [t \in Task |-> "absent"]

Next == \/ \E t \in Task : \/ Create(t) \/ Begin(t) \/ Succeed(t) \/ Fail(t)
                           \/ Cancel(t) \/ Requeue(t) \/ Forget(t)
        \/ Wipe

Spec == Init /\ [][Next]_state
=============================================================================
