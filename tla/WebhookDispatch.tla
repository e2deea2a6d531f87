-------------------------- MODULE WebhookDispatch ---------------------------
(***************************************************************************)
(* The webhook review path of the server: deliveries from GitLab           *)
(* (server/gitlab/hooks.rs) and GitHub (server/github.rs) compete for a    *)
(* merge request through the dispatcher, and the one that gets Go spawns a *)
(* background review (run_webhook_review, run_review_common in             *)
(* server/mod.rs).  The two platforms have the same control, so one        *)
(* delivery stands for both.                                               *)
(*                                                                         *)
(* The merge request itself is the environment: its head moves by pushes,  *)
(* and a review reads the diff of the head it finds, not of the commit its *)
(* delivery announced.                                                     *)
(***************************************************************************)
EXTENDS MrDispatcher, FiniteSets, TLC

CONSTANTS
  Delivery,   \* webhook deliveries, each handled by one request handler
  Rev,        \* commits that may be pushed
  Content,    \* Content[r]: fingerprint of the diff at commit r
  Crashes     \* how many times the process may restart

\* A /review comment dispatches under a made-up id (note_<uuid>, cmd_<uuid>):
\* the delivery itself stands for it.
ASSUME WebhookAssumption ==
  /\ Sha = Rev \cup Delivery
  /\ Rev \cap Delivery = {}
  /\ Waiter = Delivery
  /\ Content \in [Rev -> Fingerprint]
  /\ Crashes \in Nat
  /\ None \notin Mr

VARIABLES
  handler,    \* the request handlers
  task,       \* the background review each handler may have spawned
  head,       \* the head commit of each merge request
  \* History, read by the properties only:
  pushed,     \* commits a merge request has had as its head
  rewound,    \* a merge request went back to an earlier commit
  reviewed,   \* contents a finished review covered
  posted,     \* what the last round posted on the merge request, if anything
  unrecorded, \* a round was posted by a review that died before recording it
  overran,    \* some review outlived the running-marker timeout
  crashes     \* restarts so far

historyVars == <<pushed, rewound, reviewed, posted, unrecorded, overran, crashes>>
vars == <<dispatcherVars, handler, task, head, historyVars>>

HandlerPc == {"unsent", "received", "waiting", "retry", "spawned", "skipped",
              "dropped", "dead"}
TaskPc == {"none", "fetch", "gate", "review", "published", "completed",
           "skipped", "failed", "dead"}

HandlerState == [pc : HandlerPc, kind : {"push", "note"},
                 mr : Mr \cup {None}, sha : Sha \cup {None}]
TaskState == [pc : TaskPc, fp : Fingerprint \cup {None}, age : 0 .. Timeout]

TypeOK ==
  /\ DispatcherTypeOK
  /\ handler \in [Delivery -> HandlerState]
  /\ task \in [Delivery -> TaskState]
  /\ head \in [Mr -> Rev]
  /\ pushed \in [Mr -> SUBSET Rev]
  /\ rewound \in [Mr -> BOOLEAN]
  /\ reviewed \in [Mr -> SUBSET Fingerprint]
  /\ posted \in [Mr -> Fingerprint \cup {None}]
  /\ unrecorded \in [Mr -> BOOLEAN]
  /\ overran \in [Mr -> BOOLEAN]
  /\ crashes \in 0 .. Crashes

NoHandler == [pc |-> "unsent", kind |-> "push", mr |-> None, sha |-> None]
NoTask == [pc |-> "none", fp |-> None, age |-> 0]

Init ==
  /\ DispatcherInit
  /\ handler = [d \in Delivery |-> NoHandler]
  /\ task = [d \in Delivery |-> NoTask]
  /\ head \in [Mr -> Rev]
  /\ pushed = [u \in Mr |-> {head[u]}]
  /\ rewound = [u \in Mr |-> FALSE]
  /\ reviewed = [u \in Mr |-> {}]
  /\ posted = [u \in Mr |-> None]
  /\ unrecorded = [u \in Mr |-> FALSE]
  /\ overran = [u \in Mr |-> FALSE]
  /\ crashes = 0

-----------------------------------------------------------------------------
Active == {"fetch", "gate", "review", "published"}
ActiveOn(u) == {d \in Delivery : handler[d].mr = u /\ task[d].pc \in Active}

\* The environment: a push moves the head and announces the new commit; the
\* first delivery for a merge request announces the head it opened with.
Push(d, u, r) ==
  /\ handler[d].pc = "unsent"
  /\ r # head[u]
  /\ head' = [head EXCEPT ![u] = r]
  /\ pushed' = [pushed EXCEPT ![u] = @ \cup {r}]
  /\ rewound' = [rewound EXCEPT ![u] = @ \/ r \in pushed[u]]
  /\ handler' = [handler EXCEPT ![d] = [pc |-> "received", kind |-> "push",
                                        mr |-> u, sha |-> r]]
  /\ UNCHANGED <<dispatcherVars, task, reviewed, posted, unrecorded, overran, crashes>>

\* Opening the merge request, or GitLab delivering the same event again.
Announce(d, u) ==
  /\ handler[d].pc = "unsent"
  /\ handler' = [handler EXCEPT ![d] = [pc |-> "received", kind |-> "push",
                                        mr |-> u, sha |-> head[u]]]
  /\ UNCHANGED <<dispatcherVars, task, head, historyVars>>

\* A /review or /describe comment.
Comment(d, u) ==
  /\ handler[d].pc = "unsent"
  /\ handler' = [handler EXCEPT ![d] = [pc |-> "received", kind |-> "note",
                                        mr |-> u, sha |-> d]]
  /\ UNCHANGED <<dispatcherVars, task, head, historyVars>>

-----------------------------------------------------------------------------
HandlerAt(d, from, to) ==
  /\ handler[d].pc = from
  /\ handler' = [handler EXCEPT ![d] = [@ EXCEPT !.pc = to]]

\* tokio::spawn(run_webhook_review): the review runs on after the handler.
SpawnReview(d) ==
  /\ task' = [task EXCEPT ![d] = [pc |-> "fetch", fp |-> None, age |-> 0]]
  /\ UNCHANGED <<head, historyVars>>

NoReview == UNCHANGED <<task, head, historyVars>>

\* dispatch_mr_event, and the try_start of handle_note_hook.
DispatchGo(d) ==
  /\ HandlerAt(d, "received", "spawned")
  /\ TryStart(handler[d].mr, handler[d].sha, "Go")
  /\ SpawnReview(d)

DispatchAlreadyReviewed(d) ==
  /\ HandlerAt(d, "received", "skipped")
  /\ TryStart(handler[d].mr, handler[d].sha, "AlreadyReviewed")
  /\ NoReview

\* handle_mr_in_progress: a push waits for the running review.
DispatchInProgress(d) ==
  /\ handler[d].kind = "push"
  /\ HandlerAt(d, "received", "waiting")
  /\ TryStart(handler[d].mr, handler[d].sha, "InProgress")
  /\ NoReview

\* A comment does not wait.
CommentInProgress(d) ==
  /\ handler[d].kind = "note"
  /\ HandlerAt(d, "received", "dropped")
  /\ TryStart(handler[d].mr, handler[d].sha, "InProgress")
  /\ NoReview

BeginWait(d) ==
  /\ \/ HandlerAt(d, "waiting", "retry") /\ WaitReturnsAtOnce(d, handler[d].mr)
     \/ HandlerAt(d, "waiting", "waiting") /\ WaitLooksUp(d, handler[d].mr)
     \/ HandlerAt(d, "waiting", "waiting") /\ WaitListens(d)
  /\ NoReview

EndWait(d) ==
  /\ HandlerAt(d, "waiting", "retry")
  /\ \/ WaitSeesSignal(d)
     \/ \E o \in {"Completed", "TimedOut"} : WaitReturns(d, o)
  /\ NoReview

RetryGo(d) ==
  /\ HandlerAt(d, "retry", "spawned")
  /\ TryStart(handler[d].mr, handler[d].sha, "Go")
  /\ SpawnReview(d)

\* "No new review needed": anything but Go ends the delivery.
RetryDropped(d) ==
  /\ HandlerAt(d, "retry", "dropped")
  /\ \E o \in {"AlreadyReviewed", "InProgress"} :
       TryStart(handler[d].mr, handler[d].sha, o)
  /\ NoReview

-----------------------------------------------------------------------------
TaskAt(d, from, to) ==
  /\ task[d].pc = from
  /\ task' = [task EXCEPT ![d] = [@ EXCEPT !.pc = to]]

TaskEnds(d, from, how) ==
  /\ task[d].pc = from
  /\ task' = [task EXCEPT ![d] = [pc |-> how, fp |-> None, age |-> 0]]

\* resolve_review_source reads the diff of whatever the head is by now.
FetchDiff(d) ==
  /\ task[d].pc = "fetch"
  /\ task' = [task EXCEPT ![d] = [@ EXCEPT !.pc = "gate",
                                           !.fp = Content[head[handler[d].mr]]]]
  /\ UNCHANGED <<dispatcherVars, handler, head, historyVars>>

FetchFails(d) ==
  /\ TaskEnds(d, "fetch", "failed")
  /\ Reset(handler[d].mr)
  /\ UNCHANGED <<handler, head, historyVars>>

\* gate_unchanged_content: Bypassed for comments, Enabled for pushes.
GateReview(d) ==
  /\ TaskAt(d, "gate", "review")
  /\ \/ handler[d].kind = "note" /\ UNCHANGED dispatcherVars
     \/ /\ handler[d].kind = "push"
        /\ ClaimContent(handler[d].mr, handler[d].sha, task[d].fp, "Review")
  /\ UNCHANGED <<handler, head, historyVars>>

GateSkip(d) ==
  /\ handler[d].kind = "push"
  /\ TaskEnds(d, "gate", "skipped")
  /\ ClaimContent(handler[d].mr, handler[d].sha, task[d].fp, "Skip")
  /\ UNCHANGED <<handler, head, historyVars>>

\* run_review_common: the experts fail (Err, hence reset) ...
ReviewFails(d) ==
  /\ TaskEnds(d, "review", "failed")
  /\ Reset(handler[d].mr)
  /\ UNCHANGED <<handler, head, historyVars>>

\* ... or the round is posted; a failed post is only noted, and an empty diff
\* posts nothing ...
Publish(d) ==
  /\ TaskAt(d, "review", "published")
  /\ \E round \in {task[d].fp, None} :
       posted' = [posted EXCEPT ![handler[d].mr] = round]
  /\ UNCHANGED <<dispatcherVars, handler, head,
                 pushed, rewound, reviewed, unrecorded, overran, crashes>>

\* ... and the dispatcher is told, with the fingerprint that was reviewed.
FinishReview(d) ==
  LET u == handler[d].mr IN
  /\ TaskEnds(d, "published", "completed")
  /\ Complete(u, handler[d].sha, task[d].fp)
  /\ reviewed' = [reviewed EXCEPT ![u] = @ \cup {task[d].fp}]
  /\ UNCHANGED <<handler, head, pushed, rewound, posted, unrecorded, overran, crashes>>

\* The task panics or is aborted: nobody tells the dispatcher.
TaskAborts(d) ==
  /\ task[d].pc \in Active
  /\ TaskEnds(d, task[d].pc, "dead")
  /\ unrecorded' = [unrecorded EXCEPT ![handler[d].mr] = @ \/ task[d].pc = "published"]
  /\ UNCHANGED <<dispatcherVars, handler, head,
                 pushed, rewound, reviewed, posted, overran, crashes>>

-----------------------------------------------------------------------------
OlderTask(t) ==
  IF t.pc \in Active /\ t.age < Timeout THEN [t EXCEPT !.age = t.age + 1] ELSE t

Tick ==
  /\ DispatcherTick
  /\ task' = [d \in Delivery |-> OlderTask(task[d])]
  /\ overran' = [u \in Mr |-> overran[u] \/
                   \E d \in ActiveOn(u) : OlderTask(task[d]).age >= Timeout]
  /\ UNCHANGED <<handler, head, pushed, rewound, reviewed, posted, unrecorded, crashes>>

\* The process dies: handlers and reviews with it, deliveries not yet taken
\* up are sent to its successor.
Restart ==
  /\ crashes < Crashes
  /\ DispatcherRestart
  /\ handler' = [d \in Delivery |->
                   IF handler[d].pc \in {"waiting", "retry"}
                   THEN [handler[d] EXCEPT !.pc = "dead"] ELSE handler[d]]
  /\ task' = [d \in Delivery |->
                IF task[d].pc \in Active
                THEN [pc |-> "dead", fp |-> None, age |-> 0] ELSE task[d]]
  /\ unrecorded' = [u \in Mr |-> unrecorded[u] \/
                      \E d \in ActiveOn(u) : task[d].pc = "published"]
  /\ crashes' = crashes + 1
  /\ UNCHANGED <<head, pushed, rewound, reviewed, posted, overran>>

EnvironmentStep(d) == \E u \in Mr : Announce(d, u) \/ Comment(d, u)
                                    \/ \E r \in Rev : Push(d, u, r)

HandlerStep(d) ==
  \/ DispatchGo(d) \/ DispatchAlreadyReviewed(d)
  \/ DispatchInProgress(d) \/ CommentInProgress(d)
  \/ BeginWait(d) \/ EndWait(d) \/ RetryGo(d) \/ RetryDropped(d)

TaskStep(d) ==
  \/ FetchDiff(d) \/ FetchFails(d) \/ GateReview(d) \/ GateSkip(d)
  \/ ReviewFails(d) \/ Publish(d) \/ FinishReview(d) \/ TaskAborts(d)

Next ==
  \/ \E d \in Delivery : EnvironmentStep(d) \/ HandlerStep(d) \/ TaskStep(d)
  \/ Tick
  \/ Restart

Spec == Init /\ [][Next]_vars

\* The clock runs and the executor polls a handler that can move.  Nothing is
\* assumed of reviews: they may hang, fail or panic.
LiveSpec == Spec /\ WF_vars(Tick) /\ \A d \in Delivery : WF_vars(HandlerStep(d))

-----------------------------------------------------------------------------
(* Properties.                                                             *)

\* Two reviews of one merge request run at the same time only after a review
\* outlived the running-marker timeout; until then a running review is
\* covered by a live marker, which is what keeps the others out.
OneReviewUntilTimeout ==
  \A u \in Mr : ~overran[u] =>
    \A d, e \in ActiveOn(u) : d = e /\ Blocked(status[u])

\* Nobody waits for a review that is over: a delivery inside wait() that has
\* been told nothing waits for a review of its merge request that still runs,
\* or that died without a word and leaves it to its timer.  No wake-up is lost
\* in the window between looking the receiver up and listening on it, none to
\* a method that clears a marker, and none to a restart.  (A file that could
\* not be written may bring back the marker of a review that ended.)
Sleeps(d) == waiter[d].pc # "idle" /\ waiter[d].told = "no"
RunsOrDied(u) == \E d \in Delivery : handler[d].mr = u /\ task[d].pc \in Active \cup {"dead"}
SleepersHaveAReview ==
  ~WriteFailures => \A d \in Delivery : Sleeps(d) => RunsOrDied(waiter[d].mr)

\* A recorded fingerprint, in memory or on disk, is one a finished review
\* covered: the content gate never skips content nobody reviewed.
RecordedWasReviewed ==
  \A u \in Mr : /\ status[u].last_fp \in reviewed[u] \cup {None}
                /\ disk[u].last_fp \in reviewed[u] \cup {None}

\* "Already reviewed" is true of the head: if the recorded commit is the one
\* now at the head, its content went through a finished review, although the
\* review that recorded it read the diff of the head it found, not of its own
\* commit.  (A merge request forced back to an earlier commit is excluded.)
HeadRecordedMeansReviewed ==
  \A u \in Mr : ~rewound[u] /\ status[u].last_sha = head[u]
                  => Content[head[u]] \in reviewed[u]

\* What the table records as done was done (skip_reason answers from it).
RecordIsHonest == TypeOK /\ RecordedWasReviewed /\ HeadRecordedMeansReviewed

\* A push never posts the round that is already on the merge request: a round
\* that was posted and recorded is not repeated, across amends, comments,
\* failed reviews and restarts, until a review outlives the timeout.
NoRepeatedRound ==
  [][\A d \in Delivery :
       LET u == handler[d].mr IN
       /\ task[d].pc = "review" /\ task'[d].pc = "published"
       /\ handler[d].kind = "push"
       /\ ~WriteFailures /\ ~overran[u] /\ ~unrecorded[u]
       => task[d].fp # posted[u]]_vars

\* A deferred review is not dropped while the review it was deferred for is
\* healthy: once every delivery has been handled and every review has ended
\* well and in time, the content at the head has been reviewed.  (A merge
\* request forced back to an earlier commit is excluded.)
EndedWell(d) == /\ handler[d].pc \in {"unsent", "spawned", "skipped", "dropped"}
                /\ task[d].pc \in {"none", "completed", "skipped"}
AnnouncedHead(u) == \E d \in Delivery : handler[d].mr = u /\ handler[d].sha = head[u]
NewestContentReviewed ==
  (\A d \in Delivery : EndedWell(d)) =>
    \A u \in Mr : AnnouncedHead(u) /\ ~rewound[u] /\ ~overran[u]
                    => Content[head[u]] \in reviewed[u]

\* Every delivery is answered: a handler is never left waiting for good, even
\* when the review it waits for hangs or was aborted.
DeliveryAnswered ==
  \A d \in Delivery : handler[d].pc \in {"received", "waiting", "retry"}
                        ~> handler[d].pc \in {"spawned", "skipped", "dropped", "dead"}

\* A merge request is never blocked for good, whatever becomes of its review.
NeverBlockedForGood == \A u \in Mr : []<>(~Blocked(status[u]))

\* Nothing hangs for good: no delivery waits for ever, and no merge request stays blocked.
NothingHangs == DeliveryAnswered /\ NeverBlockedForGood

-----------------------------------------------------------------------------
(* Small instances.                                                        *)

\* All revisions but one carry the same diff (an amend).
Amended ==
  LET other == CHOOSE r \in Rev : TRUE
      shared == CHOOSE f \in Fingerprint : TRUE
  IN  [r \in Rev |-> IF r = other THEN CHOOSE f \in Fingerprint \ {shared} : TRUE ELSE shared]

Interchangeable == Permutations(Delivery)
=============================================================================
