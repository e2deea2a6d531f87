--------------------------- MODULE ReviewPipeline ---------------------------
(***************************************************************************)
(* The expert pass of one review (team/orchestrator/pipeline.rs and        *)
(* mod.rs): the diff is split and routed to the team, the lead gives an    *)
(* overview, every expert task takes a permit of the semaphore, then a     *)
(* place in the rate limiter's window, then calls the LLM, and join_all    *)
(* collects the results into reports, errors and the file coverage.        *)
(*                                                                         *)
(* An expert has at most one task, so a task is named by its expert.  The  *)
(* chunker is left open: a plan holds any chunks it may produce.  An LLM   *)
(* call (LlmFallback) ends in a report or an error.                        *)
(*                                                                         *)
(* RateLimiter (llm/rate_limiter.rs) is a sliding window over the requests *)
(* and the tokens that were let through.  A caller holds the lock for one  *)
(* whole round of the acquire loop, so a round is one action; the caller   *)
(* sleeps without the lock and starts over.  Time is kept as the age of    *)
(* each entry, in ticks, stopped one tick past the window, from where on   *)
(* the entry is expired.  The clock is Instant::now() with nanosecond      *)
(* resolution, read after the lock was taken: two rounds never read the    *)
(* same instant (ticked).                                                  *)
(***************************************************************************)
EXTENDS Integers, Sequences, SequencesExt, FiniteSets, FiniteSetsExt

-----------------------------------------------------------------------------
(* The rate limiter.                                                       *)

CONSTANTS
  Window,   \* ticks
  Limits    \* the limits configured: records of rpm and tpm

ASSUME LimiterAssumption ==
  /\ Window \in Nat \ {0}
  /\ \A l \in Limits : l.rpm \in Nat /\ l.tpm \in Nat

VARIABLES
  limits,         \* max_rpm, max_tpm
  request_times,  \* ages of the requests let through, oldest first
  token_entries,  \* ages and token counts of the same
  ticked          \* whether the clock moved since it was last read

limiterVars == <<limits, request_times, token_entries, ticked>>

Ages == 0..(Window + 1)

Expired(age) == age > Window

-----------------------------------------------------------------------------
LimiterInit ==
  /\ limits \in Limits
  /\ request_times = <<>>
  /\ token_entries = <<>>
  /\ ticked = TRUE

\* while let Some(front): pop it if it is expired, else stop.
Pruned(queue, ages) ==
  LET live == {k \in DOMAIN queue : ~Expired(ages[k])}
  IN IF live = {} THEN <<>> ELSE SubSeq(queue, Min(live), Len(queue))

LiveRequests == Pruned(request_times, request_times)

LiveTokens ==
  Pruned(token_entries, [k \in DOMAIN token_entries |-> token_entries[k].age])

TokenSum(queue) == MapThenSumSet(LAMBDA k : queue[k].tokens, DOMAIN queue)

\* How long until the front entry leaves the window; 0 stands for None.
WaitFor(age) == IF age < Window THEN Window - age ELSE 0

\* Fault: the request that reaches the limit is let through.
RpmWaitTooLate ==
  IF Len(LiveRequests) > limits.rpm /\ LiveRequests # <<>>
  THEN WaitFor(LiveRequests[1]) ELSE 0

RpmWait ==
  IF Len(LiveRequests) >= limits.rpm /\ LiveRequests # <<>>
  THEN WaitFor(LiveRequests[1]) ELSE 0

TpmWait(count) ==
  IF TokenSum(LiveTokens) + count > limits.tpm /\ LiveTokens # <<>>
  THEN WaitFor(LiveTokens[1].age) ELSE 0

LimiterWait(count) == Max({RpmWait, TpmWait(count)})

\* acquire refuses a limit of zero before it looks at the window.
LimiterRefuses ==
  /\ limits.rpm = 0 \/ limits.tpm = 0
  /\ UNCHANGED limiterVars

\* One round of the loop that records the request.
LimiterAdmits(count) ==
  /\ limits.rpm > 0 /\ limits.tpm > 0
  /\ ticked
  /\ LimiterWait(count) = 0
  /\ request_times' = Append(LiveRequests, 0)
  /\ token_entries' = Append(LiveTokens, [age |-> 0, tokens |-> count])
  /\ ticked' = FALSE
  /\ UNCHANGED limits

\* One round of the loop that ends in a sleep.
LimiterDefers(count) ==
  /\ limits.rpm > 0 /\ limits.tpm > 0
  /\ ticked
  /\ LimiterWait(count) > 0
  /\ request_times' = LiveRequests
  /\ token_entries' = LiveTokens
  /\ ticked' = FALSE
  /\ UNCHANGED limits

Older(age) == Min({age + 1, Window + 1})

LimiterTick ==
  /\ request_times' = [k \in DOMAIN request_times |-> Older(request_times[k])]
  /\ token_entries' =
       [k \in DOMAIN token_entries |-> [token_entries[k] EXCEPT !.age = Older(@)]]
  /\ ticked' = TRUE
  /\ UNCHANGED limits

-----------------------------------------------------------------------------
(* The two queues record the same requests.                                *)
LimiterTypeOK ==
  /\ limits \in Limits
  /\ request_times \in Seq(Ages)
  /\ request_times = [k \in DOMAIN token_entries |-> token_entries[k].age]
  /\ ticked \in BOOLEAN

(* What max_rpm promises: in no window of that length were more requests   *)
(* let through than the limit.                                             *)
RpmWithinWindow ==
  limits.rpm > 0 =>
    Cardinality({k \in DOMAIN request_times : request_times[k] < Window}) <= limits.rpm

-----------------------------------------------------------------------------
(* The expert pass.                                                        *)

CONSTANTS
  Team,        \* number of experts without the aggregator
  Plans,       \* the diffs and team configurations considered, see below
  NoPlan,
  CapSettings, \* max_concurrent_llm_calls: NoCap, or a number
  NoCap,
  DefaultCap,  \* DEFAULT_LLM_CONCURRENCY
  TokenCounts  \* estimated tokens of a task's diff

ASSUME PipelineAssumption ==
  /\ Team \in Nat
  /\ DefaultCap \in Nat \ {0}
  /\ TokenCounts \subseteq Nat
  /\ CapSettings \subseteq Nat \cup {NoCap}
  /\ \A p \in Plans : p.reviewers \in 0..Team

VARIABLES
  stage,      \* "assess", "overview", "experts", then "succeeded" or "failed"
  plan,       \* the input, NoPlan once the tasks are built
  chunks,     \* the chunks of the diff
  cap,        \* size of the semaphore
  tasks,      \* chunks and files (task_files) of the task of each busy expert
  state,      \* of each task
  tokens,     \* estimated_tokens of each task
  sleeping,   \* ticks left of a task's sleep in the limiter
  unreviewed  \* FileCoverage::unreviewed_files

pipelineVars == <<stage, plan, chunks, cap, tasks, state, tokens, sleeping, unreviewed>>
vars == <<pipelineVars, limiterVars>>

TaskIds == DOMAIN tasks

Files == UNION ToSet(chunks)

\* The permit lives as long as the task's future runs past its first await.
Holding == {t \in TaskIds : state[t] \in {"limiting", "sleeping", "calling"}}

Reports == {t \in TaskIds : state[t] = "report"}

ErrorsOf == {t \in TaskIds : state[t] = "error"}

\* Fault: a configured limit of zero is taken at its word.
ConcurrentCallsUnchecked(setting) == IF setting = NoCap THEN DefaultCap ELSE setting

ConcurrentCalls(setting) == IF setting \in {NoCap, 0} THEN DefaultCap ELSE setting

-----------------------------------------------------------------------------
(* route_chunks (diff/large_pr.rs): which expert of the team reviews which *)
(* chunk of a large diff.  A plan is a record: chunks, the sequence of the *)
(* sets of files that the chunker produced (a file split by hunks is in    *)
(* several); large, whether the diff is routed; reviewers, how many        *)
(* experts have the review command; wants, the files each expert's trigger *)
(* accepts; matches, the chunks in which each expert's content patterns    *)
(* occur; and quota, max_chunks_per_expert, 0 for no quota.  The passes of *)
(* the code treat one expert independently of the others once the owners   *)
(* are fixed, so each pass is one expression per expert.                   *)

ChunkIds(p) == [c \in 1..Len(p.chunks) |-> c]

Accepts(p, e, c) == p.chunks[c] \cap p.wants[e] # {}

Candidates(p, c) ==
  SelectSeq([e \in 1..p.reviewers |-> e], LAMBDA e : Accepts(p, e, c))

\* candidates[ci % candidates.len()], with ci counted from zero.
Owner(p, c) ==
  LET candidates == Candidates(p, c)
  IN candidates[((c - 1) % Len(candidates)) + 1]

\* The first n elements, all if there are fewer.
Take(seq, n) == SubSeq(seq, 1, Min({n, Len(seq)}))

\* Phase 1: round-robin ownership among the experts that accept the chunk.
Owned(p, e) ==
  SelectSeq(ChunkIds(p),
            LAMBDA c : Candidates(p, c) # <<>> /\ Owner(p, c) = e)

\* Phase 2: chunks its content patterns match, while the quota lasts.
WithMatches(p, e) ==
  LET held == Owned(p, e)
      more == SelectSeq(ChunkIds(p),
                        LAMBDA c : c \in p.matches[e] /\ c \notin ToSet(held))
  IN IF p.quota = 0 THEN held \o more
     ELSE held \o Take(more, Max({0, p.quota - Len(held)}))

\* chunks.len().div_ceil(n).min(max_chunks_per_expert)
FairShare(p) ==
  Min({(Len(p.chunks) + p.reviewers - 1) \div p.reviewers, p.quota})

\* Phase 3: an expert below the fair share gets the first chunks it may hold.
Balanced(p, e) ==
  LET held == WithMatches(p, e)
      more == SelectSeq(ChunkIds(p),
                        LAMBDA c : Accepts(p, e, c) /\ c \notin ToSet(held))
  IN IF p.quota = 0 THEN held
     ELSE held \o Take(more, Max({0, FairShare(p) - Len(held)}))

\* Fault: the quota is enforced before the last pass only.
AssignedUntruncated(p, e) == Balanced(p, e)

\* Phase 4: the quota, by number of chunks.
Assigned(p, e) ==
  IF p.quota = 0 THEN Balanced(p, e) ELSE Take(Balanced(p, e), p.quota)

\* The experts with something to review, and their chunks.
RouteChunks(p) ==
  [e \in {x \in 1..p.reviewers : Assigned(p, x) # <<>>} |-> Assigned(p, e)]

-----------------------------------------------------------------------------
Init ==
  /\ stage = "assess"
  /\ plan \in Plans
  /\ chunks = <<>>
  /\ cap \in {ConcurrentCalls(s) : s \in CapSettings}
  /\ tasks = <<>>
  /\ state = <<>>
  /\ tokens = <<>>
  /\ sleeping = <<>>
  /\ unreviewed = {}
  /\ LimiterInit

\* The files that a task's chunks hold.
TaskFiles(held) == UNION {plan.chunks[c] : c \in ToSet(held)}

\* assess_and_chunk_diff: a large diff is routed by chunks, of any other one
\* every expert gets all of it.
Assignments ==
  IF plan.large THEN RouteChunks(plan) ELSE [e \in 1..Team |-> ChunkIds(plan)]

\* run_experts_inner up to the lead overview; the diff of each task, and so
\* its estimated tokens, follow from its chunks.
AssessAndChunkDiff ==
  /\ stage = "assess"
  /\ stage' = "overview"
  /\ plan' = NoPlan
  /\ chunks' = plan.chunks
  /\ LET assigned == Assignments
     IN /\ tasks' = [e \in DOMAIN assigned |->
                       [chunks |-> assigned[e], files |-> TaskFiles(assigned[e])]]
        /\ state' = [e \in DOMAIN assigned |-> "waiting"]
        /\ tokens' \in [DOMAIN assigned -> TokenCounts]
        /\ sleeping' = [e \in DOMAIN assigned |-> 0]
  /\ UNCHANGED <<cap, unreviewed, limiterVars>>

\* build_lead_overview: the only contender for a permit; the expert tasks
\* start whether it succeeds or not.
LeadOverview ==
  /\ stage = "overview"
  /\ stage' = "experts"
  /\ UNCHANGED <<plan, chunks, cap, tasks, state, tokens, sleeping, unreviewed, limiterVars>>

TakePermit(t) ==
  /\ stage = "experts"
  /\ state[t] = "waiting"
  /\ Cardinality(Holding) < cap
  /\ state' = [state EXCEPT ![t] = "limiting"]
  /\ UNCHANGED <<stage, plan, chunks, cap, tasks, tokens, sleeping, unreviewed, limiterVars>>

\* The window has room, or the limiter refuses and the task goes on anyway.
PassLimiter(t) ==
  /\ state[t] = "limiting"
  /\ LimiterAdmits(tokens[t]) \/ LimiterRefuses
  /\ state' = [state EXCEPT ![t] = "calling"]
  /\ UNCHANGED <<stage, plan, chunks, cap, tasks, tokens, sleeping, unreviewed>>

SleepInLimiter(t) ==
  /\ state[t] = "limiting"
  /\ LimiterDefers(tokens[t])
  /\ state' = [state EXCEPT ![t] = "sleeping"]
  /\ sleeping' = [sleeping EXCEPT ![t] = LimiterWait(tokens[t])]
  /\ UNCHANGED <<stage, plan, chunks, cap, tasks, tokens, unreviewed>>

Wake(t) ==
  /\ state[t] = "sleeping"
  /\ sleeping[t] = 0
  /\ state' = [state EXCEPT ![t] = "limiting"]
  /\ UNCHANGED <<stage, plan, chunks, cap, tasks, tokens, sleeping, unreviewed, limiterVars>>

\* complete_with_fallback answers, and the future ends with its report.
ExpertReports(t) ==
  /\ state[t] = "calling"
  /\ state' = [state EXCEPT ![t] = "report"]
  /\ UNCHANGED <<stage, plan, chunks, cap, tasks, tokens, sleeping, unreviewed, limiterVars>>

\* The prompt cannot be built, or every provider of the chain failed.
ExpertFails(t) ==
  /\ state[t] = "calling"
  /\ state' = [state EXCEPT ![t] = "error"]
  /\ UNCHANGED <<stage, plan, chunks, cap, tasks, tokens, sleeping, unreviewed, limiterVars>>

\* The clock; a sleep counts down with it.
Tick ==
  /\ stage = "experts"
  /\ LimiterTick
  /\ sleeping' = [t \in TaskIds |-> Max({0, sleeping[t] - 1})]
  /\ UNCHANGED <<stage, plan, chunks, cap, tasks, state, tokens, unreviewed>>

Joined == stage = "experts" /\ \A t \in TaskIds : state[t] \in {"report", "error"}

\* Fault: every routed file counts as reviewed.
UnreviewedIgnoringErrors == Files \ UNION {tasks[t].files : t \in TaskIds}

\* Only files of a task that produced a report count as reviewed.
Unreviewed == Files \ UNION {tasks[t].files : t \in Reports}

\* reports.is_empty() && !errors.is_empty()
AllExpertsFailed == Reports = {} /\ ErrorsOf # {}

\* join_all is over: coverage accounting, and the verdict of run_experts.
CollectResults ==
  /\ Joined
  /\ unreviewed' = Unreviewed
  /\ \/ AllExpertsFailed /\ stage' = "failed"
     \/ ~AllExpertsFailed /\ stage' = "succeeded"
  /\ UNCHANGED <<plan, chunks, cap, tasks, state, tokens, sleeping, limiterVars>>

Ended == stage \in {"succeeded", "failed"} /\ UNCHANGED vars

ExpertStep(t) ==
  \/ TakePermit(t)
  \/ PassLimiter(t)
  \/ SleepInLimiter(t)
  \/ Wake(t)
  \/ ExpertReports(t)
  \/ ExpertFails(t)

Next ==
  \/ AssessAndChunkDiff
  \/ LeadOverview
  \/ \E t \in TaskIds : stage = "experts" /\ ExpertStep(t)
  \/ Tick
  \/ CollectResults
  \/ Ended

Spec == Init /\ [][Next]_vars

\* The runtime polls every future that is ready, time passes, an LLM call
\* ends (the HTTP client's timeout and a bounded number of retries), and
\* tokio's mutex and semaphore serve their waiters in order, so a task is not
\* overtaken for ever on its way into the limiter.
LiveSpec ==
  /\ Spec
  /\ WF_vars(AssessAndChunkDiff) /\ WF_vars(LeadOverview) /\ WF_vars(Tick)
  /\ WF_vars(CollectResults)
  /\ \A t \in 1..Team :
       /\ WF_vars(t \in TaskIds /\ (TakePermit(t) \/ Wake(t)))
       /\ WF_vars(t \in TaskIds /\ stage = "experts" /\ (ExpertReports(t) \/ ExpertFails(t)))
       /\ SF_vars(t \in TaskIds /\ stage = "experts" /\ (PassLimiter(t) \/ SleepInLimiter(t)))

-----------------------------------------------------------------------------
(* The type invariant.                                                     *)
TypeOK ==
  /\ stage \in {"assess", "overview", "experts", "succeeded", "failed"}
  /\ plan \in Plans \cup {NoPlan}
  /\ cap \in Nat
  /\ TaskIds \subseteq 1..Team
  /\ state \in [TaskIds -> {"waiting", "limiting", "sleeping", "calling", "report", "error"}]
  /\ tokens \in [TaskIds -> TokenCounts]
  /\ sleeping \in [TaskIds -> 0..Window]
  /\ unreviewed \subseteq Files
  /\ LimiterTypeOK

\* A task of the next state holds the chunk.
RoutedTo(c) == \E t \in DOMAIN tasks' : c \in ToSet(tasks'[t].chunks)

(* What route_chunks promises when it splits a large diff, whatever the    *)
(* team and the diff: no expert gets a chunk twice, one it has no reason   *)
(* to see, or more than the quota; and without a quota every chunk that    *)
(* some expert accepts is routed.                                          *)
RoutingIsSound ==
  [][AssessAndChunkDiff /\ plan.large =>
      /\ \A t \in DOMAIN tasks' :
           /\ IsInjective(tasks'[t].chunks)
           /\ plan.quota > 0 => Len(tasks'[t].chunks) <= plan.quota
           /\ \A c \in ToSet(tasks'[t].chunks) :
                \/ Accepts(plan, t, c)
                \/ c \in plan.matches[t]
      /\ plan.quota = 0 =>
           \A c \in DOMAIN plan.chunks : Candidates(plan, c) # <<>> => RoutedTo(c)]_vars

(* The verdict and the coverage of the review (run_experts_inner,          *)
(* run_experts): a file is off the list of unreviewed files only if some   *)
(* expert who had a part of it reported, a review that succeeds although   *)
(* experts were asked has a report, and one that fails has none.           *)
HonestOutcome ==
  /\ stage \in {"succeeded", "failed"} =>
       \A f \in Files \ unreviewed :
         \E t \in TaskIds : state[t] = "report" /\ f \in tasks[t].files
  /\ stage = "succeeded" /\ TaskIds # {} => \E t \in TaskIds : state[t] = "report"
  /\ stage = "failed" => unreviewed = Files

(* The state of the tasks is well formed and what is reported of them true. *)
OutcomeIsSound == TypeOK /\ HonestOutcome

(* The review ends: nobody waits for ever for a permit, in the limiter or  *)
(* on join_all, whatever the limits are set to.                            *)
ReviewEnds == <>(stage \in {"succeeded", "failed"})
=============================================================================
