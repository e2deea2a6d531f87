# TLA+ verification of ReviewEngine

ReviewEngine reviews merge requests with a team of LLM experts.  A long-running
server receives webhooks and REST calls, decides which of them start a review,
queues and runs the reviews and posts the results; a command line does the same
for one change at a time, reviews whole repositories and maintains the
installation.  This directory holds models of both, TLC configurations that check
them on small instances, and TLAPS proofs for every size of the instance.

Paths below are relative to the repository's `src/` directory (the Rust crate)
unless they start with `docs/` or `design/`.

## 1. Inventory

| Component | State | Operations | What is hard | What makes it correct |
|---|---|---|---|---|
| Merge request dispatcher, `server/dispatcher.rs` | table of merge requests: running marker with its time, last commit and fingerprint, a watch channel; a JSON file | `try_start`, `claim_content`, `complete`, `reset`, `remove`, `wait`, `load_state` | any number of callers, a timeout that hands the marker over, waits outside the lock, restarts | one review per merge request until the timeout; only reviewed content is recorded; a restart resumes; nobody sleeps for ever |
| Webhook path, `server/gitlab/`, `server/github.rs`, `server/mod.rs` | one handler and one task per delivery; the head on the forge | verify, route, dispatch, wait and retry, fetch, gate, review, publish, finish | the head moves between every two steps; deliveries repeat; settings are saved meanwhile; tasks hang or are aborted | proof before handling, token and address of one platform, no round twice, every delivery answered |
| Task queue, `server/task_queue.rs`, `server/api/queue.rs`, `server/api/review/` | entries in memory, pause flag, limit; a row per task | create, start, admit, finish, cancel, retry, pause, reap, restart | memory under a lock, the row after it; handlers dropped with their connection | the documented life of a task; no leaked slot; rows that tell the truth after a restart |
| Submission and history, `server/api/review/`, `server/api/callback.rs` | requests, rows | submit, rerun, callback, list | settings change in every await; pages are read while rows come | no key stored, keys go to their endpoint, one callback, every review on some page |
| LLM client, `llm/client/mod.rs` | position in the chain, attempt, samples | attempt, back-off, resend without thinking, advance | four ways to leave an entry | bounded cost, verdicts followed, an outcome that agrees with the samples |
| Rate limiter, `llm/rate_limiter.rs` | two sliding windows | `acquire` | callers sleep without the lock; boundaries | no more requests in a window than the limit |
| Routing and expert pipeline, `diff/large_pr.rs`, `team/orchestrator/` | tasks, semaphore, results | assess, route, run, collect | passes that undo each other; permits held through sleeps | the review ends; verdict and coverage are those of the reports |
| Finding passes and publisher, `team/`, `coverage/`, `scoring/`, `publisher/`, `lib.rs` | findings, the board and notes on the forge | parse, validate, verify, adjudicate, consolidate, score, plan, post | every pass may fail and is skipped; answers of the forge get lost | no finding lost or invented silently; what is published is what was planned |
| Diff, context and prompts, `diff/`, `git/`, `input/`, `context/`, `prompt/`, `language/` | none (pure over a diff and a checkout) | parse, filter, compress, chunk, gather, inject, fill | limits, odd names, files that change between two reads | what is reviewed is whole, and what is left out is said |
| Self-upgrade, `server/api/upgrade/`, `upgrade/`, `cli/handlers/upgrade*` | one job; executable, frontend, backup, lock | check, start, download, verify, install, roll back | dropped handlers, crashes between two files, two processes | some executable always runs; a job under way has a worker |
| Configuration, `server/api/config/` | running settings, database, `ui-state.toml` | PUT, import, replay, restart | copies written one after the other, masked secrets | what runs is what a restart reads; secrets stay where they were entered |
| Expert settings, accounts and tests, health, dashboard, catalogue, progress, log (`server/api/*`, `progress/`, `catalog/`) | lists in memory, rows, caches, files | edit, probe, refresh, aggregate, stream | probes in flight while accounts change; caches; restarts | a page speaks of the thing it names, at the time it names |
| Authentication, `server/auth.rs` | token in memory, its file | middleware, replace | replaced during a crash | nobody locked out, nobody else let in |
| Discussion and feedback, `server/api/review/discussion.rs`, `feedback.rs` | stored notes, verdicts | hook, fetch, submit | late and lost hooks | the engine's own notes stay out; accepted verdicts stay |
| Forge clients, `git_provider/` | none | pages, participants, discussions | failures that look like absence | nobody lost in merging, an error is not an empty list |
| Adapters and renderers, `llm/provider.rs`, `llm/client/`, `output/`, `models/` | none | build a request, read an answer, render | answers of any shape; text of a model inside a document | a request goes to the address of its account; a failure keeps its class; no credential or open fence reaches a report |
| Local tools: `config/`, `paths.rs`, `cli/`, `actions/`, `doctor.rs`, `models/secrets.rs`, `config/secrets.rs`, `compliance/`, `repo/` | files | resolve settings, edit them, repair the store, redact, check tickets, review a repository | precedence, partial failure, truncation | see `tools` in section 3 |

Not modelled: section 6.  `PROJECT.json` lists every component with its status.

How the parts interact: a webhook is verified and routed (`WebhookIntake`), its
handler asks the dispatcher (`try_start`) and spawns a task that records itself in
the queue, fetches the diff, passes the content gate (`claim_content`), runs the
expert pipeline, publishes, and tells the dispatcher (`complete` or `reset`).  A
REST submission goes to the queue, whose worker waits for admission and runs the
same pipeline.  Every expert takes a permit and a place in the rate window and makes
one `complete_with_fallback` call; the answers go through the finding passes to the
publisher.  The settings all of them read are those of the configuration API, and
the pages of the server report on them.

## 2. Modules

| Module | Models | Used by |
|---|---|---|
| `MrDispatcher` | `server/dispatcher.rs`; `DispatcherSpec` is the dispatcher under its most general caller | `WebhookDispatch`, proofs |
| `WebhookDispatch` | handlers and review tasks of deliveries, composed with the dispatcher | run directly, proofs |
| `TaskLifecycle` | abstract: the life of a task as `TaskState` documents it | `TaskQueue` (refinement) |
| `TaskQueue` | the queue, its workers, handlers and rows | run directly, proofs |
| `LlmFallback` | `complete_with_fallback` | `MCReviewRound`, proofs |
| `ReviewPipeline` | `acquire` of the rate limiter; `route_chunks`; the expert pass that uses both | `MCReviewPipeline`, proofs |
| `FindingPasses`, `PublishPlan`, `ReviewRound` | the passes over findings, coverage and score, the plan of notes, and the round that runs them and publishes | `MCReviewRound`, proofs |
| `Subsequences` | the elements of a sequence at given positions, as a recursive function, with the theorems about it | the configuration and the passes, proofs |
| `UpgradeJob`, `CliUpgrade` | the upgrade of a server, and of an executable by the command | `MCUpgrade` |
| `LlmSection`, `ConfigStore`, `GitPlatforms` | resolution of the provider cards, PUT /config with its stores and restarts, identities of platform entries | `MCConfig`, proofs |
| `ApiAuth`, `ExpertSettings`, `ProviderHealth`, `SystemHealth`, `ProgressBoard`, `DiscussionNotes` | one service of the server each (`SystemHealth` also the catalogue, `DiscussionNotes` also the verdicts of users) | `MCServer` |
| `GitRouting`, `WebhookIntake`, `ReviewRequests` | which platform a URL belongs to; deliveries and REST requests up to the worker; the history | `MCServer` |
| `ForgeClients`, `LocalConfig`, `RepoScan`, `RepoScore`, `Compliance`, `CommandLine` | the tools, as operators | `MCTools` |
| `LlmAdapters`, `Reports` | the requests to the providers and what becomes of their answers; the board, the summary of the lead, the aggregated and the team report | `MCTools` |
| `ReviewContext` | what is reviewed and what the experts are told, as operators | `MCTools` |
| `WebhookDispatchProofs` (with the dispatcher), `TaskQueueProofs`, `LlmFallbackProofs`, `ReviewPipelineProofs`, `UpgradeProofs`, `ConfigProofs`, `ReviewRoundProofs` | theorems | |

A definition whose comment begins with "Fault:" is a plausible mistake in the
definition after it.  It is part of no specification; `PROJECT.json` pairs it
with the property that finds it.

Five instances are sums: a behaviour of `MCUpgrade`, `MCConfig`, `MCReviewRound`,
`MCServer` or `MCTools` chooses a `part` at the start and stays in it.  The parts share no state
in the code either (their stores are different tables, files and locks), so
interleaving them would add nothing but states.  In `MCTools` a part is a family of
inputs: one step chooses one, and the property compares what the operators make of
it with a definition of what should come out.

### Correspondence and abstractions

*Dispatcher.*  `status[u]` is the table entry: `known` (the key exists),
`running` (the age of `running_since`, `Idle` for None), `last_sha`, `last_fp`,
`signal` (the value of the watch channel).  Time is the age of a marker in
ticks, stopped at `Timeout`, where `is_expired` holds.  `disk` is the state file;
with `WriteFailures` a save may be lost.  A method holds the lock of the whole
table from its first line to its last, so each is one action.  `wait` holds it only to
look its receiver up, checks the value after that, and then listens: three steps
(`WaitLooksUp`; `WaitSeesSignal` or `WaitListens`; `WaitReturns`), with any method
between them.  A receiver keeps what was sent since it was cloned, a sender that was
dropped included (`told`).  A restart loads the file and drops expired markers.

*Webhook path.*  A delivery has a handler (received, waiting, retry, then
spawned, skipped or dropped) and a review task (fetch, gate, review, published,
then an end).  `head[u]` is the commit on the forge and moves with every push;
`Content` maps commits to fingerprints, with two commits of equal content (an
amend).  A comment that asks for a review uses a key of its own instead of a
commit, as the code does.  A task may be aborted at every step, and never ends if
nobody lets it: no fairness is assumed of it.

*Intake and requests.*  The platform list, the runtime token and the accounts are
read where the code reads them, and may be saved between two reads.  A signature is
a value made from its secret.  A URL is a record of its host, its project and its
kind; that two spellings name one instance is `SameInstance`.  The rows of a
history carry a time and an identity, and a page is what the query gives.  A course
of a review (`Courses`) says how its source, its configuration, the run, the
aggregator and the publication go; `Worked` is what the worker makes of it.

*Task queue.*  `mem[t]` is the entry in the map, `row[t]` its row.  A method is
split where it awaits the database: first half under the lock, second half later,
so the second halves of two methods may cross.  `can_start_new_task` is three
reads and the slot is taken in a fourth step.  `HangUps` lets a client's
connection close in any await of its handler, which drops the handler there;
`DbFailures` lets any write fail; `Crashes` restarts the process, which empties
memory and sweeps the rows before it listens.  The reaper drops an entry half an
hour after `completed_at` and the model assumes that no database call takes that
long (`NoWriteInFlight`).

*LLM client.*  A call shares nothing with others, so a request and what the loop
does about the reply are one action.  Replies are the classes that
`retry_verdict` tells apart, with one representative status per class (3xx, other
4xx, 408, 429, 5xx).  The registry and the direct path differ in none of them.

*Rate limiter.*  A round of the `acquire` loop runs under the lock and is one
action; the sleep is outside it.  Ages are in ticks and stop one past the window.
`ticked` says that the clock moved since it was last read: `Instant` has
nanoseconds and is read after the lock was taken, so two rounds do not read the
same instant.

*Routing and pipeline.*  A plan is one diff with one team: the files of every
chunk, who has the review command, which files each trigger accepts, where
content patterns match, and the quota.  The tasks are built in the action that
splits the diff: nothing in between touches what they are built from, and the lead
overview only delays them.  The estimated tokens of a task are chosen from a set.
An expert's LLM call ends in a report or an error.

*Round.*  A finding keeps its identity, place, severity, confidence and title; the
answers of the model to each batch are open (entries with verdicts for any index,
no list, no answer).  One action per pass in the order of `run_experts_inner`, one
per batch where a pass has batches, one per call of the forge when it publishes.  A
call may fail for good, fail for now, or succeed while its answer is lost.
Batch sizes, the width of a line number and the page of a listing are constants
(`VerifyBatch`, `AdjudicateBatch`, `LineBits`, `PageSize`) so that they can be small.
A publication fails with the chain of contexts the code attaches to the error.

*Upgrade.*  A file of the frontend is what it holds, old, new or nothing, served
or parked beside; a rename is an action that may fail while `MaxFaults` lasts.
With a second failing rename `restore_old_contents` itself loses a file, so the
bound is one.  A crash of the server leaves the files and empties the job; a
handler may be dropped in its await.  `reng upgrade` is a process with a lock file
that ages, a backup and a binary; it may die anywhere.  A container exits
half a second after the job says success, and the model assumes that this is over
before another upgrade has downloaded a release (`Dwelling`).

*Configuration.*  A PUT is one action per lock (`PutRead` copies the projection,
`PutResolve` the running list, `PutConfig`, `PutLlm`, `PutUi` write) and one for the
transaction; a restart is one action per phase of start-up.  A key is what it is, a mask, or
blank.  Deployments say which files, variables and stores a server has.  With
`IdsFromGet` clients send the identities of platform entries they were given.

*Services.*  A read handler is one action and remembers what it showed, where a
property is about it; a write handler is one action per lock or await.  An edit on the
experts page is stored before it is applied, a PUT /config that touches the same row is
applied before it is stored, and either write may fail.  Files and rows survive a
restart and memory does not.  Time is a counter stopped at its
bound.  The samples of the provider cards are rows of a stored database
(`StoredCalls`) that may be absent, may fail, or may hold a time nobody can read; the
cards are checked where a page draws them, with no probe under way (`Drawing`).

*Tools, diff and context.*  Text is abstracted to what the code looks at: a line of
a diff to its marker, its words and its length; a path to its components; a
document to its sections; a command to its ordered steps with the exits between
them, the start of the server included; an answer of the model to the shapes the
parsers tell apart; an address to its parts; a report to the sequence of its pieces,
each with what it is about and the text of a model it shows (a word, a secret or a
fence).  Limits
(`MaxDiffSize`, `MaxExcerpt`, `MaxTickets` and so on) are constants.

## 3. What the runs check

| Run | Result | What it shows | Bounds |
|---|---|---|---|
| `webhook` | pass | `RecoveryLosesNothing`: what a restart would load is the table. `SleepersHaveAReview`: a handler asleep in `wait`, whom no news reached, has a review of its merge request that runs, or one that died and leaves it to its timer (while saves succeed: a file that could not be written may bring back the marker of a review that ended). `OneReviewUntilTimeout`: reviews of a merge request overlap only after one outlived the timeout (after that the property says no more about it); `RecordIsHonest`: what the table records as reviewed was reviewed, and by a review that read that content; `NoRepeatedRound` | three deliveries, three commits of two contents, timeout of one tick, one restart |
| `webhook_live` | pass | `NothingHangs` (every delivery is answered, no merge request is blocked for good), with reviews that may hang and saves that may fail | two deliveries, timeout of two ticks, one restart |
| `webhook_newest` | violation | the newest content may never be reviewed, see section 5 | three deliveries, no restart |
| `queue` | pass | `RunningHasWorker`, `NoOrphanRow`, `QueueDrains` | two tasks of either kind, one client, one restart, hang-ups |
| `queue_rest` | pass | `FollowsLifecycle` (the refinement), `CompletedRowStays` | two REST tasks, two clients, failing writes, one restart |
| `pipeline` | pass | `RoutingIsSound`, `RpmWithinWindow`, `OutcomeIsSound`, `ReviewEnds` | three experts, three chunks, quotas 0 to 2, five settings of the limiter, three of the semaphore |
| `round` | pass | `PassesFailOpen`: no finding is dropped without a ruling on it and none is made graver, whatever the model answers. `ReportAddsUp`: every reported finding ends in one place, and words, counts, coverage and score go with the list that is published. `PublishedAsPlanned`: the notes are those the policy chose, at the lines the forge expects. `PublicationIsTruthful`: success means the board and every note are there; a note is there twice only when an answer was lost. In a part of its own, one call of the model: `RequestsBounded`, `VerdictsAreFollowed` (no entry left without a reason, none asked again in vain), `OutcomeMatchesSamples` | chains of up to two providers and every sequence of replies; eight kinds of round over diffs of two to four files, two experts, batches of two, a page of three discussions, two publications |
| `upgrade` | pass | `JobIsSound`, `InstallationSurvives`, `DirectoryIsSound`, `FailureRestores`, `UpgradeEnds` | the settings of `MCUpgrade`: three installation methods with one start, a check, hang-ups and crashes, or two starts without them; sessions of one process with two deaths, two failing calls and a rollback, or of two processes with a fresh lock; one failing file operation |
| `config` | pass | `StoredProvidersRun`: at rest, unless the last save failed, a stored list of providers that is not empty is the chain reviews walk, on a server whose environment names no provider. `RestartKeepsChain`: a restart runs such a list in its order. `ConfigIsSound`: the types, and that the two copies of the running list agree at rest. `SecretsStayPut`: no key runs or is stored with an endpoint it was not entered for (the openai account excepted, whose endpoint the scalar fields move, see section 5), and the environment's are not written down. `CapInForce`: the page shows the cap the server runs with. `FileKeepsToken`: without a database a restart uses the stored GitLab token. `EntriesKeepIdentity` for git platforms: a save whose entries do not clash leaves ids, names and tokens apart; an entry saved by its id keeps its token even beside a clash; a restart brings back what was stored | one client; three deployments (database, no database, seeded by the environment), three saves one after the other, two restarts, one failing write; nine submissions, two of them clashing, in four saves and two restarts of platforms |
| `config_token` | violation | with a database a restart does not use the stored GitLab token, see section 5 | one deployment with a database and a token in the environment, three saves, two restarts |
| `server` | pass | `AccessIsSound`, `SettingsAreDurable`, `ReportsAreHonest`, `NothingRunsBack`, each the conjunction of what the services in question promise; see below | twelve parts, bounds in `MCServer.cfg` |
| `tools` | pass | `ToolsAreFaithful` (31 families), `ReviewInputIsWhole` (8 families); see below | 500 000 inputs |

The parts of `server`.  *auth*: two clients replace the token while requests come
and the process restarts; somebody can always get in, nothing but the status is
served without a key, an acknowledged token is in force.  *intake*: what is handled
was verified by a secret that is set (the handler of GitHub is not mounted without one,
`cli/app.rs:600`, so only that of GitLab can lack it), and token and address come from one platform
unless the list was saved meanwhile.  *requests*: no stored request holds a key,
every key goes to the endpoint it was made for, one callback with the state of the
row.  *experts*: the experts in force are the file's under the overrides, and edits
that did not overlap hold, now and after a restart; a PUT /config that was answered with
a 500 is in force and not in its row.  *feedback*, *notes*: accepted
verdicts stay; a section of the prompt has the notes in order, none twice, none of
the engine's own while it knows its account.  *listing*: the pages of a history that
does not change hold every review once, in memory and from the database; the
dashboard adds up; every expert that failed and a board that could not be posted are
errors of the review's page, and a table that cannot be read is no empty history.
*health*: a status is of the account that was asked, what was shown stale is asked
again, the two lists agree; no call and no review is on two cards, a figure is shown
exactly when its rows could be read, and recording the calls of a review loses no
sample the cards still need.  *system*: a row of a
git service is of an entry in the list; a verdict on the storage is fresh.
*board*, *log*: the bar rises and ends with the review; no complete line is lost, a
subscriber gets every entry.  *catalog*: one fetch at a time, what comes from disk is
not taken for fresh, and until a write of its file failed the catalogue does not run back.

The families of `tools`.  *people*, *api* (forge clients): participants are merged
without losing roles, a failure is not taken for absence, notes are pinned to
commits.  *address*, *search*: a URL names the host, the project and the number that a
reader would take it for, or is refused; a search asks for every path there is to ask
for and blocks nothing it was not told to.  *settings*, *edit*, *init*: precedence of files, variables and rows; an edit
changes one entry; the file `init` writes can be used.  *scan*, *key*: redaction covers
the hits and nothing else; two processes end with one key.  *doctor*: no committed
transaction is deleted.  *repo*, *sweep*, *split*, *report*, *static*, *strip*: modules
partition the files, chunks lose none, scores and totals follow from what was
measured, lexing for tests is exact.  *tickets*, *links*, *json*: every planned ticket is
in the report with a result or a reason; an obedient answer is read.  *command*, *text*,
*serve*, *release*, *answers*: a command refuses before it asks, asks before it writes,
and exits with an error when a step failed; the server starts guarded; an upgrade goes
forward unless asked otherwise.  *places*, *experts*: two instances on one machine share
no file; the team is the one the settings describe.  *board*, *summary*, *aggregate*,
*team*: no credential and no open fence leaves, every finding, every dropped finding and
every expert that failed is shown, counts are of what is shown.  *wire*: a request to a
provider carries the model and the key of its account and nothing of another, and an
answer of any shape becomes a text or a failure of its class.  *parse*, *chunks*, *path*, *browser*: what a diff says is
kept through parsing, filters, compression and chunking, or is counted as left out.
*context*, *inject*, *source*, *prompt*: limits hold, records name what was injected, a
source that fails is not a missing file, every placeholder of a template is filled.

Why the bounds are enough for the interesting cases.  A waiter needs a review to
wait for and a third delivery to overtake it: three deliveries.  An expired
marker needs a timeout of one tick; two ticks tell a marker that is about to
expire from a fresh one.  Two tasks contend for one slot, and two clients let the
second halves of two handlers cross.  Two providers are a primary and a fallback;
the third retry of each is within reach.  Three experts over three chunks are the
least in which round-robin, quota and fair share disagree; a window of two ticks
has an inside, a boundary and an outside.  Batches of two with three findings give a
full batch and a rest.  Three saves let a masked round trip follow a reordering.  Two
files of a frontend, one of them in both versions, make a mixture visible.  Every
limit of the tools is small enough that inputs below, at and above it occur.

Deadlock is checked where the system goes on for ever (the webhook, queue and
`pipeline` runs; where a review ends the model stutters explicitly, `Ended`).  The other instances stop when their bounded requests are used up, and
their configurations say so.  Symmetry is used only in runs that check safety.

### Fairness

* `webhook_live`: the clock advances and a handler is polled when it can move
  (tokio's timers and scheduler).  Nothing is assumed of review tasks, deliveries
  or restarts.
* `queue`: a spawned worker is polled, its review ends (every call it makes has a
  timeout: 120 s per LLM request in `LLMClient::new`) and a database call returns.
* `pipeline`: futures are polled, time passes, an LLM call ends.  Strong fairness
  of a task's way into the limiter stands for tokio's mutex and semaphore, which
  serve waiters in order.
* `upgrade` (`UpgradeFairness`): the runtime polls the task and the handlers, whose
  requests have timeouts, and a container that announced its exit exits.  Nobody
  need ask for anything, and no command need finish.

## 4. What is proved

Checked by TLAPS for every value of the constants.

* `WebhookDispatchProofs`, first part: the dispatcher alone.  `DispatcherTypeCorrect`; `RecoveryCorrect`: the file
  agrees with the table.  The invariant is inductive relative to the types once it
  is stated per merge request (`Agrees`): a method touches one entry and saves the
  whole table, so the others agree as before; ticking ages both sides alike;
  `try_start` dropping an expired marker is harmless because `Fresh` forgets it on
  both sides.  `SleeperInv`: whoever sleeps untold, sleeps on an entry that is marked
  and whose watch value is not set, because every method that clears a marker sends.
* `WebhookDispatchProofs`, second part.  `ImplementsDispatcher`: the handlers and reviews are
  clients of the dispatcher, step by step.  `NobodySleepsWithoutAReview` from
  `SleeperInv` and `AwaitInv`: a merge request that is marked, or on which a handler
  sleeps untold, has a review task that is active or died; it needs the recovery theorem,
  since a restart takes the markers from the file.  `OneReview` from `CoverInv`: until a
  review of a merge request overran, the one that is active is the one whose marker
  the table holds.  `HonestRecord` from `HonestInv`, which follows a fingerprint from
  the diff a review read to the table and the file.  `NoRoundTwice` combines them with
  the recovery theorem: a posted round is known to the table, to the file or to the
  review that is about to record it.  `OneReview` and `NoRoundTwice` assume
  `Timeout # 0`: `configured_timeout` accepts 0, which switches the marker off.
* `TaskQueueProofs`.  `TypeCorrect` needs `SnapshotTaken`, that a worker about to
  persist holds an outcome.  `SlotsHeldByWorkers` is inductive with the types.
  `OrphansStaySwept` needs `Forgotten`, that memory has no entry of a task whose
  worker died with an earlier process, so no handler of the new one can write
  its row as queued.  `ImplementsLifecycle` shows that every step of the queue is
  a step or a stutter of `TaskLifecycle`, and `CompletedRowKept` that no write
  still on its way overwrites a completed row (`HistoryInv` relates pending
  writes to the entry); both assume `Kinds = {"rest"}`, the case in which they
  hold.
* `LlmFallbackProofs`.  `FallbackTypeCorrect` and `CallCostBounded` from
  `CostInv`: after `e - 1` entries and `a` attempts at most `4(e - 1) + a`
  requests were made, with one more in the resend (`SpentSoFar`), and a back-off
  always has an attempt left.  `OutcomeCorrect` from `OutcomeInv`, which adds that
  no answer was recorded before the end and that a failure recorded is the last
  error.  `VerdictsCorrect`: every entry left behind was left for a reason its last
  error gives, and none is asked again.
* `ReviewPipelineProofs`.  `RpmLimitHolds` from `LimiterInv`: the two queues record
  the same requests (`QueuesAgree`), and an entry inside the window is among the newest
  `max_rpm` (`WithinLimit`, stronger than a bound on how many the window holds and in
  need of no order among the ages); the bound follows from the oldest entry in it.  `OutcomeCorrect` from `PassTypes`, `Fresh`
  (nothing is called unreviewed before the results are collected) and the limiter.
* `UpgradeProofs`.  The command: `DirectoryStaysSound` and `FailuresRestore` from
  `CliInv`, which says at each place of a process which of the two binaries runs
  (`BinariesAtHand`) and that the process past the lock is its owner
  (`LockMeansOwner`).  They assume `OrderlySessions`: one process on its own with
  every failure and crash, or several that only upgrade before a lock can go stale
  and with file operations that work; outside of these the promises do not hold
  (section 5).  The server: `JobStaysSound` from `JobInv`, in which `Exclusive` says why one
  upgrade runs at a time (only one may start, or the job says so for as long as it is
  under way) and `Counted` what was downloaded at each place of the task.
  `InstallationStaysWhole` adds `BinaryInv` (from the comparison with the checksum to
  the swap the archive is the published one), `FrontendInv` (nothing is parked over
  another entry; entries come in only beside a complete parked frontend; without a
  crash served and parked entries are one frontend) and `NobodyPastDwell`.  Both assume
  `NoStartBesideCheck`, and the second `MaxFaults <= 1`; section 5 says what happens
  otherwise.

* `ConfigProofs`.  `ConfigTypes` and `SecretsStay` for any deployment, any number of
  clients with PUTs in flight and any crashes, from `SettingsInv`: types, and
  `SecretsInv`.  That one follows a key through every copy: a list is `Known` when each of
  its keys is of the account it was entered for (the running list, the projection, what a
  handler holds between two locks, what is stored); a state that was saved, or is about
  to be, is clean (masks in the projection, nothing of the environment's).  The work is
  in the operators: `ResolvedIsKnown` says that resolving a request against a known list
  gives a known list, `ReplayPayloadType` what a replayed state may hold.
  `FileTokenSurvives` (which speaks of deployments without a database only, see
  `config_token`) and `CapIsPositive` need no more.  `CapIsShown` adds `OneSaveInv`, which
  relates the cap shown to the cap in force and a save to the list it was resolved
  against; it assumes `OneClient`, since the code does not promise it with two PUTs in
  flight (section 5).

  `ProvidersSurviveRestart` (any number of PUTs in flight) and `SavedRuns` (one at a
  time).  A replay resolves a request, made of the stored list, against what runs,
  although memory may hold other entries by then.  `ReplayedList` shows that its cards
  resolve to the stored list; the mirror in the scalar fields then either speaks of a
  card, whose entry it moves to the front (`SamePrimary`, `LeadRange`: the entry that
  leads the chain anyway), or of the openai account (`ReplayedLegacy`); so the chain is
  the stored one (`ReplayedChain`).  Every replay needs lists that stay `Orderly`: keys
  that are keys, one openai account at most, which `ResolveIsOrderly` keeps through
  saves.  `BootInv` carries this through the phases of a start: before the replay
  memory holds no openai account beyond the stored one, after it the stored chain runs.
  For `SavedRuns`, `RunInv` follows the one save through its locks: what it has
  published, what it still has to, and that it leaves the row out only when the row
  holds that list.  They assume `OrderlyDeployment`, and each part is needed: two openai
  entries share the one key of the mirror (`persist.rs:698`), and an openai entry of the
  configuration file is already in memory when the stored list is replayed and can come
  back though the stored list has none and everything stored is off.  Where the
  environment supplies providers both say nothing of the chain, which it then leads, and
  neither speaks of an empty stored list, which the code stores and does not apply.
* `ReviewRoundProofs`.  `FailOpenAlways` from `PassInv`, which types every list by what
  its stage promises: the reports hold findings as an expert reported them (`Sourced`),
  the dropped list findings with a reason (`Reasoned`), the published one findings no
  graver than reported (`Graded`), the adjudicated ones those called false positives
  (`Refuted`); marks and downgrades not yet applied stand for an answer that named
  them.  A lemma per pass says that it maps one such set into the next.
  `TruthfulAlways` from `PassInv /\ PublishInv`: which discussion is the engine's board
  (`OwnBoard`), that nothing on the forge is of this publication before it begins
  (`Unsent`), and while notes go out that every earlier place was delivered or is on the
  list of failures and that a second note at a place is paid for by a lost answer
  (`Underway`).  The rounds (diffs, answers, rulings, policies, what the forge does),
  batch sizes and the page are arbitrary.
* `Subsequences`.  What selecting the elements at given positions keeps, and how the
  parts of a sequence make up the whole.  The library's induction takes an
  operator as a parameter, which the provers cannot instantiate, so the facts about a
  recursive function go by the least counterexample instead: of the numbers that violate
  a claim one is the least (`LeastNatural`), and the equation of the function refutes it.

Only model-checked:

* liveness (`NothingHangs`, `QueueDrains`, `ReviewEnds`, `UpgradeEnds`): TLAPS does not
  reason about fairness or ENABLED here;
* `RoutingIsSound`, `PublishedAsPlanned` and `ReportAddsUp`: they compare what folds over
  sequences compute (`FoldLeft`, sums, sorted unions of ranges) with a definition, for
  which the fold itself would need an induction over data; the method of `Subsequences`
  reaches only functions defined in these modules;
* `ListsAgree`, the second part of `ConfigIsSound` (the first is `ConfigTypes`);
* `EntriesKeepIdentity`, and everything about the services and the tools, which use
  recursive operators or folds over strings of tokens.

## 5. Where the code and what is said about it differ

**With a counterexample.**

`webhook_newest`: *a deferred delivery is dropped.*
`wait` is documented to wait for the review in progress, and its comment calls a
return before that a regression.  `complete` and `reset` leave the watch value at
true and nothing sets it back.  From the second round on, `wait` returns at once, the
retry finds the review still running, and the delivery is dropped: the newest content
is not reviewed until someone pushes again.

`config_token`: *the stored GitLab token is lost at a start.*  Precedence is documented
as "env/CLI < ui-state.toml" (`server/api/config/persist.rs:10`), and the database holds
what the file held.  The server replays the database into the runtime (`cli/app.rs:512`),
then `init_gitlab_runtime` fills the runtime from the environment (`app.rs:546`), and the
file replay that comes after it does not run once the database was replayed.  Without a
database it does, and the promise holds (`FileKeepsToken`).

**Kept out of a passing run.**  These are why a run has the bounds it has, or a property
the exception it names; each is reached by widening the constant, or dropping the
exception.

* Two PUTs in flight (`Client` of `ConfigStore`): a save without an llm section
  publishes the provider list it read before it took the write lock
  (`server/api/config/put.rs:710` says it "cannot touch a provider"), and two saves
  can commit in the other order than they were published (`put.rs:872`, "a restart
  keeps it").
* A second start beside a check (`starts` of `UpgradeJob`): `check_upgrade` sets the
  job to Idle unconditionally after its request (`server/api/upgrade/check.rs:34`), and
  the next POST is accepted while the first upgrade runs (`docs/rest-api.md:817`).
* A second failing rename (`MaxFaults`): `restore_old_contents` loses a file.
* A stale lock and two processes (`ticks` of a session): both remove the lock by name
  (`cli/handlers/upgrade_install.rs:296`), the second the one the first has just made.
* A rollback beside an upgrade (`rollers`): `run_rollback` takes no lock and takes the
  backup away that the upgrade would restore (`upgrade_install.rs:45`).
* An emptied list (`s.llm # <<>>` of `StoredProvidersRun` and `RestartKeepsChain`): an
  empty provider set is stored and not applied (`put.rs:803`), so the deleted providers
  run until a restart, and the next save without an llm section stores them again.  The
  run deletes all providers; what it shows then is `SecretsStayPut` and the rest.
* A clash in one submission (`Clash` of `GitPlatforms`), which the run sends.  A new entry
  under the former name of one renamed in the same array takes its id and token
  (`put.rs:547`; `put.rs:458` says "a truly new entry gets a freshly generated id").  Two
  entries with ids that share a name are accepted and published, and the table refuses
  them (`put.rs:582`).
* `IdsFromGet = FALSE`: identities of platforms a client made up.
* Two overlapping edits of experts (`overlap` in `ExpertSettings`): the later loses the
  earlier; overlapping replacements of the token leave file and memory different.
* Webhook tasks in the lifecycle (`Kinds`): `start` sets a task running whatever its
  state is, so a cancellation between create and start is undone.

**Met while modelling.**  By component; none has a run of its own.

*Queue.*  More tasks run than the limit: two workers read the same count before
either takes the last slot (`task_queue.rs:758`).  A retried task never runs: `retry`
makes it pending and spawns nothing (`docs/rest-api.md:597`).  A cancelled queued REST
task is still admitted, reviewed and published.  Second halves of two methods may
reach the database in the opposite order.  After a restart `retry` finds nothing
(`design/persistence.md`).  A submitter who disconnects during the INSERT leaves a
pending entry without a worker; a panic of a worker keeps its slot.

*Dispatcher.*  A review that outlived the timeout clears the marker of its successor,
so a third may start beside the second.

*Limiter, routing, pipeline.*  An entry aged exactly the window is neither pruned nor
waited for; a request over the token limit passes when the window is empty; retries
and the overview do not pass the limiter.  A file split by hunks counts as reviewed
when one of its chunks was (`pipeline.rs:714`).  Chunks are dropped while quotas are
free (`large_pr.rs:411`).  A large diff and a team without the review command give a
success without a report; files removed by compression are not in the coverage total.

*Upgrade.*  An error of the smoke test itself returns after the binary was replaced and
before the rollback (`upgrade/task.rs:396`).  `install_method.rs:72` says `reng upgrade`
upgrades containers; `run_upgrade` does nothing for Docker.  `upgrade --version` of an
older release says "up to date" though a newer one exists.

*Configuration.*  `replay_payload` may give one account the key of another
(`persist.rs:698`).  With every stored provider switched off the scalar fields of a replay
are those of the first entry, and the openai account moves to the endpoint of that one
(`persist.rs:226`, `put.rs:172`).  A save without a gitlab section clears a token from the
environment (`put.rs:360`).  The card at the same index wins before the uniqueness rule
(`put.rs:88`).  A PUT /config sets the flag of the aggregated report where the page reads
it and not where reviews ask first (`put.rs:756`; `stated` in `ExpertSettings`).

*Round.*  An unreadable report counts as a score of 100 and prose as a clean report; the
comment on low confidence (`scoring/review.rs`, lines 53–54) is not what is computed;
a list emptied by the verifier says that the experts reported no issues; the rendered
markdown is not made again after drops; agreement is scored before it is known; score
and conflicts are not refreshed after adjudication; `inline_on_docs_only` still says
that no notes were posted; `publish_review` is documented to log failures only and
returns them; a garbled 2xx answer counts as failed; the board is searched in the first
100 discussions.

*Diff and context.*  Top-level directories `a/` and `b/` lose their prefix; names with
blanks get a wrong path and names git quotes are dropped; a deleted file's new path is
/dev/null, so ignore rules do not apply; ignored directories match as suffixes; an
oversized file without hunks disappears; truncation may lengthen a line; a split file
may exceed the limit by its header; `gather.rs:24` says that
`branch_commits` is the log of `<base>..<head>`, but `is_valid_ref_name` (`gather.rs:242`)
refuses the range built at line 108, the field is always empty and the 30 newest commits
are used (no property says otherwise, and none takes it for right); an excerpt shows the
first bytes of the file only, but replacement characters may make it longer than its limit
(`gather.rs:16`); an empty AGENTS.md gives the record that is said to
be unreachable; `truncated` is false when a file shrinks between read and stat.

*Compliance.*  Titles shift when an earlier ticket could not be fetched; a valid answer
about such a ticket counts, and the batch is not retried; tickets of one number in two
projects share a key; the URL the prompt asks for is not one the batch parser knows on
GitHub Enterprise.

*Command line and settings.*  Failing to save the dated copy skips `--publish`; ".." in
`--output` is refused only after the model was asked; `review --stdin` does not check
for a usable model; the aggregator fails a merge request review and is passed over
locally; an auto-discovered settings file is read in part and without validation, one
named by `--config` whole (`resolve.rs:52`); `init` with some of the experts writes a
file that `--config` refuses; `config provider set` goes to the project file and hides
the user's list; two processes creating the key file may end with different keys
(`config/secrets.rs:77`); a candidate overlapping an earlier hit is dropped with its
tail; `ask` is lower-cased.

*Repository review and forges.*  Path tests expect `src/` on joined paths; dot-files are
dropped before the style expert looks for them; chunks that failed are averaged in at
70; ties are broken by hash order; `merge_participants` merges people of one name
(`models/mod.rs:332` says robots stay distinct).  `list_discussions` of GitLab reads one
page of 100; an inline note may have an empty file path; weights of equal shares,
`100u8 / n`, divide by zero at 256 reviewers; the report's count of checked findings may
be too low; the reasons of failed chunks in it are not redacted.

*Adapters and reports.*  No caller in production gives `LLMClient` a registry; two cards
of one name in a registry share the key of the later; the Anthropic adapter passes over
`disable_thinking`; the board leaves out an aggregated report whose markdown is empty; the
second reading of an aggregator's answer takes a block that is no mapping for a report
without findings; the excerpt of a raw answer is cut before it is redacted.

*Services.*  A feedback entry answered with 500 stays in memory; an unreadable feedback
file is taken for empty and overwritten; provider ids are positions; deleting an account
drops every entry with its provider and key; a probe in flight puts back an entry that
was dropped; the catalogue can run back after a failed write; the log file grows without
bound; an old hook overwrites a newer text of a note; a failed lookup of the own account
lets the engine's notes in, and the cached one is never refreshed; a relative URL root is
doubled (`hooks.rs:464`); the preview of a note may cut a character (`hooks.rs:926`); a
callback says completed for a cancelled review; rows that change state between two pages
may be skipped; in memory, reviews of one instant have no order; one time that cannot
be read hides every latency while the figures of use remain.

## 6. Not modelled, and the plan

Not modelled: the tokenizer (a length is a number), routes, metrics, entry points and
Python bindings (no state), and the web frontend (a client).  Inside modelled
components: the wording of prompts, notes and reports, regular expressions, ciphers,
HTTP and SQL as such; retention pruning of reviews; the rules section of the
configuration; merge and close events of a webhook.

Done: the core (dispatcher, queue, LLM call, pipeline), then upgrades, configuration,
the round, the services and the tools; then proofs about all of the first four, the
webhook path, the upgrades, the configuration and the round.  What would come next:
the identities of platform entries and the plan of notes (`PublishedAsPlanned`) with its
folds written as functions that can be reasoned about.

Running: `tlc -config MCTaskQueue.cfg TaskQueue` checks one run,
`tlapm TaskQueueProofs.tla` one proof module.
