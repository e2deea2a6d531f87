----------------------------- MODULE UpgradeJob -----------------------------
(***************************************************************************)
(* The self-upgrade of the server (server/api/upgrade): one job record     *)
(* behind a lock, the two HTTP handlers that move it, the background task  *)
(* that downloads, verifies and installs a release, and the files that the *)
(* task replaces, which a crash leaves as they are.                        *)
(*                                                                         *)
(* A handler that awaits the release check gives the job lock back first,  *)
(* so each is several actions.  The task is one action per await or file   *)
(* operation.  Contents are abstracted to where they came from: "old" is   *)
(* what was installed, "new" the release as published, "corrupt" a         *)
(* download that does not match its checksum.                              *)
(***************************************************************************)
EXTENDS Integers, FiniteSets

CONSTANTS
  Checker,    \* GET /upgrade/check requests in flight
  Starter,    \* POST /upgrade requests; each may spawn one task
  Setting,    \* the surroundings a behaviour may run in, see below
  OldFile,    \* top-level entries of the installed frontend
  NewFile,    \* top-level entries of the released frontend
  Size,       \* chunks of every release asset
  MaxFaults   \* bound: file operations that fail

\* A setting: how the server was installed, how many upgrades may pass the gate
\* (a bound), whether somebody asks for checks, whether an HTTP client may close
\* its connection early, and whether the process may die.
ASSUME UpgradeAssumption ==
  /\ Setting \subseteq [method : {"Plain", "Brew", "Docker", "Cargo", "Unknown"},
                        starts : Nat, checks : BOOLEAN, hangups : BOOLEAN,
                        crashes : BOOLEAN]
  /\ Size \in Nat \ {0}
  /\ MaxFaults \in Nat
  /\ IsFiniteSet(OldFile) /\ IsFiniteSet(NewFile)

VARIABLES
  setting,  \* the surroundings; its method is UpgradeStore::install_method
  job,      \* UpgradeStore::job: its state and its download progress
  cached,   \* whether UpgradeStore::cache holds a check within its hour
  checker,  \* the check handlers
  starter,  \* the start handlers
  task,     \* the spawned run_upgrade_task, one per starter
  exe,      \* the executable in the install directory
  bin,      \* its neighbours: the backup and the staged copy of each task
  live,     \* the served entries of the frontend directory
  parked,   \* the .old-<nonce> directory of each task, inside it
  starts,   \* how many upgrades passed the gate
  faults,   \* how many file operations failed
  orphaned  \* whether a handler was dropped between two halves

upgradeVars == <<setting, job, cached, checker, starter, task, exe, bin, live, parked, starts,
          faults, orphaned>>

JobState == {"Idle", "Checking", "Downloading", "Verifying", "Installing", "Done", "Failed"}
IsRunning(s) == s \in {"Checking", "Downloading", "Verifying", "Installing"}

NoProgress == -1
File == OldFile \cup NewFile
Content == {"none", "old", "new", "corrupt"}

Downloads == {"asset", "checksum", "dist", "dist_checksum"}
TaskPc == Downloads \cup
          {"none", "prepare", "verify", "extract", "smoke", "dist_lookup",
           "dist_verify", "dist_extract", "backup", "stage", "swap", "resmoke",
           "dist_copy", "dist_park", "dist_bring", "succeed", "dwell", "over"}

TaskState == [pc        : TaskPc,
              completed : Nat,                    \* bytes of finished downloads
              current   : Nat,                    \* bytes of this one
              archive   : Content,                \* the downloaded asset
              page      : Content,                \* the downloaded frontend
              fresh     : SUBSET NewFile]         \* what is left in .new-<nonce>

UpgradeTypeOK ==
  /\ setting \in Setting
  /\ job \in [state : JobState, progress : NoProgress .. 4 * Size + 1]
  /\ cached \in BOOLEAN
  /\ checker \in [Checker -> [pc : {"idle", "mark", "refresh"}, was_idle : BOOLEAN]]
  /\ starter \in [Starter -> {"idle", "refresh"}]
  /\ task \in [Starter -> TaskState]
  /\ exe \in Content
  /\ bin \in [Starter -> [backup : Content, staged : Content]]
  /\ live \in [File -> Content]
  /\ parked \in [Starter -> [File -> Content]]
  /\ starts \in 0 .. setting.starts /\ faults \in 0 .. MaxFaults
  /\ orphaned \in BOOLEAN

NoTask == [pc |-> "none", completed |-> 0, current |-> 0, archive |-> "none",
           page |-> "none", fresh |-> {}]
IdleJob == [state |-> "Idle", progress |-> NoProgress]
AtRest == [pc |-> "idle", was_idle |-> FALSE]
Empty == [f \in File |-> "none"]
OldWeb == [f \in File |-> IF f \in OldFile THEN "old" ELSE "none"]

UpgradeInit ==
  /\ setting \in Setting
  /\ job = IdleJob /\ cached = FALSE
  /\ checker = [c \in Checker |-> AtRest]
  /\ starter = [s \in Starter |-> "idle"]
  /\ task = [s \in Starter |-> NoTask]
  /\ exe = "old"
  /\ bin = [s \in Starter |-> [backup |-> "none", staged |-> "none"]]
  /\ live = OldWeb /\ parked = [s \in Starter |-> Empty]
  /\ starts = 0 /\ faults = 0 /\ orphaned = FALSE

handlers == <<cached, checker, starter, starts, orphaned, setting>>
web == <<live, parked>>
files == <<exe, bin, web, faults>>

SetJob(s) == job' = [job EXCEPT !.state = s]

-----------------------------------------------------------------------------
(* GET /upgrade/check.                                                     *)

\* A fresh cache answers at once; otherwise the handler reads whether the job
\* is idle, under one lock ...
CheckUpgrade(c) ==
  /\ setting.checks
  /\ checker[c].pc = "idle"
  /\ ~cached
  /\ checker' = [checker EXCEPT ![c] = [pc |-> "mark", was_idle |-> job.state = "Idle"]]
  /\ UNCHANGED <<setting, job, cached, starter, task, starts, orphaned, files>>

\* ... and marks it as checking under another.
CheckMarks(c) ==
  /\ checker[c].pc = "mark"
  /\ checker' = [checker EXCEPT ![c].pc = "refresh"]
  /\ \/ checker[c].was_idle /\ SetJob("Checking")
     \/ ~checker[c].was_idle /\ UNCHANGED job
  /\ UNCHANGED <<setting, cached, starter, task, starts, orphaned, files>>

\* refresh_check() ends, well or not; the job goes back to idle whatever it
\* has become meanwhile.
CheckReturns(c) ==
  /\ checker[c].pc = "refresh"
  /\ cached' \in {cached, TRUE}
  /\ \/ checker[c].was_idle /\ SetJob("Idle")
     \/ ~checker[c].was_idle /\ UNCHANGED job
  /\ checker' = [checker EXCEPT ![c] = AtRest]
  /\ UNCHANGED <<setting, starter, task, starts, orphaned, files>>

\* The handler's future is dropped with the connection.
CheckerHangsUp(c) ==
  /\ setting.hangups
  /\ checker[c].pc = "refresh"
  /\ orphaned' = (orphaned \/ checker[c].was_idle)
  /\ checker' = [checker EXCEPT ![c] = AtRest]
  /\ UNCHANGED <<setting, job, cached, starter, task, starts, files>>

\* CHECK_CACHE_TTL runs out.
CacheExpires ==
  /\ cached
  /\ cached' = FALSE
  /\ UNCHANGED <<setting, job, checker, starter, task, starts, orphaned, files>>

-----------------------------------------------------------------------------
(* POST /upgrade.                                                          *)

UpgradeMode == CASE setting.method = "Docker" -> "ContainerWithFrontend"
                 [] setting.method = "Plain"  -> "BinaryOnly"
                 [] OTHER             -> "none"

\* Fault: the job is not looked at before it is taken.
StartUpgradeUngated(s) ==
  /\ starter[s] = "idle" /\ task[s].pc = "none"
  /\ UpgradeMode # "none"
  /\ starts < setting.starts
  /\ job' = [state |-> "Checking", progress |-> NoProgress]
  /\ starter' = [starter EXCEPT ![s] = "refresh"]
  /\ starts' = starts + 1
  /\ UNCHANGED <<setting, cached, checker, task, orphaned, files>>

\* The gate: a running job answers 409, a package manager's installation 400.
StartUpgrade(s) ==
  /\ starter[s] = "idle" /\ task[s].pc = "none"
  /\ UpgradeMode # "none"
  /\ ~IsRunning(job.state)
  /\ starts < setting.starts
  /\ job' = [state |-> "Checking", progress |-> NoProgress]
  /\ starter' = [starter EXCEPT ![s] = "refresh"]
  /\ starts' = starts + 1
  /\ UNCHANGED <<setting, cached, checker, task, orphaned, files>>

\* No release, no asset for the platform, or no checksum.
StartRefused(s) ==
  /\ starter[s] = "refresh"
  /\ cached' \in {cached, TRUE}
  /\ SetJob("Failed")
  /\ starter' = [starter EXCEPT ![s] = "idle"]
  /\ UNCHANGED <<setting, checker, task, starts, orphaned, files>>

StartSpawns(s) ==
  /\ starter[s] = "refresh"
  /\ cached' = TRUE
  /\ SetJob("Downloading")
  /\ starter' = [starter EXCEPT ![s] = "idle"]
  /\ task' = [task EXCEPT ![s] = [NoTask EXCEPT !.pc = "prepare"]]
  /\ UNCHANGED <<setting, checker, starts, orphaned, files>>

StarterHangsUp(s) ==
  /\ setting.hangups
  /\ starter[s] = "refresh"
  /\ orphaned' = TRUE
  /\ starter' = [starter EXCEPT ![s] = "idle"]
  /\ UNCHANGED <<setting, job, cached, checker, task, starts, files>>

-----------------------------------------------------------------------------
(* run_upgrade_task.  Every step may fail; the first failure ends the task. *)

Go(s, pc) == task' = [task EXCEPT ![s].pc = pc]

\* Fault: the error is logged and the job left as it is.
FailSilently(s) ==
  /\ Go(s, "over")
  /\ UNCHANGED job

Fail(s) ==
  /\ Go(s, "over")
  /\ SetJob("Failed")

\* A network, archive, checksum-file or process error before any file of the
\* installation is touched, or in the smoke test that follows the swap: the
\* `?` leaves everything where it is.
Errs(s) ==
  /\ task[s].pc \in Downloads \cup {"prepare", "verify", "extract", "smoke", "dist_verify",
                                    "dist_extract", "resmoke"}
  /\ Fail(s)
  /\ UNCHANGED <<handlers, files>>

\* The progress snapshot is armed when the downloads begin.
Prepare(s) ==
  /\ task[s].pc = "prepare"
  /\ job' = [state |-> "Downloading", progress |-> 0]
  /\ Go(s, "asset")
  /\ UNCHANGED <<handlers, files>>

\* download_progress: bytes of this job so far, if a snapshot is armed.
Reported(s, current) ==
  IF job.progress = NoProgress THEN NoProgress ELSE task[s].completed + current

\* download_to_temp: a chunk is written and reported; one past the expected
\* size ends the download after it was reported.
Chunk(s) ==
  /\ task[s].pc \in Downloads
  /\ LET current == task[s].current + 1 IN
       \/ /\ current <= Size
          /\ job' = [job EXCEPT !.progress = Reported(s, current)]
          /\ task' = [task EXCEPT ![s].current = current]
       \/ /\ current = Size + 1
          /\ job' = [state |-> "Failed", progress |-> Reported(s, current)]
          /\ Go(s, "over")
  /\ UNCHANGED <<handlers, files>>

Account(t) == [t EXCEPT !.completed = @ + Size, !.current = 0]

\* Timing: the half second a container dwells before it exits is over before
\* another upgrade has downloaded a release.
Dwelling == \E s \in Starter : task[s].pc = "dwell"

\* A download of the announced size, intact or not, and what comes next.
Downloaded(s) ==
  /\ task[s].pc \in Downloads
  /\ ~Dwelling
  /\ task[s].current = Size
  /\ LET t == Account(task[s]) IN
       \/ /\ t.pc = "asset"
          /\ \E c \in {"new", "corrupt"} :
               task' = [task EXCEPT ![s] = [t EXCEPT !.pc = "checksum", !.archive = c]]
          /\ UNCHANGED job
       \/ /\ t.pc = "checksum"
          /\ task' = [task EXCEPT ![s] = [t EXCEPT !.pc = "verify"]]
          /\ SetJob("Verifying")
       \/ /\ t.pc = "dist"
          /\ \E c \in {"new", "corrupt"}, signed \in BOOLEAN :
               /\ task' = [task EXCEPT ![s] =
                            [t EXCEPT !.page = c,
                                      !.pc = IF signed THEN "dist_checksum" ELSE "dist_extract"]]
               /\ SetJob(IF signed THEN "Verifying" ELSE "Installing")
       \/ /\ t.pc = "dist_checksum"
          /\ task' = [task EXCEPT ![s] = [t EXCEPT !.pc = "dist_verify"]]
          /\ UNCHANGED job
  /\ UNCHANGED <<handlers, files>>

\* verify_file_with_checksum_text
ChecksumMatches(c) == c # "corrupt"

Verify(s) ==
  /\ \/ task[s].pc = "verify" /\ ChecksumMatches(task[s].archive) /\ Go(s, "extract")
     \/ task[s].pc = "dist_verify" /\ ChecksumMatches(task[s].page) /\ Go(s, "dist_extract")
  /\ SetJob("Installing")
  /\ UNCHANGED <<handlers, files>>

\* extract_asset and find_extracted_binary, find_dist_root for the frontend.
Extract(s) ==
  /\ \/ task[s].pc = "extract" /\ Go(s, "smoke")
     \/ task[s].pc = "dist_extract" /\ Go(s, "backup")
  /\ UNCHANGED <<job, handlers, files>>

\* smoke_test of the extracted binary: only a success goes on.
Smoke(s) ==
  /\ task[s].pc = "smoke"
  /\ Go(s, IF UpgradeMode = "ContainerWithFrontend" THEN "dist_lookup" ELSE "backup")
  /\ UNCHANGED <<job, handlers, files>>

\* stage_frontend_dist: a release without a frontend upgrades the binary only.
DistLookup(s) ==
  /\ task[s].pc = "dist_lookup"
  /\ \/ Go(s, "backup") /\ UNCHANGED job
     \/ Go(s, "dist") /\ SetJob("Downloading")
  /\ UNCHANGED <<handlers, files>>

-----------------------------------------------------------------------------
(* replace_binary.                                                         *)

Faulty == faults < MaxFaults /\ faults' = faults + 1

Backup(s) ==
  /\ task[s].pc = "backup"
  /\ \/ /\ bin' = [bin EXCEPT ![s].backup = exe]
        /\ Go(s, "stage") /\ UNCHANGED <<job, faults>>
     \/ Faulty /\ Fail(s) /\ UNCHANGED bin
  /\ UNCHANGED <<handlers, exe, web>>

Stage(s) ==
  /\ task[s].pc = "stage"
  /\ \/ /\ bin' = [bin EXCEPT ![s].staged = task[s].archive]
        /\ Go(s, "swap") /\ UNCHANGED <<job, faults>>
     \/ Faulty /\ Fail(s) /\ UNCHANGED bin
  /\ UNCHANGED <<handlers, exe, web>>

\* The backup goes back over the executable if there was one.
PutBack(s) ==
  /\ exe' = IF bin[s].backup = "none" THEN exe ELSE bin[s].backup
  /\ bin' = [bin EXCEPT ![s] = [backup |-> "none", staged |-> "none"]]

Swap(s) ==
  /\ task[s].pc = "swap"
  /\ \/ /\ exe' = bin[s].staged
        /\ bin' = [bin EXCEPT ![s].staged = "none"]
        /\ Go(s, "resmoke") /\ UNCHANGED <<job, faults>>
     \/ Faulty /\ PutBack(s) /\ Fail(s)
  /\ UNCHANGED <<handlers, web>>

\* The smoke test after the swap: a success drops the backup, a failure or a
\* timeout puts it back.
Resmoke(s) ==
  /\ task[s].pc = "resmoke"
  /\ \/ /\ bin' = [bin EXCEPT ![s].backup = "none"]
        /\ Go(s, IF task[s].page = "none" THEN "succeed" ELSE "dist_copy")
        /\ UNCHANGED <<job, exe>>
     \/ PutBack(s) /\ Fail(s)
  /\ UNCHANGED <<handlers, web, faults>>

-----------------------------------------------------------------------------
(* replace_frontend_dist: copy, park, bring in, drop; undo on an error.    *)

DistCopy(s) ==
  /\ task[s].pc = "dist_copy"
  /\ \/ /\ task' = [task EXCEPT ![s].pc = "dist_park", ![s].fresh = NewFile]
        /\ UNCHANGED <<job, faults>>
     \/ Faulty /\ Fail(s)
  /\ UNCHANGED <<handlers, exe, bin, web>>

\* restore_old_contents: what was parked goes back; an entry whose rename
\* fails is removed with the directory it is in.
RestoreOldContents(s, current) ==
  \E lost \in SUBSET {f \in File : parked[s][f] # "none"} :
    /\ Cardinality(lost) + 1 <= MaxFaults - faults
    /\ faults' = faults + 1 + Cardinality(lost)
    /\ live' = [f \in File |-> IF parked[s][f] # "none" /\ f \notin lost
                               THEN parked[s][f] ELSE current[f]]
    /\ parked' = [parked EXCEPT ![s] = Empty]

\* park_old_contents, one rename at a time.
DistPark(s) ==
  /\ task[s].pc = "dist_park"
  /\ \/ \E f \in File :
          /\ live[f] # "none"
          /\ live' = [live EXCEPT ![f] = "none"]
          /\ parked' = [parked EXCEPT ![s][f] = live[f]]
          /\ UNCHANGED <<job, task, faults>>
     \/ /\ live = Empty
        /\ Go(s, "dist_bring")
        /\ UNCHANGED <<job, web, faults>>
     \/ RestoreOldContents(s, live) /\ Fail(s)
  /\ UNCHANGED <<handlers, exe, bin>>

\* Fault: what is parked is dropped before the new entries are in.
DistBringDropsFirst(s) ==
  /\ task[s].pc = "dist_bring"
  /\ \/ \E f \in task[s].fresh :
          /\ live' = [live EXCEPT ![f] = task[s].page]
          /\ parked' = [parked EXCEPT ![s] = Empty]
          /\ task' = [task EXCEPT ![s].fresh = @ \ {f}]
          /\ UNCHANGED <<job, faults>>
     \/ /\ task[s].fresh = {}
        /\ Go(s, "succeed")
        /\ UNCHANGED <<job, web, faults>>
  /\ UNCHANGED <<handlers, exe, bin>>

\* bring_new_contents_in; when all are in, the backup goes (and with it any
\* backup a dead upgrade left, which was parked like any other entry), and on
\* an error what came in is cleared and the parked entries go back.
DistBring(s) ==
  /\ task[s].pc = "dist_bring"
  /\ \/ \E f \in task[s].fresh :
          /\ live' = [live EXCEPT ![f] = task[s].page]
          /\ task' = [task EXCEPT ![s].fresh = @ \ {f}]
          /\ UNCHANGED <<job, parked, faults>>
     \/ /\ task[s].fresh = {}
        /\ parked' = [u \in Starter |-> Empty]
        /\ Go(s, "succeed")
        /\ UNCHANGED <<job, live, faults>>
     \/ RestoreOldContents(s, Empty) /\ Fail(s)
  /\ UNCHANGED <<handlers, exe, bin>>

\* A container dwells half a second and exits; elsewhere the task is over.
Succeed(s) ==
  /\ task[s].pc = "succeed"
  /\ SetJob("Done")
  /\ Go(s, IF UpgradeMode = "ContainerWithFrontend" THEN "dwell" ELSE "over")
  /\ UNCHANGED <<handlers, files>>

\* The process exits, on purpose after a container upgrade or by a crash, and
\* is started again: memory is lost, the files stay.
Restart ==
  /\ setting.crashes \/ Dwelling
  /\ job' = IdleJob /\ cached' = FALSE
  /\ checker' = [c \in Checker |-> AtRest]
  /\ starter' = [s \in Starter |-> "idle"]
  /\ task' = [s \in Starter |-> IF task[s].pc = "none" THEN NoTask
                                ELSE [NoTask EXCEPT !.pc = "over"]]
  /\ orphaned' = FALSE
  /\ UNCHANGED <<setting, starts, files>>

-----------------------------------------------------------------------------
TaskStep(s) ==
  \/ Errs(s) \/ Prepare(s) \/ Chunk(s) \/ Downloaded(s) \/ Verify(s) \/ Extract(s)
  \/ Smoke(s) \/ DistLookup(s) \/ Backup(s) \/ Stage(s) \/ Swap(s) \/ Resmoke(s)
  \/ DistCopy(s) \/ DistPark(s) \/ DistBring(s) \/ Succeed(s)

CheckStep(c) == CheckUpgrade(c) \/ CheckMarks(c) \/ CheckReturns(c) \/ CheckerHangsUp(c)
StartStep(s) == StartUpgrade(s) \/ StartRefused(s) \/ StartSpawns(s) \/ StarterHangsUp(s)

UpgradeNext ==
  \/ \E c \in Checker : CheckStep(c)
  \/ \E s \in Starter : StartStep(s) \/ TaskStep(s)
  \/ CacheExpires
  \/ Restart

UpgradeSpec == UpgradeInit /\ [][UpgradeNext]_upgradeVars

\* The runtime polls its tasks and handlers, and every request they make has a
\* timeout; nobody need ever ask for anything.
UpgradeFairness ==
  /\ \A s \in Starter : /\ WF_upgradeVars(TaskStep(s))
                       /\ WF_upgradeVars(StartRefused(s) \/ StartSpawns(s))
  /\ \A c \in Checker : WF_upgradeVars(CheckMarks(c)) /\ WF_upgradeVars(CheckReturns(c))
  /\ WF_upgradeVars(Dwelling /\ Restart)

-----------------------------------------------------------------------------
(* What an upgrade promises.                                               *)

Working(s) == task[s].pc \notin {"none", "dwell", "over"}
Upgrading == {s \in Starter : Working(s) \/ starter[s] = "refresh"}

\* A job that says it is under way has somebody working on it, unless a client
\* hung up on the handler that marked it: otherwise every later POST /upgrade
\* answers 409 for good.
RunningHasWorker ==
  /\ IsRunning(job.state)
  /\ ~orphaned
  => \/ Upgrading # {}
     \/ \E c \in Checker : checker[c].pc = "refresh" /\ checker[c].was_idle

\* The gate of start_upgrade_inner lets one upgrade through at a time.
OneUpgradeAtATime == Cardinality(Upgrading) <= 1

\* The job and the tasks agree, whatever handlers run beside them.
JobIsSound == UpgradeTypeOK /\ RunningHasWorker /\ OneUpgradeAtATime

\* Whatever fails and whenever the process dies, the executable is a whole
\* binary that matched its published checksum.
ExecutableIsPublished == exe \in {"old", "new"}

FilesOf(c) == IF c = "old" THEN OldFile ELSE NewFile

\* At any instant some complete frontend can be put together from what is
\* served and what is parked beside it: a crash or one failed file operation
\* in replace_frontend_dist never destroys the last copy.
FrontendRecoverable ==
  \E c \in Content \ {"none"} : \A f \in FilesOf(c) :
    live[f] = c \/ \E s \in Starter : parked[s][f] = c

\* Between upgrades, in a process that has not died, what is served is one
\* complete frontend, never a mixture.
FrontendWholeAtRest ==
  /\ ~setting.crashes
  /\ \A s \in Starter : task[s].pc \notin {"dist_park", "dist_bring"}
  => \E c \in Content \ {"none"} :
       live = [f \in File |-> IF f \in FilesOf(c) THEN c ELSE "none"]

\* What run_upgrade replaces stays whole or can be made whole again.
InstallationSurvives == ExecutableIsPublished /\ FrontendRecoverable /\ FrontendWholeAtRest

\* An upgrade or a check that marked the job comes to an end, unless its client
\* hung up.
UpgradeEnds == IsRunning(job.state) ~> ~IsRunning(job.state) \/ orphaned
=============================================================================
