----------------------------- MODULE CliUpgrade -----------------------------
(***************************************************************************)
(* `reng upgrade` (cli/handlers/upgrade.rs, upgrade_install.rs): processes *)
(* that replace the executable of one directory in place, the lock file    *)
(* that is to keep them apart, the backup, and `--rollback`.               *)
(*                                                                         *)
(* One action per file-system call: the calls of two processes interleave, *)
(* and a process may die between any two.  A binary is "old", "new" (the   *)
(* release), "bad" (a release that does not run, or half a copy).          *)
(***************************************************************************)
EXTENDS Integers, FiniteSets

CONSTANTS
  Upgrader,   \* processes that run `reng upgrade`
  Roller,     \* processes that run `reng upgrade --rollback`
  NoOne,
  Stale,      \* LOCK_STALE_SECS, in ticks
  Session     \* what a behaviour may contain, see below

\* A session: the processes that take part and three bounds, on the time that
\* passes, the processes that die and the file operations that fail.
ASSUME CliAssumption ==
  /\ NoOne \notin Upgrader \cup Roller
  /\ Stale \in Nat
  /\ Session \subseteq [upgraders : SUBSET Upgrader, rollers : SUBSET Roller, ticks : Nat,
                        deaths : Nat, fails : Nat]

VARIABLES
  session,
  binary,   \* the executable
  bak,      \* review-engine.bak
  lock,     \* the lock file: who created it, whether its text is written, its age
  proc,     \* the processes
  ticks, deaths, fails

cliVars == <<session, binary, bak, lock, proc, ticks, deaths, fails>>

Proc == Upgrader \cup Roller
Binary == {"none", "old", "new", "bad"}
Locking == {"create", "write", "read", "reclaim"}
Installing == {"download", "drop_bak", "back_up", "install", "verify", "smoke", "restore"}
Pc == Locking \cup Installing \cup {"idle", "unlock", "roll_remove", "roll_rename"}

\* `again` is the second attempt of the loop, `release` the binary downloaded.
CliTypeOK ==
  /\ session \in Session
  /\ binary \in Binary /\ bak \in Binary
  /\ lock \in [owner : Proc \cup {NoOne}, present : BOOLEAN, written : BOOLEAN,
               age : 0 .. Stale + 1]
  /\ proc \in [Proc -> [pc : Pc, again : BOOLEAN, release : Binary]]
  /\ ticks \in 0 .. session.ticks /\ deaths \in 0 .. session.deaths /\ fails \in 0 .. session.fails

Unlocked == [owner |-> NoOne, present |-> FALSE, written |-> FALSE, age |-> 0]
AtPrompt == [pc |-> "idle", again |-> FALSE, release |-> "none"]

CliInit ==
  /\ session \in Session
  /\ binary = "old" /\ bak = "none"
  /\ lock = Unlocked
  /\ proc = [p \in Proc |-> AtPrompt]
  /\ ticks = 0 /\ deaths = 0 /\ fails = 0

Step(p, pc) == proc' = [proc EXCEPT ![p].pc = pc]
Leave(p) == proc' = [proc EXCEPT ![p] = AtPrompt]
bounds == <<session, ticks, deaths, fails>>
binaries == <<binary, bak>>

-----------------------------------------------------------------------------
(* UpgradeLock::acquire and its drop.                                      *)

Runs(b) == b \in {"old", "new"}

\* The command is the executable, so one that runs is there; run_plain_upgrade
\* looks for it before it takes the lock.
Begin(p) ==
  /\ p \in session.upgraders
  /\ proc[p].pc = "idle"
  /\ Runs(binary)
  /\ Step(p, "create")
  /\ UNCHANGED <<binaries, lock, bounds>>

\* Fault: the lock file is opened whether or not it exists.
CreateAnyway(p) ==
  /\ proc[p].pc = "create"
  /\ lock' = [owner |-> p, present |-> TRUE, written |-> FALSE, age |-> 0]
  /\ Step(p, "write")
  /\ UNCHANGED <<binaries, bounds>>

\* create_new: one process makes the file, the others find it there.
Create(p) ==
  /\ proc[p].pc = "create"
  /\ \/ /\ ~lock.present
        /\ lock' = [owner |-> p, present |-> TRUE, written |-> FALSE, age |-> 0]
        /\ Step(p, "write")
     \/ /\ lock.present
        /\ Step(p, "read")
        /\ UNCHANGED lock
  /\ UNCHANGED <<binaries, bounds>>

WriteLock(p) ==
  /\ proc[p].pc = "write"
  /\ lock' = IF lock.owner = p THEN [lock EXCEPT !.written = TRUE] ELSE lock
  /\ Step(p, "download")
  /\ UNCHANGED <<binaries, bounds>>

\* read_lock_ts: a file without a timestamp is not stale.
IsStale == lock.present /\ lock.written /\ lock.age > Stale

\* A stale lock is to be removed, any other ends the command.
ReadLock(p) ==
  /\ proc[p].pc = "read"
  /\ \/ IsStale /\ Step(p, "reclaim")
     \/ ~IsStale /\ Leave(p)
  /\ UNCHANGED <<binaries, lock, bounds>>

\* The removal, of whatever file is there by now; only the first attempt tries
\* again.
Reclaim(p) ==
  /\ proc[p].pc = "reclaim"
  /\ lock' = Unlocked
  /\ \/ ~proc[p].again /\ proc' = [proc EXCEPT ![p].pc = "create", ![p].again = TRUE]
     \/ proc[p].again /\ Leave(p)
  /\ UNCHANGED <<binaries, bounds>>

\* Dropping the guard removes the file.
Unlock(p) ==
  /\ proc[p].pc = "unlock"
  /\ lock' = Unlocked
  /\ Leave(p)
  /\ UNCHANGED <<binaries, bounds>>

-----------------------------------------------------------------------------
(* run_plain_upgrade.                                                      *)

Failing == fails < session.fails /\ fails' = fails + 1

\* Download, checksum and extraction; a failure leaves the directory as it was.
Download(p) ==
  /\ proc[p].pc = "download"
  /\ \/ \E r \in {"new", "bad"} :
          proc' = [proc EXCEPT ![p].pc = "drop_bak", ![p].release = r]
     \/ Step(p, "unlock")
  /\ UNCHANGED <<binaries, lock, bounds>>

DropBak(p) ==
  /\ proc[p].pc = "drop_bak"
  /\ bak' = "none"
  /\ Step(p, "back_up")
  /\ UNCHANGED <<binary, lock, bounds>>

\* rename(binary, bak): an error (no executable any more) ends the command.
BackUp(p) ==
  /\ proc[p].pc = "back_up"
  /\ \/ /\ binary # "none"
        /\ bak' = binary /\ binary' = "none"
        /\ Step(p, "install")
        /\ UNCHANGED fails
     \/ binary = "none" /\ Step(p, "unlock") /\ UNCHANGED <<binaries, fails>>
     \/ Failing /\ Step(p, "unlock") /\ UNCHANGED binaries
  /\ UNCHANGED <<session, lock, ticks, deaths>>

\* install_binary: a rename, or a copy that may stop half way.
Install(p) ==
  /\ proc[p].pc = "install"
  /\ \/ binary' = proc[p].release /\ Step(p, "verify") /\ UNCHANGED fails
     \/ Failing /\ binary' \in {binary, "bad"} /\ Step(p, "restore")
  /\ UNCHANGED <<session, bak, lock, ticks, deaths>>

\* The binary-level checksum, when one is published and can be fetched.
VerifyBinary(p) ==
  /\ proc[p].pc = "verify"
  /\ \/ Step(p, "smoke")
     \/ binary # "new" /\ Step(p, "restore")
  /\ UNCHANGED <<binaries, lock, bounds>>

\* `--version` must name the release.
SmokeBinary(p) ==
  /\ proc[p].pc = "smoke"
  /\ \/ binary = "new" /\ Step(p, "unlock")
     \/ Step(p, "restore")
  /\ UNCHANGED <<binaries, lock, bounds>>

\* Fault: the backup is moved, not copied.
RestoreByRename(p) ==
  /\ proc[p].pc = "restore"
  /\ binary' = bak /\ bak' = "none"
  /\ Step(p, "unlock")
  /\ UNCHANGED <<lock, bounds>>

\* rollback_restore: the new binary goes, a copy of the backup takes its place
\* and the backup stays; a copy that fails is only reported.
Restore(p) ==
  /\ proc[p].pc = "restore"
  /\ \/ binary' = bak /\ UNCHANGED fails
     \/ Failing /\ binary' \in {"none", "bad"}
  /\ Step(p, "unlock")
  /\ UNCHANGED <<session, bak, lock, ticks, deaths>>

-----------------------------------------------------------------------------
(* run_rollback: no lock.                                                  *)

BeginRollback(p) ==
  /\ p \in session.rollers
  /\ proc[p].pc = "idle"
  /\ bak # "none"
  /\ Step(p, IF binary = "none" THEN "roll_rename" ELSE "roll_remove")
  /\ UNCHANGED <<binaries, lock, bounds>>

RollRemove(p) ==
  /\ proc[p].pc = "roll_remove"
  /\ binary' = "none"
  /\ Step(p, "roll_rename")
  /\ UNCHANGED <<bak, lock, bounds>>

RollRename(p) ==
  /\ proc[p].pc = "roll_rename"
  /\ \/ bak # "none" /\ binary' = bak /\ bak' = "none"
     \/ bak = "none" /\ UNCHANGED binaries
  /\ Leave(p)
  /\ UNCHANGED <<lock, bounds>>

-----------------------------------------------------------------------------
\* A process dies; its guards do not run.
Die(p) ==
  /\ deaths < session.deaths
  /\ proc[p].pc # "idle"
  /\ deaths' = deaths + 1
  /\ Leave(p)
  /\ UNCHANGED <<session, binaries, lock, ticks, fails>>

Tick ==
  /\ ticks < session.ticks
  /\ ticks' = ticks + 1
  /\ lock' = IF lock.present /\ lock.age <= Stale THEN [lock EXCEPT !.age = @ + 1] ELSE lock
  /\ UNCHANGED <<session, binaries, proc, deaths, fails>>

AcquireStep(p) == Begin(p) \/ Create(p) \/ WriteLock(p) \/ ReadLock(p) \/ Reclaim(p)
InstallStep(p) == \/ Download(p) \/ DropBak(p) \/ BackUp(p) \/ Install(p)
                  \/ VerifyBinary(p) \/ SmokeBinary(p) \/ Restore(p) \/ Unlock(p)
RollbackStep(p) == BeginRollback(p) \/ RollRemove(p) \/ RollRename(p)

CliNext ==
  \/ \E p \in Upgrader : AcquireStep(p) \/ InstallStep(p)
  \/ \E p \in Roller : RollbackStep(p)
  \/ \E p \in Proc : Die(p)
  \/ Tick

CliSpec == CliInit /\ [][CliNext]_cliVars

-----------------------------------------------------------------------------
(* What the command promises.                                              *)

Inside(p) == proc[p].pc \in Installing

\* "Exclusive lock preventing two upgrades of the same directory at once."
OneUpgradePerDirectory == \A p, q \in Upgrader : Inside(p) /\ Inside(q) => p = q

\* There is always a binary that runs, in place or as the backup, whichever
\* call fails and wherever the process dies.
SomeBinaryRuns == Runs(binary) \/ Runs(bak)

\* "Every failure after the backup restores the previous binary and preserves
\* the `.bak`": when the command gives up after its restore, the executable and
\* the backup are the binary it found, unless the copy itself failed.
FailureRestores ==
  [][\A p \in Upgrader :
       proc[p].pc = "restore" /\ proc'[p].pc = "unlock" /\ fails' = fails
         => Runs(binary') /\ binary' = bak']_cliVars

\* A process that lives gives the lock back: a lock file without a live owner
\* is the trace of a crash.
LockHasOwner ==
  lock.present => \/ lock.owner # NoOne /\ proc[lock.owner].pc \in Installing \cup {"write", "unlock"}
                  \/ deaths > 0

\* The directory of the executable is in order: one upgrade at a time, a lock that means
\* something, a binary that runs.
DirectoryIsSound == OneUpgradePerDirectory /\ LockHasOwner /\ SomeBinaryRuns
=============================================================================
