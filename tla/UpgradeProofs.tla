--------------------------- MODULE UpgradeProofs ----------------------------
(***************************************************************************)
(* Proofs about the two ways to upgrade: the command (CliUpgrade) and the  *)
(* job of the server (UpgradeJob).                                         *)
(***************************************************************************)
EXTENDS UpgradeJob, CliUpgrade, TLAPS, FiniteSetTheorems

-----------------------------------------------------------------------------
(* The command.                                                            *)

\* One process at a time, with everything that may go wrong.
Alone(x) == \A p, q \in x.upgraders \cup x.rollers : p = q

\* Several processes that only upgrade, before a lock file can become stale and
\* with file operations that work.  Outside of these two the promises do not
\* hold: two processes may reclaim one stale lock, a rollback takes no lock, and
\* a process that waits for the lock of one whose restore failed drops the
\* backup that is left.
BeforeStale(x) == x.ticks <= Stale /\ x.rollers = {} /\ x.fails = 0

OrderlySessions == \A x \in Session : Alone(x) \/ BeforeStale(x)

\* The places at which a process holds the lock.
Holds == Installing \cup {"write", "unlock"}
Rolling == {"roll_remove", "roll_rename"}

\* Who takes part, and in what.
TakesPart ==
  \A p \in Proc :
    /\ proc[p].pc \in Rolling => p \in session.rollers
    /\ proc[p].pc \notin Rolling \cup {"idle"} => p \in session.upgraders

\* The lock belongs to the process that is past it, and is stale only when
\* the session lasts that long.
LockMeansOwner ==
  /\ \A p \in Proc : proc[p].pc \in Holds => lock.present /\ lock.owner = p
  /\ lock.present => lock.age <= ticks
  /\ \A p \in Proc : proc[p].pc = "reclaim" => Stale < ticks

\* The executable runs until it has been moved to the backup, and from then on
\* the backup does.
BinariesAtHand ==
  /\ bak \in {"none", "old", "new"}
  /\ \A p \in Proc :
       /\ proc[p].pc \in {"write", "download", "drop_bak", "back_up"} => Runs(binary)
       /\ proc[p].pc \in {"install", "verify", "smoke", "restore"} \cup Rolling => Runs(bak)
       /\ Alone(session) /\ proc[p].pc \in {"create", "read", "reclaim"} => Runs(binary)
       /\ ~Alone(session) /\ proc[p].pc = "unlock" => Runs(binary)
  /\ ~Alone(session) /\ ~lock.present => Runs(binary)

CliInv ==
  /\ CliTypeOK
  /\ TakesPart
  /\ LockMeansOwner
  /\ LockHasOwner
  /\ BinariesAtHand
  /\ SomeBinaryRuns

LEMMA CliStarts ==
  ASSUME CliInit
  PROVE  CliInv
<1>1. CliTypeOK
  BY CliAssumption DEF CliInit, CliTypeOK, Unlocked, AtPrompt, Binary, Pc
<1>2. TakesPart /\ LockMeansOwner /\ LockHasOwner
  BY DEF CliInit, AtPrompt, Unlocked, TakesPart, LockMeansOwner, LockHasOwner, Rolling,
         Holds, Installing
<1>3. BinariesAtHand /\ SomeBinaryRuns
  BY DEF CliInit, AtPrompt, BinariesAtHand, SomeBinaryRuns, Runs, Rolling
<1> QED
  BY <1>1, <1>2, <1>3 DEF CliInv

(* Nobody but p is past the lock while p is.                               *)
LEMMA HolderIsAlone ==
  ASSUME CliInv, NEW p \in Proc, NEW q \in Proc, proc[p].pc \in Holds, proc[q].pc \in Holds
  PROVE  p = q
  BY DEF CliInv, LockMeansOwner

(* A stale lock and a rollback are met only by a process on its own.       *)
LEMMA OnlyAlone ==
  ASSUME CliInv, OrderlySessions, NEW p \in Proc,
         proc[p].pc \in Rolling \cup {"reclaim"}
  PROVE  Alone(session)
<1>1. session \in Session /\ ticks \in 0 .. session.ticks
  BY DEF CliInv, CliTypeOK
<1>2. BeforeStale(session) => FALSE
  BY <1>1, CliAssumption DEF CliInv, TakesPart, LockMeansOwner, BeforeStale, Rolling
<1> QED
  BY <1>1, <1>2 DEF OrderlySessions

(* On its own, a process that is at work is the only one.                  *)
LEMMA OthersAreIdle ==
  ASSUME CliInv, Alone(session), NEW p \in Proc, NEW q \in Proc,
         proc[p].pc # "idle", proc[q].pc # "idle"
  PROVE  p = q
  BY DEF CliInv, TakesPart, Alone

ProcState == [pc : Pc, again : BOOLEAN, release : Binary]

\* Where a process is after a step that takes p to c.
Moved(p, c) ==
  /\ proc' \in [Proc -> ProcState]
  /\ \A q \in Proc : proc'[q].pc = IF q = p THEN c ELSE proc[q].pc

(* The four forms in which a process moves.                                *)
LEMMA Moves ==
  ASSUME CliInv, NEW p \in Proc, NEW c \in Pc
  PROVE  /\ Step(p, c) => Moved(p, c)
         /\ Leave(p) => Moved(p, "idle")
         /\ proc' = [proc EXCEPT ![p].pc = c, ![p].again = TRUE] => Moved(p, c)
         /\ \A r \in Binary : proc' = [proc EXCEPT ![p].pc = c, ![p].release = r] => Moved(p, c)
<1>1. proc \in [Proc -> ProcState]
  BY DEF CliInv, CliTypeOK, ProcState
<1>2. Step(p, c) => Moved(p, c)
  BY <1>1 DEF Step, Moved, ProcState
<1>3. Leave(p) => Moved(p, "idle")
  BY <1>1 DEF Leave, AtPrompt, Moved, ProcState, Pc, Binary
<1>4. proc' = [proc EXCEPT ![p].pc = c, ![p].again = TRUE] => Moved(p, c)
  BY <1>1 DEF Moved, ProcState
<1>5. ASSUME NEW r \in Binary, proc' = [proc EXCEPT ![p].pc = c, ![p].release = r]
      PROVE  Moved(p, c)
  BY <1>1, <1>5 DEF Moved, ProcState
<1> QED
  BY <1>2, <1>3, <1>4, <1>5

\* The places that call for an executable that runs, and for such a backup.
NeedsBinary(c) ==
  \/ c \in {"write", "download", "drop_bak", "back_up"}
  \/ Alone(session) /\ c \in {"create", "read", "reclaim"}
  \/ ~Alone(session) /\ c = "unlock"
NeedsBackup(c) == c \in {"install", "verify", "smoke", "restore"} \cup Rolling

(* A step that leaves the lock as it is: it must not let go of the lock or *)
(* take it, and must not come to a place that calls for a binary that is   *)
(* not there; and when it touches the files nobody else relies on them.    *)
LEMMA LockStays ==
  ASSUME CliInv, NEW p \in Proc, NEW c \in Pc, Moved(p, c),
         UNCHANGED <<session, lock, ticks, deaths>>, fails' \in 0 .. session.fails,
         (proc[p].pc \in Holds) <=> (c \in Holds),
         c = "reclaim" => Stale < ticks,
         c \in Rolling => p \in session.rollers,
         c \notin Rolling \cup {"idle"} => p \in session.upgraders,
         binary' \in Binary, bak' \in {"none", "old", "new"},
         NeedsBinary(c) => Runs(binary'),
         NeedsBackup(c) => Runs(bak'),
         \A q \in Proc \ {p} : NeedsBinary(proc[q].pc) => Runs(binary'),
         \A q \in Proc \ {p} : NeedsBackup(proc[q].pc) => Runs(bak'),
         ~Alone(session) /\ ~lock.present => Runs(binary'),
         Runs(binary') \/ Runs(bak')
  PROVE  CliInv'
<1>1. CliTypeOK'
  BY DEF CliInv, CliTypeOK, Moved, ProcState, Binary
<1>2. TakesPart'
  BY DEF CliInv, TakesPart, Moved
<1>3. LockMeansOwner'
  BY DEF CliInv, LockMeansOwner, Moved
<1>4. LockHasOwner'
  <2>1. lock.present /\ lock.owner # NoOne => lock.owner \in Proc
    BY DEF CliInv, CliTypeOK
  <2> QED
    BY <2>1 DEF CliInv, LockHasOwner, Moved, Holds
<1>5. BinariesAtHand'
  <2>1. \A q \in Proc : NeedsBinary(proc'[q].pc) => Runs(binary')
    BY DEF Moved
  <2>2. \A q \in Proc : NeedsBackup(proc'[q].pc) => Runs(bak')
    BY DEF Moved
  <2>3. Alone(session') <=> Alone(session)
    OBVIOUS
  <2> HIDE DEF Moved
  <2> QED
    BY <2>1, <2>2, <2>3 DEF BinariesAtHand, NeedsBinary, NeedsBackup, Runs
<1>6. SomeBinaryRuns'
  BY DEF SomeBinaryRuns, Runs
<1> QED
  BY <1>1, <1>2, <1>3, <1>4, <1>5, <1>6 DEF CliInv

(* What the invariant says of the place where a process is.                *)
LEMMA AtPlace ==
  ASSUME CliInv, NEW q \in Proc
  PROVE  /\ NeedsBinary(proc[q].pc) => Runs(binary)
         /\ NeedsBackup(proc[q].pc) => Runs(bak)
         /\ binary \in Binary /\ bak \in {"none", "old", "new"} /\ bak \in Binary
         /\ ~Alone(session) /\ ~lock.present => Runs(binary)
         /\ Runs(binary) \/ Runs(bak)
  BY DEF CliInv, CliTypeOK, BinariesAtHand, NeedsBinary, NeedsBackup, SomeBinaryRuns, Binary

(* ... and when the step does not touch the files either.                  *)
LEMMA PlaceChanges ==
  ASSUME CliInv, NEW p \in Proc, NEW c \in Pc, Moved(p, c),
         UNCHANGED <<binaries, lock, bounds>>,
         (proc[p].pc \in Holds) <=> (c \in Holds),
         c = "reclaim" => Stale < ticks,
         c \in Rolling => p \in session.rollers,
         c \notin Rolling \cup {"idle"} => p \in session.upgraders,
         NeedsBinary(c) => Runs(binary),
         NeedsBackup(c) => Runs(bak)
  PROVE  CliInv'
<1>1. UNCHANGED <<session, lock, ticks, deaths>> /\ fails' \in 0 .. session.fails
  BY DEF bounds, CliInv, CliTypeOK
<1>2. binary' = binary /\ bak' = bak
  BY DEF binaries
<1>3. \A q \in Proc : /\ NeedsBinary(proc[q].pc) => Runs(binary)
                      /\ NeedsBackup(proc[q].pc) => Runs(bak)
  BY AtPlace
<1>4. /\ binary \in Binary /\ bak \in {"none", "old", "new"}
      /\ ~Alone(session) /\ ~lock.present => Runs(binary)
      /\ Runs(binary) \/ Runs(bak)
  BY AtPlace
<1> QED
  BY <1>1, <1>2, <1>3, <1>4, LockStays

(* Lock and places: the first half of the command.                         *)
LEMMA AcquireKeeps ==
  ASSUME CliInv, OrderlySessions, NEW p \in Upgrader, AcquireStep(p)
  PROVE  CliInv'
<1>0. p \in Proc
  BY DEF Proc
<1>1. CASE Begin(p)
  <2>1. Moved(p, "create")
    BY <1>0, <1>1, Moves DEF Begin, Pc, Locking
  <2>2. proc[p].pc = "idle" /\ Runs(binary) /\ p \in session.upgraders
        /\ UNCHANGED <<binaries, lock, bounds>>
    BY <1>1 DEF Begin
  <2> QED
    BY <1>0, <2>1, <2>2, PlaceChanges
       DEF NeedsBinary, NeedsBackup, Holds, Rolling, Installing, Pc, Locking
<1>2. CASE Create(p) /\ lock.present
  <2>1. Moved(p, "read")
    BY <1>0, <1>2, Moves DEF Create, Pc, Locking
  <2>2. proc[p].pc = "create" /\ UNCHANGED <<binaries, lock, bounds>>
    BY <1>2 DEF Create
  <2>3. p \in session.upgraders /\ (Alone(session) => Runs(binary))
    BY <1>0, <2>2 DEF CliInv, TakesPart, BinariesAtHand, Rolling
  <2> QED
    BY <1>0, <2>1, <2>2, <2>3, PlaceChanges
       DEF NeedsBinary, NeedsBackup, Holds, Rolling, Installing, Pc, Locking
<1>3. CASE ReadLock(p) /\ IsStale
  <2>1. Moved(p, "reclaim")
    BY <1>0, <1>3, Moves DEF ReadLock, Pc, Locking
  <2>2. proc[p].pc = "read" /\ UNCHANGED <<binaries, lock, bounds>>
    BY <1>3 DEF ReadLock
  <2>3. p \in session.upgraders /\ (Alone(session) => Runs(binary))
    BY <1>0, <2>2 DEF CliInv, TakesPart, BinariesAtHand, Rolling
  <2>4. Stale < ticks
    BY <1>3, CliAssumption DEF IsStale, CliInv, CliTypeOK, LockMeansOwner
  <2> QED
    BY <1>0, <2>1, <2>2, <2>3, <2>4, PlaceChanges
       DEF NeedsBinary, NeedsBackup, Holds, Rolling, Installing, Pc, Locking
<1>4. CASE ReadLock(p) /\ ~IsStale
  <2>1. Moved(p, "idle")
    BY <1>0, <1>4, Moves DEF ReadLock, Pc
  <2>2. proc[p].pc = "read" /\ UNCHANGED <<binaries, lock, bounds>>
    BY <1>4 DEF ReadLock
  <2> QED
    BY <1>0, <2>1, <2>2, PlaceChanges
       DEF NeedsBinary, NeedsBackup, Holds, Rolling, Installing, Pc
<1>5. CASE Create(p) /\ ~lock.present
  <2>1. Moved(p, "write")
    BY <1>0, <1>5, Moves DEF Create, Pc, Locking
  <2>2. /\ proc[p].pc = "create" /\ UNCHANGED <<binaries, bounds>>
        /\ lock' = [owner |-> p, present |-> TRUE, written |-> FALSE, age |-> 0]
    BY <1>5 DEF Create
  <2>3. \A q \in Proc : proc[q].pc \notin Holds
    BY <1>5 DEF CliInv, LockMeansOwner
  <2>4. CliTypeOK'
    BY <1>0, <2>1, <2>2, CliAssumption
       DEF CliInv, CliTypeOK, Moved, ProcState, bounds, binaries
  <2>5. TakesPart'
    BY <1>0, <2>1, <2>2 DEF CliInv, TakesPart, Moved, bounds, Rolling
  <2>6. LockMeansOwner'
    BY <1>0, <2>1, <2>2, <2>3, CliAssumption
       DEF CliInv, CliTypeOK, LockMeansOwner, Moved, bounds
  <2>7. LockHasOwner'
    BY <1>0, <2>1, <2>2, CliAssumption DEF LockHasOwner, Moved, Proc
  <2>8. Runs(binary)
    BY <1>0, <1>5, <2>2 DEF CliInv, BinariesAtHand
  <2>9. BinariesAtHand' /\ SomeBinaryRuns'
    BY <1>0, <2>1, <2>2, <2>8 DEF CliInv, BinariesAtHand, SomeBinaryRuns, Moved, bounds,
       binaries, Rolling, Runs
  <2> QED
    BY <2>4, <2>5, <2>6, <2>7, <2>9 DEF CliInv
<1>6. CASE WriteLock(p)
  <2>1. Moved(p, "download")
    BY <1>0, <1>6, Moves DEF WriteLock, Pc, Installing
  <2>2. /\ proc[p].pc = "write" /\ UNCHANGED <<binaries, bounds>>
        /\ lock' = IF lock.owner = p THEN [lock EXCEPT !.written = TRUE] ELSE lock
    BY <1>6 DEF WriteLock
  <2>3. lock' \in [owner : Proc \cup {NoOne}, present : BOOLEAN, written : BOOLEAN,
                   age : 0 .. Stale + 1]
    BY <2>2 DEF CliInv, CliTypeOK
  <2>4. lock'.owner = lock.owner /\ lock'.present = lock.present /\ lock'.age = lock.age
    BY <2>2 DEF CliInv, CliTypeOK
  <2>5. CliTypeOK'
    BY <2>1, <2>2, <2>3 DEF CliInv, CliTypeOK, Moved, ProcState, bounds, binaries
  <2>6. TakesPart'
    BY <1>0, <2>1, <2>2 DEF CliInv, TakesPart, Moved, bounds, Rolling
  <2>7. LockMeansOwner'
    BY <1>0, <2>1, <2>2, <2>4 DEF CliInv, LockMeansOwner, Moved, bounds, Holds
  <2>8. LockHasOwner'
    <3>1. lock.present /\ lock.owner # NoOne => lock.owner \in Proc
      BY DEF CliInv, CliTypeOK
    <3> QED
      BY <1>0, <2>1, <2>2, <2>4, <3>1 DEF CliInv, LockHasOwner, Moved, bounds, Installing
  <2>9. BinariesAtHand' /\ SomeBinaryRuns'
    BY <1>0, <2>1, <2>2, <2>4 DEF CliInv, BinariesAtHand, SomeBinaryRuns, Moved, bounds,
       binaries, Rolling, Runs
  <2> QED
    BY <2>5, <2>6, <2>7, <2>8, <2>9 DEF CliInv
<1>7. CASE Reclaim(p)
  <2>1. PICK c \in {"create", "idle"} : Moved(p, c)
    BY <1>0, <1>7, Moves DEF Reclaim, Pc, Locking
  <2>2. proc[p].pc = "reclaim" /\ UNCHANGED <<binaries, bounds>> /\ lock' = Unlocked
    BY <1>7 DEF Reclaim
  <2>3. Alone(session)
    BY <1>0, <2>2, OnlyAlone
  <2>4. \A q \in Proc : q # p => proc[q].pc = "idle"
    BY <1>0, <2>2, <2>3, OthersAreIdle
  <2>5. \A q \in Proc : proc'[q].pc \in {"create", "idle"}
    BY <2>1, <2>4 DEF Moved
  <2>6. CliTypeOK'
    BY <2>1, <2>2, CliAssumption DEF CliInv, CliTypeOK, Moved, ProcState, bounds, binaries, Unlocked
  <2>7. TakesPart' /\ LockMeansOwner' /\ LockHasOwner'
    BY <1>0, <2>1, <2>2, <2>5
       DEF CliInv, TakesPart, LockMeansOwner, LockHasOwner, Moved, bounds, Unlocked, Rolling,
           Holds, Installing
  <2>8. Runs(binary)
    BY <1>0, <2>2, <2>3 DEF CliInv, BinariesAtHand
  <2>9. BinariesAtHand' /\ SomeBinaryRuns'
    BY <2>2, <2>5, <2>8 DEF CliInv, BinariesAtHand, SomeBinaryRuns, bounds, binaries, Rolling, Runs
  <2> QED
    BY <2>6, <2>7, <2>9 DEF CliInv
<1> QED
  BY <1>1, <1>2, <1>3, <1>4, <1>5, <1>6, <1>7 DEF AcquireStep, Create, ReadLock

(* A process that holds the lock is the only one whose place depends on    *)
(* the executable.                                                         *)
LEMMA HolderOwnsFiles ==
  ASSUME CliInv, OrderlySessions, NEW p \in Proc, proc[p].pc \in Holds, NEW q \in Proc \ {p}
  PROVE  /\ proc[q].pc \notin Holds
         /\ Alone(session) => proc[q].pc = "idle"
         /\ ~NeedsBinary(proc[q].pc) /\ ~NeedsBackup(proc[q].pc)
<1>1. proc[q].pc \notin Holds
  BY HolderIsAlone
<1>2. Alone(session) => proc[q].pc = "idle"
  BY OthersAreIdle DEF Holds, Installing
<1>3. proc[q].pc \in Rolling => FALSE
  BY <1>2, OnlyAlone DEF Rolling
<1> QED
  BY <1>1, <1>2, <1>3 DEF NeedsBinary, NeedsBackup, Holds, Installing, Rolling

(* The second half of the command, which works under the lock.             *)
LEMMA InstallKeeps ==
  ASSUME CliInv, OrderlySessions, NEW p \in Upgrader, InstallStep(p)
  PROVE  CliInv'
<1>0. p \in Proc
  BY DEF Proc
<1>1. proc[p].pc \in Holds /\ p \in session.upgraders
  <2>1. proc[p].pc \in Holds /\ proc[p].pc \notin Rolling \cup {"idle"}
    BY DEF InstallStep, Download, DropBak, BackUp, Install, VerifyBinary, SmokeBinary, Restore,
           Unlock, Holds, Installing, Rolling
  <2> QED
    BY <1>0, <2>1 DEF CliInv, TakesPart
<1>2. \A q \in Proc \ {p} : /\ proc[q].pc \notin Holds
                            /\ ~NeedsBinary(proc[q].pc) /\ ~NeedsBackup(proc[q].pc)
  BY <1>0, <1>1, HolderOwnsFiles
<1>3. /\ NeedsBinary(proc[p].pc) => Runs(binary)
      /\ NeedsBackup(proc[p].pc) => Runs(bak)
      /\ binary \in Binary /\ bak \in {"none", "old", "new"} /\ bak \in Binary
      /\ Runs(binary) \/ Runs(bak)
  BY <1>0, AtPlace
<1>4. lock.present /\ session \in Session /\ fails \in 0 .. session.fails
  BY <1>0, <1>1 DEF CliInv, CliTypeOK, LockMeansOwner
<1>5. ~Alone(session) => session.fails = 0
  BY <1>4 DEF OrderlySessions, BeforeStale
<1>6. CASE Download(p)
  <2>1. PICK c \in {"drop_bak", "unlock"} : Moved(p, c)
    BY <1>0, <1>6, Moves DEF Download, Pc, Installing, Binary
  <2>2. proc[p].pc = "download" /\ UNCHANGED <<binaries, lock, bounds>>
    BY <1>6 DEF Download
  <2>3. Runs(binary)
    BY <1>3, <2>2 DEF NeedsBinary
  <2> QED
    BY <1>0, <1>1, <2>1, <2>2, <2>3, PlaceChanges
       DEF NeedsBackup, Holds, Rolling, Installing, Pc
<1>7. CASE VerifyBinary(p)
  <2>1. PICK c \in {"smoke", "restore"} : Moved(p, c)
    BY <1>0, <1>7, Moves DEF VerifyBinary, Pc, Installing
  <2>2. proc[p].pc = "verify" /\ UNCHANGED <<binaries, lock, bounds>>
    BY <1>7 DEF VerifyBinary
  <2>3. Runs(bak)
    BY <1>3, <2>2 DEF NeedsBackup
  <2> QED
    BY <1>0, <1>1, <2>1, <2>2, <2>3, PlaceChanges
       DEF NeedsBinary, Holds, Rolling, Installing, Pc
<1>8. CASE SmokeBinary(p)
  <2>1. PICK c \in {"unlock", "restore"} : Moved(p, c) /\ (c = "unlock" => binary = "new")
    BY <1>0, <1>8, Moves DEF SmokeBinary, Pc, Installing
  <2>2. proc[p].pc = "smoke" /\ UNCHANGED <<binaries, lock, bounds>>
    BY <1>8 DEF SmokeBinary
  <2>3. Runs(bak)
    BY <1>3, <2>2 DEF NeedsBackup
  <2> QED
    BY <1>0, <1>1, <2>1, <2>2, <2>3, PlaceChanges
       DEF NeedsBinary, NeedsBackup, Runs, Holds, Rolling, Installing, Pc
<1>9. CASE DropBak(p)
  <2>1. Moved(p, "back_up")
    BY <1>0, <1>9, Moves DEF DropBak, Pc, Installing
  <2>2. proc[p].pc = "drop_bak" /\ bak' = "none" /\ UNCHANGED <<binary, lock, bounds>>
    BY <1>9 DEF DropBak
  <2>3. Runs(binary')
    BY <1>3, <2>2 DEF NeedsBinary, Runs
  <2>4. /\ proc[p].pc \in Holds /\ "back_up" \in Holds /\ "back_up" \in Pc
        /\ "back_up" \notin Rolling /\ ~NeedsBackup("back_up")
    BY <2>2 DEF Holds, Installing, Rolling, NeedsBackup, Pc
  <2> QED
    BY <1>0, <1>1, <1>2, <1>3, <1>4, <2>1, <2>2, <2>3, <2>4, LockStays DEF bounds
<1>10. CASE BackUp(p)
  <2>1. proc[p].pc = "back_up" /\ Runs(binary) /\ UNCHANGED <<session, lock, ticks, deaths>>
    BY <1>3, <1>10 DEF BackUp, NeedsBinary
  <2>2. CASE bak' = binary /\ binary' = "none" /\ Step(p, "install") /\ UNCHANGED fails
    <3>1. Moved(p, "install")
      BY <1>0, <2>2, Moves DEF Pc, Installing
    <3>2. Runs(bak') /\ bak' \in {"none", "old", "new"} /\ binary' \in Binary
      BY <2>1, <2>2 DEF Runs, Binary
    <3>3. /\ "install" \in Holds /\ "install" \in Pc /\ "install" \notin Rolling
          /\ ~NeedsBinary("install")
      BY DEF Holds, Installing, Rolling, NeedsBinary, Pc
    <3> QED
      BY <1>0, <1>1, <1>2, <1>4, <2>1, <2>2, <3>1, <3>2, <3>3, LockStays
  <2>3. CASE Failing /\ Step(p, "unlock") /\ UNCHANGED binaries
    <3>1. Moved(p, "unlock")
      BY <1>0, <2>3, Moves DEF Pc
    <3>2. fails' \in 0 .. session.fails
      BY <1>4, <2>3, CliAssumption DEF Failing
    <3>3. binary' = binary /\ bak' = bak
      BY <2>3 DEF binaries
    <3>4. /\ "unlock" \in Holds /\ "unlock" \in Pc /\ "unlock" \notin Rolling
          /\ ~NeedsBackup("unlock")
      BY DEF Holds, Rolling, NeedsBackup, Pc
    <3>5. Runs(binary')
      BY <2>1, <3>3 DEF Runs
    <3> QED
      BY <1>0, <1>1, <1>2, <1>3, <1>4, <2>1, <3>1, <3>2, <3>3, <3>4, <3>5, LockStays
  <2> QED
    BY <1>10, <2>1, <2>2, <2>3 DEF BackUp, Runs
<1>11. CASE Install(p)
  <2>1. proc[p].pc = "install" /\ UNCHANGED <<session, bak, lock, ticks, deaths>>
    BY <1>11 DEF Install
  <2>2. Runs(bak')
    BY <1>3, <2>1 DEF NeedsBackup, Runs
  <2>3. PICK c \in {"verify", "restore"} : Moved(p, c)
    BY <1>0, <1>11, Moves DEF Install, Pc, Installing
  <2>4. fails' \in 0 .. session.fails
    BY <1>4, <1>11, CliAssumption DEF Install, Failing
  <2>5. binary' \in Binary
    <3>1. proc[p].release \in Binary
      BY <1>0 DEF CliInv, CliTypeOK
    <3> QED
      BY <1>3, <1>11, <3>1 DEF Install, Binary
  <2>6. c \in Holds /\ c \in Pc /\ c \notin Rolling /\ ~NeedsBinary(c) /\ c # "reclaim"
    BY <2>3 DEF Holds, Installing, Rolling, NeedsBinary, Pc
  <2> QED
    BY <1>0, <1>1, <1>2, <1>3, <1>4, <2>1, <2>2, <2>3, <2>4, <2>5, <2>6, LockStays
<1>12. CASE Restore(p)
  <2>1. proc[p].pc = "restore" /\ UNCHANGED <<session, bak, lock, ticks, deaths>>
    BY <1>12 DEF Restore
  <2>2. Runs(bak')
    BY <1>3, <2>1 DEF NeedsBackup, Runs
  <2>3. Moved(p, "unlock")
    BY <1>0, <1>12, Moves DEF Restore, Pc
  <2>4. fails' \in 0 .. session.fails
    BY <1>4, <1>12, CliAssumption DEF Restore, Failing
  <2>5. binary' \in Binary
    BY <1>3, <1>12 DEF Restore, Binary
  <2>6. ~Alone(session) => Runs(binary')
    BY <1>4, <1>5, <1>12, <2>1, <2>2 DEF Restore, Failing
  <2>7. /\ "unlock" \in Holds /\ "unlock" \in Pc /\ "unlock" \notin Rolling
        /\ ~NeedsBackup("unlock") /\ (NeedsBinary("unlock") => ~Alone(session))
    BY DEF Holds, Rolling, NeedsBackup, NeedsBinary, Pc
  <2> QED
    BY <1>0, <1>1, <1>2, <1>3, <1>4, <2>1, <2>2, <2>3, <2>4, <2>5, <2>6, <2>7, LockStays
<1>13. CASE Unlock(p)
  <2>1. Moved(p, "idle")
    BY <1>0, <1>13, Moves DEF Unlock, Pc
  <2>2. proc[p].pc = "unlock" /\ UNCHANGED <<binaries, bounds>> /\ lock' = Unlocked
    BY <1>13 DEF Unlock
  <2>3. \A q \in Proc : /\ proc'[q].pc \notin Holds
                        /\ ~NeedsBackup(proc'[q].pc)
    BY <1>2, <2>1 DEF Moved, Holds, Installing, NeedsBackup, Rolling
  <2>4. CliTypeOK'
    BY <2>1, <2>2, CliAssumption DEF CliInv, CliTypeOK, Moved, ProcState, bounds, binaries, Unlocked
  <2>5. TakesPart'
    BY <2>1, <2>2 DEF CliInv, TakesPart, Moved, bounds, Rolling
  <2>6. LockMeansOwner' /\ LockHasOwner'
    BY <2>1, <2>2, <2>3 DEF CliInv, LockMeansOwner, LockHasOwner, Moved, bounds, Unlocked
  <2>7. ~Alone(session) => Runs(binary)
    BY <1>3, <2>2 DEF NeedsBinary
  <2>8. \A q \in Proc : Alone(session) => proc'[q].pc = "idle"
    BY <1>0, <1>1, <2>1, HolderOwnsFiles DEF Moved
  <2>9. BinariesAtHand' /\ SomeBinaryRuns'
    BY <1>3, <2>2, <2>3, <2>7, <2>8 DEF BinariesAtHand, SomeBinaryRuns, bounds,
       binaries, Rolling, Runs, NeedsBackup, Holds, Installing
  <2> QED
    BY <2>4, <2>5, <2>6, <2>9 DEF CliInv
<1> QED
  BY <1>6, <1>7, <1>8, <1>9, <1>10, <1>11, <1>12, <1>13 DEF InstallStep

(* The rollback, which takes no lock.                                      *)
LEMMA RollbackKeeps ==
  ASSUME CliInv, OrderlySessions, NEW p \in Roller, RollbackStep(p)
  PROVE  CliInv'
<1>0. p \in Proc
  BY DEF Proc
<1>1. /\ binary \in Binary /\ bak \in {"none", "old", "new"} /\ bak \in Binary
      /\ fails \in 0 .. session.fails
  BY <1>0, AtPlace DEF CliInv, CliTypeOK
<1>2. CASE BeginRollback(p)
  <2>1. PICK c \in Rolling : Moved(p, c)
    BY <1>0, <1>2, Moves DEF BeginRollback, Pc, Rolling
  <2>2. /\ proc[p].pc = "idle" /\ bak # "none" /\ p \in session.rollers
        /\ UNCHANGED <<binaries, lock, bounds>>
    BY <1>2 DEF BeginRollback
  <2>3. Runs(bak)
    BY <1>1, <2>2 DEF Runs
  <2> QED
    BY <1>0, <2>1, <2>2, <2>3, PlaceChanges
       DEF NeedsBinary, Holds, Rolling, Installing, Pc
<1>3. ASSUME proc[p].pc \in Rolling
      PROVE  /\ Alone(session) /\ Runs(bak) /\ p \in session.rollers
             /\ \A q \in Proc \ {p} : proc[q].pc = "idle"
  <2>1. Alone(session) /\ p \in session.rollers
    BY <1>0, <1>3, OnlyAlone DEF CliInv, TakesPart
  <2>2. Runs(bak)
    BY <1>0, <1>3, AtPlace DEF NeedsBackup
  <2>3. proc[p].pc # "idle"
    BY <1>3 DEF Rolling
  <2> QED
    BY <1>0, <2>1, <2>2, <2>3, OthersAreIdle
<1>4. CASE RollRemove(p)
  <2>1. Moved(p, "roll_rename")
    BY <1>0, <1>4, Moves DEF RollRemove, Pc
  <2>2. proc[p].pc = "roll_remove" /\ binary' = "none" /\ UNCHANGED <<bak, lock, bounds>>
    BY <1>4 DEF RollRemove
  <2>3. /\ Alone(session) /\ Runs(bak) /\ p \in session.rollers
        /\ \A q \in Proc \ {p} : proc[q].pc = "idle"
    BY <1>3, <2>2 DEF Rolling
  <2>4. ~NeedsBinary("idle") /\ ~NeedsBackup("idle") /\ ~NeedsBinary("roll_rename")
    BY DEF NeedsBinary, NeedsBackup, Rolling
  <2>5. /\ proc[p].pc \notin Holds /\ "roll_rename" \notin Holds /\ "roll_rename" \in Rolling
        /\ "roll_rename" \in Pc /\ binary' \in Binary /\ Runs(bak')
    BY <2>2, <2>3 DEF Holds, Installing, Rolling, Pc, Binary, Runs
  <2> QED
    BY <1>0, <1>1, <2>1, <2>2, <2>3, <2>4, <2>5, LockStays DEF bounds
<1>5. CASE RollRename(p)
  <2>1. Moved(p, "idle")
    BY <1>0, <1>5, Moves DEF RollRename, Pc
  <2>2. proc[p].pc = "roll_rename" /\ UNCHANGED <<lock, bounds>>
    BY <1>5 DEF RollRename
  <2>3. /\ Alone(session) /\ Runs(bak)
        /\ \A q \in Proc \ {p} : proc[q].pc = "idle"
    BY <1>3, <2>2 DEF Rolling
  <2>4. binary' = bak /\ bak' = "none"
    BY <1>5, <2>3 DEF RollRename, Runs
  <2>5. ~NeedsBinary("idle") /\ ~NeedsBackup("idle")
    BY DEF NeedsBinary, NeedsBackup, Rolling
  <2>6. /\ proc[p].pc \notin Holds /\ "idle" \notin Holds /\ "idle" \notin Rolling
        /\ "idle" \in Pc /\ binary' \in Binary /\ Runs(binary')
    BY <1>1, <2>2, <2>3, <2>4 DEF Holds, Installing, Rolling, Pc, Runs
  <2> QED
    BY <1>0, <1>1, <2>1, <2>2, <2>3, <2>4, <2>5, <2>6, LockStays DEF bounds
<1> QED
  BY <1>2, <1>4, <1>5 DEF RollbackStep

LEMMA DeathKeeps ==
  ASSUME CliInv, NEW p \in Proc, Die(p)
  PROVE  CliInv'
<1>1. Moved(p, "idle")
  BY Moves DEF Die, Pc
<1>2. deaths' = deaths + 1 /\ UNCHANGED <<session, binaries, lock, ticks, fails>>
      /\ deaths < session.deaths
  BY DEF Die
<1>3. session \in Session /\ deaths \in 0 .. session.deaths /\ session.deaths \in Nat
  BY CliAssumption DEF CliInv, CliTypeOK
<1>4. deaths' \in 0 .. session.deaths /\ deaths' > 0
  BY <1>2, <1>3
<1>5. CliTypeOK'
  BY <1>1, <1>2, <1>4 DEF CliInv, CliTypeOK, Moved, ProcState, binaries
<1>6. TakesPart' /\ LockMeansOwner' /\ LockHasOwner'
  BY <1>1, <1>2, <1>4 DEF CliInv, TakesPart, LockMeansOwner, LockHasOwner, Moved, Holds,
     Installing, Rolling
<1>7. BinariesAtHand' /\ SomeBinaryRuns'
  BY <1>1, <1>2 DEF CliInv, BinariesAtHand, SomeBinaryRuns, Moved, binaries, Rolling, Runs
<1> QED
  BY <1>5, <1>6, <1>7 DEF CliInv

LEMMA ClockKeeps ==
  ASSUME CliInv, Tick
  PROVE  CliInv'
<1>1. ticks' = ticks + 1 /\ ticks < session.ticks
      /\ UNCHANGED <<session, binaries, proc, deaths, fails>>
  BY DEF Tick
<1>2. session \in Session /\ ticks \in 0 .. session.ticks /\ session.ticks \in Nat
  BY CliAssumption DEF CliInv, CliTypeOK
<1>3. /\ lock' \in [owner : Proc \cup {NoOne}, present : BOOLEAN, written : BOOLEAN,
                    age : 0 .. Stale + 1]
      /\ lock'.owner = lock.owner /\ lock'.present = lock.present
      /\ lock'.age <= lock.age + 1
  BY CliAssumption DEF CliInv, CliTypeOK, Tick
<1>4. ticks' \in 0 .. session.ticks /\ ticks' > ticks
  BY <1>1, <1>2
<1>5. CliTypeOK'
  BY <1>1, <1>3, <1>4 DEF CliInv, CliTypeOK, binaries
<1>6. TakesPart'
  BY <1>1 DEF CliInv, TakesPart
<1>7. LockMeansOwner' /\ LockHasOwner'
  <2>1. lock.age \in 0 .. Stale + 1 /\ lock'.age \in 0 .. Stale + 1
    BY <1>3 DEF CliInv, CliTypeOK
  <2>2. lock'.present => lock'.age <= ticks'
    BY <1>1, <1>2, <1>3, <2>1, CliAssumption DEF CliInv, LockMeansOwner
  <2>3. \A p \in Proc : proc'[p].pc = "reclaim" => Stale < ticks'
    BY <1>1, <1>2, CliAssumption DEF CliInv, LockMeansOwner
  <2>4. \A p \in Proc : proc'[p].pc \in Holds => lock'.present /\ lock'.owner = p
    BY <1>1, <1>3 DEF CliInv, LockMeansOwner
  <2>5. LockHasOwner'
    BY <1>1, <1>3 DEF CliInv, LockHasOwner
  <2> QED
    BY <2>2, <2>3, <2>4, <2>5 DEF LockMeansOwner
<1>8. BinariesAtHand' /\ SomeBinaryRuns'
  BY <1>1, <1>3 DEF CliInv, BinariesAtHand, SomeBinaryRuns, binaries, Runs
<1> QED
  BY <1>5, <1>6, <1>7, <1>8 DEF CliInv

LEMMA CliKeeps ==
  ASSUME CliInv, OrderlySessions, [CliNext]_cliVars
  PROVE  CliInv'
<1>1. CASE UNCHANGED cliVars
  BY <1>1 DEF cliVars, CliInv, CliTypeOK, TakesPart, LockMeansOwner, LockHasOwner,
     BinariesAtHand, SomeBinaryRuns, Runs
<1> QED
  BY <1>1, AcquireKeeps, InstallKeeps, RollbackKeeps, DeathKeeps, ClockKeeps DEF CliNext

LEMMA CliAlways ==
  ASSUME OrderlySessions
  PROVE  CliSpec => []CliInv
<1>1. CliInit => CliInv
  BY CliStarts
<1>2. CliInv /\ [CliNext]_cliVars => CliInv'
  BY CliKeeps
<1> QED
  BY <1>1, <1>2, PTL DEF CliSpec

(* However often the command fails, dies and is started again, rolled back *)
(* or run beside others (within OrderlySessions), there is a binary that   *)
(* runs, no two upgrades work on the directory at once, and a lock file    *)
(* without a live owner is the trace of a crash.                           *)
THEOREM DirectoryStaysSound ==
  ASSUME OrderlySessions
  PROVE  CliSpec => []DirectoryIsSound
<1>1. CliInv => DirectoryIsSound
  BY HolderIsAlone DEF CliInv, DirectoryIsSound, OneUpgradePerDirectory, Inside, Holds, Proc
<1> QED
  BY <1>1, CliAlways, PTL

(* A failure after the backup restores the previous binary and preserves   *)
(* the backup (rollback_restore).                                          *)
THEOREM FailuresRestore ==
  ASSUME OrderlySessions
  PROVE  CliSpec => FailureRestores
<1>1. ASSUME CliInv, [CliNext]_cliVars, NEW p \in Upgrader,
             proc[p].pc = "restore", proc'[p].pc = "unlock", fails' = fails
      PROVE  Runs(binary') /\ binary' = bak'
  <2>0. p \in Proc
    BY DEF Proc
  <2>1. Runs(bak)
    BY <1>1, <2>0, AtPlace DEF NeedsBackup
  <2>2. ASSUME NEW q \in Proc, NEW c \in Pc, Moved(q, c), c # "unlock" \/ proc[q].pc # "restore"
        PROVE  FALSE
    BY <1>1, <2>0, <2>2 DEF Moved
  <2>3. ASSUME NEW q \in Upgrader, Restore(q)
        PROVE  Runs(binary') /\ binary' = bak'
    <3>1. bak' = bak /\ binary' = bak
      BY <1>1, <2>3 DEF Restore, Failing, CliInv, CliTypeOK
    <3> QED
      BY <2>1, <3>1 DEF Runs
  <2>4. ASSUME NEW q \in Upgrader
        PROVE  ~AcquireStep(q)
    <3>1. q \in Proc
      BY DEF Proc
    <3>2. AcquireStep(q) => \E c \in Pc \ {"unlock"} : Moved(q, c)
      BY <1>1, <3>1, Moves DEF AcquireStep, Begin, Create, WriteLock, ReadLock, Reclaim, Pc,
         Locking, Installing
    <3> QED
      BY <2>2, <3>1, <3>2
  <2>5. ASSUME NEW q \in Upgrader, InstallStep(q)
        PROVE  Restore(q)
    <3>1. q \in Proc
      BY DEF Proc
    <3>2. \/ Restore(q)
          \/ proc[q].pc # "restore" /\ \E c \in Pc : Moved(q, c)
      BY <1>1, <2>5, <3>1, Moves DEF InstallStep, Download, DropBak, BackUp, Install,
         VerifyBinary, SmokeBinary, Unlock, Pc, Installing, Binary
    <3> QED
      BY <2>2, <3>1, <3>2
  <2>6. ASSUME NEW q \in Roller
        PROVE  ~RollbackStep(q)
    <3>1. q \in Proc
      BY DEF Proc
    <3>2. RollbackStep(q) => \E c \in Pc \ {"unlock"} : Moved(q, c)
      BY <1>1, <3>1, Moves DEF RollbackStep, BeginRollback, RollRemove, RollRename, Pc
    <3> QED
      BY <2>2, <3>1, <3>2
  <2>7. ASSUME NEW q \in Proc
        PROVE  ~Die(q)
    <3>1. Die(q) => Moved(q, "idle")
      BY <1>1, Moves DEF Die, Pc
    <3> QED
      BY <2>2, <3>1 DEF Pc
  <2>8. ~Tick /\ ~UNCHANGED cliVars
    BY <1>1 DEF Tick, cliVars
  <2> QED
    BY <1>1, <2>3, <2>4, <2>5, <2>6, <2>7, <2>8 DEF CliNext
<1>2. CliInv /\ [CliNext]_cliVars =>
        [\A p \in Upgrader :
           proc[p].pc = "restore" /\ proc'[p].pc = "unlock" /\ fails' = fails
             => Runs(binary') /\ binary' = bak']_cliVars
  BY <1>1
<1> QED
  BY <1>2, CliAlways, PTL DEF CliSpec, FailureRestores

-----------------------------------------------------------------------------
(* The job of the server.                                                  *)

\* A check that is under way sets the job to idle when it returns, whatever has
\* become of it: the promises hold as long as no second upgrade can start beside
\* a check.
NoStartBesideCheck == \A x \in Setting : x.starts <= 1 \/ ~x.checks

\* How much was downloaded before each download.
Counted ==
  \A s \in Starter :
    /\ task[s].current <= Size
    /\ task[s].pc \in {"prepare", "asset"} => task[s].completed = 0
    /\ task[s].pc = "checksum" => task[s].completed = Size
    /\ task[s].pc \in {"verify", "extract", "smoke", "dist_lookup", "dist"} =>
         task[s].completed = 2 * Size
    /\ task[s].pc = "dist_checksum" => task[s].completed = 3 * Size

\* A starter that has passed the gate, whatever has become of its task.
Entered(s) == starter[s] = "refresh" \/ task[s].pc # "none"

\* One upgrade at a time: because only one may start at all, or because the job
\* says that it is under way for as long as it is.
Exclusive ==
  /\ \A s \in Starter : starter[s] = "refresh" => task[s].pc = "none"
  /\ \A s, u \in Upgrading : s = u
  /\ setting.starts <= 1 =>
       /\ \A s, u \in Starter : Entered(s) /\ Entered(u) => s = u
       /\ starts = 0 => \A s \in Starter : ~Entered(s)
  /\ ~setting.checks =>
       /\ \A c \in Checker : checker[c].pc = "idle"
       /\ Upgrading # {} => IsRunning(job.state)

JobInv ==
  /\ UpgradeTypeOK
  /\ Counted
  /\ RunningHasWorker
  /\ Exclusive

LEMMA JobStarts ==
  ASSUME UpgradeInit
  PROVE  JobInv
<1>1. UpgradeTypeOK
  <2>1. /\ setting \in Setting /\ setting.starts \in Nat
        /\ starts \in 0 .. setting.starts /\ faults \in 0 .. MaxFaults
    BY UpgradeAssumption DEF UpgradeInit
  <2>2. job \in [state : JobState, progress : NoProgress .. 4 * Size + 1]
    BY UpgradeAssumption DEF UpgradeInit, IdleJob, NoProgress, JobState
  <2>3. task \in [Starter -> TaskState]
    BY DEF UpgradeInit, NoTask, TaskState, TaskPc, Content
  <2>4. /\ cached \in BOOLEAN
        /\ checker \in [Checker -> [pc : {"idle", "mark", "refresh"}, was_idle : BOOLEAN]]
        /\ starter \in [Starter -> {"idle", "refresh"}]
        /\ orphaned \in BOOLEAN
    BY DEF UpgradeInit, AtRest
  <2>5. /\ exe \in Content
        /\ bin \in [Starter -> [backup : Content, staged : Content]]
        /\ live \in [File -> Content]
        /\ parked \in [Starter -> [File -> Content]]
    BY DEF UpgradeInit, Content, Empty, OldWeb
  <2> QED
    BY <2>1, <2>2, <2>3, <2>4, <2>5 DEF UpgradeTypeOK
<1>2. Counted
  BY UpgradeAssumption DEF UpgradeInit, Counted, NoTask
<1>3. RunningHasWorker /\ Exclusive
  BY DEF UpgradeInit, RunningHasWorker, Exclusive, IsRunning, IdleJob, NoTask, AtRest, Entered,
     Upgrading, Working
<1> QED
  BY <1>1, <1>2, <1>3 DEF JobInv

\* What the others see of a step of the task of s.
OthersStay(s) ==
  /\ task' \in [Starter -> TaskState]
  /\ \A u \in Starter : u # s => task'[u] = task[u]

\* The task of s goes to another place and nothing else of it changes.
Went(s, pc) ==
  /\ OthersStay(s)
  /\ task'[s].pc = pc
  /\ task'[s].completed = task[s].completed
  /\ task'[s].current = task[s].current
  /\ task'[s].archive = task[s].archive
  /\ task'[s].page = task[s].page
  /\ task'[s].fresh = task[s].fresh

\* A download is over: it is added to the completed ones.
Finished(s) ==
  /\ OthersStay(s)
  /\ task'[s].completed = task[s].completed + Size
  /\ task'[s].current = 0
  /\ task'[s].fresh = task[s].fresh
  /\ \/ /\ task[s].pc = "asset" /\ task'[s].pc = "checksum"
        /\ task'[s].archive \in {"new", "corrupt"} /\ task'[s].page = task[s].page
     \/ /\ task[s].pc = "checksum" /\ task'[s].pc = "verify"
        /\ task'[s].archive = task[s].archive /\ task'[s].page = task[s].page
     \/ /\ task[s].pc = "dist" /\ task'[s].pc \in {"dist_checksum", "dist_extract"}
        /\ task'[s].archive = task[s].archive /\ task'[s].page \in {"new", "corrupt"}
     \/ /\ task[s].pc = "dist_checksum" /\ task'[s].pc = "dist_verify"
        /\ task'[s].archive = task[s].archive /\ task'[s].page = task[s].page

LEMMA Goes ==
  ASSUME task \in [Starter -> TaskState], NEW s \in Starter, NEW pc \in TaskPc, Go(s, pc)
  PROVE  Went(s, pc)
  BY DEF Go, Went, OthersStay, TaskState

(* The record of a task after a download.                                  *)
LEMMA AccountIs ==
  ASSUME NEW r \in TaskState
  PROVE  LET t == Account(r)
         IN  /\ t \in TaskState /\ t.pc = r.pc /\ t.archive = r.archive /\ t.page = r.page
             /\ t.completed = r.completed + Size /\ t.current = 0 /\ t.fresh = r.fresh
<1>1. PICK n \in Nat : n = r.completed + Size
  BY UpgradeAssumption DEF TaskState
<1>2. Account(r) = [r EXCEPT !.completed = n, !.current = 0]
  BY <1>1 DEF Account, TaskState
<1>3. [r EXCEPT !.completed = n, !.current = 0] \in TaskState
  BY DEF TaskState
<1> QED
  BY <1>1, <1>2, <1>3 DEF TaskState

LEMMA Finishes ==
  ASSUME task \in [Starter -> TaskState], NEW s \in Starter, Downloaded(s)
  PROVE  Finished(s)
<1>0. task[s] \in TaskState
  OBVIOUS
<1>1. PICK t \in TaskState :
        /\ t = Account(task[s])
        /\ t.pc = task[s].pc
        /\ t.completed = task[s].completed + Size
        /\ t.current = 0
        /\ t.archive = task[s].archive
        /\ t.page = task[s].page
        /\ t.fresh = task[s].fresh
  BY <1>0, AccountIs
<1>2. {"checksum", "verify", "dist_checksum", "dist_extract", "dist_verify"} \subseteq TaskPc
      /\ {"new", "corrupt"} \subseteq Content
  BY DEF TaskPc, Downloads, Content
<1>3. CASE /\ t.pc = "asset"
           /\ \E c \in {"new", "corrupt"} :
                task' = [task EXCEPT ![s] = [t EXCEPT !.pc = "checksum", !.archive = c]]
  <2>1. PICK c \in {"new", "corrupt"} :
          task' = [task EXCEPT ![s] = [t EXCEPT !.pc = "checksum", !.archive = c]]
    BY <1>3
  <2> DEFINE n == [t EXCEPT !.pc = "checksum", !.archive = c]
  <2>2. "checksum" \in TaskPc /\ c \in Content
    BY <1>2
  <2>3. /\ n \in TaskState
        /\ n.pc = "checksum" /\ n.archive = c /\ n.page = t.page
        /\ n.completed = t.completed /\ n.current = t.current /\ n.fresh = t.fresh
    BY <2>2 DEF TaskState
  <2>4. task' = [task EXCEPT ![s] = n]
    BY <2>1
  <2> HIDE DEF n
  <2> QED
    BY <1>1, <1>3, <2>1, <2>3, <2>4 DEF Finished, OthersStay
<1>4. ASSUME NEW pc \in {"verify", "dist_verify"}, task' = [task EXCEPT ![s] = [t EXCEPT !.pc = pc]],
             \/ t.pc = "checksum" /\ pc = "verify"
             \/ t.pc = "dist_checksum" /\ pc = "dist_verify"
      PROVE  Finished(s)
  <2> DEFINE n == [t EXCEPT !.pc = pc]
  <2>1. pc \in TaskPc /\ "new" \in Content
    BY <1>2
  <2>2. /\ n \in TaskState
        /\ n.pc = pc /\ n.archive = t.archive /\ n.page = t.page
        /\ n.completed = t.completed /\ n.current = t.current /\ n.fresh = t.fresh
    BY <2>1 DEF TaskState
  <2>3. task' = [task EXCEPT ![s] = n]
    BY <1>4
  <2> HIDE DEF n
  <2> QED
    BY <1>1, <1>4, <2>2, <2>3 DEF Finished, OthersStay
<1>5. CASE /\ t.pc = "dist"
           /\ \E c \in {"new", "corrupt"}, pc \in {"dist_checksum", "dist_extract"} :
                task' = [task EXCEPT ![s] = [t EXCEPT !.page = c, !.pc = pc]]
  <2>1. PICK c \in {"new", "corrupt"}, pc \in {"dist_checksum", "dist_extract"} :
          task' = [task EXCEPT ![s] = [t EXCEPT !.page = c, !.pc = pc]]
    BY <1>5
  <2> DEFINE n == [t EXCEPT !.page = c, !.pc = pc]
  <2>2. pc \in TaskPc /\ c \in Content
    BY <1>2
  <2>3. /\ n \in TaskState
        /\ n.pc = pc /\ n.archive = t.archive /\ n.page = c
        /\ n.completed = t.completed /\ n.current = t.current /\ n.fresh = t.fresh
    BY <2>2 DEF TaskState
  <2>4. task' = [task EXCEPT ![s] = n]
    BY <2>1
  <2> HIDE DEF n
  <2> QED
    BY <1>1, <1>5, <2>1, <2>3, <2>4 DEF Finished, OthersStay
<1>6. \/ /\ t.pc = "asset"
         /\ \E c \in {"new", "corrupt"} :
              task' = [task EXCEPT ![s] = [t EXCEPT !.pc = "checksum", !.archive = c]]
      \/ t.pc = "checksum" /\ task' = [task EXCEPT ![s] = [t EXCEPT !.pc = "verify"]]
      \/ /\ t.pc = "dist"
         /\ \E c \in {"new", "corrupt"}, pc \in {"dist_checksum", "dist_extract"} :
              task' = [task EXCEPT ![s] = [t EXCEPT !.page = c, !.pc = pc]]
      \/ t.pc = "dist_checksum" /\ task' = [task EXCEPT ![s] = [t EXCEPT !.pc = "dist_verify"]]
  BY <1>1 DEF Downloaded
<1> QED
  BY <1>3, <1>4, <1>5, <1>6

\* The places of a task that is at work.
WorkPlaces == TaskPc \ {"none", "dwell", "over"}

\* From where to where a task goes without a download or a file of the frontend.
Edge(a, b) ==
  \/ b = "over"
  \/ a = "prepare" /\ b = "asset"
  \/ a = "verify" /\ b = "extract"
  \/ a = "extract" /\ b = "smoke"
  \/ a = "smoke" /\ b \in {"dist_lookup", "backup"}
  \/ a = "dist_lookup" /\ b \in {"dist", "backup"}
  \/ a = "dist_verify" /\ b = "dist_extract"
  \/ a = "dist_extract" /\ b = "backup"
  \/ a = "backup" /\ b = "stage"
  \/ a = "stage" /\ b = "swap"
  \/ a = "swap" /\ b = "resmoke"
  \/ a = "resmoke" /\ b \in {"succeed", "dist_copy"}
  \/ a = "dist_park" /\ b = "dist_bring"
  \/ a = "dist_bring" /\ b = "succeed"
  \/ a = "succeed" /\ b = "dwell"

\* The chunk of a download, the copy of the new frontend, a file brought in.
Chunked(s) ==
  /\ OthersStay(s)
  /\ task[s].pc \in Downloads /\ task'[s].pc = task[s].pc
  /\ task'[s].current = task[s].current + 1 /\ task'[s].current <= Size
  /\ task'[s].completed = task[s].completed
  /\ task'[s].archive = task[s].archive
  /\ task'[s].page = task[s].page
  /\ task'[s].fresh = task[s].fresh
Refreshed(s) ==
  /\ OthersStay(s)
  /\ \/ task[s].pc = "dist_copy" /\ task'[s].pc = "dist_park" /\ task'[s].fresh = NewFile
     \/ /\ task[s].pc = "dist_bring" /\ task'[s].pc = "dist_bring"
        /\ \E f \in task[s].fresh : task'[s].fresh = task[s].fresh \ {f}
  /\ task'[s].current = task[s].current
  /\ task'[s].completed = task[s].completed
  /\ task'[s].archive = task[s].archive
  /\ task'[s].page = task[s].page

(* Every step of a task has one of these forms; only its own record        *)
(* changes, and no handler's.                                              *)
LEMMA TaskMoves ==
  ASSUME UpgradeTypeOK, NEW s \in Starter, TaskStep(s)
  PROVE  /\ \/ \E b \in TaskPc \ {"none"} : Edge(task[s].pc, b) /\ Went(s, b)
            \/ Finished(s)
            \/ Chunked(s)
            \/ Refreshed(s)
            \/ task[s].pc = "dist_park" /\ UNCHANGED task
         /\ task[s].pc \in WorkPlaces
         /\ UNCHANGED handlers
<1>0. task \in [Starter -> TaskState] /\ Size \in Nat
  BY UpgradeAssumption DEF UpgradeTypeOK
<1> DEFINE Form == \/ \E b \in TaskPc \ {"none"} : Edge(task[s].pc, b) /\ Went(s, b)
                   \/ Finished(s)
                   \/ Chunked(s)
                   \/ Refreshed(s)
                   \/ task[s].pc = "dist_park" /\ UNCHANGED task
<1>1. ASSUME NEW b \in TaskPc \ {"none"}, Go(s, b), Edge(task[s].pc, b)
      PROVE  Form
  BY <1>0, <1>1, Goes
<1> SUFFICES Form /\ task[s].pc \in WorkPlaces /\ UNCHANGED handlers
  OBVIOUS
<1> USE DEF WorkPlaces, TaskPc, Downloads, Edge
<1> HIDE DEF Form
<1>2. CASE Errs(s)
  BY <1>1, <1>2 DEF Errs, Fail
<1>3. CASE Prepare(s)
  BY <1>1, <1>3 DEF Prepare
<1>4. CASE Chunk(s)
  <2>1. task[s].current \in Nat
    BY <1>0 DEF TaskState
  <2>2. CASE task' = [task EXCEPT ![s].current = task[s].current + 1] /\ task[s].current + 1 <= Size
    <3>1. Chunked(s)
      BY <1>0, <1>4, <2>1, <2>2 DEF Chunk, TaskState, Chunked, OthersStay
    <3> QED
      BY <1>4, <3>1 DEF Chunk, Form
  <2>3. CASE Go(s, "over")
    BY <1>1, <1>4, <2>3 DEF Chunk
  <2> QED
    BY <1>4, <2>2, <2>3 DEF Chunk
<1>5. CASE Downloaded(s)
  BY <1>0, <1>5, Finishes DEF Downloaded, Form
<1>6. CASE Verify(s)
  BY <1>1, <1>6 DEF Verify
<1>7. CASE Extract(s)
  BY <1>1, <1>7 DEF Extract
<1>8. CASE Smoke(s)
  BY <1>1, <1>8 DEF Smoke
<1>9. CASE DistLookup(s)
  BY <1>1, <1>9 DEF DistLookup
<1>10. CASE Backup(s)
  BY <1>1, <1>10 DEF Backup, Fail
<1>11. CASE Stage(s)
  BY <1>1, <1>11 DEF Stage, Fail
<1>12. CASE Swap(s)
  BY <1>1, <1>12 DEF Swap, Fail
<1>13. CASE Resmoke(s)
  BY <1>1, <1>13 DEF Resmoke, Fail
<1>14. CASE DistCopy(s)
  <2>1. CASE task' = [task EXCEPT ![s].pc = "dist_park", ![s].fresh = NewFile]
    <3> DEFINE n == [task[s] EXCEPT !.pc = "dist_park", !.fresh = NewFile]
    <3>2. /\ n \in TaskState
          /\ n.pc = "dist_park" /\ n.fresh = NewFile /\ n.current = task[s].current
          /\ n.completed = task[s].completed /\ n.archive = task[s].archive /\ n.page = task[s].page
      BY <1>0 DEF TaskState
    <3>3. task' = [task EXCEPT ![s] = n]
      BY <1>0, <2>1 DEF TaskState
    <3> HIDE DEF n
    <3>1. Refreshed(s)
      BY <1>0, <1>14, <3>2, <3>3 DEF DistCopy, Refreshed, OthersStay
    <3> QED
      BY <1>14, <3>1 DEF DistCopy, Form
  <2> QED
    BY <1>1, <1>14, <2>1 DEF DistCopy, Fail
<1>15. CASE DistPark(s)
  BY <1>1, <1>15 DEF DistPark, Fail, Form
<1>16. CASE DistBring(s)
  <2>1. ASSUME NEW f \in task[s].fresh, task' = [task EXCEPT ![s].fresh = @ \ {f}]
        PROVE  Form
    <3>1. Refreshed(s)
      BY <1>0, <1>16, <2>1 DEF DistBring, TaskState, Refreshed, OthersStay
    <3> QED
      BY <3>1 DEF Form
  <2> QED
    BY <1>1, <1>16, <2>1 DEF DistBring, Fail
<1>17. CASE Succeed(s)
  BY <1>1, <1>17 DEF Succeed
<1> QED
  BY <1>2, <1>3, <1>4, <1>5, <1>6, <1>7, <1>8, <1>9, <1>10, <1>11, <1>12, <1>13, <1>14, <1>15,
     <1>16, <1>17 DEF TaskStep, Form

(* The count of completed downloads follows the place of the task.         *)
LEMMA TaskCounts ==
  ASSUME JobInv, NEW s \in Starter, TaskStep(s)
  PROVE  Counted'
<1>0. UpgradeTypeOK /\ Counted /\ Size \in Nat /\ Size > 0
  BY UpgradeAssumption DEF JobInv
<1>1. task[s].completed \in Nat /\ task[s].current \in Nat
  BY <1>0 DEF UpgradeTypeOK, TaskState
<1> USE DEF Counted
<1>2. ASSUME NEW b \in TaskPc, Edge(task[s].pc, b), Went(s, b)
      PROVE  Counted'
  BY <1>0, <1>1, <1>2 DEF Went, OthersStay, Edge
<1>3. CASE Finished(s)
  BY <1>0, <1>1, <1>3 DEF Finished, OthersStay
<1>4. CASE Chunked(s)
  BY <1>0, <1>1, <1>4 DEF Chunked, OthersStay, Downloads
<1>5. CASE Refreshed(s)
  BY <1>0, <1>1, <1>5 DEF Refreshed, OthersStay
<1>6. CASE UNCHANGED task
  BY <1>0, <1>6
<1> QED
  BY <1>0, <1>2, <1>3, <1>4, <1>5, <1>6, TaskMoves

\* The job after a step of the task of s: it says that the upgrade goes on for
\* as long as it does.
JobFollowed(s) ==
  /\ job' \in [state : JobState, progress : NoProgress .. 4 * Size + 1]
  /\ \/ task'[s].pc \in WorkPlaces /\ (job'.state = job.state \/ IsRunning(job'.state))
     \/ task'[s].pc \in {"dwell", "over"} /\ job'.state \in {"Failed", "Done"}

LEMMA JobFollows ==
  ASSUME JobInv, NEW s \in Starter, TaskStep(s)
  PROVE  JobFollowed(s)
<1>0. /\ UpgradeTypeOK /\ Counted /\ Size \in Nat /\ Size > 0 /\ NoProgress = -1
      /\ task \in [Starter -> TaskState]
      /\ job \in [state : JobState, progress : NoProgress .. 4 * Size + 1]
  BY UpgradeAssumption DEF JobInv, UpgradeTypeOK, NoProgress
<1>1. /\ task[s].completed \in Nat /\ task[s].current \in Nat /\ task[s].pc \in TaskPc
      /\ job.progress \in NoProgress .. 4 * Size + 1 /\ job.state \in JobState
  BY <1>0 DEF TaskState
<1>2. ASSUME NEW pc \in TaskPc, Go(s, pc)
      PROVE  task'[s].pc = pc
  BY <1>0, <1>2, Goes DEF Went
<1>3. ASSUME NEW st \in JobState, SetJob(st)
      PROVE  /\ job' \in [state : JobState, progress : NoProgress .. 4 * Size + 1]
             /\ job'.state = st
  BY <1>0, <1>3 DEF SetJob
<1>4. ASSUME Fail(s)
      PROVE  JobFollowed(s)
  <2>1. task'[s].pc = "over"
    BY <1>2, <1>4 DEF Fail, TaskPc
  <2>2. /\ job' \in [state : JobState, progress : NoProgress .. 4 * Size + 1]
        /\ job'.state = "Failed"
    BY <1>3, <1>4 DEF Fail, JobState
  <2> QED
    BY <2>1, <2>2 DEF JobFollowed
<1>5. ASSUME NEW pc \in WorkPlaces, Go(s, pc), UNCHANGED job
      PROVE  JobFollowed(s)
  BY <1>0, <1>2, <1>5 DEF JobFollowed, WorkPlaces
<1>6. ASSUME NEW pc \in WorkPlaces, Go(s, pc), NEW st \in {"Downloading", "Installing"}, SetJob(st)
      PROVE  JobFollowed(s)
  <2>1. st \in JobState /\ IsRunning(st)
    BY DEF JobState, IsRunning
  <2> QED
    BY <1>2, <1>3, <1>6, <2>1 DEF JobFollowed, WorkPlaces
<1>7. {"asset", "extract", "smoke", "dist_lookup", "dist", "dist_extract", "backup", "stage", "swap",
       "resmoke", "dist_copy", "dist_park", "dist_bring", "succeed"} \subseteq WorkPlaces
  BY DEF WorkPlaces, TaskPc, Downloads
<1>8. CASE Errs(s)
  BY <1>4, <1>8 DEF Errs
<1>9. CASE Prepare(s)
  <2>1. task'[s].pc = "asset" /\ "asset" \in WorkPlaces
    BY <1>2, <1>7, <1>9 DEF Prepare, TaskPc, Downloads
  <2>2. job' \in [state : JobState, progress : NoProgress .. 4 * Size + 1] /\ IsRunning(job'.state)
    BY <1>0, <1>9 DEF Prepare, JobState, IsRunning
  <2> QED
    BY <2>1, <2>2 DEF JobFollowed
<1>10. CASE Chunk(s)
  <2>1. task[s].completed <= 3 * Size
    BY <1>0, <1>1, <1>10 DEF Chunk, Downloads, Counted
  <2>2. ASSUME NEW c \in 0 .. Size + 1
        PROVE  Reported(s, c) \in NoProgress .. 4 * Size + 1
    BY <1>0, <1>1, <2>1 DEF Reported
  <2>3. task[s].current + 1 \in 0 .. Size + 1
    BY <1>0, <1>1 DEF Counted
  <2>4. PICK r \in NoProgress .. 4 * Size + 1 : r = Reported(s, task[s].current + 1)
    BY <2>2, <2>3
  <2>5. CASE Go(s, "over") /\ job' = [state |-> "Failed", progress |-> Reported(s, task[s].current + 1)]
    <3>1. task'[s].pc = "over"
      BY <1>2, <2>5 DEF TaskPc
    <3> QED
      BY <2>4, <2>5, <3>1 DEF JobFollowed, JobState
  <2>6. CASE task' = [task EXCEPT ![s].current = task[s].current + 1]
             /\ job' = [job EXCEPT !.progress = Reported(s, task[s].current + 1)]
    <3>1. task'[s].pc = task[s].pc
      BY <1>0, <2>6 DEF TaskState
    <3>2. task[s].pc \in WorkPlaces
      BY <1>10 DEF Chunk, WorkPlaces, TaskPc, Downloads
    <3> QED
      BY <1>0, <1>1, <2>4, <2>6, <3>1, <3>2 DEF JobFollowed
  <2> QED
    BY <1>10, <2>5, <2>6 DEF Chunk
<1>11. CASE Downloaded(s)
  <2>1. task'[s].pc \in WorkPlaces
    BY <1>0, <1>11, Finishes DEF Finished, WorkPlaces, TaskPc, Downloads
  <2>2. UNCHANGED job \/ \E st \in {"Verifying", "Installing"} : SetJob(st)
    BY <1>11 DEF Downloaded
  <2>3. {"Verifying", "Installing"} \subseteq JobState /\ IsRunning("Verifying") /\ IsRunning("Installing")
    BY DEF JobState, IsRunning
  <2> QED
    BY <1>0, <1>3, <2>1, <2>2, <2>3 DEF JobFollowed
<1>12. CASE Verify(s)
  BY <1>6, <1>7, <1>12 DEF Verify
<1>13. CASE Extract(s)
  BY <1>5, <1>7, <1>13 DEF Extract
<1>14. CASE Smoke(s)
  BY <1>5, <1>7, <1>14 DEF Smoke
<1>15. CASE DistLookup(s)
  BY <1>5, <1>6, <1>7, <1>15 DEF DistLookup
<1>16. CASE Backup(s)
  BY <1>4, <1>5, <1>7, <1>16 DEF Backup
<1>17. CASE Stage(s)
  BY <1>4, <1>5, <1>7, <1>17 DEF Stage
<1>18. CASE Swap(s)
  BY <1>4, <1>5, <1>7, <1>18 DEF Swap
<1>19. CASE Resmoke(s)
  BY <1>4, <1>5, <1>7, <1>19 DEF Resmoke
<1>20. CASE DistCopy(s)
  <2>1. CASE task' = [task EXCEPT ![s].pc = "dist_park", ![s].fresh = NewFile] /\ UNCHANGED job
    <3>1. task'[s].pc = "dist_park"
      BY <1>0, <2>1 DEF TaskState
    <3> QED
      BY <1>0, <1>7, <2>1, <3>1 DEF JobFollowed
  <2> QED
    BY <1>4, <1>20, <2>1 DEF DistCopy
<1>21. CASE DistPark(s)
  <2>1. CASE UNCHANGED <<task, job>>
    BY <1>0, <1>7, <1>21, <2>1 DEF DistPark, JobFollowed
  <2> QED
    BY <1>4, <1>5, <1>7, <1>21, <2>1 DEF DistPark
<1>22. CASE DistBring(s)
  <2>1. ASSUME NEW f \in task[s].fresh, task' = [task EXCEPT ![s].fresh = @ \ {f}], UNCHANGED job
        PROVE  JobFollowed(s)
    <3>1. task'[s].pc = task[s].pc
      BY <1>0, <2>1 DEF TaskState
    <3> QED
      BY <1>0, <1>7, <1>22, <2>1, <3>1 DEF DistBring, JobFollowed
  <2> QED
    BY <1>4, <1>5, <1>7, <1>22, <2>1 DEF DistBring
<1>23. CASE Succeed(s)
  <2>1. task'[s].pc \in {"dwell", "over"}
    BY <1>2, <1>23 DEF Succeed, TaskPc
  <2>2. /\ job' \in [state : JobState, progress : NoProgress .. 4 * Size + 1]
        /\ job'.state = "Done"
    BY <1>3, <1>23 DEF Succeed, JobState
  <2> QED
    BY <2>1, <2>2 DEF JobFollowed
<1> QED
  BY <1>8, <1>9, <1>10, <1>11, <1>12, <1>13, <1>14, <1>15, <1>16, <1>17, <1>18, <1>19, <1>20, <1>21,
     <1>22, <1>23 DEF TaskStep

(* What the files hold stays one of the four contents.                     *)
LEMMA FilesTyped ==
  ASSUME UpgradeTypeOK, NEW s \in Starter, TaskStep(s)
  PROVE  /\ exe' \in Content
         /\ bin' \in [Starter -> [backup : Content, staged : Content]]
         /\ live' \in [File -> Content]
         /\ parked' \in [Starter -> [File -> Content]]
         /\ faults' \in 0 .. MaxFaults
<1>0. /\ exe \in Content /\ bin \in [Starter -> [backup : Content, staged : Content]]
      /\ live \in [File -> Content] /\ parked \in [Starter -> [File -> Content]]
      /\ faults \in 0 .. MaxFaults /\ MaxFaults \in Nat
      /\ task[s].archive \in Content /\ task[s].page \in Content /\ task[s].fresh \subseteq NewFile
      /\ "none" \in Content
  BY UpgradeAssumption DEF UpgradeTypeOK, TaskState, Content
<1>1. Empty \in [File -> Content]
  BY <1>0 DEF Empty
<1>2. ASSUME Faulty PROVE faults' \in 0 .. MaxFaults
  BY <1>0, <1>2 DEF Faulty
<1>3. ASSUME PutBack(s)
      PROVE  exe' \in Content /\ bin' \in [Starter -> [backup : Content, staged : Content]]
  BY <1>0, <1>3 DEF PutBack
<1>4. ASSUME NEW cur \in [File -> Content], RestoreOldContents(s, cur)
      PROVE  /\ live' \in [File -> Content]
             /\ parked' \in [Starter -> [File -> Content]]
             /\ faults' \in 0 .. MaxFaults
  <2>1. PICK lost \in SUBSET {f \in File : parked[s][f] # "none"} :
          /\ Cardinality(lost) + 1 <= MaxFaults - faults
          /\ faults' = faults + 1 + Cardinality(lost)
          /\ live' = [f \in File |-> IF parked[s][f] # "none" /\ f \notin lost
                                     THEN parked[s][f] ELSE cur[f]]
          /\ parked' = [parked EXCEPT ![s] = Empty]
    BY <1>4 DEF RestoreOldContents
  <2>2. IsFiniteSet(lost)
    <3>1. IsFiniteSet(File)
      BY UpgradeAssumption, FS_Union DEF File
    <3> QED
      BY <3>1, FS_Subset
  <2>3. Cardinality(lost) \in Nat
    BY <2>2, FS_CardinalityType
  <2> QED
    BY <1>0, <1>1, <1>4, <2>1, <2>3
<1>5. CASE UNCHANGED files
  BY <1>0, <1>5 DEF files, web
<1>6. CASE Backup(s)
  BY <1>0, <1>2, <1>6 DEF Backup, web
<1>7. CASE Stage(s)
  BY <1>0, <1>2, <1>7 DEF Stage, web
<1>8. CASE Swap(s)
  <2>1. CASE exe' = bin[s].staged /\ bin' = [bin EXCEPT ![s].staged = "none"] /\ UNCHANGED faults
    BY <1>0, <1>8, <2>1 DEF Swap, web
  <2>2. CASE Faulty /\ PutBack(s)
    BY <1>0, <1>2, <1>3, <1>8, <2>2 DEF Swap, web
  <2> QED
    BY <1>8, <2>1, <2>2 DEF Swap
<1>9. CASE Resmoke(s)
  BY <1>0, <1>3, <1>9 DEF Resmoke, web
<1>10. CASE DistCopy(s)
  BY <1>0, <1>2, <1>10 DEF DistCopy, web
<1>11. CASE DistPark(s)
  <2>1. ASSUME NEW f \in File, live' = [live EXCEPT ![f] = "none"],
               parked' = [parked EXCEPT ![s][f] = live[f]]
        PROVE  live' \in [File -> Content] /\ parked' \in [Starter -> [File -> Content]]
    BY <1>0, <2>1
  <2> QED
    BY <1>0, <1>4, <1>11, <2>1 DEF DistPark, web
<1>12. CASE DistBring(s)
  <2>1. ASSUME NEW f \in task[s].fresh, live' = [live EXCEPT ![f] = task[s].page]
        PROVE  live' \in [File -> Content]
    BY <1>0, <2>1
  <2> QED
    BY <1>0, <1>1, <1>4, <1>12, <2>1 DEF DistBring, web
<1>13. \/ UNCHANGED files \/ Backup(s) \/ Stage(s) \/ Swap(s) \/ Resmoke(s)
       \/ DistCopy(s) \/ DistPark(s) \/ DistBring(s)
  BY DEF TaskStep, Errs, Prepare, Chunk, Downloaded, Verify, Extract, Smoke, DistLookup, Succeed
<1> QED
  BY <1>5, <1>6, <1>7, <1>8, <1>9, <1>10, <1>11, <1>12, <1>13

LEMMA TaskKeepsJob ==
  ASSUME JobInv, NEW s \in Starter, TaskStep(s)
  PROVE  JobInv'
<1>0. UpgradeTypeOK /\ Exclusive /\ RunningHasWorker
  BY DEF JobInv
<1>1. /\ OthersStay(s) /\ task[s].pc \in WorkPlaces
      /\ task'[s].pc # "none"
      /\ UNCHANGED <<cached, checker, starter, starts, orphaned, setting>>
  <2>1. OthersStay(s) /\ task[s].pc \in WorkPlaces /\ UNCHANGED handlers
    BY <1>0, TaskMoves DEF Went, Finished, Chunked, Refreshed, OthersStay, UpgradeTypeOK
  <2>2. task'[s].pc # "none"
    BY JobFollows DEF JobFollowed, WorkPlaces
  <2> QED
    BY <2>1, <2>2 DEF handlers
<1>2. UpgradeTypeOK'
  <2>1. job' \in [state : JobState, progress : NoProgress .. 4 * Size + 1]
    BY JobFollows DEF JobFollowed
  <2> QED
    BY <1>0, <1>1, <2>1, FilesTyped DEF UpgradeTypeOK, OthersStay
<1>3. Counted'
  BY TaskCounts
<1>4. s \in Upgrading
  BY <1>1 DEF Upgrading, Working, WorkPlaces
<1>5. Upgrading' \subseteq Upgrading
  BY <1>1, <1>4 DEF Upgrading, Working, OthersStay
<1>6. s \in Upgrading' \/ job'.state \in {"Failed", "Done"}
  BY JobFollows DEF JobFollowed, Upgrading, Working, WorkPlaces
<1>7. RunningHasWorker'
  <2>1. CASE s \in Upgrading'
    BY <2>1 DEF RunningHasWorker
  <2>2. CASE job'.state \in {"Failed", "Done"}
    BY <2>2 DEF RunningHasWorker, IsRunning
  <2> QED
    BY <1>6, <2>1, <2>2
<1>8. Exclusive'
  <2>1. starter[s] # "refresh"
    BY <1>0, <1>1 DEF Exclusive, WorkPlaces
  <2>2. \A u \in Starter : starter'[u] = "refresh" => task'[u].pc = "none"
    BY <1>0, <1>1, <2>1 DEF Exclusive, OthersStay
  <2>3. \A u, v \in Upgrading' : u = v
    BY <1>0, <1>5 DEF Exclusive
  <2>4. \A u \in Starter : Entered(u)' => Entered(u)
    BY <1>1 DEF Entered, OthersStay, WorkPlaces
  <2>5. ~setting.checks' /\ Upgrading' # {} => IsRunning(job'.state)
    <3>1. SUFFICES ASSUME ~setting.checks, Upgrading' # {}
                   PROVE  IsRunning(job'.state)
      BY <1>1
    <3>2. s \in Upgrading'
      BY <1>0, <1>4, <1>5, <3>1 DEF Exclusive
    <3>3. task'[s].pc \in WorkPlaces
      BY <1>1, <2>1, <3>2, JobFollows DEF Upgrading, Working, JobFollowed
    <3> QED
      BY <1>0, <1>4, <3>1, <3>3, JobFollows DEF JobFollowed, Exclusive, WorkPlaces
  <2> QED
    BY <1>0, <1>1, <2>2, <2>3, <2>4, <2>5 DEF Exclusive
<1> QED
  BY <1>2, <1>3, <1>7, <1>8 DEF JobInv

(* The requests, the cache and the restart keep the job sound.             *)
LEMMA HandlersKeepJob ==
  ASSUME NoStartBesideCheck, JobInv,
         \/ \E c \in Checker : CheckStep(c)
         \/ \E s \in Starter : StartStep(s)
         \/ CacheExpires
         \/ Restart
  PROVE  JobInv'
<1>0. /\ UpgradeTypeOK /\ Counted /\ RunningHasWorker /\ Exclusive
      /\ Size \in Nat \ {0} /\ setting \in Setting /\ setting.starts \in Nat
      /\ setting.starts <= 1 \/ ~setting.checks
      /\ task \in [Starter -> TaskState] /\ starts \in Nat
      /\ checker \in [Checker -> [pc : {"idle", "mark", "refresh"}, was_idle : BOOLEAN]]
      /\ starter \in [Starter -> {"idle", "refresh"}]
      /\ job \in [state : JobState, progress : NoProgress .. 4 * Size + 1]
  BY UpgradeAssumption DEF JobInv, UpgradeTypeOK, NoStartBesideCheck
<1>1. {"Idle", "Checking", "Failed", "Downloading"} \subseteq JobState
      /\ NoProgress \in NoProgress .. 4 * Size + 1
  BY <1>0 DEF JobState, NoProgress
<1>2. ASSUME NEW st \in JobState, SetJob(st)
      PROVE  /\ job' \in [state : JobState, progress : NoProgress .. 4 * Size + 1]
             /\ job'.state = st
  BY <1>0, <1>2 DEF SetJob
<1>3. NoTask \in TaskState /\ [NoTask EXCEPT !.pc = "prepare"] \in TaskState
      /\ [NoTask EXCEPT !.pc = "over"] \in TaskState
  BY DEF NoTask, TaskState, TaskPc, Content
<1>4. ASSUME NEW c \in Checker, CheckStep(c)
      PROVE  JobInv'
  <2>0. /\ UNCHANGED <<setting, starter, task, starts, files>>
        /\ \A d \in Checker : d # c => checker'[d] = checker[d]
        /\ checker' \in [Checker -> [pc : {"idle", "mark", "refresh"}, was_idle : BOOLEAN]]
        /\ cached' \in BOOLEAN /\ orphaned' \in BOOLEAN
        /\ orphaned => orphaned'
        /\ setting.checks
    <3>1. PICK r \in [pc : {"idle", "mark", "refresh"}, was_idle : BOOLEAN] :
            checker' = [checker EXCEPT ![c] = r]
      <4>1. CASE CheckUpgrade(c)
        <5>1. [pc |-> "mark", was_idle |-> job.state = "Idle"]
                \in [pc : {"idle", "mark", "refresh"}, was_idle : BOOLEAN]
          OBVIOUS
        <5> QED
          BY <4>1, <5>1 DEF CheckUpgrade
      <4>2. CASE CheckMarks(c)
        <5>1. [checker[c] EXCEPT !.pc = "refresh"]
                \in [pc : {"idle", "mark", "refresh"}, was_idle : BOOLEAN]
          BY <1>0
        <5>2. checker' = [checker EXCEPT ![c] = [checker[c] EXCEPT !.pc = "refresh"]]
          BY <1>0, <4>2 DEF CheckMarks
        <5> QED
          BY <5>1, <5>2
      <4>3. CASE CheckReturns(c) \/ CheckerHangsUp(c)
        <5>1. AtRest \in [pc : {"idle", "mark", "refresh"}, was_idle : BOOLEAN]
          BY DEF AtRest
        <5> QED
          BY <4>3, <5>1 DEF CheckReturns, CheckerHangsUp
      <4> QED
        BY <1>4, <4>1, <4>2, <4>3 DEF CheckStep
    <3>2. /\ \A d \in Checker : d # c => checker'[d] = checker[d]
          /\ checker' \in [Checker -> [pc : {"idle", "mark", "refresh"}, was_idle : BOOLEAN]]
      BY <1>0, <3>1
    <3>3. checker[c].was_idle \in BOOLEAN /\ orphaned \in BOOLEAN /\ cached \in BOOLEAN
      BY <1>0 DEF UpgradeTypeOK
    <3>4. UNCHANGED <<setting, starter, task, starts, files>>
          /\ cached' \in BOOLEAN /\ orphaned' \in BOOLEAN /\ (orphaned => orphaned')
      BY <1>4, <3>3 DEF CheckStep, CheckUpgrade, CheckMarks, CheckReturns, CheckerHangsUp
    <3>5. setting.checks
      BY <1>0, <1>4 DEF CheckStep, CheckUpgrade, CheckMarks, CheckReturns, CheckerHangsUp, Exclusive
    <3> QED
      BY <3>2, <3>4, <3>5
  <2>1. UNCHANGED job \/ SetJob("Checking") \/ SetJob("Idle")
    BY <1>4 DEF CheckStep, CheckUpgrade, CheckMarks, CheckReturns, CheckerHangsUp
  <2>2. UpgradeTypeOK'
    BY <1>0, <1>1, <1>2, <2>0, <2>1 DEF UpgradeTypeOK, files, web
  <2>3. Counted'
    BY <1>0, <2>0 DEF Counted
  <2>4. Exclusive'
    BY <1>0, <2>0 DEF Exclusive, Upgrading, Working, Entered
  <2>5. UNCHANGED Upgrading
    BY <2>0 DEF Upgrading, Working
  <2>6. RunningHasWorker'
    <3>1. CASE CheckUpgrade(c)
      BY <1>0, <2>0, <2>5, <3>1 DEF CheckUpgrade, RunningHasWorker
    <3>2. CASE CheckMarks(c)
      <4>1. checker'[c].pc = "refresh" /\ checker'[c].was_idle = checker[c].was_idle
        BY <1>0, <3>2 DEF CheckMarks
      <4> QED
        BY <1>0, <2>0, <2>5, <3>2, <4>1 DEF CheckMarks, RunningHasWorker
    <3>3. CASE CheckReturns(c)
      <4>1. CASE SetJob("Idle")
        BY <1>1, <1>2, <4>1 DEF RunningHasWorker, IsRunning
      <4>2. CASE ~checker[c].was_idle /\ UNCHANGED job
        BY <1>0, <2>0, <2>5, <3>3, <4>2 DEF CheckReturns, RunningHasWorker
      <4> QED
        BY <3>3, <4>1, <4>2 DEF CheckReturns
    <3>4. CASE CheckerHangsUp(c)
      BY <1>0, <2>0, <2>5, <3>4 DEF CheckerHangsUp, RunningHasWorker
    <3> QED
      BY <1>4, <3>1, <3>2, <3>3, <3>4 DEF CheckStep
  <2> QED
    BY <2>2, <2>3, <2>4, <2>6 DEF JobInv
<1>5. ASSUME NEW s \in Starter, StartUpgrade(s)
      PROVE  JobInv'
  <2>0. /\ UNCHANGED <<setting, cached, checker, task, orphaned, files>>
        /\ starter[s] = "idle" /\ task[s].pc = "none" /\ ~IsRunning(job.state)
        /\ starts < setting.starts /\ starts' = starts + 1
        /\ starter' = [starter EXCEPT ![s] = "refresh"]
        /\ job' \in [state : JobState, progress : NoProgress .. 4 * Size + 1]
        /\ IsRunning(job'.state)
    BY <1>1, <1>5 DEF StartUpgrade, IsRunning
  <2>1. UpgradeTypeOK'
    BY <1>0, <2>0 DEF UpgradeTypeOK, files, web
  <2>2. Counted'
    BY <1>0, <2>0 DEF Counted
  <2>3. Upgrading' = Upgrading \cup {s}
    BY <1>0, <2>0 DEF Upgrading, Working
  <2>4. RunningHasWorker'
    BY <2>3 DEF RunningHasWorker
  <2>5. Upgrading = {}
    <3>1. CASE setting.starts <= 1
      BY <1>0, <2>0, <3>1 DEF Exclusive, Entered, Upgrading, Working
    <3>2. CASE ~setting.checks
      BY <1>0, <2>0, <3>2 DEF Exclusive
    <3> QED
      BY <1>0, <3>1, <3>2
  <2>6. Exclusive'
    <3>1. \A u, v \in Upgrading' : u = v
      BY <2>3, <2>5
    <3>2. \A u \in Starter : starter'[u] = "refresh" => task'[u].pc = "none"
      BY <1>0, <2>0 DEF Exclusive
    <3>3. setting'.starts <= 1 => /\ \A u, v \in Starter : Entered(u)' /\ Entered(v)' => u = v
                                  /\ starts' # 0
      BY <1>0, <2>0 DEF Exclusive, Entered
    <3>4. ~setting'.checks => \A c \in Checker : checker'[c].pc = "idle"
      BY <1>0, <2>0 DEF Exclusive
    <3> QED
      BY <2>0, <3>1, <3>2, <3>3, <3>4 DEF Exclusive
  <2> QED
    BY <2>1, <2>2, <2>4, <2>6 DEF JobInv
<1>6. ASSUME NEW s \in Starter, StartRefused(s) \/ StarterHangsUp(s)
      PROVE  JobInv'
  <2>0. /\ UNCHANGED <<setting, checker, task, starts, files>>
        /\ starter[s] = "refresh" /\ starter' = [starter EXCEPT ![s] = "idle"]
        /\ cached' \in BOOLEAN /\ orphaned' \in BOOLEAN
        /\ \/ UNCHANGED job /\ orphaned' = TRUE
           \/ /\ job' \in [state : JobState, progress : NoProgress .. 4 * Size + 1]
              /\ job'.state = "Failed"
    BY <1>0, <1>1, <1>2, <1>6 DEF StartRefused, StarterHangsUp, UpgradeTypeOK
  <2>1. UpgradeTypeOK'
    BY <1>0, <2>0 DEF UpgradeTypeOK, files, web
  <2>2. Counted'
    BY <1>0, <2>0 DEF Counted
  <2>3. RunningHasWorker'
    BY <2>0 DEF RunningHasWorker, IsRunning
  <2>4. s \in Upgrading /\ task[s].pc = "none"
    BY <1>0, <2>0 DEF Upgrading, Exclusive
  <2>5. Upgrading' = {}
    <3>1. \A u \in Starter : u # s => u \notin Upgrading
      BY <1>0, <2>4 DEF Exclusive
    <3> QED
      BY <1>0, <2>0, <2>4, <3>1 DEF Upgrading, Working
  <2>6. \A u \in Starter : Entered(u)' => Entered(u)
    BY <1>0, <2>0 DEF Entered
  <2>7. Exclusive'
    BY <1>0, <2>0, <2>5, <2>6 DEF Exclusive
  <2> QED
    BY <2>1, <2>2, <2>3, <2>7 DEF JobInv
<1>7. ASSUME NEW s \in Starter, StartSpawns(s)
      PROVE  JobInv'
  <2> DEFINE t == [NoTask EXCEPT !.pc = "prepare"]
  <2>1. t \in TaskState /\ t.pc = "prepare" /\ t.completed = 0 /\ t.current = 0
    BY <1>3 DEF NoTask
  <2>2. task' = [task EXCEPT ![s] = t]
    BY <1>7 DEF StartSpawns
  <2> HIDE DEF t
  <2>0. /\ UNCHANGED <<setting, checker, starts, orphaned, files>>
        /\ starter[s] = "refresh" /\ starter' = [starter EXCEPT ![s] = "idle"]
        /\ cached' \in BOOLEAN
        /\ job' \in [state : JobState, progress : NoProgress .. 4 * Size + 1]
        /\ IsRunning(job'.state)
    BY <1>1, <1>2, <1>7 DEF StartSpawns, IsRunning
  <2>3. UpgradeTypeOK'
    BY <1>0, <2>0, <2>1, <2>2 DEF UpgradeTypeOK, files, web
  <2>4. Counted'
    BY <1>0, <2>1, <2>2 DEF Counted
  <2>5. Upgrading' = Upgrading /\ s \in Upgrading
    BY <1>0, <2>0, <2>1, <2>2 DEF Upgrading, Working
  <2>6. RunningHasWorker'
    BY <2>5 DEF RunningHasWorker
  <2>7. \A u \in Starter : Entered(u)' => Entered(u)
    BY <1>0, <2>0, <2>1, <2>2 DEF Entered
  <2>8. Exclusive'
    <3>1. \A u \in Starter : starter'[u] = "refresh" => task'[u].pc = "none"
      BY <1>0, <2>0, <2>2 DEF Exclusive
    <3> QED
      BY <1>0, <2>0, <2>5, <2>7, <3>1 DEF Exclusive
  <2> QED
    BY <2>3, <2>4, <2>6, <2>8 DEF JobInv
<1>8. CASE CacheExpires
  <2>1. UNCHANGED <<setting, job, checker, starter, task, starts, orphaned, files>> /\ cached' = FALSE
    BY <1>8 DEF CacheExpires
  <2>2. UNCHANGED Upgrading /\ \A s \in Starter : Entered(s)' <=> Entered(s)
    BY <2>1 DEF Upgrading, Working, Entered
  <2>3. UpgradeTypeOK'
    BY <1>0, <2>1 DEF UpgradeTypeOK, files, web
  <2>4. Counted' /\ RunningHasWorker'
    BY <1>0, <2>1, <2>2 DEF Counted, RunningHasWorker
  <2>5. Exclusive'
    BY <1>0, <2>1, <2>2 DEF Exclusive
  <2> QED
    BY <2>3, <2>4, <2>5 DEF JobInv
<1>9. CASE Restart
  <2>1. /\ UNCHANGED <<setting, starts, files>>
        /\ job' = IdleJob /\ cached' = FALSE /\ orphaned' = FALSE
        /\ checker' = [c \in Checker |-> AtRest]
        /\ starter' = [s \in Starter |-> "idle"]
        /\ task' \in [Starter -> TaskState]
    BY <1>3, <1>9 DEF Restart
  <2>2. \A s \in Starter : /\ task'[s].completed = 0 /\ task'[s].current = 0
                           /\ task'[s].pc \in {"none", "over"}
                           /\ task[s].pc = "none" => task'[s].pc = "none"
    BY <1>9 DEF Restart, NoTask
  <2>3. UpgradeTypeOK'
    BY <1>0, <1>1, <2>1 DEF UpgradeTypeOK, files, web, IdleJob, AtRest
  <2>4. Counted'
    BY <1>0, <2>2 DEF Counted
  <2>5. Upgrading' = {}
    BY <2>1, <2>2 DEF Upgrading, Working
  <2>6. RunningHasWorker'
    BY <2>1 DEF RunningHasWorker, IsRunning, IdleJob
  <2>7. \A u \in Starter : Entered(u)' => Entered(u)
    BY <2>1, <2>2 DEF Entered
  <2>8. Exclusive'
    BY <1>0, <2>1, <2>5, <2>7 DEF Exclusive, AtRest
  <2> QED
    BY <2>3, <2>4, <2>6, <2>8 DEF JobInv
<1> QED
  BY <1>4, <1>5, <1>6, <1>7, <1>8, <1>9 DEF StartStep

LEMMA JobInvIsInductive ==
  ASSUME NoStartBesideCheck, JobInv, [UpgradeNext]_upgradeVars
  PROVE  JobInv'
<1>1. CASE UNCHANGED upgradeVars
  BY <1>1 DEF upgradeVars, JobInv, UpgradeTypeOK, Counted, RunningHasWorker, Exclusive, Upgrading,
     Working, Entered
<1>2. CASE UpgradeNext
  BY <1>2, HandlersKeepJob, TaskKeepsJob DEF UpgradeNext
<1> QED
  BY <1>1, <1>2

LEMMA OneAtMost ==
  ASSUME NEW S, \A x, y \in S : x = y
  PROVE  Cardinality(S) <= 1
<1>1. CASE S = {}
  BY <1>1, FS_EmptySet
<1>2. CASE S # {}
  <2>1. PICK x : S = {x}
    BY <1>2
  <2> QED
    BY <2>1, FS_Singleton
<1> QED
  BY <1>1, <1>2

(* For any numbers of requests, chunks and files: whatever check and start *)
(* handlers interleave, hang up or find the process restarted, a job that  *)
(* says it is under way has a worker (or its client hung up), and at most  *)
(* one upgrade is under way -- as long as the operator does not start a    *)
(* second upgrade beside a check, whose handler sets the job to idle       *)
(* unconditionally when it returns.                                        *)
THEOREM JobStaysSound ==
  ASSUME NoStartBesideCheck
  PROVE  UpgradeSpec => []JobIsSound
<1>1. UpgradeInit => JobInv
  BY JobStarts
<1>2. JobInv /\ [UpgradeNext]_upgradeVars => JobInv'
  BY JobInvIsInductive
<1>3. JobInv => JobIsSound
  BY OneAtMost DEF JobInv, JobIsSound, Exclusive, OneUpgradeAtATime
<1> QED
  BY <1>1, <1>2, <1>3, PTL DEF UpgradeSpec

-----------------------------------------------------------------------------
(* The files of the installation.                                          *)

\* Places past the check of the archive against its published checksum, up to
\* the copy beside the executable.
Checked == {"extract", "smoke", "dist_lookup", "dist", "dist_checksum", "dist_verify",
            "dist_extract", "backup", "stage"}
Replacing == {"dist_copy", "dist_park", "dist_bring"}

\* What a task holds was published, or has still to be compared with its
\* checksum; it replaces a frontend only if it downloaded one.
HoldsPublished(s) ==
  /\ bin[s].backup \in {"none", "old", "new"}
  /\ task[s].pc \in Checked => task[s].archive = "new"
  /\ task[s].pc \in {"checksum", "verify"} => task[s].archive \in {"new", "corrupt"}
  /\ task[s].pc = "swap" => bin[s].staged = "new"
  /\ task[s].page \in {"none", "new", "corrupt"}
  /\ task[s].pc \in Replacing => task[s].page # "none"

BinaryInv == ExecutableIsPublished /\ \A s \in Starter : HoldsPublished(s)

(* A step of a task keeps the executable and what the task holds published. *)
LEMMA TaskKeepsBinary ==
  ASSUME UpgradeTypeOK, BinaryInv, NEW s \in Starter, TaskStep(s)
  PROVE  BinaryInv'
<1>0. /\ task \in [Starter -> TaskState]
      /\ bin \in [Starter -> [backup : Content, staged : Content]]
      /\ exe \in {"old", "new"} /\ HoldsPublished(s)
      /\ task[s].pc \in TaskPc
  BY DEF UpgradeTypeOK, BinaryInv, ExecutableIsPublished, TaskState
<1> DEFINE Kept == HoldsPublished(s)' /\ exe' \in {"old", "new"}
<1>1. ASSUME NEW pc \in TaskPc, Go(s, pc), exe' \in {"old", "new"},
             bin'[s].backup \in {"none", "old", "new"},
             pc \in Checked => task[s].archive = "new",
             pc \notin {"checksum", "verify"},
             pc = "swap" => bin'[s].staged = "new",
             pc \in Replacing => task[s].page # "none"
      PROVE  Kept
  BY <1>0, <1>1, Goes DEF HoldsPublished, Went
<1>2. ASSUME bin' = bin, exe' = exe
      PROVE  exe' \in {"old", "new"} /\ bin'[s].backup \in {"none", "old", "new"}
  BY <1>0, <1>2 DEF HoldsPublished
<1>3. ASSUME PutBack(s)
      PROVE  exe' \in {"old", "new"} /\ bin'[s].backup \in {"none", "old", "new"}
  BY <1>0, <1>3 DEF PutBack, HoldsPublished
<1>25. OthersStay(s)
  BY TaskMoves DEF Went, Finished, Chunked, Refreshed, OthersStay, UpgradeTypeOK
<1>26. ASSUME NEW u \in Starter, u # s
       PROVE  bin'[u] = bin[u]
  BY <1>0, <1>26 DEF TaskStep, Errs, Prepare, Chunk, Downloaded, Verify, Extract, Smoke, DistLookup,
     Backup, Stage, Swap, Resmoke, DistCopy, DistPark, DistBring, Succeed, PutBack, files
<1>27. ASSUME NEW u \in Starter, u # s
       PROVE  HoldsPublished(u)'
  BY <1>25, <1>26, <1>27 DEF BinaryInv, HoldsPublished, OthersStay
<1> SUFFICES Kept
  BY <1>27 DEF BinaryInv, ExecutableIsPublished
<1> HIDE DEF Kept
<1>4. ASSUME Fail(s), exe' \in {"old", "new"}, bin'[s].backup \in {"none", "old", "new"}
      PROVE  Kept
  <2>1. "over" \in TaskPc \ (Checked \cup Replacing \cup {"checksum", "verify", "swap"})
    BY DEF TaskPc, Checked, Replacing
  <2> QED
    BY <1>1, <1>4, <2>1 DEF Fail
<1>5. ASSUME NEW pc \in Checked \cup {"asset", "resmoke", "succeed", "dwell", "over"},
             Go(s, pc), UNCHANGED <<bin, exe>>,
             pc \in Checked => task[s].archive = "new"
      PROVE  Kept
  <2>1. pc \in TaskPc \ (Replacing \cup {"checksum", "verify", "swap"})
    BY DEF TaskPc, Downloads, Checked, Replacing
  <2> QED
    BY <1>1, <1>2, <1>5, <2>1
<1>6. ASSUME UNCHANGED <<bin, exe>>, HoldsPublished(s), task'[s].pc = task[s].pc,
             task'[s].archive = task[s].archive, task'[s].page = task[s].page
      PROVE  Kept
  BY <1>0, <1>6 DEF HoldsPublished, Kept
<1>7. {"extract", "smoke", "dist_lookup", "dist", "dist_checksum", "dist_verify", "dist_extract",
       "backup", "stage"} = Checked
  BY DEF Checked
<1>8. CASE Errs(s)
  BY <1>2, <1>4, <1>8 DEF Errs, files
<1>9. CASE Prepare(s)
  BY <1>5, <1>7, <1>9 DEF Prepare, files
<1>10. CASE Chunk(s)
  <2>1. CASE task' = [task EXCEPT ![s].current = task[s].current + 1]
    <3>1. task'[s].pc = task[s].pc /\ task'[s].archive = task[s].archive /\ task'[s].page = task[s].page
      BY <1>0, <2>1 DEF TaskState
    <3> QED
      BY <1>0, <1>6, <1>10, <3>1 DEF Chunk, files
  <2>2. CASE Go(s, "over")
    BY <1>5, <1>7, <1>10, <2>2 DEF Chunk, files
  <2> QED
    BY <1>10, <2>1, <2>2 DEF Chunk
<1>11. CASE Downloaded(s)
  <2>1. UNCHANGED <<bin, exe>>
    BY <1>11 DEF Downloaded, files
  <2> QED
    BY <1>0, <1>2, <1>11, <2>1, Finishes DEF Finished, HoldsPublished, Checked, Replacing, Kept
<1>12. CASE Verify(s)
  <2>1. CASE task[s].pc = "verify" /\ ChecksumMatches(task[s].archive) /\ Go(s, "extract")
    <3>1. task[s].archive = "new"
      BY <1>0, <2>1 DEF HoldsPublished, ChecksumMatches
    <3> QED
      BY <1>5, <1>7, <1>12, <2>1, <3>1 DEF Verify, files
  <2>2. CASE task[s].pc = "dist_verify" /\ Go(s, "dist_extract")
    BY <1>0, <1>5, <1>7, <1>12, <2>2 DEF Verify, files, HoldsPublished
  <2> QED
    BY <1>12, <2>1, <2>2 DEF Verify
<1>13. CASE Extract(s)
  BY <1>0, <1>5, <1>7, <1>13 DEF Extract, files, HoldsPublished
<1>14. CASE Smoke(s)
  BY <1>0, <1>5, <1>7, <1>14 DEF Smoke, files, HoldsPublished
<1>15. CASE DistLookup(s)
  BY <1>0, <1>5, <1>7, <1>15 DEF DistLookup, files, HoldsPublished
<1>16. CASE Backup(s)
  <2>1. CASE bin' = [bin EXCEPT ![s].backup = exe] /\ Go(s, "stage")
    <3>1. bin'[s].backup \in {"none", "old", "new"}
      BY <1>0, <2>1
    <3>2. "stage" \in TaskPc \ Replacing /\ task[s].archive = "new"
      BY <1>0, <1>16 DEF Backup, HoldsPublished, Checked, TaskPc, Replacing
    <3> QED
      BY <1>0, <1>1, <1>16, <2>1, <3>1, <3>2 DEF Backup
  <2> QED
    BY <1>2, <1>4, <1>16, <2>1 DEF Backup
<1>17. CASE Stage(s)
  <2>1. CASE bin' = [bin EXCEPT ![s].staged = task[s].archive] /\ Go(s, "swap")
    <3>1. task[s].archive = "new"
      BY <1>0, <1>17 DEF Stage, HoldsPublished, Checked
    <3>2. bin'[s].backup = bin[s].backup /\ bin'[s].staged = "new"
      BY <1>0, <2>1, <3>1
    <3>3. "swap" \in TaskPc \ Replacing
      BY DEF TaskPc, Replacing
    <3> QED
      BY <1>0, <1>1, <1>17, <2>1, <3>1, <3>2, <3>3 DEF Stage, HoldsPublished
  <2> QED
    BY <1>2, <1>4, <1>17, <2>1 DEF Stage
<1>18. CASE Swap(s)
  <2>1. CASE exe' = bin[s].staged /\ bin' = [bin EXCEPT ![s].staged = "none"] /\ Go(s, "resmoke")
    <3>1. exe' = "new"
      BY <1>0, <1>18, <2>1 DEF Swap, HoldsPublished
    <3>2. bin'[s].backup = bin[s].backup
      BY <1>0, <2>1
    <3>3. "resmoke" \in TaskPc \ (Replacing \cup Checked)
      BY DEF TaskPc, Replacing, Checked
    <3> QED
      BY <1>0, <1>1, <2>1, <3>1, <3>2, <3>3 DEF HoldsPublished
  <2> QED
    BY <1>3, <1>4, <1>18, <2>1 DEF Swap
<1>19. CASE Resmoke(s)
  <2>1. CASE /\ bin' = [bin EXCEPT ![s].backup = "none"] /\ UNCHANGED exe
             /\ Go(s, IF task[s].page = "none" THEN "succeed" ELSE "dist_copy")
    <3>1. bin'[s].backup = "none"
      BY <1>0, <2>1
    <3>2. "succeed" \in TaskPc \ (Replacing \cup Checked) /\ "dist_copy" \in TaskPc \ Checked
      BY DEF TaskPc, Replacing, Checked
    <3> QED
      BY <1>0, <1>1, <2>1, <3>1, <3>2
  <2> QED
    BY <1>3, <1>4, <1>19, <2>1 DEF Resmoke
<1>20. CASE DistCopy(s)
  <2>1. CASE task' = [task EXCEPT ![s].pc = "dist_park", ![s].fresh = NewFile]
    <3>1. task'[s].pc = "dist_park" /\ task'[s].page = task[s].page
      BY <1>0, <2>1 DEF TaskState
    <3>2. task[s].page # "none"
      BY <1>0, <1>20 DEF DistCopy, HoldsPublished, Replacing
    <3> QED
      BY <1>0, <1>20, <3>1, <3>2 DEF DistCopy, HoldsPublished, Checked, Kept
  <2> QED
    BY <1>2, <1>4, <1>20, <2>1 DEF DistCopy
<1>21. CASE DistPark(s)
  <2>1. CASE Go(s, "dist_bring")
    <3>1. "dist_bring" \in TaskPc \ Checked /\ task[s].page # "none"
      BY <1>0, <1>21 DEF DistPark, TaskPc, Checked, Replacing, HoldsPublished
    <3> QED
      BY <1>0, <1>1, <1>2, <1>21, <2>1, <3>1 DEF DistPark
  <2>2. CASE UNCHANGED task
    BY <1>0, <1>6, <1>21, <2>2 DEF DistPark
  <2> QED
    BY <1>2, <1>4, <1>21, <2>1, <2>2 DEF DistPark
<1>22. CASE DistBring(s)
  <2>1. ASSUME NEW f \in task[s].fresh, task' = [task EXCEPT ![s].fresh = @ \ {f}]
        PROVE  Kept
    <3>1. task'[s].pc = task[s].pc /\ task'[s].archive = task[s].archive /\ task'[s].page = task[s].page
      BY <1>0, <2>1 DEF TaskState
    <3> QED
      BY <1>0, <1>6, <1>22, <3>1 DEF DistBring
  <2>2. CASE Go(s, "succeed")
    BY <1>5, <1>7, <1>22, <2>2 DEF DistBring
  <2> QED
    BY <1>2, <1>4, <1>22, <2>1, <2>2 DEF DistBring
<1>23. CASE Succeed(s)
  BY <1>5, <1>7, <1>23 DEF Succeed, files
<1> QED
  BY <1>8, <1>9, <1>10, <1>11, <1>12, <1>13, <1>14, <1>15, <1>16, <1>17, <1>18, <1>19, <1>20, <1>21,
     <1>22, <1>23 DEF TaskStep

\* The files of one complete frontend and nothing else.
IsWhole(w) == \E c \in Content \ {"none"} : w = [f \in File |-> IF f \in FilesOf(c) THEN c ELSE "none"]

\* What is served once what a task parked has gone back.
Merged(s) == [f \in File |-> IF parked[s][f] # "none" THEN parked[s][f] ELSE live[f]]

\* What is served while a task brings its entries in.
Brought(s) == [f \in File |-> IF f \in NewFile \ task[s].fresh THEN task[s].page ELSE "none"]

\* Some complete frontend is parked, in one directory or in several.
ParkedWhole ==
  \E c \in Content \ {"none"} : \A f \in FilesOf(c) : \E u \in Starter : parked[u][f] = c

\* The directories while the task of s moves them: nothing is parked over
\* another entry, and entries come in only beside a parked frontend.
FrontendOf(s) ==
  /\ task[s].pc \notin {"dist_park", "dist_bring", "over"} => parked[s] = Empty
  /\ task[s].pc = "dist_park" =>
       /\ task[s].fresh = NewFile
       /\ \A f \in File : live[f] # "none" => parked[s][f] = "none"
  /\ task[s].pc = "dist_bring" => live = Brought(s) /\ ParkedWhole

\* A process that never died: one frontend, served or parked by the one task
\* that is replacing it.
NeverMixed ==
  /\ (\A s \in Starter : task[s].pc \notin {"dist_park", "dist_bring"}) =>
       IsWhole(live) /\ \A u \in Starter : parked[u] = Empty
  /\ \A s \in Starter : task[s].pc \in {"dist_park", "dist_bring"} =>
       /\ \A u \in Starter : u # s => parked[u] = Empty
       /\ task[s].pc = "dist_park" => IsWhole(Merged(s))
       /\ task[s].pc = "dist_bring" => IsWhole(parked[s])

\* While a container waits for its exit no other upgrade is past its download.
NobodyPastDwell ==
  Dwelling => \A s \in Starter : task[s].pc \in {"none", "prepare", "asset", "dwell", "over"}

FrontendInv ==
  /\ \A s \in Starter : FrontendOf(s)
  /\ FrontendRecoverable
  /\ ~setting.crashes => NeverMixed

(* One failed operation at most: nothing that was parked is lost.          *)
LEMMA RestoreBringsAllBack ==
  ASSUME MaxFaults <= 1, UpgradeTypeOK, NEW s \in Starter, NEW cur \in [File -> Content],
         RestoreOldContents(s, cur)
  PROVE  /\ live' = [f \in File |-> IF parked[s][f] # "none" THEN parked[s][f] ELSE cur[f]]
         /\ parked' = [parked EXCEPT ![s] = Empty]
<1>1. PICK lost \in SUBSET {f \in File : parked[s][f] # "none"} :
        /\ Cardinality(lost) + 1 <= MaxFaults - faults
        /\ live' = [f \in File |-> IF parked[s][f] # "none" /\ f \notin lost
                                   THEN parked[s][f] ELSE cur[f]]
        /\ parked' = [parked EXCEPT ![s] = Empty]
  BY DEF RestoreOldContents
<1>2. IsFiniteSet(lost)
  <2>1. IsFiniteSet(File)
    BY UpgradeAssumption, FS_Union DEF File
  <2> QED
    BY <2>1, FS_Subset
<1>3. Cardinality(lost) \in Nat
  BY <1>2, FS_CardinalityType
<1>4. Cardinality(lost) = 0
  <2>1. faults \in Nat /\ MaxFaults \in Nat
    BY UpgradeAssumption DEF UpgradeTypeOK
  <2> HIDE DEF RestoreOldContents
  <2> QED
    BY <1>1, <1>3, <2>1
<1>5. lost = {}
  BY <1>2, <1>4, FS_EmptySet
<1> QED
  BY <1>1, <1>5

LEMMA TaskKeepsDwell ==
  ASSUME JobInv, NobodyPastDwell, NEW s \in Starter, TaskStep(s)
  PROVE  NobodyPastDwell'
<1>0. UpgradeTypeOK /\ Exclusive
  BY DEF JobInv
<1>1. OthersStay(s) /\ task[s].pc \in WorkPlaces
  BY <1>0, TaskMoves DEF Went, Finished, Chunked, Refreshed, OthersStay, UpgradeTypeOK
<1>2. ASSUME NEW u \in Starter, u # s
      PROVE  task[u].pc \in {"none", "dwell", "over"}
  <2>1. s \in Upgrading
    BY <1>1 DEF Upgrading, Working, WorkPlaces
  <2>2. u \notin Upgrading
    BY <1>0, <1>2, <2>1 DEF Exclusive
  <2> QED
    BY <2>2 DEF Upgrading, Working
<1>3. CASE Dwelling
  <2>1. task[s].pc \in {"prepare", "asset"}
    BY <1>1, <1>3 DEF NobodyPastDwell, WorkPlaces
  <2>2. task'[s].pc \in {"prepare", "asset", "over"}
    <3>1. \A pc \in TaskPc : Go(s, pc) => task'[s].pc = pc
      BY <1>0, Goes DEF Went, UpgradeTypeOK
    <3>2. "asset" \in TaskPc /\ "over" \in TaskPc
      BY DEF TaskPc, Downloads
    <3>3. ~Downloaded(s)
      BY <1>3 DEF Downloaded
    <3>4. \/ Errs(s) \/ Prepare(s) \/ Chunk(s)
      BY <2>1, <3>3 DEF TaskStep, Verify, Extract, Smoke, DistLookup, Backup, Stage, Swap, Resmoke,
         DistCopy, DistPark, DistBring, Succeed
    <3>5. CASE Go(s, "over") \/ Go(s, "asset")
      BY <3>1, <3>2, <3>5
    <3>6. CASE task' = [task EXCEPT ![s].current = task[s].current + 1]
      BY <1>0, <2>1, <3>6 DEF UpgradeTypeOK, TaskState
    <3> QED
      BY <3>4, <3>5, <3>6 DEF Errs, Prepare, Chunk, Fail
  <2> QED
    BY <1>1, <1>2, <2>2 DEF NobodyPastDwell, OthersStay
<1>4. CASE ~Dwelling
  <2>1. CASE task'[s].pc = "dwell"
    BY <1>1, <1>2, <2>1 DEF NobodyPastDwell, OthersStay
  <2>2. CASE task'[s].pc # "dwell"
    BY <1>1, <1>4, <2>2 DEF NobodyPastDwell, OthersStay, Dwelling
  <2> QED
    BY <2>1, <2>2
<1> QED
  BY <1>3, <1>4

(* A step of a task outside the two places that move the frontend, and the *)
(* one that copies the new one beside it.                                  *)
LEMMA QuietStepKeepsFrontend ==
  ASSUME JobInv, FrontendInv, NEW s \in Starter, TaskStep(s),
         task[s].pc \notin {"dist_park", "dist_bring"}
  PROVE  FrontendInv'
<1>0. UpgradeTypeOK /\ Exclusive
  BY DEF JobInv
<1>1. OthersStay(s) /\ task[s].pc \in WorkPlaces /\ UNCHANGED setting
  BY <1>0, TaskMoves DEF Went, Finished, Chunked, Refreshed, OthersStay, UpgradeTypeOK, handlers
<1>2. UNCHANGED <<live, parked>>
  BY DEF TaskStep, Errs, Prepare, Chunk, Downloaded, Verify, Extract, Smoke, DistLookup, Backup,
     Stage, Swap, Resmoke, DistCopy, DistPark, DistBring, Succeed, files, web
<1>3. ASSUME NEW u \in Starter
      PROVE  task[u].pc \notin {"dist_park", "dist_bring"}
  <2>1. s \in Upgrading
    BY <1>1 DEF Upgrading, Working, WorkPlaces
  <2>2. u = s \/ u \notin Upgrading
    BY <1>0, <2>1 DEF Exclusive
  <2> QED
    BY <2>2 DEF Upgrading, Working
<1>4. parked[s] = Empty
  BY <1>1 DEF FrontendInv, FrontendOf, WorkPlaces
<1>5. task'[s].pc # "dist_bring" /\ (task'[s].pc = "dist_park" => task'[s].fresh = NewFile)
  BY <1>0, TaskMoves DEF Edge, Went, Finished, Chunked, Refreshed, Downloads
<1>6. FrontendRecoverable'
  BY <1>2 DEF FrontendInv, FrontendRecoverable
<1>7. ASSUME NEW u \in Starter
      PROVE  FrontendOf(u)'
  <2>1. CASE u = s
    BY <1>2, <1>4, <1>5, <2>1 DEF FrontendOf, Empty
  <2>2. CASE u # s
    BY <1>1, <1>2, <1>3, <2>2 DEF FrontendInv, FrontendOf, OthersStay
  <2> QED
    BY <2>1, <2>2
<1>8. ASSUME ~setting.crashes
      PROVE  NeverMixed'
  <2>1. IsWhole(live) /\ \A u \in Starter : parked[u] = Empty
    BY <1>3, <1>8 DEF FrontendInv, NeverMixed
  <2>2. (\A u \in Starter : parked[u] = Empty)' /\ IsWhole(live)'
    BY <1>2, <2>1 DEF IsWhole
  <2>3. Merged(s)' = live'
    <3>1. live \in [File -> Content]
      BY <1>0 DEF UpgradeTypeOK
    <3> QED
      BY <1>2, <1>4, <3>1 DEF Merged, Empty
  <2>4. \A u \in Starter : task'[u].pc \in {"dist_park", "dist_bring"} =>
          u = s /\ task'[u].pc = "dist_park"
    BY <1>1, <1>3, <1>5 DEF OthersStay
  <2> QED
    BY <2>2, <2>3, <2>4 DEF NeverMixed
<1> QED
  BY <1>1, <1>6, <1>7, <1>8 DEF FrontendInv

(* park_old_contents and its undoing.                                      *)
LEMMA ParkKeepsFrontend ==
  ASSUME MaxFaults <= 1, JobInv, FrontendInv, NEW s \in Starter, DistPark(s)
  PROVE  FrontendInv'
<1>0. /\ UpgradeTypeOK /\ Exclusive /\ task \in [Starter -> TaskState]
      /\ live \in [File -> Content] /\ parked \in [Starter -> [File -> Content]]
      /\ task[s].pc = "dist_park" /\ UNCHANGED setting
      /\ task[s].fresh = NewFile
      /\ \A f \in File : live[f] # "none" => parked[s][f] = "none"
  BY DEF JobInv, UpgradeTypeOK, FrontendInv, FrontendOf, DistPark, handlers
<1>1. ASSUME NEW u \in Starter, u # s
      PROVE  task[u].pc \notin {"dist_park", "dist_bring"}
  <2>1. s \in Upgrading
    BY <1>0 DEF Upgrading, Working
  <2>2. u \notin Upgrading
    BY <1>0, <1>1, <2>1 DEF Exclusive
  <2> QED
    BY <2>2 DEF Upgrading, Working
<1>2. ~setting.crashes => /\ \A u \in Starter : u # s => parked[u] = Empty
                          /\ IsWhole(Merged(s))
  BY <1>0 DEF FrontendInv, NeverMixed
<1>3. ASSUME NEW g \in File, live[g] # "none", live' = [live EXCEPT ![g] = "none"],
             parked' = [parked EXCEPT ![s][g] = live[g]], UNCHANGED task
      PROVE  FrontendInv'
  <2>1. /\ \A f \in File : f # g => live'[f] = live[f] /\ parked'[s][f] = parked[s][f]
        /\ live'[g] = "none" /\ parked'[s][g] = live[g] /\ parked[s][g] = "none"
        /\ \A u \in Starter : u # s => parked'[u] = parked[u]
    BY <1>0, <1>3
  <2>2. FrontendRecoverable'
    <3>1. PICK c \in Content \ {"none"} : \A f \in FilesOf(c) :
            live[f] = c \/ \E u \in Starter : parked[u][f] = c
      BY DEF FrontendInv, FrontendRecoverable
    <3>2. ASSUME NEW f \in FilesOf(c)
          PROVE  live'[f] = c \/ \E u \in Starter : parked'[u][f] = c
      <4>1. f \in File
        BY DEF FilesOf, File
      <4> QED
        BY <2>1, <3>1, <4>1
    <3> QED
      BY <3>2 DEF FrontendRecoverable
  <2>3. ASSUME NEW u \in Starter
        PROVE  FrontendOf(u)'
    <3>1. CASE u = s
      BY <1>0, <1>3, <2>1, <3>1 DEF FrontendOf
    <3>2. CASE u # s
      BY <1>1, <1>3, <2>1, <3>2 DEF FrontendInv, FrontendOf
    <3> QED
      BY <3>1, <3>2
  <2>4. ASSUME ~setting.crashes
        PROVE  NeverMixed'
    <3>1. Merged(s)' = Merged(s)
      BY <2>1 DEF Merged
    <3>2. IsWhole(Merged(s)')
      BY <1>2, <2>4, <3>1
    <3>3. IsWhole(Merged(s))'
      BY <3>2 DEF IsWhole
    <3> QED
      BY <1>0, <1>1, <1>2, <1>3, <2>1, <2>4, <3>3 DEF NeverMixed
  <2> QED
    BY <1>0, <2>2, <2>3, <2>4 DEF FrontendInv
<1>4. CASE live = Empty /\ Go(s, "dist_bring") /\ UNCHANGED <<live, parked>>
  <2>1. /\ \A u \in Starter : u # s => task'[u] = task[u]
        /\ task'[s].pc = "dist_bring" /\ task'[s].fresh = NewFile /\ task'[s].page = task[s].page
    <3>1. "dist_bring" \in TaskPc
      BY DEF TaskPc
    <3> QED
      BY <1>0, <1>4, <3>1, Goes DEF Went, OthersStay
  <2>2. ParkedWhole
    BY <1>4 DEF FrontendInv, FrontendRecoverable, ParkedWhole, Empty, FilesOf, File
  <2>3. live' = Brought(s)'
    BY <1>4, <2>1 DEF Brought, Empty
  <2>4. FrontendRecoverable' /\ ParkedWhole'
    BY <1>4, <2>2 DEF FrontendInv, FrontendRecoverable, ParkedWhole
  <2>5. ASSUME NEW u \in Starter
        PROVE  FrontendOf(u)'
    <3>1. CASE u = s
      BY <2>1, <2>3, <2>4, <3>1 DEF FrontendOf
    <3>2. CASE u # s
      BY <1>1, <1>4, <2>1, <3>2 DEF FrontendInv, FrontendOf
    <3> QED
      BY <3>1, <3>2
  <2>6. ASSUME ~setting.crashes
        PROVE  NeverMixed'
    <3>1. Merged(s) = parked[s]
      BY <1>0, <1>4 DEF Merged, Empty
    <3>2. IsWhole(parked[s])'
      BY <1>2, <1>4, <2>6, <3>1 DEF IsWhole
    <3> QED
      BY <1>1, <1>2, <1>4, <2>1, <2>6, <3>2 DEF NeverMixed
  <2> QED
    BY <1>0, <2>4, <2>5, <2>6 DEF FrontendInv
<1>5. CASE RestoreOldContents(s, live) /\ Fail(s)
  <2>1. live' = Merged(s) /\ parked' = [parked EXCEPT ![s] = Empty]
    BY <1>0, <1>5, RestoreBringsAllBack DEF Merged
  <2>2. /\ \A u \in Starter : u # s => task'[u] = task[u]
        /\ task'[s].pc = "over"
    <3>1. "over" \in TaskPc
      BY DEF TaskPc
    <3> QED
      BY <1>0, <1>5, <3>1, Goes DEF Fail, Went, OthersStay
  <2>3. /\ \A u \in Starter : u # s => parked'[u] = parked[u]
        /\ parked'[s] = Empty
    BY <1>0, <2>1
  <2>4. FrontendRecoverable'
    <3>1. PICK c \in Content \ {"none"} : \A f \in FilesOf(c) :
            live[f] = c \/ \E u \in Starter : parked[u][f] = c
      BY DEF FrontendInv, FrontendRecoverable
    <3>2. ASSUME NEW f \in FilesOf(c)
          PROVE  live'[f] = c \/ \E u \in Starter : parked'[u][f] = c
      <4>1. f \in File
        BY DEF FilesOf, File
      <4> QED
        BY <1>0, <2>1, <2>3, <3>1, <4>1 DEF Merged
    <3> QED
      BY <3>2 DEF FrontendRecoverable
  <2>5. ASSUME NEW u \in Starter
        PROVE  FrontendOf(u)'
    <3>1. CASE u = s
      BY <2>2, <3>1 DEF FrontendOf
    <3>2. CASE u # s
      BY <1>1, <2>2, <2>3, <3>2 DEF FrontendInv, FrontendOf
    <3> QED
      BY <3>1, <3>2
  <2>6. ASSUME ~setting.crashes
        PROVE  NeverMixed'
    <3>1. IsWhole(live')
      BY <1>2, <2>1, <2>6
    <3>2. IsWhole(live)'
      BY <3>1 DEF IsWhole
    <3>3. (\A u \in Starter : parked[u] = Empty)'
      BY <1>2, <2>3, <2>6 DEF Empty
    <3> QED
      BY <1>1, <2>2, <3>2, <3>3 DEF NeverMixed
  <2> QED
    BY <1>0, <2>4, <2>5, <2>6 DEF FrontendInv
<1> QED
  BY <1>3, <1>4, <1>5 DEF DistPark, web

(* bring_new_contents_in, the end of it and its undoing.                   *)
LEMMA BringKeepsFrontend ==
  ASSUME MaxFaults <= 1, JobInv, BinaryInv, FrontendInv, NEW s \in Starter, DistBring(s)
  PROVE  FrontendInv'
<1>0. /\ UpgradeTypeOK /\ Exclusive /\ task \in [Starter -> TaskState]
      /\ live \in [File -> Content] /\ parked \in [Starter -> [File -> Content]]
      /\ task[s].pc = "dist_bring" /\ UNCHANGED setting
      /\ task[s].fresh \subseteq NewFile
      /\ live = Brought(s) /\ ParkedWhole
      /\ task[s].page \in {"new", "corrupt"}
  BY DEF JobInv, UpgradeTypeOK, TaskState, FrontendInv, FrontendOf, DistBring, handlers, BinaryInv,
     HoldsPublished, Replacing
<1>1. ASSUME NEW u \in Starter, u # s
      PROVE  task[u].pc \notin {"dist_park", "dist_bring"}
  <2>1. s \in Upgrading
    BY <1>0 DEF Upgrading, Working
  <2>2. u \notin Upgrading
    BY <1>0, <1>1, <2>1 DEF Exclusive
  <2> QED
    BY <2>2 DEF Upgrading, Working
<1>2. ~setting.crashes => /\ \A u \in Starter : u # s => parked[u] = Empty
                          /\ IsWhole(parked[s])
  BY <1>0 DEF FrontendInv, NeverMixed
<1>3. ASSUME NEW g \in task[s].fresh, live' = [live EXCEPT ![g] = task[s].page],
             task' = [task EXCEPT ![s].fresh = @ \ {g}], UNCHANGED parked
      PROVE  FrontendInv'
  <2>1. /\ \A u \in Starter : u # s => task'[u] = task[u]
        /\ task'[s].pc = "dist_bring" /\ task'[s].fresh = task[s].fresh \ {g}
        /\ task'[s].page = task[s].page
    BY <1>0, <1>3 DEF TaskState
  <2>2. live' = Brought(s)'
    <3>1. g \in NewFile /\ g \in File
      BY <1>0 DEF File
    <3>2. \A f \in File : live'[f] = IF f = g THEN task[s].page ELSE Brought(s)[f]
      BY <1>0, <1>3, <3>1
    <3>3. live' \in [File -> Content] /\ Brought(s)' = [f \in File |->
            IF f \in NewFile \ (task[s].fresh \ {g}) THEN task[s].page ELSE "none"]
      BY <1>0, <1>3, <2>1 DEF Brought, Content
    <3> QED
      BY <3>1, <3>2, <3>3 DEF Brought
  <2>3. FrontendRecoverable' /\ ParkedWhole'
    BY <1>0, <1>3 DEF ParkedWhole, FrontendRecoverable
  <2>4. ASSUME NEW u \in Starter
        PROVE  FrontendOf(u)'
    <3>1. CASE u = s
      BY <2>1, <2>2, <2>3, <3>1 DEF FrontendOf
    <3>2. CASE u # s
      BY <1>1, <1>3, <2>1, <3>2 DEF FrontendInv, FrontendOf
    <3> QED
      BY <3>1, <3>2
  <2>5. ASSUME ~setting.crashes
        PROVE  NeverMixed'
    <3>1. IsWhole(parked[s])'
      BY <1>2, <1>3, <2>5 DEF IsWhole
    <3> QED
      BY <1>1, <1>2, <1>3, <2>1, <2>5, <3>1 DEF NeverMixed
  <2> QED
    BY <1>0, <2>3, <2>4, <2>5 DEF FrontendInv
<1>4. CASE /\ task[s].fresh = {} /\ parked' = [u \in Starter |-> Empty] /\ Go(s, "succeed")
           /\ UNCHANGED live
  <2>1. /\ \A u \in Starter : u # s => task'[u] = task[u]
        /\ task'[s].pc = "succeed"
    <3>1. "succeed" \in TaskPc
      BY DEF TaskPc
    <3> QED
      BY <1>0, <1>4, <3>1, Goes DEF Went, OthersStay
  <2>2. live = [f \in File |-> IF f \in FilesOf(task[s].page) THEN task[s].page ELSE "none"]
    BY <1>0, <1>4 DEF Brought, FilesOf
  <2>3. task[s].page \in Content \ {"none"}
    BY <1>0 DEF Content
  <2>4. FrontendRecoverable'
    <3>1. \A f \in FilesOf(task[s].page) : live'[f] = task[s].page
      BY <1>0, <1>4, <2>2 DEF FilesOf, File
    <3> QED
      BY <2>3, <3>1 DEF FrontendRecoverable
  <2>5. ASSUME NEW u \in Starter
        PROVE  FrontendOf(u)'
    <3>1. parked'[u] = Empty /\ task'[u].pc \notin {"dist_park", "dist_bring"}
      BY <1>1, <1>4, <2>1
    <3> QED
      BY <3>1 DEF FrontendOf, Empty
  <2>6. NeverMixed'
    <3>1. IsWhole(live)'
      BY <1>4, <2>2, <2>3 DEF IsWhole
    <3>2. (\A u \in Starter : parked[u] = Empty)'
      BY <1>4 DEF Empty
    <3> QED
      BY <1>1, <2>1, <3>1, <3>2 DEF NeverMixed
  <2> QED
    BY <1>0, <2>4, <2>5, <2>6 DEF FrontendInv
<1>5. CASE RestoreOldContents(s, Empty) /\ Fail(s)
  <2>1. live' = parked[s] /\ parked' = [parked EXCEPT ![s] = Empty]
    <3>1. Empty \in [File -> Content]
      BY DEF Empty, Content
    <3>2. /\ live' = [f \in File |-> IF parked[s][f] # "none" THEN parked[s][f] ELSE Empty[f]]
          /\ parked' = [parked EXCEPT ![s] = Empty]
      BY <1>0, <1>5, <3>1, RestoreBringsAllBack
    <3> QED
      BY <1>0, <3>2 DEF Empty
  <2>2. /\ \A u \in Starter : u # s => task'[u] = task[u]
        /\ task'[s].pc = "over"
    <3>1. "over" \in TaskPc
      BY DEF TaskPc
    <3> QED
      BY <1>0, <1>5, <3>1, Goes DEF Fail, Went, OthersStay
  <2>3. /\ \A u \in Starter : u # s => parked'[u] = parked[u]
        /\ parked'[s] = Empty
    BY <1>0, <2>1
  <2>4. FrontendRecoverable'
    <3>1. PICK c \in Content \ {"none"} : \A f \in FilesOf(c) : \E u \in Starter : parked[u][f] = c
      BY <1>0 DEF ParkedWhole
    <3>2. ASSUME NEW f \in FilesOf(c)
          PROVE  live'[f] = c \/ \E u \in Starter : parked'[u][f] = c
      BY <2>1, <2>3, <3>1
    <3> QED
      BY <3>2 DEF FrontendRecoverable
  <2>5. ASSUME NEW u \in Starter
        PROVE  FrontendOf(u)'
    <3>1. CASE u = s
      BY <2>2, <3>1 DEF FrontendOf
    <3>2. CASE u # s
      BY <1>1, <2>2, <2>3, <3>2 DEF FrontendInv, FrontendOf
    <3> QED
      BY <3>1, <3>2
  <2>6. ASSUME ~setting.crashes
        PROVE  NeverMixed'
    <3>1. IsWhole(live')
      BY <1>2, <2>1, <2>6
    <3>2. IsWhole(live)'
      BY <3>1 DEF IsWhole
    <3>3. (\A u \in Starter : parked[u] = Empty)'
      BY <1>2, <2>3, <2>6 DEF Empty
    <3> QED
      BY <1>1, <2>2, <3>2, <3>3 DEF NeverMixed
  <2> QED
    BY <1>0, <2>4, <2>5, <2>6 DEF FrontendInv
<1> QED
  BY <1>3, <1>4, <1>5 DEF DistBring, web

FilesInv == BinaryInv /\ NobodyPastDwell /\ FrontendInv

LEMMA FilesStart ==
  ASSUME UpgradeInit
  PROVE  FilesInv
<1>1. BinaryInv /\ NobodyPastDwell
  BY DEF UpgradeInit, BinaryInv, ExecutableIsPublished, HoldsPublished, NobodyPastDwell, NoTask,
     Checked, Replacing, Dwelling
<1>2. IsWhole(live) /\ FrontendRecoverable
  <2>1. "old" \in Content \ {"none"} /\ FilesOf("old") = OldFile /\ live = OldWeb
    BY DEF Content, FilesOf, UpgradeInit
  <2>2. \A f \in FilesOf("old") : live[f] = "old"
    BY <2>1 DEF OldWeb, File
  <2> QED
    BY <2>1, <2>2 DEF IsWhole, FrontendRecoverable, OldWeb
<1>3. \A s \in Starter : task[s].pc = "none" /\ parked[s] = Empty
  BY DEF UpgradeInit, NoTask
<1>4. (\A s \in Starter : FrontendOf(s)) /\ NeverMixed
  BY <1>2, <1>3 DEF FrontendOf, NeverMixed
<1> QED
  BY <1>1, <1>2, <1>4 DEF FilesInv, FrontendInv

LEMMA FilesInvIsInductive ==
  ASSUME MaxFaults <= 1, JobInv, FilesInv, [UpgradeNext]_upgradeVars
  PROVE  FilesInv'
<1>0. BinaryInv /\ NobodyPastDwell /\ FrontendInv /\ UpgradeTypeOK /\ Exclusive
      /\ task \in [Starter -> TaskState]
  BY DEF FilesInv, JobInv, UpgradeTypeOK
<1>1. ASSUME UNCHANGED <<setting, task, files>>
      PROVE  FilesInv'
  <2>0. UNCHANGED <<setting, task, exe, bin, live, parked>>
    BY <1>1 DEF files, web
  <2>1. BinaryInv'
    BY <1>0, <2>0 DEF BinaryInv, ExecutableIsPublished, HoldsPublished
  <2>2. NobodyPastDwell'
    BY <1>0, <2>0 DEF NobodyPastDwell, Dwelling
  <2>3. FrontendRecoverable' /\ \A s \in Starter : FrontendOf(s)'
    BY <1>0, <2>0 DEF FrontendInv, FrontendRecoverable, FrontendOf, Brought, ParkedWhole
  <2>4. ~setting.crashes => NeverMixed'
    BY <1>0, <2>0 DEF FrontendInv, NeverMixed, IsWhole, Merged
  <2> QED
    BY <2>0, <2>1, <2>2, <2>3, <2>4 DEF FilesInv, FrontendInv
<1>2. ASSUME NEW s \in Starter, TaskStep(s)
      PROVE  FilesInv'
  <2>1. BinaryInv' /\ NobodyPastDwell'
    BY <1>0, <1>2, TaskKeepsBinary, TaskKeepsDwell
  <2>2. CASE task[s].pc \notin {"dist_park", "dist_bring"}
    BY <1>0, <1>2, <2>1, <2>2, QuietStepKeepsFrontend DEF FilesInv
  <2>3. CASE task[s].pc \in {"dist_park", "dist_bring"}
    <3>1. DistPark(s) \/ DistBring(s)
      BY <1>2, <2>3 DEF TaskStep, Errs, Prepare, Chunk, Downloaded, Verify, Extract, Smoke,
         DistLookup, Backup, Stage, Swap, Resmoke, DistCopy, Succeed, Downloads
    <3> QED
      BY <1>0, <2>1, <3>1, ParkKeepsFrontend, BringKeepsFrontend DEF FilesInv
  <2> QED
    BY <2>2, <2>3
<1>3. ASSUME NEW s \in Starter, StartSpawns(s)
      PROVE  FilesInv'
  <2> DEFINE t == [NoTask EXCEPT !.pc = "prepare"]
  <2>1. t.pc = "prepare" /\ t.page = "none"
    BY DEF NoTask
  <2>2. task' = [task EXCEPT ![s] = t] /\ UNCHANGED <<setting, exe, bin, live, parked>>
    BY <1>3 DEF StartSpawns, files, web
  <2> HIDE DEF t
  <2>3. task[s].pc = "none" /\ parked[s] = Empty
    BY <1>0, <1>3 DEF StartSpawns, Exclusive, FrontendInv, FrontendOf
  <2>4. task'[s] = t /\ \A u \in Starter : u # s => task'[u] = task[u]
    BY <1>0, <2>2
  <2>5. BinaryInv'
    BY <1>0, <2>1, <2>2, <2>4 DEF BinaryInv, ExecutableIsPublished, HoldsPublished, Checked, Replacing
  <2>6. NobodyPastDwell'
    BY <1>0, <2>1, <2>4 DEF NobodyPastDwell, Dwelling
  <2>7. FrontendRecoverable' /\ \A u \in Starter : FrontendOf(u)'
    BY <1>0, <2>1, <2>2, <2>3, <2>4 DEF FrontendInv, FrontendRecoverable, FrontendOf, Brought,
       ParkedWhole, Empty
  <2>8. ~setting.crashes => NeverMixed'
    BY <1>0, <2>1, <2>2, <2>3, <2>4 DEF FrontendInv, NeverMixed, IsWhole, Merged, Empty
  <2> QED
    BY <2>2, <2>5, <2>6, <2>7, <2>8 DEF FilesInv, FrontendInv
<1>4. CASE Restart
  <2>1. /\ UNCHANGED <<setting, exe, bin, live, parked>>
        /\ \A s \in Starter : /\ task'[s].page = "none"
                              /\ task'[s].pc = IF task[s].pc = "none" THEN "none" ELSE "over"
    BY <1>4 DEF Restart, NoTask, files, web
  <2>2. BinaryInv'
    BY <1>0, <2>1 DEF BinaryInv, ExecutableIsPublished, HoldsPublished, Checked, Replacing
  <2>3. NobodyPastDwell'
    BY <2>1 DEF NobodyPastDwell, Dwelling
  <2>4. FrontendRecoverable' /\ \A u \in Starter : FrontendOf(u)'
    BY <1>0, <2>1 DEF FrontendInv, FrontendRecoverable, FrontendOf, Empty
  <2>5. ASSUME ~setting.crashes
        PROVE  NeverMixed'
    <3>1. Dwelling
      BY <1>4, <2>5 DEF Restart
    <3>2. \A s \in Starter : task[s].pc \notin {"dist_park", "dist_bring"}
      BY <1>0, <3>1 DEF NobodyPastDwell
    <3>3. IsWhole(live) /\ \A u \in Starter : parked[u] = Empty
      BY <1>0, <2>5, <3>2 DEF FrontendInv, NeverMixed
    <3> QED
      BY <2>1, <3>3 DEF NeverMixed, IsWhole, Empty
  <2> QED
    BY <2>1, <2>2, <2>3, <2>4, <2>5 DEF FilesInv, FrontendInv
<1>5. \/ UNCHANGED <<setting, task, files>>
      \/ \E s \in Starter : TaskStep(s) \/ StartSpawns(s)
      \/ Restart
  BY DEF UpgradeNext, upgradeVars, CheckStep, CheckUpgrade, CheckMarks, CheckReturns,
     CheckerHangsUp, StartStep, StartUpgrade, StartRefused, StarterHangsUp, CacheExpires, files, web
<1> QED
  BY <1>1, <1>2, <1>3, <1>4, <1>5

(* For any numbers of requests, chunks and files, wherever the process     *)
(* dies and whichever one file operation fails: the executable is a binary *)
(* that matched its published checksum, a complete frontend can be put     *)
(* together from what is served and what is parked, and a process that     *)
(* never died serves one complete frontend between upgrades.               *)
THEOREM InstallationStaysWhole ==
  ASSUME NoStartBesideCheck, MaxFaults <= 1
  PROVE  UpgradeSpec => []InstallationSurvives
<1>1. UpgradeInit => JobInv /\ FilesInv
  BY JobStarts, FilesStart
<1>2. JobInv /\ FilesInv /\ [UpgradeNext]_upgradeVars => (JobInv /\ FilesInv)'
  BY JobInvIsInductive, FilesInvIsInductive
<1>3. FilesInv => InstallationSurvives
  BY DEF FilesInv, BinaryInv, FrontendInv, NeverMixed, IsWhole, InstallationSurvives,
     FrontendWholeAtRest
<1> QED
  BY <1>1, <1>2, <1>3, PTL DEF UpgradeSpec
=============================================================================
