---------------------------- MODULE RestorePoint ----------------------------
(***************************************************************************)
(* The restore point of one table: how a commit leaves a capture pending,  *)
(* when it is written (at once, by the timer, by a shutdown's two flushes), *)
(* how the reaper of a deleted table races the writers, and what a crash, a *)
(* boot and a deferred restore make of the file.                           *)
(*                                                                         *)
(* Everything a room does it does under its lock, which is held across a   *)
(* commit or flush and the file operation it owes (job).  The reaper and   *)
(* the end of the process do not wait for that lock.                       *)
(***************************************************************************)
EXTENDS Integers, FiniteSets

CONSTANTS
    None,        \* nil
    Remove,      \* the job of removing the file, where another is a capture to write
    RateLimited, \* restoreEvery > 0
    DiskFaults,  \* file operations may fail
    MaxCommits,  \* bound: commits in a behaviour
    MaxBoots     \* bound: restarts in a behaviour

ASSUME FlagAssumption == RateLimited \in BOOLEAN /\ DiskFaults \in BOOLEAN
ASSUME CountAssumption == MaxCommits \in Nat /\ MaxBoots \in Nat

(* A game's state, named by the commit that made it, which no later commit *)
(* repeats; clean says its capture is Restorable: no continuations.        *)
TableState == [id : Nat, ended : BOOLEAN, clean : BOOLEAN]
Capture == [state : TableState, seq : Nat]
RestoreFile == [state : TableState, seq : Nat, gen : Nat]

ASSUME NoneAssumption == /\ None \notin TableState \cup Capture \cup RestoreFile
                         /\ Remove \notin Capture \cup {None}

VARIABLES
    proc,     \* the process: down, up, or how far its shutdown has come
    boots,    \* restarts so far
    loaded,   \* this process holds a Room of the table
    reap,     \* how far RoomManager.Delete has come
    n,        \* the id of the latest commit
    state,    \* Room.Game
    seq,      \* Room.seq
    gen,      \* Room.generation
    pending,  \* Room.restorePending
    timer,    \* Room.restoreTimer is not nil
    tok,      \* Room.restoreTimerTok
    fired,    \* tokens of the timers that fired and wait for the lock
    due,      \* restoreEvery has passed since restoreLastWrite
    job,      \* the file operation owed under the lock: a capture to write, or Remove
    file,     \* restore/<id>.json
    dump,     \* games/<id>.json and replays/<id>.jsonl exist
    best,     \* ghost: the newest clean state, None once the table ended on another
    lost,     \* ghost: a write failed and none has succeeded since
    stuck     \* ghost: a removal failed, and the file is the one it was to remove

process == <<proc, boots, loaded, reap>>
table == <<n, state, seq, gen>>
rate == <<pending, timer, tok, fired, due>>
disk == <<file, dump>>
ghosts == <<best, lost, stuck>>
vars == <<process, table, rate, job, disk, ghosts>>

Up == {"up", "stopping", "flushed", "quiet", "done"}
LockFree == proc \in Up /\ loaded /\ job = None
GateClosed == reap \in {"gated", "reaped"}
Registered == loaded /\ reap = "none"
Outcomes == IF DiskFaults THEN BOOLEAN ELSE {TRUE}

-----------------------------------------------------------------------------
Init ==
    /\ proc = "up" /\ boots = 0 /\ loaded = TRUE /\ reap = "none"
    /\ n = 0 /\ seq = 0 /\ gen = 0
    /\ state = [id |-> 0, ended |-> FALSE, clean |-> FALSE]
    /\ pending = None /\ timer = FALSE /\ tok = 0 /\ fired = {} /\ due = TRUE
    /\ job = None
    /\ file = None /\ dump = FALSE
    /\ best = None /\ lost = FALSE /\ stuck = FALSE

(* Mutant: the capture stays pending while it is written.                  *)
BeginFlushKeepsPending(p) == timer' = FALSE /\ pending' = p /\ job' = p /\ UNCHANGED due

(* Mutant: what is pending, and its timer, are forgotten.                  *)
BeginFlushPastPending(p) ==
    /\ job' = p
    /\ due' = IF p = None THEN due ELSE ~RateLimited
    /\ UNCHANGED <<timer, pending>>

(* flushRestorePointLocked up to the write: the timer is stopped and the   *)
(* capture leaves pending before the write, so a failed one is not retried. *)
BeginFlush(p) ==
    /\ timer' = FALSE
    /\ pending' = None
    /\ job' = p
    /\ due' = IF p = None THEN due ELSE ~RateLimited

(* armRestoreTimerLocked                                                   *)
ArmTimer ==
    /\ timer' = TRUE
    /\ tok' = IF timer THEN tok ELSE tok + 1
    /\ UNCHANGED <<fired, due>>

(* Mutant: an older capture stays pending.                                 *)
OlderPending(p) == IF pending = None THEN p ELSE pending

(* A capture replaces an older pending one.                                *)
NewPending(p) == p

(* noteRestorePointLocked of a clean state.                                *)
NoteClean(p) ==
    /\ best' = p.state
    /\ IF ~RateLimited \/ p.state.ended \/ due
         THEN BeginFlush(NewPending(p)) /\ UNCHANGED <<tok, fired>>
         ELSE pending' = NewPending(p) /\ ArmTimer /\ UNCHANGED job

(* Mutant: a capture is taken for a restore point whatever it holds.       *)
AnyRestorable(s) == TRUE

(* GameSnapshot.Restorable.                                                *)
Restorable(s) == s.clean

(* A state that is no restore point: the previous one stands, unless the   *)
(* table has ended and could come back live from it.                       *)
NoteUnclean(ended) ==
    IF ended
      THEN /\ pending' = None
           /\ timer' = FALSE
           /\ job' = Remove
           /\ best' = None
           /\ UNCHANGED <<tok, fired, due>>
      ELSE UNCHANGED <<rate, job, best>>

(* Room.Apply and its kin, and undo: the state moves on, from ended back   *)
(* to live too (an admin's undo), the dump is written and the capture      *)
(* noted.  The caller holds the room, registered or not.                   *)
Commit(ended, clean) ==
    /\ LockFree
    /\ proc \in {"up", "stopping", "flushed"}
    /\ n < MaxCommits
    /\ n' = n + 1
    /\ seq' = seq + 1
    /\ state' = [id |-> n + 1, ended |-> ended, clean |-> clean]
    /\ dump' = TRUE
    /\ IF GateClosed THEN UNCHANGED <<rate, job, best>>
       ELSE IF Restorable(state') THEN NoteClean([state |-> state', seq |-> seq'])
       ELSE NoteUnclean(ended)
    /\ UNCHANGED <<process, gen, file, lost, stuck>>

(* Mutant: publish does not look at the gate.                              *)
AlwaysPublishable == TRUE

Publishable == ~GateClosed

(* Mutant: the file is written without its generation.                     *)
FileUnnumbered(p) == p

FileOf(p) == [state |-> p.state, seq |-> p.seq, gen |-> gen]

(* Mutant: a failed write of an ended table leaves the older file.         *)
NothingOwed(p) == None

(* A failed write leaves the older file, unless the table has ended.       *)
OwedAfterFailure(p) == IF p.state.ended THEN Remove ELSE None

(* restoreGate.publish and writeFileAtomic: the whole file or none of it.  *)
Publish(ok) ==
    /\ proc \in Up
    /\ job \notin {None, Remove}
    /\ IF ~Publishable
         THEN job' = None /\ UNCHANGED <<file, lost, stuck>>
         ELSE IF ok
           THEN file' = FileOf(job) /\ job' = None /\ lost' = FALSE /\ stuck' = FALSE
           ELSE job' = OwedAfterFailure(job) /\ lost' = TRUE /\ UNCHANGED <<file, stuck>>
    /\ UNCHANGED <<process, table, rate, dump, best>>

(* Room.RemoveRestorePoint, which asks no gate.                            *)
RemoveRestorePoint(ok) ==
    /\ proc \in Up
    /\ job = Remove
    /\ job' = None
    /\ file' = IF ok THEN None ELSE file
    /\ stuck' = ~ok
    /\ UNCHANGED <<process, table, rate, dump, best, lost>>

-----------------------------------------------------------------------------
(* The timer.                                                              *)

(* Time passes: restoreEvery has run since the last write.                 *)
IntervalPasses ==
    /\ proc \in Up
    /\ loaded
    /\ ~due
    /\ due' = TRUE
    /\ UNCHANGED <<process, table, pending, timer, tok, fired, job, disk, ghosts>>

TimerFires ==
    /\ proc \in Up
    /\ timer
    /\ due
    /\ tok \notin fired
    /\ fired' = fired \cup {tok}
    /\ UNCHANGED <<process, table, pending, timer, tok, due, job, disk, ghosts>>

(* Mutant: the callback does not compare its token.                        *)
AnyToken(t) == timer

(* Mutant: it compares it with the next one.                               *)
NextToken(t) == timer /\ t = tok + 1

(* A callback whose timer was stopped, or replaced, finds a newer token or *)
(* no timer, and leaves the work to the newer one.                         *)
Current(t) == timer /\ t = tok

TimerRuns(t) ==
    /\ LockFree
    /\ t \in fired
    /\ fired' = fired \ {t}
    /\ IF ~Current(t) THEN UNCHANGED <<pending, timer, due, job>>
       ELSE IF GateClosed
         THEN timer' = FALSE /\ pending' = None /\ UNCHANGED <<due, job>>
         ELSE BeginFlush(pending)
    /\ UNCHANGED <<process, table, tok, disk, ghosts>>

-----------------------------------------------------------------------------
(* The reaper, RoomManager.Delete and Unload: no step takes the lock.      *)

Unregister ==
    /\ proc \in Up
    /\ Registered
    /\ reap' = "unregistered"
    /\ UNCHANGED <<proc, boots, loaded, table, rate, job, disk, ghosts>>

CloseGate ==
    /\ proc \in Up
    /\ reap = "unregistered"
    /\ reap' = "gated"
    /\ UNCHANGED <<proc, boots, loaded, table, rate, job, disk, ghosts>>

RemoveFiles(ok) ==
    /\ proc \in Up
    /\ reap = "gated"
    /\ reap' = "reaped"
    /\ IF ok THEN file' = None /\ dump' = FALSE /\ stuck' = FALSE
             ELSE stuck' = TRUE /\ UNCHANGED disk
    /\ UNCHANGED <<proc, boots, loaded, table, rate, job, best, lost>>

-----------------------------------------------------------------------------
(* The end of the process.                                                 *)

(* What a process takes with it.  A deletion that did not finish is not    *)
(* taken up again: the table's rows are still there.                       *)
Vanish ==
    /\ proc' = "down"
    /\ loaded' = FALSE
    /\ reap' = IF reap = "reaped" THEN reap ELSE "none"
    /\ pending' = None /\ timer' = FALSE /\ tok' = 0 /\ fired' = {} /\ due' = TRUE
    /\ job' = None
    /\ UNCHANGED <<boots, table, disk, ghosts>>

Crash == proc \in Up /\ boots < MaxBoots /\ Vanish

Sigterm ==
    /\ proc = "up"
    /\ proc' = "stopping"
    /\ UNCHANGED <<boots, loaded, reap, table, rate, job, disk, ghosts>>

(* RoomManager.FlushRestorePoints, which a shutdown runs twice.            *)
ShutdownFlush(from, to) ==
    /\ proc = from
    /\ proc' = to
    /\ IF Registered
         THEN LockFree /\ BeginFlush(pending) /\ UNCHANGED <<tok, fired>>
         ELSE UNCHANGED <<rate, job>>
    /\ UNCHANGED <<boots, loaded, reap, table, disk, ghosts>>

(* hub.Shutdown and bots.Shutdown: no socket or bot can commit any more.   *)
Quiesce ==
    /\ proc = "flushed"
    /\ proc' = "quiet"
    /\ UNCHANGED <<boots, loaded, reap, table, rate, job, disk, ghosts>>

(* Mutant: the process exits without the second flush.                     *)
ExitEarly == proc = "quiet" /\ job = None /\ boots < MaxBoots /\ Vanish

Exit == proc = "done" /\ (loaded => job = None) /\ boots < MaxBoots /\ Vanish

-----------------------------------------------------------------------------
(* A boot.                                                                 *)

(* restoreFile: a room one generation past the file's.  Its last write is  *)
(* the zero time, so its first clean commit is written at once.            *)
LoadRoom ==
    /\ loaded' = TRUE
    /\ state' = file.state
    /\ seq' = file.seq
    /\ gen' = file.gen + 1
    /\ best' = file.state /\ lost' = FALSE /\ stuck' = FALSE

Boot == proc = "down" /\ proc' = "up" /\ boots' = boots + 1

BootRestores ==
    /\ Boot
    /\ file # None
    /\ reap = "none"
    /\ LoadRoom
    /\ UNCHANGED <<reap, n, rate, job, disk>>

(* The cap has no room for the table, or this build cannot rebuild it: the *)
(* file stays.  Or there is no file.                                       *)
BootLeavesFile ==
    /\ Boot
    /\ file # None => reap = "none"
    /\ UNCHANGED <<loaded, reap, table, rate, job, disk, ghosts>>

(* RestoreDeferred: the same pass while the server runs.                   *)
HotRestore ==
    /\ proc = "up"
    /\ ~loaded
    /\ reap = "none"
    /\ file # None
    /\ LoadRoom
    /\ UNCHANGED <<proc, boots, reap, n, rate, job, disk>>

(* An ended table past its retention, or a deleted table whose file could  *)
(* not be removed (it has no rows): the file goes.                         *)
BootRemovesFile(ok) ==
    /\ Boot
    /\ file # None
    /\ file.state.ended \/ reap = "reaped"
    /\ file' = IF ok THEN None ELSE file
    /\ stuck' = ~ok
    /\ UNCHANGED <<loaded, reap, table, rate, job, dump, best, lost>>

-----------------------------------------------------------------------------
Next ==
    \/ \E ended, clean \in BOOLEAN : Commit(ended, clean)
    \/ \E ok \in Outcomes : Publish(ok)
    \/ \E ok \in Outcomes : RemoveRestorePoint(ok)
    \/ IntervalPasses
    \/ TimerFires
    \/ \E t \in fired : TimerRuns(t)
    \/ Unregister
    \/ CloseGate
    \/ \E ok \in Outcomes : RemoveFiles(ok)
    \/ Crash
    \/ Sigterm
    \/ ShutdownFlush("stopping", "flushed")
    \/ Quiesce
    \/ ShutdownFlush("quiet", "done")
    \/ Exit
    \/ BootRestores
    \/ BootLeavesFile
    \/ HotRestore
    \/ \E ok \in Outcomes : BootRemovesFile(ok)

Spec == Init /\ [][Next]_vars

(* Go's mutex is starvation-free, a timer fires, a file operation returns: *)
(* what a pending capture needs is never put off for good.  Commits, the   *)
(* reaper, crashes, shutdowns and boots need never come.                   *)
Fairness ==
    /\ WF_vars(\E ok \in Outcomes : Publish(ok))
    /\ WF_vars(\E ok \in Outcomes : RemoveRestorePoint(ok))
    /\ WF_vars(IntervalPasses)
    /\ WF_vars(TimerFires)
    /\ \A t \in 1..MaxCommits : SF_vars(TimerRuns(t))

FairSpec == Spec /\ Fairness

-----------------------------------------------------------------------------
(* Properties.                                                             *)

TypeOK ==
    /\ proc \in Up \cup {"down"}
    /\ boots \in Nat
    /\ loaded \in BOOLEAN
    /\ reap \in {"none", "unregistered", "gated", "reaped"}
    /\ n \in Nat /\ seq \in Nat /\ gen \in Nat
    /\ state \in TableState
    /\ pending \in Capture \cup {None}
    /\ timer \in BOOLEAN /\ due \in BOOLEAN
    /\ tok \in Nat /\ fired \subseteq Nat
    /\ job \in Capture \cup {None, Remove}
    /\ file \in RestoreFile \cup {None}
    /\ dump \in BOOLEAN
    /\ best \in TableState \cup {None}
    /\ lost \in BOOLEAN /\ stuck \in BOOLEAN

(* A capture is pending exactly while a timer is armed for it, whatever    *)
(* commits, flushes, late timers and the reaper do: none is forgotten, and *)
(* no timer is left to write what is gone (restore_rate.go).               *)
PendingHasTimer == pending # None <=> timer

(* The newest clean state of a running table is pending, or it is the file: *)
(* a crash rewinds it no further, unless a write failed; and a table that  *)
(* ended on a state that is not clean has no file left to come back from.  *)
NewestCleanIsHeld ==
    LockFree /\ ~GateClosed =>
       /\ pending # None => pending.state = best
       /\ pending = None /\ best # None /\ ~lost => file # None /\ file.state = best
       /\ best = None /\ ~stuck => file = None

(* Once a table has ended and the commit has returned, no restart brings   *)
(* it back live, unless the disk refused to remove its file (#2919).       *)
EndedNeverComesBackLive ==
    LockFree /\ ~GateClosed /\ state.ended /\ ~stuck =>
       pending = None /\ (file # None => file.state.ended)

(* The file is never replaced by an older state of the table, by whichever *)
(* of a commit, a timer, a flush or a boot it is written.                  *)
FileNeverGoesBack ==
    [][file # None /\ file' # None => file'.state.id >= file.state.id]_vars

(* Between two writes of a running table at least the interval passes, but *)
(* for the final state of an ended one and the flushes of a shutdown.      *)
WritesAreSpaced ==
    [][job = None /\ job' \notin {None, Remove} /\ proc' = proc =>
         due \/ ~RateLimited \/ job'.state.ended]_vars

(* Once the reaper has removed a deleted table's restore point, nothing    *)
(* writes it again: no pending capture, late timer, commit or flush.       *)
DeletedStaysDeleted == reap = "reaped" /\ ~stuck => file = None

(* A graceful shutdown leaves the newest clean state of its table on disk, *)
(* if the disk let it: the commits between its two flushes included.       *)
ShutdownLosesNothing ==
    [][Exit /\ Registered /\ ~lost /\ best # None =>
         file # None /\ file.state = best]_vars

(* A pending capture is written, or a newer one is, once the interval has  *)
(* run, unless the table is deleted, ends or the process stops.            *)
PendingIsWritten ==
    \A k \in 1..MaxCommits :
       (pending # None /\ pending.state.id = k) ~>
          \/ file # None /\ file.state.id >= k
          \/ lost \/ GateClosed \/ best = None \/ proc = "down"

(* The restore points keep what DurableTable promises.                     *)
Durable == INSTANCE DurableTable WITH
    live <- IF loaded /\ ~GateClosed THEN state ELSE None,
    clean <- best,
    saved <- IF file = None THEN None ELSE file.state

KeepsDurableTable == Durable!DSpec

(* docs/protocol.md says a room's seq is non-decreasing within one restore *)
(* generation, which every restart that restores the room increments.      *)
SeqGrowsWithinGeneration == [][gen' = gen => seq' >= seq]_vars
=============================================================================
