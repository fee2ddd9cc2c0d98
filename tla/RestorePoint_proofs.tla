------------------------- MODULE RestorePoint_proofs -------------------------
(***************************************************************************)
(* What holds of every table's restore point, whatever the rate limit, the *)
(* disk's faults and the number of commits and restarts; and that it keeps *)
(* what DurableTable promises.                                             *)
(***************************************************************************)
EXTENDS RestorePoint, TLAPS

USE NoneAssumption, FlagAssumption

(* Nothing of a table is in memory while its room is not.                  *)
EmptyWhileUnloaded ==
    /\ ~loaded => pending = None /\ job = None
    /\ proc = "down" => ~loaded

(* What is captured or written is clean, and in the order of the commits.  *)
InOrder ==
    /\ state.id <= n
    /\ best # None => best.clean /\ best.id <= state.id
    /\ file # None => file.state.clean /\ file.state.id <= n
    /\ loaded /\ ~GateClosed /\ best # None /\ file # None => file.state.id <= best.id

(* Where the newest clean state of a table is, the lock held or not.       *)
Held ==
    loaded /\ ~GateClosed =>
       /\ pending # None => pending.state = best /\ ~state.ended /\ ~pending.state.ended
       /\ job \notin {None, Remove} =>
             /\ job.state = best
             /\ pending = None
             /\ state.ended <=> job.state.ended
       /\ job = Remove => state.ended /\ pending = None /\ (best = None \/ lost)
       /\ job = None =>
             /\ pending = None /\ best # None /\ ~lost => file # None /\ file.state = best
             /\ best = None /\ ~stuck => file = None
             /\ state.ended /\ ~stuck => (file # None => file.state.ended)

FlushedWhenDone == proc = "done" /\ Registered => pending = None

IInv ==
    /\ TypeOK
    /\ PendingHasTimer
    /\ EmptyWhileUnloaded
    /\ InOrder
    /\ Held
    /\ FlushedWhenDone
    /\ DeletedStaysDeleted

LEMMA IInvInit == Init => IInv
<1> SUFFICES ASSUME Init PROVE IInv
  OBVIOUS
<1> USE DEF Init
<1>1. TypeOK
  BY DEF TypeOK, Up, TableState
<1>2. PendingHasTimer /\ EmptyWhileUnloaded /\ FlushedWhenDone /\ DeletedStaysDeleted
  BY DEF PendingHasTimer, EmptyWhileUnloaded, FlushedWhenDone, DeletedStaysDeleted
<1>3. InOrder /\ Held
  BY DEF InOrder, Held
<1> QED BY <1>1, <1>2, <1>3 DEF IInv

(* A pending or owed capture is a capture.                                 *)
LEMMA CaptureType ==
    ASSUME TypeOK
    PROVE  /\ pending # None => pending \in Capture /\ pending.state \in TableState
           /\ job \notin {None, Remove} => job \in Capture /\ job.state \in TableState
           /\ file # None => file \in RestoreFile /\ file.state \in TableState
           /\ best # None => best \in TableState
  BY DEF TypeOK, Capture, RestoreFile

LEMMA FileOfType ==
    ASSUME TypeOK, NEW p \in Capture
    PROVE  FileOf(p) \in RestoreFile /\ FileOf(p) # None /\ FileOf(p).state = p.state
  BY DEF TypeOK, FileOf, Capture, RestoreFile

LEMMA CommitStep ==
    ASSUME IInv, NEW ended \in BOOLEAN, NEW clean \in BOOLEAN, Commit(ended, clean)
    PROVE  IInv'
<1> DEFINE p == [state |-> state', seq |-> seq']
<1>1. /\ state' = [id |-> n + 1, ended |-> ended, clean |-> clean]
      /\ state' \in TableState /\ p \in Capture /\ p.state = state' /\ p \notin {None, Remove}
      /\ seq' \in Nat /\ n' = n + 1 /\ n' \in Nat
  BY DEF Commit, IInv, TypeOK, TableState, Capture
<1>2. /\ proc' = proc /\ boots' = boots /\ loaded' = loaded /\ reap' = reap
      /\ gen' = gen /\ file' = file /\ lost' = lost /\ stuck' = stuck /\ dump' = TRUE
      /\ loaded /\ job = None /\ proc \in {"up", "stopping", "flushed"}
  BY DEF Commit, process, LockFree
<1> USE DEF GateClosed
<1>3. CASE GateClosed
  <2>1. UNCHANGED <<rate, job, best>>
    BY <1>3 DEF Commit
  <2>2. TypeOK'
    BY <1>1, <1>2, <2>1 DEF IInv, TypeOK, rate
  <2>3. InOrder'
    BY <1>1, <1>2, <1>3, <2>1, CaptureType DEF IInv, InOrder, TypeOK, TableState
  <2> QED
    BY <1>1, <1>2, <1>3, <2>1, <2>2, <2>3
       DEF IInv, PendingHasTimer, EmptyWhileUnloaded, Held, FlushedWhenDone, Registered,
           DeletedStaysDeleted, rate
<1>4. CASE ~GateClosed /\ ~clean /\ ~ended
  <2>1. UNCHANGED <<rate, job, best>>
    BY <1>1, <1>4 DEF Commit, Restorable, NoteUnclean
  <2>2. TypeOK'
    BY <1>1, <1>2, <2>1 DEF IInv, TypeOK, rate
  <2>3. InOrder'
    BY <1>1, <1>2, <2>1, CaptureType DEF IInv, InOrder, TypeOK, TableState
  <2>4. Held'
    BY <1>1, <1>2, <1>4, <2>1 DEF IInv, Held, rate
  <2> QED
    BY <1>1, <1>2, <2>1, <2>2, <2>3, <2>4
       DEF IInv, PendingHasTimer, EmptyWhileUnloaded, FlushedWhenDone, Registered,
           DeletedStaysDeleted, rate
<1>5. CASE ~GateClosed /\ ~clean /\ ended
  <2>1. /\ pending' = None /\ timer' = FALSE /\ job' = Remove /\ best' = None
        /\ tok' = tok /\ fired' = fired /\ due' = due
    BY <1>1, <1>5 DEF Commit, Restorable, NoteUnclean
  <2>2. TypeOK'
    BY <1>1, <1>2, <2>1 DEF IInv, TypeOK
  <2>3. InOrder'
    BY <1>1, <1>2, <2>1, CaptureType DEF IInv, InOrder, TypeOK, TableState
  <2>4. Held'
    BY <1>1, <1>2, <1>5, <2>1 DEF Held
  <2> QED
    BY <1>1, <1>2, <2>1, <2>2, <2>3, <2>4
       DEF IInv, PendingHasTimer, EmptyWhileUnloaded, FlushedWhenDone, Registered,
           DeletedStaysDeleted
<1>6. CASE ~GateClosed /\ clean
  <2>1. NoteClean(p)
    BY <1>1, <1>6 DEF Commit, Restorable
  <2>2. best' = state'
    BY <1>1, <2>1 DEF NoteClean
  <2>3. \/ /\ timer' = FALSE /\ pending' = None /\ job' = p
           /\ due' \in BOOLEAN /\ tok' = tok /\ fired' = fired
        \/ /\ ~p.state.ended
           /\ timer' = TRUE /\ pending' = p /\ job' = job
           /\ due' = due /\ tok' \in {tok, tok + 1} /\ fired' = fired
    BY <1>1, <2>1 DEF NoteClean, BeginFlush, NewPending, ArmTimer
  <2>4. TypeOK'
    <3>1. /\ timer' \in BOOLEAN /\ due' \in BOOLEAN /\ tok' \in Nat /\ fired' \subseteq Nat
          /\ pending' \in Capture \cup {None} /\ job' \in Capture \cup {None, Remove}
      <4>1. /\ timer' \in BOOLEAN /\ due' \in BOOLEAN /\ fired' = fired
            /\ tok' \in {tok, tok + 1} /\ pending' \in {p, None} /\ job' \in {p, job}
        <5> HIDE DEF p
        <5> QED BY <2>3 DEF IInv, TypeOK
      <4> HIDE DEF p
      <4> QED BY <1>1, <4>1 DEF IInv, TypeOK
    <3> QED BY <1>1, <1>2, <2>2, <3>1 DEF IInv, TypeOK
  <2>5. InOrder'
    <3>1. n \in Nat /\ (file # None => file.state.clean /\ file.state.id <= n /\ file.state.id \in Nat)
      BY CaptureType DEF IInv, InOrder, TypeOK, TableState
    <3>2. best' # None /\ best'.clean /\ best'.id = n + 1 /\ state'.id = n + 1
      BY <1>1, <1>6, <2>2
    <3>3. file' = file /\ n' = n + 1
      BY <1>1, <1>2
    <3>4. /\ state'.id <= n'
          /\ best' # None => best'.clean /\ best'.id <= state'.id
          /\ file' # None => file'.state.clean /\ file'.state.id <= n'
          /\ best' # None /\ file' # None => file'.state.id <= best'.id
      BY <3>1, <3>2, <3>3
    <3> QED BY <3>4 DEF InOrder
  <2>6. Held'
    <3>1. best' = p.state /\ best' # None /\ p.state.ended = state'.ended
      BY <1>1, <2>2
    <3> HIDE DEF p
    <3> QED BY <1>1, <1>2, <2>3, <3>1 DEF Held
  <2> QED
    BY <1>1, <1>2, <2>2, <2>3, <2>4, <2>5, <2>6
       DEF IInv, PendingHasTimer, EmptyWhileUnloaded, FlushedWhenDone, Registered,
           DeletedStaysDeleted
<1> QED BY <1>3, <1>4, <1>5, <1>6

LEMMA PublishStep ==
    ASSUME IInv, NEW ok \in BOOLEAN, Publish(ok)
    PROVE  IInv'
<1>1. /\ job \notin {None, Remove} /\ job \in Capture /\ job.state \in TableState
      /\ UNCHANGED <<process, table, rate, dump, best>>
  BY CaptureType DEF Publish, IInv
<1>2. loaded
  BY <1>1 DEF IInv, EmptyWhileUnloaded
<1> USE DEF process, table, rate
<1>3. CASE GateClosed
  <2>1. job' = None /\ UNCHANGED <<file, lost, stuck>>
    BY <1>3 DEF Publish, Publishable
  <2> QED
    BY <1>1, <1>2, <1>3, <2>1
       DEF IInv, TypeOK, PendingHasTimer, EmptyWhileUnloaded, InOrder, Held, FlushedWhenDone,
           Registered, DeletedStaysDeleted, GateClosed
<1>4. CASE ~GateClosed /\ ok
  <2>1. job' = None /\ file' = FileOf(job) /\ lost' = FALSE /\ stuck' = FALSE
    BY <1>4 DEF Publish, Publishable
  <2>2. file' \in RestoreFile /\ file' # None /\ file'.state = best /\ best # None
    BY <1>1, <1>2, <1>4, <2>1, FileOfType DEF IInv, Held
  <2>3. TypeOK'
    BY <1>1, <2>1, <2>2 DEF IInv, TypeOK
  <2>4. InOrder'
    BY <1>1, <2>1, <2>2, CaptureType DEF IInv, InOrder, TypeOK, TableState, GateClosed
  <2>5. Held'
    BY <1>1, <1>2, <1>4, <2>1, <2>2 DEF IInv, Held, GateClosed
  <2> QED
    BY <1>1, <1>2, <1>4, <2>1, <2>3, <2>4, <2>5
       DEF IInv, PendingHasTimer, EmptyWhileUnloaded, FlushedWhenDone, Registered,
           DeletedStaysDeleted, GateClosed
<1>5. CASE ~GateClosed /\ ~ok
  <2>1. /\ job' = (IF job.state.ended THEN Remove ELSE None)
        /\ lost' = TRUE /\ file' = file /\ stuck' = stuck
    BY <1>5 DEF Publish, Publishable, OwedAfterFailure
  <2>2. job' \in {None, Remove}
    BY <2>1
  <2>3. /\ job.state = best /\ pending = None /\ best # None
        /\ state.ended <=> job.state.ended
    BY <1>1, <1>2, <1>5 DEF IInv, Held
  <2>4. TypeOK'
    BY <1>1, <2>1, <2>2 DEF IInv, TypeOK
  <2>5. InOrder'
    BY <1>1, <2>1 DEF IInv, InOrder, GateClosed
  <2>6. Held'
    BY <1>1, <1>2, <2>1, <2>3 DEF Held, GateClosed
  <2> QED
    BY <1>1, <1>2, <2>1, <2>4, <2>5, <2>6
       DEF IInv, PendingHasTimer, EmptyWhileUnloaded, FlushedWhenDone, Registered,
           DeletedStaysDeleted
<1> QED BY <1>3, <1>4, <1>5

LEMMA RemoveStep ==
    ASSUME IInv, NEW ok \in BOOLEAN, RemoveRestorePoint(ok)
    PROVE  IInv'
<1>1. /\ job = Remove /\ job' = None /\ file' = (IF ok THEN None ELSE file) /\ stuck' = ~ok
      /\ UNCHANGED <<process, table, rate, dump, best, lost>>
  BY DEF RemoveRestorePoint
<1>2. loaded /\ (~GateClosed => state.ended /\ pending = None /\ (best = None \/ lost))
  BY <1>1 DEF IInv, EmptyWhileUnloaded, Held
<1> QED
  BY <1>1, <1>2
     DEF IInv, TypeOK, PendingHasTimer, EmptyWhileUnloaded, InOrder, Held, FlushedWhenDone,
         Registered, DeletedStaysDeleted, GateClosed, process, table, rate

(* Once the lock is taken, the flush of what is pending.                   *)
LEMMA FlushStep ==
    ASSUME IInv, LockFree, BeginFlush(pending), tok' = tok, fired' \subseteq fired,
           proc' \in Up, boots' = boots, loaded' = loaded, reap' = reap,
           UNCHANGED <<table, disk, ghosts>>
    PROVE  IInv'
<1>1. /\ loaded /\ job = None /\ timer' = FALSE /\ pending' = None /\ job' = pending
      /\ due' \in BOOLEAN
  BY DEF LockFree, BeginFlush, IInv, TypeOK
<1>2. TypeOK'
  BY <1>1 DEF IInv, TypeOK, table, disk, ghosts
<1>3. Held'
  BY <1>1, CaptureType DEF IInv, Held, GateClosed, table, disk, ghosts, Capture
<1> QED
  BY <1>1, <1>2, <1>3
     DEF IInv, PendingHasTimer, EmptyWhileUnloaded, InOrder, FlushedWhenDone, Registered,
         DeletedStaysDeleted, GateClosed, table, disk, ghosts, Up

LEMMA TimerStep ==
    ASSUME IInv, NEW t \in fired, TimerRuns(t)
    PROVE  IInv'
<1>1. /\ LockFree /\ fired' = fired \ {t} /\ UNCHANGED <<process, table, tok, disk, ghosts>>
      /\ proc \in Up
  BY DEF TimerRuns, LockFree
<1>2. CASE ~Current(t)
  <2>1. TypeOK'
    BY <1>1, <1>2 DEF TimerRuns, IInv, TypeOK, process, table, disk, ghosts
  <2>2. PendingHasTimer' /\ EmptyWhileUnloaded' /\ FlushedWhenDone' /\ DeletedStaysDeleted'
    BY <1>1, <1>2
       DEF IInv, PendingHasTimer, EmptyWhileUnloaded, FlushedWhenDone, Registered,
           DeletedStaysDeleted, GateClosed, TimerRuns, process, table, disk, ghosts
  <2>3. InOrder'
    BY <1>1, <1>2 DEF IInv, InOrder, GateClosed, TimerRuns, process, table, disk, ghosts
  <2>4. Held'
    BY <1>1, <1>2 DEF IInv, Held, GateClosed, TimerRuns, process, table, disk, ghosts
  <2> QED BY <2>1, <2>2, <2>3, <2>4 DEF IInv
<1>3. CASE Current(t) /\ GateClosed
  <2>1. TypeOK'
    BY <1>1, <1>3 DEF TimerRuns, IInv, TypeOK, process, table, disk, ghosts
  <2>2. PendingHasTimer' /\ EmptyWhileUnloaded' /\ FlushedWhenDone' /\ DeletedStaysDeleted'
    BY <1>1, <1>3
       DEF IInv, PendingHasTimer, EmptyWhileUnloaded, FlushedWhenDone, Registered,
           DeletedStaysDeleted, GateClosed, TimerRuns, process, table, disk, ghosts
  <2>3. InOrder'
    BY <1>1, <1>3 DEF IInv, InOrder, GateClosed, TimerRuns, process, table, disk, ghosts
  <2>4. Held'
    BY <1>1, <1>3 DEF IInv, Held, GateClosed, TimerRuns, process, table, disk, ghosts
  <2> QED BY <2>1, <2>2, <2>3, <2>4 DEF IInv
<1>4. CASE Current(t) /\ ~GateClosed
  <2>1. BeginFlush(pending)
    BY <1>4 DEF TimerRuns
  <2> QED BY <1>1, <2>1, FlushStep DEF process
<1> QED BY <1>2, <1>3, <1>4

LEMMA ShutdownFlushStep ==
    ASSUME IInv, NEW from \in Up, NEW to \in Up, ShutdownFlush(from, to),
           to = "done" \/ to = "flushed"
    PROVE  IInv'
<1>1. proc = from /\ proc' = to /\ UNCHANGED <<boots, loaded, reap, table, disk, ghosts>>
  BY DEF ShutdownFlush
<1>2. CASE Registered
  <2>1. LockFree /\ BeginFlush(pending) /\ tok' = tok /\ fired' = fired
    BY <1>2 DEF ShutdownFlush
  <2> QED BY <1>1, <2>1, FlushStep
<1>3. CASE ~Registered
  <2>1. TypeOK'
    BY <1>1, <1>3 DEF ShutdownFlush, IInv, TypeOK, Up, table, rate, disk, ghosts
  <2>2. PendingHasTimer' /\ EmptyWhileUnloaded' /\ FlushedWhenDone' /\ DeletedStaysDeleted'
    BY <1>1, <1>3
       DEF IInv, PendingHasTimer, EmptyWhileUnloaded, FlushedWhenDone, Registered,
           DeletedStaysDeleted, GateClosed, ShutdownFlush, table, rate, disk, ghosts
  <2>3. InOrder'
    BY <1>1, <1>3 DEF IInv, InOrder, GateClosed, ShutdownFlush, table, rate, disk, ghosts
  <2>4. Held'
    BY <1>1, <1>3 DEF IInv, Held, GateClosed, ShutdownFlush, table, rate, disk, ghosts
  <2> QED BY <2>1, <2>2, <2>3, <2>4 DEF IInv
<1> QED BY <1>2, <1>3

LEMMA VanishStep ==
    ASSUME IInv, proc \in Up, Vanish
    PROVE  IInv'
  BY DEF Vanish, IInv, TypeOK, PendingHasTimer, EmptyWhileUnloaded, InOrder, Held,
         FlushedWhenDone, Registered, DeletedStaysDeleted, GateClosed, Up,
         table, disk, ghosts

LEMMA LoadStep ==
    ASSUME IInv, ~loaded, file # None, reap = "none", LoadRoom, reap' = reap, n' = n,
           proc' = "up", boots' \in Nat, UNCHANGED <<rate, job, disk>>
    PROVE  IInv'
<1>1. /\ loaded' = TRUE /\ state' = file.state /\ seq' = file.seq /\ gen' = file.gen + 1
      /\ best' = file.state /\ lost' = FALSE /\ stuck' = FALSE
      /\ pending = None /\ job = None
  BY DEF LoadRoom, IInv, EmptyWhileUnloaded
<1>2. /\ file.state \in TableState /\ file.seq \in Nat /\ file.gen \in Nat
      /\ file.state.clean /\ file.state.id <= n /\ file.state.id \in Nat
  BY DEF IInv, TypeOK, RestoreFile, TableState, InOrder
<1>3. TypeOK'
  <2>1. /\ state' \in TableState /\ seq' \in Nat /\ gen' \in Nat /\ best' \in TableState
    BY <1>1, <1>2
  <2>2. proc' \in Up /\ loaded' \in BOOLEAN /\ lost' \in BOOLEAN /\ stuck' \in BOOLEAN
    BY <1>1 DEF Up
  <2> QED BY <2>1, <2>2 DEF IInv, TypeOK, rate, disk
<1>4. InOrder'
  BY <1>1, <1>2 DEF InOrder, disk
<1>5. Held'
  BY <1>1, <1>2 DEF Held, rate, disk
<1> QED
  BY <1>1, <1>3, <1>4, <1>5
     DEF IInv, PendingHasTimer, EmptyWhileUnloaded, FlushedWhenDone, Registered,
         DeletedStaysDeleted, rate, disk

LEMMA IInvStep == IInv /\ [Next]_vars => IInv'
<1> SUFFICES ASSUME IInv, [Next]_vars PROVE IInv'
  OBVIOUS
<1>1. Outcomes \subseteq BOOLEAN
  BY DEF Outcomes
<1>2. ASSUME IntervalPasses PROVE IInv'
  <2>1. TypeOK'
    BY <1>2 DEF IntervalPasses, IInv, TypeOK, process, table, disk, ghosts
  <2>2. PendingHasTimer' /\ EmptyWhileUnloaded' /\ FlushedWhenDone' /\ DeletedStaysDeleted'
    BY <1>2
       DEF IInv, PendingHasTimer, EmptyWhileUnloaded, FlushedWhenDone, Registered,
           DeletedStaysDeleted, GateClosed, IntervalPasses, process, table, disk, ghosts
  <2>3. InOrder'
    BY <1>2 DEF IInv, InOrder, GateClosed, IntervalPasses, process, table, disk, ghosts
  <2>4. Held'
    BY <1>2 DEF IInv, Held, GateClosed, IntervalPasses, process, table, disk, ghosts
  <2> QED BY <2>1, <2>2, <2>3, <2>4 DEF IInv
<1>3. ASSUME TimerFires PROVE IInv'
  <2>1. TypeOK'
    BY <1>3 DEF TimerFires, IInv, TypeOK, process, table, disk, ghosts
  <2>2. PendingHasTimer' /\ EmptyWhileUnloaded' /\ FlushedWhenDone' /\ DeletedStaysDeleted'
    BY <1>3
       DEF IInv, PendingHasTimer, EmptyWhileUnloaded, FlushedWhenDone, Registered,
           DeletedStaysDeleted, GateClosed, TimerFires, process, table, disk, ghosts
  <2>3. InOrder'
    BY <1>3 DEF IInv, InOrder, GateClosed, TimerFires, process, table, disk, ghosts
  <2>4. Held'
    BY <1>3 DEF IInv, Held, GateClosed, TimerFires, process, table, disk, ghosts
  <2> QED BY <2>1, <2>2, <2>3, <2>4 DEF IInv
<1>4. ASSUME Unregister PROVE IInv'
  <2>1. TypeOK'
    BY <1>4 DEF Unregister, IInv, TypeOK, table, rate, disk, ghosts
  <2>2. PendingHasTimer' /\ EmptyWhileUnloaded' /\ FlushedWhenDone' /\ DeletedStaysDeleted'
    BY <1>4
       DEF IInv, PendingHasTimer, EmptyWhileUnloaded, FlushedWhenDone, Registered,
           DeletedStaysDeleted, GateClosed, Unregister, table, rate, disk, ghosts
  <2>3. InOrder'
    BY <1>4 DEF IInv, InOrder, GateClosed, Registered, Unregister, table, rate, disk, ghosts
  <2>4. Held'
    BY <1>4 DEF IInv, Held, GateClosed, Registered, Unregister, table, rate, disk, ghosts
  <2> QED BY <2>1, <2>2, <2>3, <2>4 DEF IInv
<1>13. ASSUME CloseGate PROVE IInv'
  <2>1. TypeOK'
    BY <1>13 DEF CloseGate, IInv, TypeOK, table, rate, disk, ghosts
  <2>2. PendingHasTimer' /\ EmptyWhileUnloaded' /\ FlushedWhenDone' /\ DeletedStaysDeleted'
    BY <1>13
       DEF IInv, PendingHasTimer, EmptyWhileUnloaded, FlushedWhenDone, Registered,
           DeletedStaysDeleted, GateClosed, CloseGate, table, rate, disk, ghosts
  <2>3. InOrder'
    BY <1>13 DEF IInv, InOrder, GateClosed, CloseGate, table, rate, disk, ghosts
  <2>4. Held'
    BY <1>13 DEF IInv, Held, GateClosed, CloseGate, table, rate, disk, ghosts
  <2> QED BY <2>1, <2>2, <2>3, <2>4 DEF IInv
<1>5. ASSUME NEW ok \in BOOLEAN, RemoveFiles(ok) PROVE IInv'
  <2>1. TypeOK'
    BY <1>5 DEF RemoveFiles, IInv, TypeOK, table, rate, disk
  <2>2. PendingHasTimer' /\ EmptyWhileUnloaded' /\ FlushedWhenDone' /\ DeletedStaysDeleted'
    BY <1>5
       DEF IInv, PendingHasTimer, EmptyWhileUnloaded, FlushedWhenDone, Registered,
           DeletedStaysDeleted, GateClosed, RemoveFiles, table, rate, disk
  <2>3. InOrder'
    BY <1>5 DEF IInv, InOrder, GateClosed, RemoveFiles, table, rate, disk
  <2>4. Held'
    BY <1>5 DEF IInv, Held, GateClosed, RemoveFiles, table, rate, disk
  <2> QED BY <2>1, <2>2, <2>3, <2>4 DEF IInv
<1>6. ASSUME Sigterm \/ Quiesce PROVE IInv'
  <2>1. TypeOK'
    BY <1>6 DEF Sigterm, Quiesce, IInv, TypeOK, Up, table, rate, disk, ghosts
  <2>2. PendingHasTimer' /\ EmptyWhileUnloaded' /\ FlushedWhenDone' /\ DeletedStaysDeleted'
    BY <1>6
       DEF IInv, PendingHasTimer, EmptyWhileUnloaded, FlushedWhenDone, Registered,
           DeletedStaysDeleted, GateClosed, Sigterm, Quiesce, table, rate, disk, ghosts
  <2>3. InOrder'
    BY <1>6 DEF IInv, InOrder, GateClosed, Sigterm, Quiesce, table, rate, disk, ghosts
  <2>4. Held'
    BY <1>6 DEF IInv, Held, GateClosed, Sigterm, Quiesce, table, rate, disk, ghosts
  <2> QED BY <2>1, <2>2, <2>3, <2>4 DEF IInv
<1>7. ASSUME Crash \/ Exit PROVE IInv'
  BY <1>7, VanishStep DEF Crash, Exit, Up
<1>8. ASSUME BootRestores \/ HotRestore PROVE IInv'
  <2>1. /\ ~loaded /\ file # None /\ reap = "none" /\ LoadRoom /\ reap' = reap /\ n' = n
        /\ proc' = "up" /\ boots' \in Nat /\ UNCHANGED <<rate, job, disk>>
    BY <1>8 DEF BootRestores, HotRestore, Boot, IInv, TypeOK, EmptyWhileUnloaded
  <2> QED BY <2>1, LoadStep
<1>9. ASSUME BootLeavesFile PROVE IInv'
  <2>1. TypeOK'
    BY <1>9 DEF BootLeavesFile, Boot, IInv, TypeOK, Up, table, rate, disk, ghosts
  <2>2. PendingHasTimer' /\ EmptyWhileUnloaded' /\ FlushedWhenDone' /\ DeletedStaysDeleted'
    BY <1>9
       DEF IInv, PendingHasTimer, EmptyWhileUnloaded, FlushedWhenDone, Registered,
           DeletedStaysDeleted, GateClosed, BootLeavesFile, Boot, table, rate, disk, ghosts
  <2>3. InOrder'
    BY <1>9 DEF IInv, InOrder, GateClosed, BootLeavesFile, Boot, table, rate, disk, ghosts
  <2>4. Held'
    BY <1>9 DEF IInv, Held, GateClosed, BootLeavesFile, Boot, table, rate, disk, ghosts
  <2> QED BY <2>1, <2>2, <2>3, <2>4 DEF IInv
<1>10. ASSUME NEW ok \in BOOLEAN, BootRemovesFile(ok) PROVE IInv'
  <2>1. TypeOK'
    BY <1>10 DEF BootRemovesFile, Boot, IInv, TypeOK, Up, table, rate
  <2>2. PendingHasTimer' /\ EmptyWhileUnloaded' /\ FlushedWhenDone' /\ DeletedStaysDeleted'
    BY <1>10
       DEF IInv, PendingHasTimer, EmptyWhileUnloaded, FlushedWhenDone, Registered,
           DeletedStaysDeleted, GateClosed, BootRemovesFile, Boot, table, rate
  <2>3. InOrder'
    BY <1>10 DEF IInv, InOrder, GateClosed, BootRemovesFile, Boot, table, rate
  <2>4. Held'
    BY <1>10 DEF IInv, EmptyWhileUnloaded, Held, BootRemovesFile, Boot
  <2> QED BY <2>1, <2>2, <2>3, <2>4 DEF IInv
<1>11. CASE UNCHANGED vars
  <2>1. TypeOK'
    BY <1>11 DEF vars, IInv, TypeOK, process, table, rate, disk, ghosts
  <2>2. PendingHasTimer' /\ EmptyWhileUnloaded' /\ FlushedWhenDone' /\ DeletedStaysDeleted'
    BY <1>11
       DEF IInv, PendingHasTimer, EmptyWhileUnloaded, FlushedWhenDone, Registered,
           DeletedStaysDeleted, GateClosed, vars, process, table, rate, disk, ghosts
  <2>3. InOrder'
    BY <1>11 DEF IInv, InOrder, GateClosed, vars, process, table, rate, disk, ghosts
  <2>4. Held'
    BY <1>11 DEF IInv, Held, GateClosed, vars, process, table, rate, disk, ghosts
  <2> QED BY <2>1, <2>2, <2>3, <2>4 DEF IInv
<1>12. ASSUME \/ ShutdownFlush("stopping", "flushed") \/ ShutdownFlush("quiet", "done")
       PROVE  IInv'
  BY <1>12, ShutdownFlushStep DEF Up
<1> QED
  BY <1>1, <1>2, <1>3, <1>4, <1>5, <1>6, <1>7, <1>8, <1>9, <1>10, <1>11, <1>12, <1>13,
     CommitStep, PublishStep, RemoveStep, TimerStep
     DEF Next

LEMMA IInvAlways == Spec => []IInv
  BY IInvInit, IInvStep, PTL DEF Spec

-----------------------------------------------------------------------------
(* The theorems.                                                           *)

(* Every state of every table's persistence is well typed.                 *)
THEOREM TypeCorrect == Spec => []TypeOK
<1>1. IInv => TypeOK
  BY DEF IInv
<1> QED BY <1>1, IInvAlways, PTL

(* A capture is pending exactly while a timer is armed for it.             *)
THEOREM PendingHasTimerAlways == Spec => []PendingHasTimer
<1>1. IInv => PendingHasTimer
  BY DEF IInv
<1> QED BY <1>1, IInvAlways, PTL

(* The newest clean state of a running table is pending or on disk, unless *)
(* a write failed: a crash rewinds it no further.                          *)
THEOREM NewestCleanIsHeldAlways == Spec => []NewestCleanIsHeld
<1>1. IInv => NewestCleanIsHeld
  BY CaptureType DEF IInv, Held, NewestCleanIsHeld, LockFree
<1> QED BY <1>1, IInvAlways, PTL

(* What could bring an ended table back live is gone when the commit that  *)
(* ended it returns, unless the disk refused the removal.                  *)
THEOREM EndedNeverComesBackLiveAlways == Spec => []EndedNeverComesBackLive
<1>1. IInv => EndedNeverComesBackLive
  BY DEF IInv, Held, EndedNeverComesBackLive, LockFree
<1> QED BY <1>1, IInvAlways, PTL

(* Nothing writes a deleted table's restore point after the reaper.        *)
THEOREM DeletedStaysDeletedAlways == Spec => []DeletedStaysDeleted
<1>1. IInv => DeletedStaysDeleted
  BY DEF IInv
<1> QED BY <1>1, IInvAlways, PTL

(* No writer replaces the file by an older state of the table.             *)
THEOREM FileNeverGoesBackAlways == Spec => FileNeverGoesBack
<1>1. ASSUME IInv, [Next]_vars, file # None, file' # None
      PROVE  file'.state.id >= file.state.id
  <2>1. file.state.id \in Nat
    BY <1>1, CaptureType DEF IInv, TableState
  <2>2. CASE file' = file
    BY <2>1, <2>2
  <2>3. CASE file' # file
    <3>1. PICK ok \in Outcomes : Publish(ok)
      BY <1>1, <2>3
         DEF Next, vars, disk, Commit, RemoveRestorePoint, IntervalPasses, TimerFires, TimerRuns,
             Unregister, CloseGate, RemoveFiles, Crash, Vanish, Sigterm, ShutdownFlush, Quiesce,
             Exit, BootRestores, BootLeavesFile, HotRestore, BootRemovesFile
    <3>2. job \notin {None, Remove} /\ ~GateClosed /\ file' = FileOf(job)
      BY <2>3, <3>1 DEF Publish, Publishable
    <3>3. job \in Capture /\ loaded /\ job.state = best /\ best # None
      BY <1>1, <3>2, CaptureType DEF IInv, EmptyWhileUnloaded, Held
    <3>4. file'.state = best
      BY <1>1, <3>2, <3>3, FileOfType DEF IInv
    <3>5. file.state.id <= best.id /\ best.id \in Nat
      BY <1>1, <3>2, <3>3, CaptureType DEF IInv, InOrder, TableState
    <3> QED BY <2>1, <3>4, <3>5
  <2> QED BY <2>2, <2>3
<1>2. IInv /\ [Next]_vars =>
        [file # None /\ file' # None => file'.state.id >= file.state.id]_vars
  BY <1>1
<1> QED BY <1>2, IInvAlways, PTL DEF Spec, FileNeverGoesBack

(* A graceful shutdown leaves the newest clean state on disk.              *)
THEOREM ShutdownLosesNothingAlways == Spec => ShutdownLosesNothing
<1>1. IInv /\ [Next]_vars =>
        [Exit /\ Registered /\ ~lost /\ best # None =>
            file # None /\ file.state = best]_vars
  BY DEF IInv, FlushedWhenDone, Held, Exit, Registered, GateClosed
<1> QED BY <1>1, IInvAlways, PTL DEF Spec, ShutdownLosesNothing

(* A timer that has fired was armed no later than the newest, and if it is *)
(* the newest one and still armed the interval has run.                    *)
Spaced ==
    /\ \A t \in fired : t <= tok
    /\ timer /\ tok \in fired => due \/ ~RateLimited

LEMMA SpacedStep ==
    ASSUME TypeOK, Spaced, [Next]_vars
    PROVE  /\ Spaced'
           /\ job = None /\ job' \notin {None, Remove} /\ proc' = proc =>
                due \/ ~RateLimited \/ job'.state.ended
<1> DEFINE Apart == job = None /\ job' \notin {None, Remove} /\ proc' = proc =>
                      due \/ ~RateLimited \/ job'.state.ended
<1> USE DEF Spaced, process, table, rate, disk, ghosts
<1>1. tok \in Nat /\ fired \subseteq Nat /\ timer \in BOOLEAN /\ due \in BOOLEAN
  BY DEF TypeOK
<1>2. ASSUME NEW ended \in BOOLEAN, NEW clean \in BOOLEAN, Commit(ended, clean)
      PROVE  Spaced' /\ Apart
  <2>1. CASE GateClosed
    <3>1. UNCHANGED <<timer, tok, fired, due, job>>
      BY <1>2, <2>1 DEF Commit
    <3> QED BY <3>1
  <2>2. CASE ~GateClosed /\ ~Restorable(state')
    <3>1. NoteUnclean(ended)
      BY <1>2, <2>2 DEF Commit
    <3>2. /\ tok' = tok /\ fired' = fired /\ due' = due
          /\ timer' = FALSE \/ timer' = timer
          /\ job' = Remove \/ job' = job
      BY <3>1 DEF NoteUnclean
    <3> QED BY <3>2
  <2>3. CASE ~GateClosed /\ Restorable(state')
    <3> DEFINE p == [state |-> state', seq |-> seq']
    <3>1. NoteClean(p) /\ p.state = state'
      BY <1>2, <2>3 DEF Commit
    <3> HIDE DEF p
    <3>2. CASE ~RateLimited \/ p.state.ended \/ due
      <4>1. timer' = FALSE /\ job' = p /\ tok' = tok /\ fired' = fired
        BY <3>1, <3>2 DEF NoteClean, BeginFlush, NewPending
      <4> QED BY <3>2, <4>1
    <3>3. CASE ~(~RateLimited \/ p.state.ended \/ due)
      <4>1. /\ timer' = TRUE /\ tok' = (IF timer THEN tok ELSE tok + 1)
            /\ fired' = fired /\ due' = due /\ job' = job
        BY <3>1, <3>3 DEF NoteClean, ArmTimer
      <4> QED BY <1>1, <4>1
    <3> QED BY <3>2, <3>3
  <2> QED BY <2>1, <2>2, <2>3
<1>3. ASSUME NEW ok \in Outcomes, Publish(ok) \/ RemoveRestorePoint(ok) \/ RemoveFiles(ok)
                                  \/ BootRemovesFile(ok)
      PROVE  Spaced' /\ Apart
  <2>1. timer' = timer /\ tok' = tok /\ fired' = fired /\ due' = due
    BY <1>3 DEF Publish, RemoveRestorePoint, RemoveFiles, BootRemovesFile
  <2>2. job # None \/ job' = job
    BY <1>3 DEF Publish, RemoveRestorePoint, RemoveFiles, BootRemovesFile
  <2> QED BY <2>1, <2>2
<1>4. CASE IntervalPasses \/ TimerFires
  <2>1. timer' = timer /\ tok' = tok /\ job' = job
    BY <1>4 DEF IntervalPasses, TimerFires
  <2>2. due' /\ fired' \subseteq fired \cup {tok}
    BY <1>4 DEF IntervalPasses, TimerFires
  <2> QED BY <1>1, <2>1, <2>2
<1>5. ASSUME NEW t \in fired, TimerRuns(t)
      PROVE  Spaced' /\ Apart
  <2>1. tok' = tok /\ fired' \subseteq fired
    BY <1>5 DEF TimerRuns
  <2>2. CASE ~Current(t)
    BY <1>5, <2>1, <2>2 DEF TimerRuns
  <2>3. CASE Current(t)
    <3>1. timer /\ tok \in fired
      BY <2>3 DEF Current
    <3>2. timer' = FALSE
      BY <1>5, <2>3 DEF TimerRuns, BeginFlush
    <3> QED BY <2>1, <3>1, <3>2
  <2> QED BY <2>2, <2>3
<1>6. CASE Unregister \/ CloseGate \/ Sigterm \/ Quiesce
  BY <1>6 DEF Unregister, CloseGate, Sigterm, Quiesce
<1>7. CASE Crash \/ Exit
  BY <1>7 DEF Crash, Exit, Vanish
<1>8. ASSUME NEW from, NEW to, from # to, ShutdownFlush(from, to)
      PROVE  Spaced' /\ Apart
  <2>1. proc' # proc /\ tok' = tok /\ fired' = fired
    BY <1>8 DEF ShutdownFlush
  <2>2. timer' = FALSE \/ UNCHANGED <<timer, due>>
    BY <1>8 DEF ShutdownFlush, BeginFlush
  <2> QED BY <2>1, <2>2
<1>9. CASE BootRestores \/ BootLeavesFile \/ HotRestore
  BY <1>9 DEF BootRestores, BootLeavesFile, HotRestore, LoadRoom, Boot
<1>10. CASE UNCHANGED vars
  BY <1>10 DEF vars
<1> QED BY <1>2, <1>3, <1>4, <1>5, <1>6, <1>7, <1>8, <1>9, <1>10 DEF Next

(* No write of a running table comes before the interval has run since the *)
(* last, whatever timers fire late.                                        *)
THEOREM WritesAreSpacedAlways == Spec => WritesAreSpaced
<1>1. Init => Spaced
  BY DEF Init, Spaced
<1>2. IInv /\ Spaced /\ [Next]_vars => Spaced'
  BY SpacedStep DEF IInv
<1>3. IInv /\ Spaced /\ [Next]_vars =>
        [job = None /\ job' \notin {None, Remove} /\ proc' = proc =>
           due \/ ~RateLimited \/ job'.state.ended]_vars
  BY SpacedStep DEF IInv
<1> QED BY <1>1, <1>2, <1>3, IInvAlways, PTL DEF Spec, WritesAreSpaced

-----------------------------------------------------------------------------
(* The refinement: every step of a table's persistence is a step of        *)
(* DurableTable, or leaves what that speaks of alone.                      *)

Live == IF loaded /\ ~GateClosed THEN state ELSE None
Saved == IF file = None THEN None ELSE file.state

LEMMA DurableInit == Init => Durable!DInit
  BY DEF Init, Durable!DInit, GateClosed

LEMMA DurableStep == IInv /\ [Next]_vars => [Durable!DNext]_(Durable!dvars)
<1> SUFFICES ASSUME IInv, [Next]_vars
             PROVE  Durable!DNext \/ UNCHANGED <<Live, best, Saved>>
  BY DEF Durable!dvars, Live, Saved
<1>1. /\ state \in TableState /\ state.id \in Nat /\ n \in Nat /\ state.id <= n /\ state # None
      /\ proc = "down" => ~loaded
      /\ file # None => file.state \in TableState /\ file.state # None
  BY CaptureType DEF IInv, TypeOK, TableState, InOrder, EmptyWhileUnloaded
<1>2. ASSUME NEW ended \in BOOLEAN, NEW clean \in BOOLEAN, Commit(ended, clean)
      PROVE  Durable!Play \/ UNCHANGED <<Live, best, Saved>>
  <2>1. /\ loaded /\ loaded' = loaded /\ reap' = reap /\ file' = file
        /\ state' = [id |-> n + 1, ended |-> ended, clean |-> clean]
    BY <1>2 DEF Commit, LockFree, process
  <2>2. CASE GateClosed
    BY <1>2, <2>1, <2>2 DEF Commit, Live, Saved, GateClosed
  <2>3. CASE ~GateClosed
    <3>1. best' = IF clean THEN state' ELSE IF ended THEN None ELSE best
      BY <1>2, <2>1, <2>3 DEF Commit, Restorable, NoteClean, NoteUnclean
    <3>2. Live = state /\ Live' = state' /\ Saved' = Saved
      BY <2>1, <2>3 DEF Live, Saved, GateClosed
    <3>3. state' \in TableState /\ state'.id > state.id
      BY <1>1, <2>1 DEF TableState
    <3>4. state'.clean = clean /\ state'.ended = ended
      BY <2>1
    <3> QED BY <1>1, <3>1, <3>2, <3>3, <3>4 DEF Durable!Play, Durable!States, TableState, Live, Saved
  <2> QED BY <2>2, <2>3
<1>3. ASSUME NEW ok \in BOOLEAN, Publish(ok)
      PROVE  Durable!Save \/ UNCHANGED <<Live, best, Saved>>
  <2>1. /\ loaded /\ loaded' = loaded /\ reap' = reap /\ state' = state /\ best' = best
    BY <1>3 DEF Publish, process, table, IInv, EmptyWhileUnloaded
  <2>2. Live' = Live
    BY <2>1 DEF Live, GateClosed
  <2>3. CASE file' = file
    BY <2>1, <2>2, <2>3 DEF Saved
  <2>4. CASE file' # file
    <3>1. job \notin {None, Remove} /\ ~GateClosed /\ file' = FileOf(job)
      BY <1>3, <2>4 DEF Publish, Publishable
    <3>2. job \in Capture /\ job.state = best /\ best # None
      BY <2>1, <3>1, CaptureType DEF IInv, Held
    <3>3. file' # None /\ file'.state = best
      BY <3>1, <3>2, FileOfType DEF IInv
    <3>4. Saved' = best /\ Live # None
      BY <1>1, <2>1, <3>1, <3>3 DEF Saved, Live
    <3> QED BY <2>1, <2>2, <3>2, <3>4 DEF Durable!Save, Live, Saved
  <2> QED BY <2>3, <2>4
<1>4. ASSUME NEW ok \in BOOLEAN, RemoveRestorePoint(ok)
      PROVE  Durable!GiveUp \/ Durable!Discard \/ UNCHANGED <<Live, best, Saved>>
  <2>1. /\ loaded /\ loaded' = loaded /\ reap' = reap /\ state' = state /\ best' = best
        /\ job = Remove /\ file' = (IF ok THEN None ELSE file)
    BY <1>4 DEF RemoveRestorePoint, process, table, IInv, EmptyWhileUnloaded
  <2>2. Live' = Live /\ (ok => Saved' = None) /\ (~ok => Saved' = Saved)
    BY <2>1 DEF Live, Saved, GateClosed
  <2>3. CASE GateClosed
    BY <2>1, <2>2, <2>3 DEF Durable!Discard, Live, Saved
  <2>4. CASE ~GateClosed
    <3>1. state.ended /\ Live = state
      BY <2>1, <2>4 DEF IInv, Held, Live
    <3> QED BY <1>1, <2>1, <2>2, <3>1 DEF Durable!GiveUp, Live, Saved
  <2> QED BY <2>3, <2>4
<1>5. ASSUME NEW ok \in BOOLEAN, RemoveFiles(ok)
      PROVE  Durable!Discard \/ UNCHANGED <<Live, best, Saved>>
  <2>1. /\ Live = None /\ Live' = None /\ best' = best
        /\ (ok => file' = None) /\ (~ok => file' = file)
    BY <1>5 DEF RemoveFiles, Live, GateClosed, disk
  <2> QED BY <2>1 DEF Durable!Discard, Live, Saved
<1>6. ASSUME CloseGate \/ Crash \/ Exit
      PROVE  Durable!Stop
  <2>1. Live' = None /\ best' = best /\ file' = file
    BY <1>6 DEF CloseGate, Crash, Exit, Vanish, Live, GateClosed, disk, ghosts
  <2> QED BY <2>1 DEF Durable!Stop, Live, Saved
<1>7. ASSUME BootRestores \/ HotRestore
      PROVE  Durable!Restart
  <2>1. /\ ~loaded /\ file # None /\ file' = file /\ loaded' /\ reap' = "none"
        /\ state' = file.state /\ best' = file.state
    BY <1>1, <1>7 DEF BootRestores, HotRestore, Boot, LoadRoom, disk
  <2>2. Live = None /\ Live' = file.state /\ Saved = file.state /\ Saved' = Saved /\ Saved # None
    BY <1>1, <2>1 DEF Live, Saved, GateClosed
  <2> QED BY <2>1, <2>2 DEF Durable!Restart, Live, Saved
<1>8. ASSUME NEW ok \in BOOLEAN, BootRemovesFile(ok)
      PROVE  Durable!Discard \/ UNCHANGED <<Live, best, Saved>>
  <2>1. /\ Live = None /\ Live' = None /\ best' = best
        /\ (ok => file' = None) /\ (~ok => file' = file)
    BY <1>1, <1>8 DEF BootRemovesFile, Boot, Live
  <2> QED BY <2>1 DEF Durable!Discard, Live, Saved
<1>9. ASSUME \/ IntervalPasses \/ TimerFires \/ Unregister \/ Sigterm \/ Quiesce
             \/ BootLeavesFile \/ ShutdownFlush("stopping", "flushed")
             \/ ShutdownFlush("quiet", "done") \/ (\E t \in fired : TimerRuns(t))
             \/ UNCHANGED vars
      PROVE  UNCHANGED <<Live, best, Saved>>
  BY <1>9
     DEF IntervalPasses, TimerFires, Unregister, Registered, Sigterm, Quiesce, BootLeavesFile, Boot,
         ShutdownFlush, TimerRuns, vars, Live, Saved, GateClosed, process, table, disk, ghosts
<1>10. Outcomes \subseteq BOOLEAN
  BY DEF Outcomes
<1> QED
  BY <1>2, <1>3, <1>4, <1>5, <1>6, <1>7, <1>8, <1>9, <1>10 DEF Next, Durable!DNext

(* The restore points implement DurableTable: what a restart brings back   *)
(* is a clean state of the table, the newest there was when it was saved.  *)
THEOREM RefinesDurableTable == Spec => KeepsDurableTable
  BY DurableInit, DurableStep, IInvAlways, PTL DEF Spec, KeepsDurableTable, Durable!DSpec
=============================================================================
