# Formal models of the table server

This project keeps TLA+ models of `cmd_and_ctrl` beside its code: a web server
at which people (and bots) play Commander.  The models cover the part of the
server that carries every table whatever the cards are: how a play becomes a
state, how a state is taken back, how it survives a restart and how it reaches
the browsers; how a bot keeps its seat moving, how a seat passes from its player
to a bot and back, and how tables come, go and come back.  TLC checks each model on a small table; TLAPS proves the
properties that matter most for tables and histories of any size.

Paths below are relative to `src/server/internal/` unless they say otherwise.

## 1. The system

| Component | State it keeps | Operations | Talks to |
| --- | --- | --- | --- |
| **Room** (`ws/room.go`, `ws/loop_replay.go`) | the game, `seq`, the undo ring, the loop recording | `Apply`, `ApplyAction`, `ApplyBundle`, `ApplyExternal`, `ApplyExternalClearingUndo`, `Undo`/`UndoBy`, automatic answers, loop replay, `Snapshot`, `Subscribe` | the engine (under its lock), restore points, subscribers |
| **Restore points** (`ws/restore_rate.go`, `ws/persist.go`, `ws/manager.go`) | the pending capture, the timer and its token, the gate, `restore/<id>.json`, `games/<id>.json`, `replays/<id>.jsonl` | note, arm, flush, publish, remove, delete, unload, boot restore, deferred restore | room, disk, lobby, `cmd/server/main.go` |
| **Hub** (`ws/hub.go`) | the clients, their send channels, `closed`, the pump count | `ServeWS`, `admit`, `unregister`, `handleFrame`, `broadcastToRoom`, `sendRaw`, the evictions, `Shutdown` | rooms, browsers, lobby |
| **Presence** (`ws/presence.go`) | who is connected, whose tab is hidden | `RefreshPresence`, `visibility` frames | hub, room |
| **Away and idle seats** (`ws/away.go`, `lobby/away.go`, `lobby/idle.go`) | which seats a bot stands in for: the entry, the room's mark, the row | `AnswerAway` (wait, concede, hand over), `TakeBack`, `SetStandIn`, the idle sweep | hub, lobby, bots |
| **Browser connection** (`src/client/src/lib/ws.ts`) | socket, `highestSeq`, `generation` | dial, accept a frame, reconnect | hub |
| **Bot seats** (`aiseat/runner.go`, `aiseat/manager.go`) | a runner per seat, its wake, its context; the manager's maps | `Start`, `step`, `decide`, `apply`, `StartStandIn`, `StopStandIn`, `StopBots` | room, hub |
| **Lobby tables** (`lobby/lobby.go`, `persist.go`, `unresident.go`, `restore_*.go`, `capacity.go`) | entries, reservations, rows in the database | create, archive, unload, delete, boot, deferred restore | rooms, store, hub, bots |
| **Rematch and pods** (`lobby/rematch.go`) | an offer to play again, for minutes | offer, accept, decline, watch | lobby, hub |
| **Engine** (`game/`, `actions/`, `cards/`) | the game | every rule and card | called under the room's lock |
| Accounts, decks, notifications, pods, metrics, Discord, legal | mostly the database | requests, one at a time | store, external services |

A play travels so.  A read pump (or a bot, or an HTTP handler) takes the room's
lock, runs the engine, pushes an undo entry, lets the engine's standing
answers run as commits of their own, captures the state (new `seq`, crash dump,
replay line, restore point pending or written) and gives the lock back.  Only
then does it take the hub's lock for reading and send the frame to each client,
and last it acks the play to its own connection.  The restore point's timer, the
reaper of a deleted table, a deferred restore, evictions and the shutdown run
beside all that.  After the lock is given back the commit also wakes the bots'
runners, through a channel of one that is written without blocking.

A table exists in four places, written one after the other: a room in the
`RoomManager`, a row in the database, an entry in the lobby, a restore point on
disk.  The lobby's lock covers its entries; a restore pass registers rooms and reads
rows without it, and a create writes the row without it.  A seat's player is told in
four places too: the entry, the room's mark, the row, and the runner that plays,
which is started and stopped after the lobby's lock is released.

What is hard, and why a test hardly reaches it:

* **Concurrency.**  Nothing holds both the room's lock and the hub's, so between a
  commit and its frame anything may happen: another commit and its frame, a client
  coming or going, the deletion of the table.  The reaper and the end of the process
  take no room lock at all.  What starts and stops runners runs outside the lobby's
  lock, and what restores tables mostly does.
* **Failure.**  A write or a removal fails; the process dies between a commit and
  its write, or twice before the next one; a row is not written, or not deleted, and the
  code only logs it.
* **Ordering.**  Frames of one table race each other and the first snapshot of a
  new connection; a timer that has fired races the flush that made it pointless.
* **Long sequences.**  What an undo may do depends on entries pushed, demoted,
  dropped, popped and cleared over dozens of commits, and an undo rewinds some
  parts of the game (budgets) and not others (settings).

What makes each component correct:

* Room: an undo takes back exactly the newest play, its caller's own; a removed
  seat stays out; the frame tells the truth about undo; budgets hold.
* Restore points: the newest clean state is on disk or about to be; nothing older
  replaces it, nothing revives a deleted or an ended table; a restart is visible
  to clients.
* Hub: no connection is left on an old state; acks follow states; channels are
  open when sent on; a shutdown ends.
* Bots: no wake is lost, no seat the table waits for stays asleep, no runner outlives its
  game.
* Seats: the first answer to an away offer counts; the room refuses the player exactly
  while the lobby says a bot plays; then a bot does play.
* Tables: the load stays under its cap and reservations return; nothing live is replaced by
  its older self, nothing deleted comes back, nothing that waits on disk is lost.

## 2. Modules

| Module | Models | Used by |
| --- | --- | --- |
| `RoomUndo` | the room's commits, automatic answers, loop replay, undo | `RoomUndoHistory`, `MCRoomUndo` |
| `RoomUndoHistory` | the same with history variables (undos charged, the prompt last taken back), composed action by action | `MCRoomUndoHistory` |
| `Timeline` | **abstract specification**: what undo promises of a table's history | `RoomUndo` (refinement) |
| `DurableTable` | **abstract specification**: what restore points promise of a table | `RestorePoint` (refinement) |
| `RestorePoint` | the restore point of one table, its writers, the reaper, shutdown, crash, boot | `MCRestorePoint` |
| `Delivery` | hub and browsers: handshake, broadcasts, send channels, evictions, shutdown | `MCDelivery` |
| `BotRunner` | a bot seat's runner: subscription, wake, its whole loop, refusals, the loop notice | `MCBotRunner` |
| `StandIn` | one person's seat: answers to the away offer, hand-over, take-back, archive, restart, undo, the stand-in's runners | `MCStandIn` |
| `LobbyTables` | tables: create, archive, unload, delete, boot and hot restore under the load cap | `MCLobbyTables` |
| `*_proofs` | theorems and their proofs | |

Every `MC` module only adds the values its configurations need.  Definitions
marked *Mutant* are deliberately wrong variants of the definition below them; no
specification uses them; they exist so that each property can be seen to fail
when the code has the bug in question.

### RoomUndo

The game is what undo can tell apart (`Game`): the line of commits that led to
it, the open prompts with a standing answer, which prompts are to be answered by
hand, the budgets, whether it has ended, the loop recording.  `ring` is
`Room.undoStack`, newest last, each entry with its caller, its clone (or
`NoClone`), why it cannot be undone, whether it is free.  `phase` says whether the lock
is free or a commit is still running its automatic answers (`Settle` gives the lock
back), which are separate steps because each captures a frame of its own.
`shown` is the latest frame, with the `UndoBlocked` stamp.

`Apply`, `ResolveChoice`, `ApplyBundle`, `ApplyExternal`, `SetUndoLimit`,
`RemoveSeat`, `AutoAnswer`, `AutoAnswerFails`, `AskByHand`, `ReplayLoop`, `ReplayStops` and
`Undo` are the room's operations of those names, with their guards and early returns.
What a card does is an *effect*: it ends the game, reveals a secret vote, opens
prompts or begins a turn; a configuration picks the effects it needs.  Which prompts
`NextAutoAnswer` leaves for the player (no mana, an empty library, a loop notice) is
the engine's to say, so `AskByHand` may mark any prompt it comes to.

`Timeline` is the same table without ring, clones, budgets, stamps or prompts: a line of commits
and the plays of it that can be taken back (`open`).  A play opens itself and pushes the oldest of
`Depth` out; a bot's own move and the removal of a seat close all of them; an external commit
changes nothing; taking back cuts the line at the newest.  `RoomUndo` maps `open` to
`Reachable(ring)`, the entries above the highest barrier, and every room operation to one of
these steps or none (a prompt marked for its player, the release of the lock, a refused undo).
The promise is ADR 0194's: "a bot's move is never taken back, by anyone, and nothing before it can
be reached", and "undo only goes back 8 actions".

### RestorePoint

One action is what a goroutine does between two points where another can see it.
`Commit` is everything `captureLocked` does under the lock up to the file
operation, which is the `job` it then owes: `Publish` (with `restoreGate.publish`) or
`RemoveRestorePoint`, each of which may fail when `DiskFaults`.  The timer is
armed, fires (`TimerFires`) and later gets the lock (`TimerRuns`), by when its token
may be stale.  The reaper is three steps that take no lock: out of the map
(`Unregister`), `CloseGate`, `RemoveFiles`.  A shutdown is `Sigterm`, a flush,
`Quiesce` (hub and bots), a second flush, `Exit`; a `Crash` may come anywhere.  A
boot restores the file, leaves it (over the cap, or unreadable) or removes it; a
deferred restore is `HotRestore`.

`best`, `lost` and `stuck` are ghost variables: the newest clean state, whether a
write, or a removal, failed since.  A capture is *clean* when the code's `Restorable`
accepts it: no continuation is pending.

### Delivery

A state is its `seq` within one restore generation.  `job[p]` is what a read pump
or caller is in the middle of: it has committed (room lock released), is sending (the
hub's lock held for reading, `todo` the clients not yet sent to), is about to ack, or
about to reply.  `phase[c]` follows a connection from `ServeWS` staging its first
snapshot, through `admit` and the catch-up, to its pumps running and gone.  A spectator
evicted before its catch-up was staged has a closed channel, and the send panics in the request's own goroutine, where
`net/http` recovers it: the connection is then `"aborted"`, and its two pumps stay counted though
they never start.  The same send in a read pump (`Reply`) ends the process (`panicked`).  What needs
the hub's lock for writing waits for `Unlocked`.  A closed channel is one whose
connection was admitted and is no longer among `clients`.

`EvictSeat` stands for every eviction that closes sockets and leaves the rest to
the read pumps (`EvictGame`, `EvictUserSessions`, `RebindUserSessions` have its
shape); `EvictSpectator` unregisters by itself.  `RefreshPresence` broadcasts the
current state again.  The write pump and the network are one step (`Deliver`), as
both keep the order of the channel.  Some steps of one goroutine are merged where no
other step can fall between them with a different outcome: `EvictSpectator`'s
look, unregister and close; `unregister` and `conn.Close` of a read pump.

### BotRunner

`runner[b]` is the goroutine `Runner.loop` of a bot seat: where it is, what it saw, the move
it is about to send, and the two counters of a `step`, its actions and its refusals in a row.
`subs` and `wake` are `Room.subs` and the channels of capacity one; `writer` the people (and the
lobby) that have committed and not yet run `notify`.  A state of the game is reduced to what a
runner distinguishes: the `Window` it offers each bot seat (nothing; a pass; an answer that
cannot be refused; moves it may decline; another seat's turn to play), whether a loop notice stands and is a mandatory one,
whether the game is active.  Any commit, a bot's own included, may bring any other state, and
that includes commits between a decision and its sending: a decision is then stale, and may be
refused.  `fresh[b]` is observed: the runner has enumerated the newest state.

The actions are the branches of `step` in order: `OutOfActions`, `Leave` (the game is over),
`Look` (enumerate; park when there is nothing), `Declines`, `Decides`, `Holds` (the loop notice: a pass unless it is mandatory, an activation of
the permanent it names in any case),
`Improvises`, `Concedes`, `StackMovedOn` (`holdForStack`), `Accepted`, `Refused`,
`PlaysForAnother` (`playWith`), and `Notifies`, which every commit ends with.  It is assumed that
the engine does not refuse a pass or an always-legal answer in the very state it was offered in;
that is what `forcedAnswer` relies on too.  The cancelling of a runner is in `StandIn`.

### StandIn

One seat of one table.  `entry`, `mark` and `row` are the three records of who plays it;
`runner`, `cancelled` and `standIns` the goroutines, their contexts and the manager's map.  A request
goes through the stages of `AnswerAway` (under `answerMu`): `BeginAnswer`, `FindMovable` or
`Refuse`, then `AnswerWait`, `AnswerConcede` or the hand-over, which is `MarkSeat`, `HandOver` (under
the lobby's lock), `StopStandIn`, `StartRunner`, `RegisterRunner` (the thunk, after it).  A
`TakeBack` is `PressTakeBack`, `StopStandIn`, `FinishTakeBack`; an archiving `Archive`, `StopStandIn`,
`BotsStopped`; an unarchive and a boot (`Restart`) start the runner the entry names.  A runner
looks at its context between decisions only (`Chooses`, `Exits`), never between choosing a move
and sending it (`Commits`, `Concedes`, `Refused`).  A start that finds no tier or no policy is logged and no
more (`StartFails`).

The game goes on beside all that: `OthersPlay` may end it or the seat's part in it, and the runner leaves
a game that is over.  `past` is what the ring's clones say of the seat's elimination, so that `Undo` can bring the game
and the seat back: the seat's own caller before the end, the admin after it (`ws/room.go:826`).  Only a concession
at the away offer empties the ring.  `answered`, `rewound` and `unserved` are observed: an answer took effect in this
absence; an undo was taken since the process began; the last start of a runner that was due did not come about.

### LobbyTables

`row`, `file`, `room`, `entry` are the four places.  `creating[t]` follows the request that creates
`t`, `pass` the one restore pass there can be (`restoreMu`), `mu` what is between two steps under the
lobby's lock.  Creates are `BeginCreate` (reserve, room), `WriteRow`, `FailCreate` or `Publish`;
deletions `BeginDelete`/`FinishDelete` of a table with an entry, in that order files then rows, and
`BeginDeleteUnresident`/`FinishDeleteUnresident` of a row without one, rows then files; the
idle sweep's unload `BeginUnload`/`FinishUnload`.  A pass, the boot's when `~serving`, is `ReadFiles`,
`Admit` (first-fit; the hot pass reserves), `Rebuild` per file, `LoadEntry`/`FailLoad` and `Adopt` per
room, and `EndPass`, which in a boot closes the rows nothing came back for.  A `Crash` may come at any
step, and the next binary may read the files differently (`verdict`).

Abstractions: a table keeps its weight (people who join are never refused and are not counted); `exempt`
holds the live tables whose weight nobody asked the cap for (an unarchive, a row that said ended); ended
games are `RestorePoint`'s; the directory is listed in one step; the order of admission is data, so any
first-fit choice may come out; the reads of rows at the admission, and the boot's closing of rows,
succeed.

## 3. Runs

| Run | Configuration | Question | Bounds |
| --- | --- | --- | --- |
| `undo` | `RoomUndoTable` | The ring's shape; who may undo; what the frame says; what an undo does to a prompt; refinement of `Timeline` | 2 people with standing answers, 1 bot; ring of 3, 2 clones deep; 3 commits on the line; 2 automatic answers per commit |
| `restore` | `RestorePoint` | Every interleaving of commits, timer, reaper, shutdown, crashes; refinement of `DurableTable`; a held-back capture is written | 4 commits, 2 restarts, disk faults, fairness |
| `delivery_table` | `DeliveryTable` | Newest state on its way, acks, open channels, drained shutdown | 2 tabs, 2 connections, 1 bot, channel of 2, 2 commits |
| `delivery_shown` | `DeliveryShown` | Every commit is shown or the socket closes | 1 connection, 1 bot, 3 commits, a presence frame or a reply, fairness |
| `bot_wake` | `BotWake` | No wake lost, no seat asleep, no runner left behind | 1 bot, 2 writers, 3 actions per wake, 2 refusals, fairness |
| `standin` | `StandInAnswers` | First answer, mark and entry, a marked seat is played | 2 deciders, 1 press, 1 admin, 3 runners; any number of plays and undos (3.0 million states) |
| `tables` | `LobbyTables` | Cap, reservations, races of passes with creates and deletions, boots | 2 tables, one of half the cap and one of all of it |
| `undo_budget`, `restore_generation`, `delivery_panic`, `standin_taken`, `tables_deleted` | | expected to fail: section 5 | |

The properties, in words:

* `ClonesOnTop`: the ring keeps to its cap, and clones to the newest
  entries, within the shallower depth.  `RingShadowsLine`: entry by entry, the
  ring lists the newest plays of the line; so an undo always restores the state right
  before the play it names.
* `StampTellsTheTruth`: `undo_blocked` in the last frame is what `undo` would
  answer now.  `LoopQuietWhenFree`: between commits no loop replay is left half done,
  and no recording survives an undo.
* `SeatRewindsOnlyItsOwn`, `RemovedSeatStaysOut`, `UndoneStaysByHand`: see the
  comments in the modules.
* `KeepsTimeline`: every step of the room is a step of `Timeline` or changes nothing in it.  The ring
  keeps clones by position and drops entries at another cap than clones; a bot's entry is pushed
  without a clone instead of emptying the ring; that the outcome is the last `SnapshotDepth` plays
  since the last thing that is final takes all of this together.
* `NewestCleanIsHeld`: whenever the room's lock is free, the newest clean state is
  pending or is the file.  With `PendingHasTimer` and `PendingIsWritten`, it gets there.
  `FileNeverGoesBack`, `EndedNeverComesBackLive`, `DeletedStaysDeleted`,
  `WritesAreSpaced` and `ShutdownLosesNothing` are what the comments of
  `restore_rate.go` and `main.go` ask for.
* `KeepsDurableTable`: under the mapping of `Durable` in `RestorePoint`, every step
  is a step of the abstract specification or changes nothing in it.
* `NewestIsOnItsWay`: for every running, open connection the newest state has been
  shown, is in its channel, or is in a broadcast that will reach it.  It is what
  the pre-stage, the look-back after `admit` and the disconnecting of slow clients are
  for, together.
* `AckComesAfterItsState`, `BroadcastsReachOpenChannels`, `WaitedForEveryPump`,
  `EveryCommitIsShown`: see the comments in `Delivery`.
* `NoLostWake`: a runner that sleeps, with no wake in its channel and none on its way, has looked
  at the newest state.  `AWaitedSeatMoves`: a seat that may pass or has a safe answer comes to
  look, and moves, whatever is refused meanwhile; while a loop notice stands nothing is said of it, as
  the runner may then hold what its policy chose, under a mandatory notice too (section 5).  `RunnersEnd`: so does every runner of a game
  that is over, which needs the notify of the commit that ended it.
* `FirstAnswerWins`: the second of two answers in one absence changes nothing.  `MarkIsRecorded`: outside
  a hand-over the room's mark and the lobby's entry agree.  `MarkedSeatIsPlayed`: with no request under
  way, a seat refused to its player, in an open table in play, has a runner that was not told to stop.  Two cases are
  exempt, and said so in the property: the registered runner left a game that was over or a seat it had
  conceded, and an undo came (`LeftTooEarly`, which ADR 0057 accepts); and the last start that was due came to nothing
  (`unserved`: no tier, no policy, or a game that was over at the unarchive or the boot).
* `LoadFits`, `ReservationsReturn`: through creates and a hot pass that overlap.
  `LiveRoomIsNotReplaced`, `RaceLeavesNothing`, `NoBootBringsBackDeleted`: a pass against creates and
  deletions.  `NothingIsLostWaiting`: a table that waits on disk is still there at the boot that has room.

**Why the bounds are enough.**  The ring is one longer than its band of clones, and the line, with the automatic
answers of its last commit, grows two longer than the ring, so demotion, dropping the oldest entry and undoing past both
happen, and an automatic answer can be taken back with the play under it.  Four commits give a pending capture, a newer one replacing it, a stale timer
and one more; two restarts give a restart before the first write of the one before.
Two connections of two tabs give an old and a new socket of the same tab, a channel of
2 overflows with three frames, and two commits are enough for broadcasts to overlap.
Three actions and two refusals give a runner that is refused, forced and out of actions in one
wake; a runner does not see another's actions but as commits, which the writers are, and the proof of
`NoLostWake` is for any number of bots.  Two deciders and a press give every order of two answers and a
take-back; a third runner lets a hand-over start one while the last is being stopped.  Two tables that
fit each but not together give every deferral; a third would only wait as the second does, and the
theorems are for any number.  Caps in the code are 32 entries, 8 clones, 16 frames, 64 actions, 3
refusals; the models take them as constants and the proofs hold for all.  All bounds (`MaxLine`, `MaxAutoAnswers`, `MaxCommits`,
`MaxBoots`, `MaxSeq`, `MaxExtra`, the number of `Conns`) are guards, never part of a
property.  `CHECK_DEADLOCK` is off because a behaviour really ends: when a bound is used up, when
the game is over and its runners gone (`BotRunner`, `StandIn`), or when every table is deleted
(`LobbyTables`).

**Fairness.**  `restore` assumes that the timer fires, a file operation returns,
and that a fired timer that keeps finding the lock free gets it (strong
fairness: Go's mutex hands over to a starving waiter).  Commits, crashes, the reaper
and boots need never happen.  `delivery_shown` assumes running goroutines proceed, a write
pump writes while its socket is up, and strong fairness for `Admit`: a waiting writer of a
Go `RWMutex` keeps new readers out.  Nothing is assumed of the people at the table or of
the network staying up: a tab may drop at any time, and the property then holds
because the socket is closed.  `bot_wake` assumes that goroutines are scheduled: a writer that has
committed notifies, a runner that can take a step takes one.  People never need to commit, and no
particular branch of a runner is fair: a policy may choose badly for ever, and it is the limit on
refusals that moves the seat on.

## 4. Proofs

| Theorem | Module |
| --- | --- |
| `TypeCorrect`, `ClonesOnTopAlways`, `RingShadowsLineAlways`, `SeatRewindsOnlyItsOwnAlways`, `RemovedSeatStaysOutAlways`, `LoopQuietWhenFreeAlways`, `StampTellsTheTruthAlways`, `UndoneStaysByHandAlways`, `RefinesTimeline`, `StandsForGoodAlways` | `RoomUndo_proofs` |
| `TypeCorrect`, `PendingHasTimerAlways`, `NewestCleanIsHeldAlways`, `EndedNeverComesBackLiveAlways`, `DeletedStaysDeletedAlways`, `FileNeverGoesBackAlways`, `ShutdownLosesNothingAlways`, `WritesAreSpacedAlways`, `RefinesDurableTable` | `RestorePoint_proofs` |
| `SavedIsCleanAlways` | `DurableTable_proofs` |
| `TypeCorrect`, `NewestIsOnItsWayAlways`, `AckComesAfterItsStateAlways`, `BroadcastsReachOpenChannelsAlways`, `WaitedForEveryPumpAlways` | `Delivery_proofs` |
| `TypeCorrect`, `NoLostWakeAlways` | `BotRunner_proofs` |
| `TypeCorrect`, `MarkIsRecordedAlways`, `FirstAnswerWinsAlways`, `MarkedSeatIsPlayedAlways` | `StandIn_proofs` |
| `LiveRoomIsNotReplacedAlways`, `RaceLeavesNothingAlways`, `NoBootBringsBackDeletedAlways`, `NothingIsLostWaitingAlways` | `LobbyTables_proofs` |
| `TypeCorrect`, `LoadFitsAlways`, `ReservationsReturnAlways` | `LobbyLoad_proofs` |

They assume only the named ASSUMEs of the modules: natural numbers for caps and
bounds, booleans for flags, finitely many tables, `None` and its kin distinct from what they stand
beside.  One theorem has a hypothesis of its own, `UnarchivesApart` in `StandIn_proofs`, explained below.

*RoomUndo.*  `ClonesOnTop` is not inductive: it says nothing of the clones of a game
that an undo is about to restore.  The invariant is `RingShadowsLine` strengthened
to relate each entry's clone to the line before its play (a clone's line is a prefix of
the next one's), so that popping an entry and restoring its clone leaves a ring that
again lists the newest plays.  Lemmas about pushing onto and demoting within a
bounded sequence come first; each action then needs only what it does to ring and line.
A second invariant on top of it (`SInv`) gives the other three: every clone that can be restored sits as the
game does, because a removal empties the ring (`Agrees`); while the room is free the frame is the one
of the game and ring as they are, or, after an undo that failed half-way, that of a longer line (`Honest`).

`UndoneStaysByHand` is about `RoomUndoHistory`, whose steps are the room's (`HistoryAddsNoStep`): a
history variable holds the prompt that was taken back last; it is always among the game's
`byHand` (`Marked`), which a commit only extends and an undo marks in what it restores.

`RefinesTimeline` takes the same two invariants.  `HighestBarrierIs` says by what the highest barrier is
known, and from there each operation of the ring is followed: a push without a barrier adds a play
to `Reachable` and loses the oldest exactly when there were `SnapshotDepth` (`PushReaches`; that
the barrier which demotion leaves is the highest needs `ClonesOnTop`), a bot's push hides all
(`PushHides`), a pop is a `TakeBack` (`PopReaches`, with the clone's line from `RingShadowsLine`),
and clearing the ring hides all as well.  `StandsForGoodAlways` is then a consequence of the abstract step
alone: what lies before the oldest open play is never within reach again.

*RestorePoint.*  The invariant says where the newest clean state is at every point
of a commit, not only when the lock is free: pending, in the `job` being written,
or on disk; that every id seen anywhere is at most that of the latest commit, pending
newer than file; that a closed gate leaves no job that can still write.  The
safety theorems follow from it by propositional steps.  The refinement proof takes the same
invariant: a commit is `Play`, a successful `Publish` is `Save`, the removal of an ended
or deleted table's file is `GiveUp` or `Discard`, the end of the process is `Stop`, a
restore is `Restart`, and everything else stutters.  `WritesAreSpaced` needs besides (`Spaced`) that no timer
that fired is newer than the one armed last, and that the interval has run when that one fired
while it is still armed: a stopped timer that runs late finds itself out of date.

*Delivery.*  `NewestIsOnItsWay` speaks of running connections only; the invariant adds
what the earlier stages of a handshake hold: a staged or admitted connection has its
staged snapshot in its channel, a catching one has the newest state in its hand, in its
channel, or in a broadcast that is still to come.  `AckComesAfterItsState` needs, in the
middle of a commit's broadcast, that the committer is still among those to be sent to or
has been, which in turn needs that a player's connection stays registered while its read
pump is busy (only spectators are unregistered by others, and they commit nothing).
Lemmas about the channels (`Kept`, `Arrived`, `Delivered`) say that appending or
reading a frame loses no state that was sent; one lemma per action follows.

*BotRunner.*  `NoLostWake` speaks of parked runners.  Inductively, a runner that will rest on what it
saw (deciding, sending, parked, or looking again) has seen the newest state, or a wake is in its
channel or on its way (`WokenOrFresh`); for a commit to owe it that wake it must be
subscribed from before its first look until it ends (`Subscribed`).

*StandIn.*  `OneAnswer`: a request in the middle of an answer holds `answerMu`.  `Marked`: the mark
differs from the entry only under the lobby's lock, in the hand-over that holds it.  `Unanswered`: an
answered absence shows it (a snooze, an entry, an elimination), and a request that got past
`movable` found that it was not; `FirstAnswerWins` is that last clause.  The elimination has to be one that no
undo takes back (`Gone`): a concession leaves no clone from before it in the ring.
`MarkedSeatIsPlayed` needs to know who is about to do what.  A runner serves the seat (`Engaged`) if it runs and was
not told to stop, or if it has left for a reason that stands or has been undone (`MayLeave`, which every step but a restart
keeps).  Only runners that run are told to stop (`Running`); one that was started and is not registered yet is known to
its request alone, so it serves (`Started`); a request that is closing the table
keeps it archived until it has stopped the bots (`Closing`); and a marked seat of an open table has a runner that
serves it, or a request that is about to start, register or take it away, or its last start came to nothing
(`Served`).  `Closing` is kept only if no
unarchive comes between an archiving and the end of its `StopBots`: `UnarchivesApart`, of steps and not of the
constants.  The code does not see to that, and the property is false without it: one admin archives, another
unarchives and starts the runner again, and the first one's `StopBots`, late, stops that one.  With one admin,
as in the run, the hypothesis always holds; with more it excludes that race only, which section 5 lists.

*LobbyTables.*  The invariant places every table: not on disk, in the lobby or in a pass before its create
is through (`Created`); in at most one stage of a pass, without an entry, and without a room
until it is rebuilt (`Stages`, `Absent`); half deleted with either its row or all the rest gone
(`HalfDeleted`); deleted with at most a room that a pass is about to find no row for (`Gone`), and in
a boot not even that, since a boot is alone (`BootIsAlone`).  `Accounted` says that a boot's pass
knows every restore point it could read, which is why closing the other rows loses nothing.

*LobbyLoad.*  A second invariant on top of the one of `LobbyTables_proofs`: what is reserved is the weight of the
tables being created plus what the pass holds, and the pass of a server that takes creates holds the
weight of all it has still to bring back (`Booked`); what counts, what is admitted and what is being
created fit the cap together (`Fitting`); the types the other invariant can do without (`Others`).
`LoadFits` follows, and so does that `reserved` is a natural number, since it is never given back
twice.  A table moves through the pass from one set to the next, so most steps are `TakesNothingOn`: nothing
new counts.  `Cost` is a sum over a set and no induction is at hand, so its lemmas (`CostUnfolds`, `CostWithout`,
`CostGrows`, `CostTogether`) are proved by the smallest counterexample: the subsets of a finite set are well
ordered by inclusion, a set of bad ones has a minimal member, and taking one table out of it
gives a smaller one.  That is where the tables have to be finitely many.

Not proved, only model-checked: liveness under fairness (`PendingIsWritten`, `EveryCommitIsShown`,
`AWaitedSeatMoves`, `RunnersEnd`), which is out of the prover's reach.  Every other property of a run that
passes is a theorem.

## 5. Where code and documents disagree

* `undo_budget` (`ws/room.go:881`): an undo restores the *budgets* with the game, so a
  deeper undo refunds what shallower ones cost; a seat is charged more undos
  in a turn than its limit.
* `restore_generation` (`ws/persist.go:70`): the generation is raised in memory; two
  restarts before the next restore point give one generation to two histories, and
  a browser ignores the second until its `seq` passes what it saw.
* `delivery_panic` (`ws/hub.go:2005`): `EvictSpectator` closes a channel that the victim's
  own read pump may be about to send on (a reply to a ping, a legal-moves request, a refused action).  That pump is a
  goroutine of the server's own (`ws/hub.go:667-670`), so the panic ends the process and every table with it.
* `standin_taken` (`lobby/away.go:524`): a hand-over's runner starts after the lobby's lock is released.
  A take-back in between finds none to stop; the runner then plays a seat that is its player's again.
* `tables_deleted` (`lobby/lobby.go:748`): a table deleted between its row and its entry, in a create or in a
  restore, is put in the lobby afterwards.

Seen while modelling and kept out of the runs:

* `docs/lobby.md:1175` says a limit of 0 turns undo off; because of `undo_budget`'s cause,
  an admin's undo brings older budgets back under it.
* A second undo restores a clone from before the first one's `asked_by_hand` mark, so
  that mark is gone with it.
* `ws/hub.go:1175` says broadcasts are monotonic; they overlap, and `Delivery` shows frames
  queued out of order.  The browser drops the late ones, which is why
  `NewestIsOnItsWay` holds all the same.
* `UndoScope` (`docs/lobby.md:1176`) is stored and shown; `Room.undo` does not read it.
* `writeFileAtomic` renames without syncing, and a crash leaves its temporary file.

Undo and restore:

* The undo budget is peeked at on the live game (`ws/room.go:858`) and spent on the restored one.  When
  that has none, `undo` returns an error with the game rewound, the entry popped, no frame and no
  wake for the bots; `ws/room.go:846` says it is never half-applied.  `StampTellsTheTruth` exempts exactly
  this case.
* The gate guards the restore point only (`ws/manager.go:160`): a commit in flight writes the crash dump
  and the replay of a deleted table again.

Hub and presence:

* A connection authorised before a removal is admitted after it (`ws/hub.go:624`; the evictions look at
  the registered clients only).
* A spectator removed between `admit` and the catch-up of `ServeWS` makes that send panic too, in the
  request's own goroutine, which `net/http` recovers.  The pumps counted by `admit` then never start, so a later
  `Shutdown` waits for them until its deadline.
* The stand-in gate is asked before the room's lock is taken (`ws/hub.go:1203`): a hand-over in between
  lets one more action of the player through.
* Presence is stamped before the clients are ranged over (`ws/hub.go:859`): two frames of one `seq` may be
  sent in the other order, and the older presence stays until the next change.

Bots and seats:

* For another seat's decision (a controlled turn, an attack target) a runner parks after
  `MaxConsecutiveRejects` without trying a safe answer; `AWaitedSeatMoves` says nothing of that window.
* Under a mandatory loop notice a seat whose policy keeps choosing an activation of the permanent it names
  parks with its pass window open (`aiseat/runner.go:698-704`), though `runner.go:670-675` wants no bot-only
  table left at rest.  `AWaitedSeatMoves` says nothing of seats under a notice.
* An admin's undo past the end of a game does not bring its runners back (ADR 0057 says so), and neither does one
  that takes a policy's concession back; a marked seat then waits for a restart, a take-back or an unarchive.
* A stand-in whose tier or policy cannot be had is logged and not started (`aiseat/manager.go:369-383`), after the
  hand-over was recorded and the runner before it stopped: the seat is refused to its player and nobody plays it.
  `MarkedSeatIsPlayed` exempts this case and the one before it, by name.
* An archive and an unarchive of two admins that overlap can leave a marked seat without a runner: the
  stop of the first comes after the start of the second.  `MarkedSeatIsPlayed` is checked with one admin.

Tables:

* An entry is made of a row read before the lobby's lock is taken (`lobby/persist.go:426`): an archiving
  of that row in between is lost.
* A store error in `loadEntry`, however short, deletes the restore point for good
  (`lobby/persist.go:409`), whereas `rowRetired` takes the same error for "not retired".
* A row that says ended, whose restore point a later boot can read, comes back live without having
  asked the cap (hence `exempt`).
* A row whose deletion failed stays in the list until the next boot closes it.

Rematch (read, not modelled):

* `AcceptRematch` marks the seat as having answered and unlocks to seat it (`lobby/rematch.go:587`); a
  decline or the watcher may close the offer meanwhile, and a failed seating leaves the seat undecided in a
  closed offer.

## 6. Not modelled

* The rules engine and the cards: sequential under the room's lock, and a subject of its
  own.  What interacts with the room (budgets, prompts, turns, ends) is in `RoomUndo`; what it offers a
  bot is a `Window` in `BotRunner`.  They are most of the repository's lines, which is why the share of them that
  these modules map is small.
* In the room: the failure of a marshal, the stamps other than `undo_blocked`, playmats and
  voice, the contents of the replay.
* In restore points: schema versions beyond the three verdicts, the scrubbing of quarantined files.
* In the hub: the connection cap, origins, chat and error wording, rate limits; what presence says; the
  stand-in gate (see section 5).
* In bots: policies, pacing, `StartBots` with several runners per table.  In seats: who may decide, the
  clocks and warnings of the idle sweep.
* In the lobby: joins, starts, invites, bot seats, reclaims, weights that change.
* Rematch and pods: offers that live for minutes and whose loss costs a click.
* Accounts, decks, notifications, metrics, Discord: single requests to a database or service.

## 7. What comes next

In this order:

1. The stand-in gate as a step of its own, composed of `Delivery`'s read pump and `StandIn`'s mark, for what a
   player can still do after a hand-over.
2. Presence in `Delivery`: what every tab shows once all has settled.
3. `LobbyTables`: joins and weights that change; a second admin in `StandIn` once archive and unarchive
   are serialised in the code.
4. `Rematch`: offer, accept, decline, watcher and seating.
5. Proofs: an abstract specification of a seat (whose turn it is to play it) that `StandIn` implements, and one of a
   table's life (open, waiting on disk, gone) that `LobbyTables` does; the safety part of what each liveness property
   rests on, such as that a runner which has to move always has a step to take.

A module is written, checked, broken by its mutants, and only then proved.
