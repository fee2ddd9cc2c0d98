------------------------------ MODULE StandIn ------------------------------
(***************************************************************************)
(* A person's seat that the table moves on without: the answers to the     *)
(* away offer, the hand-over to a bot, the take-back, and the archiving    *)
(* and restart of the table around them, for one seat of one table.        *)
(*                                                                         *)
(* Three places say who plays the seat: the lobby's entry, the room's mark *)
(* (which refuses the person's own actions) and the row in the database.   *)
(* A fourth does it: the runner, started and stopped after the lobby's     *)
(* lock is released, and found through the bot manager's map.              *)
(*                                                                         *)
(* The game goes on beside them, and back: an undo can return it to before *)
(* the seat was conceded, and the admin's to before the game's end, by     *)
(* when the runner has gone.                                               *)
(***************************************************************************)
EXTENDS Naturals, FiniteSets

CONSTANTS
    Deciders,  \* requests that answer the away offer (AnswerAway)
    Presses,   \* requests that take the seat back (TakeBack)
    Admins,    \* requests that archive, unarchive; the boot that restores
    Runners,   \* stand-in runners of the seat
    None

Procs == Deciders \cup Presses \cup Admins

ASSUME ActorsAssumption ==
    /\ Deciders \cap Presses = {} /\ Deciders \cap Admins = {} /\ Presses \cap Admins = {}
    /\ None \notin Runners \cup Procs

VARIABLES
    active,      \* the game is in StateActive
    eliminated,  \* the seat has left the game
    past,        \* what the clones of the game in play in the undo ring say of eliminated
    archived,    \* the table is archived
    away,        \* the seat's player has been offline for the away time
    snoozed,     \* the table chose to wait for this absence
    entry,       \* SeatInfo.StandIn of the lobby's entry
    mark,        \* Room.standIns has the seat
    row,         \* the stand-in of the seat's row
    answerMu,    \* the request that holds it
    lobbyMu,     \* the hand-over in its critical section
    at,          \* where each request is
    found,       \* the runner a request stops or has started
    runner,      \* each runner: not running, between two decisions, or committed to a move
    cancelled,   \* the running ones whose context was cancelled
    standIns,    \* Manager.standIns of the seat
    answered,    \* observed: an answer took effect in this absence
    rewound,     \* observed: an undo was taken since the process began
    unserved     \* observed: the start of a runner that was due last did not come about

game == <<active, eliminated, past, rewound>>
table == <<game, archived>>
player == <<away, snoozed>>
seat == <<entry, mark, row>>
locks == <<answerMu, lobbyMu>>
bots == <<runner, cancelled, standIns, unserved>>
vars == <<table, player, seat, locks, at, found, bots, answered>>

Go(p, s) == at' = [at EXCEPT ![p] = s]

-----------------------------------------------------------------------------
Init ==
    /\ active = TRUE /\ eliminated = FALSE /\ past = {} /\ rewound = FALSE
    /\ archived = FALSE /\ away = FALSE /\ snoozed = FALSE
    /\ entry = FALSE /\ mark = FALSE /\ row = FALSE
    /\ answerMu = None /\ lobbyMu = None
    /\ at = [p \in Procs |-> "idle"]
    /\ found = [p \in Procs |-> None]
    /\ runner = [r \in Runners |-> "off"]
    /\ cancelled = {} /\ standIns = None
    /\ answered = FALSE /\ unserved = FALSE

-----------------------------------------------------------------------------
(* The player is gone for the away time, and comes back, which ends the    *)
(* absence and the wait decided for it.                                    *)
Leaves ==
    /\ ~away
    /\ away' = TRUE
    /\ UNCHANGED <<table, snoozed, seat, locks, at, found, bots, answered>>

Returns ==
    /\ away
    /\ away' = FALSE /\ snoozed' = FALSE /\ answered' = FALSE
    /\ UNCHANGED <<table, seat, locks, at, found, bots>>

SnoozeEnds ==
    /\ snoozed
    /\ snoozed' = FALSE /\ answered' = FALSE
    /\ UNCHANGED <<table, away, seat, locks, at, found, bots>>

(* Somebody at the table plays, or is removed from it: the game may end,   *)
(* the seat may leave it.  The ring has the game as it was, and may drop   *)
(* older clones, or all of them when a bot seat plays or a seat is removed. *)
OthersPlay ==
    /\ active
    /\ active' \in BOOLEAN /\ eliminated' \in {eliminated, TRUE}
    /\ past' \in SUBSET (past \cup {eliminated})
    /\ UNCHANGED <<rewound, archived, player, seat, locks, at, found, bots, answered>>

(* Undo of the newest clone, by whoever may, which past the end is the     *)
(* admin alone.  Along the line a seat that left stays out, so the newest  *)
(* clone says so if any does.  Who plays the seat is not undone.  The      *)
(* clones of a game that is over, which a change of the table's settings   *)
(* leaves there, change nothing here when they are undone.                 *)
Undo ==
    /\ past # {}
    /\ active' = TRUE /\ eliminated' = (TRUE \in past)
    /\ past' \in SUBSET past
    /\ rewound' = TRUE
    /\ UNCHANGED <<archived, player, seat, locks, at, found, bots, answered>>

-----------------------------------------------------------------------------
(* Mutant: answers are not serialised.                                     *)
BeginAnswerUnlocked(d) ==
    /\ d \in Deciders /\ at[d] = "idle"
    /\ lobbyMu = None
    /\ ~entry /\ active /\ ~archived
    /\ Go(d, "deciding")
    /\ UNCHANGED <<table, player, seat, locks, found, bots, answered>>

(* AnswerAway takes answerMu, and copies the table under the lobby's lock. *)
(* A seat a bot plays, or a table not in play, is refused.                 *)
BeginAnswer(d) ==
    /\ d \in Deciders /\ at[d] = "idle"
    /\ answerMu = None /\ lobbyMu = None
    /\ ~entry /\ active /\ ~archived
    /\ answerMu' = d
    /\ Go(d, "deciding")
    /\ UNCHANGED <<table, player, seat, lobbyMu, found, bots, answered>>

EndAnswer(d) == answerMu' = (IF answerMu = d THEN None ELSE answerMu) /\ Go(d, "idle")

(* movable, without the lobby's lock: the presence, the snooze and whether *)
(* the game waits for the seat are read once, here.                        *)
FindMovable(d) ==
    /\ at[d] = "deciding"
    /\ away /\ ~snoozed /\ ~eliminated
    /\ Go(d, "movable")
    /\ UNCHANGED <<table, player, seat, locks, found, bots, answered>>

(* Refused: the caller may not decide, or the seat is not movable.         *)
Refuse(d) ==
    /\ at[d] = "deciding"
    /\ EndAnswer(d)
    /\ UNCHANGED <<table, player, seat, lobbyMu, found, bots, answered>>

(* The table waits: a snooze of the absence the seat is in now.            *)
AnswerWait(d) ==
    /\ at[d] = "movable"
    /\ snoozed' = (snoozed \/ away)
    /\ answered' = (answered \/ away)
    /\ EndAnswer(d)
    /\ UNCHANGED <<table, away, seat, lobbyMu, found, bots>>

(* concedeAway; refused when the game or the seat is over by now.  The     *)
(* concession can end the game, and clears the undo ring.                  *)
AnswerConcede(d) ==
    /\ at[d] = "movable"
    /\ lobbyMu = None
    /\ IF ~entry /\ active /\ ~eliminated
         THEN /\ eliminated' = TRUE /\ answered' = TRUE
              /\ active' \in BOOLEAN
              /\ past' = {}
         ELSE UNCHANGED <<eliminated, answered, active, past>>
    /\ EndAnswer(d)
    /\ UNCHANGED <<rewound, archived, player, seat, lobbyMu, found, bots>>

(* handOver marks the room first, ...                                      *)
MarkSeat(d) ==
    /\ at[d] = "movable"
    /\ lobbyMu = None
    /\ ~entry
    /\ lobbyMu' = d
    /\ mark' = TRUE
    /\ Go(d, "handing over")
    /\ UNCHANGED <<table, player, entry, row, answerMu, found, bots, answered>>

(* Mutant: a hand-over the game refuses leaves the mark.                   *)
HandOverKeepsMark(d) ==
    /\ at[d] = "handing over"
    /\ lobbyMu' = None
    /\ IF active
         THEN /\ entry' = TRUE /\ answered' = TRUE
              /\ row' \in {row, TRUE}
              /\ Go(d, "stopping")
              /\ UNCHANGED <<mark, answerMu>>
         ELSE /\ EndAnswer(d)
              /\ UNCHANGED <<mark, entry, row, answered>>
    /\ UNCHANGED <<table, player, found, bots>>

(* ... notes the hand-over in the game, and records it; a game that is     *)
(* over refuses, and the mark goes.  A row that cannot be written is only  *)
(* logged.                                                                 *)
HandOver(d) ==
    /\ at[d] = "handing over"
    /\ lobbyMu' = None
    /\ IF active
         THEN /\ entry' = TRUE /\ answered' = TRUE
              /\ row' \in {row, TRUE}
              /\ Go(d, "stopping")
              /\ UNCHANGED <<mark, answerMu>>
         ELSE /\ mark' = FALSE
              /\ EndAnswer(d)
              /\ UNCHANGED <<entry, row, answered>>
    /\ UNCHANGED <<table, player, found, bots>>

-----------------------------------------------------------------------------
(* Mutant: a runner that is not there is cancelled too.                    *)
StopStandInUnchecked(p) ==
    /\ at[p] \in {"stopping", "taking back", "closing"}
    /\ Go(p, CASE at[p] = "stopping" -> "stop wait" [] at[p] = "taking back" -> "take wait"
               [] OTHER -> "close wait")
    /\ found' = [found EXCEPT ![p] = standIns]
    /\ cancelled' = cancelled \cup {standIns}
    /\ standIns' = None
    /\ UNCHANGED <<table, player, seat, locks, runner, unserved, answered>>

(* StopStandIn takes the runner out of the manager's map and cancels it;   *)
(* StartStandIn, TakeBack and StopBots each begin with it.                 *)
StopStandIn(p) ==
    /\ at[p] \in {"stopping", "taking back", "closing"}
    /\ Go(p, CASE at[p] = "stopping" -> "stop wait" [] at[p] = "taking back" -> "take wait"
               [] OTHER -> "close wait")
    /\ found' = [found EXCEPT ![p] = standIns]
    /\ cancelled' = cancelled \cup {r \in Runners : r = standIns /\ runner[r] # "off"}
    /\ standIns' = None
    /\ UNCHANGED <<table, player, seat, locks, runner, unserved, answered>>

(* ... and waits for the runner it found, if any.                          *)
Stopped(p) == \A r \in Runners : found[p] = r => runner[r] = "off"

(* StartStandIn: the tier may have no policy, or none can be had; that is  *)
(* logged, and the seat will not act.                                      *)
StartFails(p) ==
    /\ at[p] = "stop wait"
    /\ Stopped(p)
    /\ unserved' = TRUE
    /\ found' = [found EXCEPT ![p] = None]
    /\ EndAnswer(p)
    /\ UNCHANGED <<table, player, seat, lobbyMu, runner, cancelled, standIns, answered>>

(* Otherwise the runner starts, ...                                        *)
StartRunner(p) ==
    /\ at[p] = "stop wait"
    /\ Stopped(p)
    /\ \E r \in Runners :
         /\ runner[r] = "off" /\ r # standIns /\ \A q \in Procs \ {p} : found[q] # r
         /\ runner' = [runner EXCEPT ![r] = "between"]
         /\ found' = [found EXCEPT ![p] = r]
    /\ Go(p, "registering")
    /\ UNCHANGED <<table, player, seat, locks, cancelled, standIns, unserved, answered>>

(* ... and is put in the map, over whatever is there.  An answer holds     *)
(* answerMu until then.                                                    *)
RegisterRunner(p) ==
    /\ at[p] = "registering"
    /\ standIns' = found[p] /\ unserved' = FALSE
    /\ found' = [found EXCEPT ![p] = None]
    /\ EndAnswer(p)
    /\ UNCHANGED <<table, player, seat, lobbyMu, runner, cancelled, answered>>

(* The runner: it looks at its context and at the game between decisions,  *)
(* never between choosing a move and sending it.                           *)
Chooses(r) ==
    /\ runner[r] = "between"
    /\ r \notin cancelled /\ active /\ ~eliminated
    /\ runner' = [runner EXCEPT ![r] = "chose"]
    /\ UNCHANGED <<table, player, seat, locks, at, found, cancelled, standIns, unserved, answered>>

(* Its moves are a person's seat's: the ring keeps the game before them,   *)
(* and may drop older clones.                                              *)
Plays ==
    /\ active /\ ~eliminated
    /\ active' \in BOOLEAN
    /\ \E kept \in SUBSET past : past' = kept \cup {eliminated}
    /\ UNCHANGED <<rewound, archived, player, seat, locks, at, found, standIns, unserved, answered>>

Commits(r) ==
    /\ runner[r] = "chose"
    /\ runner' = [runner EXCEPT ![r] = "between"] /\ UNCHANGED cancelled
    /\ Plays /\ eliminated' \in BOOLEAN

(* A policy may concede the seat for good, and its runner ends with it.    *)
Concedes(r) ==
    /\ runner[r] = "chose"
    /\ runner' = [runner EXCEPT ![r] = "off"] /\ cancelled' = cancelled \ {r}
    /\ Plays /\ eliminated' = TRUE

(* The engine refuses the move: the game or the seat is over, or the board *)
(* has moved on.                                                           *)
Refused(r) ==
    /\ runner[r] = "chose"
    /\ runner' = [runner EXCEPT ![r] = "between"]
    /\ UNCHANGED <<table, player, seat, locks, at, found, cancelled, standIns, unserved, answered>>

(* The runner ends when it is told to, and by itself when the game has.    *)
Exits(r) ==
    /\ runner[r] = "between"
    /\ r \in cancelled \/ ~active
    /\ runner' = [runner EXCEPT ![r] = "off"] /\ cancelled' = cancelled \ {r}
    /\ UNCHANGED <<table, player, seat, locks, at, found, standIns, unserved, answered>>

-----------------------------------------------------------------------------
(* TakeBack: a seat a bot plays, as the entry says, ...                    *)
PressTakeBack(p) ==
    /\ p \in Presses /\ at[p] = "idle"
    /\ lobbyMu = None
    /\ entry
    /\ Go(p, "taking back")
    /\ UNCHANGED <<table, player, seat, locks, found, bots, answered>>

(* Mutant: the room's mark is forgotten.                                   *)
FinishTakeBackMarked(p) ==
    /\ at[p] = "take wait"
    /\ Stopped(p) /\ lobbyMu = None
    /\ entry' = FALSE
    /\ row' \in {row, FALSE}
    /\ answered' = FALSE
    /\ found' = [found EXCEPT ![p] = None]
    /\ Go(p, "idle")
    /\ UNCHANGED <<table, player, mark, locks, bots>>

(* ... whose runner is stopped, is the player's again: a second press that *)
(* comes later finds nothing to do.                                        *)
FinishTakeBack(p) ==
    /\ at[p] = "take wait"
    /\ Stopped(p) /\ lobbyMu = None
    /\ entry' = FALSE
    /\ mark' = (IF entry THEN FALSE ELSE mark)
    /\ row' \in (IF entry THEN {row, FALSE} ELSE {row})
    /\ answered' = (answered /\ ~entry)
    /\ found' = [found EXCEPT ![p] = None]
    /\ Go(p, "idle")
    /\ UNCHANGED <<table, player, locks, bots>>

(* SetArchived, and the thunk that stops the bots after the lock is gone.  *)
Archive(p) ==
    /\ p \in Admins /\ at[p] = "idle"
    /\ lobbyMu = None
    /\ ~archived
    /\ archived' = TRUE
    /\ Go(p, "closing")
    /\ UNCHANGED <<game, player, seat, locks, found, bots, answered>>

BotsStopped(p) ==
    /\ at[p] = "close wait"
    /\ Stopped(p)
    /\ found' = [found EXCEPT ![p] = None]
    /\ Go(p, "idle")
    /\ UNCHANGED <<table, player, seat, locks, bots, answered>>

(* Mutant: an unarchive starts the table's own bots only.                  *)
UnarchiveForgets(p) ==
    /\ p \in Admins /\ at[p] = "idle"
    /\ lobbyMu = None
    /\ archived
    /\ archived' = FALSE
    /\ UNCHANGED <<game, player, seat, locks, at, found, bots, answered>>

(* The unarchive starts the stand-in the entry names, after the lock, at a *)
(* table in play.                                                          *)
Unarchive(p) ==
    /\ p \in Admins /\ at[p] = "idle"
    /\ lobbyMu = None
    /\ archived
    /\ archived' = FALSE
    /\ IF entry /\ active THEN Go(p, "stopping") ELSE UNCHANGED at
    /\ unserved' = (unserved \/ (entry /\ ~active))
    /\ UNCHANGED <<game, player, seat, locks, found, runner, cancelled, standIns, answered>>

(* The process ends, and a boot restores the table from its row: the entry *)
(* and the mark, a runner for a table in play, and no undo ring.           *)
Restart(p) ==
    /\ p \in Admins
    /\ entry' = row /\ mark' = row
    /\ past' = {} /\ rewound' = FALSE /\ unserved' = (row /\ ~active)
    /\ UNCHANGED <<row, active, eliminated, archived, away>>
    /\ snoozed' = FALSE /\ answered' = row
    /\ answerMu' = None /\ lobbyMu' = None
    /\ at' = [q \in Procs |-> IF q = p /\ row /\ active /\ ~archived THEN "stopping" ELSE "idle"]
    /\ found' = [q \in Procs |-> None]
    /\ runner' = [r \in Runners |-> "off"]
    /\ cancelled' = {} /\ standIns' = None

-----------------------------------------------------------------------------
Answers(d) == FindMovable(d) \/ Refuse(d) \/ AnswerWait(d) \/ AnswerConcede(d)
              \/ MarkSeat(d) \/ HandOver(d)
Finishes(p) == Answers(p) \/ StopStandIn(p) \/ StartFails(p) \/ StartRunner(p)
               \/ RegisterRunner(p) \/ FinishTakeBack(p) \/ BotsStopped(p)
Runs(r) == Chooses(r) \/ Commits(r) \/ Concedes(r) \/ Refused(r) \/ Exits(r)

Next ==
    \/ Leaves \/ Returns \/ SnoozeEnds \/ OthersPlay \/ Undo
    \/ \E d \in Deciders : BeginAnswer(d)
    \/ \E p \in Presses : PressTakeBack(p)
    \/ \E p \in Admins : Archive(p) \/ Unarchive(p) \/ Restart(p)
    \/ \E p \in Procs : Finishes(p)
    \/ \E r \in Runners : Runs(r)

Spec == Init /\ [][Next]_vars

-----------------------------------------------------------------------------
TypeOK ==
    /\ active \in BOOLEAN /\ eliminated \in BOOLEAN /\ past \subseteq BOOLEAN
    /\ archived \in BOOLEAN /\ away \in BOOLEAN /\ snoozed \in BOOLEAN
    /\ entry \in BOOLEAN /\ mark \in BOOLEAN /\ row \in BOOLEAN
    /\ answerMu \in Deciders \cup {None} /\ lobbyMu \in Deciders \cup {None}
    /\ at \in [Procs -> {"idle", "deciding", "movable", "handing over", "stopping", "stop wait",
                         "registering", "taking back", "take wait", "closing", "close wait"}]
    /\ found \in [Procs -> Runners \cup {None}]
    /\ runner \in [Runners -> {"off", "between", "chose"}]
    /\ cancelled \subseteq Runners /\ standIns \in Runners \cup {None}
    /\ answered \in BOOLEAN /\ rewound \in BOOLEAN /\ unserved \in BOOLEAN

(* Outside a hand-over's critical section the room refuses the player's    *)
(* actions exactly when the lobby says a bot plays the seat, through        *)
(* refused hand-overs, take-backs that overlap, and restarts.              *)
MarkIsRecorded == lobbyMu = None => (mark <=> entry)

(* The first answer counts: no request hands over, concedes or waits for a *)
(* seat about which this absence was answered already.                     *)
Effective == \/ entry' /\ ~entry
             \/ eliminated' # eliminated
             \/ snoozed' /\ ~snoozed
FirstAnswerWins == [][(\E d \in Deciders : Answers(d)) /\ Effective => ~answered]_vars

(* The table never waits for a seat no one can play: when no request about *)
(* it is under way, a table in play whose seat is refused to its player    *)
(* has a runner for it that was not told to stop.  Two cases are exempt:   *)
(* the runner left a game that was over, or a seat it had conceded, and an *)
(* undo took that back (ADR 0057 accepts this); or no runner was started,  *)
(* for want of a policy, or since the game was over at an unarchive or a   *)
(* boot, which only logs.                                                  *)
Alive(r) == r \in Runners /\ runner[r] # "off" /\ r \notin cancelled
LeftTooEarly(r) == r \in Runners /\ runner[r] = "off" /\ rewound
MarkedSeatIsPlayed ==
    mark /\ active /\ ~archived /\ ~eliminated /\ (\A p \in Procs : at[p] = "idle")
        => Alive(standIns) \/ LeftTooEarly(standIns) \/ unserved

(* "The runner is stopped first, at its next decision boundary, and only   *)
(* then may the player act" (away.go, TakeBack): no runner sends a move    *)
(* for a seat that is its player's.                                        *)
TakenBackIsMine == [][\A r \in Runners : Commits(r) => mark]_vars
=============================================================================
