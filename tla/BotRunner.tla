----------------------------- MODULE BotRunner -----------------------------
(***************************************************************************)
(* The runner of a bot seat: it subscribes to its room, acts for as long   *)
(* as the seat has a decision, and parks until the next commit.  The wake  *)
(* is an edge: a channel of capacity 1, written without blocking after     *)
(* every commit once the room's lock is released.                          *)
(*                                                                         *)
(* A state of the game is the window it offers each bot seat, and the loop *)
(* breaker's notice; a commit, of whoever it is, may bring any other       *)
(* state.  A decision is sent after it was made, and the state may have    *)
(* moved on by then.                                                       *)
(***************************************************************************)
EXTENDS Naturals

CONSTANTS
    Bots,        \* bot seats, one runner each
    Writers,     \* the goroutines of people and of the lobby that commit
    MaxActions,  \* Config.MaxActionsPerWake (64 in the code)
    MaxRejects   \* Config.MaxConsecutiveRejects (3 in the code)

ASSUME ActorsAssumption == Bots \cap Writers = {}
ASSUME LimitsAssumption ==
    /\ MaxActions \in Nat /\ MaxRejects \in Nat \ {0}
    /\ MaxRejects < MaxActions

(* What EnumerateFor offers a seat: nothing; moves with a pass among them, *)
(* or with an answer the engine cannot refuse; moves with neither, which   *)
(* it may decline; or the moves of another seat whose turn it plays.       *)
Window == {"none", "pass", "safe", "optional", "controlled"}
Notice == {"none", "suspended", "mandatory"}

Runner == [at : {"unstarted", "looking", "deciding", "sending", "committed", "conceded",
                 "parked", "done"},
           sees : Window, move : {"pass", "safe", "other"},
           tries : 0..MaxActions, rejects : Nat]

VARIABLES
    owes,     \* the window the live game offers each seat
    notice,   \* Game.LoopNotice: none, one that suspends passes, one of a mandatory loop
    active,   \* the game is in StateActive
    writer,   \* writers that have committed and not yet notified
    subs,     \* Room.subs
    wake,     \* a wake sits in the runner's channel
    runner,   \* each runner's goroutine
    fresh     \* the runner has enumerated the newest state

game == <<owes, notice, active>>
room == <<writer, subs, wake>>
vars == <<game, room, runner, fresh>>

At(b, s) == runner[b].at = s

-----------------------------------------------------------------------------
Init ==
    /\ owes \in [Bots -> Window]
    /\ notice = "none" /\ active = TRUE
    /\ writer = {} /\ subs = {}
    /\ wake = [b \in Bots |-> FALSE]
    /\ runner = [b \in Bots |-> [at |-> "unstarted", sees |-> "none", move |-> "other",
                                 tries |-> 0, rejects |-> 0]]
    /\ fresh = [b \in Bots |-> FALSE]

Go(b, s) == runner' = [runner EXCEPT ![b].at = s]

(* What a commit does: any other state of the game, or its end.            *)
NewState ==
    /\ active' \in BOOLEAN
    /\ owes' \in [Bots -> Window]
    /\ notice' \in Notice
    /\ fresh' = [b \in Bots |-> FALSE]

(* Mutant: a runner that is not parked is not woken.                       *)
NotifiedIfParked == [b \in Bots |-> wake[b] \/ (b \in subs /\ At(b, "parked"))]

(* notify, after the room's lock is released: a full channel stays full.   *)
Notified == [b \in Bots |-> wake[b] \/ b \in subs]

-----------------------------------------------------------------------------
WriterCommits(w) ==
    /\ active
    /\ w \notin writer
    /\ NewState
    /\ writer' = writer \cup {w}
    /\ UNCHANGED <<subs, wake, runner>>

WriterNotifies(w) ==
    /\ w \in writer
    /\ writer' = writer \ {w}
    /\ wake' = Notified
    /\ UNCHANGED <<game, subs, runner, fresh>>

(* Mutant: the subscription is left to the runner's own goroutine.         *)
StartLate(b) ==
    /\ \/ At(b, "unstarted") /\ Go(b, "looking") /\ UNCHANGED subs
       \/ ~At(b, "unstarted") /\ ~At(b, "done") /\ b \notin subs
          /\ subs' = subs \cup {b} /\ UNCHANGED runner
    /\ UNCHANGED <<game, writer, wake, fresh>>

(* Start subscribes before it returns, and the loop looks at once.         *)
Start(b) ==
    /\ At(b, "unstarted")
    /\ subs' = subs \cup {b}
    /\ Go(b, "looking")
    /\ UNCHANGED <<game, writer, wake, fresh>>

(* loop, woken: a step with its own count of tries and of rejections.      *)
WakeUp(b) ==
    /\ At(b, "parked")
    /\ wake[b]
    /\ wake' = [wake EXCEPT ![b] = FALSE]
    /\ runner' = [runner EXCEPT ![b].at = "looking", ![b].tries = 0, ![b].rejects = 0]
    /\ UNCHANGED <<game, writer, subs, fresh>>

(* The step has used its actions up.                                       *)
OutOfActions(b) ==
    /\ At(b, "looking")
    /\ runner[b].tries = MaxActions
    /\ Go(b, "parked")
    /\ UNCHANGED <<game, room, fresh>>

(* Mutant: the runner of a game that is over parks like any other.         *)
LeaveParks(b) ==
    /\ At(b, "looking")
    /\ runner[b].tries < MaxActions
    /\ ~active
    /\ Go(b, "parked")
    /\ fresh' = [fresh EXCEPT ![b] = TRUE]
    /\ UNCHANGED <<game, room>>

(* The game is over: the runner unsubscribes and ends.                     *)
Leave(b) ==
    /\ At(b, "looking")
    /\ runner[b].tries < MaxActions
    /\ ~active
    /\ Go(b, "done")
    /\ subs' = subs \ {b}
    /\ UNCHANGED <<game, writer, wake, fresh>>

(* Mutant: the actions of a step are counted and not limited.              *)
LookUnlimited(b) ==
    /\ At(b, "looking")
    /\ active
    /\ fresh' = [fresh EXCEPT ![b] = TRUE]
    /\ runner' = [runner EXCEPT ![b].at = IF owes[b] = "none" THEN "parked" ELSE "deciding",
                                ![b].sees = owes[b], ![b].tries = @ + 1]
    /\ UNCHANGED <<game, room>>

(* The enumeration of the live game, with or without moves for the seat.   *)
Look(b) ==
    /\ At(b, "looking")
    /\ runner[b].tries < MaxActions
    /\ active
    /\ fresh' = [fresh EXCEPT ![b] = TRUE]
    /\ runner' = [runner EXCEPT ![b].at = IF owes[b] = "none" THEN "parked" ELSE "deciding",
                                ![b].sees = owes[b], ![b].tries = @ + 1]
    /\ UNCHANGED <<game, room>>

-----------------------------------------------------------------------------
(* Only a seat with neither a pass nor an answer that cannot be refused    *)
(* may decline: decide turns the decline of any other into one of those.   *)
Declines(b) ==
    /\ At(b, "deciding")
    /\ runner[b].sees = "optional"
    /\ Go(b, "parked")
    /\ UNCHANGED <<game, room, fresh>>

(* Mutant: what the policy keeps choosing is sent again, and when it has   *)
(* been refused once more than it may, the window is put down.             *)
OfferedNoForce(b) ==
    IF runner[b].rejects >= MaxRejects THEN {} ELSE {"other", runner[b].sees} \ {"optional"}

(* The moves that may be sent: the policy's choice, or forcedAnswer once   *)
(* its choices have been refused MaxRejects times in a row.                *)
Offered(b) ==
    ({runner[b].sees} \cap {"pass", "safe"})
        \cup (IF runner[b].rejects >= MaxRejects THEN {} ELSE {"other"})

(* A notice holds a pass, unless the loop is mandatory, and in any case a  *)
(* policy's choice that activates the permanent it names.                  *)
PassHeld == notice = "suspended"
Held(m) == (m = "pass" /\ PassHeld) \/ (m = "other" /\ notice # "none")

Decides(b) ==
    /\ At(b, "deciding")
    /\ runner[b].sees # "controlled"
    /\ \E m \in Offered(b) :
         /\ ~(m = "pass" /\ PassHeld)
         /\ runner' = [runner EXCEPT ![b].at = "sending", ![b].move = m]
    /\ UNCHANGED <<game, room, fresh>>

(* The notice holds the move, or no answer is left: the seat parks.        *)
Holds(b) ==
    /\ At(b, "deciding")
    /\ runner[b].sees # "controlled"
    /\ Offered(b) = {} \/ \E m \in Offered(b) : Held(m)
    /\ Go(b, "parked")
    /\ UNCHANGED <<game, room, fresh>>

(* Improvise: a bundle instead of a move; one refused leaves the decision  *)
(* to be made.                                                             *)
Improvises(b) ==
    /\ At(b, "deciding")
    /\ active
    /\ runner[b].sees # "controlled"
    /\ NewState
    /\ Go(b, "committed")
    /\ UNCHANGED room

Concedes(b) ==
    /\ At(b, "deciding")
    /\ active
    /\ runner[b].sees # "controlled"
    /\ NewState
    /\ Go(b, "conceded")
    /\ UNCHANGED room

(* holdForStack: the top of the stack changed under a pass, look again.    *)
StackMovedOn(b) ==
    /\ At(b, "sending")
    /\ runner[b].move = "pass"
    /\ ~fresh[b]
    /\ Go(b, "looking")
    /\ UNCHANGED <<game, room, fresh>>

Accepted(b) ==
    /\ At(b, "sending") /\ active
    /\ NewState
    /\ runner' = [runner EXCEPT ![b].at = "committed", ![b].rejects = 0]
    /\ UNCHANGED room

(* The engine refuses a move of a state that is gone, and sometimes one    *)
(* the enumerator offered; never a pass or an always-legal answer in the   *)
(* state they were offered in.                                             *)
Refused(b) ==
    /\ At(b, "sending")
    /\ ~fresh[b] \/ runner[b].move = "other"
    /\ runner' = [runner EXCEPT ![b].at = "looking", ![b].rejects = @ + 1]
    /\ UNCHANGED <<game, room, fresh>>

(* playWith, for another seat's decision: a move is sent, refused or held  *)
(* by the breaker; refused MaxRejects times, the runner parks.             *)
PlaysForAnother(b) ==
    /\ At(b, "deciding")
    /\ runner[b].sees = "controlled"
    /\ \/ /\ active
          /\ NewState
          /\ runner' = [runner EXCEPT ![b].at = "committed", ![b].rejects = 0]
       \/ /\ runner' = [runner EXCEPT
                 ![b].at = IF runner[b].rejects + 1 >= MaxRejects THEN "parked" ELSE "looking",
                 ![b].rejects = @ + 1]
          /\ UNCHANGED <<game, fresh>>
    /\ UNCHANGED room

(* The commit of the runner's own goroutine notifies too.                  *)
Notifies(b) ==
    /\ At(b, "committed") \/ At(b, "conceded")
    /\ wake' = Notified
    /\ Go(b, IF At(b, "conceded") THEN "done" ELSE "looking")
    /\ subs' = IF At(b, "conceded") THEN subs \ {b} ELSE subs
    /\ UNCHANGED <<game, writer, fresh>>

-----------------------------------------------------------------------------
Step(b) ==
    \/ WakeUp(b) \/ OutOfActions(b) \/ Leave(b) \/ Look(b)
    \/ Declines(b) \/ Decides(b) \/ Holds(b) \/ Improvises(b) \/ Concedes(b)
    \/ StackMovedOn(b) \/ Accepted(b) \/ Refused(b) \/ PlaysForAnother(b)
    \/ Notifies(b)

Next ==
    \/ \E w \in Writers : WriterCommits(w) \/ WriterNotifies(w)
    \/ \E b \in Bots : Start(b) \/ Step(b)

Spec == Init /\ [][Next]_vars

(* Goroutines are scheduled; people commit when they like.                 *)
FairSpec ==
    /\ Spec
    /\ \A w \in Writers : WF_vars(WriterNotifies(w))
    /\ \A b \in Bots : WF_vars(Start(b)) /\ WF_vars(Step(b))

-----------------------------------------------------------------------------
TypeOK ==
    /\ owes \in [Bots -> Window]
    /\ notice \in Notice /\ active \in BOOLEAN
    /\ writer \subseteq Writers /\ subs \subseteq Bots
    /\ wake \in [Bots -> BOOLEAN]
    /\ runner \in [Bots -> Runner]
    /\ fresh \in [Bots -> BOOLEAN]

(* Somebody has committed and has yet to notify.                           *)
WakesComing == writer # {} \/ \E b \in Bots : At(b, "committed") \/ At(b, "conceded")

(* No wake is lost: a runner that sleeps with an empty channel and no      *)
(* notification on its way has looked at the newest state (docs/bot.md, on *)
(* #938).                                                                  *)
NoLostWake ==
    \A b \in Bots : At(b, "parked") /\ ~wake[b] /\ ~WakesComing => fresh[b]

(* A seat the table waits for moves on: as long as it may pass or has an   *)
(* answer the engine cannot refuse, and no loop notice stands, it comes to *)
(* look at the state, and one it has looked at is not the last (#544: a    *)
(* runner must not sleep with the prompt still open).  Under a notice, one *)
(* of a mandatory loop too, a seat whose policy keeps choosing to activate *)
(* the permanent it names parks, until somebody else commits.              *)
Waited(b) == active /\ notice = "none" /\ owes[b] \in {"pass", "safe"} /\ ~At(b, "done")
AWaitedSeatMoves ==
    \A b \in Bots : /\ (Waited(b) /\ ~fresh[b]) ~> (~Waited(b) \/ fresh[b])
                    /\ (Waited(b) /\ fresh[b]) ~> (~Waited(b) \/ ~fresh[b])

(* Every runner of a game that has ended ends too.                         *)
RunnersEnd == \A b \in Bots : ~active ~> At(b, "done")
=============================================================================
