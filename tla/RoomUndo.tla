------------------------------ MODULE RoomUndo ------------------------------
(***************************************************************************)
(* The commit pipeline of one table (ws.Room): every mutation of the game  *)
(* runs under the room's lock, leaves an entry on the undo ring (or none,  *)
(* or a barrier), sets off the automatic answers its prompts have standing *)
(* rules for and the replay of an accepted loop proposal, and is captured  *)
(* in a frame.  undo takes the top entry back.                             *)
(*                                                                         *)
(* A game is abstracted to its LINE, the sequence of commits that made it, *)
(* with the parts undo and the pipeline look at: each seat's remaining     *)
(* undos, whether the game has ended, the seats still in it, the prompts   *)
(* a seat has a standing answer for, and an accepted loop proposal.        *)
(***************************************************************************)
EXTENDS Integers, FiniteSets, SequencesExt

CONSTANTS
    Humans,          \* seats played by a person or an agent
    Bots,            \* seats played by a bot (game.Player.IsBot)
    Nil,             \* uuid.Nil: the admin, the lobby, nobody
    NoClone,         \* the nil pre-commit clone of a barrier entry
    Effects,         \* what a commit may do besides extending the line
    Limits,          \* the values the table may set undo_limit to
    SnapshotDepth,   \* undoSnapshotDepth: entries that keep their clone
    StackCap,        \* undoStackCap: entries on the ring
    MaxAutoAnswers,  \* maxAutoAnswersPerCommit
    MaxLine          \* bound: length of a game's line

Seats == Humans \cup Bots
Unlimited == -1

ASSUME SeatAssumption == Humans \cap Bots = {} /\ Nil \notin Seats
ASSUME RingAssumption == /\ SnapshotDepth \in Nat \ {0}
                         /\ StackCap \in Nat
                         /\ SnapshotDepth <= StackCap
ASSUME LimitAssumption == Limits \subseteq Nat \cup {Unlimited}
ASSUME BoundAssumption == MaxAutoAnswers \in Nat /\ MaxLine \in Nat

-----------------------------------------------------------------------------
(* The game and the ring.                                                  *)

(* kind "external" is a commit with no undo entry; every other is a play.  *)
CommitRecord == [by : Seats \cup {Nil}, kind : {"play", "bundle", "auto", "replay", "external"},
                 reveals : BOOLEAN]

(* A prompt a seat has a standing answer for (PendingChoice), named by the *)
(* line position of the commit that asked it and its place in that commit, *)
(* which is also its place in the queue.                                   *)
Prompt == [at : Nat, n : Nat, chooser : Humans]

EffectRecord == [turn : Seats \cup {Nil}, asks : Seq(Humans),
                 ends : BOOLEAN, reveals : BOOLEAN]

ASSUME EffectAssumption == Effects \subseteq EffectRecord

Game == [line : Seq(CommitRecord), undos : [Seats -> Nat \cup {Unlimited}], ended : BOOLEAN,
         seated : SUBSET Seats, prompts : SUBSET Prompt, byHand : SUBSET Prompt,
         loop : Humans \cup {Nil}]

ASSUME CloneAssumption == NoClone \notin Game /\ Nil \notin Prompt

Barrier == {"none", "bot", "depth"}

(* at is the length of the line the entry's commit was made on: a ghost,   *)
(* kept for barriers too, whose clone is gone.                             *)
Entry == [pre : Game \cup {NoClone}, barrier : Barrier, caller : Seats \cup {Nil},
          free : BOOLEAN, answered : Prompt \cup {Nil}, at : Nat]

(* UndoBlocked, as a frame stamps it on a seat; "" lets the seat undo.     *)
Blocked == {"", "nothing", "game_over", "past_bot", "too_deep", "not_yours", "secret_vote"}

VARIABLES
    game,     \* Room.Game
    limit,    \* Game.Settings.UndoLimit, which an undo does not restore
    ring,     \* Room.undoStack, the top entry last
    phase,    \* "free", or "answering": r.mu is held, answers under way
    answers,  \* automatic answers this commit has set off
    shown     \* the last captured frame: the game, and each seat's UndoBlocked

vars == <<game, limit, ring, phase, answers, shown>>

-----------------------------------------------------------------------------
(* Operators of the game.                                                  *)

(* What a commit does to the game: it extends the line, may begin a seat's *)
(* turn (which refreshes that seat's undos), queue prompts, end the game.  *)
Extend(g, by, kind, e) ==
    [g EXCEPT
       !.line = Append(@, [by |-> by, kind |-> kind, reveals |-> e.reveals]),
       !.undos = IF e.turn = Nil THEN @ ELSE [@ EXCEPT ![e.turn] = limit],
       !.ended = @ \/ e.ends,
       !.prompts = @ \cup {[at |-> Len(g.line), n |-> i, chooser |-> e.asks[i]] :
                                i \in 1..Len(e.asks)}]

Plain == [turn |-> Nil, asks |-> <<>>, ends |-> FALSE, reveals |-> FALSE]

WithoutPrompt(g, p) == [g EXCEPT !.prompts = @ \ {p}]
MarkAskedByHand(g, p) == [g EXCEPT !.byHand = @ \cup {p}]

(* The prompts the room may answer for their chooser now.                  *)
Answerable(g) ==
    {p \in g.prompts : ~g.ended /\ p.chooser \in g.seated /\ p \notin g.byHand}

QueuedBefore(p, q) == p.at < q.at \/ (p.at = q.at /\ p.n < q.n)

(* NextAutoAnswer takes them in queue order: one, or none.                 *)
NextAutoAnswer(g) ==
    {p \in Answerable(g) : \A q \in Answerable(g) \ {p} : QueuedBefore(p, q)}

HasUndoBudget(g, s) == limit = Unlimited \/ g.undos[s] > 0

(* SpendUndo refuses a game that is not active or a seat with none left.   *)
SpendFails(g, s) == g.ended \/ (limit # Unlimited /\ g.undos[s] <= 0)

(* Mutant: the debit forgets that an unlimited budget is never spent.      *)
DebitUnlimited(g, s) == [g EXCEPT !.undos[s] = @ - 1]
Debit(g, s) == IF limit = Unlimited THEN g ELSE [g EXCEPT !.undos[s] = @ - 1]

-----------------------------------------------------------------------------
(* Operators of the ring.                                                  *)

(* Mutant: a bot's move leaves a clone like any other.                     *)
undoBarrierForNobody(stamp) == "none"

undoBarrierFor(stamp) == IF stamp \in Bots THEN "bot" ELSE "none"

NewEntry(pre, stamp, free, answered) ==
    [pre |-> IF undoBarrierFor(stamp) = "none" THEN pre ELSE NoClone,
     barrier |-> undoBarrierFor(stamp), caller |-> stamp, free |-> free,
     answered |-> answered, at |-> Len(pre.line)]

(* Mutant: one entry too many keeps its clone.                             *)
DemoteLate(r) ==
    LET n == Len(r) - SnapshotDepth - 1
    IN IF n >= 1 /\ r[n].barrier = "none"
         THEN [r EXCEPT ![n].pre = NoClone, ![n].barrier = "depth"]
         ELSE r

(* The entry that falls below the top SnapshotDepth loses its clone.       *)
Demote(r) ==
    LET n == Len(r) - SnapshotDepth
    IN IF n >= 1 /\ r[n].barrier = "none"
         THEN [r EXCEPT ![n].pre = NoClone, ![n].barrier = "depth"]
         ELSE r

(* Mutant: a full ring drops the entry just pushed.                        *)
pushUndoDropsNewest(r, e) ==
    LET pushed == Demote(Append(r, e))
    IN IF Len(pushed) > StackCap THEN Front(pushed) ELSE pushed

pushUndo(r, e) ==
    LET pushed == Demote(Append(r, e))
    IN IF Len(pushed) > StackCap THEN Tail(pushed) ELSE pushed

(* RevealedSecretVoteAfter the clone's last event.                         *)
RevealedSince(g, e) ==
    /\ e.pre # NoClone
    /\ \E i \in (Len(e.pre.line) + 1)..Len(g.line) : g.line[i].reveals

(* Mutant: the stamp forgets the game's end.                               *)
stampForgetsEnd(g, r, s) ==
    IF r = <<>> THEN "nothing"
    ELSE IF Last(r).barrier # "none" THEN "past_bot"
    ELSE IF Last(r).caller \notin {Nil, s} THEN "not_yours"
    ELSE IF RevealedSince(g, Last(r)) THEN "secret_vote"
    ELSE ""

(* Why the stack would refuse an undo from seat s.                         *)
stampUndoBlocked(g, r, s) ==
    IF r = <<>> THEN "nothing"
    ELSE IF g.ended THEN "game_over"
    ELSE IF Last(r).barrier = "bot" THEN "past_bot"
    ELSE IF Last(r).barrier = "depth" THEN "too_deep"
    ELSE IF Last(r).caller \notin {Nil, s} THEN "not_yours"
    ELSE IF RevealedSince(g, Last(r)) THEN "secret_vote"
    ELSE ""

Frame(g, r) == [game |-> g, blocked |-> [s \in Seats |-> stampUndoBlocked(g, r, s)]]

-----------------------------------------------------------------------------
Init ==
    /\ limit \in Limits
    /\ game = [line |-> <<>>, undos |-> [s \in Seats |-> limit], ended |-> FALSE,
               seated |-> Seats, prompts |-> {}, byHand |-> {}, loop |-> Nil]
    /\ ring = <<>>
    /\ phase = "free"
    /\ answers = 0
    /\ shown = Frame(game, ring)

(* A commit takes the lock, and the automatic answers follow under it.     *)
Commit(g) ==
    /\ game' = g
    /\ phase' = "answering"
    /\ answers' = 0
    /\ UNCHANGED shown

MayCommit == phase = "free" /\ ~game.ended /\ Len(game.line) < MaxLine

(* An effect names seats still in the game.                                *)
EffectFits(e) ==
    /\ e.turn \in game.seated \cup {Nil}
    /\ Range(e.asks) \subseteq game.seated

(* Room.Apply: a play of seat s, or of the admin.                          *)
Apply(s, e) ==
    /\ MayCommit
    /\ s \in game.seated \cup {Nil}
    /\ EffectFits(e)
    /\ Commit(Extend(game, s, "play", e))
    /\ ring' = pushUndo(ring, NewEntry(game, s, FALSE, Nil))
    /\ UNCHANGED limit

(* Room.Apply of resolve_choice: the chooser answers a prompt by hand.     *)
ResolveChoice(p, e) ==
    /\ MayCommit
    /\ p.chooser \in game.seated
    /\ EffectFits(e)
    /\ Commit(WithoutPrompt(Extend(game, p.chooser, "play", e), p))
    /\ ring' = pushUndo(ring, NewEntry(game, p.chooser, FALSE, Nil))
    /\ UNCHANGED limit

(* Room.ApplyBundle: a bot's improvisation, which anyone may take back, or *)
(* a managed spawn under the host's stamp.  A failing step rolls the steps *)
(* before it back, which leaves no trace.                                  *)
ApplyBundle(actor, e) ==
    /\ MayCommit
    /\ actor \in game.seated \cup {Nil}
    /\ EffectFits(e)
    /\ Commit(Extend(game, actor, "bundle", e))
    /\ ring' = LET caller == IF actor \in Bots THEN Nil ELSE actor
               IN pushUndo(ring, NewEntry(game, caller, TRUE, Nil))
    /\ UNCHANGED limit

(* Room.ApplyExternal: a commit that mints no undo entry.  One of them     *)
(* accepts a recorded loop, for the room to replay.                        *)
ApplyExternal(s, loop) ==
    /\ MayCommit
    /\ s \in game.seated \cup {Nil}
    /\ loop \in (game.seated \cap Humans) \cup {Nil}
    /\ Commit([Extend(game, s, "external", Plain) EXCEPT !.loop = loop])
    /\ UNCHANGED <<limit, ring>>

(* A settings patch naming UndoLimit refreshes every seat.                 *)
SetUndoLimit(l) ==
    /\ MayCommit
    /\ l \in Limits
    /\ limit' = l
    /\ Commit([Extend(game, Nil, "external", Plain) EXCEPT !.undos = [s \in Seats |-> l]])
    /\ UNCHANGED ring

(* Mutant: the removal leaves the ring as it was.                          *)
RemoveSeatKeepsRing(s, over) ==
    /\ MayCommit
    /\ s \in game.seated \cap Humans
    /\ game.seated \cap Humans # {s}
    /\ Commit([Extend(game, Nil, "external", [Plain EXCEPT !.ends = over])
                 EXCEPT !.seated = @ \ {s}])
    /\ UNCHANGED <<limit, ring>>

(* Room.ApplyExternalClearingUndo: the admin removes a seat, not a bot's   *)
(* nor the host's, from a started game.  It may end the game.              *)
RemoveSeat(s, over) ==
    /\ MayCommit
    /\ s \in game.seated \cap Humans
    /\ game.seated \cap Humans # {s}
    /\ Commit([Extend(game, Nil, "external", [Plain EXCEPT !.ends = over])
                 EXCEPT !.seated = @ \ {s},
                        !.prompts = {p \in @ : p.chooser # s}])
    /\ ring' = <<>>
    /\ UNCHANGED limit

-----------------------------------------------------------------------------
(* autoAnswerThenCaptureLocked, with r.mu held.                            *)

MoreAnswers == answers < MaxAutoAnswers /\ NextAutoAnswer(game) # {}

(* The frame of the commit before is captured, then the next prompt is     *)
(* answered: a commit of its own, free and stamped with the chooser.       *)
AutoAnswer(p, e) ==
    /\ phase = "answering"
    /\ answers < MaxAutoAnswers
    /\ p \in NextAutoAnswer(game)
    /\ EffectFits(e)
    /\ game' = WithoutPrompt(Extend(game, p.chooser, "auto", e), p)
    /\ ring' = pushUndo(ring, NewEntry(game, p.chooser, TRUE, p))
    /\ answers' = answers + 1
    /\ shown' = Frame(game, ring)
    /\ UNCHANGED <<limit, phase>>

(* The answer fails: the game is put back and the player is asked.         *)
AutoAnswerFails(p) ==
    /\ phase = "answering"
    /\ answers < MaxAutoAnswers
    /\ p \in NextAutoAnswer(game)
    /\ game' = MarkAskedByHand(game, p)
    /\ answers' = answers + 1
    /\ shown' = Frame(game, ring)
    /\ UNCHANGED <<limit, ring, phase>>

(* NextAutoAnswer passes over a prompt its chooser must answer by hand (no *)
(* mana to pay, an empty library, a loop notice, somebody else in control) *)
(* and marks it so, whatever it was to answer.                             *)
AskByHand(p) ==
    /\ phase = "answering"
    /\ answers < MaxAutoAnswers
    /\ p \in NextAutoAnswer(game)
    /\ game' = MarkAskedByHand(game, p)
    /\ UNCHANGED <<limit, ring, phase, answers, shown>>

(* The last frame is captured and the lock released.                       *)
Release(g, r) ==
    /\ game' = g
    /\ ring' = r
    /\ phase' = "free"
    /\ shown' = Frame(g, r)
    /\ UNCHANGED <<limit, answers>>

Settle ==
    /\ phase = "answering"
    /\ ~MoreAnswers
    /\ game.loop = Nil
    /\ Release(game, ring)

(* replayLoopLocked: the iterations that stand are one commit with one     *)
(* entry, which is the recorder's.                                         *)
ReplayLoop ==
    /\ phase = "answering"
    /\ ~MoreAnswers
    /\ game.loop # Nil
    /\ ~game.ended
    /\ Release([Extend(game, game.loop, "replay", Plain) EXCEPT !.loop = Nil],
               pushUndo(ring, NewEntry(game, game.loop, FALSE, Nil)))

(* Nothing of the replay stands: it is rolled back, and the loop is spent. *)
ReplayStops ==
    /\ phase = "answering"
    /\ ~MoreAnswers
    /\ game.loop # Nil
    /\ Release([game EXCEPT !.loop = Nil], ring)

-----------------------------------------------------------------------------
(* Room.Undo.                                                              *)

Charged(c) == c # Nil /\ ~Last(ring).free

(* Mutant: the caller gate is missing.                                     *)
MayUndoAnyones(c) ==
    /\ ring # <<>>
    /\ c # Nil => ~game.ended
    /\ Last(ring).barrier = "none"
    /\ c # Nil => ~RevealedSince(game, Last(ring))
    /\ Charged(c) => HasUndoBudget(game, c)

(* Its gates, in the code's order.                                         *)
MayUndo(c) ==
    /\ ring # <<>>
    /\ c # Nil => ~game.ended
    /\ Last(ring).barrier = "none"
    /\ c # Nil => Last(ring).caller \in {Nil, c}
    /\ c # Nil => ~RevealedSince(game, Last(ring))
    /\ Charged(c) => HasUndoBudget(game, c)

(* Mutant: the recording survives the undo of its replay.                  *)
RestoredKeepsLoop == Last(ring).pre

(* Mutant: the reopened prompt is not marked.                              *)
RestoredUnmarked == [Last(ring).pre EXCEPT !.loop = Nil]

(* The clone put back, an automatic answer's prompt now asked by hand and  *)
(* any loop recording discarded.                                           *)
Restored ==
    LET top == Last(ring)
        back == IF top.answered = Nil THEN top.pre
                                      ELSE MarkAskedByHand(top.pre, top.answered)
    IN [back EXCEPT !.loop = Nil]

(* The debit comes after the restore and can fail there: the error returns *)
(* with the game restored, the entry popped and no frame captured.         *)
Undo(c) ==
    /\ phase = "free"
    /\ c \in (game.seated \cap Humans) \cup {Nil}
    /\ MayUndo(c)
    /\ ring' = Front(ring)
    /\ IF Charged(c) /\ SpendFails(Restored, c)
         THEN game' = Restored /\ UNCHANGED shown
         ELSE /\ game' = IF Charged(c) THEN Debit(Restored, c) ELSE Restored
              /\ shown' = Frame(game', ring')
    /\ UNCHANGED <<limit, phase, answers>>

-----------------------------------------------------------------------------
Next ==
    \/ \E s \in Seats \cup {Nil}, e \in Effects : Apply(s, e)
    \/ \E p \in game.prompts, e \in Effects : ResolveChoice(p, e)
    \/ \E a \in Seats \cup {Nil}, e \in Effects : ApplyBundle(a, e)
    \/ \E s \in Seats \cup {Nil}, h \in Humans \cup {Nil} : ApplyExternal(s, h)
    \/ \E l \in Limits : SetUndoLimit(l)
    \/ \E s \in Humans, over \in BOOLEAN : RemoveSeat(s, over)
    \/ \E p \in game.prompts, e \in Effects : AutoAnswer(p, e)
    \/ \E p \in game.prompts : AutoAnswerFails(p)
    \/ \E p \in game.prompts : AskByHand(p)
    \/ Settle
    \/ ReplayLoop
    \/ ReplayStops
    \/ \E c \in Humans \cup {Nil} : Undo(c)

Spec == Init /\ [][Next]_vars

-----------------------------------------------------------------------------
(* Properties.                                                             *)

TypeOK ==
    /\ game \in Game
    /\ limit \in Nat \cup {Unlimited}
    /\ ring \in Seq(Entry)
    /\ phase \in {"free", "answering"}
    /\ answers \in 0..MaxAutoAnswers
    /\ shown \in [game : Game, blocked : [Seats -> Blocked]]

(* The ring holds at most StackCap entries, a clone in exactly those that  *)
(* are no barrier, and clones only among its top SnapshotDepth entries:    *)
(* pushUndoLocked bounds the memory of a table, whatever is undone between *)
(* the pushes.                                                             *)
ClonesOnTop ==
    /\ Len(ring) <= StackCap
    /\ \A i \in 1..Len(ring) :
         /\ ring[i].barrier = "none" <=> ring[i].pre # NoClone
         /\ ring[i].pre # NoClone => i > Len(ring) - SnapshotDepth

(* The entry's stamp names who made the commit it takes back; only the     *)
(* admin's commits and a bot's improvisations are stamped with nobody, and *)
(* a bot's own play is behind a barrier.                                   *)
Owned(e, c) ==
    /\ c.kind # "external"
    /\ IF e.caller = Nil THEN c.by \in Bots \cup {Nil} ELSE c.by = e.caller
    /\ c.by \in Bots /\ c.kind = "play" => e.barrier # "none"

(* The entries of the ring are the last plays of the game's line, in their *)
(* order, with only entry-less commits between and after them; a clone is  *)
(* the game right before its play.  So the top entry always takes back the *)
(* latest play, whatever mix of plays, automatic answers, replays, undos   *)
(* and settings led here.                                                  *)
RingShadowsLine ==
    \A i \in 1..Len(ring) :
        LET at == ring[i].at
            next == IF i = Len(ring) THEN Len(game.line) ELSE ring[i + 1].at
        IN /\ at < Len(game.line)
           /\ \A j \in (i + 1)..Len(ring) : at < ring[j].at
           /\ Owned(ring[i], game.line[at + 1])
           /\ \A k \in (at + 2)..next : game.line[k].kind = "external"
           /\ ring[i].pre # NoClone => ring[i].pre.line = SubSeq(game.line, 1, at)

(* What an undo takes off the line.                                        *)
Rewound == {i \in 1..Len(game.line) : i > Len(game'.line)}

(* An undo takes back one play and the entry-less commits after it.  Nobody *)
(* takes back a bot's move; a seat takes back only its own play, an admin's *)
(* or a bot's improvisation, none that revealed a secret vote, and nothing  *)
(* once the game has ended (Room.undo's gates, ADR 0057, 0180 and 0194).   *)
SeatRewindsOnlyItsOwn ==
    [][\A c \in Humans \cup {Nil} : Undo(c) =>
          /\ Cardinality({i \in Rewound : game.line[i].kind # "external"}) = 1
          /\ \A i \in Rewound : ~(game.line[i].by \in Bots /\ game.line[i].kind = "play")
          /\ c # Nil =>
               /\ ~game.ended
               /\ \A i \in Rewound :
                    game.line[i].kind # "external" =>
                       /\ game.line[i].by \in {c, Nil} \cup Bots
                       /\ ~game.line[i].reveals]_vars

(* A seat the admin removed never comes back to the table: no clone from   *)
(* before its removal can be reached (ApplyExternalClearingUndo).          *)
RemovedSeatStaysOut == [][game'.seated \subseteq game.seated]_vars

(* Outside a commit no accepted loop is waiting, so a replay that was taken *)
(* back is never run again by the next commit (DiscardLoopRecording).      *)
LoopQuietWhenFree == phase = "free" => game.loop = Nil

(* The frame the clients hold says what undo would do: unless a refused    *)
(* undo left the frame behind, a seat's button is lit exactly when the     *)
(* stack would let that seat undo (stampUndoBlockedLocked against undo).   *)
StampTellsTheTruth ==
    phase = "free" /\ shown.game = game =>
       \A s \in game.seated \cap Humans :
          shown.blocked[s] = "" <=>
             /\ ring # <<>> /\ ~game.ended
             /\ Last(ring).barrier = "none"
             /\ Last(ring).caller \in {Nil, s}
             /\ ~RevealedSince(game, Last(ring))

(* The plays an undo reaches: of the entries above the highest barrier.    *)
HighestBarrier(r) == Max({0} \cup {i \in 1..Len(r) : r[i].barrier # "none"})
Reachable(r) == [i \in 1..(Len(r) - HighestBarrier(r)) |-> r[HighestBarrier(r) + i].at]

(* The ring of clones, barriers and caps keeps what Timeline promises: the *)
(* last SnapshotDepth plays since a bot's move or a removal can be taken   *)
(* back, newest first, and nothing else ever is ("a bot's move is never    *)
(* taken back, by anyone, and nothing before it can be reached", "undo     *)
(* only goes back 8 actions").                                             *)
History == INSTANCE Timeline WITH
    Commits <- CommitRecord, Depth <- SnapshotDepth,
    line <- game.line, open <- Reachable(ring), seated <- game.seated

KeepsTimeline == History!TSpec
=============================================================================
