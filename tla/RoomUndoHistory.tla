-------------------------- MODULE RoomUndoHistory --------------------------
(***************************************************************************)
(* RoomUndo with what happened: history variables, which no action reads.  *)
(***************************************************************************)
EXTENDS RoomUndo

VARIABLES
    spent,      \* undos charged to a seat since its budget was last refreshed
    lastUndone  \* the open prompt whose automatic answer the latest undo took back

history == <<spent, lastUndone>>
hvars == <<vars, history>>

HInit ==
    /\ Init
    /\ spent = [s \in Seats |-> 0]
    /\ lastUndone = {}

(* A commit that begins s's turn, or a patch naming UndoLimit, refreshes.  *)
Refreshes(s, e) == e.turn = s

HApply(s, e) == Apply(s, e) \/ ApplyBundle(s, e)

HCommit ==
    \/ \E e \in Effects :
         /\ \/ \E s \in Seats \cup {Nil} : HApply(s, e)
            \/ \E p \in game.prompts : ResolveChoice(p, e) \/ AutoAnswer(p, e)
         /\ spent' = [s \in Seats |-> IF Refreshes(s, e) THEN 0 ELSE spent[s]]
         /\ UNCHANGED lastUndone
    \/ /\ \E l \in Limits : SetUndoLimit(l)
       /\ spent' = [s \in Seats |-> 0]
       /\ UNCHANGED lastUndone
    \/ /\ \/ \E s \in Seats \cup {Nil}, h \in Humans \cup {Nil} : ApplyExternal(s, h)
          \/ \E s \in Humans, over \in BOOLEAN : RemoveSeat(s, over)
          \/ \E p \in game.prompts : AutoAnswerFails(p) \/ AskByHand(p)
          \/ Settle \/ ReplayLoop \/ ReplayStops
       /\ UNCHANGED history

(* spent counts one past the limit and no further.                         *)
HUndo(c) ==
    /\ Undo(c)
    /\ spent' = IF Charged(c) /\ limit # Unlimited /\ spent[c] <= limit
                  THEN [spent EXCEPT ![c] = @ + 1] ELSE spent
    /\ lastUndone' = {Last(ring).answered} \ {Nil}

HNext == HCommit \/ \E c \in Humans \cup {Nil} : HUndo(c)

HSpec == HInit /\ [][HNext]_hvars

(* The prompt the latest undo reopened is answered by its player: no       *)
(* commit after the undo answers it automatically (ADR 0127, section 6).   *)
UndoneStaysByHand == lastUndone \cap Answerable(game) = {}

(* docs/lobby.md says undo_limit is a seat's undo budget per turn: no seat *)
(* is charged more undos than the limit between two refreshes.             *)
SpentWithinLimit ==
    limit # Unlimited => \A s \in Humans : spent[s] <= limit
=============================================================================
