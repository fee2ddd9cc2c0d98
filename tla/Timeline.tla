------------------------------ MODULE Timeline ------------------------------
(***************************************************************************)
(* What undo promises of a table's history (ADR 0194, the two decisions of *)
(* its owner, and ADR 0057): the newest play is taken back first, as far   *)
(* as Depth plays deep and never past a bot's move or the removal of a     *)
(* seat; whatever came out of reach once stands for good.                  *)
(***************************************************************************)
EXTENDS Naturals, Sequences

CONSTANTS
    Seats, Bots,  \* of the table; a bot's own moves are final
    Commits,      \* [by, kind, ...]; one of kind "external" is no play
    Depth         \* plays that can be taken back in a row

VARIABLES
    line,   \* the commits that led to the game as it is
    open,   \* the plays that can be taken back, each by what it came after
    seated  \* the seats in the game

tvars == <<line, open, seated>>

TInit == line = <<>> /\ open = <<>> /\ seated = Seats

Newest(plays) == IF Len(plays) > Depth THEN Tail(plays) ELSE plays
Final(c) == c.by \in Bots /\ c.kind = "play"

Play ==
    \E c \in Commits :
       /\ c.kind # "external"
       /\ line' = Append(line, c)
       /\ open' = IF Final(c) THEN <<>> ELSE Newest(Append(open, Len(line)))
       /\ UNCHANGED seated

(* A settings patch, a spawn, an accepted proposal: nothing to take back,  *)
(* and gone with the play before it.                                       *)
External ==
    \E c \in Commits :
       /\ c.kind = "external"
       /\ line' = Append(line, c)
       /\ UNCHANGED <<open, seated>>

Remove ==
    \E c \in Commits, s \in seated :
       /\ c.kind = "external"
       /\ line' = Append(line, c)
       /\ open' = <<>>
       /\ seated' = seated \ {s}

TakeBack ==
    /\ open # <<>>
    /\ line' = SubSeq(line, 1, open[Len(open)])
    /\ open' = SubSeq(open, 1, Len(open) - 1)
    /\ UNCHANGED seated

TNext == Play \/ External \/ Remove \/ TakeBack

TSpec == TInit /\ [][TNext]_tvars

(* What stands for good: it is never shorter, nor another.                 *)
Standing == IF open = <<>> THEN Len(line) ELSE open[1]
Stands == /\ Standing <= Standing'
          /\ SubSeq(line', 1, Standing) = SubSeq(line, 1, Standing)
StandsForGood == [][Stands]_tvars
=============================================================================
