----------------------------- MODULE MCRoomUndo -----------------------------
(* RoomUndo on small tables.                                               *)
EXTENDS RoomUndo

CONSTANTS h1, h2, b1

Asks(s) == [Plain EXCEPT !.asks = s]
Turn(s) == [Plain EXCEPT !.turn = s]

MCHumans == {h1, h2}
MCBots == {b1}
MCNoBots == {}
People == Permutations(MCHumans)

PlainOnly == {Plain}

(* A table with a bot: plays that end the game, reveal a vote, or ask for  *)
(* something a standing answer is kept for.                                *)
RingEffects == {Plain, [Plain EXCEPT !.ends = TRUE], [Plain EXCEPT !.reveals = TRUE]}
                  \cup {Asks(<<h>>) : h \in MCHumans}
(* Turns begin.                                                            *)
TurnEffects == {Plain, Turn(h1), Turn(h2)}

OneLimit == {1}
NoLimit == {Unlimited}
=============================================================================
