-------------------------- MODULE MCLobbyTables --------------------------
(* A small table and one that takes the whole cap.                         *)
EXTENDS LobbyTables, TLC

CONSTANTS t1, t2

MCTables == {t1, t2}
MCWeight == t1 :> 1 @@ t2 :> 2
=============================================================================
