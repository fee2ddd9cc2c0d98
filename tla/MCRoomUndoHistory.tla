------------------------- MODULE MCRoomUndoHistory -------------------------
(* RoomUndoHistory on the tables of MCRoomUndo.                            *)
EXTENDS RoomUndoHistory, MCRoomUndo
=============================================================================
