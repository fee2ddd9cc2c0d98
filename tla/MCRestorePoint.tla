--------------------------- MODULE MCRestorePoint ---------------------------
(* RestorePoint for one table.  Identities are bounded by the commits.     *)
EXTENDS RestorePoint
=============================================================================
