------------------------- MODULE DurableTable_proofs -------------------------
(* What a durable table saves.                                             *)
EXTENDS DurableTable, TLAPS

IInv ==
    /\ live \in States \cup {None}
    /\ clean \in States \cup {None}
    /\ saved \in States \cup {None}
    /\ SavedIsClean
    /\ clean # None => clean.clean
    /\ live # None /\ clean # None => clean.id <= live.id
    /\ live # None /\ saved # None => saved.id <= live.id

(* What is saved is clean, and never newer than the newest clean state of  *)
(* a running table: a restart brings back no state the table was not in.   *)
THEOREM SavedIsCleanAlways ==
    ASSUME None \notin States
    PROVE  DSpec => []SavedIsClean
<1>1. DInit => IInv
  BY DEF DInit, IInv, SavedIsClean, States
<1>2. IInv /\ [DNext]_dvars => IInv'
  <2> SUFFICES ASSUME IInv, [DNext]_dvars PROVE IInv'
    OBVIOUS
  <2> USE DEF IInv, SavedIsClean, States
  <2>1. CASE Play
    BY <2>1 DEF Play
  <2>2. CASE Save
    BY <2>2 DEF Save
  <2>3. CASE GiveUp
    BY <2>3 DEF GiveUp
  <2>4. CASE Stop
    BY <2>4 DEF Stop
  <2>5. CASE Discard
    BY <2>5 DEF Discard
  <2>6. CASE Restart
    BY <2>6 DEF Restart
  <2>7. CASE UNCHANGED dvars
    BY <2>7 DEF dvars
  <2> QED BY <2>1, <2>2, <2>3, <2>4, <2>5, <2>6, <2>7 DEF DNext
<1>3. IInv => SavedIsClean
  BY DEF IInv
<1> QED BY <1>1, <1>2, <1>3, PTL DEF DSpec
=============================================================================
