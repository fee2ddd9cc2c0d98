---------------------------- MODULE DurableTable ----------------------------
(***************************************************************************)
(* What restore points promise of one table (ADR 0041): a restart brings   *)
(* back a clean state of the table, one that holds no continuations, always *)
(* the newest there was when it was saved; a saved state is replaced only  *)
(* by a newer one of the running table, and given up only once the table   *)
(* has ended or is gone from memory.                                       *)
(***************************************************************************)
EXTENDS Naturals

CONSTANT None  \* no state

VARIABLES
    live,   \* the state of the running table, None while there is none
    clean,  \* the newest clean state the table has been in
    saved   \* the state a restart brings back

dvars == <<live, clean, saved>>

States == [id : Nat, ended : BOOLEAN, clean : BOOLEAN]

DInit ==
    /\ live = [id |-> 0, ended |-> FALSE, clean |-> FALSE]
    /\ clean = None
    /\ saved = None

(* A commit makes a newer state.  One that ends the table on a state that  *)
(* is not clean leaves nothing to bring back.                              *)
Play ==
    /\ live # None
    /\ live' \in States
    /\ live'.id > live.id
    /\ clean' = IF live'.clean THEN live' ELSE IF live'.ended THEN None ELSE clean
    /\ UNCHANGED saved

(* The newest clean state is saved.                                        *)
Save ==
    /\ live # None
    /\ clean # None
    /\ saved' = clean
    /\ UNCHANGED <<live, clean>>

(* The saved state of an ended table is given up.                          *)
GiveUp ==
    /\ live # None
    /\ live.ended
    /\ saved' = None
    /\ UNCHANGED <<live, clean>>

(* The table leaves memory: a crash, a shutdown or its deletion.           *)
Stop ==
    /\ live' = None
    /\ UNCHANGED <<clean, saved>>

(* A table that is not running is deleted, or let go.                      *)
Discard ==
    /\ live = None
    /\ saved' = None
    /\ UNCHANGED <<live, clean>>

Restart ==
    /\ live = None
    /\ saved # None
    /\ live' = saved
    /\ clean' = saved
    /\ UNCHANGED saved

DNext == Play \/ Save \/ GiveUp \/ Stop \/ Discard \/ Restart

DSpec == DInit /\ [][DNext]_dvars

(* What is saved was clean, and is not newer than the newest clean state   *)
(* of a running table, unless that table ended on a state that is not.     *)
SavedIsClean ==
    /\ saved # None => saved.clean
    /\ live # None /\ clean # None /\ saved # None => saved.id <= clean.id
=============================================================================
