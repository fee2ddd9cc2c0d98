---------------------------- MODULE LobbyTables ----------------------------
(***************************************************************************)
(* The tables of the lobby: their creation, their archiving and deletion,  *)
(* the boot that brings them back from their restore points under the cap  *)
(* on the load, and the hot restore of those the boot had no room for.     *)
(*                                                                         *)
(* A table is a row in the database, a restore point on disk, a room in    *)
(* the room manager and an entry in the lobby, written one after the       *)
(* other.  The lobby's lock (mu) covers deletions and what reads or writes *)
(* the entries; the restore pass registers rooms and reads rows without    *)
(* it.  A table keeps its weight; the seats of people, who are never       *)
(* refused, are not counted.                                               *)
(***************************************************************************)
EXTENDS Integers, FiniteSetsExt

CONSTANTS
    Tables,   \* the ids that tables are created with
    Weight,   \* what each table costs the load (capacity.TableCost)
    Cap,      \* Limits.MaxLoad
    None

Row == [open : BOOLEAN, archived : BOOLEAN]

ASSUME TablesAssumption == IsFiniteSet(Tables) /\ None \notin Tables /\ None \notin Row
ASSUME LoadAssumption == Cap \in Nat /\ Weight \in [Tables -> Nat]

Pass == [at : {"idle", "read", "rebuilding", "adopting"},
         files : SUBSET Tables, rooms : SUBSET Tables, keep : SUBSET Tables,
         blind : BOOLEAN, held : Nat, loading : Tables \cup {None}, copy : Row]
Lock == [op : {"free", "delete", "delete unresident", "unload"}, table : Tables \cup {None}]

VARIABLES
    row,       \* the games row of each table, or None
    file,      \* its restore point is on disk
    verdict,   \* what this binary makes of it: "restorable", "newer", "bad"
    room,      \* RoomManager.rooms
    entry,     \* Lobby.games: "none", "live" or "archived"
    reserved,  \* Lobby.reserved
    creating,  \* where the request that creates the table is
    pass,      \* the restore pass, of the boot or of an admin (restoreMu)
    mu,        \* the operation that is between two steps under Lobby.mu
    serving,   \* the boot is over
    exempt,    \* live tables whose weight no one asked the cap for
    deleted    \* tables an admin has deleted

disk == <<row, file>>
lobby == <<entry, reserved, exempt>>
vars == <<disk, verdict, room, lobby, creating, pass, mu, serving, deleted>>

IdlePass == [at |-> "idle", files |-> {}, rooms |-> {}, keep |-> {}, blind |-> FALSE,
             held |-> 0, loading |-> None, copy |-> [open |-> TRUE, archived |-> FALSE]]
Free == [op |-> "free", table |-> None]

Cost(S) == MapThenSumSet(LAMBDA t : Weight[t], S)
Live == {t \in Tables : entry[t] = "live"}

(* loadLocked and Fits: the live entries, and what is reserved.            *)
Load == Cost(Live) + reserved
Fits(used, cost) == used + cost <= Cap

-----------------------------------------------------------------------------
(* A first boot, of an empty server.                                       *)
Init ==
    /\ row = [t \in Tables |-> None]
    /\ file = [t \in Tables |-> FALSE]
    /\ verdict = [t \in Tables |-> "restorable"]
    /\ room = [t \in Tables |-> FALSE]
    /\ entry = [t \in Tables |-> "none"]
    /\ reserved = 0
    /\ creating = [t \in Tables |-> "no"]
    /\ pass = IdlePass /\ mu = Free
    /\ serving = FALSE
    /\ exempt = {} /\ deleted = {}

-----------------------------------------------------------------------------
(* Create: the cost is reserved, and the room is made; ...                 *)
BeginCreate(t) ==
    /\ serving /\ mu = Free
    /\ creating[t] = "no"
    /\ Fits(Load, Weight[t])
    /\ reserved' = reserved + Weight[t]
    /\ room' = [room EXCEPT ![t] = TRUE]
    /\ creating' = [creating EXCEPT ![t] = "row"]
    /\ UNCHANGED <<disk, verdict, entry, exempt, pass, mu, serving, deleted>>

WriteRow(t) ==
    /\ creating[t] = "row"
    /\ row' = [row EXCEPT ![t] = [open |-> TRUE, archived |-> FALSE]]
    /\ creating' = [creating EXCEPT ![t] = "entry"]
    /\ UNCHANGED <<file, verdict, room, lobby, pass, mu, serving, deleted>>

(* Mutant: a failed create keeps its reservation.                          *)
FailCreateHolds(t) ==
    /\ creating[t] = "row"
    /\ mu = Free
    /\ room' = [room EXCEPT ![t] = FALSE]
    /\ file' = [file EXCEPT ![t] = FALSE]
    /\ creating' = [creating EXCEPT ![t] = "done"]
    /\ UNCHANGED <<row, verdict, entry, reserved, exempt, pass, mu, serving, deleted>>

(* ... a row that cannot be written fails the create; ...                  *)
FailCreate(t) ==
    /\ creating[t] = "row"
    /\ mu = Free
    /\ room' = [room EXCEPT ![t] = FALSE]
    /\ file' = [file EXCEPT ![t] = FALSE]
    /\ reserved' = reserved - Weight[t]
    /\ creating' = [creating EXCEPT ![t] = "done"]
    /\ UNCHANGED <<row, verdict, entry, exempt, pass, mu, serving, deleted>>

(* Mutant: the reservation is given back with the entry and on return.     *)
PublishReleasesTwice(t) ==
    /\ creating[t] = "entry"
    /\ mu = Free
    /\ entry' = [entry EXCEPT ![t] = "live"]
    /\ reserved' = reserved - 2 * Weight[t]
    /\ creating' = [creating EXCEPT ![t] = "done"]
    /\ UNCHANGED <<disk, verdict, room, exempt, pass, mu, serving, deleted>>

(* ... and the entry takes the place of the reservation.                   *)
Publish(t) ==
    /\ creating[t] = "entry"
    /\ mu = Free
    /\ entry' = [entry EXCEPT ![t] = "live"]
    /\ reserved' = reserved - Weight[t]
    /\ creating' = [creating EXCEPT ![t] = "done"]
    /\ UNCHANGED <<disk, verdict, room, exempt, pass, mu, serving, deleted>>

(* A commit of the room's, and its restore point.                          *)
WriteFile(t) ==
    /\ serving
    /\ room[t] /\ entry[t] # "none"
    /\ ~file[t]
    /\ file' = [file EXCEPT ![t] = TRUE]
    /\ UNCHANGED <<row, verdict, room, lobby, creating, pass, mu, serving, deleted>>

-----------------------------------------------------------------------------
(* SetArchived, of a table with an entry, whose row is written whole, and  *)
(* that it could not be is only logged.  No cap is asked when a table is   *)
(* taken out of the archive.                                               *)
SetArchived(t, archived) ==
    /\ serving /\ mu = Free
    /\ entry[t] = (IF archived THEN "live" ELSE "archived")
    /\ entry' = [entry EXCEPT ![t] = IF archived THEN "archived" ELSE "live"]
    /\ row' \in {row, IF row[t] = None THEN row
                      ELSE [row EXCEPT ![t] = [open |-> TRUE, archived |-> archived]]}
    /\ exempt' = (IF archived THEN exempt \ {t} ELSE exempt \cup {t})
    /\ UNCHANGED <<file, verdict, room, reserved, creating, pass, mu, serving, deleted>>

(* Of a row without an entry.                                              *)
SetArchivedUnresident(t, archived) ==
    /\ serving /\ mu = Free
    /\ entry[t] = "none"
    /\ row[t] # None /\ row[t].archived # archived
    /\ row' = [row EXCEPT ![t].archived = archived]
    /\ exempt' = (IF archived THEN exempt ELSE exempt \cup {t})
    /\ UNCHANGED <<file, verdict, room, entry, reserved, creating, pass, mu, serving, deleted>>

(* The idle sweep lets a table go that it archived long enough ago: the    *)
(* row is written ended, ...                                               *)
BeginUnload(t) ==
    /\ serving /\ mu = Free
    /\ entry[t] = "archived"
    /\ row' \in {row, IF row[t] = None THEN row
                      ELSE [row EXCEPT ![t] = [open |-> FALSE, archived |-> TRUE]]}
    /\ mu' = [op |-> "unload", table |-> t]
    /\ UNCHANGED <<file, verdict, room, lobby, creating, pass, serving, deleted>>

(* ... then the entry, the room and the restore point go.                  *)
FinishUnload(t) ==
    /\ mu = [op |-> "unload", table |-> t]
    /\ entry' = [entry EXCEPT ![t] = "none"]
    /\ room' = [room EXCEPT ![t] = FALSE]
    /\ file' = [file EXCEPT ![t] = FALSE]
    /\ mu' = Free
    /\ UNCHANGED <<row, verdict, reserved, exempt, creating, pass, serving, deleted>>

-----------------------------------------------------------------------------
(* Mutant: the restore point is left to the next boot.                     *)
BeginDeleteKeepsFile(t) ==
    /\ serving /\ mu = Free
    /\ entry[t] # "none"
    /\ entry' = [entry EXCEPT ![t] = "none"]
    /\ exempt' = exempt \ {t}
    /\ room' = [room EXCEPT ![t] = FALSE]
    /\ mu' = [op |-> "delete", table |-> t]
    /\ UNCHANGED <<disk, verdict, reserved, creating, pass, serving, deleted>>

(* Delete, of a table with an entry: the entry and the room's files, ...   *)
BeginDelete(t) ==
    /\ serving /\ mu = Free
    /\ entry[t] # "none"
    /\ entry' = [entry EXCEPT ![t] = "none"]
    /\ exempt' = exempt \ {t}
    /\ room' = [room EXCEPT ![t] = FALSE]
    /\ file' = [file EXCEPT ![t] = FALSE]
    /\ mu' = [op |-> "delete", table |-> t]
    /\ UNCHANGED <<row, verdict, reserved, creating, pass, serving, deleted>>

(* ... then the rows.  That they could not be deleted is only logged.      *)
FinishDelete(t) ==
    /\ mu = [op |-> "delete", table |-> t]
    /\ row' \in {row, [row EXCEPT ![t] = None]}
    /\ deleted' = deleted \cup {t}
    /\ mu' = Free
    /\ UNCHANGED <<file, verdict, room, lobby, creating, pass, serving>>

(* Of a row without an entry: the rows, then the room's files.             *)
BeginDeleteUnresident(t) ==
    /\ serving /\ mu = Free
    /\ entry[t] = "none" /\ row[t] # None
    /\ row' = [row EXCEPT ![t] = None]
    /\ mu' = [op |-> "delete unresident", table |-> t]
    /\ UNCHANGED <<file, verdict, room, lobby, creating, pass, serving, deleted>>

FinishDeleteUnresident(t) ==
    /\ mu = [op |-> "delete unresident", table |-> t]
    /\ room' = [room EXCEPT ![t] = FALSE]
    /\ file' = [file EXCEPT ![t] = FALSE]
    /\ deleted' = deleted \cup {t}
    /\ mu' = Free
    /\ UNCHANGED <<row, verdict, lobby, creating, pass, serving>>

-----------------------------------------------------------------------------
(* Mutant: a restore point is read whether or not its table is live.       *)
ReadFilesOfLive(S) ==
    /\ pass.at = "idle"
    /\ S \subseteq {t \in Tables : file[t]}
    /\ pass' = [IdlePass EXCEPT !.at = "read", !.files = S,
                                !.blind = \E t \in Tables \ S : file[t]]
    /\ UNCHANGED <<disk, verdict, room, lobby, creating, mu, serving, deleted>>

(* The restore pass of the boot, or of RestoreDeferred: it reads the       *)
(* restore points of the tables without a room, but for those that cannot  *)
(* be read.                                                                *)
ReadFiles(S) ==
    /\ pass.at = "idle"
    /\ S \subseteq {t \in Tables : file[t] /\ ~room[t]}
    /\ pass' = [IdlePass EXCEPT !.at = "read", !.files = S,
                                !.blind = \E t \in Tables \ S : file[t] /\ ~room[t]]
    /\ UNCHANGED <<disk, verdict, room, lobby, creating, mu, serving, deleted>>

(* rowRetired: archived, ended, or no row at all.                          *)
Retired(t) == row[t] = None \/ row[t].archived \/ ~row[t].open

(* First-fit: what is admitted fits, and nothing of the rest would still.  *)
FirstFit(queue) ==
    {A \in SUBSET queue :
        /\ Fits(Load, Cost(A)) \/ A = {}
        /\ \A t \in queue \ A : ~Fits(Load + Cost(A), Weight[t])}

(* Mutant: the hot pass admits without reserving, like the boot.           *)
AdmitUnreserved ==
    /\ pass.at = "read" /\ mu = Free
    /\ LET queue == {t \in pass.files : ~Retired(t)} IN
       \E A \in FirstFit(queue) :
         /\ pass' = [pass EXCEPT !.at = "rebuilding", !.files = @ \ (queue \ A),
                                 !.keep = queue \ A, !.held = 0]
         /\ exempt' = exempt \ A
         /\ UNCHANGED reserved
    /\ UNCHANGED <<disk, verdict, room, entry, creating, mu, serving, deleted>>

(* Mutant: the deferred tables are not kept out of the boot's tidy-up.     *)
AdmitForgets ==
    /\ pass.at = "read" /\ mu = Free
    /\ LET queue == {t \in pass.files : ~Retired(t)} IN
       \E A \in FirstFit(queue) :
         /\ pass' = [pass EXCEPT !.at = "rebuilding", !.files = @ \ (queue \ A),
                                 !.held = IF serving THEN Cost(A) ELSE 0]
         /\ exempt' = exempt \ A
         /\ reserved' = reserved + pass'.held
    /\ UNCHANGED <<disk, verdict, room, entry, creating, mu, serving, deleted>>

(* The admission, in the order of who waits longest, which is data here:   *)
(* the rest is deferred, and the hot pass reserves what it admits.         *)
Admit ==
    /\ pass.at = "read" /\ mu = Free
    /\ LET queue == {t \in pass.files : ~Retired(t)} IN
       \E A \in FirstFit(queue) :
         /\ pass' = [pass EXCEPT !.at = "rebuilding", !.files = @ \ (queue \ A),
                                 !.keep = queue \ A, !.held = IF serving THEN Cost(A) ELSE 0]
         /\ exempt' = exempt \ A
         /\ reserved' = reserved + pass'.held
    /\ UNCHANGED <<disk, verdict, room, entry, creating, mu, serving, deleted>>

(* restoreFile: the room is rebuilt and registered.  A restore point of a  *)
(* newer binary is kept for it.                                            *)
Rebuild(t) ==
    /\ pass.at = "rebuilding" /\ t \in pass.files
    /\ IF verdict[t] = "restorable"
         THEN /\ room' = [room EXCEPT ![t] = TRUE]
              /\ pass' = [pass EXCEPT !.files = @ \ {t}, !.rooms = @ \cup {t}]
         ELSE /\ pass' = [pass EXCEPT !.files = @ \ {t},
                            !.keep = IF verdict[t] = "newer" THEN @ \cup {t} ELSE @]
              /\ UNCHANGED room
    /\ UNCHANGED <<disk, verdict, lobby, creating, mu, serving, deleted>>

EndRebuild ==
    /\ pass.at = "rebuilding" /\ pass.files = {}
    /\ pass' = [pass EXCEPT !.at = "adopting"]
    /\ UNCHANGED <<disk, verdict, room, lobby, creating, mu, serving, deleted>>

(* adoptRestored, once per room: the row is read without the lobby's lock, *)
LoadEntry(t) ==
    /\ pass.at = "adopting" /\ pass.loading = None
    /\ t \in pass.rooms /\ row[t] # None
    /\ pass' = [pass EXCEPT !.rooms = @ \ {t}, !.loading = t, !.copy = row[t]]
    /\ UNCHANGED <<disk, verdict, room, lobby, creating, mu, serving, deleted>>

(* Mutant: a room whose row is gone stays registered.                      *)
FailLoadKeepsRoom(t) ==
    /\ pass.at = "adopting" /\ pass.loading = None
    /\ t \in pass.rooms
    /\ pass' = [pass EXCEPT !.rooms = @ \ {t}]
    /\ UNCHANGED <<disk, verdict, room, lobby, creating, mu, serving, deleted>>

(* a room whose row is missing, or cannot be read, goes with its files,    *)
FailLoad(t) ==
    /\ pass.at = "adopting" /\ pass.loading = None
    /\ t \in pass.rooms
    /\ pass' = [pass EXCEPT !.rooms = @ \ {t}]
    /\ room' = [room EXCEPT ![t] = FALSE]
    /\ file' = [file EXCEPT ![t] = FALSE]
    /\ UNCHANGED <<row, verdict, lobby, creating, mu, serving, deleted>>

(* and the entry made of it is put in the lobby; the row of a game that is *)
(* running says so again.                                                  *)
Adopt(t) ==
    /\ pass.loading = t /\ mu = Free
    /\ pass' = [pass EXCEPT !.loading = None]
    /\ entry' = [entry EXCEPT ![t] = IF pass.copy.archived THEN "archived" ELSE "live"]
    /\ exempt' = (IF pass.copy.open THEN exempt ELSE exempt \cup {t})
    /\ row' \in {row, IF row[t] = None \/ pass.copy.open THEN row
                      ELSE [row EXCEPT ![t] = [pass.copy EXCEPT !.open = TRUE]]}
    /\ UNCHANGED <<file, verdict, room, reserved, creating, mu, serving, deleted>>

(* The hot pass gives its reservation back; the boot closes the rows that  *)
(* nothing came back for, unless some file could not be read.              *)
EndPass ==
    /\ pass.at = "adopting" /\ pass.rooms = {} /\ pass.loading = None
    /\ mu = Free
    /\ pass' = IdlePass
    /\ reserved' = reserved - pass.held
    /\ serving' = TRUE
    /\ IF serving \/ pass.blind
         THEN UNCHANGED row
         ELSE row' = [t \in Tables |->
                        IF row[t] # None /\ entry[t] = "none" /\ t \notin pass.keep
                          THEN [row[t] EXCEPT !.open = FALSE] ELSE row[t]]
    /\ UNCHANGED <<file, verdict, room, entry, exempt, creating, mu, deleted>>

-----------------------------------------------------------------------------
(* The process stops at any step; the next binary may be older or newer.   *)
Crash ==
    /\ verdict' \in [Tables -> {"restorable", "newer", "bad"}]
    /\ room' = [t \in Tables |-> FALSE]
    /\ entry' = [t \in Tables |-> "none"]
    /\ reserved' = 0 /\ exempt' = {}
    /\ creating' = [t \in Tables |-> IF creating[t] = "no" THEN "no" ELSE "done"]
    /\ pass' = IdlePass /\ mu' = Free
    /\ serving' = FALSE
    /\ UNCHANGED <<disk, deleted>>

Next ==
    \/ \E t \in Tables :
         \/ BeginCreate(t) \/ WriteRow(t) \/ FailCreate(t) \/ Publish(t) \/ WriteFile(t)
         \/ \E archived \in BOOLEAN : SetArchived(t, archived) \/ SetArchivedUnresident(t, archived)
         \/ BeginUnload(t) \/ FinishUnload(t)
         \/ BeginDelete(t) \/ FinishDelete(t)
         \/ BeginDeleteUnresident(t) \/ FinishDeleteUnresident(t)
         \/ Rebuild(t) \/ LoadEntry(t) \/ FailLoad(t) \/ Adopt(t)
    \/ \E S \in SUBSET Tables : ReadFiles(S)
    \/ Admit \/ EndRebuild \/ EndPass
    \/ Crash

Spec == Init /\ [][Next]_vars

-----------------------------------------------------------------------------
TypeOK ==
    /\ row \in [Tables -> Row \cup {None}]
    /\ file \in [Tables -> BOOLEAN]
    /\ verdict \in [Tables -> {"restorable", "newer", "bad"}]
    /\ room \in [Tables -> BOOLEAN]
    /\ entry \in [Tables -> {"none", "live", "archived"}]
    /\ reserved \in Nat
    /\ creating \in [Tables -> {"no", "row", "entry", "done"}]
    /\ pass \in Pass /\ mu \in Lock
    /\ serving \in BOOLEAN
    /\ exempt \subseteq Tables /\ deleted \subseteq Tables

(* "So a table created at the same moment cannot push the load past it"    *)
(* (docs/lobby.md): the tables that had to ask the cap fit under it,       *)
(* through creates and a hot restore that overlap, and restarts.           *)
LoadFits == Cost(Live \ exempt) <= Cap

(* What is reserved is given back: with no create and no pass under way    *)
(* the whole cap is there to be used again.                                *)
ReservationsReturn ==
    (\A t \in Tables : creating[t] \in {"no", "done"}) /\ pass.at = "idle" => reserved = 0

(* A pass never replaces a room that is in use with its older self.        *)
LiveRoomIsNotReplaced == [][\A t \in Tables : Rebuild(t) => ~room[t] /\ entry[t] = "none"]_vars

(* A table the lobby had no room for, or this binary cannot read yet, is   *)
(* not lost: its restore point and its open row go only when the table is  *)
(* deleted, its rows cannot be loaded, or this binary can make nothing of  *)
(* it.                                                                     *)
Waiting(t) == file[t] /\ row[t] # None /\ row[t].open /\ entry[t] = "none"
NothingIsLostWaiting ==
    [][\A t \in Tables :
         Waiting(t) => \/ file'[t] /\ row'[t] # None /\ row'[t].open
                       \/ BeginDeleteUnresident(t) \/ FailLoad(t)
                       \/ verdict[t] = "bad"]_vars

(* A restore pass that loses the race with a deletion leaves nothing       *)
(* behind: when neither is under way, a deleted table has no room and no   *)
(* restore point.                                                          *)
RaceLeavesNothing ==
    pass.at = "idle" /\ mu = Free => \A t \in deleted : ~room[t] /\ ~file[t]

(* No boot brings back a table that was deleted, whatever part of its      *)
(* deletion failed.                                                        *)
NoBootBringsBackDeleted ==
    [][~serving => \A t \in deleted : entry'[t] = "none"]_vars

(* "Delete removes the game from both the lobby registry and the           *)
(* underlying RoomManager" (lobby.go): the lobby lists no deleted table.   *)
DeletedIsGone == \A t \in deleted : entry[t] = "none"
=============================================================================
