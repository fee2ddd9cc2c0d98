------------------------- MODULE LobbyTables_proofs -------------------------
(***************************************************************************)
(* Restoring tables never replaces a live room, never brings a deleted     *)
(* table back at a boot, leaves nothing of one behind and loses nothing    *)
(* that waits, for any number of tables, any weights and any cap.  What is *)
(* reserved, a sum over the creates and the pass under way, is the subject *)
(* of LobbyLoad_proofs.                                                    *)
(***************************************************************************)
EXTENDS LobbyTables, TLAPS

(* The types of what the invariant speaks of.  The pass is a record, and   *)
(* what it holds in reserve may be anything.                               *)
PassShape ==
    /\ pass = [at |-> pass.at, files |-> pass.files, rooms |-> pass.rooms, keep |-> pass.keep,
               blind |-> pass.blind, held |-> pass.held, loading |-> pass.loading,
               copy |-> pass.copy]
    /\ pass.at \in {"idle", "read", "rebuilding", "adopting"}
    /\ pass.files \subseteq Tables /\ pass.rooms \subseteq Tables
    /\ pass.loading \in Tables \cup {None} /\ pass.copy \in Row
Types ==
    /\ row \in [Tables -> Row \cup {None}] /\ file \in [Tables -> BOOLEAN]
    /\ room \in [Tables -> BOOLEAN] /\ verdict \in [Tables -> {"restorable", "newer", "bad"}]
    /\ entry \in [Tables -> {"none", "live", "archived"}]
    /\ creating \in [Tables -> {"no", "row", "entry", "done"}]
    /\ mu \in Lock /\ deleted \subseteq Tables /\ serving \in BOOLEAN
    /\ PassShape

InPass(t) == t \in pass.files \/ t \in pass.rooms \/ pass.loading = t

(* A table is not on disk, not in the lobby and not in a pass before the   *)
(* request that creates it is through; ...                                 *)
Created ==
    \A t \in Tables :
        /\ creating[t] # "done" => ~file[t] /\ entry[t] = "none" /\ ~InPass(t)
        /\ creating[t] \in {"no", "row"} => row[t] = None
        /\ creating[t] = "no" => ~room[t] /\ t \notin deleted

(* ... the pass goes through its stages one after the other; ...           *)
Stages ==
    /\ pass.files # {} => pass.at \in {"read", "rebuilding"}
    /\ pass.rooms # {} => pass.at \in {"rebuilding", "adopting"}
    /\ pass.loading # None => pass.at = "adopting"
    /\ pass.files \cap pass.rooms = {}
    /\ pass.loading \notin pass.rooms

(* ... what it brings back is in the lobby last, and has no room first,    *)
(* and no room goes without its restore point; ...                         *)
Absent ==
    \A t \in Tables :
        /\ InPass(t) => entry[t] = "none"
        /\ t \in pass.files => ~room[t]
        /\ entry[t] # "none" \/ t \in pass.rooms \/ pass.loading = t => room[t] \/ ~file[t]

(* ... a deletion that is half done has taken the row, or all the rest; ...*)
HalfDeleted ==
    \A t \in Tables :
        /\ mu.op = "delete unresident" /\ mu.table = t =>
             row[t] = None /\ creating[t] \in {"entry", "done"}
        /\ mu.op = "delete" /\ mu.table = t =>
             /\ ~room[t] /\ ~file[t] /\ entry[t] = "none" /\ creating[t] = "done"
             /\ ~InPass(t)

(* ... and a deleted table is at most a room that a pass is about to find  *)
(* no row for, and in a boot not even that.                                *)
Gone ==
    \A t \in deleted :
        /\ ~file[t]
        /\ room[t] => t \in pass.rooms
        /\ t \in pass.files \cup pass.rooms => row[t] = None
BootIsAlone ==
    ~serving => /\ mu = Free
                /\ \A t \in Tables : creating[t] \in {"no", "done"}
                /\ \A t \in deleted : entry[t] = "none" /\ ~room[t] /\ ~InPass(t)

(* The boot's pass accounts for every restore point there is, if it could  *)
(* read them all; and only an archived table is unloaded.                  *)
Accounted ==
    /\ pass.at = "read" => pass.keep = {}
    /\ ~serving /\ pass.at \in {"idle", "read"} => \A t \in Tables : ~room[t]
    /\ ~serving /\ pass.at # "idle" /\ ~pass.blind =>
         \A t \in Tables : file[t] /\ entry[t] = "none" =>
                            InPass(t) \/ t \in pass.keep \/ verdict[t] = "bad"
    /\ \A t \in Tables : mu.op = "unload" /\ mu.table = t => entry[t] = "archived"

IInv == /\ Types /\ Created /\ Stages /\ Absent /\ HalfDeleted /\ Gone
        /\ BootIsAlone /\ Accounted

-----------------------------------------------------------------------------
(* A row that is written or changed is one.                                *)
LEMMA Rows == /\ \A o, a \in BOOLEAN : [open |-> o, archived |-> a] \in Row
              /\ \A r \in Row, o \in BOOLEAN : /\ [r EXCEPT !.open = o] \in Row
                                               /\ [r EXCEPT !.archived = o] \in Row
BY DEF Row

(* A deletion half done is so still if the pass takes only what there is.  *)
LEMMA HalfKept ==
    ASSUME HalfDeleted, UNCHANGED <<row, entry, creating, mu>>,
           \A u \in Tables : /\ InPass(u)' => InPass(u) \/ file[u]
                             /\ room'[u] => room[u] \/ InPass(u)
                             /\ file'[u] => file[u]
    PROVE  HalfDeleted'
BY DEF HalfDeleted

(* Creation, and the commits of a table's room.                            *)
LEMMA CreateStep ==
    ASSUME IInv, NEW t \in Tables
    PROVE  BeginCreate(t) \/ WriteRow(t) \/ FailCreate(t) \/ Publish(t) \/ WriteFile(t) => IInv'
<1> USE DEF IInv, disk, lobby
<1>0. /\ row \in [Tables -> Row \cup {None}] /\ file \in [Tables -> BOOLEAN]
      /\ room \in [Tables -> BOOLEAN] /\ entry \in [Tables -> {"none", "live", "archived"}]
      /\ creating \in [Tables -> {"no", "row", "entry", "done"}]
      /\ deleted \subseteq Tables /\ pass.files \subseteq Tables /\ pass.rooms \subseteq Tables
      /\ None \notin Tables
  BY TablesAssumption DEF Types, PassShape
<1>1. CASE BeginCreate(t)
  <2>1. Types'
    BY <1>1, <1>0 DEF BeginCreate, Types, PassShape, Lock, Free, Row
  <2>2. Created'
    BY <1>1, <1>0 DEF BeginCreate, Created, InPass
  <2>3. Stages'
    BY <1>1, <1>0 DEF BeginCreate, Stages
  <2>4. Absent'
    BY <1>1, <1>0 DEF BeginCreate, Absent, InPass, Created
  <2>5. HalfDeleted'
    BY <1>1, <1>0 DEF BeginCreate, HalfDeleted, Free, InPass
  <2>6. Gone'
    BY <1>1, <1>0 DEF BeginCreate, Gone, Created
  <2>7. BootIsAlone'
    BY <1>1, <1>0 DEF BeginCreate, BootIsAlone, Free, InPass
  <2>8. Accounted'
    BY <1>1, <1>0 DEF BeginCreate, Accounted, Free, InPass
  <2> QED BY <2>1, <2>2, <2>3, <2>4, <2>5, <2>6, <2>7, <2>8 DEF IInv
<1>2. CASE WriteRow(t)
  <2>1. Types'
    BY <1>2, <1>0 DEF WriteRow, Types, PassShape, Lock, Free, Row
  <2>2. Created'
    BY <1>2, <1>0 DEF WriteRow, Created, InPass
  <2>3. Stages'
    BY <1>2, <1>0 DEF WriteRow, Stages
  <2>4. Absent'
    BY <1>2, <1>0 DEF WriteRow, Absent, InPass
  <2>5. HalfDeleted'
    BY <1>2, <1>0 DEF WriteRow, HalfDeleted, Free, InPass
  <2>6. Gone'
    BY <1>2, <1>0 DEF WriteRow, Gone, Created, InPass
  <2>7. BootIsAlone'
    BY <1>2, <1>0 DEF WriteRow, BootIsAlone, Free, InPass
  <2>8. Accounted'
    BY <1>2, <1>0 DEF WriteRow, Accounted, Free, InPass
  <2> QED BY <2>1, <2>2, <2>3, <2>4, <2>5, <2>6, <2>7, <2>8 DEF IInv
<1>3. CASE FailCreate(t)
  <2>1. Types'
    BY <1>3, <1>0 DEF FailCreate, Types, PassShape, Lock, Free, Row
  <2>2. Created'
    BY <1>3, <1>0 DEF FailCreate, Created, InPass
  <2>3. Stages'
    BY <1>3, <1>0 DEF FailCreate, Stages
  <2>4. Absent'
    BY <1>3, <1>0 DEF FailCreate, Absent, InPass
  <2>5. HalfDeleted'
    BY <1>3, <1>0 DEF FailCreate, HalfDeleted, Free, InPass
  <2>6. Gone'
    BY <1>3, <1>0 DEF FailCreate, Gone
  <2>7. BootIsAlone'
    BY <1>3, <1>0 DEF FailCreate, BootIsAlone, Free, InPass
  <2>8. Accounted'
    BY <1>3, <1>0 DEF FailCreate, Accounted, Free, InPass
  <2> QED BY <2>1, <2>2, <2>3, <2>4, <2>5, <2>6, <2>7, <2>8 DEF IInv
<1>4. CASE Publish(t)
  <2>1. Types'
    BY <1>4, <1>0 DEF Publish, Types, PassShape, Lock, Free, Row
  <2>2. Created'
    BY <1>4, <1>0 DEF Publish, Created, InPass
  <2>3. Stages'
    BY <1>4, <1>0 DEF Publish, Stages
  <2>4. Absent'
    BY <1>4, <1>0 DEF Publish, Absent, InPass, Created
  <2>5. HalfDeleted'
    BY <1>4, <1>0 DEF Publish, HalfDeleted, Free, InPass
  <2>6. Gone'
    BY <1>4, <1>0 DEF Publish, Gone
  <2>7. BootIsAlone'
    BY <1>4, <1>0 DEF Publish, BootIsAlone, Free, InPass
  <2>8. Accounted'
    BY <1>4, <1>0 DEF Publish, Accounted, Free, InPass
  <2> QED BY <2>1, <2>2, <2>3, <2>4, <2>5, <2>6, <2>7, <2>8 DEF IInv
<1>5. CASE WriteFile(t)
  <2>1. Types'
    BY <1>5, <1>0 DEF WriteFile, Types, PassShape, Lock, Free, Row
  <2>2. Created'
    BY <1>5, <1>0 DEF WriteFile, Created, InPass
  <2>3. Stages'
    BY <1>5, <1>0 DEF WriteFile, Stages
  <2>4. Absent'
    BY <1>5, <1>0 DEF WriteFile, Absent, InPass
  <2>5. HalfDeleted'
    BY <1>5, <1>0 DEF WriteFile, HalfDeleted, Free, InPass
  <2>6. Gone'
    BY <1>5, <1>0 DEF WriteFile, Gone, Absent, InPass
  <2>7. BootIsAlone'
    BY <1>5, <1>0 DEF WriteFile, BootIsAlone, Free, InPass
  <2>8. Accounted'
    BY <1>5, <1>0 DEF WriteFile, Accounted, Free, InPass
  <2> QED BY <2>1, <2>2, <2>3, <2>4, <2>5, <2>6, <2>7, <2>8 DEF IInv
<1> QED BY <1>1, <1>2, <1>3, <1>4, <1>5

(* Archiving, and the unloading of what was archived long ago.             *)
LEMMA ArchiveStep ==
    ASSUME IInv, NEW t \in Tables, NEW archived \in BOOLEAN
    PROVE  SetArchived(t, archived) \/ SetArchivedUnresident(t, archived) \/ BeginUnload(t)
           \/ FinishUnload(t) => IInv'
<1> USE DEF IInv, disk, lobby
<1>0. /\ row \in [Tables -> Row \cup {None}] /\ file \in [Tables -> BOOLEAN]
      /\ room \in [Tables -> BOOLEAN] /\ entry \in [Tables -> {"none", "live", "archived"}]
      /\ creating \in [Tables -> {"no", "row", "entry", "done"}]
      /\ deleted \subseteq Tables /\ pass.files \subseteq Tables /\ pass.rooms \subseteq Tables
      /\ None \notin Tables
  BY TablesAssumption DEF Types, PassShape
<1>1. CASE SetArchived(t, archived)
  <2>1. row' \in {row, [row EXCEPT ![t] = [open |-> TRUE, archived |-> archived]]}
    BY <1>1, <1>0 DEF SetArchived
  <2>2. [open |-> TRUE, archived |-> archived] \in Row
    BY Rows
  <2>3. row' \in [Tables -> Row \cup {None}]
    BY <1>0, <2>1, <2>2
  <2>4. Types'
    BY <1>1, <1>0, <2>1, <2>2, <2>3 DEF SetArchived, Types, PassShape, Lock, Free, Row
  <2>5. Created'
    BY <1>1, <1>0, <2>1, <2>2, <2>3 DEF SetArchived, Created, InPass
  <2>6. Stages'
    BY <1>1, <1>0, <2>1, <2>2, <2>3 DEF SetArchived, Stages
  <2>7. Absent'
    BY <1>1, <1>0, <2>1, <2>2, <2>3 DEF SetArchived, Absent, InPass
  <2>8. HalfDeleted'
    BY <1>1, <1>0, <2>1, <2>2, <2>3 DEF SetArchived, HalfDeleted, Free, InPass
  <2>9. Gone'
    BY <1>1, <1>0, <2>1, <2>2, <2>3 DEF SetArchived, Gone
  <2>10. BootIsAlone'
    BY <1>1, <1>0, <2>1, <2>2, <2>3 DEF SetArchived, BootIsAlone, Free, InPass
  <2>11. Accounted'
    BY <1>1, <1>0, <2>1, <2>2, <2>3 DEF SetArchived, Accounted, Free, InPass
  <2> QED BY <2>4, <2>5, <2>6, <2>7, <2>8, <2>9, <2>10, <2>11 DEF IInv
<1>2. CASE SetArchivedUnresident(t, archived)
  <2>1. Types'
    BY <1>2, <1>0 DEF SetArchivedUnresident, Types, PassShape, Lock, Free, Row
  <2>2. Created'
    BY <1>2, <1>0 DEF SetArchivedUnresident, Created, InPass
  <2>3. Stages'
    BY <1>2, <1>0 DEF SetArchivedUnresident, Stages
  <2>4. Absent'
    BY <1>2, <1>0 DEF SetArchivedUnresident, Absent, InPass
  <2>5. HalfDeleted'
    BY <1>2, <1>0 DEF SetArchivedUnresident, HalfDeleted, Free, InPass
  <2>6. Gone'
    BY <1>2, <1>0 DEF SetArchivedUnresident, Gone
  <2>7. BootIsAlone'
    BY <1>2, <1>0 DEF SetArchivedUnresident, BootIsAlone, Free, InPass
  <2>8. Accounted'
    BY <1>2, <1>0 DEF SetArchivedUnresident, Accounted, Free, InPass
  <2> QED BY <2>1, <2>2, <2>3, <2>4, <2>5, <2>6, <2>7, <2>8 DEF IInv
<1>3. CASE BeginUnload(t)
  <2>1. row' \in [Tables -> Row \cup {None}]
    BY <1>3, <1>0, Rows DEF BeginUnload
  <2>2. Types'
    BY <1>3, <1>0, <2>1 DEF BeginUnload, Types, PassShape, Lock, Free, Row
  <2>3. Created'
    BY <1>3, <1>0, <2>1 DEF BeginUnload, Created, InPass
  <2>4. Stages'
    BY <1>3, <1>0, <2>1 DEF BeginUnload, Stages
  <2>5. Absent'
    BY <1>3, <1>0, <2>1 DEF BeginUnload, Absent, InPass
  <2>6. HalfDeleted'
    BY <1>3, <1>0, <2>1 DEF BeginUnload, HalfDeleted, Free, InPass
  <2>7. Gone'
    BY <1>3, <1>0, <2>1 DEF BeginUnload, Gone
  <2>8. BootIsAlone'
    BY <1>3, <1>0, <2>1 DEF BeginUnload, BootIsAlone, Free, InPass
  <2>9. Accounted'
    BY <1>3, <1>0, <2>1 DEF BeginUnload, Accounted, Free, InPass
  <2> QED BY <2>2, <2>3, <2>4, <2>5, <2>6, <2>7, <2>8, <2>9 DEF IInv
<1>4. CASE FinishUnload(t)
  <2>1. Types'
    BY <1>4, <1>0 DEF FinishUnload, Types, PassShape, Lock, Free, Row
  <2>2. Created'
    BY <1>4, <1>0 DEF FinishUnload, Created, InPass
  <2>3. Stages'
    BY <1>4, <1>0 DEF FinishUnload, Stages
  <2>4. Absent'
    BY <1>4, <1>0 DEF FinishUnload, Absent, InPass
  <2>5. HalfDeleted'
    BY <1>4, <1>0 DEF FinishUnload, HalfDeleted, Free, InPass
  <2>6. Gone'
    BY <1>4, <1>0 DEF FinishUnload, Gone
  <2>7. BootIsAlone'
    BY <1>4, <1>0 DEF FinishUnload, BootIsAlone, Free, InPass
  <2>8. Accounted'
    BY <1>4, <1>0 DEF FinishUnload, Accounted, Free, InPass
  <2> QED BY <2>1, <2>2, <2>3, <2>4, <2>5, <2>6, <2>7, <2>8 DEF IInv
<1> QED BY <1>1, <1>2, <1>3, <1>4

(* Deletion, with and without an entry.                                    *)
LEMMA DeleteStep ==
    ASSUME IInv, NEW t \in Tables
    PROVE  BeginDelete(t) \/ FinishDelete(t) \/ BeginDeleteUnresident(t) \/
           FinishDeleteUnresident(t) => IInv'
<1> USE DEF IInv, disk, lobby
<1>0. /\ row \in [Tables -> Row \cup {None}] /\ file \in [Tables -> BOOLEAN]
      /\ room \in [Tables -> BOOLEAN] /\ entry \in [Tables -> {"none", "live", "archived"}]
      /\ creating \in [Tables -> {"no", "row", "entry", "done"}]
      /\ deleted \subseteq Tables /\ pass.files \subseteq Tables /\ pass.rooms \subseteq Tables
      /\ None \notin Tables
  BY TablesAssumption DEF Types, PassShape
<1>1. CASE BeginDelete(t)
  <2>1. Types'
    BY <1>1, <1>0 DEF BeginDelete, Types, PassShape, Lock, Free, Row
  <2>2. Created'
    BY <1>1, <1>0 DEF BeginDelete, Created, InPass
  <2>3. Stages'
    BY <1>1, <1>0 DEF BeginDelete, Stages
  <2>4. Absent'
    BY <1>1, <1>0 DEF BeginDelete, Absent, InPass
  <2>5. HalfDeleted'
    BY <1>1, <1>0 DEF BeginDelete, HalfDeleted, Free, InPass, Created, Absent
  <2>6. Gone'
    BY <1>1, <1>0 DEF BeginDelete, Gone
  <2>7. BootIsAlone'
    BY <1>1, <1>0 DEF BeginDelete, BootIsAlone, Free, InPass
  <2>8. Accounted'
    BY <1>1, <1>0 DEF BeginDelete, Accounted, Free, InPass
  <2> QED BY <2>1, <2>2, <2>3, <2>4, <2>5, <2>6, <2>7, <2>8 DEF IInv
<1>2. CASE FinishDelete(t)
  <2>1. ~room[t] /\ ~file[t] /\ creating[t] = "done" /\ ~InPass(t) /\ entry[t] = "none"
    BY <1>2, <1>0 DEF FinishDelete, HalfDeleted
  <2>2. Types'
    BY <1>2, <1>0, <2>1 DEF FinishDelete, Types, PassShape, Lock, Free, Row
  <2>3. Created'
    BY <1>2, <1>0, <2>1 DEF FinishDelete, Created, InPass
  <2>4. Stages'
    BY <1>2, <1>0, <2>1 DEF FinishDelete, Stages
  <2>5. Absent'
    BY <1>2, <1>0, <2>1 DEF FinishDelete, Absent, InPass
  <2>6. HalfDeleted'
    BY <1>2, <1>0, <2>1 DEF FinishDelete, HalfDeleted, Free, InPass
  <2>7. Gone'
    BY <1>2, <1>0, <2>1 DEF FinishDelete, Gone, InPass
  <2>8. BootIsAlone'
    BY <1>2, <1>0, <2>1 DEF FinishDelete, BootIsAlone, Free, InPass
  <2>9. Accounted'
    BY <1>2, <1>0, <2>1 DEF FinishDelete, Accounted, Free, InPass
  <2> QED BY <2>2, <2>3, <2>4, <2>5, <2>6, <2>7, <2>8, <2>9 DEF IInv
<1>3. CASE BeginDeleteUnresident(t)
  <2>1. Types'
    BY <1>3, <1>0 DEF BeginDeleteUnresident, Types, PassShape, Lock, Free, Row
  <2>2. Created'
    BY <1>3, <1>0 DEF BeginDeleteUnresident, Created, InPass
  <2>3. Stages'
    BY <1>3, <1>0 DEF BeginDeleteUnresident, Stages
  <2>4. Absent'
    BY <1>3, <1>0 DEF BeginDeleteUnresident, Absent, InPass
  <2>5. HalfDeleted'
    BY <1>3, <1>0 DEF BeginDeleteUnresident, HalfDeleted, Free, InPass, Created
  <2>6. Gone'
    BY <1>3, <1>0 DEF BeginDeleteUnresident, Gone
  <2>7. BootIsAlone'
    BY <1>3, <1>0 DEF BeginDeleteUnresident, BootIsAlone, Free, InPass
  <2>8. Accounted'
    BY <1>3, <1>0 DEF BeginDeleteUnresident, Accounted, Free, InPass
  <2> QED BY <2>1, <2>2, <2>3, <2>4, <2>5, <2>6, <2>7, <2>8 DEF IInv
<1>4. CASE FinishDeleteUnresident(t)
  <2>1. row[t] = None /\ creating[t] \in {"entry", "done"}
    BY <1>4, <1>0 DEF FinishDeleteUnresident, HalfDeleted
  <2>2. /\ ~room'[t] /\ ~file'[t]
        /\ \A u \in Tables \ {t} : room'[u] = room[u] /\ file'[u] = file[u]
    BY <1>0, <1>4 DEF FinishDeleteUnresident
  <2>3. Types'
    BY <1>4, <1>0, <2>1, <2>2 DEF FinishDeleteUnresident, Types, PassShape, Lock, Free, Row
  <2>4. Created'
    BY <1>4, <1>0, <2>1, <2>2 DEF FinishDeleteUnresident, Created, InPass
  <2>5. Stages'
    BY <1>4, <1>0, <2>1, <2>2 DEF FinishDeleteUnresident, Stages
  <2>6. Absent'
    BY <1>4, <1>0, <2>1, <2>2 DEF FinishDeleteUnresident, Absent, InPass
  <2>7. HalfDeleted'
    BY <1>4, <1>0, <2>1, <2>2 DEF FinishDeleteUnresident, HalfDeleted, Free, InPass
  <2>8. Gone'
    BY <1>0, <1>4, <2>1, <2>2 DEF FinishDeleteUnresident, Gone, InPass
  <2>9. BootIsAlone'
    BY <1>4, <1>0, <2>1, <2>2 DEF FinishDeleteUnresident, BootIsAlone, Free, InPass
  <2>10. Accounted'
    BY <1>4, <2>2 DEF FinishDeleteUnresident, Accounted, Free, InPass
  <2> QED BY <2>3, <2>4, <2>5, <2>6, <2>7, <2>8, <2>9, <2>10 DEF IInv
<1> QED BY <1>1, <1>2, <1>3, <1>4

(* The pass, for one table.                                               *)
LEMMA RestoreStep ==
    ASSUME IInv, NEW t \in Tables
    PROVE  Rebuild(t) \/ LoadEntry(t) \/ FailLoad(t) \/ Adopt(t) => IInv'
<1> USE DEF IInv, disk, lobby
<1>0. /\ row \in [Tables -> Row \cup {None}] /\ file \in [Tables -> BOOLEAN]
      /\ room \in [Tables -> BOOLEAN] /\ entry \in [Tables -> {"none", "live", "archived"}]
      /\ creating \in [Tables -> {"no", "row", "entry", "done"}]
      /\ deleted \subseteq Tables /\ pass.files \subseteq Tables /\ pass.rooms \subseteq Tables
      /\ None \notin Tables
  BY TablesAssumption DEF Types, PassShape
<1>1. CASE Rebuild(t)
  <2>1. /\ PassShape'
        /\ pass.keep \subseteq pass'.keep
        /\ t \in pass'.rooms \/ t \in pass'.keep \/ verdict[t] = "bad"
        /\ pass'.blind = pass.blind
        /\ pass'.at = pass.at
        /\ pass'.files = pass.files \ {t}
        /\ pass'.loading = pass.loading
        /\ \/ pass'.rooms = pass.rooms \cup {t} /\ room' = [room EXCEPT ![t] = TRUE]
           \/ pass'.rooms = pass.rooms /\ room' = room
    <3>1. CASE verdict[t] = "restorable"
      <4>1. pass' = [pass EXCEPT !.files = pass.files \ {t}, !.rooms = pass.rooms \cup {t}]
        BY <1>1, <3>1 DEF Rebuild
      <4>2. t \in pass.files /\ room' = [room EXCEPT ![t] = TRUE]
        BY <1>1, <3>1 DEF Rebuild
      <4> QED BY <1>0, <4>1, <4>2 DEF Types, PassShape
    <3>2. CASE verdict[t] # "restorable"
      <4> DEFINE k == IF verdict[t] = "newer" THEN pass.keep \cup {t} ELSE pass.keep
      <4>1. pass' = [pass EXCEPT !.files = pass.files \ {t}, !.keep = k] /\ room' = room
        BY <1>1, <3>2 DEF Rebuild
      <4>2. pass.keep \subseteq k /\ (t \in k \/ verdict[t] = "bad")
        BY <3>2 DEF Types
      <4> HIDE DEF k
      <4> QED BY <1>0, <4>1, <4>2 DEF Types, PassShape
    <3> QED BY <3>1, <3>2
  <2>2. /\ UNCHANGED <<row, entry, creating, mu>>
        /\ \A u \in Tables : /\ InPass(u)' => InPass(u) \/ file[u]
                             /\ room'[u] => room[u] \/ InPass(u)
                             /\ file'[u] => file[u]
    BY <1>1, <1>0, <2>1 DEF InPass, Rebuild
  <2>3. Types'
    BY <1>1, <1>0, <2>1, <2>2 DEF Rebuild, Types
  <2>4. Created'
    BY <1>1, <1>0, <2>1, <2>2 DEF Rebuild, Created, InPass
  <2>5. Stages'
    BY <1>1, <1>0, <2>1, <2>2 DEF Rebuild, Stages
  <2>6. Absent'
    BY <1>1, <1>0, <2>1, <2>2 DEF Rebuild, Absent, InPass, Stages
  <2>7. HalfDeleted'
    BY <2>2, HalfKept
  <2>8. Gone'
    BY <1>1, <1>0, <2>1, <2>2 DEF Rebuild, Gone
  <2>9. BootIsAlone'
    BY <1>1, <1>0, <2>1, <2>2 DEF Rebuild, BootIsAlone, Free, InPass
  <2>10. Accounted'
    BY <1>1, <1>0, <2>1, <2>2 DEF Rebuild, Accounted, Free, InPass
  <2> QED BY <2>3, <2>4, <2>5, <2>6, <2>7, <2>8, <2>9, <2>10 DEF IInv
<1>2. CASE LoadEntry(t)
  <2>1. /\ PassShape'
        /\ pass'.keep = pass.keep
        /\ pass'.blind = pass.blind
        /\ pass'.at = pass.at
        /\ pass'.files = pass.files
        /\ pass'.rooms = pass.rooms \ {t}
        /\ pass'.loading = t
    BY <1>2, <1>0 DEF LoadEntry, Types, PassShape
  <2>2. /\ UNCHANGED <<row, entry, creating, mu>>
        /\ \A u \in Tables : /\ InPass(u)' => InPass(u) \/ file[u]
                             /\ room'[u] => room[u] \/ InPass(u)
                             /\ file'[u] => file[u]
    BY <1>2, <1>0, <2>1 DEF InPass, LoadEntry
  <2>3. Types'
    BY <1>2, <1>0, <2>1, <2>2 DEF LoadEntry, Types
  <2>4. Created'
    BY <1>2, <1>0, <2>1, <2>2 DEF LoadEntry, Created, InPass
  <2>5. Stages'
    BY <1>2, <1>0, <2>1, <2>2 DEF LoadEntry, Stages
  <2>6. Absent'
    BY <1>2, <1>0, <2>1, <2>2 DEF LoadEntry, Absent, InPass
  <2>7. HalfDeleted'
    BY <2>2, HalfKept
  <2>8. Gone'
    BY <1>2, <1>0, <2>1, <2>2 DEF LoadEntry, Gone
  <2>9. BootIsAlone'
    BY <1>2, <1>0, <2>1, <2>2 DEF LoadEntry, BootIsAlone, Free, InPass
  <2>10. Accounted'
    BY <1>2, <1>0, <2>1, <2>2 DEF LoadEntry, Accounted, Free, InPass
  <2> QED BY <2>3, <2>4, <2>5, <2>6, <2>7, <2>8, <2>9, <2>10 DEF IInv
<1>3. CASE FailLoad(t)
  <2>1. /\ PassShape'
        /\ pass'.keep = pass.keep
        /\ pass'.blind = pass.blind
        /\ pass'.at = pass.at
        /\ pass'.files = pass.files
        /\ pass'.rooms = pass.rooms \ {t}
        /\ pass'.loading = pass.loading
    BY <1>3, <1>0 DEF FailLoad, Types, PassShape
  <2>2. /\ UNCHANGED <<row, entry, creating, mu>>
        /\ \A u \in Tables : /\ InPass(u)' => InPass(u) \/ file[u]
                             /\ room'[u] => room[u] \/ InPass(u)
                             /\ file'[u] => file[u]
    BY <1>3, <1>0, <2>1 DEF InPass, FailLoad
  <2>3. Types'
    BY <1>3, <1>0, <2>1, <2>2 DEF FailLoad, Types
  <2>4. Created'
    BY <1>3, <1>0, <2>1, <2>2 DEF FailLoad, Created, InPass
  <2>5. Stages'
    BY <1>3, <1>0, <2>1, <2>2 DEF FailLoad, Stages
  <2>6. Absent'
    BY <1>3, <1>0, <2>1, <2>2 DEF FailLoad, Absent, InPass
  <2>7. HalfDeleted'
    BY <2>2, HalfKept
  <2>8. Gone'
    BY <1>3, <1>0, <2>1, <2>2 DEF FailLoad, Gone
  <2>9. BootIsAlone'
    BY <1>3, <1>0, <2>1, <2>2 DEF FailLoad, BootIsAlone, Free, InPass
  <2>10. Accounted'
    BY <1>3, <1>0, <2>1, <2>2 DEF FailLoad, Accounted, Free, InPass
  <2> QED BY <2>3, <2>4, <2>5, <2>6, <2>7, <2>8, <2>9, <2>10 DEF IInv
<1>4. CASE Adopt(t)
  <2>1. /\ PassShape'
        /\ pass'.keep = pass.keep
        /\ pass'.blind = pass.blind
        /\ pass'.at = pass.at
        /\ pass'.files = pass.files
        /\ pass'.rooms = pass.rooms
        /\ pass'.loading = None
    BY <1>4, <1>0 DEF Adopt, Types, PassShape
  <2>2. row' \in {row, [row EXCEPT ![t] = [pass.copy EXCEPT !.open = TRUE]]}
    BY <1>4, <1>0, <2>1 DEF Adopt
  <2>3. [pass.copy EXCEPT !.open = TRUE] \in Row
    BY Rows DEF Types, PassShape
  <2>4. row' \in [Tables -> Row \cup {None}]
    BY <1>0, <2>2, <2>3
  <2>5. Types'
    BY <1>4, <1>0, <2>1, <2>2, <2>3, <2>4 DEF Adopt, Types, Lock, Free, Row
  <2>6. Created'
    BY <1>4, <1>0, <2>1, <2>2, <2>3, <2>4 DEF Adopt, Created, InPass
  <2>7. Stages'
    BY <1>4, <1>0, <2>1, <2>2, <2>3, <2>4 DEF Adopt, Stages
  <2>8. Absent'
    BY <1>4, <1>0, <2>1, <2>2, <2>3, <2>4 DEF Adopt, Absent, InPass, Stages
  <2>9. HalfDeleted'
    BY <1>4, <1>0, <2>1, <2>2, <2>3, <2>4 DEF Adopt, HalfDeleted, Free, InPass
  <2>10. Gone'
    BY <1>4, <1>0, <2>1, <2>2, <2>3, <2>4 DEF Adopt, Gone
  <2>11. BootIsAlone'
    BY <1>4, <1>0, <2>1, <2>2, <2>3, <2>4 DEF Adopt, BootIsAlone, Free, InPass
  <2>12. Accounted'
    BY <1>4, <1>0, <2>1, <2>2, <2>3, <2>4 DEF Adopt, Accounted, Free, InPass
  <2> QED BY <2>5, <2>6, <2>7, <2>8, <2>9, <2>10, <2>11, <2>12 DEF IInv
<1> QED BY <1>1, <1>2, <1>3, <1>4

(* The pass reads what there is.                                          *)
LEMMA ReadStep ==
    ASSUME IInv, NEW S \in SUBSET Tables
    PROVE  ReadFiles(S) => IInv'
<1> USE DEF IInv, disk, lobby
<1>0. /\ row \in [Tables -> Row \cup {None}] /\ file \in [Tables -> BOOLEAN]
      /\ room \in [Tables -> BOOLEAN] /\ entry \in [Tables -> {"none", "live", "archived"}]
      /\ creating \in [Tables -> {"no", "row", "entry", "done"}]
      /\ deleted \subseteq Tables /\ pass.files \subseteq Tables /\ pass.rooms \subseteq Tables
      /\ None \notin Tables
  BY TablesAssumption DEF Types, PassShape
<1>1. CASE ReadFiles(S)
  <2>1. /\ PassShape'
        /\ pass'.keep = {}
        /\ pass'.blind = \E u \in Tables \ S : file[u] /\ ~room[u]
        /\ pass'.at = "read"
        /\ pass'.files = S
        /\ pass'.rooms = {}
        /\ pass'.loading = None
    BY <1>1, <1>0 DEF ReadFiles, IdlePass, Row, Types, PassShape
  <2>2. /\ UNCHANGED <<row, entry, creating, mu>>
        /\ \A u \in Tables : /\ InPass(u)' => InPass(u) \/ file[u]
                             /\ room'[u] => room[u] \/ InPass(u)
                             /\ file'[u] => file[u]
    BY <1>1, <1>0, <2>1 DEF InPass, ReadFiles, Stages
  <2>3. Types'
    BY <1>1, <1>0, <2>1, <2>2 DEF ReadFiles, IdlePass, Row, Types
  <2>4. Created'
    BY <1>1, <1>0, <2>1, <2>2 DEF ReadFiles, IdlePass, Row, Created, InPass
  <2>5. Stages'
    BY <1>1, <1>0, <2>1, <2>2 DEF ReadFiles, IdlePass, Row, Stages
  <2>6. Absent'
    BY <1>1, <1>0, <2>1, <2>2 DEF ReadFiles, IdlePass, Row, Absent, InPass
  <2>7. HalfDeleted'
    BY <2>2, HalfKept
  <2>8. Gone'
    BY <1>1, <1>0, <2>1, <2>2 DEF ReadFiles, IdlePass, Row, Gone, Stages
  <2>9. BootIsAlone'
    BY <1>1, <1>0, <2>1, <2>2 DEF ReadFiles, IdlePass, Row, BootIsAlone, Free, InPass, Gone, Stages
  <2>10. Accounted'
    BY <1>1, <1>0, <2>1, <2>2 DEF ReadFiles, IdlePass, Row, Accounted, Free, InPass
  <2> QED BY <2>3, <2>4, <2>5, <2>6, <2>7, <2>8, <2>9, <2>10 DEF IInv
<1> QED BY <1>1

(* The pass admits, moves on, and ends; or the process does.              *)
LEMMA PassStep ==
    ASSUME IInv
    PROVE  Admit \/ EndRebuild \/ EndPass \/ Crash => IInv'
<1> USE DEF IInv, disk, lobby
<1>0. /\ row \in [Tables -> Row \cup {None}] /\ file \in [Tables -> BOOLEAN]
      /\ room \in [Tables -> BOOLEAN] /\ entry \in [Tables -> {"none", "live", "archived"}]
      /\ creating \in [Tables -> {"no", "row", "entry", "done"}]
      /\ deleted \subseteq Tables /\ pass.files \subseteq Tables /\ pass.rooms \subseteq Tables
      /\ None \notin Tables
  BY TablesAssumption DEF Types, PassShape
<1>1. CASE Admit
  <2>1. /\ PassShape'
        /\ pass'.keep = pass.files \ pass'.files
        /\ pass'.blind = pass.blind
        /\ pass'.at = "rebuilding"
        /\ pass'.files \subseteq pass.files
        /\ pass'.rooms = pass.rooms
        /\ pass'.loading = pass.loading
    <3> DEFINE queue == {t \in pass.files : ~Retired(t)}
    <3>1. PICK A \in FirstFit(queue) :
            pass' = [pass EXCEPT !.at = "rebuilding", !.files = pass.files \ (queue \ A),
                       !.keep = queue \ A, !.held = IF serving THEN Cost(A) ELSE 0]
      BY <1>1 DEF Admit
    <3> DEFINE f == pass.files \ (queue \ A)
               k == queue \ A
               h == IF serving THEN Cost(A) ELSE 0
    <3>2. f \subseteq pass.files /\ k = pass.files \ f
      OBVIOUS
    <3>3. pass' = [pass EXCEPT !.at = "rebuilding", !.files = f, !.keep = k, !.held = h]
      BY <3>1
    <3> HIDE DEF f, k, h
    <3> QED BY <1>0, <3>2, <3>3 DEF Types, PassShape
  <2>2. /\ UNCHANGED <<row, entry, creating, mu>>
        /\ \A u \in Tables : /\ InPass(u)' => InPass(u) \/ file[u]
                             /\ room'[u] => room[u] \/ InPass(u)
                             /\ file'[u] => file[u]
    BY <1>1, <1>0, <2>1 DEF InPass, Admit
  <2>3. Types'
    BY <1>1, <1>0, <2>1, <2>2 DEF Admit, FirstFit, Types
  <2>4. Created'
    BY <1>1, <1>0, <2>1, <2>2 DEF Admit, FirstFit, Created, InPass
  <2>5. Stages'
    BY <1>1, <1>0, <2>1, <2>2 DEF Admit, FirstFit, Stages
  <2>6. Absent'
    BY <1>1, <1>0, <2>1, <2>2 DEF Admit, FirstFit, Absent, InPass
  <2>7. HalfDeleted'
    BY <2>2, HalfKept
  <2>8. Gone'
    BY <1>1, <1>0, <2>1, <2>2 DEF Admit, FirstFit, Gone
  <2>9. BootIsAlone'
    BY <1>1, <1>0, <2>1, <2>2 DEF Admit, FirstFit, BootIsAlone, Free, InPass
  <2>10. Accounted'
    BY <1>1, <1>0, <2>1, <2>2 DEF Admit, FirstFit, Accounted, Free, InPass
  <2> QED BY <2>3, <2>4, <2>5, <2>6, <2>7, <2>8, <2>9, <2>10 DEF IInv
<1>2. CASE EndRebuild
  <2>1. /\ PassShape'
        /\ pass'.keep = pass.keep
        /\ pass'.blind = pass.blind
        /\ pass'.at = "adopting"
        /\ pass'.files = pass.files
        /\ pass'.rooms = pass.rooms
        /\ pass'.loading = pass.loading
    BY <1>2, <1>0 DEF EndRebuild, Types, PassShape
  <2>2. /\ UNCHANGED <<row, entry, creating, mu>>
        /\ \A u \in Tables : /\ InPass(u)' => InPass(u) \/ file[u]
                             /\ room'[u] => room[u] \/ InPass(u)
                             /\ file'[u] => file[u]
    BY <1>2, <1>0, <2>1 DEF InPass, EndRebuild
  <2>3. Types'
    BY <1>2, <1>0, <2>1, <2>2 DEF EndRebuild, Types
  <2>4. Created'
    BY <1>2, <1>0, <2>1, <2>2 DEF EndRebuild, Created, InPass
  <2>5. Stages'
    BY <1>2, <1>0, <2>1, <2>2 DEF EndRebuild, Stages
  <2>6. Absent'
    BY <1>2, <1>0, <2>1, <2>2 DEF EndRebuild, Absent, InPass
  <2>7. HalfDeleted'
    BY <2>2, HalfKept
  <2>8. Gone'
    BY <1>2, <1>0, <2>1, <2>2 DEF EndRebuild, Gone
  <2>9. BootIsAlone'
    BY <1>2, <1>0, <2>1, <2>2 DEF EndRebuild, BootIsAlone, Free, InPass
  <2>10. Accounted'
    BY <1>2, <1>0, <2>1, <2>2 DEF EndRebuild, Accounted, Free, InPass
  <2> QED BY <2>3, <2>4, <2>5, <2>6, <2>7, <2>8, <2>9, <2>10 DEF IInv
<1>3. CASE EndPass
  <2>1. /\ PassShape'
        /\ pass'.at = "idle"
        /\ pass'.files = {}
        /\ pass'.rooms = {}
        /\ pass'.loading = None
    BY <1>3, <1>0 DEF EndPass, IdlePass, Row, Types, PassShape
  <2>2. row' \in [Tables -> Row \cup {None}]
    <3>1. CASE serving \/ pass.blind
      BY <1>0, <1>3, <3>1 DEF EndPass
    <3>2. CASE ~(serving \/ pass.blind)
      <4> DEFINE new(u) == IF row[u] # None /\ entry[u] = "none" /\ u \notin pass.keep
                             THEN [row[u] EXCEPT !.open = FALSE] ELSE row[u]
      <4>1. row' = [u \in Tables |-> new(u)]
        BY <1>3, <3>2 DEF EndPass
      <4>2. \A u \in Tables : new(u) \in Row \cup {None}
        BY <1>0, Rows
      <4> HIDE DEF new
      <4> QED BY <4>1, <4>2
    <3> QED BY <3>1, <3>2
  <2>3. Types'
    BY <1>3, <1>0, <2>1, <2>2 DEF EndPass, IdlePass, Row, Types, Lock, Free
  <2>4. Created'
    BY <1>3, <1>0, <2>1, <2>2 DEF EndPass, IdlePass, Row, Created, InPass
  <2>5. Stages'
    BY <1>3, <1>0, <2>1, <2>2 DEF EndPass, IdlePass, Row, Stages
  <2>6. Absent'
    BY <1>3, <1>0, <2>1, <2>2 DEF EndPass, IdlePass, Row, Absent, InPass
  <2>7. HalfDeleted'
    BY <1>3, <1>0, <2>1, <2>2 DEF EndPass, IdlePass, Row, HalfDeleted, Free, InPass
  <2>8. Gone'
    BY <1>3, <1>0, <2>1, <2>2 DEF EndPass, IdlePass, Row, Gone
  <2>9. BootIsAlone'
    BY <1>3, <1>0, <2>1, <2>2 DEF EndPass, IdlePass, Row, BootIsAlone, Free, InPass
  <2>10. Accounted'
    BY <1>3, <1>0, <2>1, <2>2 DEF EndPass, IdlePass, Row, Accounted, Free, InPass
  <2> QED BY <2>3, <2>4, <2>5, <2>6, <2>7, <2>8, <2>9, <2>10 DEF IInv
<1>4. CASE Crash
  <2>1. /\ PassShape'
        /\ pass'.at = "idle"
        /\ pass'.files = {}
        /\ pass'.rooms = {}
        /\ pass'.loading = None
    BY <1>4, <1>0 DEF Crash, IdlePass, Row, Types, PassShape
  <2>2. Types'
    BY <1>4, <1>0, <2>1 DEF Crash, IdlePass, Row, Types, Lock, Free
  <2>3. Created'
    BY <1>4, <1>0, <2>1 DEF Crash, IdlePass, Row, Created, InPass
  <2>4. Stages'
    BY <1>4, <1>0, <2>1 DEF Crash, IdlePass, Row, Stages
  <2>5. Absent'
    BY <1>4, <1>0, <2>1 DEF Crash, IdlePass, Row, Absent, InPass
  <2>6. HalfDeleted'
    BY <1>4, <1>0, <2>1 DEF Crash, IdlePass, Row, HalfDeleted, Free, InPass
  <2>7. Gone'
    BY <1>4, <1>0, <2>1 DEF Crash, IdlePass, Row, Gone
  <2>8. BootIsAlone'
    BY <1>4, <1>0, <2>1 DEF Crash, IdlePass, Row, BootIsAlone, Free, InPass
  <2>9. Accounted'
    BY <1>4, <1>0, <2>1 DEF Crash, IdlePass, Row, Accounted, Free, InPass
  <2> QED BY <2>2, <2>3, <2>4, <2>5, <2>6, <2>7, <2>8, <2>9 DEF IInv
<1> QED BY <1>1, <1>2, <1>3, <1>4

-----------------------------------------------------------------------------
(* The invariant holds of an empty server.                                 *)
LEMMA InitHolds == Init => IInv
<1> SUFFICES ASSUME Init PROVE IInv
  OBVIOUS
<1>1. Types
  BY DEF Init, Types, PassShape, IdlePass, Row, Lock, Free
<1>2. /\ pass.files = {} /\ pass.rooms = {} /\ pass.loading = None /\ pass.at = "idle"
      /\ mu.op = "free" /\ mu = Free
  BY DEF Init, IdlePass, Free
<1>3. Created /\ Stages /\ Absent /\ HalfDeleted /\ Gone /\ BootIsAlone /\ Accounted
  BY <1>2, TablesAssumption DEF Init, Created, InPass, Stages, Absent, HalfDeleted, Gone,
                                BootIsAlone, Accounted
<1> QED BY <1>1, <1>3 DEF IInv

(* Every step of the lobby, of the pass and of the process preserves it.   *)
LEMMA StepHolds == IInv /\ [Next]_vars => IInv'
<1> SUFFICES ASSUME IInv, [Next]_vars PROVE IInv'
  OBVIOUS
<1>1. CASE UNCHANGED vars
  <2> USE <1>1 DEF vars, disk, lobby, IInv
  <2>1. Types'
    BY DEF Types, PassShape
  <2>2. Created' /\ Absent' /\ HalfDeleted'
    BY DEF Created, Absent, HalfDeleted, InPass
  <2>3. Stages' /\ Gone' /\ BootIsAlone' /\ Accounted'
    BY DEF Stages, Gone, BootIsAlone, Accounted, InPass, Free
  <2> QED BY <2>1, <2>2, <2>3
<1>2. ASSUME NEW t \in Tables,
             BeginCreate(t) \/ WriteRow(t) \/ FailCreate(t) \/ Publish(t) \/ WriteFile(t)
      PROVE  IInv'
  BY <1>2, CreateStep
<1>3. ASSUME NEW t \in Tables, NEW archived \in BOOLEAN,
             SetArchived(t, archived) \/ SetArchivedUnresident(t, archived)
      PROVE  IInv'
  BY <1>3, ArchiveStep
<1>4. ASSUME NEW t \in Tables, BeginUnload(t) \/ FinishUnload(t)
      PROVE  IInv'
  BY <1>4, ArchiveStep
<1>5. ASSUME NEW t \in Tables,
             \/ BeginDelete(t) \/ FinishDelete(t)
             \/ BeginDeleteUnresident(t) \/ FinishDeleteUnresident(t)
      PROVE  IInv'
  BY <1>5, DeleteStep
<1>6. ASSUME NEW t \in Tables, Rebuild(t) \/ LoadEntry(t) \/ FailLoad(t) \/ Adopt(t)
      PROVE  IInv'
  BY <1>6, RestoreStep
<1>7. ASSUME NEW S \in SUBSET Tables, ReadFiles(S)
      PROVE  IInv'
  BY <1>7, ReadStep
<1>8. CASE Admit \/ EndRebuild \/ EndPass \/ Crash
  BY <1>8, PassStep
<1> QED BY <1>1, <1>2, <1>3, <1>4, <1>5, <1>6, <1>7, <1>8 DEF Next

(* It holds always.                                                        *)
LEMMA IInvAlways == Spec => []IInv
BY InitHolds, StepHolds, PTL DEF Spec

(* A restore pass never replaces a room that is in use: what it rebuilds   *)
(* has neither a room nor an entry (Manager.restoreFile).                  *)
THEOREM LiveRoomIsNotReplacedAlways == Spec => LiveRoomIsNotReplaced
<1>1. ASSUME IInv, NEW t \in Tables, Rebuild(t)
      PROVE  ~room[t] /\ entry[t] = "none"
  BY <1>1 DEF IInv, Absent, InPass, Rebuild
<1>2. IInv /\ [Next]_vars => [\A t \in Tables : Rebuild(t) => ~room[t] /\ entry[t] = "none"]_vars
  BY <1>1
<1> QED BY <1>2, IInvAlways, PTL DEF Spec, LiveRoomIsNotReplaced

(* With no pass and no deletion under way, a deleted table has neither a   *)
(* room nor a restore point (adoptRestored, Lobby.Delete).                 *)
THEOREM RaceLeavesNothingAlways == Spec => []RaceLeavesNothing
<1>1. IInv => RaceLeavesNothing
  BY DEF IInv, Stages, Gone, RaceLeavesNothing
<1> QED BY <1>1, IInvAlways, PTL

(* No boot puts a deleted table back in the lobby, though its row may have *)
(* outlived its deletion.                                                  *)
THEOREM NoBootBringsBackDeletedAlways == Spec => NoBootBringsBackDeleted
<1>1. ASSUME IInv, [Next]_vars, ~serving, NEW t \in deleted
      PROVE  entry'[t] = "none"
  <2>1. t \in Tables /\ entry[t] = "none" /\ pass.loading # t /\ creating[t] # "entry"
    BY <1>1 DEF IInv, Types, BootIsAlone, InPass
  <2>2. entry \in [Tables -> {"none", "live", "archived"}] /\ mu = Free
    BY <1>1 DEF IInv, Types, BootIsAlone
  <2>3. CASE UNCHANGED vars
    BY <2>1, <2>3 DEF vars, lobby
  <2>4. ASSUME NEW u \in Tables, Publish(u) \/ Adopt(u) PROVE entry'[t] = "none"
    BY <2>1, <2>2, <2>4 DEF Publish, Adopt
  <2>5. ASSUME NEW u \in Tables,
               \/ BeginCreate(u) \/ WriteRow(u) \/ FailCreate(u) \/ WriteFile(u)
               \/ Rebuild(u) \/ LoadEntry(u) \/ FailLoad(u)
        PROVE  entry'[t] = "none"
    BY <2>1, <2>5 DEF BeginCreate, WriteRow, FailCreate, WriteFile, Rebuild, LoadEntry, FailLoad,
                      lobby
  <2>6. ASSUME NEW u \in Tables, NEW archived \in BOOLEAN,
               SetArchived(u, archived) \/ SetArchivedUnresident(u, archived) \/ BeginUnload(u)
        PROVE  entry'[t] = "none"
    BY <1>1, <2>6 DEF SetArchived, SetArchivedUnresident, BeginUnload
  <2>7. ASSUME NEW u \in Tables,
               BeginDelete(u) \/ BeginDeleteUnresident(u)
        PROVE  entry'[t] = "none"
    BY <1>1, <2>7 DEF BeginDelete, BeginDeleteUnresident
  <2>8. ASSUME NEW u \in Tables,
               FinishUnload(u) \/ FinishDelete(u) \/ FinishDeleteUnresident(u)
        PROVE  entry'[t] = "none"
    BY <2>2, <2>8 DEF FinishUnload, FinishDelete, FinishDeleteUnresident, Free
  <2>9. ASSUME NEW S \in SUBSET Tables, ReadFiles(S) PROVE entry'[t] = "none"
    BY <2>1, <2>9 DEF ReadFiles, lobby
  <2>10. CASE Admit \/ EndRebuild \/ EndPass \/ Crash
    BY <2>1, <2>10 DEF Admit, EndRebuild, EndPass, Crash, lobby
  <2> QED BY <1>1, <2>3, <2>4, <2>5, <2>6, <2>7, <2>8, <2>9, <2>10 DEF Next
<1>2. IInv /\ [Next]_vars => [~serving => \A t \in deleted : entry'[t] = "none"]_vars
  BY <1>1
<1> QED BY <1>2, IInvAlways, PTL DEF Spec, NoBootBringsBackDeleted

(* A table the boot had no room for, or that waits for a newer binary,     *)
(* keeps its restore point and its open row until it is deleted, its rows  *)
(* cannot be loaded, or the binary can make nothing of it (RestoreAll,     *)
(* closeOrphans).                                                          *)
THEOREM NothingIsLostWaitingAlways == Spec => NothingIsLostWaiting
<1> DEFINE Kept(t) == \/ file'[t] /\ row'[t] # None /\ row'[t].open
                      \/ BeginDeleteUnresident(t) \/ FailLoad(t) \/ verdict[t] = "bad"
<1>1. ASSUME IInv, [Next]_vars, NEW t \in Tables, Waiting(t)
      PROVE  Kept(t)
  <2> USE DEF disk, lobby
  <2>1. /\ file[t] /\ row[t] # None /\ row[t].open /\ entry[t] = "none"
        /\ creating[t] = "done"
    BY <1>1 DEF Waiting, IInv, Created
  <2>2. /\ row \in [Tables -> Row \cup {None}] /\ file \in [Tables -> BOOLEAN]
        /\ row[t] \in Row
    BY <1>1, <2>1 DEF IInv, Types
  <2>3. ASSUME UNCHANGED <<row[t], file[t]>>
        PROVE  Kept(t)
    BY <2>1, <2>3
  <2>4. CASE UNCHANGED vars
    BY <2>3, <2>4 DEF vars
  <2>5. ASSUME NEW u \in Tables, BeginCreate(u) \/ Publish(u) \/ Rebuild(u) \/ LoadEntry(u)
        PROVE  Kept(t)
    BY <2>3, <2>5 DEF BeginCreate, Publish, Rebuild, LoadEntry
  <2>6. ASSUME NEW u \in Tables, WriteRow(u) \/ FailCreate(u) \/ WriteFile(u)
        PROVE  Kept(t)
    <3>1. u # t
      BY <2>1, <2>6 DEF WriteRow, FailCreate, WriteFile
    <3> QED BY <2>2, <2>3, <2>6, <3>1 DEF WriteRow, FailCreate, WriteFile
  <2>7. ASSUME NEW u \in Tables, NEW archived \in BOOLEAN, SetArchived(u, archived)
        PROVE  Kept(t)
    <3>1. u # t
      BY <2>1, <2>7 DEF SetArchived
    <3> QED BY <2>2, <2>3, <2>7, <3>1 DEF SetArchived
  <2>8. ASSUME NEW u \in Tables, NEW archived \in BOOLEAN, SetArchivedUnresident(u, archived)
        PROVE  Kept(t)
    <3>1. CASE u = t
      <4>1. file'[t] /\ row'[t] = [row[t] EXCEPT !.archived = archived]
        BY <2>1, <2>2, <2>8, <3>1 DEF SetArchivedUnresident
      <4>2. [row[t] EXCEPT !.archived = archived].open = row[t].open
        BY <2>2 DEF Row
      <4>3. row'[t] # None
        BY <2>2, <4>1, Rows, TablesAssumption
      <4> QED BY <2>1, <4>1, <4>2, <4>3
    <3>2. CASE u # t
      BY <2>2, <2>3, <2>8, <3>2 DEF SetArchivedUnresident
    <3> QED BY <3>1, <3>2
  <2>9. ASSUME NEW u \in Tables,
               \/ BeginUnload(u) \/ FinishUnload(u) \/ BeginDelete(u) \/ FinishDelete(u)
               \/ FinishDeleteUnresident(u)
        PROVE  Kept(t)
    <3>1. u # t
      <4>1. CASE BeginUnload(u) \/ BeginDelete(u)
        BY <2>1, <4>1 DEF BeginUnload, BeginDelete
      <4>2. CASE FinishUnload(u)
        BY <1>1, <2>1, <4>2 DEF FinishUnload, IInv, Accounted
      <4>3. CASE FinishDelete(u)
        <5>1. mu.op = "delete" /\ mu.table = u
          BY <4>3 DEF FinishDelete
        <5> QED BY <1>1, <2>1, <5>1 DEF IInv, HalfDeleted
      <4>4. CASE FinishDeleteUnresident(u)
        <5>1. mu.op = "delete unresident" /\ mu.table = u
          BY <4>4 DEF FinishDeleteUnresident
        <5> QED BY <1>1, <2>1, <5>1 DEF IInv, HalfDeleted
      <4> QED BY <2>9, <4>1, <4>2, <4>3, <4>4
    <3>2. UNCHANGED <<row[t], file[t]>>
      <4>1. CASE BeginUnload(u) \/ FinishUnload(u)
        BY <2>2, <3>1, <4>1 DEF BeginUnload, FinishUnload
      <4>2. CASE BeginDelete(u) \/ FinishDelete(u) \/ FinishDeleteUnresident(u)
        BY <2>2, <3>1, <4>2 DEF BeginDelete, FinishDelete, FinishDeleteUnresident
      <4> QED BY <2>9, <4>1, <4>2
    <3> QED BY <2>3, <3>2
  <2>10. ASSUME NEW u \in Tables, BeginDeleteUnresident(u) \/ FailLoad(u)
         PROVE  Kept(t)
    <3>1. CASE u = t
      BY <2>10, <3>1
    <3>2. CASE u # t
      BY <2>2, <2>3, <2>10, <3>2 DEF BeginDeleteUnresident, FailLoad
    <3> QED BY <3>1, <3>2
  <2>11. ASSUME NEW u \in Tables, Adopt(u)
         PROVE  Kept(t)
    <3> DEFINE r == [pass.copy EXCEPT !.open = TRUE]
    <3>1. r \in Row /\ r.open
      BY <1>1 DEF IInv, Types, PassShape, Row
    <3>2. file' = file /\ row' \in {row, [row EXCEPT ![u] = r]}
      BY <2>11 DEF Adopt
    <3> HIDE DEF r
    <3>3. row'[t] \in {row[t], r} /\ row'[t] # None
      BY <2>1, <2>2, <3>1, <3>2, TablesAssumption
    <3> QED BY <2>1, <3>1, <3>2, <3>3
  <2>12. ASSUME NEW S \in SUBSET Tables, ReadFiles(S)
         PROVE  Kept(t)
    BY <2>3, <2>12 DEF ReadFiles
  <2>13. CASE Admit \/ EndRebuild \/ Crash
    BY <2>3, <2>13 DEF Admit, EndRebuild, Crash
  <2>14. CASE EndPass
    <3>1. CASE serving \/ pass.blind
      BY <2>3, <2>14, <3>1 DEF EndPass
    <3>2. CASE ~serving /\ ~pass.blind
      <4>1. pass.at = "adopting" /\ ~InPass(t)
        BY <1>1, <2>14, TablesAssumption DEF EndPass, IInv, Stages, InPass
      <4>2. t \in pass.keep \/ verdict[t] = "bad"
        BY <1>1, <2>1, <3>2, <4>1 DEF IInv, Accounted
      <4>3. t \in pass.keep => UNCHANGED <<row[t], file[t]>>
        BY <2>14, <3>2 DEF EndPass
      <4> QED BY <2>3, <4>2, <4>3
    <3> QED BY <3>1, <3>2
  <2> QED BY <1>1, <2>4, <2>5, <2>6, <2>7, <2>8, <2>9, <2>10, <2>11, <2>12, <2>13, <2>14 DEF Next
<1>2. IInv /\ [Next]_vars =>
        [\A t \in Tables :
           Waiting(t) => \/ file'[t] /\ row'[t] # None /\ row'[t].open
                         \/ BeginDeleteUnresident(t) \/ FailLoad(t)
                         \/ verdict[t] = "bad"]_vars
  <2> SUFFICES ASSUME IInv, [Next]_vars
               PROVE  \A t \in Tables :
                        Waiting(t) => \/ file'[t] /\ row'[t] # None /\ row'[t].open
                                      \/ BeginDeleteUnresident(t) \/ FailLoad(t)
                                      \/ verdict[t] = "bad"
    OBVIOUS
  <2> QED BY <1>1
<1> HIDE DEF Kept
<1> QED BY <1>2, IInvAlways, PTL DEF Spec, NothingIsLostWaiting
=============================================================================
