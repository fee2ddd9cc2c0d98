--------------------------- MODULE RoomUndo_proofs ---------------------------
(***************************************************************************)
(* What holds of every table, whatever its seats, its limits and the size  *)
(* of its ring: the types, the caps of the ring, that the ring shadows the *)
(* game's line, from which a seat can rewind nothing but its own, that no  *)
(* clone holds a removed seat, that the frame is honest about undo, and    *)
(* that the prompt an undo reopened is its player's to answer.             *)
(***************************************************************************)
EXTENDS RoomUndoHistory, SequenceTheorems, FiniteSetTheorems, WellFoundedInduction, TLAPS

USE DEF Unlimited

Kinds == {"play", "bundle", "auto", "replay", "external"}
Budget == Nat \cup {Unlimited}

-----------------------------------------------------------------------------
(* Lemmas about the operators of the game.                                 *)

(* What a commit makes of a game is a game.                                *)
LEMMA ExtendType ==
    ASSUME limit \in Budget, NEW g \in Game, NEW by \in Seats \cup {Nil},
           NEW kind \in Kinds, NEW e \in EffectRecord
    PROVE  /\ Extend(g, by, kind, e) \in Game
           /\ Extend(g, by, kind, e).line =
                Append(g.line, [by |-> by, kind |-> kind, reveals |-> e.reveals])
           /\ Len(Extend(g, by, kind, e).line) = Len(g.line) + 1
           /\ Extend(g, by, kind, e).seated = g.seated
<1> DEFINE c == [by |-> by, kind |-> kind, reveals |-> e.reveals]
           line == Append(g.line, c)
           undos == IF e.turn = Nil THEN g.undos ELSE [g.undos EXCEPT ![e.turn] = limit]
           new == {[at |-> Len(g.line), n |-> i, chooser |-> e.asks[i]] : i \in 1..Len(e.asks)}
<1>1. c \in CommitRecord
  BY DEF CommitRecord, EffectRecord, Kinds
<1>2. line \in Seq(CommitRecord) /\ Len(line) = Len(g.line) + 1
  BY <1>1 DEF Game
<1>3. undos \in [Seats -> Budget]
  BY DEF Game, EffectRecord, Budget
<1>4. new \subseteq Prompt
  BY DEF Game, EffectRecord, Prompt
<1>5. g.prompts \cup new \in SUBSET Prompt
  BY <1>4 DEF Game
<1>6. (g.ended \/ e.ends) \in BOOLEAN
  BY DEF Game, EffectRecord
<1>7. Extend(g, by, kind, e) =
        [g EXCEPT !.line = line, !.undos = undos, !.ended = g.ended \/ e.ends,
                  !.prompts = g.prompts \cup new]
  BY DEF Extend, Game
<1> HIDE DEF line, undos, new
<1>8. Extend(g, by, kind, e) \in Game
  BY <1>2, <1>3, <1>5, <1>6, <1>7 DEF Game, Budget
<1> QED
  BY <1>2, <1>7, <1>8 DEF line, Game

LEMMA PlainType == Plain \in EffectRecord /\ [Plain EXCEPT !.ends = TRUE] \in EffectRecord
<1>1. <<>> \in Seq(Humans)
  OBVIOUS
<1>2. Plain \in EffectRecord
  BY <1>1 DEF Plain, EffectRecord
<1>3. [Plain EXCEPT !.ends = TRUE] \in EffectRecord
  BY <1>2 DEF EffectRecord
<1> QED BY <1>2, <1>3

(* The prompts a room may answer are prompts of the game.                  *)
LEMMA NextAutoAnswerType ==
    ASSUME NEW g \in Game
    PROVE  NextAutoAnswer(g) \subseteq g.prompts
  BY DEF NextAutoAnswer, Answerable

LEMMA MarkType ==
    ASSUME NEW g \in Game, NEW p \in Prompt
    PROVE  MarkAskedByHand(g, p) \in Game
  BY DEF MarkAskedByHand, Game

LEMMA WithoutPromptType ==
    ASSUME NEW g \in Game, NEW p
    PROVE  WithoutPrompt(g, p) \in Game
  BY DEF WithoutPrompt, Game

LEMMA DebitType ==
    ASSUME limit \in Budget, NEW g \in Game, NEW s \in Seats, ~SpendFails(g, s)
    PROVE  Debit(g, s) \in Game
<1>1. CASE limit = Unlimited
  BY <1>1 DEF Debit
<1>2. CASE limit # Unlimited
  <2>1. g.undos[s] \in Budget /\ g.undos[s] > 0
    BY <1>2 DEF SpendFails, Game, Budget
  <2>2. g.undos[s] - 1 \in Nat
    BY <2>1 DEF Budget
  <2> QED BY <1>2, <2>2 DEF Debit, Game, Budget
<1> QED BY <1>1, <1>2

-----------------------------------------------------------------------------
(* Lemmas about the operators of the ring.                                 *)

LEMMA NewEntryType ==
    ASSUME NEW g \in Game, NEW s \in Seats \cup {Nil}, NEW free \in BOOLEAN,
           NEW p \in Prompt \cup {Nil}
    PROVE  NewEntry(g, s, free, p) \in Entry
  BY DEF NewEntry, undoBarrierFor, Entry, Barrier, Game

LEMMA DemoteType ==
    ASSUME NEW r \in Seq(Entry)
    PROVE  /\ Demote(r) \in Seq(Entry)
           /\ Len(Demote(r)) = Len(r)
           /\ \A i \in 1..Len(r) :
                /\ Demote(r)[i].at = r[i].at
                /\ Demote(r)[i].caller = r[i].caller
                /\ \/ Demote(r)[i] = r[i]
                   \/ /\ i = Len(r) - SnapshotDepth
                      /\ Demote(r)[i].pre = NoClone /\ Demote(r)[i].barrier = "depth"
           /\ LET n == Len(r) - SnapshotDepth
              IN n >= 1 => Demote(r)[n].barrier # "none"
<1> DEFINE n == Len(r) - SnapshotDepth
<1>1. CASE n >= 1 /\ r[n].barrier = "none"
  <2>1. n \in 1..Len(r)
    BY <1>1, RingAssumption
  <2>2. Demote(r) = [r EXCEPT ![n] = [r[n] EXCEPT !.pre = NoClone, !.barrier = "depth"]]
    BY <1>1, <2>1 DEF Demote, Entry
  <2>3. r[n] \in Entry
    BY <2>1
  <2>4. [r[n] EXCEPT !.pre = NoClone, !.barrier = "depth"] \in Entry
    BY <2>3 DEF Entry, Barrier
  <2> QED BY <2>1, <2>2, <2>3, <2>4 DEF Entry
<1>2. CASE ~(n >= 1 /\ r[n].barrier = "none")
  BY <1>2 DEF Demote
<1> QED BY <1>1, <1>2

(* How far a push moves the entries down: by one when the ring is full.    *)
Shift(r) == IF Len(r) + 1 > StackCap THEN 1 ELSE 0

(* A push appends the entry, may drop the oldest, and takes the clone of   *)
(* the one that falls below SnapshotDepth; nothing else changes.           *)
LEMMA PushType ==
    ASSUME NEW r \in Seq(Entry), NEW e \in Entry, Len(r) <= StackCap
    PROVE  /\ pushUndo(r, e) \in Seq(Entry)
           /\ Len(pushUndo(r, e)) = Len(r) + 1 - Shift(r)
           /\ \A i \in 1..Len(pushUndo(r, e)) :
                LET j == i + Shift(r)
                    old == Append(r, e)[j]
                    now == pushUndo(r, e)[i]
                IN /\ j \in 1..(Len(r) + 1)
                   /\ now.at = old.at /\ now.caller = old.caller
                   /\ \/ now = old /\ (j = Len(r) + 1 - SnapshotDepth => now.barrier # "none")
                      \/ /\ j = Len(r) + 1 - SnapshotDepth
                         /\ now.pre = NoClone /\ now.barrier = "depth"
<1> DEFINE a == Append(r, e)
           d == Demote(a)
<1>1. a \in Seq(Entry) /\ Len(a) = Len(r) + 1
  OBVIOUS
<1>2. /\ d \in Seq(Entry)
      /\ Len(d) = Len(r) + 1
      /\ \A i \in 1..Len(a) :
           /\ d[i].at = a[i].at
           /\ d[i].caller = a[i].caller
           /\ \/ d[i] = a[i]
              \/ /\ i = Len(a) - SnapshotDepth
                 /\ d[i].pre = NoClone /\ d[i].barrier = "depth"
      /\ Len(a) - SnapshotDepth >= 1 => d[Len(a) - SnapshotDepth].barrier # "none"
  <2> HIDE DEF a
  <2> QED BY <1>1, DemoteType
<1>3. pushUndo(r, e) = IF Len(d) > StackCap THEN Tail(d) ELSE d
  BY DEF pushUndo
<1> HIDE DEF a, d
<1>4. CASE Len(r) + 1 > StackCap
  <2>1. pushUndo(r, e) = Tail(d) /\ Shift(r) = 1
    BY <1>2, <1>3, <1>4 DEF Shift
  <2>2. /\ Tail(d) \in Seq(Entry) /\ Len(Tail(d)) = Len(r)
        /\ \A i \in 1..Len(r) : Tail(d)[i] = d[i + 1]
    BY <1>2
  <2>3. ASSUME NEW i \in 1..Len(r)
        PROVE  /\ i + 1 \in 1..(Len(r) + 1)
               /\ d[i + 1].at = a[i + 1].at /\ d[i + 1].caller = a[i + 1].caller
               /\ \/ /\ d[i + 1] = a[i + 1]
                     /\ i + 1 = Len(r) + 1 - SnapshotDepth => d[i + 1].barrier # "none"
                  \/ /\ i + 1 = Len(r) + 1 - SnapshotDepth
                     /\ d[i + 1].pre = NoClone /\ d[i + 1].barrier = "depth"
    <3>1. i + 1 \in 1..(Len(r) + 1)
      OBVIOUS
    <3> QED BY <3>1, <1>1, <1>2, RingAssumption
  <2>4. Tail(d) \in Seq(Entry) /\ Len(Tail(d)) = Len(r) + 1 - 1
    BY <2>2
  <2>5. /\ pushUndo(r, e) \in Seq(Entry)
        /\ Len(pushUndo(r, e)) = Len(r) + 1 - Shift(r)
    BY <2>1, <2>4
  <2>6. SUFFICES ASSUME NEW i \in 1..Len(r)
                 PROVE  /\ i + 1 \in 1..(Len(r) + 1)
                        /\ Tail(d)[i].at = a[i + 1].at /\ Tail(d)[i].caller = a[i + 1].caller
                        /\ \/ /\ Tail(d)[i] = a[i + 1]
                              /\ i + 1 = Len(r) + 1 - SnapshotDepth => Tail(d)[i].barrier # "none"
                           \/ /\ i + 1 = Len(r) + 1 - SnapshotDepth
                              /\ Tail(d)[i].pre = NoClone /\ Tail(d)[i].barrier = "depth"
    BY <2>1, <2>2, <2>5 DEF a
  <2>7. Tail(d)[i] = d[i + 1]
    BY <2>2
  <2> QED BY <2>3, <2>7, Zenon
<1>5. CASE ~(Len(r) + 1 > StackCap)
  <2>1. pushUndo(r, e) = d /\ Shift(r) = 0
    BY <1>2, <1>3, <1>5 DEF Shift
  <2> QED BY <2>1, <1>1, <1>2, RingAssumption DEF a
<1> QED BY <1>4, <1>5

LEMMA PrefixType ==
    ASSUME NEW S, NEW s \in Seq(S), NEW n \in 0..Len(s)
    PROVE  /\ SubSeq(s, 1, n) \in Seq(S)
           /\ Len(SubSeq(s, 1, n)) = n
           /\ \A i \in 1..n : SubSeq(s, 1, n)[i] = s[i]
<1>1. \A i \in 1..n : s[i] \in S
  OBVIOUS
<1>2. SubSeq(s, 1, n) = [i \in 1..n |-> s[i]]
  BY SubSeqRestrict DEF Restrict
<1> QED BY <1>1, <1>2

LEMMA FrontType ==
    ASSUME NEW r \in Seq(Entry), r # <<>>
    PROVE  /\ Front(r) \in Seq(Entry)
           /\ Len(Front(r)) = Len(r) - 1
           /\ \A i \in 1..(Len(r) - 1) : Front(r)[i] = r[i]
           /\ Len(r) \in 1..Len(r)
           /\ Last(r) \in Entry /\ Last(r) = r[Len(r)]
<1> DEFINE n == Len(r) - 1
<1>1. Len(r) \in Nat /\ Len(r) >= 1 /\ n \in 0..Len(r)
  OBVIOUS
<1>2. Last(r) = r[Len(r)] /\ Last(r) \in Entry
  BY <1>1 DEF Last
<1>3. Front(r) = SubSeq(r, 1, n)
  BY DEF Front
<1>4. /\ SubSeq(r, 1, n) \in Seq(Entry)
      /\ Len(SubSeq(r, 1, n)) = n
      /\ \A i \in 1..n : SubSeq(r, 1, n)[i] = r[i]
  <2> HIDE DEF n
  <2> QED BY <1>1, PrefixType
<1> QED BY <1>1, <1>2, <1>3, <1>4

LEMMA FrameType ==
    ASSUME NEW g \in Game, NEW r \in Seq(Entry)
    PROVE  Frame(g, r) \in [game : Game, blocked : [Seats -> Blocked]]
<1>1. \A s \in Seats : stampUndoBlocked(g, r, s) \in Blocked
  BY DEF stampUndoBlocked, Blocked
<1> QED BY <1>1 DEF Frame

-----------------------------------------------------------------------------
(* The invariants, of a ring and a line.                                   *)

ClonesOn(r) ==
    /\ Len(r) <= StackCap
    /\ \A i \in 1..Len(r) :
         /\ r[i].barrier = "none" <=> r[i].pre # NoClone
         /\ r[i].pre # NoClone => i > Len(r) - SnapshotDepth

After(r, line, i) == IF i = Len(r) THEN Len(line) ELSE r[i + 1].at

Shadows(r, line) ==
    \A i \in 1..Len(r) :
        /\ r[i].at < Len(line)
        /\ \A j \in (i + 1)..Len(r) : r[i].at < r[j].at
        /\ Owned(r[i], line[r[i].at + 1])
        /\ \A k \in (r[i].at + 2)..After(r, line, i) : line[k].kind = "external"
        /\ r[i].pre # NoClone => r[i].pre.line = SubSeq(line, 1, r[i].at)

LEMMA AfterBounds ==
    ASSUME NEW r \in Seq(Entry), NEW line \in Seq(CommitRecord), Shadows(r, line),
           NEW i \in 1..Len(r)
    PROVE  /\ r[i].at \in Nat /\ After(r, line, i) \in Nat
           /\ r[i].at < After(r, line, i) /\ After(r, line, i) <= Len(line)
<1>1. r[i].at \in Nat /\ r[i].at < Len(line)
  <2>1. r[i] \in Entry
    OBVIOUS
  <2> QED BY <2>1 DEF Shadows, Entry
<1>2. CASE i = Len(r)
  BY <1>1, <1>2 DEF After
<1>3. CASE i # Len(r)
  <2>1. i + 1 \in 1..Len(r) /\ r[i + 1] \in Entry
    BY <1>3
  <2>2. r[i + 1].at \in Nat /\ r[i + 1].at < Len(line) /\ r[i].at < r[i + 1].at
    BY <2>1 DEF Shadows, Entry
  <2> QED BY <1>1, <1>3, <2>2 DEF After
<1> QED BY <1>2, <1>3

(* An entry that takes a commit's game fits the commit it is pushed for.   *)
Fits(e, g, c) ==
    /\ e \in Entry
    /\ e.at = Len(g.line)
    /\ Owned(e, c)
    /\ e.barrier = "none" <=> e.pre # NoClone
    /\ e.pre # NoClone => e.pre.line = g.line

LEMMA NewEntryFits ==
    ASSUME NEW g \in Game, NEW s \in Seats \cup {Nil}, NEW free \in BOOLEAN,
           NEW p \in Prompt \cup {Nil}, NEW c \in CommitRecord,
           c.kind # "external",
           IF s = Nil THEN c.by \in Bots \cup {Nil} ELSE c.by = s,
           c.by \in Bots /\ c.kind = "play" => s = c.by
    PROVE  Fits(NewEntry(g, s, free, p), g, c)
<1>1. NewEntry(g, s, free, p) \in Entry
  BY NewEntryType
<1>2. g # NoClone
  BY CloneAssumption
<1> QED BY <1>1, <1>2 DEF Fits, Owned, NewEntry, undoBarrierFor

LEMMA PushKeepsClones ==
    ASSUME NEW r \in Seq(Entry), ClonesOn(r), NEW e \in Entry,
           e.barrier = "none" <=> e.pre # NoClone
    PROVE  ClonesOn(pushUndo(r, e))
<1> DEFINE p == pushUndo(r, e)
<1>1. Len(r) <= StackCap
  BY DEF ClonesOn
<1>2. Len(p) = Len(r) + 1 - Shift(r) /\ Len(p) <= StackCap
  BY <1>1, PushType, RingAssumption DEF Shift
<1>3. ASSUME NEW i \in 1..Len(p)
      PROVE  /\ p[i].barrier = "none" <=> p[i].pre # NoClone
             /\ p[i].pre # NoClone => i > Len(p) - SnapshotDepth
  <2> DEFINE j == i + Shift(r)
             old == Append(r, e)[j]
  <2>1. /\ j \in 1..(Len(r) + 1)
        /\ \/ p[i] = old /\ (j = Len(r) + 1 - SnapshotDepth => p[i].barrier # "none")
           \/ /\ j = Len(r) + 1 - SnapshotDepth
              /\ p[i].pre = NoClone /\ p[i].barrier = "depth"
    BY <1>1, PushType
  <2>2. /\ old.barrier = "none" <=> old.pre # NoClone
        /\ old.pre # NoClone => j > Len(r) - SnapshotDepth
    BY <2>1, RingAssumption DEF ClonesOn
  <2>3. Len(p) - SnapshotDepth = Len(r) + 1 - SnapshotDepth - Shift(r)
    BY <1>2, RingAssumption DEF Shift
  <2> HIDE DEF old, p
  <2> QED BY <2>1, <2>2, <2>3, RingAssumption DEF Shift
<1> QED BY <1>2, <1>3 DEF ClonesOn

(* An appended play leaves the plays before it alone.                      *)
LEMMA PrefixOfAppend ==
    ASSUME NEW S, NEW s \in Seq(S), NEW x \in S, NEW n \in 0..Len(s)
    PROVE  SubSeq(Append(s, x), 1, n) = SubSeq(s, 1, n)
<1>1. \A k \in 1..n : Append(s, x)[k] = s[k]
  OBVIOUS
<1> QED BY <1>1

LEMMA PushKeepsShadows ==
    ASSUME NEW r \in Seq(Entry), Len(r) <= StackCap, NEW g \in Game, Shadows(r, g.line),
           NEW c \in CommitRecord, NEW e, Fits(e, g, c)
    PROVE  Shadows(pushUndo(r, e), Append(g.line, c))
<1> DEFINE p == pushUndo(r, e)
           line == g.line
           next == Append(g.line, c)
<1>1. line \in Seq(CommitRecord) /\ Len(line) \in Nat /\ Len(next) = Len(line) + 1
  BY DEF Game
<1>2. e \in Entry /\ Len(p) = Len(r) + 1 - Shift(r)
  BY PushType DEF Fits
<1>3. ASSUME NEW i \in 1..Len(p)
      PROVE  /\ p[i].at < Len(next)
             /\ \A k \in (i + 1)..Len(p) : p[i].at < p[k].at
             /\ Owned(p[i], next[p[i].at + 1])
             /\ \A k \in (p[i].at + 2)..After(p, next, i) : next[k].kind = "external"
             /\ p[i].pre # NoClone => p[i].pre.line = SubSeq(next, 1, p[i].at)
  <2> DEFINE j == i + Shift(r)
             old == Append(r, e)[j]
  <2>1. /\ j \in 1..(Len(r) + 1)
        /\ p[i].at = old.at /\ p[i].caller = old.caller
        /\ p[i].pre # NoClone => p[i].pre = old.pre
    BY <1>2, PushType
  <2>7. \A d : Owned(old, d) => Owned(p[i], d)
    BY <1>2, PushType DEF Owned
  <2>2. i # Len(p) => p[i + 1].at = Append(r, e)[j + 1].at
    <3>1. SUFFICES ASSUME i # Len(p) PROVE p[i + 1].at = Append(r, e)[j + 1].at
      OBVIOUS
    <3>2. i + 1 \in 1..Len(p) /\ (i + 1) + Shift(r) = j + 1
      BY <3>1, <1>2 DEF Shift
    <3>3. p[i + 1].at = Append(r, e)[(i + 1) + Shift(r)].at
      BY <3>2, <1>2, PushType
    <3> QED BY <3>2, <3>3
  <2>3. i = Len(p) <=> j = Len(r) + 1
    BY <1>2, <2>1 DEF Shift
  <2>6. \A k \in (i + 1)..Len(p) :
          k + Shift(r) \in (j + 1)..(Len(r) + 1) /\ p[k].at = Append(r, e)[k + Shift(r)].at
    <3>1. SUFFICES ASSUME NEW k \in (i + 1)..Len(p)
          PROVE  /\ k + Shift(r) \in (j + 1)..(Len(r) + 1)
                 /\ p[k].at = Append(r, e)[k + Shift(r)].at
      OBVIOUS
    <3>2. k \in 1..Len(p)
      OBVIOUS
    <3>3. p[k].at = Append(r, e)[k + Shift(r)].at
      BY <3>2, <1>2, PushType
    <3>4. k + Shift(r) \in (j + 1)..(Len(r) + 1)
      BY <1>2 DEF Shift
    <3> QED BY <3>3, <3>4
  <2>4. CASE j = Len(r) + 1
    <3>1. old = e
      BY <2>4
    <3>2. After(p, next, i) = Len(line) + 1
      BY <1>1, <2>3, <2>4 DEF After
    <3>3. next[Len(line) + 1] = c
      BY <1>1
    <3>4. SubSeq(next, 1, Len(line)) = line
      BY <1>1
    <3>5. p[i].at = Len(line)
      BY <2>1, <3>1 DEF Fits
    <3> HIDE DEF p, next, old
    <3>6. p[i].pre # NoClone => p[i].pre.line = SubSeq(next, 1, p[i].at)
      BY <2>1, <3>1, <3>4, <3>5 DEF Fits
    <3>7. (i + 1)..Len(p) = {}
      <4>1. i = Len(p) /\ Len(p) \in Nat
        BY <1>2, <2>3, <2>4
      <4> QED BY <4>1
    <3> QED BY <1>1, <2>1, <2>7, <3>1, <3>2, <3>3, <3>5, <3>6, <3>7 DEF Fits
  <2>5. CASE j # Len(r) + 1
    <3>1. j \in 1..Len(r) /\ old = r[j] /\ r[j] \in Entry
      BY <2>1, <2>5
    <3>2. /\ r[j].at < After(r, line, j) /\ After(r, line, j) <= Len(line)
          /\ r[j].at \in Nat /\ After(r, line, j) \in Nat
          /\ r[j].at < Len(line)
          /\ \A k \in (j + 1)..Len(r) : r[j].at < r[k].at
          /\ Owned(r[j], line[r[j].at + 1])
          /\ \A k \in (r[j].at + 2)..After(r, line, j) : line[k].kind = "external"
          /\ r[j].pre # NoClone => r[j].pre.line = SubSeq(line, 1, r[j].at)
      BY <1>1, <3>1, AfterBounds DEF Shadows
    <3>3. After(p, next, i) = After(r, line, j)
      <4>1. i # Len(p) /\ After(p, next, i) = Append(r, e)[j + 1].at
        BY <2>2, <2>3, <2>5 DEF After
      <4>2. CASE j = Len(r)
        BY <4>1, <4>2 DEF After, Fits
      <4>3. CASE j # Len(r)
        BY <4>1, <4>3, <3>1 DEF After
      <4> QED BY <4>2, <4>3
    <3>4. \A k \in 1..Len(line) : next[k] = line[k]
      BY <1>1
    <3>5. \A k \in (i + 1)..Len(p) : p[i].at < p[k].at
      <4>1. SUFFICES ASSUME NEW k \in (i + 1)..Len(p) PROVE r[j].at < p[k].at
        BY <2>1, <3>1
      <4>2. /\ k + Shift(r) \in (j + 1)..(Len(r) + 1)
            /\ p[k].at = Append(r, e)[k + Shift(r)].at
        BY <2>6
      <4>3. CASE k + Shift(r) = Len(r) + 1
        BY <4>2, <4>3, <3>2 DEF Fits
      <4>4. CASE k + Shift(r) # Len(r) + 1
        <5>1. /\ k + Shift(r) \in (j + 1)..Len(r)
              /\ Append(r, e)[k + Shift(r)] = r[k + Shift(r)]
          BY <4>2, <4>4, <3>1
        <5> QED BY <4>2, <5>1, <3>2
      <4> QED BY <4>3, <4>4
    <3>6. SubSeq(next, 1, r[j].at) = SubSeq(line, 1, r[j].at)
      <4>1. r[j].at \in 0..Len(line)
        BY <1>1, <3>2
      <4> QED BY <1>1, <4>1, PrefixOfAppend
    <3> HIDE DEF p, next, line, old
    <3>7. p[i].pre # NoClone => p[i].pre.line = SubSeq(next, 1, p[i].at)
      <4>1. /\ p[i].at = r[j].at
            /\ p[i].pre # NoClone => p[i].pre = r[j].pre
        BY <2>1, <3>1
      <4>2. r[j].pre # NoClone => r[j].pre.line = SubSeq(next, 1, r[j].at)
        BY <3>2, <3>6
      <4> QED BY <4>1, <4>2, Zenon
    <3>8. \A k \in (r[j].at + 2)..After(r, line, j) : next[k].kind = "external"
      BY <3>2, <3>4, <1>1
    <3>9. next[r[j].at + 1] = line[r[j].at + 1]
      <4>1. r[j].at + 1 \in 1..Len(line)
        BY <3>2, <1>1
      <4> QED BY <4>1, <3>4
    <3> QED BY <1>1, <2>1, <2>7, <3>1, <3>2, <3>3, <3>5, <3>7, <3>8, <3>9
  <2> QED BY <2>4, <2>5
<1> HIDE DEF p, next
<1> QED BY <1>3 DEF Shadows, p, next

LEMMA ExternalKeepsShadows ==
    ASSUME NEW r \in Seq(Entry), NEW g \in Game, Shadows(r, g.line),
           NEW c \in CommitRecord, c.kind = "external"
    PROVE  Shadows(r, Append(g.line, c))
<1> DEFINE line == g.line
           next == Append(g.line, c)
<1>1. line \in Seq(CommitRecord) /\ Len(line) \in Nat /\ Len(next) = Len(line) + 1
  BY DEF Game
<1>2. next[Len(line) + 1] = c /\ \A k \in 1..Len(line) : next[k] = line[k]
  BY <1>1
<1>3. ASSUME NEW i \in 1..Len(r)
      PROVE  /\ r[i].at < Len(next)
             /\ \A k \in (i + 1)..Len(r) : r[i].at < r[k].at
             /\ Owned(r[i], next[r[i].at + 1])
             /\ \A k \in (r[i].at + 2)..After(r, next, i) : next[k].kind = "external"
             /\ r[i].pre # NoClone => r[i].pre.line = SubSeq(next, 1, r[i].at)
  <2>1. /\ r[i].at < After(r, line, i) /\ After(r, line, i) <= Len(line)
        /\ \A k \in (i + 1)..Len(r) : r[i].at < r[k].at
        /\ Owned(r[i], line[r[i].at + 1])
        /\ \A k \in (r[i].at + 2)..After(r, line, i) : line[k].kind = "external"
        /\ r[i].pre # NoClone => r[i].pre.line = SubSeq(line, 1, r[i].at)
    BY <1>1, AfterBounds DEF Shadows
  <2>2. r[i].at \in Nat /\ After(r, line, i) \in Nat
    BY <1>1, AfterBounds
  <2>4. \/ After(r, next, i) = After(r, line, i)
        \/ After(r, line, i) = Len(line) /\ After(r, next, i) = Len(line) + 1
    BY <1>1 DEF After
  <2>5. SubSeq(next, 1, r[i].at) = SubSeq(line, 1, r[i].at)
    BY <1>1, <2>1, <2>2
  <2> HIDE DEF line, next
  <2>6. r[i].at + 1 \in 1..Len(line)
    BY <1>1, <2>1, <2>2
  <2>7. next[r[i].at + 1] = line[r[i].at + 1]
    BY <1>2, <2>6
  <2>8. ASSUME NEW k \in (r[i].at + 2)..After(r, next, i)
        PROVE  next[k].kind = "external"
    <3>1. k \in 1..(Len(line) + 1)
      BY <1>1, <2>1, <2>2, <2>4
    <3>2. CASE k = Len(line) + 1
      BY <1>2, <3>2
    <3>3. CASE k # Len(line) + 1
      <4>1. k \in 1..Len(line) /\ k \in (r[i].at + 2)..After(r, line, i)
        BY <1>1, <2>1, <2>2, <2>4, <3>1, <3>3
      <4> QED BY <4>1, <1>2, <2>1
    <3> QED BY <3>2, <3>3
  <2> QED BY <1>1, <2>1, <2>2, <2>4, <2>5, <2>7, <2>8
<1> HIDE DEF next
<1> QED BY <1>3 DEF Shadows, next

(* The clone on top puts back the line its play was made on.               *)
LEMMA UndoKeepsShadows ==
    ASSUME NEW r \in Seq(Entry), r # <<>>, NEW line \in Seq(CommitRecord), Shadows(r, line),
           Last(r).pre # NoClone
    PROVE  /\ Shadows(Front(r), Last(r).pre.line)
           /\ Len(Last(r).pre.line) = Last(r).at
           /\ Last(r).at + 1 <= Len(line)
           /\ Owned(Last(r), line[Last(r).at + 1])
           /\ \A k \in (Last(r).at + 2)..Len(line) : line[k].kind = "external"
<1> DEFINE n == Len(r)
           at == r[n].at
           back == SubSeq(line, 1, at)
<1>1. n \in Nat /\ n >= 1 /\ Last(r) = r[n] /\ at \in Nat
  <2>1. n \in 1..n /\ Last(r) = r[n] /\ r[n] \in Entry
    BY FrontType
  <2> QED BY <2>1 DEF Entry
<1>2. /\ at + 1 <= Len(line) /\ Owned(r[n], line[at + 1])
      /\ \A k \in (at + 2)..Len(line) : line[k].kind = "external"
      /\ r[n].pre.line = back
  <2>1. After(r, line, n) = Len(line) /\ n \in 1..Len(r)
    BY <1>1 DEF After
  <2> QED BY <1>1, <2>1 DEF Shadows
<1>3. Len(back) = at /\ \A k \in 1..at : back[k] = line[k]
  <2>1. at \in 0..Len(line)
    BY <1>1, <1>2
  <2> QED BY <2>1, PrefixType
<1>4. Len(Front(r)) = n - 1 /\ \A i \in 1..(n - 1) : Front(r)[i] = r[i]
  BY FrontType
<1>5. ASSUME NEW i \in 1..(n - 1)
      PROVE  /\ r[i].at < Len(back)
             /\ \A k \in (i + 1)..(n - 1) : r[i].at < r[k].at
             /\ Owned(r[i], back[r[i].at + 1])
             /\ \A k \in (r[i].at + 2)..After(Front(r), back, i) : back[k].kind = "external"
             /\ r[i].pre # NoClone => r[i].pre.line = SubSeq(back, 1, r[i].at)
  <2>1. i \in 1..Len(r) /\ i # n /\ r[i] \in Entry /\ r[i + 1] \in Entry
    BY <1>1
  <2>2. /\ \A k \in (i + 1)..n : r[i].at < r[k].at
        /\ Owned(r[i], line[r[i].at + 1])
        /\ \A k \in (r[i].at + 2)..r[i + 1].at : line[k].kind = "external"
        /\ r[i].pre # NoClone => r[i].pre.line = SubSeq(line, 1, r[i].at)
    BY <2>1 DEF Shadows, After
  <2>3. After(Front(r), back, i) = r[i + 1].at
    BY <1>1, <1>3, <1>4 DEF After
  <2>4. r[i].at < at /\ r[i + 1].at <= at
    <3>1. r[i].at < at
      <4>1. n \in (i + 1)..n
        BY <1>1
      <4> QED BY <4>1, <2>2
    <3>2. CASE i + 1 = n
      BY <3>1, <3>2, <1>1
    <3>3. CASE i + 1 # n
      <4>1. i + 1 \in 1..Len(r) /\ n \in ((i + 1) + 1)..Len(r)
        BY <1>1, <3>3
      <4>2. r[i + 1].at < at
        BY <4>1 DEF Shadows
      <4>3. r[i + 1].at \in Nat
        BY <2>1 DEF Entry
      <4> QED BY <3>1, <4>2, <4>3, <1>1
    <3> QED BY <3>2, <3>3
  <2>5. r[i].at \in Nat /\ r[i + 1].at \in Nat
    BY <2>1 DEF Entry
  <2>6. /\ Len(back) = at
        /\ \A k \in 1..at : back[k] = line[k]
    BY <1>3
  <2>7. SubSeq(back, 1, r[i].at) = SubSeq(line, 1, r[i].at)
    BY <1>1, <1>2, <2>4, <2>5, SMTT(30)
  <2> HIDE DEF n, at, back
  <2>8. back[r[i].at + 1] = line[r[i].at + 1]
    <3>1. r[i].at + 1 \in 1..at
      BY <1>1, <2>4, <2>5
    <3> QED BY <3>1, <2>6
  <2>9. \A k \in (r[i].at + 2)..r[i + 1].at : back[k].kind = "external"
    <3>1. \A k \in (r[i].at + 2)..r[i + 1].at : k \in 1..at
      BY <1>1, <2>4, <2>5
    <3> QED BY <3>1, <2>2, <2>6
  <2>10. \A k \in (i + 1)..(n - 1) : r[i].at < r[k].at
    <3>1. \A k \in (i + 1)..(n - 1) : k \in (i + 1)..n
      BY <1>1
    <3> QED BY <3>1, <2>2
  <2> QED BY <2>2, <2>3, <2>4, <2>6, <2>7, <2>8, <2>9, <2>10
<1>6. Shadows(Front(r), back)
  <2> DEFINE front == Front(r)
  <2>1. Len(front) = n - 1 /\ \A i \in 1..(n - 1) : front[i] = r[i]
    BY <1>4
  <2>2. ASSUME NEW i \in 1..Len(front)
        PROVE  /\ front[i].at < Len(back)
               /\ \A k \in (i + 1)..Len(front) : front[i].at < front[k].at
               /\ Owned(front[i], back[front[i].at + 1])
               /\ \A k \in (front[i].at + 2)..After(front, back, i) :
                      back[k].kind = "external"
               /\ front[i].pre # NoClone => front[i].pre.line = SubSeq(back, 1, front[i].at)
    <3> HIDE DEF n, back, front
    <3>1. i \in 1..(n - 1) /\ front[i] = r[i]
      BY <2>1
    <3>2. \A k \in (i + 1)..Len(front) : k \in (i + 1)..(n - 1) /\ front[k] = r[k]
      BY <1>1, <2>1, <3>1
    <3> QED BY <1>5, <3>1, <3>2 DEF front
  <2> HIDE DEF back, front
  <2> QED BY <2>2 DEF Shadows, front
<1> QED BY <1>1, <1>2, <1>3, <1>6

-----------------------------------------------------------------------------
(* The inductive invariant.                                                *)

IInv == TypeOK /\ ClonesOn(ring) /\ Shadows(ring, game.line)

LEMMA IInvInit == Init => IInv
<1> SUFFICES ASSUME Init PROVE IInv
  OBVIOUS
<1>1. limit \in Budget
  BY LimitAssumption DEF Init, Budget
<1>2. <<>> \in Seq(CommitRecord) /\ <<>> \in Seq(Entry) /\ Len(<<>>) = 0
  OBVIOUS
<1>3. game \in Game
  BY <1>1, <1>2 DEF Init, Game, Budget
<1>4. shown \in [game : Game, blocked : [Seats -> Blocked]]
  BY <1>2, <1>3, FrameType DEF Init
<1>5. TypeOK
  BY <1>1, <1>2, <1>3, <1>4, BoundAssumption DEF Init, TypeOK, Budget
<1>6. ClonesOn(ring) /\ Shadows(ring, game.line)
  BY <1>2, RingAssumption DEF Init, ClonesOn, Shadows
<1> QED BY <1>5, <1>6 DEF IInv

(* A commit that pushes an entry of its own keeps the ring in order.       *)
LEMMA PlayKeepsRing ==
    ASSUME IInv, NEW s \in Seats \cup {Nil}, NEW free \in BOOLEAN,
           NEW p \in Prompt \cup {Nil}, NEW by \in Seats \cup {Nil},
           NEW kind \in Kinds \ {"external"}, NEW e \in EffectRecord,
           IF s = Nil THEN by \in Bots \cup {Nil} ELSE by = s,
           by \in Bots /\ kind = "play" => s = by,
           NEW r, r = pushUndo(ring, NewEntry(game, s, free, p)),
           NEW g, g.line = Extend(game, by, kind, e).line
    PROVE  r \in Seq(Entry) /\ ClonesOn(r) /\ Shadows(r, g.line)
<1> DEFINE c == [by |-> by, kind |-> kind, reveals |-> e.reveals]
           entry == NewEntry(game, s, free, p)
<1>1. /\ game \in Game /\ limit \in Budget /\ ring \in Seq(Entry)
      /\ ClonesOn(ring) /\ Shadows(ring, game.line) /\ Len(ring) <= StackCap
  BY DEF IInv, TypeOK, Budget, ClonesOn
<1>2. c \in CommitRecord /\ g.line = Append(game.line, c)
  BY <1>1, ExtendType DEF CommitRecord, EffectRecord, Kinds
<1>3. Fits(entry, game, c)
  <2>1. /\ c.kind # "external"
        /\ IF s = Nil THEN c.by \in Bots \cup {Nil} ELSE c.by = s
        /\ c.by \in Bots /\ c.kind = "play" => s = c.by
    OBVIOUS
  <2> HIDE DEF c
  <2> QED BY <1>1, <1>2, <2>1, NewEntryFits
<1> HIDE DEF c, entry
<1>4. entry \in Entry /\ (entry.barrier = "none" <=> entry.pre # NoClone)
  BY <1>3 DEF Fits
<1>5. r = pushUndo(ring, entry)
  BY DEF entry
<1> QED BY <1>1, <1>2, <1>3, <1>4, <1>5, PushType, PushKeepsClones, PushKeepsShadows

(* A commit that pushes no entry.                                          *)
LEMMA ExternalKeepsRing ==
    ASSUME IInv, NEW by \in Seats \cup {Nil}, NEW e \in EffectRecord,
           NEW g, g.line = Extend(game, by, "external", e).line
    PROVE  Shadows(ring, g.line)
<1> DEFINE c == [by |-> by, kind |-> "external", reveals |-> e.reveals]
<1>1. /\ game \in Game /\ limit \in Budget /\ ring \in Seq(Entry)
      /\ Shadows(ring, game.line)
  BY DEF IInv, TypeOK, Budget
<1>2. c \in CommitRecord /\ c.kind = "external" /\ g.line = Append(game.line, c)
  BY <1>1, ExtendType DEF CommitRecord, EffectRecord, Kinds
<1> HIDE DEF c
<1> QED BY <1>1, <1>2, ExternalKeepsShadows

(* A game without its loop recording is a game.                            *)
LEMMA UnloopType ==
    ASSUME NEW g \in Game
    PROVE  /\ [g EXCEPT !.loop = Nil] \in Game
           /\ [g EXCEPT !.loop = Nil].line = g.line
<1>1. Nil \in Humans \cup {Nil}
  OBVIOUS
<1> QED BY <1>1 DEF Game

(* What an undo puts back is a game, on the line its clone was taken of.   *)
LEMMA RestoredType ==
    ASSUME IInv, NEW c, MayUndo(c)
    PROVE  /\ Last(ring).pre \in Game /\ Last(ring).pre # NoClone
           /\ Restored \in Game /\ Restored.line = Last(ring).pre.line
           /\ ring # <<>> /\ ring \in Seq(Entry) /\ Last(ring) \in Entry
<1>1. /\ ring \in Seq(Entry) /\ ring # <<>> /\ Last(ring).barrier = "none"
      /\ Last(ring) \in Entry /\ Last(ring) = ring[Len(ring)] /\ Len(ring) \in 1..Len(ring)
  BY FrontType DEF IInv, TypeOK, MayUndo
<1>2. Last(ring).pre # NoClone
  BY <1>1 DEF IInv, ClonesOn
<1>3. /\ Last(ring).pre \in Game
      /\ Last(ring).answered \in Prompt \cup {Nil}
  BY <1>1, <1>2 DEF Entry
<1>5. CASE Last(ring).answered = Nil
  <2>1. Restored = [Last(ring).pre EXCEPT !.loop = Nil]
    BY <1>5 DEF Restored
  <2> QED BY <2>1, <1>1, <1>2, <1>3, UnloopType
<1>6. CASE Last(ring).answered # Nil
  <2> DEFINE back == MarkAskedByHand(Last(ring).pre, Last(ring).answered)
  <2>1. back \in Game
    BY <1>3, <1>6, MarkType
  <2>2. back.line = Last(ring).pre.line
    BY <1>3 DEF MarkAskedByHand, Game
  <2>3. Restored = [back EXCEPT !.loop = Nil]
    BY <1>6 DEF Restored
  <2> HIDE DEF back
  <2> QED BY <2>1, <2>2, <2>3, <1>1, <1>2, <1>3, UnloopType
<1> QED BY <1>1, <1>2, <1>3, <1>5, <1>6

(* The step of a commit: the game, the ring and the rest of the room.      *)
LEMMA CommitStep ==
    ASSUME IInv, NEW g \in Game, Commit(g), limit' \in Budget,
           ring' \in Seq(Entry), ClonesOn(ring'), Shadows(ring', g.line)
    PROVE  IInv'
<1>1. /\ game' = g /\ phase' = "answering" /\ answers' = 0 /\ shown' = shown
  BY DEF Commit
<1>2. TypeOK'
  BY <1>1, BoundAssumption DEF IInv, TypeOK, Budget
<1> QED BY <1>1, <1>2 DEF IInv, ClonesOn, Shadows, After, Owned

LEMMA ReleaseStep ==
    ASSUME IInv, NEW g \in Game, NEW r \in Seq(Entry), Release(g, r),
           ClonesOn(r), Shadows(r, g.line)
    PROVE  IInv'
<1>1. /\ game' = g /\ ring' = r /\ phase' = "free" /\ shown' = Frame(g, r)
      /\ limit' = limit /\ answers' = answers
  BY DEF Release
<1>2. TypeOK'
  BY <1>1, FrameType DEF IInv, TypeOK
<1> QED BY <1>1, <1>2 DEF IInv, ClonesOn, Shadows, After, Owned

LEMMA IInvStep == IInv /\ [Next]_vars => IInv'
<1> SUFFICES ASSUME IInv, [Next]_vars PROVE IInv'
  OBVIOUS
<1> USE DEF Budget
<1>1. /\ game \in Game /\ limit \in Budget /\ ring \in Seq(Entry)
      /\ phase \in {"free", "answering"} /\ answers \in 0..MaxAutoAnswers
      /\ shown \in [game : Game, blocked : [Seats -> Blocked]]
      /\ ClonesOn(ring) /\ Shadows(ring, game.line)
  BY DEF IInv, TypeOK
<1>2. \A e \in Effects : e \in EffectRecord
  BY EffectAssumption
<1>3. \A p \in game.prompts : p \in Prompt /\ p.chooser \in Humans
  BY <1>1 DEF Game, Prompt
<1>4. ASSUME NEW s \in Seats \cup {Nil}, NEW e \in Effects, Apply(s, e)
      PROVE  IInv'
  <2> DEFINE g == Extend(game, s, "play", e)
  <2>1. g \in Game
    BY <1>1, <1>2, ExtendType DEF Kinds
  <2>2. ring' \in Seq(Entry) /\ ClonesOn(ring') /\ Shadows(ring', g.line)
    <3>1. ring' = pushUndo(ring, NewEntry(game, s, FALSE, Nil))
      BY <1>4 DEF Apply
    <3> HIDE DEF g
    <3> QED BY <1>2, <3>1, PlayKeepsRing DEF Kinds, g
  <2>3. Commit(g) /\ limit' = limit
    BY <1>4 DEF Apply
  <2> HIDE DEF g
  <2> QED BY <1>1, <2>1, <2>2, <2>3, CommitStep
<1>5. ASSUME NEW p \in game.prompts, NEW e \in Effects, ResolveChoice(p, e)
      PROVE  IInv'
  <2> DEFINE x == Extend(game, p.chooser, "play", e)
             g == WithoutPrompt(x, p)
  <2>1. x \in Game /\ g \in Game /\ g.line = x.line
    <3>1. x \in Game
      BY <1>1, <1>2, <1>3, ExtendType DEF Kinds, Seats
    <3> HIDE DEF x
    <3> QED BY <3>1, WithoutPromptType DEF WithoutPrompt, Game
  <2>2. ring' \in Seq(Entry) /\ ClonesOn(ring') /\ Shadows(ring', g.line)
    <3>1. ring' = pushUndo(ring, NewEntry(game, p.chooser, FALSE, Nil))
      BY <1>5 DEF ResolveChoice
    <3>2. p.chooser # Nil /\ p.chooser \in Seats
      BY <1>3, SeatAssumption DEF Seats
    <3> HIDE DEF g
    <3> QED BY <1>2, <2>1, <3>1, <3>2, PlayKeepsRing DEF Kinds
  <2>3. Commit(g) /\ limit' = limit
    BY <1>5 DEF ResolveChoice
  <2> HIDE DEF g
  <2> QED BY <1>1, <2>1, <2>2, <2>3, CommitStep
<1>6. ASSUME NEW a \in Seats \cup {Nil}, NEW e \in Effects, ApplyBundle(a, e)
      PROVE  IInv'
  <2> DEFINE g == Extend(game, a, "bundle", e)
             caller == IF a \in Bots THEN Nil ELSE a
  <2>1. g \in Game
    BY <1>1, <1>2, ExtendType DEF Kinds
  <2>2. ring' \in Seq(Entry) /\ ClonesOn(ring') /\ Shadows(ring', g.line)
    <3>1. ring' = pushUndo(ring, NewEntry(game, caller, TRUE, Nil))
      BY <1>6 DEF ApplyBundle
    <3>2. /\ caller \in Seats \cup {Nil}
          /\ IF caller = Nil THEN a \in Bots \cup {Nil} ELSE a = caller
      OBVIOUS
    <3> HIDE DEF caller
    <3>3. "bundle" \in Kinds \ {"external"} /\ "bundle" # "play"
      BY DEF Kinds
    <3> HIDE DEF g
    <3> QED BY <1>2, <3>1, <3>2, <3>3, PlayKeepsRing DEF g
  <2>3. Commit(g) /\ limit' = limit
    BY <1>6 DEF ApplyBundle
  <2> HIDE DEF g
  <2> QED BY <1>1, <2>1, <2>2, <2>3, CommitStep
<1>7. ASSUME NEW s \in Seats \cup {Nil}, NEW h \in Humans \cup {Nil}, ApplyExternal(s, h)
      PROVE  IInv'
  <2> DEFINE x == Extend(game, s, "external", Plain)
             g == [x EXCEPT !.loop = h]
  <2>1. x \in Game /\ g \in Game /\ g.line = x.line
    <3>1. x \in Game
      BY <1>1, PlainType, ExtendType DEF Kinds
    <3> HIDE DEF x
    <3> QED BY <3>1 DEF Game
  <2>2. Commit(g) /\ limit' = limit /\ ring' = ring
    BY <1>7 DEF ApplyExternal
  <2>3. Shadows(ring, g.line)
    <3> HIDE DEF g
    <3> QED BY <2>1, PlainType, ExternalKeepsRing
  <2> HIDE DEF g
  <2> QED BY <1>1, <2>1, <2>2, <2>3, CommitStep
<1>8. ASSUME NEW l \in Limits, SetUndoLimit(l)
      PROVE  IInv'
  <2> DEFINE x == Extend(game, Nil, "external", Plain)
             g == [x EXCEPT !.undos = [s \in Seats |-> l]]
  <2>1. x \in Game /\ g \in Game /\ g.line = x.line
    <3>1. x \in Game
      BY <1>1, PlainType, ExtendType DEF Kinds
    <3>2. [s \in Seats |-> l] \in [Seats -> Nat \cup {Unlimited}]
      BY LimitAssumption
    <3> HIDE DEF x
    <3> QED BY <3>1, <3>2 DEF Game
  <2>2. Commit(g) /\ limit' = l /\ ring' = ring /\ l \in Budget
    BY <1>8, LimitAssumption DEF SetUndoLimit
  <2>3. Shadows(ring, g.line)
    <3> HIDE DEF g
    <3> QED BY <2>1, PlainType, ExternalKeepsRing
  <2> HIDE DEF g
  <2> QED BY <1>1, <2>1, <2>2, <2>3, CommitStep
<1>9. ASSUME NEW s \in Humans, NEW over \in BOOLEAN, RemoveSeat(s, over)
      PROVE  IInv'
  <2> DEFINE e == [Plain EXCEPT !.ends = over]
             x == Extend(game, Nil, "external", e)
             g == [x EXCEPT !.seated = @ \ {s}, !.prompts = {p \in @ : p.chooser # s}]
  <2>1. x \in Game /\ g \in Game
    <3>1. e \in EffectRecord
      BY PlainType DEF EffectRecord
    <3> HIDE DEF e
    <3>2. x \in Game
      BY <1>1, <3>1, ExtendType DEF Kinds
    <3> HIDE DEF x
    <3> QED BY <3>2 DEF Game
  <2>2. Commit(g) /\ limit' = limit /\ ring' = <<>>
    BY <1>9 DEF RemoveSeat
  <2>3. /\ <<>> \in Seq(Entry) /\ ClonesOn(<<>>) /\ Shadows(<<>>, g.line)
    BY RingAssumption DEF ClonesOn, Shadows
  <2> HIDE DEF g
  <2> QED BY <1>1, <2>1, <2>2, <2>3, CommitStep
<1>10. ASSUME NEW p \in game.prompts, NEW e \in Effects, AutoAnswer(p, e)
       PROVE  IInv'
  <2> DEFINE x == Extend(game, p.chooser, "auto", e)
             g == WithoutPrompt(x, p)
  <2>1. x \in Game /\ g \in Game /\ g.line = x.line
    <3>1. x \in Game
      BY <1>1, <1>2, <1>3, ExtendType DEF Kinds, Seats
    <3> HIDE DEF x
    <3> QED BY <3>1, WithoutPromptType DEF WithoutPrompt, Game
  <2>2. ring' \in Seq(Entry) /\ ClonesOn(ring') /\ Shadows(ring', g.line)
    <3>1. ring' = pushUndo(ring, NewEntry(game, p.chooser, TRUE, p))
      BY <1>10 DEF AutoAnswer
    <3>2. p.chooser # Nil /\ p.chooser \in Seats /\ p \in Prompt \cup {Nil}
      BY <1>3, SeatAssumption DEF Seats
    <3>3. "auto" \in Kinds \ {"external"} /\ "auto" # "play"
      BY DEF Kinds
    <3> HIDE DEF g
    <3> QED BY <1>2, <2>1, <3>1, <3>2, <3>3, PlayKeepsRing
  <2>3. /\ game' = g /\ limit' = limit /\ phase' = phase
        /\ answers < MaxAutoAnswers /\ answers' = answers + 1
        /\ shown' = Frame(game, ring)
    BY <1>10 DEF AutoAnswer
  <2> HIDE DEF g
  <2>4. TypeOK'
    BY <1>1, <2>1, <2>2, <2>3, FrameType, BoundAssumption DEF TypeOK
  <2> QED BY <2>2, <2>3, <2>4 DEF IInv, ClonesOn, Shadows, After, Owned
<1>11. ASSUME NEW p \in game.prompts, AutoAnswerFails(p)
       PROVE  IInv'
  <2>1. /\ game' = MarkAskedByHand(game, p) /\ limit' = limit /\ phase' = phase
        /\ answers < MaxAutoAnswers /\ answers' = answers + 1
        /\ shown' = Frame(game, ring) /\ ring' = ring
    BY <1>11 DEF AutoAnswerFails
  <2>2. game' \in Game /\ game'.line = game.line
    BY <1>1, <1>3, <2>1, MarkType DEF MarkAskedByHand, Game
  <2>3. TypeOK'
    BY <1>1, <2>1, <2>2, FrameType, BoundAssumption DEF TypeOK
  <2> QED BY <1>1, <2>1, <2>2, <2>3 DEF IInv, ClonesOn, Shadows, After, Owned
<1>12. ASSUME Settle PROVE IInv'
  BY <1>1, <1>12, ReleaseStep DEF Settle
<1>13. ASSUME ReplayLoop PROVE IInv'
  <2> DEFINE x == Extend(game, game.loop, "replay", Plain)
             g == [x EXCEPT !.loop = Nil]
             r == pushUndo(ring, NewEntry(game, game.loop, FALSE, Nil))
  <2>1. game.loop # Nil /\ game.loop \in Seats /\ Release(g, r)
    BY <1>1, <1>13 DEF ReplayLoop, Game, Seats
  <2>2. x \in Game /\ g \in Game /\ g.line = x.line
    <3>1. x \in Game
      BY <1>1, <2>1, PlainType, ExtendType DEF Kinds
    <3> HIDE DEF x
    <3> QED BY <3>1 DEF Game
  <2>3. r \in Seq(Entry) /\ ClonesOn(r) /\ Shadows(r, g.line)
    <3>1. "replay" \in Kinds \ {"external"} /\ "replay" # "play"
      BY DEF Kinds
    <3>2. r = pushUndo(ring, NewEntry(game, game.loop, FALSE, Nil))
      OBVIOUS
    <3> HIDE DEF g, r
    <3> QED BY <2>1, <2>2, <3>1, <3>2, PlainType, PlayKeepsRing
  <2> HIDE DEF g, r
  <2> QED BY <2>1, <2>2, <2>3, ReleaseStep
<1>14. ASSUME ReplayStops PROVE IInv'
  <2> DEFINE g == [game EXCEPT !.loop = Nil]
  <2>1. g \in Game /\ g.line = game.line /\ Release(g, ring)
    BY <1>1, <1>14 DEF ReplayStops, Game
  <2> HIDE DEF g
  <2> QED BY <1>1, <2>1, ReleaseStep
<1>15. ASSUME NEW c \in Humans \cup {Nil}, Undo(c)
       PROVE  IInv'
  <2>1. MayUndo(c) /\ ring' = Front(ring) /\ limit' = limit /\ phase' = phase
        /\ answers' = answers
    BY <1>15 DEF Undo
  <2>2. /\ Last(ring).pre \in Game /\ Last(ring).pre # NoClone
        /\ Restored \in Game /\ Restored.line = Last(ring).pre.line
        /\ ring # <<>> /\ Last(ring) \in Entry
    BY <2>1, RestoredType
  <2>3. /\ Front(ring) \in Seq(Entry) /\ Len(Front(ring)) = Len(ring) - 1
        /\ \A i \in 1..(Len(ring) - 1) : Front(ring)[i] = ring[i]
    BY <1>1, <2>2, FrontType
  <2>4. /\ game' \in Game /\ game'.line = Restored.line
        /\ shown' = shown \/ shown' = Frame(game', ring')
    <3>1. CASE Charged(c) /\ SpendFails(Restored, c)
      BY <1>15, <2>2, <3>1 DEF Undo
    <3>2. CASE Charged(c) /\ ~SpendFails(Restored, c)
      <4>1. game' = Debit(Restored, c) /\ shown' = Frame(game', ring')
        BY <1>15, <3>2 DEF Undo
      <4>2. c \in Seats
        BY <3>2 DEF Charged, Seats
      <4>3. Debit(Restored, c) \in Game /\ Debit(Restored, c).line = Restored.line
        BY <1>1, <2>2, <3>2, <4>2, DebitType DEF Debit, Game
      <4> QED BY <4>1, <4>3
    <3>3. CASE ~Charged(c)
      BY <1>15, <2>2, <3>3 DEF Undo
    <3> QED BY <3>1, <3>2, <3>3
  <2>5. TypeOK'
    <3>1. shown' \in [game : Game, blocked : [Seats -> Blocked]]
      BY <1>1, <2>1, <2>3, <2>4, FrameType
    <3> QED BY <1>1, <2>1, <2>3, <2>4, <3>1 DEF TypeOK
  <2>6. ClonesOn(ring')
    BY <1>1, <2>1, <2>3, RingAssumption DEF ClonesOn
  <2>7. Shadows(ring', game'.line)
    BY <1>1, <2>1, <2>2, <2>4, UndoKeepsShadows DEF Game
  <2> QED BY <2>5, <2>6, <2>7 DEF IInv, ClonesOn, Shadows, After, Owned
<1>16. ASSUME NEW p \in game.prompts, AskByHand(p)
       PROVE  IInv'
  <2>1. /\ game' = MarkAskedByHand(game, p) /\ limit' = limit /\ phase' = phase
        /\ answers' = answers /\ shown' = shown /\ ring' = ring
    BY <1>16 DEF AskByHand
  <2>2. game' \in Game /\ game'.line = game.line
    BY <1>1, <1>3, <2>1, MarkType DEF MarkAskedByHand, Game
  <2>3. TypeOK'
    BY <1>1, <2>1, <2>2 DEF TypeOK
  <2> QED BY <1>1, <2>1, <2>2, <2>3 DEF IInv, ClonesOn, Shadows, After, Owned
<1>17. CASE UNCHANGED vars
  BY <1>17 DEF vars, IInv, TypeOK, ClonesOn, Shadows, After, Owned
<1> QED
  BY <1>4, <1>5, <1>6, <1>7, <1>8, <1>9, <1>10, <1>11, <1>12, <1>13, <1>14, <1>15, <1>16, <1>17
     DEF Next

-----------------------------------------------------------------------------
(* The theorems.                                                           *)

LEMMA IInvAlways == Spec => []IInv
  BY IInvInit, IInvStep, PTL DEF Spec

(* Every state of every table is well typed.                               *)
THEOREM TypeCorrect == Spec => []TypeOK
<1>1. IInv => TypeOK
  BY DEF IInv
<1> QED BY <1>1, IInvAlways, PTL

(* The ring never outgrows its cap, and never keeps more clones than       *)
(* SnapshotDepth, all of them at its top (pushUndoLocked).                 *)
THEOREM ClonesOnTopAlways == Spec => []ClonesOnTop
<1>1. IInv => ClonesOnTop
  BY DEF IInv, ClonesOn, ClonesOnTop
<1> QED BY <1>1, IInvAlways, PTL

(* The ring names the last plays of the game, in their order, and a clone  *)
(* is the game right before its play: undo takes back the latest play.     *)
THEOREM RingShadowsLineAlways == Spec => []RingShadowsLine
<1>1. IInv => RingShadowsLine
  BY DEF IInv, Shadows, After, RingShadowsLine
<1> QED BY <1>1, IInvAlways, PTL

(* An undo takes off the line what the top entry names, and nothing else.  *)
LEMMA UndoRewinds ==
    ASSUME IInv, NEW c \in Humans \cup {Nil}, Undo(c)
    PROVE  LET at == Last(ring).at
           IN /\ at \in Nat /\ at + 1 <= Len(game.line)
              /\ Rewound = (at + 1)..Len(game.line)
              /\ Owned(Last(ring), game.line[at + 1])
              /\ \A k \in (at + 2)..Len(game.line) : game.line[k].kind = "external"
              /\ Len(Last(ring).pre.line) = at /\ Last(ring).pre # NoClone
<1> DEFINE at == Last(ring).at
<1>1. /\ game \in Game /\ limit \in Budget /\ ring \in Seq(Entry)
      /\ Shadows(ring, game.line) /\ MayUndo(c)
  BY DEF IInv, TypeOK, Budget, Undo
<1>2. /\ Last(ring).pre # NoClone /\ Last(ring) \in Entry
      /\ Restored \in Game /\ Restored.line = Last(ring).pre.line /\ ring # <<>>
  BY <1>1, RestoredType
<1>3. /\ Len(Last(ring).pre.line) = at /\ at + 1 <= Len(game.line)
      /\ Owned(Last(ring), game.line[at + 1])
      /\ \A k \in (at + 2)..Len(game.line) : game.line[k].kind = "external"
  BY <1>1, <1>2, UndoKeepsShadows DEF Game
<1>4. game'.line = Restored.line
  <2>1. game' = Restored \/ (Charged(c) /\ game' = Debit(Restored, c))
    BY DEF Undo
  <2>2. CASE Charged(c) /\ game' = Debit(Restored, c)
    BY <1>2, <2>2 DEF Debit, Game
  <2> QED BY <2>1, <2>2
<1>5. at \in Nat /\ Len(game.line) \in Nat
  BY <1>1, <1>2 DEF Entry, Game
<1>6. Rewound = (at + 1)..Len(game.line)
  BY <1>2, <1>3, <1>4, <1>5 DEF Rewound
<1> QED BY <1>2, <1>3, <1>5, <1>6

(* A seat rewinds one play, its own, an admin's or a bot's improvisation,  *)
(* and nothing that revealed a vote; nobody rewinds a bot's move.          *)
THEOREM SeatRewindsOnlyItsOwnAlways == Spec => SeatRewindsOnlyItsOwn
<1> DEFINE Plays == {i \in Rewound : game.line[i].kind # "external"}
           Mine(c) == /\ Cardinality(Plays) = 1
                      /\ \A i \in Rewound : ~(game.line[i].by \in Bots /\ game.line[i].kind = "play")
                      /\ c # Nil =>
                           /\ ~game.ended
                           /\ \A i \in Rewound :
                                game.line[i].kind # "external" =>
                                   /\ game.line[i].by \in {c, Nil} \cup Bots
                                   /\ ~game.line[i].reveals
<1>1. ASSUME IInv, NEW c \in Humans \cup {Nil}, Undo(c)
      PROVE  Mine(c)
  <2> DEFINE top == Last(ring)
             n == Len(game.line)
             at == top.at
  <2>1. /\ at \in Nat /\ n \in Nat /\ at + 1 <= n /\ Rewound = (at + 1)..n
        /\ Owned(top, game.line[at + 1])
        /\ \A k \in (at + 2)..n : game.line[k].kind = "external"
        /\ Len(top.pre.line) = at /\ top.pre # NoClone
    BY <1>1, UndoRewinds DEF IInv, TypeOK, Game
  <2>2. MayUndo(c)
    BY <1>1 DEF Undo
  <2>3. game.line[at + 1].kind # "external"
    BY <2>1 DEF Owned
  <2> HIDE DEF top, n
  <2>4. \A i \in Rewound : i = at + 1 \/ i \in (at + 2)..n
    <3> HIDE DEF at
    <3> QED BY <2>1
  <2>5. Plays = {at + 1}
    <3>1. at + 1 \in Rewound
      <4> HIDE DEF at
      <4> QED BY <2>1
    <3> QED BY <2>1, <2>3, <2>4, <3>1
  <2>6. Cardinality(Plays) = 1
    BY <2>5, FS_Singleton
  <2>7. \A i \in Rewound : ~(game.line[i].by \in Bots /\ game.line[i].kind = "play")
    BY <2>1, <2>2, <2>4 DEF Owned, MayUndo, top
  <2>8. ASSUME c # Nil
        PROVE  /\ ~game.ended
               /\ game.line[at + 1].by \in {c, Nil} \cup Bots
               /\ ~game.line[at + 1].reveals
    <3>1. ~game.ended /\ top.caller \in {Nil, c} /\ ~RevealedSince(game, top)
      BY <2>2, <2>8 DEF MayUndo, top
    <3>2. game.line[at + 1].by \in {c, Nil} \cup Bots
      BY <2>1, <3>1 DEF Owned
    <3>3. at + 1 \in (Len(top.pre.line) + 1)..Len(game.line)
      <4> HIDE DEF at
      <4> QED BY <2>1 DEF n
    <3>4. ~game.line[at + 1].reveals
      BY <2>1, <3>1, <3>3 DEF RevealedSince
    <3> QED BY <3>1, <3>2, <3>4
  <2>9. \A i \in Rewound : game.line[i].kind # "external" => i = at + 1
    BY <2>1, <2>4
  <2> QED BY <2>6, <2>7, <2>8, <2>9
<1>2. IInv /\ [Next]_vars => [\A c \in Humans \cup {Nil} : Undo(c) => Mine(c)]_vars
  BY <1>1
<1> QED BY <1>2, IInvAlways, PTL DEF Spec, SeatRewindsOnlyItsOwn
-----------------------------------------------------------------------------
(* Who sits in the clones, and what the frame says.  All clones have the   *)
(* seats of the game, ...                                                  *)
Agrees(r, seated) ==
    \A i \in 1..Len(r) : r[i].pre # NoClone => r[i].pre.seated = seated

(* ... and the frame is that of the game and the ring, but after an undo   *)
(* that failed half way, which leaves it with a longer line.               *)
Honest ==
    phase = "free" => \/ shown = Frame(game, ring)
                      \/ Len(shown.game.line) > Len(game.line)

SInv == IInv /\ Agrees(ring, game.seated) /\ LoopQuietWhenFree /\ Honest

(* What a commit makes of the game sits as the game did.                   *)
LEMMA ExtendSits ==
    ASSUME SInv, NEW by \in Seats \cup {Nil}, NEW kind \in Kinds, NEW e \in EffectRecord
    PROVE  Extend(game, by, kind, e) \in Game /\ Extend(game, by, kind, e).seated = game.seated
<1>1. game \in Game /\ limit \in Budget
  BY DEF SInv, IInv, TypeOK, Budget
<1> QED BY <1>1, ExtendType

(* A push brings one clone, of the game that sits there.                   *)
LEMMA PushAgrees ==
    ASSUME NEW r \in Seq(Entry), Len(r) <= StackCap, NEW e \in Entry, NEW seated,
           Agrees(r, seated), e.pre # NoClone => e.pre.seated = seated
    PROVE  Agrees(pushUndo(r, e), seated)
<1> SUFFICES ASSUME NEW i \in 1..Len(pushUndo(r, e)), pushUndo(r, e)[i].pre # NoClone
             PROVE  pushUndo(r, e)[i].pre.seated = seated
  BY DEF Agrees
<1> DEFINE j == i + Shift(r)
<1>1. j \in 1..(Len(r) + 1) /\ pushUndo(r, e)[i] = Append(r, e)[j]
  BY PushType
<1>2. CASE j = Len(r) + 1
  BY <1>1, <1>2
<1>3. CASE j # Len(r) + 1
  <2>1. j \in 1..Len(r) /\ Append(r, e)[j] = r[j]
    BY <1>1, <1>3
  <2> HIDE DEF j
  <2> QED BY <1>1, <2>1 DEF Agrees
<1> QED BY <1>2, <1>3

(* A play pushes the game it was made on.                                  *)
LEMMA PlayAgrees ==
    ASSUME SInv, NEW s \in Seats \cup {Nil}, NEW free \in BOOLEAN, NEW p \in Prompt \cup {Nil}
    PROVE  Agrees(pushUndo(ring, NewEntry(game, s, free, p)), game.seated)
<1> DEFINE e == NewEntry(game, s, free, p)
<1>1. game \in Game /\ ring \in Seq(Entry) /\ Len(ring) <= StackCap /\ Agrees(ring, game.seated)
  BY DEF SInv, IInv, TypeOK, ClonesOn
<1>2. e \in Entry
  BY <1>1, NewEntryType
<1>3. e.pre # NoClone => e.pre.seated = game.seated
  BY DEF NewEntry
<1> HIDE DEF e
<1>4. Agrees(pushUndo(ring, e), game.seated)
  BY <1>1, <1>2, <1>3, PushAgrees
<1> QED BY <1>4 DEF e

(* What is restored sits as the game does, without a recorded loop.        *)
LEMMA RestoredSeats ==
    ASSUME SInv, NEW c, MayUndo(c)
    PROVE  /\ Restored.seated = game.seated /\ Restored.loop = Nil
           /\ Agrees(Front(ring), game.seated)
           /\ Restored \in Game
<1>1. /\ Last(ring).pre \in Game /\ Last(ring).pre # NoClone /\ Restored \in Game
      /\ ring # <<>> /\ ring \in Seq(Entry)
  BY RestoredType DEF SInv
<1>2. /\ Last(ring) = ring[Len(ring)] /\ Len(ring) \in 1..Len(ring)
      /\ Len(Front(ring)) = Len(ring) - 1
      /\ \A i \in 1..(Len(ring) - 1) : Front(ring)[i] = ring[i]
  BY <1>1, FrontType
<1>3. Last(ring).pre.seated = game.seated
  BY <1>1, <1>2 DEF SInv, Agrees
<1>4. Agrees(Front(ring), game.seated)
  BY <1>2 DEF SInv, Agrees
<1>5. Restored.seated = Last(ring).pre.seated /\ Restored.loop = Nil
  BY <1>1 DEF Restored, MarkAskedByHand, Game
<1> QED BY <1>1, <1>3, <1>4, <1>5

(* A commit leaves the seats and the clones alone, or empties the ring.    *)
LEMMA SCommit ==
    ASSUME SInv, IInv', NEW g, Commit(g), Agrees(ring', g.seated)
    PROVE  SInv'
BY DEF SInv, Commit, LoopQuietWhenFree, Honest, Agrees

(* The end of a commit captures the frame.                                 *)
LEMMA SRelease ==
    ASSUME SInv, IInv', NEW g, NEW r, Release(g, r), g.loop = Nil, Agrees(r, g.seated)
    PROVE  SInv'
BY DEF SInv, Release, LoopQuietWhenFree, Honest, Agrees, Frame

LEMMA SInvInit == Init => SInv
<1> SUFFICES ASSUME Init PROVE SInv
  OBVIOUS
<1>1. IInv
  BY IInvInit
<1>2. ring = <<>> /\ game.loop = Nil /\ shown = Frame(game, ring)
  BY DEF Init
<1> QED BY <1>1, <1>2 DEF SInv, Agrees, LoopQuietWhenFree, Honest

LEMMA SInvStep == SInv /\ [Next]_vars => SInv' /\ game'.seated \subseteq game.seated
<1> SUFFICES ASSUME SInv, [Next]_vars PROVE SInv' /\ game'.seated \subseteq game.seated
  OBVIOUS
<1> DEFINE Goal == SInv' /\ game'.seated \subseteq game.seated
<1>1. /\ game \in Game /\ limit \in Budget /\ ring \in Seq(Entry) /\ IInv
      /\ Agrees(ring, game.seated)
  BY DEF SInv, IInv, TypeOK, Budget
<1>2. IInv'
  BY <1>1, IInvStep
<1>3. Effects \subseteq EffectRecord
  BY EffectAssumption
<1>4. \A p \in game.prompts : p \in Prompt /\ p.chooser \in Seats \cup {Nil}
  BY <1>1 DEF Game, Prompt, Seats
<1>5. /\ {"play", "bundle", "auto", "replay", "external"} \subseteq Kinds
      /\ Plain \in EffectRecord /\ Nil \in Seats \cup {Nil}
  BY PlainType DEF Kinds
<1>6. ASSUME NEW s \in Seats \cup {Nil}, NEW e \in Effects, Apply(s, e)
      PROVE  Goal
  <2>1. Extend(game, s, "play", e).seated = game.seated
    BY <1>3, <1>5, ExtendSits
  <2>2. Commit(Extend(game, s, "play", e)) /\ ring' = pushUndo(ring, NewEntry(game, s, FALSE, Nil))
    BY <1>6 DEF Apply
  <2>3. Agrees(ring', game.seated)
    BY <2>2, PlayAgrees
  <2>4. game'.seated = game.seated
    BY <2>1, <2>2 DEF Commit
  <2> QED BY <1>2, <2>1, <2>2, <2>3, <2>4, SCommit
<1>7. ASSUME NEW p \in game.prompts, NEW e \in Effects, ResolveChoice(p, e)
      PROVE  Goal
  <2> DEFINE x == Extend(game, p.chooser, "play", e)
  <2>1. x.seated = game.seated /\ x \in Game
    BY <1>3, <1>4, <1>5, ExtendSits
  <2>2. /\ Commit(WithoutPrompt(x, p))
        /\ ring' = pushUndo(ring, NewEntry(game, p.chooser, FALSE, Nil))
    BY <1>7 DEF ResolveChoice
  <2> HIDE DEF x
  <2>3. Agrees(ring', game.seated)
    BY <1>4, <2>2, PlayAgrees
  <2>4. WithoutPrompt(x, p).seated = game.seated
    BY <2>1 DEF WithoutPrompt, Game
  <2>5. game'.seated = game.seated
    BY <2>2, <2>4 DEF Commit
  <2> QED BY <1>2, <2>2, <2>3, <2>4, <2>5, SCommit
<1>8. ASSUME NEW a \in Seats \cup {Nil}, NEW e \in Effects, ApplyBundle(a, e)
      PROVE  Goal
  <2> DEFINE caller == IF a \in Bots THEN Nil ELSE a
  <2>1. Extend(game, a, "bundle", e).seated = game.seated
    BY <1>3, <1>5, ExtendSits
  <2>2. caller \in Seats \cup {Nil}
    OBVIOUS
  <2>3. /\ Commit(Extend(game, a, "bundle", e))
        /\ ring' = pushUndo(ring, NewEntry(game, caller, TRUE, Nil))
    BY <1>8 DEF ApplyBundle
  <2> HIDE DEF caller
  <2>4. Agrees(ring', game.seated)
    BY <2>2, <2>3, PlayAgrees
  <2>5. game'.seated = game.seated
    BY <2>1, <2>3 DEF Commit
  <2> QED BY <1>2, <2>1, <2>3, <2>4, <2>5, SCommit
<1>9. ASSUME NEW s \in Seats \cup {Nil}, NEW h \in Humans \cup {Nil}, ApplyExternal(s, h)
      PROVE  Goal
  <2> DEFINE x == Extend(game, s, "external", Plain)
             g == [x EXCEPT !.loop = h]
  <2>1. x.seated = game.seated /\ x \in Game
    BY <1>5, ExtendSits
  <2>2. Commit(g) /\ ring' = ring
    BY <1>9 DEF ApplyExternal
  <2>3. g.seated = game.seated
    <3> HIDE DEF x
    <3> QED BY <2>1 DEF Game
  <2> HIDE DEF g
  <2>4. game'.seated = game.seated
    BY <2>2, <2>3 DEF Commit
  <2> QED BY <1>1, <1>2, <2>2, <2>3, <2>4, SCommit
<1>10. ASSUME NEW l \in Limits, SetUndoLimit(l)
       PROVE  Goal
  <2> DEFINE x == Extend(game, Nil, "external", Plain)
             g == [x EXCEPT !.undos = [s \in Seats |-> l]]
  <2>1. x.seated = game.seated /\ x \in Game
    BY <1>5, ExtendSits
  <2>2. Commit(g) /\ ring' = ring
    BY <1>10 DEF SetUndoLimit
  <2>3. g.seated = game.seated
    <3> HIDE DEF x
    <3> QED BY <2>1 DEF Game
  <2> HIDE DEF g
  <2>4. game'.seated = game.seated
    BY <2>2, <2>3 DEF Commit
  <2> QED BY <1>1, <1>2, <2>2, <2>3, <2>4, SCommit
<1>11. ASSUME NEW s \in Humans, NEW over \in BOOLEAN, RemoveSeat(s, over)
       PROVE  Goal
  <2> DEFINE x == Extend(game, Nil, "external", [Plain EXCEPT !.ends = over])
             g == [x EXCEPT !.seated = @ \ {s}, !.prompts = {p \in @ : p.chooser # s}]
  <2>1. x.seated = game.seated /\ x \in Game
    <3>1. [Plain EXCEPT !.ends = over] \in EffectRecord
      BY PlainType DEF Plain, EffectRecord
    <3> QED BY <1>5, <3>1, ExtendSits
  <2>2. Commit(g) /\ ring' = <<>>
    BY <1>11 DEF RemoveSeat
  <2>3. g.seated \subseteq game.seated
    <3> HIDE DEF x
    <3> QED BY <2>1 DEF Game
  <2> HIDE DEF g
  <2>4. game'.seated \subseteq game.seated /\ Agrees(ring', g.seated)
    BY <2>2, <2>3 DEF Commit, Agrees
  <2> QED BY <1>2, <2>2, <2>4, SCommit
<1>12. ASSUME NEW p \in game.prompts, NEW e \in Effects, AutoAnswer(p, e)
       PROVE  Goal
  <2> DEFINE x == Extend(game, p.chooser, "auto", e)
  <2>1. x.seated = game.seated /\ x \in Game
    BY <1>3, <1>4, <1>5, ExtendSits
  <2>2. /\ game' = WithoutPrompt(x, p) /\ phase' = phase /\ phase = "answering"
        /\ ring' = pushUndo(ring, NewEntry(game, p.chooser, TRUE, p))
    BY <1>12 DEF AutoAnswer
  <2> HIDE DEF x
  <2>3. Agrees(ring', game.seated)
    BY <1>4, <2>2, PlayAgrees
  <2>4. game'.seated = game.seated
    BY <2>1, <2>2 DEF WithoutPrompt, Game
  <2> QED BY <1>2, <2>2, <2>3, <2>4 DEF SInv, LoopQuietWhenFree, Honest, Agrees
<1>13. ASSUME NEW p \in game.prompts, AutoAnswerFails(p) \/ AskByHand(p)
       PROVE  Goal
  <2>1. /\ game' = MarkAskedByHand(game, p) /\ phase' = phase /\ phase = "answering"
        /\ ring' = ring
    BY <1>13 DEF AutoAnswerFails, AskByHand
  <2>2. game'.seated = game.seated
    BY <1>1, <2>1 DEF MarkAskedByHand, Game
  <2> QED BY <1>1, <1>2, <2>1, <2>2 DEF SInv, LoopQuietWhenFree, Honest, Agrees
<1>14. CASE Settle
  <2>1. Release(game, ring) /\ game.loop = Nil
    BY <1>14 DEF Settle
  <2>2. game' = game
    BY <2>1 DEF Release
  <2> QED BY <1>1, <1>2, <2>1, <2>2, SRelease
<1>15. CASE ReplayLoop
  <2> DEFINE x == Extend(game, game.loop, "replay", Plain)
             g == [x EXCEPT !.loop = Nil]
             r == pushUndo(ring, NewEntry(game, game.loop, FALSE, Nil))
  <2>1. game.loop \in Seats \cup {Nil}
    BY <1>1 DEF Game, Seats
  <2>2. x.seated = game.seated /\ x \in Game
    BY <1>5, <2>1, ExtendSits
  <2>3. g.seated = game.seated /\ g.loop = Nil
    <3> HIDE DEF x
    <3> QED BY <2>2 DEF Game
  <2>4. Agrees(r, game.seated)
    BY <2>1, PlayAgrees
  <2>5. Release(g, r)
    BY <1>15 DEF ReplayLoop
  <2> HIDE DEF g, r
  <2>6. game' = g
    BY <2>5 DEF Release
  <2> QED BY <1>2, <2>3, <2>4, <2>5, <2>6, SRelease
<1>16. CASE ReplayStops
  <2> DEFINE g == [game EXCEPT !.loop = Nil]
  <2>1. g.seated = game.seated /\ g.loop = Nil
    BY <1>1 DEF Game
  <2>2. Release(g, ring)
    BY <1>16 DEF ReplayStops
  <2> HIDE DEF g
  <2>3. game' = g
    BY <2>2 DEF Release
  <2> QED BY <1>1, <1>2, <2>1, <2>2, <2>3, SRelease
<1>17. ASSUME NEW c \in Humans \cup {Nil}, Undo(c)
       PROVE  Goal
  <2>1. MayUndo(c) /\ ring' = Front(ring) /\ phase = "free" /\ phase' = "free"
    BY <1>17 DEF Undo
  <2>2. /\ Restored.seated = game.seated /\ Restored.loop = Nil /\ Restored \in Game
        /\ Agrees(Front(ring), game.seated)
    BY <2>1, RestoredSeats
  <2>3. game'.seated = game.seated /\ game'.loop = Nil
    <3>1. CASE game' = Restored
      BY <2>2, <3>1
    <3>2. CASE game' = Debit(Restored, c)
      <4>1. Debit(Restored, c).seated = Restored.seated /\ Debit(Restored, c).loop = Restored.loop
        BY <2>2 DEF Debit, Game
      <4> QED BY <2>2, <3>2, <4>1
    <3> QED BY <1>17, <3>1, <3>2 DEF Undo
  <2>4. Honest'
    <3>1. CASE shown' = Frame(game', ring')
      BY <3>1 DEF Honest, Frame, stampUndoBlocked, RevealedSince
    <3>2. CASE game' = Restored /\ shown' = shown
      <4>1. /\ Len(Last(ring).pre.line) + 1 <= Len(game.line)
            /\ Restored.line = Last(ring).pre.line
            /\ Last(ring).pre \in Game
        BY <1>1, <1>17, <2>1, UndoRewinds, RestoredType
      <4>2. /\ Len(game.line) \in Nat /\ Len(Last(ring).pre.line) \in Nat
            /\ Len(shown.game.line) \in Nat
        BY <1>1, <4>1 DEF Game, IInv, TypeOK
      <4>3. Len(shown.game.line) >= Len(game.line)
        <5>1. CASE shown = Frame(game, ring)
          <6>1. shown.game = game
            BY <5>1 DEF Frame
          <6> QED BY <4>2, <6>1
        <5>2. CASE Len(shown.game.line) > Len(game.line)
          BY <4>2, <5>2
        <5> QED BY <2>1, <5>1, <5>2 DEF SInv, Honest
      <4>4. Len(shown'.game.line) > Len(game'.line)
        BY <3>2, <4>1, <4>2, <4>3
      <4> QED BY <4>4 DEF Honest
    <3> QED BY <1>17, <3>1, <3>2 DEF Undo
  <2> QED BY <1>2, <2>1, <2>2, <2>3, <2>4 DEF SInv, LoopQuietWhenFree, Agrees
<1>18. CASE UNCHANGED vars
  BY <1>2, <1>18 DEF vars, SInv, Agrees, LoopQuietWhenFree, Honest, Frame,
                    stampUndoBlocked, RevealedSince
<1> QED
  BY <1>6, <1>7, <1>8, <1>9, <1>10, <1>11, <1>12, <1>13, <1>14, <1>15, <1>16, <1>17, <1>18
     DEF Next

LEMMA SInvAlways == Spec => []SInv
<1>1. SInv /\ [Next]_vars => SInv'
  BY SInvStep
<1> QED BY <1>1, SInvInit, PTL DEF Spec

(* No undo brings a removed seat back: every clone that can still be       *)
(* reached has the seats of the game (ApplyExternalClearingUndo).          *)
THEOREM RemovedSeatStaysOutAlways == Spec => RemovedSeatStaysOut
<1>1. SInv /\ [Next]_vars => [game'.seated \subseteq game.seated]_vars
  BY SInvStep
<1> QED BY <1>1, SInvAlways, PTL DEF Spec, RemovedSeatStaysOut

(* Between commits no accepted loop waits for a replay, whatever was       *)
(* undone (DiscardLoopRecording).                                          *)
THEOREM LoopQuietWhenFreeAlways == Spec => []LoopQuietWhenFree
<1>1. SInv => LoopQuietWhenFree
  BY DEF SInv
<1> QED BY <1>1, SInvAlways, PTL

(* The frame that shows the game as it is says of every seat whether its   *)
(* undo would be let through (stampUndoBlockedLocked).                     *)
THEOREM StampTellsTheTruthAlways == Spec => []StampTellsTheTruth
<1>1. SInv => StampTellsTheTruth
  <2> SUFFICES ASSUME SInv, phase = "free", shown.game = game,
                      NEW s \in game.seated \cap Humans
               PROVE  shown.blocked[s] = "" <=>
                        /\ ring # <<>> /\ ~game.ended
                        /\ Last(ring).barrier = "none"
                        /\ Last(ring).caller \in {Nil, s}
                        /\ ~RevealedSince(game, Last(ring))
    BY DEF StampTellsTheTruth
  <2>1. game \in Game /\ ring \in Seq(Entry) /\ s \in Seats
    BY DEF SInv, IInv, TypeOK, Seats
  <2>2. shown = Frame(game, ring)
    <3>1. Len(game.line) \in Nat
      BY <2>1 DEF Game
    <3> QED BY <3>1 DEF SInv, Honest
  <2>3. shown.blocked[s] = stampUndoBlocked(game, ring, s)
    BY <2>1, <2>2 DEF Frame
  <2>4. ring # <<>> => Last(ring).barrier \in {"none", "bot", "depth"}
    BY <2>1, FrontType DEF Entry, Barrier
  <2> QED BY <2>3, <2>4 DEF stampUndoBlocked
<1> QED BY <1>1, SInvAlways, PTL

-----------------------------------------------------------------------------
(* Against the history: an undo, and what is committed after it.           *)

(* The history is written beside the room's steps, and adds none.          *)
LEMMA HistoryAddsNoStep == [HNext]_hvars => [Next]_vars
<1>1. HNext => Next
  BY DEF HNext, HCommit, HApply, HUndo, Next
<1>2. UNCHANGED hvars => UNCHANGED vars
  BY DEF hvars
<1> QED BY <1>1, <1>2

(* What was taken back last is marked in the game as it is.                *)
Marked == lastUndone \subseteq game.byHand

(* What a commit makes of the game asks by hand what the game did.         *)
LEMMA ExtendAsks ==
    ASSUME IInv, NEW by, NEW kind, NEW e
    PROVE  Extend(game, by, kind, e).byHand = game.byHand
BY DEF Extend, IInv, TypeOK, Game

LEMMA CommitKeepsMarks ==
    ASSUME IInv, HCommit
    PROVE  game.byHand \subseteq game'.byHand
<1>1. game \in Game
  BY DEF IInv, TypeOK
<1>2. ASSUME NEW by, NEW kind, NEW e, game' = Extend(game, by, kind, e)
      PROVE  game.byHand \subseteq game'.byHand
  BY <1>2, ExtendAsks
<1>3. ASSUME NEW e, NEW s, Apply(s, e) \/ ApplyBundle(s, e)
      PROVE  game.byHand \subseteq game'.byHand
  BY <1>2, <1>3 DEF Apply, ApplyBundle, Commit
<1>4. ASSUME NEW e, NEW p, ResolveChoice(p, e) \/ AutoAnswer(p, e)
      PROVE  game.byHand \subseteq game'.byHand
  <2>1. PICK kind \in {"play", "auto"} :
          game' = WithoutPrompt(Extend(game, p.chooser, kind, e), p)
    BY <1>4 DEF ResolveChoice, AutoAnswer, Commit
  <2>2. WithoutPrompt(Extend(game, p.chooser, kind, e), p).byHand
          = Extend(game, p.chooser, kind, e).byHand
    BY <1>1 DEF WithoutPrompt, Extend, Game
  <2> QED BY <2>1, <2>2, ExtendAsks
<1>5. ASSUME NEW l, SetUndoLimit(l)
      PROVE  game.byHand \subseteq game'.byHand
  BY <1>1, <1>5 DEF SetUndoLimit, Commit, Extend, Game
<1>6. ASSUME NEW s, NEW h, ApplyExternal(s, h)
      PROVE  game.byHand \subseteq game'.byHand
  BY <1>1, <1>6 DEF ApplyExternal, Commit, Extend, Game
<1>7. ASSUME NEW s, NEW over, RemoveSeat(s, over)
      PROVE  game.byHand \subseteq game'.byHand
  BY <1>1, <1>7 DEF RemoveSeat, Commit, Extend, Game
<1>8. ASSUME NEW p, AutoAnswerFails(p) \/ AskByHand(p)
      PROVE  game.byHand \subseteq game'.byHand
  BY <1>1, <1>8 DEF AutoAnswerFails, AskByHand, MarkAskedByHand, Game
<1>9. CASE Settle \/ ReplayLoop \/ ReplayStops
  BY <1>1, <1>9 DEF Settle, ReplayLoop, ReplayStops, Release, Extend, Game
<1> QED BY <1>3, <1>4, <1>5, <1>6, <1>7, <1>8, <1>9 DEF HCommit, HApply

(* An undo marks, in what it restores, the prompt it reopens.              *)
LEMMA UndoMarks ==
    ASSUME IInv, NEW c, HUndo(c)
    PROVE  Marked'
<1>1. /\ MayUndo(c) /\ lastUndone' = {Last(ring).answered} \ {Nil}
      /\ game' = Restored \/ game' = Debit(Restored, c)
  BY DEF HUndo, Undo
<1>2. Last(ring).pre \in Game /\ Restored \in Game
  BY <1>1, RestoredType
<1>3. {Last(ring).answered} \ {Nil} \subseteq Restored.byHand
  BY <1>2 DEF Restored, MarkAskedByHand, Game
<1>4. Debit(Restored, c).byHand = Restored.byHand
  BY <1>2 DEF Debit, Game
<1> QED BY <1>1, <1>3, <1>4 DEF Marked

(* Whatever is committed after an undo, the prompt it reopened is not      *)
(* answered automatically (MarkAskedByHand in Room.undo).                  *)
THEOREM UndoneStaysByHandAlways == HSpec => []UndoneStaysByHand
<1>1. HInit => IInv /\ Marked
  BY IInvInit DEF HInit, Marked
<1>2. IInv /\ Marked /\ [HNext]_hvars => IInv' /\ Marked'
  <2> SUFFICES ASSUME IInv, Marked, [HNext]_hvars PROVE IInv' /\ Marked'
    OBVIOUS
  <2>1. IInv'
    BY HistoryAddsNoStep, IInvStep
  <2>2. CASE HCommit
    <3>1. game.byHand \subseteq game'.byHand
      BY <2>2, CommitKeepsMarks
    <3>2. lastUndone' = lastUndone
      BY <2>2 DEF HCommit, history
    <3> QED BY <2>1, <3>1, <3>2 DEF Marked
  <2>3. ASSUME NEW c, HUndo(c) PROVE Marked'
    BY <2>3, UndoMarks
  <2>4. CASE UNCHANGED hvars
    <3>1. UNCHANGED vars /\ UNCHANGED history
      BY <2>4 DEF hvars
    <3>2. game' = game /\ lastUndone' = lastUndone
      BY <3>1 DEF vars, history
    <3> QED BY <2>1, <3>2 DEF Marked
  <2> QED BY <2>1, <2>2, <2>3, <2>4 DEF HNext
<1>3. Marked => UndoneStaysByHand
  BY DEF Marked, UndoneStaysByHand, Answerable
<1> QED BY <1>1, <1>2, <1>3, PTL DEF HSpec
-----------------------------------------------------------------------------
(* The ring keeps what Timeline promises.                                  *)

(* A set of naturals with a bound has a greatest member: the one with the  *)
(* fewest above it.                                                        *)
LEMMA GreatestExists ==
    ASSUME NEW n \in Nat, NEW S \in SUBSET (0..n), S # {}
    PROVE  /\ Max(S) \in S
           /\ \A y \in S : Max(S) >= y
<1> DEFINE Above(x) == {y \in S : y > x}
           Sets == {Above(x) : x \in S}
<1>1. IsFiniteSet(0..n)
  BY FS_Interval
<1>2. IsWellFoundedOn(StrictSubsetOrdering(0..n), FiniteSubsetsOf(0..n))
  BY <1>1, FS_StrictSubsetOrderingWellFounded
<1>3. Sets \subseteq FiniteSubsetsOf(0..n) /\ Sets # {}
  <2>1. FiniteSubsetsOf(0..n) = SUBSET (0..n)
    BY <1>1, FS_FiniteSubsetsOfFinite
  <2>2. \A x \in S : Above(x) \in SUBSET (0..n)
    OBVIOUS
  <2> HIDE DEF Above
  <2>3. \A X \in Sets : X \in FiniteSubsetsOf(0..n)
    BY <2>1, <2>2
  <2>4. PICK x \in S : Above(x) \in Sets
    OBVIOUS
  <2> HIDE DEF Sets
  <2> QED BY <2>3, <2>4
<1>4. PICK x \in S : \A y \in S : <<Above(y), Above(x)>> \notin StrictSubsetOrdering(0..n)
  <2> HIDE DEF Sets
  <2>1. \E X \in Sets : \A Y \in Sets : <<Y, X>> \notin StrictSubsetOrdering(0..n)
    BY <1>2, <1>3, WFMin
  <2> QED BY <2>1 DEF Sets
<1>5. ASSUME NEW y \in S, ~ (x >= y) PROVE FALSE
  <2>1. S \subseteq Nat /\ y > x
    BY <1>5
  <2>2. y \in Above(x) /\ y \notin Above(y)
    BY <2>1
  <2>3. Above(y) \subseteq Above(x)
    <3>1. \A z \in S : z > y => z > x
      BY <2>1
    <3> QED BY <3>1, Zenon
  <2>4. Above(x) \in SUBSET (0..n) /\ Above(y) \in SUBSET (0..n)
    OBVIOUS
  <2> HIDE DEF Above
  <2>5. <<Above(y), Above(x)>> \in StrictSubsetOrdering(0..n)
    BY <2>2, <2>3, <2>4 DEF StrictSubsetOrdering
  <2> QED BY <1>4, <2>5
<1>6. x \in S /\ \A y \in S : x >= y
  BY <1>5
<1> QED BY <1>6 DEF Max

(* What the highest barrier is, ...                                        *)
IsHighest(r, b) ==
    /\ b \in 0..Len(r)
    /\ b > 0 => r[b].barrier # "none"
    /\ \A i \in (b + 1)..Len(r) : r[i].barrier = "none"

(* ... that there is one, and only one.                                    *)
LEMMA HighestBarrierIs ==
    ASSUME NEW r \in Seq(Entry)
    PROVE  /\ IsHighest(r, HighestBarrier(r))
           /\ \A b : IsHighest(r, b) => HighestBarrier(r) = b
<1> DEFINE S == {0} \cup {i \in 1..Len(r) : r[i].barrier # "none"}
           m == HighestBarrier(r)
<1>1. Len(r) \in Nat /\ S \in SUBSET (0..Len(r)) /\ S # {} /\ m = Max(S)
  BY DEF HighestBarrier
<1>2. m \in S /\ \A y \in S : m >= y
  <2> HIDE DEF S
  <2> QED BY <1>1, GreatestExists
<1> HIDE DEF m
<1>3. m \in 0..Len(r) /\ (m > 0 => r[m].barrier # "none")
  BY <1>1, <1>2
<1>4. ASSUME NEW i \in (m + 1)..Len(r) PROVE r[i].barrier = "none"
  <2>1. i \in 1..Len(r) /\ ~ (m >= i)
    BY <1>1, <1>3
  <2> QED BY <1>2, <2>1
<1>5. ASSUME NEW b, IsHighest(r, b) PROVE m = b
  <2>1. ~ (m < b)
    <3> SUFFICES ASSUME m < b PROVE FALSE
      OBVIOUS
    <3>1. b \in 1..Len(r) /\ b \in (m + 1)..Len(r)
      BY <1>1, <1>3, <1>5 DEF IsHighest
    <3> QED BY <1>4, <1>5, <3>1 DEF IsHighest
  <2>2. ~ (b < m)
    <3> SUFFICES ASSUME b < m PROVE FALSE
      OBVIOUS
    <3>1. m \in (b + 1)..Len(r) /\ m > 0
      BY <1>1, <1>3, <1>5 DEF IsHighest
    <3> QED BY <1>3, <1>5, <3>1 DEF IsHighest
  <2> QED BY <1>1, <1>3, <1>5, <2>1, <2>2 DEF IsHighest
<1> QED BY <1>3, <1>4, <1>5 DEF m, IsHighest

(* The plays above a highest barrier, in order.                            *)
LEMMA ReachableIs ==
    ASSUME NEW r \in Seq(Entry), NEW b, IsHighest(r, b)
    PROVE  /\ Reachable(r) = [i \in 1..(Len(r) - b) |-> r[b + i].at]
           /\ Reachable(r) \in Seq(Nat)
           /\ Len(Reachable(r)) = Len(r) - b
           /\ \A i \in 1..(Len(r) - b) : Reachable(r)[i] = r[b + i].at
<1>1. HighestBarrier(r) = b /\ b \in 0..Len(r) /\ Len(r) \in Nat
  BY HighestBarrierIs DEF IsHighest
<1>2. Reachable(r) = [i \in 1..(Len(r) - b) |-> r[b + i].at]
  BY <1>1 DEF Reachable
<1>3. Len(r) - b \in Nat
  BY <1>1
<1>4. \A i \in 1..(Len(r) - b) : r[b + i].at \in Nat
  <2> SUFFICES ASSUME NEW i \in 1..(Len(r) - b) PROVE r[b + i].at \in Nat
    OBVIOUS
  <2>1. b + i \in 1..Len(r)
    BY <1>1
  <2>2. r[b + i] \in Entry
    BY <2>1
  <2> QED BY <2>2 DEF Entry
<1> QED BY <1>2, <1>3, <1>4

(* Sequences of naturals that agree everywhere are equal.                  *)
LEMMA SameSeq ==
    ASSUME NEW s \in Seq(Nat), NEW t \in Seq(Nat), Len(s) = Len(t),
           \A i \in 1..Len(s) : s[i] = t[i]
    PROVE  s = t
OBVIOUS

(* A barrier on top puts everything out of reach.                          *)
LEMMA BarrierHides ==
    ASSUME NEW r \in Seq(Entry), r # <<>>, r[Len(r)].barrier # "none"
    PROVE  Reachable(r) = <<>>
<1>1. IsHighest(r, Len(r))
  BY DEF IsHighest
<1>2. Len(Reachable(r)) = Len(r) - Len(r) /\ Reachable(r) \in Seq(Nat)
  BY <1>1, ReachableIs
<1> QED BY <1>2

(* So does an empty ring.                                                  *)
LEMMA EmptyHides == Reachable(<<>>) = <<>>
<1> DEFINE r == <<>>
<1>1. r \in Seq(Entry) /\ Len(r) - 0 = 0 /\ IsHighest(r, 0)
  BY DEF IsHighest
<1> HIDE DEF r
<1>2. Reachable(r) \in Seq(Nat) /\ Len(Reachable(r)) = 0
  BY <1>1, ReachableIs
<1> QED BY <1>2 DEF r

(* A push puts its play within reach, and the oldest one out of reach when *)
(* there are more than SnapshotDepth.                                      *)
LEMMA PushReaches ==
    ASSUME NEW r \in Seq(Entry), ClonesOn(r), NEW e \in Entry, e.barrier = "none"
    PROVE  Reachable(pushUndo(r, e)) = History!Newest(Append(Reachable(r), e.at))
<1> DEFINE p == pushUndo(r, e)
           b == HighestBarrier(r)
           n == Len(r) + 1
           low == n - SnapshotDepth
           top == IF b < low THEN low ELSE b
           was == Append(Reachable(r), e.at)
<1>1. /\ IsHighest(r, b) /\ b \in 0..Len(r) /\ Len(r) \in Nat /\ Len(r) <= StackCap
      /\ SnapshotDepth \in Nat /\ SnapshotDepth >= 1 /\ SnapshotDepth <= StackCap /\ StackCap \in Nat
  BY HighestBarrierIs, RingAssumption DEF IsHighest, ClonesOn
<1>2. /\ p \in Seq(Entry) /\ Len(p) = n - Shift(r)
      /\ \A i \in 1..Len(p) :
            /\ i + Shift(r) \in 1..n
            /\ p[i].at = Append(r, e)[i + Shift(r)].at
            /\ \/ /\ p[i] = Append(r, e)[i + Shift(r)]
                  /\ i + Shift(r) = low => p[i].barrier # "none"
               \/ i + Shift(r) = low /\ p[i].barrier = "depth"
  <2> DEFINE a == Append(r, e)
  <2>1. p \in Seq(Entry) /\ Len(p) = Len(r) + 1 - Shift(r)
    BY <1>1, PushType, Zenon
  <2>2. ASSUME NEW i \in 1..Len(p)
        PROVE  /\ i + Shift(r) \in 1..(Len(r) + 1)
               /\ p[i].at = a[i + Shift(r)].at
               /\ \/ /\ p[i] = a[i + Shift(r)]
                     /\ i + Shift(r) = Len(r) + 1 - SnapshotDepth => p[i].barrier # "none"
                  \/ i + Shift(r) = Len(r) + 1 - SnapshotDepth /\ p[i].barrier = "depth"
    BY <1>1, PushType, Zenon
  <2>3. Shift(r) \in {0, 1} /\ Len(r) + 1 - SnapshotDepth = low
    BY <1>1 DEF Shift
  <2>4. Len(p) = n - Shift(r)
    BY <1>1, <2>1, <2>3
  <2> HIDE DEF p, a, low
  <2> QED BY <2>1, <2>2, <2>3, <2>4, Zenon DEF a
<1>3. b >= low - 1
  <2> SUFFICES ASSUME b < low - 1 PROVE FALSE
    BY <1>1
  <2>1. b + 1 \in 1..Len(r) /\ b + 1 \in (b + 1)..Len(r) /\ ~ (b + 1 > Len(r) - SnapshotDepth)
    BY <1>1
  <2> QED BY <1>1, <2>1 DEF IsHighest, ClonesOn
<1>4. Shift(r) \in {0, 1} /\ (Shift(r) = 1 <=> n > StackCap) /\ (Shift(r) = 1 => low >= 1)
  BY <1>1 DEF Shift
<1>5. top - Shift(r) \in 0..Len(p)
  BY <1>1, <1>2, <1>4
<1>6. IsHighest(p, top - Shift(r))
  <2>1. ASSUME top - Shift(r) > 0 PROVE p[top - Shift(r)].barrier # "none"
    <3>1. top - Shift(r) \in 1..Len(p) /\ top \in 1..n
      BY <1>1, <1>2, <1>4, <1>5, <2>1
    <3>2. CASE b < low
      BY <1>1, <1>2, <1>4, <3>1, <3>2
    <3>3. CASE ~ (b < low)
      <4>1. b \in 1..Len(r) /\ top = b /\ r[b].barrier # "none" /\ Append(r, e)[b] = r[b]
        BY <1>1, <3>1, <3>3 DEF IsHighest
      <4>2. b - Shift(r) + Shift(r) = b
        BY <1>1, <1>4
      <4> HIDE DEF p, b
      <4> QED BY <1>2, <3>1, <4>1, <4>2
    <3> QED BY <3>2, <3>3
  <2>2. ASSUME NEW i \in (top - Shift(r) + 1)..Len(p) PROVE p[i].barrier = "none"
    <3>1. i \in 1..Len(p) /\ i + Shift(r) > top /\ i + Shift(r) # low
      BY <1>1, <1>2, <1>4, <1>5, <2>2
    <3>2. i + Shift(r) \in 1..n /\ p[i] = Append(r, e)[i + Shift(r)]
      BY <1>2, <3>1
    <3>3. CASE i + Shift(r) = n
      BY <3>2, <3>3
    <3>4. CASE i + Shift(r) # n
      <4>1. i + Shift(r) \in (b + 1)..Len(r) /\ Append(r, e)[i + Shift(r)] = r[i + Shift(r)]
        BY <1>1, <1>4, <3>1, <3>2, <3>4
      <4> QED BY <1>1, <3>2, <4>1 DEF IsHighest
    <3> QED BY <3>3, <3>4
  <2> QED BY <1>5, <2>1, <2>2 DEF IsHighest
<1>7. /\ Reachable(r) \in Seq(Nat) /\ Len(Reachable(r)) = Len(r) - b
      /\ \A i \in 1..(Len(r) - b) : Reachable(r)[i] = r[b + i].at
  BY <1>1, ReachableIs
<1>8. /\ Reachable(p) \in Seq(Nat) /\ Len(Reachable(p)) = Len(p) - (top - Shift(r))
      /\ \A i \in 1..(Len(p) - (top - Shift(r))) : Reachable(p)[i] = p[top - Shift(r) + i].at
  BY <1>2, <1>6, ReachableIs
<1>9. /\ was \in Seq(Nat) /\ Len(was) = n - b
      /\ \A i \in 1..(n - b) : was[i] = Append(r, e)[b + i].at
  <2>1. e.at \in Nat
    BY DEF Entry
  <2>2. was \in Seq(Nat) /\ Len(was) = Len(r) - b + 1
    BY <1>7, <2>1
  <2>3. ASSUME NEW i \in 1..(n - b) PROVE was[i] = Append(r, e)[b + i].at
    <3> HIDE DEF b
    <3>1. CASE i = n - b
      BY <1>1, <1>7, <2>1, <3>1
    <3>2. CASE i # n - b
      <4>1. i \in 1..(Len(r) - b) /\ b + i \in 1..Len(r)
        BY <1>1, <3>2
      <4>2. Append(r, e)[b + i] = r[b + i]
        BY <4>1
      <4>3. was[i] = Reachable(r)[i]
        BY <1>7, <2>1, <4>1
      <4> HIDE DEF was
      <4> QED BY <1>7, <4>1, <4>2, <4>3
    <3> QED BY <3>1, <3>2
  <2>4. Len(was) = n - b
    BY <1>1, <2>2
  <2> HIDE DEF was, n, b
  <2> QED BY <2>2, <2>3, <2>4
<1>10. ASSUME NEW i \in 1..(n - top) PROVE Reachable(p)[i] = Append(r, e)[top + i].at
  <2>1. /\ i \in 1..(Len(p) - (top - Shift(r))) /\ top - Shift(r) + i \in 1..Len(p)
        /\ top - Shift(r) + i + Shift(r) = top + i
    <3>1. top \in Int /\ Shift(r) \in Int /\ Len(p) = n - Shift(r) /\ n \in Int
      BY <1>1, <1>2, <1>4
    <3> HIDE DEF p, top, n
    <3> QED BY <1>5, <3>1
  <2> HIDE DEF p, top
  <2> QED BY <1>2, <1>8, <2>1
<1>11. Len(Reachable(p)) = n - top
  BY <1>1, <1>2, <1>4, <1>8
<1> HIDE DEF p, was
<1>12. CASE b >= low
  <2>1. top = b /\ ~ (Len(was) > SnapshotDepth)
    BY <1>1, <1>9, <1>12
  <2>2. ASSUME NEW i \in 1..(n - b) PROVE Reachable(p)[i] = was[i]
    <3> HIDE DEF b, n
    <3> QED BY <1>9, <1>10, <2>1
  <2>3. Len(Reachable(p)) = n - b
    BY <1>11, <2>1
  <2>4. Reachable(p) = was
    <3> HIDE DEF b, n
    <3> QED BY <1>8, <1>9, <2>2, <2>3, SameSeq
  <2> QED BY <2>1, <2>4 DEF History!Newest, p, was
<1>13. CASE b < low
  <2>1. top = b + 1 /\ Len(was) > SnapshotDepth
    BY <1>1, <1>3, <1>9, <1>13
  <2>2. /\ Tail(was) \in Seq(Nat) /\ Len(Tail(was)) = n - b - 1
        /\ \A i \in 1..(n - b - 1) : Tail(was)[i] = was[i + 1]
    BY <1>1, <1>9
  <2>3. ASSUME NEW i \in 1..(n - b - 1) PROVE Reachable(p)[i] = Tail(was)[i]
    <3>1. i \in 1..(n - top) /\ i + 1 \in 1..(n - b) /\ top + i = b + (i + 1)
      BY <1>1, <2>1
    <3> HIDE DEF b, top
    <3> QED BY <1>9, <1>10, <2>2, <3>1
  <2>4. Reachable(p) = Tail(was)
    <3>1. Len(Reachable(p)) = Len(Tail(was)) /\ Len(Reachable(p)) = n - b - 1
      BY <1>1, <1>11, <2>1, <2>2
    <3> HIDE DEF n, b
    <3> QED BY <1>8, <2>2, <2>3, <3>1, SameSeq
  <2> QED BY <2>1, <2>4 DEF History!Newest, p, was
<1> QED BY <1>1, <1>12, <1>13

(* A bot's entry is a barrier, and stays on top of the push.               *)
LEMMA PushHides ==
    ASSUME NEW r \in Seq(Entry), Len(r) <= StackCap, NEW e \in Entry, e.barrier # "none"
    PROVE  Reachable(pushUndo(r, e)) = <<>>
<1> DEFINE p == pushUndo(r, e)
           last == Len(p)
<1>1. p \in Seq(Entry) /\ Len(p) = Len(r) + 1 - Shift(r)
  BY PushType, Zenon
<1>2. Shift(r) \in {0, 1} /\ (Shift(r) = 1 => Len(r) >= 1) /\ Len(r) \in Nat
  BY RingAssumption DEF Shift
<1>3. last \in 1..Len(p) /\ last + Shift(r) = Len(r) + 1
  BY <1>1, <1>2
<1>4. \/ p[last] = Append(r, e)[last + Shift(r)]
      \/ p[last].barrier = "depth"
  <2> HIDE DEF last
  <2> QED BY <1>3, PushType, Zenon
<1>5. Append(r, e)[last + Shift(r)] = e
  <2> HIDE DEF last
  <2> QED BY <1>2, <1>3
<1>6. p # <<>> /\ p[Len(p)].barrier # "none"
  BY <1>3, <1>4, <1>5
<1> HIDE DEF p
<1>7. Reachable(p) = <<>>
  BY <1>1, <1>6, BarrierHides
<1> QED BY <1>7 DEF p

(* What an undo pops was the newest play within reach.                     *)
LEMMA PopReaches ==
    ASSUME NEW r \in Seq(Entry), r # <<>>, r[Len(r)].barrier = "none"
    PROVE  LET was == Reachable(r)
           IN /\ was # <<>>
              /\ was[Len(was)] = r[Len(r)].at
              /\ Reachable(Front(r)) = SubSeq(was, 1, Len(was) - 1)
<1> DEFINE was == Reachable(r)
           b == HighestBarrier(r)
           f == Front(r)
           n == Len(r) - b
<1>1. IsHighest(r, b) /\ b \in 0..Len(r) /\ Len(r) \in Nat /\ Len(r) >= 1
  BY HighestBarrierIs DEF IsHighest
<1>2. b < Len(r)
  BY <1>1 DEF IsHighest
<1>3. /\ was \in Seq(Nat) /\ Len(was) = n
      /\ \A i \in 1..n : was[i] = r[b + i].at
  BY <1>1, ReachableIs
<1>4. f \in Seq(Entry) /\ Len(f) = Len(r) - 1 /\ \A i \in 1..(Len(r) - 1) : f[i] = r[i]
  BY FrontType
<1>5. IsHighest(f, b)
  <2>1. b \in 0..Len(f) /\ \A i \in (b + 1)..Len(f) : i \in (b + 1)..Len(r) /\ f[i] = r[i]
    BY <1>1, <1>2, <1>4
  <2>2. b > 0 => f[b] = r[b]
    BY <1>1, <1>2, <1>4
  <2> HIDE DEF b, f
  <2>3. b > 0 => f[b].barrier # "none"
    BY <1>1, <2>2 DEF IsHighest
  <2>4. \A i \in (b + 1)..Len(f) : f[i].barrier = "none"
    BY <1>1, <2>1 DEF IsHighest
  <2> QED BY <2>1, <2>3, <2>4 DEF IsHighest
<1>6. /\ Reachable(f) \in Seq(Nat) /\ Len(Reachable(f)) = Len(f) - b
      /\ \A i \in 1..(Len(f) - b) : Reachable(f)[i] = f[b + i].at
  <2> HIDE DEF f, b
  <2> QED BY <1>4, <1>5, ReachableIs
<1> HIDE DEF was, b, f
<1>7. was # <<>> /\ n \in Nat /\ n >= 1 /\ b + n = Len(r) /\ Len(f) - b = n - 1
  BY <1>1, <1>2, <1>3, <1>4
<1>8. was[Len(was)] = r[Len(r)].at
  BY <1>3, <1>7
<1>9. /\ SubSeq(was, 1, n - 1) \in Seq(Nat) /\ Len(SubSeq(was, 1, n - 1)) = n - 1
      /\ \A i \in 1..(n - 1) : SubSeq(was, 1, n - 1)[i] = was[i]
  <2>1. n - 1 \in 0..Len(was)
    BY <1>3, <1>7
  <2> QED BY <1>3, <2>1, PrefixType
<1>10. ASSUME NEW i \in 1..(n - 1) PROVE Reachable(f)[i] = SubSeq(was, 1, n - 1)[i]
  <2>1. i \in 1..n /\ b + i \in 1..(Len(r) - 1)
    BY <1>1, <1>7
  <2> HIDE DEF n
  <2> QED BY <1>3, <1>4, <1>6, <1>7, <1>9, <2>1
<1>11. Reachable(f) = SubSeq(was, 1, n - 1)
  <2> HIDE DEF n
  <2> QED BY <1>6, <1>7, <1>9, <1>10, SameSeq
<1> QED BY <1>3, <1>7, <1>8, <1>11 DEF was, f

-----------------------------------------------------------------------------
(* The steps of the room, as the history sees them.                        *)
LEMMA ReachableNext == Reachable(ring)' = Reachable(ring')
BY DEF Reachable, HighestBarrier

(* A play: its stamp is a bot's exactly if the move is final.              *)
LEMMA PlayIsPlay ==
    ASSUME SInv, NEW c \in CommitRecord, c.kind # "external",
           game'.line = Append(game.line, c), game'.seated = game.seated,
           NEW s \in Seats \cup {Nil}, NEW free \in BOOLEAN, NEW p \in Prompt \cup {Nil},
           ring' = pushUndo(ring, NewEntry(game, s, free, p)),
           s \in Bots <=> c.by \in Bots /\ c.kind = "play"
    PROVE  History!Play
<1> DEFINE e == NewEntry(game, s, free, p)
<1>1. /\ game \in Game /\ ring \in Seq(Entry) /\ ClonesOn(ring) /\ Len(ring) <= StackCap
  BY DEF SInv, IInv, TypeOK, ClonesOn
<1>2. e \in Entry /\ e.at = Len(game.line) /\ e.barrier = (IF s \in Bots THEN "bot" ELSE "none")
  BY <1>1, NewEntryType DEF NewEntry, undoBarrierFor
<1> HIDE DEF e
<1>3. CASE s \in Bots
  <2>1. Reachable(ring)' = <<>>
    BY <1>1, <1>2, <1>3, PushHides, ReachableNext DEF e
  <2> QED BY <1>3, <2>1 DEF History!Play, History!Final
<1>4. CASE s \notin Bots
  <2>1. Reachable(ring)' = History!Newest(Append(Reachable(ring), Len(game.line)))
    BY <1>1, <1>2, <1>4, PushReaches, ReachableNext DEF e
  <2> QED BY <1>4, <2>1 DEF History!Play, History!Final
<1> QED BY <1>3, <1>4

(* A commit that leaves no entry.                                          *)
LEMMA ExternalIsExternal ==
    ASSUME NEW c \in CommitRecord, c.kind = "external",
           game'.line = Append(game.line, c), game'.seated = game.seated, ring' = ring
    PROVE  History!External
<1>1. Reachable(ring)' = Reachable(ring)
  BY ReachableNext
<1> QED BY <1>1 DEF History!External

(* A removal empties the ring.                                             *)
LEMMA RemoveIsRemove ==
    ASSUME NEW c \in CommitRecord, c.kind = "external", NEW s \in game.seated,
           game'.line = Append(game.line, c), game'.seated = game.seated \ {s}, ring' = <<>>
    PROVE  History!Remove
<1>1. Reachable(ring)' = <<>>
  BY ReachableNext, EmptyHides
<1> QED BY <1>1 DEF History!Remove

(* An undo.                                                                *)
LEMMA UndoIsTakeBack ==
    ASSUME SInv, NEW c \in Humans \cup {Nil}, Undo(c)
    PROVE  History!TakeBack
<1>1. /\ game \in Game /\ limit \in Budget /\ ring \in Seq(Entry) /\ Shadows(ring, game.line) /\ IInv
      /\ MayUndo(c) /\ ring' = Front(ring)
  BY DEF SInv, IInv, TypeOK, Budget, Undo
<1>2. /\ ring # <<>> /\ Last(ring) = ring[Len(ring)] /\ Len(ring) \in 1..Len(ring)
      /\ Last(ring).barrier = "none" /\ Last(ring).pre # NoClone
      /\ Restored \in Game /\ Restored.line = Last(ring).pre.line
      /\ Restored.seated = game.seated
  BY <1>1, RestoredType, RestoredSeats, FrontType DEF MayUndo
<1>3. Last(ring).pre.line = SubSeq(game.line, 1, Last(ring).at)
  BY <1>1, <1>2 DEF Shadows
<1>4. game'.line = Restored.line /\ game'.seated = Restored.seated
  <2>1. CASE game' = Debit(Restored, c)
    BY <1>2, <2>1 DEF Debit, Game
  <2> QED BY <2>1 DEF Undo
<1>5. /\ Reachable(ring) # <<>>
      /\ Reachable(ring)[Len(Reachable(ring))] = Last(ring).at
      /\ Reachable(ring)' = SubSeq(Reachable(ring), 1, Len(Reachable(ring)) - 1)
  BY <1>1, <1>2, PopReaches, ReachableNext
<1> QED BY <1>2, <1>3, <1>4, <1>5 DEF History!TakeBack

LEMMA TimelineInit == Init => History!TInit
BY EmptyHides DEF Init, History!TInit

LEMMA TimelineStep == SInv /\ [Next]_vars => [History!TNext]_(History!tvars)
<1> SUFFICES ASSUME SInv, [Next]_vars
             PROVE  \/ History!Play \/ History!External \/ History!Remove \/ History!TakeBack
                    \/ UNCHANGED <<game.line, Reachable(ring), game.seated>>
  BY DEF History!TNext, History!tvars
<1>1. /\ game \in Game /\ limit \in Budget /\ ring \in Seq(Entry) /\ Nil \in Seats \cup {Nil}
      /\ Nil \in Prompt \cup {Nil} /\ TRUE \in BOOLEAN /\ FALSE \in BOOLEAN
      /\ Effects \subseteq EffectRecord /\ Plain \in EffectRecord
      /\ Nil \notin Bots /\ \A h \in Humans : h \in Seats /\ h \notin Bots
  BY EffectAssumption, PlainType, SeatAssumption DEF SInv, IInv, TypeOK, Budget, Seats
<1>2. ASSUME NEW by \in Seats \cup {Nil}, NEW kind \in Kinds, NEW e \in EffectRecord
      PROVE  /\ [by |-> by, kind |-> kind, reveals |-> e.reveals] \in CommitRecord
             /\ Extend(game, by, kind, e) \in Game
             /\ Extend(game, by, kind, e).line
                  = Append(game.line, [by |-> by, kind |-> kind, reveals |-> e.reveals])
             /\ Extend(game, by, kind, e).seated = game.seated
  <2>1. [by |-> by, kind |-> kind, reveals |-> e.reveals] \in CommitRecord
    BY DEF CommitRecord, EffectRecord, Kinds
  <2> QED BY <1>1, <2>1, ExtendType
<1>3. ASSUME NEW by \in Seats \cup {Nil}, NEW kind \in Kinds \ {"external"}, NEW e \in EffectRecord,
             game'.line = Extend(game, by, kind, e).line, game'.seated = game.seated,
             NEW s \in Seats \cup {Nil}, NEW free \in BOOLEAN, NEW p \in Prompt \cup {Nil},
             ring' = pushUndo(ring, NewEntry(game, s, free, p)),
             s \in Bots <=> by \in Bots /\ kind = "play"
      PROVE  History!Play
  <2> DEFINE c == [by |-> by, kind |-> kind, reveals |-> e.reveals]
  <2>1. c \in CommitRecord /\ c.by = by /\ c.kind = kind /\ game'.line = Append(game.line, c)
    BY <1>2, <1>3
  <2> HIDE DEF c
  <2> QED BY <1>3, <2>1, PlayIsPlay
<1>4. ASSUME NEW by \in Seats \cup {Nil}, NEW e \in EffectRecord,
             game'.line = Extend(game, by, "external", e).line, game'.seated = game.seated,
             ring' = ring
      PROVE  History!External
  <2> DEFINE c == [by |-> by, kind |-> "external", reveals |-> e.reveals]
  <2>1. c \in CommitRecord /\ c.kind = "external" /\ game'.line = Append(game.line, c)
    BY <1>2, <1>4 DEF Kinds
  <2> HIDE DEF c
  <2> QED BY <1>4, <2>1, ExternalIsExternal
<1> DEFINE Goal == \/ History!Play \/ History!External \/ History!Remove \/ History!TakeBack
                   \/ UNCHANGED <<game.line, Reachable(ring), game.seated>>
<1>5. ASSUME NEW s \in Seats \cup {Nil}, NEW e \in Effects, Apply(s, e)
      PROVE  Goal
  <2>1. e \in EffectRecord /\ "play" \in Kinds \ {"external"}
    BY <1>1 DEF Kinds
  <2>2. /\ game' = Extend(game, s, "play", e)
        /\ ring' = pushUndo(ring, NewEntry(game, s, FALSE, Nil))
    BY <1>5 DEF Apply, Commit
  <2>3. game'.seated = game.seated
    BY <1>2, <2>1, <2>2
  <2> QED BY <1>1, <1>3, <2>1, <2>2, <2>3
<1>6. ASSUME NEW p \in game.prompts, NEW e \in Effects, ResolveChoice(p, e)
      PROVE  Goal
  <2> DEFINE x == Extend(game, p.chooser, "play", e)
  <2>1. e \in EffectRecord /\ "play" \in Kinds \ {"external"} /\ p.chooser \in Humans
    BY <1>1 DEF Kinds, Game, Prompt
  <2>2. x \in Game /\ x.seated = game.seated
    BY <1>1, <1>2, <2>1
  <2>3. game' = WithoutPrompt(x, p) /\ ring' = pushUndo(ring, NewEntry(game, p.chooser, FALSE, Nil))
    BY <1>6 DEF ResolveChoice, Commit
  <2>4. game'.line = x.line /\ game'.seated = game.seated
    <3> HIDE DEF x
    <3> QED BY <2>2, <2>3 DEF WithoutPrompt, Game
  <2> QED BY <1>1, <1>3, <2>1, <2>3, <2>4
<1>7. ASSUME NEW a \in Seats \cup {Nil}, NEW e \in Effects, ApplyBundle(a, e)
      PROVE  Goal
  <2> DEFINE caller == IF a \in Bots THEN Nil ELSE a
  <2>1. e \in EffectRecord /\ "bundle" \in Kinds \ {"external"} /\ "bundle" # "play"
        /\ caller \in Seats \cup {Nil} /\ caller \notin Bots
    BY <1>1 DEF Kinds
  <2>2. game' = Extend(game, a, "bundle", e) /\ ring' = pushUndo(ring, NewEntry(game, caller, TRUE, Nil))
    BY <1>7 DEF ApplyBundle, Commit
  <2>3. game'.seated = game.seated
    BY <1>2, <2>1, <2>2
  <2> HIDE DEF caller
  <2> QED BY <1>1, <1>3, <2>1, <2>2, <2>3
<1>8. ASSUME NEW s \in Seats \cup {Nil}, NEW h \in Humans \cup {Nil}, ApplyExternal(s, h)
      PROVE  Goal
  <2> DEFINE x == Extend(game, s, "external", Plain)
  <2>1. x \in Game /\ x.seated = game.seated
    BY <1>1, <1>2 DEF Kinds
  <2>2. game' = [x EXCEPT !.loop = h] /\ ring' = ring
    BY <1>8 DEF ApplyExternal, Commit
  <2>3. game'.line = x.line /\ game'.seated = game.seated
    <3> HIDE DEF x
    <3> QED BY <2>1, <2>2 DEF Game
  <2> QED BY <1>1, <1>4, <2>2, <2>3
<1>9. ASSUME NEW l \in Limits, SetUndoLimit(l)
      PROVE  Goal
  <2> DEFINE x == Extend(game, Nil, "external", Plain)
  <2>1. x \in Game /\ x.seated = game.seated
    BY <1>1, <1>2 DEF Kinds
  <2>2. game' = [x EXCEPT !.undos = [s \in Seats |-> l]] /\ ring' = ring
    BY <1>9 DEF SetUndoLimit, Commit
  <2>3. game'.line = x.line /\ game'.seated = game.seated
    <3> HIDE DEF x
    <3> QED BY <2>1, <2>2 DEF Game
  <2> QED BY <1>1, <1>4, <2>2, <2>3
<1>10. ASSUME NEW s \in Humans, NEW over \in BOOLEAN, RemoveSeat(s, over)
       PROVE  Goal
  <2> DEFINE end == [Plain EXCEPT !.ends = over]
             x == Extend(game, Nil, "external", end)
             c == [by |-> Nil, kind |-> "external", reveals |-> end.reveals]
  <2>1. end \in EffectRecord
    BY PlainType DEF EffectRecord
  <2>2. x \in Game /\ x.seated = game.seated /\ c \in CommitRecord /\ x.line = Append(game.line, c)
    <3> HIDE DEF end
    <3> QED BY <1>1, <1>2, <2>1 DEF Kinds
  <2>3. /\ game' = [x EXCEPT !.seated = @ \ {s}, !.prompts = {p \in @ : p.chooser # s}]
        /\ ring' = <<>> /\ s \in game.seated
    BY <1>10 DEF RemoveSeat, Commit
  <2>4. c.kind = "external"
    OBVIOUS
  <2>5. game'.line = Append(game.line, c) /\ game'.seated = game.seated \ {s}
    <3> HIDE DEF x, c
    <3> QED BY <2>2, <2>3 DEF Game
  <2> HIDE DEF c
  <2> QED BY <2>2, <2>3, <2>4, <2>5, RemoveIsRemove
<1>11. ASSUME NEW p \in game.prompts, NEW e \in Effects, AutoAnswer(p, e)
       PROVE  Goal
  <2> DEFINE x == Extend(game, p.chooser, "auto", e)
  <2>1. e \in EffectRecord /\ "auto" \in Kinds \ {"external"} /\ p.chooser \in Humans /\ p \in Prompt
    BY <1>1 DEF Kinds, Game, Prompt
  <2>2. x \in Game /\ x.seated = game.seated
    BY <1>1, <1>2, <2>1
  <2>3. game' = WithoutPrompt(x, p) /\ ring' = pushUndo(ring, NewEntry(game, p.chooser, TRUE, p))
    BY <1>11 DEF AutoAnswer
  <2>4. game'.line = x.line /\ game'.seated = game.seated
    <3> HIDE DEF x
    <3> QED BY <2>2, <2>3 DEF WithoutPrompt, Game
  <2> QED BY <1>1, <1>3, <2>1, <2>3, <2>4
<1>12. ASSUME NEW p \in game.prompts, AutoAnswerFails(p) \/ AskByHand(p)
       PROVE  Goal
  <2>1. game' = MarkAskedByHand(game, p) /\ ring' = ring
    BY <1>12 DEF AutoAnswerFails, AskByHand
  <2>2. game'.line = game.line /\ game'.seated = game.seated
    BY <1>1, <2>1 DEF MarkAskedByHand, Game
  <2> QED BY <2>1, <2>2, ReachableNext
<1>13. CASE Settle
  BY <1>13, ReachableNext DEF Settle, Release
<1>14. CASE ReplayLoop
  <2> DEFINE x == Extend(game, game.loop, "replay", Plain)
  <2>1. game.loop \in Humans /\ "replay" \in Kinds \ {"external"}
    BY <1>1, <1>14 DEF ReplayLoop, Game, Kinds
  <2>2. x \in Game /\ x.seated = game.seated
    BY <1>1, <1>2, <2>1
  <2>3. /\ game' = [x EXCEPT !.loop = Nil]
        /\ ring' = pushUndo(ring, NewEntry(game, game.loop, FALSE, Nil))
    BY <1>14 DEF ReplayLoop, Release
  <2>4. game'.line = x.line /\ game'.seated = game.seated
    <3> HIDE DEF x
    <3> QED BY <2>2, <2>3 DEF Game
  <2> QED BY <1>1, <1>3, <2>1, <2>3, <2>4
<1>15. CASE ReplayStops
  <2>1. game' = [game EXCEPT !.loop = Nil] /\ ring' = ring
    BY <1>15 DEF ReplayStops, Release
  <2>2. game'.line = game.line /\ game'.seated = game.seated
    BY <1>1, <2>1 DEF Game
  <2> QED BY <2>1, <2>2, ReachableNext
<1>16. ASSUME NEW c \in Humans \cup {Nil}, Undo(c)
       PROVE  Goal
  BY <1>16, UndoIsTakeBack
<1>17. CASE UNCHANGED vars
  BY <1>17, ReachableNext DEF vars
<1> QED
  BY <1>5, <1>6, <1>7, <1>8, <1>9, <1>10, <1>11, <1>12, <1>13, <1>14, <1>15, <1>16, <1>17 DEF Next

(* The ring, its clones, barriers and two caps keep what Timeline says of  *)
(* a table's history: the last SnapshotDepth plays since a bot's move or a *)
(* removal can be taken back, newest first, and nothing else ever is       *)
(* (pushUndoLocked, undo, ApplyExternalClearingUndo).                      *)
THEOREM RefinesTimeline == Spec => KeepsTimeline
BY TimelineInit, TimelineStep, SInvAlways, PTL DEF Spec, KeepsTimeline, History!TSpec

(* The two ways a list of plays loses an end keep the other.               *)
LEMMA TailKeepsSecond ==
    ASSUME NEW w \in Seq(Nat), Len(w) >= 2
    PROVE  Tail(w) # <<>> /\ Tail(w)[1] = w[2] /\ 2 \in 1..Len(w)
<1>1. Len(w) \in Nat /\ w # <<>>
  OBVIOUS
<1>2. 2 \in 1..Len(w)
  BY <1>1
<1>3. /\ Len(Tail(w)) = Len(w) - 1
      /\ \A i \in 1..Len(Tail(w)) : Tail(w)[i] = w[i + 1]
  BY <1>1, HeadTailProperties
<1>4. 1 \in 1..Len(Tail(w)) /\ 1 + 1 = 2
  BY <1>1, <1>3
<1>5. Tail(w)[1] = w[2]
  BY <1>3, <1>4
<1>6. Tail(w) # <<>>
  <2>1. Len(Tail(w)) # 0
    BY <1>1, <1>3
  <2>2. Len(<<>>) = 0
    OBVIOUS
  <2> QED BY <2>1, <2>2, Zenon
<1> QED BY <1>2, <1>5, <1>6

LEMMA FrontKeepsFirst ==
    ASSUME NEW w \in Seq(Nat), Len(w) >= 2
    PROVE  /\ SubSeq(w, 1, Len(w) - 1) # <<>>
           /\ SubSeq(w, 1, Len(w) - 1)[1] = w[1]
<1>1. Len(w) \in Nat
  OBVIOUS
<1>2. Len(w) - 1 \in 0..Len(w) /\ 1 \in 1..(Len(w) - 1)
  BY <1>1
<1>3. /\ Len(SubSeq(w, 1, Len(w) - 1)) = Len(w) - 1
      /\ SubSeq(w, 1, Len(w) - 1)[1] = w[1]
  BY <1>2, PrefixType
<1>4. SubSeq(w, 1, Len(w) - 1) # <<>>
  <2>1. Len(SubSeq(w, 1, Len(w) - 1)) # 0
    BY <1>2, <1>3
  <2>2. Len(<<>>) = 0
    OBVIOUS
  <2> QED BY <2>1, <2>2, Zenon
<1> QED BY <1>3, <1>4

(* The plays within reach are on the line, in order.                       *)
LEMMA ReachableInOrder ==
    ASSUME IInv, NEW i \in 1..Len(Reachable(ring))
    PROVE  /\ Reachable(ring) \in Seq(Nat)
           /\ Reachable(ring)[i] < Len(game.line)
           /\ \A j \in (i + 1)..Len(Reachable(ring)) : Reachable(ring)[i] < Reachable(ring)[j]
<1> DEFINE b == HighestBarrier(ring)
<1>1. ring \in Seq(Entry) /\ Shadows(ring, game.line)
  BY DEF IInv, TypeOK
<1>2. IsHighest(ring, b) /\ b \in 0..Len(ring) /\ Len(ring) \in Nat
  BY <1>1, HighestBarrierIs DEF IsHighest
<1>3. /\ Reachable(ring) \in Seq(Nat) /\ Len(Reachable(ring)) = Len(ring) - b
      /\ \A j \in 1..(Len(ring) - b) : Reachable(ring)[j] = ring[b + j].at
  BY <1>1, <1>2, ReachableIs
<1> HIDE DEF b
<1>4. b + i \in 1..Len(ring)
  BY <1>2, <1>3
<1>5. ASSUME NEW j \in (i + 1)..Len(Reachable(ring))
      PROVE  Reachable(ring)[i] < Reachable(ring)[j]
  <2>1. j \in 1..(Len(ring) - b) /\ b + j \in ((b + i) + 1)..Len(ring)
    BY <1>2, <1>3
  <2>2. ring[b + i].at < ring[b + j].at
    BY <1>1, <1>4, <2>1 DEF Shadows
  <2> QED BY <1>3, <2>1, <2>2
<1>6. Reachable(ring)[i] < Len(game.line)
  BY <1>1, <1>3, <1>4 DEF Shadows
<1> QED BY <1>3, <1>5, <1>6

(* A longer line begins as the line did, and so does a shorter one.        *)
LEMMA Begins ==
    ASSUME NEW S, NEW s \in Seq(S), NEW x \in S, NEW k \in 0..Len(s), NEW n \in 0..k
    PROVE  /\ SubSeq(Append(s, x), 1, k) = SubSeq(s, 1, k)
           /\ SubSeq(SubSeq(s, 1, k), 1, n) = SubSeq(s, 1, n)
           /\ Len(SubSeq(s, 1, k)) = k
OBVIOUS

(* What no undo can reach any more stands for good: the commits before the *)
(* oldest play within reach, or all of them, are never changed again, by   *)
(* whatever plays, undos and removals (ErrUndoPastBot, ErrUndoTooDeep).    *)
THEOREM StandsForGoodAlways == Spec => History!StandsForGood
<1>1. IInv /\ [History!TNext]_(History!tvars) => [History!Stands]_(History!tvars)
  <2> DEFINE line == game.line
             open == Reachable(ring)
             n == Len(line)
  <2> SUFFICES ASSUME IInv, History!TNext
               PROVE  History!Stands
    OBVIOUS
  <2>1. /\ line \in Seq(CommitRecord) /\ n \in Nat /\ SnapshotDepth \in Nat /\ SnapshotDepth >= 1
    BY RingAssumption DEF IInv, TypeOK, Game
  <2>2. open \in Seq(Nat)
    <3>1. ring \in Seq(Entry)
      BY DEF IInv, TypeOK
    <3> QED BY <3>1, HighestBarrierIs, ReachableIs
  <2>3. /\ \A i \in 1..Len(open) : open[i] < n
        /\ \A i \in 1..Len(open) : open[1] <= open[i]
    <3>1. ASSUME NEW i \in 1..Len(open) PROVE open[i] < n /\ open[1] <= open[i]
      <4>1. 1 \in 1..Len(open) /\ (i = 1 \/ i \in (1 + 1)..Len(open))
        BY <2>2
      <4>2. open[i] \in Nat
        BY <2>2
      <4> HIDE DEF open, n
      <4> QED BY <4>1, <4>2, ReachableInOrder DEF open, n
    <3> QED BY <3>1
  <2> DEFINE k == IF open = <<>> THEN n ELSE open[1]
  <2>4. k \in 0..n
    <3> HIDE DEF n
    <3> QED BY <2>1, <2>2, <2>3
  <2>5. History!Standing = k
    BY DEF History!Standing
  <2>6. ASSUME NEW c \in CommitRecord, line' = Append(line, c),
               \/ open' = open \/ open' = <<>>
               \/ open' = History!Newest(Append(open, n))
        PROVE  History!Stands
    <3>1. SubSeq(line', 1, k) = SubSeq(line, 1, k) /\ Len(line') = n + 1
      <4> HIDE DEF k, line
      <4> QED BY <2>1, <2>4, <2>6, Begins
    <3>2. CASE open' = open \/ open' = <<>>
      <4>1. History!Standing' \in {k, n + 1}
        BY <3>1, <3>2 DEF History!Standing
      <4> HIDE DEF k, n, line
      <4> QED BY <2>1, <2>4, <2>5, <3>1, <4>1 DEF History!Stands, line
    <3>3. CASE open' = History!Newest(Append(open, n))
      <4>1. open' # <<>> /\ open'[1] >= k
        <5>1. /\ Append(open, n) \in Seq(Nat) /\ Len(Append(open, n)) = Len(open) + 1
              /\ \A i \in 1..(Len(open) + 1) : Append(open, n)[i] >= k
          <6> HIDE DEF open, n
          <6> QED BY <2>1, <2>2, <2>3
        <5> DEFINE w == Append(open, n)
        <5>2. w \in Seq(Nat) /\ Len(w) = Len(open) + 1 /\ Len(open) \in Nat
          BY <2>2, <5>1
        <5>3. \A i \in 1..Len(w) : w[i] >= k
          BY <5>1, <5>2
        <5> HIDE DEF w
        <5>4. CASE Len(w) > SnapshotDepth
          <6>1. Len(w) >= 2 /\ open' = Tail(w)
            BY <3>3, <5>2, <5>4, RingAssumption DEF History!Newest, w
          <6>2. Tail(w) # <<>> /\ Tail(w)[1] = w[2] /\ 2 \in 1..Len(w)
            BY <5>2, <6>1, TailKeepsSecond
          <6> QED BY <5>3, <6>1, <6>2
        <5>5. CASE ~ (Len(w) > SnapshotDepth)
          <6>1. open' = w
            BY <3>3, <5>5 DEF History!Newest, w
          <6>2. w # <<>> /\ 1 \in 1..Len(w)
            BY <5>2
          <6> QED BY <5>3, <6>1, <6>2
        <5> QED BY <5>4, <5>5
      <4>2. History!Standing' >= k
        BY <4>1 DEF History!Standing
      <4> HIDE DEF k
      <4> QED BY <2>5, <3>1, <4>2 DEF History!Stands
    <3> QED BY <2>6, <3>2, <3>3
  <2>7. CASE History!TakeBack
    <3> DEFINE m == open[Len(open)]
    <3>1. /\ open # <<>> /\ line' = SubSeq(line, 1, m)
          /\ open' = SubSeq(open, 1, Len(open) - 1)
      BY <2>7 DEF History!TakeBack
    <3>2. Len(open) \in 1..Len(open) /\ m \in 0..n /\ k \in 0..m
      <4> HIDE DEF n
      <4> QED BY <2>1, <2>2, <2>3, <3>1
    <3>3. SubSeq(line', 1, k) = SubSeq(line, 1, k) /\ Len(line') = m
      <4> HIDE DEF k, m, line
      <4> QED BY <2>1, <3>1, <3>2, Begins DEF n
    <3>4. History!Standing' = k
      <4>1. CASE Len(open) = 1
        <5>1. open' = <<>> /\ m = k
          <6> HIDE DEF open
          <6> QED BY <2>2, <3>1, <4>1
        <5> QED BY <3>3, <5>1 DEF History!Standing
      <4>2. CASE Len(open) # 1
        <5>1. open' # <<>> /\ open'[1] = open[1]
          <6> HIDE DEF open
          <6>1. open \in Seq(Nat) /\ Len(open) \in Nat /\ Len(open) # 0
            BY <2>2, <3>1
          <6>2. Len(open) >= 2
            <7>1. \A l \in Nat : l # 0 /\ l # 1 => l >= 2
              OBVIOUS
            <7> QED BY <4>2, <6>1, <7>1
          <6> QED BY <3>1, <6>1, <6>2, FrontKeepsFirst
        <5> QED BY <3>1, <5>1 DEF History!Standing
      <4> QED BY <4>1, <4>2
    <3> HIDE DEF k
    <3> QED BY <2>4, <2>5, <3>3, <3>4 DEF History!Stands
  <2>8. CASE History!Play \/ History!External \/ History!Remove
    <3>1. PICK c \in CommitRecord :
             /\ line' = Append(line, c)
             /\ \/ open' = open \/ open' = <<>>
                \/ open' = History!Newest(Append(open, n))
      BY <2>8 DEF History!Play, History!External, History!Remove
    <3> HIDE DEF line, open, n
    <3> QED BY <2>6, <3>1
  <2> QED BY <2>7, <2>8 DEF History!TNext
<1>2. Spec => []IInv
  BY IInvAlways
<1>3. Spec => [][History!TNext]_(History!tvars)
  BY RefinesTimeline DEF KeepsTimeline, History!TSpec
<1> QED BY <1>1, <1>2, <1>3, PTL DEF History!StandsForGood
=============================================================================
