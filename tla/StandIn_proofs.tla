--------------------------- MODULE StandIn_proofs ---------------------------
(***************************************************************************)
(* The seat's mark and the lobby's entry agree, and the first answer to    *)
(* the away offer counts, for any number of requests, presses of the       *)
(* take-back, archivings, restarts and runners; and a marked seat of a     *)
(* table in play is played, if none is unarchived while it still closes.   *)
(***************************************************************************)
EXTENDS StandIn, TLAPS

Answering == {"deciding", "movable", "handing over"}
Stages == Answering \cup {"idle", "stopping", "stop wait", "registering", "taking back",
                          "take wait", "closing", "close wait"}

(* The inductive invariant.  Only an answer is in the course of one, and   *)
(* it holds answerMu; ...                                                  *)
OneAnswer ==
    /\ \A p \in Procs : at[p] \in Answering => p \in Deciders
    /\ \A d \in Deciders : at[d] # "idle" => answerMu = d

(* ... the lobby's lock is held across a hand-over, and the mark differs   *)
(* from the entry in there only; ...                                       *)
Marked ==
    /\ \A p \in Procs : at[p] = "handing over" => lobbyMu = p
    /\ lobbyMu # None => lobbyMu \in Procs /\ at[lobbyMu] = "handing over" /\ mark /\ ~entry
    /\ MarkIsRecorded

(* ... an absence that was answered shows it, in a concession that no undo *)
(* can take back for one, and a request that got past movable has found    *)
(* that it was not.                                                        *)
Gone == eliminated /\ FALSE \notin past
Unanswered ==
    /\ answered => snoozed \/ entry \/ Gone
    /\ \A p \in Procs : /\ at[p] \in Answering => ~entry
                        /\ at[p] \in {"movable", "handing over"} => ~answered

IInv == TypeOK /\ OneAnswer /\ Marked /\ Unanswered

(* The types, by who keeps what.                                           *)
FlagsOK == /\ active \in BOOLEAN /\ archived \in BOOLEAN /\ answered \in BOOLEAN
           /\ away \in BOOLEAN /\ snoozed \in BOOLEAN /\ eliminated \in BOOLEAN
           /\ past \subseteq BOOLEAN /\ rewound \in BOOLEAN
SeatOK == /\ entry \in BOOLEAN /\ mark \in BOOLEAN /\ row \in BOOLEAN
          /\ answerMu \in Deciders \cup {None} /\ lobbyMu \in Deciders \cup {None}
          /\ at \in [Procs -> Stages]
BotsOK == /\ found \in [Procs -> Runners \cup {None}]
          /\ runner \in [Runners -> {"off", "between", "chose"}]
          /\ cancelled \subseteq Runners /\ standIns \in Runners \cup {None}
          /\ unserved \in BOOLEAN

(* They make the type invariant up.                                        *)
LEMMA TypeParts == /\ TypeOK <=> FlagsOK /\ SeatOK /\ BotsOK
                   /\ TypeOK' <=> FlagsOK' /\ SeatOK' /\ BotsOK'
<1>1. Stages = {"idle", "deciding", "movable", "handing over", "stopping", "stop wait",
                "registering", "taking back", "take wait", "closing", "close wait"}
  BY DEF Stages, Answering
<1> QED BY <1>1 DEF TypeOK, FlagsOK, SeatOK, BotsOK

(* A step that moves a request from one stage to another moves no other.   *)
LEMMA Moves ==
    ASSUME TypeOK, NEW p \in Procs, NEW s \in Stages, Go(p, s)
    PROVE  /\ at' \in [Procs -> Stages] /\ at'[p] = s
           /\ \A q \in Procs \ {p} : at'[q] = at[q]
BY DEF TypeOK, Go, Stages, Answering

(* The holder of a lock is somebody.                                       *)
LEMMA Somebody == None \notin Procs
BY ActorsAssumption

-----------------------------------------------------------------------------
(* A step that leaves the lobby and its requests alone: it may end an      *)
(* absence, or a wait decided for it.                                      *)
LEMMA Elsewhere ==
    ASSUME IInv, UNCHANGED <<seat, locks, at>>, FlagsOK', BotsOK',
           answered' => answered, answered' /\ snoozed => snoozed', Gone => Gone'
    PROVE  IInv'
<1> USE DEF IInv, seat, locks
<1>3. TypeOK'
  BY TypeParts DEF SeatOK
<1>1. OneAnswer' /\ Marked'
  BY DEF OneAnswer, Marked, MarkIsRecorded
<1>2. Unanswered'
  BY DEF Unanswered
<1> QED BY <1>1, <1>2, <1>3

(* The player and the game.                                                *)
LEMMA PlayerStep ==
    ASSUME IInv
    PROVE  Leaves \/ Returns \/ SnoozeEnds \/ OthersPlay \/ Undo => IInv'
<1> USE DEF IInv, game, table, player, seat, locks, bots, Gone
<1>1. CASE Leaves
  <2>1. FlagsOK' /\ BotsOK'
    BY <1>1, TypeParts DEF Leaves, FlagsOK, BotsOK
  <2> QED BY <1>1, <2>1, Elsewhere DEF Leaves
<1>2. CASE Returns
  <2>1. FlagsOK' /\ BotsOK'
    BY <1>2, TypeParts DEF Returns, FlagsOK, BotsOK
  <2> QED BY <1>2, <2>1, Elsewhere DEF Returns
<1>3. CASE SnoozeEnds
  <2>1. FlagsOK' /\ BotsOK'
    BY <1>3, TypeParts DEF SnoozeEnds, FlagsOK, BotsOK
  <2> QED BY <1>3, <2>1, Elsewhere DEF SnoozeEnds
<1>4. CASE OthersPlay
  <2>1. FlagsOK' /\ BotsOK'
    BY <1>4, TypeParts DEF OthersPlay, FlagsOK, BotsOK
  <2>2. Gone => Gone'
    <3>1. eliminated' \in {eliminated, TRUE} /\ past' \subseteq past \cup {eliminated}
      BY <1>4 DEF OthersPlay
    <3> QED BY <3>1
  <2>3. UNCHANGED <<seat, locks, at, answered, snoozed>>
    BY <1>4 DEF OthersPlay
  <2> QED BY <2>1, <2>2, <2>3, Elsewhere
<1>5. CASE Undo
  <2>1. FlagsOK' /\ BotsOK'
    BY <1>5, TypeParts DEF Undo, FlagsOK, BotsOK
  <2>2. Gone => Gone'
    <3>1. past # {} /\ past \subseteq BOOLEAN /\ past' \subseteq past
      BY <1>5, TypeParts DEF Undo, FlagsOK
    <3>2. eliminated' = (TRUE \in past)
      BY <1>5 DEF Undo
    <3> QED BY <3>1, <3>2
  <2> QED BY <1>5, <2>1, <2>2, Elsewhere DEF Undo
<1> QED BY <1>1, <1>2, <1>3, <1>4, <1>5

(* A runner chooses, commits, concedes, is refused or ends.                *)
LEMMA RunnerStep ==
    ASSUME IInv, NEW r \in Runners
    PROVE  Runs(r) => IInv'
<1> USE DEF IInv, game, table, player, seat, locks, bots, Gone
<1>1. CASE Chooses(r)
  <2>1. FlagsOK' /\ BotsOK'
    BY <1>1, TypeParts DEF Chooses, FlagsOK, BotsOK
  <2> QED BY <1>1, <2>1, Elsewhere DEF Chooses
<1>2. CASE Commits(r)
  <2>1. FlagsOK' /\ BotsOK'
    BY <1>2, TypeParts DEF Commits, Plays, FlagsOK, BotsOK
  <2> QED BY <1>2, <2>1, Elsewhere DEF Commits, Plays
<1>3. CASE Concedes(r)
  <2>1. FlagsOK' /\ BotsOK'
    BY <1>3, TypeParts DEF Concedes, Plays, FlagsOK, BotsOK
  <2> QED BY <1>3, <2>1, Elsewhere DEF Concedes, Plays
<1>4. CASE Exits(r)
  <2>1. FlagsOK' /\ BotsOK'
    BY <1>4, TypeParts DEF Exits, FlagsOK, BotsOK
  <2> QED BY <1>4, <2>1, Elsewhere DEF Exits
<1>5. CASE Refused(r)
  <2>1. FlagsOK' /\ BotsOK'
    BY <1>5, TypeParts DEF Refused, FlagsOK, BotsOK
  <2> QED BY <1>5, <2>1, Elsewhere DEF Refused
<1> QED BY <1>1, <1>2, <1>3, <1>4, <1>5 DEF Runs

(* An answer, from the lock it takes to the hand-over it records.          *)
LEMMA AnswerStep ==
    ASSUME IInv, NEW d \in Procs
    PROVE  (d \in Deciders /\ BeginAnswer(d)) \/ Answers(d) => IInv'
<1> USE DEF IInv, game, table, player, seat, locks, bots, Gone
<1>1. d # None
  BY Somebody
<1>2. CASE d \in Deciders /\ BeginAnswer(d)
  <2>1. /\ at' \in [Procs -> Stages] /\ at'[d] = "deciding"
        /\ \A q \in Procs \ {d} : at'[q] = at[q]
    BY <1>2, Moves DEF BeginAnswer, Stages, Answering
  <2>2. \A q \in Deciders : at[q] = "idle"
    BY <1>2, ActorsAssumption DEF BeginAnswer, OneAnswer, Procs
  <2>3. TypeOK'
    <3>1. FlagsOK'
      BY <1>2, TypeParts DEF BeginAnswer, FlagsOK
    <3>2. BotsOK'
      BY <1>2, TypeParts DEF BeginAnswer, BotsOK
    <3>3. SeatOK'
      BY <1>2, <2>1, TypeParts DEF BeginAnswer, SeatOK
    <3> QED BY <3>1, <3>2, <3>3, TypeParts
  <2>4. OneAnswer'
    BY <1>2, <2>1, <2>2 DEF BeginAnswer, OneAnswer, Procs, Answering
  <2>5. Marked'
    BY <1>2, <2>1 DEF BeginAnswer, Marked, MarkIsRecorded
  <2>6. Unanswered'
    BY <1>2, <2>1, <2>2 DEF BeginAnswer, Unanswered, OneAnswer, Answering
  <2> QED BY <2>3, <2>4, <2>5, <2>6
<1>3. ASSUME NEW s \in Stages, Go(d, s), at[d] \in Answering,
             s \in Answering \cup {"idle", "stopping"},
             answerMu' = IF s = "idle" THEN None ELSE answerMu
      PROVE  OneAnswer'
  <2>1. d \in Deciders /\ answerMu = d
    BY <1>3 DEF OneAnswer, Answering
  <2>2. /\ at'[d] = s /\ \A q \in Procs \ {d} : at'[q] = at[q]
    BY <1>3, Moves
  <2>3. \A q \in Deciders \ {d} : at[q] = "idle"
    BY <2>1 DEF OneAnswer
  <2> QED BY <1>3, <2>1, <2>2, <2>3 DEF OneAnswer, Procs
<1>4. ASSUME EndAnswer(d), at[d] \in Answering
      PROVE  answerMu' = None /\ Go(d, "idle")
  BY <1>4 DEF EndAnswer, OneAnswer, Answering
<1>5. CASE FindMovable(d)
  <2>1. /\ at' \in [Procs -> Stages] /\ at'[d] = "movable"
        /\ \A q \in Procs \ {d} : at'[q] = at[q]
    BY <1>5, Moves DEF FindMovable, Stages, Answering
  <2>2. TypeOK'
    <3>1. FlagsOK'
      BY <1>5, TypeParts DEF FindMovable, FlagsOK
    <3>2. BotsOK'
      BY <1>5, TypeParts DEF FindMovable, BotsOK
    <3>3. SeatOK'
      BY <1>5, <2>1, TypeParts DEF FindMovable, SeatOK
    <3> QED BY <3>1, <3>2, <3>3, TypeParts
  <2>3. OneAnswer'
    BY <1>3, <1>5 DEF FindMovable, Stages, Answering
  <2>4. Marked'
    BY <1>5, <2>1 DEF FindMovable, Marked, MarkIsRecorded
  <2>5. Unanswered'
    BY <1>5, <2>1 DEF FindMovable, Unanswered, Answering
  <2> QED BY <2>2, <2>3, <2>4, <2>5
<1>6. CASE Refuse(d) \/ AnswerWait(d) \/ AnswerConcede(d)
  <2>1. /\ at[d] \in {"deciding", "movable"} /\ EndAnswer(d)
        /\ UNCHANGED <<seat, lobbyMu, found, bots>>
    BY <1>6 DEF Refuse, AnswerWait, AnswerConcede
  <2>2. answerMu' = None /\ Go(d, "idle")
    BY <1>4, <2>1 DEF Answering
  <2>3. /\ at' \in [Procs -> Stages] /\ at'[d] = "idle"
        /\ \A q \in Procs \ {d} : at'[q] = at[q]
    BY <2>2, Moves DEF Stages
  <2>4. \A q \in Procs : at'[q] \notin Answering
    BY <2>1, <2>3 DEF OneAnswer, Answering
  <2>5. TypeOK'
    <3>1. /\ snoozed' \in BOOLEAN /\ eliminated' \in BOOLEAN /\ answered' \in BOOLEAN
          /\ active' \in BOOLEAN /\ past' \subseteq BOOLEAN /\ UNCHANGED <<rewound, archived, away>>
      <4>1. CASE Refuse(d)
        BY <4>1 DEF Refuse, TypeOK
      <4>2. CASE AnswerWait(d)
        BY <4>2 DEF AnswerWait, TypeOK
      <4>3. CASE AnswerConcede(d)
        BY <4>3 DEF AnswerConcede, TypeOK
      <4> QED BY <1>6, <4>1, <4>2, <4>3
    <3> QED BY <2>1, <2>2, <2>3, <3>1 DEF TypeOK, Stages, Answering
  <2>6. OneAnswer'
    BY <1>3, <2>1, <2>2 DEF Stages, Answering
  <2>7. Marked'
    BY <2>1, <2>3 DEF Marked, MarkIsRecorded
  <2>8. Unanswered'
    <3>1. answered' => snoozed' \/ entry' \/ Gone'
      <4>1. CASE Refuse(d)
        BY <4>1 DEF Refuse, Unanswered
      <4>2. CASE AnswerWait(d)
        BY <4>2 DEF AnswerWait, Unanswered
      <4>3. CASE AnswerConcede(d)
        BY <4>3 DEF AnswerConcede, Unanswered
      <4> QED BY <1>6, <4>1, <4>2, <4>3
    <3> QED BY <2>4, <3>1 DEF Unanswered, Answering
  <2> QED BY <2>5, <2>6, <2>7, <2>8
<1>7. CASE MarkSeat(d)
  <2>1. /\ at' \in [Procs -> Stages] /\ at'[d] = "handing over"
        /\ \A q \in Procs \ {d} : at'[q] = at[q]
    BY <1>7, Moves DEF MarkSeat, Stages, Answering
  <2>2. d \in Deciders /\ \A q \in Procs : at[q] # "handing over"
    BY <1>1, <1>7 DEF MarkSeat, OneAnswer, Marked, Answering
  <2>3. TypeOK'
    <3>1. FlagsOK'
      BY <1>7, TypeParts DEF MarkSeat, FlagsOK
    <3>2. BotsOK'
      BY <1>7, TypeParts DEF MarkSeat, BotsOK
    <3>3. SeatOK'
      BY <1>7, <2>1, <2>2, TypeParts DEF MarkSeat, SeatOK
    <3> QED BY <3>1, <3>2, <3>3, TypeParts
  <2>4. OneAnswer'
    BY <1>3, <1>7 DEF MarkSeat, Stages, Answering
  <2>5. Marked'
    BY <1>1, <1>7, <2>1, <2>2 DEF MarkSeat, Marked, MarkIsRecorded
  <2>6. Unanswered'
    BY <1>7, <2>1 DEF MarkSeat, Unanswered, Answering
  <2> QED BY <2>3, <2>4, <2>5, <2>6
<1>8. CASE HandOver(d)
  <2> DEFINE s == IF active THEN "stopping" ELSE "idle"
  <2>1. at[d] = "handing over" /\ lobbyMu = d /\ lobbyMu' = None
    BY <1>8 DEF HandOver, Marked
  <2>2. Go(d, s) /\ answerMu' = IF s = "idle" THEN None ELSE answerMu
    BY <1>4, <1>8, <2>1 DEF HandOver, Answering
  <2>3. /\ at' \in [Procs -> Stages] /\ at'[d] = s
        /\ \A q \in Procs \ {d} : at'[q] = at[q]
    BY <2>2, Moves DEF Stages
  <2>4. \A q \in Procs : at'[q] \notin Answering
    BY <2>1, <2>3 DEF OneAnswer, Answering
  <2>5. TypeOK'
    <3>1. FlagsOK'
      BY <1>8, TypeParts DEF HandOver, FlagsOK
    <3>2. BotsOK'
      BY <1>8, TypeParts DEF HandOver, BotsOK
    <3>3. SeatOK'
      BY <1>8, <2>2, <2>3, TypeParts DEF HandOver, SeatOK
    <3> QED BY <3>1, <3>2, <3>3, TypeParts
  <2>6. OneAnswer'
    BY <1>3, <2>1, <2>2 DEF Stages, Answering
  <2>7. Marked'
    <3>1. mark' <=> entry'
      BY <1>8, <2>1, Somebody DEF HandOver, Marked
    <3> QED BY <2>1, <2>4, <3>1 DEF Marked, MarkIsRecorded, Answering
  <2>8. Unanswered'
    BY <1>8, <2>4 DEF HandOver, Unanswered, Answering
  <2> QED BY <2>5, <2>6, <2>7, <2>8
<1> QED BY <1>2, <1>5, <1>6, <1>7, <1>8 DEF Answers

(* A request past its answer moves on, and gives answerMu back if it holds *)
(* it and is done.                                                         *)
LEMMA Onward ==
    ASSUME IInv, NEW p \in Procs, NEW s \in Stages \ Answering, Go(p, s),
           at[p] \notin Answering \cup {"idle"},
           UNCHANGED <<table, player, seat, lobbyMu, answered>>,
           answerMu' = answerMu \/ (answerMu' = None /\ answerMu = p /\ s = "idle"),
           BotsOK'
    PROVE  IInv'
<1> USE DEF IInv, game, table, player, seat, Gone
<1>1. /\ at' \in [Procs -> Stages] /\ at'[p] = s
      /\ \A q \in Procs \ {p} : at'[q] = at[q]
  BY Moves
<1>2. TypeOK'
  <2>1. FlagsOK' /\ SeatOK'
    BY <1>1, TypeParts DEF FlagsOK, SeatOK
  <2> QED BY <2>1, TypeParts
<1>3. OneAnswer'
  BY <1>1 DEF OneAnswer, Answering, Procs
<1>4. Marked'
  BY <1>1 DEF Marked, MarkIsRecorded, Answering
<1>5. Unanswered'
  BY <1>1 DEF Unanswered, Answering
<1> QED BY <1>2, <1>3, <1>4, <1>5

(* The requests stop and start runners without a word to the lobby.        *)
LEMMA BotsStep ==
    ASSUME IInv, NEW p \in Procs
    PROVE  StopStandIn(p) \/ StartFails(p) \/ StartRunner(p) \/ RegisterRunner(p) \/ BotsStopped(p)
             => IInv'
<1> USE DEF IInv, locks, bots
<1>1. CASE StopStandIn(p)
  <2>1. PICK s \in {"stop wait", "take wait", "close wait"} : Go(p, s)
    BY <1>1 DEF StopStandIn
  <2>2. BotsOK'
    BY <1>1, TypeParts DEF StopStandIn, BotsOK
  <2> QED BY <1>1, <2>1, <2>2, Onward DEF StopStandIn, Stages, Answering
<1>2. CASE StartRunner(p)
  <2>1. PICK r \in Runners : /\ runner' = [runner EXCEPT ![r] = "between"]
                             /\ found' = [found EXCEPT ![p] = r]
    BY <1>2 DEF StartRunner
  <2>2. UNCHANGED <<cancelled, standIns, unserved>>
    BY <1>2 DEF StartRunner
  <2>3. BotsOK'
    BY <2>1, <2>2, TypeParts DEF BotsOK
  <2> QED BY <1>2, <2>3, Onward DEF StartRunner, Stages, Answering
<1>3. CASE RegisterRunner(p)
  <2>1. BotsOK'
    BY <1>3, TypeParts DEF RegisterRunner, BotsOK
  <2>2. Go(p, "idle") /\ (answerMu' = answerMu \/ (answerMu' = None /\ answerMu = p))
    BY <1>3 DEF RegisterRunner, EndAnswer
  <2> QED BY <1>3, <2>1, <2>2, Onward DEF RegisterRunner, Stages, Answering
<1>4. CASE BotsStopped(p)
  <2>1. BotsOK'
    BY <1>4, TypeParts DEF BotsStopped, BotsOK
  <2> QED BY <1>4, <2>1, Onward DEF BotsStopped, Stages, Answering
<1>5. CASE StartFails(p)
  <2>1. BotsOK'
    BY <1>5, TypeParts DEF StartFails, BotsOK
  <2>2. Go(p, "idle") /\ (answerMu' = answerMu \/ (answerMu' = None /\ answerMu = p))
    BY <1>5 DEF StartFails, EndAnswer
  <2> QED BY <1>5, <2>1, <2>2, Onward DEF StartFails, Stages, Answering
<1> QED BY <1>1, <1>2, <1>3, <1>4, <1>5

(* A press of the take-back.                                               *)
LEMMA PressStep ==
    ASSUME IInv, NEW p \in Procs
    PROVE  (p \in Presses /\ PressTakeBack(p)) \/ FinishTakeBack(p) => IInv'
<1> USE DEF IInv, game, table, player, seat, locks, bots, Gone
<1>1. CASE p \in Presses /\ PressTakeBack(p)
  <2>1. /\ at' \in [Procs -> Stages] /\ at'[p] = "taking back"
        /\ \A q \in Procs \ {p} : at'[q] = at[q]
    BY <1>1, Moves DEF PressTakeBack, Stages
  <2>2. p \notin Deciders
    BY <1>1, ActorsAssumption
  <2>3. TypeOK'
    <3>1. FlagsOK'
      BY <1>1, TypeParts DEF PressTakeBack, FlagsOK
    <3>2. BotsOK'
      BY <1>1, TypeParts DEF PressTakeBack, BotsOK
    <3>3. SeatOK'
      BY <1>1, <2>1, TypeParts DEF PressTakeBack, SeatOK
    <3> QED BY <3>1, <3>2, <3>3, TypeParts
  <2>4. OneAnswer'
    BY <1>1, <2>1, <2>2 DEF PressTakeBack, OneAnswer, Answering, Procs
  <2>5. Marked' /\ Unanswered'
    BY <1>1, <2>1 DEF PressTakeBack, Marked, MarkIsRecorded, Unanswered, Answering
  <2> QED BY <2>3, <2>4, <2>5
<1>2. CASE FinishTakeBack(p)
  <2>1. /\ at' \in [Procs -> Stages] /\ at'[p] = "idle"
        /\ \A q \in Procs \ {p} : at'[q] = at[q]
    BY <1>2, Moves DEF FinishTakeBack, Stages
  <2>2. TypeOK'
    <3>1. FlagsOK'
      BY <1>2, TypeParts DEF FinishTakeBack, FlagsOK
    <3>2. BotsOK'
      BY <1>2, TypeParts DEF FinishTakeBack, BotsOK
    <3>3. SeatOK'
      BY <1>2, <2>1, TypeParts DEF FinishTakeBack, SeatOK
    <3> QED BY <3>1, <3>2, <3>3, TypeParts
  <2>3. OneAnswer'
    BY <1>2, <2>1 DEF FinishTakeBack, OneAnswer, Answering, Procs
  <2>4. mark' <=> entry'
    BY <1>2 DEF FinishTakeBack, Marked, MarkIsRecorded
  <2>5. Marked'
    BY <1>2, <2>1, <2>4 DEF FinishTakeBack, Marked, MarkIsRecorded
  <2>6. Unanswered'
    BY <1>2, <2>1 DEF FinishTakeBack, Unanswered, Answering
  <2> QED BY <2>2, <2>3, <2>5, <2>6
<1> QED BY <1>1, <1>2

(* An archiving, an unarchiving, and a boot.                               *)
LEMMA AdminStep ==
    ASSUME IInv, NEW p \in Procs, p \in Admins
    PROVE  Archive(p) \/ Unarchive(p) \/ Restart(p) => IInv'
<1> USE DEF IInv, game, table, player, seat, locks, bots, Gone
<1>1. p \notin Deciders
  BY ActorsAssumption
<1>2. CASE Archive(p) \/ Unarchive(p)
  <2>1. /\ at' \in [Procs -> Stages] /\ at'[p] \in {"idle", "stopping", "closing"}
        /\ \A q \in Procs \ {p} : at'[q] = at[q]
    BY <1>2, Moves DEF Archive, Unarchive, Stages, TypeOK, Answering
  <2>2. TypeOK'
    <3>1. FlagsOK'
      BY <1>2, TypeParts DEF Archive, Unarchive, FlagsOK
    <3>2. BotsOK'
      BY <1>2, TypeParts DEF Archive, Unarchive, BotsOK
    <3>3. SeatOK'
      BY <1>2, <2>1, TypeParts DEF Archive, Unarchive, SeatOK
    <3> QED BY <3>1, <3>2, <3>3, TypeParts
  <2>3. UNCHANGED <<game, player, seat, locks, answered>> /\ at[p] = "idle"
    BY <1>2 DEF Archive, Unarchive
  <2>4. OneAnswer'
    BY <1>1, <2>1, <2>3 DEF OneAnswer, Answering, Procs
  <2>5. Marked' /\ Unanswered'
    BY <2>1, <2>3 DEF Marked, MarkIsRecorded, Unanswered, Answering
  <2> QED BY <2>2, <2>4, <2>5
<1>3. CASE Restart(p)
  <2>1. at' \in [Procs -> {"idle", "stopping"}] /\ \A q \in Deciders : at'[q] = "idle"
    BY <1>1, <1>3 DEF Restart, Procs
  <2>2. TypeOK'
    BY <1>3, <2>1 DEF Restart, TypeOK
  <2>3. OneAnswer' /\ Marked' /\ Unanswered'
    BY <1>3, <2>1 DEF Restart, OneAnswer, Marked, MarkIsRecorded, Unanswered, Answering, Procs
  <2> QED BY <2>2, <2>3
<1> QED BY <1>2, <1>3

-----------------------------------------------------------------------------
(* The invariant holds of a seat its player has been given.                *)
LEMMA InitHolds == Init => IInv
<1> SUFFICES ASSUME Init PROVE IInv
  OBVIOUS
<1>1. TypeOK
  BY DEF Init, TypeOK
<1>2. OneAnswer /\ Marked /\ Unanswered
  BY DEF Init, OneAnswer, Marked, MarkIsRecorded, Unanswered, Answering, Procs
<1> QED BY <1>1, <1>2 DEF IInv

(* Every step of a request, a runner, the game or the player preserves it. *)
LEMMA StepHolds == IInv /\ [Next]_vars => IInv'
<1> SUFFICES ASSUME IInv, [Next]_vars PROVE IInv'
  OBVIOUS
<1>1. CASE UNCHANGED vars
  <2> USE <1>1 DEF vars, game, table, player, seat, locks, bots, Gone
  <2>1. FlagsOK' /\ BotsOK'
    BY TypeParts DEF IInv, FlagsOK, BotsOK
  <2> QED BY <2>1, Elsewhere
<1>2. CASE Leaves \/ Returns \/ SnoozeEnds \/ OthersPlay \/ Undo
  BY <1>2, PlayerStep
<1>7. ASSUME NEW r \in Runners, Runs(r) PROVE IInv'
  BY <1>7, RunnerStep
<1>3. ASSUME NEW d \in Deciders, BeginAnswer(d) PROVE IInv'
  BY <1>3, AnswerStep DEF Procs
<1>4. ASSUME NEW p \in Presses, PressTakeBack(p) PROVE IInv'
  BY <1>4, PressStep DEF Procs
<1>5. ASSUME NEW p \in Admins, Archive(p) \/ Unarchive(p) \/ Restart(p) PROVE IInv'
  BY <1>5, AdminStep DEF Procs
<1>6. ASSUME NEW p \in Procs, Finishes(p) PROVE IInv'
  BY <1>6, AnswerStep, BotsStep, PressStep DEF Finishes
<1> QED BY <1>1, <1>2, <1>3, <1>4, <1>5, <1>6, <1>7 DEF Next

(* It holds always.                                                        *)
LEMMA IInvAlways == Spec => []IInv
BY InitHolds, StepHolds, PTL DEF Spec

(* No stage, lock or runner outside what the requests may hold: a runner   *)
(* is cancelled or registered only if there is one (Manager.StopStandIn).  *)
THEOREM TypeCorrect == Spec => []TypeOK
<1>1. IInv => TypeOK
  BY DEF IInv
<1> QED BY <1>1, IInvAlways, PTL

(* The room's mark is the lobby's entry whenever no hand-over is under way *)
(* (Lobby.handOver, Lobby.TakeBack, adoptRestored).                        *)
THEOREM MarkIsRecordedAlways == Spec => []MarkIsRecorded
<1>1. IInv => MarkIsRecorded
  BY DEF IInv, Marked
<1> QED BY <1>1, IInvAlways, PTL

(* The first answer counts: none takes effect in an absence that has been  *)
(* answered (Lobby.AnswerAway and its answerMu).                           *)
THEOREM FirstAnswerWinsAlways == Spec => FirstAnswerWins
<1>1. ASSUME IInv, NEW d \in Deciders, Answers(d), Effective
      PROVE  ~answered
  <2> USE DEF game, table, player, seat, locks, bots, Effective
  <2>1. d \in Procs /\ Unanswered
    BY <1>1 DEF Procs, IInv
  <2>2. ~FindMovable(d) /\ ~Refuse(d) /\ ~MarkSeat(d)
    BY <1>1 DEF FindMovable, Refuse, MarkSeat
  <2>3. at[d] \in {"movable", "handing over"}
    BY <1>1, <2>2 DEF Answers, AnswerWait, AnswerConcede, HandOver
  <2> QED BY <2>1, <2>3 DEF Unanswered
<1>2. IInv /\ [Next]_vars => [(\E d \in Deciders : Answers(d)) /\ Effective => ~answered]_vars
  BY <1>1
<1> QED BY <1>2, IInvAlways, PTL DEF Spec, FirstAnswerWins
-----------------------------------------------------------------------------
(* A marked seat is played.  Nothing makes an unarchive wait for the bots  *)
(* of an archive to be stopped, and those that are stopped late may be the *)
(* ones it has started: no unarchive comes in between here.                *)
UnarchivesApart ==
    (\E p \in Admins : Unarchive(p)) => \A q \in Admins : at[q] \notin {"closing", "close wait"}
Under == {"handing over", "stopping", "stop wait", "registering", "take wait"}

(* A runner that serves the seat: it runs and was not told to stop, or it  *)
(* left since it had to, when the game or the seat was over.               *)
MayLeave == ~active \/ eliminated \/ rewound
Engaged(r) == r \in Runners \ cancelled /\ (runner[r] # "off" \/ MayLeave)

(* The inductive invariant: only a runner that runs is told to stop, and   *)
(* one that was started and not registered yet is known to its request     *)
(* alone, so no one can have stopped it; ...                               *)
Running == \A r \in cancelled : runner[r] # "off"
Started ==
    \A p \in Procs : at[p] = "registering" =>
        /\ Engaged(found[p]) /\ standIns # found[p]
        /\ \A q \in Procs \ {p} : found[q] # found[p]

(* ... who stops the table's bots has archived it; ...                     *)
Closing == \A p \in Procs : at[p] \in {"closing", "close wait"} => p \in Admins /\ archived

(* ... and a marked seat of a table not archived has a runner that serves  *)
(* it, or a request that is on its way to start one or to take the mark    *)
(* away, unless the last start that was due came to nothing.               *)
Served ==
    mark /\ ~archived => Engaged(standIns) \/ unserved \/ \E p \in Procs : at[p] \in Under

PInv == Running /\ Started /\ Closing /\ Served

(* A step that keeps the runners that serve, and moves requests among the  *)
(* stages where they owe the seat nothing.                                 *)
LEMMA Aside ==
    ASSUME PInv, UNCHANGED <<mark, archived, found, standIns, unserved>>, Running',
           \A r \in Runners : Engaged(r) => Engaged(r)',
           \A q \in Procs : \/ at'[q] = at[q]
                            \/ /\ at[q] \in {"idle", "deciding", "movable", "taking back"}
                               /\ at'[q] \in {"idle", "deciding", "movable", "taking back"}
    PROVE  PInv'
<1>1. ASSUME NEW q \in Procs, NEW s \in Under \cup {"closing", "close wait"}
      PROVE  at'[q] = s <=> at[q] = s
  BY <1>1 DEF Under
<1>2. ASSUME NEW r \in Runners, Engaged(r) PROVE Engaged(r)'
  BY <1>2
<1>3. Started'
  <2> SUFFICES ASSUME NEW p \in Procs, at'[p] = "registering"
               PROVE  /\ Engaged(found[p])' /\ standIns' # found'[p]
                      /\ \A q \in Procs \ {p} : found'[q] # found'[p]
    BY DEF Started
  <2>1. at[p] = "registering"
    BY <1>1 DEF Under
  <2>2. /\ Engaged(found[p]) /\ standIns # found[p]
        /\ \A q \in Procs \ {p} : found[q] # found[p]
    BY <2>1 DEF PInv, Started
  <2>3. found[p] \in Runners /\ found' = found
    BY <2>2 DEF Engaged
  <2> QED BY <1>2, <2>2, <2>3 DEF Engaged
<1>4. Closing'
  BY <1>1 DEF PInv, Closing
<1>5. Served'
  <2> SUFFICES ASSUME mark', ~archived', ~unserved', ~ \E p \in Procs : at'[p] \in Under
               PROVE  Engaged(standIns)'
    BY DEF Served
  <2>1. Engaged(standIns)
    BY <1>1 DEF PInv, Served, Under
  <2>2. standIns \in Runners /\ standIns' = standIns
    BY <2>1 DEF Engaged
  <2> QED BY <1>2, <2>1, <2>2 DEF Engaged
<1> QED BY <1>3, <1>4, <1>5 DEF PInv

(* The player, the game, the runners, and an answer up to its hand-over.   *)
LEMMA AsideStep ==
    ASSUME IInv, PInv
    PROVE  /\ Leaves \/ Returns \/ SnoozeEnds \/ OthersPlay \/ Undo => PInv'
           /\ \A r \in Runners : Runs(r) => PInv'
           /\ \A d \in Deciders : BeginAnswer(d) => PInv'
           /\ \A p \in Presses : PressTakeBack(p) => PInv'
           /\ \A p \in Procs : FindMovable(p) \/ Refuse(p) \/ AnswerWait(p) \/ AnswerConcede(p)
                                 => PInv'
<1> USE DEF game, table, player, seat, locks, bots
<1>0. /\ at \in [Procs -> Stages] /\ runner \in [Runners -> {"off", "between", "chose"}]
      /\ eliminated \in BOOLEAN /\ active \in BOOLEAN /\ rewound \in BOOLEAN
      /\ cancelled \subseteq Runners /\ Running
  BY TypeParts DEF IInv, SeatOK, BotsOK, FlagsOK, PInv
<1>1. CASE Leaves \/ Returns \/ SnoozeEnds \/ OthersPlay \/ Undo
  <2>1. UNCHANGED <<at, mark, archived, found, standIns, runner, cancelled, unserved>>
    BY <1>1 DEF Leaves, Returns, SnoozeEnds, OthersPlay, Undo
  <2>2. MayLeave => MayLeave'
    BY <1>0, <1>1 DEF Leaves, Returns, SnoozeEnds, OthersPlay, Undo, MayLeave
  <2>3. Running' /\ \A r \in Runners : Engaged(r) => Engaged(r)'
    BY <1>0, <2>1, <2>2 DEF Engaged, Running
  <2> QED BY <2>1, <2>3, Aside
<1>2. ASSUME NEW r \in Runners, Runs(r) PROVE PInv'
  <2>1. UNCHANGED <<at, mark, archived, found, standIns, unserved>>
    BY <1>2 DEF Runs, Chooses, Commits, Concedes, Refused, Exits, Plays
  <2>2. MayLeave => MayLeave'
    BY <1>0, <1>2 DEF Runs, Chooses, Commits, Concedes, Refused, Exits, Plays, MayLeave
  <2>3. CASE Chooses(r) \/ Commits(r) \/ Refused(r)
    <3>1. /\ cancelled' = cancelled
          /\ \A q \in Runners : runner[q] # "off" => runner'[q] # "off"
      BY <1>0, <2>3 DEF Chooses, Commits, Refused
    <3>2. Running' /\ \A q \in Runners : Engaged(q) => Engaged(q)'
      BY <1>0, <2>2, <3>1 DEF Engaged, Running
    <3> QED BY <2>1, <3>2, Aside
  <2>4. CASE Concedes(r) \/ Exits(r)
    <3>1. /\ cancelled' = cancelled \ {r}
          /\ \A q \in Runners \ {r} : runner'[q] = runner[q]
          /\ r \in cancelled \/ MayLeave'
      BY <1>0, <2>4 DEF Concedes, Exits, Plays, MayLeave
    <3>2. Running' /\ \A q \in Runners : Engaged(q) => Engaged(q)'
      BY <1>0, <2>2, <3>1 DEF Engaged, Running
    <3> QED BY <2>1, <3>2, Aside
  <2> QED BY <1>2, <2>3, <2>4 DEF Runs
<1>3. ASSUME NEW p \in Procs, NEW s \in {"idle", "deciding", "movable", "taking back"}, Go(p, s),
             at[p] \in {"idle", "deciding", "movable"},
             UNCHANGED <<mark, archived, found, bots>>, MayLeave => MayLeave'
      PROVE  PInv'
  <2>1. \A q \in Procs : at'[q] = IF q = p THEN s ELSE at[q]
    BY <1>0, <1>3 DEF Go
  <2>2. Running' /\ \A r \in Runners : Engaged(r) => Engaged(r)'
    BY <1>0, <1>3 DEF Engaged, Running
  <2>3. UNCHANGED <<standIns, unserved>>
    BY <1>3
  <2> QED BY <1>3, <2>1, <2>2, <2>3, Aside
<1>4. ASSUME NEW d \in Deciders, BeginAnswer(d) PROVE PInv'
  BY <1>3, <1>4 DEF BeginAnswer, Procs, MayLeave
<1>5. ASSUME NEW p \in Presses, PressTakeBack(p) PROVE PInv'
  BY <1>3, <1>5 DEF PressTakeBack, Procs, MayLeave
<1>6. ASSUME NEW p \in Procs, FindMovable(p) PROVE PInv'
  BY <1>3, <1>6 DEF FindMovable, MayLeave
<1>7. ASSUME NEW p \in Procs, Refuse(p) \/ AnswerWait(p) \/ AnswerConcede(p) PROVE PInv'
  <2>1. Go(p, "idle") /\ at[p] \in {"deciding", "movable"}
    BY <1>7 DEF Refuse, AnswerWait, AnswerConcede, EndAnswer
  <2>2. UNCHANGED <<mark, archived, found, bots>> /\ (MayLeave => MayLeave')
    BY <1>0, <1>7 DEF Refuse, AnswerWait, AnswerConcede, MayLeave
  <2> QED BY <1>3, <2>1, <2>2
<1> QED BY <1>1, <1>2, <1>4, <1>5, <1>6, <1>7

(* A request that starts on, or goes on with, what the seat waits for.     *)
LEMMA OnItsWay ==
    ASSUME PInv, NEW p \in Procs, NEW s \in Under, at'[p] = s, Running', Started',
           UNCHANGED archived, \A q \in Procs \ {p} : at'[q] = at[q]
    PROVE  PInv'
<1>1. Closing'
  BY DEF PInv, Closing, Under
<1>2. Served'
  BY DEF Served
<1> QED BY <1>1, <1>2 DEF PInv

(* The hand-over, and the runners that requests stop and start.            *)
LEMMA ServeStep ==
    ASSUME IInv, PInv, NEW p \in Procs
    PROVE  MarkSeat(p) \/ HandOver(p) \/ StopStandIn(p) \/ StartFails(p) \/ StartRunner(p)
             \/ RegisterRunner(p) => PInv'
<1> USE DEF game, table, player, seat, locks, bots
<1>0. /\ TypeOK /\ found \in [Procs -> Runners \cup {None}] /\ None \notin Runners
      /\ runner \in [Runners -> {"off", "between", "chose"}]
      /\ cancelled \subseteq Runners /\ standIns \in Runners \cup {None} /\ Running
  BY TypeParts, ActorsAssumption DEF IInv, BotsOK, PInv
<1>1. ASSUME NEW s \in Stages \ {"registering"}, Go(p, s), UNCHANGED <<table, found, bots>>
      PROVE  Running' /\ Started'
  <2>1. \A q \in Procs : at'[q] = "registering" => at[q] = "registering"
    BY <1>0, <1>1, Moves
  <2> QED BY <1>0, <1>1, <2>1 DEF PInv, Running, Started, Engaged, MayLeave
<1>2. CASE MarkSeat(p)
  <2>1. Go(p, "handing over") /\ UNCHANGED <<table, found, bots>>
    BY <1>2 DEF MarkSeat
  <2> QED BY <1>0, <1>1, <2>1, Moves, OnItsWay DEF Stages, Answering, Under
<1>3. CASE HandOver(p) /\ active
  <2>1. Go(p, "stopping") /\ UNCHANGED <<table, found, bots>>
    BY <1>3 DEF HandOver
  <2> QED BY <1>0, <1>1, <2>1, Moves, OnItsWay DEF Stages, Under
<1>4. CASE HandOver(p) /\ ~active
  <2>1. Go(p, "idle") /\ UNCHANGED <<table, found, bots>> /\ ~mark'
    BY <1>4 DEF HandOver, EndAnswer
  <2>2. Running' /\ Started' /\ Served'
    BY <1>1, <2>1 DEF Served, Stages
  <2>3. Closing'
    BY <1>0, <2>1, Moves DEF PInv, Closing, Stages
  <2> QED BY <2>2, <2>3 DEF PInv
<1>5. CASE StopStandIn(p)
  <2>1. /\ at[p] \in {"stopping", "taking back", "closing"}
        /\ Go(p, CASE at[p] = "stopping" -> "stop wait" [] at[p] = "taking back" -> "take wait"
                   [] OTHER -> "close wait")
        /\ found' = [found EXCEPT ![p] = standIns] /\ standIns' = None
        /\ cancelled' = cancelled \cup {r \in Runners : r = standIns /\ runner[r] # "off"}
        /\ UNCHANGED <<table, mark, runner, unserved>>
    BY <1>5 DEF StopStandIn
  <2>2. PICK s \in {"stop wait", "take wait", "close wait"} :
            Go(p, s) /\ (s = "close wait" <=> at[p] = "closing")
    BY <2>1
  <2>3. at'[p] = s /\ \A q \in Procs \ {p} : at'[q] = at[q]
    BY <1>0, <2>2, Moves DEF Stages
  <2>4. Running'
    BY <1>0, <2>1 DEF Running
  <2>5. Started'
    <3> SUFFICES ASSUME NEW q \in Procs, at'[q] = "registering"
                 PROVE  /\ Engaged(found[q])' /\ standIns' # found'[q]
                        /\ \A o \in Procs \ {q} : found'[o] # found'[q]
      BY DEF Started
    <3>1. q # p /\ at[q] = "registering"
      BY <2>3
    <3>2. /\ Engaged(found[q]) /\ standIns # found[q]
          /\ \A o \in Procs \ {q} : found[o] # found[q]
      BY <3>1 DEF PInv, Started
    <3>3. found'[q] = found[q] /\ \A o \in Procs : found'[o] = IF o = p THEN standIns ELSE found[o]
      BY <1>0, <2>1, <3>1
    <3>4. Engaged(found[q])'
      BY <1>0, <2>1, <3>2, <3>3 DEF Engaged, MayLeave
    <3>5. found[q] \in Runners
      BY <3>2 DEF Engaged
    <3> QED BY <1>0, <2>1, <3>2, <3>3, <3>4, <3>5
  <2>6. CASE at[p] # "closing"
    BY <2>1, <2>2, <2>3, <2>4, <2>5, <2>6, OnItsWay DEF Under
  <2>7. CASE at[p] = "closing"
    <3>1. p \in Admins /\ archived /\ archived'
      BY <2>1, <2>7 DEF PInv, Closing
    <3>2. Closing' /\ Served'
      BY <2>3, <3>1 DEF PInv, Closing, Served
    <3> QED BY <2>4, <2>5, <3>2 DEF PInv
  <2> QED BY <2>6, <2>7
<1>6. CASE StartRunner(p)
  <2>1. PICK r \in Runners :
          /\ runner[r] = "off" /\ r # standIns /\ \A q \in Procs \ {p} : found[q] # r
          /\ runner' = [runner EXCEPT ![r] = "between"]
          /\ found' = [found EXCEPT ![p] = r]
    BY <1>6 DEF StartRunner
  <2>2. /\ Go(p, "registering") /\ at[p] = "stop wait"
        /\ UNCHANGED <<table, standIns, cancelled, unserved>>
    BY <1>6 DEF StartRunner
  <2>3. at'[p] = "registering" /\ \A q \in Procs \ {p} : at'[q] = at[q]
    BY <1>0, <2>2, Moves DEF Stages
  <2>4. r \notin cancelled /\ found'[p] = r /\ \A q \in Procs \ {p} : found'[q] = found[q]
    BY <1>0, <2>1 DEF Running
  <2>5. Running' /\ Engaged(r)' /\ \A q \in Runners : Engaged(q) => Engaged(q)'
    BY <1>0, <2>1, <2>2, <2>4 DEF Engaged, MayLeave, Running
  <2>6. Started'
    <3> SUFFICES ASSUME NEW q \in Procs, at'[q] = "registering"
                 PROVE  /\ Engaged(found[q])' /\ standIns' # found'[q]
                        /\ \A o \in Procs \ {q} : found'[o] # found'[q]
      BY DEF Started
    <3>1. CASE q = p
      <4>1. Engaged(found[q])'
        BY <2>4, <2>5, <3>1 DEF Engaged
      <4> QED BY <2>1, <2>2, <2>4, <3>1, <4>1
    <3>2. CASE q # p
      <4>1. /\ Engaged(found[q]) /\ standIns # found[q]
            /\ \A o \in Procs \ {q} : found[o] # found[q]
        BY <2>3, <3>2 DEF PInv, Started
      <4>2. found[q] # r /\ found[q] \in Runners /\ found'[q] = found[q]
        BY <2>1, <2>4, <3>2, <4>1 DEF Engaged
      <4>3. Engaged(found[q])'
        BY <2>5, <4>1, <4>2 DEF Engaged
      <4> QED BY <2>2, <2>4, <3>2, <4>1, <4>2, <4>3
    <3> QED BY <3>1, <3>2
  <2> QED BY <2>2, <2>3, <2>5, <2>6, OnItsWay DEF Under
<1>7. CASE RegisterRunner(p) \/ StartFails(p)
  <2>1. /\ at[p] \in {"registering", "stop wait"} /\ found' = [found EXCEPT ![p] = None]
        /\ standIns' \in {standIns, found[p]}
        /\ Go(p, "idle") /\ UNCHANGED <<table, seat, runner, cancelled>>
    BY <1>7 DEF RegisterRunner, StartFails, EndAnswer
  <2>2. at'[p] = "idle" /\ \A q \in Procs \ {p} : at'[q] = at[q]
    BY <1>0, <2>1, Moves DEF Stages
  <2>3. found'[p] = None /\ \A q \in Procs \ {p} : found'[q] = found[q]
    BY <1>0, <2>1
  <2>4. Running' /\ \A r \in Runners : Engaged(r) => Engaged(r)'
    BY <1>0, <2>1 DEF Engaged, MayLeave, Running
  <2>5. Started'
    <3> SUFFICES ASSUME NEW q \in Procs, at'[q] = "registering"
                 PROVE  /\ Engaged(found[q])' /\ standIns' # found'[q]
                        /\ \A o \in Procs \ {q} : found'[o] # found'[q]
      BY DEF Started
    <3>1. q # p /\ at[q] = "registering"
      BY <2>2
    <3>2. /\ Engaged(found[q]) /\ standIns # found[q]
          /\ \A o \in Procs \ {q} : found[o] # found[q]
      BY <3>1 DEF PInv, Started
    <3>3. found[q] \in Runners /\ found'[q] = found[q]
      BY <2>3, <3>1, <3>2 DEF Engaged
    <3>4. Engaged(found[q])'
      BY <2>4, <3>2, <3>3 DEF Engaged
    <3> QED BY <1>0, <2>1, <2>3, <3>1, <3>2, <3>3, <3>4
  <2>6. Closing'
    BY <2>1, <2>2 DEF PInv, Closing
  <2>7. Served'
    <3>1. CASE StartFails(p)
      BY <3>1 DEF StartFails, Served
    <3>2. CASE RegisterRunner(p)
      <4>1. Engaged(found[p]) /\ standIns' = found[p]
        BY <3>2 DEF RegisterRunner, PInv, Started
      <4>2. Engaged(standIns)'
        BY <2>4, <4>1 DEF Engaged
      <4> QED BY <4>2 DEF Served
    <3> QED BY <1>7, <3>1, <3>2
  <2> QED BY <2>4, <2>5, <2>6, <2>7 DEF PInv
<1> QED BY <1>2, <1>3, <1>4, <1>5, <1>6, <1>7

(* A request that is done with the seat: the take-back that ends with the  *)
(* mark gone, the archiving that no one undoes before it is through.       *)
LEMMA DoneStep ==
    ASSUME IInv, PInv, UnarchivesApart, NEW p \in Procs
    PROVE  /\ FinishTakeBack(p) \/ BotsStopped(p) => PInv'
           /\ p \in Admins => (Archive(p) \/ Unarchive(p) \/ Restart(p) => PInv')
<1> USE DEF game, table, player, seat, locks, bots
<1>0. /\ TypeOK /\ found \in [Procs -> Runners \cup {None}] /\ None \notin Runners
      /\ None \notin Procs /\ Running
  BY TypeParts, ActorsAssumption DEF IInv, BotsOK, PInv
<1>1. ASSUME NEW s \in Stages \ {"registering"}, Go(p, s),
             UNCHANGED <<game, runner, cancelled, standIns>>,
             found' = found \/ found' = [found EXCEPT ![p] = None]
      PROVE  Running' /\ Started'
  <2>1. Running' /\ \A r \in Runners : Engaged(r) => Engaged(r)'
    BY <1>0, <1>1 DEF Engaged, MayLeave, Running
  <2>2. Started'
    <3> SUFFICES ASSUME NEW q \in Procs, at'[q] = "registering"
                 PROVE  /\ Engaged(found[q])' /\ standIns' # found'[q]
                        /\ \A o \in Procs \ {q} : found'[o] # found'[q]
      BY DEF Started
    <3>1. q # p /\ at[q] = "registering"
      BY <1>0, <1>1, Moves
    <3>2. /\ Engaged(found[q]) /\ standIns # found[q]
          /\ \A o \in Procs \ {q} : found[o] # found[q]
      BY <3>1 DEF PInv, Started
    <3>3. found'[q] = found[q] /\ \A o \in Procs : found'[o] \in {found[o], None}
      BY <1>0, <1>1, <3>1
    <3>4. found[q] \in Runners
      BY <3>2 DEF Engaged
    <3>5. Engaged(found[q])'
      BY <2>1, <3>2, <3>3, <3>4 DEF Engaged
    <3> QED BY <1>0, <1>1, <3>2, <3>3, <3>4, <3>5
  <2> QED BY <2>1, <2>2
<1>2. CASE FinishTakeBack(p)
  <2>1. Go(p, "idle") /\ UNCHANGED <<table, bots>> /\ found' = [found EXCEPT ![p] = None]
    BY <1>2 DEF FinishTakeBack
  <2>2. ~mark'
    BY <1>2 DEF FinishTakeBack, IInv, Marked, MarkIsRecorded, TypeOK
  <2>3. Running' /\ Started' /\ Served'
    BY <1>1, <2>1, <2>2 DEF Stages, Served
  <2>4. Closing'
    BY <1>0, <2>1, Moves DEF PInv, Closing, Stages
  <2> QED BY <2>3, <2>4 DEF PInv
<1>3. CASE BotsStopped(p)
  <2>1. /\ at[p] = "close wait" /\ Go(p, "idle") /\ UNCHANGED <<table, bots>>
        /\ found' = [found EXCEPT ![p] = None]
    BY <1>3 DEF BotsStopped
  <2>2. archived'
    BY <2>1 DEF PInv, Closing
  <2>3. Running' /\ Started' /\ Served'
    BY <1>1, <2>1, <2>2 DEF Stages, Served
  <2>4. Closing'
    BY <1>0, <2>1, Moves DEF PInv, Closing, Stages
  <2> QED BY <2>3, <2>4 DEF PInv
<1>4. CASE p \in Admins /\ Archive(p)
  <2>1. Go(p, "closing") /\ archived' /\ UNCHANGED <<game, bots, found>>
    BY <1>4 DEF Archive
  <2>2. Running' /\ Started' /\ Served'
    BY <1>1, <2>1 DEF Stages, Served
  <2>3. Closing'
    BY <1>0, <1>4, <2>1, Moves DEF PInv, Closing, Stages
  <2> QED BY <2>2, <2>3 DEF PInv
<1>5. CASE p \in Admins /\ Unarchive(p)
  <2>1. /\ at[p] = "idle" /\ lobbyMu = None /\ ~archived'
        /\ UNCHANGED <<game, seat, runner, cancelled, standIns, found>>
        /\ IF entry /\ active THEN Go(p, "stopping") ELSE UNCHANGED at
        /\ unserved' = (unserved \/ (entry /\ ~active))
    BY <1>5 DEF Unarchive
  <2>2. \A q \in Procs : at[q] \notin {"closing", "close wait"}
    BY <1>5 DEF PInv, Closing, UnarchivesApart
  <2>3. CASE entry /\ active
    <3>1. at'[p] = "stopping" /\ \A q \in Procs \ {p} : at'[q] = at[q]
      BY <1>0, <2>1, <2>3, Moves DEF Stages
    <3>2. Running' /\ Started'
      BY <1>1, <2>1, <2>3 DEF Stages
    <3>3. Closing' /\ Served'
      BY <2>2, <3>1 DEF Closing, Served, Under
    <3> QED BY <3>2, <3>3 DEF PInv
  <2>4. CASE ~(entry /\ active)
    <3>1. UNCHANGED <<at, game, mark, found, runner, cancelled, standIns>>
      BY <2>1, <2>4
    <3>2. ~mark' \/ unserved'
      BY <2>1, <2>4 DEF IInv, Marked, MarkIsRecorded, TypeOK
    <3>3. Running' /\ Started'
      BY <3>1 DEF PInv, Running, Started, Engaged, MayLeave
    <3>4. Closing' /\ Served'
      BY <2>2, <3>1, <3>2 DEF Closing, Served
    <3> QED BY <3>3, <3>4 DEF PInv
  <2> QED BY <2>3, <2>4
<1>6. CASE p \in Admins /\ Restart(p)
  <2>1. /\ at' = [q \in Procs |-> IF q = p /\ row /\ active /\ ~archived THEN "stopping" ELSE "idle"]
        /\ mark' = row /\ unserved' = (row /\ ~active) /\ cancelled' = {} /\ UNCHANGED archived
    BY <1>6 DEF Restart
  <2>2. Running' /\ Started' /\ Closing'
    BY <2>1 DEF Running, Started, Closing
  <2>3. Served'
    BY <1>0, <2>1 DEF Served, Under, TypeOK
  <2> QED BY <2>2, <2>3 DEF PInv
<1> QED BY <1>2, <1>3, <1>4, <1>5, <1>6

(* The table never waits for a seat no one can play: when no request about *)
(* it is under way, a seat refused to its player has a runner that was not *)
(* told to stop, but for one that left before an undo took the end or its  *)
(* concession back, and for a start that did not come about (handOver,     *)
(* TakeBack, SetArchived, StartStandIn, Room.undo).                        *)
THEOREM MarkedSeatIsPlayedAlways == Spec /\ [][UnarchivesApart]_vars => []MarkedSeatIsPlayed
<1>1. Init => PInv
  BY DEF Init, PInv, Running, Started, Closing, Served
<1>2. IInv /\ PInv /\ [Next]_vars /\ [UnarchivesApart]_vars => PInv'
  <2>1. ASSUME IInv, PInv, UNCHANGED vars PROVE PInv'
    <3>1. UNCHANGED <<at, game, mark, archived, found, standIns, runner, cancelled, unserved>>
      BY <2>1 DEF vars, table, player, seat, bots
    <3>2. Running' /\ \A r \in Runners : Engaged(r) => Engaged(r)'
      BY <2>1, <3>1 DEF PInv, Running, Engaged, MayLeave, game
    <3> QED BY <2>1, <3>1, <3>2, Aside
  <2> SUFFICES ASSUME IInv, PInv, Next, UnarchivesApart PROVE PInv'
    BY <2>1
  <2>2. CASE \/ Leaves \/ Returns \/ SnoozeEnds \/ OthersPlay \/ Undo
             \/ \E d \in Deciders : BeginAnswer(d)
             \/ \E q \in Presses : PressTakeBack(q)
             \/ \E r \in Runners : Runs(r)
    BY <2>2, AsideStep
  <2>3. ASSUME NEW p \in Admins, Archive(p) \/ Unarchive(p) \/ Restart(p) PROVE PInv'
    BY <2>3, DoneStep DEF Procs
  <2>4. ASSUME NEW p \in Procs, Finishes(p) PROVE PInv'
    BY <2>4, AsideStep, ServeStep, DoneStep DEF Finishes, Answers
  <2> QED BY <2>2, <2>3, <2>4 DEF Next
<1>3. IInv /\ PInv => MarkedSeatIsPlayed
  BY DEF PInv, Served, MarkedSeatIsPlayed, Engaged, MayLeave, Alive, LeftTooEarly, Under
<1> QED BY <1>1, <1>2, <1>3, IInvAlways, PTL DEF Spec
=============================================================================
