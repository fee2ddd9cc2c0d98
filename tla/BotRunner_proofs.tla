-------------------------- MODULE BotRunner_proofs --------------------------
(***************************************************************************)
(* No wake is lost, for any number of bots and of people, and any limits.  *)
(* A step of a runner is reduced to where it leaves the runner, and the    *)
(* invariant is then about subscriptions, wakes and what was looked at.    *)
(***************************************************************************)
EXTENDS BotRunner, TLAPS

States == {"unstarted", "looking", "deciding", "sending", "committed", "conceded",
           "parked", "done"}

(* From f to g, runner b goes to s with t tries, and nobody else moves.    *)
Placed(f, g, b, s, t) ==
    /\ g \in [Bots -> Runner]
    /\ g[b].at = s /\ g[b].tries = t
    /\ \A c \in Bots \ {b} : g[c] = f[c]

(* The changes of a runner that the steps of its loop make are such moves. *)
LEMMA RunnerFields ==
    ASSUME NEW f \in [Bots -> Runner], NEW b \in Bots, NEW s \in States,
           NEW w \in Window, NEW m \in {"pass", "safe", "other"},
           NEW t \in 0..MaxActions, NEW k \in Nat
    PROVE  /\ Placed(f, [f EXCEPT ![b].at = s], b, s, f[b].tries)
           /\ Placed(f, [f EXCEPT ![b].at = s, ![b].rejects = k], b, s, f[b].tries)
           /\ Placed(f, [f EXCEPT ![b].at = s, ![b].move = m], b, s, f[b].tries)
           /\ Placed(f, [f EXCEPT ![b].at = s, ![b].tries = t, ![b].rejects = k], b, s, t)
           /\ Placed(f, [f EXCEPT ![b].at = s, ![b].sees = w, ![b].tries = t], b, s, t)
<1>0. f[b] \in Runner
  OBVIOUS
<1>1. Placed(f, [f EXCEPT ![b].at = s], b, s, f[b].tries)
  <2> DEFINE r == [f[b] EXCEPT !.at = s]
  <2>1. r \in Runner /\ r.at = s /\ r.tries = f[b].tries
    BY <1>0 DEF Runner, States
  <2>2. [f EXCEPT ![b].at = s] = [f EXCEPT ![b] = r]
    BY <1>0 DEF Runner
  <2> QED BY <2>1, <2>2 DEF Placed
<1>2. Placed(f, [f EXCEPT ![b].at = s, ![b].rejects = k], b, s, f[b].tries)
  <2> DEFINE r == [f[b] EXCEPT !.at = s, !.rejects = k]
  <2>1. r \in Runner /\ r.at = s /\ r.tries = f[b].tries
    BY <1>0 DEF Runner, States
  <2>2. [f EXCEPT ![b].at = s, ![b].rejects = k] = [f EXCEPT ![b] = r]
    BY <1>0 DEF Runner
  <2> QED BY <2>1, <2>2 DEF Placed
<1>3. Placed(f, [f EXCEPT ![b].at = s, ![b].move = m], b, s, f[b].tries)
  <2> DEFINE r == [f[b] EXCEPT !.at = s, !.move = m]
  <2>1. r \in Runner /\ r.at = s /\ r.tries = f[b].tries
    BY <1>0 DEF Runner, States
  <2>2. [f EXCEPT ![b].at = s, ![b].move = m] = [f EXCEPT ![b] = r]
    BY <1>0 DEF Runner
  <2> QED BY <2>1, <2>2 DEF Placed
<1>4. Placed(f, [f EXCEPT ![b].at = s, ![b].tries = t, ![b].rejects = k], b, s, t)
  <2> DEFINE r == [f[b] EXCEPT !.at = s, !.tries = t, !.rejects = k]
  <2>1. r \in Runner /\ r.at = s /\ r.tries = t
    BY <1>0 DEF Runner, States
  <2>2. [f EXCEPT ![b].at = s, ![b].tries = t, ![b].rejects = k] = [f EXCEPT ![b] = r]
    BY <1>0 DEF Runner
  <2> QED BY <2>1, <2>2 DEF Placed
<1>5. Placed(f, [f EXCEPT ![b].at = s, ![b].sees = w, ![b].tries = t], b, s, t)
  <2> DEFINE r == [f[b] EXCEPT !.at = s, !.sees = w, !.tries = t]
  <2>1. r \in Runner /\ r.at = s /\ r.tries = t
    BY <1>0 DEF Runner, States
  <2>2. [f EXCEPT ![b].at = s, ![b].sees = w, ![b].tries = t] = [f EXCEPT ![b] = r]
    BY <1>0 DEF Runner
  <2> QED BY <2>1, <2>2 DEF Placed
<1> QED BY <1>1, <1>2, <1>3, <1>4, <1>5

-----------------------------------------------------------------------------
(* The inductive invariant: a runner that is started and has not ended is  *)
(* subscribed, and one that may rest on what it saw has seen the newest    *)
(* state, or a wake is in its channel or on its way.                       *)
NewRunners == \A b \in Bots : At(b, "unstarted") => runner[b].tries = 0
Subscribed == \A b \in Bots : ~At(b, "unstarted") /\ ~At(b, "done") => b \in subs

Rests(b) == \/ runner[b].at \in {"deciding", "sending", "parked"}
            \/ At(b, "looking") /\ runner[b].tries > 0
WokenOrFresh == \A b \in Bots : Rests(b) => fresh[b] \/ wake[b] \/ WakesComing

IInv == TypeOK /\ NewRunners /\ Subscribed /\ WokenOrFresh

(* A commit owes everybody a wake (Room.notify after every commit), so it  *)
(* may make every look stale.                                              *)
LEMMA CommitStep ==
    ASSUME IInv, NEW b \in Bots, runner[b].at \in {"deciding", "sending"},
           NewState, UNCHANGED room, NEW s \in {"committed", "conceded"}, NEW t,
           Placed(runner, runner', b, s, t)
    PROVE  IInv'
<1> USE DEF IInv, At, room
<1>1. TypeOK'
  BY DEF TypeOK, NewState, Placed
<1>2. NewRunners' /\ Subscribed'
  BY DEF NewRunners, Subscribed, Placed
<1>3. WakesComing'
  BY DEF WakesComing, Placed
<1>4. WokenOrFresh'
  BY <1>3 DEF WokenOrFresh
<1> QED BY <1>1, <1>2, <1>4

(* A step that neither looks nor commits leaves a resting runner at rest.  *)
LEMMA QuietStep ==
    ASSUME IInv, NEW b \in Bots, Rests(b), UNCHANGED <<game, room, fresh>>,
           NEW s \in {"parked", "sending", "looking"}, NEW t,
           Placed(runner, runner', b, s, t)
    PROVE  IInv'
<1> USE DEF IInv, At, game, room
<1>1. TypeOK'
  BY DEF TypeOK, Placed
<1>2. NewRunners'
  BY DEF NewRunners, Placed
<1>3. Subscribed'
  BY DEF Subscribed, Placed, Rests
<1>4. WakesComing => WakesComing'
  <2>1. CASE writer # {}
    BY <2>1 DEF WakesComing
  <2>2. ASSUME NEW c \in Bots, At(c, "committed") \/ At(c, "conceded") PROVE WakesComing'
    <3>1. c # b
      BY <2>2 DEF Rests
    <3> QED BY <2>2, <3>1 DEF WakesComing, Placed
  <2> QED BY <2>1, <2>2 DEF WakesComing
<1>5. ASSUME NEW c \in Bots, Rests(c)' PROVE (fresh[c] \/ wake[c] \/ WakesComing)'
  <2>1. Rests(c)
    BY <1>5 DEF Rests, Placed
  <2> QED BY <2>1, <1>4 DEF WokenOrFresh
<1> QED BY <1>1, <1>2, <1>3, <1>5 DEF WokenOrFresh

(* ... of the runners themselves: a step that only moves b, one that also  *)
(* counts a refusal or forgets them, and one that chooses what to send.    *)
LEMMA GoesTo ==
    ASSUME TypeOK, NEW b \in Bots, NEW s \in States, Go(b, s)
    PROVE  Placed(runner, runner', b, s, runner[b].tries)
<1>1. runner \in [Bots -> Runner] /\ runner[b].tries \in 0..MaxActions
  BY DEF TypeOK, Runner
<1>2. "none" \in Window /\ "pass" \in {"pass", "safe", "other"} /\ 0 \in Nat
  BY DEF Window
<1> QED BY <1>1, <1>2, RunnerFields DEF Go

(* Counts or forgets the refusals.                                         *)
LEMMA GoesCounting ==
    ASSUME TypeOK, NEW b \in Bots, NEW s \in States, NEW k \in Nat,
           runner' = [runner EXCEPT ![b].at = s, ![b].rejects = k]
    PROVE  Placed(runner, runner', b, s, runner[b].tries)
<1>1. runner \in [Bots -> Runner] /\ runner[b].tries \in 0..MaxActions
  BY DEF TypeOK, Runner
<1>2. "none" \in Window /\ "pass" \in {"pass", "safe", "other"}
  BY DEF Window
<1> QED BY <1>1, <1>2, RunnerFields

(* Chooses what it is about to send.                                       *)
LEMMA GoesSending ==
    ASSUME TypeOK, NEW b \in Bots, NEW s \in States, NEW m \in {"pass", "safe", "other"},
           runner' = [runner EXCEPT ![b].at = s, ![b].move = m]
    PROVE  Placed(runner, runner', b, s, runner[b].tries)
<1>1. runner \in [Bots -> Runner] /\ runner[b].tries \in 0..MaxActions
  BY DEF TypeOK, Runner
<1>2. "none" \in Window /\ 0 \in Nat
  BY DEF Window
<1> QED BY <1>1, <1>2, RunnerFields

(* A notification wakes everyone who may rest (notify, after the unlock).  *)
LEMMA NotifyStep ==
    ASSUME IInv, TypeOK', NewRunners', Subscribed',
           subs' \subseteq subs, wake' = Notified
    PROVE  IInv'
<1>1. ASSUME NEW c \in Bots, Rests(c)' PROVE wake'[c]
  <2>1. c \in subs
    BY <1>1 DEF Rests, Subscribed, At
  <2> QED BY <1>1, <2>1 DEF Notified
<1> QED BY <1>1 DEF IInv, WokenOrFresh

(* The steps of the room: a commit of another goroutine, and its notify.   *)
LEMMA WriterStep ==
    ASSUME IInv, NEW w \in Writers, WriterCommits(w) \/ WriterNotifies(w)
    PROVE  IInv'
<1> USE DEF IInv
<1>1. CASE WriterCommits(w)
  <2> USE <1>1 DEF WriterCommits, At
  <2>1. TypeOK'
    BY DEF TypeOK, NewState
  <2>2. NewRunners' /\ Subscribed'
    BY DEF NewRunners, Subscribed
  <2>3. WakesComing'
    BY DEF WakesComing
  <2> QED BY <2>1, <2>2, <2>3 DEF WokenOrFresh
<1>2. CASE WriterNotifies(w)
  <2> USE <1>2 DEF WriterNotifies, At, game
  <2>1. TypeOK'
    BY DEF TypeOK, Notified
  <2>2. NewRunners' /\ Subscribed'
    BY DEF NewRunners, Subscribed
  <2> QED BY <2>1, <2>2, NotifyStep
<1> QED BY <1>1, <1>2

(* The runner starts, is woken, looks, or leaves the game (Start, loop).   *)
LEMMA LoopStep ==
    ASSUME IInv, NEW b \in Bots, Start(b) \/ WakeUp(b) \/ Look(b) \/ Leave(b)
    PROVE  IInv'
<1> USE DEF IInv
<1>1. runner \in [Bots -> Runner] /\ runner[b] \in Runner
  BY DEF TypeOK
<1>2. runner[b].tries \in 0..MaxActions /\ 0 \in 0..MaxActions
  BY <1>1, LimitsAssumption DEF Runner
<1> DEFINE Elsewhere == ~Rests(b)' \/ fresh'[b] \/ wake'[b] \/ WakesComing'
<1>3. ASSUME NEW s \in {"looking", "parked", "deciding", "done"}, NEW t,
             Placed(runner, runner', b, s, t),
             runner[b].at \notin {"committed", "conceded"}, writer' = writer,
             \A c \in Bots \ {b} : fresh'[c] = fresh[c] /\ wake'[c] = wake[c],
             Elsewhere
      PROVE  WokenOrFresh'
  <2>1. WakesComing => WakesComing'
    <3>1. CASE writer # {}
      BY <1>3, <3>1 DEF WakesComing
    <3>2. ASSUME NEW c \in Bots, At(c, "committed") \/ At(c, "conceded") PROVE WakesComing'
      <4>1. c # b
        BY <1>3, <3>2 DEF At
      <4> QED BY <1>3, <3>2, <4>1 DEF WakesComing, Placed, At
    <3> QED BY <3>1, <3>2 DEF WakesComing
  <2>2. ASSUME NEW c \in Bots \ {b}, Rests(c)' PROVE (fresh[c] \/ wake[c] \/ WakesComing)'
    <3>1. Rests(c)
      BY <1>3, <2>2 DEF Rests, Placed, At
    <3> QED BY <1>3, <2>1, <2>2, <3>1 DEF WokenOrFresh
  <2> QED BY <1>3, <2>2 DEF WokenOrFresh
<1>4. CASE Start(b)
  <2>1. Placed(runner, runner', b, "looking", runner[b].tries)
    BY <1>4, GoesTo DEF Start, States
  <2>2. runner[b].tries = 0
    BY <1>4 DEF Start, NewRunners
  <2>3. TypeOK' /\ NewRunners' /\ Subscribed'
    BY <1>4, <2>1 DEF Start, TypeOK, NewRunners, Subscribed, Placed, At, game
  <2>4. ~Rests(b)'
    BY <2>1, <2>2 DEF Rests, Placed, At
  <2>5. WokenOrFresh'
    BY <1>3, <1>4, <2>1, <2>4 DEF Start, At
  <2> QED BY <2>3, <2>5
<1>5. CASE WakeUp(b)
  <2>1. Placed(runner, runner', b, "looking", 0)
    BY <1>1, <1>2, <1>5, RunnerFields DEF WakeUp, States, Window
  <2>2. TypeOK' /\ NewRunners' /\ Subscribed'
    BY <1>5, <2>1 DEF WakeUp, TypeOK, NewRunners, Subscribed, Placed, At, game
  <2>3. ~Rests(b)'
    BY <2>1 DEF Rests, Placed, At
  <2>4. \A c \in Bots \ {b} : fresh'[c] = fresh[c] /\ wake'[c] = wake[c]
    BY <1>5 DEF WakeUp, TypeOK
  <2>5. WokenOrFresh'
    BY <1>3, <1>5, <2>1, <2>3, <2>4 DEF WakeUp, At
  <2> QED BY <2>2, <2>5
<1>6. CASE Look(b)
  <2> DEFINE s == IF owes[b] = "none" THEN "parked" ELSE "deciding"
             t == runner[b].tries + 1
  <2>1. t \in 0..MaxActions
    BY <1>2, <1>6, LimitsAssumption DEF Look
  <2>2. owes[b] \in Window /\ s \in States
    BY DEF TypeOK, States
  <2>3. runner' = [runner EXCEPT ![b].at = s, ![b].sees = owes[b], ![b].tries = t]
    BY <1>6 DEF Look
  <2> HIDE DEF s, t
  <2>4. Placed(runner, runner', b, s, t)
    BY <1>1, <2>1, <2>2, <2>3, RunnerFields
  <2>5. s \in {"parked", "deciding"}
    BY DEF s
  <2>6. TypeOK' /\ NewRunners' /\ Subscribed'
    BY <1>6, <2>4, <2>5 DEF Look, TypeOK, NewRunners, Subscribed, Placed, At, game, room
  <2>7. fresh'[b] /\ \A c \in Bots \ {b} : fresh'[c] = fresh[c] /\ wake'[c] = wake[c]
    BY <1>6 DEF Look, TypeOK, room
  <2>8. WokenOrFresh'
    BY <1>3, <1>6, <2>4, <2>5, <2>7 DEF Look, At, room
  <2> QED BY <2>6, <2>8
<1>7. CASE Leave(b)
  <2>1. Placed(runner, runner', b, "done", runner[b].tries)
    BY <1>7, GoesTo DEF Leave, States
  <2>2. TypeOK' /\ NewRunners' /\ Subscribed'
    BY <1>7, <2>1 DEF Leave, TypeOK, NewRunners, Subscribed, Placed, At, game
  <2>3. ~Rests(b)'
    BY <2>1 DEF Rests, Placed, At
  <2>4. WokenOrFresh'
    BY <1>3, <1>7, <2>1, <2>3 DEF Leave, At
  <2> QED BY <2>2, <2>4
<1> QED BY <1>4, <1>5, <1>6, <1>7

(* The runner's own notification; a seat that conceded ends its runner.    *)
LEMMA OwnNotifyStep ==
    ASSUME IInv, NEW b \in Bots, Notifies(b)
    PROVE  IInv'
<1> USE DEF IInv
<1>1. runner \in [Bots -> Runner] /\ runner[b].tries \in 0..MaxActions
  BY DEF TypeOK, Runner
<1> DEFINE s == IF At(b, "conceded") THEN "done" ELSE "looking"
<1>2. s \in States /\ Go(b, s)
  BY DEF Notifies, States
<1>3. Placed(runner, runner', b, s, runner[b].tries)
  <2> HIDE DEF s
  <2> QED BY <1>2, GoesTo
<1>4. TypeOK'
  BY <1>3 DEF Notifies, TypeOK, Notified, Placed, game
<1>5. NewRunners' /\ Subscribed'
  BY <1>3 DEF Notifies, NewRunners, Subscribed, Placed, At
<1>6. subs' \subseteq subs /\ wake' = Notified
  BY DEF Notifies
<1> QED BY <1>4, <1>5, <1>6, NotifyStep

(* A decision: where it leaves the runner, and whether it committed.       *)
LEMMA DecisionStep ==
    ASSUME IInv, NEW b \in Bots,
           \/ OutOfActions(b) \/ Declines(b) \/ Decides(b) \/ Holds(b) \/ Improvises(b)
           \/ Concedes(b) \/ StackMovedOn(b) \/ Accepted(b) \/ Refused(b) \/ PlaysForAnother(b)
    PROVE  IInv'
<1> DEFINE r == runner[b]
<1>1. TypeOK /\ r \in Runner
  BY DEF IInv, TypeOK
<1>2. r.tries \in 0..MaxActions /\ r.rejects \in Nat /\ r.rejects + 1 \in Nat /\ 0 \in Nat
  BY <1>1 DEF Runner
<1>3. ASSUME NEW s \in {"parked", "looking"}, Go(b, s), Rests(b), UNCHANGED <<game, room, fresh>>
      PROVE  IInv'
  <2>1. Placed(runner, runner', b, s, r.tries)
    BY <1>1, <1>3, GoesTo DEF States
  <2> QED BY <1>3, <2>1, QuietStep
<1>4. CASE OutOfActions(b)
  BY <1>2, <1>3, <1>4, LimitsAssumption DEF OutOfActions, Rests, At
<1>5. CASE Declines(b)
  BY <1>3, <1>5 DEF Declines, Rests, At
<1>6. CASE Holds(b)
  BY <1>3, <1>6 DEF Holds, Rests, At
<1>7. CASE StackMovedOn(b)
  BY <1>3, <1>7 DEF StackMovedOn, Rests, At
<1>8. CASE Decides(b)
  <2>1. PICK m \in Offered(b) : runner' = [runner EXCEPT ![b].at = "sending", ![b].move = m]
    BY <1>8 DEF Decides
  <2>2. m \in {"pass", "safe", "other"}
    BY DEF Offered
  <2>3. Placed(runner, runner', b, "sending", r.tries)
    BY <1>1, <2>1, <2>2, GoesSending DEF States
  <2> QED BY <1>8, <2>3, QuietStep DEF Decides, Rests, At
<1>9. CASE Refused(b)
  <2>1. Placed(runner, runner', b, "looking", r.tries)
    BY <1>1, <1>2, <1>9, GoesCounting DEF Refused, States
  <2> QED BY <1>9, <2>1, QuietStep DEF Refused, Rests, At
<1>10. CASE Improvises(b)
  <2>1. Placed(runner, runner', b, "committed", r.tries)
    BY <1>1, <1>10, GoesTo DEF Improvises, States
  <2> QED BY <1>10, <2>1, CommitStep DEF Improvises, At
<1>11. CASE Concedes(b)
  <2>1. Placed(runner, runner', b, "conceded", r.tries)
    BY <1>1, <1>11, GoesTo DEF Concedes, States
  <2> QED BY <1>11, <2>1, CommitStep DEF Concedes, At
<1>12. ASSUME NewState, r.at \in {"deciding", "sending"}, UNCHANGED room,
              runner' = [runner EXCEPT ![b].at = "committed", ![b].rejects = 0]
       PROVE  IInv'
  <2>1. Placed(runner, runner', b, "committed", r.tries)
    BY <1>1, <1>2, <1>12, GoesCounting DEF States
  <2> QED BY <1>12, <2>1, CommitStep
<1>13. CASE Accepted(b)
  BY <1>12, <1>13 DEF Accepted, At
<1>14. CASE PlaysForAnother(b)
  <2>1. r.at = "deciding" /\ Rests(b) /\ UNCHANGED room
    BY <1>14 DEF PlaysForAnother, Rests, At
  <2>2. CASE NewState /\ runner' = [runner EXCEPT ![b].at = "committed", ![b].rejects = 0]
    BY <1>12, <2>1, <2>2
  <2> DEFINE s == IF r.rejects + 1 >= MaxRejects THEN "parked" ELSE "looking"
  <2>3. CASE /\ runner' = [runner EXCEPT ![b].at = s, ![b].rejects = r.rejects + 1]
             /\ UNCHANGED <<game, fresh>>
    <3>1. s \in States /\ s \in {"parked", "looking"}
      BY DEF States
    <3> HIDE DEF s
    <3>2. Placed(runner, runner', b, s, r.tries)
      BY <1>1, <1>2, <2>3, <3>1, GoesCounting
    <3> QED BY <2>1, <2>3, <3>1, <3>2, QuietStep
  <2> QED BY <1>14, <2>2, <2>3 DEF PlaysForAnother
<1> QED BY <1>4, <1>5, <1>6, <1>7, <1>8, <1>9, <1>10, <1>11, <1>13, <1>14

-----------------------------------------------------------------------------
(* The invariant holds of the runners that are built (Manager.Start).      *)
LEMMA InitHolds == Init => IInv
<1> SUFFICES ASSUME Init PROVE IInv
  OBVIOUS
<1>1. TypeOK
  <2>1. [at |-> "unstarted", sees |-> "none", move |-> "other", tries |-> 0, rejects |-> 0]
          \in Runner
    BY LimitsAssumption DEF Runner, Window
  <2>2. runner \in [Bots -> Runner]
    BY <2>1 DEF Init
  <2>3. wake \in [Bots -> BOOLEAN] /\ fresh \in [Bots -> BOOLEAN]
    BY DEF Init
  <2>4. notice \in Notice
    BY DEF Init, Notice
  <2> QED BY <2>2, <2>3, <2>4 DEF Init, TypeOK
<1>2. NewRunners /\ Subscribed /\ WokenOrFresh
  BY DEF Init, NewRunners, Subscribed, WokenOrFresh, Rests, At
<1> QED BY <1>1, <1>2 DEF IInv

(* Every step of the room and of a runner preserves the invariant.         *)
LEMMA StepHolds == IInv /\ [Next]_vars => IInv'
<1> SUFFICES ASSUME IInv, [Next]_vars PROVE IInv'
  OBVIOUS
<1>1. CASE UNCHANGED vars
  BY <1>1 DEF vars, game, room, IInv, TypeOK, NewRunners, Subscribed, WokenOrFresh, Rests,
              WakesComing, At
<1>2. ASSUME NEW w \in Writers, WriterCommits(w) \/ WriterNotifies(w) PROVE IInv'
  BY <1>2, WriterStep
<1>3. ASSUME NEW b \in Bots, Start(b) \/ Step(b) PROVE IInv'
  BY <1>3, LoopStep, OwnNotifyStep, DecisionStep DEF Step
<1> QED BY <1>1, <1>2, <1>3 DEF Next

(* It holds always.                                                        *)
LEMMA IInvAlways == Spec => []IInv
BY InitHolds, StepHolds, PTL DEF Spec

(* A runner stays within its limits: it never acts more than MaxActions    *)
(* times for one wake (Config.MaxActionsPerWake).                          *)
THEOREM TypeCorrect == Spec => []TypeOK
<1>1. IInv => TypeOK
  BY DEF IInv
<1> QED BY <1>1, IInvAlways, PTL

(* No runner sleeps through a commit, however commits, looks and wakes     *)
(* interleave (docs/bot.md, on #938).                                      *)
THEOREM NoLostWakeAlways == Spec => []NoLostWake
<1>1. IInv => NoLostWake
  BY DEF IInv, WokenOrFresh, Rests, NoLostWake, At
<1> QED BY <1>1, IInvAlways, PTL
=============================================================================
