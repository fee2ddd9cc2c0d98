---------------------------- MODULE Delivery_proofs ----------------------------
(***************************************************************************)
(* What holds of every table's connections, for any number of tabs,        *)
(* connections and callers, any channel capacity and any bound.            *)
(***************************************************************************)
EXTENDS Delivery, TLAPS

USE ActorsAssumption, SendCapAssumption, BoundsAssumption

-----------------------------------------------------------------------------
(* Types.                                                                  *)

LEMMA IdleType == Idle \in Job /\ Idle.at = "idle"
  BY DEF Idle, Job

LEMMA TypeInit == Init => TypeOK
<1> SUFFICES ASSUME Init PROVE TypeOK
  OBVIOUS
<1>1. job \in [Procs -> Job]
  BY IdleType DEF Init
<1>2. queue \in [Conns -> Seq(Frame)]
  <2>1. <<>> \in Seq(Frame)
    OBVIOUS
  <2> QED
    BY <2>1 DEF Init
<1> QED
  BY <1>1, <1>2 DEF Init, TypeOK, Pumping

LEMMA FrameType ==
    ASSUME NEW s \in Nat
    PROVE  Snapshot(s) \in Frame /\ Ack(s) \in Frame /\ Note \in Frame
  BY DEF Snapshot, Ack, Note, Frame

LEMMA CountType ==
    ASSUME TypeOK
    PROVE  seq \in Nat /\ seq + 1 \in Nat /\ extra + 1 \in Nat
<1>1. seq \in Nat /\ extra \in Nat
  BY DEF TypeOK
<1> QED
  BY <1>1

LEMMA JobAt ==
    ASSUME TypeOK, NEW p \in Procs
    PROVE  job[p].seq \in Nat /\ job[p].todo \subseteq Conns
  BY DEF TypeOK, Job

(* The parts of a goroutine's work change one at a time.                   *)
LEMMA JobType ==
    ASSUME TypeOK, NEW p \in Procs,
           NEW a \in {"idle", "committed", "sending", "acking", "replying"},
           NEW s \in Nat, NEW T \in SUBSET Conns
    PROVE  /\ job[p] \in Job /\ job[p].seq \in Nat /\ job[p].todo \subseteq Conns
           /\ job[p] = [at |-> job[p].at, seq |-> job[p].seq, todo |-> job[p].todo]
           /\ [at |-> a, seq |-> s, todo |-> T] \in Job
           /\ [job EXCEPT ![p].at = a] \in [Procs -> Job]
           /\ [job EXCEPT ![p].at = a, ![p].todo = T] \in [Procs -> Job]
           /\ [job EXCEPT ![p].todo = T] \in [Procs -> Job]
           /\ [job EXCEPT ![p] = [at |-> a, seq |-> s, todo |-> T]] \in [Procs -> Job]
           /\ [job EXCEPT ![p] = Idle] \in [Procs -> Job]
<1>1. job \in [Procs -> Job]
  BY DEF TypeOK
<1>2. job[p] \in Job
  BY <1>1
<1>3. /\ job[p].seq \in Nat /\ job[p].todo \subseteq Conns
      /\ job[p] = [at |-> job[p].at, seq |-> job[p].seq, todo |-> job[p].todo]
  BY <1>2 DEF Job
<1>4. /\ [at |-> a, seq |-> s, todo |-> T] \in Job
      /\ [job[p] EXCEPT !.at = a] \in Job
      /\ [job[p] EXCEPT !.at = a, !.todo = T] \in Job
      /\ [job[p] EXCEPT !.todo = T] \in Job
  BY <1>2 DEF Job
<1>5. ASSUME NEW j \in Job
      PROVE  [job EXCEPT ![p] = j] \in [Procs -> Job]
  BY <1>1
<1> QED
  BY <1>1, <1>2, <1>3, <1>4, <1>5, IdleType

LEMMA SendType ==
    ASSUME TypeOK, NEW c \in Conns, NEW f \in Frame, SendRaw(c, f)
    PROVE  /\ queue' \in [Conns -> Seq(Frame)]
           /\ open' \in [Conns -> BOOLEAN]
           /\ panicked' \in BOOLEAN
<1>1. panicked' \in BOOLEAN
  BY DEF SendRaw, TypeOK
<1>2. open' \in [Conns -> BOOLEAN]
  BY DEF SendRaw, TypeOK
<1>3. queue' \in [Conns -> Seq(Frame)]
  <2>1. queue \in [Conns -> Seq(Frame)] /\ queue[c] \in Seq(Frame)
    BY DEF TypeOK
  <2>2. Append(queue[c], f) \in Seq(Frame)
    BY <2>1
  <2> QED
    BY <2>1, <2>2 DEF SendRaw
<1> QED
  BY <1>1, <1>2, <1>3

LEMMA TypeStep ==
    ASSUME TypeOK, [Next]_vars
    PROVE  TypeOK'
<1>u. CASE UNCHANGED vars
  BY <1>u DEF TypeOK, vars, conn, tab, lobby
<1>1. ASSUME NEW t \in Tabs, NEW c \in Conns, Dial(t, c)
      PROVE  TypeOK'
  <2>1. Snapshot(seq) \in Frame
    BY FrameType DEF TypeOK
  <2>2. <<Snapshot(seq)>> \in Seq(Frame)
    BY <2>1
  <2>3. queue' \in [Conns -> Seq(Frame)]
    BY <1>1, <2>2 DEF Dial, TypeOK
  <2> QED
    BY <1>1, <2>3 DEF Dial, TypeOK, lobby, Pumping
<1>2. ASSUME NEW c \in Conns, Handshake(c)
      PROVE  TypeOK'
  <2>1. CASE Admit(c)
    <3>1. /\ seq' \in Nat /\ extra' \in Nat
          /\ job' \in [Procs -> Job]
          /\ snap' \in [Conns -> Nat]
          /\ owner' \in [Conns -> Tabs \cup {None}]
          /\ queue' \in [Conns -> Seq(Frame)]
      BY <2>1 DEF Admit, TypeOK
    <3>2. /\ link' \in [Tabs -> Conns \cup {None}]
          /\ shown' \in [Tabs -> Nat]
          /\ removed' \subseteq Tabs
          /\ hub' \in {"up", "closing", "drained", "timed out"}
          /\ panicked' \in BOOLEAN
      BY <2>1 DEF Admit, TypeOK, tab, lobby
    <3>3. phase' \in [Conns -> {"unused", "staged", "gone"} \cup Pumping]
      <4>1. phase \in [Conns -> {"unused", "staged", "gone"} \cup Pumping]
        BY DEF TypeOK
      <4> QED
        BY <2>1, <4>1 DEF Admit, Pumping
    <3>4. open' \in [Conns -> BOOLEAN]
      <4>1. open \in [Conns -> BOOLEAN]
        BY DEF TypeOK
      <4> QED
        BY <2>1, <4>1 DEF Admit
    <3>5. clients' \subseteq Conns
      <4>1. clients \subseteq Conns
        BY DEF TypeOK
      <4> QED
        BY <2>1, <4>1 DEF Admit
    <3> QED
      BY <3>1, <3>2, <3>3, <3>4, <3>5 DEF TypeOK
  <2>2. CASE PumpsStart(c)
    BY <2>2 DEF PumpsStart, TypeOK, tab, lobby, Pumping
  <2>3. CASE CatchUp(c)
    BY <2>3 DEF CatchUp, TypeOK, tab, lobby, Pumping
  <2>4. CASE StageCatchUp(c)
    <3>1. Snapshot(snap[c]) \in Frame
      BY FrameType DEF TypeOK
    <3>2. /\ queue' \in [Conns -> Seq(Frame)]
          /\ open' \in [Conns -> BOOLEAN]
          /\ panicked' \in BOOLEAN
      <4>1. CASE SendClosed(c)
        BY <2>4, <4>1 DEF StageCatchUp, TypeOK
      <4>2. CASE ~SendClosed(c)
        BY <2>4, <3>1, <4>2, SendType DEF StageCatchUp
      <4> QED BY <4>1, <4>2
    <3> QED
      BY <2>4, <3>2 DEF StageCatchUp, TypeOK, tab, lobby, Pumping
  <2> QED
    BY <1>2, <2>1, <2>2, <2>3, <2>4 DEF Handshake
<1>3. ASSUME NEW c \in Conns, Answer(c)
      PROVE  TypeOK'
  <2>0. c \in Procs
    BY DEF Procs
  <2>1. CASE ReadFrame(c)
    <3>1. [job EXCEPT ![c].at = "replying"] \in [Procs -> Job]
      BY <2>0, JobType, 0 \in Nat
    <3>2. extra + 1 \in Nat
      BY CountType
    <3> QED
      BY <2>1, <3>1, <3>2 DEF ReadFrame, TypeOK, conn, tab, lobby
  <2>2. CASE Reply(c)
    <3>1. /\ queue' \in [Conns -> Seq(Frame)]
          /\ open' \in [Conns -> BOOLEAN]
          /\ panicked' \in BOOLEAN
      BY <2>2, SendType, FrameType DEF Reply, TypeOK
    <3>2. job' \in [Procs -> Job]
      BY <2>0, <2>2, JobType DEF Reply, TypeOK
    <3> QED
      BY <2>2, <3>1, <3>2 DEF Reply, TypeOK, conn, tab, lobby
  <2>3. CASE SendAck(c)
    <3>1. Ack(job[c].seq) \in Frame
      BY <2>0, FrameType DEF TypeOK, Job
    <3>2. /\ queue' \in [Conns -> Seq(Frame)]
          /\ open' \in [Conns -> BOOLEAN]
          /\ panicked' \in BOOLEAN
      BY <2>3, <3>1, SendType DEF SendAck
    <3>3. job' \in [Procs -> Job]
      BY <2>0, <2>3, JobType DEF SendAck, TypeOK
    <3> QED
      BY <2>3, <3>2, <3>3 DEF SendAck, TypeOK, conn, tab, lobby
  <2> QED
    BY <1>3, <2>1, <2>2, <2>3 DEF Answer
<1>4. ASSUME NEW c \in Conns, Deliver(c)
      PROVE  TypeOK'
  <2>1. queue[c] \in Seq(Frame) /\ queue[c] # <<>> /\ owner[c] \in Tabs
    BY <1>4 DEF Deliver, TypeOK, Heard
  <2>2. Head(queue[c]) \in Frame /\ Tail(queue[c]) \in Seq(Frame)
    BY <2>1
  <2>3. Accept(owner[c], Head(queue[c])) \in Nat
    BY <2>1, <2>2 DEF Accept, TypeOK, Frame
  <2> QED
    BY <1>4, <2>1, <2>2, <2>3 DEF Deliver, TypeOK, conn, lobby
<1>5. ASSUME NEW c \in Conns, ReadPumpExits(c)
      PROVE  TypeOK'
  <2>1. <<>> \in Seq(Frame)
    OBVIOUS
  <2>2. queue' \in [Conns -> Seq(Frame)]
    BY <1>5, <2>1 DEF ReadPumpExits, TypeOK
  <2> QED
    BY <1>5, <2>2 DEF ReadPumpExits, TypeOK, tab, lobby, Pumping
<1>6. ASSUME NEW p \in Procs, Commit(p) \/ RefreshPresence(p) \/ Broadcast(p)
      PROVE  TypeOK'
  <2>1. CASE Commit(p)
    <3>1. seq + 1 \in Nat
      BY CountType
    <3>2. [job EXCEPT ![p] = [at |-> "committed", seq |-> seq + 1, todo |-> {}]]
             \in [Procs -> Job]
      BY <3>1, JobType, {} \in SUBSET Conns
    <3> QED
      BY <2>1, <3>1, <3>2 DEF Commit, TypeOK, conn, tab, lobby
  <2>2. CASE RefreshPresence(p)
    <3>1. seq \in Nat /\ extra + 1 \in Nat
      BY CountType
    <3>2. [job EXCEPT ![p] = [at |-> "committed", seq |-> seq, todo |-> {}]]
             \in [Procs -> Job]
      BY <3>1, JobType, {} \in SUBSET Conns
    <3> QED
      BY <2>2, <3>1, <3>2 DEF RefreshPresence, TypeOK, conn, tab, lobby
  <2>3. CASE BeginBroadcast(p)
    <3>1. clients \in SUBSET Conns
      BY DEF TypeOK
    <3>2. [job EXCEPT ![p].at = "sending", ![p].todo = clients] \in [Procs -> Job]
      BY <3>1, JobType, 0 \in Nat
    <3> QED
      BY <2>3, <3>2 DEF BeginBroadcast, TypeOK, conn, tab, lobby
  <2>4. ASSUME NEW c \in Conns, SendTo(p, c)
        PROVE  TypeOK'
    <3>1. Snapshot(job[p].seq) \in Frame
      BY FrameType, JobAt
    <3>2. /\ queue' \in [Conns -> Seq(Frame)]
          /\ open' \in [Conns -> BOOLEAN]
          /\ panicked' \in BOOLEAN
      BY <2>4, <3>1, SendType DEF SendTo
    <3>3. job[p].todo \ {c} \subseteq Conns
      BY JobAt
    <3>4. job' \in [Procs -> Job]
      BY <2>4, <3>3, JobType, 0 \in Nat DEF SendTo
    <3> QED
      BY <2>4, <3>2, <3>4 DEF SendTo, TypeOK, conn, tab, lobby
  <2>5. CASE EndBroadcast(p)
    <3>1. job' \in [Procs -> Job]
      <4>1. CASE p \in Conns
        <5>1. job' = [job EXCEPT ![p].at = "acking"]
          BY <2>5, <4>1 DEF EndBroadcast
        <5> QED
          BY <5>1, JobType DEF TypeOK
      <4>2. CASE p \notin Conns
        BY <2>5, <4>2, JobType DEF EndBroadcast, TypeOK
      <4> QED
        BY <4>1, <4>2
    <3> QED
      BY <2>5, <3>1 DEF EndBroadcast, TypeOK, conn, tab, lobby
  <2> QED
    BY <1>6, <2>1, <2>2, <2>3, <2>4, <2>5 DEF Broadcast
<1>7. ASSUME NEW t \in Tabs, NetworkDrops(t) \/ TabSeesClose(t)
      PROVE  TypeOK'
  BY <1>7 DEF NetworkDrops, TabSeesClose, TypeOK, conn, lobby
<1>8. ASSUME NEW t \in Tabs, EvictSeat(t) \/ EvictSpectator(t)
      PROVE  TypeOK'
  BY <1>8 DEF EvictSeat, EvictSpectator, Closed, TypeOK, conn, tab
<1>9. CASE BeginShutdown \/ PumpsDrained \/ ShutdownTimesOut
  BY <1>9 DEF BeginShutdown, PumpsDrained, ShutdownTimesOut, TypeOK, conn, tab
<1>10. ASSUME NEW c \in Conns, CloseAndDrop(c)
       PROVE  TypeOK'
  BY <1>10 DEF CloseAndDrop, Closed, TypeOK, conn, tab, lobby
<1> QED
  BY <1>u, <1>1, <1>2, <1>3, <1>4, <1>5, <1>6, <1>7, <1>8, <1>9, <1>10 DEF Next

(* Every state of the module is well typed.                                *)
THEOREM TypeCorrect == Spec => []TypeOK
<1>1. Init => TypeOK
  BY TypeInit
<1>2. TypeOK /\ [Next]_vars => TypeOK'
  BY TypeStep
<1> QED
  BY <1>1, <1>2, PTL DEF Spec

-----------------------------------------------------------------------------
(* The inductive invariant.                                                *)

(* A snapshot of state n or a later one is in c's channel, or was read.    *)
Sent(c, n) == Before(c, Len(queue[c]) + 1, n)

Registered == \A c \in clients : phase[c] \in Pumping

(* A connection's own newest state, at each stage of the handshake: what   *)
(* ServeWS staged, what the catch-up is about to send, the table's.        *)
OnItsWay ==
    \A c \in Conns : open[c] =>
       /\ phase[c] \in {"staged", "admitted"} => Sent(c, snap[c])
       /\ c \in clients /\ phase[c] = "catching" =>
             snap[c] >= seq \/ Sent(c, seq) \/ Coming(c, seq)
       /\ c \in clients /\ phase[c] = "live" => Sent(c, seq) \/ Coming(c, seq)

(* Who commits through a connection is a player whose pumps run, and stays *)
(* registered for as long.                                                 *)
Authors ==
    \A c \in Conns :
       /\ job[c].at # "idle" => phase[c] = "live"
       /\ job[c].at \in {"committed", "sending", "acking"} => owner[c] \notin Spectators
       /\ phase[c] \in Pumping /\ owner[c] \notin Spectators => c \in clients

(* Between a commit and its ack the broadcast reaches the committer.       *)
AcksFollow ==
    \A c \in Conns : open[c] =>
       /\ \A k \in 1..Len(queue[c]) :
             queue[c][k].kind = "ack" => Before(c, k, queue[c][k].seq)
       /\ job[c].at = "sending" => c \in job[c].todo \/ Sent(c, job[c].seq)
       /\ job[c].at = "acking" => Sent(c, job[c].seq)

IInv ==
    /\ TypeOK
    /\ Registered
    /\ OnItsWay
    /\ Authors
    /\ AcksFollow
    /\ BroadcastsReachOpenChannels
    /\ WaitedForEveryPump

LEMMA IInvInit == Init => IInv
<1> SUFFICES ASSUME Init PROVE IInv
  OBVIOUS
<1>1. TypeOK
  BY TypeInit
<1>2. Registered /\ OnItsWay /\ AcksFollow
  BY DEF Init, Registered, OnItsWay, AcksFollow
<1>3. Authors
  BY IdleType DEF Init, Authors, Procs, Pumping
<1>4. BroadcastsReachOpenChannels /\ WaitedForEveryPump
  BY IdleType DEF Init, BroadcastsReachOpenChannels, WaitedForEveryPump
<1> QED
  BY <1>1, <1>2, <1>3, <1>4 DEF IInv

-----------------------------------------------------------------------------
(* Channels: what is sent stays sent.                                      *)

(* Before and Sent of the state after a step.                              *)
BeforeNext(c, k, n) ==
    \/ owner'[c] \in Tabs /\ shown'[owner'[c]] >= n
    \/ \E i \in 1..(k - 1) : queue'[c][i].kind = "snapshot" /\ queue'[c][i].seq >= n

SentNext(c, n) == BeforeNext(c, Len(queue'[c]) + 1, n)

(* A step appends at most one frame to c's channel.                        *)
Grows(c) == queue'[c] = queue[c] \/ \E f \in Frame : queue'[c] = Append(queue[c], f)

LEMMA ChannelType ==
    ASSUME TypeOK, NEW c \in Conns
    PROVE  /\ queue[c] \in Seq(Frame)
           /\ Len(queue[c]) \in Nat
           /\ \A i \in 1..Len(queue[c]) : queue[c][i] \in Frame /\ queue[c][i].seq \in Nat
<1>1. queue[c] \in Seq(Frame)
  BY DEF TypeOK
<1>2. \A i \in 1..Len(queue[c]) : queue[c][i] \in Frame
  BY <1>1
<1>3. Len(queue[c]) \in Nat
  BY <1>1
<1> QED
  BY <1>1, <1>2, <1>3 DEF Frame

LEMMA Kept ==
    ASSUME TypeOK, TypeOK', NEW c \in Conns, NEW n \in Nat,
           NEW k \in 1..(Len(queue[c]) + 1), Before(c, k, n),
           owner' = owner, \A t \in Tabs : shown'[t] >= shown[t], Grows(c)
    PROVE  BeforeNext(c, k, n) /\ SentNext(c, n)
<1>1. queue[c] \in Seq(Frame) /\ Len(queue[c]) \in Nat
  BY ChannelType
<1>2. /\ Len(queue'[c]) \in Nat /\ Len(queue'[c]) >= Len(queue[c])
      /\ \A i \in 1..Len(queue[c]) : queue'[c][i] = queue[c][i]
  BY <1>1 DEF Grows
<1>3. CASE owner[c] \in Tabs /\ shown[owner[c]] >= n
  <2>1. shown[owner[c]] \in Nat /\ shown'[owner[c]] \in Nat
    BY <1>3 DEF TypeOK
  <2>2. shown'[owner[c]] >= n
    BY <1>3, <2>1
  <2> QED
    BY <1>3, <2>2 DEF BeforeNext, SentNext
<1>4. ASSUME NEW i \in 1..(k - 1), queue[c][i].kind = "snapshot" /\ queue[c][i].seq >= n
      PROVE  BeforeNext(c, k, n) /\ SentNext(c, n)
  <2>1. i \in 1..Len(queue[c]) /\ i \in 1..((Len(queue'[c]) + 1) - 1)
    BY <1>1, <1>2
  <2>2. queue'[c][i].kind = "snapshot" /\ queue'[c][i].seq >= n
    BY <1>2, <1>4, <2>1
  <2> QED
    BY <2>1, <2>2 DEF BeforeNext, SentNext
<1> QED
  BY <1>3, <1>4 DEF Before

LEMMA SentStays ==
    ASSUME TypeOK, TypeOK', NEW c \in Conns, NEW n \in Nat, Sent(c, n),
           owner' = owner, \A t \in Tabs : shown'[t] >= shown[t], Grows(c)
    PROVE  SentNext(c, n)
<1>1. Len(queue[c]) + 1 \in 1..(Len(queue[c]) + 1)
  BY ChannelType
<1> QED
  BY <1>1, Kept DEF Sent

LEMMA Arrived ==
    ASSUME TypeOK, NEW c \in Conns, NEW n \in Nat, NEW s \in Nat, s >= n,
           queue'[c] = Append(queue[c], Snapshot(s))
    PROVE  SentNext(c, n)
<1>1. queue[c] \in Seq(Frame) /\ Len(queue[c]) \in Nat
  BY ChannelType
<1>2. /\ Len(queue'[c]) = Len(queue[c]) + 1
      /\ queue'[c][Len(queue[c]) + 1] = Snapshot(s)
  BY <1>1
<1>3. Len(queue[c]) + 1 \in 1..((Len(queue'[c]) + 1) - 1)
  BY <1>1, <1>2
<1> QED
  BY <1>2, <1>3 DEF SentNext, BeforeNext, Snapshot

(* What a send does to the channels.                                       *)
LEMMA SendEffect ==
    ASSUME TypeOK, NEW c \in Conns, NEW f \in Frame, SendRaw(c, f)
    PROVE  /\ \A d \in Conns : Grows(d) /\ (open'[d] => open[d])
           /\ \A d \in Conns \ {c} : queue'[d] = queue[d]
           /\ ~SendClosed(c) /\ open'[c] /\ open[c] =>
                 queue'[c] = Append(queue[c], f) \/ ~(Len(queue[c]) < SendCap)
           /\ queue'[c] # queue[c] => queue'[c] = Append(queue[c], f)
<1>1. queue \in [Conns -> Seq(Frame)] /\ open \in [Conns -> BOOLEAN]
  BY DEF TypeOK
<1>2. CASE UNCHANGED <<queue, open>>
  BY <1>1, <1>2 DEF SendRaw, Grows
<1>3. CASE queue' = [queue EXCEPT ![c] = Append(@, f)] /\ UNCHANGED open
  BY <1>1, <1>3 DEF Grows
<1>4. CASE open' = [open EXCEPT ![c] = FALSE] /\ UNCHANGED queue
  BY <1>1, <1>4 DEF Grows
<1> QED
  BY <1>2, <1>3, <1>4 DEF SendRaw

(* A send to an open channel arrives, or the socket is closed.             *)
LEMMA SendArrives ==
    ASSUME TypeOK, NEW c \in Conns, NEW f \in Frame, SendRaw(c, f), ~SendClosed(c), open'[c]
    PROVE  queue'[c] = Append(queue[c], f)
<1>1. queue \in [Conns -> Seq(Frame)] /\ open \in [Conns -> BOOLEAN]
  BY DEF TypeOK
<1> QED
  BY <1>1 DEF SendRaw

(* A frame read moves the channel up by one, and shown with it.            *)
LEMMA Delivered ==
    ASSUME TypeOK, NEW c \in Conns, Deliver(c)
    PROVE  /\ \A t \in Tabs : shown'[t] >= shown[t]
           /\ \A d \in Conns \ {c} : queue'[d] = queue[d]
           /\ Len(queue'[c]) = Len(queue[c]) - 1
           /\ \A k \in 1..Len(queue'[c]) : queue'[c][k] = queue[c][k + 1]
           /\ \A n \in Nat, k \in 1..(Len(queue'[c]) + 1) :
                 Before(c, k + 1, n) => BeforeNext(c, k, n)
<1>1. /\ queue \in [Conns -> Seq(Frame)] /\ queue[c] \in Seq(Frame) /\ queue[c] # <<>>
      /\ owner[c] \in Tabs /\ shown \in [Tabs -> Nat] /\ owner' = owner
      /\ queue' = [queue EXCEPT ![c] = Tail(queue[c])]
      /\ shown' = [shown EXCEPT ![owner[c]] = Accept(owner[c], Head(queue[c]))]
  BY DEF TypeOK, Deliver, Heard, conn
<1>2. Head(queue[c]) = queue[c][1] /\ queue[c][1] \in Frame /\ queue[c][1].seq \in Nat
  <2>1. Head(queue[c]) = queue[c][1] /\ 1 \in 1..Len(queue[c])
    BY <1>1
  <2> QED
    BY <2>1, ChannelType
<1>3. /\ Accept(owner[c], Head(queue[c])) >= shown[owner[c]]
      /\ queue[c][1].kind = "snapshot" =>
            Accept(owner[c], Head(queue[c])) >= queue[c][1].seq
      /\ Accept(owner[c], Head(queue[c])) \in Nat
  BY <1>1, <1>2 DEF Accept
<1>4. \A t \in Tabs : shown'[t] >= shown[t]
  BY <1>1, <1>3
<1>5. \A d \in Conns \ {c} : queue'[d] = queue[d]
  BY <1>1
<1>6. queue'[c] = Tail(queue[c])
  BY <1>1
<1>7. /\ Len(queue'[c]) = Len(queue[c]) - 1 /\ Len(queue'[c]) \in Nat
      /\ \A k \in 1..Len(queue'[c]) : queue'[c][k] = queue[c][k + 1]
  BY <1>1, <1>6
<1>8. ASSUME NEW n \in Nat, NEW k \in 1..(Len(queue'[c]) + 1), Before(c, k + 1, n)
      PROVE  BeforeNext(c, k, n)
  <2>1. CASE shown[owner[c]] >= n
    <3>1. shown[owner[c]] \in Nat /\ shown'[owner[c]] \in Nat
      BY <1>1, <1>3
    <3>2. shown'[owner[c]] >= n
      BY <1>1, <1>4, <2>1, <3>1
    <3> QED
      BY <1>1, <3>2 DEF BeforeNext
  <2>2. ASSUME NEW i \in 1..((k + 1) - 1),
               queue[c][i].kind = "snapshot", queue[c][i].seq >= n
        PROVE  BeforeNext(c, k, n)
    <3>1. CASE i = 1
      <4>1. shown'[owner[c]] = Accept(owner[c], Head(queue[c]))
        BY <1>1
      <4>2. shown'[owner[c]] >= n
        BY <1>2, <1>3, <2>2, <3>1, <4>1
      <4> QED
        BY <1>1, <4>2 DEF BeforeNext
    <3>2. CASE i # 1
      <4>1. i - 1 \in 1..(k - 1) /\ i - 1 \in 1..Len(queue'[c]) /\ (i - 1) + 1 = i
        BY <1>7, <3>2
      <4>2. queue'[c][i - 1] = queue[c][i]
        BY <1>7, <4>1
      <4> QED
        BY <2>2, <4>1, <4>2 DEF BeforeNext
    <3> QED
      BY <3>1, <3>2
  <2> QED
    BY <1>8, <2>1, <2>2, <1>1 DEF Before
<1> QED
  BY <1>4, <1>5, <1>7, <1>8

-----------------------------------------------------------------------------
(* Each step keeps the invariant.  Steps that send nothing and read        *)
(* nothing come first.                                                     *)

(* A step that only closes sockets or unregisters spectators.              *)
LEMMA QuietStep ==
    ASSUME IInv, TypeOK',
           UNCHANGED <<seq, job, phase, snap, owner, queue, shown>>,
           \A c \in Conns : open'[c] => open[c],
           clients' \subseteq clients,
           clients' = clients \/ Unlocked,
           \A c \in clients \ clients' : owner[c] \in Spectators,
           hub' = "drained" => \A c \in Conns : phase[c] \notin Pumping
    PROVE  IInv'
<1>1. Registered'
  BY DEF IInv, Registered
<1>2. OnItsWay'
  BY DEF IInv, OnItsWay, Sent, Before, Coming
<1>3. Authors'
  BY DEF IInv, TypeOK, Authors
<1>4. AcksFollow'
  BY DEF IInv, AcksFollow, Sent, Before
<1>5. BroadcastsReachOpenChannels'
  BY DEF IInv, BroadcastsReachOpenChannels, Unlocked, Readers
<1>6. WaitedForEveryPump'
  BY DEF WaitedForEveryPump
<1> QED
  BY <1>1, <1>2, <1>3, <1>4, <1>5, <1>6 DEF IInv

LEMMA LobbyStep ==
    ASSUME IInv, TypeOK', NEW t \in Tabs,
           NetworkDrops(t) \/ TabSeesClose(t) \/ EvictSeat(t) \/ EvictSpectator(t)
    PROVE  IInv'
<1>1. TypeOK /\ WaitedForEveryPump
  BY DEF IInv
<1>2. CASE NetworkDrops(t) \/ TabSeesClose(t)
  BY <1>1, <1>2, QuietStep DEF NetworkDrops, TabSeesClose, conn, lobby, WaitedForEveryPump
<1>3. CASE EvictSeat(t)
  BY <1>1, <1>3, QuietStep DEF EvictSeat, Closed, conn, tab, WaitedForEveryPump
<1>4. CASE EvictSpectator(t)
  BY <1>1, <1>4, QuietStep DEF EvictSpectator, Closed, Victims, conn, tab, WaitedForEveryPump
<1> QED
  BY <1>2, <1>3, <1>4

LEMMA ShutdownStep ==
    ASSUME IInv, TypeOK', BeginShutdown \/ PumpsDrained \/ ShutdownTimesOut
    PROVE  IInv'
<1>1. TypeOK
  BY DEF IInv
<1> QED
  BY <1>1, QuietStep DEF BeginShutdown, PumpsDrained, ShutdownTimesOut, conn, tab

LEMMA CloseStep ==
    ASSUME IInv, TypeOK', NEW c \in Conns, CloseAndDrop(c)
    PROVE  IInv'
<1>1. TypeOK /\ WaitedForEveryPump
  BY DEF IInv
<1> QED
  BY <1>1, QuietStep DEF CloseAndDrop, Closed, conn, tab, lobby, WaitedForEveryPump

(* The handshake up to the catch-up.                                       *)
LEMMA AdmitStep ==
    ASSUME IInv, TypeOK', NEW c \in Conns, Admit(c)
    PROVE  IInv'
<1>1. /\ TypeOK /\ UNCHANGED <<seq, job, snap, owner, queue, shown, hub>>
      /\ phase[c] = "staged" /\ Unlocked
  BY DEF IInv, Admit, tab, lobby
<1>2. CASE hub = "up"
  <2>1. /\ clients' = clients \cup {c} /\ phase' = [phase EXCEPT ![c] = "admitted"]
        /\ open' = open
    BY <1>2 DEF Admit
  <2>2. /\ phase'[c] = "admitted" /\ \A d \in Conns \ {c} : phase'[d] = phase[d]
    BY <1>1, <2>1 DEF TypeOK
  <2>3. Registered'
    BY <1>1, <2>1, <2>2 DEF IInv, Registered, Pumping, TypeOK
  <2>4. OnItsWay'
    BY <1>1, <2>1, <2>2 DEF IInv, OnItsWay, Sent, Before, Coming
  <2>5. Authors'
    BY <1>1, <2>1, <2>2 DEF IInv, Authors, Pumping
  <2>6. AcksFollow'
    BY <1>1, <2>1 DEF IInv, AcksFollow, Sent, Before
  <2>7. BroadcastsReachOpenChannels' /\ WaitedForEveryPump'
    BY <1>1, <1>2, <2>1 DEF BroadcastsReachOpenChannels, WaitedForEveryPump, Unlocked, Readers
  <2> QED
    BY <2>3, <2>4, <2>5, <2>6, <2>7 DEF IInv
<1>3. CASE hub # "up"
  <2>1. /\ clients' = clients /\ phase' = [phase EXCEPT ![c] = "gone"]
        /\ open' = [open EXCEPT ![c] = FALSE]
    BY <1>3 DEF Admit
  <2>2. /\ phase'[c] = "gone" /\ \A d \in Conns \ {c} : phase'[d] = phase[d]
        /\ ~open'[c] /\ \A d \in Conns \ {c} : open'[d] = open[d]
    BY <1>1, <2>1 DEF TypeOK
  <2>3. c \notin clients
    BY <1>1 DEF IInv, Registered, Pumping
  <2>4. Registered'
    BY <1>1, <2>1, <2>2, <2>3 DEF IInv, Registered, TypeOK
  <2>5. OnItsWay'
    BY <1>1, <2>1, <2>2 DEF IInv, OnItsWay, Sent, Before, Coming
  <2>6. Authors'
    BY <1>1, <2>1, <2>2 DEF IInv, Authors, Pumping
  <2>7. AcksFollow'
    BY <1>1, <2>1, <2>2 DEF IInv, AcksFollow, Sent, Before
  <2>8. BroadcastsReachOpenChannels' /\ WaitedForEveryPump'
    BY <1>1, <2>1, <2>2 DEF IInv, BroadcastsReachOpenChannels, WaitedForEveryPump, Unlocked,
                            Readers, Pumping
  <2> QED
    BY <2>4, <2>5, <2>6, <2>7, <2>8 DEF IInv
<1> QED
  BY <1>2, <1>3

LEMMA PumpsStartStep ==
    ASSUME IInv, TypeOK', NEW c \in Conns, PumpsStart(c)
    PROVE  IInv'
<1>1. /\ TypeOK /\ UNCHANGED <<seq, job, owner, clients, queue, open, shown, hub>>
      /\ phase[c] = "admitted" /\ seq = snap[c]
      /\ phase'[c] = "live" /\ \A d \in Conns \ {c} : phase'[d] = phase[d] /\ snap'[d] = snap[d]
  BY DEF IInv, TypeOK, PumpsStart, tab, lobby
<1>2. Registered'
  BY <1>1 DEF IInv, Registered, Pumping, TypeOK
<1>3. OnItsWay'
  <2>1. ASSUME NEW d \in Conns, d # c, open'[d]
        PROVE  /\ phase'[d] \in {"staged", "admitted"} => Sent(d, snap[d])
               /\ d \in clients /\ phase'[d] = "catching" =>
                     snap[d] >= seq \/ Sent(d, seq) \/ Coming(d, seq)
               /\ d \in clients /\ phase'[d] = "live" => Sent(d, seq) \/ Coming(d, seq)
    BY <1>1, <2>1 DEF IInv, OnItsWay
  <2>2. open'[c] => Sent(c, seq)
    BY <1>1 DEF IInv, OnItsWay
  <2> QED
    BY <1>1, <2>1, <2>2 DEF OnItsWay, Sent, Before, Coming
<1>4. Authors'
  BY <1>1 DEF IInv, Authors, Pumping
<1>5. AcksFollow'
  BY <1>1 DEF IInv, AcksFollow, Sent, Before
<1>6. BroadcastsReachOpenChannels' /\ WaitedForEveryPump'
  BY <1>1 DEF IInv, BroadcastsReachOpenChannels, WaitedForEveryPump, Pumping
<1> QED
  BY <1>2, <1>3, <1>4, <1>5, <1>6 DEF IInv

LEMMA CatchUpStep ==
    ASSUME IInv, TypeOK', NEW c \in Conns, CatchUp(c)
    PROVE  IInv'
<1>1. /\ TypeOK /\ UNCHANGED <<seq, job, owner, clients, queue, open, shown, hub>>
      /\ phase[c] = "admitted" /\ snap'[c] = seq /\ seq \in Nat
      /\ phase'[c] = "catching"
      /\ \A d \in Conns \ {c} : phase'[d] = phase[d] /\ snap'[d] = snap[d]
  BY DEF IInv, TypeOK, CatchUp, tab, lobby
<1>2. Registered'
  BY <1>1 DEF IInv, Registered, Pumping, TypeOK
<1>3. OnItsWay'
  <2>1. ASSUME NEW d \in Conns, d # c, open'[d]
        PROVE  /\ phase'[d] \in {"staged", "admitted"} => Sent(d, snap[d])
               /\ d \in clients /\ phase'[d] = "catching" =>
                     snap[d] >= seq \/ Sent(d, seq) \/ Coming(d, seq)
               /\ d \in clients /\ phase'[d] = "live" => Sent(d, seq) \/ Coming(d, seq)
    BY <1>1, <2>1 DEF IInv, OnItsWay
  <2>2. snap'[c] >= seq'
    BY <1>1
  <2> QED
    BY <1>1, <2>1, <2>2 DEF OnItsWay, Sent, Before, Coming
<1>4. Authors'
  BY <1>1 DEF IInv, Authors, Pumping
<1>5. AcksFollow'
  BY <1>1 DEF IInv, AcksFollow, Sent, Before
<1>6. BroadcastsReachOpenChannels' /\ WaitedForEveryPump'
  BY <1>1 DEF IInv, BroadcastsReachOpenChannels, WaitedForEveryPump, Pumping
<1> QED
  BY <1>2, <1>3, <1>4, <1>5, <1>6 DEF IInv

-----------------------------------------------------------------------------
(* Steps of a goroutine that send nothing.                                 *)

(* A step that changes what p is doing and nothing a connection holds.     *)
LEMMA JobStep ==
    ASSUME IInv, TypeOK', NEW p \in Procs,
           UNCHANGED <<phase, snap, owner, clients, queue, open, shown, hub>>,
           \A q \in Procs \ {p} : job'[q] = job[q],
           seq' >= seq,
           \A c \in clients : Coming(c, seq) \/ seq' > seq => Coming(c, seq)',
           job'[p].at = "sending" => job'[p].todo \subseteq clients,
           p \in Conns /\ job'[p].at # "idle" => phase[p] = "live",
           p \in Conns /\ job'[p].at \in {"committed", "sending", "acking"} =>
              owner[p] \notin Spectators,
           p \in Conns /\ open[p] /\ job'[p].at = "sending" =>
              p \in job'[p].todo \/ Sent(p, job'[p].seq),
           p \in Conns /\ open[p] /\ job'[p].at = "acking" => Sent(p, job'[p].seq)
    PROVE  IInv'
<1>1. Registered'
  BY DEF IInv, Registered
<1>2. OnItsWay'
  <2>1. seq \in Nat /\ seq' \in Nat /\ snap \in [Conns -> Nat]
    BY DEF IInv, TypeOK
  <2>2. CASE seq' = seq
    <3>1. \A c \in clients : Coming(c, seq) => Coming(c, seq)'
      OBVIOUS
    <3> QED
      BY <2>2, <3>1 DEF IInv, OnItsWay, Sent, Before
  <2>3. CASE seq' > seq
    <3>1. \A c \in clients : Coming(c, seq)'
      BY <2>3
    <3> QED
      BY <2>3, <3>1 DEF IInv, OnItsWay, Sent, Before
  <2> QED
    BY <2>1, <2>2, <2>3
<1>3. Authors'
  BY DEF IInv, Authors, Procs
<1>4. AcksFollow'
  <2>1. ASSUME NEW c \in Conns, open[c]
        PROVE  /\ job'[c].at = "sending" => c \in job'[c].todo \/ Sent(c, job'[c].seq)
               /\ job'[c].at = "acking" => Sent(c, job'[c].seq)
    BY <2>1 DEF IInv, AcksFollow, Procs
  <2> QED
    BY <2>1 DEF IInv, AcksFollow, Sent, Before
<1>5. BroadcastsReachOpenChannels'
  BY DEF IInv, BroadcastsReachOpenChannels
<1>6. WaitedForEveryPump'
  BY DEF IInv, WaitedForEveryPump
<1> QED
  BY <1>1, <1>2, <1>3, <1>4, <1>5, <1>6 DEF IInv

LEMMA CommitStep ==
    ASSUME IInv, TypeOK', NEW p \in Procs, Commit(p)
    PROVE  IInv'
<1>1. /\ TypeOK /\ seq \in Nat /\ seq' = seq + 1
      /\ job'[p] = [at |-> "committed", seq |-> seq + 1, todo |-> {}]
      /\ \A q \in Procs \ {p} : job'[q] = job[q]
      /\ UNCHANGED <<phase, snap, owner, clients, queue, open, shown, hub>>
      /\ p \in Conns => phase[p] = "live" /\ owner[p] \notin Spectators
  BY DEF IInv, TypeOK, Commit, conn, tab, lobby
<1>2. \A c \in clients : Coming(c, seq)'
  BY <1>1 DEF Coming
<1> QED
  BY <1>1, <1>2, JobStep

LEMMA RefreshStep ==
    ASSUME IInv, TypeOK', NEW p \in Procs, RefreshPresence(p)
    PROVE  IInv'
<1>1. /\ TypeOK /\ seq \in Nat /\ seq' = seq /\ p \notin Conns
      /\ job'[p] = [at |-> "committed", seq |-> seq, todo |-> {}]
      /\ \A q \in Procs \ {p} : job'[q] = job[q]
      /\ UNCHANGED <<phase, snap, owner, clients, queue, open, shown, hub>>
  BY DEF IInv, TypeOK, RefreshPresence, conn, tab, lobby
<1>2. \A c \in clients : Coming(c, seq)'
  BY <1>1 DEF Coming
<1> QED
  BY <1>1, <1>2, JobStep

LEMMA ReadFrameStep ==
    ASSUME IInv, TypeOK', NEW c \in Conns, ReadFrame(c)
    PROVE  IInv'
<1>0. c \in Procs
  BY DEF Procs
<1>a. job \in [Procs -> Job] /\ job[c] \in Job /\ job' = [job EXCEPT ![c].at = "replying"]
  BY <1>0 DEF IInv, TypeOK, ReadFrame
<1>b. job'[c].at = "replying" /\ \A q \in Procs \ {c} : job'[q] = job[q]
  BY <1>0, <1>a DEF Job
<1>1. /\ TypeOK /\ seq \in Nat /\ seq' = seq /\ phase[c] = "live"
      /\ job[c].at = "idle" /\ job'[c].at = "replying"
      /\ \A q \in Procs \ {c} : job'[q] = job[q]
      /\ UNCHANGED <<phase, snap, owner, clients, queue, open, shown, hub>>
  BY <1>b DEF IInv, TypeOK, ReadFrame, conn, tab, lobby
<1>2. \A d \in clients : Coming(d, seq) => Coming(d, seq)'
  BY <1>1 DEF Coming
<1> QED
  BY <1>0, <1>1, <1>2, JobStep

LEMMA BeginBroadcastStep ==
    ASSUME IInv, TypeOK', NEW p \in Procs, BeginBroadcast(p)
    PROVE  IInv'
<1>1. /\ TypeOK /\ seq \in Nat /\ seq' = seq
      /\ job[p].at = "committed" /\ job'[p].at = "sending"
      /\ job'[p].todo = clients /\ job'[p].seq = job[p].seq
      /\ \A q \in Procs \ {p} : job'[q] = job[q]
      /\ UNCHANGED <<phase, snap, owner, clients, queue, open, shown, hub>>
  BY DEF IInv, TypeOK, BeginBroadcast, conn, tab, lobby, Job
<1>2. \A d \in clients : Coming(d, seq) => Coming(d, seq)'
  BY <1>1 DEF Coming
<1>3. p \in Conns => phase[p] = "live" /\ owner[p] \notin Spectators /\ p \in clients
  BY <1>1 DEF IInv, Authors, Pumping
<1> QED
  BY <1>1, <1>2, <1>3, JobStep

LEMMA EndBroadcastStep ==
    ASSUME IInv, TypeOK', NEW p \in Procs, EndBroadcast(p)
    PROVE  IInv'
<1>1. /\ TypeOK /\ seq \in Nat /\ seq' = seq
      /\ job[p].at = "sending" /\ job[p].todo = {}
      /\ \A q \in Procs \ {p} : job'[q] = job[q]
      /\ UNCHANGED <<phase, snap, owner, clients, queue, open, shown, hub>>
  BY DEF IInv, TypeOK, EndBroadcast, conn, tab, lobby, Job
<1>2. IF p \in Conns THEN job'[p].at = "acking" /\ job'[p].seq = job[p].seq
                     ELSE job'[p].at = "idle"
  BY IdleType DEF IInv, TypeOK, EndBroadcast, Job
<1>3. \A d \in clients : Coming(d, seq) => Coming(d, seq)'
  BY <1>1 DEF Coming
<1>4. p \in Conns =>
         /\ phase[p] = "live" /\ owner[p] \notin Spectators
         /\ open[p] => Sent(p, job[p].seq)
  BY <1>1 DEF IInv, Authors, AcksFollow
<1> QED
  BY <1>1, <1>2, <1>3, <1>4, JobStep

-----------------------------------------------------------------------------
(* Steps that send.                                                        *)

(* What was sent stays sent, and an ack sent after its state follows it.   *)
LEMMA SendKeeps ==
    ASSUME IInv, TypeOK', NEW c \in Conns, NEW f \in Frame, SendRaw(c, f),
           owner' = owner, shown' = shown,
           f.kind = "ack" /\ open[c] => Sent(c, f.seq)
    PROVE  /\ \A d \in Conns, n \in Nat : Sent(d, n) => SentNext(d, n)
           /\ \A d \in Conns : open'[d] => open[d]
           /\ \A d \in Conns : open[d] =>
                 \A k \in 1..Len(queue'[d]) :
                    queue'[d][k].kind = "ack" => BeforeNext(d, k, queue'[d][k].seq)
<1>1. TypeOK /\ shown \in [Tabs -> Nat]
  BY DEF IInv, TypeOK
<1>2. \A t \in Tabs : shown'[t] >= shown[t]
  BY <1>1
<1>3. /\ \A d \in Conns : Grows(d) /\ (open'[d] => open[d])
      /\ \A d \in Conns \ {c} : queue'[d] = queue[d]
      /\ queue'[c] # queue[c] => queue'[c] = Append(queue[c], f)
  BY <1>1, SendEffect
<1>4. \A d \in Conns, n \in Nat : Sent(d, n) => SentNext(d, n)
  BY <1>1, <1>2, <1>3, SentStays
<1>5. ASSUME NEW d \in Conns, open[d], NEW k \in 1..Len(queue'[d]),
             queue'[d][k].kind = "ack"
      PROVE  BeforeNext(d, k, queue'[d][k].seq)
  <2>1. /\ queue[d] \in Seq(Frame) /\ Len(queue[d]) \in Nat
        /\ \A i \in 1..Len(queue[d]) : queue[d][i].seq \in Nat
    BY <1>1, ChannelType
  <2>2. CASE k \in 1..Len(queue[d])
    <3>1. queue'[d][k] = queue[d][k]
      BY <2>1, <2>2, <1>3 DEF Grows
    <3>2. Before(d, k, queue[d][k].seq) /\ queue[d][k].seq \in Nat
      BY <1>5, <2>1, <2>2, <3>1 DEF IInv, AcksFollow
    <3>3. k \in 1..(Len(queue[d]) + 1)
      BY <2>1, <2>2
    <3> QED
      BY <1>1, <1>2, <1>3, <3>1, <3>2, <3>3, Kept
  <2>3. CASE k \notin 1..Len(queue[d])
    <3>1. d = c /\ queue'[c] = Append(queue[c], f)
      BY <1>3, <1>5, <2>3
    <3>2. k = Len(queue[c]) + 1 /\ queue'[c][k] = f
      BY <2>1, <2>3, <3>1
    <3>3. Sent(c, f.seq) /\ f.seq \in Nat
      BY <1>5, <3>1, <3>2 DEF Frame
    <3>4. Before(c, k, f.seq) /\ k \in 1..(Len(queue[c]) + 1)
      BY <2>1, <3>1, <3>2, <3>3 DEF Sent
    <3> QED
      BY <1>1, <1>2, <1>3, <3>1, <3>2, <3>3, <3>4, Kept
  <2> QED
    BY <2>2, <2>3
<1> QED
  BY <1>3, <1>4, <1>5

LEMMA SendToStep ==
    ASSUME IInv, TypeOK', NEW p \in Procs, NEW c \in Conns, SendTo(p, c)
    PROVE  IInv'
<1>a. job \in [Procs -> Job] /\ job' = [job EXCEPT ![p].todo = @ \ {c}]
  BY DEF IInv, TypeOK, SendTo
<1>b. /\ \A q \in Procs : job[q].seq \in Nat
      /\ job'[p].at = job[p].at /\ job'[p].seq = job[p].seq
      /\ job'[p].todo = job[p].todo \ {c}
      /\ \A q \in Procs \ {p} : job'[q] = job[q]
  BY <1>a DEF Job
<1>1. /\ TypeOK /\ seq \in Nat /\ job[p].seq \in Nat /\ snap \in [Conns -> Nat]
      /\ \A q \in Procs : job[q].seq \in Nat
      /\ UNCHANGED <<seq, phase, snap, owner, clients, shown, hub>>
      /\ job[p].at = "sending" /\ c \in job[p].todo
      /\ job'[p].at = "sending" /\ job'[p].seq = job[p].seq
      /\ job'[p].todo = job[p].todo \ {c}
      /\ \A q \in Procs \ {p} : job'[q] = job[q]
      /\ SendRaw(c, Snapshot(job[p].seq))
  BY <1>b DEF IInv, TypeOK, SendTo, conn, tab, lobby
<1>2. c \in clients /\ ~SendClosed(c)
  BY <1>1 DEF IInv, BroadcastsReachOpenChannels, SendClosed
<1>3. /\ \A d \in Conns, n \in Nat : Sent(d, n) => SentNext(d, n)
      /\ \A d \in Conns : open'[d] => open[d]
      /\ \A d \in Conns : open[d] =>
            \A k \in 1..Len(queue'[d]) :
               queue'[d][k].kind = "ack" => BeforeNext(d, k, queue'[d][k].seq)
  <2>1. Snapshot(job[p].seq) \in Frame /\ Snapshot(job[p].seq).kind # "ack"
    BY <1>1, FrameType DEF Snapshot
  <2> QED
    BY <1>1, <2>1, SendKeeps
<1>4. \A n \in Nat : open'[c] /\ job[p].seq >= n => SentNext(c, n)
  <2>1. Snapshot(job[p].seq) \in Frame
    BY <1>1, FrameType
  <2>2. open'[c] => queue'[c] = Append(queue[c], Snapshot(job[p].seq))
    BY <1>1, <1>2, <2>1, SendArrives
  <2> QED
    BY <1>1, <2>2, Arrived
<1>5. Registered' /\ Authors'
  BY <1>1 DEF IInv, Registered, Authors, Procs
<1>6. OnItsWay'
  <2>1. ASSUME NEW d \in Conns, open'[d], Coming(d, seq)
        PROVE  SentNext(d, seq) \/ Coming(d, seq)'
    <3>1. PICK q \in Procs : /\ job[q].seq >= seq
                             /\ \/ job[q].at = "committed"
                                \/ job[q].at = "sending" /\ d \in job[q].todo
      BY <2>1 DEF Coming
    <3>2. CASE q = p /\ d = c
      BY <1>1, <1>4, <2>1, <3>1, <3>2
    <3>3. CASE ~(q = p /\ d = c)
      BY <1>1, <3>1, <3>3 DEF Coming
    <3> QED
      BY <3>2, <3>3
  <2>2. ASSUME NEW d \in Conns, open'[d]
        PROVE  /\ phase'[d] \in {"staged", "admitted"} => SentNext(d, snap[d])
               /\ d \in clients /\ phase'[d] = "catching" =>
                     snap[d] >= seq \/ SentNext(d, seq) \/ Coming(d, seq)'
               /\ d \in clients /\ phase'[d] = "live" => SentNext(d, seq) \/ Coming(d, seq)'
    <3>1. snap[d] \in Nat
      BY <1>1
    <3> QED
      BY <1>1, <1>3, <2>1, <2>2, <3>1 DEF IInv, OnItsWay
  <2> QED
    BY <1>1, <2>2 DEF OnItsWay, Sent, Before, SentNext, BeforeNext
<1>7. AcksFollow'
  <2>1. ASSUME NEW d \in Conns, open'[d]
        PROVE  /\ job'[d].at = "sending" => d \in job'[d].todo \/ SentNext(d, job'[d].seq)
               /\ job'[d].at = "acking" => SentNext(d, job'[d].seq)
    <3>1. d \in Procs
      BY DEF Procs
    <3>2. /\ job[d].at = "sending" => d \in job[d].todo \/ Sent(d, job[d].seq)
          /\ job[d].at = "acking" => Sent(d, job[d].seq)
      BY <1>3, <2>1 DEF IInv, AcksFollow
    <3>3. CASE d # p
      BY <1>1, <1>3, <3>1, <3>2, <3>3
    <3>4. CASE d = p /\ d # c
      BY <1>1, <1>3, <3>2, <3>4
    <3>5. CASE d = p /\ d = c
      <4>1. SentNext(c, job[p].seq)
        BY <1>1, <1>4, <2>1, <3>5
      <4> QED
        BY <1>1, <3>5, <4>1
    <3> QED
      BY <3>3, <3>4, <3>5
  <2> QED
    BY <1>3, <2>1 DEF AcksFollow, Sent, Before, SentNext, BeforeNext
<1>8. BroadcastsReachOpenChannels'
  BY <1>1 DEF IInv, BroadcastsReachOpenChannels
<1>9. WaitedForEveryPump'
  BY <1>1 DEF IInv, WaitedForEveryPump
<1> QED
  BY <1>5, <1>6, <1>7, <1>8, <1>9 DEF IInv

LEMMA AnswerStep ==
    ASSUME IInv, TypeOK', NEW c \in Conns, Reply(c) \/ SendAck(c)
    PROVE  IInv'
<1> DEFINE f == IF job[c].at = "acking" THEN Ack(job[c].seq) ELSE Note
<1>0. c \in Procs
  BY DEF Procs
<1>a. job \in [Procs -> Job] /\ job' = [job EXCEPT ![c] = Idle]
  BY DEF IInv, TypeOK, Reply, SendAck
<1>b. /\ \A q \in Procs : job[q].seq \in Nat
      /\ job'[c].at = "idle" /\ \A q \in Procs \ {c} : job'[q] = job[q]
  BY <1>0, <1>a, IdleType DEF Job
<1>1. /\ TypeOK /\ seq \in Nat /\ snap \in [Conns -> Nat]
      /\ UNCHANGED <<seq, phase, snap, owner, clients, shown, hub>>
      /\ job[c].at \in {"replying", "acking"}
      /\ SendRaw(c, f)
  BY DEF IInv, TypeOK, Reply, SendAck, conn, tab, lobby
<1>2. f \in Frame /\ (f.kind = "ack" /\ open[c] => Sent(c, f.seq))
  <2>1. f \in Frame
    BY <1>0, <1>b, FrameType
  <2>2. CASE job[c].at = "acking"
    BY <2>1, <2>2 DEF IInv, AcksFollow, Ack
  <2>3. CASE job[c].at # "acking"
    BY <2>1, <2>3 DEF Note
  <2> QED
    BY <2>2, <2>3
<1> HIDE DEF f
<1>3. /\ \A d \in Conns, n \in Nat : Sent(d, n) => SentNext(d, n)
      /\ \A d \in Conns : open'[d] => open[d]
      /\ \A d \in Conns : open[d] =>
            \A k \in 1..Len(queue'[d]) :
               queue'[d][k].kind = "ack" => BeforeNext(d, k, queue'[d][k].seq)
  BY <1>1, <1>2, SendKeeps
<1>4. Registered' /\ Authors'
  BY <1>b, <1>1 DEF IInv, Registered, Authors, Procs
<1>5. OnItsWay'
  <2>1. \A d \in Conns : Coming(d, seq) => Coming(d, seq)'
    BY <1>b, <1>1 DEF Coming
  <2>2. ASSUME NEW d \in Conns, open'[d]
        PROVE  /\ phase'[d] \in {"staged", "admitted"} => SentNext(d, snap[d])
               /\ d \in clients /\ phase'[d] = "catching" =>
                     snap[d] >= seq \/ SentNext(d, seq) \/ Coming(d, seq)'
               /\ d \in clients /\ phase'[d] = "live" => SentNext(d, seq) \/ Coming(d, seq)'
    <3>1. snap[d] \in Nat
      BY <1>1
    <3> QED
      BY <1>1, <1>3, <2>1, <2>2, <3>1 DEF IInv, OnItsWay
  <2> QED
    BY <1>1, <2>2 DEF OnItsWay, Sent, Before, SentNext, BeforeNext
<1>6. AcksFollow'
  <2>1. ASSUME NEW d \in Conns, open'[d]
        PROVE  /\ job'[d].at = "sending" => d \in job'[d].todo \/ SentNext(d, job'[d].seq)
               /\ job'[d].at = "acking" => SentNext(d, job'[d].seq)
    <3>1. d \in Procs
      BY DEF Procs
    <3>2. /\ job[d].at = "sending" => d \in job[d].todo \/ Sent(d, job[d].seq)
          /\ job[d].at = "acking" => Sent(d, job[d].seq)
      BY <1>3, <2>1 DEF IInv, AcksFollow
    <3> QED
      BY <1>b, <1>3, <3>1, <3>2
  <2> QED
    BY <1>3, <2>1 DEF AcksFollow, Sent, Before, SentNext, BeforeNext
<1>7. BroadcastsReachOpenChannels'
  BY <1>b, <1>1 DEF IInv, BroadcastsReachOpenChannels
<1>8. WaitedForEveryPump'
  BY <1>1 DEF IInv, WaitedForEveryPump
<1> QED
  BY <1>4, <1>5, <1>6, <1>7, <1>8 DEF IInv

LEMMA StageCatchUpStep ==
    ASSUME IInv, TypeOK', NEW c \in Conns, StageCatchUp(c)
    PROVE  IInv'
<1>1. /\ TypeOK /\ seq \in Nat /\ snap \in [Conns -> Nat] /\ snap[c] \in Nat
      /\ UNCHANGED <<seq, job, owner, clients, shown, hub>>
      /\ phase[c] = "catching" /\ phase'[c] \in {"live", "aborted"}
      /\ \A d \in Conns \ {c} : phase'[d] = phase[d] /\ snap'[d] = snap[d]
      /\ \/ SendClosed(c) /\ UNCHANGED <<queue, open>>
         \/ ~SendClosed(c) /\ SendRaw(c, Snapshot(snap[c]))
  <2>1. /\ TypeOK /\ seq \in Nat /\ snap \in [Conns -> Nat] /\ snap[c] \in Nat
        /\ phase \in [Conns -> {"unused", "staged", "gone"} \cup Pumping]
    BY DEF IInv, TypeOK
  <2>2. /\ UNCHANGED <<seq, job, owner, clients, shown, hub>>
        /\ phase[c] = "catching" /\ snap' = [snap EXCEPT ![c] = 0]
    BY DEF StageCatchUp, tab, lobby
  <2>3. CASE SendClosed(c)
    BY <2>1, <2>2, <2>3 DEF StageCatchUp
  <2>4. CASE ~SendClosed(c)
    BY <2>1, <2>2, <2>4 DEF StageCatchUp
  <2> QED
    BY <2>3, <2>4
<1>2. Snapshot(snap[c]) \in Frame /\ Snapshot(snap[c]).kind # "ack"
  BY <1>1, FrameType DEF Snapshot
<1>3. /\ \A d \in Conns, n \in Nat : Sent(d, n) => SentNext(d, n)
      /\ \A d \in Conns : open'[d] => open[d]
      /\ \A d \in Conns : open[d] =>
            \A k \in 1..Len(queue'[d]) :
               queue'[d][k].kind = "ack" => BeforeNext(d, k, queue'[d][k].seq)
  <2>1. CASE UNCHANGED <<queue, open>>
    BY <1>1, <2>1 DEF IInv, AcksFollow, Sent, Before, SentNext, BeforeNext
  <2>2. CASE SendRaw(c, Snapshot(snap[c]))
    BY <1>1, <1>2, <2>2, SendKeeps
  <2> QED
    BY <1>1, <2>1, <2>2
<1>4. c \in clients /\ open'[c] /\ snap[c] >= seq => SentNext(c, seq)
  <2>1. c \in clients /\ open'[c] => queue'[c] = Append(queue[c], Snapshot(snap[c]))
    BY <1>1, <1>2, SendArrives DEF SendClosed
  <2> QED
    BY <1>1, <2>1, Arrived
<1>5. Registered' /\ Authors'
  BY <1>1 DEF IInv, Registered, Authors, Pumping, TypeOK
<1>6. OnItsWay'
  <2>1. \A d \in Conns : Coming(d, seq) => Coming(d, seq)'
    BY <1>1 DEF Coming
  <2>2. ASSUME NEW d \in Conns \ {c}, open'[d]
        PROVE  /\ phase'[d] \in {"staged", "admitted"} => SentNext(d, snap[d])
               /\ d \in clients /\ phase'[d] = "catching" =>
                     snap[d] >= seq \/ SentNext(d, seq) \/ Coming(d, seq)'
               /\ d \in clients /\ phase'[d] = "live" => SentNext(d, seq) \/ Coming(d, seq)'
    <3>1. snap[d] \in Nat
      BY <1>1
    <3> QED
      BY <1>1, <1>3, <2>1, <2>2, <3>1 DEF IInv, OnItsWay
  <2>3. c \in clients /\ open'[c] => SentNext(c, seq) \/ Coming(c, seq)'
    BY <1>1, <1>3, <1>4, <2>1 DEF IInv, OnItsWay
  <2> QED
    BY <1>1, <2>2, <2>3 DEF OnItsWay, Sent, Before, SentNext, BeforeNext
<1>7. AcksFollow'
  <2>1. ASSUME NEW d \in Conns, open'[d]
        PROVE  /\ job'[d].at = "sending" => d \in job'[d].todo \/ SentNext(d, job'[d].seq)
               /\ job'[d].at = "acking" => SentNext(d, job'[d].seq)
    <3>1. job[d].seq \in Nat
      BY <1>1, JobAt DEF Procs
    <3>2. /\ job[d].at = "sending" => d \in job[d].todo \/ Sent(d, job[d].seq)
          /\ job[d].at = "acking" => Sent(d, job[d].seq)
      BY <1>3, <2>1 DEF IInv, AcksFollow
    <3> QED
      BY <1>1, <1>3, <3>1, <3>2
  <2> QED
    BY <1>3, <2>1 DEF AcksFollow, Sent, Before, SentNext, BeforeNext
<1>8. BroadcastsReachOpenChannels'
  BY <1>1 DEF IInv, BroadcastsReachOpenChannels
<1>9. WaitedForEveryPump'
  BY <1>1 DEF IInv, WaitedForEveryPump, Pumping
<1> QED
  BY <1>5, <1>6, <1>7, <1>8, <1>9 DEF IInv

-----------------------------------------------------------------------------
(* The beginning and the end of a connection, and what is read from it.    *)

LEMMA DialStep ==
    ASSUME IInv, TypeOK', NEW t \in Tabs, NEW c \in Conns, Dial(t, c)
    PROVE  IInv'
<1>1. /\ TypeOK /\ seq \in Nat
      /\ UNCHANGED <<seq, job, clients, shown, hub>>
      /\ phase[c] = "unused" /\ phase'[c] = "staged" /\ hub = "up"
      /\ snap'[c] = seq /\ queue'[c] = <<Snapshot(seq)>> /\ owner'[c] = t
      /\ \A d \in Conns \ {c} : /\ phase'[d] = phase[d] /\ snap'[d] = snap[d]
                                /\ queue'[d] = queue[d] /\ owner'[d] = owner[d]
                                /\ open'[d] = open[d]
  BY DEF IInv, TypeOK, Dial, lobby
<1>2. c \notin clients /\ job[c].at = "idle"
  BY <1>1 DEF IInv, Registered, Authors, Pumping
<1>3. Registered' /\ Authors'
  BY <1>1, <1>2 DEF IInv, Registered, Authors, Pumping, TypeOK
<1>4. /\ Len(queue'[c]) = 1 /\ queue'[c][1] = Snapshot(seq)
      /\ Snapshot(seq).kind = "snapshot" /\ Snapshot(seq).seq = seq
  BY <1>1 DEF Snapshot
<1>5. OnItsWay'
  <2>1. SentNext(c, seq)
    <3>1. 1 \in 1..((Len(queue'[c]) + 1) - 1) /\ queue'[c][1].seq >= seq
      BY <1>1, <1>4
    <3> QED
      BY <1>4, <3>1 DEF SentNext, BeforeNext
  <2>2. ASSUME NEW d \in Conns \ {c}
        PROVE  (/\ phase[d] \in {"staged", "admitted"} => Sent(d, snap[d])
                /\ d \in clients /\ phase[d] = "catching" =>
                      snap[d] >= seq \/ Sent(d, seq) \/ Coming(d, seq)
                /\ d \in clients /\ phase[d] = "live" => Sent(d, seq) \/ Coming(d, seq))
               =>
               (/\ phase[d] \in {"staged", "admitted"} => Sent(d, snap[d])
                /\ d \in clients /\ phase[d] = "catching" =>
                      snap[d] >= seq \/ Sent(d, seq) \/ Coming(d, seq)
                /\ d \in clients /\ phase[d] = "live" => Sent(d, seq) \/ Coming(d, seq))'
    BY <1>1 DEF Sent, Before, Coming
  <2>3. \A d \in Conns \ {c} : open'[d] => open[d]
    BY <1>1
  <2> QED
    BY <1>1, <1>2, <2>1, <2>2, <2>3 DEF IInv, OnItsWay, Sent, Before, SentNext, BeforeNext
<1>6. AcksFollow'
  <2>1. ASSUME NEW d \in Conns \ {c}, open'[d]
        PROVE  (/\ \A k \in 1..Len(queue[d]) :
                      queue[d][k].kind = "ack" => Before(d, k, queue[d][k].seq)
                /\ job[d].at = "sending" => d \in job[d].todo \/ Sent(d, job[d].seq)
                /\ job[d].at = "acking" => Sent(d, job[d].seq))'
    BY <1>1, <2>1 DEF IInv, AcksFollow, Sent, Before
  <2>2. /\ \A k \in 1..Len(queue'[c]) : queue'[c][k].kind # "ack"
        /\ job'[c].at = "idle"
    BY <1>1, <1>2, <1>4
  <2> QED
    BY <2>1, <2>2 DEF AcksFollow
<1>7. BroadcastsReachOpenChannels' /\ WaitedForEveryPump'
  BY <1>1 DEF IInv, BroadcastsReachOpenChannels, WaitedForEveryPump
<1> QED
  BY <1>3, <1>5, <1>6, <1>7 DEF IInv

LEMMA ReadPumpExitsStep ==
    ASSUME IInv, TypeOK', NEW c \in Conns, ReadPumpExits(c)
    PROVE  IInv'
<1>1. /\ TypeOK /\ Unlocked
      /\ UNCHANGED <<seq, job, snap, owner, shown, hub>>
      /\ clients' = clients \ {c} /\ phase'[c] = "gone" /\ ~open'[c]
      /\ job[c].at = "idle"
      /\ \A d \in Conns \ {c} : /\ phase'[d] = phase[d] /\ open'[d] = open[d]
                                /\ queue'[d] = queue[d]
  BY DEF IInv, TypeOK, ReadPumpExits, tab, lobby
<1>2. Registered' /\ Authors'
  BY <1>1 DEF IInv, Registered, Authors, Pumping, TypeOK
<1>3. OnItsWay'
  <2>1. ASSUME NEW d \in Conns \ {c}, open'[d]
        PROVE  (/\ phase[d] \in {"staged", "admitted"} => Sent(d, snap[d])
                /\ d \in clients /\ phase[d] = "catching" =>
                      snap[d] >= seq \/ Sent(d, seq) \/ Coming(d, seq)
                /\ d \in clients /\ phase[d] = "live" => Sent(d, seq) \/ Coming(d, seq))'
    BY <1>1, <2>1 DEF IInv, OnItsWay, Sent, Before, Coming
  <2> QED
    BY <1>1, <2>1 DEF OnItsWay
<1>4. AcksFollow'
  <2>1. ASSUME NEW d \in Conns \ {c}, open'[d]
        PROVE  (/\ \A k \in 1..Len(queue[d]) :
                      queue[d][k].kind = "ack" => Before(d, k, queue[d][k].seq)
                /\ job[d].at = "sending" => d \in job[d].todo \/ Sent(d, job[d].seq)
                /\ job[d].at = "acking" => Sent(d, job[d].seq))'
    BY <1>1, <2>1 DEF IInv, AcksFollow, Sent, Before
  <2> QED
    BY <1>1, <2>1 DEF AcksFollow
<1>5. BroadcastsReachOpenChannels' /\ WaitedForEveryPump'
  BY <1>1 DEF IInv, BroadcastsReachOpenChannels, WaitedForEveryPump, Unlocked, Readers, Pumping
<1> QED
  BY <1>2, <1>3, <1>4, <1>5 DEF IInv

LEMMA DeliverStep ==
    ASSUME IInv, TypeOK', NEW c \in Conns, Deliver(c)
    PROVE  IInv'
<1>1. /\ TypeOK /\ seq \in Nat /\ snap \in [Conns -> Nat]
      /\ UNCHANGED <<seq, job, phase, snap, owner, clients, open, hub>>
  BY DEF IInv, TypeOK, Deliver, conn, lobby
<1>2. /\ \A t \in Tabs : shown'[t] >= shown[t]
      /\ \A d \in Conns \ {c} : queue'[d] = queue[d]
      /\ Len(queue'[c]) = Len(queue[c]) - 1
      /\ \A k \in 1..Len(queue'[c]) : queue'[c][k] = queue[c][k + 1]
      /\ \A n \in Nat, k \in 1..(Len(queue'[c]) + 1) :
            Before(c, k + 1, n) => BeforeNext(c, k, n)
  BY <1>1, Delivered
<1>3. /\ Len(queue[c]) \in Nat /\ Len(queue'[c]) \in Nat
      /\ \A i \in 1..Len(queue[c]) : queue[c][i].seq \in Nat
  <2>1. queue'[c] \in Seq(Frame)
    BY DEF TypeOK
  <2> QED
    BY <1>1, <2>1, ChannelType
<1>4. \A d \in Conns, n \in Nat : Sent(d, n) => SentNext(d, n)
  <2>1. ASSUME NEW d \in Conns \ {c}, NEW n \in Nat, Sent(d, n)
        PROVE  SentNext(d, n)
    BY <1>1, <1>2, <2>1, SentStays DEF Grows
  <2>2. ASSUME NEW n \in Nat, Sent(c, n)
        PROVE  SentNext(c, n)
    <3>1. /\ Len(queue'[c]) + 1 \in 1..(Len(queue'[c]) + 1)
          /\ (Len(queue'[c]) + 1) + 1 = Len(queue[c]) + 1
      BY <1>2, <1>3
    <3>2. Before(c, (Len(queue'[c]) + 1) + 1, n)
      BY <2>2, <3>1 DEF Sent
    <3> QED
      BY <1>2, <3>1, <3>2 DEF SentNext
  <2> QED
    BY <2>1, <2>2
<1>5. ASSUME NEW d \in Conns, open[d], NEW k \in 1..Len(queue'[d]),
             queue'[d][k].kind = "ack"
      PROVE  BeforeNext(d, k, queue'[d][k].seq)
  <2>1. CASE d # c
    <3>1. k \in 1..Len(queue[d]) /\ queue'[d][k] = queue[d][k]
      BY <1>2, <1>5, <2>1
    <3>2. Len(queue[d]) \in Nat /\ queue[d][k].seq \in Nat
      BY <1>1, <3>1, ChannelType
    <3>3. Before(d, k, queue[d][k].seq) /\ k \in 1..(Len(queue[d]) + 1)
      BY <1>5, <3>1, <3>2 DEF IInv, AcksFollow
    <3>4. Grows(d)
      BY <1>2, <2>1 DEF Grows
    <3> QED
      BY <1>1, <1>2, <3>1, <3>2, <3>3, <3>4, Kept
  <2>2. CASE d = c
    <3>1. /\ k + 1 \in 1..Len(queue[c]) /\ queue'[c][k] = queue[c][k + 1]
          /\ k \in 1..(Len(queue'[c]) + 1)
      BY <1>2, <1>3, <1>5, <2>2
    <3>2. Before(c, k + 1, queue[c][k + 1].seq) /\ queue[c][k + 1].seq \in Nat
      BY <1>3, <1>5, <2>2, <3>1 DEF IInv, AcksFollow
    <3> QED
      BY <1>2, <2>2, <3>1, <3>2
  <2> QED
    BY <2>1, <2>2
<1>6. Registered' /\ Authors'
  BY <1>1 DEF IInv, Registered, Authors
<1>7. OnItsWay'
  <2>1. \A d \in Conns : Coming(d, seq) => Coming(d, seq)'
    BY <1>1 DEF Coming
  <2>2. ASSUME NEW d \in Conns, open'[d]
        PROVE  /\ phase'[d] \in {"staged", "admitted"} => SentNext(d, snap[d])
               /\ d \in clients /\ phase'[d] = "catching" =>
                     snap[d] >= seq \/ SentNext(d, seq) \/ Coming(d, seq)'
               /\ d \in clients /\ phase'[d] = "live" => SentNext(d, seq) \/ Coming(d, seq)'
    <3>1. snap[d] \in Nat
      BY <1>1
    <3> QED
      BY <1>1, <1>4, <2>1, <2>2, <3>1 DEF IInv, OnItsWay
  <2> QED
    BY <1>1, <2>2 DEF OnItsWay, Sent, Before, SentNext, BeforeNext
<1>8. AcksFollow'
  <2>1. ASSUME NEW d \in Conns, open'[d]
        PROVE  /\ job'[d].at = "sending" => d \in job'[d].todo \/ SentNext(d, job'[d].seq)
               /\ job'[d].at = "acking" => SentNext(d, job'[d].seq)
    <3>1. job[d].seq \in Nat
      BY <1>1, JobAt DEF Procs
    <3>2. /\ job[d].at = "sending" => d \in job[d].todo \/ Sent(d, job[d].seq)
          /\ job[d].at = "acking" => Sent(d, job[d].seq)
      BY <1>1, <2>1 DEF IInv, AcksFollow
    <3> QED
      BY <1>1, <1>4, <3>1, <3>2
  <2> QED
    BY <1>1, <1>5, <2>1 DEF AcksFollow, Sent, Before, SentNext, BeforeNext
<1>9. BroadcastsReachOpenChannels' /\ WaitedForEveryPump'
  BY <1>1 DEF IInv, BroadcastsReachOpenChannels, WaitedForEveryPump
<1> QED
  BY <1>6, <1>7, <1>8, <1>9 DEF IInv

-----------------------------------------------------------------------------
LEMMA IInvStep ==
    ASSUME IInv, [Next]_vars
    PROVE  IInv'
<1>1. TypeOK'
  BY TypeStep DEF IInv
<1>2. CASE UNCHANGED vars
  BY <1>1, <1>2, QuietStep DEF IInv, WaitedForEveryPump, vars, conn, tab, lobby
<1>3. ASSUME NEW t \in Tabs, NEW c \in Conns, Dial(t, c)
      PROVE  IInv'
  BY <1>1, <1>3, DialStep
<1>4. ASSUME NEW c \in Conns, Handshake(c)
      PROVE  IInv'
  BY <1>1, <1>4, AdmitStep, PumpsStartStep, CatchUpStep, StageCatchUpStep DEF Handshake
<1>5. ASSUME NEW c \in Conns, Answer(c)
      PROVE  IInv'
  BY <1>1, <1>5, ReadFrameStep, AnswerStep DEF Answer
<1>6. ASSUME NEW c \in Conns, Deliver(c) \/ ReadPumpExits(c) \/ CloseAndDrop(c)
      PROVE  IInv'
  BY <1>1, <1>6, DeliverStep, ReadPumpExitsStep, CloseStep
<1>7. ASSUME NEW p \in Procs, Commit(p) \/ RefreshPresence(p) \/ Broadcast(p)
      PROVE  IInv'
  BY <1>1, <1>7, CommitStep, RefreshStep, BeginBroadcastStep, SendToStep, EndBroadcastStep
     DEF Broadcast
<1>8. ASSUME NEW t \in Tabs,
             NetworkDrops(t) \/ TabSeesClose(t) \/ EvictSeat(t) \/ EvictSpectator(t)
      PROVE  IInv'
  BY <1>1, <1>8, LobbyStep
<1>9. CASE BeginShutdown \/ PumpsDrained \/ ShutdownTimesOut
  BY <1>1, <1>9, ShutdownStep
<1> QED
  BY <1>2, <1>3, <1>4, <1>5, <1>6, <1>7, <1>8, <1>9 DEF Next

LEMMA Invariant == Spec => []IInv
<1>1. Init => IInv
  BY IInvInit
<1>2. IInv /\ [Next]_vars => IInv'
  BY IInvStep
<1> QED
  BY <1>1, <1>2, PTL DEF Spec

(* Every connection whose pumps run is current or about to be: admission,  *)
(* the look back and the broadcasts leave no gap a commit can fall into.   *)
THEOREM NewestIsOnItsWayAlways == Spec => []NewestIsOnItsWay
<1>1. IInv => NewestIsOnItsWay
  BY DEF IInv, TypeOK, OnItsWay, NewestIsOnItsWay, Sent
<1> QED
  BY <1>1, Invariant, PTL

(* An ack is never read before a snapshot that holds the action it acks.   *)
THEOREM AckComesAfterItsStateAlways == Spec => []AckComesAfterItsState
<1>1. IInv => AckComesAfterItsState
  BY DEF IInv, AcksFollow, AckComesAfterItsState
<1> QED
  BY <1>1, Invariant, PTL

(* A broadcast sends to registered clients only: none unregisters in it.   *)
THEOREM BroadcastsReachOpenChannelsAlways == Spec => []BroadcastsReachOpenChannels
<1>1. IInv => BroadcastsReachOpenChannels
  BY DEF IInv
<1> QED
  BY <1>1, Invariant, PTL

(* Once Shutdown has waited for the pumps, none runs and none starts.      *)
THEOREM WaitedForEveryPumpAlways == Spec => []WaitedForEveryPump
<1>1. IInv => WaitedForEveryPump
  BY DEF IInv
<1> QED
  BY <1>1, Invariant, PTL
=============================================================================
