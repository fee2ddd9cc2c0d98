------------------------------ MODULE Delivery ------------------------------
(***************************************************************************)
(* How the state of one table reaches the browsers watching it: ServeWS's  *)
(* handshake, the hub's set of clients and its lock, broadcasts that run   *)
(* after the room's lock is released, the bounded send channels, the       *)
(* closing of sockets from every side, and the browser's reading of what   *)
(* arrives.                                                                *)
(*                                                                         *)
(* A state of the table is its seq, within one restore generation.  The    *)
(* hub's lock is a readers-writer lock: broadcasts hold it for reading,    *)
(* side by side, from their first send to their last; whatever adds or     *)
(* removes a client needs it alone.                                        *)
(***************************************************************************)
EXTENDS Integers, Sequences, FiniteSets

CONSTANTS
    Tabs,        \* browser tabs, each the socket of one seat or spectator
    Spectators,  \* the tabs whose connections are read-only
    Conns,       \* connections (Client), each used once
    Callers,     \* goroutines that commit without a connection: bots, HTTP handlers
    None,        \* no connection
    SendCap,     \* capacity of a send channel (16 in the code)
    MaxSeq,      \* bound: commits in a behaviour
    MaxExtra     \* bound: presence refreshes and frames answered on the spot

ASSUME ActorsAssumption ==
    /\ Spectators \subseteq Tabs
    /\ Callers \cap Conns = {}
    /\ None \notin Conns
ASSUME SendCapAssumption == SendCap \in Nat \ {0}
ASSUME BoundsAssumption == MaxSeq \in Nat /\ MaxExtra \in Nat

Frame == [kind : {"snapshot", "ack", "note"}, seq : Nat]

(* Mutant: the frame is numbered one behind.                               *)
SnapshotOfBefore(s) == [kind |-> "snapshot", seq |-> s - 1]

Snapshot(s) == [kind |-> "snapshot", seq |-> s]
Ack(s) == [kind |-> "ack", seq |-> s]
Note == [kind |-> "note", seq |-> 0]  \* a pong, an error, a chat line

Procs == Conns \cup Callers
Job == [at : {"idle", "committed", "sending", "acking", "replying"},
        seq : Nat, todo : SUBSET Conns]
Idle == [at |-> "idle", seq |-> 0, todo |-> {}]

VARIABLES
    seq,       \* Room.seq
    extra,     \* counts to MaxExtra
    job,       \* what each read pump or caller is in the middle of
    phase,     \* how far each connection has come
    snap,      \* the seq of the snapshot ServeWS staged, or is about to
    owner,     \* the tab that dialled a connection
    clients,   \* Hub.clients
    queue,     \* Client.send
    open,      \* the server has not closed the connection's socket
    link,      \* the socket a tab holds
    shown,     \* highestSeq of a tab, the state it shows
    removed,   \* tabs whose seat or spectator session was removed from the table
    hub,       \* Hub.closed, and how far Shutdown has come
    panicked   \* a send on a closed channel ended the process

conn == <<phase, snap, owner>>
tab == <<link, shown>>
lobby == <<removed, hub>>
vars == <<seq, extra, job, conn, clients, queue, open, tab, lobby, panicked>>

Readers == {p \in Procs : job[p].at = "sending"}
Unlocked == Readers = {}
Pumping == {"admitted", "catching", "live", "aborted"}  \* counted in Hub.wg
SendClosed(c) == phase[c] \in Pumping \cup {"gone"} /\ c \notin clients
Heard(c) == owner[c] \in Tabs /\ link[owner[c]] = c

-----------------------------------------------------------------------------
Init ==
    /\ seq = 0 /\ extra = 0
    /\ job = [p \in Procs |-> Idle]
    /\ phase = [c \in Conns |-> "unused"]
    /\ snap = [c \in Conns |-> 0]
    /\ owner = [c \in Conns |-> None]
    /\ clients = {}
    /\ queue = [c \in Conns |-> <<>>]
    /\ open = [c \in Conns |-> FALSE]
    /\ link = [t \in Tabs |-> None]
    /\ shown = [t \in Tabs |-> 0]
    /\ removed = {}
    /\ hub = "up"
    /\ panicked = FALSE

(* Mutant: a frame that does not fit is dropped and the socket kept.       *)
SendRawDropping(c, f) ==
    /\ panicked' = SendClosed(c)
    /\ queue' = IF ~SendClosed(c) /\ Len(queue[c]) < SendCap
                  THEN [queue EXCEPT ![c] = Append(@, f)] ELSE queue
    /\ UNCHANGED open

(* sendRaw: a full channel closes the socket, and the frame is gone.  A    *)
(* send on a closed channel panics, which no one recovers in a read pump   *)
(* (in ServeWS somebody does: StageCatchUp).                               *)
SendRaw(c, f) ==
    IF SendClosed(c) THEN panicked' = TRUE /\ UNCHANGED <<queue, open>>
    ELSE /\ UNCHANGED panicked
         /\ IF Len(queue[c]) < SendCap
              THEN queue' = [queue EXCEPT ![c] = Append(@, f)] /\ UNCHANGED open
              ELSE open' = [open EXCEPT ![c] = FALSE] /\ UNCHANGED queue

-----------------------------------------------------------------------------
(* ServeWS up to admit: refused to a removed tab and once the hub closed;  *)
(* the initial snapshot is staged before anyone else can send to c.        *)
Dial(t, c) ==
    /\ phase[c] = "unused"
    /\ link[t] = None
    /\ t \notin removed
    /\ hub = "up"
    /\ phase' = [phase EXCEPT ![c] = "staged"]
    /\ owner' = [owner EXCEPT ![c] = t]
    /\ snap' = [snap EXCEPT ![c] = seq]
    /\ queue' = [queue EXCEPT ![c] = <<Snapshot(seq)>>]
    /\ open' = [open EXCEPT ![c] = TRUE]
    /\ link' = [link EXCEPT ![t] = c]
    /\ UNCHANGED <<seq, extra, job, clients, shown, lobby, panicked>>

(* Mutant: admit without the closed check.                                 *)
AdmitAlways(c) ==
    /\ phase[c] = "staged"
    /\ Unlocked
    /\ clients' = clients \cup {c}
    /\ phase' = [phase EXCEPT ![c] = "admitted"]
    /\ UNCHANGED <<seq, extra, job, snap, owner, queue, open, tab, lobby, panicked>>

(* admit: visible to broadcasts and counted in wg in one hold of the lock. *)
Admit(c) ==
    /\ phase[c] = "staged"
    /\ Unlocked
    /\ IF hub = "up"
         THEN /\ clients' = clients \cup {c}
              /\ phase' = [phase EXCEPT ![c] = "admitted"]
              /\ UNCHANGED open
         ELSE /\ phase' = [phase EXCEPT ![c] = "gone"]
              /\ open' = [open EXCEPT ![c] = FALSE]
              /\ UNCHANGED clients
    /\ UNCHANGED <<seq, extra, job, snap, owner, queue, tab, lobby, panicked>>

(* Mutant: no look back at what was committed before admit.                *)
PumpsStartBlind(c) ==
    /\ phase[c] = "admitted"
    /\ phase' = [phase EXCEPT ![c] = "live"]
    /\ snap' = [snap EXCEPT ![c] = 0]
    /\ UNCHANGED <<seq, extra, job, owner, clients, queue, open, tab, lobby, panicked>>

(* Nothing was committed since the staged snapshot: the pumps start.       *)
PumpsStart(c) ==
    /\ phase[c] = "admitted"
    /\ seq = snap[c]
    /\ phase' = [phase EXCEPT ![c] = "live"]
    /\ snap' = [snap EXCEPT ![c] = 0]
    /\ UNCHANGED <<seq, extra, job, owner, clients, queue, open, tab, lobby, panicked>>

(* Something was: the room is captured again ...                           *)
CatchUp(c) ==
    /\ phase[c] = "admitted"
    /\ seq > snap[c]
    /\ snap' = [snap EXCEPT ![c] = seq]
    /\ phase' = [phase EXCEPT ![c] = "catching"]
    /\ UNCHANGED <<seq, extra, job, owner, clients, queue, open, tab, lobby, panicked>>

(* ... and the frame sent, without the hub's lock.  The goroutine is still *)
(* the HTTP handler's, whose panics net/http recovers: a channel closed by *)
(* then aborts the handshake, with its pumps counted and never started.    *)
StageCatchUp(c) ==
    /\ phase[c] = "catching"
    /\ IF SendClosed(c)
         THEN /\ phase' = [phase EXCEPT ![c] = "aborted"]
              /\ UNCHANGED <<queue, open, panicked>>
         ELSE /\ SendRaw(c, Snapshot(snap[c]))
              /\ phase' = [phase EXCEPT ![c] = "live"]
    /\ snap' = [snap EXCEPT ![c] = 0]
    /\ UNCHANGED <<seq, extra, job, owner, clients, tab, lobby>>

-----------------------------------------------------------------------------
(* Mutant: the ack is sent before the broadcast, and only then the state.  *)
CommitAckFirst(p) ==
    /\ job[p].at = "idle"
    /\ p \in Conns => phase[p] = "live" /\ open[p] /\ owner[p] \notin Spectators
    /\ seq < MaxSeq
    /\ seq' = seq + 1
    /\ job' = [job EXCEPT ![p] = [at |-> IF p \in Conns THEN "acking" ELSE "committed",
                                  seq |-> seq + 1, todo |-> {}]]
    /\ UNCHANGED <<extra, conn, clients, queue, open, tab, lobby, panicked>>

(* A commit under the room's lock.  A read pump commits for its seat; a    *)
(* read-only connection is refused, which is a reply.                      *)
Commit(p) ==
    /\ job[p].at = "idle"
    /\ p \in Conns => phase[p] = "live" /\ open[p] /\ owner[p] \notin Spectators
    /\ seq < MaxSeq
    /\ seq' = seq + 1
    /\ job' = [job EXCEPT ![p] = [at |-> "committed", seq |-> seq + 1, todo |-> {}]]
    /\ UNCHANGED <<extra, conn, clients, queue, open, tab, lobby, panicked>>

(* RefreshPresence: the current state again, for a change that is no commit. *)
RefreshPresence(p) ==
    /\ p \in Callers
    /\ job[p].at = "idle"
    /\ extra < MaxExtra
    /\ extra' = extra + 1
    /\ job' = [job EXCEPT ![p] = [at |-> "committed", seq |-> seq, todo |-> {}]]
    /\ UNCHANGED <<seq, conn, clients, queue, open, tab, lobby, panicked>>

(* broadcastToRoom takes the hub's read lock.                              *)
BeginBroadcast(p) ==
    /\ job[p].at = "committed"
    /\ job' = [job EXCEPT ![p].at = "sending", ![p].todo = clients]
    /\ UNCHANGED <<seq, extra, conn, clients, queue, open, tab, lobby, panicked>>

(* The clients are ranged over in any order.                               *)
SendTo(p, c) ==
    /\ job[p].at = "sending"
    /\ c \in job[p].todo
    /\ SendRaw(c, Snapshot(job[p].seq))
    /\ job' = [job EXCEPT ![p].todo = @ \ {c}]
    /\ UNCHANGED <<seq, extra, conn, clients, tab, lobby>>

(* handleAction answers its own connection after the broadcast.            *)
EndBroadcast(p) ==
    /\ job[p].at = "sending"
    /\ job[p].todo = {}
    /\ job' = [job EXCEPT ![p] = IF p \in Conns THEN [@ EXCEPT !.at = "acking"] ELSE Idle]
    /\ UNCHANGED <<seq, extra, conn, clients, queue, open, tab, lobby, panicked>>

SendAck(c) ==
    /\ job[c].at = "acking"
    /\ SendRaw(c, Ack(job[c].seq))
    /\ job' = [job EXCEPT ![c] = Idle]
    /\ UNCHANGED <<seq, extra, conn, clients, tab, lobby>>

(* handleFrame of what is answered on the spot: a ping, a refused action.  *)
ReadFrame(c) ==
    /\ job[c].at = "idle"
    /\ phase[c] = "live"
    /\ open[c]
    /\ extra < MaxExtra
    /\ extra' = extra + 1
    /\ job' = [job EXCEPT ![c].at = "replying"]
    /\ UNCHANGED <<seq, conn, clients, queue, open, tab, lobby, panicked>>

Reply(c) ==
    /\ job[c].at = "replying"
    /\ SendRaw(c, Note)
    /\ job' = [job EXCEPT ![c] = Idle]
    /\ UNCHANGED <<seq, extra, conn, clients, tab, lobby>>

-----------------------------------------------------------------------------
(* The client's dispatchFrame ignores a snapshot older than the newest.    *)
Accept(t, f) == IF f.kind = "snapshot" /\ f.seq >= shown[t] THEN f.seq ELSE shown[t]

(* writePump sends the head of the channel and the tab reads it.           *)
Deliver(c) ==
    /\ phase[c] = "live"
    /\ open[c]
    /\ Heard(c)
    /\ queue[c] # <<>>
    /\ queue' = [queue EXCEPT ![c] = Tail(@)]
    /\ shown' = [shown EXCEPT ![owner[c]] = Accept(owner[c], Head(queue[c]))]
    /\ UNCHANGED <<seq, extra, job, conn, clients, open, link, lobby, panicked>>

(* The network goes, or the person closes the tab for a while.             *)
NetworkDrops(t) ==
    /\ link[t] # None
    /\ link' = [link EXCEPT ![t] = None]
    /\ UNCHANGED <<seq, extra, job, conn, clients, queue, open, shown, lobby, panicked>>

(* The tab sees its socket closed by the server.                           *)
TabSeesClose(t) ==
    /\ link[t] # None
    /\ ~open[link[t]]
    /\ link' = [link EXCEPT ![t] = None]
    /\ UNCHANGED <<seq, extra, job, conn, clients, queue, open, shown, lobby, panicked>>

(* Mutant: unregister without the hub's lock.                              *)
UnregisterUnlocked(c) ==
    /\ phase[c] = "live"
    /\ job[c].at = "idle"
    /\ ~open[c] \/ ~Heard(c)
    /\ clients' = clients \ {c}
    /\ phase' = [phase EXCEPT ![c] = "gone"]
    /\ open' = [open EXCEPT ![c] = FALSE]
    /\ queue' = [queue EXCEPT ![c] = <<>>]
    /\ UNCHANGED <<seq, extra, job, snap, owner, tab, lobby, panicked>>

(* readPump ends, between two frames: its socket is closed on one side.    *)
(* unregister closes the send channel.                                     *)
ReadPumpExits(c) ==
    /\ phase[c] = "live"
    /\ job[c].at = "idle"
    /\ ~open[c] \/ ~Heard(c)
    /\ Unlocked
    /\ clients' = clients \ {c}
    /\ phase' = [phase EXCEPT ![c] = "gone"]
    /\ open' = [open EXCEPT ![c] = FALSE]
    /\ queue' = [queue EXCEPT ![c] = <<>>]
    /\ UNCHANGED <<seq, extra, job, snap, owner, tab, lobby, panicked>>

-----------------------------------------------------------------------------
Victims(t) == {c \in clients : owner[c] = t}
Closed(cs) == [c \in Conns |-> open[c] /\ c \notin cs]

(* removeSeat: the session is refused, then EvictSeat closes its sockets   *)
(* and leaves the rest to their read pumps, as the other evictions do.     *)
EvictSeat(t) ==
    /\ t \in Tabs \ (Spectators \cup removed)
    /\ removed' = removed \cup {t}
    /\ open' = Closed(Victims(t))
    /\ UNCHANGED <<seq, extra, job, conn, clients, queue, tab, hub, panicked>>

(* removeSpectator, of a session with a live socket: EvictSpectator also   *)
(* unregisters the victims, from the goroutine of the request.             *)
EvictSpectator(t) ==
    /\ t \in Spectators \ removed
    /\ Victims(t) # {}
    /\ Unlocked
    /\ removed' = removed \cup {t}
    /\ clients' = clients \ Victims(t)
    /\ open' = Closed(Victims(t))
    /\ UNCHANGED <<seq, extra, job, conn, queue, tab, hub, panicked>>

(* Shutdown: no one is admitted any more, ...                              *)
BeginShutdown ==
    /\ hub = "up"
    /\ Unlocked
    /\ hub' = "closing"
    /\ UNCHANGED <<seq, extra, job, conn, clients, queue, open, tab, removed, panicked>>

(* ... every client is closed ...                                          *)
CloseAndDrop(c) ==
    /\ hub = "closing"
    /\ c \in clients
    /\ open[c]
    /\ open' = Closed({c})
    /\ UNCHANGED <<seq, extra, job, conn, clients, queue, tab, lobby, panicked>>

(* ... and the pumps are waited for, or the time runs out.                 *)
PumpsDrained ==
    /\ hub = "closing"
    /\ \A c \in Conns : phase[c] \notin Pumping
    /\ hub' = "drained"
    /\ UNCHANGED <<seq, extra, job, conn, clients, queue, open, tab, removed, panicked>>

ShutdownTimesOut ==
    /\ hub = "closing"
    /\ hub' = "timed out"
    /\ UNCHANGED <<seq, extra, job, conn, clients, queue, open, tab, removed, panicked>>

-----------------------------------------------------------------------------
Handshake(c) == Admit(c) \/ PumpsStart(c) \/ CatchUp(c) \/ StageCatchUp(c)
Broadcast(p) == BeginBroadcast(p) \/ (\E c \in Conns : SendTo(p, c)) \/ EndBroadcast(p)
Answer(c) == ReadFrame(c) \/ Reply(c) \/ SendAck(c)

Next ==
    /\ ~panicked
    /\ \/ \E t \in Tabs, c \in Conns : Dial(t, c)
       \/ \E c \in Conns : Handshake(c) \/ Answer(c) \/ Deliver(c) \/ ReadPumpExits(c)
       \/ \E p \in Procs : Commit(p) \/ RefreshPresence(p) \/ Broadcast(p)
       \/ \E t \in Tabs : NetworkDrops(t) \/ TabSeesClose(t) \/ EvictSeat(t) \/ EvictSpectator(t)
       \/ BeginShutdown \/ PumpsDrained \/ ShutdownTimesOut
       \/ \E c \in Conns : CloseAndDrop(c)

Spec == Init /\ [][Next]_vars

(* Goroutines are scheduled, and a write pump writes while its socket is   *)
(* up.  A writer waiting for the hub's lock keeps new readers out, so what *)
(* needs it alone is not overtaken forever.                                *)
FairSpec ==
    /\ Spec
    /\ \A p \in Procs : WF_vars(~panicked /\ Broadcast(p))
    /\ \A c \in Conns : /\ SF_vars(~panicked /\ Admit(c))
                        /\ WF_vars(~panicked /\ (PumpsStart(c) \/ CatchUp(c)))
                        /\ WF_vars(~panicked /\ StageCatchUp(c))
                        /\ WF_vars(~panicked /\ (Reply(c) \/ SendAck(c)))
                        /\ WF_vars(~panicked /\ Deliver(c))

-----------------------------------------------------------------------------
TypeOK ==
    /\ seq \in Nat /\ extra \in Nat
    /\ job \in [Procs -> Job]
    /\ phase \in [Conns -> {"unused", "staged", "gone"} \cup Pumping]
    /\ snap \in [Conns -> Nat]
    /\ owner \in [Conns -> Tabs \cup {None}]
    /\ clients \subseteq Conns
    /\ queue \in [Conns -> Seq(Frame)]
    /\ open \in [Conns -> BOOLEAN]
    /\ link \in [Tabs -> Conns \cup {None}]
    /\ shown \in [Tabs -> Nat]
    /\ removed \subseteq Tabs
    /\ hub \in {"up", "closing", "drained", "timed out"}
    /\ panicked \in BOOLEAN

(* A snapshot of state n or a later one is before place k of c's channel,  *)
(* or has been read from it.                                               *)
Before(c, k, n) ==
    \/ owner[c] \in Tabs /\ shown[owner[c]] >= n
    \/ \E i \in 1..(k - 1) : queue[c][i].kind = "snapshot" /\ queue[c][i].seq >= n

(* A broadcast of state n or a later one has still to reach c.             *)
Coming(c, n) ==
    \E p \in Procs : /\ job[p].seq >= n
                     /\ job[p].at = "committed" \/ (job[p].at = "sending" /\ c \in job[p].todo)

(* Every connection whose pumps run is current or about to be: the newest  *)
(* state is shown, queued, or in a broadcast that will reach it.  No commit *)
(* falls between the staged snapshot, the admission and the catch-up, and  *)
(* a client that cannot keep up loses its socket rather than a state.      *)
NewestIsOnItsWay ==
    \A c \in clients :
        phase[c] = "live" /\ open[c] => Before(c, Len(queue[c]) + 1, seq) \/ Coming(c, seq)

(* An ack is never read before a snapshot that holds the action it acks.   *)
AckComesAfterItsState ==
    \A c \in Conns : open[c] =>
        \A k \in 1..Len(queue[c]) :
            queue[c][k].kind = "ack" => Before(c, k, queue[c][k].seq)

(* A broadcast sends to registered clients only, whose channels are open:  *)
(* no one unregisters in the middle of one.                                *)
BroadcastsReachOpenChannels ==
    \A p \in Procs : job[p].at = "sending" => job[p].todo \subseteq clients

(* Once Shutdown has seen every pump end, none starts again: a connection  *)
(* is registered and counted in one step, or refused.                      *)
WaitedForEveryPump == hub = "drained" => \A c \in Conns : phase[c] \notin Pumping

(* Every state reaches every tab that stays connected: it comes to show    *)
(* that state or a newer one, or its socket closes.                        *)
Connected(c) == phase[c] \in Pumping \cup {"staged"} /\ open[c] /\ Heard(c)
EveryCommitIsShown ==
    \A c \in Conns, k \in 1..MaxSeq :
        (Connected(c) /\ seq = k) ~> (~Connected(c) \/ shown[owner[c]] >= k)

(* "A spectator is not in the game, so removing one changes nothing a      *)
(* player can see or lose" (spectators.go): it does not end the process,   *)
(* and every table with it, by a send on the channel it closed.            *)
RemovingAWatcherStopsNoOne == ~panicked
=============================================================================
