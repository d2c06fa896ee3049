------------------------------ MODULE Gateway -------------------------------
(***************************************************************************)
(* The WebSocket gateway: the Hub's goroutine, the broadcast loop of       *)
(* cmd/server, and for every connection the handler that upgrades it and   *)
(* its ReadPump and WritePump goroutines.                                  *)
(*                                                                         *)
(* An action is what one goroutine does between two points where another   *)
(* can observe it: a channel operation, a socket operation or a section    *)
(* under the Hub's mutex.  A snapshot is named by its place in the order   *)
(* in which the broadcast queue accepts snapshots, a response by the       *)
(* number of the request it answers; their contents are left out.          *)
(***************************************************************************)
EXTENDS Naturals, Sequences, FiniteSets

CONSTANTS Conns,      \* connections; each is upgraded at most once
          SendCap,    \* capacity of a connection's send channel
          QueueCap,   \* capacity of the Hub's broadcast channel
          MaxTicks,   \* bound: ticks of the broadcast loop
          MaxReqs     \* bound: requests read from one connection

ASSUME ConnsAssumption  == IsFiniteSet(Conns)
ASSUME BoundsAssumption == /\ SendCap \in Nat \ {0} /\ QueueCap \in Nat \ {0}
                           /\ MaxTicks \in Nat /\ MaxReqs \in Nat

VARIABLES
  ctx,        \* the root context has been cancelled
  hub,        \* Hub.Run: "select", "fanout" (inside the broadcast case), "counting" (conns
              \* has changed and the mutex is not yet taken to say so), "stopped"
  data, todo, \* the snapshot being fanned out and the connections still to visit
  conns,      \* Hub.conns
  count,      \* Hub.count, the copy of len(conns) that other goroutines read
  broadcast,  \* contents of the Hub.broadcast channel
  loop,       \* broadcastLoop: "idle", "build" (past the Count check), "done"
  ticks,      \* ticks of broadcastLoop so far
  published,  \* snapshots accepted by Hub.broadcast so far (history)
  server,     \* handleWS: "none", "registering", "starting", "returned"
  reader,     \* ReadPump: "none", "reading", "handling", "unregistering", "closing", "done"
  writer,     \* WritePump: "none", "select", "writing", "done"
  hold,       \* what WritePump took from send and is writing (a sequence of length 0 or 1)
  send,       \* contents of Conn.send
  open,       \* Conn.send has not been closed
  ws,         \* the socket has not been closed on this side
  gone,       \* the peer left, or no pong arrived within pongWait
  reqs,       \* requests read so far
  dropped,    \* requests whose response sendMsg discarded (history)
  panicked,   \* sendMsg panicked on the closed send channel (history)
  answered,   \* the last request whose response was written to the socket (history)
  seen        \* the last snapshot written to the socket (history)

hubVars  == <<hub, data, todo, conns, count, broadcast>>
loopVars == <<loop, ticks, published>>
pumpVars == <<server, reader, writer, hold, ws, gone>>
chanVars == <<send, open>>
reqVars  == <<reqs, dropped, panicked>>
wireVars == <<answered, seen>>
vars == <<ctx, hubVars, loopVars, pumpVars, chanVars, reqVars, wireVars>>

Snap(n) == [kind |-> "snapshot", n |-> n]
Resp(n) == [kind |-> "response", n |-> n]
Message == [kind : {"snapshot", "response"}, n : Nat]

\* Snapshots the Hub has taken from its broadcast channel.
Dequeued == published - Len(broadcast)

Init ==
  /\ ctx = FALSE
  /\ hub = "select" /\ data = 0 /\ todo = {}
  /\ conns = {} /\ count = 0 /\ broadcast = <<>>
  /\ loop = "idle" /\ ticks = 0 /\ published = 0
  /\ server = [c \in Conns |-> "none"]
  /\ reader = [c \in Conns |-> "none"]
  /\ writer = [c \in Conns |-> "none"]
  /\ hold = [c \in Conns |-> <<>>]
  /\ send = [c \in Conns |-> <<>>]
  /\ open = [c \in Conns |-> TRUE]
  /\ ws = [c \in Conns |-> FALSE]
  /\ gone = [c \in Conns |-> FALSE]
  /\ reqs = [c \in Conns |-> 0]
  /\ dropped = [c \in Conns |-> {}]
  /\ panicked = [c \in Conns |-> FALSE]
  /\ answered = [c \in Conns |-> 0]
  /\ seen = [c \in Conns |-> 0]

-----------------------------------------------------------------------------
(* Server.handleWS and the context *)

\* SIGINT, SIGTERM or a failed listener cancels the root context.
Cancel ==
  /\ ~ctx
  /\ ctx' = TRUE
  /\ UNCHANGED <<hubVars, loopVars, pumpVars, chanVars, reqVars, wireVars>>

\* Mistake: the pumps are started before the registration.
UpgradePumpsFirst(c) ==
  /\ server[c] = "none"
  /\ server' = [server EXCEPT ![c] = "registering"]
  /\ ws' = [ws EXCEPT ![c] = TRUE]
  /\ reader' = [reader EXCEPT ![c] = "reading"]
  /\ writer' = [writer EXCEPT ![c] = "select"]
  /\ UNCHANGED <<ctx, hubVars, loopVars, hold, gone, chanVars, reqVars, wireVars>>

\* The upgrade succeeds; handleWS now blocks on the unbuffered register channel.
Upgrade(c) ==
  /\ server[c] = "none"
  /\ server' = [server EXCEPT ![c] = "registering"]
  /\ ws' = [ws EXCEPT ![c] = TRUE]
  /\ UNCHANGED <<ctx, hubVars, loopVars, reader, writer, hold, gone, chanVars, reqVars, wireVars>>

\* The two pumps start only after the Hub took the registration.
StartPumps(c) ==
  /\ server[c] = "starting"
  /\ server' = [server EXCEPT ![c] = "returned"]
  /\ reader' = [reader EXCEPT ![c] = "reading"]
  /\ writer' = [writer EXCEPT ![c] = "select"]
  /\ UNCHANGED <<ctx, hubVars, loopVars, hold, ws, gone, chanVars, reqVars, wireVars>>

\* The client disconnects, or stops answering pings (later than this nobody looks).
PeerLeaves(c) ==
  /\ server[c] # "none" /\ ~gone[c]
  /\ reader[c] \in {"none", "reading", "handling"}
  /\ gone' = [gone EXCEPT ![c] = TRUE]
  /\ UNCHANGED <<ctx, hubVars, loopVars, server, reader, writer, hold, ws, chanVars, reqVars, wireVars>>

-----------------------------------------------------------------------------
(* Hub.Run: one case of the select at a time *)

\* The Hub goes on with the fan-out it is in, if any, or returns to its select.
Proceed == hub' = IF todo' = {} THEN "select" ELSE "fanout"

\* Mistake: the Hub takes in a connection without counting again.
HubRegisterUncounted(c) ==
  /\ hub = "select"
  /\ server[c] = "registering"
  /\ conns' = conns \cup {c}
  /\ server' = [server EXCEPT ![c] = "starting"]
  /\ seen' = [seen EXCEPT ![c] = Dequeued]
  /\ UNCHANGED <<ctx, hub, data, todo, count, broadcast, loopVars, reader, writer, hold, ws, gone,
                 chanVars, reqVars, answered>>

HubRegister(c) ==
  /\ hub = "select"
  /\ server[c] = "registering"
  /\ conns' = conns \cup {c}
  /\ hub' = "counting"
  /\ server' = [server EXCEPT ![c] = "starting"]
  /\ seen' = [seen EXCEPT ![c] = Dequeued]
  /\ UNCHANGED <<ctx, data, todo, count, broadcast, loopVars, reader, writer, hold, ws, gone,
                 chanVars, reqVars, answered>>

\* The Hub closes the send channel of a member and forgets it; the count comes later.
Expel(c) ==
  /\ conns' = conns \ {c}
  /\ open' = [open EXCEPT ![c] = FALSE]
  /\ hub' = "counting"

\* The rendezvous with ReadPump's deferred send.  A connection that was already
\* kicked is not in conns and must not be closed a second time.
HubUnregister(c) ==
  /\ hub = "select"
  /\ reader[c] = "unregistering"
  /\ reader' = [reader EXCEPT ![c] = "closing"]
  /\ \/ c \in conns /\ Expel(c)
     \/ c \notin conns /\ UNCHANGED <<hub, conns, open>>
  /\ UNCHANGED <<ctx, data, todo, count, broadcast, loopVars, server, writer, hold, ws, gone,
                 send, reqVars, wireVars>>

\* The critical section that ends a change of conns.
HubCount ==
  /\ hub = "counting"
  /\ count' = Cardinality(conns)
  /\ todo' = todo
  /\ Proceed
  /\ UNCHANGED <<ctx, data, conns, broadcast, loopVars, pumpVars, chanVars, reqVars, wireVars>>

HubTakeBroadcast ==
  /\ hub = "select"
  /\ broadcast # <<>>
  /\ data' = Head(broadcast)
  /\ broadcast' = Tail(broadcast)
  /\ todo' = conns
  /\ Proceed
  /\ UNCHANGED <<ctx, conns, count, loopVars, pumpVars, chanVars, reqVars, wireVars>>

\* The iteration over conns visits c next; it ends when every connection was visited.
Visit(c) ==
  /\ hub = "fanout"
  /\ c \in todo
  /\ todo' = todo \ {c}

\* Mistake: the send channel is taken to be unbounded.
FanoutSendUnbounded(c) ==
  /\ Visit(c) /\ Proceed
  /\ send' = [send EXCEPT ![c] = Append(@, Snap(data))]
  /\ UNCHANGED <<ctx, data, conns, count, broadcast, loopVars, pumpVars, open, reqVars, wireVars>>

FanoutSend(c) ==
  /\ Visit(c) /\ Proceed
  /\ Len(send[c]) < SendCap
  /\ send' = [send EXCEPT ![c] = Append(@, Snap(data))]
  /\ UNCHANGED <<ctx, data, conns, count, broadcast, loopVars, pumpVars, open, reqVars, wireVars>>

\* Three mistakes about a slow client: it stays a member, its channel stays open, or the
\* snapshot is merely skipped.
FanoutKickKeepsMember(c) ==
  /\ Visit(c) /\ Proceed
  /\ Len(send[c]) = SendCap
  /\ open' = [open EXCEPT ![c] = FALSE]
  /\ UNCHANGED <<ctx, conns, count, data, broadcast, loopVars, pumpVars, send, reqVars, wireVars>>

FanoutKickNoClose(c) ==
  /\ Visit(c)
  /\ Len(send[c]) = SendCap
  /\ conns' = conns \ {c}
  /\ hub' = "counting"
  /\ UNCHANGED <<ctx, count, data, broadcast, loopVars, pumpVars, chanVars, reqVars, wireVars>>

FanoutSkips(c) ==
  /\ Visit(c) /\ Proceed
  /\ Len(send[c]) = SendCap
  /\ UNCHANGED <<ctx, conns, count, data, broadcast, loopVars, pumpVars, chanVars, reqVars, wireVars>>

\* The send channel is full: the slow client is kicked.
FanoutKick(c) ==
  /\ Visit(c)
  /\ Len(send[c]) = SendCap
  /\ Expel(c)
  /\ UNCHANGED <<ctx, data, count, broadcast, loopVars, pumpVars, send, reqVars, wireVars>>

HubStop ==
  /\ hub = "select" /\ ctx
  /\ hub' = "stopped"
  /\ UNCHANGED <<ctx, data, todo, conns, count, broadcast, loopVars, pumpVars, chanVars, reqVars, wireVars>>

-----------------------------------------------------------------------------
(* broadcastLoop *)

\* A tick first reads Hub.Count and is skipped when nobody is connected.
LoopTick ==
  /\ loop = "idle" /\ ticks < MaxTicks
  /\ ticks' = ticks + 1
  /\ loop' = IF count = 0 THEN "idle" ELSE "build"
  /\ UNCHANGED <<ctx, hubVars, published, pumpVars, chanVars, reqVars, wireVars>>

\* Two mistakes about a full broadcast channel: block, or discard the oldest snapshot.
LoopBroadcastBlocks ==
  /\ loop = "build"
  /\ Len(broadcast) < QueueCap
  /\ loop' = "idle"
  /\ published' = published + 1
  /\ broadcast' = Append(broadcast, published + 1)
  /\ UNCHANGED <<ctx, hub, data, todo, conns, count, ticks, pumpVars, chanVars, reqVars, wireVars>>

LoopBroadcastDropsOldest ==
  /\ loop = "build"
  /\ loop' = "idle"
  /\ published' = published + 1
  /\ broadcast' = Append(IF Len(broadcast) < QueueCap THEN broadcast ELSE Tail(broadcast), published + 1)
  /\ UNCHANGED <<ctx, hub, data, todo, conns, count, ticks, pumpVars, chanVars, reqVars, wireVars>>

\* Hub.Broadcast: the snapshot is discarded when the channel is full.
LoopBroadcast ==
  /\ loop = "build"
  /\ loop' = "idle"
  /\ IF Len(broadcast) < QueueCap
     THEN /\ published' = published + 1
          /\ broadcast' = Append(broadcast, published + 1)
     ELSE UNCHANGED <<published, broadcast>>
  /\ UNCHANGED <<ctx, hub, data, todo, conns, count, ticks, pumpVars, chanVars, reqVars, wireVars>>

LoopStop ==
  /\ loop = "idle" /\ ctx
  /\ loop' = "done"
  /\ UNCHANGED <<ctx, hubVars, ticks, published, pumpVars, chanVars, reqVars, wireVars>>

-----------------------------------------------------------------------------
(* Conn.ReadPump *)

ReadRequest(c) ==
  /\ reader[c] = "reading" /\ ws[c] /\ ~gone[c]
  /\ reqs[c] < MaxReqs
  /\ reqs' = [reqs EXCEPT ![c] = @ + 1]
  /\ reader' = [reader EXCEPT ![c] = "handling"]
  /\ UNCHANGED <<ctx, hubVars, loopVars, server, writer, hold, ws, gone, chanVars, dropped, panicked, wireVars>>

\* The handler ends in one call of sendMsg, which never blocks.
Answer(c) ==
  /\ reader[c] = "handling" /\ open[c]
  /\ Len(send[c]) < SendCap
  /\ send' = [send EXCEPT ![c] = Append(@, Resp(reqs[c]))]
  /\ reader' = [reader EXCEPT ![c] = "reading"]
  /\ UNCHANGED <<ctx, hubVars, loopVars, server, writer, hold, ws, gone, open, reqVars, wireVars>>

\* Mistake: a full channel makes room by giving up its oldest message.
AnswerDropsOldest(c) ==
  /\ reader[c] = "handling" /\ open[c]
  /\ Len(send[c]) = SendCap
  /\ send' = [send EXCEPT ![c] = Append(Tail(@), Resp(reqs[c]))]
  /\ reader' = [reader EXCEPT ![c] = "reading"]
  /\ UNCHANGED <<ctx, hubVars, loopVars, server, writer, hold, ws, gone, open, reqVars, wireVars>>

AnswerDropped(c) ==
  /\ reader[c] = "handling" /\ open[c]
  /\ Len(send[c]) = SendCap
  /\ dropped' = [dropped EXCEPT ![c] = @ \cup {reqs[c]}]
  /\ reader' = [reader EXCEPT ![c] = "reading"]
  /\ UNCHANGED <<ctx, hubVars, loopVars, server, writer, hold, ws, gone, chanVars, reqs, panicked, wireVars>>

\* The Hub closed the channel while the handler ran: sendMsg panics, ReadPump recovers and leaves.
AnswerPanics(c) ==
  /\ reader[c] = "handling" /\ ~open[c]
  /\ panicked' = [panicked EXCEPT ![c] = TRUE]
  /\ reader' = [reader EXCEPT ![c] = "unregistering"]
  /\ UNCHANGED <<ctx, hubVars, loopVars, server, writer, hold, ws, gone, chanVars, reqs, dropped, wireVars>>

ReadFails(c) ==
  /\ reader[c] = "reading"
  /\ gone[c] \/ ~ws[c]
  /\ reader' = [reader EXCEPT ![c] = "unregistering"]
  /\ UNCHANGED <<ctx, hubVars, loopVars, server, writer, hold, ws, gone, chanVars, reqVars, wireVars>>

ReaderCloses(c) ==
  /\ reader[c] = "closing"
  /\ reader' = [reader EXCEPT ![c] = "done"]
  /\ ws' = [ws EXCEPT ![c] = FALSE]
  /\ UNCHANGED <<ctx, hubVars, loopVars, server, writer, hold, gone, chanVars, reqVars, wireVars>>

-----------------------------------------------------------------------------
(* Conn.WritePump *)

\* A closed channel still delivers what it holds.
WriterTake(c) ==
  /\ writer[c] = "select" /\ send[c] # <<>>
  /\ hold' = [hold EXCEPT ![c] = <<Head(send[c])>>]
  /\ send' = [send EXCEPT ![c] = Tail(@)]
  /\ writer' = [writer EXCEPT ![c] = "writing"]
  /\ UNCHANGED <<ctx, hubVars, loopVars, server, reader, ws, gone, open, reqVars, wireVars>>

WriteSucceeds(c) ==
  /\ writer[c] = "writing" /\ ws[c]
  /\ writer' = [writer EXCEPT ![c] = "select"]
  /\ hold' = [hold EXCEPT ![c] = <<>>]
  /\ IF hold[c][1].kind = "snapshot"
     THEN seen' = [seen EXCEPT ![c] = hold[c][1].n] /\ UNCHANGED answered
     ELSE answered' = [answered EXCEPT ![c] = hold[c][1].n] /\ UNCHANGED seen
  /\ UNCHANGED <<ctx, hubVars, loopVars, server, reader, ws, gone, chanVars, reqVars>>

\* WritePump returns: its deferred function closes the socket.
WriterExits(c) ==
  /\ writer' = [writer EXCEPT ![c] = "done"]
  /\ hold' = [hold EXCEPT ![c] = <<>>]
  /\ ws' = [ws EXCEPT ![c] = FALSE]
  /\ UNCHANGED <<ctx, hubVars, loopVars, server, reader, gone, chanVars, reqVars, wireVars>>

\* The socket is closed or broken, or the peer did not take the data within writeWait.
WriteFails(c) == writer[c] = "writing" /\ WriterExits(c)

PingFails(c) == writer[c] = "select" /\ WriterExits(c)

\* The closed channel is drained: a Close frame is written and the pump returns.
WriterSeesClosed(c) ==
  /\ writer[c] = "select" /\ send[c] = <<>> /\ ~open[c]
  /\ WriterExits(c)

-----------------------------------------------------------------------------
HubStep ==
  \/ \E c \in Conns : HubRegister(c) \/ HubUnregister(c) \/ FanoutSend(c) \/ FanoutKick(c)
  \/ HubTakeBroadcast
  \/ HubCount
  \/ HubStop

LoopStep == LoopTick \/ LoopBroadcast \/ LoopStop

ReaderStep(c) ==
  \/ ReadRequest(c) \/ Answer(c) \/ AnswerDropped(c) \/ AnswerPanics(c)
  \/ ReadFails(c) \/ ReaderCloses(c)

WriterStep(c) ==
  \/ WriterTake(c) \/ WriteSucceeds(c) \/ WriteFails(c) \/ PingFails(c) \/ WriterSeesClosed(c)

Next ==
  \/ Cancel
  \/ HubStep
  \/ LoopStep
  \/ \E c \in Conns : Upgrade(c) \/ StartPumps(c) \/ PeerLeaves(c) \/ ReaderStep(c) \/ WriterStep(c)

Spec == Init /\ [][Next]_vars

\* Every goroutine that can run eventually does.  Go's select chooses at random among
\* its ready cases, so a case of the Hub's select that is ready again and again is
\* eventually taken.  Clients and the signal owe nothing.
Fairness ==
  /\ \A c \in Conns :
       /\ WF_vars(StartPumps(c))
       /\ WF_vars(Answer(c) \/ AnswerDropped(c) \/ AnswerPanics(c))
       /\ WF_vars(ReadFails(c))
       /\ WF_vars(ReaderCloses(c))
       /\ WF_vars(WriterTake(c) \/ WriterSeesClosed(c))
       /\ WF_vars(WriteSucceeds(c) \/ WriteFails(c))
       /\ WF_vars(FanoutSend(c) \/ FanoutKick(c))
       /\ SF_vars(HubRegister(c))
       /\ SF_vars(HubUnregister(c))
  /\ WF_vars(HubCount)
  /\ SF_vars(HubTakeBroadcast)
  /\ SF_vars(HubStop)
  /\ WF_vars(LoopBroadcast)
  /\ SF_vars(LoopStop)

FairSpec == Spec /\ Fairness

-----------------------------------------------------------------------------
(* Safety *)

\* Every variable keeps its type; both kinds of channel stay within their capacity.
TypeOK ==
  /\ ctx \in BOOLEAN
  /\ hub \in {"select", "fanout", "counting", "stopped"} /\ data \in Nat /\ todo \subseteq Conns
  /\ conns \subseteq Conns /\ count \in Nat
  /\ broadcast \in Seq(Nat) /\ Len(broadcast) <= QueueCap
  /\ loop \in {"idle", "build", "done"} /\ ticks \in Nat /\ published \in Nat
  /\ server \in [Conns -> {"none", "registering", "starting", "returned"}]
  /\ reader \in [Conns -> {"none", "reading", "handling", "unregistering", "closing", "done"}]
  /\ writer \in [Conns -> {"none", "select", "writing", "done"}]
  /\ hold \in [Conns -> Seq(Message)]
  /\ send \in [Conns -> Seq(Message)]
  /\ \A c \in Conns : Len(send[c]) <= SendCap
  /\ open \in [Conns -> BOOLEAN]
  /\ ws \in [Conns -> BOOLEAN] /\ gone \in [Conns -> BOOLEAN]
  /\ reqs \in [Conns -> Nat] /\ dropped \in [Conns -> SUBSET Nat]
  /\ panicked \in [Conns -> BOOLEAN]
  /\ answered \in [Conns -> Nat] /\ seen \in [Conns -> Nat]

\* A send channel is closed exactly when its connection has left Hub.conns.  So the Hub
\* never closes a channel twice nor sends on a closed one (either would panic inside
\* runOnce and cut a fan-out short), and no connection leaves with its WritePump waiting
\* on a channel that nobody will close.  hub.go removes and closes in three places.
ClosedIffLeft ==
  \A c \in Conns : open[c] <=> c \in conns \/ server[c] \in {"none", "registering"}

\* Once the Hub has taken a connection's deregistration the connection is not in
\* Hub.conns, and never will be again: registration cannot come second, because the
\* pumps start after it.  Otherwise the Hub would feed a dead connection.
NoZombie == \A c \in Conns : reader[c] \in {"closing", "done"} => c \notin conns

\* A tick of broadcastLoop that builds nothing passes over nobody, but for a client that
\* joins an empty Hub at that very moment: its membership is not counted yet.  hub.go
\* changes conns in three places and counts after each of them under the mutex, which the
\* loop may take in between; a zero that stayed would silence the feed of everybody.
TickPassesNobody ==
  [][ticks' # ticks /\ loop' = "idle" =>
       conns = {} \/ (hub = "counting" /\ \E c \in Conns : conns = {c} /\ open[c])]_vars

\* Outside a change the count is exact; within one it is off by the connection concerned.
CountLag ==
  LET members == Cardinality(conns)
  IN  IF hub = "counting" THEN count = members + 1 \/ members = count + 1 ELSE count = members

\* The pumps run only after handleWS returned, and WritePump holds a message only while
\* it is writing it.
PumpOrder ==
  \A c \in Conns :
    /\ reader[c] = "none" <=> server[c] # "returned"
    /\ writer[c] = "none" <=> server[c] # "returned"
    /\ Len(hold[c]) = IF writer[c] = "writing" THEN 1 ELSE 0

\* The iteration of a fan-out visits members only, members have been registered, and
\* what waits in the broadcast channel was accepted by it.
HubOrder ==
  /\ Len(broadcast) <= published
  /\ todo \subseteq conns
  /\ hub \in {"select", "stopped"} => todo = {}
  /\ \A c \in conns : server[c] \in {"starting", "returned"}

\* The inductive invariant behind the properties above: an action preserves them only
\* together with the order in which handleWS, the pumps and the Hub act.
IInv == TypeOK /\ PumpOrder /\ HubOrder /\ ClosedIffLeft /\ NoZombie /\ CountLag

\* What the connection still has to write, oldest first.
Stream(c) == hold[c] \o send[c]

\* The messages of one kind: their numbers, and that they go up from first to last.
Numbers(s, kind) == {s[i].n : i \in {j \in 1 .. Len(s) : s[j].kind = kind}}
Increasing(s, kind) ==
  \A i, j \in 1 .. Len(s) : i < j /\ s[i].kind = kind /\ s[j].kind = kind => s[i].n < s[j].n

\* The snapshots on their way to a client are the next ones after the last it was sent,
\* consecutive and in order; while the client is registered and the fan-out has passed
\* it, they reach up to the newest snapshot the Hub has taken.  A full channel must
\* therefore end the connection: a snapshot is never skipped.
GaplessFeed ==
  \A c \in Conns : writer[c] # "done" =>
    /\ Increasing(Stream(c), "snapshot")
    /\ \E newest \in seen[c] .. Dequeued :
         /\ Numbers(Stream(c), "snapshot") = seen[c] + 1 .. newest
         /\ c \in conns => newest = IF c \in todo THEN Dequeued - 1 ELSE Dequeued

\* Requests whose handler has called sendMsg without a panic.
Finished(c) == IF reader[c] = "handling" \/ panicked[c] THEN reqs[c] - 1 ELSE reqs[c]

\* Responses keep the order of the requests, none is sent twice, and a request is left
\* without one only if sendMsg met a full channel, or the closed one (then it was the
\* connection's last request), or if the socket failed.
ResponsesAccounted ==
  \A c \in Conns : writer[c] # "done" =>
    /\ Increasing(Stream(c), "response")
    /\ Numbers(Stream(c), "response") =
         {i \in 1 .. Finished(c) : i > answered[c] /\ i \notin dropped[c]}

-----------------------------------------------------------------------------
(* Liveness *)

\* A connection that ends in any way (the peer leaves, the Hub kicks it, a write fails)
\* ends completely as long as the Hub runs: both pumps return and the Hub forgets it.
\* Kick, write error and read error each start the chain at a different goroutine.
CleanUp ==
  \A c \in Conns :
    (gone[c] \/ ~open[c] \/ writer[c] = "done")
      ~> (ctx \/ (reader[c] = "done" /\ writer[c] = "done" /\ c \notin conns))

\* A registered client is sent every snapshot the queue accepts, or its connection ends.
FeedProgress ==
  \A c \in Conns, k \in 1 .. MaxTicks :
    (c \in conns /\ seen[c] < k /\ k <= published)
      ~> (ctx \/ seen[c] >= k \/ writer[c] = "done")

\* After a signal the two goroutines main waits for return, whatever the clients do: the
\* Hub never blocks on a connection and the loop never blocks on the Hub.
ShutdownCompletes == ctx ~> (hub = "stopped" /\ loop = "done")

-----------------------------------------------------------------------------
(* The gateway implements the snapshot feed *)

feedStatus ==
  [c \in Conns |-> IF server[c] \in {"none", "registering"} THEN "out"
                   ELSE IF writer[c] = "done" THEN "ended" ELSE "live"]

Feed == INSTANCE SnapshotFeed WITH status <- feedStatus

\* Queue, fan-out, send channel and WritePump together skip, repeat and reorder nothing.
FeedSpec == Feed!FeedSpec
=============================================================================
