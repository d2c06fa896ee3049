---------------------------- MODULE GatewayProofs ---------------------------
(***************************************************************************)
(* Proofs about Gateway, for any finite set of connections and any         *)
(* capacities and bounds.  IInv is inductive; the type invariant, the      *)
(* safety properties ClosedIffLeft and NoZombie and the action property    *)
(* TickPassesNobody follow.  On top of it: no snapshot is skipped,         *)
(* repeated or reordered (GaplessFeed and the refinement of SnapshotFeed), *)
(* and every response is accounted for.                                    *)
(***************************************************************************)
EXTENDS Gateway, FiniteSetTheorems, SequenceTheorems, TLAPS

\* The Hub's count is a number because its connections are finitely many.
LEMMA MembersFinite ==
  ASSUME NEW S, S \subseteq Conns
  PROVE  IsFiniteSet(S) /\ Cardinality(S) \in Nat
BY ConnsAssumption, FS_Subset, FS_CardinalityType DEF ConnsAssumption

\* A connection that joins or leaves changes the number of members by one.
LEMMA MembersChange ==
  ASSUME NEW S, S \subseteq Conns, NEW c \in Conns
  PROVE  /\ c \notin S => Cardinality(S \cup {c}) = Cardinality(S) + 1
         /\ c \in S => Cardinality(S) = Cardinality(S \ {c}) + 1
<1>1. IsFiniteSet(S) /\ Cardinality(S) \in Nat
  BY MembersFinite
<1>2. c \notin S => Cardinality(S \cup {c}) = Cardinality(S) + 1
  BY <1>1, FS_AddElement
<1>3. c \in S => Cardinality(S \ {c}) = Cardinality(S) - 1
  BY <1>1, FS_RemoveElement
<1> QED BY <1>1, <1>2, <1>3

\* The program starts in the inductive invariant.
LEMMA InitIInv == Init => IInv
<1> SUFFICES ASSUME Init PROVE IInv
  OBVIOUS
<1> USE DEF Init
<1>1. TypeOK
  <2>1. hold \in [Conns -> Seq(Message)] /\ send \in [Conns -> Seq(Message)]
    OBVIOUS
  <2>2. \A c \in Conns : Len(send[c]) <= SendCap
    BY BoundsAssumption DEF BoundsAssumption
  <2>3. broadcast \in Seq(Nat) /\ Len(broadcast) <= QueueCap
    BY BoundsAssumption DEF BoundsAssumption
  <2>4. ctx \in BOOLEAN /\ open \in [Conns -> BOOLEAN] /\ ws \in [Conns -> BOOLEAN]
        /\ gone \in [Conns -> BOOLEAN] /\ panicked \in [Conns -> BOOLEAN]
    OBVIOUS
  <2> QED BY <2>1, <2>2, <2>3, <2>4 DEF TypeOK
<1>2. PumpOrder /\ HubOrder /\ ClosedIffLeft /\ NoZombie
  BY DEF PumpOrder, HubOrder, ClosedIffLeft, NoZombie
<1>3. CountLag
  BY FS_EmptySet DEF CountLag
<1> QED BY <1>1, <1>2, <1>3 DEF IInv

\* An action of a connection's goroutines or of the server keeps the types.
LEMMA ConnTypeStep ==
  ASSUME TypeOK, PumpOrder, NEW c \in Conns,
         Upgrade(c) \/ StartPumps(c) \/ PeerLeaves(c) \/ ReaderStep(c) \/ WriterStep(c)
  PROVE  TypeOK'
<1> USE DEF TypeOK, hubVars, loopVars, pumpVars, chanVars, reqVars, wireVars
<1>1. CASE Upgrade(c)
  BY <1>1 DEF Upgrade
<1>2. CASE StartPumps(c)
  BY <1>2 DEF StartPumps
<1>3. CASE PeerLeaves(c)
  BY <1>3 DEF PeerLeaves
<1>4. CASE ReadRequest(c)
  BY <1>4 DEF ReadRequest
<1>5. CASE Answer(c)
  <2>1. Resp(reqs[c]) \in Message
    BY DEF Resp, Message
  <2>2. send' \in [Conns -> Seq(Message)] /\ (\A d \in Conns : Len(send'[d]) <= SendCap)
    BY <1>5, <2>1, BoundsAssumption DEF Answer, BoundsAssumption
  <2> QED BY <1>5, <2>2 DEF Answer
<1>6. CASE AnswerDropped(c)
  <2>1. dropped' \in [Conns -> SUBSET Nat]
    BY <1>6 DEF AnswerDropped
  <2> QED BY <1>6, <2>1 DEF AnswerDropped
<1>7. CASE AnswerPanics(c)
  BY <1>7 DEF AnswerPanics
<1>8. CASE ReadFails(c)
  BY <1>8 DEF ReadFails
<1>9. CASE ReaderCloses(c)
  BY <1>9 DEF ReaderCloses
<1>10. CASE WriterTake(c)
  <2>1. /\ Head(send[c]) \in Message /\ Tail(send[c]) \in Seq(Message)
        /\ Len(Tail(send[c])) = Len(send[c]) - 1
    BY <1>10 DEF WriterTake
  <2>2. hold' \in [Conns -> Seq(Message)] /\ send' \in [Conns -> Seq(Message)]
    BY <1>10, <2>1 DEF WriterTake
  <2>3. \A d \in Conns : Len(send'[d]) <= SendCap
    BY <1>10, <2>1, BoundsAssumption DEF WriterTake, BoundsAssumption
  <2> QED BY <1>10, <2>2, <2>3 DEF WriterTake
<1>11. CASE WriteSucceeds(c)
  <2>1. hold[c][1] \in Message
    BY <1>11 DEF WriteSucceeds, PumpOrder
  <2>2. hold[c][1].n \in Nat
    BY <2>1 DEF Message
  <2>3. hold' \in [Conns -> Seq(Message)]
    BY <1>11 DEF WriteSucceeds
  <2>4. answered' \in [Conns -> Nat] /\ seen' \in [Conns -> Nat]
    BY <1>11, <2>2 DEF WriteSucceeds
  <2>5. writer' \in [Conns -> {"none", "select", "writing", "done"}]
    BY <1>11 DEF WriteSucceeds
  <2> QED BY <1>11, <2>3, <2>4, <2>5 DEF WriteSucceeds
<1>12. CASE WriterExits(c)
  BY <1>12 DEF WriterExits
<1> QED
  BY <1>1, <1>2, <1>3, <1>4, <1>5, <1>6, <1>7, <1>8, <1>9, <1>10, <1>11, <1>12
  DEF ReaderStep, WriterStep, WriteFails, PingFails, WriterSeesClosed

\* An action of the Hub or of the broadcast loop keeps the types.
LEMMA HubTypeStep ==
  ASSUME TypeOK, HubOrder, HubStep \/ LoopStep
  PROVE  TypeOK'
<1> USE DEF TypeOK, hubVars, loopVars, pumpVars, chanVars, reqVars, wireVars
<1>1. ASSUME NEW c \in Conns, HubRegister(c) PROVE TypeOK'
  <2>1. conns' \subseteq Conns
    BY <1>1 DEF HubRegister
  <2>2. seen' \in [Conns -> Nat]
    BY <1>1 DEF HubRegister, Dequeued, HubOrder
  <2> QED BY <1>1, <2>1, <2>2 DEF HubRegister
<1>2. ASSUME NEW c \in Conns, HubUnregister(c) PROVE TypeOK'
  <2>1. conns' \subseteq Conns /\ hub' \in {"select", "counting"}
    BY <1>2 DEF HubUnregister, Expel
  <2>2. open' \in [Conns -> BOOLEAN]
    BY <1>2 DEF HubUnregister, Expel
  <2> QED BY <1>2, <2>1, <2>2 DEF HubUnregister
<1>3. CASE HubTakeBroadcast
  <2>1. data' \in Nat /\ broadcast' \in Seq(Nat) /\ Len(broadcast') <= QueueCap
    BY <1>3, BoundsAssumption DEF HubTakeBroadcast, BoundsAssumption
  <2> QED BY <1>3, <2>1 DEF HubTakeBroadcast, Proceed
<1>4. ASSUME NEW c \in Conns, FanoutSend(c) PROVE TypeOK'
  <2>1. Snap(data) \in Message
    BY DEF Snap, Message
  <2>2. send' \in [Conns -> Seq(Message)] /\ (\A d \in Conns : Len(send'[d]) <= SendCap)
    BY <1>4, <2>1, BoundsAssumption DEF FanoutSend, BoundsAssumption
  <2> QED BY <1>4, <2>2 DEF FanoutSend, Visit, Proceed
<1>5. ASSUME NEW c \in Conns, FanoutKick(c) PROVE TypeOK'
  BY <1>5 DEF FanoutKick, Visit, Expel
<1>6. CASE HubStop \/ HubCount
  <2>1. CASE HubCount
    <3>1. count' \in Nat
      BY <2>1, MembersFinite DEF HubCount
    <3> QED BY <2>1, <3>1 DEF HubCount, Proceed
  <2> QED BY <1>6, <2>1 DEF HubStop
<1>7. CASE LoopTick \/ LoopStop
  BY <1>7 DEF LoopTick, LoopStop
<1>8. CASE LoopBroadcast
  <2>1. /\ Append(broadcast, published + 1) \in Seq(Nat)
        /\ Len(Append(broadcast, published + 1)) = Len(broadcast) + 1
        /\ Len(broadcast) \in Nat
    OBVIOUS
  <2>2. broadcast' \in Seq(Nat) /\ published' \in Nat
    <3>1. CASE Len(broadcast) < QueueCap
      <4>1. published' = published + 1 /\ broadcast' = Append(broadcast, published + 1)
        BY <1>8, <3>1 DEF LoopBroadcast
      <4> QED BY <2>1, <4>1
    <3>2. CASE ~(Len(broadcast) < QueueCap)
      BY <1>8, <3>2 DEF LoopBroadcast
    <3> QED BY <3>1, <3>2
  <2>3. Len(broadcast') <= QueueCap
    BY <1>8, <2>1, BoundsAssumption DEF LoopBroadcast, BoundsAssumption
  <2> QED BY <1>8, <2>2, <2>3 DEF LoopBroadcast
<1> QED BY <1>1, <1>2, <1>3, <1>4, <1>5, <1>6, <1>7, <1>8 DEF HubStep, LoopStep

\* ReadPump's own steps change nothing of the Hub, and reader only among its running states.
LEMMA ReaderFrame ==
  ASSUME TypeOK, NEW c \in Conns, ReaderStep(c)
  PROVE  /\ UNCHANGED <<hub, todo, conns, count, broadcast, published, open, server, writer, hold>>
         /\ \E r \in {"reading", "handling", "unregistering", "done"} :
              /\ reader[c] # "none" /\ reader' = [reader EXCEPT ![c] = r]
              /\ r = "done" => reader[c] = "closing"
              /\ r # "done" => reader[c] \in {"reading", "handling"}
<1> USE DEF hubVars, loopVars, chanVars
<1>1. CASE ReadRequest(c)
  BY <1>1 DEF ReadRequest
<1>2. CASE Answer(c) \/ AnswerDropped(c)
  BY <1>2 DEF Answer, AnswerDropped
<1>3. CASE AnswerPanics(c) \/ ReadFails(c)
  BY <1>3 DEF AnswerPanics, ReadFails
<1>4. CASE ReaderCloses(c)
  BY <1>4 DEF ReaderCloses
<1> QED BY <1>1, <1>2, <1>3, <1>4 DEF ReaderStep

\* WritePump's own steps change nothing that the Hub or ReadPump reads, except the socket.
LEMMA WriterFrame ==
  ASSUME NEW c \in Conns, WriterStep(c)
  PROVE  UNCHANGED <<hub, todo, conns, count, broadcast, published, open, server, reader>>
<1> USE DEF hubVars, loopVars, chanVars
<1>1. CASE WriterTake(c)
  BY <1>1 DEF WriterTake
<1>2. CASE WriteSucceeds(c)
  BY <1>2 DEF WriteSucceeds
<1>3. CASE WriterExits(c)
  BY <1>3 DEF WriterExits
<1> QED BY <1>1, <1>2, <1>3 DEF WriterStep, WriteFails, PingFails, WriterSeesClosed

\* The life of a connection: handleWS returns before its pumps run, and WritePump holds
\* a message only while it writes it.
LEMMA PumpOrderStep ==
  ASSUME TypeOK, PumpOrder, [Next]_vars
  PROVE  PumpOrder'
<1> USE DEF TypeOK, PumpOrder, hubVars, loopVars, pumpVars, chanVars, reqVars, wireVars
<1>1. CASE LoopStep \/ Cancel \/ UNCHANGED vars
  BY <1>1 DEF LoopStep, LoopTick, LoopBroadcast, LoopStop, Cancel, vars
<1>2. CASE HubStep
  <2>1. ASSUME NEW c \in Conns, HubRegister(c) PROVE PumpOrder'
    BY <2>1 DEF HubRegister
  <2>2. ASSUME NEW c \in Conns, HubUnregister(c) PROVE PumpOrder'
    BY <2>2 DEF HubUnregister
  <2>3. ASSUME NEW c \in Conns, FanoutSend(c) \/ FanoutKick(c) PROVE PumpOrder'
    BY <2>3 DEF FanoutSend, FanoutKick
  <2>4. CASE HubTakeBroadcast \/ HubCount \/ HubStop
    BY <2>4 DEF HubTakeBroadcast, HubCount, HubStop
  <2> QED BY <1>2, <2>1, <2>2, <2>3, <2>4 DEF HubStep
<1>3. ASSUME NEW c \in Conns, Upgrade(c) \/ StartPumps(c) \/ PeerLeaves(c) PROVE PumpOrder'
  <2>1. CASE Upgrade(c)
    BY <2>1 DEF Upgrade
  <2>2. CASE StartPumps(c)
    BY <2>2 DEF StartPumps
  <2>3. CASE PeerLeaves(c)
    BY <2>3 DEF PeerLeaves
  <2> QED BY <1>3, <2>1, <2>2, <2>3
<1>4. ASSUME NEW c \in Conns, ReaderStep(c) PROVE PumpOrder'
  <2>1. UNCHANGED <<server, writer, hold>> /\ (\E r \in {"reading", "handling", "unregistering", "done"} :
          reader[c] # "none" /\ reader' = [reader EXCEPT ![c] = r])
    BY <1>4, ReaderFrame
  <2> QED BY <2>1
<1>5. ASSUME NEW c \in Conns, WriterTake(c) PROVE PumpOrder'
  BY <1>5 DEF WriterTake
<1>6. ASSUME NEW c \in Conns, WriteSucceeds(c) PROVE PumpOrder'
  BY <1>6 DEF WriteSucceeds
<1>7. ASSUME NEW c \in Conns, WriteFails(c) \/ PingFails(c) \/ WriterSeesClosed(c)
      PROVE  PumpOrder'
  <2>1. writer[c] \in {"writing", "select"} /\ WriterExits(c)
    BY <1>7 DEF WriteFails, PingFails, WriterSeesClosed
  <2>2. server[c] = "returned" /\ UNCHANGED <<server, reader>>
    BY <2>1 DEF WriterExits
  <2>3. /\ writer' = [writer EXCEPT ![c] = "done"]
        /\ hold' = [hold EXCEPT ![c] = <<>>]
    BY <2>1 DEF WriterExits
  <2> QED BY <2>2, <2>3
<1> QED BY <1>1, <1>2, <1>3, <1>4, <1>5, <1>6, <1>7 DEF Next, WriterStep

\* The properties of the Hub's membership, together.
Membership == HubOrder /\ ClosedIffLeft /\ NoZombie /\ CountLag

\* The Hub's own steps: what it removes it closes and what it closes it removes.
LEMMA HubMembershipStep ==
  ASSUME TypeOK, PumpOrder, Membership, HubStep
  PROVE  Membership'
<1> USE DEF TypeOK, PumpOrder, Membership, HubOrder, ClosedIffLeft, NoZombie,
            hubVars, loopVars, pumpVars, chanVars, reqVars, wireVars
<1>1. ASSUME NEW c \in Conns, HubRegister(c) PROVE Membership'
  <2>1. /\ hub = "select" /\ server[c] = "registering"
        /\ conns' = conns \cup {c}
        /\ server' = [server EXCEPT ![c] = "starting"]
        /\ hub' = "counting"
        /\ UNCHANGED <<todo, count, broadcast, published, open, reader>>
    BY <1>1 DEF HubRegister
  <2>2. CountLag'
    <3>1. c \notin conns /\ conns \subseteq Conns /\ count = Cardinality(conns)
      BY <2>1 DEF CountLag
    <3>2. Cardinality(conns \cup {c}) = count + 1
      BY <3>1, MembersChange
    <3> QED BY <2>1, <3>2 DEF CountLag
  <2>3. reader[c] = "none"
    BY <2>1
  <2>4. HubOrder'
    BY <2>1
  <2>5. ClosedIffLeft'
    BY <2>1
  <2>6. NoZombie'
    BY <2>1, <2>3
  <2> QED BY <2>2, <2>4, <2>5, <2>6
<1>2. ASSUME NEW c \in Conns, HubUnregister(c) PROVE Membership'
  <2>1. CASE c \in conns
    <3>1. /\ hub = "select" /\ conns' = conns \ {c} /\ hub' = "counting"
          /\ reader' = [reader EXCEPT ![c] = "closing"]
          /\ open' = [open EXCEPT ![c] = FALSE]
          /\ UNCHANGED <<todo, count, broadcast, published, server>>
      BY <1>2, <2>1 DEF HubUnregister, Expel
    <3>2. CountLag'
      <4>1. conns \subseteq Conns /\ count = Cardinality(conns)
        BY <3>1 DEF CountLag
      <4>2. count = Cardinality(conns \ {c}) + 1
        BY <2>1, <4>1, MembersChange
      <4> QED BY <3>1, <4>2 DEF CountLag
    <3>3. HubOrder'
      BY <3>1
    <3>4. ClosedIffLeft'
      BY <2>1, <3>1
    <3>5. NoZombie'
      BY <3>1
    <3> QED BY <3>2, <3>3, <3>4, <3>5
  <2>2. CASE c \notin conns
    BY <1>2, <2>2 DEF HubUnregister, CountLag
  <2> QED BY <2>1, <2>2
<1>3. CASE HubTakeBroadcast
  <2>1. Len(broadcast') <= published'
    BY <1>3 DEF HubTakeBroadcast
  <2> QED BY <1>3, <2>1 DEF HubTakeBroadcast, Proceed, CountLag
<1>4. ASSUME NEW c \in Conns, FanoutSend(c) PROVE Membership'
  BY <1>4 DEF FanoutSend, Visit, Proceed, CountLag
<1>5. ASSUME NEW c \in Conns, FanoutKick(c) PROVE Membership'
  <2>1. /\ hub = "fanout" /\ c \in todo /\ c \in conns /\ todo' = todo \ {c}
        /\ conns' = conns \ {c} /\ hub' = "counting" /\ open' = [open EXCEPT ![c] = FALSE]
        /\ UNCHANGED <<count, broadcast, published, server, reader>>
    BY <1>5 DEF FanoutKick, Visit, Expel
  <2>2. CountLag'
    <3>1. conns \subseteq Conns /\ c \in conns /\ count = Cardinality(conns)
      BY <2>1 DEF CountLag
    <3>2. count = Cardinality(conns \ {c}) + 1
      <4> HIDE DEF TypeOK, PumpOrder, HubOrder, ClosedIffLeft, NoZombie
      <4> QED BY <3>1, MembersChange
    <3> QED BY <2>1, <3>2 DEF CountLag
  <2>3. HubOrder' /\ ClosedIffLeft' /\ NoZombie'
    BY <2>1
  <2> QED BY <2>2, <2>3
<1>6. CASE HubCount \/ HubStop
  BY <1>6 DEF HubCount, HubStop, Proceed, CountLag
<1> QED BY <1>1, <1>2, <1>3, <1>4, <1>5, <1>6 DEF HubStep

\* The steps of everybody else: none touches Hub.conns, count or a close.
LEMMA OtherMembershipStep ==
  ASSUME TypeOK, PumpOrder, Membership, [Next]_vars, ~HubStep
  PROVE  Membership'
<1> USE DEF TypeOK, PumpOrder, Membership, HubOrder, ClosedIffLeft, NoZombie,
            hubVars, loopVars, pumpVars, chanVars, reqVars, wireVars
<1> USE DEF CountLag
<1>1. CASE Cancel \/ LoopTick \/ LoopStop \/ UNCHANGED vars
  BY <1>1 DEF Cancel, LoopTick, LoopStop, vars
<1>2. CASE LoopBroadcast
  <2>1. Len(Append(broadcast, published + 1)) = Len(broadcast) + 1 /\ Len(broadcast) \in Nat
    OBVIOUS
  <2>2. Len(broadcast') <= published'
    <3>1. CASE Len(broadcast) < QueueCap
      <4>1. published' = published + 1 /\ broadcast' = Append(broadcast, published + 1)
        BY <1>2, <3>1 DEF LoopBroadcast
      <4> QED BY <2>1, <4>1
    <3>2. CASE ~(Len(broadcast) < QueueCap)
      BY <1>2, <3>2 DEF LoopBroadcast
    <3> QED BY <3>1, <3>2
  <2>3. UNCHANGED <<hub, todo, conns, count, server, reader, open>>
    BY <1>2 DEF LoopBroadcast
  <2> QED BY <2>2, <2>3
<1>3. ASSUME NEW c \in Conns, Upgrade(c) \/ StartPumps(c) \/ PeerLeaves(c) PROVE Membership'
  <2>1. UNCHANGED <<hub, todo, conns, count, broadcast, published, open>>
    BY <1>3 DEF Upgrade, StartPumps, PeerLeaves
  <2>2. CASE Upgrade(c)
    BY <2>1, <2>2 DEF Upgrade
  <2>3. CASE StartPumps(c)
    <3>1. /\ server[c] = "starting" /\ server' = [server EXCEPT ![c] = "returned"]
          /\ reader[c] = "none" /\ reader' = [reader EXCEPT ![c] = "reading"]
      BY <2>3 DEF StartPumps
    <3> QED BY <2>1, <3>1
  <2>4. CASE PeerLeaves(c)
    BY <2>1, <2>4 DEF PeerLeaves
  <2> QED BY <1>3, <2>2, <2>3, <2>4
<1>4. ASSUME NEW c \in Conns, ReaderStep(c) PROVE Membership'
  <2>1. UNCHANGED <<hub, todo, conns, count, broadcast, published, open, server>>
    BY <1>4, ReaderFrame
  <2>2. PICK r \in {"reading", "handling", "unregistering", "done"} :
          /\ reader' = [reader EXCEPT ![c] = r]
          /\ r = "done" => reader[c] = "closing"
    BY <1>4, ReaderFrame
  <2>3. NoZombie'
    BY <2>1, <2>2
  <2> QED BY <2>1, <2>3
<1>5. ASSUME NEW c \in Conns, WriterStep(c) PROVE Membership'
  BY <1>5, WriterFrame
<1> QED BY <1>1, <1>2, <1>3, <1>4, <1>5 DEF Next, LoopStep

\* IInv is inductive.
LEMMA StepIInv == IInv /\ [Next]_vars => IInv'
<1> SUFFICES ASSUME IInv, [Next]_vars PROVE IInv'
  OBVIOUS
<1>1. TypeOK'
  <2>1. CASE Cancel \/ UNCHANGED vars
    BY <2>1 DEF IInv, TypeOK, Cancel, vars, hubVars, loopVars, pumpVars, chanVars, reqVars, wireVars
  <2> QED BY <2>1, ConnTypeStep, HubTypeStep DEF IInv, Next
<1>2. PumpOrder'
  BY PumpOrderStep DEF IInv
<1>3. Membership'
  BY HubMembershipStep, OtherMembershipStep DEF IInv, Membership
<1> QED BY <1>1, <1>2, <1>3 DEF IInv, Membership

\* The inductive invariant holds in every reachable state.
THEOREM Inductive == Spec => []IInv
<1> QED BY InitIInv, StepIInv, PTL DEF Spec

\* Every variable keeps its type, and no channel of the gateway exceeds its capacity.
THEOREM TypeCorrect == Spec => []TypeOK
<1>1. IInv => TypeOK
  BY DEF IInv
<1> QED BY <1>1, Inductive, PTL

\* For any number of connections, a send channel is closed exactly when its connection has
\* left Hub.conns: the Hub neither closes twice nor sends on a closed channel.
THEOREM SendClosedExactlyOnce == Spec => []ClosedIffLeft
<1>1. IInv => ClosedIffLeft
  BY DEF IInv
<1> QED BY <1>1, Inductive, PTL

\* For any number of connections, the Hub never again feeds one it has deregistered.
THEOREM NoZombieConnection == Spec => []NoZombie
<1>1. IInv => NoZombie
  BY DEF IInv
<1> QED BY <1>1, Inductive, PTL

\* A count of zero means an empty Hub, or one that is taking in its only member.
LEMMA ZeroCount ==
  ASSUME IInv, count = 0
  PROVE  conns = {} \/ (hub = "counting" /\ \E c \in Conns : conns = {c} /\ open[c])
<1>1. conns \subseteq Conns /\ IsFiniteSet(conns) /\ Cardinality(conns) \in Nat
  BY MembersFinite DEF IInv, TypeOK
<1>2. CASE Cardinality(conns) = 0
  BY <1>1, <1>2, FS_EmptySet
<1>3. CASE Cardinality(conns) # 0
  <2>1. hub = "counting" /\ Cardinality(conns) = 1
    BY <1>1, <1>3 DEF IInv, CountLag
  <2>2. PICK c : conns = {c}
    BY <1>1, <2>1, FS_Singleton
  <2>3. c \in Conns /\ open[c]
    BY <1>1, <2>2 DEF IInv, ClosedIffLeft
  <2> QED BY <2>1, <2>2, <2>3
<1> QED BY <1>2, <1>3

\* For any number of connections, a tick of the broadcast loop that builds nothing passes over
\* nobody but a client that the Hub is about to count.
THEOREM TickPassesNobodyHolds == Spec => TickPassesNobody
<1> DEFINE Passed == conns = {} \/ (hub = "counting" /\ \E c \in Conns : conns = {c} /\ open[c])
<1>1. ASSUME IInv, [Next]_vars, ticks' # ticks, loop' = "idle" PROVE Passed
  <2> USE DEF hubVars, loopVars, pumpVars, chanVars, reqVars, wireVars
  <2>1. LoopTick
    <3>1. HubStep => ticks' = ticks
      BY DEF HubStep, HubRegister, HubUnregister, FanoutSend, FanoutKick, HubTakeBroadcast, HubCount, HubStop
    <3>2. LoopBroadcast \/ LoopStop \/ Cancel \/ UNCHANGED vars => ticks' = ticks
      BY DEF LoopBroadcast, LoopStop, Cancel, vars
    <3>3. ASSUME NEW c \in Conns, Upgrade(c) \/ StartPumps(c) \/ PeerLeaves(c) PROVE ticks' = ticks
      BY <3>3 DEF Upgrade, StartPumps, PeerLeaves
    <3>4. ASSUME NEW c \in Conns, ReaderStep(c) PROVE ticks' = ticks
      BY <3>4 DEF ReaderStep, ReadRequest, Answer, AnswerDropped, AnswerPanics, ReadFails, ReaderCloses
    <3>5. ASSUME NEW c \in Conns, WriterStep(c) PROVE ticks' = ticks
      BY <3>5 DEF WriterStep, WriterTake, WriteSucceeds, WriteFails, PingFails, WriterSeesClosed, WriterExits
    <3> QED BY <1>1, <3>1, <3>2, <3>3, <3>4, <3>5 DEF Next, LoopStep
  <2>2. count = 0
    BY <1>1, <2>1 DEF LoopTick
  <2> QED BY <1>1, <2>2, ZeroCount
<1>2. IInv /\ [Next]_vars => [ticks' # ticks /\ loop' = "idle" => Passed]_vars
  BY <1>1
<1> QED BY <1>2, Inductive, PTL DEF Spec, TickPassesNobody

-----------------------------------------------------------------------------
(* Streams of numbered messages *)

\* A message at the end of a stream.
LEMMA StreamAppend ==
  ASSUME NEW s \in Seq(Message), NEW m \in Message, NEW kind
  PROVE  LET t == Append(s, m) IN
         /\ m.kind # kind => /\ Numbers(t, kind) = Numbers(s, kind)
                             /\ Increasing(s, kind) => Increasing(t, kind)
         /\ m.kind = kind => /\ Numbers(t, kind) = Numbers(s, kind) \cup {m.n}
                             /\ Increasing(s, kind) /\ (\A n \in Numbers(s, kind) : n < m.n)
                                  => Increasing(t, kind)
<1> DEFINE t == Append(s, m)
           l == Len(s)
<1>1. l \in Nat /\ Len(t) = l + 1 /\ t[l+1] = m /\ \A i \in 1 .. l : t[i] = s[i]
  BY AppendProperties, LenProperties
<1>2. \A i : i \in 1 .. l + 1 <=> i \in 1 .. l \/ i = l + 1
  BY <1>1
<1>3. \A i \in 1 .. l : i < l + 1 /\ ~(l + 1 < i) /\ i # l + 1
  BY <1>1
<1>4. ~(l + 1 < l + 1) /\ l + 1 \in 1 .. l + 1
  BY <1>1
<1> HIDE DEF t, l
<1>5. \A n : n \in Numbers(t, kind) <=> n \in Numbers(s, kind) \/ (m.kind = kind /\ n = m.n)
  BY <1>1, <1>2 DEF Numbers, l
<1>6. \A i \in 1 .. l : s[i].kind = kind => s[i].n \in Numbers(s, kind)
  BY DEF Numbers, l
<1>7. ASSUME Increasing(s, kind), m.kind = kind => \A n \in Numbers(s, kind) : n < m.n
      PROVE  Increasing(t, kind)
  <2> SUFFICES ASSUME NEW i \in 1 .. l + 1, NEW j \in 1 .. l + 1, i < j, t[i].kind = kind, t[j].kind = kind
               PROVE  t[i].n < t[j].n
    BY <1>1 DEF Increasing
  <2>1. CASE j = l + 1
    <3>1. i \in 1 .. l
      BY <1>2, <1>4, <2>1
    <3> QED BY <1>1, <1>6, <1>7, <2>1, <3>1
  <2>2. CASE j \in 1 .. l
    <3>1. i \in 1 .. l
      BY <1>2, <1>3, <2>2
    <3> QED BY <1>1, <1>7, <2>2, <3>1 DEF Increasing, l
  <2> QED BY <1>2, <2>1, <2>2
<1>8. CASE m.kind # kind
  BY <1>5, <1>7, <1>8 DEF t
<1>9. CASE m.kind = kind
  BY <1>5, <1>7, <1>9 DEF t
<1> QED BY <1>8, <1>9

\* A message at the front of a stream.
LEMMA StreamFront ==
  ASSUME NEW s \in Seq(Message), NEW m \in Message, NEW t \in Seq(Message), t = <<m>> \o s, NEW kind
  PROVE  /\ m.kind # kind => /\ Numbers(s, kind) = Numbers(t, kind)
                             /\ Increasing(t, kind) => Increasing(s, kind)
         /\ m.kind = kind /\ Increasing(t, kind) =>
              /\ Increasing(s, kind)
              /\ m.n \in Numbers(t, kind)
              /\ \A n \in Numbers(t, kind) : m.n <= n
              /\ Numbers(s, kind) = {n \in Numbers(t, kind) : n > m.n}
<1> DEFINE l == Len(s)
<1>1. l \in Nat /\ Len(t) = l + 1 /\ t[1] = m /\ \A i \in 1 .. l : t[i+1] = s[i]
  <2>1. <<m>> \in Seq(Message) /\ Len(<<m>>) = 1 /\ l \in Nat
    BY LenProperties
  <2>2. Len(t) = 1 + l
    BY <2>1, ConcatProperties
  <2>3. ASSUME NEW i \in 1 .. 1 + l PROVE t[i] = IF i <= 1 THEN <<m>>[i] ELSE s[i - 1]
    BY <2>1, ConcatProperties
  <2> QED BY <2>1, <2>2, <2>3
<1>2. \A i : i \in 1 .. l + 1 <=> i = 1 \/ \E k \in 1 .. l : i = k + 1
  <2>1. ASSUME NEW i \in 1 .. l + 1, i # 1 PROVE \E k \in 1 .. l : i = k + 1
    <3>1. i - 1 \in 1 .. l /\ i = (i - 1) + 1
      BY <1>1, <2>1
    <3> QED BY <3>1
  <2> QED BY <1>1, <2>1
<1>3. \A i \in 1 .. l : \A j \in 1 .. l : i < j <=> i + 1 < j + 1
  BY <1>1
<1>4. \A i \in 1 .. l : 1 < i + 1 /\ i + 1 \in 1 .. l + 1 /\ 1 \in 1 .. l + 1
  BY <1>1
<1>5. \A i \in 1 .. Len(t) : t[i].n \in Nat
  <2>1. \A i \in 1 .. Len(t) : t[i] \in Message
    BY ElementOfSeq
  <2> QED BY <2>1 DEF Message
<1> HIDE DEF l
<1>6. \A n : n \in Numbers(t, kind) <=> n \in Numbers(s, kind) \/ (m.kind = kind /\ n = m.n)
  <2>1. \A n : n \in Numbers(t, kind) <=> \E i \in 1 .. l + 1 : t[i].kind = kind /\ n = t[i].n
    BY <1>1 DEF Numbers
  <2>2. \A n : n \in Numbers(s, kind) <=> \E k \in 1 .. l : s[k].kind = kind /\ n = s[k].n
    BY DEF Numbers, l
  <2>3. ASSUME NEW n \in Numbers(t, kind) PROVE n \in Numbers(s, kind) \/ (m.kind = kind /\ n = m.n)
    <3>1. PICK i \in 1 .. l + 1 : t[i].kind = kind /\ n = t[i].n
      BY <2>1
    <3>2. CASE i = 1
      BY <1>1, <3>1, <3>2
    <3>3. ASSUME NEW k \in 1 .. l, i = k + 1 PROVE n \in Numbers(s, kind)
      BY <1>1, <2>2, <3>1, <3>3
    <3> QED BY <1>2, <3>2, <3>3
  <2>4. ASSUME NEW n \in Numbers(s, kind) PROVE n \in Numbers(t, kind)
    <3>1. PICK k \in 1 .. l : s[k].kind = kind /\ n = s[k].n
      BY <2>2
    <3>2. k + 1 \in 1 .. l + 1 /\ t[k+1] = s[k]
      BY <1>1, <1>4
    <3> QED BY <2>1, <3>1, <3>2
  <2>5. m.kind = kind => m.n \in Numbers(t, kind)
    <3>1. 1 \in 1 .. l + 1
      BY <1>1
    <3> QED BY <1>1, <2>1, <3>1
  <2> QED BY <2>3, <2>4, <2>5
<1>7. ASSUME Increasing(t, kind) PROVE Increasing(s, kind)
  <2> SUFFICES ASSUME NEW i \in 1 .. l, NEW j \in 1 .. l, i < j, s[i].kind = kind, s[j].kind = kind
               PROVE  s[i].n < s[j].n
    BY DEF Increasing, l
  <2>1. i + 1 < j + 1 /\ i + 1 \in 1 .. Len(t) /\ j + 1 \in 1 .. Len(t) /\ t[i+1] = s[i] /\ t[j+1] = s[j]
    BY <1>1, <1>3, <1>4
  <2> QED BY <1>7, <2>1 DEF Increasing
<1>8. ASSUME Increasing(t, kind), m.kind = kind, NEW n \in Numbers(s, kind)
      PROVE  m.n < n
  <2>1. PICK i \in 1 .. l : s[i].kind = kind /\ s[i].n = n
    BY DEF Numbers, l
  <2>2. 1 < i + 1 /\ i + 1 \in 1 .. Len(t) /\ 1 \in 1 .. Len(t) /\ t[i+1] = s[i] /\ t[1] = m
    BY <1>1, <1>4
  <2> QED BY <1>8, <2>1, <2>2 DEF Increasing
<1>9. m.n \in Nat /\ \A n \in Numbers(s, kind) : n \in Nat
  <2>1. \A i \in 1 .. l : s[i].n \in Nat
    <3>1. \A i \in 1 .. l : s[i] \in Message
      BY ElementOfSeq DEF l
    <3> QED BY <3>1 DEF Message
  <2> QED BY <2>1 DEF Numbers, Message, l
<1>10. CASE m.kind # kind
  BY <1>6, <1>7, <1>10
<1>11. CASE m.kind = kind
  <2>1. m.n \in Numbers(t, kind)
    BY <1>6, <1>11
  <2>2. ASSUME Increasing(t, kind), NEW n \in Numbers(t, kind)
        PROVE  m.n <= n /\ (n > m.n <=> n \in Numbers(s, kind))
    <3>1. CASE n \in Numbers(s, kind)
      BY <1>8, <1>9, <1>11, <2>2, <3>1
    <3>2. CASE n \notin Numbers(s, kind)
      BY <1>6, <1>9, <3>2
    <3> QED BY <3>1, <3>2
  <2> QED BY <1>6, <1>7, <1>11, <2>1, <2>2
<1> QED BY <1>10, <1>11

-----------------------------------------------------------------------------
(* Snapshots *)

\* The broadcast channel holds the newest snapshots in order, and a fan-out is about the one
\* that was taken last.
QueueInOrder ==
  /\ \A k \in 1 .. Len(broadcast) : broadcast[k] = Dequeued + k
  /\ todo # {} => data = Dequeued

\* Nothing waits for a connection that the Hub has not registered.
Unregistered(c) == server[c] \in {"none", "registering"}
NothingEarly ==
  \A c \in Conns : Unregistered(c) => Stream(c) = <<>> /\ seen[c] = 0

\* The snapshots waiting for c are those after seen[c] up to newest.
Waiting(c, newest) ==
  /\ newest \in seen[c] .. Dequeued
  /\ Increasing(Stream(c), "snapshot")
  /\ Numbers(Stream(c), "snapshot") = seen[c] + 1 .. newest
  /\ c \in conns => newest = IF c \in todo THEN Dequeued - 1 ELSE Dequeued

Gapless(c) == writer[c] # "done" => \E newest \in Nat : Waiting(c, newest)

SnapInv == QueueInOrder /\ NothingEarly /\ \A c \in Conns : Gapless(c)

\* What is in a stream are messages, and the Hub has taken a number of snapshots.
LEMMA StreamTypes ==
  ASSUME TypeOK, HubOrder
  PROVE  /\ Dequeued \in Nat /\ Dequeued <= published
         /\ \A c \in Conns : Stream(c) \in Seq(Message)
<1>1. Len(broadcast) \in Nat /\ Len(broadcast) <= published
  BY LenProperties DEF TypeOK, HubOrder
<1>2. \A c \in Conns : Stream(c) \in Seq(Message)
  BY ConcatProperties DEF TypeOK, Stream
<1> QED BY <1>1, <1>2 DEF Dequeued, TypeOK

\* At the start nothing is on its way.
LEMMA InitSnap == Init => SnapInv
<1> SUFFICES ASSUME Init PROVE SnapInv
  OBVIOUS
<1>1. QueueInOrder /\ Dequeued = 0
  <2>1. Len(broadcast) = 0 /\ published = 0 /\ todo = {}
    BY EmptySeq DEF Init
  <2> QED BY <2>1 DEF QueueInOrder, Dequeued
<1>2. ASSUME NEW c \in Conns PROVE Stream(c) = <<>> /\ seen[c] = 0 /\ Waiting(c, 0)
  <2>1. Stream(c) = <<>> /\ seen[c] = 0 /\ conns = {}
    BY ConcatEmptySeq DEF Init, Stream
  <2>2. Len(Stream(c)) = 0
    BY <2>1, EmptySeq
  <2>3. Numbers(Stream(c), "snapshot") = {} /\ Increasing(Stream(c), "snapshot")
    BY <2>2 DEF Numbers, Increasing
  <2> QED BY <1>1, <2>1, <2>3 DEF Waiting
<1> QED BY <1>1, <1>2 DEF SnapInv, NothingEarly, Gapless

\* A step that leaves the Hub, the queue and a connection's stream alone keeps what is
\* said of that connection.
LEMMA SameFeed ==
  ASSUME NEW c \in Conns, Gapless(c), Dequeued' = Dequeued,
         hold'[c] = hold[c], send'[c] = send[c], seen'[c] = seen[c],
         writer'[c] = "done" \/ writer[c] # "done",
         c \in conns' => c \in conns /\ (c \in todo' <=> c \in todo)
  PROVE  Gapless(c)'
BY DEF Gapless, Waiting, Stream


\* Steps that move neither a message nor a member.
QuietStep(c) ==
  \/ Upgrade(c) \/ StartPumps(c) \/ PeerLeaves(c)
  \/ ReadRequest(c) \/ AnswerDropped(c) \/ AnswerPanics(c) \/ ReadFails(c) \/ ReaderCloses(c)

\* Steps that publish, send and deliver nothing.
LEMMA QuietSnap ==
  ASSUME IInv, SnapInv,
         Cancel \/ LoopTick \/ LoopStop \/ HubCount \/ HubStop \/ UNCHANGED vars \/ \E c \in Conns : QuietStep(c)
  PROVE  SnapInv'
<1> DEFINE Quiet ==
             /\ UNCHANGED <<data, todo, conns, broadcast, published, hold, send, seen>>
             /\ \A c \in Conns : writer'[c] = writer[c] \/ writer[c] = "none"
             /\ \A c \in Conns : Unregistered(c)' => Unregistered(c)
<1>1. Quiet
  <2> USE DEF vars, hubVars, loopVars, pumpVars, chanVars, reqVars, wireVars, Unregistered
  <2>1. CASE Cancel \/ LoopTick \/ LoopStop \/ HubCount \/ HubStop \/ UNCHANGED vars
    BY <2>1 DEF Cancel, LoopTick, LoopStop, HubCount, HubStop
  <2>2. ASSUME NEW c \in Conns, Upgrade(c) \/ PeerLeaves(c)
        PROVE  Quiet
    BY <2>2 DEF Upgrade, PeerLeaves, IInv, TypeOK
  <2>3. ASSUME NEW c \in Conns, StartPumps(c)
        PROVE  Quiet
    BY <2>3 DEF StartPumps, IInv, TypeOK, PumpOrder
  <2>4. ASSUME NEW c \in Conns,
               ReadRequest(c) \/ AnswerDropped(c) \/ AnswerPanics(c) \/ ReadFails(c) \/ ReaderCloses(c)
        PROVE  Quiet
    BY <2>4 DEF ReadRequest, AnswerDropped, AnswerPanics, ReadFails, ReaderCloses
  <2> QED BY <2>1, <2>2, <2>3, <2>4 DEF QuietStep
<1>2. Dequeued' = Dequeued
  BY <1>1 DEF Dequeued
<1>3. \A c \in Conns : Gapless(c)'
  BY <1>1, <1>2, SameFeed DEF SnapInv
<1> QED BY <1>1, <1>2, <1>3 DEF SnapInv, QueueInOrder, NothingEarly, Stream


\* Hub.Broadcast: the new snapshot takes the last place of the queue.
LEMMA BroadcastSnap ==
  ASSUME IInv, SnapInv, LoopBroadcast
  PROVE  SnapInv'
<1>0. broadcast \in Seq(Nat) /\ Len(broadcast) \in Nat /\ published \in Nat
  BY LenProperties DEF IInv, TypeOK
<1>1. UNCHANGED <<hub, data, todo, conns, hold, send, seen, server, writer>>
  BY DEF LoopBroadcast, pumpVars, chanVars, wireVars
<1>2. CASE Len(broadcast) < QueueCap
  <2>1. published' = published + 1 /\ broadcast' = Append(broadcast, published + 1)
    BY <1>2 DEF LoopBroadcast
  <2>2. /\ Len(broadcast') = Len(broadcast) + 1 /\ broadcast'[Len(broadcast) + 1] = published + 1
        /\ \A k \in 1 .. Len(broadcast) : broadcast'[k] = broadcast[k]
    BY <1>0, <2>1, AppendProperties
  <2>3. Dequeued' = Dequeued
    BY <1>0, <2>1, <2>2 DEF Dequeued
  <2>4. QueueInOrder'
    <3>1. ASSUME NEW k \in 1 .. Len(broadcast) + 1 PROVE broadcast'[k] = Dequeued + k
      <4>1. CASE k = Len(broadcast) + 1
        BY <1>0, <2>2, <4>1 DEF Dequeued
      <4>2. CASE k \in 1 .. Len(broadcast)
        BY <2>2, <4>2 DEF SnapInv, QueueInOrder
      <4> QED BY <1>0, <4>1, <4>2
    <3> QED BY <1>1, <2>2, <2>3, <3>1 DEF SnapInv, QueueInOrder
  <2>5. \A c \in Conns : Gapless(c)'
    BY <1>1, <2>3, SameFeed DEF SnapInv
  <2> QED BY <1>1, <2>4, <2>5 DEF SnapInv, NothingEarly, Unregistered, Stream
<1>3. CASE ~(Len(broadcast) < QueueCap)
  <2>1. UNCHANGED <<published, broadcast>>
    BY <1>3 DEF LoopBroadcast
  <2>2. Dequeued' = Dequeued
    BY <2>1 DEF Dequeued
  <2>3. \A c \in Conns : Gapless(c)'
    BY <1>1, <2>2, SameFeed DEF SnapInv
  <2> QED BY <1>1, <2>1, <2>2, <2>3 DEF SnapInv, QueueInOrder, NothingEarly, Unregistered, Stream
<1> QED BY <1>2, <1>3

\* The Hub takes a snapshot: every member is one behind until the fan-out has passed it.
LEMMA TakeSnap ==
  ASSUME IInv, SnapInv, HubTakeBroadcast
  PROVE  SnapInv'
<1>0. /\ broadcast \in Seq(Nat) /\ broadcast # <<>> /\ Len(broadcast) \in Nat /\ published \in Nat
      /\ Dequeued \in Nat
  BY LenProperties, StreamTypes DEF IInv, TypeOK, HubTakeBroadcast
<1>1. UNCHANGED <<published, conns, hold, send, seen, server, writer>>
  BY DEF HubTakeBroadcast, loopVars, pumpVars, chanVars, wireVars
<1>2. /\ hub = "select" /\ data' = Head(broadcast) /\ broadcast' = Tail(broadcast) /\ todo' = conns
      /\ todo = {}
  BY DEF HubTakeBroadcast, IInv, HubOrder
<1>3. /\ Head(broadcast) = broadcast[1] /\ Len(Tail(broadcast)) = Len(broadcast) - 1
      /\ \A k \in 1 .. Len(Tail(broadcast)) : Tail(broadcast)[k] = broadcast[k+1]
      /\ Len(broadcast) > 0
  BY <1>0, HeadTailProperties, EmptySeq
<1>4. Dequeued' = Dequeued + 1
  BY <1>0, <1>1, <1>2, <1>3 DEF Dequeued
<1>5. QueueInOrder'
  <2>1. data' = Dequeued + 1
    BY <1>0, <1>2, <1>3 DEF SnapInv, QueueInOrder
  <2>2. ASSUME NEW k \in 1 .. Len(broadcast) - 1 PROVE broadcast'[k] = Dequeued' + k
    <3>1. k + 1 \in 1 .. Len(broadcast) /\ broadcast'[k] = broadcast[k+1]
      BY <1>0, <1>2, <1>3
    <3> QED BY <1>0, <1>4, <3>1 DEF SnapInv, QueueInOrder
  <2> QED BY <1>2, <1>3, <1>4, <2>1, <2>2 DEF QueueInOrder
<1>6. ASSUME NEW c \in Conns PROVE Gapless(c)'
  <2> SUFFICES ASSUME writer'[c] # "done" PROVE \E newest \in Nat : Waiting(c, newest)'
    BY DEF Gapless
  <2>1. PICK newest \in Nat : Waiting(c, newest)
    BY <1>1 DEF SnapInv, Gapless
  <2>2. newest \in seen[c] .. Dequeued' /\ seen[c] \in Nat
    BY <1>0, <1>4, <2>1 DEF Waiting, IInv, TypeOK
  <2>3. c \in conns => newest = Dequeued' - 1
    BY <1>0, <1>2, <1>4, <2>1 DEF Waiting
  <2>4. Waiting(c, newest)'
    BY <1>1, <1>2, <2>1, <2>2, <2>3 DEF Waiting, Stream
  <2> QED BY <2>4
<1> QED BY <1>1, <1>5, <1>6 DEF SnapInv, NothingEarly, Unregistered, Stream

\* A connection joins with nothing waiting and is up to date from here on.
LEMMA RegisterSnap ==
  ASSUME IInv, SnapInv, NEW c \in Conns, HubRegister(c)
  PROVE  SnapInv'
<1>1. /\ UNCHANGED <<data, todo, broadcast, published, hold, send, writer>>
      /\ server[c] = "registering" /\ server' = [server EXCEPT ![c] = "starting"]
      /\ conns' = conns \cup {c} /\ seen' = [seen EXCEPT ![c] = Dequeued]
      /\ hub = "select" /\ todo = {}
  BY DEF HubRegister, loopVars, chanVars, IInv, HubOrder
<1>2. Dequeued' = Dequeued /\ Dequeued \in Nat
  BY <1>1, StreamTypes DEF Dequeued, IInv
<1>3. seen \in [Conns -> Nat] /\ server \in [Conns -> {"none", "registering", "starting", "returned"}]
  BY DEF IInv, TypeOK
<1>4. Waiting(c, Dequeued)'
  <2>1. Stream(c)' = <<>>
    BY <1>1 DEF SnapInv, NothingEarly, Unregistered, Stream
  <2>2. Numbers(Stream(c)', "snapshot") = {} /\ Increasing(Stream(c)', "snapshot")
    <3>1. Len(Stream(c)') = 0
      BY <2>1, EmptySeq
    <3> QED BY <3>1 DEF Numbers, Increasing
  <2>3. seen'[c] = Dequeued /\ Dequeued \in seen'[c] .. Dequeued' /\ seen'[c] + 1 .. Dequeued = {}
    BY <1>1, <1>2, <1>3
  <2> QED BY <1>1, <1>2, <2>2, <2>3 DEF Waiting
<1>5. ASSUME NEW d \in Conns, d # c PROVE Gapless(d)'
  BY <1>1, <1>2, <1>3, <1>5, SameFeed DEF SnapInv
<1>6. \A d \in Conns : Gapless(d)'
  BY <1>2, <1>4, <1>5 DEF Gapless
<1>7. QueueInOrder'
  BY <1>1, <1>2 DEF SnapInv, QueueInOrder
<1>8. NothingEarly'
  <2> SUFFICES ASSUME NEW d \in Conns, Unregistered(d)' PROVE Stream(d)' = <<>> /\ seen'[d] = 0
    BY DEF NothingEarly
  <2>1. d # c /\ Unregistered(d)
    BY <1>1, <1>3 DEF Unregistered
  <2> QED BY <1>1, <1>3, <2>1 DEF SnapInv, NothingEarly, Stream
<1> QED BY <1>6, <1>7, <1>8 DEF SnapInv

\* A connection leaves: nothing is promised to it beyond what waits already.
LEMMA LeaveSnap ==
  ASSUME IInv, SnapInv, NEW c \in Conns, HubUnregister(c) \/ FanoutKick(c)
  PROVE  SnapInv'
<1>1. /\ UNCHANGED <<data, broadcast, published, hold, send, writer, seen, server>>
      /\ todo' \subseteq todo /\ todo \subseteq todo' \cup {c}
      /\ conns' \subseteq conns /\ (c \in todo => c \notin conns')
  <2>1. CASE HubUnregister(c)
    BY <2>1 DEF HubUnregister, Expel, loopVars, wireVars, IInv, HubOrder
  <2>2. CASE FanoutKick(c)
    BY <2>2 DEF FanoutKick, Visit, Expel, loopVars, wireVars, pumpVars
  <2> QED BY <2>1, <2>2
<1>2. Dequeued' = Dequeued
  BY <1>1 DEF Dequeued
<1>3. \A d \in Conns : Gapless(d)'
  BY <1>1, <1>2, SameFeed DEF SnapInv
<1> QED BY <1>1, <1>2, <1>3 DEF SnapInv, QueueInOrder, NothingEarly, Unregistered, Stream

\* A message put into a send channel is the last of its stream.
LEMMA SentLast ==
  ASSUME TypeOK, NEW c \in Conns, NEW m \in Message,
         send' = [send EXCEPT ![c] = Append(@, m)], hold' = hold
  PROVE  /\ Stream(c)' = Append(Stream(c), m)
         /\ \A d \in Conns \ {c} : send'[d] = send[d]
<1>1. hold[c] \in Seq(Message) /\ send[c] \in Seq(Message) /\ <<m>> \in Seq(Message)
      /\ send'[c] = Append(send[c], m)
  BY DEF TypeOK
<1>2. Append(send[c], m) = send[c] \o <<m>>
  BY <1>1, AppendIsConcat
<1>3. hold[c] \o (send[c] \o <<m>>) = (hold[c] \o send[c]) \o <<m>>
  <2>1. \A r, s, t \in Seq(Message) : r \o (s \o t) = (r \o s) \o t
    BY ConcatAssociative, SMTT(30)
  <2> QED BY <1>1, <2>1
<1>4. hold[c] \o send[c] \in Seq(Message)
  BY <1>1, ConcatProperties
<1>5. (hold[c] \o send[c]) \o <<m>> = Append(hold[c] \o send[c], m)
  BY <1>4, AppendIsConcat
<1> QED BY <1>1, <1>2, <1>3, <1>5 DEF Stream, TypeOK

\* The fan-out reaches a connection: the snapshot it lacked is now the last one waiting.
LEMMA FanoutSnap ==
  ASSUME IInv, SnapInv, NEW c \in Conns, FanoutSend(c)
  PROVE  SnapInv'
<1>1. /\ UNCHANGED <<data, broadcast, published, hold, writer, seen, server, conns>>
      /\ send' = [send EXCEPT ![c] = Append(@, Snap(data))]
      /\ hub = "fanout" /\ todo' = todo \ {c} /\ c \in todo /\ c \in conns
  BY DEF FanoutSend, Visit, loopVars, pumpVars, wireVars, IInv, HubOrder
<1>2. Dequeued' = Dequeued /\ Dequeued \in Nat
  BY <1>1, StreamTypes DEF Dequeued, IInv
<1>3. Snap(data) \in Message /\ Snap(data).kind = "snapshot" /\ Snap(data).n = Dequeued
  <2>1. data = Dequeued
    BY <1>1 DEF SnapInv, QueueInOrder
  <2> QED BY <1>2, <2>1 DEF Snap, Message
<1>4. Stream(c)' = Append(Stream(c), Snap(data)) /\ Stream(c) \in Seq(Message)
      /\ \A d \in Conns \ {c} : send'[d] = send[d]
  BY <1>1, <1>3, SentLast, StreamTypes DEF IInv
<1>5. ASSUME writer[c] # "done" PROVE Waiting(c, Dequeued)'
  <2>1. PICK newest \in Nat : Waiting(c, newest)
    BY <1>5 DEF SnapInv, Gapless
  <2>2. newest = Dequeued - 1 /\ newest \in seen[c] .. Dequeued /\ seen[c] \in Nat
    BY <1>1, <2>1 DEF Waiting, IInv, TypeOK
  <2>3. \A n \in Numbers(Stream(c), "snapshot") : n < Dequeued
    BY <1>2, <2>1, <2>2 DEF Waiting
  <2>4. /\ Numbers(Stream(c)', "snapshot") = Numbers(Stream(c), "snapshot") \cup {Dequeued}
        /\ Increasing(Stream(c)', "snapshot")
    BY <1>3, <1>4, <2>1, <2>3, StreamAppend DEF Waiting
  <2>5. (seen[c] + 1 .. newest) \cup {Dequeued} = seen[c] + 1 .. Dequeued
    BY <1>2, <2>2
  <2>6. Dequeued \in seen'[c] .. Dequeued' /\ c \notin todo' /\ seen'[c] = seen[c]
    BY <1>1, <1>2, <2>2
  <2>7. Numbers(Stream(c)', "snapshot") = seen'[c] + 1 .. Dequeued
    BY <2>1, <2>4, <2>5, <2>6 DEF Waiting
  <2> QED BY <1>2, <2>4, <2>6, <2>7 DEF Waiting
<1>6. \A d \in Conns : Gapless(d)'
  BY <1>1, <1>2, <1>4, <1>5, SameFeed DEF SnapInv, Gapless
<1>7. QueueInOrder'
  BY <1>1, <1>2 DEF SnapInv, QueueInOrder
<1>8. NothingEarly'
  <2>1. ~Unregistered(c)'
    BY <1>1 DEF IInv, HubOrder, Unregistered
  <2> QED BY <1>1, <1>4, <2>1 DEF SnapInv, NothingEarly, Unregistered, Stream
<1> QED BY <1>6, <1>7, <1>8 DEF SnapInv

\* A response is no snapshot.
LEMMA AnswerSnap ==
  ASSUME IInv, SnapInv, NEW c \in Conns, Answer(c)
  PROVE  SnapInv'
<1>1. /\ UNCHANGED <<hub, todo, data, broadcast, published, hold, writer, seen, server, conns>>
      /\ send' = [send EXCEPT ![c] = Append(@, Resp(reqs[c]))] /\ reader[c] = "handling"
  BY DEF Answer, hubVars, loopVars, wireVars
<1>2. Dequeued' = Dequeued
  BY <1>1 DEF Dequeued
<1>3. Resp(reqs[c]) \in Message /\ Resp(reqs[c]).kind = "response"
  BY DEF Resp, Message, IInv, TypeOK
<1>4. Stream(c)' = Append(Stream(c), Resp(reqs[c])) /\ Stream(c) \in Seq(Message)
      /\ \A d \in Conns \ {c} : send'[d] = send[d]
  BY <1>1, <1>3, SentLast, StreamTypes DEF IInv
<1>5. /\ Numbers(Stream(c)', "snapshot") = Numbers(Stream(c), "snapshot")
      /\ Increasing(Stream(c), "snapshot") => Increasing(Stream(c)', "snapshot")
  BY <1>3, <1>4, StreamAppend
<1>6. Gapless(c)'
  BY <1>1, <1>2, <1>5 DEF SnapInv, Gapless, Waiting
<1>7. \A d \in Conns : Gapless(d)'
  BY <1>1, <1>2, <1>4, <1>6, SameFeed DEF SnapInv
<1>8. QueueInOrder'
  BY <1>1, <1>2 DEF SnapInv, QueueInOrder
<1>9. NothingEarly'
  <2>1. ~Unregistered(c)'
    BY <1>1 DEF IInv, PumpOrder, Unregistered
  <2> QED BY <1>1, <1>4, <2>1 DEF SnapInv, NothingEarly, Unregistered, Stream
<1> QED BY <1>7, <1>8, <1>9 DEF SnapInv

\* What WritePump takes from the channel it still has to write: the stream is the same.
LEMMA TakeKeepsStream ==
  ASSUME IInv, NEW c \in Conns, WriterTake(c)
  PROVE  /\ Stream(c)' = Stream(c)
         /\ \A d \in Conns \ {c} : hold'[d] = hold[d] /\ send'[d] = send[d]
         /\ server[c] = "returned"
<1>1. /\ writer[c] = "select" /\ send[c] # <<>> /\ send[c] \in Seq(Message) /\ hold[c] \in Seq(Message)
      /\ hold'[c] = <<Head(send[c])>> /\ send'[c] = Tail(send[c])
      /\ \A d \in Conns \ {c} : hold'[d] = hold[d] /\ send'[d] = send[d]
  BY DEF WriterTake, IInv, TypeOK
<1>2. hold[c] = <<>>
  <2>1. Len(hold[c]) = 0
    BY <1>1 DEF IInv, PumpOrder
  <2> QED BY <1>1, <2>1, EmptySeq
<1>3. <<Head(send[c])>> \o Tail(send[c]) = send[c] /\ <<>> \o send[c] = send[c]
  BY <1>1, <1>2, ConcatEmptySeq, HeadTailProperties
<1>4. server[c] = "returned"
  BY <1>1 DEF IInv, PumpOrder
<1> QED BY <1>1, <1>2, <1>3, <1>4 DEF Stream

\* The writer takes a message from channel to hand: the stream stays the same.
LEMMA WriterTakeSnap ==
  ASSUME IInv, SnapInv, NEW c \in Conns, WriterTake(c)
  PROVE  SnapInv'
<1>1. /\ UNCHANGED <<hub, todo, data, broadcast, published, seen, server, conns>>
      /\ writer[c] = "select" /\ \A d \in Conns \ {c} : writer'[d] = writer[d]
  BY DEF WriterTake, hubVars, loopVars, wireVars, IInv, TypeOK
<1>2. Dequeued' = Dequeued
  BY <1>1 DEF Dequeued
<1>3. Gapless(c)'
  BY <1>1, <1>2, TakeKeepsStream DEF SnapInv, Gapless, Waiting
<1>4. \A d \in Conns : Gapless(d)'
  BY <1>1, <1>2, <1>3, TakeKeepsStream, SameFeed DEF SnapInv
<1> QED BY <1>1, <1>2, <1>4, TakeKeepsStream DEF SnapInv, QueueInOrder, NothingEarly, Unregistered, Stream

\* What WritePump has written is gone from the front of the stream.
LEMMA WrittenFirst ==
  ASSUME IInv, NEW c \in Conns, WriteSucceeds(c)
  PROVE  /\ hold[c][1] \in Message
         /\ Stream(c) = <<hold[c][1]>> \o Stream(c)'
         /\ Stream(c) \in Seq(Message) /\ Stream(c)' \in Seq(Message)
         /\ \A d \in Conns \ {c} : hold'[d] = hold[d] /\ send'[d] = send[d] /\ writer'[d] = writer[d]
         /\ send'[c] = send[c] /\ server[c] = "returned" /\ writer[c] = "writing"
<1>1. /\ writer[c] = "writing" /\ hold[c] \in Seq(Message) /\ send[c] \in Seq(Message)
      /\ hold'[c] = <<>> /\ send' = send
      /\ \A d \in Conns \ {c} : hold'[d] = hold[d] /\ writer'[d] = writer[d]
  BY DEF WriteSucceeds, IInv, TypeOK, chanVars
<1>2. Len(hold[c]) = 1 /\ server[c] = "returned"
  BY <1>1 DEF IInv, PumpOrder
<1>3. hold[c][1] \in Message
  BY <1>1, <1>2, ElementOfSeq
<1>4. hold[c] = <<hold[c][1]>>
  <2>1. <<hold[c][1]>> \in Seq(Message) /\ Len(<<hold[c][1]>>) = 1
    BY <1>3
  <2> QED BY <1>1, <1>2, <2>1, SeqEqual
<1>5. Stream(c)' = send[c]
  BY <1>1, ConcatEmptySeq DEF Stream
<1>6. Stream(c) \in Seq(Message)
  BY StreamTypes DEF IInv
<1> QED BY <1>1, <1>2, <1>3, <1>4, <1>5, <1>6 DEF Stream

\* What was written is a snapshot: it is the one after the last.
LEMMA NextSnapshotWritten ==
  ASSUME IInv, NEW c \in Conns, WriteSucceeds(c), NEW newest \in Nat, Waiting(c, newest),
         hold[c][1].kind = "snapshot"
  PROVE  /\ hold[c][1].n = seen[c] + 1 /\ seen[c] + 1 \in Nat /\ seen[c] + 1 <= newest
         /\ Increasing(Stream(c)', "snapshot")
         /\ Numbers(Stream(c)', "snapshot") = seen[c] + 2 .. newest
<1> DEFINE m == hold[c][1]
           S == Numbers(Stream(c), "snapshot")
           T == Numbers(Stream(c)', "snapshot")
<1>1. /\ Increasing(Stream(c)', "snapshot")
      /\ m.n \in S /\ \A n \in S : m.n <= n
      /\ T = {n \in S : n > m.n}
  <2>1. /\ m \in Message /\ Stream(c) \in Seq(Message) /\ Stream(c)' \in Seq(Message)
        /\ Stream(c) = <<m>> \o Stream(c)' /\ m.kind = "snapshot"
    BY WrittenFirst
  <2>2. Increasing(Stream(c), "snapshot")
    BY DEF Waiting
  <2> HIDE DEF m
  <2> QED BY <2>1, <2>2, StreamFront
<1>2. S = seen[c] + 1 .. newest /\ seen[c] \in Nat
  BY DEF Waiting, IInv, TypeOK
<1> HIDE DEF m, S, T
<1>3. m.n = seen[c] + 1 /\ seen[c] + 1 <= newest
  BY <1>1, <1>2
<1>4. T = seen[c] + 2 .. newest
  BY <1>1, <1>2, <1>3
<1> QED BY <1>1, <1>2, <1>3, <1>4 DEF m, S, T

\* A written message was the first of its stream.
LEMMA WrittenSnap ==
  ASSUME IInv, SnapInv, NEW c \in Conns, WriteSucceeds(c)
  PROVE  SnapInv'
<1>1. /\ UNCHANGED <<hub, todo, data, broadcast, published, server, conns>>
      /\ \A d \in Conns \ {c} : seen'[d] = seen[d]
      /\ hold[c][1].kind = "snapshot" => seen'[c] = hold[c][1].n
      /\ hold[c][1].kind # "snapshot" => seen'[c] = seen[c]
  BY DEF WriteSucceeds, hubVars, loopVars, IInv, TypeOK
<1>2. Dequeued' = Dequeued /\ Dequeued \in Nat
  BY <1>1, StreamTypes DEF Dequeued, IInv
<1>3. PICK newest \in Nat : Waiting(c, newest)
  BY WrittenFirst DEF SnapInv, Gapless
<1>4. Waiting(c, newest)'
  <2>1. CASE hold[c][1].kind = "snapshot"
    <3>1. /\ seen'[c] = seen[c] + 1 /\ seen[c] \in Nat /\ seen[c] + 1 <= newest
          /\ Increasing(Stream(c)', "snapshot")
          /\ Numbers(Stream(c)', "snapshot") = seen[c] + 2 .. newest
      BY <1>1, <1>3, <2>1, NextSnapshotWritten DEF IInv, TypeOK
    <3>2. newest \in seen'[c] .. Dequeued /\ seen[c] + 2 = seen'[c] + 1
      BY <1>2, <1>3, <3>1 DEF Waiting
    <3> QED BY <1>1, <1>2, <1>3, <3>1, <3>2 DEF Waiting
  <2>2. CASE hold[c][1].kind # "snapshot"
    <3>1. /\ Numbers(Stream(c)', "snapshot") = Numbers(Stream(c), "snapshot")
          /\ Increasing(Stream(c)', "snapshot")
      <4>1. /\ hold[c][1] \in Message /\ Stream(c) \in Seq(Message) /\ Stream(c)' \in Seq(Message)
            /\ Stream(c) = <<hold[c][1]>> \o Stream(c)'
        BY WrittenFirst
      <4>2. Increasing(Stream(c), "snapshot")
        BY <1>3 DEF Waiting
      <4> QED BY <2>2, <4>1, <4>2, StreamFront, ZenonT(60)
    <3> QED BY <1>1, <1>2, <1>3, <2>2, <3>1 DEF Waiting
  <2> QED BY <2>1, <2>2
<1>5. \A d \in Conns \ {c} : Gapless(d)'
  BY <1>1, <1>2, WrittenFirst, SameFeed DEF SnapInv
<1>6. \A d \in Conns : Gapless(d)'
  BY <1>4, <1>5 DEF Gapless
<1>7. NothingEarly'
  <2>1. ~Unregistered(c)'
    BY <1>1, WrittenFirst DEF Unregistered
  <2> QED BY <1>1, <2>1, WrittenFirst DEF SnapInv, NothingEarly, Unregistered, Stream
<1> QED BY <1>1, <1>2, <1>6, <1>7 DEF SnapInv, QueueInOrder

\* A connection whose WritePump has returned is owed nothing.
LEMMA ExitSnap ==
  ASSUME IInv, SnapInv, NEW c \in Conns, writer[c] # "none", WriterExits(c)
  PROVE  SnapInv'
<1>1. /\ UNCHANGED <<hub, todo, data, broadcast, published, server, conns, seen, send>>
      /\ writer'[c] = "done"
      /\ \A d \in Conns \ {c} : hold'[d] = hold[d] /\ writer'[d] = writer[d]
      /\ server[c] = "returned"
  BY DEF WriterExits, hubVars, loopVars, chanVars, wireVars, IInv, TypeOK, PumpOrder
<1>2. Dequeued' = Dequeued
  BY <1>1 DEF Dequeued
<1>3. \A d \in Conns : Gapless(d)'
  BY <1>1, <1>2, SameFeed DEF SnapInv, Gapless
<1> QED BY <1>1, <1>2, <1>3 DEF SnapInv, QueueInOrder, NothingEarly, Unregistered, Stream

\* Every step preserves what is said of the snapshots.
LEMMA StepSnap == IInv /\ SnapInv /\ [Next]_vars => SnapInv'
<1> SUFFICES ASSUME IInv, SnapInv, [Next]_vars PROVE SnapInv'
  OBVIOUS
<1>1. CASE HubStep
  BY <1>1, RegisterSnap, LeaveSnap, FanoutSnap, TakeSnap, QuietSnap DEF HubStep
<1>2. CASE LoopStep
  BY <1>2, BroadcastSnap, QuietSnap DEF LoopStep
<1>3. CASE Cancel \/ UNCHANGED vars
  BY <1>3, QuietSnap
<1>4. ASSUME NEW c \in Conns, Upgrade(c) \/ StartPumps(c) \/ PeerLeaves(c) \/ ReaderStep(c)
      PROVE  SnapInv'
  BY <1>4, QuietSnap, AnswerSnap DEF QuietStep, ReaderStep
<1>5. ASSUME NEW c \in Conns, WriterStep(c) PROVE SnapInv'
  BY <1>5, WriterTakeSnap, WrittenSnap, ExitSnap DEF WriterStep, WriteFails, PingFails, WriterSeesClosed
<1> QED BY <1>1, <1>2, <1>3, <1>4, <1>5 DEF Next

\* In every execution the queue, the fan-out and the streams fit together.
THEOREM SnapshotsHold == Spec => []SnapInv
BY InitSnap, StepSnap, Inductive, PTL DEF Spec

\* Any number of connections and any capacities: the snapshots on their way to a client are
\* the next ones after the last it was sent, and none is missing while it is registered.
THEOREM GaplessFeedHolds == Spec => []GaplessFeed
<1>1. SnapInv => GaplessFeed
  BY DEF SnapInv, Gapless, Waiting, GaplessFeed
<1> QED BY <1>1, SnapshotsHold, PTL

-----------------------------------------------------------------------------
(* The gateway implements SnapshotFeed *)

\* The gateway starts where the feed starts.
LEMMA InitRefines == Init => Feed!FeedInit
BY DEF Init, Feed!FeedInit, feedStatus

\* Steps that neither publish nor deliver: the feed stands still.
LEMMA Stutters ==
  ASSUME published' = published, seen' = seen,
         \A c \in Conns : feedStatus'[c] = feedStatus[c]
  PROVE  UNCHANGED Feed!feedVars
<1>1. feedStatus' = feedStatus
  BY DEF feedStatus
<1> QED BY <1>1 DEF Feed!feedVars

\* The Hub's registration of a connection is where its feed starts.
LEMMA RegisterJoins ==
  ASSUME IInv, NEW c \in Conns, HubRegister(c)
  PROVE  Feed!Join(c)
<1>1. /\ server[c] = "registering" /\ server' = [server EXCEPT ![c] = "starting"]
      /\ UNCHANGED <<writer, published>>
      /\ writer[c] = "none"
      /\ seen' = [seen EXCEPT ![c] = Dequeued]
  BY DEF HubRegister, loopVars, IInv, PumpOrder
<1>2. Dequeued \in 0 .. published
  BY StreamTypes DEF IInv, TypeOK
<1>3. server \in [Conns -> {"none", "registering", "starting", "returned"}]
  BY DEF IInv, TypeOK
<1>4. feedStatus[c] = "out" /\ feedStatus' = [feedStatus EXCEPT ![c] = "live"]
  BY <1>1, <1>3 DEF feedStatus
<1> QED BY <1>1, <1>2, <1>4 DEF Feed!Join

\* A snapshot that WritePump has written is the client's next one.
LEMMA WriteDelivers ==
  ASSUME IInv, SnapInv, NEW c \in Conns, WriteSucceeds(c)
  PROVE  Feed!Deliver(c) \/ UNCHANGED Feed!feedVars
<1>1. /\ UNCHANGED <<server, published>>
      /\ writer[c] = "writing" /\ writer' = [writer EXCEPT ![c] = "select"]
      /\ hold[c][1].kind = "snapshot" => seen' = [seen EXCEPT ![c] = hold[c][1].n]
      /\ hold[c][1].kind # "snapshot" => seen' = seen
  BY DEF WriteSucceeds, loopVars
<1>2. server[c] = "returned" /\ writer \in [Conns -> {"none", "select", "writing", "done"}]
  BY <1>1 DEF IInv, TypeOK, PumpOrder
<1>3. feedStatus' = feedStatus /\ feedStatus[c] = "live"
  BY <1>1, <1>2 DEF feedStatus
<1>4. CASE hold[c][1].kind = "snapshot"
  <2>1. PICK newest \in Nat : Waiting(c, newest)
    BY WrittenFirst DEF SnapInv, Gapless
  <2>2. /\ hold[c][1].n = seen[c] + 1 /\ seen[c] + 1 <= newest /\ newest <= Dequeued
        /\ Dequeued <= published
    <3>1. hold[c][1].n = seen[c] + 1 /\ seen[c] + 1 <= newest
      BY <1>4, <2>1, NextSnapshotWritten
    <3>2. newest <= Dequeued
      BY <2>1, StreamTypes DEF Waiting, IInv, TypeOK
    <3> QED BY <3>1, <3>2, StreamTypes DEF IInv
  <2>3. seen[c] < published
    <3>1. seen[c] \in Nat /\ published \in Nat /\ Dequeued \in Nat
      BY StreamTypes DEF IInv, TypeOK
    <3> QED BY <2>1, <2>2, <3>1
  <2> QED BY <1>1, <1>3, <1>4, <2>2, <2>3 DEF Feed!Deliver
<1>5. CASE hold[c][1].kind # "snapshot"
  BY <1>1, <1>3, <1>5 DEF Feed!feedVars
<1> QED BY <1>4, <1>5

\* When WritePump returns, the feed of its connection ends.
LEMMA ExitEnds ==
  ASSUME IInv, NEW c \in Conns, writer[c] \in {"select", "writing"}, WriterExits(c)
  PROVE  Feed!End(c)
<1>1. /\ UNCHANGED <<server, published, seen>>
      /\ writer' = [writer EXCEPT ![c] = "done"]
  BY DEF WriterExits, loopVars, wireVars
<1>2. server[c] = "returned" /\ writer \in [Conns -> {"none", "select", "writing", "done"}]
  BY DEF IInv, TypeOK, PumpOrder
<1>3. feedStatus[c] = "live" /\ feedStatus' = [feedStatus EXCEPT ![c] = "ended"]
  BY <1>1, <1>2 DEF feedStatus
<1> QED BY <1>1, <1>3 DEF Feed!End

\* Every step of the gateway is a step of the feed or none.
LEMMA StepRefines == IInv /\ SnapInv /\ [Next]_vars => [Feed!FeedNext]_(Feed!feedVars)
<1> SUFFICES ASSUME IInv, SnapInv, [Next]_vars
             PROVE  Feed!FeedNext \/ UNCHANGED Feed!feedVars
  OBVIOUS
<1> USE DEF hubVars, loopVars, pumpVars, chanVars, reqVars, wireVars
<1>1. CASE HubStep
  <2>1. ASSUME NEW c \in Conns, HubRegister(c) PROVE Feed!FeedNext
    BY <2>1, RegisterJoins DEF Feed!FeedNext
  <2>2. ASSUME NEW c \in Conns, HubUnregister(c) \/ FanoutSend(c) \/ FanoutKick(c)
        PROVE  UNCHANGED Feed!feedVars
    <3>1. UNCHANGED <<published, seen, server, writer>>
      BY <2>2 DEF HubUnregister, FanoutSend, FanoutKick
    <3> QED BY <3>1, Stutters DEF feedStatus
  <2>3. CASE HubTakeBroadcast \/ HubCount \/ HubStop
    <3>1. UNCHANGED <<published, seen, server, writer>>
      BY <2>3 DEF HubTakeBroadcast, HubCount, HubStop
    <3> QED BY <3>1, Stutters DEF feedStatus
  <2> QED BY <1>1, <2>1, <2>2, <2>3 DEF HubStep
<1>2. CASE LoopStep
  <2>1. UNCHANGED <<seen, server, writer>> /\ published' \in {published, published + 1}
    BY <1>2 DEF LoopStep, LoopTick, LoopBroadcast, LoopStop
  <2>2. feedStatus' = feedStatus
    BY <2>1 DEF feedStatus
  <2> QED BY <2>1, <2>2 DEF Feed!FeedNext, Feed!Publish, Feed!feedVars
<1>3. CASE Cancel \/ UNCHANGED vars
  <2>1. UNCHANGED <<published, seen, server, writer>>
    BY <1>3 DEF Cancel, vars
  <2> QED BY <2>1, Stutters DEF feedStatus
<1>4. ASSUME NEW c \in Conns, Upgrade(c) \/ StartPumps(c) \/ PeerLeaves(c)
      PROVE  UNCHANGED Feed!feedVars
  <2>1. UNCHANGED <<published, seen>>
    BY <1>4 DEF Upgrade, StartPumps, PeerLeaves
  <2>2. ASSUME NEW d \in Conns PROVE feedStatus'[d] = feedStatus[d]
    <3>1. CASE Upgrade(c)
      BY <3>1 DEF Upgrade, feedStatus, IInv, TypeOK
    <3>2. CASE StartPumps(c)
      <4>1. writer[c] = "none"
        BY <3>2 DEF StartPumps, IInv, PumpOrder
      <4> QED BY <3>2, <4>1 DEF StartPumps, feedStatus, IInv, TypeOK
    <3>3. CASE PeerLeaves(c)
      BY <3>3 DEF PeerLeaves, feedStatus
    <3> QED BY <1>4, <3>1, <3>2, <3>3
  <2> QED BY <2>1, <2>2, Stutters
<1>5. ASSUME NEW c \in Conns, ReaderStep(c) PROVE UNCHANGED Feed!feedVars
  <2>1. UNCHANGED <<published, seen, server, writer>>
    <3>1. seen' = seen
      BY <1>5 DEF ReaderStep, ReadRequest, Answer, AnswerDropped, AnswerPanics, ReadFails, ReaderCloses
    <3> QED BY <1>5, <3>1, ReaderFrame DEF IInv
  <2> QED BY <2>1, Stutters DEF feedStatus
<1>6. ASSUME NEW c \in Conns, WriterTake(c) PROVE UNCHANGED Feed!feedVars
  <2>1. UNCHANGED <<published, seen, server>> /\ writer[c] = "select"
        /\ writer' = [writer EXCEPT ![c] = "writing"]
    BY <1>6 DEF WriterTake
  <2>2. \A d \in Conns : feedStatus'[d] = feedStatus[d]
    BY <2>1 DEF feedStatus, IInv, TypeOK
  <2> QED BY <2>1, <2>2, Stutters
<1>7. ASSUME NEW c \in Conns, WriteSucceeds(c) PROVE Feed!FeedNext \/ UNCHANGED Feed!feedVars
  BY <1>7, WriteDelivers DEF Feed!FeedNext
<1>8. ASSUME NEW c \in Conns, WriteFails(c) \/ PingFails(c) \/ WriterSeesClosed(c)
      PROVE  Feed!FeedNext
  BY <1>8, ExitEnds DEF WriteFails, PingFails, WriterSeesClosed, Feed!FeedNext
<1> QED BY <1>1, <1>2, <1>3, <1>4, <1>5, <1>6, <1>7, <1>8 DEF Next, WriterStep

\* Any number of connections and any capacities: broadcast queue, fan-out, send channels and
\* WritePumps together implement a feed that skips, repeats and reorders nothing.
THEOREM GatewayImplementsFeed == Spec => FeedSpec
BY InitRefines, StepRefines, Inductive, SnapshotsHold, PTL DEF Spec, FeedSpec, Feed!FeedSpec

-----------------------------------------------------------------------------
(* Responses *)

\* The numbers a response may still have to come with.
Owed(c) == {i \in 1 .. Finished(c) : i > answered[c] /\ i \notin dropped[c]}

Accounted(c) ==
  writer[c] # "done" => /\ Increasing(Stream(c), "response")
                        /\ Numbers(Stream(c), "response") = Owed(c)

\* Only a request that was read is answered or dropped, and a panic is ReadPump's last act.
Bookkeeping(c) ==
  /\ panicked[c] => reader[c] \in {"unregistering", "closing", "done"}
  /\ reader[c] = "handling" \/ panicked[c] => reqs[c] > 0
  /\ answered[c] <= Finished(c)
  /\ dropped[c] \subseteq 1 .. Finished(c)

RespInv == \A c \in Conns : Bookkeeping(c) /\ Accounted(c)

\* At the start no request is open.
LEMMA InitResp == Init => RespInv
<1> SUFFICES ASSUME Init, NEW c \in Conns PROVE Bookkeeping(c) /\ Accounted(c)
  BY DEF RespInv
<1>1. Finished(c) = 0 /\ answered[c] = 0 /\ dropped[c] = {} /\ ~panicked[c] /\ reader[c] = "none"
  BY DEF Init, Finished
<1>2. Len(Stream(c)) = 0
  BY ConcatEmptySeq, EmptySeq DEF Init, Stream
<1>3. Increasing(Stream(c), "response") /\ Numbers(Stream(c), "response") = {}
  BY <1>2 DEF Increasing, Numbers
<1> QED BY <1>1, <1>3 DEF Bookkeeping, Accounted, Owed

\* A step that touches neither a connection's stream nor its books keeps them right.
LEMMA SameBooks ==
  ASSUME NEW c \in Conns, Bookkeeping(c), Accounted(c), TypeOK,
         Numbers(Stream(c)', "response") = Numbers(Stream(c), "response"),
         Increasing(Stream(c), "response") => Increasing(Stream(c)', "response"),
         writer'[c] = "done" \/ writer[c] # "done",
         answered'[c] = answered[c], dropped'[c] = dropped[c], panicked'[c] = panicked[c],
         \/ reqs'[c] = reqs[c] /\ reader'[c] = reader[c]
         \/ reqs'[c] = reqs[c] /\ reader[c] # "handling" /\ reader'[c] # "handling"
              /\ (panicked[c] => reader'[c] \in {"unregistering", "closing", "done"})
         \/ reqs'[c] = reqs[c] + 1 /\ reader[c] = "reading" /\ reader'[c] = "handling"
  PROVE  Bookkeeping(c)' /\ Accounted(c)'
<1>1. Finished(c)' = Finished(c)
  <2>1. reqs[c] \in Nat /\ (panicked[c] => reader[c] # "reading")
    BY DEF Bookkeeping, TypeOK
  <2>2. CASE reqs'[c] = reqs[c] + 1 /\ reader[c] = "reading" /\ reader'[c] = "handling"
    BY <2>1, <2>2 DEF Finished
  <2>3. CASE reqs'[c] = reqs[c] /\ (reader'[c] = "handling" <=> reader[c] = "handling")
    BY <2>3 DEF Finished
  <2> QED BY <2>2, <2>3
<1>2. Bookkeeping(c)'
  BY <1>1 DEF Bookkeeping, TypeOK
<1>3. Owed(c)' = Owed(c)
  BY <1>1 DEF Owed
<1> QED BY <1>2, <1>3 DEF Accounted

\* The fan-out and WritePump's taking of a message change nothing of the responses, nor does
\* anybody who touches no channel.
LEMMA QuietResp ==
  ASSUME IInv, RespInv, [Next]_vars,
         ~ \E c \in Conns : Answer(c) \/ AnswerDropped(c) \/ AnswerPanics(c) \/ WriteSucceeds(c),
         NEW d \in Conns
  PROVE  Bookkeeping(d)' /\ Accounted(d)'
<1> USE DEF hubVars, loopVars, pumpVars, chanVars, reqVars, wireVars
<1>0. Bookkeeping(d) /\ Accounted(d) /\ TypeOK /\ PumpOrder
  BY DEF RespInv, IInv
<1>1. ASSUME NEW c \in Conns, FanoutSend(c) PROVE Bookkeeping(d)' /\ Accounted(d)'
  <2>1. /\ UNCHANGED <<hold, writer, reader, reqs, dropped, panicked, answered>>
        /\ send' = [send EXCEPT ![c] = Append(@, Snap(data))]
    BY <1>1 DEF FanoutSend
  <2>2. Snap(data) \in Message /\ Snap(data).kind # "response"
    BY <1>0 DEF Snap, Message, TypeOK
  <2>3. /\ Numbers(Stream(d)', "response") = Numbers(Stream(d), "response")
        /\ Increasing(Stream(d), "response") => Increasing(Stream(d)', "response")
    <3>1. CASE d = c
      <4>1. Stream(d)' = Append(Stream(d), Snap(data)) /\ Stream(d) \in Seq(Message)
        BY <1>0, <2>1, <2>2, <3>1, SentLast, StreamTypes DEF IInv
      <4> QED BY <2>2, <4>1, StreamAppend
    <3>2. CASE d # c
      BY <1>0, <2>1, <2>2, <3>2, SentLast DEF Stream
    <3> QED BY <3>1, <3>2
  <2> QED BY <1>0, <2>1, <2>3, SameBooks
<1>2. ASSUME NEW c \in Conns, WriterTake(c) PROVE Bookkeeping(d)' /\ Accounted(d)'
  <2>1. /\ UNCHANGED <<reader, reqs, dropped, panicked, answered>>
        /\ writer[d] = "done" => writer'[d] = "done"
    BY <1>0, <1>2 DEF WriterTake, TypeOK
  <2>2. Stream(d)' = Stream(d)
    BY <1>2, TakeKeepsStream DEF Stream
  <2> QED BY <1>0, <2>1, <2>2, SameBooks
<1>3. ASSUME NEW c \in Conns, WriteFails(c) \/ PingFails(c) \/ WriterSeesClosed(c)
      PROVE  Bookkeeping(d)' /\ Accounted(d)'
  <2>1. WriterExits(c)
    BY <1>3 DEF WriteFails, PingFails, WriterSeesClosed
  <2>2. UNCHANGED <<reader, reqs, dropped, panicked, answered, send>>
    BY <2>1 DEF WriterExits
  <2>3. CASE d = c
    <3>1. writer'[d] = "done"
      BY <1>0, <2>1, <2>3 DEF WriterExits, TypeOK
    <3> QED BY <1>0, <2>2, <3>1 DEF Bookkeeping, Accounted, Finished
  <2>4. CASE d # c
    <3>1. hold'[d] = hold[d] /\ writer'[d] = writer[d]
      BY <1>0, <2>1, <2>4 DEF WriterExits, TypeOK
    <3>2. Stream(d)' = Stream(d)
      BY <2>2, <3>1 DEF Stream
    <3> QED BY <1>0, <2>2, <3>1, <3>2, SameBooks
  <2> QED BY <2>3, <2>4
<1>4. ASSUME UNCHANGED <<hold, send>>, UNCHANGED <<dropped, panicked, answered>>,
             writer[d] = "done" => writer'[d] = "done",
             \/ reqs'[d] = reqs[d] /\ reader'[d] = reader[d]
             \/ reqs'[d] = reqs[d] /\ reader[d] # "handling" /\ reader'[d] # "handling"
                  /\ (panicked[d] => reader'[d] \in {"unregistering", "closing", "done"})
             \/ reqs'[d] = reqs[d] + 1 /\ reader[d] = "reading" /\ reader'[d] = "handling"
      PROVE  Bookkeeping(d)' /\ Accounted(d)'
  <2>1. Stream(d)' = Stream(d)
    BY <1>4 DEF Stream
  <2> QED BY <1>0, <1>4, <2>1, SameBooks
<1>5. CASE LoopStep \/ Cancel \/ UNCHANGED vars \/ HubTakeBroadcast \/ HubCount \/ HubStop
  BY <1>4, <1>5 DEF LoopStep, LoopTick, LoopBroadcast, LoopStop, Cancel, vars, HubTakeBroadcast, HubCount, HubStop
<1>6. ASSUME NEW c \in Conns, HubRegister(c) \/ FanoutKick(c) \/ Upgrade(c) \/ PeerLeaves(c)
      PROVE  Bookkeeping(d)' /\ Accounted(d)'
  BY <1>4, <1>6 DEF HubRegister, FanoutKick, Upgrade, PeerLeaves
<1>7. ASSUME NEW c \in Conns, HubUnregister(c) PROVE Bookkeeping(d)' /\ Accounted(d)'
  BY <1>0, <1>4, <1>7 DEF HubUnregister, TypeOK, Bookkeeping
<1>8. ASSUME NEW c \in Conns, StartPumps(c) PROVE Bookkeeping(d)' /\ Accounted(d)'
  BY <1>0, <1>4, <1>8 DEF StartPumps, TypeOK, PumpOrder, Bookkeeping
<1>9. ASSUME NEW c \in Conns, ReadRequest(c) \/ ReadFails(c) \/ ReaderCloses(c)
      PROVE  Bookkeeping(d)' /\ Accounted(d)'
  <2>1. CASE ReadRequest(c)
    BY <1>0, <1>4, <2>1 DEF ReadRequest, TypeOK
  <2>2. CASE ReadFails(c) \/ ReaderCloses(c)
    BY <1>0, <1>4, <2>2 DEF ReadFails, ReaderCloses, TypeOK
  <2> QED BY <1>9, <2>1, <2>2
<1> QED
  BY <1>1, <1>2, <1>3, <1>5, <1>6, <1>7, <1>8, <1>9 DEF Next, HubStep, ReaderStep, WriterStep

\* sendMsg finds room: the response is the last of its stream and higher than all before it.
LEMMA AnswerResp ==
  ASSUME IInv, RespInv, NEW c \in Conns, Answer(c)
  PROVE  Bookkeeping(c)' /\ Accounted(c)'
<1>1. /\ UNCHANGED <<hold, writer, reqs, dropped, panicked, answered>>
      /\ send' = [send EXCEPT ![c] = Append(@, Resp(reqs[c]))]
      /\ reader[c] = "handling" /\ reader'[c] = "reading"
  BY DEF Answer, reqVars, wireVars, IInv, TypeOK
<1>2. /\ Bookkeeping(c) /\ Accounted(c) /\ ~panicked[c]
      /\ reqs[c] \in Nat /\ reqs[c] > 0 /\ answered[c] \in Nat
  BY <1>1 DEF RespInv, Bookkeeping, IInv, TypeOK
<1>3. Finished(c) = reqs[c] - 1 /\ Finished(c)' = reqs[c]
  BY <1>1, <1>2 DEF Finished
<1>4. Resp(reqs[c]) \in Message /\ Resp(reqs[c]).kind = "response" /\ Resp(reqs[c]).n = reqs[c]
  BY <1>2 DEF Resp, Message
<1>5. Bookkeeping(c)'
  BY <1>1, <1>2, <1>3 DEF Bookkeeping
<1>6. Owed(c)' = Owed(c) \cup {reqs[c]}
  <2>1. 1 .. reqs[c] = (1 .. reqs[c] - 1) \cup {reqs[c]} /\ reqs[c] > answered[c] /\ reqs[c] \notin dropped[c]
    BY <1>2, <1>3 DEF Bookkeeping
  <2> QED BY <1>1, <1>3, <2>1 DEF Owed
<1>7. ASSUME writer[c] # "done"
      PROVE  Increasing(Stream(c)', "response") /\ Numbers(Stream(c)', "response") = Owed(c)'
  <2>1. Stream(c)' = Append(Stream(c), Resp(reqs[c])) /\ Stream(c) \in Seq(Message)
    BY <1>1, <1>4, SentLast, StreamTypes DEF IInv
  <2>2. Increasing(Stream(c), "response") /\ Numbers(Stream(c), "response") = Owed(c)
    BY <1>2, <1>7 DEF Accounted
  <2>3. \A n \in Numbers(Stream(c), "response") : n < reqs[c]
    BY <1>2, <1>3, <2>2 DEF Owed
  <2> QED BY <1>4, <1>6, <2>1, <2>2, <2>3, StreamAppend
<1> QED BY <1>1, <1>5, <1>7 DEF Accounted

\* sendMsg meets a full channel, or the closed one: the books say so.
LEMMA UnansweredResp ==
  ASSUME IInv, RespInv, NEW c \in Conns, AnswerDropped(c) \/ AnswerPanics(c)
  PROVE  Bookkeeping(c)' /\ Accounted(c)'
<1>1. UNCHANGED <<hold, send, writer, reqs, answered>> /\ reader[c] = "handling"
  BY DEF AnswerDropped, AnswerPanics, chanVars, wireVars
<1>2. /\ Bookkeeping(c) /\ Accounted(c) /\ ~panicked[c]
      /\ reqs[c] \in Nat /\ reqs[c] > 0 /\ answered[c] \in Nat
  BY <1>1 DEF RespInv, Bookkeeping, IInv, TypeOK
<1>3. Stream(c)' = Stream(c)
  BY <1>1 DEF Stream
<1>4. Bookkeeping(c)' /\ Owed(c)' = Owed(c)
  <2>1. CASE AnswerDropped(c)
    <3>1. /\ panicked' = panicked /\ reader'[c] = "reading" /\ dropped'[c] = dropped[c] \cup {reqs[c]}
      BY <2>1 DEF AnswerDropped, IInv, TypeOK
    <3>2. Finished(c) = reqs[c] - 1 /\ Finished(c)' = reqs[c]
      BY <1>1, <1>2, <3>1 DEF Finished
    <3>3. 1 .. reqs[c] = (1 .. reqs[c] - 1) \cup {reqs[c]}
      BY <1>2
    <3> QED BY <1>1, <1>2, <3>1, <3>2, <3>3 DEF Bookkeeping, Owed
  <2>2. CASE AnswerPanics(c)
    <3>1. /\ panicked'[c] = TRUE /\ reader'[c] = "unregistering" /\ dropped' = dropped
      BY <2>2 DEF AnswerPanics, IInv, TypeOK
    <3>2. Finished(c)' = Finished(c)
      BY <1>1, <3>1 DEF Finished
    <3> QED BY <1>1, <1>2, <3>1, <3>2 DEF Bookkeeping, Owed
  <2> QED BY <2>1, <2>2
<1> QED BY <1>1, <1>2, <1>3, <1>4 DEF Accounted

\* What is written is the least number that was owed.
LEMMA WrittenResp ==
  ASSUME IInv, RespInv, NEW c \in Conns, WriteSucceeds(c)
  PROVE  Bookkeeping(c)' /\ Accounted(c)'
<1> DEFINE m == hold[c][1]
<1>1. /\ UNCHANGED <<send, reader, reqs, dropped, panicked>>
      /\ m.kind = "snapshot" => answered'[c] = answered[c]
      /\ m.kind # "snapshot" => answered'[c] = m.n
      /\ writer'[c] = "select"
  BY DEF WriteSucceeds, chanVars, reqVars, IInv, TypeOK
<1>2. /\ m \in Message /\ Stream(c) \in Seq(Message) /\ Stream(c)' \in Seq(Message)
      /\ Stream(c) = <<m>> \o Stream(c)' /\ writer[c] = "writing"
  BY WrittenFirst
<1>3. /\ Bookkeeping(c) /\ answered[c] \in Nat /\ reqs[c] \in Nat
      /\ Increasing(Stream(c), "response") /\ Numbers(Stream(c), "response") = Owed(c)
  BY <1>2 DEF RespInv, Accounted, IInv, TypeOK
<1>4. Finished(c)' = Finished(c) /\ Finished(c) \in Int
  BY <1>1, <1>3 DEF Finished
<1> HIDE DEF m
<1>5. CASE m.kind # "response"
  <2>1. m.kind = "snapshot"
    BY <1>2, <1>5 DEF Message
  <2>2. Numbers(Stream(c)', "response") = Owed(c) /\ Increasing(Stream(c)', "response")
    BY <1>2, <1>3, <1>5, StreamFront
  <2> QED BY <1>1, <1>3, <1>4, <2>1, <2>2 DEF Bookkeeping, Accounted, Owed
<1>6. CASE m.kind = "response"
  <2>1. /\ Increasing(Stream(c)', "response")
        /\ m.n \in Owed(c) /\ \A n \in Owed(c) : m.n <= n
        /\ Numbers(Stream(c)', "response") = {n \in Owed(c) : n > m.n}
    <3> DEFINE all == Numbers(Stream(c), "response")
    <3>1. /\ Increasing(Stream(c)', "response")
          /\ m.n \in all /\ \A n \in all : m.n <= n
          /\ Numbers(Stream(c)', "response") = {n \in all : n > m.n}
      <4> DEFINE t == Stream(c)
                 s == Stream(c)'
      <4>1. m \in Message /\ t \in Seq(Message) /\ s \in Seq(Message) /\ t = <<m>> \o s
            /\ m.kind = "response" /\ Increasing(t, "response")
        BY <1>2, <1>3, <1>6
      <4> HIDE DEF t, s
      <4>2. /\ Increasing(s, "response")
            /\ m.n \in Numbers(t, "response") /\ \A n \in Numbers(t, "response") : m.n <= n
            /\ Numbers(s, "response") = {n \in Numbers(t, "response") : n > m.n}
        BY <4>1, StreamFront
      <4> QED BY <4>2 DEF t, s
    <3> HIDE DEF all
    <3>2. all = Owed(c)
      BY <1>3 DEF all
    <3> QED BY <3>1, <3>2
  <2>2. answered'[c] = m.n /\ m.n > answered[c] /\ m.n \in 1 .. Finished(c)
    BY <1>1, <1>6, <2>1 DEF Owed
  <2>3. Owed(c)' = {n \in Owed(c) : n > m.n}
    BY <1>1, <1>3, <1>4, <2>2 DEF Owed
  <2>4. Bookkeeping(c)'
    BY <1>1, <1>3, <1>4, <2>2 DEF Bookkeeping
  <2> QED BY <2>1, <2>3, <2>4 DEF Accounted
<1> QED BY <1>5, <1>6

\* Every step keeps the responses accounted for.
LEMMA StepResp == IInv /\ RespInv /\ [Next]_vars => RespInv'
<1> SUFFICES ASSUME IInv, RespInv, [Next]_vars, NEW d \in Conns
             PROVE  Bookkeeping(d)' /\ Accounted(d)'
  BY DEF RespInv
<1>1. ASSUME NEW c \in Conns, Answer(c) \/ AnswerDropped(c) \/ AnswerPanics(c) \/ WriteSucceeds(c), d # c
      PROVE  Bookkeeping(d)' /\ Accounted(d)'
  <2>1. hold'[d] = hold[d] /\ send'[d] = send[d] /\ writer'[d] = writer[d]
        /\ reader'[d] = reader[d] /\ reqs'[d] = reqs[d] /\ dropped'[d] = dropped[d]
        /\ panicked'[d] = panicked[d] /\ answered'[d] = answered[d]
    BY <1>1 DEF Answer, AnswerDropped, AnswerPanics, WriteSucceeds, chanVars, reqVars, wireVars, IInv, TypeOK
  <2>2. Stream(d)' = Stream(d)
    BY <2>1 DEF Stream
  <2> QED BY <2>1, <2>2, SameBooks DEF RespInv, IInv
<1>2. ASSUME NEW c \in Conns, Answer(c) \/ AnswerDropped(c) \/ AnswerPanics(c) \/ WriteSucceeds(c)
      PROVE  Bookkeeping(d)' /\ Accounted(d)'
  BY <1>1, <1>2, AnswerResp, UnansweredResp, WrittenResp
<1> QED BY <1>2, QuietResp

\* Any number of connections and any capacities: responses keep the order of the requests,
\* none is sent twice, and one is missing only if sendMsg could not put it into the channel.
THEOREM ResponsesAccountedHolds == Spec => []ResponsesAccounted
<1>1. RespInv => ResponsesAccounted
  BY DEF RespInv, Accounted, Owed, ResponsesAccounted
<1> QED BY <1>1, InitResp, StepResp, Inductive, PTL DEF Spec
=============================================================================
