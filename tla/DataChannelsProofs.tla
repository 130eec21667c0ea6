------------------------ MODULE DataChannelsProofs -------------------------
(***************************************************************************)
(* Proofs about DataChannels, for every number of slots, streams and       *)
(* creations.                                                              *)
(***************************************************************************)
EXTENDS DataChannels, FiniteSets, FiniteSetTheorems, SequenceTheorems, TLAPS

\* What the leaves use again and again.
LEMMA PeerFacts ==
    \A p \in Peer : /\ Other(p) \in Peer /\ Other(p) # p /\ Other(Other(p)) = p
                    /\ \A q \in Peer : q = p \/ q = Other(p)
                    /\ Parity(p) \in {0, 1} /\ Parity(p) # Parity(Other(p))
BY PeersDiffer DEF Peer, Other, Parity

LEMMA BoundFacts == /\ 0 \in Slot /\ 0 \in Stream
                    /\ Slot \subseteq Nat /\ Stream \subseteq Nat
BY BoundsAreNat DEF Slot, Stream

LEMMA ChanFacts ==
    /\ \A p \in Peer, n \in 1 .. MaxCreate :
          <<p, n>> \in Chan /\ <<p, n>>[1] = p /\ <<p, n>>[2] = n
    /\ \A c \in Chan : /\ c[1] \in Peer /\ c[2] \in Nat \ {0}
                       /\ c = <<c[1], c[2]>>
BY DEF Chan

\* The records of the two threads, of the channel objects and of the messages.
LEMMA CreatorTypes ==
    /\ \A pc \in {"idle", "number", "send", "store"}, i \in Slot,
          c \in Chan \cup {NoChan} : CreatorAt(pc, i, c) \in CreatorState
    /\ \A pc, i, c : /\ CreatorAt(pc, i, c).pc = pc
                     /\ CreatorAt(pc, i, c).slot = i
                     /\ CreatorAt(pc, i, c).chan = c
    /\ NotCreating \in CreatorState /\ NotCreating.pc = "idle"
BY BoundFacts DEF CreatorAt, NotCreating, CreatorState

LEMMA ReaderTypes ==
    /\ \A pc \in {"idle", "store", "ack"}, i \in Slot,
          c \in Chan \cup {NoChan}, s \in Stream :
              ReaderAt(pc, i, c, s) \in ReaderState
    /\ \A pc, i, c, s : /\ ReaderAt(pc, i, c, s).pc = pc
                        /\ ReaderAt(pc, i, c, s).slot = i
                        /\ ReaderAt(pc, i, c, s).chan = c
                        /\ ReaderAt(pc, i, c, s).sid = s
    /\ NotReading \in ReaderState /\ NotReading.pc = "idle"
BY BoundFacts DEF ReaderAt, NotReading, ReaderState

LEMMA ObjectTypes ==
    /\ \A s \in Nat : /\ Connected(s) \in Object
                      /\ Connected(s).sid = s
                      /\ Connected(s).state = "CONNECTED"
                      /\ [sid |-> s, state |-> "CONNECTING"] \in Object
    /\ Freed \in Object /\ Freed.state = "CLOSED"
BY DEF Connected, Freed, Object

LEMMA MsgTypes ==
    \A c \in Chan, t \in {"OPEN", "ACK", "DATA"} :
        Msg(t, c) \in Message /\ Msg(t, c).type = t /\ Msg(t, c).chan = c
BY DEF Msg, Message

\* The outcome of a send_sctp_message call.
LEMMA SendTypes ==
    ASSUME TypeOK, NEW p \in Peer, NEW s \in Nat, NEW m \in Message,
           SendOk(p, s, m) \/ SendError(p, s)
    PROVE  net' \in [Peer -> [Stream -> Seq(Message)]] /\ stage' \in [Peer -> Stage]
<1>1. CASE SendOk(p, s, m) /\ UNCHANGED net
  BY <1>1 DEF SendOk, TypeOK
<1>2. CASE SendOk(p, s, m) /\ s \in Stream
           /\ net' = [net EXCEPT ![Other(p)][s] = Append(@, m)]
  BY <1>2, PeerFacts DEF SendOk, TypeOK
<1>3. CASE SendError(p, s)
  BY <1>3 DEF SendError, TypeOK, Stage
<1> QED
  BY <1>1, <1>2, <1>3 DEF SendOk

\* The message at the head of a stream, and what is left when it is taken.
LEMMA ReceiveTypes ==
    ASSUME TypeOK, NEW p \in Peer, NEW s \in Stream, NEW t, Receive(p, s, t)
    PROVE  /\ net' \in [Peer -> [Stream -> Seq(Message)]]
           /\ Head(net[p][s]) \in Message
BY DEF Receive, TypeOK

\* What TypeOK says of the fields of the records.
LEMMA FieldTypes ==
    ASSUME TypeOK
    PROVE  \A p \in Peer :
             /\ creator[p] \in CreatorState
             /\ creator[p].slot \in Slot /\ creator[p].chan \in Chan \cup {NoChan}
             /\ creator[p].pc \in {"number", "send"} => creator[p].chan \in Chan
             /\ reader[p] \in ReaderState
             /\ reader[p].slot \in Slot /\ reader[p].sid \in Stream
             /\ reader[p].chan \in Chan \cup {NoChan}
             /\ \A c \in Chan : /\ chan[p][c] \in Object /\ chan[p][c].sid \in Nat
                                /\ chan[p][c].state \in
                                     {"CLOSED", "CONNECTING", "CONNECTED"}
             /\ \A i \in Slot : channels[p][i] \in Chan \cup {NoChan}
<1> TAKE p \in Peer
<1>1. creator[p] \in CreatorState /\ reader[p] \in ReaderState
  BY DEF TypeOK
<1>2. creator[p].pc \in {"number", "send"} => creator[p].chan \in Chan
  <2>1. made[p] \in 0 .. MaxCreate
    BY DEF TypeOK
  <2>2. creator[p].pc \in {"number", "send"} =>
            creator[p].chan = <<p, made[p]>> /\ made[p] > 0
    BY DEF TypeOK
  <2> QED
    BY <2>1, <2>2 DEF Chan
<1>3. /\ creator[p].slot \in Slot /\ creator[p].chan \in Chan \cup {NoChan}
      /\ reader[p].slot \in Slot /\ reader[p].sid \in Stream
      /\ reader[p].chan \in Chan \cup {NoChan}
  BY <1>1 DEF CreatorState, ReaderState
<1>4. ASSUME NEW c \in Chan
      PROVE  /\ chan[p][c] \in Object /\ chan[p][c].sid \in Nat
             /\ chan[p][c].state \in {"CLOSED", "CONNECTING", "CONNECTED"}
  <2>1. chan[p][c] \in Object
    BY DEF TypeOK
  <2> QED
    BY <2>1 DEF Object
<1>5. \A i \in Slot : channels[p][i] \in Chan \cup {NoChan}
  BY DEF TypeOK
<1> QED
  BY <1>1, <1>2, <1>3, <1>4, <1>5

LEMMA MessageTypes ==
    ASSUME TypeOK, NEW q \in Peer, NEW r \in Stream, NEW j \in DOMAIN net[q][r]
    PROVE  net[q][r][j] \in Message /\ net[q][r][j].chan \in Chan
<1>1. net[q][r] \in Seq(Message)
  BY DEF TypeOK
<1>2. net[q][r][j] \in Message
  BY <1>1
<1> QED
  BY <1>2 DEF Message

\* An assignment to one entry of a function of functions keeps its type.
LEMMA UpdateType ==
    ASSUME NEW A, NEW B, NEW C, NEW f \in [A -> [B -> C]],
           NEW a \in A, NEW b \in B, NEW c \in C
    PROVE  [f EXCEPT ![a][b] = c] \in [A -> [B -> C]]
OBVIOUS

\* ... and changes that entry only.
LEMMA UpdateValue ==
    ASSUME NEW A, NEW B, NEW C, NEW f \in [A -> [B -> C]],
           NEW a \in A, NEW b \in B, NEW c, NEW x \in A, NEW y \in B
    PROVE  \/ [f EXCEPT ![a][b] = c][x][y] = f[x][y]
           \/ x = a /\ y = b /\ [f EXCEPT ![a][b] = c][x][y] = c
<1>1. CASE x = a /\ y = b
  BY <1>1
<1>2. CASE x = a /\ y # b
  BY <1>2
<1>3. CASE x # a
  BY <1>3
<1> QED
  BY <1>1, <1>2, <1>3

\* The last conjuncts of TypeOK, about the channel a thread works on.
ThreadsHaveChannels ==
    /\ \A p \in Peer : creator[p].pc \in {"number", "send"} =>
                          creator[p].chan = <<p, made[p]>> /\ made[p] > 0
    /\ \A p \in Peer : reader[p].pc # "idle" => reader[p].chan \in Chan

\* Every step keeps the type invariant.
LEMMA TypeStep == TypeOK /\ [Next]_vars => TypeOK'
<1> SUFFICES ASSUME TypeOK, [Next]_vars PROVE TypeOK'
  OBVIOUS
<1>0. /\ stage \in [Peer -> Stage] /\ chan \in [Peer -> [Chan -> Object]]
      /\ channels \in [Peer -> [Slot -> Chan \cup {NoChan}]]
      /\ creator \in [Peer -> CreatorState] /\ reader \in [Peer -> ReaderState]
      /\ ThreadsHaveChannels
  BY DEF TypeOK, ThreadsHaveChannels
<1>1. ASSUME NEW p \in Peer, StartSctp(p) \/ Associate(p) \/ SctpFails(p)
                             \/ SctpConnected(p) \/ SwapSocket(p)
      PROVE  TypeOK'
  <2>1. stage' \in [Peer -> Stage]
    BY <1>0, <1>1 DEF StartSctp, Associate, SctpFails, SctpConnected, SwapSocket, Stage
  <2>2. assoc' \in [Peer -> BOOLEAN]
    BY <1>1 DEF StartSctp, Associate, SctpFails, SctpConnected, SwapSocket, TypeOK
  <2>3. stream_cursor' \in [Peer -> Nat]
    <3>1. Parity(p) \in Nat /\ stream_cursor \in [Peer -> Nat]
      BY DEF Parity, TypeOK
    <3>2. \/ stream_cursor' = [stream_cursor EXCEPT ![p] = Parity(p)]
          \/ UNCHANGED stream_cursor
      BY <1>1 DEF StartSctp, Associate, SctpFails, SctpConnected, SwapSocket
    <3> QED
      BY <3>1, <3>2
  <2>4. UNCHANGED <<channels, chan, made, creator, reader, net, sent>>
    BY <1>1 DEF StartSctp, Associate, SctpFails, SctpConnected, SwapSocket
  <2> QED
    BY <2>1, <2>2, <2>3, <2>4 DEF TypeOK
<1>2. ASSUME NEW p \in Peer, CreateScan(p) PROVE TypeOK'
  <2>1. made[p] + 1 \in 1 .. MaxCreate /\ made' \in [Peer -> 0 .. MaxCreate]
    BY <1>2, BoundsAreNat DEF CreateScan, TypeOK
  <2>2. PICK i \in Slot :
          creator' = [creator EXCEPT ![p] = CreatorAt("number", i, <<p, made[p] + 1>>)]
    BY <1>2 DEF CreateScan
  <2>3. creator' \in [Peer -> CreatorState]
    BY <1>0, <2>1, <2>2, ChanFacts, CreatorTypes
  <2>4. ThreadsHaveChannels'
    BY <1>0, <1>2, <2>1, <2>2, CreatorTypes DEF CreateScan, TypeOK, ThreadsHaveChannels
  <2> QED
    BY <1>2, <2>1, <2>3, <2>4 DEF CreateScan, TypeOK, ThreadsHaveChannels
<1>3. ASSUME NEW p \in Peer, CreateNumber(p) PROVE TypeOK'
  <2>1. creator' \in [Peer -> CreatorState] /\ ThreadsHaveChannels'
    BY <1>0, <1>3, FieldTypes, CreatorTypes DEF CreateNumber, ThreadsHaveChannels
  <2>2. [sid |-> stream_cursor[p], state |-> "CONNECTING"] \in Object
    BY ObjectTypes DEF TypeOK
  <2>3. chan' \in [Peer -> [Chan -> Object]]
    BY <1>0, <1>3, <2>2, FieldTypes, UpdateType DEF CreateNumber
  <2> QED
    BY <1>3, <2>1, <2>3 DEF CreateNumber, TypeOK, ThreadsHaveChannels
<1>4. ASSUME NEW p \in Peer, CreateSend(p) PROVE TypeOK'
  <2> DEFINE c == creator[p].chan
             s == chan[p][c].sid
  <2>1. c \in Chan /\ s \in Nat /\ Msg("OPEN", c) \in Message
    BY <1>4, FieldTypes, MsgTypes DEF CreateSend
  <2>2. net' \in [Peer -> [Stream -> Seq(Message)]] /\ stage' \in [Peer -> Stage]
    <3>1. SendOk(p, s, Msg("OPEN", c)) \/ SendError(p, s)
      BY <1>4 DEF CreateSend
    <3> QED
      BY <2>1, <3>1, SendTypes
  <2>3. chan' = chan \/ chan' = [chan EXCEPT ![p][c] = Freed]
    BY <1>4 DEF CreateSend
  <2>4. chan' \in [Peer -> [Chan -> Object]]
    <3>1. [chan EXCEPT ![p][c] = Freed] \in [Peer -> [Chan -> Object]]
      BY <1>0, <2>1, ObjectTypes, UpdateType
    <3> QED
      BY <1>0, <2>3, <3>1
  <2>5. PICK d \in {c, NoChan} :
           creator' = [creator EXCEPT ![p] = CreatorAt("store", creator[p].slot, d)]
    BY <1>4 DEF CreateSend
  <2>6. creator' \in [Peer -> CreatorState] /\ ThreadsHaveChannels'
    BY <1>0, <1>4, <2>1, <2>5, FieldTypes, CreatorTypes
       DEF CreateSend, ThreadsHaveChannels
  <2> QED
    BY <1>4, <2>2, <2>4, <2>6 DEF CreateSend, TypeOK, ThreadsHaveChannels
<1>5. ASSUME NEW p \in Peer, CreateStore(p) PROVE TypeOK'
  <2>1. creator' \in [Peer -> CreatorState] /\ ThreadsHaveChannels'
    BY <1>0, <1>5, CreatorTypes DEF CreateStore, ThreadsHaveChannels
  <2>2. channels' \in [Peer -> [Slot -> Chan \cup {NoChan}]]
    BY <1>0, <1>5, FieldTypes, UpdateType DEF CreateStore
  <2> QED
    BY <1>5, <2>1, <2>2 DEF CreateStore, TypeOK, ThreadsHaveChannels
<1>6. ASSUME NEW p \in Peer, NEW c \in Chan, SendMessage(p, c) PROVE TypeOK'
  <2>1. net' \in [Peer -> [Stream -> Seq(Message)]] /\ stage' \in [Peer -> Stage]
    BY <1>6, FieldTypes, MsgTypes, SendTypes DEF SendMessage
  <2>2. sent' \in [Peer -> 0 .. MaxData]
    BY <1>6, BoundsAreNat DEF SendMessage, TypeOK
  <2> QED
    BY <1>6, <2>1, <2>2 DEF SendMessage, TypeOK
<1>7. ASSUME NEW p \in Peer, NEW s \in Stream, HandleOpenRequest(p, s)
      PROVE  TypeOK'
  <2> DEFINE c == Head(net[p][s]).chan
  <2>1. net' \in [Peer -> [Stream -> Seq(Message)]] /\ c \in Chan
    BY <1>7, ReceiveTypes DEF HandleOpenRequest, Message
  <2>2. UNCHANGED reader \/ \E i \in Slot :
            reader' = [reader EXCEPT ![p] = ReaderAt("store", i, c, s)]
    BY <1>7 DEF HandleOpenRequest
  <2>3. reader' \in [Peer -> ReaderState] /\ ThreadsHaveChannels'
    <3>1. UNCHANGED creator /\ UNCHANGED made
      BY <1>7 DEF HandleOpenRequest
    <3>2. ASSUME NEW i \in Slot, reader' = [reader EXCEPT ![p] = ReaderAt("store", i, c, s)]
          PROVE  reader' \in [Peer -> ReaderState]
                 /\ \A q \in Peer : reader'[q].pc # "idle" => reader'[q].chan \in Chan
      <4>1. ReaderAt("store", i, c, s) \in ReaderState
        BY <2>1, ReaderTypes
      <4>2. ReaderAt("store", i, c, s).chan = c
        BY ReaderTypes
      <4> HIDE DEF c
      <4> QED
        BY <1>0, <2>1, <3>2, <4>1, <4>2 DEF ThreadsHaveChannels
    <3> QED
      BY <1>0, <2>2, <3>1, <3>2 DEF ThreadsHaveChannels
  <2> QED
    BY <1>7, <2>1, <2>3 DEF HandleOpenRequest, TypeOK, ThreadsHaveChannels
<1>8. ASSUME NEW p \in Peer, OpenRequestStore(p) PROVE TypeOK'
  <2>1. reader[p].chan \in Chan
    BY <1>8 DEF OpenRequestStore, TypeOK
  <2>2. reader' \in [Peer -> ReaderState] /\ ThreadsHaveChannels'
    BY <1>0, <1>8, <2>1, FieldTypes, ReaderTypes
       DEF OpenRequestStore, ThreadsHaveChannels
  <2>3. Connected(reader[p].sid) \in Object
    BY FieldTypes, BoundFacts, ObjectTypes
  <2>4. chan' \in [Peer -> [Chan -> Object]]
    BY <1>0, <1>8, <2>1, <2>3, UpdateType DEF OpenRequestStore
  <2>5. channels' \in [Peer -> [Slot -> Chan \cup {NoChan}]]
    BY <1>0, <1>8, <2>1, FieldTypes, UpdateType DEF OpenRequestStore
  <2> QED
    BY <1>8, <2>2, <2>4, <2>5 DEF OpenRequestStore, TypeOK, ThreadsHaveChannels
<1>9. ASSUME NEW p \in Peer, OpenRequestAck(p) PROVE TypeOK'
  <2>1. reader[p].chan \in Chan /\ reader[p].sid \in Nat
    BY <1>0, <1>9, FieldTypes, BoundFacts DEF OpenRequestAck, ThreadsHaveChannels
  <2>2. net' \in [Peer -> [Stream -> Seq(Message)]] /\ stage' \in [Peer -> Stage]
    BY <1>9, <2>1, MsgTypes, SendTypes DEF OpenRequestAck
  <2>3. reader' \in [Peer -> ReaderState] /\ ThreadsHaveChannels'
    BY <1>0, <1>9, ReaderTypes DEF OpenRequestAck, ThreadsHaveChannels
  <2> QED
    BY <1>9, <2>2, <2>3 DEF OpenRequestAck, TypeOK, ThreadsHaveChannels
<1>10. ASSUME NEW p \in Peer, NEW s \in Stream,
              HandleOpenAck(p, s) \/ HandleData(p, s)
       PROVE  TypeOK'
  <2>1. net' \in [Peer -> [Stream -> Seq(Message)]]
    BY <1>10, ReceiveTypes DEF HandleOpenAck, HandleData
  <2>2. UNCHANGED chan \/ \E c \in Chan : \E o \in Object :
             chan' = [chan EXCEPT ![p][c] = o]
    <3>1. ASSUME NEW i \in Slot, channels[p][i] # NoChan
          PROVE  /\ channels[p][i] \in Chan
                 /\ chan[p][channels[p][i]] \in Object
                 /\ Connected(chan[p][channels[p][i]].sid) \in Object
      <4>1. channels[p][i] \in Chan
        BY <3>1, FieldTypes
      <4> QED
        BY <4>1, FieldTypes, ObjectTypes
    <3> QED
      BY <1>10, <3>1 DEF HandleOpenAck, HandleData, First, SlotsOn
  <2>3. chan' \in [Peer -> [Chan -> Object]]
    <3>1. ASSUME NEW c \in Chan, NEW o \in Object, chan' = [chan EXCEPT ![p][c] = o]
          PROVE  chan' \in [Peer -> [Chan -> Object]]
      BY <1>0, <3>1, UpdateType
    <3> QED
      BY <1>0, <2>2, <3>1
  <2> QED
    BY <1>10, <2>1, <2>3 DEF HandleOpenAck, HandleData, TypeOK
<1>11. CASE UNCHANGED vars
  BY <1>11 DEF vars, TypeOK
<1> QED
  BY <1>1, <1>2, <1>3, <1>4, <1>5, <1>6, <1>7, <1>8, <1>9, <1>10, <1>11
     DEF Next, Startup, CreateStep, Deliver, ReaderStep

LEMMA TypeInit == Init => TypeOK
BY PeerFacts, BoundFacts, BoundsAreNat, CreatorTypes, ReaderTypes, ObjectTypes
   DEF Init, TypeOK, Stage

\* Type correctness of the data-channel layer, for every configuration.
THEOREM TypeCorrect == Spec => []TypeOK
BY TypeInit, TypeStep, PTL DEF Spec

-----------------------------------------------------------------------------
(***************************************************************************)
(* IndInv is inductive when the application creates channels from          *)
(* on_connect on.                                                          *)
(***************************************************************************)

\* What a send does to the messages on their way, and to the stage.
LEMMA SendEffect ==
    ASSUME TypeOK, NEW p \in Peer, NEW s \in Nat, NEW m \in Message,
           SendOk(p, s, m) \/ SendError(p, s)
    PROVE  /\ \A q \in Peer, t \in Stream : \A k \in DOMAIN net'[q][t] :
                 \/ q = Other(p) /\ t = s /\ net'[q][t][k] = m
                 \/ k \in DOMAIN net[q][t] /\ net'[q][t][k] = net[q][t][k]
           /\ \A q \in Peer :
                 \/ stage'[q] = stage[q]
                 \/ stage[q] \in {"flagged", "up"} /\ stage'[q] = "exited"
<1>1. net \in [Peer -> [Stream -> Seq(Message)]] /\ stage \in [Peer -> Stage]
  BY DEF TypeOK
<1>2. CASE UNCHANGED net
  BY <1>1, <1>2 DEF SendOk, SendError, handshake_done
<1>3. CASE SendOk(p, s, m) /\ s \in Stream
           /\ net' = [net EXCEPT ![Other(p)][s] = Append(@, m)]
  BY <1>1, <1>3, PeerFacts DEF SendOk
<1> QED
  BY <1>2, <1>3 DEF SendOk, SendError

\* What is left of the messages when the main loop has taken one.
LEMMA ReceiveEffect ==
    ASSUME TypeOK, NEW p \in Peer, NEW s \in Stream, NEW t, Receive(p, s, t)
    PROVE  /\ \A q \in Peer, r \in Stream : \A k \in DOMAIN net'[q][r] :
                 \E j \in DOMAIN net[q][r] : net'[q][r][k] = net[q][r][j]
           /\ 1 \in DOMAIN net[p][s]
           /\ Head(net[p][s]) = net[p][s][1] /\ net[p][s][1].type = t
<1>1. net \in [Peer -> [Stream -> Seq(Message)]]
  BY DEF TypeOK
<1>2. /\ net[p][s] \in Seq(Message) /\ net[p][s] # <<>>
      /\ net' = [net EXCEPT ![p][s] = Tail(net[p][s])]
      /\ Head(net[p][s]).type = t
  BY <1>1 DEF Receive
<1>3. 1 \in DOMAIN net[p][s] /\ Head(net[p][s]) = net[p][s][1]
  BY <1>2
<1>4. \A k \in DOMAIN Tail(net[p][s]) :
         k + 1 \in DOMAIN net[p][s] /\ Tail(net[p][s])[k] = net[p][s][k + 1]
  BY <1>2
<1> QED
  BY <1>1, <1>2, <1>3, <1>4

\* The steps that leave the objects, the tables and the creators alone.
LEMMA QuietStep ==
    ASSUME IndInv, TypeOK',
           UNCHANGED <<chan, channels, creator, made>>,
           CursorsRight', MessagesTold', ReaderTold',
           \A p \in Peer : made[p] > 0 => stream_cursor'[p] = stream_cursor[p]
    PROVE  IndInv'
<1>1. OwnNumbered'
  <2> SUFFICES ASSUME NEW p \in Peer, NEW c \in Chan, c[1] = p, Allocated(p, c)
               PROVE  /\ c[2] <= made[p]
                      /\ chan[p][c].sid % 2 = Parity(p)
                      /\ chan[p][c].sid < stream_cursor'[p]
                      /\ creator[p].pc = "number" => creator[p].chan # c
    BY DEF OwnNumbered, Allocated
  <2>1. c[2] > 0 /\ c[2] \in Nat
    BY ChanFacts
  <2>2. made[p] \in Nat
    BY DEF IndInv, TypeOK
  <2> QED
    BY <2>1, <2>2 DEF IndInv, OwnNumbered
<1>2. OwnDistinct' /\ AcceptedTold'
  BY DEF IndInv, OwnDistinct, AcceptedTold, Allocated, Told, InCreation
<1>3. TableAllocated'
  BY DEF IndInv, TableAllocated, Allocated, InCreation
<1> QED
  BY <1>1, <1>2, <1>3 DEF IndInv

LEMMA StartupKeeps ==
    ASSUME IndInv, TypeOK', NEW p \in Peer,
           StartSctp(p) \/ Associate(p) \/ SctpFails(p)
           \/ SctpConnected(p) \/ SwapSocket(p)
    PROVE  IndInv'
<1>1. UNCHANGED <<chan, channels, creator, made, reader, net>>
  BY DEF StartSctp, Associate, SctpFails, SctpConnected, SwapSocket
<1>2. stage \in [Peer -> Stage] /\ stream_cursor \in [Peer -> Nat]
      /\ made \in [Peer -> 0 .. MaxCreate]
  BY DEF IndInv, TypeOK
<1>3. \/ stage' = [stage EXCEPT ![p] = "handshaking"]
         /\ stream_cursor' = [stream_cursor EXCEPT ![p] = Parity(p)]
         /\ stage[p] = "waiting"
      \/ UNCHANGED stream_cursor /\ UNCHANGED stage
      \/ UNCHANGED stream_cursor /\ stage[p] \in {"handshaking", "flagged"}
         /\ \E x \in {"failed", "flagged", "up"} : stage' = [stage EXCEPT ![p] = x]
  BY DEF StartSctp, Associate, SctpFails, SctpConnected, SwapSocket
<1>4. \A q \in Peer : /\ made[q] > 0 => stage[q] \in {"up", "exited"}
                      /\ stage[q] # "waiting" => stream_cursor[q] % 2 = Parity(q)
  BY DEF IndInv, CursorsRight
<1>5. \A q \in Peer : made[q] > 0 =>
         stream_cursor'[q] = stream_cursor[q] /\ stage'[q] = stage[q]
  BY <1>2, <1>3, <1>4
<1>6. Parity(p) % 2 = Parity(p)
  BY DEF Parity
<1>7. CursorsRight'
  BY <1>1, <1>2, <1>3, <1>4, <1>5, <1>6 DEF CursorsRight
<1>8. MessagesTold' /\ ReaderTold'
  BY <1>1 DEF IndInv, MessagesTold, ReaderTold, Told, InCreation, Allocated
<1> QED
  BY <1>1, <1>5, <1>7, <1>8, QuietStep

\* A send that leaves the cursors alone keeps what is known of them.
LEMMA CursorsAfterSend ==
    ASSUME IndInv, UNCHANGED <<made, stream_cursor>>,
           \A q \in Peer : \/ stage'[q] = stage[q]
                           \/ stage[q] \in {"flagged", "up"} /\ stage'[q] = "exited"
    PROVE  CursorsRight'
BY DEF IndInv, CursorsRight

LEMMA SendMessageKeeps ==
    ASSUME IndInv, TypeOK', NEW p \in Peer, NEW c \in Chan, SendMessage(p, c)
    PROVE  IndInv'
<1>1. UNCHANGED <<chan, channels, creator, made, reader, stream_cursor>>
  BY DEF SendMessage
<1> DEFINE s == chan[p][c].sid
           m == Msg("DATA", c)
<1>2. /\ TypeOK /\ s \in Nat /\ m \in Message /\ m.type = "DATA"
      /\ SendOk(p, s, m) \/ SendError(p, s)
  BY FieldTypes, MsgTypes DEF IndInv, SendMessage
<1>3. /\ \A q \in Peer, t \in Stream : \A k \in DOMAIN net'[q][t] :
            \/ net'[q][t][k] = m
            \/ k \in DOMAIN net[q][t] /\ net'[q][t][k] = net[q][t][k]
      /\ \A q \in Peer :
            \/ stage'[q] = stage[q]
            \/ stage[q] \in {"flagged", "up"} /\ stage'[q] = "exited"
  <2> HIDE DEF s, m
  <2> QED
    BY <1>2, SendEffect
<1>4. CursorsRight'
  BY <1>1, <1>3, CursorsAfterSend
<1>5. MessagesTold' /\ ReaderTold'
  <2>1. ReaderTold'
    BY <1>1 DEF IndInv, ReaderTold, Told, InCreation, Allocated
  <2>2. MessagesTold'
    <3> HIDE DEF s, m
    <3> QED
      BY <1>1, <1>2, <1>3 DEF IndInv, MessagesTold, Told, InCreation, Allocated
  <2> QED
    BY <2>1, <2>2
<1> QED
  BY <1>1, <1>4, <1>5, QuietStep

LEMMA HandleOpenRequestKeeps ==
    ASSUME IndInv, TypeOK', NEW p \in Peer, NEW s \in Stream, HandleOpenRequest(p, s)
    PROVE  IndInv'
<1>1. UNCHANGED <<stage, chan, channels, creator, made, stream_cursor>>
  BY DEF HandleOpenRequest
<1>2. /\ \A q \in Peer, r \in Stream : \A k \in DOMAIN net'[q][r] :
            \E j \in DOMAIN net[q][r] : net'[q][r][k] = net[q][r][j]
      /\ 1 \in DOMAIN net[p][s] /\ Head(net[p][s]) = net[p][s][1]
      /\ net[p][s][1].type = "OPEN"
  BY ReceiveEffect DEF IndInv, HandleOpenRequest
<1>3. CursorsRight'
  BY <1>1 DEF IndInv, CursorsRight
<1>4. MessagesTold'
  BY <1>1, <1>2 DEF IndInv, MessagesTold, Told, InCreation, Allocated
<1>5. Told(p, Head(net[p][s]).chan, s)
  BY <1>2 DEF IndInv, MessagesTold
<1>6. ReaderTold'
  <2>1. reader \in [Peer -> ReaderState]
    BY DEF IndInv, TypeOK
  <2>2. CASE UNCHANGED reader
    BY <1>1, <2>2 DEF IndInv, ReaderTold, Told, InCreation, Allocated
  <2>3. ASSUME NEW i \in Slot,
               reader' = [reader EXCEPT ![p] =
                             ReaderAt("store", i, Head(net[p][s]).chan, s)]
        PROVE  ReaderTold'
    <3>1. /\ reader'[p].pc = "store" /\ reader'[p].sid = s
          /\ reader'[p].chan = Head(net[p][s]).chan
          /\ \A q \in Peer : q # p => reader'[q] = reader[q]
      BY <2>1, <2>3, ReaderTypes
    <3>2. \A q \in Peer : \A c, r : Told(q, c, r)' <=> Told(q, c, r)
      BY <1>1 DEF Told, InCreation, Allocated
    <3>3. \A q \in Peer : reader[q].pc # "idle" =>
             /\ Told(q, reader[q].chan, reader[q].sid)
             /\ reader[q].pc = "ack" => chan[q][reader[q].chan].state = "CONNECTED"
      BY DEF IndInv, ReaderTold
    <3>4. ASSUME NEW q \in Peer, reader'[q].pc # "idle"
          PROVE  /\ Told(q, reader'[q].chan, reader'[q].sid)
                 /\ reader'[q].pc = "ack" => chan'[q][reader'[q].chan].state = "CONNECTED"
      BY <1>1, <1>5, <3>1, <3>3, <3>4
    <3> QED
      BY <1>1, <3>4 DEF ReaderTold, Told, InCreation, Allocated
  <2> QED
    BY <2>2, <2>3 DEF HandleOpenRequest
<1> QED
  BY <1>1, <1>3, <1>4, <1>6, QuietStep

LEMMA OpenRequestAckKeeps ==
    ASSUME IndInv, TypeOK', NEW p \in Peer, OpenRequestAck(p)
    PROVE  IndInv'
<1>1. UNCHANGED <<chan, channels, creator, made, stream_cursor>>
  BY DEF OpenRequestAck
<1> DEFINE s == reader[p].sid
           c == reader[p].chan
           m == Msg("ACK", c)
<1>2. /\ TypeOK /\ s \in Stream /\ c \in Chan
      /\ Told(p, c, s) /\ chan[p][c].state = "CONNECTED"
  BY FieldTypes DEF IndInv, OpenRequestAck, ReaderTold, TypeOK
<1>3. /\ s \in Nat /\ m \in Message /\ m.type = "ACK" /\ m.chan = c
      /\ SendOk(p, s, m) \/ SendError(p, s)
  BY <1>2, BoundFacts, MsgTypes DEF OpenRequestAck
<1>4. /\ \A q \in Peer, t \in Stream : \A k \in DOMAIN net'[q][t] :
            \/ q = Other(p) /\ t = s /\ net'[q][t][k] = m
            \/ k \in DOMAIN net[q][t] /\ net'[q][t][k] = net[q][t][k]
      /\ \A q \in Peer :
            \/ stage'[q] = stage[q]
            \/ stage[q] \in {"flagged", "up"} /\ stage'[q] = "exited"
  <2> HIDE DEF s, m
  <2> QED
    BY <1>2, <1>3, SendEffect
<1>5. CursorsRight'
  BY <1>1, <1>4, CursorsAfterSend
<1>6. MessagesTold'
  <2>1. Other(Other(p)) = p
    BY PeerFacts
  <2> HIDE DEF s, m, c
  <2>2. \A q \in Peer, t \in Stream : \A k \in DOMAIN net'[q][t] :
           /\ net'[q][t][k].type = "OPEN" => Told(q, net'[q][t][k].chan, t)
           /\ net'[q][t][k].type = "ACK" =>
                 /\ Told(Other(q), net'[q][t][k].chan, t)
                 /\ chan[Other(q)][net'[q][t][k].chan].state = "CONNECTED"
    BY <1>2, <1>3, <1>4, <2>1 DEF IndInv, MessagesTold
  <2> QED
    BY <1>1, <2>2 DEF MessagesTold, Told, InCreation, Allocated
<1>7. ReaderTold'
  <2>1. reader \in [Peer -> ReaderState] /\ reader' = [reader EXCEPT ![p] = NotReading]
    BY DEF IndInv, TypeOK, OpenRequestAck
  <2>2. \A q \in Peer : reader'[q].pc # "idle" => reader'[q] = reader[q]
    BY <2>1, ReaderTypes
  <2> QED
    BY <1>1, <2>2 DEF IndInv, ReaderTold, Told, InCreation, Allocated
<1> QED
  BY <1>1, <1>5, <1>6, <1>7, QuietStep

\* A step that only sets the state of allocated channels to CONNECTED, and
\* takes a message off a stream.
LEMMA ConnectStep ==
    ASSUME IndInv, TypeOK',
           UNCHANGED <<stage, stream_cursor, channels, made, creator, reader>>,
           \A q \in Peer, r \in Stream : \A k \in DOMAIN net'[q][r] :
                \E j \in DOMAIN net[q][r] : net'[q][r][k] = net[q][r][j],
           \A q \in Peer, c \in Chan :
                \/ chan'[q][c] = chan[q][c]
                \/ /\ Allocated(q, c) /\ ~InCreation(q, c)
                   /\ chan'[q][c].sid = chan[q][c].sid
                   /\ chan'[q][c].state = "CONNECTED"
    PROVE  IndInv'
<1>1. \A q \in Peer, c \in Chan :
         /\ chan'[q][c].sid = chan[q][c].sid
         /\ Allocated(q, c)' <=> Allocated(q, c)
         /\ chan[q][c].state = "CONNECTED" => chan'[q][c].state = "CONNECTED"
         /\ InCreation(q, c) => chan'[q][c] = chan[q][c]
  BY DEF Allocated
<1>2. \A q \in Peer, c \in Chan : InCreation(q, c)' <=> InCreation(q, c)
  BY DEF InCreation
<1>3. \A q \in Peer, c \in Chan : \A r : Told(q, c, r)' <=> Told(q, c, r)
  BY <1>1, <1>2, PeerFacts DEF Told
<1>4. CursorsRight' /\ OwnNumbered' /\ OwnDistinct'
  BY <1>1 DEF IndInv, CursorsRight, OwnNumbered, OwnDistinct
<1>5. AcceptedTold'
  BY <1>1, <1>3 DEF IndInv, AcceptedTold
<1>6. MessagesTold'
  <2>1. ASSUME NEW q \in Peer, NEW r \in Stream, NEW k \in DOMAIN net'[q][r]
        PROVE  \A c : c = net'[q][r][k].chan =>
                 /\ net'[q][r][k].type = "OPEN" => Told(q, c, r)'
                 /\ net'[q][r][k].type = "ACK" =>
                      Told(Other(q), c, r)' /\ chan'[Other(q)][c].state = "CONNECTED"
    <3>1. PICK j \in DOMAIN net[q][r] : net'[q][r][k] = net[q][r][j]
      OBVIOUS
    <3>2. net[q][r][j].chan \in Chan
      BY MessageTypes DEF IndInv
    <3>3. /\ net[q][r][j].type = "OPEN" => Told(q, net[q][r][j].chan, r)
          /\ net[q][r][j].type = "ACK" =>
               /\ Told(Other(q), net[q][r][j].chan, r)
               /\ chan[Other(q)][net[q][r][j].chan].state = "CONNECTED"
      BY DEF IndInv, MessagesTold
    <3> QED
      BY <1>1, <1>3, <3>1, <3>2, <3>3, PeerFacts
  <2> QED
    BY <2>1 DEF MessagesTold
<1>7. ReaderTold'
  <2>1. \A q \in Peer : reader[q].pc # "idle" => reader[q].chan \in Chan
    BY DEF IndInv, TypeOK
  <2> QED
    BY <1>1, <1>3, <2>1 DEF IndInv, ReaderTold
<1>8. TableAllocated'
  <2>1. \A q \in Peer : /\ \A i \in Slot : channels[q][i] \in Chan \cup {NoChan}
                        /\ creator[q].chan \in Chan \cup {NoChan}
                        /\ creator[q].pc = "send" =>
                             creator[q].chan \in Chan /\ InCreation(q, creator[q].chan)
    BY FieldTypes DEF IndInv, InCreation
  <2> QED
    BY <1>1, <1>2, <2>1 DEF IndInv, TableAllocated
<1> QED
  BY <1>4, <1>5, <1>6, <1>7, <1>8 DEF IndInv

LEMMA HandleOpenAckKeeps ==
    ASSUME IndInv, TypeOK', NEW p \in Peer, NEW s \in Stream, HandleOpenAck(p, s)
    PROVE  IndInv'
<1>1. UNCHANGED <<stage, stream_cursor, channels, made, creator, reader>>
  BY DEF HandleOpenAck
<1>2. \A q \in Peer, r \in Stream : \A k \in DOMAIN net'[q][r] :
         \E j \in DOMAIN net[q][r] : net'[q][r][k] = net[q][r][j]
  BY ReceiveEffect DEF IndInv, HandleOpenAck
<1>3. \A q \in Peer, c \in Chan :
         \/ chan'[q][c] = chan[q][c]
         \/ /\ Allocated(q, c) /\ ~InCreation(q, c)
            /\ chan'[q][c].sid = chan[q][c].sid
            /\ chan'[q][c].state = "CONNECTED"
  <2>1. chan \in [Peer -> [Chan -> Object]]
    BY DEF IndInv, TypeOK
  <2>2. CASE UNCHANGED chan
    BY <2>2
  <2>3. ASSUME NEW i \in Slot, channels[p][i] # NoChan,
               chan' = [chan EXCEPT ![p][channels[p][i]] =
                            Connected(chan[p][channels[p][i]].sid)],
               NEW q \in Peer, NEW c \in Chan, chan'[q][c] # chan[q][c]
        PROVE  /\ Allocated(q, c) /\ ~InCreation(q, c)
               /\ chan'[q][c].sid = chan[q][c].sid
               /\ chan'[q][c].state = "CONNECTED"
    <3>1. q = p /\ c = channels[p][i] /\ chan'[q][c] = Connected(chan[q][c].sid)
      BY <2>1, <2>3
    <3>2. chan[q][c].sid \in Nat
      BY FieldTypes DEF IndInv
    <3> QED
      BY <2>3, <3>1, <3>2, ObjectTypes DEF IndInv, TableAllocated
  <2> QED
    BY <2>2, <2>3 DEF HandleOpenAck, First, SlotsOn
<1> QED
  BY <1>1, <1>2, <1>3, ConnectStep

\* A channel of the table is never CLOSED, so HandleData leaves the objects
\* as they are.
LEMMA HandleDataKeeps ==
    ASSUME IndInv, TypeOK', NEW p \in Peer, NEW s \in Stream, HandleData(p, s)
    PROVE  IndInv' /\ UNCHANGED chan
<1>1. UNCHANGED <<stage, stream_cursor, channels, made, creator, reader>>
  BY DEF HandleData
<1>2. \A q \in Peer, r \in Stream : \A k \in DOMAIN net'[q][r] :
         \E j \in DOMAIN net[q][r] : net'[q][r][k] = net[q][r][j]
  BY ReceiveEffect DEF IndInv, HandleData
<1>3. UNCHANGED chan
  <2>1. chan \in [Peer -> [Chan -> Object]]
    BY DEF IndInv, TypeOK
  <2>2. ASSUME NEW i \in Slot, channels[p][i] # NoChan,
               chan' = [chan EXCEPT ![p][channels[p][i]] =
                   IF @.state = "CLOSED" THEN Connected(@.sid) ELSE @]
        PROVE  UNCHANGED chan
    <3>1. chan[p][channels[p][i]].state # "CLOSED"
      BY <2>2 DEF IndInv, TableAllocated, Allocated
    <3> QED
      BY <2>1, <2>2, <3>1
  <2> QED
    BY <2>2 DEF HandleData, First, SlotsOn
<1> QED
  BY <1>1, <1>2, <1>3, ConnectStep

\* The steps of rtcdc_create_data_channel and OpenRequestStore: a peer is told
\* no less afterwards.
ToldKept ==
    /\ \A q \in Peer, c \in Chan : \A r : Told(q, c, r) => Told(q, c, r)'
    /\ \A q \in Peer, c \in Chan : chan[q][c].state = "CONNECTED" =>
           chan'[q][c].state = "CONNECTED"

LEMMA KeptMessages ==
    ASSUME IndInv, ToldKept, NEW q \in Peer, NEW r \in Stream, NEW j \in DOMAIN net[q][r]
    PROVE  \A c : c = net[q][r][j].chan =>
             /\ net[q][r][j].type = "OPEN" => Told(q, c, r)'
             /\ net[q][r][j].type = "ACK" =>
                  Told(Other(q), c, r)' /\ chan'[Other(q)][c].state = "CONNECTED"
<1>1. net[q][r][j].chan \in Chan
  BY MessageTypes DEF IndInv
<1>2. /\ net[q][r][j].type = "OPEN" => Told(q, net[q][r][j].chan, r)
      /\ net[q][r][j].type = "ACK" =>
           /\ Told(Other(q), net[q][r][j].chan, r)
           /\ chan[Other(q)][net[q][r][j].chan].state = "CONNECTED"
  BY DEF IndInv, MessagesTold
<1> QED
  BY <1>1, <1>2, PeerFacts DEF ToldKept

LEMMA KeptReader ==
    ASSUME IndInv, ToldKept, UNCHANGED reader
    PROVE  ReaderTold'
<1>1. \A q \in Peer : reader[q].pc # "idle" => reader[q].chan \in Chan
  BY DEF IndInv, TypeOK
<1> QED
  BY <1>1 DEF IndInv, ReaderTold, ToldKept

LEMMA CreateScanKeeps ==
    ASSUME IndInv, TypeOK', Timing # "any", NEW p \in Peer, CreateScan(p)
    PROVE  IndInv'
<1> DEFINE new == <<p, made[p] + 1>>
<1>1. PICK i \in Slot : creator' = [creator EXCEPT ![p] = CreatorAt("number", i, new)]
  BY DEF CreateScan
<1>2. /\ UNCHANGED <<stage, stream_cursor, channels, chan, reader, net>>
      /\ creator[p].pc = "idle" /\ stage[p] = "up"
      /\ made' = [made EXCEPT ![p] = @ + 1]
  BY UseIsKnown DEF CreateScan, MayCreate
<1>3. creator \in [Peer -> CreatorState] /\ made \in [Peer -> 0 .. MaxCreate]
  BY DEF IndInv, TypeOK
<1>4. \A c \in Chan : c[1] = p /\ Allocated(p, c) => c # new
  BY <1>3 DEF IndInv, OwnNumbered
<1>5. /\ creator'[p].pc = "number" /\ creator'[p].chan = new
      /\ \A q \in Peer : q # p => creator'[q] = creator[q] /\ made'[q] = made[q]
      /\ made'[p] = made[p] + 1 /\ made[p] \in Nat
  BY <1>1, <1>2, <1>3, CreatorTypes
<1>6. new[1] = p
  OBVIOUS
<1> HIDE DEF new
<1>7. \A q \in Peer, c \in Chan :
         /\ InCreation(q, c) => InCreation(q, c)'
         /\ Allocated(q, c) /\ ~InCreation(q, c) => ~InCreation(q, c)'
  <2> SUFFICES ASSUME NEW q \in Peer, NEW c \in Chan
               PROVE  /\ InCreation(q, c) => InCreation(q, c)'
                      /\ Allocated(q, c) /\ ~InCreation(q, c) => ~InCreation(q, c)'
    OBVIOUS
  <2>1. CASE q # p
    BY <1>5, <2>1 DEF InCreation
  <2>2. CASE q = p
    BY <1>2, <1>4, <1>5, <1>6, <2>2 DEF InCreation
  <2> QED
    BY <2>1, <2>2
<1>8. ToldKept
  BY <1>2, <1>7, PeerFacts DEF ToldKept, Told, Allocated
<1>9. CursorsRight'
  BY <1>2, <1>5 DEF IndInv, CursorsRight
<1>10. OwnNumbered'
  <2> SUFFICES ASSUME NEW q \in Peer, NEW c \in Chan, c[1] = q, Allocated(q, c)
               PROVE  /\ c[2] <= made'[q]
                      /\ chan[q][c].sid % 2 = Parity(q)
                      /\ chan[q][c].sid < stream_cursor[q]
                      /\ creator'[q].pc = "number" => creator'[q].chan # c
    BY <1>2 DEF OwnNumbered, Allocated
  <2>1. /\ c[2] <= made[q]
        /\ chan[q][c].sid % 2 = Parity(q)
        /\ chan[q][c].sid < stream_cursor[q]
        /\ creator[q].pc = "number" => creator[q].chan # c
    BY DEF IndInv, OwnNumbered
  <2>2. c[2] \in Nat
    BY ChanFacts
  <2> QED
    BY <1>4, <1>5, <2>1, <2>2
<1>11. OwnDistinct' /\ AcceptedTold'
  BY <1>2, <1>8 DEF IndInv, OwnDistinct, AcceptedTold, Allocated, ToldKept
<1>12. MessagesTold' /\ ReaderTold'
  BY <1>2, <1>8, KeptMessages, KeptReader DEF MessagesTold
<1>13. TableAllocated'
  <2>1. \A q \in Peer, j \in Slot : channels[q][j] \in Chan \cup {NoChan}
    BY FieldTypes DEF IndInv
  <2>2. \A q \in Peer, j \in Slot : channels[q][j] # NoChan =>
           Allocated(q, channels[q][j]) /\ ~InCreation(q, channels[q][j])'
    BY <1>2, <1>7, <2>1 DEF IndInv, TableAllocated
  <2>3. \A q \in Peer : creator'[q].pc \in {"store", "send"} => creator'[q] = creator[q]
    BY <1>5
  <2> QED
    BY <1>2, <2>2, <2>3 DEF IndInv, TableAllocated, Allocated
<1> QED
  BY <1>9, <1>10, <1>11, <1>12, <1>13 DEF IndInv

LEMMA CreateNumberKeeps ==
    ASSUME IndInv, TypeOK', NEW p \in Peer, CreateNumber(p)
    PROVE  IndInv'
<1> DEFINE new == creator[p].chan
           n == stream_cursor[p]
<1>1. /\ UNCHANGED <<stage, channels, made, reader, net>>
      /\ creator[p].pc = "number"
      /\ creator' = [creator EXCEPT ![p] = CreatorAt("send", creator[p].slot, new)]
      /\ chan' = [chan EXCEPT ![p][new] = [sid |-> n, state |-> "CONNECTING"]]
      /\ stream_cursor' = [stream_cursor EXCEPT ![p] = n + 2]
  BY DEF CreateNumber
<1>2. /\ creator \in [Peer -> CreatorState] /\ chan \in [Peer -> [Chan -> Object]]
      /\ stream_cursor \in [Peer -> Nat] /\ n \in Nat
      /\ made[p] \in Nat /\ made[p] > 0
      /\ new \in Chan /\ new = <<p, made[p]>> /\ new[1] = p /\ new[2] = made[p]
  BY <1>1, FieldTypes DEF IndInv, TypeOK
<1>3. ~Allocated(p, new)
  BY <1>1, <1>2 DEF IndInv, OwnNumbered
<1>4. stage[p] # "waiting" /\ n % 2 = Parity(p) /\ (n + 2) % 2 = Parity(p)
  <2>1. stage[p] # "waiting"
    BY <1>2 DEF IndInv, CursorsRight
  <2>2. n % 2 = Parity(p)
    BY <2>1 DEF IndInv, CursorsRight
  <2> QED
    BY <1>2, <2>1, <2>2
<1> HIDE DEF new, n
<1>5. /\ creator'[p].pc = "send" /\ creator'[p].chan = new
      /\ \A q \in Peer : q # p => creator'[q] = creator[q]
      /\ chan'[p][new].sid = n /\ chan'[p][new].state = "CONNECTING"
      /\ \A q \in Peer, c \in Chan : q # p \/ c # new => chan'[q][c] = chan[q][c]
      /\ stream_cursor'[p] = n + 2
      /\ \A q \in Peer : q # p => stream_cursor'[q] = stream_cursor[q]
  BY <1>1, <1>2, CreatorTypes
<1>6. creator[p].chan = new /\ stream_cursor[p] = n
  BY DEF new, n
<1>7. \A q \in Peer, c \in Chan : InCreation(q, c)' <=> InCreation(q, c)
  <2> SUFFICES ASSUME NEW q \in Peer, NEW c \in Chan
               PROVE  InCreation(q, c)' <=> InCreation(q, c)
    OBVIOUS
  <2>1. CASE q = p
    BY <1>1, <1>5, <1>6, <2>1 DEF InCreation
  <2>2. CASE q # p
    BY <1>5, <2>2 DEF InCreation
  <2> QED
    BY <2>1, <2>2
<1>8. \A q \in Peer, c \in Chan : Allocated(q, c) => chan'[q][c] = chan[q][c]
  BY <1>3, <1>5
<1>9. ToldKept
  BY <1>3, <1>5, <1>7, <1>8, PeerFacts DEF ToldKept, Told, Allocated
<1>10. CursorsRight'
  BY <1>1, <1>4, <1>5 DEF IndInv, CursorsRight
<1>11. OwnNumbered'
  <2> SUFFICES ASSUME NEW q \in Peer, NEW c \in Chan, c[1] = q, Allocated(q, c)'
               PROVE  /\ c[2] <= made[q]
                      /\ chan'[q][c].sid % 2 = Parity(q)
                      /\ chan'[q][c].sid < stream_cursor'[q]
                      /\ creator'[q].pc = "number" => creator'[q].chan # c
    BY <1>1 DEF OwnNumbered
  <2>1. CASE q = p /\ c = new
    BY <1>2, <1>4, <1>5, <2>1
  <2>2. CASE ~(q = p /\ c = new)
    <3>1. /\ c[2] <= made[q]
          /\ chan[q][c].sid % 2 = Parity(q)
          /\ chan[q][c].sid < stream_cursor[q]
          /\ creator[q].pc = "number" => creator[q].chan # c
      BY <1>5, <2>2 DEF IndInv, OwnNumbered, Allocated
    <3>2. chan[q][c].sid \in Nat /\ stream_cursor[q] \in Nat
      BY <1>2, FieldTypes DEF IndInv
    <3>3. stream_cursor'[q] >= stream_cursor[q]
      BY <1>2, <1>5, <1>6, <3>2
    <3>4. stream_cursor'[q] \in Nat
      BY <1>2, <1>5, <3>2
    <3>5. chan'[q][c] = chan[q][c] /\ (creator'[q].pc = "number" => creator'[q] = creator[q])
      BY <1>5, <2>2
    <3> QED
      BY <3>1, <3>2, <3>3, <3>4, <3>5
  <2> QED
    BY <2>1, <2>2
<1>12. OwnDistinct'
  <2>1. \A c \in Chan : c[1] = p /\ c # new /\ Allocated(p, c)' =>
           chan'[p][c].sid # n
    <3> SUFFICES ASSUME NEW c \in Chan, c[1] = p, c # new, Allocated(p, c)'
                 PROVE  chan'[p][c].sid # n
      OBVIOUS
    <3>1. chan[p][c].sid \in Nat /\ chan'[p][c] = chan[p][c]
      BY <1>5, FieldTypes DEF IndInv
    <3>2. chan[p][c].sid < n
      BY <1>6, <3>1 DEF IndInv, OwnNumbered, Allocated
    <3> QED
      BY <1>2, <3>1, <3>2
  <2>2. \A q \in Peer, c \in Chan : q # p \/ c # new =>
           chan'[q][c] = chan[q][c] /\ (Allocated(q, c)' <=> Allocated(q, c))
    BY <1>5 DEF Allocated
  <2> QED
    BY <1>5, <2>1, <2>2 DEF IndInv, OwnDistinct
<1>13. AcceptedTold'
  BY <1>2, <1>5, <1>8, <1>9 DEF IndInv, AcceptedTold, Allocated, ToldKept
<1>14. MessagesTold' /\ ReaderTold'
  BY <1>1, <1>9, KeptMessages, KeptReader DEF MessagesTold
<1>15. TableAllocated'
  <2>1. \A q \in Peer, j \in Slot : channels[q][j] \in Chan \cup {NoChan}
    BY FieldTypes DEF IndInv
  <2>2. \A q \in Peer, j \in Slot : channels'[q][j] # NoChan =>
           Allocated(q, channels[q][j])' /\ ~InCreation(q, channels[q][j])'
    BY <1>1, <1>7, <1>8, <2>1 DEF IndInv, TableAllocated, Allocated
  <2>3. \A q \in Peer : creator'[q].pc = "store" /\ creator'[q].chan # NoChan =>
           chan'[q][creator'[q].chan].state # "CLOSED"
    <3> SUFFICES ASSUME NEW q \in Peer, creator'[q].pc = "store",
                        creator'[q].chan # NoChan
                 PROVE  chan'[q][creator'[q].chan].state # "CLOSED"
      OBVIOUS
    <3>1. creator'[q] = creator[q] /\ creator[q].chan \in Chan
      BY <1>5, FieldTypes DEF IndInv
    <3> QED
      BY <1>8, <3>1 DEF IndInv, TableAllocated, Allocated
  <2>4. \A q \in Peer : creator'[q].pc = "send" =>
           chan'[q][creator'[q].chan].state = "CONNECTING"
    <3> SUFFICES ASSUME NEW q \in Peer, creator'[q].pc = "send"
                 PROVE  chan'[q][creator'[q].chan].state = "CONNECTING"
      OBVIOUS
    <3>1. CASE q = p
      BY <1>5, <3>1
    <3>2. CASE q # p
      <4>1. creator'[q] = creator[q] /\ creator[q].chan \in Chan
        BY <1>5, <3>2, FieldTypes DEF IndInv
      <4> QED
        BY <1>5, <3>2, <4>1 DEF IndInv, TableAllocated
    <3> QED
      BY <3>1, <3>2
  <2> QED
    BY <1>1, <2>2, <2>3, <2>4 DEF TableAllocated, Allocated
<1> QED
  BY <1>10, <1>11, <1>12, <1>13, <1>14, <1>15 DEF IndInv

LEMMA CreateSendKeeps ==
    ASSUME IndInv, TypeOK', NEW p \in Peer, CreateSend(p)
    PROVE  IndInv'
<1> DEFINE c0 == creator[p].chan
           s == chan[p][c0].sid
           m == Msg("OPEN", c0)
<1>1. /\ UNCHANGED <<stream_cursor, channels, made, reader>>
      /\ creator[p].pc = "send" /\ InCreation(p, c0)
      /\ \/ /\ SendOk(p, s, m) /\ UNCHANGED chan
            /\ creator' = [creator EXCEPT ![p] = CreatorAt("store", creator[p].slot, c0)]
         \/ /\ SendError(p, s)
            /\ chan' = [chan EXCEPT ![p][c0] = Freed]
            /\ creator' = [creator EXCEPT ![p] = CreatorAt("store", creator[p].slot, NoChan)]
  BY DEF CreateSend, InCreation
<1>2. /\ TypeOK /\ c0 \in Chan /\ c0 = <<p, made[p]>> /\ c0[1] = p
      /\ creator \in [Peer -> CreatorState] /\ chan \in [Peer -> [Chan -> Object]]
      /\ s \in Nat /\ m \in Message /\ m.type = "OPEN" /\ m.chan = c0
      /\ Allocated(p, c0) /\ chan[p][c0].state = "CONNECTING"
  <2>1. TypeOK /\ c0 \in Chan /\ s \in Nat
    BY <1>1, FieldTypes DEF IndInv
  <2>2. c0 = <<p, made[p]>> /\ creator \in [Peer -> CreatorState]
        /\ chan \in [Peer -> [Chan -> Object]]
    BY <1>1, <2>1 DEF TypeOK
  <2>3. chan[p][c0].state = "CONNECTING"
    BY <1>1 DEF IndInv, TableAllocated
  <2> QED
    BY <2>1, <2>2, <2>3, MsgTypes DEF Allocated
<1> HIDE DEF c0, s, m
<1>3. creator[p].chan = c0 /\ chan[p][c0].sid = s /\ NoChan # c0
  BY <1>2, NoChanIsNone DEF c0, s
<1>4. /\ \A q \in Peer, t \in Stream : \A k \in DOMAIN net'[q][t] :
            \/ /\ q = Other(p) /\ t = s /\ net'[q][t][k] = m /\ SendOk(p, s, m)
               /\ UNCHANGED chan
            \/ k \in DOMAIN net[q][t] /\ net'[q][t][k] = net[q][t][k]
      /\ \A q \in Peer :
            \/ stage'[q] = stage[q]
            \/ stage[q] \in {"flagged", "up"} /\ stage'[q] = "exited"
  <2>1. CASE SendOk(p, s, m) /\ UNCHANGED chan
    BY <1>2, <2>1, SendEffect
  <2>2. CASE SendError(p, s)
    BY <1>2, <2>2, SendEffect DEF SendError
  <2> QED
    BY <1>1, <2>1, <2>2
<1>5. /\ creator'[p].pc = "store" /\ creator'[p].chan \in {c0, NoChan}
      /\ creator'[p].chan = c0 => UNCHANGED chan
      /\ \A q \in Peer : q # p => creator'[q] = creator[q]
      /\ \A q \in Peer, c \in Chan : q # p \/ c # c0 => chan'[q][c] = chan[q][c]
      /\ chan'[p][c0] \in {chan[p][c0], Freed}
  <2>1. CASE /\ UNCHANGED chan
             /\ creator' = [creator EXCEPT ![p] = CreatorAt("store", creator[p].slot, c0)]
    BY <1>2, <2>1, CreatorTypes
  <2>2. CASE /\ chan' = [chan EXCEPT ![p][c0] = Freed]
             /\ creator' = [creator EXCEPT ![p] = CreatorAt("store", creator[p].slot, NoChan)]
    <3>1. /\ creator'[p].pc = "store" /\ creator'[p].chan = NoChan
          /\ \A q \in Peer : q # p => creator'[q] = creator[q]
      BY <1>2, <2>2, CreatorTypes
    <3>2. /\ \A q \in Peer, c \in Chan : q # p \/ c # c0 => chan'[q][c] = chan[q][c]
          /\ chan'[p][c0] = Freed
      BY <1>2, <2>2
    <3> QED
      BY <1>3, <3>1, <3>2
  <2> QED
    BY <1>1, <2>1, <2>2
<1>6. \A q \in Peer, c \in Chan :
         /\ InCreation(q, c)' => InCreation(q, c)
         /\ ~InCreation(q, c) => chan'[q][c] = chan[q][c]
  <2> SUFFICES ASSUME NEW q \in Peer, NEW c \in Chan
               PROVE  /\ InCreation(q, c)' => InCreation(q, c)
                      /\ ~InCreation(q, c) => chan'[q][c] = chan[q][c]
    OBVIOUS
  <2>1. CASE q = p
    BY <1>1, <1>3, <1>5, <2>1 DEF InCreation
  <2>2. CASE q # p
    BY <1>5, <2>2 DEF InCreation
  <2> QED
    BY <2>1, <2>2
<1>7. \A q \in Peer, c \in Chan :
         chan[q][c].state = "CONNECTED" => chan'[q][c] = chan[q][c]
  <2> SUFFICES ASSUME NEW q \in Peer, NEW c \in Chan, chan[q][c].state = "CONNECTED"
               PROVE  chan'[q][c] = chan[q][c]
    OBVIOUS
  <2>1. q # p \/ c # c0
    BY <1>2
  <2> QED
    BY <1>5, <2>1
<1>8. ToldKept
  <2>1. ASSUME NEW q \in Peer, NEW c \in Chan, NEW r, Told(q, c, r)
        PROVE  Told(q, c, r)'
    <3>1. Other(q) \in Peer
      BY PeerFacts
    <3> QED
      BY <1>6, <2>1, <3>1 DEF Told, Allocated
  <2> QED
    BY <1>7, <2>1 DEF ToldKept
<1>9. \A c, r : c = c0 /\ r = s /\ UNCHANGED chan => Told(Other(p), c, r)'
  <2>1. Other(Other(p)) = p
    BY PeerFacts
  <2>2. \A c : ~InCreation(p, c)'
    BY <1>5 DEF InCreation
  <2> QED
    BY <1>2, <1>3, <2>1, <2>2 DEF Told, Allocated
<1>10. CursorsRight'
  BY <1>1, <1>4, CursorsAfterSend
<1>11. \A q \in Peer, c \in Chan : Allocated(q, c)' => chan'[q][c] = chan[q][c]
  <2>1. Freed.state = "CLOSED"
    BY ObjectTypes
  <2> QED
    BY <1>5, <2>1 DEF Allocated
<1>12. OwnNumbered'
  <2> SUFFICES ASSUME NEW q \in Peer, NEW c \in Chan, c[1] = q, Allocated(q, c)'
               PROVE  /\ c[2] <= made[q]
                      /\ chan[q][c].sid % 2 = Parity(q)
                      /\ chan[q][c].sid < stream_cursor[q]
                      /\ creator'[q].pc = "number" => creator'[q].chan # c
    BY <1>1, <1>11 DEF OwnNumbered
  <2>1. Allocated(q, c)
    BY <1>11 DEF Allocated
  <2>2. creator'[q].pc = "number" => creator'[q] = creator[q]
    BY <1>5
  <2> QED
    BY <2>1, <2>2 DEF IndInv, OwnNumbered
<1>13. OwnDistinct'
  <2>1. \A q \in Peer, c \in Chan : Allocated(q, c)' => Allocated(q, c)
    BY <1>11 DEF Allocated
  <2> QED
    BY <1>11, <2>1 DEF IndInv, OwnDistinct
<1>14. AcceptedTold'
  <2> SUFFICES ASSUME NEW q \in Peer, NEW c \in Chan, c[1] # q, Allocated(q, c)'
               PROVE  \A r : r = chan[q][c].sid =>
                        Told(q, c, r)' /\ chan'[q][c].state = "CONNECTED"
    BY <1>11 DEF AcceptedTold
  <2>1. Allocated(q, c) /\ chan'[q][c] = chan[q][c]
    BY <1>11 DEF Allocated
  <2>2. Told(q, c, chan[q][c].sid) /\ chan[q][c].state = "CONNECTED"
    BY <2>1 DEF IndInv, AcceptedTold
  <2> QED
    BY <1>8, <2>1, <2>2 DEF ToldKept
<1>15. ReaderTold'
  BY <1>1, <1>8, KeptReader
<1>16. MessagesTold'
  <2>1. ASSUME NEW q \in Peer, NEW r \in Stream, NEW k \in DOMAIN net'[q][r]
        PROVE  \A c : c = net'[q][r][k].chan =>
                 /\ net'[q][r][k].type = "OPEN" => Told(q, c, r)'
                 /\ net'[q][r][k].type = "ACK" =>
                      Told(Other(q), c, r)' /\ chan'[Other(q)][c].state = "CONNECTED"
    <3>1. CASE k \in DOMAIN net[q][r] /\ net'[q][r][k] = net[q][r][k]
      BY <1>8, <3>1, KeptMessages
    <3>2. CASE q = Other(p) /\ r = s /\ net'[q][r][k] = m /\ SendOk(p, s, m)
               /\ UNCHANGED chan
      BY <1>2, <1>9, <3>2
    <3> QED
      BY <1>4, <3>1, <3>2
  <2> QED
    BY <2>1 DEF MessagesTold
<1>17. TableAllocated'
  <2>1. \A q \in Peer, j \in Slot : channels[q][j] \in Chan \cup {NoChan}
    BY FieldTypes DEF IndInv
  <2>2. \A q \in Peer, j \in Slot : channels'[q][j] # NoChan =>
           Allocated(q, channels[q][j])' /\ ~InCreation(q, channels[q][j])'
    BY <1>1, <1>6, <2>1 DEF IndInv, TableAllocated, Allocated
  <2>3. ASSUME NEW q \in Peer
        PROVE  /\ creator'[q].pc = "store" /\ creator'[q].chan # NoChan =>
                    chan'[q][creator'[q].chan].state # "CLOSED"
               /\ creator'[q].pc = "send" =>
                    chan'[q][creator'[q].chan].state = "CONNECTING"
    <3>1. CASE q = p
      BY <1>2, <1>5, <3>1 DEF Allocated
    <3>2. CASE q # p
      <4>1. creator'[q] = creator[q] /\ creator[q].chan \in Chan \cup {NoChan}
            /\ (creator[q].pc = "send" => creator[q].chan \in Chan)
        BY <1>5, <3>2, FieldTypes DEF IndInv
      <4> QED
        BY <1>5, <3>2, <4>1 DEF IndInv, TableAllocated, Allocated
    <3> QED
      BY <3>1, <3>2
  <2> QED
    BY <1>1, <2>2, <2>3 DEF TableAllocated, Allocated
<1> QED
  BY <1>10, <1>12, <1>13, <1>14, <1>15, <1>16, <1>17 DEF IndInv

LEMMA CreateStoreKeeps ==
    ASSUME IndInv, TypeOK', NEW p \in Peer, CreateStore(p)
    PROVE  IndInv'
<1> DEFINE c0 == creator[p].chan
           i0 == creator[p].slot
<1>1. /\ UNCHANGED <<stage, stream_cursor, chan, made, reader, net>>
      /\ creator[p].pc = "store"
      /\ channels' = [channels EXCEPT ![p][i0] = c0]
      /\ creator' = [creator EXCEPT ![p] = NotCreating]
  BY DEF CreateStore
<1>2. /\ creator \in [Peer -> CreatorState]
      /\ channels \in [Peer -> [Slot -> Chan \cup {NoChan}]]
      /\ i0 \in Slot /\ c0 \in Chan \cup {NoChan}
      /\ c0 # NoChan => Allocated(p, c0)
  BY <1>1, FieldTypes DEF IndInv, TypeOK, TableAllocated
<1> HIDE DEF c0, i0
<1>3. /\ creator'[p].pc = "idle" /\ \A q \in Peer : q # p => creator'[q] = creator[q]
  BY <1>1, <1>2, CreatorTypes
<1>4. \A q \in Peer : \A c : InCreation(q, c)' <=> InCreation(q, c)
  BY <1>1, <1>3 DEF InCreation
<1>5. ToldKept
  BY <1>1, <1>4, PeerFacts DEF ToldKept, Told, Allocated
<1>6. CursorsRight' /\ OwnDistinct'
  BY <1>1 DEF IndInv, CursorsRight, OwnDistinct, Allocated
<1>7. OwnNumbered'
  <2>1. \A q \in Peer : creator'[q].pc = "number" => creator'[q] = creator[q]
    BY <1>3
  <2> QED
    BY <1>1, <2>1 DEF IndInv, OwnNumbered, Allocated
<1>8. AcceptedTold'
  BY <1>1, <1>5 DEF IndInv, AcceptedTold, Allocated, ToldKept
<1>9. MessagesTold' /\ ReaderTold'
  BY <1>1, <1>5, KeptMessages, KeptReader DEF MessagesTold
<1>10. TableAllocated'
  <2>1. \A q \in Peer, j \in Slot :
           channels'[q][j] = channels[q][j] \/ (q = p /\ channels'[q][j] = c0)
    <3>1. /\ channels \in [Peer -> [Slot -> Chan \cup {NoChan}]] /\ i0 \in Slot
          /\ channels' = [channels EXCEPT ![p][i0] = c0]
      BY <1>1, <1>2
    <3> QED
      BY <3>1, UpdateValue
  <2>2. ~InCreation(p, c0)
    BY <1>1 DEF InCreation
  <2>3. ASSUME NEW q \in Peer, NEW j \in Slot, channels'[q][j] # NoChan
        PROVE  chan[q][channels'[q][j]].state # "CLOSED"
               /\ ~InCreation(q, channels'[q][j])
    BY <1>2, <2>1, <2>2, <2>3 DEF IndInv, TableAllocated, Allocated
  <2>4. \A q \in Peer : creator'[q].pc \in {"store", "send"} => creator'[q] = creator[q]
    BY <1>3
  <2>5. \A q \in Peer, j \in Slot : channels'[q][j] # NoChan =>
           Allocated(q, channels[q][j])' /\ ~InCreation(q, channels[q][j])'
    <3> SUFFICES ASSUME NEW q \in Peer, NEW j \in Slot, channels'[q][j] # NoChan
                 PROVE  /\ chan'[q][channels'[q][j]].state # "CLOSED"
                        /\ ~(creator'[q].pc \in {"number", "send"}
                             /\ creator'[q].chan = channels'[q][j])
      BY DEF Allocated, InCreation
    <3> QED
      BY <1>1, <1>3, <2>3 DEF InCreation
  <2> QED
    BY <1>1, <2>4, <2>5 DEF IndInv, TableAllocated, Allocated
<1> QED
  BY <1>6, <1>7, <1>8, <1>9, <1>10 DEF IndInv

LEMMA OpenRequestStoreKeeps ==
    ASSUME IndInv, TypeOK', NEW p \in Peer, OpenRequestStore(p)
    PROVE  IndInv'
<1> DEFINE c0 == reader[p].chan
           s == reader[p].sid
           i0 == reader[p].slot
<1>1. /\ UNCHANGED <<stage, stream_cursor, made, creator, net>>
      /\ reader[p].pc = "store"
      /\ chan' = [chan EXCEPT ![p][c0] = Connected(s)]
      /\ channels' = [channels EXCEPT ![p][i0] = c0]
      /\ reader' = [reader EXCEPT ![p] = ReaderAt("ack", i0, c0, s)]
  BY DEF OpenRequestStore
<1>2. /\ TypeOK /\ reader \in [Peer -> ReaderState]
      /\ chan \in [Peer -> [Chan -> Object]]
      /\ channels \in [Peer -> [Slot -> Chan \cup {NoChan}]]
      /\ c0 \in Chan /\ s \in Nat /\ i0 \in Slot /\ Told(p, c0, s)
  BY <1>1, FieldTypes, BoundFacts DEF IndInv, TypeOK, ReaderTold
<1>3. c0[1] # p /\ \A n \in Nat : c0 # <<p, n>>
  BY <1>2, PeerFacts DEF Told
<1>4. ~InCreation(p, c0)
  <2>1. creator[p].pc \in {"number", "send"} =>
           creator[p].chan = <<p, made[p]>> /\ made[p] \in Nat
    BY <1>2 DEF TypeOK
  <2> QED
    BY <1>3, <2>1 DEF InCreation
<1>5. Allocated(p, c0) => chan[p][c0].sid = s /\ chan[p][c0].state = "CONNECTED"
  BY <1>2, <1>3 DEF IndInv, AcceptedTold, Told
<1> HIDE DEF c0, s, i0
<1>6. /\ chan'[p][c0].sid = s /\ chan'[p][c0].state = "CONNECTED"
      /\ \A q \in Peer, c \in Chan : q # p \/ c # c0 => chan'[q][c] = chan[q][c]
  BY <1>1, <1>2, ObjectTypes
<1>7. \A q \in Peer, c \in Chan :
         /\ Allocated(q, c) => Allocated(q, c)' /\ chan'[q][c].sid = chan[q][c].sid
         /\ chan[q][c].state = "CONNECTED" => chan'[q][c].state = "CONNECTED"
         /\ c[1] = q => chan'[q][c] = chan[q][c]
  BY <1>3, <1>5, <1>6 DEF Allocated
<1>8. \A q \in Peer : \A c : InCreation(q, c)' <=> InCreation(q, c)
  BY <1>1 DEF InCreation
<1>9. ToldKept
  BY <1>7, <1>8, PeerFacts DEF ToldKept, Told
<1>10. \A c, r : c = c0 /\ r = s => Told(p, c, r)'
  BY <1>2, <1>9 DEF ToldKept
<1>11. CursorsRight'
  BY <1>1 DEF IndInv, CursorsRight
<1>12. OwnNumbered' /\ OwnDistinct'
  BY <1>1, <1>7 DEF IndInv, OwnNumbered, OwnDistinct, Allocated
<1>13. AcceptedTold'
  <2> SUFFICES ASSUME NEW q \in Peer, NEW c \in Chan, c[1] # q, Allocated(q, c)'
               PROVE  \A r : r = chan'[q][c].sid =>
                        Told(q, c, r)' /\ chan'[q][c].state = "CONNECTED"
    BY DEF AcceptedTold
  <2>1. CASE q = p /\ c = c0
    BY <1>6, <1>10, <2>1
  <2>2. CASE ~(q = p /\ c = c0)
    <3>1. chan'[q][c] = chan[q][c] /\ Allocated(q, c)
      BY <1>6, <2>2 DEF Allocated
    <3>2. Told(q, c, chan[q][c].sid) /\ chan[q][c].state = "CONNECTED"
      BY <3>1 DEF IndInv, AcceptedTold
    <3> QED
      BY <1>9, <3>1, <3>2 DEF ToldKept
  <2> QED
    BY <2>1, <2>2
<1>14. MessagesTold'
  BY <1>1, <1>9, KeptMessages DEF MessagesTold
<1>15. ReaderTold'
  <2> SUFFICES ASSUME NEW q \in Peer, reader'[q].pc # "idle"
               PROVE  \A c, r : c = reader'[q].chan /\ r = reader'[q].sid =>
                        /\ Told(q, c, r)'
                        /\ reader'[q].pc = "ack" => chan'[q][c].state = "CONNECTED"
    BY DEF ReaderTold
  <2>1. CASE q = p
    <3>1. reader'[p].chan = c0 /\ reader'[p].sid = s
      BY <1>1, <1>2, ReaderTypes
    <3> QED
      BY <1>6, <1>10, <2>1, <3>1
  <2>2. CASE q # p
    <3>1. reader'[q] = reader[q] /\ reader[q].chan \in Chan
      BY <1>1, <1>2, <2>2 DEF TypeOK
    <3> QED
      BY <1>9, <3>1 DEF IndInv, ReaderTold, ToldKept
  <2> QED
    BY <2>1, <2>2
<1>16. TableAllocated'
  <2>1. \A q \in Peer, j \in Slot :
           channels'[q][j] = channels[q][j] \/ (q = p /\ channels'[q][j] = c0)
    <3>1. /\ channels \in [Peer -> [Slot -> Chan \cup {NoChan}]] /\ i0 \in Slot
          /\ channels' = [channels EXCEPT ![p][i0] = c0]
      BY <1>1, <1>2
    <3> QED
      BY <3>1, UpdateValue
  <2>2. ASSUME NEW q \in Peer, NEW j \in Slot, channels'[q][j] # NoChan
        PROVE  chan'[q][channels'[q][j]].state # "CLOSED"
               /\ ~InCreation(q, channels'[q][j])
    <3>1. CASE q = p /\ channels'[q][j] = c0
      BY <1>4, <1>6, <3>1
    <3>2. CASE channels'[q][j] = channels[q][j]
      <4>1. /\ channels[q][j] \in Chan /\ Allocated(q, channels[q][j])
            /\ ~InCreation(q, channels[q][j])
        BY <1>2, <2>2, <3>2, FieldTypes DEF IndInv, TableAllocated
      <4> DEFINE d == channels[q][j]
      <4>2. Allocated(q, d) => chan'[q][d].state # "CLOSED"
        BY <1>6, <4>1 DEF Allocated
      <4> QED
        BY <3>2, <4>1, <4>2
    <3> QED
      BY <2>1, <3>1, <3>2
  <2>3. \A q \in Peer, j \in Slot : channels'[q][j] # NoChan =>
           Allocated(q, channels[q][j])' /\ ~InCreation(q, channels[q][j])'
    <3> SUFFICES ASSUME NEW q \in Peer, NEW j \in Slot, channels'[q][j] # NoChan
                 PROVE  /\ chan'[q][channels'[q][j]].state # "CLOSED"
                        /\ ~(creator'[q].pc \in {"number", "send"}
                             /\ creator'[q].chan = channels'[q][j])
      BY DEF Allocated, InCreation
    <3> QED
      BY <1>1, <2>2 DEF InCreation
  <2>4. ASSUME NEW q \in Peer
        PROVE  /\ creator[q].pc = "store" /\ creator[q].chan # NoChan =>
                    chan'[q][creator[q].chan].state # "CLOSED"
               /\ creator[q].pc = "send" =>
                    chan'[q][creator[q].chan].state = "CONNECTING"
    <3>1. creator[q].chan \in Chan \cup {NoChan}
          /\ (creator[q].pc = "send" => creator[q].chan \in Chan)
      BY <1>2, FieldTypes
    <3>2. creator[q].pc = "send" => q # p \/ creator[q].chan # c0
      BY <1>4 DEF InCreation
    <3> QED
      BY <1>6, <3>1, <3>2 DEF IndInv, TableAllocated, Allocated
  <2> QED
    BY <1>1, <2>3, <2>4 DEF TableAllocated, Allocated
<1> QED
  BY <1>11, <1>12, <1>13, <1>14, <1>15, <1>16 DEF IndInv

-----------------------------------------------------------------------------
LEMMA IndInit == Init => IndInv
<1> SUFFICES ASSUME Init PROVE IndInv
  OBVIOUS
<1>1. TypeOK
  BY TypeInit
<1>2. \A q \in Peer : /\ stage[q] = "waiting" /\ made[q] = 0
                      /\ creator[q].pc = "idle" /\ reader[q].pc = "idle"
                      /\ \A c \in Chan : chan[q][c].state = "CLOSED"
                      /\ \A j \in Slot : channels[q][j] = NoChan
                      /\ \A r \in Stream : net[q][r] = <<>>
  BY CreatorTypes, ReaderTypes, ObjectTypes DEF Init
<1>3. CursorsRight /\ OwnNumbered /\ OwnDistinct /\ AcceptedTold
  BY <1>2 DEF CursorsRight, OwnNumbered, OwnDistinct, AcceptedTold, Allocated
<1>4. MessagesTold /\ ReaderTold /\ TableAllocated
  BY <1>2 DEF MessagesTold, ReaderTold, TableAllocated
<1> QED
  BY <1>1, <1>3, <1>4 DEF IndInv

LEMMA IndStep == Timing # "any" /\ IndInv /\ [Next]_vars => IndInv'
<1> SUFFICES ASSUME Timing # "any", IndInv, [Next]_vars PROVE IndInv'
  OBVIOUS
<1>1. TypeOK'
  BY TypeStep DEF IndInv
<1>2. ASSUME NEW p \in Peer, Startup(p) \/ SctpFails(p) PROVE IndInv'
  BY <1>1, <1>2, StartupKeeps DEF Startup
<1>3. ASSUME NEW p \in Peer, CreateScan(p) \/ CreateStep(p) PROVE IndInv'
  BY <1>1, <1>3, CreateScanKeeps, CreateNumberKeeps, CreateSendKeeps, CreateStoreKeeps
     DEF CreateStep
<1>4. ASSUME NEW p \in Peer, NEW c \in Chan, SendMessage(p, c) PROVE IndInv'
  BY <1>1, <1>4, SendMessageKeeps
<1>5. ASSUME NEW p \in Peer, Deliver(p) PROVE IndInv'
  BY <1>1, <1>5, HandleOpenRequestKeeps, HandleOpenAckKeeps, HandleDataKeeps
     DEF Deliver
<1>6. ASSUME NEW p \in Peer, ReaderStep(p) PROVE IndInv'
  BY <1>1, <1>6, OpenRequestStoreKeeps, OpenRequestAckKeeps DEF ReaderStep
<1>7. CASE UNCHANGED vars
  <2>1. CursorsRight' /\ OwnNumbered' /\ OwnDistinct' /\ AcceptedTold'
    BY <1>7 DEF vars, IndInv, CursorsRight, OwnNumbered, OwnDistinct,
       AcceptedTold, Told, Allocated, InCreation
  <2>2. MessagesTold' /\ ReaderTold' /\ TableAllocated'
    BY <1>7 DEF vars, IndInv, MessagesTold, ReaderTold, TableAllocated,
       Told, Allocated, InCreation
  <2> QED
    BY <1>1, <2>1, <2>2 DEF IndInv
<1> QED
  BY <1>2, <1>3, <1>4, <1>5, <1>6, <1>7 DEF Next

\* An application that creates channels from on_connect on keeps IndInv,
\* however the threads of the peers interleave.
THEOREM Inductive == Timing # "any" => (Spec => []IndInv)
<1> SUFFICES ASSUME Timing # "any" PROVE Spec => []IndInv
  OBVIOUS
<1>1. IndInv /\ [Next]_vars => IndInv'
  BY IndStep
<1> QED
  BY IndInit, <1>1, PTL DEF Spec

LEMMA IndImplies == IndInv => SidParity /\ OneChannelPerStream /\ AckIsTruthful
<1> SUFFICES ASSUME IndInv PROVE SidParity /\ OneChannelPerStream /\ AckIsTruthful
  OBVIOUS
\* Both ends know a channel by the stream its creator gave it.
<1>1. ASSUME NEW p \in Peer, NEW c \in Chan, Allocated(p, c)
      PROVE  /\ c[1] \in Peer /\ Allocated(c[1], c)
             /\ chan[p][c].sid = chan[c[1]][c].sid
             /\ chan[p][c].sid % 2 = Parity(c[1])
  <2>1. CASE c[1] = p
    BY <1>1, <2>1 DEF IndInv, OwnNumbered
  <2>2. CASE c[1] # p
    <3>1. c[1] = Other(p) /\ c[1] \in Peer /\ Allocated(c[1], c)
          /\ chan[c[1]][c].sid = chan[p][c].sid
      BY <1>1, <2>2, PeerFacts DEF IndInv, AcceptedTold, Told
    <3> QED
      BY <3>1 DEF IndInv, OwnNumbered
  <2> QED
    BY <2>1, <2>2
<1>2. SidParity
  BY <1>1 DEF SidParity
<1>3. OneChannelPerStream
  <2> SUFFICES ASSUME NEW p \in Peer, NEW q \in Peer, NEW c \in Chan, NEW d \in Chan,
                      Allocated(p, c), Allocated(q, d)
               PROVE  c = d <=> chan[p][c].sid = chan[q][d].sid
    BY DEF OneChannelPerStream
  <2>1. c = d => chan[p][c].sid = chan[q][d].sid
    BY <1>1
  <2>2. ASSUME chan[p][c].sid = chan[q][d].sid PROVE c = d
    <3>1. Parity(c[1]) = Parity(d[1]) /\ c[1] \in Peer /\ d[1] \in Peer
      BY <1>1, <2>2
    <3>2. c[1] = d[1]
      BY <3>1, PeerFacts
    <3> QED
      BY <1>1, <2>2, <3>2 DEF IndInv, OwnDistinct
  <2> QED
    BY <2>1, <2>2
<1>4. AckIsTruthful
  BY PeerFacts DEF AckIsTruthful, IndInv, MessagesTold, Told
<1> QED
  BY <1>2, <1>3, <1>4

\* Clients use even streams and servers odd ones, at both ends.
THEOREM SidParityHolds == Timing # "any" => (Spec => []SidParity)
BY Inductive, IndImplies, PTL

\* A stream number means one channel, at both ends.
THEOREM OneChannelPerStreamHolds == Timing # "any" => (Spec => []OneChannelPerStream)
BY Inductive, IndImplies, PTL

\* An ACK speaks of a channel the remote peer has.
THEOREM AckIsTruthfulHolds == Timing # "any" => (Spec => []AckIsTruthful)
BY Inductive, IndImplies, PTL

-----------------------------------------------------------------------------
(***************************************************************************)
(* The data-channel layer implements ChannelPromise.                       *)
(***************************************************************************)

\* A step that changes the objects of one channel only changes its status only.
LEMMA StatusOfOne ==
    ASSUME NEW c0 \in Chan,
           \A q \in Peer, c \in Chan : c # c0 => chan'[q][c] = chan[q][c]
    PROVE  status' = [status EXCEPT ![c0] = StatusOf(c0)']
<1>1. \A c \in Chan : c # c0 => StatusOf(c)' = StatusOf(c)
  BY ChanFacts, PeerFacts DEF StatusOf
<1> QED
  BY <1>1 DEF status

LEMMA StatusKept == ASSUME UNCHANGED chan PROVE UNCHANGED status
BY DEF status, StatusOf

LEMMA PromiseInit == Init => Promise!Init
<1> SUFFICES ASSUME Init PROVE Promise!Init
  OBVIOUS
<1>1. \A q \in Peer, c \in Chan : chan[q][c].state = "CLOSED"
  BY ObjectTypes DEF Init
<1>2. \A c \in Chan : StatusOf(c) = "none"
  BY <1>1, ChanFacts, PeerFacts DEF StatusOf
<1> QED
  BY <1>2 DEF Promise!Init, status

LEMMA NumberOffers ==
    ASSUME IndInv, NEW p \in Peer, CreateNumber(p)
    PROVE  \E c \in Chan : Promise!Offer(c)
<1> DEFINE c0 == creator[p].chan
<1>1. /\ c0 \in Chan /\ c0[1] = p /\ creator[p].pc = "number"
      /\ chan \in [Peer -> [Chan -> Object]]
      /\ chan' = [chan EXCEPT ![p][c0] =
                      [sid |-> stream_cursor[p], state |-> "CONNECTING"]]
  BY FieldTypes DEF IndInv, TypeOK, CreateNumber
<1> HIDE DEF c0
<1>2. chan[p][c0].state = "CLOSED"
  <2>1. creator[p].chan = c0
    BY DEF c0
  <2> QED
    BY <1>1, <2>1 DEF IndInv, OwnNumbered, Allocated
<1>3. chan[Other(p)][c0].state # "CONNECTED"
  <2>1. Other(p) \in Peer /\ c0[1] # Other(p) /\ Other(Other(p)) = p
    BY <1>1, PeerFacts
  <2> QED
    BY <1>1, <1>2, <2>1 DEF IndInv, AcceptedTold, Told, Allocated
<1>4. /\ \A q \in Peer, c \in Chan : c # c0 => chan'[q][c] = chan[q][c]
      /\ chan'[p][c0].state = "CONNECTING"
      /\ chan'[Other(p)][c0] = chan[Other(p)][c0]
  BY <1>1, PeerFacts
<1>5. StatusOf(c0) = "none" /\ \A c : c = c0 => StatusOf(c)' = "offered"
  BY <1>1, <1>2, <1>3, <1>4 DEF StatusOf
<1>6. Promise!Offer(c0)
  <2>1. PICK c \in Chan : c = c0
    BY <1>1
  <2>2. status' = [status EXCEPT ![c] = StatusOf(c)']
    BY <1>4, <2>1, StatusOfOne
  <2> QED
    BY <1>5, <2>1, <2>2 DEF Promise!Offer, Promise!Advance, status
<1> QED
  BY <1>1, <1>6

LEMMA SendWithdraws ==
    ASSUME IndInv, NEW p \in Peer, CreateSend(p)
    PROVE  UNCHANGED status \/ \E c \in Chan : Promise!Withdraw(c)
<1> DEFINE c0 == creator[p].chan
<1>1. /\ c0 \in Chan /\ c0[1] = p /\ InCreation(p, c0)
      /\ chan \in [Peer -> [Chan -> Object]]
      /\ UNCHANGED chan \/ chan' = [chan EXCEPT ![p][c0] = Freed]
      /\ chan[p][c0].state = "CONNECTING"
  BY FieldTypes DEF IndInv, TypeOK, CreateSend, InCreation, TableAllocated
<1> HIDE DEF c0
<1>2. chan[Other(p)][c0].state # "CONNECTED"
  <2>1. Other(p) \in Peer /\ c0[1] # Other(p) /\ Other(Other(p)) = p
    BY <1>1, PeerFacts
  <2> QED
    BY <1>1, <2>1 DEF IndInv, AcceptedTold, Told, Allocated
<1>3. CASE chan' = [chan EXCEPT ![p][c0] = Freed]
  <2>1. /\ \A q \in Peer, c \in Chan : c # c0 => chan'[q][c] = chan[q][c]
        /\ chan'[p][c0].state = "CLOSED"
        /\ chan'[Other(p)][c0] = chan[Other(p)][c0]
    BY <1>1, <1>3, PeerFacts, ObjectTypes
  <2>2. StatusOf(c0) = "offered" /\ \A c : c = c0 => StatusOf(c)' = "none"
    BY <1>1, <1>2, <2>1 DEF StatusOf
  <2>3. PICK c \in Chan : c = c0
    BY <1>1
  <2>4. status' = [status EXCEPT ![c] = StatusOf(c)']
    BY <2>1, <2>3, StatusOfOne
  <2>5. Promise!Withdraw(c)
    BY <2>2, <2>3, <2>4 DEF Promise!Withdraw, Promise!Advance, status
  <2> QED
    BY <2>5
<1> QED
  BY <1>1, <1>3, StatusKept

LEMMA StoreAccepts ==
    ASSUME IndInv, NEW p \in Peer, OpenRequestStore(p)
    PROVE  UNCHANGED status \/ \E c \in Chan : Promise!Accept(c)
<1> DEFINE c0 == reader[p].chan
<1>1. /\ c0 \in Chan /\ chan \in [Peer -> [Chan -> Object]]
      /\ reader[p].sid \in Nat
      /\ chan' = [chan EXCEPT ![p][c0] = Connected(reader[p].sid)]
      /\ c0[1] = Other(p) /\ Allocated(Other(p), c0)
  BY FieldTypes, BoundFacts DEF IndInv, TypeOK, OpenRequestStore, ReaderTold, Told
<1> HIDE DEF c0
<1>2. /\ \A q \in Peer, c \in Chan : c # c0 => chan'[q][c] = chan[q][c]
      /\ chan'[p][c0].state = "CONNECTED"
      /\ chan'[Other(p)][c0] = chan[Other(p)][c0]
      /\ chan[Other(p)][c0].state \in {"CONNECTING", "CONNECTED"}
      /\ Other(Other(p)) = p
  <2>1. Other(p) \in Peer /\ Other(p) # p /\ Other(Other(p)) = p
    BY PeerFacts
  <2>2. chan[Other(p)][c0].state \in {"CONNECTING", "CONNECTED"}
    BY <1>1, <2>1, FieldTypes DEF IndInv, Allocated
  <2> QED
    BY <1>1, <2>1, <2>2, ObjectTypes
<1>3. PICK c \in Chan : c = c0
  BY <1>1
<1>4. status' = [status EXCEPT ![c] = StatusOf(c)']
  BY <1>2, <1>3, StatusOfOne
<1>5. CASE StatusOf(c) = "offered"
  <2>1. StatusOf(c)' = "accepted"
    BY <1>1, <1>2, <1>3, <1>5 DEF StatusOf
  <2>2. Promise!Accept(c)
    BY <1>3, <1>4, <1>5, <2>1 DEF Promise!Accept, Promise!Advance, status
  <2> QED
    BY <2>2
<1>6. CASE StatusOf(c) # "offered"
  <2>1. StatusOf(c)' = StatusOf(c)
    BY <1>1, <1>2, <1>3, <1>6 DEF StatusOf
  <2> QED
    BY <1>4, <2>1 DEF status
<1> QED
  BY <1>5, <1>6

LEMMA AckOpens ==
    ASSUME IndInv, NEW p \in Peer, NEW s \in Stream, HandleOpenAck(p, s)
    PROVE  UNCHANGED status \/ \E c \in Chan : Promise!Open(c)
<1>1. CASE UNCHANGED chan
  BY <1>1, StatusKept
<1>2. ASSUME NEW i \in Slot, channels[p][i] # NoChan,
             chan[p][channels[p][i]].sid = s,
             chan' = [chan EXCEPT ![p][channels[p][i]] =
                          Connected(chan[p][channels[p][i]].sid)]
      PROVE  UNCHANGED status \/ \E c \in Chan : Promise!Open(c)
  <2> DEFINE d == channels[p][i]
             a == Head(net[p][s]).chan
  <2>1. /\ d \in Chan /\ Allocated(p, d) /\ chan[p][d].sid = s
        /\ chan \in [Peer -> [Chan -> Object]]
    BY <1>2, FieldTypes DEF IndInv, TypeOK, TableAllocated
  <2>2. /\ 1 \in DOMAIN net[p][s] /\ net[p][s][1].type = "ACK"
        /\ Head(net[p][s]) = net[p][s][1] /\ a \in Chan
    <3>1. /\ 1 \in DOMAIN net[p][s] /\ net[p][s][1].type = "ACK"
          /\ Head(net[p][s]) = net[p][s][1]
      BY ReceiveEffect DEF IndInv, HandleOpenAck
    <3> QED
      BY <3>1, MessageTypes DEF IndInv
  <2>3. /\ a[1] = p /\ Allocated(p, a) /\ chan[p][a].sid = s
        /\ chan[Other(p)][a].state = "CONNECTED"
    BY <2>2, PeerFacts DEF IndInv, MessagesTold, Told
  <2>4. d = a
    BY <2>1, <2>2, <2>3, IndImplies DEF OneChannelPerStream
  <2> HIDE DEF d, a
  <2>5. chan' = [chan EXCEPT ![p][d] = Connected(s)] /\ s \in Nat
    BY <1>2, BoundFacts DEF d
  <2>6. /\ \A q \in Peer, c \in Chan : c # d => chan'[q][c] = chan[q][c]
        /\ chan'[p][d].state = "CONNECTED"
    BY <2>1, <2>5, ObjectTypes
  <2>7. PICK c \in Chan : c = d
    BY <2>1
  <2>8. status' = [status EXCEPT ![c] = StatusOf(c)'] /\ StatusOf(c)' = "open"
    BY <2>3, <2>4, <2>6, <2>7, StatusOfOne DEF StatusOf
  <2>9. StatusOf(c) \in {"accepted", "open"}
    BY <2>3, <2>4, <2>7 DEF StatusOf
  <2>10. CASE StatusOf(c) = "accepted"
    <3>1. Promise!Open(c)
      BY <2>7, <2>8, <2>10 DEF Promise!Open, Promise!Advance, status
    <3> QED
      BY <3>1
  <2>11. CASE StatusOf(c) = "open"
    BY <2>8, <2>11 DEF status
  <2> QED
    BY <2>9, <2>10, <2>11
<1> QED
  BY <1>1, <1>2 DEF HandleOpenAck, First, SlotsOn

\* Every step of the data-channel layer is a step of the promise or none.
LEMMA PromiseStep ==
    Timing # "any" /\ IndInv /\ [Next]_vars => [Promise!Next]_status
<1> SUFFICES ASSUME Timing # "any", IndInv, [Next]_vars
             PROVE  UNCHANGED status \/ Promise!Next
  OBVIOUS
<1>1. ASSUME NEW p \in Peer,
             \/ Startup(p) \/ SctpFails(p) \/ CreateScan(p) \/ CreateStore(p)
             \/ \E c \in Chan : SendMessage(p, c)
             \/ \E s \in Stream : HandleOpenRequest(p, s)
             \/ OpenRequestAck(p)
      PROVE  UNCHANGED status
  <2>1. UNCHANGED chan
    BY <1>1 DEF Startup, StartSctp, Associate, SctpConnected, SwapSocket, SctpFails,
       CreateScan, CreateStore, SendMessage, HandleOpenRequest, OpenRequestAck
  <2> QED
    BY <2>1, StatusKept
<1>2. ASSUME NEW p \in Peer, NEW s \in Stream, HandleData(p, s)
      PROVE  UNCHANGED status
  <2>1. TypeOK'
    BY TypeStep DEF IndInv
  <2>2. UNCHANGED chan
    BY <1>2, <2>1, HandleDataKeeps
  <2> QED
    BY <2>2, StatusKept
<1>3. ASSUME NEW p \in Peer, CreateNumber(p) \/ CreateSend(p) \/ OpenRequestStore(p)
                             \/ \E s \in Stream : HandleOpenAck(p, s)
      PROVE  UNCHANGED status \/ Promise!Next
  BY <1>3, NumberOffers, SendWithdraws, StoreAccepts, AckOpens DEF Promise!Next
<1>4. CASE UNCHANGED vars
  BY <1>4, StatusKept DEF vars
<1> QED
  BY <1>1, <1>2, <1>3, <1>4 DEF Next, CreateStep, Deliver, ReaderStep

\* Whatever the interleaving, a channel is offered, then accepted by the
\* remote peer, then open, and only an offer that was not sent is withdrawn.
THEOREM KeepsPromiseHolds == Timing # "any" => (Spec => KeepsPromise)
<1> SUFFICES ASSUME Timing # "any" PROVE Spec => KeepsPromise
  OBVIOUS
<1>1. IndInv /\ [Next]_vars => [Promise!Next]_status
  BY PromiseStep
<1>2. Spec => []IndInv
  BY Inductive
<1> QED
  BY PromiseInit, <1>1, <1>2, PTL DEF Spec, KeepsPromise, Promise!Spec

-----------------------------------------------------------------------------
(***************************************************************************)
(* What is in the table stays there when channels are created in the main  *)
(* loop.                                                                   *)
(***************************************************************************)

\* Of the two threads that write to the table at most one is in the middle of
\* it, and the entry it has found is still free.
SlotsFree == \A p \in Peer :
    /\ creator[p].pc # "idle" =>
           reader[p].pc = "idle" /\ channels[p][creator[p].slot] = NoChan
    /\ reader[p].pc = "store" => channels[p][reader[p].slot] = NoChan

EntriesStay == \A p \in Peer, i \in Slot :
    channels[p][i] # NoChan => channels'[p][i] = channels[p][i]
ObjectsStay == \A p \in Peer, c \in Chan :
    chan[p][c].state = "CONNECTED" => chan'[p][c] = chan[p][c]

LEMMA SlotsInit == Init => SlotsFree
BY CreatorTypes, ReaderTypes DEF Init, SlotsFree

LEMMA SlotsKept == UNCHANGED <<channels, creator, reader>> /\ SlotsFree => SlotsFree' /\ EntriesStay
BY DEF SlotsFree, EntriesStay

\* The thread that creates.
LEMMA CreatorSlots ==
    ASSUME InLoop, TypeOK, SlotsFree, NEW p \in Peer, CreateScan(p) \/ CreateStep(p)
    PROVE  SlotsFree' /\ EntriesStay
<1>1. creator \in [Peer -> CreatorState] /\ UNCHANGED reader
  BY DEF TypeOK, CreateScan, CreateStep, CreateNumber, CreateSend, CreateStore
<1>2. CASE CreateScan(p)
  <2>1. PICK i \in Slot : /\ i \in FreeSlots(p)
                          /\ creator' = [creator EXCEPT ![p] =
                                            CreatorAt("number", i, <<p, made[p] + 1>>)]
    BY <1>2 DEF CreateScan, First
  <2>2. creator'[p].slot = i /\ channels[p][i] = NoChan
    BY <1>1, <2>1, CreatorTypes DEF FreeSlots
  <2>3. reader[p].pc = "idle" /\ UNCHANGED channels
    BY <1>2 DEF CreateScan
  <2>4. \A q \in Peer : q # p => creator'[q] = creator[q]
    BY <1>1, <2>1
  <2> QED
    BY <1>1, <2>2, <2>3, <2>4 DEF SlotsFree, EntriesStay
<1>3. CASE CreateNumber(p) \/ CreateSend(p)
  <2>1. PICK pc, c : creator' = [creator EXCEPT ![p] = CreatorAt(pc, @.slot, c)]
    BY <1>3 DEF CreateNumber, CreateSend
  <2>2. creator[p].pc # "idle" /\ UNCHANGED channels
    BY <1>3 DEF CreateNumber, CreateSend
  <2>3. creator'[p].slot = creator[p].slot /\ \A q \in Peer : q # p => creator'[q] = creator[q]
    BY <1>1, <2>1, CreatorTypes
  <2> QED
    BY <1>1, <2>2, <2>3 DEF SlotsFree, EntriesStay
<1>4. CASE CreateStore(p)
  <2>1. /\ creator[p].pc # "idle" /\ creator' = [creator EXCEPT ![p] = NotCreating]
        /\ channels' = [channels EXCEPT ![p][creator[p].slot] = creator[p].chan]
    BY <1>4 DEF CreateStore
  <2>2. creator'[p].pc = "idle" /\ \A q \in Peer : q # p => creator'[q] = creator[q]
    BY <1>1, <2>1, CreatorTypes
  <2>3. channels[p][creator[p].slot] = NoChan /\ reader[p].pc = "idle"
    BY <2>1 DEF SlotsFree
  <2>4. \A q \in Peer, i \in Slot :
           channels'[q][i] = channels[q][i] \/ (q = p /\ i = creator[p].slot)
    BY <2>1 DEF TypeOK
  <2>5. \A q \in Peer : q # p => channels'[q] = channels[q]
    BY <2>1 DEF TypeOK
  <2> QED
    BY <1>1, <2>2, <2>3, <2>4, <2>5 DEF SlotsFree, EntriesStay
<1> QED
  BY <1>2, <1>3, <1>4 DEF CreateStep

\* The main loop.
LEMMA ReaderSlots ==
    ASSUME InLoop, TypeOK, SlotsFree, NEW p \in Peer, NEW s \in Stream,
           HandleOpenRequest(p, s) \/ ReaderStep(p)
    PROVE  SlotsFree' /\ EntriesStay
<1>1. reader \in [Peer -> ReaderState] /\ UNCHANGED creator
  BY DEF TypeOK, HandleOpenRequest, ReaderStep, OpenRequestStore, OpenRequestAck
<1>2. CASE HandleOpenRequest(p, s)
  <2>1. UNCHANGED channels /\ creator[p].pc = "idle"
    BY <1>2 DEF HandleOpenRequest, Receive, LoopFree
  <2>2. CASE UNCHANGED reader
    BY <1>1, <2>1, <2>2, SlotsKept
  <2>3. ASSUME NEW i \in Slot, i \in FreeSlots(p),
               reader' = [reader EXCEPT ![p] =
                             ReaderAt("store", i, Head(net[p][s]).chan, s)]
        PROVE  SlotsFree' /\ EntriesStay
    <3>1. /\ reader'[p].slot = i /\ channels[p][i] = NoChan
          /\ \A q \in Peer : q # p => reader'[q] = reader[q]
      BY <1>1, <2>3, ReaderTypes DEF FreeSlots
    <3> QED
      BY <1>1, <2>1, <3>1 DEF SlotsFree, EntriesStay
  <2> QED
    BY <1>2, <2>2, <2>3 DEF HandleOpenRequest, First
<1>3. CASE OpenRequestStore(p)
  <2>1. /\ reader[p].pc = "store"
        /\ reader' = [reader EXCEPT ![p] = ReaderAt("ack", @.slot, @.chan, @.sid)]
        /\ channels' = [channels EXCEPT ![p][reader[p].slot] = reader[p].chan]
    BY <1>3 DEF OpenRequestStore
  <2>2. reader'[p].pc = "ack" /\ \A q \in Peer : q # p => reader'[q] = reader[q]
    BY <1>1, <2>1, ReaderTypes
  <2>3. channels[p][reader[p].slot] = NoChan /\ creator[p].pc = "idle"
    BY <2>1 DEF SlotsFree
  <2>4. \A q \in Peer, i \in Slot :
           channels'[q][i] = channels[q][i] \/ (q = p /\ i = reader[p].slot)
    BY <2>1 DEF TypeOK
  <2>5. \A q \in Peer : q # p => channels'[q] = channels[q]
    BY <2>1 DEF TypeOK
  <2> QED
    BY <1>1, <2>2, <2>3, <2>4, <2>5 DEF SlotsFree, EntriesStay
<1>4. CASE OpenRequestAck(p)
  <2>1. /\ reader[p].pc = "ack" /\ UNCHANGED channels
        /\ reader' = [reader EXCEPT ![p] = NotReading]
    BY <1>4 DEF OpenRequestAck
  <2>2. reader'[p].pc = "idle" /\ \A q \in Peer : q # p => reader'[q] = reader[q]
    BY <1>1, <2>1, ReaderTypes
  <2> QED
    BY <1>1, <2>1, <2>2 DEF SlotsFree, EntriesStay
<1> QED
  BY <1>2, <1>3, <1>4 DEF ReaderStep

LEMMA SlotsStep ==
    ASSUME InLoop, TypeOK, SlotsFree, [Next]_vars
    PROVE  SlotsFree' /\ EntriesStay
<1>1. ASSUME NEW p \in Peer, \/ Startup(p) \/ SctpFails(p)
                             \/ \E c \in Chan : SendMessage(p, c)
                             \/ \E s \in Stream : HandleOpenAck(p, s) \/ HandleData(p, s)
      PROVE  UNCHANGED <<channels, creator, reader>>
  BY <1>1 DEF Startup, StartSctp, Associate, SctpConnected, SwapSocket, SctpFails,
     SendMessage, HandleOpenAck, HandleData
<1>2. CASE UNCHANGED vars
  BY <1>2, SlotsKept DEF vars
<1>3. ASSUME NEW p \in Peer, ReaderStep(p) PROVE SlotsFree' /\ EntriesStay
  BY <1>3, ReaderSlots, BoundFacts
<1> QED
  BY <1>1, <1>2, <1>3, SlotsKept, CreatorSlots, ReaderSlots DEF Next, Deliver

\* What changes an object that is CONNECTED sets it to what it is.
LEMMA ObjectsStep ==
    ASSUME IndInv, [Next]_vars PROVE ObjectsStay
<1>0. chan \in [Peer -> [Chan -> Object]]
  BY DEF IndInv, TypeOK
<1> DEFINE One(p, c) == \A q \in Peer, d \in Chan :
              chan'[q][d] = chan[q][d] \/ (q = p /\ d = c)
<1>1. ASSUME NEW p \in Peer, CreateNumber(p) PROVE ObjectsStay
  <2>1. creator[p].chan \in Chan /\ creator[p].chan[1] = p
    BY <1>1, FieldTypes DEF IndInv, TypeOK, CreateNumber
  <2>2. One(p, creator[p].chan)
    BY <1>0, <1>1, <2>1 DEF CreateNumber
  <2>3. ~Allocated(p, creator[p].chan)
    BY <1>1, <2>1 DEF IndInv, OwnNumbered, CreateNumber
  <2> QED
    BY <2>2, <2>3 DEF ObjectsStay, Allocated
<1>2. ASSUME NEW p \in Peer, CreateSend(p) PROVE ObjectsStay
  <2>1. One(p, creator[p].chan)
    BY <1>0, <1>2 DEF CreateSend
  <2>2. chan[p][creator[p].chan].state = "CONNECTING"
    BY <1>2 DEF IndInv, TableAllocated, CreateSend
  <2> QED
    BY <2>1, <2>2 DEF ObjectsStay
<1>3. ASSUME NEW p \in Peer, OpenRequestStore(p) PROVE ObjectsStay
  <2> DEFINE c == reader[p].chan
  <2> DEFINE s == reader[p].sid
  <2>1. c \in Chan /\ Told(p, c, s) /\ chan' = [chan EXCEPT ![p][c] = Connected(s)]
    BY <1>3 DEF IndInv, TypeOK, ReaderTold, OpenRequestStore
  <2>2. Allocated(p, c) => chan[p][c].sid = s
    BY <2>1, PeerFacts DEF IndInv, AcceptedTold, Told
  <2>3. chan[p][c] \in [sid : Nat, state : {"CLOSED", "CONNECTING", "CONNECTED"}]
    BY <1>0, <2>1 DEF Object
  <2>4. chan[p][c].state = "CONNECTED" => chan[p][c] = Connected(s)
    BY <2>2, <2>3 DEF Allocated, Connected
  <2> HIDE DEF c, s
  <2>5. One(p, c) /\ chan'[p][c] = Connected(s)
    BY <1>0, <2>1
  <2> QED
    BY <2>4, <2>5 DEF ObjectsStay
<1>4. ASSUME NEW p \in Peer, NEW r \in Stream, HandleOpenAck(p, r) PROVE ObjectsStay
  <2>1. CASE UNCHANGED chan
    BY <2>1 DEF ObjectsStay
  <2>2. ASSUME NEW i \in Slot, NEW c, c = channels[p][i], c # NoChan,
               chan' = [chan EXCEPT ![p][c] = Connected(chan[p][c].sid)]
        PROVE  ObjectsStay
    <3>1. c \in Chan
      BY <2>2, FieldTypes DEF IndInv
    <3>2. chan[p][c] \in [sid : Nat, state : {"CLOSED", "CONNECTING", "CONNECTED"}]
      BY <1>0, <3>1 DEF Object
    <3>3. chan[p][c].state = "CONNECTED" => chan[p][c] = Connected(chan[p][c].sid)
      BY <3>2 DEF Connected
    <3>4. One(p, c) /\ chan'[p][c] = Connected(chan[p][c].sid)
      BY <1>0, <2>2, <3>1
    <3> QED
      BY <3>3, <3>4 DEF ObjectsStay
  <2> QED
    BY <1>4, <2>1, <2>2 DEF HandleOpenAck, First, SlotsOn
<1>5. ASSUME NEW p \in Peer, NEW r \in Stream, HandleData(p, r) PROVE ObjectsStay
  <2>1. CASE UNCHANGED chan
    BY <2>1 DEF ObjectsStay
  <2>2. ASSUME NEW i \in Slot, NEW c, c = channels[p][i], c # NoChan,
               chan' = [chan EXCEPT ![p][c] =
                            IF @.state = "CLOSED" THEN Connected(@.sid) ELSE @]
        PROVE  ObjectsStay
    <3>1. c \in Chan
      BY <2>2, FieldTypes DEF IndInv
    <3> QED
      BY <1>0, <2>2, <3>1 DEF ObjectsStay
  <2> QED
    BY <1>5, <2>1, <2>2 DEF HandleData, First, SlotsOn
<1>6. ASSUME NEW p \in Peer, \/ Startup(p) \/ SctpFails(p)
                             \/ CreateScan(p) \/ CreateStore(p)
                             \/ \E c \in Chan : SendMessage(p, c)
                             \/ \E s \in Stream : HandleOpenRequest(p, s)
                             \/ OpenRequestAck(p)
      PROVE  UNCHANGED chan
  BY <1>6 DEF Startup, StartSctp, Associate, SctpConnected, SwapSocket, SctpFails,
     CreateScan, CreateStore, SendMessage, HandleOpenRequest, OpenRequestAck
<1>7. CASE UNCHANGED chan
  BY <1>7 DEF ObjectsStay
<1> QED
  BY <1>1, <1>2, <1>3, <1>4, <1>5, <1>6, <1>7
     DEF Next, vars, CreateStep, Deliver, ReaderStep

\* Channels created in the main loop and by its handlers never take each
\* other's entries (rtcdc.c:260 to 315, dcep.c), and a channel that is CONNECTED
\* keeps its stream and its state, for every table size.
THEOREM ChannelsStayHolds == InLoop /\ Timing # "any" => (Spec => ChannelsStay)
<1> SUFFICES ASSUME InLoop, Timing # "any" PROVE Spec => ChannelsStay
  OBVIOUS
<1>1. IndInv /\ SlotsFree /\ [Next]_vars => SlotsFree'
  BY SlotsStep DEF IndInv
<1>2. IndInv /\ SlotsFree /\ [Next]_vars =>
         [\A p \in Peer :
            /\ \A i \in Slot : channels[p][i] # NoChan => channels'[p][i] = channels[p][i]
            /\ \A c \in Chan : chan[p][c].state = "CONNECTED" =>
                   chan'[p][c] = chan[p][c]]_vars
  BY SlotsStep, ObjectsStep DEF IndInv, EntriesStay, ObjectsStay
<1>3. Spec => []IndInv
  BY Inductive
<1> QED
  BY SlotsInit, <1>1, <1>2, <1>3, PTL DEF Spec, ChannelsStay

-----------------------------------------------------------------------------
(***************************************************************************)
(* No send ends the process: the table is full before the streams are used *)
(* up.                                                                     *)
(***************************************************************************)

\* RTCDC_MAX_OUT_STREAM is 256 and RTCDC_MAX_CHANNEL_NUM is 128.
StreamsSuffice == 2 * MaxChannels <= MaxOutStream \/ 2 * MaxCreate <= MaxOutStream
Careful == InLoop /\ Timing = "settled" /\ ~SendMayFail /\ StreamsSuffice

\* The n-th channel p created has entry i, or is about to get it.
Has(p, n, i) ==
    \/ channels[p][i] = <<p, n>>
    \/ creator[p].pc # "idle" /\ creator[p].chan = <<p, n>> /\ creator[p].slot = i

\* Channels are created when both peers are up; the cursor counts them, and
\* each has an entry of its own.
UpInv == \A p \in Peer :
    /\ Running(p)
    /\ made[p] > 0 => \A q \in Peer : stage[q] = "up"
    /\ stage[p] # "waiting" =>
           stream_cursor[p] <= Parity(p) + 2 * made[p]
                               - (IF creator[p].pc = "number" THEN 2 ELSE 0)
    /\ \A n \in 1 .. made[p] : \E i \in Slot : Has(p, n, i)
    /\ creator[p].pc # "idle" => creator[p].chan = <<p, made[p]>> /\ made[p] > 0

LEMMA MadeFits ==
    ASSUME TypeOK, SlotsFree, UpInv, NEW p \in Peer
    PROVE  made[p] <= MaxChannels /\ made[p] <= MaxCreate /\ made[p] \in Nat
<1>1. made[p] \in Nat /\ made[p] <= MaxCreate
  BY BoundsAreNat DEF TypeOK
<1>2. ASSUME made[p] > MaxChannels PROVE FALSE
  <2> DEFINE S == 1 .. made[p]
  <2> DEFINE f == [n \in S |-> CHOOSE i \in Slot : Has(p, n, i)]
  <2>1. \A n \in S : f[n] \in Slot /\ Has(p, n, f[n])
    BY DEF UpInv
  <2>2. f \in [S -> Slot]
    BY <2>1
  <2>3. IsFiniteSet(S) /\ Cardinality(S) = made[p]
    <3>1. made[p] \in Int /\ 1 \in Int /\ ~(1 > made[p])
      BY <1>1, <1>2, BoundsAreNat
    <3>2. Cardinality(1 .. made[p]) = made[p] - 1 + 1 /\ IsFiniteSet(1 .. made[p])
      BY <3>1, FS_Interval
    <3> QED
      BY <1>1, <3>2
  <2>4. IsFiniteSet(Slot) /\ Cardinality(Slot) = MaxChannels
    <3>1. MaxChannels - 1 \in Int /\ 0 \in Int /\ ~(0 > MaxChannels - 1)
      BY BoundsAreNat
    <3>2. Cardinality(0 .. MaxChannels - 1) = (MaxChannels - 1) - 0 + 1
          /\ IsFiniteSet(0 .. MaxChannels - 1)
      BY <3>1, FS_Interval
    <3> QED
      BY <3>2, BoundsAreNat DEF Slot
  <2> HIDE DEF f, S
  <2>5. PICK m, n \in S : m # n /\ f[m] = f[n]
    <3>1. Cardinality(Slot) < Cardinality(S)
      BY <1>1, <1>2, <2>3, <2>4, BoundsAreNat
    <3> QED
      BY <2>2, <2>3, <2>4, <3>1, FS_PigeonHole
  <2>6. Has(p, m, f[m]) /\ Has(p, n, f[m]) /\ <<p, m>> # <<p, n>>
    BY <2>1, <2>5
  <2> USE DEF S
  <2>7. <<p, m>> \in Chan /\ <<p, n>> \in Chan
    BY <1>1, <2>5, BoundsAreNat DEF Chan
  <2> QED
    BY <2>6, <2>7, NoChanIsNone DEF Has, SlotsFree
<1> QED
  BY <1>1, <1>2, BoundsAreNat

\* Whatever channel there is, both peers are up and its stream is one of the
\* association's.
LEMMA StreamOf ==
    ASSUME Careful, IndInv, SlotsFree, UpInv,
           NEW p \in Peer, NEW c \in Chan, Allocated(p, c)
    PROVE  chan[p][c].sid \in Stream /\ \A q \in Peer : stage[q] = "up"
<1>1. ASSUME NEW q \in Peer, c[1] = q, Allocated(q, c)
      PROVE  chan[q][c].sid \in Stream /\ \A r \in Peer : stage[r] = "up"
  <2> DEFINE s == chan[q][c].sid
  <2> DEFINE cursor == stream_cursor[q]
  <2>1. c[2] <= made[q] /\ s % 2 = Parity(q) /\ s < cursor
    BY <1>1 DEF IndInv, OwnNumbered
  <2>2. made[q] > 0
    <3>1. c[2] \in Nat \ {0} /\ made[q] \in Nat
      BY ChanFacts, MadeFits DEF IndInv
    <3> QED
      BY <2>1, <3>1
  <2>3. \A r \in Peer : stage[r] = "up"
    BY <2>2 DEF UpInv
  <2>4. cursor <= Parity(q) + 2 * made[q] - (IF creator[q].pc = "number" THEN 2 ELSE 0)
    BY <2>3 DEF UpInv
  <2>5. s \in Nat /\ cursor \in Nat /\ made[q] \in Nat /\ Parity(q) \in {0, 1}
    BY FieldTypes, MadeFits, PeerFacts DEF IndInv, TypeOK
  <2>6. 2 * made[q] <= MaxOutStream
    <3>1. made[q] <= MaxChannels /\ made[q] <= MaxCreate
      BY MadeFits DEF IndInv
    <3> QED
      BY <2>5, <3>1, BoundsAreNat DEF Careful, StreamsSuffice
  <2> HIDE DEF s, cursor
  <2>7. s < 2 * made[q]
    BY <2>1, <2>4, <2>5
  <2>8. s \in Stream
    BY <2>5, <2>6, <2>7, BoundsAreNat DEF Stream
  <2> QED
    BY <2>3, <2>8 DEF s
<1>2. CASE c[1] = p
  BY <1>1, <1>2
<1>3. CASE c[1] # p
  <2>1. Told(p, c, chan[p][c].sid)
    BY <1>3 DEF IndInv, AcceptedTold
  <2>2. c[1] = Other(p) /\ Allocated(Other(p), c) /\ chan[Other(p)][c].sid = chan[p][c].sid
    BY <2>1 DEF Told
  <2> QED
    BY <1>1, <2>2, PeerFacts
<1> QED
  BY <1>2, <1>3

\* So a send does not fail.
LEMMA SendsSucceed ==
    ASSUME Careful, IndInv, SlotsFree, UpInv, NEW p \in Peer
    PROVE  /\ \A c \in Chan : Allocated(p, c) => ~SendError(p, chan[p][c].sid)
           /\ reader[p].pc = "ack" => ~SendError(p, reader[p].sid)
<1>1. ASSUME NEW c \in Chan, Allocated(p, c) PROVE ~SendError(p, chan[p][c].sid)
  BY <1>1, StreamOf DEF SendError, Careful
<1>2. ASSUME reader[p].pc = "ack" PROVE ~SendError(p, reader[p].sid)
  <2>1. reader[p].chan \in Chan /\ reader[p].sid \in Stream
    BY <1>2, FieldTypes DEF IndInv, TypeOK
  <2>2. Allocated(p, reader[p].chan)
    BY <1>2 DEF IndInv, ReaderTold, Allocated
  <2> QED
    BY <2>1, <2>2, StreamOf DEF SendError, Careful
<1> QED
  BY <1>1, <1>2

LEMMA UpTypes ==
    ASSUME TypeOK
    PROVE  /\ stage \in [Peer -> Stage] /\ stream_cursor \in [Peer -> Nat]
           /\ \A p \in Peer : stream_cursor[p] \in Nat /\ made[p] \in Nat
           /\ \A p \in Peer : Parity(p) \in Nat
<1>1. /\ stage \in [Peer -> Stage] /\ stream_cursor \in [Peer -> Nat]
      /\ made \in [Peer -> 0 .. MaxCreate]
  BY DEF TypeOK
<1>2. \A p \in Peer : Parity(p) \in Nat
  <2>1. \A p \in Peer : Parity(p) \in {0, 1}
    BY PeerFacts
  <2> QED
    BY <2>1
<1>3. \A p \in Peer : made[p] \in Nat
  BY <1>1, BoundsAreNat
<1> QED
  BY <1>1, <1>2, <1>3

LEMMA UpInit == Init => UpInv
BY CreatorTypes, PeerFacts DEF Init, UpInv, Running, NotCreating

LEMMA UpKept ==
    ASSUME UpInv, EntriesStay, TypeOK, UNCHANGED <<stage, stream_cursor, creator, made>>
    PROVE  UpInv'
<1>1. \A p \in Peer : \A n \in 1 .. made[p], i \in Slot : Has(p, n, i) => Has(p, n, i)'
  <2> SUFFICES ASSUME NEW p \in Peer, NEW n \in 1 .. made[p], NEW i \in Slot, Has(p, n, i)
               PROVE  Has(p, n, i)'
    OBVIOUS
  <2>1. <<p, n>> \in Chan
    BY BoundsAreNat DEF TypeOK, Chan
  <2> QED
    BY <2>1, NoChanIsNone DEF Has, EntriesStay
<1> QED
  BY <1>1 DEF UpInv, Running

\* The startup thread is done when the first channel is created.
LEMMA StartupUp ==
    ASSUME UpInv, TypeOK, NEW p \in Peer, Startup(p) \/ SctpFails(p)
    PROVE  UpInv'
<1>1. UNCHANGED <<channels, creator, made>>
  BY DEF Startup, StartSctp, Associate, SctpConnected, SwapSocket, SctpFails
<1>2. \A q \in Peer : \A n, i : Has(q, n, i)' <=> Has(q, n, i)
  BY <1>1 DEF Has
<1>3. CASE Associate(p)
  <2>1. UNCHANGED <<stage, stream_cursor>>
    BY <1>3 DEF Associate
  <2> QED
    BY <1>1, <1>2, <2>1 DEF UpInv, Running
<1>4. ASSUME stage[p] # "up",
             \E t \in {"handshaking", "flagged", "up", "failed"} :
                stage' = [stage EXCEPT ![p] = t],
             \/ stage[p] # "waiting" /\ UNCHANGED stream_cursor
             \/ stream_cursor' = [stream_cursor EXCEPT ![p] = Parity(p)]
      PROVE  UpInv'
  <2>1. \A q \in Peer : made[q] = 0
    BY <1>4, UpTypes DEF UpInv
  <2>2. \A q \in Peer : creator[q].pc = "idle"
    BY <2>1 DEF UpInv
  <2>3. \A q \in Peer : /\ stage'[q] # "exited"
                        /\ q # p => stage'[q] = stage[q] /\ stream_cursor'[q] = stream_cursor[q]
    BY <1>4, UpTypes DEF UpInv, Running
  <2>4. \A q \in Peer : stage[q] # "waiting" => stream_cursor[q] <= Parity(q)
    BY <2>1, <2>2, UpTypes DEF UpInv
  <2>5. \A q \in Peer : stage'[q] # "waiting" => stream_cursor'[q] <= Parity(q)
    <3>1. stream_cursor'[p] <= Parity(p)
      BY <1>4, <2>4, UpTypes
    <3> QED
      BY <2>3, <2>4, <3>1
  <2>6. \A q \in Peer : Parity(q) + 2 * 0 - 0 = Parity(q)
    BY PeerFacts
  <2> QED
    BY <1>1, <1>2, <2>1, <2>2, <2>3, <2>5, <2>6 DEF UpInv, Running
<1> QED
  BY <1>3, <1>4 DEF Startup, StartSctp, SctpConnected, SwapSocket, SctpFails

LEMMA ScanUp ==
    ASSUME Careful, UpInv, TypeOK, NEW p \in Peer, CreateScan(p)
    PROVE  UpInv'
<1>1. /\ UNCHANGED <<stage, stream_cursor, channels>> /\ creator[p].pc = "idle"
      /\ made' = [made EXCEPT ![p] = @ + 1]
      /\ \A q \in Peer : stage[q] = "up"
  BY DEF CreateScan, MayCreate, Careful
<1>2. PICK i \in Slot : creator' = [creator EXCEPT ![p] = CreatorAt("number", i, <<p, made[p] + 1>>)]
  BY DEF CreateScan
<1>3. /\ creator'[p].pc = "number" /\ creator'[p].slot = i
      /\ creator'[p].chan = <<p, made[p] + 1>>
      /\ \A q \in Peer : q # p => creator'[q] = creator[q] /\ made'[q] = made[q]
      /\ made'[p] = made[p] + 1 /\ made[p] \in Nat
  BY <1>1, <1>2, CreatorTypes DEF TypeOK
<1>4. ASSUME NEW n \in 1 .. made[p] + 1 PROVE \E j \in Slot : Has(p, n, j)'
  <2>1. CASE n = made[p] + 1
    BY <1>3, <2>1 DEF Has
  <2>2. CASE n # made[p] + 1
    <3>1. n \in 1 .. made[p]
      BY <1>3, <2>2
    <3>2. PICK j \in Slot : Has(p, n, j)
      BY <3>1 DEF UpInv
    <3> QED
      BY <1>1, <3>2 DEF Has
  <2> QED
    BY <2>1, <2>2
<1>5. ASSUME NEW q \in Peer, q # p, NEW n \in 1 .. made[q] PROVE \E j \in Slot : Has(q, n, j)'
  <2>1. PICK j \in Slot : Has(q, n, j)
    BY DEF UpInv
  <2> QED
    BY <1>1, <1>3, <1>5, <2>1 DEF Has
<1>6. stream_cursor[p] <= Parity(p) + 2 * (made[p] + 1) - 2
  <2>1. stream_cursor[p] <= Parity(p) + 2 * made[p] - 0
    BY <1>1 DEF UpInv
  <2>2. Parity(p) \in Nat /\ stream_cursor[p] \in Nat
    BY UpTypes
  <2> QED
    BY <1>3, <2>1, <2>2
<1> QED
  BY <1>1, <1>3, <1>4, <1>5, <1>6 DEF UpInv, Running

LEMMA NumberUp ==
    ASSUME UpInv, TypeOK, NEW p \in Peer, CreateNumber(p)
    PROVE  UpInv'
<1>1. /\ UNCHANGED <<stage, channels, made>> /\ creator[p].pc = "number"
      /\ creator' = [creator EXCEPT ![p] = CreatorAt("send", @.slot, @.chan)]
      /\ stream_cursor' = [stream_cursor EXCEPT ![p] = @ + 2]
  BY DEF CreateNumber
<1>2. /\ creator'[p].pc = "send" /\ creator'[p].slot = creator[p].slot
      /\ creator'[p].chan = creator[p].chan
      /\ stream_cursor'[p] = stream_cursor[p] + 2
      /\ \A q \in Peer : q # p => creator'[q] = creator[q] /\ stream_cursor'[q] = stream_cursor[q]
  BY <1>1, CreatorTypes DEF TypeOK
<1>3. \A q \in Peer : \A n, i : Has(q, n, i) => Has(q, n, i)'
  BY <1>1, <1>2 DEF Has
<1>4. stage[p] # "waiting" => stream_cursor'[p] <= Parity(p) + 2 * made[p] - 0
  <2>1. stage[p] # "waiting" => stream_cursor[p] <= Parity(p) + 2 * made[p] - 2
    BY <1>1 DEF UpInv
  <2>2. Parity(p) \in Nat /\ stream_cursor[p] \in Nat /\ made[p] \in Nat
    BY UpTypes
  <2> QED
    BY <1>2, <2>1, <2>2
<1> QED
  BY <1>1, <1>2, <1>3, <1>4 DEF UpInv, Running

LEMMA SendUp ==
    ASSUME Careful, IndInv, SlotsFree, UpInv, NEW p \in Peer, CreateSend(p)
    PROVE  UpInv'
<1> DEFINE c == creator[p].chan
<1>1. c \in Chan /\ creator[p].pc = "send"
  BY FieldTypes DEF CreateSend, IndInv
<1>2. ~SendError(p, chan[p][c].sid)
  BY <1>1, SendsSucceed DEF IndInv, TableAllocated, Allocated
<1>3. /\ UNCHANGED <<stage, stream_cursor, channels, made>>
      /\ creator' = [creator EXCEPT ![p] = CreatorAt("store", @.slot, c)]
  BY <1>2 DEF CreateSend, SendOk
<1>4. /\ creator'[p].pc = "store" /\ creator'[p].slot = creator[p].slot
      /\ creator'[p].chan = creator[p].chan
      /\ \A q \in Peer : q # p => creator'[q] = creator[q]
  BY <1>3, CreatorTypes DEF IndInv, TypeOK
<1>5. \A q \in Peer : \A n, i : Has(q, n, i) => Has(q, n, i)'
  BY <1>1, <1>3, <1>4 DEF Has
<1> QED
  BY <1>1, <1>3, <1>4, <1>5 DEF UpInv, Running

LEMMA StoreUp ==
    ASSUME EntriesStay, TypeOK, UpInv, NEW p \in Peer, CreateStore(p)
    PROVE  UpInv'
<1>1. /\ UNCHANGED <<stage, stream_cursor, made>> /\ creator[p].pc = "store"
      /\ creator' = [creator EXCEPT ![p] = NotCreating]
      /\ channels' = [channels EXCEPT ![p][creator[p].slot] = creator[p].chan]
  BY DEF CreateStore
<1>2. /\ creator'[p].pc = "idle"
      /\ \A q \in Peer : q # p => creator'[q] = creator[q]
      /\ channels'[p][creator[p].slot] = creator[p].chan
  BY <1>1, CreatorTypes, FieldTypes DEF TypeOK
<1>3. ASSUME NEW q \in Peer, NEW n \in 1 .. made[q], NEW i \in Slot, Has(q, n, i)
      PROVE  Has(q, n, i)'
  <2>1. <<q, n>> \in Chan /\ <<q, n>> # NoChan
    BY BoundsAreNat, NoChanIsNone DEF TypeOK, Chan
  <2>2. CASE channels[q][i] = <<q, n>>
    BY <2>1, <2>2 DEF EntriesStay, Has
  <2>3. CASE channels[q][i] # <<q, n>>
    BY <1>2, <1>3, <2>3 DEF Has
  <2> QED
    BY <2>2, <2>3
<1> QED
  BY <1>1, <1>2, <1>3 DEF UpInv, Running

LEMMA UpStep ==
    ASSUME Careful, IndInv, SlotsFree, UpInv, [Next]_vars
    PROVE  UpInv'
<1>1. EntriesStay /\ TypeOK
  BY SlotsStep DEF IndInv, Careful
<1>2. CASE UNCHANGED vars
  BY <1>1, <1>2, UpKept DEF vars
<1>3. ASSUME NEW p \in Peer, NEW c \in Chan, SendMessage(p, c) PROVE UpInv'
  <2>1. Allocated(p, c)
    BY <1>3 DEF SendMessage, Held, Allocated
  <2>2. UNCHANGED stage
    BY <1>3, <2>1, SendsSucceed DEF SendMessage, SendOk
  <2> QED
    BY <1>1, <1>3, <2>2, UpKept DEF SendMessage
<1>4. ASSUME NEW p \in Peer, Deliver(p) PROVE UpInv'
  BY <1>1, <1>4, UpKept DEF Deliver, HandleOpenRequest, HandleOpenAck, HandleData
<1>5. ASSUME NEW p \in Peer, OpenRequestStore(p) PROVE UpInv'
  BY <1>1, <1>5, UpKept DEF OpenRequestStore
<1>6. ASSUME NEW p \in Peer, OpenRequestAck(p) PROVE UpInv'
  <2>1. UNCHANGED stage
    BY <1>6, SendsSucceed DEF OpenRequestAck, SendOk
  <2> QED
    BY <1>1, <1>6, <2>1, UpKept DEF OpenRequestAck
<1>7. ASSUME NEW p \in Peer, CreateScan(p) \/ CreateStep(p) PROVE UpInv'
  BY <1>1, <1>7, ScanUp, NumberUp, SendUp, StoreUp DEF CreateStep
<1> QED
  BY <1>1, <1>2, <1>3, <1>4, <1>5, <1>6, <1>7, StartupUp DEF Next, ReaderStep

\* Created in the main loop when both peers are up, channels fill the table
\* before they run out of streams (sctp.h, rtcdc.h: 256 and 128), so usrsctp_sendv
\* never fails for want of a stream and exit(1) (sctp.c:385) is not reached,
\* however many channels the applications try to create.
THEOREM NoExitHolds == Careful => (Spec => []NoExit)
<1> SUFFICES ASSUME Careful PROVE Spec => []NoExit
  OBVIOUS
<1>1. IndInv /\ SlotsFree /\ UpInv /\ [Next]_vars => SlotsFree' /\ UpInv'
  BY SlotsStep, UpStep DEF IndInv, Careful
<1>2. UpInv => NoExit
  BY DEF UpInv, NoExit
<1>3. Timing # "any"
  BY DEF Careful
<1>4. Spec => []IndInv
  BY <1>3, Inductive
<1> QED
  BY SlotsInit, UpInit, <1>1, <1>2, <1>4, PTL DEF Spec

-----------------------------------------------------------------------------
(***************************************************************************)
(* When one peer only creates channels, the other has an entry for every   *)
(* offer and finds the channel of every message.                           *)
(***************************************************************************)

\* The k-th message on its way to p on stream s is of type t and about c.
At(p, t, c, s, k) ==
    k \in DOMAIN net[p][s] /\ net[p][s][k].type = t /\ net[p][s][k].chan = c

\* C creates channels, O accepts them.  C has sent its offer of c, C has entry
\* i for c, O is about to store c.
Sent(C, c) == Allocated(C, c) /\ ~InCreation(C, c)
Entry(C, c, i) ==
    \/ channels[C][i] = c
    \/ creator[C].pc = "store" /\ creator[C].chan = c /\ creator[C].slot = i
Reading(O, c) == reader[O].pc = "store" /\ reader[O].chan = c

\* O creates nothing.
OneSide(O) == made[O] = 0 /\ creator[O].pc = "idle"

\* At C, nothing takes an entry from the channel that has it.
EntriesKept(C) ==
    /\ creator[C].pc # "idle" => channels[C][creator[C].slot] = NoChan
    /\ \A c \in Chan : Sent(C, c) => \E i \in Slot : Entry(C, c, i)

\* An offer comes once, ...
OffersNew(O) == \A c \in Chan, s \in Stream, k \in Nat : At(O, "OPEN", c, s, k) =>
    /\ ~Allocated(O, c) /\ ~Reading(O, c)
    /\ \A j \in Nat : At(O, "OPEN", c, s, j) => j = k
\* ... gets one entry, ...
TableNew(O) ==
    /\ reader[O].pc = "store" =>
           ~Allocated(O, reader[O].chan) /\ channels[O][reader[O].slot] = NoChan
    /\ \A i, j \in Slot :
           channels[O][i] # NoChan /\ channels[O][i] = channels[O][j] => i = j
\* ... and is somewhere, ...
Placed(C, O) == \A c \in Chan : Sent(C, c) =>
    \/ \E s \in Stream, k \in Nat : At(O, "OPEN", c, s, k)
    \/ Reading(O, c)
    \/ \E i \in Slot : channels[O][i] = c
\* ... before what is sent on the channel.
DataFollows(C, O) ==
    /\ \A c \in Chan, s \in Stream, k \in Nat : At(O, "DATA", c, s, k) =>
          /\ Sent(C, c) /\ chan[C][c].sid = s
          /\ \A j \in Nat : At(O, "OPEN", c, s, j) => j < k
    /\ \A c \in Chan, s \in Stream, k \in Nat : At(C, "DATA", c, s, k) => c[1] = C

FarSide(C, O) == OffersNew(O) /\ TableNew(O) /\ Placed(C, O) /\ DataFollows(C, O)
FeedInv(C, O) == OneSide(O) /\ EntriesKept(C) /\ FarSide(C, O)

LEMMA AppendAt ==
    ASSUME TypeOK, NEW q \in Peer, NEW r \in Stream, NEW m \in Message,
           net'[q][r] = Append(net[q][r], m),
           \A p \in Peer, s \in Stream : p # q \/ s # r => net'[p][s] = net[p][s]
    PROVE  /\ \A p \in Peer, s \in Stream : \A t, c, k :
                 At(p, t, c, s, k)' <=>
                     \/ At(p, t, c, s, k)
                     \/ /\ p = q /\ s = r /\ k = Len(net[q][r]) + 1
                        /\ m.type = t /\ m.chan = c
           /\ \A t, c, k : At(q, t, c, r, k) => k <= Len(net[q][r])
<1>1. net \in [Peer -> [Stream -> Seq(Message)]]
  BY DEF TypeOK
<1> DEFINE b == net[q][r]
<1> DEFINE e == Append(b, m)
<1>2. b \in Seq(Message) /\ Len(b) \in Nat /\ DOMAIN b = 1 .. Len(b)
  BY <1>1
<1>3. /\ DOMAIN e = 1 .. Len(b) + 1 /\ e[Len(b) + 1] = m
      /\ \A k \in DOMAIN b : e[k] = b[k]
  BY <1>2
<1>4. net'[q][r] = e
  OBVIOUS
<1>5. \A t, c, k : At(q, t, c, r, k) => k <= Len(b)
  BY <1>2 DEF At
<1> HIDE DEF e
<1>6. \A t, c, k : At(q, t, c, r, k)' <=> k \in DOMAIN e /\ e[k].type = t /\ e[k].chan = c
  BY <1>4 DEF At
<1>7. \A t, c, k : At(q, t, c, r, k)' <=>
         At(q, t, c, r, k) \/ (k = Len(b) + 1 /\ m.type = t /\ m.chan = c)
  <2> SUFFICES ASSUME NEW t, NEW c, NEW k
               PROVE  (k \in DOMAIN e /\ e[k].type = t /\ e[k].chan = c) <=>
                      At(q, t, c, r, k) \/ (k = Len(b) + 1 /\ m.type = t /\ m.chan = c)
    BY <1>6
  <2>1. k \in DOMAIN e <=> k \in DOMAIN b \/ k = Len(b) + 1
    BY <1>2, <1>3
  <2>2. k \in DOMAIN b => k # Len(b) + 1
    BY <1>2
  <2> QED
    BY <1>3, <2>1, <2>2 DEF At
<1>8. \A p \in Peer, s \in Stream : p # q \/ s # r =>
         \A t, c, k : At(p, t, c, s, k)' <=> At(p, t, c, s, k)
  BY DEF At
<1> QED
  BY <1>5, <1>7, <1>8

LEMMA TailAt ==
    ASSUME TypeOK, NEW q \in Peer, NEW r \in Stream, net[q][r] # <<>>,
           net' = [net EXCEPT ![q][r] = Tail(@)]
    PROVE  /\ \A p \in Peer, s \in Stream : p # q \/ s # r =>
                 \A t, c, k : At(p, t, c, s, k)' <=> At(p, t, c, s, k)
           /\ \A t, c : \A k \in Nat : At(q, t, c, r, k)' <=> k >= 1 /\ At(q, t, c, r, k + 1)
           /\ \A t, c : At(q, t, c, r, 1) <=>
                 t = Head(net[q][r]).type /\ c = Head(net[q][r]).chan
           /\ \A t, c, k : At(q, t, c, r, k) => k \in Nat /\ k >= 1
<1>1. net \in [Peer -> [Stream -> Seq(Message)]]
  BY DEF TypeOK
<1> DEFINE b == net[q][r]
<1> DEFINE e == Tail(b)
<1>2. /\ b \in Seq(Message) /\ Len(b) \in Nat \ {0} /\ DOMAIN b = 1 .. Len(b)
      /\ b[1] = Head(b)
  BY <1>1
<1>3. /\ DOMAIN e = 1 .. Len(b) - 1
      /\ \A k \in DOMAIN e : e[k] = b[k + 1]
  BY <1>2
<1>4. /\ net'[q][r] = e
      /\ \A p \in Peer, s \in Stream : p # q \/ s # r => net'[p][s] = net[p][s]
  BY <1>1
<1>5. \A p \in Peer, s \in Stream : p # q \/ s # r =>
         \A t, c, k : At(p, t, c, s, k)' <=> At(p, t, c, s, k)
  BY <1>4 DEF At
<1>6. \A t, c : At(q, t, c, r, 1) <=> t = Head(b).type /\ c = Head(b).chan
  BY <1>2 DEF At
<1>7. \A t, c, k : At(q, t, c, r, k) => k \in Nat /\ k >= 1
  BY <1>2 DEF At
<1> HIDE DEF e
<1>8. \A t, c, k : At(q, t, c, r, k)' <=> k \in DOMAIN e /\ e[k].type = t /\ e[k].chan = c
  BY <1>4 DEF At
<1>9. ASSUME NEW t, NEW c, NEW k \in Nat
      PROVE  At(q, t, c, r, k)' <=> k >= 1 /\ At(q, t, c, r, k + 1)
  <2>1. k \in DOMAIN e <=> k >= 1 /\ k + 1 \in DOMAIN b
    BY <1>2, <1>3
  <2>2. ASSUME k >= 1, k + 1 \in DOMAIN b PROVE e[k] = b[k + 1]
    BY <1>3, <2>1, <2>2
  <2>3. At(q, t, c, r, k + 1) <=> k + 1 \in DOMAIN b /\ b[k + 1].type = t /\ b[k + 1].chan = c
    BY DEF At
  <2> HIDE DEF b
  <2>4. k \in DOMAIN e <=> k >= 1 /\ k + 1 \in DOMAIN b
    BY <2>1
  <2> QED
    BY <1>8, <2>2, <2>3, <2>4
<1> QED
  BY <1>5, <1>6, <1>7, <1>9

\* What follows from O creating nothing.
LEMMA OnlyOne ==
    ASSUME IndInv, NEW C \in Peer, NEW O, O = Other(C), OneSide(O)
    PROVE  /\ O \in Peer /\ O # C /\ \A p \in Peer : p = C \/ p = O
           /\ \A p \in Peer, c \in Chan : Allocated(p, c) => c[1] = C
           /\ reader[C].pc = "idle"
           /\ \A p \in Peer, c \in Chan, s \in Stream : \A k :
                 At(p, "OPEN", c, s, k) => p = O /\ Sent(C, c) /\ chan[C][c].sid = s
           /\ \A c \in Chan : Allocated(O, c) =>
                 Sent(C, c) /\ chan[C][c].sid = chan[O][c].sid
           /\ reader[O].pc # "idle" => Sent(C, reader[O].chan)
<1>1. O \in Peer /\ O # C /\ Other(O) = C /\ \A p \in Peer : p = C \/ p = O
  BY PeerFacts
<1>2. \A c \in Chan : c[1] = O => ~Allocated(O, c)
  BY <1>1, ChanFacts DEF IndInv, OwnNumbered, OneSide
<1>3. \A p \in Peer, c \in Chan : \A s : Told(p, c, s) =>
         p = O /\ c[1] = C /\ Sent(C, c) /\ chan[C][c].sid = s
  BY <1>1, <1>2 DEF Told, Sent
<1>4. \A p \in Peer, c \in Chan : Allocated(p, c) => c[1] = C
  BY <1>1, <1>2, <1>3, ChanFacts DEF IndInv, AcceptedTold
<1>5. \A p \in Peer : reader[p].pc # "idle" => reader[p].chan \in Chan
  BY DEF IndInv, TypeOK
<1>6. reader[C].pc = "idle" /\ (reader[O].pc # "idle" => Sent(C, reader[O].chan))
  BY <1>1, <1>3, <1>5 DEF IndInv, ReaderTold
<1>7. \A p \in Peer, c \in Chan, s \in Stream : \A k : At(p, "OPEN", c, s, k) => Told(p, c, s)
  BY DEF IndInv, MessagesTold, At
<1>8. \A c \in Chan : Allocated(O, c) => Sent(C, c) /\ chan[C][c].sid = chan[O][c].sid
  BY <1>1, <1>3, <1>4 DEF IndInv, AcceptedTold
<1> QED
  BY <1>1, <1>3, <1>4, <1>6, <1>7, <1>8

\* As many channels as O has, and the one that is offered, have an entry each
\* at C: O has a free one.
LEMMA RoomLeft ==
    ASSUME IndInv, NEW C \in Peer, NEW O, O = Other(C), FeedInv(C, O),
           NEW d \in Chan, NEW s \in Stream, NEW k \in Nat, At(O, "OPEN", d, s, k)
    PROVE  FreeSlots(O) # {}
<1> SUFFICES ASSUME FreeSlots(O) = {} PROVE FALSE
  OBVIOUS
<1>1. /\ O \in Peer /\ OneSide(O)
      /\ \A c \in Chan : Allocated(O, c) => Sent(C, c)
      /\ Sent(C, d)
  BY OnlyOne DEF FeedInv
<1>2. \A i \in Slot : channels[O][i] \in Chan /\ Allocated(O, channels[O][i])
  BY <1>1, FieldTypes DEF FreeSlots, IndInv, TableAllocated
<1>3. ~Allocated(O, d)
  BY DEF FeedInv, FarSide, OffersNew
<1> DEFINE S == 0 .. MaxChannels
<1> DEFINE g == [n \in S |-> IF n = MaxChannels THEN d ELSE channels[O][n]]
<1> DEFINE f == [n \in S |-> CHOOSE i \in Slot : Entry(C, g[n], i)]
<1>4. \A n \in S : n \in Slot \/ n = MaxChannels
  BY BoundsAreNat DEF Slot
<1>5. \A n \in S : g[n] \in Chan /\ Sent(C, g[n])
  BY <1>1, <1>2, <1>4
<1>6. \A m, n \in S : g[m] = g[n] => m = n
  <2>1. \A i, j \in Slot : channels[O][i] = channels[O][j] => i = j
    BY <1>2, NoChanIsNone DEF FeedInv, FarSide, TableNew
  <2>2. \A n \in Slot : n # MaxChannels
    BY BoundsAreNat DEF Slot
  <2> QED
    BY <1>2, <1>3, <1>4, <2>1, <2>2
<1> HIDE DEF g
<1>7. \A n \in S : \E i \in Slot : Entry(C, g[n], i)
  BY <1>5 DEF FeedInv, EntriesKept
<1>8. \A n \in S : f[n] \in Slot /\ Entry(C, g[n], f[n])
  BY <1>7
<1>9. f \in [S -> Slot]
  BY <1>8
<1> HIDE DEF f
<1>10. IsFiniteSet(S) /\ Cardinality(S) = MaxChannels + 1
  <2>1. MaxChannels \in Int /\ 0 \in Int /\ ~(0 > MaxChannels)
    BY BoundsAreNat
  <2>2. Cardinality(0 .. MaxChannels) = MaxChannels - 0 + 1 /\ IsFiniteSet(0 .. MaxChannels)
    BY <2>1, FS_Interval
  <2> QED
    BY <2>2, BoundsAreNat
<1>11. IsFiniteSet(Slot) /\ Cardinality(Slot) = MaxChannels
  <2>1. MaxChannels - 1 \in Int /\ 0 \in Int /\ ~(0 > MaxChannels - 1)
    BY BoundsAreNat
  <2>2. Cardinality(0 .. MaxChannels - 1) = (MaxChannels - 1) - 0 + 1
        /\ IsFiniteSet(0 .. MaxChannels - 1)
    BY <2>1, FS_Interval
  <2> QED
    BY <2>2, BoundsAreNat DEF Slot
<1> HIDE DEF S
<1>12. PICK m, n \in S : m # n /\ f[m] = f[n]
  <2>1. Cardinality(Slot) < Cardinality(S)
    BY <1>10, <1>11, BoundsAreNat
  <2> QED
    BY <1>9, <1>10, <1>11, <2>1, FS_PigeonHole
<1>13. Entry(C, g[m], f[m]) /\ Entry(C, g[n], f[m]) /\ g[m] # g[n]
       /\ g[m] # NoChan /\ g[n] # NoChan
  BY <1>5, <1>6, <1>8, <1>12, NoChanIsNone
<1> QED
  BY <1>13 DEF Entry, FeedInv, EntriesKept

\* Steps at C alone, and steps that leave C alone.
LEMMA FarSideKept ==
    ASSUME NEW C \in Peer, NEW O \in Peer, FarSide(C, O), UNCHANGED <<net, reader>>,
           channels'[O] = channels[O],
           \A c \in Chan : Allocated(O, c)' <=> Allocated(O, c),
           \A c \in Chan : Sent(C, c)' <=> Sent(C, c),
           \A c \in Chan : Sent(C, c) => chan'[C][c].sid = chan[C][c].sid,
           TypeOK
    PROVE  FarSide(C, O)'
<1>1. \A p, t, c, s, k : At(p, t, c, s, k)' <=> At(p, t, c, s, k)
  BY DEF At
<1>2. \A c : Reading(O, c)' <=> Reading(O, c)
  BY DEF Reading
<1>3. OffersNew(O)'
  BY <1>1, <1>2 DEF FarSide, OffersNew
<1>4. TableNew(O)'
  <2>1. reader[O].pc = "store" => reader[O].chan \in Chan
    BY DEF TypeOK
  <2> QED
    BY <2>1 DEF FarSide, TableNew
<1>5. Placed(C, O)'
  BY <1>1, <1>2 DEF FarSide, Placed
<1>6. DataFollows(C, O)'
  BY <1>1 DEF FarSide, DataFollows
<1> QED
  BY <1>3, <1>4, <1>5, <1>6 DEF FarSide

LEMMA NearSideKept ==
    ASSUME NEW C \in Peer, NEW O \in Peer, OneSide(O), EntriesKept(C),
           UNCHANGED <<creator, made>>, channels'[C] = channels[C],
           \A c \in Chan : Sent(C, c)' => Sent(C, c)
    PROVE  OneSide(O)' /\ EntriesKept(C)'
<1>1. \A c, i : Entry(C, c, i)' <=> Entry(C, c, i)
  BY DEF Entry
<1> QED
  BY <1>1 DEF OneSide, EntriesKept

\* C creates a channel.
LEMMA FeedScan ==
    ASSUME IndInv, NEW C \in Peer, NEW O, O = Other(C), FeedInv(C, O), CreateScan(C)
    PROVE  FeedInv(C, O)'
<1>1. /\ UNCHANGED <<channels, chan, reader, net>> /\ creator[C].pc = "idle"
      /\ made' = [made EXCEPT ![C] = @ + 1]
  BY DEF CreateScan
<1>2. PICK i \in FreeSlots(C) :
         creator' = [creator EXCEPT ![C] = CreatorAt("number", i, <<C, made[C] + 1>>)]
  BY DEF CreateScan, First
<1>3. O \in Peer /\ O # C
  BY OnlyOne DEF FeedInv
<1>4. /\ creator'[C].pc = "number" /\ creator'[C].slot = i
      /\ creator'[C].chan = <<C, made[C] + 1>>
      /\ creator'[O] = creator[O] /\ made'[O] = made[O] /\ made[C] \in Nat
  BY <1>1, <1>2, <1>3, CreatorTypes DEF IndInv, TypeOK
<1>5. \A c \in Chan : Allocated(C, c) => c # <<C, made[C] + 1>>
  <2> SUFFICES ASSUME NEW c \in Chan, Allocated(C, c), c = <<C, made[C] + 1>> PROVE FALSE
    OBVIOUS
  <2>1. c[1] = C /\ c[2] = made[C] + 1
    OBVIOUS
  <2>2. c[2] <= made[C]
    BY <2>1 DEF IndInv, OwnNumbered
  <2> QED
    BY <1>4, <2>1, <2>2
<1>6. \A c \in Chan : Sent(C, c)' <=> Sent(C, c)
  BY <1>1, <1>4, <1>5 DEF Sent, Allocated, InCreation
<1>7. FarSide(C, O)'
  <2>1. \A c \in Chan : Allocated(O, c)' <=> Allocated(O, c)
    BY <1>1 DEF Allocated
  <2> QED
    BY <1>1, <1>3, <1>6, <2>1, FarSideKept DEF FeedInv, IndInv
<1>8. EntriesKept(C)'
  <2>1. \A c, j : Entry(C, c, j) => Entry(C, c, j)'
    BY <1>1 DEF Entry
  <2> QED
    BY <1>1, <1>2, <1>4, <1>6, <2>1 DEF FeedInv, EntriesKept, FreeSlots
<1> QED
  BY <1>4, <1>7, <1>8 DEF FeedInv, OneSide

LEMMA FeedNumber ==
    ASSUME IndInv, NEW C \in Peer, NEW O, O = Other(C), FeedInv(C, O), CreateNumber(C)
    PROVE  FeedInv(C, O)'
<1> DEFINE c0 == creator[C].chan
<1>1. /\ UNCHANGED <<channels, made, reader, net>> /\ creator[C].pc = "number"
      /\ creator' = [creator EXCEPT ![C] = CreatorAt("send", @.slot, @.chan)]
      /\ chan' = [chan EXCEPT ![C][c0] =
                      [sid |-> stream_cursor[C], state |-> "CONNECTING"]]
  BY DEF CreateNumber
<1>2. O \in Peer /\ O # C
  BY OnlyOne DEF FeedInv
<1>3. /\ creator'[C].pc = "send" /\ creator'[C].slot = creator[C].slot
      /\ creator'[C].chan = c0 /\ creator'[O] = creator[O]
  BY <1>1, <1>2, CreatorTypes DEF IndInv, TypeOK
<1>4. chan'[O] = chan[O] /\ \A c \in Chan : c # c0 => chan'[C][c] = chan[C][c]
  BY <1>1, <1>2 DEF IndInv, TypeOK
<1>5. \A c \in Chan : Sent(C, c)' <=> Sent(C, c)
  BY <1>1, <1>3, <1>4 DEF Sent, Allocated, InCreation
<1>6. FarSide(C, O)'
  <2>1. \A c \in Chan : Allocated(O, c)' <=> Allocated(O, c)
    BY <1>4 DEF Allocated
  <2>2. \A c \in Chan : Sent(C, c) => chan'[C][c].sid = chan[C][c].sid
    BY <1>1, <1>4 DEF Sent, InCreation
  <2> QED
    BY <1>1, <1>2, <1>5, <2>1, <2>2, FarSideKept DEF FeedInv, IndInv
<1>7. EntriesKept(C)'
  <2>1. \A c, j : Entry(C, c, j) => Entry(C, c, j)'
    BY <1>1 DEF Entry
  <2> QED
    BY <1>1, <1>3, <1>5, <2>1 DEF FeedInv, EntriesKept
<1> QED
  BY <1>1, <1>3, <1>6, <1>7 DEF FeedInv, OneSide

LEMMA FeedStore ==
    ASSUME IndInv, NEW C \in Peer, NEW O, O = Other(C), FeedInv(C, O), CreateStore(C)
    PROVE  FeedInv(C, O)'
<1> DEFINE i0 == creator[C].slot
<1>1. /\ UNCHANGED <<chan, made, reader, net>> /\ creator[C].pc = "store"
      /\ creator' = [creator EXCEPT ![C] = NotCreating]
      /\ channels' = [channels EXCEPT ![C][i0] = creator[C].chan]
  BY DEF CreateStore
<1>2. O \in Peer /\ O # C
  BY OnlyOne DEF FeedInv
<1>3. creator'[C].pc = "idle" /\ creator'[O] = creator[O]
  BY <1>1, <1>2, CreatorTypes DEF IndInv, TypeOK
<1>4. /\ channels'[O] = channels[O] /\ channels'[C][i0] = creator[C].chan
      /\ \A i \in Slot : i # i0 => channels'[C][i] = channels[C][i]
  BY <1>1, <1>2, FieldTypes DEF IndInv, TypeOK
<1>5. \A c \in Chan : Sent(C, c)' <=> Sent(C, c)
  BY <1>1, <1>3 DEF Sent, Allocated, InCreation
<1>6. FarSide(C, O)'
  <2>1. \A c \in Chan : Allocated(O, c)' <=> Allocated(O, c)
    BY <1>1 DEF Allocated
  <2> QED
    BY <1>1, <1>2, <1>4, <1>5, <2>1, FarSideKept DEF FeedInv, IndInv
<1>7. \A c \in Chan, i \in Slot : Entry(C, c, i) => Entry(C, c, i)'
  <2>1. channels[C][i0] = NoChan
    BY <1>1 DEF FeedInv, EntriesKept
  <2> QED
    BY <1>4, <2>1, NoChanIsNone DEF Entry
<1>8. EntriesKept(C)'
  BY <1>3, <1>5, <1>7 DEF FeedInv, EntriesKept
<1> QED
  BY <1>1, <1>3, <1>6, <1>8 DEF FeedInv, OneSide

LEMMA FeedSend ==
    ASSUME IndInv, NEW C \in Peer, NEW O, O = Other(C), FeedInv(C, O), CreateSend(C)
    PROVE  FeedInv(C, O)'
<1>1. UNCHANGED <<channels, made, reader>> /\ creator[C].pc = "send"
  BY DEF CreateSend
<1>0. PICK c0 \in Chan, i0 \in Slot, s0 \in Nat :
         c0 = creator[C].chan /\ i0 = creator[C].slot /\ s0 = chan[C][c0].sid
  <2>1. creator[C].chan \in Chan /\ creator[C].slot \in Slot
    BY <1>1, FieldTypes DEF IndInv, TypeOK
  <2>2. chan[C][creator[C].chan].sid \in Nat
    BY <2>1 DEF IndInv, TypeOK, Object
  <2> QED
    BY <2>1, <2>2
<1>2. /\ O \in Peer /\ O # C
      /\ \A c \in Chan, s \in Stream : \A k : At(O, "OPEN", c, s, k) => Sent(C, c)
      /\ \A c \in Chan : Allocated(O, c) => Sent(C, c)
      /\ reader[O].pc # "idle" => Sent(C, reader[O].chan)
  BY OnlyOne DEF FeedInv
<1>3. c0 \in Chan /\ InCreation(C, c0) /\ Allocated(C, c0) /\ ~Sent(C, c0)
  <2>1. chan[C][c0].state = "CONNECTING"
    BY <1>0, <1>1 DEF IndInv, TableAllocated
  <2> QED
    BY <1>0, <1>1, <2>1 DEF InCreation, Allocated, Sent
<1>4. /\ creator \in [Peer -> CreatorState] /\ chan \in [Peer -> [Chan -> Object]]
      /\ net \in [Peer -> [Stream -> Seq(Message)]]
  BY DEF IndInv, TypeOK
<1>5. \/ /\ SendOk(C, s0, Msg("OPEN", c0))
         /\ creator' = [creator EXCEPT ![C] = CreatorAt("store", @.slot, c0)]
         /\ UNCHANGED chan
      \/ /\ SendError(C, s0)
         /\ creator' = [creator EXCEPT ![C] = CreatorAt("store", @.slot, NoChan)]
         /\ chan' = [chan EXCEPT ![C][c0] = Freed]
  BY <1>0 DEF CreateSend
<1>6. /\ creator'[C].pc = "store" /\ creator'[C].slot = i0
      /\ creator'[O] = creator[O]
  BY <1>0, <1>2, <1>4, <1>5, CreatorTypes
<1>7. OneSide(O)'
  BY <1>1, <1>6 DEF FeedInv, OneSide
<1>8. \A c \in Chan, i \in Slot : Entry(C, c, i) => Entry(C, c, i)'
  BY <1>1 DEF Entry
<1>9. CASE /\ SendOk(C, s0, Msg("OPEN", c0))
           /\ creator' = [creator EXCEPT ![C] = CreatorAt("store", @.slot, c0)]
           /\ UNCHANGED chan
  <2>1. stage[C] = "up"
    BY <1>1, FieldTypes DEF IndInv, TypeOK, CursorsRight, CreateSend, Running
  <2>2. s0 \in Stream /\ net' = [net EXCEPT ![O][s0] = Append(@, Msg("OPEN", c0))]
    BY <1>9, <2>1 DEF SendOk, handshake_done
  <2>3. creator'[C].chan = c0
    BY <1>4, <1>9, CreatorTypes
  <2>4. \A c \in Chan : Sent(C, c)' <=> Sent(C, c) \/ c = c0
    BY <1>0, <1>1, <1>3, <1>6, <1>9 DEF Sent, Allocated, InCreation
  <2>5. EntriesKept(C)'
    <3>1. Entry(C, c0, i0)'
      BY <1>6, <2>3 DEF Entry
    <3>2. channels'[C][creator'[C].slot] = NoChan
      BY <1>0, <1>1, <1>6 DEF FeedInv, EntriesKept
    <3>3. ASSUME NEW c \in Chan, Sent(C, c)' PROVE \E i \in Slot : Entry(C, c, i)'
      BY <1>8, <2>4, <3>1, <3>3 DEF FeedInv, EntriesKept
    <3> QED
      BY <3>2, <3>3 DEF EntriesKept
  <2>6. Msg("OPEN", c0) \in Message /\ Msg("OPEN", c0).type = "OPEN" /\ Msg("OPEN", c0).chan = c0
    BY <1>3, MsgTypes DEF Msg
  <2>0. PICK n0 \in Nat : n0 = Len(net[O][s0]) + 1
    BY <1>2, <1>4, <2>2
  <2>7. /\ \A p \in Peer, s \in Stream : \A t, c, k :
              At(p, t, c, s, k)' <=>
                  \/ At(p, t, c, s, k)
                  \/ /\ p = O /\ s = s0 /\ k = n0
                     /\ Msg("OPEN", c0).type = t /\ Msg("OPEN", c0).chan = c
    <3>1. TypeOK
      BY DEF IndInv
    <3>2. PICK m \in Message : m = Msg("OPEN", c0)
      BY <2>6
    <3>3. /\ O \in Peer /\ s0 \in Stream
          /\ net'[O][s0] = Append(net[O][s0], m)
          /\ \A p \in Peer, s \in Stream : p # O \/ s # s0 => net'[p][s] = net[p][s]
      BY <1>2, <1>4, <2>2, <3>2
    <3>4. /\ \A p \in Peer, s \in Stream : \A t, c, k :
                At(p, t, c, s, k)' <=>
                    \/ At(p, t, c, s, k)
                    \/ /\ p = O /\ s = s0 /\ k = Len(net[O][s0]) + 1
                       /\ m.type = t /\ m.chan = c
          /\ \A t, c, k : At(O, t, c, s0, k) => k <= Len(net[O][s0])
      BY <3>1, <3>3, AppendAt, Zenon
    <3> QED
      BY <2>0, <3>2, <3>4
  <2>8. \A p \in Peer, s \in Stream : \A c, k :
            At(p, "DATA", c, s, k)' <=> At(p, "DATA", c, s, k)
    BY <2>6, <2>7
  <2>9. \A s \in Stream : \A c, k :
            At(O, "OPEN", c, s, k)' <=>
                At(O, "OPEN", c, s, k) \/ (s = s0 /\ k = n0 /\ c = c0)
    BY <1>2, <2>6, <2>7
  <2>10. \A c \in Chan : Reading(O, c)' <=> Reading(O, c)
    BY <1>1 DEF Reading
  <2>11. ~Allocated(O, c0) /\ ~Reading(O, c0)
         /\ \A s \in Stream : \A k : ~At(O, "OPEN", c0, s, k)
    BY <1>2, <1>3 DEF Reading
  <2>12. OffersNew(O)'
    <3> SUFFICES ASSUME NEW c \in Chan, NEW s \in Stream, NEW k \in Nat, At(O, "OPEN", c, s, k)'
                 PROVE  /\ ~Allocated(O, c)' /\ ~Reading(O, c)'
                        /\ \A j \in Nat : At(O, "OPEN", c, s, j)' => j = k
      BY DEF OffersNew
    <3>1. ~Allocated(O, c) /\ ~Reading(O, c)
      BY <2>9, <2>11 DEF FeedInv, FarSide, OffersNew
    <3>2. \A j \in Nat : At(O, "OPEN", c, s, j)' => j = k
      BY <2>9, <2>11 DEF FeedInv, FarSide, OffersNew
    <3> QED
      BY <1>9, <2>10, <3>1, <3>2 DEF Allocated
  <2>13. TableNew(O)'
    <3>1. reader[O].pc = "store" => reader[O].chan \in Chan
      BY <1>2 DEF IndInv, TypeOK
    <3> QED
      BY <1>1, <1>9, <3>1 DEF FeedInv, FarSide, TableNew, Allocated
  <2>14. Placed(C, O)'
    BY <1>1, <2>2, <2>4, <2>7, <2>9, <2>10 DEF FeedInv, FarSide, Placed
  <2>15. DataFollows(C, O)'
    BY <1>2, <1>3, <1>9, <2>4, <2>8, <2>9 DEF FeedInv, FarSide, DataFollows
  <2> QED
    BY <1>7, <2>5, <2>12, <2>13, <2>14, <2>15 DEF FeedInv, FarSide
<1>10. CASE /\ SendError(C, s0)
            /\ creator' = [creator EXCEPT ![C] = CreatorAt("store", @.slot, NoChan)]
            /\ chan' = [chan EXCEPT ![C][c0] = Freed]
  <2>1. /\ chan'[O] = chan[O] /\ chan'[C][c0].state = "CLOSED"
        /\ \A c \in Chan : c # c0 => chan'[C][c] = chan[C][c]
    BY <1>2, <1>3, <1>4, <1>10 DEF Freed
  <2>2. \A c \in Chan : Sent(C, c)' <=> Sent(C, c)
    BY <1>0, <1>1, <1>3, <1>6, <2>1 DEF Sent, Allocated, InCreation
  <2>3. FarSide(C, O)'
    <3>1. \A c \in Chan : Allocated(O, c)' <=> Allocated(O, c)
      BY <2>1 DEF Allocated
    <3>2. \A c \in Chan : Sent(C, c) => chan'[C][c].sid = chan[C][c].sid
      BY <1>3, <2>1
    <3>3. UNCHANGED net
      BY <1>10 DEF SendError
    <3> QED
      BY <1>1, <1>2, <2>2, <3>1, <3>2, <3>3, FarSideKept DEF FeedInv, IndInv
  <2>4. EntriesKept(C)'
    BY <1>0, <1>1, <1>6, <1>8, <2>2 DEF FeedInv, EntriesKept
  <2> QED
    BY <1>7, <2>3, <2>4 DEF FeedInv
<1> QED
  BY <1>5, <1>9, <1>10

\* Something other than an offer is sent.
LEMMA FarSideSends ==
    ASSUME IndInv, NEW C \in Peer, NEW O, O = Other(C), FeedInv(C, O),
           NEW q \in Peer, NEW r \in Stream, NEW m \in Message, m.type # "OPEN",
           net' = [net EXCEPT ![q][r] = Append(@, m)],
           m.type = "DATA" /\ q = O => Sent(C, m.chan) /\ chan[C][m.chan].sid = r,
           m.type = "DATA" /\ q = C => m.chan[1] = C,
           UNCHANGED <<channels, chan, creator>>,
           \A c \in Chan : Reading(O, c)' <=> Reading(O, c),
           reader'[O].pc = "store" => reader'[O] = reader[O]
    PROVE  FarSide(C, O)'
<1>1. O \in Peer /\ O # C
  BY OnlyOne DEF FeedInv
<1>2. /\ \A p \in Peer, s \in Stream : \A t, c, k :
            At(p, t, c, s, k)' <=>
                \/ At(p, t, c, s, k)
                \/ /\ p = q /\ s = r /\ k = Len(net[q][r]) + 1
                   /\ m.type = t /\ m.chan = c
      /\ \A t, c, k : At(q, t, c, r, k) => k <= Len(net[q][r])
  <2>1. TypeOK
    BY DEF IndInv
  <2>2. /\ net'[q][r] = Append(net[q][r], m)
        /\ \A p \in Peer, s \in Stream : p # q \/ s # r => net'[p][s] = net[p][s]
    BY <2>1 DEF TypeOK
  <2> QED
    BY <2>1, <2>2, AppendAt
<1>3. Len(net[q][r]) \in Nat
  BY DEF IndInv, TypeOK
<1> DEFINE n0 == Len(net[q][r])
<1>4. \A p \in Peer, s \in Stream : \A c, k :
          At(p, "OPEN", c, s, k)' <=> At(p, "OPEN", c, s, k)
  BY <1>2
<1>5. \A c : Sent(C, c)' <=> Sent(C, c)
  BY DEF Sent, Allocated, InCreation
<1>6. OffersNew(O)'
  BY <1>1, <1>4 DEF FeedInv, FarSide, OffersNew, Allocated
<1>7. TableNew(O)'
  BY DEF FeedInv, FarSide, TableNew, Allocated
<1>8. Placed(C, O)'
  BY <1>1, <1>4, <1>5 DEF FeedInv, FarSide, Placed
<1>9. ASSUME NEW c \in Chan, NEW s \in Stream, NEW k \in Nat, At(O, "DATA", c, s, k)'
      PROVE  /\ Sent(C, c)' /\ chan'[C][c].sid = s
             /\ \A j \in Nat : At(O, "OPEN", c, s, j)' => j < k
  <2>1. CASE At(O, "DATA", c, s, k)
    BY <1>1, <1>4, <1>5, <2>1 DEF FeedInv, FarSide, DataFollows
  <2>2. CASE /\ O = q /\ s = r /\ k = n0 + 1
             /\ m.type = "DATA" /\ m.chan = c
    <3>1. \A j \in Nat : At(O, "OPEN", c, s, j)' => j <= n0
      BY <1>1, <1>2, <1>4, <2>2
    <3> QED
      BY <1>3, <1>5, <2>2, <3>1
  <2> QED
    BY <1>1, <1>2, <1>9, <2>1, <2>2
<1>10. \A c \in Chan, s \in Stream, k \in Nat : At(C, "DATA", c, s, k)' => c[1] = C
  BY <1>2 DEF FeedInv, FarSide, DataFollows
<1>11. DataFollows(C, O)'
  BY <1>9, <1>10 DEF DataFollows
<1> QED
  BY <1>6, <1>7, <1>8, <1>11 DEF FarSide

LEMMA FeedMessage ==
    ASSUME IndInv, NEW C \in Peer, NEW O, O = Other(C), FeedInv(C, O),
           NEW p \in Peer, NEW c \in Chan, SendMessage(p, c)
    PROVE  FeedInv(C, O)'
<1> DEFINE s == chan[p][c].sid
<1>1. /\ UNCHANGED <<channels, chan, made, creator, reader>>
      /\ Allocated(p, c) /\ ~InCreation(p, c)
  BY DEF SendMessage, Held, Allocated, InCreation
<1>2. /\ O \in Peer /\ O # C /\ Other(O) = C /\ (p = C \/ p = O)
      /\ c[1] = C
  BY <1>1, OnlyOne, PeerFacts DEF FeedInv
<1>3. OneSide(O)' /\ EntriesKept(C)'
  <2>1. \A d \in Chan : Sent(C, d)' => Sent(C, d)
    BY <1>1 DEF Sent, Allocated, InCreation
  <2> QED
    BY <1>1, <1>2, <2>1, NearSideKept DEF FeedInv
<1>4. CASE UNCHANGED net
  <2>1. \A d \in Chan : Sent(C, d)' <=> Sent(C, d)
    BY <1>1 DEF Sent, Allocated, InCreation
  <2>2. \A d \in Chan : Allocated(O, d)' <=> Allocated(O, d)
    BY <1>1 DEF Allocated
  <2>3. FarSide(C, O)'
    BY <1>1, <1>2, <1>4, <2>1, <2>2, FarSideKept DEF FeedInv, IndInv
  <2> QED
    BY <1>3, <2>3 DEF FeedInv
<1>5. CASE s \in Stream /\ net' = [net EXCEPT ![Other(p)][s] = Append(@, Msg("DATA", c))]
  <2>1. /\ Msg("DATA", c) \in Message /\ Msg("DATA", c).type = "DATA"
        /\ Msg("DATA", c).chan = c
    BY MsgTypes DEF Msg
  <2>2. Other(p) = O => Sent(C, c) /\ s = chan[C][c].sid
    BY <1>1, <1>2 DEF Sent
  <2>3. Other(p) \in Peer
    BY <1>2
  <2>4. \A d \in Chan : Reading(O, d)' <=> Reading(O, d)
    BY <1>1 DEF Reading
  <2>5. FarSide(C, O)'
    <3> DEFINE q == Other(p)
    <3> DEFINE m == Msg("DATA", c)
    <3>1. q \in Peer /\ m \in Message /\ m.type = "DATA" /\ m.chan = c
      BY <2>1, <2>3
    <3>2. net' = [net EXCEPT ![q][s] = Append(@, m)] /\ s \in Stream
      BY <1>5
    <3>3. q = O => Sent(C, m.chan) /\ chan[C][m.chan].sid = s
      BY <2>2, <3>1
    <3>4. reader'[O].pc = "store" => reader'[O] = reader[O]
      BY <1>1
    <3> HIDE DEF q, m, s
    <3> QED
      BY <1>1, <1>2, <2>4, <3>1, <3>2, <3>3, <3>4, FarSideSends
  <2> QED
    BY <1>3, <2>5 DEF FeedInv
<1> QED
  BY <1>4, <1>5 DEF SendMessage, SendOk, SendError

LEMMA FeedAck ==
    ASSUME IndInv, NEW C \in Peer, NEW O, O = Other(C), FeedInv(C, O),
           NEW p \in Peer, OpenRequestAck(p)
    PROVE  FeedInv(C, O)'
<1> DEFINE c == reader[p].chan
<1> DEFINE s == reader[p].sid
<1>1. /\ UNCHANGED <<channels, chan, made, creator>> /\ reader[p].pc = "ack"
      /\ reader' = [reader EXCEPT ![p] = NotReading]
  BY DEF OpenRequestAck
<1>2. /\ O \in Peer /\ O # C /\ Other(O) = C /\ p = O
  BY <1>1, OnlyOne, PeerFacts DEF FeedInv
<1>3. c \in Chan /\ s \in Stream /\ reader'[O].pc = "idle"
  BY <1>1, <1>2, FieldTypes, ReaderTypes DEF IndInv, TypeOK
<1>4. \A d \in Chan : Sent(C, d)' <=> Sent(C, d)
  BY <1>1 DEF Sent, Allocated, InCreation
<1>5. \A d \in Chan : Allocated(O, d)' <=> Allocated(O, d)
  BY <1>1 DEF Allocated
<1>6. OneSide(O)' /\ EntriesKept(C)'
  BY <1>1, <1>2, <1>4, NearSideKept DEF FeedInv
<1>7. \A d \in Chan : Reading(O, d)' <=> Reading(O, d)
  BY <1>1, <1>2, <1>3 DEF Reading
<1>8. CASE UNCHANGED net
  <2>1. \A q, t, d, r, k : At(q, t, d, r, k)' <=> At(q, t, d, r, k)
    BY <1>8 DEF At
  <2>2. OffersNew(O)'
    BY <1>5, <1>7, <2>1 DEF FeedInv, FarSide, OffersNew
  <2>3. TableNew(O)'
    BY <1>1, <1>3 DEF FeedInv, FarSide, TableNew
  <2>4. Placed(C, O)'
    BY <1>1, <1>4, <1>7, <2>1 DEF FeedInv, FarSide, Placed
  <2>5. DataFollows(C, O)'
    BY <1>1, <1>4, <2>1 DEF FeedInv, FarSide, DataFollows
  <2> QED
    BY <1>6, <2>2, <2>3, <2>4, <2>5 DEF FeedInv, FarSide
<1>9. CASE net' = [net EXCEPT ![C][s] = Append(@, Msg("ACK", c))]
  <2>1. Msg("ACK", c) \in Message /\ Msg("ACK", c).type = "ACK"
    BY <1>3, MsgTypes DEF Msg
  <2>2. FarSide(C, O)'
    BY <1>1, <1>3, <1>7, <1>9, <2>1, FarSideSends
  <2> QED
    BY <1>6, <2>2 DEF FeedInv
<1> QED
  BY <1>2, <1>8, <1>9 DEF OpenRequestAck, SendOk, SendError

\* What follows an offer still does when the head of a stream is taken.
LEMMA TailFollows ==
    ASSUME TypeOK, NEW C \in Peer, NEW O \in Peer, DataFollows(C, O),
           NEW q \in Peer, NEW r \in Stream, net[q][r] # <<>>,
           net' = [net EXCEPT ![q][r] = Tail(@)],
           \A c \in Chan : Sent(C, c) => Sent(C, c)' /\ chan'[C][c].sid = chan[C][c].sid
    PROVE  DataFollows(C, O)'
<1>1. /\ \A p \in Peer, s \in Stream : p # q \/ s # r =>
            \A t, c, k : At(p, t, c, s, k)' <=> At(p, t, c, s, k)
      /\ \A t, c : \A k \in Nat : At(q, t, c, r, k)' <=> k >= 1 /\ At(q, t, c, r, k + 1)
  BY TailAt
<1>2. ASSUME NEW c \in Chan, NEW s \in Stream, NEW k \in Nat, At(O, "DATA", c, s, k)'
      PROVE  /\ Sent(C, c)' /\ chan'[C][c].sid = s
             /\ \A j \in Nat : At(O, "OPEN", c, s, j)' => j < k
  <2>1. CASE O = q /\ s = r
    <3>1. At(O, "DATA", c, s, k + 1) /\ k + 1 \in Nat
      BY <1>1, <1>2, <2>1
    <3>2. \A j \in Nat : At(O, "OPEN", c, s, j)' => j + 1 \in Nat /\ At(O, "OPEN", c, s, j + 1)
      BY <1>1, <2>1
    <3>3. \A j \in Nat : At(O, "OPEN", c, s, j)' => j + 1 < k + 1
      BY <3>1, <3>2 DEF DataFollows
    <3> QED
      BY <3>1, <3>3 DEF DataFollows
  <2>2. CASE O # q \/ s # r
    <3>1. \A t : \A j : At(O, t, c, s, j)' <=> At(O, t, c, s, j)
      BY <1>1, <2>2
    <3> QED
      BY <1>2, <3>1 DEF DataFollows
  <2> QED
    BY <2>1, <2>2
<1>3. ASSUME NEW c \in Chan, NEW s \in Stream, NEW k \in Nat, At(C, "DATA", c, s, k)'
      PROVE  c[1] = C
  <2>1. At(C, "DATA", c, s, k) \/ (At(C, "DATA", c, s, k + 1) /\ k + 1 \in Nat)
    BY <1>1, <1>3
  <2> QED
    BY <2>1 DEF DataFollows
<1> QED
  BY <1>2, <1>3 DEF DataFollows

\* O takes an offer, or the channel of one into its table.
LEMMA FeedOffer ==
    ASSUME IndInv, NEW C \in Peer, NEW O, O = Other(C), FeedInv(C, O),
           NEW p \in Peer, NEW s \in Stream, HandleOpenRequest(p, s)
    PROVE  FeedInv(C, O)'
<1> DEFINE c0 == Head(net[p][s]).chan
<1>1. /\ UNCHANGED <<channels, chan, made, creator>>
      /\ net[p][s] # <<>> /\ Head(net[p][s]).type = "OPEN"
      /\ net' = [net EXCEPT ![p][s] = Tail(@)]
      /\ reader[p].pc = "idle"
  BY DEF HandleOpenRequest, Receive, LoopFree
<1>2. c0 \in Chan
  BY <1>1, FieldTypes, MessageTypes DEF IndInv, TypeOK
<1>3. /\ \A q \in Peer, r \in Stream : q # p \/ r # s =>
            \A t, c, k : At(q, t, c, r, k)' <=> At(q, t, c, r, k)
      /\ \A t, c : \A k \in Nat : At(p, t, c, s, k)' <=> k >= 1 /\ At(p, t, c, s, k + 1)
      /\ \A t, c : At(p, t, c, s, 1) <=> t = "OPEN" /\ c = c0
      /\ \A t, c, k : At(p, t, c, s, k) => k \in Nat /\ k >= 1
  <2>1. TypeOK
    BY DEF IndInv
  <2>2. \A t, c : At(p, t, c, s, 1) <=>
           t = Head(net[p][s]).type /\ c = Head(net[p][s]).chan
    BY <1>1, <2>1, TailAt
  <2>3. \A t, c : At(p, t, c, s, 1) <=> t = "OPEN" /\ c = c0
    BY <1>1, <2>2
  <2> QED
    BY <1>1, <2>1, <2>3, TailAt
<1>4. At(p, "OPEN", c0, s, 1)
  BY <1>3
<1>5. /\ O \in Peer /\ O # C /\ p = O
      /\ \A c \in Chan, r \in Stream : \A k : At(O, "OPEN", c, r, k) => chan[C][c].sid = r
  BY <1>2, <1>4, OnlyOne DEF FeedInv
<1> HIDE DEF c0
<1>6. FreeSlots(O) # {}
  BY <1>2, <1>4, <1>5, RoomLeft
<1>7. PICK i \in FreeSlots(O) :
         reader' = [reader EXCEPT ![O] = ReaderAt("store", i, c0, s)]
  BY <1>5, <1>6 DEF HandleOpenRequest, First, c0
<1>8. /\ reader'[O].pc = "store" /\ reader'[O].chan = c0 /\ reader'[O].slot = i
      /\ channels[O][i] = NoChan
  BY <1>5, <1>7, ReaderTypes DEF IndInv, TypeOK, FreeSlots
<1>9. \A c \in Chan : Sent(C, c)' <=> Sent(C, c)
  BY <1>1 DEF Sent, Allocated, InCreation
<1>10. OneSide(O)' /\ EntriesKept(C)'
  BY <1>1, <1>5, <1>9, NearSideKept DEF FeedInv
<1>11. \A c \in Chan, r \in Stream, k \in Nat : At(O, "OPEN", c, r, k)' =>
          \E n \in Nat : At(O, "OPEN", c, r, n) /\ (r = s => n = k + 1 /\ k >= 1) /\ (r # s => n = k)
  BY <1>3, <1>5
<1>12. \A k \in Nat : At(O, "OPEN", c0, s, k) => k = 1
  BY <1>2, <1>4, <1>5 DEF FeedInv, FarSide, OffersNew
<1>13. OffersNew(O)'
  <2> SUFFICES ASSUME NEW c \in Chan, NEW r \in Stream, NEW k \in Nat, At(O, "OPEN", c, r, k)'
               PROVE  /\ ~Allocated(O, c)' /\ ~Reading(O, c)'
                      /\ \A j \in Nat : At(O, "OPEN", c, r, j)' => j = k
    BY DEF OffersNew
  <2>1. PICK n \in Nat : At(O, "OPEN", c, r, n) /\ (r = s => n = k + 1 /\ k >= 1) /\ (r # s => n = k)
    BY <1>11
  <2>2. ~Allocated(O, c) /\ \A j \in Nat : At(O, "OPEN", c, r, j) => j = n
    BY <2>1 DEF FeedInv, FarSide, OffersNew
  <2>3. c # c0
    <3>1. ASSUME c = c0 PROVE r = s
      BY <1>2, <1>4, <1>5, <2>1, <3>1
    <3> QED
      BY <1>12, <2>1, <3>1
  <2>4. ASSUME NEW j \in Nat, At(O, "OPEN", c, r, j)' PROVE j = k
    <3>1. PICK m \in Nat : At(O, "OPEN", c, r, m) /\ (r = s => m = j + 1) /\ (r # s => m = j)
      BY <1>11, <2>4
    <3> QED
      BY <2>1, <2>2, <3>1
  <2> QED
    BY <1>1, <1>8, <2>2, <2>3, <2>4 DEF Allocated, Reading
<1>14. TableNew(O)'
  <2>1. ~Allocated(O, c0)
    BY <1>2, <1>4, <1>5 DEF FeedInv, FarSide, OffersNew
  <2> QED
    BY <1>1, <1>8, <2>1 DEF FeedInv, FarSide, TableNew, Allocated
<1>15. Placed(C, O)'
  <2> SUFFICES ASSUME NEW c \in Chan, Sent(C, c)
               PROVE  \/ \E r \in Stream, k \in Nat : At(O, "OPEN", c, r, k)'
                      \/ Reading(O, c)'
                      \/ \E j \in Slot : channels'[O][j] = c
    BY <1>9 DEF Placed
  <2>1. CASE c = c0
    BY <1>8, <2>1 DEF Reading
  <2>2. CASE c # c0 /\ \E r \in Stream, k \in Nat : At(O, "OPEN", c, r, k)
    <3>1. PICK r \in Stream, k \in Nat : At(O, "OPEN", c, r, k)
      BY <2>2
    <3>2. CASE r # s
      BY <1>3, <1>5, <3>1, <3>2
    <3>3. CASE r = s
      <4>1. k # 1 /\ k >= 1
        BY <1>3, <1>5, <2>2, <3>1, <3>3
      <4>2. k - 1 \in Nat /\ k - 1 >= 1 /\ (k - 1) + 1 = k
        BY <4>1
      <4>3. At(O, "OPEN", c, r, k - 1)'
        BY <1>3, <1>5, <3>1, <3>3, <4>2
      <4> QED
        BY <4>2, <4>3
    <3> QED
      BY <3>2, <3>3
  <2>3. CASE \E j \in Slot : channels[O][j] = c
    BY <1>1, <2>3
  <2>4. ~Reading(O, c)
    BY <1>1, <1>5 DEF Reading
  <2> QED
    BY <2>1, <2>2, <2>3, <2>4 DEF FeedInv, FarSide, Placed
<1>16. DataFollows(C, O)'
  BY <1>1, <1>5, <1>9, TailFollows DEF FeedInv, FarSide, IndInv
<1> QED
  BY <1>10, <1>13, <1>14, <1>15, <1>16 DEF FeedInv, FarSide

LEMMA FeedAccept ==
    ASSUME IndInv, NEW C \in Peer, NEW O, O = Other(C), FeedInv(C, O),
           NEW p \in Peer, OpenRequestStore(p)
    PROVE  FeedInv(C, O)'
<1> DEFINE c0 == reader[O].chan
<1> DEFINE i0 == reader[O].slot
<1>1. /\ UNCHANGED <<made, creator, net>> /\ reader[p].pc = "store"
      /\ chan' = [chan EXCEPT ![p][reader[p].chan] = Connected(reader[p].sid)]
      /\ channels' = [channels EXCEPT ![p][reader[p].slot] = reader[p].chan]
      /\ reader' = [reader EXCEPT ![p] = ReaderAt("ack", @.slot, @.chan, @.sid)]
  BY DEF OpenRequestStore
<1>2. /\ O \in Peer /\ O # C /\ Other(O) = C /\ p = O
  BY <1>1, OnlyOne, PeerFacts DEF FeedInv
<1>3. c0 \in Chan /\ i0 \in Slot /\ reader'[O].pc = "ack"
  BY <1>1, <1>2, FieldTypes, ReaderTypes DEF IndInv, TypeOK
<1>4. /\ chan'[C] = chan[C] /\ channels'[C] = channels[C]
      /\ channels'[O][i0] = c0
      /\ \A i \in Slot : i # i0 => channels'[O][i] = channels[O][i]
      /\ \A c \in Chan : c # c0 => chan'[O][c] = chan[O][c]
  BY <1>1, <1>2, <1>3 DEF IndInv, TypeOK
<1>5. ~Allocated(O, c0) /\ channels[O][i0] = NoChan /\ Reading(O, c0)
  BY <1>1, <1>2 DEF FeedInv, FarSide, TableNew, Reading
<1>6. \A c \in Chan : Sent(C, c)' <=> Sent(C, c)
  BY <1>1, <1>4 DEF Sent, Allocated, InCreation
<1>7. OneSide(O)' /\ EntriesKept(C)'
  BY <1>1, <1>2, <1>4, <1>6, NearSideKept DEF FeedInv
<1>8. \A q, t, c, s, k : At(q, t, c, s, k)' <=> At(q, t, c, s, k)
  BY <1>1 DEF At
<1>9. \A c \in Chan : c # c0 => ~Reading(O, c) /\ (Allocated(O, c)' <=> Allocated(O, c))
  BY <1>4 DEF Reading, Allocated
<1>10. OffersNew(O)'
  <2> SUFFICES ASSUME NEW c \in Chan, NEW s \in Stream, NEW k \in Nat, At(O, "OPEN", c, s, k)
               PROVE  /\ ~Allocated(O, c)' /\ ~Reading(O, c)'
                      /\ \A j \in Nat : At(O, "OPEN", c, s, j) => j = k
    BY <1>8 DEF OffersNew
  <2>1. ~Allocated(O, c) /\ ~Reading(O, c)
        /\ \A j \in Nat : At(O, "OPEN", c, s, j) => j = k
    BY DEF FeedInv, FarSide, OffersNew
  <2>2. c # c0
    BY <1>5, <2>1
  <2> QED
    BY <1>3, <1>9, <2>1, <2>2 DEF Reading
<1>11. TableNew(O)'
  <2>1. \A j \in Slot : channels[O][j] # c0
    <3>1. c0 # NoChan
      BY <1>3, NoChanIsNone
    <3> QED
      BY <1>2, <1>5, <3>1 DEF IndInv, TableAllocated
  <2>2. \A i, j \in Slot :
           channels[O][i] # NoChan /\ channels[O][i] = channels[O][j] => i = j
    BY DEF FeedInv, FarSide, TableNew
  <2>3. ASSUME NEW i \in Slot, NEW j \in Slot,
               channels'[O][i] # NoChan, channels'[O][i] = channels'[O][j]
        PROVE  i = j
    BY <1>4, <2>1, <2>2, <2>3
  <2> QED
    BY <1>3, <2>3 DEF TableNew
<1>12. Placed(C, O)'
  <2> SUFFICES ASSUME NEW c \in Chan, Sent(C, c)
               PROVE  \/ \E r \in Stream, k \in Nat : At(O, "OPEN", c, r, k)
                      \/ \E j \in Slot : channels'[O][j] = c
    BY <1>6, <1>8 DEF Placed
  <2>1. CASE c = c0
    BY <1>3, <1>4, <2>1
  <2>2. CASE c # c0
    <3>1. \A j \in Slot : channels[O][j] = c => channels'[O][j] = c
      BY <1>4, <1>5, NoChanIsNone
    <3> QED
      BY <1>9, <2>2, <3>1 DEF FeedInv, FarSide, Placed
  <2> QED
    BY <2>1, <2>2
<1>13. DataFollows(C, O)'
  BY <1>4, <1>6, <1>8 DEF FeedInv, FarSide, DataFollows
<1> QED
  BY <1>7, <1>10, <1>11, <1>12, <1>13 DEF FeedInv, FarSide

\* A message other than an offer is taken.
LEMMA FeedTake ==
    ASSUME IndInv, NEW C \in Peer, NEW O, O = Other(C), FeedInv(C, O),
           NEW p \in Peer, NEW s \in Stream, HandleOpenAck(p, s) \/ HandleData(p, s)
    PROVE  FeedInv(C, O)'
<1>1. /\ UNCHANGED <<channels, made, creator, reader>>
      /\ net[p][s] # <<>> /\ Head(net[p][s]).type # "OPEN"
      /\ net' = [net EXCEPT ![p][s] = Tail(@)]
  BY DEF HandleOpenAck, HandleData, Receive
<1>2. O \in Peer /\ O # C
  BY OnlyOne DEF FeedInv
<1>3. \A q \in Peer, c \in Chan : (Allocated(q, c)' <=> Allocated(q, c))
                                  /\ chan'[q][c].sid = chan[q][c].sid
  <2>1. CASE UNCHANGED chan
    BY <2>1 DEF Allocated
  <2>2. ASSUME NEW i \in SlotsOn(p, s),
               \/ chan' = [chan EXCEPT ![p][channels[p][i]] = Connected(@.sid)]
               \/ chan' = [chan EXCEPT ![p][channels[p][i]] =
                               IF @.state = "CLOSED" THEN Connected(@.sid) ELSE @]
        PROVE  \A q \in Peer, c \in Chan : (Allocated(q, c)' <=> Allocated(q, c))
                                  /\ chan'[q][c].sid = chan[q][c].sid
    <3> DEFINE d == channels[p][i]
    <3>1. d \in Chan /\ Allocated(p, d)
      BY <2>2, FieldTypes DEF SlotsOn, IndInv, TypeOK, TableAllocated
    <3>2. chan \in [Peer -> [Chan -> Object]]
      BY DEF IndInv, TypeOK
    <3>3. \A q \in Peer, c \in Chan : q # p \/ c # d => chan'[q][c] = chan[q][c]
      BY <2>2, <3>1, <3>2
    <3>4. chan'[p][d] = Connected(chan[p][d].sid) \/ chan'[p][d] = chan[p][d]
      BY <2>2, <3>1, <3>2
    <3>5. chan'[p][d].state # "CLOSED" /\ chan'[p][d].sid = chan[p][d].sid
      BY <3>1, <3>4 DEF Connected, Allocated
    <3> QED
      BY <3>1, <3>3, <3>5 DEF Allocated
  <2> QED
    BY <2>1, <2>2 DEF HandleOpenAck, HandleData, First
<1>4. \A c \in Chan : Sent(C, c)' <=> Sent(C, c)
  BY <1>1, <1>3 DEF Sent, InCreation
<1>5. OneSide(O)' /\ EntriesKept(C)'
  BY <1>1, <1>2, <1>4, NearSideKept DEF FeedInv
<1>6. /\ \A q \in Peer, r \in Stream : q # p \/ r # s =>
            \A t, c, k : At(q, t, c, r, k)' <=> At(q, t, c, r, k)
      /\ \A t, c : \A k \in Nat : At(p, t, c, s, k)' <=> k >= 1 /\ At(p, t, c, s, k + 1)
      /\ \A t, c : At(p, t, c, s, 1) => t # "OPEN"
      /\ \A t, c, k : At(p, t, c, s, k) => k \in Nat /\ k >= 1
  BY <1>1, TailAt DEF IndInv
<1>7. \A c : Reading(O, c)' <=> Reading(O, c)
  BY <1>1 DEF Reading
<1>8. OffersNew(O)'
  <2> SUFFICES ASSUME NEW c \in Chan, NEW r \in Stream, NEW k \in Nat, At(O, "OPEN", c, r, k)'
               PROVE  /\ ~Allocated(O, c) /\ ~Reading(O, c)
                      /\ \A j \in Nat : At(O, "OPEN", c, r, j)' => j = k
    BY <1>2, <1>3, <1>7 DEF OffersNew
  <2>1. CASE O = p /\ r = s
    <3>1. At(O, "OPEN", c, r, k + 1) /\ k + 1 \in Nat
      BY <1>6, <2>1
    <3>2. \A j \in Nat : At(O, "OPEN", c, r, j)' => At(O, "OPEN", c, r, j + 1) /\ j + 1 \in Nat
      BY <1>6, <2>1
    <3>3. \A j \in Nat : At(O, "OPEN", c, r, j)' => j + 1 = k + 1
      BY <3>1, <3>2 DEF FeedInv, FarSide, OffersNew
    <3> QED
      BY <3>1, <3>3 DEF FeedInv, FarSide, OffersNew
  <2>2. CASE O # p \/ r # s
    <3>1. \A j : At(O, "OPEN", c, r, j)' <=> At(O, "OPEN", c, r, j)
      BY <1>2, <1>6, <2>2
    <3> QED
      BY <3>1 DEF FeedInv, FarSide, OffersNew
  <2> QED
    BY <2>1, <2>2
<1>9. TableNew(O)'
  <2>1. reader[O].pc = "store" => reader[O].chan \in Chan
    BY <1>2 DEF IndInv, TypeOK
  <2> QED
    BY <1>1, <1>2, <1>3, <2>1 DEF FeedInv, FarSide, TableNew
<1>10. Placed(C, O)'
  <2>1. ASSUME NEW c \in Chan, NEW r \in Stream, NEW k \in Nat, At(O, "OPEN", c, r, k)
        PROVE  \E j \in Nat : At(O, "OPEN", c, r, j)'
    <3>1. CASE O # p \/ r # s
      BY <1>2, <1>6, <2>1, <3>1
    <3>2. CASE O = p /\ r = s
      <4>1. k # 1 /\ k >= 1
        BY <1>6, <2>1, <3>2
      <4>2. k - 1 \in Nat /\ k - 1 >= 1 /\ (k - 1) + 1 = k
        BY <4>1
      <4>3. At(O, "OPEN", c, r, k - 1)'
        BY <1>6, <2>1, <3>2, <4>2
      <4> QED
        BY <4>2, <4>3
    <3> QED
      BY <3>1, <3>2
  <2> QED
    BY <1>1, <1>4, <1>7, <2>1 DEF FeedInv, FarSide, Placed
<1>11. DataFollows(C, O)'
  <2>1. TypeOK /\ DataFollows(C, O)
    BY DEF FeedInv, FarSide, IndInv
  <2>2. \A c \in Chan : Sent(C, c) => Sent(C, c)' /\ chan'[C][c].sid = chan[C][c].sid
    BY <1>3, <1>4
  <2>3. TypeOK
    BY DEF IndInv
  <2> QED
    BY <1>1, <1>2, <2>1, <2>2, <2>3, TailFollows
<1> QED
  BY <1>5, <1>8, <1>9, <1>10, <1>11 DEF FeedInv, FarSide

LEMMA FeedInit == ASSUME NEW C \in Peer, NEW O, O = Other(C), Init PROVE FeedInv(C, O)
<1>1. O \in Peer
  BY PeerFacts
<1>2. /\ \A p \in Peer : creator[p].pc = "idle" /\ reader[p].pc = "idle" /\ made[p] = 0
      /\ \A p \in Peer, c \in Chan : ~Allocated(p, c)
      /\ \A p \in Peer, i \in Slot : channels[p][i] = NoChan
      /\ \A p \in Peer, s \in Stream : DOMAIN net[p][s] = {}
  BY CreatorTypes, ReaderTypes DEF Init, Allocated, Freed
<1>3. \A p \in Peer, s \in Stream : \A t, c, k : ~At(p, t, c, s, k)
  BY <1>2 DEF At
<1>4. OneSide(O) /\ EntriesKept(C)
  BY <1>1, <1>2 DEF OneSide, EntriesKept, Sent
<1>5. FarSide(C, O)
  BY <1>1, <1>2, <1>3 DEF FarSide, OffersNew, TableNew, Placed, DataFollows, Sent
<1> QED
  BY <1>4, <1>5 DEF FeedInv

LEMMA FeedStep ==
    ASSUME IndInv, NEW C \in Peer, NEW O, O = Other(C), FeedInv(C, O),
           Creators \subseteq {C}, [Next]_vars
    PROVE  FeedInv(C, O)'
<1>1. ASSUME NEW p \in Peer, CreateScan(p) \/ CreateStep(p) PROVE p = C
  BY <1>1, OnlyOne DEF FeedInv, OneSide, CreateScan, CreateStep, CreateNumber,
     CreateSend, CreateStore
<1>2. ASSUME UNCHANGED <<channels, chan, made, creator, reader, net>> PROVE FeedInv(C, O)'
  <2>1. \A q, t, c, s, k : At(q, t, c, s, k)' <=> At(q, t, c, s, k)
    BY <1>2 DEF At
  <2>2. \A q, c : (Sent(q, c)' <=> Sent(q, c)) /\ (Reading(q, c)' <=> Reading(q, c))
                  /\ (Allocated(q, c)' <=> Allocated(q, c))
    BY <1>2 DEF Sent, Reading, Allocated, InCreation
  <2>3. OneSide(O)' /\ EntriesKept(C)'
    BY <1>2, <2>2 DEF FeedInv, OneSide, EntriesKept, Entry
  <2>4. OffersNew(O)' /\ TableNew(O)'
    BY <1>2, <2>1, <2>2 DEF FeedInv, FarSide, OffersNew, TableNew
  <2>5. Placed(C, O)' /\ DataFollows(C, O)'
    BY <1>2, <2>1, <2>2 DEF FeedInv, FarSide, Placed, DataFollows
  <2> QED
    BY <2>3, <2>4, <2>5 DEF FeedInv, FarSide
<1>3. ASSUME NEW p \in Peer, Startup(p) \/ SctpFails(p) PROVE FeedInv(C, O)'
  BY <1>2, <1>3 DEF Startup, StartSctp, Associate, SctpConnected, SwapSocket, SctpFails
<1>4. ASSUME NEW p \in Peer, CreateScan(p) \/ CreateStep(p) PROVE FeedInv(C, O)'
  BY <1>1, <1>4, FeedScan, FeedNumber, FeedSend, FeedStore DEF CreateStep
<1>5. ASSUME NEW p \in Peer, Deliver(p) PROVE FeedInv(C, O)'
  BY <1>5, FeedOffer, FeedTake DEF Deliver
<1>6. ASSUME NEW p \in Peer, ReaderStep(p) PROVE FeedInv(C, O)'
  BY <1>6, FeedAccept, FeedAck DEF ReaderStep
<1>7. ASSUME NEW p \in Peer, NEW c \in Chan, SendMessage(p, c) PROVE FeedInv(C, O)'
  BY <1>7, FeedMessage
<1>8. CASE UNCHANGED vars
  BY <1>2, <1>8 DEF vars
<1> QED
  BY <1>3, <1>4, <1>5, <1>6, <1>7, <1>8 DEF Next

\* Where one peer creates, the other finds an entry for every offer
\* (dcep.c:44-52): whatever sends fail and whenever the two are ready, it has
\* as many entries as the creator and no more channels.
THEOREM OfferFindsSlotHolds ==
    Timing # "any" /\ (\E p \in Peer : Creators \subseteq {p}) =>
        (Spec => []OfferFindsSlot)
<1> SUFFICES ASSUME Timing # "any", NEW C \in Peer, Creators \subseteq {C}
             PROVE  Spec => []OfferFindsSlot
  OBVIOUS
<1> DEFINE O == Other(C)
<1>1. ASSUME IndInv, FeedInv(C, O) PROVE OfferFindsSlot
  <2> SUFFICES ASSUME NEW p \in Peer, NEW s \in Stream, Arriving(p, s, "OPEN")
               PROVE  FreeSlots(p) # {}
    BY DEF OfferFindsSlot
  <2> DEFINE c == Head(net[p][s]).chan
  <2>1. net[p][s] \in Seq(Message) /\ net[p][s] # <<>> /\ Head(net[p][s]).type = "OPEN"
    BY <1>1 DEF Arriving, IndInv, TypeOK
  <2>2. At(p, "OPEN", c, s, 1) /\ c \in Chan
    <3>1. 1 \in DOMAIN net[p][s] /\ net[p][s][1] = Head(net[p][s])
      BY <2>1
    <3> QED
      BY <1>1, <2>1, <3>1, MessageTypes DEF At, IndInv
  <2>3. p = O
    BY <1>1, <2>2, OnlyOne DEF FeedInv
  <2> QED
    BY <1>1, <2>2, <2>3, RoomLeft
<1>2. Init => FeedInv(C, O)
  BY FeedInit
<1>3. IndInv /\ FeedInv(C, O) /\ [Next]_vars => FeedInv(C, O)'
  BY FeedStep
<1> QED
  BY <1>1, <1>2, <1>3, Inductive, PTL DEF Spec

\* Where one peer creates, the other finds the channel of every message on
\* it (dcep.c:90-105): the offer has gone before on the same stream.
THEOREM DataFindsAcceptorHolds ==
    Timing # "any" /\ (\E p \in Peer : Creators \subseteq {p}) =>
        (Spec => []DataFindsAcceptor)
<1> SUFFICES ASSUME Timing # "any", NEW C \in Peer, Creators \subseteq {C}
             PROVE  Spec => []DataFindsAcceptor
  OBVIOUS
<1> DEFINE O == Other(C)
<1>1. ASSUME IndInv, FeedInv(C, O) PROVE DataFindsAcceptor
  <2> SUFFICES ASSUME NEW p \in Peer, NEW s \in Stream, Arriving(p, s, "DATA"),
                      Head(net[p][s]).chan[1] # p
               PROVE  Finds(p, s, Head(net[p][s]).chan)
    BY DEF DataFindsAcceptor
  <2> DEFINE c == Head(net[p][s]).chan
  <2>1. net[p][s] \in Seq(Message) /\ net[p][s] # <<>> /\ Head(net[p][s]).type = "DATA"
    BY <1>1 DEF Arriving, IndInv, TypeOK
  <2>2. At(p, "DATA", c, s, 1) /\ c \in Chan
    <3>1. 1 \in DOMAIN net[p][s] /\ net[p][s][1] = Head(net[p][s])
      BY <2>1
    <3> QED
      BY <1>1, <2>1, <3>1, MessageTypes DEF At, IndInv
  <2>3. /\ \A q \in Peer : q = C \/ q = O
        /\ \A d \in Chan, r \in Stream : \A k : At(O, "OPEN", d, r, k) => chan[C][d].sid = r
        /\ \A d \in Chan : Allocated(O, d) => chan[C][d].sid = chan[O][d].sid
    BY <1>1, OnlyOne DEF FeedInv
  <2>4. p = O
    BY <1>1, <2>2, <2>3 DEF FeedInv, FarSide, DataFollows
  <2>5. /\ Sent(C, c) /\ chan[C][c].sid = s
        /\ \A j \in Nat : At(O, "OPEN", c, s, j) => j < 1
    BY <1>1, <2>2, <2>4 DEF FeedInv, FarSide, DataFollows
  <2>6. \A r \in Stream, k \in Nat : ~At(O, "OPEN", c, r, k)
    <3> SUFFICES ASSUME NEW r \in Stream, NEW k \in Nat, At(O, "OPEN", c, r, k) PROVE FALSE
      OBVIOUS
    <3>1. r = s /\ k < 1
      BY <2>2, <2>3, <2>5
    <3>2. k \in DOMAIN net[p][s]
      BY <2>4, <3>1 DEF At
    <3> QED
      BY <2>1, <3>1, <3>2
  <2>7. ~Reading(O, c)
    BY <2>4 DEF Reading, Arriving, LoopFree
  <2>8. PICK i \in Slot : channels[O][i] = c
    BY <1>1, <2>2, <2>5, <2>6, <2>7 DEF FeedInv, FarSide, Placed
  <2>9. i \in SlotsOn(O, s) /\ Allocated(O, c)
    BY <1>1, <2>2, <2>3, <2>4, <2>5, <2>8, NoChanIsNone DEF SlotsOn, IndInv, TableAllocated
  <2>10. ASSUME NEW j \in SlotsOn(O, s) PROVE i <= j
    <3> DEFINE d == channels[O][j]
    <3>1. j \in Slot /\ d \in Chan /\ chan[O][d].sid = s /\ Allocated(O, d)
      BY <1>1, <2>4, <2>10, FieldTypes DEF SlotsOn, IndInv, TypeOK, TableAllocated
    <3>2. d = c
      BY <1>1, <2>2, <2>3, <2>4, <2>5, <2>9, <3>1, IndImplies DEF OneChannelPerStream
    <3>3. i = j
      BY <1>1, <2>2, <2>8, <3>1, <3>2, NoChanIsNone DEF FeedInv, FarSide, TableNew
    <3> QED
      BY <3>1, <3>3, BoundsAreNat DEF Slot
  <2> QED
    BY <2>4, <2>8, <2>9, <2>10 DEF Finds, First
<1>2. Init => FeedInv(C, O)
  BY FeedInit
<1>3. IndInv /\ FeedInv(C, O) /\ [Next]_vars => FeedInv(C, O)'
  BY FeedStep
<1> QED
  BY <1>1, <1>2, <1>3, Inductive, PTL DEF Spec
-----------------------------------------------------------------------------
(***************************************************************************)
(* When channels are created in the main loop, by either peer, every ACK   *)
(* finds its channel, and so does every message when the tables have room  *)
(* for all of them.                                                        *)
(***************************************************************************)
LoopCreation == InLoop /\ Timing # "any"
RoomForAll == 2 * MaxCreate <= MaxChannels

\* The creator of c has sent its offer.
Asked(c) == Sent(c[1], c)

\* A channel has one entry, and its creator has one for it before the answer.
Table(p) ==
    /\ creator[p].pc # "idle" => \A i \in Slot :
           channels[p][i] # NoChan => channels[p][i] # creator[p].chan
    /\ \A i, j \in Slot :
           channels[p][i] # NoChan /\ channels[p][i] = channels[p][j] => i = j
    /\ \A c \in Chan : c[1] = p /\ Asked(c) => \E i \in Slot : Entry(p, c, i)

\* What the other peer has offered is on its way, being read or in the table,
\* if the table had room for it;
\* what is sent on a channel comes after the offer.
ReadsNew(p) == reader[p].pc = "store" => ~Allocated(p, reader[p].chan)
Arrives(p, c) ==
    \/ \E s \in Stream, k \in Nat : At(p, "OPEN", c, s, k)
    \/ Reading(p, c)
    \/ \E i \in Slot : channels[p][i] = c
AllArrive(p) == RoomForAll => \A c \in Chan : c[1] # p /\ Asked(c) => Arrives(p, c)
DataAfter(p) == \A c \in Chan, s \in Stream, k \in Nat : At(p, "DATA", c, s, k) =>
    /\ Asked(c) /\ chan[c[1]][c].sid = s
    /\ \A j \in Nat : At(p, "OPEN", c, s, j) => j < k
Wire(p) == OffersNew(p) /\ ReadsNew(p) /\ AllArrive(p) /\ DataAfter(p)

Tables == \A p \in Peer : Table(p)
Wires == \A p \in Peer : Wire(p)

\* Whoever knows a channel that is not its own was asked for it.
LEMMA AskedFor ==
    ASSUME IndInv, NEW p \in Peer
    PROVE  /\ \A c \in Chan, s \in Stream : \A k : At(p, "OPEN", c, s, k) =>
                 c[1] # p /\ Asked(c) /\ chan[c[1]][c].sid = s
           /\ \A c \in Chan : c[1] # p /\ Allocated(p, c) =>
                 Asked(c) /\ chan[c[1]][c].sid = chan[p][c].sid
           /\ reader[p].pc # "idle" =>
                 /\ reader[p].chan \in Chan /\ reader[p].chan[1] # p
                 /\ Asked(reader[p].chan)
                 /\ chan[reader[p].chan[1]][reader[p].chan].sid = reader[p].sid
<1>1. \A c, s : Told(p, c, s) => c[1] # p /\ Asked(c) /\ chan[c[1]][c].sid = s
  BY PeerFacts DEF Told, Asked, Sent
<1>2. \A c \in Chan, s \in Stream : \A k : At(p, "OPEN", c, s, k) => Told(p, c, s)
  BY DEF IndInv, MessagesTold, At
<1>3. \A c \in Chan : c[1] # p /\ Allocated(p, c) => Told(p, c, chan[p][c].sid)
  BY DEF IndInv, AcceptedTold
<1>4. reader[p].pc # "idle" =>
         reader[p].chan \in Chan /\ Told(p, reader[p].chan, reader[p].sid)
  BY DEF IndInv, TypeOK, ReaderTold
<1> QED
  BY <1>1, <1>2, <1>3, <1>4

LEMMA ChanCount == IsFiniteSet(Chan) /\ Cardinality(Chan) = 2 * MaxCreate
<1>1. IsFiniteSet({Client}) /\ Cardinality({Client}) = 1
  BY FS_Singleton
<1>2. IsFiniteSet(Peer) /\ Cardinality(Peer) = 2
  <2>1. Peer = {Client} \cup {Server} /\ Server \notin {Client}
    BY PeersDiffer DEF Peer
  <2> QED
    BY <1>1, <2>1, FS_AddElement
<1>3. IsFiniteSet(1 .. MaxCreate) /\ Cardinality(1 .. MaxCreate) = MaxCreate
  <2>1. MaxCreate \in Int /\ 1 \in Int
    BY BoundsAreNat
  <2>2. /\ IsFiniteSet(1 .. MaxCreate)
        /\ Cardinality(1 .. MaxCreate) = IF 1 > MaxCreate THEN 0 ELSE MaxCreate - 1 + 1
    BY <2>1, FS_Interval
  <2> QED
    BY <2>2, BoundsAreNat
<1> QED
  BY <1>2, <1>3, FS_Product DEF Chan

\* A table that lacks a channel has a free entry.
LEMMA RoomForOffer ==
    ASSUME RoomForAll, IndInv, Tables, NEW p \in Peer, NEW d \in Chan,
           \A i \in Slot : channels[p][i] # d
    PROVE  FreeSlots(p) # {}
<1> SUFFICES ASSUME FreeSlots(p) = {} PROVE FALSE
  OBVIOUS
<1> DEFINE f == [i \in Slot |-> channels[p][i]]
<1>1. \A i \in Slot : channels[p][i] \in Chan
  BY FieldTypes DEF FreeSlots, IndInv
<1>2. f \in [Slot -> Chan \ {d}]
  BY <1>1
<1>3. IsFiniteSet(Chan \ {d}) /\ Cardinality(Chan \ {d}) = 2 * MaxCreate - 1
  BY ChanCount, FS_RemoveElement
<1>4. IsFiniteSet(Slot) /\ Cardinality(Slot) = MaxChannels
  <2>1. MaxChannels - 1 \in Int /\ 0 \in Int /\ ~(0 > MaxChannels - 1)
    BY BoundsAreNat
  <2>2. Cardinality(0 .. MaxChannels - 1) = (MaxChannels - 1) - 0 + 1
        /\ IsFiniteSet(0 .. MaxChannels - 1)
    BY <2>1, FS_Interval
  <2> QED
    BY <2>2, BoundsAreNat DEF Slot
<1>5. Cardinality(Chan \ {d}) < Cardinality(Slot)
  BY <1>3, <1>4, BoundsAreNat DEF RoomForAll
<1> HIDE DEF f
<1>6. PICK i, j \in Slot : i # j /\ f[i] = f[j]
  BY <1>2, <1>3, <1>4, <1>5, FS_PigeonHole
<1>7. channels[p][i] = channels[p][j] /\ channels[p][i] # NoChan
  BY <1>1, <1>6, NoChanIsNone DEF f
<1> QED
  BY <1>6, <1>7 DEF Tables, Table

\* Steps that send and take nothing, and steps that leave the table alone.
LEMMA WiresKept ==
    ASSUME IndInv, Wires, UNCHANGED <<net, reader>>,
           \A q \in Peer, c \in Chan : c[1] # q => (Allocated(q, c)' <=> Allocated(q, c)),
           \A q \in Peer, i \in Slot : \A c \in Chan :
               c[1] # q /\ channels[q][i] = c => channels'[q][i] = c,
           \A c \in Chan : Asked(c)' <=> Asked(c),
           \A c \in Chan : Asked(c) => chan'[c[1]][c].sid = chan[c[1]][c].sid
    PROVE  Wires'
<1> SUFFICES ASSUME NEW p \in Peer PROVE Wire(p)'
  BY DEF Wires
<1>1. \A t, c, s, k : At(p, t, c, s, k)' <=> At(p, t, c, s, k)
  BY DEF At
<1>2. \A c : Reading(p, c)' <=> Reading(p, c)
  BY DEF Reading
<1>3. Wire(p)
  BY DEF Wires
<1>4. OffersNew(p)'
  <2>1. \A c \in Chan, s \in Stream : \A k : At(p, "OPEN", c, s, k) => c[1] # p
    BY AskedFor
  <2> QED
    BY <1>1, <1>2, <1>3, <2>1 DEF Wire, OffersNew
<1>5. ReadsNew(p)'
  BY <1>3, AskedFor DEF Wire, ReadsNew
<1>6. AllArrive(p)'
  BY <1>1, <1>2, <1>3 DEF Wire, AllArrive, Arrives
<1>7. DataAfter(p)'
  BY <1>1, <1>3 DEF Wire, DataAfter
<1> QED
  BY <1>4, <1>5, <1>6, <1>7 DEF Wire

LEMMA TablesKept ==
    ASSUME Tables, UNCHANGED <<creator, channels>>, \A c \in Chan : Asked(c)' => Asked(c)
    PROVE  Tables'
<1>1. \A p, c, i : Entry(p, c, i)' <=> Entry(p, c, i)
  BY DEF Entry
<1> QED
  BY <1>1 DEF Tables, Table

\* Something other than an offer is sent, on a channel the other peer has
\* been asked for.
LEMMA WiresSend ==
    ASSUME IndInv, Wires, NEW q \in Peer, NEW r \in Stream, NEW m \in Message,
           m.type # "OPEN", net' = [net EXCEPT ![q][r] = Append(@, m)],
           m.type = "DATA" => Asked(m.chan) /\ chan[m.chan[1]][m.chan].sid = r,
           UNCHANGED <<channels, chan, creator>>,
           \A p \in Peer : reader'[p] = reader[p] \/
               (reader[p].pc # "store" /\ reader'[p].pc # "store")
    PROVE  Wires'
<1> SUFFICES ASSUME NEW p \in Peer PROVE Wire(p)'
  BY DEF Wires
<1>0. TypeOK /\ Wire(p)
  BY DEF IndInv, Wires
<1>1. PICK n0 \in Nat : n0 = Len(net[q][r]) + 1
  BY <1>0 DEF TypeOK
<1>2. /\ net'[q][r] = Append(net[q][r], m)
      /\ \A x \in Peer, s \in Stream : x # q \/ s # r => net'[x][s] = net[x][s]
  BY <1>0 DEF TypeOK
<1>3. /\ \A x \in Peer, s \in Stream : \A t, c, k :
            At(x, t, c, s, k)' <=>
                \/ At(x, t, c, s, k)
                \/ /\ x = q /\ s = r /\ k = Len(net[q][r]) + 1
                   /\ m.type = t /\ m.chan = c
      /\ \A t, c, k : At(q, t, c, r, k) => k <= Len(net[q][r])
  BY <1>0, <1>2, AppendAt
<1>4. \A s \in Stream : \A c, k : At(p, "OPEN", c, s, k)' <=> At(p, "OPEN", c, s, k)
  BY <1>3
<1>5. \A c : Reading(p, c)' <=> Reading(p, c)
  BY DEF Reading
<1>6. /\ \A c : Asked(c)' <=> Asked(c)
      /\ \A x, c : Allocated(x, c)' <=> Allocated(x, c)
  BY DEF Asked, Sent, Allocated, InCreation
<1>7. OffersNew(p)'
  BY <1>0, <1>4, <1>5, <1>6 DEF Wire, OffersNew
<1>8. ReadsNew(p)'
  BY <1>0, <1>6 DEF Wire, ReadsNew
<1>9. AllArrive(p)'
  BY <1>0, <1>4, <1>5, <1>6 DEF Wire, AllArrive, Arrives
<1>10. ASSUME NEW c \in Chan, NEW s \in Stream, NEW k \in Nat, At(p, "DATA", c, s, k)'
       PROVE  /\ Asked(c) /\ chan[c[1]][c].sid = s
              /\ \A j \in Nat : At(p, "OPEN", c, s, j) => j < k
  <2>1. CASE At(p, "DATA", c, s, k)
    BY <1>0, <2>1 DEF Wire, DataAfter
  <2>2. CASE /\ p = q /\ s = r /\ k = n0
             /\ m.type = "DATA" /\ m.chan = c
    <3>1. Len(net[q][r]) \in Nat
      BY <1>0 DEF TypeOK
    <3>2. \A j \in Nat : At(p, "OPEN", c, s, j) => j < n0
      BY <1>1, <1>3, <2>2, <3>1
    <3> QED
      BY <2>2, <3>2
  <2> QED
    BY <1>1, <1>3, <1>10, <2>1, <2>2
<1>11. DataAfter(p)'
  BY <1>4, <1>6, <1>10 DEF DataAfter
<1> QED
  BY <1>7, <1>8, <1>9, <1>11 DEF Wire

\* A message is taken; if it is an offer, it is read.
LEMMA WiresTake ==
    ASSUME IndInv, Wires, NEW q \in Peer, NEW r \in Stream, NEW h \in Message,
           net[q][r] # <<>>, h = Head(net[q][r]), net' = [net EXCEPT ![q][r] = Tail(@)],
           UNCHANGED channels,
           \A p \in Peer, c \in Chan : Allocated(p, c)' <=> Allocated(p, c),
           \A c \in Chan : /\ Asked(c)' <=> Asked(c)
                           /\ chan'[c[1]][c].sid = chan[c[1]][c].sid,
           \A p \in Peer : p # q => reader'[p] = reader[p],
           reader[q].pc = "idle",
           \/ /\ h.type = "OPEN"
              /\ reader'[q].pc = "store" /\ reader'[q].chan = h.chan
           \/ reader'[q] = reader[q] /\ (RoomForAll => h.type # "OPEN")
    PROVE  Wires'
<1> SUFFICES ASSUME NEW p \in Peer PROVE Wire(p)'
  BY DEF Wires
<1>0. TypeOK /\ Wire(p) /\ Wire(q)
  BY DEF IndInv, Wires
<1>1. /\ \A x \in Peer, s \in Stream : x # q \/ s # r =>
            \A t, c, k : At(x, t, c, s, k)' <=> At(x, t, c, s, k)
      /\ \A t, c : \A k \in Nat : At(q, t, c, r, k)' <=> k >= 1 /\ At(q, t, c, r, k + 1)
      /\ \A t, c : At(q, t, c, r, 1) <=> t = h.type /\ c = h.chan
      /\ \A t, c, k : At(q, t, c, r, k) => k \in Nat /\ k >= 1
  <2>1. \A t, c : At(q, t, c, r, 1) <=>
           t = Head(net[q][r]).type /\ c = Head(net[q][r]).chan
    BY <1>0, TailAt
  <2>2. \A t, c : At(q, t, c, r, 1) <=> t = h.type /\ c = h.chan
    BY <2>1
  <2> QED
    BY <1>0, <2>2, TailAt
<1>2. h.chan \in Chan /\ At(q, h.type, h.chan, r, 1)
  BY <1>1 DEF Message
\* Where a message was before.
<1>3. ASSUME NEW t, NEW c, NEW s \in Stream, NEW k \in Nat, At(p, t, c, s, k)'
      PROVE  \E n \in Nat : /\ At(p, t, c, s, n)
                            /\ n = IF p = q /\ s = r THEN k + 1 ELSE k
                            /\ p = q /\ s = r => k >= 1
  BY <1>1, <1>3
<1>4. ASSUME NEW c, NEW s \in Stream, NEW k \in Nat, At(p, "OPEN", c, s, k),
             p # q \/ h.type # "OPEN" \/ c # h.chan
      PROVE  \E n \in Nat : At(p, "OPEN", c, s, n)'
  <2>1. CASE p # q \/ s # r
    BY <1>1, <1>4, <2>1
  <2>2. CASE p = q /\ s = r
    <3>1. k # 1 /\ k >= 1
      BY <1>1, <1>4, <2>2
    <3>2. k - 1 \in Nat /\ k - 1 >= 1 /\ (k - 1) + 1 = k
      BY <3>1
    <3>3. At(p, "OPEN", c, s, k - 1)'
      BY <1>1, <1>4, <2>2, <3>2
    <3> QED
      BY <3>2, <3>3
  <2> QED
    BY <2>1, <2>2
<1>5. \A c : Reading(p, c)' => Reading(p, c) \/ (p = q /\ h.type = "OPEN" /\ c = h.chan)
  BY DEF Reading
<1>6. OffersNew(p)'
  <2> SUFFICES ASSUME NEW c \in Chan, NEW s \in Stream, NEW k \in Nat, At(p, "OPEN", c, s, k)'
               PROVE  /\ ~Allocated(p, c)' /\ ~Reading(p, c)'
                      /\ \A j \in Nat : At(p, "OPEN", c, s, j)' => j = k
    BY DEF OffersNew
  <2>1. PICK n \in Nat : /\ At(p, "OPEN", c, s, n)
                         /\ n = IF p = q /\ s = r THEN k + 1 ELSE k
                         /\ p = q /\ s = r => k >= 1
    BY <1>3
  <2>2. /\ ~Allocated(p, c) /\ ~Reading(p, c)
        /\ \A j \in Nat : At(p, "OPEN", c, s, j) => j = n
    BY <1>0, <2>1 DEF Wire, OffersNew
  <2>3. ~(p = q /\ h.type = "OPEN" /\ c = h.chan)
    <3> SUFFICES ASSUME p = q, h.type = "OPEN", c = h.chan PROVE FALSE
      OBVIOUS
    <3>1. At(p, "OPEN", c, r, 1)
      BY <1>2
    <3>2. s = r
      BY <2>1, <3>1, AskedFor
    <3>3. n = 1
      BY <2>2, <3>1, <3>2
    <3> QED
      BY <2>1, <3>2, <3>3
  <2>4. ASSUME NEW j \in Nat, At(p, "OPEN", c, s, j)' PROVE j = k
    <3>1. PICK m \in Nat : /\ At(p, "OPEN", c, s, m)
                           /\ m = IF p = q /\ s = r THEN j + 1 ELSE j
      BY <1>3, <2>4
    <3>2. m = n
      BY <2>2, <3>1
    <3> QED
      BY <2>1, <3>1, <3>2
  <2> QED
    BY <1>5, <2>2, <2>3, <2>4
<1>7. ReadsNew(p)'
  <2>1. CASE p = q /\ h.type = "OPEN" /\ reader'[p].chan = h.chan
    <3>1. ~Allocated(p, h.chan)
      BY <1>0, <1>2, <2>1 DEF Wire, OffersNew
    <3> QED
      BY <1>2, <2>1, <3>1 DEF ReadsNew
  <2>2. CASE reader'[p] = reader[p]
    BY <1>0, <2>2, AskedFor DEF Wire, ReadsNew
  <2> QED
    BY <2>1, <2>2
<1>8. AllArrive(p)'
  <2> SUFFICES ASSUME RoomForAll, NEW c \in Chan, c[1] # p, Asked(c)
               PROVE  Arrives(p, c)'
    BY DEF AllArrive
  <2>1. CASE p = q /\ h.type = "OPEN" /\ c = h.chan
    BY <2>1 DEF Arrives, Reading
  <2>2. CASE ~(p = q /\ h.type = "OPEN" /\ c = h.chan)
    <3>1. Reading(p, c) => Reading(p, c)'
      BY DEF Reading
    <3>2. Arrives(p, c)
      BY <1>0 DEF Wire, AllArrive
    <3> QED
      BY <1>4, <2>2, <3>1, <3>2 DEF Arrives
  <2> QED
    BY <2>1, <2>2
<1>9. DataAfter(p)'
  <2> SUFFICES ASSUME NEW c \in Chan, NEW s \in Stream, NEW k \in Nat, At(p, "DATA", c, s, k)'
               PROVE  /\ Asked(c)' /\ chan'[c[1]][c].sid = s
                      /\ \A j \in Nat : At(p, "OPEN", c, s, j)' => j < k
    BY DEF DataAfter
  <2>1. PICK n \in Nat : /\ At(p, "DATA", c, s, n)
                         /\ n = IF p = q /\ s = r THEN k + 1 ELSE k
    BY <1>3
  <2>2. /\ Asked(c) /\ chan[c[1]][c].sid = s
        /\ \A j \in Nat : At(p, "OPEN", c, s, j) => j < n
    BY <1>0, <2>1 DEF Wire, DataAfter
  <2>3. ASSUME NEW j \in Nat, At(p, "OPEN", c, s, j)' PROVE j < k
    <3>1. PICK m \in Nat : /\ At(p, "OPEN", c, s, m)
                           /\ m = IF p = q /\ s = r THEN j + 1 ELSE j
      BY <1>3, <2>3
    <3>2. m < n
      BY <2>2, <3>1
    <3> QED
      BY <2>1, <3>1, <3>2
  <2> QED
    BY <2>2, <2>3
<1> QED
  BY <1>6, <1>7, <1>8, <1>9 DEF Wire

LoopInv == Tables /\ Wires

\* A channel is created.
LEMMA LoopScan ==
    ASSUME IndInv, LoopInv, NEW p \in Peer, CreateScan(p)
    PROVE  LoopInv'
<1>1. /\ UNCHANGED <<channels, chan, reader, net>> /\ creator[p].pc = "idle"
  BY DEF CreateScan
<1>2. PICK i \in Slot :
         creator' = [creator EXCEPT ![p] = CreatorAt("number", i, <<p, made[p] + 1>>)]
  BY DEF CreateScan
<1>3. /\ creator'[p].pc = "number" /\ creator'[p].chan = <<p, made[p] + 1>>
      /\ \A q \in Peer : q # p => creator'[q] = creator[q]
      /\ made[p] \in Nat
  BY <1>2, CreatorTypes DEF IndInv, TypeOK
<1>4. \A c \in Chan : Allocated(p, c) => c # <<p, made[p] + 1>>
  <2> SUFFICES ASSUME NEW c \in Chan, Allocated(p, c), c = <<p, made[p] + 1>> PROVE FALSE
    OBVIOUS
  <2>1. c[1] = p /\ c[2] = made[p] + 1
    OBVIOUS
  <2>2. c[2] <= made[p]
    BY <2>1 DEF IndInv, OwnNumbered
  <2> QED
    BY <1>3, <2>1, <2>2
<1>5. \A c \in Chan : Asked(c)' <=> Asked(c)
  BY <1>1, <1>3, <1>4, ChanFacts DEF Asked, Sent, Allocated, InCreation
<1>6. Wires'
  BY <1>1, <1>5, WiresKept DEF LoopInv, Allocated
<1>7. \A q \in Peer, c \in Chan, j \in Slot : Entry(q, c, j) => Entry(q, c, j)'
  BY <1>1, <1>3 DEF Entry
<1>8. \A j \in Slot : channels[p][j] # NoChan => channels[p][j] # <<p, made[p] + 1>>
  BY <1>4, FieldTypes DEF IndInv, TableAllocated
<1>9. Tables'
  BY <1>1, <1>3, <1>5, <1>7, <1>8 DEF LoopInv, Tables, Table
<1> QED
  BY <1>6, <1>9 DEF LoopInv

LEMMA LoopNumber ==
    ASSUME IndInv, LoopInv, NEW p \in Peer, CreateNumber(p)
    PROVE  LoopInv'
<1>1. PICK c0 \in Chan : c0 = creator[p].chan
  BY FieldTypes DEF IndInv, CreateNumber
<1>2. /\ UNCHANGED <<channels, reader, net>> /\ creator[p].pc = "number"
      /\ creator' = [creator EXCEPT ![p] = CreatorAt("send", @.slot, @.chan)]
      /\ chan' = [chan EXCEPT ![p][c0] =
                      [sid |-> stream_cursor[p], state |-> "CONNECTING"]]
  BY <1>1 DEF CreateNumber
<1>3. /\ creator'[p].pc = "send" /\ creator'[p].slot = creator[p].slot
      /\ creator'[p].chan = c0
      /\ \A q \in Peer : q # p => creator'[q] = creator[q]
  BY <1>1, <1>2, CreatorTypes DEF IndInv, TypeOK
<1>4. /\ c0[1] = p
      /\ \A q \in Peer, c \in Chan : q # p \/ c # c0 => chan'[q][c] = chan[q][c]
  BY <1>1, <1>2, ChanFacts DEF IndInv, TypeOK
<1>5. /\ \A c \in Chan : Asked(c)' <=> Asked(c)
      /\ ~Asked(c0)
  BY <1>1, <1>2, <1>3, <1>4, ChanFacts DEF Asked, Sent, Allocated, InCreation
<1>6. Wires'
  <2>1. \A q \in Peer, c \in Chan : c[1] # q => (Allocated(q, c)' <=> Allocated(q, c))
    BY <1>4 DEF Allocated
  <2>2. \A c \in Chan : Asked(c) => chan'[c[1]][c].sid = chan[c[1]][c].sid
    BY <1>4, <1>5, ChanFacts
  <2> QED
    BY <1>2, <1>5, <2>1, <2>2, WiresKept DEF LoopInv
<1>7. \A q \in Peer, c \in Chan, j \in Slot : Entry(q, c, j) => Entry(q, c, j)'
  BY <1>2, <1>3 DEF Entry
<1>8. Tables'
  BY <1>1, <1>2, <1>3, <1>5, <1>7 DEF LoopInv, Tables, Table
<1> QED
  BY <1>6, <1>8 DEF LoopInv

LEMMA LoopStore ==
    ASSUME IndInv, SlotsFree, LoopInv, NEW p \in Peer, CreateStore(p)
    PROVE  LoopInv'
<1> DEFINE i0 == creator[p].slot
<1>1. /\ UNCHANGED <<chan, reader, net>> /\ creator[p].pc = "store"
      /\ creator' = [creator EXCEPT ![p] = NotCreating]
      /\ channels' = [channels EXCEPT ![p][i0] = creator[p].chan]
  BY DEF CreateStore
<1>2. /\ creator'[p].pc = "idle"
      /\ \A q \in Peer : q # p => creator'[q] = creator[q]
  BY <1>1, CreatorTypes DEF IndInv, TypeOK
<1>3. /\ channels'[p][i0] = creator[p].chan
      /\ \A q \in Peer, i \in Slot : q # p \/ i # i0 => channels'[q][i] = channels[q][i]
      /\ channels[p][i0] = NoChan
  BY <1>1, FieldTypes DEF IndInv, TypeOK, SlotsFree
<1>4. \A c \in Chan : Asked(c)' <=> Asked(c)
  BY <1>1, <1>2, ChanFacts DEF Asked, Sent, Allocated, InCreation
<1>5. \A q \in Peer, i \in Slot : \A c \in Chan : channels[q][i] = c => channels'[q][i] = c
  BY <1>3, NoChanIsNone
<1>6. Wires'
  BY <1>1, <1>4, <1>5, WiresKept DEF LoopInv, Allocated
<1>7. \A q \in Peer, c \in Chan, j \in Slot : Entry(q, c, j) => Entry(q, c, j)'
  BY <1>1, <1>2, <1>3, <1>5 DEF Entry
<1>8. ASSUME NEW q \in Peer PROVE Table(q)'
  <2>1. Table(q)
    BY DEF LoopInv, Tables
  <2>2. ASSUME NEW i \in Slot, NEW j \in Slot,
               channels'[q][i] # NoChan, channels'[q][i] = channels'[q][j]
        PROVE  i = j
    <3>1. CASE q # p
      BY <1>3, <2>1, <2>2, <3>1 DEF Table
    <3>2. CASE q = p
      <4>1. \A k \in Slot : channels[p][k] # NoChan => channels[p][k] # creator[p].chan
        BY <1>1, <2>1, <3>2 DEF Table
      <4> QED
        BY <1>3, <2>1, <2>2, <3>2, <4>1 DEF Table
    <3> QED
      BY <3>1, <3>2
  <2>3. \A c \in Chan : c[1] = q /\ Asked(c)' => \E i \in Slot : Entry(q, c, i)'
    BY <1>4, <1>7, <2>1 DEF Table
  <2>4. creator'[q].pc # "idle" => \A i \in Slot :
           channels'[q][i] # NoChan => channels'[q][i] # creator'[q].chan
    BY <1>2, <1>3, <2>1 DEF Table
  <2> QED
    BY <2>2, <2>3, <2>4 DEF Table
<1> QED
  BY <1>6, <1>8 DEF LoopInv, Tables

LEMMA LoopSend ==
    ASSUME IndInv, LoopInv, NEW p \in Peer, CreateSend(p)
    PROVE  LoopInv'
<1>1. UNCHANGED <<channels, made, reader>> /\ creator[p].pc = "send"
  BY DEF CreateSend
<1>0. PICK c0 \in Chan, i0 \in Slot, s0 \in Nat :
         c0 = creator[p].chan /\ i0 = creator[p].slot /\ s0 = chan[p][c0].sid
  BY <1>1, FieldTypes DEF IndInv
<1>2. PICK o \in Peer : o = Other(p) /\ o # p
  BY PeerFacts
<1>3. /\ creator \in [Peer -> CreatorState] /\ chan \in [Peer -> [Chan -> Object]]
      /\ net \in [Peer -> [Stream -> Seq(Message)]]
  BY DEF IndInv, TypeOK
<1>4. c0[1] = p /\ InCreation(p, c0) /\ Allocated(p, c0) /\ ~Asked(c0)
  <2>1. c0 = <<p, made[p]>>
    BY <1>0, <1>1 DEF IndInv, TypeOK
  <2>2. chan[p][c0].state = "CONNECTING"
    BY <1>0, <1>1 DEF IndInv, TableAllocated
  <2>3. c0[1] = p
    BY <2>1
  <2>4. InCreation(p, c0) /\ Allocated(p, c0)
    BY <1>0, <1>1, <2>2 DEF InCreation, Allocated
  <2> QED
    BY <2>3, <2>4 DEF Asked, Sent
<1>5. \/ /\ SendOk(p, s0, Msg("OPEN", c0))
         /\ creator' = [creator EXCEPT ![p] = CreatorAt("store", @.slot, c0)]
         /\ UNCHANGED chan
      \/ /\ SendError(p, s0)
         /\ creator' = [creator EXCEPT ![p] = CreatorAt("store", @.slot, NoChan)]
         /\ chan' = [chan EXCEPT ![p][c0] = Freed]
  BY <1>0 DEF CreateSend
<1>6. /\ creator'[p].pc = "store" /\ creator'[p].slot = i0
      /\ \A q \in Peer : q # p => creator'[q] = creator[q]
  BY <1>0, <1>3, <1>5, CreatorTypes
<1>7. \A q \in Peer, c \in Chan, i \in Slot : Entry(q, c, i) => Entry(q, c, i)'
  BY <1>1, <1>6 DEF Entry
<1>8. CASE /\ SendOk(p, s0, Msg("OPEN", c0))
           /\ creator' = [creator EXCEPT ![p] = CreatorAt("store", @.slot, c0)]
           /\ UNCHANGED chan
  <2>1. stage[p] = "up"
    BY <1>1, FieldTypes DEF IndInv, TypeOK, CursorsRight, CreateSend, Running
  <2>2. s0 \in Stream /\ net' = [net EXCEPT ![o][s0] = Append(@, Msg("OPEN", c0))]
    BY <1>2, <1>8, <2>1 DEF SendOk, handshake_done
  <2>3. creator'[p].chan = c0
    BY <1>3, <1>8, CreatorTypes
  <2>4. \A c \in Chan : Asked(c)' <=> Asked(c) \/ c = c0
    BY <1>0, <1>1, <1>4, <1>6, <1>8, ChanFacts DEF Asked, Sent, Allocated, InCreation
  <2>5. Tables'
    <3>1. Entry(p, c0, i0)'
      BY <1>6, <2>3 DEF Entry
    <3>2. \A c \in Chan : Asked(c)' => \E i \in Slot : Entry(c[1], c, i)'
      BY <1>4, <1>7, <2>4, <3>1, ChanFacts DEF LoopInv, Tables, Table
    <3>3. creator'[p].chan = creator[p].chan
      BY <1>0, <2>3
    <3> QED
      BY <1>1, <1>6, <3>2, <3>3 DEF LoopInv, Tables, Table
  <2>6. PICK m \in Message : m = Msg("OPEN", c0) /\ m.type = "OPEN" /\ m.chan = c0
    BY MsgTypes
  <2>7. PICK n0 \in Nat : n0 = Len(net[o][s0]) + 1
    BY <1>3, <2>2
  <2>8. \A q \in Peer, s \in Stream : \A t, c, k :
           At(q, t, c, s, k)' <=>
               \/ At(q, t, c, s, k)
               \/ q = o /\ s = s0 /\ k = n0 /\ m.type = t /\ m.chan = c
    <3>1. TypeOK
      BY DEF IndInv
    <3>2. /\ net'[o][s0] = Append(net[o][s0], m) /\ s0 \in Stream
          /\ \A q \in Peer, s \in Stream : q # o \/ s # s0 => net'[q][s] = net[q][s]
      BY <1>3, <2>2, <2>6
    <3>3. /\ \A q \in Peer, s \in Stream : \A t, c, k :
                At(q, t, c, s, k)' <=>
                    \/ At(q, t, c, s, k)
                    \/ /\ q = o /\ s = s0 /\ k = Len(net[o][s0]) + 1
                       /\ m.type = t /\ m.chan = c
          /\ \A t, c, k : At(o, t, c, s0, k) => k <= Len(net[o][s0])
      BY <3>1, <3>2, AppendAt, Zenon
    <3> QED
      BY <2>7, <3>3
  <2>9. \A q \in Peer, s \in Stream : \A c, k :
            At(q, "DATA", c, s, k)' <=> At(q, "DATA", c, s, k)
    BY <2>6, <2>8
  <2>10. \A q \in Peer, s \in Stream : \A c, k :
            At(q, "OPEN", c, s, k)' <=>
                At(q, "OPEN", c, s, k) \/ (q = o /\ s = s0 /\ k = n0 /\ c = c0)
    BY <2>6, <2>8
  <2>11. /\ ~Allocated(o, c0) /\ ~Reading(o, c0)
         /\ \A s \in Stream : \A k : ~At(o, "OPEN", c0, s, k)
    BY <1>2, <1>4, AskedFor DEF Reading
  <2>12. ASSUME NEW q \in Peer PROVE Wire(q)'
    <3>0. Wire(q)
      BY DEF LoopInv, Wires
    <3>1. \A c : (Reading(q, c)' <=> Reading(q, c)) /\ (Allocated(q, c)' <=> Allocated(q, c))
      BY <1>1, <1>8 DEF Reading, Allocated
    <3>2. OffersNew(q)'
      BY <2>10, <2>11, <3>0, <3>1 DEF Wire, OffersNew
    <3>3. ReadsNew(q)'
      BY <1>1, <3>0, <3>1 DEF Wire, ReadsNew
    <3>4. AllArrive(q)'
      <4> SUFFICES ASSUME RoomForAll, NEW c \in Chan, c[1] # q, Asked(c)'
                   PROVE  Arrives(q, c)'
        BY DEF AllArrive
      <4>1. CASE c = c0
        <5>1. q = o
          BY <1>2, <1>4, <4>1, PeerFacts
        <5>2. At(q, "OPEN", c, s0, n0)'
          BY <2>2, <2>10, <4>1, <5>1
        <5> QED
          BY <2>2, <5>2 DEF Arrives
      <4>2. CASE c # c0
        <5>1. Arrives(q, c)
          BY <2>4, <3>0, <4>2 DEF Wire, AllArrive
        <5> QED
          BY <1>1, <2>10, <3>1, <5>1 DEF Arrives
      <4> QED
        BY <4>1, <4>2
    <3>5. DataAfter(q)'
      <4> SUFFICES ASSUME NEW c \in Chan, NEW s \in Stream, NEW k \in Nat, At(q, "DATA", c, s, k)
                   PROVE  /\ Asked(c)' /\ chan'[c[1]][c].sid = s
                          /\ \A j \in Nat : At(q, "OPEN", c, s, j)' => j < k
        BY <2>9 DEF DataAfter
      <4>1. /\ Asked(c) /\ chan[c[1]][c].sid = s
            /\ \A j \in Nat : At(q, "OPEN", c, s, j) => j < k
        BY <3>0 DEF Wire, DataAfter
      <4>2. c # c0
        BY <1>4, <4>1
      <4> QED
        BY <1>8, <2>4, <2>10, <4>1, <4>2
    <3> QED
      BY <3>2, <3>3, <3>4, <3>5 DEF Wire
  <2> QED
    BY <2>5, <2>12 DEF LoopInv, Wires
<1>9. CASE /\ SendError(p, s0)
           /\ creator' = [creator EXCEPT ![p] = CreatorAt("store", @.slot, NoChan)]
           /\ chan' = [chan EXCEPT ![p][c0] = Freed]
  <2>1. /\ chan'[p][c0].state = "CLOSED"
        /\ \A q \in Peer, c \in Chan : q # p \/ c # c0 => chan'[q][c] = chan[q][c]
    BY <1>3, <1>9 DEF Freed
  <2>2. \A c \in Chan : Asked(c)' <=> Asked(c)
    BY <1>0, <1>1, <1>4, <1>6, <2>1, ChanFacts DEF Asked, Sent, Allocated, InCreation
  <2>3. Wires'
    <3>1. \A q \in Peer, c \in Chan : c[1] # q => (Allocated(q, c)' <=> Allocated(q, c))
      BY <1>4, <2>1 DEF Allocated
    <3>2. \A c \in Chan : Asked(c) => chan'[c[1]][c].sid = chan[c[1]][c].sid
      BY <1>4, <2>1, ChanFacts
    <3>3. UNCHANGED net
      BY <1>9 DEF SendError
    <3> QED
      BY <1>1, <2>2, <3>1, <3>2, <3>3, WiresKept DEF LoopInv
  <2>4. creator'[p].chan = NoChan
    BY <1>3, <1>9, CreatorTypes
  <2>5. Tables'
    BY <1>1, <1>6, <1>7, <2>2, <2>4 DEF LoopInv, Tables, Table
  <2> QED
    BY <2>3, <2>5 DEF LoopInv
<1> QED
  BY <1>5, <1>8, <1>9

LEMMA LoopMessage ==
    ASSUME IndInv, LoopInv, NEW p \in Peer, NEW c \in Chan, SendMessage(p, c)
    PROVE  LoopInv'
<1>1. /\ UNCHANGED <<channels, chan, creator, reader>>
      /\ Allocated(p, c) /\ ~InCreation(p, c)
  BY DEF SendMessage, Held, Allocated, InCreation
<1>2. Asked(c) /\ chan[c[1]][c].sid = chan[p][c].sid
  BY <1>1, AskedFor DEF Asked, Sent
<1>3. Tables'
  BY <1>1, TablesKept DEF LoopInv, Asked, Sent, Allocated, InCreation
<1>4. CASE UNCHANGED net
  BY <1>1, <1>3, <1>4, WiresKept DEF LoopInv, Asked, Sent, Allocated, InCreation
<1>5. ASSUME NEW q \in Peer, NEW s \in Stream, s = chan[p][c].sid,
             net' = [net EXCEPT ![q][s] = Append(@, Msg("DATA", c))]
      PROVE  LoopInv'
  <2>1. PICK m \in Message : m = Msg("DATA", c) /\ m.type = "DATA" /\ m.chan = c
    BY MsgTypes
  <2>2. Wires'
    BY <1>1, <1>2, <1>5, <2>1, WiresSend DEF LoopInv
  <2> QED
    BY <1>3, <2>2 DEF LoopInv
<1> QED
  BY <1>4, <1>5, PeerFacts DEF SendMessage, SendOk, SendError

LEMMA LoopAck ==
    ASSUME IndInv, LoopInv, NEW p \in Peer, OpenRequestAck(p)
    PROVE  LoopInv'
<1> DEFINE c == reader[p].chan
<1>1. /\ UNCHANGED <<channels, chan, creator>> /\ reader[p].pc = "ack"
      /\ reader' = [reader EXCEPT ![p] = NotReading]
  BY DEF OpenRequestAck
<1>2. /\ reader'[p].pc = "idle" /\ \A q \in Peer : q # p => reader'[q] = reader[q]
      /\ c \in Chan /\ reader[p].sid \in Stream
  BY <1>1, FieldTypes, ReaderTypes DEF IndInv, TypeOK
<1>3. \A q \in Peer : reader'[q] = reader[q] \/
          (reader[q].pc # "store" /\ reader'[q].pc # "store")
  BY <1>1, <1>2
<1>4. Tables'
  BY <1>1, TablesKept DEF LoopInv, Asked, Sent, Allocated, InCreation
<1>5. CASE UNCHANGED net
  <2>1. \A q, t, d, s, k : At(q, t, d, s, k)' <=> At(q, t, d, s, k)
    BY <1>5 DEF At
  <2>2. \A q \in Peer : \A d : (Reading(q, d)' <=> Reading(q, d))
                              /\ (Allocated(q, d)' <=> Allocated(q, d))
    BY <1>1, <1>3 DEF Reading, Allocated
  <2>3. \A d : Asked(d)' <=> Asked(d)
    BY <1>1 DEF Asked, Sent, Allocated, InCreation
  <2>4. ASSUME NEW q \in Peer PROVE Wire(q)'
    <3>1. Wire(q)
      BY DEF LoopInv, Wires
    <3>2. OffersNew(q)' /\ ReadsNew(q)'
      BY <1>3, <2>1, <2>2, <3>1 DEF Wire, OffersNew, ReadsNew
    <3>3. AllArrive(q)'
      BY <1>1, <2>1, <2>2, <2>3, <3>1 DEF Wire, AllArrive, Arrives
    <3>4. DataAfter(q)'
      BY <1>1, <2>1, <2>3, <3>1 DEF Wire, DataAfter
    <3> QED
      BY <3>2, <3>3, <3>4 DEF Wire
  <2> QED
    BY <1>4, <2>4 DEF LoopInv, Wires
<1>6. ASSUME NEW q \in Peer, NEW s \in Stream,
             net' = [net EXCEPT ![q][s] = Append(@, Msg("ACK", c))]
      PROVE  LoopInv'
  <2>1. PICK m \in Message : m = Msg("ACK", c) /\ m.type = "ACK"
    BY <1>2, MsgTypes
  <2>2. Wires'
    BY <1>1, <1>3, <1>6, <2>1, WiresSend DEF LoopInv
  <2> QED
    BY <1>4, <2>2 DEF LoopInv
<1> QED
  BY <1>5, <1>6, PeerFacts DEF OpenRequestAck, SendOk, SendError

\* An offer is taken: there is a free entry for it.
LEMMA LoopOffer ==
    ASSUME IndInv, LoopInv, NEW p \in Peer, NEW s \in Stream,
           HandleOpenRequest(p, s)
    PROVE  LoopInv'
<1>1. /\ UNCHANGED <<channels, chan, creator>>
      /\ net[p][s] # <<>> /\ Head(net[p][s]).type = "OPEN"
      /\ net' = [net EXCEPT ![p][s] = Tail(@)]
      /\ reader[p].pc = "idle"
  BY DEF HandleOpenRequest, Receive, LoopFree
<1>2. PICK h \in Message : h = Head(net[p][s]) /\ h.chan \in Chan
  <2>1. 1 \in DOMAIN net[p][s] /\ net[p][s][1] = Head(net[p][s])
    BY <1>1 DEF IndInv, TypeOK
  <2> QED
    BY <2>1, MessageTypes DEF IndInv
<1>3. At(p, "OPEN", h.chan, s, 1)
  <2>1. net[p][s] \in Seq(Message)
    BY DEF IndInv, TypeOK
  <2> QED
    BY <1>1, <1>2, <2>1 DEF At
<1>4. \A i \in Slot : channels[p][i] # h.chan
  <2>1. ~Allocated(p, h.chan)
    BY <1>2, <1>3 DEF LoopInv, Wires, Wire, OffersNew
  <2> QED
    BY <1>2, <2>1, NoChanIsNone DEF IndInv, TableAllocated
<1>5. RoomForAll => FreeSlots(p) # {}
  BY <1>2, <1>4, RoomForOffer DEF LoopInv
<1>6. \/ \E i \in Slot : reader' = [reader EXCEPT ![p] = ReaderAt("store", i, h.chan, s)]
      \/ ~RoomForAll /\ UNCHANGED reader
  BY <1>2, <1>5 DEF HandleOpenRequest
<1>7. /\ \/ reader'[p].pc = "store" /\ reader'[p].chan = h.chan
         \/ ~RoomForAll /\ reader'[p] = reader[p]
      /\ \A q \in Peer : q # p => reader'[q] = reader[q]
  BY <1>6, ReaderTypes DEF IndInv, TypeOK
<1>8. Tables'
  BY <1>1, TablesKept DEF LoopInv, Asked, Sent, Allocated, InCreation
<1>9. /\ \A q \in Peer, c \in Chan : Allocated(q, c)' <=> Allocated(q, c)
      /\ \A c \in Chan : /\ Asked(c)' <=> Asked(c)
                         /\ chan'[c[1]][c].sid = chan[c[1]][c].sid
  BY <1>1 DEF Asked, Sent, Allocated, InCreation
<1>10. h.type = "OPEN"
  BY <1>1, <1>2
<1>11. Wires'
  BY <1>1, <1>2, <1>7, <1>9, <1>10, WiresTake DEF LoopInv
<1> QED
  BY <1>8, <1>11 DEF LoopInv

LEMMA LoopAccept ==
    ASSUME IndInv, SlotsFree, LoopInv, NEW p \in Peer, OpenRequestStore(p)
    PROVE  LoopInv'
<1>1. PICK c0 \in Chan, i0 \in Slot, s0 \in Stream :
         c0 = reader[p].chan /\ i0 = reader[p].slot /\ s0 = reader[p].sid
  BY AskedFor, FieldTypes DEF IndInv, OpenRequestStore
<1>2. /\ UNCHANGED <<creator, net>> /\ reader[p].pc = "store"
      /\ chan' = [chan EXCEPT ![p][c0] = Connected(s0)]
      /\ channels' = [channels EXCEPT ![p][i0] = c0]
      /\ reader' = [reader EXCEPT ![p] = ReaderAt("ack", @.slot, @.chan, @.sid)]
  BY <1>1 DEF OpenRequestStore
<1>3. /\ reader'[p].pc = "ack" /\ \A q \in Peer : q # p => reader'[q] = reader[q]
      /\ c0[1] # p /\ c0 # NoChan
  BY <1>1, <1>2, AskedFor, ReaderTypes, NoChanIsNone DEF IndInv, TypeOK
<1>4. /\ channels'[p][i0] = c0 /\ channels[p][i0] = NoChan /\ creator[p].pc = "idle"
      /\ \A q \in Peer, i \in Slot : q # p \/ i # i0 => channels'[q][i] = channels[q][i]
      /\ \A q \in Peer, c \in Chan : q # p \/ c # c0 => chan'[q][c] = chan[q][c]
  BY <1>1, <1>2 DEF IndInv, TypeOK, SlotsFree
<1>5. /\ ~Allocated(p, c0) /\ Reading(p, c0)
      /\ \A i \in Slot : channels[p][i] # c0
  <2>1. ~Allocated(p, c0)
    BY <1>1, <1>2 DEF LoopInv, Wires, Wire, ReadsNew
  <2> QED
    BY <1>1, <1>2, <1>3, <2>1 DEF IndInv, TableAllocated, Reading
<1>6. \A c \in Chan : /\ Asked(c)' <=> Asked(c)
                      /\ chan'[c[1]][c] = chan[c[1]][c]
  BY <1>2, <1>3, <1>4, ChanFacts DEF Asked, Sent, Allocated, InCreation
<1>7. \A q \in Peer, i \in Slot : channels[q][i] # NoChan => channels'[q][i] = channels[q][i]
  BY <1>4
<1>8. ASSUME NEW q \in Peer PROVE Table(q)'
  <2>1. Table(q)
    BY DEF LoopInv, Tables
  <2>2. ASSUME NEW i \in Slot, NEW j \in Slot,
               channels'[q][i] # NoChan, channels'[q][i] = channels'[q][j]
        PROVE  i = j
    BY <1>4, <1>5, <2>1, <2>2 DEF Table
  <2>3. \A c \in Chan, i \in Slot : Entry(q, c, i) => Entry(q, c, i)'
    BY <1>2, <1>7, NoChanIsNone DEF Entry
  <2>4. creator'[q].pc # "idle" => \A i \in Slot :
           channels'[q][i] # NoChan => channels'[q][i] # creator'[q].chan
    BY <1>2, <1>4, <2>1 DEF Table
  <2> QED
    BY <1>6, <2>1, <2>2, <2>3, <2>4 DEF Table
<1>9. ASSUME NEW q \in Peer PROVE Wire(q)'
  <2>0. Wire(q)
    BY DEF LoopInv, Wires
  <2>1. \A t, c, s, k : At(q, t, c, s, k)' <=> At(q, t, c, s, k)
    BY <1>2 DEF At
  <2>2. \A c \in Chan : q # p \/ c # c0 => (Allocated(q, c)' <=> Allocated(q, c))
    BY <1>4 DEF Allocated
  <2>3. \A c : Reading(q, c)' <=> Reading(q, c) /\ q # p
    BY <1>3 DEF Reading
  <2>4. OffersNew(q)'
    <3> SUFFICES ASSUME NEW c \in Chan, NEW s \in Stream, NEW k \in Nat, At(q, "OPEN", c, s, k)
                 PROVE  /\ ~Allocated(q, c)' /\ ~Reading(q, c)'
                        /\ \A j \in Nat : At(q, "OPEN", c, s, j) => j = k
      BY <2>1 DEF OffersNew
    <3>1. /\ ~Allocated(q, c) /\ ~Reading(q, c)
          /\ \A j \in Nat : At(q, "OPEN", c, s, j) => j = k
      BY <2>0 DEF Wire, OffersNew
    <3>2. q # p \/ c # c0
      BY <1>5, <3>1
    <3> QED
      BY <2>2, <2>3, <3>1, <3>2
  <2>5. ReadsNew(q)'
    <3>1. q # p /\ reader[q].pc = "store" => reader[q].chan \in Chan
      BY AskedFor
    <3> QED
      BY <1>3, <2>0, <2>2, <3>1 DEF Wire, ReadsNew
  <2>6. AllArrive(q)'
    <3> SUFFICES ASSUME RoomForAll, NEW c \in Chan, c[1] # q, Asked(c)
                 PROVE  Arrives(q, c)'
      BY <1>6 DEF AllArrive
    <3>1. Arrives(q, c)
      BY <2>0 DEF Wire, AllArrive
    <3>2. CASE q = p /\ c = c0
      BY <1>4, <3>2 DEF Arrives
    <3>3. CASE q # p \/ c # c0
      <4>1. Reading(q, c) => Reading(q, c)'
        BY <1>1, <2>3, <3>3 DEF Reading
      <4>2. \A i \in Slot : channels[q][i] = c => channels'[q][i] = c
        BY <1>7, NoChanIsNone
      <4> QED
        BY <2>1, <3>1, <4>1, <4>2 DEF Arrives
    <3> QED
      BY <3>2, <3>3
  <2>7. DataAfter(q)'
    BY <1>6, <2>0, <2>1 DEF Wire, DataAfter
  <2> QED
    BY <2>4, <2>5, <2>6, <2>7 DEF Wire
<1> QED
  BY <1>8, <1>9 DEF LoopInv, Tables, Wires

LEMMA LoopTake ==
    ASSUME IndInv, LoopInv, NEW p \in Peer, NEW s \in Stream,
           HandleOpenAck(p, s) \/ HandleData(p, s)
    PROVE  LoopInv'
<1>1. /\ UNCHANGED <<channels, creator, reader>>
      /\ net[p][s] # <<>> /\ Head(net[p][s]).type # "OPEN"
      /\ net' = [net EXCEPT ![p][s] = Tail(@)]
      /\ reader[p].pc = "idle"
  BY DEF HandleOpenAck, HandleData, Receive, LoopFree
<1>2. PICK h \in Message : h = Head(net[p][s])
  BY <1>1 DEF IndInv, TypeOK
<1>3. \A q \in Peer, c \in Chan : (Allocated(q, c)' <=> Allocated(q, c))
                                  /\ chan'[q][c].sid = chan[q][c].sid
  <2>1. CASE UNCHANGED chan
    BY <2>1 DEF Allocated
  <2>2. ASSUME NEW i \in SlotsOn(p, s),
               \/ chan' = [chan EXCEPT ![p][channels[p][i]] = Connected(@.sid)]
               \/ chan' = [chan EXCEPT ![p][channels[p][i]] =
                               IF @.state = "CLOSED" THEN Connected(@.sid) ELSE @]
        PROVE  \A q \in Peer, c \in Chan : (Allocated(q, c)' <=> Allocated(q, c))
                                  /\ chan'[q][c].sid = chan[q][c].sid
    <3> DEFINE d == channels[p][i]
    <3>1. d \in Chan /\ Allocated(p, d)
      BY <2>2, FieldTypes DEF SlotsOn, IndInv, TypeOK, TableAllocated
    <3>2. chan \in [Peer -> [Chan -> Object]]
      BY DEF IndInv, TypeOK
    <3>3. \A q \in Peer, c \in Chan : q # p \/ c # d => chan'[q][c] = chan[q][c]
      BY <2>2, <3>1, <3>2
    <3>4. chan'[p][d] = Connected(chan[p][d].sid) \/ chan'[p][d] = chan[p][d]
      BY <2>2, <3>1, <3>2
    <3>5. chan'[p][d].state # "CLOSED" /\ chan'[p][d].sid = chan[p][d].sid
      BY <3>1, <3>4 DEF Connected, Allocated
    <3> QED
      BY <3>1, <3>3, <3>5 DEF Allocated
  <2> QED
    BY <2>1, <2>2 DEF HandleOpenAck, HandleData, First
<1>4. \A c \in Chan : /\ Asked(c)' <=> Asked(c)
                      /\ chan'[c[1]][c].sid = chan[c[1]][c].sid
  BY <1>1, <1>3, ChanFacts DEF Asked, Sent, InCreation
<1>5. Tables'
  BY <1>1, <1>4, TablesKept DEF LoopInv
<1>6. h.type # "OPEN"
  BY <1>1, <1>2
<1>7. Wires'
  BY <1>1, <1>2, <1>3, <1>4, <1>6, WiresTake DEF LoopInv
<1> QED
  BY <1>5, <1>7 DEF LoopInv


LEMMA LoopInit == Init => LoopInv
<1> SUFFICES ASSUME Init PROVE LoopInv
  OBVIOUS
<1>1. /\ \A p \in Peer : creator[p].pc = "idle" /\ reader[p].pc = "idle"
      /\ \A p \in Peer, c \in Chan : ~Allocated(p, c)
      /\ \A p \in Peer, i \in Slot : channels[p][i] = NoChan
      /\ \A p \in Peer, s \in Stream : DOMAIN net[p][s] = {}
  BY CreatorTypes, ReaderTypes DEF Init, Allocated, Freed
<1>2. \A p \in Peer, s \in Stream : \A t, c, k : ~At(p, t, c, s, k)
  BY <1>1 DEF At
<1>3. \A c \in Chan : ~Asked(c)
  BY <1>1, ChanFacts DEF Asked, Sent
<1>4. Tables
  BY <1>1, <1>3 DEF Tables, Table
<1>5. Wires
  BY <1>1, <1>2, <1>3 DEF Wires, Wire, OffersNew, ReadsNew, AllArrive, DataAfter
<1> QED
  BY <1>4, <1>5 DEF LoopInv

LEMMA LoopStep ==
    ASSUME IndInv, SlotsFree, LoopInv, [Next]_vars
    PROVE  LoopInv'
<1>1. ASSUME UNCHANGED <<channels, chan, creator, reader, net>> PROVE LoopInv'
  <2>1. /\ \A c : Asked(c)' <=> Asked(c)
        /\ \A q, c : Allocated(q, c)' <=> Allocated(q, c)
    BY <1>1 DEF Asked, Sent, Allocated, InCreation
  <2>2. Tables'
    BY <1>1, <2>1, TablesKept DEF LoopInv
  <2>3. Wires'
    BY <1>1, <2>1, WiresKept DEF LoopInv
  <2> QED
    BY <2>2, <2>3 DEF LoopInv
<1>2. ASSUME NEW p \in Peer, Startup(p) \/ SctpFails(p) PROVE LoopInv'
  BY <1>1, <1>2 DEF Startup, StartSctp, Associate, SctpConnected, SwapSocket, SctpFails
<1>3. ASSUME NEW p \in Peer, CreateScan(p) \/ CreateStep(p) PROVE LoopInv'
  BY <1>3, LoopScan, LoopNumber, LoopSend, LoopStore DEF CreateStep
<1>4. ASSUME NEW p \in Peer, Deliver(p) PROVE LoopInv'
  BY <1>4, LoopOffer, LoopTake DEF Deliver
<1>5. ASSUME NEW p \in Peer, ReaderStep(p) PROVE LoopInv'
  BY <1>5, LoopAccept, LoopAck DEF ReaderStep
<1>6. ASSUME NEW p \in Peer, NEW c \in Chan, SendMessage(p, c) PROVE LoopInv'
  BY <1>6, LoopMessage
<1>7. CASE UNCHANGED vars
  BY <1>1, <1>7 DEF vars
<1> QED
  BY <1>2, <1>3, <1>4, <1>5, <1>6, <1>7 DEF Next

\* The scan by stream number stops at the entry of the channel.
LEMMA EntryFinds ==
    ASSUME IndInv, Tables, NEW p \in Peer, NEW s \in Stream, NEW c \in Chan,
           NEW i \in Slot, channels[p][i] = c, chan[c[1]][c].sid = s
    PROVE  Finds(p, s, c)
<1>1. c # NoChan /\ Allocated(p, c)
  BY NoChanIsNone DEF IndInv, TableAllocated
<1>2. chan[p][c].sid = s
  BY <1>1, AskedFor
<1>3. i \in SlotsOn(p, s)
  BY <1>1, <1>2 DEF SlotsOn
<1>4. ASSUME NEW j \in SlotsOn(p, s) PROVE i <= j
  <2> DEFINE d == channels[p][j]
  <2>1. j \in Slot /\ d \in Chan /\ chan[p][d].sid = s /\ Allocated(p, d)
    BY FieldTypes DEF SlotsOn, IndInv, TypeOK, TableAllocated
  <2>2. d = c
    BY <1>1, <1>2, <2>1, IndImplies DEF OneChannelPerStream
  <2>3. i = j
    BY <1>1, <2>1, <2>2 DEF Tables, Table
  <2> QED
    BY <2>1, <2>3, BoundsAreNat DEF Slot
<1> QED
  BY <1>3, <1>4 DEF Finds, First

\* The creator of c has it in its table when it takes something up.
LEMMA OwnFinds ==
    ASSUME InLoop, IndInv, Tables, NEW p \in Peer, NEW s \in Stream, NEW c \in Chan,
           LoopFree(p), c[1] = p, Asked(c), chan[p][c].sid = s
    PROVE  Finds(p, s, c)
<1>1. PICK i \in Slot : Entry(p, c, i)
  BY DEF Tables, Table
<1>2. channels[p][i] = c
  BY <1>1 DEF Entry, LoopFree
<1> QED
  BY <1>2, EntryFinds

\* The first message of a stream.
LEMMA FirstOf ==
    ASSUME TypeOK, NEW p \in Peer, NEW s \in Stream, NEW t, Arriving(p, s, t)
    PROVE  /\ Head(net[p][s]).chan \in Chan /\ 1 \in DOMAIN net[p][s]
           /\ net[p][s][1] = Head(net[p][s]) /\ net[p][s][1].type = t
           /\ At(p, t, Head(net[p][s]).chan, s, 1)
           /\ \A k \in DOMAIN net[p][s] : k >= 1
<1>1. net[p][s] \in Seq(Message) /\ net[p][s] # <<>> /\ Head(net[p][s]).type = t
  BY DEF Arriving, TypeOK
<1>2. /\ 1 \in DOMAIN net[p][s] /\ net[p][s][1] = Head(net[p][s])
      /\ \A k \in DOMAIN net[p][s] : k >= 1
  BY <1>1
<1> QED
  BY <1>1, <1>2, MessageTypes DEF At

LEMMA LoopFinds ==
    ASSUME InLoop, IndInv, LoopInv
    PROVE  /\ RoomForAll => DataFindsItsChannel /\ OfferFindsSlot
           /\ AckOpensChannel
<1>1. ASSUME RoomForAll, NEW p \in Peer, NEW s \in Stream, Arriving(p, s, "DATA")
      PROVE  Finds(p, s, Head(net[p][s]).chan)
  <2>1. PICK c \in Chan : c = Head(net[p][s]).chan
    BY <1>1, FirstOf DEF IndInv
  <2>2. At(p, "DATA", c, s, 1) /\ \A k \in DOMAIN net[p][s] : k >= 1
    BY <1>1, <2>1, FirstOf DEF IndInv
  <2>3. /\ Asked(c) /\ chan[c[1]][c].sid = s
        /\ \A j \in Nat : At(p, "OPEN", c, s, j) => j < 1
    BY <2>2 DEF LoopInv, Wires, Wire, DataAfter
  <2>4. LoopFree(p)
    BY <1>1 DEF Arriving
  <2>5. CASE c[1] = p
    BY <2>1, <2>3, <2>4, <2>5, OwnFinds DEF LoopInv
  <2>6. CASE c[1] # p
    <3>1. \A r \in Stream, k \in Nat : ~At(p, "OPEN", c, r, k)
      <4> SUFFICES ASSUME NEW r \in Stream, NEW k \in Nat, At(p, "OPEN", c, r, k)
                   PROVE  FALSE
        OBVIOUS
      <4>1. r = s
        BY <2>3, AskedFor
      <4> QED
        BY <2>2, <2>3, <4>1 DEF At
    <3>2. ~Reading(p, c)
      BY <2>4 DEF Reading, LoopFree
    <3>3. Arrives(p, c)
      BY <1>1, <2>3, <2>6 DEF LoopInv, Wires, Wire, AllArrive
    <3>4. PICK i \in Slot : channels[p][i] = c
      BY <3>1, <3>2, <3>3 DEF Arrives
    <3> QED
      BY <2>1, <2>3, <3>4, EntryFinds DEF LoopInv
  <2> QED
    BY <2>5, <2>6
<1>2. ASSUME NEW p \in Peer, NEW s \in Stream, Arriving(p, s, "ACK")
      PROVE  Finds(p, s, Head(net[p][s]).chan)
  <2>1. PICK c \in Chan : c = Head(net[p][s]).chan
    BY <1>2, FirstOf DEF IndInv
  <2>2. Told(Other(p), c, s)
    BY <1>2, <2>1, FirstOf DEF IndInv, MessagesTold
  <2>3. c[1] = p /\ Asked(c) /\ chan[p][c].sid = s
    BY <2>2, PeerFacts DEF Told, Asked, Sent
  <2>4. LoopFree(p)
    BY <1>2 DEF Arriving
  <2> QED
    BY <2>1, <2>3, <2>4, OwnFinds DEF LoopInv
<1>3. ASSUME RoomForAll, NEW p \in Peer, NEW s \in Stream, Arriving(p, s, "OPEN")
      PROVE  FreeSlots(p) # {}
  <2>1. PICK c \in Chan : c = Head(net[p][s]).chan
    BY <1>3, FirstOf DEF IndInv
  <2>2. At(p, "OPEN", c, s, 1)
    BY <1>3, <2>1, FirstOf DEF IndInv
  <2>3. ~Allocated(p, c)
    BY <2>2 DEF LoopInv, Wires, Wire, OffersNew
  <2>4. \A i \in Slot : channels[p][i] # c
    BY <2>3, NoChanIsNone DEF IndInv, TableAllocated
  <2> QED
    BY <1>3, <2>4, RoomForOffer DEF LoopInv
<1> QED
  BY <1>1, <1>2, <1>3 DEF DataFindsItsChannel, AckOpensChannel, OfferFindsSlot

LEMMA LoopInductive == LoopCreation => (Spec => [](IndInv /\ LoopInv))
<1> SUFFICES ASSUME InLoop, Timing # "any" PROVE Spec => [](IndInv /\ LoopInv)
  BY DEF LoopCreation
<1>1. IndInv /\ SlotsFree /\ [Next]_vars => SlotsFree'
  BY SlotsStep DEF IndInv
<1>2. IndInv /\ SlotsFree /\ LoopInv /\ [Next]_vars => LoopInv'
  BY LoopStep
<1> QED
  BY <1>1, <1>2, SlotsInit, LoopInit, Inductive, PTL DEF Spec

\* handle_rtcdc_data (dcep.c:90-105) looks a message's channel up by stream
\* alone.  Created in the main loop, whichever peer creates and whatever sends
\* fail, every channel is found: at its creator because no handler runs
\* between the OPEN message and the entry, at the other peer because the offer
\* has gone before on the same stream and the table had room for it.
THEOREM DataFindsItsChannelHolds ==
    LoopCreation /\ RoomForAll => (Spec => []DataFindsItsChannel)
<1> SUFFICES ASSUME LoopCreation, RoomForAll PROVE Spec => []DataFindsItsChannel
  OBVIOUS
<1>1. IndInv /\ LoopInv => DataFindsItsChannel
  BY LoopFinds DEF LoopCreation
<1> QED
  BY <1>1, LoopInductive, PTL

\* An ACK finds the channel it opens (handle_rtcdc_open_ack, dcep.c:74-87), so
\* on_open is called, whether or not the tables have room for all channels.
THEOREM AckOpensChannelHolds == LoopCreation => (Spec => []AckOpensChannel)
<1> SUFFICES ASSUME LoopCreation PROVE Spec => []AckOpensChannel
  OBVIOUS
<1>1. IndInv /\ LoopInv => AckOpensChannel
  BY LoopFinds DEF LoopCreation
<1> QED
  BY <1>1, LoopInductive, PTL

\* Created in the main loop by both peers, no channel's offer meets a full
\* table (dcep.c:44-52) if the tables have room for all.
THEOREM OfferFindsSlotInLoop ==
    LoopCreation /\ RoomForAll => (Spec => []OfferFindsSlot)
<1> SUFFICES ASSUME LoopCreation, RoomForAll PROVE Spec => []OfferFindsSlot
  OBVIOUS
<1>1. IndInv /\ LoopInv => OfferFindsSlot
  BY LoopFinds DEF LoopCreation
<1> QED
  BY <1>1, LoopInductive, PTL
=============================================================================
