---------------------------- MODULE DataChannels ----------------------------
(***************************************************************************)
(* The data-channel layer of librtcdc: rtcdc_create_data_channel and       *)
(* startup_thread (rtcdc.c), send_sctp_message (sctp.c) and the DCEP       *)
(* handlers (dcep.c), at two peers joined by one SCTP association.         *)
(*                                                                         *)
(* Three threads of a peer meet here and no lock protects what they share: *)
(*   - the startup thread brings the association up (variable stage);      *)
(*   - the creator, the thread that calls rtcdc_create_data_channel;       *)
(*   - the main loop, in which usrsctp hands over what was received.       *)
(* A channel is identified by <<creator, attempt>>, the model's counterpart*)
(* of its label.  The wire carries only the stream number: an ACK or DATA  *)
(* message is matched to a channel by stream alone, as in the code.        *)
(***************************************************************************)
EXTENDS Integers, Sequences

CONSTANTS
    Client, Server,   \* the two peers, by the role SDP negotiation gave them
    NoChan,           \* a NULL channel pointer
    MaxChannels,      \* RTCDC_MAX_CHANNEL_NUM, 128 in the code
    MaxOutStream,     \* RTCDC_MAX_OUT_STREAM, 256 in the code
    Creators,         \* the peers whose application creates channels
    InLoop,           \* TRUE: they create from a main-loop callback
    Timing,           \* when the application dares to create, see MayCreate
    DebugSctp,        \* TRUE: built with -DDEBUG_SCTP, as src/Makefile does
    SendMayFail,      \* TRUE: usrsctp_sendv may fail for reasons of its own
    MaxCreate,        \* bound: creations attempted by a peer
    MaxData           \* bound: data messages sent by a peer

Peer == {Client, Server}
Chan == Peer \X (1 .. MaxCreate)
Slot == 0 .. MaxChannels - 1
Stream == 0 .. MaxOutStream - 1

ASSUME PeersDiffer == Client # Server
ASSUME NoChanIsNone == NoChan \notin Chan
ASSUME BoundsAreNat ==
    /\ MaxChannels \in Nat \ {0}
    /\ MaxOutStream \in Nat \ {0}
    /\ MaxCreate \in Nat
    /\ MaxData \in Nat
ASSUME UseIsKnown ==
    /\ Creators \subseteq Peer
    /\ InLoop \in BOOLEAN
    /\ Timing \in {"any", "on_connect", "settled"}
    /\ DebugSctp \in BOOLEAN
    /\ SendMayFail \in BOOLEAN

VARIABLES
    stage,          \* progress of startup_thread, or "exited": exit(1) was called
    assoc,          \* the SCTP stack has the association and delivers (external)
    stream_cursor,  \* sctp->stream_cursor
    channels,       \* peer->channels
    chan,           \* the data_channel objects: the fields sid and state
    made,           \* creations attempted so far
    creator,        \* where the creator is in rtcdc_create_data_channel
    reader,         \* where the main loop is in handle_rtcdc_open_request
    net,            \* net[p][s]: what stream s still has to deliver to p
    sent            \* data messages sent so far

vars == <<stage, assoc, stream_cursor, channels, chan, made, creator, reader,
          net, sent>>

Other(p) == IF p = Client THEN Server ELSE Client
Parity(p) == IF p = Client THEN 0 ELSE 1
Message == [type : {"OPEN", "ACK", "DATA"}, chan : Chan]
Msg(t, c) == [type |-> t, chan |-> c]

Freed == [sid |-> 0, state |-> "CLOSED"]        \* not allocated, or freed
Connected(s) == [sid |-> s, state |-> "CONNECTED"]
CreatorAt(pc, i, c) == [pc |-> pc, slot |-> i, chan |-> c]
ReaderAt(pc, i, c, s) == [pc |-> pc, slot |-> i, chan |-> c, sid |-> s]
NotCreating == CreatorAt("idle", 0, NoChan)
NotReading == ReaderAt("idle", 0, NoChan, 0)

Running(p) == stage[p] # "exited"
handshake_done(p) == stage[p] \in {"flagged", "up"}

\* The scans of the table stop at the first NULL entry, or at the first
\* channel with the stream number they look for.
FreeSlots(p) == {i \in Slot : channels[p][i] = NoChan}
SlotsOn(p, s) == {i \in Slot : /\ channels[p][i] # NoChan
                               /\ chan[p][channels[p][i]].sid = s}
First(i, S) == i \in S /\ \A j \in S : i <= j

\* The main loop takes up a new message (or runs a callback that creates a
\* channel) only between two handlers.
LoopFree(p) == reader[p].pc = "idle" /\ (InLoop => creator[p].pc = "idle")

\* The channels whose pointer the application holds: what
\* rtcdc_create_data_channel returned and what on_channel was given.
Held(p) == {c \in Chan : /\ chan[p][c].state # "CLOSED"
                         /\ creator[p].chan # c}

-----------------------------------------------------------------------------
Init ==
    /\ stage = [p \in Peer |-> "waiting"]
    /\ assoc = [p \in Peer |-> FALSE]
    /\ stream_cursor = [p \in Peer |-> 0]
    /\ channels = [p \in Peer |-> [i \in Slot |-> NoChan]]
    /\ chan = [p \in Peer |-> [c \in Chan |-> Freed]]
    /\ made = [p \in Peer |-> 0]
    /\ creator = [p \in Peer |-> NotCreating]
    /\ reader = [p \in Peer |-> NotReading]
    /\ net = [p \in Peer |-> [s \in Stream |-> <<>>]]
    /\ sent = [p \in Peer |-> 0]

-----------------------------------------------------------------------------
(***************************************************************************)
(* startup_thread, from the moment DTLS is up.                             *)
(***************************************************************************)

\* Mutant: the cursor is left as it is.
StartSctp_NoParity(p) ==
    /\ stage[p] = "waiting"
    /\ stage' = [stage EXCEPT ![p] = "handshaking"]
    /\ UNCHANGED <<assoc, stream_cursor, channels, chan, made, creator, reader,
                   net, sent>>

\* The stream parity is chosen, then the thread blocks in usrsctp_connect
\* (client) or in usrsctp_listen and usrsctp_accept (server).
StartSctp(p) ==
    /\ stage[p] = "waiting"
    /\ stage' = [stage EXCEPT ![p] = "handshaking"]
    /\ stream_cursor' = [stream_cursor EXCEPT ![p] = Parity(p)]
    /\ UNCHANGED <<assoc, channels, chan, made, creator, reader, net, sent>>

\* External: the four-way handshake of the SCTP stack.  The server's end is
\* established first (COOKIE ECHO), the client's by the answer to it.
Associate(p) ==
    /\ ~assoc[p]
    /\ stage[p] = "handshaking"
    /\ IF p = Server THEN stage[Client] = "handshaking" ELSE assoc[Server]
    /\ assoc' = [assoc EXCEPT ![p] = TRUE]
    /\ UNCHANGED <<stage, stream_cursor, channels, chan, made, creator, reader,
                   net, sent>>

\* usrsctp_connect < 0, or usrsctp_accept returned NULL: the thread ends.
SctpFails(p) ==
    /\ stage[p] = "handshaking" /\ ~assoc[p]
    /\ stage' = [stage EXCEPT ![p] = "failed"]
    /\ UNCHANGED <<assoc, stream_cursor, channels, chan, made, creator, reader,
                   net, sent>>

\* handshake_done = TRUE.  The client has its socket already; the server
\* goes on to put the accepted socket in the place of the listening one.
SctpConnected(p) ==
    /\ stage[p] = "handshaking" /\ assoc[p]
    /\ stage' = [stage EXCEPT ![p] = IF p = Client THEN "up" ELSE "flagged"]
    /\ UNCHANGED <<assoc, stream_cursor, channels, chan, made, creator, reader,
                   net, sent>>

SwapSocket(p) ==
    /\ stage[p] = "flagged"
    /\ stage' = [stage EXCEPT ![p] = "up"]
    /\ UNCHANGED <<assoc, stream_cursor, channels, chan, made, creator, reader,
                   net, sent>>

-----------------------------------------------------------------------------
(***************************************************************************)
(* send_sctp_message.  It returns 0 both when usrsctp took the message and *)
(* when the SCTP handshake is not done (the message is then dropped: the   *)
(* queue that should defer it is commented out).  usrsctp_sendv fails on a *)
(* listening socket and on a stream the association does not have; in a    *)
(* DEBUG_SCTP build that ends the process.                                 *)
(***************************************************************************)
SendOk(p, s, m) ==
    /\ \/ ~handshake_done(p) /\ UNCHANGED net
       \/ /\ stage[p] = "up" /\ s \in Stream
          /\ net' = [net EXCEPT ![Other(p)][s] = Append(@, m)]
    /\ UNCHANGED stage

SendError(p, s) ==
    /\ handshake_done(p)
    /\ stage[p] = "flagged" \/ s \notin Stream \/ SendMayFail
    /\ stage' = IF DebugSctp THEN [stage EXCEPT ![p] = "exited"] ELSE stage
    /\ UNCHANGED net

-----------------------------------------------------------------------------
(***************************************************************************)
(* rtcdc_create_data_channel: four accesses to shared state, no lock.      *)
(***************************************************************************)

\* When the application creates: as soon as the transport exists ("any"),
\* from on_connect on (the README's example), or when both peers are up
\* (what the examples try to reach with sleep(5)).
MayCreate(p) ==
    CASE Timing = "any" -> TRUE
      [] Timing = "on_connect" -> stage[p] = "up"
      [] Timing = "settled" -> \A q \in Peer : stage[q] = "up"

\* The scan for a NULL entry.  With none the call returns NULL and changes
\* nothing.
CreateScan(p) ==
    /\ p \in Creators /\ Running(p) /\ MayCreate(p)
    /\ creator[p].pc = "idle" /\ made[p] < MaxCreate
    /\ InLoop => reader[p].pc = "idle"
    /\ \E i \in Slot :
          /\ First(i, FreeSlots(p))
          /\ creator' = [creator EXCEPT ![p] = CreatorAt("number", i, <<p, made[p] + 1>>)]
    /\ made' = [made EXCEPT ![p] = @ + 1]
    /\ UNCHANGED <<stage, assoc, stream_cursor, channels, chan, reader, net, sent>>

\* Mutant: the cursor stays.
CreateNumber_NoBump(p) ==
    /\ Running(p) /\ creator[p].pc = "number"
    /\ creator' = [creator EXCEPT ![p] = CreatorAt("send", @.slot, @.chan)]
    /\ chan' = [chan EXCEPT ![p][creator[p].chan] =
                    [sid |-> stream_cursor[p], state |-> "CONNECTING"]]
    /\ UNCHANGED <<stage, assoc, stream_cursor, channels, made, reader, net, sent>>

\* ch->sid = stream_cursor; stream_cursor += 2.
CreateNumber(p) ==
    /\ Running(p) /\ creator[p].pc = "number"
    /\ creator' = [creator EXCEPT ![p] = CreatorAt("send", @.slot, @.chan)]
    /\ chan' = [chan EXCEPT ![p][creator[p].chan] =
                    [sid |-> stream_cursor[p], state |-> "CONNECTING"]]
    /\ stream_cursor' = [stream_cursor EXCEPT ![p] = @ + 2]
    /\ UNCHANGED <<stage, assoc, channels, made, reader, net, sent>>

\* The OPEN message; when it cannot be sent the object is freed.
CreateSend(p) ==
    /\ Running(p) /\ creator[p].pc = "send"
    /\ LET c == creator[p].chan
           s == chan[p][c].sid
       IN  \/ /\ SendOk(p, s, Msg("OPEN", c))
              /\ creator' = [creator EXCEPT ![p] = CreatorAt("store", @.slot, c)]
              /\ UNCHANGED chan
           \/ /\ SendError(p, s)
              /\ creator' = [creator EXCEPT ![p] = CreatorAt("store", @.slot, NoChan)]
              /\ chan' = [chan EXCEPT ![p][c] = Freed]
    /\ UNCHANGED <<assoc, stream_cursor, channels, made, reader, sent>>

\* Mutant: the new channel never gets into the table.
CreateStore_Lost(p) ==
    /\ Running(p) /\ creator[p].pc = "store"
    /\ creator' = [creator EXCEPT ![p] = NotCreating]
    /\ UNCHANGED <<stage, assoc, stream_cursor, channels, chan, made, reader,
                   net, sent>>

\* peer->channels[i] = ch, whatever the slot holds by now; ch is NULL after
\* a failed send.
CreateStore(p) ==
    /\ Running(p) /\ creator[p].pc = "store"
    /\ channels' = [channels EXCEPT ![p][creator[p].slot] = creator[p].chan]
    /\ creator' = [creator EXCEPT ![p] = NotCreating]
    /\ UNCHANGED <<stage, assoc, stream_cursor, chan, made, reader, net, sent>>

\* rtcdc_send_message on a channel the application holds; it may be called
\* from any thread, and from on_channel.
SendMessage(p, c) ==
    /\ Running(p) /\ c \in Held(p) /\ sent[p] < MaxData
    /\ LET s == chan[p][c].sid IN SendOk(p, s, Msg("DATA", c)) \/ SendError(p, s)
    /\ sent' = [sent EXCEPT ![p] = @ + 1]
    /\ UNCHANGED <<assoc, stream_cursor, channels, chan, made, creator, reader>>

-----------------------------------------------------------------------------
(***************************************************************************)
(* The main loop: sctp_data_received_cb and handle_rtcdc_message.  SCTP    *)
(* delivers each stream in order and promises nothing between streams.     *)
(***************************************************************************)

\* The next message of stream s has type t, and the main loop takes it.
Receive(p, s, t) ==
    /\ Running(p) /\ assoc[p] /\ LoopFree(p)
    /\ net[p][s] # <<>> /\ Head(net[p][s]).type = t
    /\ net' = [net EXCEPT ![p][s] = Tail(@)]

\* Mutant: every request is ignored.
HandleOpenRequest_Ignore(p, s) ==
    /\ Receive(p, s, "OPEN")
    /\ UNCHANGED <<stage, assoc, stream_cursor, channels, chan, made, creator,
                   reader, sent>>

\* handle_rtcdc_open_request up to the scan; without a NULL entry the
\* request is ignored.
HandleOpenRequest(p, s) ==
    /\ Receive(p, s, "OPEN")
    /\ \/ \E i \in Slot :
             /\ First(i, FreeSlots(p))
             /\ reader' = [reader EXCEPT ![p] =
                    ReaderAt("store", i, Head(net[p][s]).chan, s)]
       \/ FreeSlots(p) = {} /\ UNCHANGED reader
    /\ UNCHANGED <<stage, assoc, stream_cursor, channels, chan, made, creator, sent>>

\* Mutants: the slot the scan found is not used; the stream is not recorded.
StoreAs(p, i, s) ==
    /\ Running(p) /\ reader[p].pc = "store"
    /\ chan' = [chan EXCEPT ![p][reader[p].chan] = Connected(s)]
    /\ channels' = [channels EXCEPT ![p][i] = reader[p].chan]
    /\ reader' = [reader EXCEPT ![p] = ReaderAt("ack", @.slot, @.chan, @.sid)]
    /\ UNCHANGED <<stage, assoc, stream_cursor, made, creator, net, sent>>
OpenRequestStore_Slot0(p) == StoreAs(p, 0, reader[p].sid)
OpenRequestStore_NoSid(p) == StoreAs(p, reader[p].slot, 0)

\* The rest of it: the new channel, CONNECTED at once, goes into the slot and
\* on_channel is called ...
OpenRequestStore(p) ==
    /\ Running(p) /\ reader[p].pc = "store"
    /\ chan' = [chan EXCEPT ![p][reader[p].chan] = Connected(reader[p].sid)]
    /\ channels' = [channels EXCEPT ![p][reader[p].slot] = reader[p].chan]
    /\ reader' = [reader EXCEPT ![p] = ReaderAt("ack", @.slot, @.chan, @.sid)]
    /\ UNCHANGED <<stage, assoc, stream_cursor, made, creator, net, sent>>

\* Mutants: the ACK goes out on stream 0, or not at all.
OpenRequestAck_Stream0(p) ==
    /\ Running(p) /\ reader[p].pc = "ack"
    /\ SendOk(p, 0, Msg("ACK", reader[p].chan)) \/ SendError(p, 0)
    /\ reader' = [reader EXCEPT ![p] = NotReading]
    /\ UNCHANGED <<assoc, stream_cursor, channels, chan, made, creator, sent>>
OpenRequestAck_None(p) ==
    /\ Running(p) /\ reader[p].pc = "ack"
    /\ reader' = [reader EXCEPT ![p] = NotReading]
    /\ UNCHANGED <<stage, assoc, stream_cursor, channels, chan, made, creator,
                   net, sent>>

\* ... and the ACK is sent; a failure is only logged.
OpenRequestAck(p) ==
    /\ Running(p) /\ reader[p].pc = "ack"
    /\ \/ SendOk(p, reader[p].sid, Msg("ACK", reader[p].chan))
       \/ SendError(p, reader[p].sid)
    /\ reader' = [reader EXCEPT ![p] = NotReading]
    /\ UNCHANGED <<assoc, stream_cursor, channels, chan, made, creator, sent>>

\* Mutant: the ACK of any stream opens the first channel of the table.
HandleOpenAck_AnyStream(p, s) ==
    /\ Receive(p, s, "ACK")
    /\ \/ \E i \in Slot :
             /\ First(i, {j \in Slot : channels[p][j] # NoChan})
             /\ chan' = [chan EXCEPT ![p][channels[p][i]] = Connected(@.sid)]
       \/ SlotsOn(p, s) = {} /\ UNCHANGED chan
    /\ UNCHANGED <<stage, assoc, stream_cursor, channels, made, creator, reader, sent>>

\* The first channel on the stream becomes CONNECTED and on_open is called;
\* with none on the stream the ACK has no effect.
HandleOpenAck(p, s) ==
    /\ Receive(p, s, "ACK")
    /\ \/ \E i \in Slot :
             /\ First(i, SlotsOn(p, s))
             /\ chan' = [chan EXCEPT ![p][channels[p][i]] = Connected(@.sid)]
       \/ SlotsOn(p, s) = {} /\ UNCHANGED chan
    /\ UNCHANGED <<stage, assoc, stream_cursor, channels, made, creator, reader, sent>>

\* on_message of the first channel on the stream, which is CONNECTED from now
\* on if it was CLOSED; with none on the stream the message is lost.
HandleData(p, s) ==
    /\ Receive(p, s, "DATA")
    /\ \/ \E i \in Slot :
             /\ First(i, SlotsOn(p, s))
             /\ chan' = [chan EXCEPT ![p][channels[p][i]] =
                             IF @.state = "CLOSED" THEN Connected(@.sid) ELSE @]
       \/ SlotsOn(p, s) = {} /\ UNCHANGED chan
    /\ UNCHANGED <<stage, assoc, stream_cursor, channels, made, creator, reader, sent>>

-----------------------------------------------------------------------------
Startup(p) == StartSctp(p) \/ Associate(p) \/ SctpConnected(p) \/ SwapSocket(p)
CreateStep(p) == CreateNumber(p) \/ CreateSend(p) \/ CreateStore(p)
Deliver(p) == \E s \in Stream :
                 HandleOpenRequest(p, s) \/ HandleOpenAck(p, s) \/ HandleData(p, s)
ReaderStep(p) == OpenRequestStore(p) \/ OpenRequestAck(p)

Next == \E p \in Peer :
    \/ Startup(p) \/ SctpFails(p)
    \/ CreateScan(p) \/ CreateStep(p)
    \/ \E c \in Chan : SendMessage(p, c)
    \/ Deliver(p) \/ ReaderStep(p)

Spec == Init /\ [][Next]_vars

\* A thread that can run does run, and the network delivers.  Nothing makes
\* the application create a channel or send.
Fairness == \A p \in Peer :
    /\ WF_vars(Startup(p)) /\ WF_vars(CreateStep(p))
    /\ WF_vars(Deliver(p)) /\ WF_vars(ReaderStep(p))

FairSpec == Spec /\ Fairness

-----------------------------------------------------------------------------
(***************************************************************************)
(* Properties.                                                             *)
(***************************************************************************)

Stage == {"waiting", "handshaking", "flagged", "up", "failed", "exited"}
CreatorState == [pc : {"idle", "number", "send", "store"}, slot : Slot,
                 chan : Chan \cup {NoChan}]
ReaderState == [pc : {"idle", "store", "ack"}, slot : Slot,
                chan : Chan \cup {NoChan}, sid : Stream]
Object == [sid : Nat, state : {"CLOSED", "CONNECTING", "CONNECTED"}]

\* Every variable has its type, and only a peer's own creations are in the
\* hands of its creator (rtcdc.c, struct rtcdc_peer_connection).
TypeOK ==
    /\ stage \in [Peer -> Stage]
    /\ assoc \in [Peer -> BOOLEAN]
    /\ stream_cursor \in [Peer -> Nat]
    /\ channels \in [Peer -> [Slot -> Chan \cup {NoChan}]]
    /\ chan \in [Peer -> [Chan -> Object]]
    /\ made \in [Peer -> 0 .. MaxCreate]
    /\ creator \in [Peer -> CreatorState]
    /\ \A p \in Peer : creator[p].pc \in {"number", "send"} =>
                          creator[p].chan = <<p, made[p]>> /\ made[p] > 0
    /\ reader \in [Peer -> ReaderState]
    /\ \A p \in Peer : reader[p].pc # "idle" => reader[p].chan \in Chan
    /\ net \in [Peer -> [Stream -> Seq(Message)]]
    /\ sent \in [Peer -> 0 .. MaxData]

Allocated(p, c) == chan[p][c].state # "CLOSED"

\* A channel has an even stream if the client created it and an odd one if
\* the server did, at both ends: the two sides number their channels from
\* cursors they never compare (rtcdc.c:389 and 412).
SidParity == \A p \in Peer, c \in Chan :
    Allocated(p, c) => chan[p][c].sid % 2 = Parity(c[1])

\* A stream number means one channel, wherever it is used: no two channels,
\* at either end, have the same one, and the ends of a channel agree on it.
OneChannelPerStream == \A p, q \in Peer : \A c, d \in Chan :
    Allocated(p, c) /\ Allocated(q, d) => (c = d <=> chan[p][c].sid = chan[q][d].sid)

\* An ACK on its way to p speaks of a channel that p asked for on this very
\* stream and that the other peer has accepted: on_open is never called for
\* a channel the remote peer does not have.
AckIsTruthful == \A p \in Peer, s \in Stream : \A k \in DOMAIN net[p][s] :
    net[p][s][k].type = "ACK" =>
        LET c == net[p][s][k].chan
        IN  /\ c[1] = p /\ Allocated(p, c) /\ chan[p][c].sid = s
            /\ chan[Other(p)][c].state = "CONNECTED"

\* The message the main loop of p can take next from stream s.
Arriving(p, s, t) ==
    /\ Running(p) /\ assoc[p] /\ LoopFree(p)
    /\ net[p][s] # <<>> /\ Head(net[p][s]).type = t
Finds(p, s, c) == \E i \in Slot : First(i, SlotsOn(p, s)) /\ channels[p][i] = c

\* An ACK finds the channel it is for, so on_open is called.
AckOpensChannel == \A p \in Peer, s \in Stream :
    Arriving(p, s, "ACK") => Finds(p, s, Head(net[p][s]).chan)

\* A message finds the channel it was sent on, so it is given to the right
\* on_message.
DataFindsItsChannel == \A p \in Peer, s \in Stream :
    Arriving(p, s, "DATA") => Finds(p, s, Head(net[p][s]).chan)

\* The same for what the creating side sends to the accepting side.
DataFindsAcceptor == \A p \in Peer, s \in Stream :
    Arriving(p, s, "DATA") /\ Head(net[p][s]).chan[1] # p =>
        Finds(p, s, Head(net[p][s]).chan)

\* A request to open a channel finds a free entry, so on_channel is called.
OfferFindsSlot == \A p \in Peer, s \in Stream :
    Arriving(p, s, "OPEN") => FreeSlots(p) # {}

\* No send ends the process (sctp.c:385): what is sent has a connected socket
\* and a stream of the association (proved of the calls that are careful enough,
\* in DataChannelsProofs; no run can be large enough to come near the limit).
NoExit == \A p \in Peer : Running(p)

\* An entry of the table keeps its channel and a channel stays CONNECTED.
ChannelsStay == [][\A p \in Peer :
    /\ \A i \in Slot : channels[p][i] # NoChan => channels'[p][i] = channels[p][i]
    /\ \A c \in Chan : chan[p][c].state = "CONNECTED" =>
           chan'[p][c] = chan[p][c]]_vars

\* A channel that was created is accepted by the other peer: on_channel.
OnChannelCalled == \A p \in Peer : \A c \in Chan :
    c[1] = p /\ Allocated(p, c) ~> chan[Other(p)][c].state = "CONNECTED"

\* A channel the other peer has accepted is opened at its creator: on_open.
AcceptedIsOpened == \A p \in Peer : \A c \in Chan :
    c[1] = p /\ chan[Other(p)][c].state = "CONNECTED"
        ~> chan[p][c].state = "CONNECTED"

-----------------------------------------------------------------------------
(***************************************************************************)
(* The inductive invariant behind SidParity, OneChannelPerStream,          *)
(* AckIsTruthful and KeepsPromise, for Timing # "any".                     *)
(***************************************************************************)

\* p is between the scan and the sending of the OPEN message for c.
InCreation(p, c) == creator[p].pc \in {"number", "send"} /\ creator[p].chan = c

\* p was told, or is being told, of the channel c that the other peer created
\* with stream s.
Told(p, c, s) ==
    /\ c[1] = Other(p) /\ ~InCreation(Other(p), c)
    /\ Allocated(Other(p), c) /\ chan[Other(p)][c].sid = s

CursorsRight == \A p \in Peer :
    /\ made[p] > 0 => stage[p] \in {"up", "exited"}
    /\ stage[p] # "waiting" => stream_cursor[p] % 2 = Parity(p)

OwnNumbered == \A p \in Peer, c \in Chan :
    c[1] = p /\ Allocated(p, c) =>
        /\ c[2] <= made[p]
        /\ chan[p][c].sid % 2 = Parity(p)
        /\ chan[p][c].sid < stream_cursor[p]
        /\ creator[p].pc = "number" => creator[p].chan # c

OwnDistinct == \A p \in Peer : \A c, d \in Chan :
    /\ c[1] = p /\ Allocated(p, c)
    /\ d[1] = p /\ Allocated(p, d)
    /\ chan[p][c].sid = chan[p][d].sid
    => c = d

AcceptedTold == \A p \in Peer, c \in Chan :
    c[1] # p /\ Allocated(p, c) =>
        Told(p, c, chan[p][c].sid) /\ chan[p][c].state = "CONNECTED"

MessagesTold == \A p \in Peer, s \in Stream : \A k \in DOMAIN net[p][s] :
    LET m == net[p][s][k]
    IN  /\ m.type = "OPEN" => Told(p, m.chan, s)
        /\ m.type = "ACK" => /\ Told(Other(p), m.chan, s)
                             /\ chan[Other(p)][m.chan].state = "CONNECTED"

ReaderTold == \A p \in Peer :
    reader[p].pc # "idle" =>
        /\ Told(p, reader[p].chan, reader[p].sid)
        /\ reader[p].pc = "ack" => chan[p][reader[p].chan].state = "CONNECTED"

TableAllocated == \A p \in Peer :
    /\ \A i \in Slot : channels[p][i] # NoChan =>
           Allocated(p, channels[p][i]) /\ ~InCreation(p, channels[p][i])
    /\ creator[p].pc = "store" /\ creator[p].chan # NoChan =>
           Allocated(p, creator[p].chan)
    /\ creator[p].pc = "send" => chan[p][creator[p].chan].state = "CONNECTING"

\* Whoever knows a channel, a table, a message or the main loop, knows it with
\* the stream its creator gave it (dcep.c:32, rtcdc.c:290).
IndInv ==
    /\ TypeOK
    /\ CursorsRight /\ OwnNumbered /\ OwnDistinct
    /\ AcceptedTold /\ MessagesTold /\ ReaderTold /\ TableAllocated

-----------------------------------------------------------------------------
\* The opening of a channel as its two ends see it, and that it keeps the
\* promise: offered, accepted, open.
StatusOf(c) ==
    IF chan[c[1]][c].state = "CONNECTED" THEN "open"
    ELSE IF chan[Other(c[1])][c].state = "CONNECTED" THEN "accepted"
    ELSE IF chan[c[1]][c].state = "CONNECTING" THEN "offered"
    ELSE "none"
status == [c \in Chan |-> StatusOf(c)]
Promise == INSTANCE ChannelPromise WITH Chan <- Chan, status <- status
KeepsPromise == Promise!Spec
=============================================================================
