------------------------------ MODULE PacketPath ------------------------------
(***************************************************************************)
(* What PeerSetup takes in one step, and what comes after it: the DTLS     *)
(* handshake and the way of an SCTP packet, through the memory BIOs of     *)
(* sctp.c and ice.c and over a network that loses, repeats and reorders    *)
(* datagrams.                                                              *)
(*                                                                         *)
(*   sctp_data_ready_cb -> sctp->outgoing_bio -> sctp_to_dtls ->           *)
(*   SSL_write -> dtls->outgoing_bio -> dtls_to_ice or ice_thread ->       *)
(*   nice_agent_send ... data_received_cb -> dtls->incoming_bio ->         *)
(*   SSL_read -> usrsctp_conninput                                         *)
(*                                                                         *)
(* A memory BIO keeps bytes, not packets: BIO_read takes all there is.     *)
(* DTLS records keep their limits, the SCTP packets in them do not.        *)
(***************************************************************************)
EXTENDS PeerSetup, Integers, Sequences, SequencesExt

CONSTANT MaxPackets  \* bound: packets sent

ASSUME MaxPacketsIsNat == MaxPackets \in Nat

\* The packets of one direction are followed, from the peer that connects.
Sender == Offerer
Receiver == Answerer
Packet == 1 .. MaxPackets

\* A DTLS record: one flight of the handshake (1 to 4, taken as a unit), or
\* what one SSL_write got, as the sequence of SCTP packets in it.
Hello(f) == [flight |-> f, packets |-> <<>>]
Data(packets) == [flight |-> 0, packets |-> packets]

VARIABLES
    ssl,        \* the last flight the SSL object sent; 5: a client that is done
    outgoing,   \* dtls->outgoing_bio, the records in it
    incoming,   \* dtls->incoming_bio and the read buffer of SSL
    net,        \* the datagrams on their way to a peer
    seen,       \* data records that arrived, for the replay check of DTLS
    sctp_out,   \* sctp->outgoing_bio of the sender, the packets in it
    call,       \* where the call of sctp_data_ready_cb for a packet is, and
                \* what it has in buf
    arrived,    \* the packets usrsctp of the receiver got whole, in order
    lost,       \* history: packets lost in the network
    overlapped  \* history: packets whose calls overlapped another's

handshake == <<ssl, outgoing, incoming, net, seen>>
calls == <<sctp_out, call, overlapped>>
ends == <<arrived, lost>>
path == <<handshake, calls, ends>>
allvars == <<vars, path>>

At(pc, buf) == [pc |-> pc, buf |-> buf]

PathInit ==
    /\ Init
    /\ ssl = [p \in Peer |-> 0]
    /\ outgoing = [p \in Peer |-> <<>>]
    /\ incoming = [p \in Peer |-> <<>>]
    /\ net = [p \in Peer |-> {}]
    /\ seen = {}
    /\ sctp_out = <<>>
    /\ call = [i \in Packet |-> At("none", <<>>)]
    /\ arrived = <<>>
    /\ lost = {}
    /\ overlapped = {}

-----------------------------------------------------------------------------
(***************************************************************************)
(* OpenSSL (external).  A client sends flight 1; whoever gets the flight   *)
(* after its own last one sends the next.  The server is done when it      *)
(* sends flight 4, the client when it gets it.  There is no telling when   *)
(* a retransmission timer expires; a second copy of a flight in one BIO    *)
(* tells no more than the first.                                           *)
(***************************************************************************)
SSL_is_init_finished(p) == ssl[p] >= 4

Flights(records) == {r.flight : r \in Range(records)} \ {0}
DataIn(records) == {r \in Range(records) : r.flight = 0}

\* The records that are in a set, in their order.
Kept(records, set) ==
    LET kept[n \in 0 .. Len(records)] ==
            IF n = 0 THEN <<>>
            ELSE IF records[n] \in set THEN Append(kept[n - 1], records[n])
            ELSE kept[n - 1]
    IN  kept[Len(records)]

UnderWay(p) == Flights(outgoing[p]) \cup UNION {Flights(d) : d \in net[Other(p)]}

SslNext(role_set, s, heard) ==
    IF role_set = "CLIENT" /\ s = 0 THEN 1
    ELSE IF s + 1 \in heard THEN s + 2
    ELSE s

\* SSL_do_handshake with what is in the incoming BIO, once
\* SSL_set_connect_state or SSL_set_accept_state was called; before, it fails.
SSL_do_handshake(p, role_set, records) ==
    IF role_set = "UNKNOWN"
    THEN /\ incoming' = [incoming EXCEPT ![p] = records]
         /\ UNCHANGED <<ssl, outgoing>>
    ELSE LET next == SslNext(role_set, ssl[p], Flights(records)) IN
         /\ ssl' = [ssl EXCEPT ![p] = next]
         /\ incoming' = [incoming EXCEPT ![p] = Kept(records, DataIn(records))]
         /\ \/ /\ next # ssl[p] /\ next <= 4
               /\ outgoing' = [outgoing EXCEPT ![p] = Append(@, Hello(next))]
            \/ /\ next = ssl[p] /\ next \in 1 .. 3 /\ next \notin UnderWay(p)
               /\ outgoing' = [outgoing EXCEPT ![p] = Append(@, Hello(next))]
            \/ /\ next = ssl[p] \/ next > 4
               /\ UNCHANGED outgoing

\* SSL_read goes to the first data record and returns it, with what is whole
\* in the packet for usrsctp_conninput: packets that were run together fail
\* SCTP's checksum.  On its way a server that meets flight 3 again repeats
\* flight 4.
SSL_read(p, records) ==
    LET first == SelectInSeq(records, LAMBDA r : r.flight = 0)
        before == IF first = 0 THEN records ELSE SubSeq(records, 1, first - 1)
    IN  /\ incoming' = [incoming EXCEPT ![p] =
                IF first = 0 THEN <<>> ELSE SubSeq(records, first + 1, Len(records))]
        /\ outgoing' = [outgoing EXCEPT ![p] =
                IF ssl[p] = 4 /\ 3 \in Flights(before) /\ 4 \notin UnderWay(p)
                THEN Append(@, Hello(4)) ELSE @]
        /\ arrived' = IF first # 0 /\ Len(records[first].packets) = 1
                      THEN arrived \o records[first].packets ELSE arrived

-----------------------------------------------------------------------------
(***************************************************************************)
(* The handshake: startup_thread, ice_thread and the main loop.            *)
(***************************************************************************)
StartHandshake(p) ==
    /\ StartDtls(p)
    /\ SSL_do_handshake(p, role[p], incoming[p])
    /\ UNCHANGED <<net, seen, calls, ends>>

\* Mutant: ice_thread ends with the handshake, since the calls of
\* sctp_data_ready_cb send for themselves.
IcePump_UntilDone(p) ==
    /\ Sends(p) /\ outgoing[p] # <<>> /\ ~dtls_done[p]
    /\ net' = [net EXCEPT ![Other(p)] = @ \cup {outgoing[p]}]
    /\ outgoing' = [outgoing EXCEPT ![p] = <<>>]
    /\ UNCHANGED <<vars, ssl, incoming, seen, calls, ends>>

\* ice_thread sends all that is in the outgoing BIO as one datagram.
IcePump(p) ==
    /\ Sends(p) /\ outgoing[p] # <<>>
    /\ net' = [net EXCEPT ![Other(p)] = @ \cup {outgoing[p]}]
    /\ outgoing' = [outgoing EXCEPT ![p] = <<>>]
    /\ UNCHANGED <<vars, ssl, incoming, seen, calls, ends>>

\* ... and drives the handshake, whose timers nobody else looks after.
IceHandshake(p) ==
    /\ Sends(p) /\ ~dtls_done[p] /\ dtls_role[p] # "UNKNOWN"
    /\ UNCHANGED <<sdp, looping, ice, dtls_role, sctp>>
    /\ UNCHANGED <<net, seen, calls, ends>>
    /\ SSL_do_handshake(p, dtls_role[p], incoming[p])
    /\ dtls_done' = [dtls_done EXCEPT ![p] = SSL_is_init_finished(p)']

\* What of a datagram gets to SSL: no data record twice.
Fresh(p, d) == Kept(d, {r \in Range(d) :
    IF r.flight = 0 THEN r \notin seen ELSE r.flight \notin Flights(incoming[p])})
PacketsIn(records) == UNION {Range(r.packets) : r \in records}

\* Mutant: a datagram that finds the handshake finished sets handshake_done,
\* and the next one is the first to be read.
data_received_cb_Next(p, d) ==
    /\ looping[p] /\ negotiated[p]
    /\ net' = [net EXCEPT ![p] = @ \ {d}]
    /\ dtls_done' = [dtls_done EXCEPT ![p] = @ \/ SSL_is_init_finished(p)]
    /\ seen' = seen \cup DataIn(d)
    /\ \E records \in {incoming[p] \o Fresh(p, d)} :
       IF dtls_done[p] THEN SSL_read(p, records) /\ UNCHANGED ssl
       ELSE SSL_do_handshake(p, dtls_role[p], records) /\ UNCHANGED arrived
    /\ UNCHANGED <<sdp, looping, ice, dtls_role, sctp>>
    /\ UNCHANGED <<calls, lost>>

\* A datagram arrives; the network may have another copy of it.  It is dropped
\* until a pair is selected.  SSL_read is called once.
data_received_cb(p, d) ==
    /\ looping[p]
    /\ \/ net' = [net EXCEPT ![p] = @ \ {d}]
       \/ DataIn(d) # {} /\ UNCHANGED net
    /\ IF ~negotiated[p]
       THEN UNCHANGED <<vars, ssl, outgoing, incoming, seen, calls, ends>>
       ELSE \E records \in {incoming[p] \o Fresh(p, d)} :
            LET done == dtls_done[p] \/ SSL_is_init_finished(p)
            IN  /\ dtls_done' = [dtls_done EXCEPT ![p] = done]
                /\ seen' = seen \cup DataIn(d)
                /\ UNCHANGED <<sdp, looping, ice, dtls_role, sctp>>
                /\ UNCHANGED <<calls, lost>>
                /\ IF done THEN SSL_read(p, records) /\ UNCHANGED ssl
                   ELSE SSL_do_handshake(p, dtls_role[p], records) /\ UNCHANGED arrived

\* The network loses a datagram.
Lose(p, d) ==
    /\ net' = [net EXCEPT ![p] = @ \ {d}]
    /\ lost' = lost \cup PacketsIn(DataIn(d) \ seen)
    /\ UNCHANGED <<vars, ssl, outgoing, incoming, seen, calls, arrived>>

-----------------------------------------------------------------------------
(***************************************************************************)
(* sctp_data_ready_cb, which usrsctp calls for each packet in whichever    *)
(* thread it runs (main loop, startup thread, timer, application) once     *)
(* startup_thread has called usrsctp_connect.  A look at a BIO outside the *)
(* mutex and the BIO_read inside it are one step here: a read that comes   *)
(* too late gets -1.                                                       *)
(***************************************************************************)
HandedOver == {i \in Packet : call[i].pc # "none"}
Busy == {i \in Packet : call[i].pc \in {"sctp", "ssl", "dtls"}}

\* Mutant: whoever is at it already will send this packet too.
sctp_data_ready_cb_Shy(i) ==
    /\ sctp_role[Sender] = "CLIENT"
    /\ call[i].pc = "none" /\ 1 .. i - 1 \subseteq HandedOver
    /\ call' = [call EXCEPT ![i] = At(IF Busy = {} THEN "sctp" ELSE "over", <<>>)]
    /\ sctp_out' = Append(sctp_out, i)
    /\ overlapped' = IF Busy = {} THEN overlapped ELSE overlapped \cup Busy \cup {i}
    /\ UNCHANGED <<vars, handshake, ends>>

\* BIO_write.
sctp_data_ready_cb(i) ==
    /\ sctp_role[Sender] = "CLIENT"
    /\ call[i].pc = "none" /\ 1 .. i - 1 \subseteq HandedOver
    /\ call' = [call EXCEPT ![i] = At("sctp", <<>>)]
    /\ sctp_out' = Append(sctp_out, i)
    /\ overlapped' = IF Busy = {} THEN overlapped ELSE overlapped \cup Busy \cup {i}
    /\ UNCHANGED <<vars, handshake, ends>>

\* sctp_to_dtls: the waits, then BIO_read of all that is there.
TakePackets(i) ==
    /\ call[i].pc = "sctp" /\ negotiated[Sender] /\ dtls_done[Sender]
    /\ call' = [call EXCEPT ![i] = At(IF sctp_out = <<>> THEN "dtls" ELSE "ssl", sctp_out)]
    /\ sctp_out' = <<>>
    /\ UNCHANGED <<vars, handshake, overlapped, ends>>

\* Mutant: ice_thread will send the record.
Encrypt_Leave(i) ==
    /\ call[i].pc = "ssl"
    /\ outgoing' = [outgoing EXCEPT ![Sender] = Append(@, Data(call[i].buf))]
    /\ call' = [call EXCEPT ![i] = At("over", <<>>)]
    /\ UNCHANGED <<vars, ssl, incoming, net, seen, sctp_out, overlapped, ends>>

\* Mutant: SSL_write is called again after a success.
Encrypt_Twice(i) ==
    /\ call[i].pc = "ssl"
    /\ outgoing' = [outgoing EXCEPT ![Sender] =
                        @ \o <<Data(call[i].buf), Data(call[i].buf)>>]
    /\ call' = [call EXCEPT ![i] = At("dtls", <<>>)]
    /\ UNCHANGED <<vars, ssl, incoming, net, seen, sctp_out, overlapped, ends>>

\* ... SSL_write: one record.
Encrypt(i) ==
    /\ call[i].pc = "ssl"
    /\ outgoing' = [outgoing EXCEPT ![Sender] = Append(@, Data(call[i].buf))]
    /\ call' = [call EXCEPT ![i] = At("dtls", <<>>)]
    /\ UNCHANGED <<vars, ssl, incoming, net, seen, sctp_out, overlapped, ends>>

\* dtls_to_ice: the waits, then BIO_read of all that is there and
\* nice_agent_send: one datagram.
SendDatagram(i) ==
    /\ call[i].pc = "dtls" /\ Sends(Sender)
    /\ call' = [call EXCEPT ![i] = At("over", <<>>)]
    /\ IF outgoing[Sender] = <<>> THEN UNCHANGED net
       ELSE net' = [net EXCEPT ![Receiver] = @ \cup {outgoing[Sender]}]
    /\ outgoing' = [outgoing EXCEPT ![Sender] = <<>>]
    /\ UNCHANGED <<vars, ssl, incoming, seen, sctp_out, overlapped, ends>>

CallStep(i) == TakePackets(i) \/ Encrypt(i) \/ SendDatagram(i)

-----------------------------------------------------------------------------
\* The steps of PeerSetup that the path does not refine.
SetupStep(p) ==
    /\ \/ CreateFails(p) \/ GenerateCandidates(p) \/ GenerateOffer(p) \/ ParseOffer(p)
       \/ ParseCandidates(p) \/ Loop(p) \/ GatheringDone(p) \/ PairSelected(p)
       \/ StartSctp(p) \/ Connected(p) \/ ConnectFails(p)
    /\ UNCHANGED path

Network(p) == \E d \in net[p] : data_received_cb(p, d) \/ Lose(p, d)

PathNext ==
    \/ \E p \in Peer : SetupStep(p) \/ StartHandshake(p) \/ IcePump(p)
                       \/ IceHandshake(p) \/ Network(p)
    \/ \E i \in Packet : sctp_data_ready_cb(i) \/ CallStep(i)

PathSpec == PathInit /\ [][PathNext]_allvars

IceThread(p) == IcePump(p) \/ IceHandshake(p)
Settles(p) == \/ GatheringDone(p) /\ UNCHANGED path
              \/ PairSelected(p) /\ UNCHANGED path
              \/ (StartSctp(p) \/ Connected(p)) /\ NoneFailed /\ UNCHANGED path
              \/ StartHandshake(p) /\ NoneFailed
HeardOf(p) == \E d \in net[p] :
    negotiated[p] /\ Flights(d) # {} /\ data_received_cb(p, d)
Travels(i) == \E d \in net[Receiver] :
    i \in PacketsIn(DataIn(d)) /\ (data_received_cb(Receiver, d) \/ Lose(Receiver, d))

\* The threads run, libnice gets on, timers expire, what is sent arrives or is
\* lost, and a flight that is sent again and again gets through in the end.
PathFairness ==
    /\ \A p \in Peer : WF_allvars(Settles(p)) /\ WF_allvars(IceThread(p))
    /\ \A p \in Peer : SF_allvars(HeardOf(p))
    /\ WF_allvars(\E i \in Packet : CallStep(i))
    /\ \A i \in Packet : WF_allvars(Travels(i))

FairPathSpec == PathSpec /\ PathFairness

-----------------------------------------------------------------------------
(***************************************************************************)
(* Properties                                                              *)
(***************************************************************************)

\* The handshake of flights, timers and lost datagrams is the one step
\* PeerSetup has for it (rtcdc.c:372 to 381, ice.c:100 to 113, 262 to 269).
Coarse == INSTANCE PeerSetup WITH
    transport <- transport, role <- role, generated <- generated, parsed <- parsed,
    candidates <- candidates, looping <- looping, gathered <- gathered, negotiated <- negotiated,
    dtls_role <- dtls_role, dtls_done <- dtls_done,
    sctp_role <- sctp_role, sctp_done <- sctp_done, sctp_failed <- sctp_failed
RefinesSetup == Coarse!FairSpec

\* SCTP gets what it needs from the path: no packet comes out twice, or
\* without having been put in.
Lossy == INSTANCE LossyPath WITH sent <- HandedOver, arrived <- arrived
RefinesLossyPath == Lossy!Spec

\* A packet in sctp's outgoing BIO is not left behind: a thread is in
\* sctp_to_dtls that has its BIO_read before it (sctp.c:278).
NoneStranded == sctp_out # <<>> => \E i \in Packet : call[i].pc = "sctp"

Records == DataIn(outgoing[Sender]) \cup UNION {DataIn(d) : d \in net[Receiver]}

\* Only packets whose calls of sctp_data_ready_cb overlapped are run together
\* in one record, or share a datagram (sctp.c:281, 237; ice.c:252).
AloneTravelsAlone ==
    /\ \A r \in Records : Len(r.packets) > 1 => Range(r.packets) \subseteq overlapped
    /\ \A d \in net[Receiver] \cup {outgoing[Sender]} : \A r, t \in DataIn(d) :
          r # t => Range(r.packets) \subseteq overlapped

\* As long as no calls overlap, every packet arrives that the network does
\* not lose: one SSL_read for each datagram is enough (ice.c:116).
AloneArrives == \A i \in Packet :
    i \in HandedOver ~> i \in Range(arrived) \cup lost \/ overlapped # {}

=============================================================================
