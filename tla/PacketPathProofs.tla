--------------------------- MODULE PacketPathProofs ---------------------------
(***************************************************************************)
(* Theorems about PacketPath, for any number of packets and whatever the   *)
(* SDP calls, the handshake and the network do: NoneStranded and           *)
(* AloneTravelsAlone; that the handshake of flights takes the steps that   *)
(* PeerSetup has for it; that the path is the LossyPath SCTP takes it for. *)
(***************************************************************************)
EXTENDS PacketPath, PeerSetupProofs, WellFoundedInduction, TLAPS

Record == [flight : Nat, packets : Seq(Packet)]

LEMMA SetInduction ==
    ASSUME NEW S, 0 \in S, \A n \in Nat : n \in S => n + 1 \in S
    PROVE  Nat \subseteq S
<1> SUFFICES ASSUME Nat \ S # {} PROVE FALSE
  OBVIOUS
<1>1. IsWellFoundedOn(OpToRel(<, Nat), Nat)
  BY NatLessThanWellFounded
<1>2. \E x \in Nat \ S : \A y \in Nat \ S : ~ (<<y, x>> \in OpToRel(<, Nat))
  BY <1>1, WFMin
<1>3. \A x, y \in Nat : y < x => <<y, x>> \in OpToRel(<, Nat)
  BY DEF OpToRel
<1>4. PICK x \in Nat \ S : \A y \in Nat \ S : ~ (y < x)
  BY <1>2, <1>3
<1>5. x # 0 /\ x \in Nat /\ x \notin S
  BY <1>4
<1>6. x - 1 \in Nat /\ x - 1 < x /\ (x - 1) + 1 = x
  BY <1>5
<1> QED
  BY <1>4, <1>5, <1>6

-----------------------------------------------------------------------------
(***************************************************************************)
(* Kept, by induction: the records of a set, no record more often than     *)
(* it was there.                                                           *)
(***************************************************************************)
KeepStep(g, n, s, set) ==
    IF n = 0 THEN <<>>
    ELSE IF s[n] \in set THEN Append(g[n - 1], s[n]) ELSE g[n - 1]
Keeps(g, m, s, set) == g = [n \in 0 .. m |-> KeepStep(g, n, s, set)]

LEMMA KeepsExists ==
    ASSUME NEW s, NEW set, NEW m \in Nat
    PROVE  \E g : Keeps(g, m, s, set)
<1> DEFINE S == {k \in Nat : \E g : Keeps(g, k, s, set)}
<1>1. 0 \in S
  <2> DEFINE g0 == [n \in 0 .. 0 |-> <<>>]
  <2>1. \A n \in 0 .. 0 : n = 0
    OBVIOUS
  <2>2. Keeps(g0, 0, s, set)
    BY <2>1 DEF Keeps, KeepStep
  <2> QED
    BY <2>2
<1>2. ASSUME NEW k \in Nat, k \in S PROVE k + 1 \in S
  <2>1. PICK g : Keeps(g, k, s, set)
    BY <1>2
  <2> DEFINE h == [n \in 0 .. k + 1 |-> KeepStep(g, n, s, set)]
  <2>2. \A n \in 0 .. k : h[n] = g[n]
    BY <2>1 DEF Keeps
  <2>3. \A n \in 0 .. k + 1 : KeepStep(h, n, s, set) = KeepStep(g, n, s, set)
    <3> SUFFICES ASSUME NEW n \in 0 .. k + 1
                 PROVE  KeepStep(h, n, s, set) = KeepStep(g, n, s, set)
      OBVIOUS
    <3>1. n # 0 => n - 1 \in 0 .. k
      OBVIOUS
    <3> HIDE DEF h
    <3> QED
      BY <2>2, <3>1 DEF KeepStep
  <2>4. Keeps(h, k + 1, s, set)
    <3>1. h = [n \in 0 .. k + 1 |-> KeepStep(h, n, s, set)]
      BY <2>3
    <3> QED
      BY <3>1 DEF Keeps
  <2> QED
    BY <2>4
<1>3. Nat \subseteq S
  <2> HIDE DEF S
  <2> QED
    BY <1>1, <1>2, SetInduction
<1> QED
  BY <1>3

LEMMA KeptRounds ==
    ASSUME NEW S, NEW s \in Seq(S), NEW set
    PROVE  \E g : /\ \A n \in 0 .. Len(s) : g[n] = KeepStep(g, n, s, set)
                  /\ Kept(s, set) = g[Len(s)]
<1>1. Len(s) \in Nat
  OBVIOUS
<1> DEFINE g == CHOOSE g : Keeps(g, Len(s), s, set)
<1>2. Keeps(g, Len(s), s, set)
  BY <1>1, KeepsExists
<1>3. Kept(s, set) = g[Len(s)]
  BY DEF Kept, Keeps, KeepStep
<1> HIDE DEF g
<1>4. \A n \in 0 .. Len(s) : g[n] = KeepStep(g, n, s, set)
  BY <1>2 DEF Keeps
<1> QED
  BY <1>3, <1>4

\* What Kept makes of a sequence, so far.
Once(d) == \A m, n \in DOMAIN d : d[m].flight = 0 /\ d[m] = d[n] => m = n
IsKept(k, n, s, set) ==
    /\ k \in Seq(Record)
    /\ Range(k) = {s[i] : i \in 1 .. n} \cap set
    /\ Once(s) => Once(k)

LEMMA RangeAppend ==
    ASSUME NEW S, NEW s \in Seq(S), NEW e \in S
    PROVE  Range(Append(s, e)) = Range(s) \cup {e}
<1>1. DOMAIN Append(s, e) = 1 .. Len(s) + 1 /\ DOMAIN s = 1 .. Len(s) /\ Len(s) \in Nat
  OBVIOUS
<1>2. \A n \in 1 .. Len(s) : Append(s, e)[n] = s[n]
  OBVIOUS
<1>3. Append(s, e)[Len(s) + 1] = e
  OBVIOUS
<1>4. 1 .. Len(s) + 1 = (1 .. Len(s)) \cup {Len(s) + 1}
  BY <1>1
<1> QED
  BY <1>1, <1>2, <1>3, <1>4 DEF Range

\* A record that is not there yet.
LEMMA OnceAppend ==
    ASSUME NEW s \in Seq(Record), Once(s), NEW r \in Record,
           r.flight = 0 => r \notin Range(s)
    PROVE  Once(Append(s, r))
<1>1. /\ DOMAIN Append(s, r) = 1 .. Len(s) + 1 /\ DOMAIN s = 1 .. Len(s)
      /\ Len(s) \in Nat
      /\ \A n \in 1 .. Len(s) : Append(s, r)[n] = s[n]
      /\ Append(s, r)[Len(s) + 1] = r
  OBVIOUS
<1>2. \A n \in 1 .. Len(s) : s[n] \in Range(s)
  BY <1>1 DEF Range
<1> DEFINE t == Append(s, r)
<1>3. \A n \in 1 .. Len(s) + 1 : n \in 1 .. Len(s) \/ n = Len(s) + 1
  BY <1>1
<1> HIDE DEF t
<1>4. ASSUME NEW m \in 1 .. Len(s) + 1, NEW n \in 1 .. Len(s) + 1,
             Append(s, r)[m].flight = 0, Append(s, r)[m] = Append(s, r)[n]
      PROVE  m = n
  <2>1. CASE m \in 1 .. Len(s) /\ n \in 1 .. Len(s)
    BY <1>1, <1>4, <2>1 DEF Once
  <2>2. CASE m = Len(s) + 1 /\ n \in 1 .. Len(s)
    BY <1>1, <1>2, <1>4, <2>2
  <2>3. CASE n = Len(s) + 1 /\ m \in 1 .. Len(s)
    BY <1>1, <1>2, <1>4, <2>3
  <2> QED
    BY <1>3, <2>1, <2>2, <2>3
<1> QED
  BY <1>1, <1>4 DEF Once

LEMMA KeptIsKept ==
    ASSUME NEW s \in Seq(Record), NEW set
    PROVE  IsKept(Kept(s, set), Len(s), s, set)
<1>1. PICK g : /\ \A n \in 0 .. Len(s) : g[n] = KeepStep(g, n, s, set)
               /\ Kept(s, set) = g[Len(s)]
  BY KeptRounds
<1> DEFINE S == {n \in Nat : n <= Len(s) => IsKept(g[n], n, s, set)}
<1>2. 0 \in S
  <2>1. g[0] = <<>>
    BY <1>1 DEF KeepStep
  <2>2. 1 .. 0 = {} /\ DOMAIN <<>> = {}
    OBVIOUS
  <2>3. Range(<<>>) = {} /\ Once(<<>>) /\ <<>> \in Seq(Record)
    BY <2>2 DEF Range, Once
  <2> QED
    BY <2>1, <2>2, <2>3 DEF IsKept
<1>3. ASSUME NEW k \in Nat, k \in S PROVE k + 1 \in S
  <2> SUFFICES ASSUME k + 1 <= Len(s) PROVE IsKept(g[k + 1], k + 1, s, set)
    OBVIOUS
  <2>1. IsKept(g[k], k, s, set) /\ k + 1 \in 1 .. Len(s) /\ k + 1 \in 0 .. Len(s)
    BY <1>3
  <2>2. g[k + 1] = IF s[k + 1] \in set THEN Append(g[k], s[k + 1]) ELSE g[k]
    <3>1. (k + 1) - 1 = k /\ k + 1 # 0
      OBVIOUS
    <3>2. g[k + 1] = KeepStep(g, k + 1, s, set)
      BY <1>1, <2>1
    <3> QED
      BY <3>1, <3>2 DEF KeepStep
  <2>3. s[k + 1] \in Record
    BY <2>1
  <2>4. 1 .. k + 1 = (1 .. k) \cup {k + 1}
    OBVIOUS
  <2>5. {s[i] : i \in 1 .. k + 1} = {s[i] : i \in 1 .. k} \cup {s[k + 1]}
    BY <2>4
  <2>6. CASE s[k + 1] \notin set
    BY <2>1, <2>2, <2>5, <2>6 DEF IsKept
  <2>7. CASE s[k + 1] \in set
    <3>1. g[k] \in Seq(Record) /\ Range(g[k]) = {s[i] : i \in 1 .. k} \cap set
      BY <2>1 DEF IsKept
    <3>2. g[k + 1] = Append(g[k], s[k + 1])
      BY <2>2, <2>7
    <3>3. g[k + 1] \in Seq(Record)
      BY <2>3, <3>1, <3>2
    <3>4. Range(g[k + 1]) = Range(g[k]) \cup {s[k + 1]}
      BY <2>3, <3>1, <3>2, RangeAppend
    <3>5. Range(g[k + 1]) = {s[i] : i \in 1 .. k + 1} \cap set
      BY <2>5, <2>7, <3>1, <3>4
    <3>6. ASSUME Once(s) PROVE Once(g[k + 1])
      <4>1. Once(g[k])
        BY <2>1, <3>6 DEF IsKept
      <4>2. s[k + 1].flight = 0 => s[k + 1] \notin {s[i] : i \in 1 .. k}
        <5>1. \A i \in 1 .. k : i \in DOMAIN s /\ k + 1 \in DOMAIN s /\ i # k + 1
          BY <2>1
        <5> QED
          BY <3>6, <5>1 DEF Once
      <4>3. s[k + 1].flight = 0 => s[k + 1] \notin Range(g[k])
        BY <3>1, <4>2
      <4> QED
        BY <2>3, <3>1, <3>2, <4>1, <4>3, OnceAppend
    <3> QED
      BY <3>3, <3>5, <3>6 DEF IsKept
  <2> QED
    BY <2>6, <2>7
<1>4. Nat \subseteq S
  <2> HIDE DEF S
  <2> QED
    BY <1>2, <1>3, SetInduction
<1> QED
  BY <1>1, <1>4

\* Kept keeps the records of the set, and no data record gets in twice.
LEMMA KeptRecords ==
    ASSUME NEW s \in Seq(Record), NEW set
    PROVE  /\ Kept(s, set) \in Seq(Record)
           /\ Range(Kept(s, set)) = Range(s) \cap set
           /\ Once(s) => Once(Kept(s, set))
<1>1. DOMAIN s = 1 .. Len(s)
  OBVIOUS
<1>2. Range(s) = {s[i] : i \in 1 .. Len(s)}
  BY <1>1 DEF Range
<1> QED
  BY <1>2, KeptIsKept DEF IsKept
-----------------------------------------------------------------------------
\* Types, as far as the arguments below need them.
PathType ==
    /\ ssl \in [Peer -> Nat]
    /\ outgoing \in [Peer -> Seq(Record)]
    /\ net \in [Peer -> SUBSET Seq(Record)]
    /\ sctp_out \in Seq(Packet)
    /\ call \in [Packet -> [pc : {"none", "sctp", "ssl", "dtls", "over"},
                            buf : Seq(Packet)]]

\* Whatever is in sctp's outgoing BIO has a thread that will come for it.
WritersCome == \A i \in Range(sctp_out) : i \in Packet /\ call[i].pc = "sctp"

\* Two calls that are under way at the same time have overlapped.
BusyOverlap == \A i, j \in Busy : i # j => i \in overlapped

\* What a thread has read from the BIO is its own packet, or overlapped.
BufsAlone ==
    /\ Len(sctp_out) > 1 => Range(sctp_out) \subseteq overlapped
    /\ \A i \in Packet : call[i].pc = "ssl" =>
          /\ Range(call[i].buf) \subseteq {i} \cup overlapped
          /\ Len(call[i].buf) > 1 => Range(call[i].buf) \subseteq overlapped

\* A record of the outgoing BIO has a thread that is still in dtls_to_ice, ...
HasWriter(r) == \E w \in Packet :
    call[w].pc = "dtls" /\ Range(r.packets) \subseteq {w} \cup overlapped

\* ... and a datagram is as AloneTravelsAlone says.
Alone(d) ==
    /\ \A r \in DataIn(d) : Len(r.packets) > 1 => Range(r.packets) \subseteq overlapped
    /\ \A r, t \in DataIn(d) : r # t => Range(r.packets) \subseteq overlapped

PathInv ==
    /\ PathType
    /\ WritersCome
    /\ BusyOverlap
    /\ BufsAlone
    /\ \A r \in DataIn(outgoing[Sender]) : HasWriter(r)
    /\ Alone(outgoing[Sender])
    /\ \A d \in net[Receiver] : Alone(d)

-----------------------------------------------------------------------------
LEMMA Ends == Sender \in Peer /\ Receiver \in Peer /\ Sender # Receiver
              /\ Other(Sender) = Receiver /\ Other(Receiver) = Sender
              /\ \A p \in Peer : Other(p) \in Peer /\ (p = Sender \/ p = Receiver)
BY PeersDiffer DEF Sender, Receiver, Peer, Other

LEMMA RangeEmpty == Range(<<>>) = {} /\ DataIn(<<>>) = {}
BY DEF Range, DataIn

LEMMA RangeNonEmpty ==
    ASSUME NEW S, NEW s \in Seq(S)
    PROVE  /\ s # <<>> => Range(s) # {}
           /\ Len(s) > 0 => s # <<>>
<1>1. s # <<>> => 1 \in DOMAIN s
  OBVIOUS
<1> QED
  BY <1>1 DEF Range

LEMMA DataAppend ==
    ASSUME NEW s \in Seq(Record), NEW r \in Record
    PROVE  DataIn(Append(s, r)) = IF r.flight = 0 THEN DataIn(s) \cup {r} ELSE DataIn(s)
<1>1. Range(Append(s, r)) = Range(s) \cup {r}
  BY RangeAppend
<1> QED
  BY <1>1 DEF DataIn

LEMMA RangeInSeq ==
    ASSUME NEW S, NEW s \in Seq(S)
    PROVE  Range(s) \subseteq S
BY DEF Range

LEMMA DataIsRecord ==
    ASSUME NEW s \in Seq(Record)
    PROVE  DataIn(s) \subseteq Record
BY RangeInSeq DEF DataIn

\* More overlapped calls leave a datagram alone.
LEMMA AloneGrows ==
    ASSUME NEW d, Alone(d), overlapped \subseteq overlapped'
    PROVE  Alone(d)'
BY DEF Alone, DataIn

-----------------------------------------------------------------------------
LEMMA PathInvInit == PathInit => PathInv
<1> SUFFICES ASSUME PathInit PROVE PathInv
  OBVIOUS
<1>1. PathType
  BY DEF PathInit, PathType, At
<1>2. WritersCome /\ BusyOverlap
  BY RangeEmpty DEF PathInit, WritersCome, BusyOverlap, Busy, At
<1>3. BufsAlone
  BY RangeEmpty DEF PathInit, BufsAlone, At
<1>4. DataIn(outgoing[Sender]) = {} /\ net[Receiver] = {}
  BY Ends, RangeEmpty DEF PathInit
<1> QED
  BY <1>1, <1>2, <1>3, <1>4 DEF PathInv, Alone

\* What is not a call of sctp_data_ready_cb: records of the handshake come,
\* datagrams of the receiver go.
LEMMA HandshakeKeeps ==
    ASSUME PathInv, UNCHANGED calls, PathType',
           DataIn(outgoing[Sender])' = DataIn(outgoing[Sender]),
           net'[Receiver] \subseteq net[Receiver]
    PROVE  PathInv'
<1>1. WritersCome' /\ BusyOverlap' /\ BufsAlone'
  BY DEF PathInv, calls, WritersCome, BusyOverlap, Busy, BufsAlone
<1>2. \A r \in DataIn(outgoing[Sender])' : HasWriter(r)'
  BY DEF PathInv, calls, HasWriter
<1>3. Alone(outgoing[Sender])'
  BY DEF PathInv, calls, Alone
<1>4. \A d \in net'[Receiver] : Alone(d)'
  BY AloneGrows DEF PathInv, calls
<1> QED
  BY <1>1, <1>2, <1>3, <1>4 DEF PathInv

\* A record of the handshake changes nothing for the data in a BIO.
LEMMA HelloKeeps ==
    ASSUME PathType, NEW p \in Peer, NEW f \in Nat \ {0},
           outgoing' = [outgoing EXCEPT ![p] = Append(@, Hello(f))]
    PROVE  /\ outgoing' \in [Peer -> Seq(Record)]
           /\ DataIn(outgoing[Sender])' = DataIn(outgoing[Sender])
<1>1. Hello(f) \in Record /\ Hello(f).flight # 0
  BY DEF Hello, Record
<1>2. outgoing[p] \in Seq(Record)
  BY DEF PathType
<1>3. DataIn(Append(outgoing[p], Hello(f))) = DataIn(outgoing[p])
  BY <1>1, <1>2, DataAppend
<1>4. outgoing' \in [Peer -> Seq(Record)]
  BY <1>1, <1>2 DEF PathType
<1>5. \/ outgoing'[Sender] = outgoing[Sender]
      \/ p = Sender /\ outgoing'[Sender] = Append(outgoing[p], Hello(f))
  BY Ends DEF PathType
<1>6. \A s : s = outgoing'[Sender] => DataIn(s) = DataIn(outgoing[Sender])
  BY <1>3, <1>5
<1>7. DataIn(outgoing[Sender])' = DataIn(outgoing'[Sender])
  BY DEF DataIn
<1> QED
  BY <1>4, <1>6, <1>7

LEMMA HandshakeStep ==
    ASSUME PathType, NEW p \in Peer, NEW role_set, NEW records,
           SSL_do_handshake(p, role_set, records)
    PROVE  /\ ssl' \in [Peer -> Nat] /\ outgoing' \in [Peer -> Seq(Record)]
           /\ DataIn(outgoing[Sender])' = DataIn(outgoing[Sender])
<1>1. CASE UNCHANGED <<ssl, outgoing>>
  BY <1>1 DEF PathType, DataIn
<1>2. CASE role_set # "UNKNOWN"
  <2> DEFINE next == SslNext(role_set, ssl[p], Flights(records))
  <2>1. next \in Nat /\ (next # ssl[p] => next # 0)
    BY DEF SslNext, PathType
  <2>2. ssl' = [ssl EXCEPT ![p] = next]
    BY <1>2 DEF SSL_do_handshake
  <2>3. ssl' \in [Peer -> Nat]
    BY <2>1, <2>2 DEF PathType
  <2>4. \/ UNCHANGED outgoing
        \/ next # 0 /\ outgoing' = [outgoing EXCEPT ![p] = Append(@, Hello(next))]
    BY <1>2, <2>1 DEF SSL_do_handshake
  <2> HIDE DEF next
  <2>5. CASE UNCHANGED outgoing
    BY <2>3, <2>5 DEF PathType, DataIn
  <2>6. CASE next # 0 /\ outgoing' = [outgoing EXCEPT ![p] = Append(@, Hello(next))]
    <3>1. next \in Nat \ {0}
      BY <2>1, <2>6
    <3> QED
      BY <2>3, <2>6, <3>1, HelloKeeps
  <2> QED
    BY <2>4, <2>5, <2>6
<1>3. role_set = "UNKNOWN" => UNCHANGED <<ssl, outgoing>>
  BY DEF SSL_do_handshake
<1> QED
  BY <1>1, <1>2, <1>3

LEMMA ReadStep ==
    ASSUME PathType, NEW p \in Peer, NEW records, SSL_read(p, records)
    PROVE  /\ outgoing' \in [Peer -> Seq(Record)]
           /\ DataIn(outgoing[Sender])' = DataIn(outgoing[Sender])
<1>1. outgoing' = [outgoing EXCEPT ![p] = Append(@, Hello(4))] \/ outgoing' = outgoing
  <2>1. \/ outgoing' = [outgoing EXCEPT ![p] = Append(@, Hello(4))]
        \/ outgoing' = [outgoing EXCEPT ![p] = @]
    BY DEF SSL_read
  <2> QED
    BY <2>1 DEF PathType
<1>2. CASE outgoing' = [outgoing EXCEPT ![p] = Append(@, Hello(4))]
  <2>1. 4 \in Nat \ {0}
    OBVIOUS
  <2> QED
    BY <1>2, <2>1, HelloKeeps
<1>3. CASE outgoing' = outgoing
  BY <1>3 DEF PathType, DataIn
<1> QED
  BY <1>1, <1>2, <1>3

-----------------------------------------------------------------------------
\* The steps that are no calls of sctp_data_ready_cb.
LEMMA OtherStepsKeep ==
    ASSUME PathInv, NEW p \in Peer,
           \/ SetupStep(p) \/ StartHandshake(p) \/ IceHandshake(p) \/ Network(p)
           \/ UNCHANGED allvars
    PROVE  PathInv'
<1> USE DEF calls
<1>1. CASE SetupStep(p) \/ UNCHANGED allvars
  <2>1. UNCHANGED path
    BY <1>1 DEF SetupStep, allvars
  <2>2. UNCHANGED <<calls, ssl, outgoing, net>>
    BY <2>1 DEF path, handshake
  <2>3. PathType'
    BY <2>2 DEF PathInv, PathType
  <2>4. DataIn(outgoing[Sender])' = DataIn(outgoing[Sender])
    BY <2>2 DEF DataIn
  <2> QED
    BY <2>2, <2>3, <2>4, HandshakeKeeps
<1>2. CASE StartHandshake(p)
  <2>1. SSL_do_handshake(p, role[p], incoming[p]) /\ UNCHANGED <<net, calls>>
    BY <1>2 DEF StartHandshake
  <2> QED
    BY <2>1, HandshakeStep, HandshakeKeeps DEF PathInv, PathType
<1>3. CASE IceHandshake(p)
  <2>1. SSL_do_handshake(p, dtls_role[p], incoming[p]) /\ UNCHANGED <<net, calls>>
    BY <1>3 DEF IceHandshake
  <2> QED
    BY <2>1, HandshakeStep, HandshakeKeeps DEF PathInv, PathType
<1>4. CASE Network(p)
  <2>1. PICK d \in net[p] : data_received_cb(p, d) \/ Lose(p, d)
    BY <1>4 DEF Network
  <2>2. UNCHANGED calls
    BY <2>1 DEF data_received_cb, Lose
  <2>3. net' = [net EXCEPT ![p] = @ \ {d}] \/ net' = net
    BY <2>1 DEF data_received_cb, Lose
  <2>4. net' \in [Peer -> SUBSET Seq(Record)] /\ net'[Receiver] \subseteq net[Receiver]
    BY <2>3, Ends DEF PathInv, PathType
  <2>5. \/ UNCHANGED <<ssl, outgoing>>
        \/ \E records : SSL_read(p, records) /\ UNCHANGED ssl
        \/ \E records : SSL_do_handshake(p, dtls_role[p], records)
    BY <2>1 DEF data_received_cb, Lose
  <2>6. /\ ssl' \in [Peer -> Nat] /\ outgoing' \in [Peer -> Seq(Record)]
        /\ DataIn(outgoing[Sender])' = DataIn(outgoing[Sender])
    <3>1. CASE UNCHANGED <<ssl, outgoing>>
      BY <3>1 DEF PathInv, PathType, DataIn
    <3>2. CASE \E records : SSL_read(p, records) /\ UNCHANGED ssl
      BY <3>2, ReadStep DEF PathInv, PathType
    <3>3. CASE \E records : SSL_do_handshake(p, dtls_role[p], records)
      BY <3>3, HandshakeStep DEF PathInv
    <3> QED
      BY <2>5, <3>1, <3>2, <3>3
  <2> QED
    BY <2>2, <2>4, <2>6, HandshakeKeeps DEF PathInv, PathType
<1> QED
  BY <1>1, <1>2, <1>3, <1>4

\* A whole BIO becomes a datagram.
LEMMA FlushKeeps ==
    ASSUME PathInv, NEW p \in Peer,
           outgoing' = [outgoing EXCEPT ![p] = <<>>],
           \/ net' = [net EXCEPT ![Other(p)] = @ \cup {outgoing[p]}]
           \/ net' = net,
           UNCHANGED <<ssl, overlapped>>
    PROVE  /\ ssl' \in [Peer -> Nat] /\ outgoing' \in [Peer -> Seq(Record)]
           /\ net' \in [Peer -> SUBSET Seq(Record)]
           /\ DataIn(outgoing'[Sender]) \subseteq DataIn(outgoing[Sender])
           /\ p = Sender => DataIn(outgoing'[Sender]) = {}
           /\ \A d \in net'[Receiver] : Alone(d)'
           /\ Alone(outgoing[Sender])'
<1>1. /\ ssl' \in [Peer -> Nat] /\ outgoing' \in [Peer -> Seq(Record)]
      /\ net' \in [Peer -> SUBSET Seq(Record)]
  <2>1. <<>> \in Seq(Record) /\ outgoing[p] \in Seq(Record) /\ Other(p) \in Peer
    BY Ends DEF PathInv, PathType
  <2>2. ssl' \in [Peer -> Nat] /\ outgoing' \in [Peer -> Seq(Record)]
    BY <2>1 DEF PathInv, PathType
  <2>3. CASE net' = net
    BY <2>2, <2>3 DEF PathInv, PathType
  <2>4. CASE net' = [net EXCEPT ![Other(p)] = @ \cup {outgoing[p]}]
    <3>1. net[Other(p)] \cup {outgoing[p]} \in SUBSET Seq(Record)
      BY <2>1 DEF PathInv, PathType
    <3>2. net' \in [Peer -> SUBSET Seq(Record)]
      BY <2>1, <2>4, <3>1 DEF PathInv, PathType
    <3> QED
      BY <2>2, <3>2
  <2> QED
    BY <2>3, <2>4
<1>2. outgoing'[Sender] \in {outgoing[Sender], <<>>}
  BY Ends DEF PathInv, PathType
<1>3. p = Sender => outgoing'[Sender] = <<>>
  BY Ends DEF PathInv, PathType
<1>4. DataIn(outgoing'[Sender]) \subseteq DataIn(outgoing[Sender])
  BY <1>2, RangeEmpty
<1>5. p = Sender => DataIn(outgoing'[Sender]) = {}
  BY <1>3, RangeEmpty
<1>6. net'[Receiver] \subseteq net[Receiver] \cup {outgoing[Sender]}
  BY Ends DEF PathInv, PathType
<1>7. \A d \in net'[Receiver] : Alone(d)'
  BY <1>6, AloneGrows DEF PathInv
<1>8. Alone(outgoing[Sender])'
  BY <1>4 DEF PathInv, Alone, DataIn
<1> QED
  BY <1>1, <1>4, <1>5, <1>7, <1>8

\* ice_thread sends what is there: its writers find nothing.
LEMMA IcePumpKeeps ==
    ASSUME PathInv, NEW p \in Peer, IcePump(p)
    PROVE  PathInv'
<1>1. /\ outgoing' = [outgoing EXCEPT ![p] = <<>>]
      /\ net' = [net EXCEPT ![Other(p)] = @ \cup {outgoing[p]}]
      /\ UNCHANGED <<ssl, calls>>
  BY DEF IcePump
<1>2. /\ ssl' \in [Peer -> Nat] /\ outgoing' \in [Peer -> Seq(Record)]
      /\ net' \in [Peer -> SUBSET Seq(Record)]
      /\ DataIn(outgoing'[Sender]) \subseteq DataIn(outgoing[Sender])
      /\ \A d \in net'[Receiver] : Alone(d)'
      /\ Alone(outgoing[Sender])'
  BY <1>1, FlushKeeps DEF calls
<1>3. PathType'
  BY <1>1, <1>2 DEF PathInv, PathType, calls
<1>4. WritersCome' /\ BusyOverlap' /\ BufsAlone'
  BY <1>1 DEF PathInv, calls, WritersCome, BusyOverlap, Busy, BufsAlone
<1>5. \A r \in DataIn(outgoing'[Sender]) : HasWriter(r)'
  BY <1>1, <1>2 DEF PathInv, calls, HasWriter
<1>6. \A r \in DataIn(outgoing[Sender])' : HasWriter(r)'
  BY <1>5 DEF DataIn
<1> QED
  BY <1>2, <1>3, <1>4, <1>6 DEF PathInv

-----------------------------------------------------------------------------
\* The steps of a call of sctp_data_ready_cb: it puts its packet into the BIO, ...
LEMMA ReadyKeeps ==
    ASSUME PathInv, NEW i \in Packet, sctp_data_ready_cb(i)
    PROVE  PathInv'
<1>1. /\ call[i].pc = "none"
      /\ call' = [call EXCEPT ![i] = At("sctp", <<>>)]
      /\ sctp_out' = Append(sctp_out, i)
      /\ overlapped' = IF Busy = {} THEN overlapped ELSE overlapped \cup Busy \cup {i}
      /\ UNCHANGED <<ssl, outgoing, net>>
  BY DEF sctp_data_ready_cb, handshake
<1>2. overlapped \subseteq overlapped'
  BY <1>1
<1>3. Range(sctp_out') = Range(sctp_out) \cup {i}
  BY <1>1, RangeAppend DEF PathInv, PathType
<1>4. /\ call'[i] = At("sctp", <<>>)
      /\ \A j \in Packet : j # i => call'[j] = call[j]
  BY <1>1 DEF PathInv, PathType
<1>5. PathType'
  <2>1. At("sctp", <<>>) \in [pc : {"none", "sctp", "ssl", "dtls", "over"},
                             buf : Seq(Packet)]
    BY DEF At
  <2>2. sctp_out' \in Seq(Packet)
    BY <1>1 DEF PathInv, PathType
  <2> QED
    BY <1>1, <2>1, <2>2 DEF PathInv, PathType
<1>6. WritersCome'
  <2>1. \A j \in Range(sctp_out') : j \in Packet /\ call'[j].pc = "sctp"
    BY <1>3, <1>4 DEF PathInv, WritersCome, At
  <2> QED
    BY <2>1 DEF WritersCome, Range
<1>7. Busy' = Busy \cup {i}
  BY <1>1, <1>4 DEF Busy, At
<1>8. BusyOverlap'
  BY <1>1, <1>7 DEF PathInv, BusyOverlap
<1>9. BufsAlone'
  <2>1. Len(sctp_out') > 1 => Range(sctp_out') \subseteq overlapped'
    <3>1. Len(sctp_out') > 1 => Len(sctp_out) > 0
      BY <1>1 DEF PathInv, PathType
    <3>2. Len(sctp_out) > 0 => Range(sctp_out) # {}
      BY RangeNonEmpty DEF PathInv, PathType
    <3>3. Range(sctp_out) \subseteq Busy
      BY DEF PathInv, WritersCome, Busy
    <3> QED
      BY <1>1, <1>3, <3>1, <3>2, <3>3
  <2>2. \A j \in Packet : call'[j].pc = "ssl" => j # i
    BY <1>4 DEF At
  <2>3. \A j \in Packet : call'[j].pc = "ssl" =>
           /\ Range(call'[j].buf) \subseteq {j} \cup overlapped'
           /\ Len(call'[j].buf) > 1 => Range(call'[j].buf) \subseteq overlapped'
    BY <1>2, <1>4, <2>2 DEF PathInv, BufsAlone
  <2> QED
    BY <2>1, <2>3 DEF BufsAlone, Range
<1>10. \A r \in DataIn(outgoing[Sender]) : HasWriter(r)'
  <2> SUFFICES ASSUME NEW r \in DataIn(outgoing[Sender]) PROVE HasWriter(r)'
    OBVIOUS
  <2>1. PICK w \in Packet :
          call[w].pc = "dtls" /\ Range(r.packets) \subseteq {w} \cup overlapped
    BY DEF PathInv, HasWriter
  <2>2. call'[w].pc = "dtls"
    BY <1>1, <1>4, <2>1
  <2> QED
    BY <1>2, <2>1, <2>2 DEF HasWriter
<1>11. DataIn(outgoing[Sender])' = DataIn(outgoing[Sender])
  BY <1>1 DEF DataIn
<1>12. Alone(outgoing[Sender])'
  BY <1>1, <1>2 DEF PathInv, Alone, DataIn
<1>13. \A d \in net'[Receiver] : Alone(d)'
  BY <1>1, <1>2, AloneGrows DEF PathInv
<1> QED
  BY <1>5, <1>6, <1>8, <1>9, <1>10, <1>11, <1>12, <1>13 DEF PathInv

\* ... takes all that is there, ...
LEMMA TakeKeeps ==
    ASSUME PathInv, NEW i \in Packet, TakePackets(i)
    PROVE  PathInv'
<1> DEFINE next == IF sctp_out = <<>> THEN "dtls" ELSE "ssl"
<1>1. /\ call[i].pc = "sctp"
      /\ call' = [call EXCEPT ![i] = At(next, sctp_out)]
      /\ sctp_out' = <<>>
      /\ UNCHANGED <<ssl, outgoing, net, overlapped>>
  BY DEF TakePackets, handshake
<1>2. next \in {"dtls", "ssl"}
  OBVIOUS
<1> HIDE DEF next
<1>3. /\ call'[i].pc = next /\ call'[i].buf = sctp_out
      /\ \A j \in Packet : j # i => call'[j] = call[j]
  BY <1>1 DEF PathInv, PathType, At
<1>4. PathType'
  <2>1. At(next, sctp_out) \in [pc : {"none", "sctp", "ssl", "dtls", "over"},
                               buf : Seq(Packet)]
    BY <1>2 DEF PathInv, PathType, At
  <2> QED
    BY <1>1, <2>1 DEF PathInv, PathType
<1>5. WritersCome'
  BY <1>1, RangeEmpty DEF WritersCome
<1>6. Busy' = Busy
  BY <1>1, <1>2, <1>3 DEF Busy
<1>7. BusyOverlap'
  BY <1>1, <1>6 DEF PathInv, BusyOverlap
<1>8. BufsAlone'
  <2>1. Range(sctp_out) \subseteq {i} \cup overlapped
    BY <1>1 DEF PathInv, WritersCome, BusyOverlap, Busy
  <2>2. \A j \in Packet : call'[j].pc = "ssl" =>
           /\ Range(call'[j].buf) \subseteq {j} \cup overlapped
           /\ Len(call'[j].buf) > 1 => Range(call'[j].buf) \subseteq overlapped
    BY <1>3, <2>1 DEF PathInv, BufsAlone
  <2>3. ~(Len(sctp_out') > 1)
    BY <1>1
  <2> QED
    BY <1>1, <2>2, <2>3 DEF BufsAlone, Range
<1>9. \A r \in DataIn(outgoing[Sender]) : HasWriter(r)'
  <2> SUFFICES ASSUME NEW r \in DataIn(outgoing[Sender]) PROVE HasWriter(r)'
    OBVIOUS
  <2>1. PICK w \in Packet :
          call[w].pc = "dtls" /\ Range(r.packets) \subseteq {w} \cup overlapped
    BY DEF PathInv, HasWriter
  <2>2. call'[w].pc = "dtls"
    BY <1>1, <1>3, <2>1
  <2> QED
    BY <1>1, <2>1, <2>2 DEF HasWriter
<1>10. DataIn(outgoing[Sender])' = DataIn(outgoing[Sender])
  BY <1>1 DEF DataIn
<1>11. Alone(outgoing[Sender])'
  BY <1>1 DEF PathInv, Alone, DataIn
<1>12. \A d \in net'[Receiver] : Alone(d)'
  BY <1>1, AloneGrows DEF PathInv
<1> QED
  BY <1>4, <1>5, <1>7, <1>8, <1>9, <1>10, <1>11, <1>12 DEF PathInv

\* ... makes one record of it: whoever has a record in the BIO already is on its
\* way to sending it, and has overlapped this call, ...
LEMMA EncryptKeeps ==
    ASSUME PathInv, NEW i \in Packet, Encrypt(i)
    PROVE  PathInv'
<1> DEFINE rec == Data(call[i].buf)
<1>1. /\ call[i].pc = "ssl"
      /\ outgoing' = [outgoing EXCEPT ![Sender] = Append(@, rec)]
      /\ call' = [call EXCEPT ![i] = At("dtls", <<>>)]
      /\ UNCHANGED <<ssl, net, sctp_out, overlapped>>
  BY DEF Encrypt
<1>2. /\ rec \in Record /\ rec.flight = 0
      /\ rec.packets = call[i].buf
  BY DEF PathInv, PathType, Data, Record
<1>3. /\ Range(rec.packets) \subseteq {i} \cup overlapped
      /\ Len(rec.packets) > 1 => Range(rec.packets) \subseteq overlapped
  BY <1>1, <1>2 DEF PathInv, BufsAlone
<1> HIDE DEF rec
<1>4. /\ call'[i].pc = "dtls"
      /\ \A j \in Packet : j # i => call'[j] = call[j]
  BY <1>1 DEF PathInv, PathType, At
<1>5. outgoing[Sender] \in Seq(Record)
  BY Ends DEF PathInv, PathType
<1>6. outgoing'[Sender] = Append(outgoing[Sender], rec)
  BY <1>1, Ends DEF PathInv, PathType
<1>7. DataIn(outgoing'[Sender]) = DataIn(outgoing[Sender]) \cup {rec}
  <2>1. DataIn(Append(outgoing[Sender], rec)) = DataIn(outgoing[Sender]) \cup {rec}
    BY <1>2, <1>5, DataAppend
  <2> QED
    BY <1>6, <2>1
<1>8. PathType'
  <2>1. At("dtls", <<>>) \in [pc : {"none", "sctp", "ssl", "dtls", "over"},
                             buf : Seq(Packet)]
    BY DEF At
  <2>2. Append(outgoing[Sender], rec) \in Seq(Record)
    BY <1>2, <1>5
  <2>3. outgoing' \in [Peer -> Seq(Record)]
    BY <1>1, <2>2, Ends DEF PathInv, PathType
  <2>4. call' \in [Packet -> [pc : {"none", "sctp", "ssl", "dtls", "over"},
                             buf : Seq(Packet)]]
    BY <1>1, <2>1 DEF PathInv, PathType
  <2> QED
    BY <1>1, <2>3, <2>4 DEF PathInv, PathType
<1>9. WritersCome'
  BY <1>1, <1>4 DEF PathInv, WritersCome, Range
<1>10. Busy' = Busy
  BY <1>1, <1>4 DEF Busy
<1>11. BusyOverlap'
  BY <1>1, <1>10 DEF PathInv, BusyOverlap
<1>12. BufsAlone'
  <2>1. \A j \in Packet : call'[j].pc = "ssl" => j # i /\ call'[j] = call[j]
    BY <1>4
  <2>2. \A j \in Packet : call'[j].pc = "ssl" =>
           /\ Range(call'[j].buf) \subseteq {j} \cup overlapped
           /\ Len(call'[j].buf) > 1 => Range(call'[j].buf) \subseteq overlapped
    BY <2>1 DEF PathInv, BufsAlone
  <2>3. Len(sctp_out) > 1 => Range(sctp_out) \subseteq overlapped
    BY DEF PathInv, BufsAlone
  <2> QED
    BY <1>1, <2>2, <2>3 DEF BufsAlone, Range
<1>13. \A r \in DataIn(outgoing[Sender]) : Range(r.packets) \subseteq overlapped
  BY <1>1 DEF PathInv, HasWriter, BusyOverlap, Busy
<1>14. \A r \in DataIn(outgoing[Sender]) : i \in overlapped
  BY <1>1 DEF PathInv, HasWriter, BusyOverlap, Busy
<1>15. \A r \in DataIn(outgoing'[Sender]) : HasWriter(r)'
  <2> SUFFICES ASSUME NEW r \in DataIn(outgoing'[Sender]) PROVE HasWriter(r)'
    OBVIOUS
  <2>1. Range(r.packets) \subseteq {i} \cup overlapped
    BY <1>3, <1>7, <1>13
  <2> QED
    BY <1>1, <1>4, <2>1 DEF HasWriter
<1>16. /\ \A r \in DataIn(outgoing'[Sender]) :
             Len(r.packets) > 1 => Range(r.packets) \subseteq overlapped
       /\ \A r, t \in DataIn(outgoing'[Sender]) :
             r # t => Range(r.packets) \subseteq overlapped
  <2>1. \A r \in DataIn(outgoing'[Sender]) :
             Len(r.packets) > 1 => Range(r.packets) \subseteq overlapped
    BY <1>3, <1>7 DEF PathInv, Alone
  <2>2. ASSUME NEW r \in DataIn(outgoing'[Sender]),
               NEW t \in DataIn(outgoing'[Sender]), r # t
        PROVE  Range(r.packets) \subseteq overlapped
    BY <1>3, <1>7, <1>13, <1>14, <2>2
  <2> QED
    BY <2>1, <2>2
<1>17. /\ \A r \in DataIn(outgoing[Sender])' : HasWriter(r)'
       /\ Alone(outgoing[Sender])'
  BY <1>1, <1>15, <1>16 DEF Alone, DataIn
<1>18. \A d \in net'[Receiver] : Alone(d)'
  BY <1>1, AloneGrows DEF PathInv
<1> QED
  BY <1>8, <1>9, <1>11, <1>12, <1>17, <1>18 DEF PathInv

\* ... and sends all that is in the BIO.
LEMMA SendKeeps ==
    ASSUME PathInv, NEW i \in Packet, SendDatagram(i)
    PROVE  PathInv'
<1>1. /\ call[i].pc = "dtls"
      /\ call' = [call EXCEPT ![i] = At("over", <<>>)]
      /\ outgoing' = [outgoing EXCEPT ![Sender] = <<>>]
      /\ UNCHANGED <<ssl, sctp_out, overlapped>>
  BY DEF SendDatagram
<1>2. \/ net' = [net EXCEPT ![Other(Sender)] = @ \cup {outgoing[Sender]}]
      \/ net' = net
  BY Ends DEF SendDatagram
<1>3. /\ ssl' \in [Peer -> Nat] /\ outgoing' \in [Peer -> Seq(Record)]
      /\ net' \in [Peer -> SUBSET Seq(Record)]
      /\ DataIn(outgoing'[Sender]) = {}
      /\ \A d \in net'[Receiver] : Alone(d)'
      /\ Alone(outgoing[Sender])'
  BY <1>1, <1>2, Ends, FlushKeeps
<1>4. /\ call'[i].pc = "over"
      /\ \A j \in Packet : j # i => call'[j] = call[j]
  BY <1>1 DEF PathInv, PathType, At
<1>5. PathType'
  <2>1. At("over", <<>>) \in [pc : {"none", "sctp", "ssl", "dtls", "over"},
                             buf : Seq(Packet)]
    BY DEF At
  <2> QED
    BY <1>1, <1>3, <2>1 DEF PathInv, PathType
<1>6. WritersCome'
  BY <1>1, <1>4 DEF PathInv, WritersCome, Range
<1>7. Busy' \subseteq Busy
  BY <1>4 DEF Busy
<1>8. BusyOverlap'
  BY <1>1, <1>7 DEF PathInv, BusyOverlap
<1>9. BufsAlone'
  <2>1. \A j \in Packet : call'[j].pc = "ssl" => j # i /\ call'[j] = call[j]
    BY <1>4
  <2>2. \A j \in Packet : call'[j].pc = "ssl" =>
           /\ Range(call'[j].buf) \subseteq {j} \cup overlapped
           /\ Len(call'[j].buf) > 1 => Range(call'[j].buf) \subseteq overlapped
    BY <2>1 DEF PathInv, BufsAlone
  <2>3. Len(sctp_out) > 1 => Range(sctp_out) \subseteq overlapped
    BY DEF PathInv, BufsAlone
  <2> QED
    BY <1>1, <2>2, <2>3 DEF BufsAlone, Range
<1>10. DataIn(outgoing[Sender])' = {}
  BY <1>3 DEF DataIn
<1> QED
  BY <1>3, <1>5, <1>6, <1>8, <1>9, <1>10 DEF PathInv

-----------------------------------------------------------------------------
LEMMA PathInvStep == PathInv /\ [PathNext]_allvars => PathInv'
<1> SUFFICES ASSUME PathInv, [PathNext]_allvars PROVE PathInv'
  OBVIOUS
<1>1. CASE UNCHANGED allvars
  BY <1>1, Ends, OtherStepsKeep
<1>2. CASE \E p \in Peer : SetupStep(p) \/ StartHandshake(p) \/ IceHandshake(p) \/ Network(p)
  BY <1>2, OtherStepsKeep
<1>3. CASE \E p \in Peer : IcePump(p)
  BY <1>3, IcePumpKeeps
<1>4. CASE \E i \in Packet : sctp_data_ready_cb(i)
  BY <1>4, ReadyKeeps
<1>5. CASE \E i \in Packet : CallStep(i)
  BY <1>5, TakeKeeps, EncryptKeeps, SendKeeps DEF CallStep
<1> QED
  BY <1>1, <1>2, <1>3, <1>4, <1>5 DEF PathNext

LEMMA PathInvHolds == PathSpec => []PathInv
BY PathInvInit, PathInvStep, PTL DEF PathSpec

\* However many packets there are: none waits in sctp's outgoing BIO without a
\* thread that has its BIO_read before it (sctp.c:278).
THEOREM NoneStrandedHolds == PathSpec => []NoneStranded
<1>1. PathInv => NoneStranded
  BY RangeNonEmpty DEF PathInv, PathType, WritersCome, NoneStranded
<1> QED
  BY <1>1, PathInvHolds, PTL

\* Packets that are run together in a record, or share a datagram, had calls
\* that overlapped (sctp.c:281, 237; ice.c:252).
THEOREM AloneTravelsAloneHolds == PathSpec => []AloneTravelsAlone
<1>1. PathInv => AloneTravelsAlone
  BY DEF PathInv, Alone, AloneTravelsAlone, Records
<1> QED
  BY <1>1, PathInvHolds, PTL

-----------------------------------------------------------------------------
(***************************************************************************)
(* The handshake of flights takes the one step PeerSetup has for it.       *)
(***************************************************************************)

Stages(r) == IF r = "CLIENT" THEN {1, 3, 5} ELSE IF r = "SERVER" THEN {0, 2, 4} ELSE {0}
FlightsOf(r) == IF r = "CLIENT" THEN {1, 3} ELSE {2, 4}

\* The flights of a peer that have left it.
Coming(p) ==
    Flights(incoming[Other(p)]) \cup UNION {Flights(d) : d \in net[Other(p)]}

\* How far the handshake of a peer is: it has sent what it may have sent by
\* now, through an ice_thread that sends, and has heard of a peer that sends
\* and has the other role.
HandshakeOf(p) ==
    /\ ssl[p] \in Stages(dtls_role[p])
    /\ \A f \in Flights(outgoing[p]) \cup Coming(p) :
          f \in FlightsOf(dtls_role[p]) /\ f <= ssl[p]
    /\ Coming(p) # {} => Sends(p)
    /\ ssl[p] >= 2 => Sends(Other(p)) /\ {dtls_role[p], dtls_role[Other(p)]} = Role
    /\ ssl[p] >= 3 => ssl[Other(p)] >= 2

HandshakeInv ==
    /\ PathInv
    /\ TypeOK
    /\ incoming \in [Peer -> Seq(Record)]
    /\ \A p \in Peer : HandshakeOf(p)

LEMMA FlightsEmpty == Flights(<<>>) = {}
BY RangeEmpty DEF Flights

LEMMA FlightsAppend ==
    ASSUME NEW s \in Seq(Record), NEW r \in Record
    PROVE  Flights(Append(s, r)) = Flights(s) \cup ({r.flight} \ {0})
<1>1. Range(Append(s, r)) = Range(s) \cup {r}
  BY RangeAppend
<1> QED
  BY <1>1 DEF Flights

LEMMA RangeConcat ==
    ASSUME NEW S, NEW s \in Seq(S), NEW t \in Seq(S)
    PROVE  /\ s \o t \in Seq(S)
           /\ Range(s \o t) = Range(s) \cup Range(t)
<1>1. /\ DOMAIN (s \o t) = 1 .. Len(s) + Len(t)
      /\ DOMAIN s = 1 .. Len(s) /\ DOMAIN t = 1 .. Len(t)
      /\ Len(s) \in Nat /\ Len(t) \in Nat
  OBVIOUS
<1>2. \A n \in 1 .. Len(s) : n \in 1 .. Len(s) + Len(t) /\ (s \o t)[n] = s[n]
  OBVIOUS
<1>3. \A n \in 1 .. Len(t) :
         Len(s) + n \in 1 .. Len(s) + Len(t) /\ (s \o t)[Len(s) + n] = t[n]
  OBVIOUS
<1>4. \A n \in 1 .. Len(s) + Len(t) :
         n \in 1 .. Len(s) \/ \E m \in 1 .. Len(t) : n = Len(s) + m
  <2> SUFFICES ASSUME NEW n \in 1 .. Len(s) + Len(t), n \notin 1 .. Len(s)
               PROVE  \E m \in 1 .. Len(t) : n = Len(s) + m
    OBVIOUS
  <2>1. n - Len(s) \in 1 .. Len(t) /\ n = Len(s) + (n - Len(s))
    BY <1>1
  <2> QED
    BY <2>1
<1>5. Range(s \o t) \subseteq Range(s) \cup Range(t)
  <2> SUFFICES ASSUME NEW n \in 1 .. Len(s) + Len(t)
               PROVE  (s \o t)[n] \in Range(s) \cup Range(t)
    BY <1>1 DEF Range
  <2>1. CASE n \in 1 .. Len(s)
    BY <1>1, <1>2, <2>1 DEF Range
  <2>2. CASE \E m \in 1 .. Len(t) : n = Len(s) + m
    BY <1>1, <1>3, <2>2 DEF Range
  <2> QED
    BY <1>4, <2>1, <2>2
<1>6. Range(s) \subseteq Range(s \o t)
  BY <1>1, <1>2 DEF Range
<1>7. Range(t) \subseteq Range(s \o t)
  BY <1>1, <1>3 DEF Range
<1> QED
  BY <1>5, <1>6, <1>7

\* What SSL has before it when a datagram arrives.
LEMMA RecordsOf ==
    ASSUME NEW p \in Peer, incoming[p] \in Seq(Record), NEW d \in Seq(Record),
           NEW records, records = incoming[p] \o Fresh(p, d)
    PROVE  /\ records \in Seq(Record) /\ Fresh(p, d) \in Seq(Record)
           /\ Range(Fresh(p, d)) \subseteq Range(d)
           /\ Flights(records) \subseteq Flights(incoming[p]) \cup Flights(d)
<1>1. Fresh(p, d) \in Seq(Record) /\ Range(Fresh(p, d)) \subseteq Range(d)
  BY KeptRecords DEF Fresh
<1>2. records \in Seq(Record) /\ Range(records) = Range(incoming[p]) \cup Range(Fresh(p, d))
  BY <1>1, RangeConcat
<1>3. Flights(records) \subseteq Flights(incoming[p]) \cup Flights(d)
  BY <1>1, <1>2 DEF Flights
<1> QED
  BY <1>1, <1>2, <1>3

-----------------------------------------------------------------------------
\* What SSL_do_handshake does to the flights.
NextFlight(p, r, heard) == IF r = "UNKNOWN" THEN ssl[p] ELSE SslNext(r, ssl[p], heard)

LEMMA HandshakeFlights ==
    ASSUME PathType, incoming \in [Peer -> Seq(Record)], NEW p \in Peer, NEW r,
           NEW records \in Seq(Record), SSL_do_handshake(p, r, records)
    PROVE  /\ NextFlight(p, r, Flights(records)) \in Nat
           /\ ssl' = [ssl EXCEPT ![p] = NextFlight(p, r, Flights(records))]
           /\ incoming' \in [Peer -> Seq(Record)]
           /\ Flights(incoming'[p]) \subseteq Flights(records)
           /\ \A q \in Peer : q # p => incoming'[q] = incoming[q] /\ outgoing'[q] = outgoing[q]
           /\ Flights(outgoing'[p]) \subseteq
                 Flights(outgoing[p]) \cup ({NextFlight(p, r, Flights(records))} \cap 1 .. 4)
<1> DEFINE heard == Flights(records)
           next == NextFlight(p, r, heard)
<1>1. next \in Nat /\ (next # ssl[p] => next # 0)
  BY DEF NextFlight, SslNext, PathType
<1>2. CASE r = "UNKNOWN"
  BY <1>2 DEF SSL_do_handshake, NextFlight, PathType
<1>3. CASE r # "UNKNOWN"
  <2>1. next = SslNext(r, ssl[p], heard)
    BY <1>3 DEF NextFlight
  <2>2. /\ ssl' = [ssl EXCEPT ![p] = next]
        /\ incoming' = [incoming EXCEPT ![p] = Kept(records, DataIn(records))]
        /\ \/ next \in 1 .. 4 /\ outgoing' = [outgoing EXCEPT ![p] = Append(@, Hello(next))]
           \/ UNCHANGED outgoing
    <3>1. next # 0 /\ next <= 4 => next \in 1 .. 4
      BY <1>1
    <3>2. next \in 1 .. 3 => next \in 1 .. 4
      BY <1>1
    <3> QED
      BY <1>1, <1>3, <2>1, <3>1, <3>2 DEF SSL_do_handshake
  <2> HIDE DEF next
  <2>3. /\ Kept(records, DataIn(records)) \in Seq(Record)
        /\ Range(Kept(records, DataIn(records))) \subseteq Range(records)
    BY KeptRecords
  <2>4. incoming' \in [Peer -> Seq(Record)] /\ Flights(incoming'[p]) \subseteq heard
    <3>1. incoming'[p] = Kept(records, DataIn(records))
      BY <2>2
    <3> QED
      BY <2>2, <2>3, <3>1 DEF Flights
  <2>5. \A q \in Peer : q # p => incoming'[q] = incoming[q] /\ outgoing'[q] = outgoing[q]
    BY <2>2 DEF PathType
  <2>6. CASE UNCHANGED outgoing
    BY <1>1, <2>2, <2>4, <2>5, <2>6 DEF next
  <2>7. CASE next \in 1 .. 4 /\ outgoing' = [outgoing EXCEPT ![p] = Append(@, Hello(next))]
    <3>1. Hello(next) \in Record /\ Hello(next).flight = next
      BY <1>1 DEF Hello, Record
    <3>2. outgoing'[p] = Append(outgoing[p], Hello(next)) /\ outgoing[p] \in Seq(Record)
      BY <2>7 DEF PathType
    <3>3. Flights(outgoing'[p]) \subseteq Flights(outgoing[p]) \cup {next}
      BY <3>1, <3>2, FlightsAppend
    <3> QED
      BY <1>1, <2>2, <2>4, <2>5, <2>7, <3>3 DEF next
  <2> QED
    BY <2>2, <2>6, <2>7
<1> QED
  BY <1>2, <1>3

\* SSL_read finds a data record, or there is none.
FirstData(records) == SelectInSeq(records, LAMBDA r : r.flight = 0)

LEMMA LeastExists ==
    ASSUME NEW S, S \subseteq Nat, S # {}
    PROVE  Min(S) \in S
<1>1. IsWellFoundedOn(OpToRel(<, Nat), Nat)
  BY NatLessThanWellFounded
<1>2. \E x \in S : \A y \in S : ~ (<<y, x>> \in OpToRel(<, Nat))
  BY <1>1, WFMin
<1>3. \A x, y \in Nat : y < x => <<y, x>> \in OpToRel(<, Nat)
  BY DEF OpToRel
<1>4. PICK x \in S : \A y \in S : ~ (y < x)
  BY <1>2, <1>3
<1>5. \A y \in S : x <= y
  BY <1>4
<1> QED
  BY <1>5 DEF Min

LEMMA FirstIsData ==
    ASSUME NEW s \in Seq(Record)
    PROVE  \/ FirstData(s) = 0 /\ DataIn(s) = {}
           \/ FirstData(s) \in 1 .. Len(s) /\ s[FirstData(s)].flight = 0
<1> DEFINE I == {i \in 1 .. Len(s) : s[i].flight = 0}
<1>1. FirstData(s) = IF I # {} THEN Min(I) ELSE 0
  BY DEF FirstData, SelectInSeq
<1>2. CASE I = {}
  <2>1. DOMAIN s = 1 .. Len(s)
    OBVIOUS
  <2>2. DataIn(s) = {}
    BY <1>2, <2>1 DEF DataIn, Range
  <2> QED
    BY <1>1, <1>2, <2>2
<1>3. CASE I # {}
  <2>1. I \subseteq Nat
    OBVIOUS
  <2>2. Min(I) \in I
    BY <1>3, <2>1, LeastExists
  <2>3. FirstData(s) \in I
    BY <1>1, <1>3, <2>2
  <2> QED
    BY <2>3
<1> QED
  BY <1>2, <1>3

\* What comes after a record of a sequence.
LEMMA RestOf ==
    ASSUME NEW S, NEW s \in Seq(S), NEW n \in 1 .. Len(s)
    PROVE  /\ SubSeq(s, n + 1, Len(s)) \in Seq(S)
           /\ Len(SubSeq(s, n + 1, Len(s))) = Len(s) - n
           /\ \A m \in 1 .. Len(s) - n :
                 SubSeq(s, n + 1, Len(s))[m] = s[n + m] /\ n + m \in 1 .. Len(s)
           /\ Range(SubSeq(s, n + 1, Len(s))) \subseteq Range(s)
<1> DEFINE t == SubSeq(s, n + 1, Len(s))
<1>1. t \in Seq(S) /\ Len(t) = Len(s) - n
  OBVIOUS
<1>2. \A m \in 1 .. Len(s) - n : t[m] = s[n + m] /\ n + m \in 1 .. Len(s)
  OBVIOUS
<1>3. DOMAIN t = 1 .. Len(s) - n /\ DOMAIN s = 1 .. Len(s)
  BY <1>1
<1> HIDE DEF t
<1>4. Range(t) \subseteq Range(s)
  BY <1>2, <1>3 DEF Range
<1> QED
  BY <1>1, <1>2, <1>4 DEF t

\* What SSL_read leaves of the records.
Rest(records) ==
    IF FirstData(records) = 0 THEN <<>>
    ELSE SubSeq(records, FirstData(records) + 1, Len(records))

LEMMA LeftOver ==
    ASSUME NEW s \in Seq(Record)
    PROVE  Rest(s) \in Seq(Record) /\ Range(Rest(s)) \subseteq Range(s)
<1>1. CASE FirstData(s) = 0
  BY <1>1, RangeEmpty DEF Rest
<1>2. CASE FirstData(s) \in 1 .. Len(s)
  BY <1>2, RestOf DEF Rest
<1> QED
  BY <1>1, <1>2, FirstIsData

\* What SSL_read does to the flights.
LEMMA ReadFlights ==
    ASSUME PathType, incoming \in [Peer -> Seq(Record)], NEW p \in Peer,
           NEW records \in Seq(Record), SSL_read(p, records)
    PROVE  /\ incoming' \in [Peer -> Seq(Record)]
           /\ Range(incoming'[p]) \subseteq Range(records)
           /\ \A q \in Peer : q # p => incoming'[q] = incoming[q] /\ outgoing'[q] = outgoing[q]
           /\ Flights(outgoing'[p]) \subseteq
                 Flights(outgoing[p]) \cup (IF ssl[p] = 4 THEN {4} ELSE {})
<1>1. incoming' = [incoming EXCEPT ![p] = Rest(records)]
  BY DEF SSL_read, Rest, FirstData
<1>2. \/ ssl[p] = 4 /\ outgoing' = [outgoing EXCEPT ![p] = Append(@, Hello(4))]
      \/ outgoing' = [outgoing EXCEPT ![p] = @]
  BY DEF SSL_read
<1>3. /\ incoming' \in [Peer -> Seq(Record)]
      /\ Range(incoming'[p]) \subseteq Range(records)
  BY <1>1, LeftOver
<1>4. \A q \in Peer : q # p => incoming'[q] = incoming[q] /\ outgoing'[q] = outgoing[q]
  BY <1>1, <1>2 DEF PathType
<1>5. CASE ssl[p] = 4 /\ outgoing' = [outgoing EXCEPT ![p] = Append(@, Hello(4))]
  <2>1. Hello(4) \in Record /\ Hello(4).flight = 4
    BY DEF Hello, Record
  <2>2. outgoing'[p] = Append(outgoing[p], Hello(4)) /\ outgoing[p] \in Seq(Record)
    BY <1>5 DEF PathType
  <2>3. Flights(outgoing'[p]) \subseteq Flights(outgoing[p]) \cup {4}
    BY <2>1, <2>2, FlightsAppend
  <2> QED
    BY <1>3, <1>4, <1>5, <2>3
<1>6. CASE outgoing' = [outgoing EXCEPT ![p] = @]
  <2>1. outgoing'[p] = outgoing[p]
    BY <1>6 DEF PathType
  <2> QED
    BY <1>3, <1>4, <2>1
<1> QED
  BY <1>2, <1>5, <1>6
-----------------------------------------------------------------------------
\* SSL gets on with the handshake of p, whose role is r from now on, with what
\* it had and what came over the network.
LEMMA HandshakeGoesOn ==
    ASSUME HandshakeInv, NEW p \in Peer, NEW r \in Role \cup {"UNKNOWN"},
           dtls_role[p] \in {r, "UNKNOWN"}, dtls_role' = [dtls_role EXCEPT ![p] = r],
           NEW records \in Seq(Record), SSL_do_handshake(p, r, records),
           Flights(records) \subseteq Coming(Other(p)),
           \A q \in Peer : Sends(q)' = Sends(q),
           \A q \in Peer : net'[q] \subseteq net[q],
           net'[Other(p)] = net[Other(p)]
    PROVE  \A q \in Peer : HandshakeOf(q)'
<1> DEFINE heard == Flights(records)
           next == NextFlight(p, r, heard)
<1>1. PICK q \in Peer : /\ q = Other(p) /\ p # q /\ Other(q) = p
                        /\ \A x \in Peer : x = p \/ x = q
  BY PeerFacts
<1>2. HandshakeOf(p) /\ HandshakeOf(q)
  BY <1>1 DEF HandshakeInv, PathInv
<1>3. /\ next \in Nat
      /\ ssl' = [ssl EXCEPT ![p] = next]
      /\ Flights(incoming'[p]) \subseteq heard
      /\ incoming'[q] = incoming[q] /\ outgoing'[q] = outgoing[q]
      /\ Flights(outgoing'[p]) \subseteq Flights(outgoing[p]) \cup ({next} \cap 1 .. 4)
  BY <1>1, HandshakeFlights DEF HandshakeInv, PathInv
<1>4. ssl'[p] = next /\ ssl'[q] = ssl[q] /\ dtls_role'[p] = r /\ dtls_role'[q] = dtls_role[q]
  BY <1>1, <1>3 DEF HandshakeInv, PathInv, PathType, TypeOK
<1> HIDE DEF heard
<1>5. Coming(p)' = Coming(p)
  <2>1. Coming(p)' = Flights(incoming'[Other(p)])
                     \cup UNION {Flights(d) : d \in net'[Other(p)]}
    BY DEF Coming
  <2> QED
    BY <1>1, <1>3, <2>1 DEF Coming
<1>6. Coming(q)' \subseteq Coming(q)
  <2>1. Coming(q)' = Flights(incoming'[p]) \cup UNION {Flights(d) : d \in net'[p]}
    BY <1>1 DEF Coming
  <2>2. UNION {Flights(d) : d \in net[p]} \subseteq Coming(q)
    BY <1>1 DEF Coming
  <2>3. UNION {Flights(d) : d \in net'[p]} \subseteq UNION {Flights(d) : d \in net[p]}
    OBVIOUS
  <2>4. heard \subseteq Coming(q)
    BY <1>1 DEF heard
  <2>5. Flights(incoming'[p]) \subseteq Coming(q)
    BY <1>3, <2>4
  <2>6. UNION {Flights(d) : d \in net'[p]} \subseteq Coming(q)
    BY <2>2, <2>3
  <2> QED
    BY <2>1, <2>5, <2>6
<1>7. \A f \in heard : f \in FlightsOf(dtls_role[q]) /\ f <= ssl[q] /\ Sends(q)
  BY <1>1, <1>2 DEF heard, HandshakeOf
<1>8. next = IF r = "UNKNOWN" THEN ssl[p]
             ELSE IF r = "CLIENT" /\ ssl[p] = 0 THEN 1
             ELSE IF ssl[p] + 1 \in heard THEN ssl[p] + 2
             ELSE ssl[p]
  BY DEF NextFlight, SslNext
<1> HIDE DEF next
<1>9. ssl[p] \in Nat /\ ssl[q] \in Nat
  BY <1>1 DEF HandshakeInv, PathInv, PathType
<1>10. next \in Stages(r) /\ next >= ssl[p]
  <2>1. ssl[p] \in Stages(dtls_role[p])
    BY <1>2 DEF HandshakeOf
  <2>2. \A f \in heard : f \in {1, 2, 3, 4}
    BY <1>7 DEF FlightsOf
  <2>3. CASE r = "UNKNOWN"
    BY <1>8, <1>9, <2>1, <2>3 DEF Stages
  <2>4. CASE r = "CLIENT"
    <3>1. ssl[p] \in {0, 1, 3, 5}
      BY <2>1, <2>4 DEF Stages
    <3>2. ssl[p] = 5 => ssl[p] + 1 \notin heard
      BY <2>2
    <3> QED
      BY <1>8, <2>4, <3>1, <3>2 DEF Stages
  <2>5. CASE r = "SERVER"
    <3>1. ssl[p] \in {0, 2, 4}
      BY <2>1, <2>5 DEF Stages
    <3>2. ssl[p] = 4 => ssl[p] + 1 \notin heard
      BY <2>2
    <3> QED
      BY <1>8, <2>5, <3>1, <3>2 DEF Stages
  <2> QED
    BY <2>3, <2>4, <2>5 DEF Role
<1>11. ssl[p] # 0 => dtls_role[p] = r
  BY <1>2, <1>9 DEF HandshakeOf, Stages
<1>12. next >= 2 => ssl[p] >= 2 \/ (ssl[p] + 1 \in heard /\ r # "UNKNOWN")
  BY <1>8, <1>9
<1>13. HandshakeOf(p)'
  <2>1. \A f \in Flights(outgoing'[p]) \cup Coming(p) : f \in FlightsOf(r) /\ f <= next
    <3>1. \A f \in Flights(outgoing[p]) \cup Coming(p) : f \in FlightsOf(r) /\ f <= next
      <4> SUFFICES ASSUME NEW f \in Flights(outgoing[p]) \cup Coming(p)
                   PROVE  f \in FlightsOf(r) /\ f <= next
        OBVIOUS
      <4>1. f \in FlightsOf(dtls_role[p]) /\ f <= ssl[p]
        BY <1>2 DEF HandshakeOf
      <4>2. f \in 1 .. 4
        BY <4>1 DEF FlightsOf
      <4>3. ssl[p] # 0
        BY <1>9, <4>1, <4>2
      <4> QED
        BY <1>3, <1>9, <1>10, <1>11, <4>1, <4>2, <4>3
    <3>2. next \in 1 .. 4 => next \in FlightsOf(r) /\ next <= next
      BY <1>10 DEF Stages, FlightsOf
    <3> QED
      BY <1>3, <3>1, <3>2
  <2>2. next >= 2 => Sends(q) /\ {r, dtls_role[q]} = Role
    <3>1. CASE ssl[p] >= 2
      BY <1>1, <1>2, <1>9, <1>11, <3>1 DEF HandshakeOf
    <3>2. CASE ssl[p] + 1 \in heard /\ r # "UNKNOWN" /\ next >= 2
      <4>1. ssl[p] + 1 \in FlightsOf(dtls_role[q]) /\ ssl[p] + 1 <= ssl[q] /\ Sends(q)
        BY <1>7, <3>2
      <4>2. dtls_role[q] # "UNKNOWN"
        BY <1>2, <1>9, <4>1 DEF HandshakeOf, Stages
      <4>3. dtls_role[q] \in Role /\ r \in Role
        BY <1>1, <3>2, <4>2 DEF HandshakeInv, PathInv, TypeOK
      <4>4. r = "CLIENT" => next \in {3, 5} /\ ssl[p] \in {1, 3}
        BY <1>2, <1>8, <1>9, <1>10, <1>11, <3>2 DEF Stages, HandshakeOf
      <4>5. r = "SERVER" => ssl[p] \in {0, 2, 4}
        BY <1>2, <1>9, <1>11 DEF Stages, HandshakeOf
      <4>6. r # dtls_role[q]
        BY <4>1, <4>3, <4>4, <4>5 DEF FlightsOf, Role
      <4> QED
        BY <4>1, <4>3, <4>6 DEF Role
    <3> QED
      BY <1>12, <3>1, <3>2
  <2>3. next >= 3 => ssl[q] >= 2
    <3>1. CASE ssl[p] >= 3
      BY <1>1, <1>2, <3>1 DEF HandshakeOf
    <3>2. CASE ssl[p] + 1 \in heard /\ next = ssl[p] + 2
      BY <1>7, <1>9, <3>2
    <3> QED
      BY <1>8, <1>9, <3>1, <3>2
  <2>4. Coming(p) # {} => Sends(p)
    BY <1>2 DEF HandshakeOf
  <2>5. HandshakeOf(p)' <=>
            /\ ssl'[p] \in Stages(dtls_role'[p])
            /\ \A f \in Flights(outgoing'[p]) \cup Coming(p)' :
                  f \in FlightsOf(dtls_role'[p]) /\ f <= ssl'[p]
            /\ Coming(p)' # {} => Sends(p)'
            /\ ssl'[p] >= 2 => Sends(q)' /\ {dtls_role'[p], dtls_role'[q]} = Role
            /\ ssl'[p] >= 3 => ssl'[q] >= 2
    BY <1>1 DEF HandshakeOf
  <2> QED
    BY <1>1, <1>4, <1>5, <1>10, <2>1, <2>2, <2>3, <2>4, <2>5
<1>14. HandshakeOf(q)'
  <2>1. HandshakeOf(q)' <=>
            /\ ssl'[q] \in Stages(dtls_role'[q])
            /\ \A f \in Flights(outgoing'[q]) \cup Coming(q)' :
                  f \in FlightsOf(dtls_role'[q]) /\ f <= ssl'[q]
            /\ Coming(q)' # {} => Sends(q)'
            /\ ssl'[q] >= 2 => Sends(p)' /\ {dtls_role'[q], dtls_role'[p]} = Role
            /\ ssl'[q] >= 3 => ssl'[p] >= 2
    BY <1>1 DEF HandshakeOf
  <2>2. ssl[q] >= 2 => Sends(p) /\ {dtls_role[q], r} = Role
    <3>1. ssl[q] >= 2 => Sends(p) /\ {dtls_role[q], dtls_role[p]} = Role
      BY <1>1, <1>2 DEF HandshakeOf
    <3>2. {dtls_role[q], dtls_role[p]} = Role => dtls_role[p] = r
      BY DEF Role
    <3> QED
      BY <3>1, <3>2
  <2>3. ssl[q] >= 3 => next >= 2
    BY <1>1, <1>2, <1>3, <1>9, <1>10 DEF HandshakeOf
  <2>4. ssl[q] \in Stages(dtls_role[q])
    BY <1>2 DEF HandshakeOf
  <2>5. \A f \in Flights(outgoing'[q]) \cup Coming(q)' :
            f \in FlightsOf(dtls_role[q]) /\ f <= ssl[q]
    BY <1>2, <1>3, <1>6 DEF HandshakeOf
  <2>6. Coming(q)' # {} => Sends(q)
    BY <1>2, <1>6 DEF HandshakeOf
  <2> QED
    BY <1>1, <1>4, <2>1, <2>2, <2>3, <2>4, <2>5, <2>6
<1> QED
  BY <1>1, <1>13, <1>14

\* The steps after which SSL is where it was: a flight less, or one again, or
\* one from the BIO into the network.
LEMMA HandshakeWaits ==
    ASSUME HandshakeInv, NEW p \in Peer, UNCHANGED <<ssl, dtls_role>>,
           \A q \in Peer : Sends(q) => Sends(q)',
           \A q \in Peer : q # p => outgoing'[q] = outgoing[q],
           Flights(outgoing'[p]) \subseteq
              Flights(outgoing[p]) \cup (IF ssl[p] = 4 THEN {4} ELSE {}),
           \/ Coming(p)' = Coming(p)
           \/ Sends(p) /\ Coming(p)' \subseteq Coming(p) \cup Flights(outgoing[p]),
           Coming(Other(p))' \subseteq Coming(Other(p))
    PROVE  \A q \in Peer : HandshakeOf(q)'
<1>1. PICK q \in Peer : /\ q = Other(p) /\ p # q /\ Other(q) = p
                        /\ \A x \in Peer : x = p \/ x = q
  BY PeerFacts
<1>2. HandshakeOf(p) /\ HandshakeOf(q)
  BY <1>1 DEF HandshakeInv, PathInv
<1>3. ASSUME NEW x \in Peer PROVE HandshakeOf(x)' <=>
            /\ ssl[x] \in Stages(dtls_role[x])
            /\ \A f \in Flights(outgoing'[x]) \cup Coming(x)' :
                  f \in FlightsOf(dtls_role[x]) /\ f <= ssl[x]
            /\ Coming(x)' # {} => Sends(x)'
            /\ ssl[x] >= 2 => Sends(Other(x))' /\ {dtls_role[x], dtls_role[Other(x)]} = Role
            /\ ssl[x] >= 3 => ssl[Other(x)] >= 2
  BY DEF HandshakeOf
<1>4. HandshakeOf(q)'
  <2>1. outgoing'[q] = outgoing[q] /\ Coming(q)' \subseteq Coming(q)
    BY <1>1
  <2> QED
    BY <1>1, <1>2, <1>3, <2>1 DEF HandshakeOf
<1>5. HandshakeOf(p)'
  <2>1. ssl[p] = 4 => 4 \in FlightsOf(dtls_role[p])
    BY <1>2 DEF HandshakeOf, Stages, FlightsOf
  <2>2. \A f \in Flights(outgoing'[p]) \cup Coming(p)' :
                  f \in FlightsOf(dtls_role[p]) /\ f <= ssl[p]
    <3>1. Coming(p)' \subseteq Coming(p) \cup Flights(outgoing[p])
      OBVIOUS
    <3>2. \A f \in Flights(outgoing[p]) \cup Coming(p) :
                  f \in FlightsOf(dtls_role[p]) /\ f <= ssl[p]
      BY <1>2 DEF HandshakeOf
    <3>3. ssl[p] = 4 => 4 <= ssl[p]
      OBVIOUS
    <3> QED
      BY <2>1, <3>1, <3>2, <3>3
  <2>3. Coming(p)' # {} => Sends(p)'
    BY <1>2 DEF HandshakeOf
  <2>4. /\ ssl[p] \in Stages(dtls_role[p])
        /\ ssl[p] >= 2 => Sends(q)' /\ {dtls_role[p], dtls_role[q]} = Role
        /\ ssl[p] >= 3 => ssl[q] >= 2
    BY <1>1, <1>2 DEF HandshakeOf
  <2> QED
    BY <1>1, <1>3, <2>2, <2>3, <2>4
<1> QED
  BY <1>1, <1>4, <1>5
-----------------------------------------------------------------------------
\* One step of the handshake, for each step of the path.
Steps == /\ incoming' \in [Peer -> Seq(Record)]
         /\ \A q \in Peer : HandshakeOf(q)'

LEMMA SetupSteps ==
    ASSUME HandshakeInv, NEW p \in Peer, SetupStep(p)
    PROVE  Steps
<1>1. UNCHANGED <<ssl, outgoing, incoming, net>>
  BY DEF SetupStep, path, handshake
<1>2. /\ UNCHANGED dtls_role
      /\ \A q \in Peer : Sends(q) => Sends(q)'
  <2>1. CASE \/ CreateFails(p) \/ GenerateCandidates(p) \/ GenerateOffer(p) \/ ParseOffer(p)
             \/ ParseCandidates(p) \/ StartSctp(p) \/ Connected(p) \/ ConnectFails(p)
    BY <2>1 DEF CreateFails, GenerateCandidates, GenerateOffer, ParseOffer, ParseCandidates,
                StartSctp, Connected, ConnectFails, ice, startup, sctp, Sends
  <2>2. CASE Loop(p) \/ GatheringDone(p) \/ PairSelected(p)
    BY <2>2 DEF HandshakeInv, TypeOK, Loop, GatheringDone, PairSelected, ice, startup, sctp, Sends
  <2> QED
    BY <2>1, <2>2 DEF SetupStep
<1>3. \A q \in Peer : Coming(q)' = Coming(q)
  BY <1>1 DEF Coming
<1>4. Other(p) \in Peer
  BY PeerFacts
<1>5. \A q \in Peer : HandshakeOf(q)'
  BY <1>1, <1>2, <1>3, <1>4, HandshakeWaits
<1>6. incoming' \in [Peer -> Seq(Record)]
  BY <1>1 DEF HandshakeInv
<1> QED
  BY <1>5, <1>6 DEF Steps

\* The steps that drive SSL_do_handshake.
LEMMA DrivenSteps ==
    ASSUME HandshakeInv, NEW p \in Peer, StartHandshake(p) \/ IceHandshake(p)
    PROVE  Steps
<1> DEFINE r == IF StartHandshake(p) THEN role[p] ELSE dtls_role[p]
<1>1. /\ r \in Role \cup {"UNKNOWN"} /\ dtls_role[p] \in {r, "UNKNOWN"}
      /\ dtls_role' = [dtls_role EXCEPT ![p] = r]
      /\ SSL_do_handshake(p, r, incoming[p])
      /\ net' = net
      /\ UNCHANGED <<looping, ice>>
  <2>1. CASE StartHandshake(p)
    BY <2>1 DEF HandshakeInv, TypeOK, StartHandshake, StartDtls
  <2>2. CASE ~StartHandshake(p)
    <3>1. r = dtls_role[p] /\ IceHandshake(p)
      BY <2>2
    <3>2. dtls_role' = dtls_role
      BY <3>1 DEF IceHandshake
    <3>3. dtls_role' = [dtls_role EXCEPT ![p] = r]
      BY <3>1, <3>2 DEF HandshakeInv, TypeOK
    <3> HIDE DEF r
    <3> QED
      BY <3>1, <3>3 DEF HandshakeInv, TypeOK, IceHandshake
  <2> QED
    BY <2>1, <2>2
<1> HIDE DEF r
<1>2. incoming[p] \in Seq(Record) /\ Other(p) \in Peer /\ Other(Other(p)) = p
  BY PeerFacts DEF HandshakeInv
<1>3. Flights(incoming[p]) \subseteq Coming(Other(p))
  BY <1>2 DEF Coming
<1>4. \A q \in Peer : Sends(q)' = Sends(q)
  BY <1>1 DEF Sends, ice
<1>5. incoming' \in [Peer -> Seq(Record)]
  BY <1>1, <1>2, HandshakeFlights DEF HandshakeInv, PathInv
<1>6. \A q \in Peer : HandshakeOf(q)'
  BY <1>1, <1>2, <1>3, <1>4, HandshakeGoesOn
<1> QED
  BY <1>5, <1>6 DEF Steps

\* A BIO that becomes a datagram.
LEMMA FlushSteps ==
    ASSUME HandshakeInv, NEW p \in Peer, Sends(p),
           UNCHANGED <<ssl, incoming, dtls_role, looping, ice>>,
           outgoing' = [outgoing EXCEPT ![p] = <<>>],
           net' = [net EXCEPT ![Other(p)] = @ \cup {outgoing[p]}] \/ net' = net
    PROVE  Steps
<1>1. PICK q \in Peer : q = Other(p) /\ p # q /\ Other(q) = p
  BY PeerFacts
<1>2. outgoing'[p] = <<>> /\ outgoing'[q] = outgoing[q]
  BY <1>1 DEF HandshakeInv, PathInv, PathType
<1>3. net'[p] = net[p] /\ net'[q] \subseteq net[q] \cup {outgoing[p]}
  BY <1>1 DEF HandshakeInv, PathInv, PathType
<1>4. Coming(q)' = Coming(q)
  <2>1. Coming(q)' = Flights(incoming'[p]) \cup (UNION {Flights(d) : d \in net'[p]})
    BY <1>1 DEF Coming
  <2> QED
    BY <1>1, <1>3, <2>1 DEF Coming
<1>5. Coming(p)' \subseteq Coming(p) \cup Flights(outgoing[p])
  <2>1. Coming(p)' = Flights(incoming'[q]) \cup (UNION {Flights(d) : d \in net'[q]})
    BY <1>1 DEF Coming
  <2>2. Coming(p) = Flights(incoming[q]) \cup (UNION {Flights(d) : d \in net[q]})
    BY <1>1 DEF Coming
  <2>3. UNION {Flights(d) : d \in net'[q]} \subseteq
            (UNION {Flights(d) : d \in net[q]}) \cup Flights(outgoing[p])
    BY <1>3
  <2> QED
    BY <2>1, <2>2, <2>3
<1>6. \A x \in Peer : Sends(x) => Sends(x)'
  BY DEF Sends, ice
<1>7. \A x \in Peer : x # p => outgoing'[x] = outgoing[x]
  BY DEF HandshakeInv, PathInv, PathType
<1>8. Flights(outgoing'[p]) = {}
  BY <1>2, FlightsEmpty
<1>9. \A x \in Peer : HandshakeOf(x)'
  BY <1>1, <1>4, <1>5, <1>6, <1>7, <1>8, HandshakeWaits
<1> QED
  BY <1>9 DEF Steps, HandshakeInv

\* A datagram that arrives or does not.
LEMMA NetworkSteps ==
    ASSUME HandshakeInv, NEW p \in Peer, NEW d \in net[p],
           data_received_cb(p, d) \/ Lose(p, d)
    PROVE  Steps
<1>1. PICK q \in Peer : q = Other(p) /\ p # q /\ Other(q) = p
  BY PeerFacts
<1>2. net' = [net EXCEPT ![p] = @ \ {d}] \/ net' = net
  BY DEF data_received_cb, Lose
<1>3. net'[q] = net[q] /\ \A x \in Peer : net'[x] \subseteq net[x]
  BY <1>1, <1>2 DEF HandshakeInv, PathInv, PathType
<1>4. d \in Seq(Record) /\ incoming[p] \in Seq(Record)
  BY DEF HandshakeInv, PathInv, PathType
<1>5. Coming(q) = Flights(incoming[p]) \cup (UNION {Flights(e) : e \in net[p]})
  BY <1>1 DEF Coming
<1>6. Flights(incoming[p]) \cup Flights(d) \subseteq Coming(q)
  BY <1>5
<1>7. UNCHANGED <<dtls_role, looping, ice>>
  BY DEF data_received_cb, Lose, vars, startup, sctp
<1>8. \A x \in Peer : Sends(x)' = Sends(x)
  BY <1>7 DEF Sends, ice
<1>9. Coming(q)' = Flights(incoming'[p]) \cup (UNION {Flights(e) : e \in net'[p]})
  BY <1>1 DEF Coming
<1>10. Coming(p)' = Flights(incoming'[q]) \cup (UNION {Flights(e) : e \in net'[q]})
  BY <1>1 DEF Coming
<1>11. CASE UNCHANGED <<ssl, outgoing, incoming>>
  <2>1. Coming(q)' \subseteq Coming(q)
    BY <1>3, <1>5, <1>9, <1>11
  <2>2. Coming(p)' = Coming(p)
    BY <1>1, <1>3, <1>10, <1>11 DEF Coming
  <2>3. \A x \in Peer : HandshakeOf(x)'
    BY <1>1, <1>7, <1>8, <1>11, <2>1, <2>2, HandshakeWaits
  <2> QED
    BY <1>11, <2>3 DEF Steps, HandshakeInv
<1>12. CASE \E records \in {incoming[p] \o Fresh(p, d)} :
               SSL_read(p, records) /\ UNCHANGED ssl
  <2>1. PICK records : records = incoming[p] \o Fresh(p, d)
                       /\ SSL_read(p, records) /\ UNCHANGED ssl
    BY <1>12
  <2>2. records \in Seq(Record)
        /\ Flights(records) \subseteq Flights(incoming[p]) \cup Flights(d)
    BY <1>4, <2>1, RecordsOf
  <2>3. /\ incoming' \in [Peer -> Seq(Record)]
        /\ Range(incoming'[p]) \subseteq Range(records)
        /\ \A x \in Peer : x # p => incoming'[x] = incoming[x] /\ outgoing'[x] = outgoing[x]
        /\ Flights(outgoing'[p]) \subseteq
                 Flights(outgoing[p]) \cup (IF ssl[p] = 4 THEN {4} ELSE {})
    BY <2>1, <2>2, ReadFlights DEF HandshakeInv, PathInv
  <2>4. Flights(incoming'[p]) \subseteq Coming(q)
    <3>1. Flights(incoming'[p]) \subseteq Flights(records)
      BY <2>3 DEF Flights
    <3> QED
      BY <1>6, <2>2, <3>1
  <2>5. Coming(q)' \subseteq Coming(q)
    BY <1>3, <1>5, <1>9, <2>4
  <2>6. Coming(p)' = Coming(p)
    BY <1>1, <1>3, <1>10, <2>3 DEF Coming
  <2>7. \A x \in Peer : HandshakeOf(x)'
    BY <1>1, <1>7, <1>8, <2>1, <2>3, <2>5, <2>6, HandshakeWaits
  <2> QED
    BY <2>3, <2>7 DEF Steps
<1>13. CASE \E records \in {incoming[p] \o Fresh(p, d)} :
               SSL_do_handshake(p, dtls_role[p], records)
  <2>1. PICK records : records = incoming[p] \o Fresh(p, d)
                       /\ SSL_do_handshake(p, dtls_role[p], records)
    BY <1>13
  <2>2. records \in Seq(Record)
        /\ Flights(records) \subseteq Flights(incoming[p]) \cup Flights(d)
    BY <1>4, <2>1, RecordsOf
  <2>3. /\ dtls_role[p] \in Role \cup {"UNKNOWN"}
        /\ dtls_role' = [dtls_role EXCEPT ![p] = dtls_role[p]]
    BY <1>7 DEF HandshakeInv, TypeOK
  <2>4. Flights(records) \subseteq Coming(Other(p)) /\ net'[Other(p)] = net[Other(p)]
    BY <1>1, <1>3, <1>6, <2>2
  <2>5. incoming' \in [Peer -> Seq(Record)]
    BY <2>1, <2>2, HandshakeFlights DEF HandshakeInv, PathInv
  <2>6. \A x \in Peer : HandshakeOf(x)'
    BY <1>3, <1>8, <2>1, <2>2, <2>3, <2>4, HandshakeGoesOn
  <2> QED
    BY <2>5, <2>6 DEF Steps
<1> QED
  BY <1>11, <1>12, <1>13 DEF data_received_cb, Lose

\* A call of sctp_data_ready_cb puts no flight anywhere.
LEMMA CallSteps ==
    ASSUME HandshakeInv, NEW i \in Packet, sctp_data_ready_cb(i) \/ CallStep(i)
    PROVE  Steps
<1>1. CASE SendDatagram(i)
  <2>1. /\ Sends(Sender) /\ Other(Sender) = Receiver /\ Sender \in Peer
        /\ UNCHANGED <<ssl, incoming, dtls_role, looping, ice>>
        /\ outgoing' = [outgoing EXCEPT ![Sender] = <<>>]
        /\ \/ net' = [net EXCEPT ![Receiver] = @ \cup {outgoing[Sender]}]
           \/ net' = net
    BY <1>1, Ends DEF SendDatagram, vars, startup, sctp
  <2> QED
    BY <2>1, FlushSteps
<1>2. CASE sctp_data_ready_cb(i) \/ TakePackets(i) \/ Encrypt(i)
  <2>1. UNCHANGED <<ssl, incoming, net, dtls_role, looping, ice>>
    BY <1>2 DEF sctp_data_ready_cb, TakePackets, Encrypt, handshake, vars, startup, sctp
  <2>2. /\ \A q \in Peer : q # Sender => outgoing'[q] = outgoing[q]
        /\ Flights(outgoing'[Sender]) \subseteq Flights(outgoing[Sender])
    <3>1. CASE sctp_data_ready_cb(i) \/ TakePackets(i)
      BY <3>1 DEF sctp_data_ready_cb, TakePackets, handshake
    <3>2. CASE Encrypt(i)
      <4>1. Data(call[i].buf) \in Record /\ Data(call[i].buf).flight = 0
        BY DEF HandshakeInv, PathInv, PathType, Data, Record
      <4>2. outgoing[Sender] \in Seq(Record)
        BY Ends DEF HandshakeInv, PathInv, PathType
      <4>3. outgoing' = [outgoing EXCEPT ![Sender] = Append(@, Data(call[i].buf))]
        BY <3>2 DEF Encrypt
      <4>4. /\ \A q \in Peer : q # Sender => outgoing'[q] = outgoing[q]
            /\ outgoing'[Sender] = Append(outgoing[Sender], Data(call[i].buf))
        BY <4>3, Ends DEF HandshakeInv, PathInv, PathType
      <4> QED
        BY <4>1, <4>2, <4>4, FlightsAppend
    <3> QED
      BY <1>2, <3>1, <3>2
  <2>3. \A q \in Peer : Coming(q)' = Coming(q)
    BY <2>1 DEF Coming
  <2>4. \A q \in Peer : Sends(q) => Sends(q)'
    BY <2>1 DEF Sends, ice
  <2>5. \A q \in Peer : HandshakeOf(q)'
    BY <2>1, <2>2, <2>3, <2>4, Ends, HandshakeWaits
  <2> QED
    BY <2>1, <2>5 DEF Steps, HandshakeInv
<1> QED
  BY <1>1, <1>2 DEF CallStep

LEMMA StepsHold == HandshakeInv /\ [PathNext]_allvars => Steps
<1> SUFFICES ASSUME HandshakeInv, [PathNext]_allvars PROVE Steps
  OBVIOUS
<1>1. CASE UNCHANGED allvars
  <2>1. UNCHANGED <<ssl, outgoing, incoming, net, dtls_role, looping, ice>>
    BY <1>1 DEF allvars, path, handshake, vars, startup, sctp
  <2>2. \A q \in Peer : Coming(q)' = Coming(q)
    BY <2>1 DEF Coming
  <2>3. \A q \in Peer : Sends(q) => Sends(q)'
    BY <2>1 DEF Sends, ice
  <2>4. \A q \in Peer : HandshakeOf(q)'
    BY <2>1, <2>2, <2>3, Ends, HandshakeWaits
  <2> QED
    BY <2>1, <2>4 DEF Steps, HandshakeInv
<1>2. CASE \E p \in Peer : IcePump(p)
  <2>1. PICK p \in Peer : IcePump(p)
    BY <1>2
  <2>2. /\ Sends(p)
        /\ UNCHANGED <<ssl, incoming, dtls_role, looping, ice>>
        /\ outgoing' = [outgoing EXCEPT ![p] = <<>>]
        /\ net' = [net EXCEPT ![Other(p)] = @ \cup {outgoing[p]}]
    BY <2>1 DEF IcePump, vars, startup, sctp
  <2> QED
    BY <2>2, FlushSteps
<1>3. CASE \E p \in Peer : SetupStep(p) \/ StartHandshake(p) \/ IceHandshake(p) \/ Network(p)
  BY <1>3, SetupSteps, DrivenSteps, NetworkSteps DEF Network
<1>4. CASE \E i \in Packet : sctp_data_ready_cb(i) \/ CallStep(i)
  BY <1>4, CallSteps
<1> QED
  BY <1>1, <1>2, <1>3, <1>4 DEF PathNext

-----------------------------------------------------------------------------
\* Once SSL is done, DtlsDone may happen: both peers send, and have found out
\* their roles.
AllHandshakes == \A q \in Peer : HandshakeOf(q)
DoneIsReady ==
    \A p \in Peer : ssl[p] >= 4 /\ ssl[p] \in Int /\ ssl[Other(p)] \in Int =>
       (\A q \in Peer : Sends(q)) /\ {dtls_role[q] : q \in Peer} = Role

LEMMA DoneMeansReady == AllHandshakes => DoneIsReady
<1> SUFFICES ASSUME AllHandshakes, NEW p \in Peer,
                    ssl[p] >= 4, ssl[p] \in Int, ssl[Other(p)] \in Int
             PROVE  (\A q \in Peer : Sends(q)) /\ {dtls_role[q] : q \in Peer} = Role
  BY DEF DoneIsReady
<1>1. PICK q \in Peer : q = Other(p) /\ Other(q) = p /\ \A x \in Peer : x = p \/ x = q
  BY PeerFacts
<1>2. Sends(q) /\ {dtls_role[p], dtls_role[q]} = Role /\ ssl[q] >= 2
  BY <1>1 DEF HandshakeOf, AllHandshakes
<1>3. Sends(p)
  BY <1>1, <1>2 DEF HandshakeOf, AllHandshakes
<1>4. {dtls_role[x] : x \in Peer} = {dtls_role[p], dtls_role[q]}
  BY <1>1
<1> QED
  BY <1>1, <1>2, <1>3, <1>4

LEMMA TypeKept == TypeOK /\ [Next]_vars => TypeOK'
<1> SUFFICES ASSUME TypeOK, [Next]_vars PROVE TypeOK'
  OBVIOUS
<1>1. CASE UNCHANGED vars
  BY <1>1 DEF TypeOK, vars, sdp, ice, startup, sctp
<1>2. ASSUME NEW p \in Peer, CreateFails(p) PROVE TypeOK'
  BY <1>2 DEF TypeOK, CreateFails, ice, startup, sctp, Role
<1>3. ASSUME NEW p \in Peer, GenerateCandidates(p) PROVE TypeOK'
  BY <1>3 DEF TypeOK, GenerateCandidates, RoleInUse, ice, startup, sctp, Role
<1>4. ASSUME NEW p \in Peer, GenerateOffer(p) PROVE TypeOK'
  <2>1. SetupOf(RoleInUse(p)) \in Setup
    BY DEF SetupOf, Setup
  <2>2. RoleInUse(p) \in Role \cup {"UNKNOWN"}
    BY DEF TypeOK, RoleInUse, Role
  <2>3. generated' \in [Peer -> SUBSET Setup]
    BY <1>4, <2>1 DEF TypeOK, GenerateOffer
  <2> QED
    BY <1>4, <2>2, <2>3 DEF TypeOK, GenerateOffer, ice, startup, sctp
<1>5. ASSUME NEW p \in Peer, ParseOffer(p) PROVE TypeOK'
  <2>1. PICK s : role' = [role EXCEPT ![p] = AnswerTo(RoleInUse(p), s)]
    BY <1>5 DEF ParseOffer
  <2>2. AnswerTo(RoleInUse(p), s) \in Role \cup {"UNKNOWN"}
    BY DEF TypeOK, RoleInUse, AnswerTo, Role
  <2>3. PICK accepted \in BOOLEAN : parsed' = [parsed EXCEPT ![p] = @ \/ accepted]
    BY <1>5 DEF ParseOffer
  <2>4. parsed' \in [Peer -> BOOLEAN]
    BY <2>3 DEF TypeOK
  <2> QED
    BY <1>5, <2>1, <2>2, <2>4 DEF TypeOK, ParseOffer, ice, startup, sctp
<1>6. ASSUME NEW p \in Peer,
             ParseCandidates(p) \/ Loop(p) \/ GatheringDone(p) \/ PairSelected(p)
      PROVE  TypeOK'
  BY <1>6 DEF TypeOK, ParseCandidates, Loop, GatheringDone, PairSelected, sdp, ice, startup, sctp
<1>7. ASSUME NEW p \in Peer, Startup(p) \/ ConnectFails(p) PROVE TypeOK'
  BY <1>7 DEF TypeOK, Startup, StartDtls, DtlsDone, StartSctp, Connected, ConnectFails, sdp,
              ice, sctp
<1> QED
  BY <1>1, <1>2, <1>3, <1>4, <1>5, <1>6, <1>7 DEF Next

\* DtlsDone, in the two places that set handshake_done.
LEMMA DrivenIsDone ==
    ASSUME HandshakeInv, Steps, PathInv', NEW p \in Peer, IceHandshake(p)
    PROVE  DtlsDone(p) \/ UNCHANGED vars
<1>1. /\ ~dtls_done[p]
      /\ dtls_done' = [dtls_done EXCEPT ![p] = ssl'[p] >= 4]
      /\ UNCHANGED <<sdp, looping, ice, dtls_role, sctp>>
  BY DEF IceHandshake, SSL_is_init_finished
<1>2. CASE ssl'[p] >= 4
  <2>1. AllHandshakes' => DoneIsReady'
    BY DoneMeansReady, PTL
  <2>2. ssl'[p] \in Int /\ ssl'[Other(p)] \in Int
    BY PeerFacts DEF PathInv, PathType
  <2>3. (\A q \in Peer : Sends(q)') /\ {dtls_role'[q] : q \in Peer} = Role
    BY <1>2, <2>1, <2>2 DEF Steps, AllHandshakes, DoneIsReady
  <2>4. (\A q \in Peer : Sends(q)) /\ {dtls_role[q] : q \in Peer} = Role
    BY <1>1, <2>3 DEF Sends, ice
  <2>5. dtls_done' = [dtls_done EXCEPT ![p] = TRUE]
    BY <1>1, <1>2
  <2> QED
    BY <1>1, <2>4, <2>5 DEF DtlsDone
<1>3. CASE ~(ssl'[p] >= 4)
  <2>1. dtls_done[p] = FALSE /\ dtls_done \in [Peer -> BOOLEAN]
    BY <1>1 DEF HandshakeInv, TypeOK
  <2>2. dtls_done' = dtls_done
    <3>1. (ssl'[p] >= 4) = FALSE
      BY <1>3
    <3>2. dtls_done' = [dtls_done EXCEPT ![p] = FALSE]
      BY <1>1, <3>1
    <3> QED
      BY <2>1, <3>2
  <2> QED
    BY <1>1, <2>2 DEF vars, sdp, ice, startup, sctp
<1> QED
  BY <1>2, <1>3

LEMMA HeardIsDone ==
    ASSUME HandshakeInv, NEW p \in Peer, NEW d \in net[p], data_received_cb(p, d)
    PROVE  DtlsDone(p) \/ UNCHANGED vars
<1>1. CASE ~negotiated[p]
  BY <1>1 DEF data_received_cb
<1>2. CASE negotiated[p]
  <2> DEFINE done == dtls_done[p] \/ ssl[p] >= 4
  <2>1. /\ dtls_done' = [dtls_done EXCEPT ![p] = done]
        /\ UNCHANGED <<sdp, looping, ice, dtls_role, sctp>>
    BY <1>2 DEF data_received_cb, SSL_is_init_finished
  <2>2. CASE ~dtls_done[p] /\ ssl[p] >= 4
    <3>1. ssl[p] \in Int /\ ssl[Other(p)] \in Int
      BY PeerFacts DEF HandshakeInv, PathInv, PathType
    <3>2. (\A q \in Peer : Sends(q)) /\ {dtls_role[q] : q \in Peer} = Role
      BY <2>2, <3>1, DoneMeansReady DEF HandshakeInv, AllHandshakes, DoneIsReady
    <3>3. dtls_done' = [dtls_done EXCEPT ![p] = TRUE]
      BY <2>1, <2>2
    <3> QED
      BY <2>1, <2>2, <3>2, <3>3 DEF DtlsDone
  <2>3. CASE dtls_done[p] \/ ~(ssl[p] >= 4)
    <3>1. done = dtls_done[p]
      BY <2>3 DEF HandshakeInv, TypeOK
    <3>2. dtls_done' = dtls_done
      BY <2>1, <3>1 DEF HandshakeInv, TypeOK
    <3> QED
      BY <2>1, <3>2 DEF vars, sdp, ice, startup, sctp
  <2> QED
    BY <2>2, <2>3
<1> QED
  BY <1>1, <1>2

LEMMA SetupSimulated ==
    HandshakeInv /\ Steps /\ PathInv' /\ [PathNext]_allvars => [Next]_vars
<1> SUFFICES ASSUME HandshakeInv, Steps, PathInv', [PathNext]_allvars PROVE [Next]_vars
  OBVIOUS
<1>1. CASE UNCHANGED allvars
  BY <1>1 DEF allvars
<1>2. ASSUME NEW p \in Peer, SetupStep(p) PROVE Next
  BY <1>2 DEF SetupStep, Next, Startup
<1>3. ASSUME NEW p \in Peer, StartHandshake(p) PROVE Next
  BY <1>3 DEF StartHandshake, Next, Startup
<1>4. ASSUME NEW p \in Peer, IcePump(p) PROVE UNCHANGED vars
  BY <1>4 DEF IcePump
<1>5. ASSUME NEW p \in Peer, IceHandshake(p) PROVE [Next]_vars
  BY <1>5, DrivenIsDone DEF Next, Startup
<1>6. ASSUME NEW p \in Peer, Network(p) PROVE [Next]_vars
  <2>1. PICK d \in net[p] : data_received_cb(p, d) \/ Lose(p, d)
    BY <1>6 DEF Network
  <2>2. DtlsDone(p) \/ UNCHANGED vars
    <3>1. CASE data_received_cb(p, d)
      BY <3>1, HeardIsDone
    <3>2. CASE Lose(p, d)
      BY <3>2 DEF Lose
    <3> QED
      BY <2>1, <3>1, <3>2
  <2> QED
    BY <2>2 DEF Next, Startup
<1>7. ASSUME NEW i \in Packet, sctp_data_ready_cb(i) \/ CallStep(i) PROVE UNCHANGED vars
  BY <1>7 DEF sctp_data_ready_cb, CallStep, TakePackets, Encrypt, SendDatagram
<1> QED
  BY <1>1, <1>2, <1>3, <1>4, <1>5, <1>6, <1>7 DEF PathNext

LEMMA HandshakeInit == PathInit => HandshakeInv
<1> SUFFICES ASSUME PathInit PROVE HandshakeInv
  OBVIOUS
<1>1. PathInv
  BY PathInvInit
<1>2. TypeOK
  BY DEF PathInit, Init, TypeOK, Role
<1>3. incoming \in [Peer -> Seq(Record)]
  BY DEF PathInit
<1>4. ASSUME NEW p \in Peer PROVE HandshakeOf(p)
  <2>1. Other(p) \in Peer
    BY PeerFacts
  <2>2. ssl[p] = 0 /\ dtls_role[p] = "UNKNOWN" /\ outgoing[p] = <<>>
        /\ net[Other(p)] = {} /\ incoming[Other(p)] = <<>>
    BY <2>1 DEF PathInit, Init
  <2>3. Coming(p) = {} /\ Flights(outgoing[p]) = {}
    BY <2>2, FlightsEmpty DEF Coming
  <2> QED
    BY <2>2, <2>3 DEF HandshakeOf, Stages
<1> QED
  BY <1>1, <1>2, <1>3, <1>4 DEF HandshakeInv

LEMMA HandshakeStepKeeps == HandshakeInv /\ [PathNext]_allvars => HandshakeInv' /\ [Next]_vars
<1> SUFFICES ASSUME HandshakeInv, [PathNext]_allvars PROVE HandshakeInv' /\ [Next]_vars
  OBVIOUS
<1>1. Steps
  BY StepsHold
<1>2. PathInv'
  BY PathInvStep DEF HandshakeInv
<1>3. [Next]_vars
  BY <1>1, <1>2, SetupSimulated
<1>4. TypeOK'
  BY <1>3, TypeKept DEF HandshakeInv
<1> QED
  BY <1>1, <1>2, <1>3, <1>4 DEF HandshakeInv, Steps

LEMMA PathIsSetup == PathSpec => Spec
<1>1. PathInit => Init
  BY DEF PathInit
<1> QED
  BY <1>1, HandshakeInit, HandshakeStepKeeps, PTL DEF PathSpec, Spec

LEMMA SetupIsCoarse == Spec => Coarse!Spec
<1>1. Init => Coarse!Init
  BY DEF Init, Coarse!Init, Peer, Coarse!Peer
<1>2. [Next]_vars => [Coarse!Next]_Coarse!vars
  BY DEF
    Next, Coarse!Next, vars, Coarse!vars, CreateFails, Coarse!CreateFails,
    GenerateCandidates, Coarse!GenerateCandidates, GenerateOffer,
    Coarse!GenerateOffer, ParseOffer, Coarse!ParseOffer, Loop,
    Coarse!Loop, GatheringDone, Coarse!GatheringDone, PairSelected,
    Coarse!PairSelected, Startup, Coarse!Startup, StartDtls,
    Coarse!StartDtls, DtlsDone, Coarse!DtlsDone, StartSctp,
    Coarse!StartSctp, Connected, Coarse!Connected, Peer, Coarse!Peer,
    Role, Coarse!Role, sdp, Coarse!sdp, ice, Coarse!ice, startup,
    Coarse!startup, sctp, Coarse!sctp,
    ParseCandidates, Coarse!ParseCandidates, Known, Coarse!Known, ConnectFails,
    Coarse!ConnectFails, RoleInUse, Coarse!RoleInUse, SetupOf, Coarse!SetupOf,
    AnswerTo, Coarse!AnswerTo, Other, Coarse!Other, Sends, Coarse!Sends
<1> QED
  BY <1>1, <1>2, PTL DEF Spec, Coarse!Spec

\* The handshake of flights, with its timers and the datagrams that get lost,
\* repeated or overtaken, takes no step that PeerSetup has not: the safety part
\* of RefinesSetup (rtcdc.c:372 to 381, ice.c:100 to 113, 262 to 269).
THEOREM PathRefinesSetup == PathSpec => Coarse!Spec
BY PathIsSetup, SetupIsCoarse, PTL

\* So the roles of the peers of a handshake that is played out agree, ...
THEOREM PathRolesAgree == AnswerLast => (PathSpec => []RolesAgree)
BY PathIsSetup, RolesAgreeHolds, PTL

\* ... and its pipeline has all it waits for, as in PeerSetup.
THEOREM PathPipelineReady == AnswerLast => (PathSpec => []PipelineReady)
BY PathIsSetup, PipelineReadyHolds, PTL

-----------------------------------------------------------------------------
(***************************************************************************)
(* The path is the lossy path that SCTP takes it for.                      *)
(***************************************************************************)

\* The threads that have read packets and not yet encrypted them, and the data
\* records there are.
Encrypting == {i \in Packet : call[i].pc = "ssl"}
Written == seen \cup DataIn(outgoing[Sender]) \cup (UNION {DataIn(d) : d \in net[Receiver]})

\* A packet that was handed over is in one place: in sctp's outgoing BIO, with
\* one of the threads, or in records.
Placed ==
    /\ Range(sctp_out) \subseteq HandedOver
    /\ \A i \in Encrypting :
          /\ call[i].buf # <<>>
          /\ Range(call[i].buf) \subseteq HandedOver \ Range(sctp_out)
          /\ \A j \in Encrypting : i # j => Range(call[i].buf) \cap Range(call[j].buf) = {}
    /\ Written \subseteq Record
    /\ \A r \in Written :
          /\ Range(r.packets) \subseteq HandedOver \ Range(sctp_out)
          /\ \A i \in Encrypting : Range(r.packets) \cap Range(call[i].buf) = {}

\* Data go one way, ...
OneWay ==
    /\ DataIn(outgoing[Receiver]) = {} /\ DataIn(incoming[Sender]) = {}
    /\ \A d \in net[Sender] : DataIn(d) = {}

\* ... no BIO or datagram has a data record twice, ...
NoneTwice ==
    /\ Once(outgoing[Sender]) /\ Once(incoming[Receiver])
    /\ \A d \in net[Receiver] : Once(d)

\* ... and what has arrived does not wait to be read.
ReadOnce ==
    /\ arrived \in Seq(Packet)
    /\ DataIn(incoming[Receiver]) \subseteq seen
    /\ \A i \in Range(arrived) : Data(<<i>>) \in seen \ DataIn(incoming[Receiver])

DeliveryInv == HandshakeInv /\ Placed /\ OneWay /\ NoneTwice /\ ReadOnce

-----------------------------------------------------------------------------
LEMMA DataConcat ==
    ASSUME NEW s \in Seq(Record), NEW t \in Seq(Record)
    PROVE  DataIn(s \o t) = DataIn(s) \cup DataIn(t)
BY RangeConcat DEF DataIn

LEMMA DataEmpty == DataIn(<<>>) = {} /\ Once(<<>>)
<1>1. DOMAIN <<>> = {}
  OBVIOUS
<1> QED
  BY <1>1, RangeEmpty DEF Once

LEMMA OnceConcat ==
    ASSUME NEW s \in Seq(Record), NEW t \in Seq(Record), Once(s), Once(t),
           DataIn(s) \cap DataIn(t) = {}
    PROVE  Once(s \o t)
<1>1. /\ DOMAIN (s \o t) = 1 .. Len(s) + Len(t)
      /\ DOMAIN s = 1 .. Len(s) /\ DOMAIN t = 1 .. Len(t)
      /\ Len(s) \in Nat /\ Len(t) \in Nat
  OBVIOUS
<1>2. \A n \in 1 .. Len(s) : (s \o t)[n] = s[n]
  OBVIOUS
<1>3. \A n \in 1 .. Len(s) + Len(t) : n \notin 1 .. Len(s) =>
         n - Len(s) \in 1 .. Len(t) /\ (s \o t)[n] = t[n - Len(s)]
  OBVIOUS
<1>4. \A n \in 1 .. Len(s), m \in 1 .. Len(t) : s[n].flight = 0 => s[n] # t[m]
  BY <1>1 DEF DataIn, Range
<1> SUFFICES ASSUME NEW m \in 1 .. Len(s) + Len(t), NEW n \in 1 .. Len(s) + Len(t),
                    (s \o t)[m].flight = 0, (s \o t)[m] = (s \o t)[n]
             PROVE  m = n
  BY <1>1 DEF Once
<1>5. CASE m \in 1 .. Len(s) /\ n \in 1 .. Len(s)
  BY <1>1, <1>2, <1>5 DEF Once
<1>6. CASE m \notin 1 .. Len(s) /\ n \notin 1 .. Len(s)
  <2>1. /\ m - Len(s) \in DOMAIN t /\ n - Len(s) \in DOMAIN t
        /\ t[m - Len(s)].flight = 0 /\ t[m - Len(s)] = t[n - Len(s)]
    BY <1>1, <1>3, <1>6
  <2>2. m - Len(s) = n - Len(s)
    BY <2>1 DEF Once
  <2> QED
    BY <1>1, <2>2
<1>7. CASE m \in 1 .. Len(s) /\ n \notin 1 .. Len(s)
  BY <1>2, <1>3, <1>4, <1>7
<1>8. CASE m \notin 1 .. Len(s) /\ n \in 1 .. Len(s)
  BY <1>2, <1>3, <1>4, <1>8
<1> QED
  BY <1>5, <1>6, <1>7, <1>8

\* What SSL_read returns is not in what it leaves.
LEMMA OnceRest ==
    ASSUME NEW s \in Seq(Record), Once(s), NEW n \in 1 .. Len(s), s[n].flight = 0
    PROVE  /\ Once(SubSeq(s, n + 1, Len(s)))
           /\ s[n] \notin Range(SubSeq(s, n + 1, Len(s)))
<1> DEFINE t == SubSeq(s, n + 1, Len(s))
<1>1. /\ t \in Seq(Record) /\ Len(t) = Len(s) - n
      /\ \A m \in 1 .. Len(s) - n : t[m] = s[n + m] /\ n + m \in 1 .. Len(s)
  BY RestOf
<1> HIDE DEF t
<1>2. DOMAIN t = 1 .. Len(s) - n /\ DOMAIN s = 1 .. Len(s) /\ Len(s) \in Nat
  BY <1>1
<1>3. s[n] \notin Range(t)
  <2> SUFFICES ASSUME NEW m \in 1 .. Len(s) - n, s[n] = t[m] PROVE FALSE
    BY <1>2 DEF Range
  <2>1. n = n + m
    BY <1>1, <1>2 DEF Once
  <2> QED
    BY <2>1
<1>4. Once(t)
  <2> SUFFICES ASSUME NEW l \in 1 .. Len(s) - n, NEW m \in 1 .. Len(s) - n,
                      t[l].flight = 0, t[l] = t[m]
               PROVE  l = m
    BY <1>2 DEF Once
  <2>1. /\ n + l \in DOMAIN s /\ n + m \in DOMAIN s
        /\ s[n + l].flight = 0 /\ s[n + l] = s[n + m]
    BY <1>1, <1>2
  <2>2. n + l = n + m
    BY <2>1 DEF Once
  <2> QED
    BY <2>2
<1> QED
  BY <1>3, <1>4 DEF t

-----------------------------------------------------------------------------
\* A flight leaves the data of a BIO as they are.
LEMMA HelloIsNoData ==
    ASSUME NEW s \in Seq(Record), NEW f \in Nat \ {0}
    PROVE  /\ DataIn(Append(s, Hello(f))) = DataIn(s)
           /\ Once(s) => Once(Append(s, Hello(f)))
<1>1. Hello(f) \in Record /\ Hello(f).flight # 0
  BY DEF Hello, Record
<1> QED
  BY <1>1, DataAppend, OnceAppend

SameData(s, t) == DataIn(s) = DataIn(t) /\ (Once(t) => Once(s))

LEMMA HelloSameData ==
    ASSUME PathType, NEW p \in Peer,
           \/ UNCHANGED outgoing
           \/ \E f \in Nat \ {0} : outgoing' = [outgoing EXCEPT ![p] = Append(@, Hello(f))]
    PROVE  \A q \in Peer : SameData(outgoing'[q], outgoing[q])
<1> SUFFICES ASSUME NEW q \in Peer PROVE SameData(outgoing'[q], outgoing[q])
  OBVIOUS
<1>1. CASE UNCHANGED outgoing
  BY <1>1 DEF SameData
<1>2. CASE \E f \in Nat \ {0} : outgoing' = [outgoing EXCEPT ![p] = Append(@, Hello(f))]
  <2>1. PICK f \in Nat \ {0} : outgoing' = [outgoing EXCEPT ![p] = Append(@, Hello(f))]
    BY <1>2
  <2>2. outgoing'[q] \in {outgoing[q], Append(outgoing[q], Hello(f))}
        /\ outgoing[q] \in Seq(Record)
    BY <2>1 DEF PathType
  <2>3. SameData(Append(outgoing[q], Hello(f)), outgoing[q])
    BY <2>2, HelloIsNoData DEF SameData
  <2> QED
    BY <2>2, <2>3 DEF SameData
<1> QED
  BY <1>1, <1>2

LEMMA DoHandshakeData ==
    ASSUME PathType, incoming \in [Peer -> Seq(Record)], NEW p \in Peer, NEW r,
           NEW records \in Seq(Record), SSL_do_handshake(p, r, records)
    PROVE  /\ \A q \in Peer : SameData(outgoing'[q], outgoing[q])
           /\ SameData(incoming'[p], records)
           /\ \A q \in Peer : q # p => incoming'[q] = incoming[q]
<1>1. CASE r = "UNKNOWN"
  BY <1>1 DEF SSL_do_handshake, SameData
<1>2. CASE r # "UNKNOWN"
  <2> DEFINE next == SslNext(r, ssl[p], Flights(records))
             kept == Kept(records, DataIn(records))
  <2>1. next \in Nat /\ (next # ssl[p] => next # 0)
    BY DEF SslNext, PathType
  <2>2. /\ incoming' = [incoming EXCEPT ![p] = kept]
        /\ \/ UNCHANGED outgoing
           \/ next # 0 /\ outgoing' = [outgoing EXCEPT ![p] = Append(@, Hello(next))]
    BY <1>2, <2>1 DEF SSL_do_handshake
  <2>3. /\ Range(kept) = Range(records) \cap DataIn(records)
        /\ Once(records) => Once(kept)
    BY KeptRecords
  <2> HIDE DEF next, kept
  <2>4. DataIn(kept) = DataIn(records)
    BY <2>3 DEF DataIn
  <2>5. \A q \in Peer : SameData(outgoing'[q], outgoing[q])
    BY <2>1, <2>2, HelloSameData
  <2>6. incoming'[p] = kept /\ \A q \in Peer : q # p => incoming'[q] = incoming[q]
    BY <2>2
  <2> QED
    BY <2>3, <2>4, <2>5, <2>6 DEF SameData
<1> QED
  BY <1>1, <1>2

\* SSL_read returns a record and leaves the rest, or there is none.
LEMMA ReadData ==
    ASSUME PathType, incoming \in [Peer -> Seq(Record)], NEW p \in Peer,
           NEW records \in Seq(Record), Once(records), SSL_read(p, records)
    PROVE  /\ \A q \in Peer : SameData(outgoing'[q], outgoing[q])
           /\ \A q \in Peer : q # p => incoming'[q] = incoming[q]
           /\ Once(incoming'[p])
           /\ \/ DataIn(records) = {} /\ DataIn(incoming'[p]) = {} /\ arrived' = arrived
              \/ \E r \in DataIn(records) :
                    /\ DataIn(incoming'[p]) \subseteq DataIn(records) \ {r}
                    /\ arrived' = IF Len(r.packets) = 1 THEN arrived \o r.packets ELSE arrived
<1> DEFINE n == FirstData(records)
<1>1. /\ incoming' = [incoming EXCEPT ![p] = Rest(records)]
      /\ arrived' = IF n # 0 /\ Len(records[n].packets) = 1
                    THEN arrived \o records[n].packets ELSE arrived
  BY DEF SSL_read, Rest, FirstData
<1>2. \/ outgoing' = [outgoing EXCEPT ![p] = Append(@, Hello(4))]
      \/ outgoing' = [outgoing EXCEPT ![p] = @]
  BY DEF SSL_read
<1>3. \A q \in Peer : SameData(outgoing'[q], outgoing[q])
  <2>1. UNCHANGED outgoing \/ outgoing' = [outgoing EXCEPT ![p] = Append(@, Hello(4))]
    BY <1>2 DEF PathType
  <2>2. 4 \in Nat \ {0}
    OBVIOUS
  <2> QED
    BY <2>1, <2>2, HelloSameData
<1>4. /\ \A q \in Peer : q # p => incoming'[q] = incoming[q]
      /\ incoming'[p] = Rest(records)
  BY <1>1
<1>5. CASE n = 0 /\ DataIn(records) = {}
  <2>1. Rest(records) = <<>>
    BY <1>5 DEF Rest
  <2> QED
    BY <1>1, <1>3, <1>4, <1>5, <2>1, DataEmpty
<1>6. CASE n \in 1 .. Len(records) /\ records[n].flight = 0
  <2>1. n # 0 => Rest(records) = SubSeq(records, n + 1, Len(records))
    BY DEF Rest
  <2> HIDE DEF n
  <2>2. n # 0 /\ Rest(records) = SubSeq(records, n + 1, Len(records))
    BY <1>6, <2>1
  <2>6. Once(Rest(records)) /\ records[n] \notin Range(Rest(records))
    BY <1>6, <2>2, OnceRest
  <2>7. Range(Rest(records)) \subseteq Range(records)
    BY LeftOver
  <2>3. DataIn(Rest(records)) \subseteq DataIn(records) \ {records[n]}
    BY <2>6, <2>7 DEF DataIn
  <2>4. n \in DOMAIN records
    BY <1>6
  <2>5. records[n] \in DataIn(records)
    BY <1>6, <2>4 DEF DataIn, Range
  <2> QED
    BY <1>1, <1>3, <1>4, <2>2, <2>3, <2>5, <2>6
<1> QED
  BY <1>5, <1>6, FirstIsData
-----------------------------------------------------------------------------
\* The steps that are no calls of sctp_data_ready_cb leave the places alone:
\* they write no data record.
LEMMA PlacedKeeps ==
    ASSUME Placed, UNCHANGED <<sctp_out, call>>, Written' \subseteq Written
    PROVE  Placed'
<1>1. Encrypting' = Encrypting /\ HandedOver' = HandedOver
  BY DEF Encrypting, HandedOver
<1> QED
  BY <1>1 DEF Placed

\* Records of the handshake come and go.
LEMMA HandshakeDelivers ==
    ASSUME DeliveryInv, UNCHANGED <<seen, arrived>>,
           \A q \in Peer : SameData(outgoing'[q], outgoing[q]),
           \A q \in Peer : SameData(incoming'[q], incoming[q]),
           \A q \in Peer : net'[q] \subseteq net[q]
    PROVE  OneWay' /\ NoneTwice' /\ ReadOnce' /\ Written' \subseteq Written
<1>1. OneWay'
  BY Ends DEF DeliveryInv, OneWay, SameData
<1>2. NoneTwice'
  BY Ends DEF DeliveryInv, NoneTwice, SameData
<1>3. DataIn(incoming'[Receiver]) = DataIn(incoming[Receiver])
  BY Ends DEF SameData
<1>4. ReadOnce'
  BY <1>3 DEF DeliveryInv, ReadOnce
<1>5. DataIn(outgoing'[Sender]) = DataIn(outgoing[Sender])
  BY Ends DEF SameData
<1>6. Written' \subseteq Written
  <2>1. Written' = seen \cup DataIn(outgoing'[Sender])
                   \cup (UNION {DataIn(d) : d \in net'[Receiver]})
    BY DEF Written
  <2>2. UNION {DataIn(d) : d \in net'[Receiver]} \subseteq
            UNION {DataIn(d) : d \in net[Receiver]}
    BY Ends
  <2> QED
    BY <1>5, <2>1, <2>2 DEF Written
<1> QED
  BY <1>1, <1>2, <1>4, <1>6

\* A BIO becomes a datagram.
LEMMA FlushDelivers ==
    ASSUME DeliveryInv, NEW p \in Peer, UNCHANGED <<seen, arrived, incoming>>,
           outgoing' = [outgoing EXCEPT ![p] = <<>>],
           net' = [net EXCEPT ![Other(p)] = @ \cup {outgoing[p]}] \/ net' = net
    PROVE  OneWay' /\ NoneTwice' /\ ReadOnce' /\ Written' \subseteq Written
<1>1. /\ outgoing'[p] = <<>> /\ \A q \in Peer : q # p => outgoing'[q] = outgoing[q]
      /\ \A q \in Peer : q # Other(p) => net'[q] = net[q]
      /\ net'[Other(p)] \subseteq net[Other(p)] \cup {outgoing[p]}
  BY Ends DEF DeliveryInv, HandshakeInv, PathInv, PathType
<1>2. ReadOnce'
  BY DEF DeliveryInv, ReadOnce
<1>3. CASE p = Sender
  <2>1. /\ outgoing'[Sender] = <<>> /\ outgoing'[Receiver] = outgoing[Receiver]
        /\ net'[Sender] = net[Sender]
        /\ net'[Receiver] \subseteq net[Receiver] \cup {outgoing[Sender]}
    BY <1>1, <1>3, Ends
  <2>2. OneWay' /\ NoneTwice'
    BY <2>1, DataEmpty DEF DeliveryInv, OneWay, NoneTwice
  <2>3. UNION {DataIn(d) : d \in net'[Receiver]} \subseteq
           (UNION {DataIn(d) : d \in net[Receiver]}) \cup DataIn(outgoing[Sender])
    BY <2>1
  <2>4. Written' = seen \cup DataIn(outgoing'[Sender])
                   \cup (UNION {DataIn(d) : d \in net'[Receiver]})
    BY DEF Written
  <2> QED
    BY <1>2, <2>1, <2>2, <2>3, <2>4, DataEmpty DEF Written
<1>4. CASE p = Receiver
  <2>1. /\ outgoing'[Receiver] = <<>> /\ outgoing'[Sender] = outgoing[Sender]
        /\ net'[Receiver] = net[Receiver]
        /\ net'[Sender] \subseteq net[Sender] \cup {outgoing[Receiver]}
    BY <1>1, <1>4, Ends
  <2>2. OneWay' /\ NoneTwice'
    BY <2>1, DataEmpty DEF DeliveryInv, OneWay, NoneTwice
  <2>3. Written' = Written
    BY <2>1 DEF Written
  <2> QED
    BY <1>2, <2>2, <2>3
<1> QED
  BY <1>3, <1>4, Ends

-----------------------------------------------------------------------------
\* What a datagram brings: the data records that were not seen before.
LEMMA FreshData ==
    ASSUME NEW p \in Peer, incoming[p] \in Seq(Record), NEW d \in Seq(Record),
           Once(d), Once(incoming[p]), DataIn(incoming[p]) \subseteq seen,
           NEW records, records = incoming[p] \o Fresh(p, d)
    PROVE  /\ records \in Seq(Record)
           /\ DataIn(records) = DataIn(incoming[p]) \cup (DataIn(d) \ seen)
           /\ Once(records)
<1> DEFINE new == {r \in Range(d) :
              IF r.flight = 0 THEN r \notin seen ELSE r.flight \notin Flights(incoming[p])}
           fresh == Kept(d, new)
<1>1. fresh \in Seq(Record) /\ Range(fresh) = Range(d) \cap new /\ Once(fresh)
  BY KeptRecords
<1>2. DataIn(fresh) = DataIn(d) \ seen
  <2>1. Range(fresh) = new
    BY <1>1
  <2> HIDE DEF fresh
  <2> QED
    BY <2>1 DEF DataIn
<1>3. records = incoming[p] \o fresh
  BY DEF Fresh
<1> HIDE DEF fresh, new
<1>4. DataIn(incoming[p]) \cap DataIn(fresh) = {}
  BY <1>2
<1> QED
  BY <1>1, <1>2, <1>3, <1>4, DataConcat, OnceConcat

LEMMA SendersDatagram ==
    ASSUME DeliveryInv, NEW d \in net[Sender]
    PROVE  DataIn(d) = {} /\ Once(d) /\ Once(incoming[Sender])
<1>1. d \in Seq(Record) /\ incoming[Sender] \in Seq(Record)
  BY Ends DEF DeliveryInv, HandshakeInv, PathInv, PathType
<1>2. DataIn(d) = {} /\ DataIn(incoming[Sender]) = {}
  BY DEF DeliveryInv, OneWay
<1>3. \A s \in Seq(Record) : DataIn(s) = {} => Once(s)
  BY DEF DataIn, Range, Once
<1> QED
  BY <1>1, <1>2, <1>3

\* A datagram arrives at the sender.
LEMMA SenderHears ==
    ASSUME DeliveryInv, NEW d \in net[Sender], data_received_cb(Sender, d)
    PROVE  /\ OneWay' /\ NoneTwice' /\ ReadOnce' /\ Written' \subseteq Written
           /\ UNCHANGED arrived
<1>1. /\ PathType /\ incoming \in [Peer -> Seq(Record)] /\ d \in Seq(Record)
      /\ incoming[Sender] \in Seq(Record) /\ Sender \in Peer
  BY Ends DEF DeliveryInv, HandshakeInv, PathInv, PathType
<1>2. DataIn(d) = {} /\ Once(d) /\ Once(incoming[Sender]) /\ DataIn(incoming[Sender]) = {}
  BY SendersDatagram DEF DeliveryInv, OneWay
<1>3. \A q \in Peer : net'[q] \subseteq net[q]
  BY DEF data_received_cb, DeliveryInv, HandshakeInv, PathInv, PathType
<1>4. CASE ~negotiated[Sender]
  <2>1. UNCHANGED <<outgoing, incoming, seen, arrived>>
    BY <1>4 DEF data_received_cb, ends
  <2> QED
    BY <1>3, <2>1, HandshakeDelivers DEF SameData
<1>5. CASE negotiated[Sender]
  <2>1. seen' = seen
    BY <1>2, <1>5 DEF data_received_cb
  <2>2. PICK records :
            /\ records = incoming[Sender] \o Fresh(Sender, d)
            /\ \/ SSL_read(Sender, records)
               \/ SSL_do_handshake(Sender, dtls_role[Sender], records) /\ UNCHANGED arrived
    BY <1>5 DEF data_received_cb
  <2>3. records \in Seq(Record) /\ DataIn(records) = {} /\ Once(records)
    <3>1. DataIn(incoming[Sender]) \subseteq seen
      BY <1>2
    <3>2. /\ records \in Seq(Record) /\ Once(records)
          /\ DataIn(records) = DataIn(incoming[Sender]) \cup (DataIn(d) \ seen)
      BY <1>1, <1>2, <2>2, <3>1, FreshData
    <3> QED
      BY <1>2, <3>2
  <2>4. /\ \A q \in Peer : SameData(outgoing'[q], outgoing[q])
        /\ \A q \in Peer : q # Sender => incoming'[q] = incoming[q]
        /\ DataIn(incoming'[Sender]) = {} /\ Once(incoming'[Sender])
        /\ arrived' = arrived
    <3>1. CASE SSL_read(Sender, records)
      BY <1>1, <2>3, <3>1, ReadData
    <3>2. CASE SSL_do_handshake(Sender, dtls_role[Sender], records) /\ UNCHANGED arrived
      BY <1>1, <2>3, <3>2, DoHandshakeData DEF SameData
    <3> QED
      BY <2>2, <3>1, <3>2
  <2>5. \A q \in Peer : SameData(incoming'[q], incoming[q])
    BY <1>2, <2>4 DEF SameData
  <2> QED
    BY <1>3, <2>1, <2>4, <2>5, HandshakeDelivers
<1> QED
  BY <1>4, <1>5

\* A datagram arrives at the receiver: what it brings waits to be read, and
\* is not read a second time.
Arrives(i) ==
    /\ i \in HandedOver \ Range(arrived)
    /\ arrived' = Append(arrived, i)

LEMMA ReceiverHears ==
    ASSUME DeliveryInv, NEW d \in net[Receiver], data_received_cb(Receiver, d)
    PROVE  /\ OneWay' /\ NoneTwice' /\ ReadOnce' /\ Written' \subseteq Written
           /\ UNCHANGED arrived \/ \E i \in Packet : Arrives(i)
<1>1. /\ PathType /\ incoming \in [Peer -> Seq(Record)] /\ d \in Seq(Record)
      /\ incoming[Receiver] \in Seq(Record) /\ Receiver \in Peer
  BY Ends DEF DeliveryInv, HandshakeInv, PathInv, PathType
<1>2. /\ Once(d) /\ Once(incoming[Receiver]) /\ DataIn(incoming[Receiver]) \subseteq seen
      /\ DataIn(d) \subseteq Written /\ seen \subseteq Written
  BY DEF DeliveryInv, NoneTwice, ReadOnce, Written
<1>3. /\ \A q \in Peer : net'[q] \subseteq net[q]
      /\ net'[Sender] = net[Sender]
  BY Ends DEF data_received_cb, DeliveryInv, HandshakeInv, PathInv, PathType
<1>4. CASE ~negotiated[Receiver]
  <2>1. UNCHANGED <<outgoing, incoming, seen, arrived>>
    BY <1>4 DEF data_received_cb, ends
  <2> QED
    BY <1>3, <2>1, HandshakeDelivers DEF SameData
<1>5. CASE negotiated[Receiver]
  <2>1. seen' = seen \cup DataIn(d)
    BY <1>5 DEF data_received_cb
  <2>2. PICK records :
            /\ records = incoming[Receiver] \o Fresh(Receiver, d)
            /\ \/ SSL_read(Receiver, records)
               \/ SSL_do_handshake(Receiver, dtls_role[Receiver], records) /\ UNCHANGED arrived
    BY <1>5 DEF data_received_cb
  <2>3. /\ records \in Seq(Record) /\ Once(records)
        /\ DataIn(records) = DataIn(incoming[Receiver]) \cup (DataIn(d) \ seen)
    BY <1>1, <1>2, <2>2, FreshData
  <2>4. /\ \A q \in Peer : SameData(outgoing'[q], outgoing[q])
        /\ \A q \in Peer : q # Receiver => incoming'[q] = incoming[q]
        /\ Once(incoming'[Receiver])
        /\ \/ DataIn(incoming'[Receiver]) \subseteq DataIn(records) /\ arrived' = arrived
           \/ \E r \in DataIn(records) :
                 /\ DataIn(incoming'[Receiver]) \subseteq DataIn(records) \ {r}
                 /\ arrived' = IF Len(r.packets) = 1 THEN arrived \o r.packets ELSE arrived
    <3>1. CASE SSL_read(Receiver, records)
      BY <1>1, <2>3, <3>1, ReadData
    <3>2. CASE SSL_do_handshake(Receiver, dtls_role[Receiver], records) /\ UNCHANGED arrived
      BY <1>1, <2>3, <3>2, DoHandshakeData DEF SameData
    <3> QED
      BY <2>2, <3>1, <3>2
  <2>5. DataIn(records) \subseteq seen'
    BY <1>2, <2>1, <2>3
  <2>6. \A i \in Range(arrived) : Data(<<i>>) \in seen \ DataIn(records)
    BY <2>3 DEF DeliveryInv, ReadOnce
  <2>7. OneWay' /\ NoneTwice'
    <3>1. /\ SameData(outgoing'[Sender], outgoing[Sender])
          /\ SameData(outgoing'[Receiver], outgoing[Receiver])
          /\ incoming'[Sender] = incoming[Sender] /\ net'[Receiver] \subseteq net[Receiver]
      BY <1>3, <2>4, Ends
    <3> QED
      BY <1>3, <2>4, <3>1 DEF DeliveryInv, OneWay, NoneTwice, SameData
  <2>8. Written' \subseteq Written
    <3>1. Written' = seen' \cup DataIn(outgoing'[Sender])
                   \cup (UNION {DataIn(e) : e \in net'[Receiver]})
      BY DEF Written
    <3>2. DataIn(outgoing'[Sender]) = DataIn(outgoing[Sender])
      BY <2>4, Ends DEF SameData
    <3>3. UNION {DataIn(e) : e \in net'[Receiver]} \subseteq
              UNION {DataIn(e) : e \in net[Receiver]}
      BY <1>3, Ends
    <3> QED
      BY <1>2, <2>1, <3>1, <3>2, <3>3 DEF Written
  <2>9. CASE arrived' = arrived
    <3>1. DataIn(incoming'[Receiver]) \subseteq DataIn(records)
      BY <2>4
    <3>2. ReadOnce'
      BY <2>1, <2>5, <2>6, <2>9, <3>1 DEF DeliveryInv, ReadOnce
    <3> QED
      BY <2>7, <2>8, <2>9, <3>2
  <2>10. CASE \E r \in DataIn(records) :
                 /\ DataIn(incoming'[Receiver]) \subseteq DataIn(records) \ {r}
                 /\ Len(r.packets) = 1 /\ arrived' = arrived \o r.packets
    <3>1. PICK r \in DataIn(records) :
                 /\ DataIn(incoming'[Receiver]) \subseteq DataIn(records) \ {r}
                 /\ Len(r.packets) = 1 /\ arrived' = arrived \o r.packets
      BY <2>10
    <3>2. r \in Record /\ r.flight = 0 /\ r \in Written
      BY <1>2, <2>3 DEF DataIn, DeliveryInv, Placed
    <3>3. PICK i \in Packet : r.packets = <<i>>
      <4>1. r.packets \in Seq(Packet)
        BY <3>2 DEF Record
      <4>2. r.packets[1] \in Packet /\ r.packets = <<r.packets[1]>>
        BY <3>1, <4>1
      <4> QED
        BY <4>2
    <3>4. r = Data(<<i>>)
      BY <3>2, <3>3 DEF Record, Data
    <3>5. arrived' = Append(arrived, i) /\ arrived \in Seq(Packet)
      BY <3>1, <3>3 DEF DeliveryInv, ReadOnce
    <3>6. i \in HandedOver
      <4>1. i \in Range(<<i>>)
        BY DEF Range
      <4> QED
        BY <3>2, <3>3, <4>1 DEF DeliveryInv, Placed
    <3>7. i \notin Range(arrived)
      BY <2>6, <3>4
    <3>8. arrived' \in Seq(Packet) /\ Range(arrived') = Range(arrived) \cup {i}
      BY <3>5, RangeAppend
    <3>9. ReadOnce'
      <4>1. \A j \in Range(arrived') : Data(<<j>>) \in seen' \ DataIn(incoming'[Receiver])
        BY <2>1, <2>5, <2>6, <3>1, <3>4, <3>8
      <4>2. DataIn(incoming'[Receiver]) \subseteq seen'
        BY <2>5, <3>1
      <4> QED
        BY <3>8, <4>1, <4>2 DEF ReadOnce
    <3> QED
      BY <2>7, <2>8, <3>3, <3>5, <3>6, <3>7, <3>9 DEF Arrives
  <2> QED
    BY <2>4, <2>9, <2>10
<1> QED
  BY <1>4, <1>5
-----------------------------------------------------------------------------
\* What a step of the path is for SCTP, with the places after it.
Delivers ==
    /\ Placed' /\ OneWay' /\ NoneTwice' /\ ReadOnce'
    /\ \/ UNCHANGED <<HandedOver, arrived>>
       \/ \E i \in Packet : Arrives(i) /\ UNCHANGED HandedOver
       \/ \E i \in Packet : HandedOver' = HandedOver \cup {i} /\ UNCHANGED arrived

\* No call of sctp_data_ready_cb takes part.
LEMMA NoCallDelivers ==
    ASSUME DeliveryInv, UNCHANGED calls,
           OneWay' /\ NoneTwice' /\ ReadOnce' /\ Written' \subseteq Written,
           UNCHANGED arrived \/ \E i \in Packet : Arrives(i)
    PROVE  Delivers
<1>1. UNCHANGED <<sctp_out, call>>
  BY DEF calls
<1>2. Placed'
  BY <1>1, PlacedKeeps DEF DeliveryInv
<1>3. UNCHANGED HandedOver
  BY <1>1 DEF HandedOver
<1> QED
  BY <1>2, <1>3 DEF Delivers

LEMMA OtherStepsDeliver ==
    ASSUME DeliveryInv, NEW p \in Peer,
           \/ SetupStep(p) \/ StartHandshake(p) \/ IceHandshake(p) \/ IcePump(p)
           \/ Network(p) \/ UNCHANGED allvars
    PROVE  Delivers
<1>1. CASE SetupStep(p) \/ UNCHANGED allvars
  <2>1. UNCHANGED <<outgoing, incoming, net, seen, arrived, calls>>
    BY <1>1 DEF SetupStep, allvars, path, handshake, ends
  <2>2. OneWay' /\ NoneTwice' /\ ReadOnce' /\ Written' \subseteq Written
    BY <2>1, HandshakeDelivers DEF SameData
  <2> QED
    BY <2>1, <2>2, NoCallDelivers
<1>2. CASE StartHandshake(p) \/ IceHandshake(p)
  <2>1. PICK r : SSL_do_handshake(p, r, incoming[p])
    BY <1>2 DEF StartHandshake, IceHandshake
  <2>2. UNCHANGED <<net, seen, arrived, calls>>
    BY <1>2 DEF StartHandshake, IceHandshake, ends
  <2>3. PathType /\ incoming \in [Peer -> Seq(Record)] /\ incoming[p] \in Seq(Record)
    BY DEF DeliveryInv, HandshakeInv, PathInv
  <2>4. /\ \A q \in Peer : SameData(outgoing'[q], outgoing[q])
        /\ SameData(incoming'[p], incoming[p])
        /\ \A q \in Peer : q # p => incoming'[q] = incoming[q]
    BY <2>1, <2>3, DoHandshakeData
  <2>5. \A q \in Peer : SameData(incoming'[q], incoming[q])
    BY <2>4 DEF SameData
  <2>6. OneWay' /\ NoneTwice' /\ ReadOnce' /\ Written' \subseteq Written
    BY <2>2, <2>4, <2>5, HandshakeDelivers
  <2> QED
    BY <2>2, <2>6, NoCallDelivers
<1>3. CASE IcePump(p)
  <2>1. /\ outgoing' = [outgoing EXCEPT ![p] = <<>>]
        /\ net' = [net EXCEPT ![Other(p)] = @ \cup {outgoing[p]}]
        /\ UNCHANGED <<incoming, seen, arrived, calls>>
    BY <1>3 DEF IcePump, ends
  <2> QED
    BY <2>1, FlushDelivers, NoCallDelivers
<1>4. CASE Network(p)
  <2>1. PICK d \in net[p] : data_received_cb(p, d) \/ Lose(p, d)
    BY <1>4 DEF Network
  <2>2. UNCHANGED calls
    BY <2>1 DEF data_received_cb, Lose
  <2>3. CASE data_received_cb(p, d)
    BY <2>1, <2>2, <2>3, SenderHears, ReceiverHears, NoCallDelivers, Ends
  <2>4. CASE Lose(p, d)
    <3>1. UNCHANGED <<outgoing, incoming, seen, arrived>>
          /\ net' = [net EXCEPT ![p] = @ \ {d}]
      BY <2>4 DEF Lose
    <3>2. \A q \in Peer : net'[q] \subseteq net[q]
      BY <3>1 DEF DeliveryInv, HandshakeInv, PathInv, PathType
    <3>3. OneWay' /\ NoneTwice' /\ ReadOnce' /\ Written' \subseteq Written
      BY <3>1, <3>2, HandshakeDelivers DEF SameData
    <3> QED
      BY <2>2, <3>1, <3>3, NoCallDelivers
  <2> QED
    BY <2>1, <2>3, <2>4
<1> QED
  BY <1>1, <1>2, <1>3, <1>4

-----------------------------------------------------------------------------
\* The steps of a call of sctp_data_ready_cb move packets from place to place.
LEMMA ReadyDelivers ==
    ASSUME DeliveryInv, NEW i \in Packet, sctp_data_ready_cb(i)
    PROVE  Delivers
<1>1. /\ call[i].pc = "none"
      /\ call' = [call EXCEPT ![i] = At("sctp", <<>>)]
      /\ sctp_out' = Append(sctp_out, i)
      /\ UNCHANGED <<outgoing, incoming, net, seen, arrived>>
  BY DEF sctp_data_ready_cb, handshake, ends
<1>2. /\ OneWay' /\ NoneTwice' /\ ReadOnce' /\ Written' \subseteq Written
      /\ UNCHANGED arrived
  BY <1>1, HandshakeDelivers DEF SameData
<1>3. i \notin HandedOver
  BY <1>1 DEF HandedOver
<1>4. /\ call'[i] = At("sctp", <<>>)
      /\ \A j \in Packet : j # i => call'[j] = call[j]
  BY <1>1 DEF DeliveryInv, HandshakeInv, PathInv, PathType
<1>5. HandedOver' = HandedOver \cup {i}
  BY <1>4 DEF HandedOver, At
<1>6. Encrypting' = Encrypting /\ i \notin Encrypting
  BY <1>1, <1>4 DEF Encrypting, At
<1>7. Range(sctp_out') = Range(sctp_out) \cup {i}
  BY <1>1, RangeAppend DEF DeliveryInv, HandshakeInv, PathInv, PathType
<1>8. \A j \in Encrypting : call'[j] = call[j] /\ j \in Packet
  BY <1>4, <1>6 DEF Encrypting
<1>9. Placed'
  <2>1. Range(sctp_out') \subseteq HandedOver'
    BY <1>5, <1>7 DEF DeliveryInv, Placed
  <2>2. \A j \in Encrypting' :
          /\ call'[j].buf # <<>>
          /\ Range(call'[j].buf) \subseteq HandedOver' \ Range(sctp_out')
          /\ \A k \in Encrypting' : j # k => Range(call'[j].buf) \cap Range(call'[k].buf) = {}
    BY <1>3, <1>5, <1>6, <1>7, <1>8 DEF DeliveryInv, Placed
  <2>3. Written' \subseteq Record
        /\ \A r \in Written' :
             /\ Range(r.packets) \subseteq HandedOver' \ Range(sctp_out')
             /\ \A j \in Encrypting' : Range(r.packets) \cap Range(call'[j].buf) = {}
    BY <1>2, <1>3, <1>5, <1>6, <1>7, <1>8 DEF DeliveryInv, Placed
  <2> QED
    BY <2>1, <2>2, <2>3 DEF Placed
<1> QED
  BY <1>2, <1>5, <1>9 DEF Delivers

LEMMA TakeDelivers ==
    ASSUME DeliveryInv, NEW i \in Packet, TakePackets(i)
    PROVE  Delivers
<1> DEFINE next == IF sctp_out = <<>> THEN "dtls" ELSE "ssl"
<1>1. /\ call[i].pc = "sctp"
      /\ call' = [call EXCEPT ![i] = At(next, sctp_out)]
      /\ sctp_out' = <<>>
      /\ UNCHANGED <<outgoing, incoming, net, seen, arrived>>
  BY DEF TakePackets, handshake, ends
<1>2. /\ OneWay' /\ NoneTwice' /\ ReadOnce' /\ Written' \subseteq Written
      /\ UNCHANGED arrived
  BY <1>1, HandshakeDelivers DEF SameData
<1>3. next \in {"dtls", "ssl"} /\ (next = "ssl" => sctp_out # <<>>)
  OBVIOUS
<1> HIDE DEF next
<1>4. /\ call'[i].pc = next /\ call'[i].buf = sctp_out
      /\ \A j \in Packet : j # i => call'[j] = call[j]
  BY <1>1 DEF DeliveryInv, HandshakeInv, PathInv, PathType, At
<1>5. HandedOver' = HandedOver
  BY <1>1, <1>3, <1>4 DEF HandedOver
<1>6. /\ i \notin Encrypting
      /\ \A j \in Encrypting' : j \in Packet /\ (j \in Encrypting \/ (j = i /\ next = "ssl"))
  BY <1>1, <1>4 DEF Encrypting
<1>7. Range(sctp_out') = {}
  BY <1>1, RangeEmpty
<1>8. \A j \in Encrypting : call'[j] = call[j]
  BY <1>4, <1>6 DEF Encrypting
<1>9. Placed'
  <2>1. Range(sctp_out') \subseteq HandedOver'
    BY <1>7
  <2>2. \A j \in Encrypting' :
          /\ call'[j].buf # <<>>
          /\ Range(call'[j].buf) \subseteq HandedOver'
          /\ \A k \in Encrypting' : j # k => Range(call'[j].buf) \cap Range(call'[k].buf) = {}
    <3>1. ASSUME NEW j \in Encrypting' PROVE call'[j].buf # <<>>
      BY <1>3, <1>4, <1>6, <1>8 DEF DeliveryInv, Placed
    <3>2. ASSUME NEW j \in Encrypting' PROVE Range(call'[j].buf) \subseteq HandedOver
      BY <1>4, <1>6, <1>8 DEF DeliveryInv, Placed
    <3>3. ASSUME NEW j \in Encrypting', NEW k \in Encrypting', j # k
          PROVE  Range(call'[j].buf) \cap Range(call'[k].buf) = {}
      BY <1>4, <1>6, <1>8, <3>3 DEF DeliveryInv, Placed
    <3> QED
      BY <1>5, <3>1, <3>2, <3>3
  <2>3. \A r \in Written' : \A j \in Encrypting' :
              Range(r.packets) \cap Range(call'[j].buf) = {}
    BY <1>2, <1>4, <1>6, <1>8 DEF DeliveryInv, Placed
  <2>4. Written' \subseteq Record /\ \A r \in Written' : Range(r.packets) \subseteq HandedOver'
    BY <1>2, <1>5 DEF DeliveryInv, Placed
  <2> QED
    BY <1>7, <2>1, <2>2, <2>3, <2>4 DEF Placed
<1> QED
  BY <1>2, <1>5, <1>9 DEF Delivers

LEMMA EncryptDelivers ==
    ASSUME DeliveryInv, NEW i \in Packet, Encrypt(i)
    PROVE  Delivers
<1> DEFINE rec == Data(call[i].buf)
<1>1. /\ call[i].pc = "ssl"
      /\ outgoing' = [outgoing EXCEPT ![Sender] = Append(@, rec)]
      /\ call' = [call EXCEPT ![i] = At("dtls", <<>>)]
      /\ UNCHANGED <<incoming, net, seen, sctp_out, arrived>>
  BY DEF Encrypt, ends
<1>2. /\ rec \in Record /\ rec.flight = 0 /\ rec.packets = call[i].buf
      /\ call[i].buf \in Seq(Packet)
  BY DEF DeliveryInv, HandshakeInv, PathInv, PathType, Data, Record
<1> HIDE DEF rec
<1>3. i \in Encrypting
  BY <1>1 DEF Encrypting
<1>4. Range(call[i].buf) # {}
  BY <1>2, <1>3, RangeNonEmpty DEF DeliveryInv, Placed
<1>5. rec \notin Written
  <2> SUFFICES ASSUME rec \in Written PROVE FALSE
    OBVIOUS
  <2>1. Range(rec.packets) \cap Range(call[i].buf) = {}
    BY <1>3 DEF DeliveryInv, Placed
  <2> QED
    BY <1>2, <1>4, <2>1
<1>6. /\ outgoing[Sender] \in Seq(Record)
      /\ outgoing'[Sender] = Append(outgoing[Sender], rec)
      /\ outgoing'[Receiver] = outgoing[Receiver]
  BY <1>1, Ends DEF DeliveryInv, HandshakeInv, PathInv, PathType
<1>7. DataIn(outgoing'[Sender]) = DataIn(outgoing[Sender]) \cup {rec}
  BY <1>2, <1>6, DataAppend
<1>8. Once(outgoing'[Sender])
  <2>1. rec \notin Range(outgoing[Sender])
    BY <1>2, <1>5 DEF Written, DataIn
  <2> QED
    BY <1>2, <1>6, <2>1, OnceAppend DEF DeliveryInv, NoneTwice
<1>9. OneWay' /\ NoneTwice' /\ ReadOnce'
  BY <1>1, <1>6, <1>8 DEF DeliveryInv, OneWay, NoneTwice, ReadOnce
<1>10. Written' \subseteq Written \cup {rec}
  <2>1. Written' = seen \cup DataIn(outgoing'[Sender])
                   \cup (UNION {DataIn(d) : d \in net[Receiver]})
    BY <1>1 DEF Written
  <2> QED
    BY <1>7, <2>1 DEF Written
<1>11. /\ call'[i].pc = "dtls"
       /\ \A j \in Packet : j # i => call'[j] = call[j]
  BY <1>1 DEF DeliveryInv, HandshakeInv, PathInv, PathType, At
<1>12. HandedOver' = HandedOver
  BY <1>1, <1>11 DEF HandedOver
<1>13. \A j \in Encrypting' : j \in Encrypting /\ j # i /\ call'[j] = call[j]
  BY <1>11 DEF Encrypting
<1>14. Placed'
  <2>1. Range(sctp_out') \subseteq HandedOver'
    BY <1>1, <1>12 DEF DeliveryInv, Placed
  <2>2. \A j \in Encrypting' :
          /\ call'[j].buf # <<>>
          /\ Range(call'[j].buf) \subseteq HandedOver' \ Range(sctp_out')
          /\ \A k \in Encrypting' : j # k => Range(call'[j].buf) \cap Range(call'[k].buf) = {}
    BY <1>1, <1>12, <1>13 DEF DeliveryInv, Placed
  <2>3. Written' \subseteq Record
    BY <1>2, <1>10 DEF DeliveryInv, Placed
  <2>4. \A r \in Written' : Range(r.packets) \subseteq HandedOver' \ Range(sctp_out')
    BY <1>1, <1>2, <1>3, <1>10, <1>12 DEF DeliveryInv, Placed
  <2>5. \A r \in Written' : \A j \in Encrypting' :
              Range(r.packets) \cap Range(call'[j].buf) = {}
    <3>1. \A j \in Encrypting' : Range(rec.packets) \cap Range(call'[j].buf) = {}
      BY <1>2, <1>3, <1>13 DEF DeliveryInv, Placed
    <3>2. \A r \in Written : \A j \in Encrypting' :
              Range(r.packets) \cap Range(call'[j].buf) = {}
      BY <1>13 DEF DeliveryInv, Placed
    <3> QED
      BY <1>10, <3>1, <3>2
  <2> QED
    BY <2>1, <2>2, <2>3, <2>4, <2>5 DEF Placed
<1> QED
  BY <1>1, <1>9, <1>12, <1>14 DEF Delivers

LEMMA SendDelivers ==
    ASSUME DeliveryInv, NEW i \in Packet, SendDatagram(i)
    PROVE  Delivers
<1>1. /\ call[i].pc = "dtls"
      /\ call' = [call EXCEPT ![i] = At("over", <<>>)]
      /\ outgoing' = [outgoing EXCEPT ![Sender] = <<>>]
      /\ \/ net' = [net EXCEPT ![Other(Sender)] = @ \cup {outgoing[Sender]}]
         \/ net' = net
      /\ UNCHANGED <<incoming, seen, sctp_out, arrived>>
  BY Ends DEF SendDatagram, ends
<1>2. OneWay' /\ NoneTwice' /\ ReadOnce' /\ Written' \subseteq Written
  BY <1>1, Ends, FlushDelivers
<1>3. /\ call'[i].pc = "over"
      /\ \A j \in Packet : j # i => call'[j] = call[j]
  BY <1>1 DEF DeliveryInv, HandshakeInv, PathInv, PathType, At
<1>4. HandedOver' = HandedOver
  BY <1>1, <1>3 DEF HandedOver
<1>5. \A j \in Encrypting' : j \in Encrypting /\ call'[j] = call[j]
  BY <1>3 DEF Encrypting
<1>6. Placed'
  BY <1>1, <1>2, <1>4, <1>5 DEF DeliveryInv, Placed
<1> QED
  BY <1>1, <1>2, <1>4, <1>6 DEF Delivers

-----------------------------------------------------------------------------
LEMMA DeliveryInit == PathInit => DeliveryInv
<1> SUFFICES ASSUME PathInit PROVE DeliveryInv
  OBVIOUS
<1>1. HandshakeInv
  BY HandshakeInit
<1>2. /\ sctp_out = <<>> /\ seen = {} /\ arrived = <<>>
      /\ \A p \in Peer : outgoing[p] = <<>> /\ incoming[p] = <<>> /\ net[p] = {}
      /\ \A i \in Packet : call[i].pc = "none"
  BY DEF PathInit, At
<1>3. Encrypting = {} /\ Written = {}
  <2>1. UNION {DataIn(d) : d \in net[Receiver]} = {}
    BY <1>2, Ends
  <2> QED
    BY <1>2, <2>1, Ends, DataEmpty DEF Encrypting, Written
<1>4. Placed
  BY <1>2, <1>3, RangeEmpty DEF Placed
<1>5. OneWay /\ NoneTwice /\ ReadOnce
  BY <1>2, Ends, DataEmpty, RangeEmpty DEF OneWay, NoneTwice, ReadOnce
<1> QED
  BY <1>1, <1>4, <1>5 DEF DeliveryInv

LEMMA DeliveryStep == DeliveryInv /\ [PathNext]_allvars => DeliveryInv' /\ Delivers
<1> SUFFICES ASSUME DeliveryInv, [PathNext]_allvars PROVE DeliveryInv' /\ Delivers
  OBVIOUS
<1>1. Delivers
  <2>1. CASE UNCHANGED allvars
    BY <2>1, Ends, OtherStepsDeliver
  <2>2. CASE \E p \in Peer : \/ SetupStep(p) \/ StartHandshake(p) \/ IceHandshake(p)
                             \/ IcePump(p) \/ Network(p)
    BY <2>2, OtherStepsDeliver
  <2>3. CASE \E i \in Packet : sctp_data_ready_cb(i)
    BY <2>3, ReadyDelivers
  <2>4. CASE \E i \in Packet : CallStep(i)
    BY <2>4, TakeDelivers, EncryptDelivers, SendDelivers DEF CallStep
  <2> QED
    BY <2>1, <2>2, <2>3, <2>4 DEF PathNext
<1>2. HandshakeInv'
  BY HandshakeStepKeeps DEF DeliveryInv
<1> QED
  BY <1>1, <1>2 DEF DeliveryInv, Delivers

\* However many packets there are, and whatever the network does to the
\* datagrams: what comes out at the receiver was put in, and comes out once
\* (sctp.c:19, ice.c:116 to 146).
THEOREM PathIsLossy == PathSpec => RefinesLossyPath
<1>1. PathInit => Lossy!Init
  <2> SUFFICES ASSUME PathInit PROVE Lossy!Init
    OBVIOUS
  <2>1. HandedOver = {}
    BY DEF PathInit, HandedOver, At
  <2> QED
    BY <2>1 DEF PathInit, Lossy!Init
<1>2. Delivers => [Lossy!Next]_<<HandedOver, arrived>>
  BY DEF Delivers, Arrives, Lossy!Next, Lossy!Send, Lossy!Arrive, Lossy!Range, Range
<1> QED
  BY <1>1, <1>2, DeliveryInit, DeliveryStep, PTL DEF PathSpec, RefinesLossyPath, Lossy!Spec
================================================================================
