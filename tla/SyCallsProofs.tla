---------------------------- MODULE SyCallsProofs ----------------------------
(***************************************************************************)
(* Theorems about the calls of SySignaling and TransferPool as long as     *)
(* neither clients nor the file server die: AnswersTheCall, SessionFound,  *)
(* NoDanglingWrite, SyPromise, NoOrphanSession and HasCounterpart, for any *)
(* number of clients, calls, addresses and workers.                        *)
(***************************************************************************)
EXTENDS TransferPoolProofs

\* Neither clients nor the file server die.
NobodyDies == ~ClientsCrash /\ FsStarts <= 1

\* Whose session a message is about, and the messages of a queue about c.
For(m, c) == m.id \in Id /\ m.id[1] = c
In(q, c) == \E n \in DOMAIN q : For(q[n], c)
Alone(q, c, m) == \A n \in DOMAIN q : For(q[n], c) =>
    q[n] = m /\ \A k \in DOMAIN q : For(q[k], c) => k = n

\* The session a call is about, the request as it is forwarded, the answer.
Makes(c) == Op(c) \in {"SY_INIT", "SY_CONNECT"}
Cur(c) == IF Makes(c) THEN CallId(c) ELSE client[c].session
Asks(c) == Msg(Op(c), Cur(c))
Answer(c) == Msg(Awaited[Op(c)], IF Op(c) = "SY_CLEANUP" THEN None ELSE Cur(c))
At(c) == client[c].at

\* Where a call is: its request has been sent, the metadata server is about to
\* forward it, the answer has been prepared or is on its way, or the call is
\* in the hands of the file server (or there will be no answer).
Quiet(a) == up[a] = <<>> /\ slot[a] = None /\ down[a] = <<>>
Sent(c) ==
    /\ Len(up[At(c)]) = 1 /\ slot[At(c)] = None /\ down[At(c)] = <<>>
    /\ Head(up[At(c)]).type = Op(c)
    /\ ~Makes(c) => Head(up[At(c)]).id = client[c].session
Known(c) == /\ fs.at # None
            /\ Op(c) \in DOMAIN FsAnswer
            /\ sessions[Cur(c)] # None /\ sessions[Cur(c)].client_wsi = At(c)
Forwards(c) ==
    /\ up[At(c)] = <<>> /\ down[At(c)] = <<>>
    /\ slot[At(c)] = [to |-> fs.at, msg |-> Asks(c)]
    /\ Known(c)
Replies(c) ==
    /\ up[At(c)] = <<>>
    /\ \/ slot[At(c)] = [to |-> At(c), msg |-> Answer(c)] /\ down[At(c)] = <<>>
       \/ slot[At(c)] = None /\ down[At(c)] = <<Answer(c)>>
    /\ Op(c) = "SY_CLEANUP" <=> sessions[Cur(c)] = None
CallRight(c) == InCall(c) =>
    /\ client[c].step <= Len(Program[c])
    /\ ~Makes(c) => client[c].session # None
    /\ Sent(c) \/ Forwards(c) \/ Replies(c) \/ Quiet(At(c))
Waits(c) == InCall(c) /\ Quiet(At(c)) /\ Known(c)

\* A client works with its own session, which is there until its SY_CLEANUP.
OwnSession(c) == client[c].session # None =>
    /\ client[c].session[1] = c
    /\ ~(InCall(c) /\ Op(c) = "SY_CLEANUP") => sessions[client[c].session] # None

\* The connection of the file server: at most one message about a client, in
\* one of four places, and the client waits for the answer to it.
FsDown == IF fs.at = None THEN <<>> ELSE down[fs.at]
FsUp == IF fs.at = None THEN <<>> ELSE up[fs.at]
FsSlot == IF fs.at = None THEN None ELSE slot[fs.at]
Data(c) == fs.data # None /\ For(fs.data, c)
Answered(c) == FsSlot # None /\ For(FsSlot.msg, c)
FsQuiet(c) == ~In(FsDown, c) /\ ~Data(c) /\ ~In(FsUp, c) /\ ~Answered(c)
FsSide(c) ==
    /\ ~FsQuiet(c) => Waits(c)
    /\ Alone(FsDown, c, Asks(c))
    /\ Data(c) => fs.data = Msg(FsAnswer[Op(c)], Cur(c))
    /\ Alone(FsUp, c, Msg(FsAnswer[Op(c)], Cur(c)))
    /\ Answered(c) => FsSlot = [to |-> At(c), msg |-> Answer(c)]
    /\ In(FsDown, c) => ~Data(c) /\ ~In(FsUp, c) /\ ~Answered(c)
    /\ Data(c) => ~In(FsUp, c) /\ ~Answered(c)
    /\ In(FsUp, c) => ~Answered(c)

\* Nobody has died.
Calm ==
    /\ ms = "first"
    /\ fs.starts = IF fs.at = None THEN 0 ELSE 1
    /\ fs.at = None => fs.data = None
    /\ \A a \in Addr : owner[a] = FileServer => a = fs.at
    /\ \A c \in Client : InCall(c) <=> At(c) # None

\* The tables know the one file server.
OneServer ==
    /\ \A i \in Id : sessions[i] # None => sessions[i].fileserver_wsi = fs.at
    /\ \A i \in Id : filesys[i] # None => filesys[i] = fs.at

\* Nothing is on a connection nobody has, and the file server's own writes
\* are not about a session.
OthersQuiet == \A a \in Addr : a # fs.at /\ (\A c \in Client : At(c) # a) => Quiet(a)
OwnWrite == FsSlot # None /\ FsSlot.msg.id \notin Id => FsSlot.to = fs.at

ClientRight(c) == OwnSession(c) /\ CallRight(c) /\ FsSide(c)

CallsInv ==
    /\ Calm /\ OneServer /\ OthersQuiet /\ OwnWrite
    /\ \A c \in Client : ClientRight(c)

-----------------------------------------------------------------------------
(***************************************************************************)
(* Queues.                                                                 *)
(***************************************************************************)
LEMMA IdsHaveClients == \A i \in Id : i[1] \in Client /\ i = <<i[1], i[2]>>
BY DEF Id

LEMMA EmptyQueue == \A c, m : ~In(<<>>, c) /\ Alone(<<>>, c, m)
BY DEF In, Alone

LEMMA AloneIfNot == \A q, c, m : ~In(q, c) => Alone(q, c, m)
BY DEF In, Alone

\* Taking the first message, ...
LEMMA TailOf ==
    ASSUME NEW S, NEW q \in Seq(S), q # <<>>, NEW c
    PROVE  /\ In(Tail(q), c) => In(q, c)
           /\ \A m : Alone(q, c, m) => Alone(Tail(q), c, m)
           /\ For(Head(q), c) => In(q, c)
           /\ \A m : Alone(q, c, m) /\ For(Head(q), c) => Head(q) = m /\ ~In(Tail(q), c)
<1>1. \A n \in DOMAIN Tail(q) : n + 1 \in DOMAIN q /\ Tail(q)[n] = q[n + 1] /\ n + 1 # 1
  OBVIOUS
<1>2. 1 \in DOMAIN q /\ q[1] = Head(q)
  OBVIOUS
<1>3. In(Tail(q), c) => In(q, c)
  BY <1>1 DEF In
<1>4. ASSUME NEW m, Alone(q, c, m) PROVE Alone(Tail(q), c, m)
  <2> SUFFICES ASSUME NEW n \in DOMAIN Tail(q), For(Tail(q)[n], c)
               PROVE  /\ Tail(q)[n] = m
                      /\ \A k \in DOMAIN Tail(q) : For(Tail(q)[k], c) => k = n
    BY DEF Alone
  <2>1. Tail(q)[n] = m
    BY <1>1, <1>4 DEF Alone
  <2>2. ASSUME NEW k \in DOMAIN Tail(q), For(Tail(q)[k], c) PROVE k = n
    <3>1. k + 1 = n + 1
      BY <1>1, <1>4, <2>2 DEF Alone
    <3>2. k \in Nat /\ n \in Nat
      OBVIOUS
    <3> QED
      BY <3>1, <3>2
  <2> QED
    BY <2>1, <2>2
<1>5. For(Head(q), c) => In(q, c)
  BY <1>2 DEF In
<1>6. ASSUME NEW m, Alone(q, c, m), For(Head(q), c)
      PROVE  Head(q) = m /\ ~In(Tail(q), c)
  BY <1>1, <1>2, <1>6 DEF Alone, In
<1> QED
  BY <1>3, <1>4, <1>5, <1>6

\* ... adding one at the end.
LEMMA AppendTo ==
    ASSUME NEW S, NEW q \in Seq(S), NEW m \in S, NEW c
    PROVE  /\ In(Append(q, m), c) <=> In(q, c) \/ For(m, c)
           /\ \A x : Alone(q, c, x) /\ ~For(m, c) => Alone(Append(q, m), c, x)
           /\ ~In(q, c) => Alone(Append(q, m), c, m)
<1> DEFINE r == Append(q, m)
<1>1. \A n \in DOMAIN r : \/ n \in DOMAIN q /\ r[n] = q[n]
                          \/ n = Len(q) + 1 /\ r[n] = m
  OBVIOUS
<1>2. \A n \in DOMAIN q : n \in DOMAIN r /\ r[n] = q[n]
  OBVIOUS
<1>3. Len(q) + 1 \in DOMAIN r /\ r[Len(q) + 1] = m
  OBVIOUS
<1> HIDE DEF r
<1>4. In(r, c) <=> In(q, c) \/ For(m, c)
  BY <1>1, <1>2, <1>3 DEF In
<1>5. \A x : Alone(q, c, x) /\ ~For(m, c) => Alone(r, c, x)
  BY <1>1, <1>2 DEF Alone
<1>6. ~In(q, c) => Alone(r, c, m)
  BY <1>1 DEF In, Alone
<1> QED
  BY <1>4, <1>5, <1>6 DEF r

\* A queue of one message.
LEMMA OneMessage ==
    ASSUME NEW S, NEW q \in Seq(S), Len(q) = 1
    PROVE  q # <<>> /\ Tail(q) = <<>> /\ q[1] = Head(q) /\ DOMAIN q = {1}
<1>1. q # <<>> /\ DOMAIN q = 1 .. 1 /\ q[1] = Head(q)
  OBVIOUS
<1>2. DOMAIN q = {1}
  BY <1>1
<1>3. Tail(q) = <<>>
  <2> DEFINE t == Tail(q)
  <2>1. t \in Seq(S) /\ Len(t) = 0
    BY <1>1
  <2> HIDE DEF t
  <2>2. t = <<>>
    BY <2>1
  <2> QED
    BY <2>2 DEF t
<1> QED
  BY <1>1, <1>2, <1>3

-----------------------------------------------------------------------------
(***************************************************************************)
(* Who has which connection, and what a step leaves alone.                 *)
(***************************************************************************)
LEMMA CallerHas ==
    ASSUME SyInv, CallsInv, NEW c \in Client, InCall(c)
    PROVE  /\ At(c) \in Addr /\ owner[At(c)] = CallId(c) /\ alive[At(c)]
           /\ At(c) # fs.at
           /\ \A d \in Client : d # c => At(d) # At(c)
           /\ CallId(c) \in Id /\ Op(c) \in Request
           /\ Cur(c) \in Id /\ Cur(c)[1] = c
<1>1. At(c) # None /\ At(c) \in Addr
  BY DEF CallsInv, Calm, SyInv, SyType, ClientState, At
<1>2. owner[At(c)] = CallId(c) /\ alive[At(c)]
  BY <1>1 DEF SyInv, Connected, At
<1>3. CallId(c) # FileServer /\ \A d \in Client : d # c => CallId(d) # CallId(c)
  BY CallersAreCalls DEF SyInv
<1>4. At(c) # fs.at
  BY <1>1, <1>2, <1>3 DEF SyInv, FsConnected
<1>5. ASSUME NEW d \in Client, d # c PROVE At(d) # At(c)
  <2>1. At(d) # None => owner[At(d)] = CallId(d)
    BY DEF SyInv, Connected, At
  <2> QED
    BY <1>1, <1>2, <1>3, <1>5, <2>1
<1>6. client[c].step <= Len(Program[c]) /\ (~Makes(c) => client[c].session # None)
  BY DEF CallsInv, ClientRight, CallRight
<1>7. CallId(c) \in Id
  BY <1>6, CallsAreIds DEF SyInv
<1>8. Op(c) \in Request
  <2>1. Program[c] \in Seq(Request) /\ client[c].step \in Nat \ {0}
    BY ProgramIsRequests DEF SyInv, SyType, ClientState
  <2>2. client[c].step \in DOMAIN Program[c]
    BY <1>6, <2>1
  <2> QED
    BY <2>1, <2>2 DEF Op
<1>9. Cur(c) \in Id /\ Cur(c)[1] = c
  <2>1. CASE Makes(c)
    BY <1>7, <2>1 DEF Cur, CallId
  <2>2. CASE ~Makes(c)
    BY <1>6, <2>2 DEF Cur, SyInv, SyType, ClientState, CallsInv, ClientRight, OwnSession
  <2> QED
    BY <2>1, <2>2
<1> QED
  BY <1>1, <1>2, <1>4, <1>5, <1>7, <1>8, <1>9

LEMMA FsHas ==
    ASSUME SyInv, CallsInv, fs.at # None
    PROVE  /\ fs.at \in Addr /\ owner[fs.at] = FileServer /\ alive[fs.at]
           /\ \A c \in Client : At(c) # fs.at
           /\ fs.starts = 1
<1>1. fs.at \in Addr /\ owner[fs.at] = FileServer /\ alive[fs.at] /\ fs.starts = 1
  BY DEF SyInv, SyType, FsConnected, CallsInv, Calm
<1>2. ASSUME NEW c \in Client PROVE At(c) # fs.at
  <2>1. CASE InCall(c)
    BY <2>1, CallerHas
  <2>2. CASE ~InCall(c)
    BY <2>2 DEF CallsInv, Calm
  <2> QED
    BY <2>1, <2>2
<1> QED
  BY <1>1, <1>2

\* Whatever moves on a connection, it is the file server's or a call's.
LEMMA BusyIsHad ==
    ASSUME SyInv, CallsInv, NEW a \in Addr, ~Quiet(a), a # fs.at
    PROVE  \E c \in Client : InCall(c) /\ At(c) = a
<1>1. PICK c \in Client : At(c) = a
  BY DEF CallsInv, OthersQuiet
<1>2. a # None
  BY Names
<1> QED
  BY <1>1, <1>2 DEF CallsInv, Calm

Elsewhere(a) == \A b \in Addr : b # a =>
    up'[b] = up[b] /\ down'[b] = down[b] /\ slot'[b] = slot[b]

\* A client whose connection and sessions are left alone.
LEMMA ClientFrame ==
    ASSUME SyInv, CallsInv, NEW c \in Client, client'[c] = client[c],
           \A i \in Id : i[1] = c => sessions'[i] = sessions[i],
           fs'.at = fs.at \/ fs.at = None,
           InCall(c) => /\ up'[At(c)] = up[At(c)] /\ down'[At(c)] = down[At(c)]
                        /\ slot'[At(c)] = slot[At(c)]
    PROVE  OwnSession(c)' /\ CallRight(c)' /\ (Waits(c) => Waits(c)')
<1>1. /\ At(c)' = At(c) /\ InCall(c)' = InCall(c) /\ Op(c)' = Op(c)
      /\ CallId(c)' = CallId(c) /\ Makes(c)' = Makes(c) /\ Cur(c)' = Cur(c)
      /\ Asks(c)' = Asks(c) /\ Answer(c)' = Answer(c)
  BY DEF At, InCall, Op, CallId, Makes, Cur, Asks, Answer
<1>2. OwnSession(c)'
  <2>1. OwnSession(c)
    BY DEF CallsInv, ClientRight
  <2>2. client[c].session # None => client[c].session \in Id
    BY DEF SyInv, SyType, ClientState
  <2> QED
    BY <1>1, <2>1, <2>2 DEF OwnSession
<1>3. CASE ~InCall(c)
  BY <1>1, <1>2, <1>3 DEF CallRight, Waits
<1>4. CASE InCall(c)
  <2>1. sessions'[Cur(c)] = sessions[Cur(c)]
    BY <1>4, CallerHas
  <2>2. Known(c) => Known(c)' /\ fs'.at = fs.at
    BY <1>1, <2>1, Names DEF Known
  <2>3. Quiet(At(c)) => Quiet(At(c))'
    BY <1>1, <1>4 DEF Quiet
  <2>4. Sent(c) => Sent(c)'
    BY <1>1, <1>4 DEF Sent
  <2>5. Forwards(c) => Forwards(c)'
    BY <1>1, <1>4, <2>2 DEF Forwards
  <2>6. Replies(c) => Replies(c)'
    BY <1>1, <1>4, <2>1 DEF Replies
  <2>7. CallRight(c)
    BY DEF CallsInv, ClientRight
  <2>8. CallRight(c)'
    BY <1>1, <1>4, <2>3, <2>4, <2>5, <2>6, <2>7 DEF CallRight
  <2> QED
    BY <1>1, <1>2, <1>4, <2>2, <2>3, <2>8 DEF Waits
<1> QED
  BY <1>3, <1>4

\* The file server's side of a client none of whose messages comes there.
Thins(q, r, c) == (In(r, c) => In(q, c)) /\ \A m : Alone(q, c, m) => Alone(r, c, m)

LEMMA FsFrame ==
    ASSUME CallsInv, NEW c \in Client, client'[c] = client[c], Waits(c) => Waits(c)',
           Thins(FsDown, FsDown', c), Thins(FsUp, FsUp', c),
           Data(c)' => Data(c) /\ fs'.data = fs.data,
           Answered(c)' => Answered(c) /\ FsSlot' = FsSlot
    PROVE  FsSide(c)'
<1>1. /\ At(c)' = At(c) /\ Asks(c)' = Asks(c) /\ Answer(c)' = Answer(c)
      /\ Op(c)' = Op(c) /\ Cur(c)' = Cur(c)
  BY DEF At, Op, CallId, Makes, Cur, Asks, Answer
<1>2. FsSide(c)
  BY DEF CallsInv, ClientRight
<1>3. (In(FsDown', c) => In(FsDown, c)) /\ (In(FsUp', c) => In(FsUp, c))
  BY DEF Thins
<1>4. ~FsQuiet(c)' => ~FsQuiet(c)
  BY <1>3 DEF FsQuiet
<1>5. /\ Alone(FsDown', c, Asks(c))
      /\ Alone(FsUp', c, Msg(FsAnswer[Op(c)], Cur(c)))
  BY <1>2 DEF Thins, FsSide
<1>6. Data(c)' => fs'.data = Msg(FsAnswer[Op(c)], Cur(c))
  BY <1>2 DEF FsSide
<1>7. Answered(c)' => FsSlot' = [to |-> At(c), msg |-> Answer(c)]
  BY <1>2 DEF FsSide
<1>8. /\ In(FsDown', c) => ~Data(c)' /\ ~In(FsUp', c) /\ ~Answered(c)'
      /\ Data(c)' => ~In(FsUp', c) /\ ~Answered(c)'
      /\ In(FsUp', c) => ~Answered(c)'
  BY <1>2, <1>3 DEF FsSide
<1>9. ~FsQuiet(c)' => Waits(c)'
  BY <1>2, <1>4 DEF FsSide
<1> QED
  BY <1>1, <1>5, <1>6, <1>7, <1>8, <1>9 DEF FsSide

LEMMA QuietSide ==
    ASSUME NEW c \in Client, FsQuiet(c)'
    PROVE  FsSide(c)'
<1>1. /\ Alone(FsDown', c, Asks(c)')
      /\ Alone(FsUp', c, Msg(FsAnswer[Op(c)'], Cur(c)'))
  BY AloneIfNot DEF FsQuiet
<1> QED
  BY <1>1 DEF FsQuiet, FsSide

LEMMA ThinsItself == \A q, c : Thins(q, q, c)
BY DEF Thins

\* A step of c and of the connection a, its own: the other clients and the
\* side of the file server are left alone.
LEMMA ClientStep ==
    ASSUME SyInv, CallsInv, NEW c \in Client, NEW a \in Addr,
           At(c) = a \/ At(c) = None, ~Waits(c),
           a # fs.at, \A d \in Client : d # c => At(d) # a,
           Elsewhere(a), fs' = fs,
           \A d \in Client : d # c => client'[d] = client[d],
           \A i \in Id : i[1] # c => sessions'[i] = sessions[i],
           At(c)' = a \/ Quiet(a)'
    PROVE  /\ \A d \in Client : d # c => ClientRight(d)'
           /\ FsSide(c)' /\ OthersQuiet' /\ OwnWrite'
<1>1. FsDown' = FsDown /\ FsUp' = FsUp /\ FsSlot' = FsSlot
  <2>1. fs.at # None => fs.at \in Addr
    BY FsHas
  <2> QED
    BY <2>1 DEF Elsewhere, FsDown, FsUp, FsSlot
<1>2. ASSUME NEW d \in Client, d # c PROVE ClientRight(d)'
  <2>1. client'[d] = client[d] /\ \A i \in Id : i[1] = d => sessions'[i] = sessions[i]
    BY <1>2
  <2>2. InCall(d) => At(d) \in Addr
    BY CallerHas
  <2>3. OwnSession(d)' /\ CallRight(d)' /\ (Waits(d) => Waits(d)')
    BY <1>2, <2>1, <2>2, ClientFrame DEF Elsewhere
  <2>4. /\ Data(d)' => Data(d) /\ fs'.data = fs.data
        /\ Answered(d)' => Answered(d) /\ FsSlot' = FsSlot
    BY <1>1 DEF Data, Answered
  <2>5. FsSide(d)'
    BY <1>1, <2>1, <2>3, <2>4, ThinsItself, FsFrame
  <2> QED
    BY <2>3, <2>5 DEF ClientRight
<1>3. FsSide(c)'
  <2>1. FsQuiet(c)
    BY DEF CallsInv, ClientRight, FsSide
  <2>2. FsQuiet(c)'
    BY <1>1, <2>1 DEF FsQuiet, Data, Answered
  <2> QED
    BY <2>2, QuietSide
<1>4. OthersQuiet'
  <2> SUFFICES ASSUME NEW b \in Addr, b # fs'.at, \A d \in Client : At(d)' # b
               PROVE  Quiet(b)'
    BY DEF OthersQuiet
  <2>1. CASE b = a
    BY <2>1
  <2>2. CASE b # a
    <3>1. At(c) # b
      BY <2>2, Names
    <3>2. \A d \in Client : d # c => At(d)' = At(d)
      BY DEF At
    <3>3. Quiet(b)
      BY <3>1, <3>2 DEF CallsInv, OthersQuiet
    <3> QED
      BY <2>2, <3>3 DEF Quiet, Elsewhere
  <2> QED
    BY <2>1, <2>2
<1>5. OwnWrite'
  BY <1>1 DEF CallsInv, OwnWrite
<1> QED
  BY <1>2, <1>3, <1>4, <1>5

\* A step of the file server's connection: the clients are left alone.
LEMMA FsStep ==
    ASSUME SyInv, CallsInv, fs'.at = fs.at, Elsewhere(fs.at), client' = client,
           sessions' = sessions
    PROVE  /\ \A c \in Client : OwnSession(c)' /\ CallRight(c)' /\ (Waits(c) => Waits(c)')
           /\ OthersQuiet'
<1>1. ASSUME NEW c \in Client
      PROVE  OwnSession(c)' /\ CallRight(c)' /\ (Waits(c) => Waits(c)')
  <2>1. InCall(c) => At(c) \in Addr /\ At(c) # fs.at
    BY CallerHas
  <2> QED
    BY <2>1, ClientFrame DEF Elsewhere
<1>2. OthersQuiet'
  BY DEF CallsInv, OthersQuiet, Elsewhere, Quiet, At
<1> QED
  BY <1>1, <1>2

LEMMA CalmKept ==
    ASSUME Calm, UNCHANGED ms, fs'.at = fs.at, fs'.starts = fs.starts,
           fs.at = None => fs'.data = None,
           \A a \in Addr : owner'[a] = FileServer => owner[a] = FileServer,
           \A c \in Client : InCall(c)' <=> At(c)' # None
    PROVE  Calm'
BY DEF Calm

-----------------------------------------------------------------------------
(***************************************************************************)
(* The steps of the clients and of the file server.                        *)
(***************************************************************************)
LEMMA CallsInvInit == Init => CallsInv
<1> SUFFICES ASSUME Init PROVE CallsInv
  OBVIOUS
<1>1. Calm /\ OneServer /\ OthersQuiet /\ OwnWrite
  BY Names DEF Init, Calm, InCall, At, OneServer, OthersQuiet, Quiet, OwnWrite, FsSlot
<1>2. ASSUME NEW c \in Client PROVE ClientRight(c)
  <2>1. OwnSession(c) /\ CallRight(c)
    BY DEF Init, OwnSession, CallRight, InCall
  <2>2. FsQuiet(c)
    BY EmptyQueue DEF Init, FsQuiet, FsDown, FsUp, FsSlot, Data, Answered
  <2>3. FsSide(c)
    BY <2>2, AloneIfNot DEF FsQuiet, FsSide
  <2> QED
    BY <2>1, <2>3 DEF ClientRight
<1> QED
  BY <1>1, <1>2 DEF CallsInv

LEMMA CallCalls ==
    ASSUME SyInv, CallsInv, NEW c \in Client, Call(c)
    PROVE  CallsInv'
<1>1. PICK a \in Addr, i \in Argument(c) :
         /\ Connect(CallId(c), a, <<Msg(Op(c), i)>>)
         /\ client' = [client EXCEPT ![c].pc = "called", ![c].at = a]
  BY DEF Call
<1>2. /\ client[c].pc = "idle" /\ client[c].step <= Len(Program[c])
      /\ UNCHANGED <<slot, sessions, filesys, fs, ms, down>>
      /\ owner[a] = None /\ owner' = [owner EXCEPT ![a] = CallId(c)]
      /\ up' = [up EXCEPT ![a] = <<Msg(Op(c), i)>>]
  BY <1>1 DEF Call, Connect, tables
<1>3. a # fs.at /\ \A d \in Client : At(d) # a
  BY <1>2, FsHas, CallersAreCalls, Names DEF SyInv, Connected, At
<1>4. ~InCall(c) /\ At(c) = None
  BY <1>2 DEF InCall, CallsInv, Calm
<1>5. Quiet(a)
  BY <1>3 DEF CallsInv, OthersQuiet
<1>6. client'[c] = [step |-> client[c].step, pc |-> "called", at |-> a,
                    session |-> client[c].session]
  <2>1. client[c] \in ClientState
    BY DEF SyInv, SyType
  <2>2. client'[c] = [client[c] EXCEPT !.pc = "called", !.at = a]
    BY <1>1 DEF SyInv, SyType
  <2> QED
    BY <2>1, <2>2, Updates
<1>7. \A d \in Client : d # c => client'[d] = client[d]
  BY <1>1 DEF SyInv, SyType
<1>8. /\ At(c)' = a /\ InCall(c)' /\ Op(c)' = Op(c) /\ Makes(c)' = Makes(c)
      /\ client'[c].session = client[c].session /\ client'[c].step = client[c].step
  BY <1>6 DEF At, InCall, Op, Makes
<1>9. Elsewhere(a) /\ up'[a] = <<Msg(Op(c), i)>>
  BY <1>2 DEF Elsewhere, SyInv, SyType
<1>10. /\ \A d \in Client : d # c => ClientRight(d)'
       /\ FsSide(c)' /\ OthersQuiet' /\ OwnWrite'
  BY <1>2, <1>3, <1>4, <1>7, <1>8, <1>9, ClientStep DEF Waits
<1>11. ~Makes(c) => client[c].session # None /\ i = client[c].session
  BY DEF Argument, Makes
<1>12. Sent(c)'
  <2>1. Len(up'[a]) = 1 /\ Head(up'[a]) = Msg(Op(c), i)
    BY <1>9
  <2> QED
    BY <1>2, <1>5, <1>8, <1>11, <2>1 DEF Sent, Quiet, Msg
<1>13. CallRight(c)'
  BY <1>2, <1>8, <1>11, <1>12 DEF CallRight
<1>14. OwnSession(c)'
  BY <1>2, <1>4, <1>8 DEF CallsInv, ClientRight, OwnSession
<1>15. Calm'
  <2>1. \A b \in Addr : owner'[b] = FileServer => owner[b] = FileServer
    BY <1>2, CallersAreCalls DEF SyInv, SyType
  <2>2. \A d \in Client : InCall(d)' <=> At(d)' # None
    BY <1>7, <1>8, Names DEF CallsInv, Calm, InCall, At
  <2> QED
    BY <1>2, <2>1, <2>2, CalmKept DEF CallsInv, Calm
<1>16. OneServer'
  BY <1>2 DEF CallsInv, OneServer
<1> QED
  BY <1>10, <1>13, <1>14, <1>15, <1>16 DEF CallsInv, ClientRight

\* What a call returns: the answer is the one it waits for.
LEMMA Returns ==
    ASSUME SyInv, CallsInv, NEW c \in Client, ClientReceive(c)
    PROVE  /\ Replies(c) /\ down[At(c)] = <<Answer(c)>> /\ slot[At(c)] = None
           /\ client'[c] =
                 [step |-> client[c].step + 1,
                  pc |-> IF Op(c) \in {"SY_UPLOAD", "SY_DOWNLOAD"} THEN "transferring"
                         ELSE "idle",
                  at |-> None,
                  session |-> IF Makes(c) THEN Cur(c)
                              ELSE IF Op(c) = "SY_CLEANUP" THEN None
                              ELSE client[c].session]
           /\ \A d \in Client : d # c => client'[d] = client[d]
<1> DEFINE a == At(c)
<1>1. InCall(c) /\ down[a] # <<>> /\ Op(c) \in Request
  BY CallerHas DEF ClientReceive, At
<1>2. Replies(c) /\ down[a] = <<Answer(c)>> /\ slot[a] = None
  BY <1>1 DEF CallsInv, ClientRight, CallRight, Sent, Forwards, Replies, Quiet
<1>3. /\ Head(down[a]) = Answer(c) /\ Answer(c).type = Awaited[Op(c)]
      /\ Awaited[Op(c)] \in Closing
  BY <1>1, <1>2 DEF Answer, Msg, Closing
<1>4. /\ client'[c] = Returned(c, Answer(c))
      /\ \A d \in Client : d # c => client'[d] = client[d]
  <2>1. client' = [client EXCEPT ![c] = Returned(c, Answer(c))]
    BY <1>3 DEF ClientReceive, At
  <2> QED
    BY <2>1 DEF SyInv, SyType
<1> DEFINE r == [step |-> client[c].step + 1, pc |-> "idle", at |-> None,
                 session |-> client[c].session]
<1>5. client'[c] = CASE Makes(c) -> [r EXCEPT !.session = Answer(c).id]
                     [] Op(c) = "SY_STATUS" -> r
                     [] Op(c) = "SY_CLEANUP" -> [r EXCEPT !.session = None]
                     [] OTHER -> [r EXCEPT !.pc = "transferring"]
  BY <1>4 DEF Returned, Makes
<1>6. /\ Makes(c) => /\ Answer(c).id = Cur(c) /\ Op(c) # "SY_STATUS" /\ Op(c) # "SY_CLEANUP"
                     /\ Op(c) \notin {"SY_UPLOAD", "SY_DOWNLOAD"}
      /\ Op(c) \in Request
  BY <1>1, CallerHas DEF Makes, Answer, Msg
<1>7. CASE Makes(c)
  <2>1. client'[c] = [r EXCEPT !.session = Cur(c)]
    BY <1>5, <1>6, <1>7
  <2> QED
    BY <1>2, <1>4, <1>6, <1>7, <2>1
<1>8. CASE ~Makes(c) /\ Op(c) = "SY_STATUS"
  BY <1>2, <1>4, <1>5, <1>8
<1>9. CASE ~Makes(c) /\ Op(c) = "SY_CLEANUP"
  <2>1. client'[c] = [r EXCEPT !.session = None]
    BY <1>5, <1>9
  <2> QED
    BY <1>2, <1>4, <1>9, <2>1
<1>10. CASE ~Makes(c) /\ Op(c) # "SY_STATUS" /\ Op(c) # "SY_CLEANUP"
  <2>1. client'[c] = [r EXCEPT !.pc = "transferring"]
    BY <1>5, <1>10
  <2>2. Op(c) \in {"SY_UPLOAD", "SY_DOWNLOAD"}
    BY <1>6, <1>10 DEF Request, Makes
  <2> QED
    BY <1>2, <1>4, <1>10, <2>1, <2>2
<1> QED
  BY <1>7, <1>8, <1>9, <1>10

LEMMA ClientReceiveCalls ==
    ASSUME SyInv, CallsInv, NEW c \in Client, ClientReceive(c)
    PROVE  CallsInv'
<1>0. PICK a \in Addr : a = At(c)
  BY CallerHas DEF ClientReceive
<1>1. /\ InCall(c) /\ a # None
      /\ down' = [down EXCEPT ![a] = Tail(@)]
      /\ UNCHANGED <<owner, up, slot, sessions, filesys, fs, ms>>
  BY <1>0 DEF ClientReceive, At, tables
<1>2. /\ a # fs.at /\ \A d \in Client : d # c => At(d) # a
      /\ Cur(c) \in Id /\ Cur(c)[1] = c
  BY <1>0, <1>1, CallerHas
<1>3. Replies(c) /\ down[a] = <<Answer(c)>> /\ slot[a] = None
  BY <1>0, Returns
<1>4. Tail(down[a]) = <<>>
  BY <1>3
<1>5. \A d \in Client : d # c => client'[d] = client[d]
  BY Returns
<1>6. /\ At(c)' = None /\ ~InCall(c)'
      /\ client'[c].session = IF Makes(c) THEN Cur(c)
                              ELSE IF Op(c) = "SY_CLEANUP" THEN None
                              ELSE client[c].session
  <2> DEFINE s == IF Makes(c) THEN Cur(c)
                  ELSE IF Op(c) = "SY_CLEANUP" THEN None ELSE client[c].session
  <2> DEFINE p == IF Op(c) \in {"SY_UPLOAD", "SY_DOWNLOAD"} THEN "transferring" ELSE "idle"
  <2>1. client'[c] = [step |-> client[c].step + 1, pc |-> p, at |-> None, session |-> s]
    BY Returns
  <2>2. p # "called"
    OBVIOUS
  <2> HIDE DEF s, p
  <2>3. client'[c].at = None /\ client'[c].pc = p /\ client'[c].session = s
    BY <2>1
  <2> QED
    BY <2>2, <2>3 DEF At, InCall, s
<1>7. Elsewhere(a) /\ Quiet(a)'
  <2>1. down'[a] = <<>> /\ \A b \in Addr : b # a => down'[b] = down[b]
    BY <1>1, <1>4 DEF SyInv, SyType
  <2>2. up[a] = <<>>
    BY <1>0, <1>3 DEF Replies
  <2> QED
    BY <1>1, <1>3, <2>1, <2>2 DEF Elsewhere, Quiet
<1>8. ~Waits(c)
  BY <1>0, <1>3 DEF Waits, Quiet
<1>9. /\ \A d \in Client : d # c => ClientRight(d)'
      /\ FsSide(c)' /\ OthersQuiet' /\ OwnWrite'
  BY <1>0, <1>1, <1>2, <1>5, <1>7, <1>8, ClientStep
<1>10. CallRight(c)'
  BY <1>6 DEF CallRight
<1>11. OwnSession(c)'
  <2>1. Op(c) # "SY_CLEANUP" => sessions'[Cur(c)] # None
    BY <1>1, <1>3 DEF Replies
  <2>2. Makes(c) => Op(c) # "SY_CLEANUP"
    BY DEF Makes
  <2>3. ~Makes(c) => Cur(c) = client[c].session
    BY DEF Cur
  <2> QED
    BY <1>2, <1>6, <2>1, <2>2, <2>3 DEF OwnSession
<1>12. Calm'
  <2>1. \A d \in Client : InCall(d)' <=> At(d)' # None
    BY <1>5, <1>6 DEF CallsInv, Calm, InCall, At
  <2> QED
    BY <1>1, <2>1, CalmKept DEF CallsInv, Calm
<1>13. OneServer'
  BY <1>1 DEF CallsInv, OneServer
<1> QED
  BY <1>9, <1>10, <1>11, <1>12, <1>13 DEF CallsInv, ClientRight

LEMMA FsStartCalls ==
    ASSUME NobodyDies, SyInv, CallsInv, FsStart
    PROVE  CallsInv'
<1>1. PICK a \in Addr :
         /\ Connect(FileServer, a, <<>>)
         /\ fs' = [at |-> a, data |-> Msg("FS_REGISTER", None), starts |-> fs.starts + 1]
  BY DEF FsStart
<1>2. /\ fs.at = None /\ UNCHANGED <<down, slot, sessions, filesys, client, ms>>
      /\ owner[a] = None /\ owner' = [owner EXCEPT ![a] = FileServer]
      /\ up' = [up EXCEPT ![a] = <<>>]
  BY <1>1 DEF FsStart, Connect, tables
<1>3. a # fs.at /\ \A d \in Client : At(d) # a
  BY <1>2, CallersAreCalls, Names DEF SyInv, Connected, At
<1>4. Quiet(a)
  BY <1>3 DEF CallsInv, OthersQuiet
<1>5. UNCHANGED up
  BY <1>2, <1>4 DEF Quiet, SyInv, SyType
<1>6. fs'.at = a /\ fs'.data = Msg("FS_REGISTER", None) /\ fs'.starts = 1
  BY <1>1, <1>2 DEF CallsInv, Calm
<1>7. /\ FsDown = <<>> /\ FsUp = <<>> /\ FsSlot = None
      /\ FsDown' = <<>> /\ FsUp' = <<>> /\ FsSlot' = None
  BY <1>2, <1>4, <1>5, <1>6, Names DEF FsDown, FsUp, FsSlot, Quiet
<1>8. ASSUME NEW c \in Client PROVE ClientRight(c)'
  <2>1. OwnSession(c)' /\ CallRight(c)' /\ (Waits(c) => Waits(c)')
    BY <1>2, <1>5, ClientFrame
  <2>2. ~Data(c)' /\ ~Answered(c)'
    BY <1>6, <1>7, Names DEF Data, Answered, For, Msg
  <2>3. FsSide(c)'
    BY <1>2, <1>7, <2>1, <2>2, ThinsItself, FsFrame
  <2> QED
    BY <2>1, <2>3 DEF ClientRight
<1>9. Calm'
  <2>1. \A b \in Addr : owner'[b] = FileServer => b = a
    BY <1>2, Names DEF CallsInv, Calm
  <2>2. fs'.starts = IF fs'.at = None THEN 0 ELSE 1
    BY <1>6, Names
  <2>3. fs'.at # None
    BY <1>6, Names
  <2> QED
    BY <1>2, <1>6, <2>1, <2>2, <2>3 DEF CallsInv, Calm, InCall, At
<1>10. OneServer'
  <2>1. /\ \A i \in Id : sessions[i] # None => sessions[i].fileserver_wsi # None
    BY Names DEF SyInv, SyType, Session
  <2> QED
    BY <1>2, <2>1 DEF CallsInv, OneServer
<1>11. OthersQuiet'
  BY <1>2, <1>4, <1>5, Names DEF CallsInv, OthersQuiet, Quiet, At
<1>12. OwnWrite'
  BY <1>7 DEF OwnWrite
<1> QED
  BY <1>8, <1>9, <1>10, <1>11, <1>12 DEF CallsInv

\* The step of the file server's connection that leaves the metadata server's
\* tables alone.
LEMMA FsTables ==
    ASSUME SyInv, CallsInv, fs'.at = fs.at, fs'.starts = fs.starts, fs.at # None,
           UNCHANGED <<owner, client, sessions, ms>>,
           \A i \in Id : filesys'[i] # None => filesys'[i] = fs.at
    PROVE  Calm' /\ OneServer'
<1>1. Calm'
  <2>1. \A c \in Client : InCall(c)' <=> At(c)' # None
    BY DEF CallsInv, Calm, InCall, At
  <2> QED
    BY <2>1, CalmKept DEF CallsInv
<1>2. OneServer'
  BY DEF CallsInv, OneServer
<1> QED
  BY <1>1, <1>2

LEMMA FsWriteCalls ==
    ASSUME SyInv, CallsInv, FsWrite
    PROVE  CallsInv'
<1> DEFINE m == fs.data
<1>1. /\ fs.at # None /\ m # None
      /\ up' = [up EXCEPT ![fs.at] = Append(@, m)]
      /\ fs' = [fs EXCEPT !.data = None]
      /\ UNCHANGED <<owner, down, slot, sessions, filesys, client, ms>>
  BY DEF FsWrite, tables
<1>2. fs.at \in Addr /\ m \in Message /\ FsUp \in Seq(Message)
  BY <1>1, SaidIsMessage DEF SyInv, SyType, FsUp
<1>3. fs'.at = fs.at /\ fs'.data = None /\ fs'.starts = fs.starts
  BY <1>1 DEF SyInv, SyType
<1>4. FsUp' = Append(FsUp, m) /\ FsDown' = FsDown /\ FsSlot' = FsSlot
  BY <1>1, <1>2, <1>3 DEF FsUp, FsDown, FsSlot, SyInv, SyType
<1>5. Elsewhere(fs.at)
  BY <1>1, <1>2 DEF Elsewhere, SyInv, SyType
<1> HIDE DEF m
<1>6. ASSUME NEW c \in Client PROVE ClientRight(c)'
  <2>1. OwnSession(c)' /\ CallRight(c)' /\ (Waits(c) => Waits(c)')
    BY <1>1, <1>3, <1>5, FsStep
  <2>2. FsSide(c)
    BY DEF CallsInv, ClientRight
  <2>3. ~Data(c)' /\ (Answered(c)' <=> Answered(c))
    BY <1>3, <1>4 DEF Data, Answered
  <2>4. CASE ~For(m, c)
    <3>1. Thins(FsUp, FsUp', c)
      BY <1>2, <1>4, <2>4, AppendTo DEF Thins
    <3> QED
      BY <1>1, <1>4, <2>1, <2>3, <3>1, ThinsItself, FsFrame DEF ClientRight
  <2>5. CASE For(m, c)
    <3>1. /\ Data(c) /\ Waits(c)' /\ ~In(FsDown, c) /\ ~In(FsUp, c) /\ ~Answered(c)
          /\ m = Msg(FsAnswer[Op(c)], Cur(c))
      BY <1>1, <2>1, <2>2, <2>5 DEF Data, m, FsSide, FsQuiet
    <3>2. Alone(FsUp', c, m) /\ Alone(FsDown', c, Asks(c)')
      BY <1>2, <1>4, <3>1, AppendTo, AloneIfNot
    <3>3. Op(c)' = Op(c) /\ Cur(c)' = Cur(c)
      BY <1>1 DEF Op, Cur, Makes, CallId
    <3> QED
      BY <1>4, <2>1, <2>3, <3>1, <3>2, <3>3 DEF FsSide, ClientRight
  <2> QED
    BY <2>4, <2>5
<1>7. OthersQuiet' /\ Calm' /\ OneServer'
  BY <1>1, <1>3, <1>5, FsStep, FsTables DEF CallsInv, OneServer
<1>8. OwnWrite'
  BY <1>3, <1>4 DEF CallsInv, OwnWrite
<1> QED
  BY <1>6, <1>7, <1>8 DEF CallsInv

LEMMA FsReceiveCalls ==
    ASSUME SyInv, CallsInv, FsReceive
    PROVE  CallsInv'
<1> DEFINE m == Head(down[fs.at])
<1> DEFINE x == Msg(FsAnswer[m.type], m.id)
<1>1. /\ fs.at # None /\ down[fs.at] # <<>>
      /\ fs' = IF m.type \in DOMAIN FsAnswer THEN [fs EXCEPT !.data = x] ELSE fs
      /\ down' = [down EXCEPT ![fs.at] = Tail(@)]
      /\ UNCHANGED <<owner, up, slot, sessions, filesys, client, ms>>
  BY DEF FsReceive, tables
<1>2. fs.at \in Addr /\ FsDown = down[fs.at] /\ FsDown \in Seq(Told)
  BY <1>1 DEF SyInv, SyType, FsDown
<1>3. /\ fs'.at = fs.at /\ fs'.starts = fs.starts
      /\ \/ fs'.data = fs.data /\ m.type \notin DOMAIN FsAnswer
         \/ fs'.data = x
  BY <1>1 DEF SyInv, SyType
<1>4. FsDown' = Tail(FsDown) /\ FsUp' = FsUp /\ FsSlot' = FsSlot
  BY <1>1, <1>2, <1>3 DEF FsUp, FsDown, FsSlot, SyInv, SyType
<1>5. Elsewhere(fs.at)
  BY <1>1, <1>2 DEF Elsewhere, SyInv, SyType
<1>6. m = Head(FsDown) /\ FsDown # <<>>
  BY <1>1, <1>2
<1>7. \A c : For(x, c) <=> For(m, c)
  BY DEF For, Msg
<1>8. m = Asks(m.id[1]) => x = Msg(FsAnswer[Op(m.id[1])], Cur(m.id[1]))
  BY DEF Asks, Msg
<1> HIDE DEF m, x
<1>9. ASSUME NEW c \in Client PROVE ClientRight(c)'
  <2>1. OwnSession(c)' /\ CallRight(c)' /\ (Waits(c) => Waits(c)')
    BY <1>1, <1>3, <1>5, FsStep
  <2>2. FsSide(c)
    BY DEF CallsInv, ClientRight
  <2>3. Answered(c)' <=> Answered(c)
    BY <1>4 DEF Answered
  <2>4. Thins(FsDown, FsDown', c)
    BY <1>2, <1>4, <1>6, TailOf DEF Thins
  <2>5. CASE ~For(m, c)
    <3>1. Data(c)' => Data(c) /\ fs'.data = fs.data
      BY <1>3, <1>7, <2>5 DEF Data
    <3> QED
      BY <1>1, <1>4, <2>1, <2>3, <2>4, <3>1, ThinsItself, FsFrame DEF ClientRight
  <2>6. CASE For(m, c)
    <3>1. /\ In(FsDown, c) /\ m = Asks(c) /\ ~In(Tail(FsDown), c)
      BY <1>2, <1>6, <2>2, <2>6, TailOf DEF FsSide
    <3>2. /\ Waits(c)' /\ ~Data(c) /\ ~In(FsUp, c) /\ ~Answered(c)
      BY <2>1, <2>2, <3>1 DEF FsSide, FsQuiet
    <3>3. fs'.data # None => fs'.data = Msg(FsAnswer[Op(c)], Cur(c)) \/ ~Data(c)'
      <4>1. m.id[1] = c
        BY <2>6 DEF For
      <4> QED
        BY <1>3, <1>8, <3>1, <3>2, <4>1 DEF Data
    <3>4. Op(c)' = Op(c) /\ Cur(c)' = Cur(c)
      BY <1>1 DEF Op, Cur, Makes, CallId
    <3>5. Alone(FsDown', c, Asks(c)') /\ Alone(FsUp', c, Msg(FsAnswer[Op(c)'], Cur(c)'))
      BY <1>4, <3>1, <3>2, AloneIfNot
    <3>6. Data(c)' => fs'.data = Msg(FsAnswer[Op(c)'], Cur(c)')
      BY <3>3, <3>4 DEF Data
    <3> QED
      BY <1>4, <2>1, <2>3, <3>1, <3>2, <3>5, <3>6 DEF FsSide, ClientRight
  <2> QED
    BY <2>5, <2>6
<1>10. OthersQuiet' /\ Calm' /\ OneServer'
  BY <1>1, <1>3, <1>5, FsStep, FsTables DEF CallsInv, OneServer
<1>11. OwnWrite'
  BY <1>3, <1>4 DEF CallsInv, OwnWrite
<1> QED
  BY <1>9, <1>10, <1>11 DEF CallsInv

-----------------------------------------------------------------------------
(***************************************************************************)
(* The handlers of the metadata server.                                    *)
(***************************************************************************)
LEMMA RequestsAreNoAnswers ==
    Request \cap FsAnswers = {} /\ "FS_REGISTER" \notin Request
BY FsAnswersAre DEF Request

\* A request has been sent by a call, ...
LEMMA ClientSends ==
    ASSUME SyInv, CallsInv, NEW a \in Addr, NEW types \in SUBSET Request, Takes(a, types)
    PROVE  \E c \in Client :
              /\ InCall(c) /\ At(c) = a /\ owner[a] = CallId(c) /\ Sent(c)
              /\ Op(c) \in types /\ Head(up[a]).type = Op(c)
              /\ ~Makes(c) => Head(up[a]).id = Cur(c) /\ client[c].session # None
<1>1. up[a] # <<>> /\ Head(up[a]).type \in types
  BY DEF Takes
<1>2. a # fs.at
  <2>1. Head(up[a]) \in Said(owner[a])
    BY TakesGives
  <2>2. owner[a] # FileServer
    BY <1>1, <2>1, RequestsAreNoAnswers DEF Said
  <2> QED
    BY <2>2, FsHas, Names
<1>3. PICK c \in Client : InCall(c) /\ At(c) = a
  BY <1>1, <1>2, BusyIsHad DEF Quiet
<1>4. Sent(c) /\ (~Makes(c) => client[c].session # None)
  BY <1>1, <1>3 DEF CallsInv, ClientRight, CallRight, Forwards, Replies, Quiet
<1>5. owner[a] = CallId(c)
  BY <1>3, CallerHas
<1> QED
  BY <1>1, <1>3, <1>4, <1>5 DEF Sent, Cur

\* ... what the file server says by the file server.
LEMMA FsSends ==
    ASSUME SyInv, CallsInv, NEW a \in Addr, NEW types \in SUBSET (FsAnswers \cup {"FS_REGISTER"}),
           Takes(a, types)
    PROVE  a = fs.at /\ fs.at # None /\ FsUp = up[a] /\ FsUp \in Seq(Message) /\ FsUp # <<>>
<1>1. up[a] # <<>> /\ Head(up[a]).type \in types
  BY DEF Takes
<1>2. ASSUME NEW c \in Client, InCall(c), At(c) = a PROVE FALSE
  <2>1. Sent(c)
    BY <1>1, <1>2 DEF CallsInv, ClientRight, CallRight, Forwards, Replies, Quiet
  <2>2. Op(c) \in Request
    BY <1>2, CallerHas
  <2> QED
    BY <1>1, <1>2, <2>1, <2>2, RequestsAreNoAnswers DEF Sent
<1>3. a = fs.at
  BY <1>1, <1>2, BusyIsHad DEF Quiet
<1> QED
  BY <1>1, <1>3, Names DEF FsUp, SyInv, SyType

\* What the handling of a request of c leaves to show.
LEMMA HandlesCall ==
    ASSUME SyInv, CallsInv, NEW a \in Addr, NEW types, Takes(a, types),
           NEW c \in Client, InCall(c), At(c) = a, Sent(c),
           \A b \in Addr : b # a => slot'[b] = slot[b],
           \A i \in Id : i[1] # c => sessions'[i] = sessions[i],
           UNCHANGED <<filesys, ms>>,
           OwnSession(c)', CallRight(c)',
           \A i \in Id : i[1] = c /\ sessions'[i] # None
               => sessions'[i].fileserver_wsi = fs.at
    PROVE  CallsInv'
<1>1. /\ up' = [up EXCEPT ![a] = Tail(@)]
      /\ UNCHANGED <<owner, alive, down, fs, client>>
  BY DEF Takes
<1>2. Elsewhere(a)
  BY <1>1 DEF Elsewhere, SyInv, SyType
<1>3. ~Waits(c)
  BY DEF Sent, Waits, Quiet
<1>4. a # fs.at /\ \A d \in Client : d # c => At(d) # a
  BY CallerHas
<1>5. At(c)' = a
  BY <1>1 DEF At
<1>6. /\ \A d \in Client : d # c => ClientRight(d)'
      /\ FsSide(c)' /\ OthersQuiet' /\ OwnWrite'
  BY <1>1, <1>2, <1>3, <1>4, <1>5, ClientStep
<1>7. Calm'
  <2>1. \A d \in Client : InCall(d)' <=> At(d)' # None
    BY <1>1 DEF CallsInv, Calm, InCall, At
  <2> QED
    BY <1>1, <2>1, CalmKept DEF CallsInv, Calm
<1>8. OneServer'
  BY <1>1 DEF CallsInv, OneServer
<1> QED
  BY <1>6, <1>7, <1>8 DEF CallsInv, ClientRight

\* The connection of the call after its request has been taken.
LEMMA RequestTaken ==
    ASSUME SyInv, CallsInv, NEW a \in Addr, NEW types, Takes(a, types),
           NEW c \in Client, InCall(c), At(c) = a, Sent(c)
    PROVE  /\ up'[a] = <<>> /\ down'[a] = <<>> /\ slot[a] = None
           /\ fs' = fs
           /\ At(c)' = a /\ InCall(c)' /\ Op(c)' = Op(c) /\ Makes(c)' = Makes(c)
           /\ Cur(c)' = Cur(c) /\ Asks(c)' = Asks(c) /\ Answer(c)' = Answer(c)
           /\ client'[c] = client[c]
           /\ client[c].step <= Len(Program[c])
           /\ ~Makes(c) => client[c].session # None
<1>1. /\ up' = [up EXCEPT ![a] = Tail(@)]
      /\ UNCHANGED <<down, fs, client>>
  BY DEF Takes
<1>2. Tail(up[a]) = <<>>
  BY OneMessage DEF Sent, SyInv, SyType
<1>3. up'[a] = <<>>
  BY <1>1, <1>2 DEF SyInv, SyType
<1>4. /\ client[c].step <= Len(Program[c])
      /\ ~Makes(c) => client[c].session # None
  BY DEF CallsInv, ClientRight, CallRight
<1> QED
  BY <1>1, <1>3, <1>4 DEF Sent, At, InCall, Op, Makes, Cur, CallId, Asks, Answer

LEMMA AwaitedOf ==
    /\ Awaited["SY_INIT"] = "SY_INIT_OK" /\ Awaited["SY_CONNECT"] = "SY_CONNECT_OK"
    /\ Awaited["SY_STATUS"] = "SY_STATUS_OK" /\ Awaited["SY_UPLOAD"] = "FS_UPLOAD_READY"
    /\ Awaited["SY_DOWNLOAD"] = "FS_DOWNLOAD_READY"
    /\ Awaited["SY_CLEANUP"] = "SY_CLEANUP_OK"
BY DEF Awaited

LEMMA NoSessionIsNone == \A f, a \in Addr : [fileserver_wsi |-> f, client_wsi |-> a] # None
BY NoneIsNoSession

LEMMA SyInitCalls ==
    ASSUME SyInv, CallsInv, NEW a \in Addr, SyInit(a)
    PROVE  CallsInv'
<1>1. Takes(a, {"SY_INIT"}) /\ UNCHANGED <<filesys, ms>>
  BY DEF SyInit
<1>2. PICK c \in Client : /\ InCall(c) /\ At(c) = a /\ owner[a] = CallId(c) /\ Sent(c)
                          /\ Op(c) = "SY_INIT"
  BY <1>1, ClientSends DEF Request
<1>3. /\ up'[a] = <<>> /\ down'[a] = <<>> /\ slot[a] = None /\ fs' = fs
      /\ At(c)' = a /\ InCall(c)' /\ Op(c)' = Op(c) /\ Makes(c)' = Makes(c)
      /\ Cur(c)' = Cur(c) /\ Asks(c)' = Asks(c) /\ Answer(c)' = Answer(c)
      /\ client'[c] = client[c] /\ client[c].step <= Len(Program[c])
      /\ ~Makes(c) => client[c].session # None
  BY <1>1, <1>2, RequestTaken
<1>4. Cur(c) = owner[a] /\ Cur(c) \in Id /\ Cur(c)[1] = c
  BY <1>2, CallerHas DEF Cur, Makes
<1>5. OwnSession(c)
  BY DEF CallsInv, ClientRight
<1>6. CASE UNCHANGED <<sessions, slot>>
  <2>1. OwnSession(c)'
    BY <1>3, <1>5, <1>6 DEF OwnSession
  <2>2. CallRight(c)'
    BY <1>3, <1>6 DEF CallRight, Quiet
  <2> QED
    BY <1>1, <1>2, <1>6, <2>1, <2>2, HandlesCall DEF CallsInv, OneServer
<1>7. CASE \E f \in fileservers :
             /\ sessions' = [sessions EXCEPT ![owner[a]] =
                                [fileserver_wsi |-> f, client_wsi |-> a]]
             /\ Prepare(a, f, Msg("SY_INIT", owner[a]))
  <2>1. PICK f \in fileservers :
             /\ sessions' = [sessions EXCEPT ![owner[a]] =
                                [fileserver_wsi |-> f, client_wsi |-> a]]
             /\ slot' = [slot EXCEPT ![a] = [to |-> f, msg |-> Msg("SY_INIT", owner[a])]]
    BY <1>7 DEF Prepare
  <2>2. f = fs.at /\ f # None
    BY Names DEF SyInv, SyType, RegisteredIsFileServer, CallsInv, Calm
  <2>3. /\ sessions'[Cur(c)] = [fileserver_wsi |-> fs.at, client_wsi |-> a]
        /\ \A i \in Id : i # Cur(c) => sessions'[i] = sessions[i]
    BY <1>4, <2>1, <2>2 DEF SyInv, SyType
  <2>4. sessions'[Cur(c)] # None
    BY <2>2, <2>3, FsHas, NoSessionIsNone
  <2>5. /\ slot'[a] = [to |-> fs.at, msg |-> Asks(c)]
        /\ \A b \in Addr : b # a => slot'[b] = slot[b]
    BY <1>2, <1>4, <2>1, <2>2 DEF SyInv, SyType, Asks
  <2>6. OwnSession(c)'
    BY <1>3, <1>4, <1>5, <2>3, <2>4 DEF OwnSession, SyInv, SyType, ClientState
  <2>7. Known(c)'
    BY <1>2, <1>3, <2>2, <2>3, <2>4, FsAnswerIs DEF Known
  <2>8. Forwards(c)'
    BY <1>3, <2>5, <2>7 DEF Forwards
  <2>9. CallRight(c)'
    BY <1>3, <2>8 DEF CallRight
  <2>10. \A i \in Id : sessions'[i] # None => sessions'[i].fileserver_wsi = fs.at
    BY <2>3 DEF CallsInv, OneServer
  <2> QED
    BY <1>1, <1>2, <1>4, <2>3, <2>5, <2>6, <2>9, <2>10, HandlesCall
<1> QED
  BY <1>6, <1>7 DEF SyInit

LEMMA SyConnectCalls ==
    ASSUME SyInv, CallsInv, NEW a \in Addr, SyConnect(a)
    PROVE  CallsInv'
<1> DEFINE f == filesys[Head(up[a]).id]
<1>1. Takes(a, {"SY_CONNECT"}) /\ UNCHANGED <<filesys, ms>>
  BY DEF SyConnect
<1>2. PICK c \in Client : /\ InCall(c) /\ At(c) = a /\ owner[a] = CallId(c) /\ Sent(c)
                          /\ Op(c) = "SY_CONNECT"
  BY <1>1, ClientSends DEF Request
<1>3. /\ up'[a] = <<>> /\ down'[a] = <<>> /\ slot[a] = None /\ fs' = fs
      /\ At(c)' = a /\ InCall(c)' /\ Op(c)' = Op(c) /\ Makes(c)' = Makes(c)
      /\ Cur(c)' = Cur(c) /\ Asks(c)' = Asks(c) /\ Answer(c)' = Answer(c)
      /\ client'[c] = client[c] /\ client[c].step <= Len(Program[c])
      /\ ~Makes(c) => client[c].session # None
  BY <1>1, <1>2, RequestTaken
<1>4. Cur(c) = owner[a] /\ Cur(c) \in Id /\ Cur(c)[1] = c
  BY <1>2, CallerHas DEF Cur, Makes
<1>5. OwnSession(c)
  BY DEF CallsInv, ClientRight
<1>6. CASE UNCHANGED <<sessions, slot>>
  <2>1. OwnSession(c)'
    BY <1>3, <1>5, <1>6 DEF OwnSession
  <2>2. CallRight(c)'
    BY <1>3, <1>6 DEF CallRight, Quiet
  <2> QED
    BY <1>1, <1>2, <1>6, <2>1, <2>2, HandlesCall DEF CallsInv, OneServer
<1>7. CASE /\ f # None
           /\ sessions' = [sessions EXCEPT ![owner[a]] =
                               [fileserver_wsi |-> f, client_wsi |-> a]]
           /\ Prepare(a, a, Msg("SY_CONNECT_OK", owner[a]))
  <2>1. Head(up[a]).id \in Id
    BY <1>1, TakesGives DEF Request
  <2>2. f = fs.at
    BY <1>7, <2>1 DEF CallsInv, OneServer
  <2>3. /\ sessions'[Cur(c)] = [fileserver_wsi |-> fs.at, client_wsi |-> a]
        /\ \A i \in Id : i # Cur(c) => sessions'[i] = sessions[i]
    BY <1>4, <1>7, <2>2 DEF SyInv, SyType
  <2>4. sessions'[Cur(c)] # None
    BY <1>7, <2>2, <2>3, FsHas, NoSessionIsNone
  <2>5. Answer(c) = Msg("SY_CONNECT_OK", owner[a])
    BY <1>2, <1>4, AwaitedOf DEF Answer
  <2>6. /\ slot'[a] = [to |-> a, msg |-> Answer(c)]
        /\ \A b \in Addr : b # a => slot'[b] = slot[b]
    BY <1>7, <2>5 DEF Prepare, SyInv, SyType
  <2>7. OwnSession(c)'
    BY <1>3, <1>4, <1>5, <2>3, <2>4 DEF OwnSession, SyInv, SyType, ClientState
  <2>8. Replies(c)'
    BY <1>2, <1>3, <2>4, <2>6 DEF Replies
  <2>9. CallRight(c)'
    BY <1>3, <2>8 DEF CallRight
  <2>10. \A i \in Id : sessions'[i] # None => sessions'[i].fileserver_wsi = fs.at
    BY <2>3 DEF CallsInv, OneServer
  <2> QED
    BY <1>1, <1>2, <1>4, <2>3, <2>6, <2>7, <2>9, <2>10, HandlesCall
<1> QED
  BY <1>6, <1>7 DEF SyConnect

LEMMA ForwardCalls ==
    ASSUME SyInv, CallsInv, NEW a \in Addr, Forward(a)
    PROVE  CallsInv'
<1> DEFINE i == Head(up[a]).id
<1>1. /\ Takes(a, Forwarded) /\ sessions[i] # None
      /\ sessions' = [sessions EXCEPT ![i].client_wsi = a]
      /\ slot' = [slot EXCEPT ![a] = [to |-> sessions[i].fileserver_wsi,
                                      msg |-> Head(up[a])]]
      /\ UNCHANGED <<filesys, ms>>
  BY DEF Forward, Prepare
<1>2. PICK c \in Client : /\ InCall(c) /\ At(c) = a /\ owner[a] = CallId(c) /\ Sent(c)
                          /\ Op(c) \in Forwarded /\ Head(up[a]).type = Op(c)
                          /\ ~Makes(c) => Head(up[a]).id = Cur(c) /\ client[c].session # None
  BY <1>1, ClientSends DEF Request, Forwarded
<1>3. /\ up'[a] = <<>> /\ down'[a] = <<>> /\ slot[a] = None /\ fs' = fs
      /\ At(c)' = a /\ InCall(c)' /\ Op(c)' = Op(c) /\ Makes(c)' = Makes(c)
      /\ Cur(c)' = Cur(c) /\ Asks(c)' = Asks(c) /\ Answer(c)' = Answer(c)
      /\ client'[c] = client[c] /\ client[c].step <= Len(Program[c])
      /\ ~Makes(c) => client[c].session # None
  BY <1>1, <1>2, RequestTaken
<1>4. ~Makes(c) /\ Cur(c) = i /\ client[c].session = i
  BY <1>2 DEF Makes, Forwarded, Cur
<1>5. i \in Id /\ i[1] = c
  BY <1>2, <1>4, CallerHas
<1>6. Head(up[a]) = Asks(c)
  <2>1. Head(up[a]) \in Message
    BY <1>1, TakesGives
  <2>2. \A m \in Message : m = Msg(m.type, m.id)
    BY DEF Message, Msg
  <2> QED
    BY <1>2, <1>4, <2>1, <2>2 DEF Asks
<1> HIDE DEF i
<1>7. sessions[i] \in Session /\ sessions[i].fileserver_wsi = fs.at /\ fs.at # None
  BY <1>1, <1>5, Names DEF SyInv, SyType, Session, CallsInv, OneServer
<1>8. /\ sessions'[i] = [fileserver_wsi |-> fs.at, client_wsi |-> a]
      /\ \A j \in Id : j # i => sessions'[j] = sessions[j]
  <2>1. \A r \in Session :
           [r EXCEPT !.client_wsi = a] = [fileserver_wsi |-> r.fileserver_wsi, client_wsi |-> a]
    BY DEF Session
  <2>2. sessions'[i] = [sessions[i] EXCEPT !.client_wsi = a]
    BY <1>1, <1>5 DEF SyInv, SyType
  <2> QED
    BY <1>1, <1>5, <1>7, <2>1, <2>2 DEF SyInv, SyType
<1>9. sessions'[i] # None
  BY <1>7, <1>8, FsHas, NoSessionIsNone
<1>10. /\ slot'[a] = [to |-> fs.at, msg |-> Asks(c)]
       /\ \A b \in Addr : b # a => slot'[b] = slot[b]
  BY <1>1, <1>6, <1>7 DEF SyInv, SyType
<1>11. OwnSession(c)'
  BY <1>3, <1>4, <1>5, <1>9 DEF OwnSession
<1>12. Known(c)'
  BY <1>2, <1>3, <1>4, <1>7, <1>8, <1>9, FsAnswerIs DEF Known, Forwarded
<1>13. CallRight(c)'
  BY <1>3, <1>10, <1>12 DEF CallRight, Forwards
<1>14. \A j \in Id : sessions'[j] # None => sessions'[j].fileserver_wsi = fs.at
  BY <1>8 DEF CallsInv, OneServer
<1> QED
  BY <1>1, <1>2, <1>5, <1>8, <1>10, <1>11, <1>13, <1>14, HandlesCall

LEMMA SyCleanupCalls ==
    ASSUME SyInv, CallsInv, NEW a \in Addr, SyCleanup(a)
    PROVE  CallsInv'
<1> DEFINE i == Head(up[a]).id
<1>1. /\ Takes(a, {"SY_CLEANUP"})
      /\ sessions' = [sessions EXCEPT ![i] = None]
      /\ slot' = [slot EXCEPT ![a] = [to |-> a, msg |-> Msg("SY_CLEANUP_OK", None)]]
      /\ UNCHANGED <<filesys, ms>>
  BY DEF SyCleanup, Prepare
<1>2. PICK c \in Client : /\ InCall(c) /\ At(c) = a /\ owner[a] = CallId(c) /\ Sent(c)
                          /\ Op(c) = "SY_CLEANUP"
                          /\ ~Makes(c) => Head(up[a]).id = Cur(c) /\ client[c].session # None
  BY <1>1, ClientSends DEF Request
<1>3. /\ up'[a] = <<>> /\ down'[a] = <<>> /\ slot[a] = None /\ fs' = fs
      /\ At(c)' = a /\ InCall(c)' /\ Op(c)' = Op(c) /\ Makes(c)' = Makes(c)
      /\ Cur(c)' = Cur(c) /\ Asks(c)' = Asks(c) /\ Answer(c)' = Answer(c)
      /\ client'[c] = client[c] /\ client[c].step <= Len(Program[c])
      /\ ~Makes(c) => client[c].session # None
  BY <1>1, <1>2, RequestTaken
<1>4. ~Makes(c) /\ Cur(c) = i /\ client[c].session = i
  BY <1>2 DEF Makes, Cur
<1>5. i \in Id /\ i[1] = c
  BY <1>2, <1>4, CallerHas
<1> HIDE DEF i
<1>6. /\ sessions'[i] = None
      /\ \A j \in Id : j # i => sessions'[j] = sessions[j]
  BY <1>1, <1>5 DEF SyInv, SyType
<1>7. Answer(c) = Msg("SY_CLEANUP_OK", None)
  BY <1>2, AwaitedOf DEF Answer
<1>8. /\ slot'[a] = [to |-> a, msg |-> Answer(c)]
      /\ \A b \in Addr : b # a => slot'[b] = slot[b]
  BY <1>1, <1>7 DEF SyInv, SyType
<1>9. OwnSession(c)'
  BY <1>2, <1>3, <1>4, <1>5 DEF OwnSession
<1>10. CallRight(c)'
  BY <1>2, <1>3, <1>4, <1>6, <1>8 DEF CallRight, Replies
<1>11. \A j \in Id : sessions'[j] # None => sessions'[j].fileserver_wsi = fs.at
  BY <1>6 DEF CallsInv, OneServer
<1> QED
  BY <1>1, <1>2, <1>5, <1>6, <1>8, <1>9, <1>10, <1>11, HandlesCall

\* A handler of a message of the file server leaves the clients alone.
LEMMA HandlesFs ==
    ASSUME SyInv, CallsInv, NEW a \in Addr,
           NEW types \in SUBSET (FsAnswers \cup {"FS_REGISTER"}), Takes(a, types),
           NEW x, slot' = [slot EXCEPT ![a] = x], UNCHANGED <<sessions, ms>>,
           \A i \in Id : filesys'[i] # None => filesys'[i] = fs.at
    PROVE  /\ a = fs.at /\ fs.at # None
           /\ FsUp \in Seq(Message) /\ FsUp # <<>> /\ Head(FsUp) = Head(up[a])
           /\ fs' = fs /\ client' = client
           /\ FsDown' = FsDown /\ FsUp' = Tail(FsUp) /\ FsSlot' = x
           /\ \A c \in Client :
                 OwnSession(c)' /\ CallRight(c)' /\ (Waits(c) => Waits(c)')
           /\ Calm' /\ OneServer' /\ OthersQuiet'
<1>1. /\ up' = [up EXCEPT ![a] = Tail(@)]
      /\ UNCHANGED <<owner, alive, down, fs, client>>
  BY DEF Takes
<1>2. a = fs.at /\ fs.at # None /\ FsUp = up[a] /\ FsUp \in Seq(Message) /\ FsUp # <<>>
  BY FsSends
<1>3. Elsewhere(fs.at)
  BY <1>1, <1>2 DEF Elsewhere, SyInv, SyType
<1>4. FsDown' = FsDown /\ FsUp' = Tail(FsUp) /\ FsSlot' = x
  BY <1>1, <1>2 DEF FsDown, FsUp, FsSlot, SyInv, SyType
<1>5. /\ \A c \in Client : OwnSession(c)' /\ CallRight(c)' /\ (Waits(c) => Waits(c)')
      /\ OthersQuiet'
  BY <1>1, <1>3, FsStep
<1>6. Calm' /\ OneServer'
  BY <1>1, <1>2, FsTables
<1> QED
  BY <1>1, <1>2, <1>4, <1>5, <1>6

LEMMA RegisterCalls ==
    ASSUME SyInv, CallsInv, NEW a \in Addr, Register(a)
    PROVE  CallsInv'
<1> DEFINE x == [to |-> a, msg |-> Msg("FS_REGISTER_OK", None)]
<1>1. /\ Takes(a, {"FS_REGISTER"}) /\ slot' = [slot EXCEPT ![a] = x]
      /\ UNCHANGED <<sessions, filesys, ms>>
  BY DEF Register, Prepare
<1>2. \A i \in Id : filesys'[i] # None => filesys'[i] = fs.at
  BY <1>1 DEF CallsInv, OneServer
<1> HIDE DEF x
<1>3. /\ a = fs.at /\ FsUp \in Seq(Message) /\ FsUp # <<>>
      /\ fs' = fs /\ client' = client
      /\ FsDown' = FsDown /\ FsUp' = Tail(FsUp) /\ FsSlot' = x
      /\ \A c \in Client : OwnSession(c)' /\ CallRight(c)' /\ (Waits(c) => Waits(c)')
      /\ Calm' /\ OneServer' /\ OthersQuiet'
  BY <1>1, <1>2, HandlesFs
<1>4. ASSUME NEW c \in Client PROVE ClientRight(c)'
  <2>1. Thins(FsUp, FsUp', c)
    BY <1>3, TailOf DEF Thins
  <2>2. ~Answered(c)'
    BY <1>3, Names DEF Answered, For, Msg, x
  <2>3. Data(c)' => Data(c) /\ fs'.data = fs.data
    BY <1>3 DEF Data
  <2>4. FsSide(c)'
    BY <1>3, <2>1, <2>2, <2>3, ThinsItself, FsFrame
  <2> QED
    BY <1>3, <2>4 DEF ClientRight
<1>5. OwnWrite'
  BY <1>3 DEF OwnWrite, x
<1> QED
  BY <1>3, <1>4, <1>5 DEF CallsInv

\* The answer to the call of c is prepared.
LEMMA FsAnswersCall ==
    ASSUME SyInv, CallsInv, NEW a \in Addr, NEW types \in SUBSET FsAnswers,
           Takes(a, types), NEW c \in Client, For(Head(up[a]), c),
           NEW x, slot' = [slot EXCEPT ![a] = x],
           Waits(c) /\ Head(up[a]) = Msg(FsAnswer[Op(c)], Cur(c))
             => x = [to |-> At(c), msg |-> Answer(c)] /\ Answer(c).id \in Id
                /\ Answer(c).id[1] = c,
           UNCHANGED <<sessions, ms>>,
           \A i \in Id : filesys'[i] # None => filesys'[i] = fs.at
    PROVE  CallsInv'
<1>1. /\ a = fs.at /\ FsUp \in Seq(Message) /\ FsUp # <<>> /\ Head(FsUp) = Head(up[a])
      /\ fs' = fs /\ client' = client
      /\ FsDown' = FsDown /\ FsUp' = Tail(FsUp) /\ FsSlot' = x
      /\ \A d \in Client : OwnSession(d)' /\ CallRight(d)' /\ (Waits(d) => Waits(d)')
      /\ Calm' /\ OneServer' /\ OthersQuiet'
  BY HandlesFs
<1>2. FsSide(c)
  BY DEF CallsInv, ClientRight
<1>3. /\ In(FsUp, c) /\ Head(FsUp) = Msg(FsAnswer[Op(c)], Cur(c)) /\ ~In(Tail(FsUp), c)
  <2> DEFINE y == Msg(FsAnswer[Op(c)], Cur(c))
  <2>1. For(Head(FsUp), c) /\ FsUp \in Seq(Message) /\ FsUp # <<>>
    BY <1>1
  <2>2. Alone(FsUp, c, y)
    BY <1>2 DEF FsSide
  <2> HIDE DEF y
  <2>3. In(FsUp, c) /\ Head(FsUp) = y /\ ~In(Tail(FsUp), c)
    BY <2>1, <2>2, TailOf
  <2> QED
    BY <2>3 DEF y
<1>4. Waits(c) /\ ~In(FsDown, c) /\ ~Data(c)
  BY <1>2, <1>3 DEF FsSide, FsQuiet
<1>5. x = [to |-> At(c), msg |-> Answer(c)] /\ Answer(c).id \in Id /\ Answer(c).id[1] = c
  BY <1>1, <1>3, <1>4
<1>6. ASSUME NEW d \in Client, d # c PROVE ClientRight(d)'
  <2>1. Thins(FsUp, FsUp', d)
    BY <1>1, TailOf DEF Thins
  <2>2. ~Answered(d)'
    BY <1>1, <1>5, <1>6 DEF Answered, For
  <2>3. Data(d)' => Data(d) /\ fs'.data = fs.data
    BY <1>1 DEF Data
  <2>4. FsSide(d)'
    BY <1>1, <2>1, <2>2, <2>3, ThinsItself, FsFrame
  <2> QED
    BY <1>1, <2>4 DEF ClientRight
<1>7. ClientRight(c)'
  <2>1. ~Data(c)'
    BY <1>1, <1>4 DEF Data
  <2>2. At(c)' = At(c) /\ Answer(c)' = Answer(c)
    BY <1>1 DEF At, Answer, Op, Cur, Makes, CallId
  <2>3. /\ Alone(FsDown', c, Asks(c)')
        /\ Alone(FsUp', c, Msg(FsAnswer[Op(c)'], Cur(c)'))
    BY <1>1, <1>3, <1>4, AloneIfNot
  <2>4. FsSide(c)'
    BY <1>1, <1>3, <1>4, <1>5, <2>1, <2>2, <2>3 DEF FsSide
  <2> QED
    BY <1>1, <2>4 DEF ClientRight
<1>8. OwnWrite'
  BY <1>1, <1>5 DEF OwnWrite
<1> QED
  BY <1>1, <1>6, <1>7, <1>8 DEF CallsInv

LEMMA FsInitOkCalls ==
    ASSUME SyInv, CallsInv, NEW a \in Addr, FsInitOk(a)
    PROVE  CallsInv'
<1> DEFINE i == Head(up[a]).id
<1> DEFINE x == [to |-> sessions[i].client_wsi, msg |-> Msg("SY_INIT_OK", i)]
<1>1. /\ Takes(a, {"FS_INIT_OK"}) /\ sessions[i] # None
      /\ filesys' = [filesys EXCEPT ![i] = sessions[i].fileserver_wsi]
      /\ slot' = [slot EXCEPT ![a] = x]
      /\ UNCHANGED <<sessions, ms>>
  BY DEF FsInitOk, Prepare
<1>2. i \in Id /\ Head(up[a]).type = "FS_INIT_OK" /\ {"FS_INIT_OK"} \in SUBSET FsAnswers
  BY <1>1, TakesGives, FsAnswersAre
<1>3. i[1] \in Client /\ For(Head(up[a]), i[1])
  BY <1>2, IdsHaveClients DEF For
<1>4. \A j \in Id : filesys'[j] # None => filesys'[j] = fs.at
  BY <1>1, <1>2 DEF CallsInv, OneServer, SyInv, SyType
<1>5. ASSUME NEW c \in Client, c = i[1], Waits(c),
             Head(up[a]) = Msg(FsAnswer[Op(c)], Cur(c))
      PROVE  /\ x = [to |-> At(c), msg |-> Answer(c)]
             /\ Answer(c).id \in Id /\ Answer(c).id[1] = c
  <2>1. Op(c) = "SY_INIT"
    BY <1>2, <1>5, FsAnswerIs DEF Waits, Known, Msg
  <2>2. i = Cur(c) /\ sessions[i].client_wsi = At(c)
    BY <1>5 DEF Waits, Known, Msg
  <2>3. Answer(c) = Msg("SY_INIT_OK", i)
    BY <2>1, <2>2, AwaitedOf DEF Answer
  <2> QED
    BY <1>2, <1>5, <2>2, <2>3 DEF Msg
<1> HIDE DEF x
<1> QED
  BY <1>1, <1>2, <1>3, <1>4, <1>5, FsAnswersCall

LEMMA FsReadyCalls ==
    ASSUME SyInv, CallsInv, NEW a \in Addr, FsReady(a)
    PROVE  CallsInv'
<1> DEFINE m == Head(up[a])
<1> DEFINE x == [to |-> sessions[m.id].client_wsi,
                 msg |-> IF m.type = "FS_STATUS_OK" THEN Msg("SY_STATUS_OK", m.id) ELSE m]
<1>1. /\ Takes(a, FsAnswers \ {"FS_INIT_OK"}) /\ sessions[m.id] # None
      /\ slot' = [slot EXCEPT ![a] = x]
      /\ UNCHANGED <<sessions, filesys, ms>>
  BY DEF FsReady, Prepare, tables
<1>2. m.id \in Id /\ m.type \in FsAnswers \ {"FS_INIT_OK"}
      /\ FsAnswers \ {"FS_INIT_OK"} \in SUBSET FsAnswers
  BY <1>1, TakesGives
<1>3. m.id[1] \in Client /\ For(m, m.id[1])
  BY <1>2, IdsHaveClients DEF For
<1>4. \A j \in Id : filesys'[j] # None => filesys'[j] = fs.at
  BY <1>1 DEF CallsInv, OneServer
<1>5. ASSUME NEW c \in Client, c = m.id[1], Waits(c), m = Msg(FsAnswer[Op(c)], Cur(c))
      PROVE  /\ x = [to |-> At(c), msg |-> Answer(c)]
             /\ Answer(c).id \in Id /\ Answer(c).id[1] = c
  <2>1. m.type = FsAnswer[Op(c)] /\ m.id = Cur(c)
    BY <1>5 DEF Msg
  <2>2. Op(c) \in {"SY_STATUS", "SY_UPLOAD", "SY_DOWNLOAD"}
    BY <1>2, <1>5, <2>1, FsAnswerIs DEF Waits, Known
  <2>3. sessions[m.id].client_wsi = At(c)
    BY <1>5, <2>1 DEF Waits, Known
  <2>4. Answer(c) = Msg(Awaited[Op(c)], m.id)
    BY <2>1, <2>2 DEF Answer
  <2>5. x.msg = Answer(c)
    <3>1. CASE Op(c) = "SY_STATUS"
      BY <2>1, <2>4, <3>1, FsAnswerIs, AwaitedOf
    <3>2. CASE Op(c) \in {"SY_UPLOAD", "SY_DOWNLOAD"}
      <4>1. FsAnswer[Op(c)] = Awaited[Op(c)] /\ FsAnswer[Op(c)] # "FS_STATUS_OK"
        BY <3>2, FsAnswerIs, AwaitedOf
      <4> QED
        BY <1>5, <2>1, <2>4, <4>1
    <3> QED
      BY <2>2, <3>1, <3>2
  <2> QED
    BY <1>2, <1>5, <2>3, <2>4, <2>5 DEF Msg
<1> HIDE DEF m, x
<1> QED
  BY <1>1, <1>2, <1>3, <1>4, <1>5, FsAnswersCall DEF m

\* A write: what a request becomes at the file server, or an answer.
LEMMA MsWriteCalls ==
    ASSUME SyInv, CallsInv, NEW a \in Addr, MsWrite(a)
    PROVE  CallsInv'
<1> DEFINE t == slot[a].to
<1> DEFINE m == slot[a].msg
<1>1. /\ slot[a] # None /\ slot' = [slot EXCEPT ![a] = None]
      /\ owner[t] # None /\ alive[t] => down' = [down EXCEPT ![t] = Append(@, m)]
      /\ UNCHANGED <<owner, alive, up, sessions, filesys, fs, client, ms>>
  BY DEF MsWrite, tables
<1>2. t \in Addr /\ m \in Told /\ down[t] \in Seq(Told)
  BY <1>1 DEF SyInv, SyType
<1>3. slot'[a] = None /\ \A b \in Addr : b # a => slot'[b] = slot[b]
  BY <1>1 DEF SyInv, SyType
<1>4. owner[t] # None /\ alive[t] =>
         down'[t] = Append(down[t], m) /\ \A b \in Addr : b # t => down'[b] = down[b]
  BY <1>1, <1>2 DEF SyInv, SyType
<1> HIDE DEF t, m
<1>5. Calm' /\ OneServer'
  <2>1. \A d \in Client : InCall(d)' <=> At(d)' # None
    BY <1>1 DEF CallsInv, Calm, InCall, At
  <2> QED
    BY <1>1, <2>1, CalmKept DEF CallsInv, Calm, OneServer
<1>6. \A d \in Client :
         /\ At(d)' = At(d) /\ InCall(d)' = InCall(d) /\ Op(d)' = Op(d)
         /\ Makes(d)' = Makes(d) /\ Cur(d)' = Cur(d) /\ Asks(d)' = Asks(d)
         /\ Answer(d)' = Answer(d) /\ client'[d] = client[d]
         /\ OwnSession(d) /\ CallRight(d) /\ FsSide(d)
         /\ (OwnSession(d) => OwnSession(d)')
  BY <1>1 DEF At, InCall, Op, Makes, Cur, CallId, Asks, Answer, OwnSession, CallsInv,
              ClientRight
<1>7. CASE a = fs.at
  <2>1. fs.at # None /\ FsSlot = slot[a] /\ FsSlot # None
    BY <1>1, <1>7, Names DEF FsSlot
  <2>2. owner[fs.at] = FileServer /\ alive[fs.at] /\ FileServer # None
    BY <2>1, FsHas, Names
  <2>3. CASE m.id \notin Id
    <3>1. t = a
      BY <1>7, <2>1, <2>3 DEF CallsInv, OwnWrite, t, m
    <3>2. Elsewhere(fs.at)
      BY <1>1, <1>3, <1>4, <1>7, <2>2, <3>1 DEF Elsewhere
    <3>3. FsDown' = Append(FsDown, m) /\ FsUp' = FsUp /\ FsSlot' = None
          /\ FsDown \in Seq(Told)
      BY <1>1, <1>2, <1>3, <1>4, <1>7, <2>1, <2>2, <3>1 DEF FsDown, FsUp, FsSlot
    <3>4. ASSUME NEW c \in Client PROVE ClientRight(c)'
      <4>1. OwnSession(c)' /\ CallRight(c)' /\ (Waits(c) => Waits(c)')
        BY <1>1, <3>2, FsStep
      <4>2. ~For(m, c)
        BY <2>3 DEF For
      <4>3. Thins(FsDown, FsDown', c)
        BY <1>2, <3>3, <4>2, AppendTo DEF Thins
      <4>4. ~Answered(c)' /\ (Data(c)' => Data(c) /\ fs'.data = fs.data)
        BY <1>1, <3>3 DEF Answered, Data
      <4>5. FsSide(c)'
        BY <1>6, <3>3, <4>1, <4>3, <4>4, ThinsItself, FsFrame
      <4> QED
        BY <4>1, <4>5 DEF ClientRight
    <3>5. OthersQuiet'
      BY <1>1, <3>2, FsStep
    <3>6. OwnWrite'
      BY <3>3 DEF OwnWrite
    <3> QED
      BY <1>5, <3>4, <3>5, <3>6 DEF CallsInv
  <2>4. CASE m.id \in Id
    <3>1. PICK c \in Client : For(m, c)
      BY <2>4, IdsHaveClients DEF For
    <3>2. Answered(c)
      BY <2>1, <3>1 DEF Answered, m
    <3>3. /\ t = At(c) /\ m = Answer(c) /\ Waits(c)
          /\ ~In(FsDown, c) /\ ~Data(c) /\ ~In(FsUp, c)
      <4>1. FsSide(c)
        BY <1>6
      <4>2. /\ slot[a] = [to |-> At(c), msg |-> Answer(c)] /\ Waits(c)
            /\ ~In(FsDown, c) /\ ~Data(c) /\ ~In(FsUp, c)
        BY <2>1, <3>2, <4>1 DEF FsSide, FsQuiet
      <4> QED
        BY <4>2 DEF t, m
    <3>4. InCall(c) /\ Quiet(t) /\ Known(c)
      BY <3>3 DEF Waits
    <3>5. /\ owner[t] = CallId(c) /\ alive[t] /\ t # fs.at
          /\ \A d \in Client : d # c => At(d) # t
      BY <3>3, <3>4, CallerHas
    <3>6. down'[t] = Append(<<>>, m) /\ \A b \in Addr : b # t => down'[b] = down[b]
      BY <1>4, <3>4, <3>5, CallersAreCalls DEF SyInv, Quiet
    <3>7. down'[t] = <<Answer(c)>>
      BY <3>3, <3>6
    <3>8. FsDown' = FsDown /\ FsUp' = FsUp /\ FsSlot' = None
      BY <1>1, <1>3, <1>7, <2>1, <3>5, <3>6, FsHas DEF FsDown, FsUp, FsSlot
    <3>9. ASSUME NEW d \in Client, d # c PROVE ClientRight(d)'
      <4>1. InCall(d) => At(d) \in Addr /\ At(d) # a /\ At(d) # t
        BY <1>7, <3>5, <3>9, CallerHas
      <4>2. OwnSession(d)' /\ CallRight(d)' /\ (Waits(d) => Waits(d)')
        BY <1>1, <1>3, <1>6, <3>6, <4>1, ClientFrame
      <4>3. ~Answered(d)' /\ (Data(d)' => Data(d) /\ fs'.data = fs.data)
        BY <1>1, <3>8 DEF Answered, Data
      <4>4. FsSide(d)'
        BY <1>6, <3>8, <4>2, <4>3, ThinsItself, FsFrame
      <4> QED
        BY <4>2, <4>4 DEF ClientRight
    <3>10. ClientRight(c)'
      <4>1. FsQuiet(c)'
        BY <1>1, <3>3, <3>8 DEF FsQuiet, Answered, Data
      <4>2. up'[t] = <<>> /\ slot'[t] = None
        BY <1>1, <1>2, <1>3, <1>7, <3>4, <3>5 DEF Quiet
      <4>3. sessions'[Cur(c)] # None /\ Op(c) # "SY_CLEANUP"
        BY <1>1, <3>4, FsAnswerIs DEF Known
      <4>4. Replies(c)'
        BY <1>6, <3>3, <3>7, <4>2, <4>3 DEF Replies
      <4>5. CallRight(c)'
        BY <1>6, <3>4, <4>4 DEF CallRight
      <4> QED
        BY <1>6, <4>1, <4>5, QuietSide DEF ClientRight
    <3>11. OthersQuiet'
      BY <1>1, <1>3, <1>6, <1>7, <3>3, <3>6 DEF CallsInv, OthersQuiet, Quiet
    <3>12. OwnWrite'
      BY <3>8 DEF OwnWrite
    <3> QED
      BY <1>5, <3>9, <3>10, <3>11, <3>12 DEF CallsInv
  <2> QED
    BY <2>3, <2>4
<1>8. CASE a # fs.at
  <2>1. PICK c \in Client : InCall(c) /\ At(c) = a
    BY <1>1, <1>8, BusyIsHad DEF Quiet
  <2>2. /\ owner[a] = CallId(c) /\ alive[a] /\ \A d \in Client : d # c => At(d) # a
        /\ Cur(c) \in Id /\ Cur(c)[1] = c /\ CallId(c) # None
    BY <2>1, CallerHas, CallersAreCalls DEF SyInv
  <2>3. Forwards(c) \/ (Replies(c) /\ slot[a] = [to |-> a, msg |-> Answer(c)])
    BY <1>1, <1>6, <2>1 DEF CallRight, Sent, Replies, Quiet
  <2>4. ~Waits(c) /\ FsQuiet(c)
    BY <1>1, <1>6, <2>1 DEF Waits, Quiet, FsSide
  <2>5. CASE Forwards(c)
    <3>1. /\ t = fs.at /\ m = Asks(c) /\ Known(c) /\ fs.at # None
          /\ up[a] = <<>> /\ down[a] = <<>>
      BY <2>1, <2>5 DEF Forwards, Known, t, m
    <3>2. owner[t] = FileServer /\ alive[t] /\ FileServer # None
      BY <3>1, FsHas, Names
    <3>3. /\ FsDown' = Append(FsDown, m) /\ FsUp' = FsUp /\ FsSlot' = FsSlot
          /\ FsDown \in Seq(Told)
      BY <1>1, <1>2, <1>3, <1>4, <1>8, <3>1, <3>2 DEF FsDown, FsUp, FsSlot
    <3>4. For(m, c) /\ \A d \in Client : d # c => ~For(m, d)
      BY <2>2, <3>1 DEF For, Asks, Msg
    <3>5. \A b \in Addr : b # fs.at => down'[b] = down[b]
      BY <1>4, <3>1, <3>2
    <3>6. ASSUME NEW d \in Client, d # c PROVE ClientRight(d)'
      <4>1. InCall(d) => At(d) \in Addr /\ At(d) # a /\ At(d) # fs.at
        BY <2>2, <3>6, CallerHas
      <4>2. OwnSession(d)' /\ CallRight(d)' /\ (Waits(d) => Waits(d)')
        BY <1>1, <1>3, <1>6, <3>5, <4>1, ClientFrame
      <4>3. Thins(FsDown, FsDown', d)
        BY <1>2, <3>3, <3>4, <3>6, AppendTo DEF Thins
      <4>4. /\ Answered(d)' => Answered(d) /\ FsSlot' = FsSlot
            /\ Data(d)' => Data(d) /\ fs'.data = fs.data
        BY <1>1, <3>3 DEF Answered, Data
      <4>5. FsSide(d)'
        BY <1>6, <3>3, <4>2, <4>3, <4>4, ThinsItself, FsFrame
      <4> QED
        BY <4>2, <4>5 DEF ClientRight
    <3>7. ClientRight(c)'
      <4>1. /\ up'[a] = <<>> /\ slot'[a] = None /\ down'[a] = <<>>
        BY <1>1, <1>3, <1>8, <3>1, <3>5
      <4>2. Known(c)'
        BY <1>1, <1>6, <3>1 DEF Known
      <4>3. Waits(c)' /\ CallRight(c)'
        BY <1>6, <2>1, <4>1, <4>2 DEF Waits, CallRight, Quiet
      <4>4. Alone(FsDown', c, Asks(c)')
        BY <1>2, <1>6, <2>4, <3>1, <3>3, AppendTo DEF FsQuiet
      <4>5. ~Data(c)' /\ ~In(FsUp', c) /\ ~Answered(c)'
        BY <1>1, <2>4, <3>3 DEF FsQuiet, Data, Answered
      <4>6. FsSide(c)'
        BY <4>3, <4>4, <4>5, AloneIfNot DEF FsSide
      <4> QED
        BY <1>6, <4>3, <4>6 DEF ClientRight
    <3>8. OthersQuiet'
      BY <1>1, <1>3, <1>6, <2>1, <3>5 DEF CallsInv, OthersQuiet, Quiet
    <3>9. OwnWrite'
      BY <1>1, <3>3 DEF CallsInv, OwnWrite
    <3> QED
      BY <1>5, <3>6, <3>7, <3>8, <3>9 DEF CallsInv
  <2>6. CASE Replies(c) /\ slot[a] = [to |-> a, msg |-> Answer(c)]
    <3>1. t = a /\ m = Answer(c)
      BY <2>6 DEF t, m
    <3>2. up[a] = <<>> /\ down[a] = <<>>
      BY <1>1, <2>1, <2>6 DEF Replies
    <3>3. down'[a] = Append(<<>>, m) /\ \A b \in Addr : b # a => down'[b] = down[b]
      BY <1>4, <2>2, <3>1, <3>2
    <3>4. down'[a] = <<Answer(c)>>
      BY <3>1, <3>3
    <3>5. Elsewhere(a)
      BY <1>1, <1>3, <3>3 DEF Elsewhere
    <3>6. /\ \A d \in Client : d # c => ClientRight(d)'
          /\ FsSide(c)' /\ OthersQuiet' /\ OwnWrite'
      BY <1>1, <1>6, <1>8, <2>1, <2>2, <2>4, <3>5, ClientStep
    <3>7. Replies(c)'
      BY <1>1, <1>3, <1>6, <2>1, <2>6, <3>2, <3>4 DEF Replies
    <3>8. CallRight(c)'
      BY <1>6, <2>1, <3>7 DEF CallRight
    <3> QED
      BY <1>5, <1>6, <3>6, <3>8 DEF CallsInv, ClientRight
  <2> QED
    BY <2>3, <2>5, <2>6
<1> QED
  BY <1>7, <1>8

\* What is closed had nothing left on it.
LEMMA MsClosedCalls ==
    ASSUME SyInv, CallsInv, NEW a \in Addr, MsClosed(a)
    PROVE  CallsInv'
<1>1. /\ owner[a] # None /\ ~alive[a]
      /\ owner' = [owner EXCEPT ![a] = None]
      /\ up' = [up EXCEPT ![a] = <<>>] /\ down' = [down EXCEPT ![a] = <<>>]
      /\ slot' = [slot EXCEPT ![a] = None]
      /\ UNCHANGED <<sessions, filesys, fs, client, ms>>
  BY DEF MsClosed
<1>2. Quiet(a)
  <2>1. a # fs.at /\ \A c \in Client : At(c) # a
    BY <1>1, Names DEF SyInv, FsConnected, Connected, At
  <2> QED
    BY <2>1 DEF CallsInv, OthersQuiet
<1>3. UNCHANGED <<up, down, slot>>
  BY <1>1, <1>2 DEF Quiet, SyInv, SyType
<1>4. FsDown' = FsDown /\ FsUp' = FsUp /\ FsSlot' = FsSlot
  BY <1>1, <1>3 DEF FsDown, FsUp, FsSlot
<1>5. ASSUME NEW c \in Client PROVE ClientRight(c)'
  <2>1. OwnSession(c)' /\ CallRight(c)' /\ (Waits(c) => Waits(c)')
    BY <1>1, <1>3, ClientFrame
  <2>2. /\ Answered(c)' => Answered(c) /\ FsSlot' = FsSlot
        /\ Data(c)' => Data(c) /\ fs'.data = fs.data
    BY <1>1, <1>4 DEF Answered, Data
  <2>3. FsSide(c)'
    BY <1>1, <1>4, <2>1, <2>2, ThinsItself, FsFrame
  <2> QED
    BY <2>1, <2>3 DEF ClientRight
<1>6. Calm' /\ OneServer'
  <2>1. \A b \in Addr : owner'[b] = FileServer => owner[b] = FileServer
    BY <1>1, Names DEF SyInv, SyType
  <2>2. \A d \in Client : InCall(d)' <=> At(d)' # None
    BY <1>1 DEF CallsInv, Calm, InCall, At
  <2> QED
    BY <1>1, <2>1, <2>2, CalmKept DEF CallsInv, Calm, OneServer
<1>7. OthersQuiet' /\ OwnWrite'
  BY <1>1, <1>3, <1>4 DEF CallsInv, OthersQuiet, Quiet, At, OwnWrite
<1> QED
  BY <1>5, <1>6, <1>7 DEF CallsInv

-----------------------------------------------------------------------------
(***************************************************************************)
(* What follows.                                                           *)
(***************************************************************************)
LEMMA WritesArrive == SyInv /\ CallsInv => NoDanglingWrite
<1> SUFFICES ASSUME SyInv, CallsInv, NEW a \in Addr, slot[a] # None
             PROVE  owner[slot[a].to] # None
  BY DEF NoDanglingWrite
<1>1. fs.at # None => owner[fs.at] # None
  BY FsHas, Names
<1>2. \A c \in Client : InCall(c) => owner[At(c)] # None
  BY CallerHas, CallersAreCalls DEF SyInv
<1>3. CASE a = fs.at
  <2>1. FsSlot = slot[a] /\ FsSlot # None /\ fs.at # None
    BY <1>3, Names DEF FsSlot
  <2>2. CASE FsSlot.msg.id \notin Id
    BY <1>1, <2>1, <2>2 DEF CallsInv, OwnWrite
  <2>3. CASE FsSlot.msg.id \in Id
    <3>1. PICK c \in Client : Answered(c)
      BY <2>1, <2>3, IdsHaveClients DEF Answered, For
    <3>2. FsSide(c)
      BY DEF CallsInv, ClientRight
    <3>3. FsSlot = [to |-> At(c), msg |-> Answer(c)] /\ InCall(c)
      BY <3>1, <3>2 DEF FsSide, FsQuiet, Waits
    <3> QED
      BY <1>2, <2>1, <3>3
  <2> QED
    BY <2>2, <2>3
<1>4. CASE a # fs.at
  <2>1. PICK c \in Client : InCall(c) /\ At(c) = a
    BY <1>4, BusyIsHad DEF Quiet
  <2>2. \/ Forwards(c)
        \/ Replies(c) /\ slot[a] = [to |-> a, msg |-> Answer(c)]
    BY <2>1 DEF CallsInv, ClientRight, CallRight, Sent, Replies, Quiet
  <2>3. slot[a].to = a \/ (slot[a].to = fs.at /\ fs.at # None)
    BY <2>1, <2>2 DEF Forwards, Known
  <2> QED
    BY <1>1, <1>2, <2>1, <2>3
<1> QED
  BY <1>3, <1>4

\* A handler always finds the session its message is about.
LEMMA SessionIsFound == SyInv /\ CallsInv => SessionFound
<1> SUFFICES ASSUME SyInv, CallsInv, NEW a \in Addr, NEW n \in DOMAIN up[a],
                    up[a][n].type \in Forwarded \cup FsAnswers
             PROVE  sessions[up[a][n].id] # None
  BY DEF SessionFound
<1>1. up[a] # <<>>
  OBVIOUS
<1>2. CASE a = fs.at
  <2>1. FsUp = up[a] /\ fs.at # None
    BY <1>2, Names DEF FsUp
  <2>2. up[a][n] \in Said(FileServer)
    BY <1>2, <2>1, FsHas DEF SyInv, UpIsSaid
  <2>3. up[a][n].id \in Id
    BY <2>2, FsAnswersAre DEF Said, Forwarded
  <2>4. PICK c \in Client : For(up[a][n], c)
    BY <2>3, IdsHaveClients DEF For
  <2>5. FsSide(c) /\ In(FsUp, c)
    BY <2>1, <2>4 DEF CallsInv, ClientRight, In
  <2>6. up[a][n] = Msg(FsAnswer[Op(c)], Cur(c)) /\ Known(c)
    BY <2>1, <2>4, <2>5 DEF FsSide, Alone, FsQuiet, Waits
  <2> QED
    BY <2>6 DEF Msg, Known
<1>3. CASE a # fs.at
  <2>1. PICK c \in Client : InCall(c) /\ At(c) = a
    BY <1>1, <1>3, BusyIsHad DEF Quiet
  <2>2. Sent(c) /\ (~Makes(c) => client[c].session # None) /\ OwnSession(c)
    BY <1>1, <2>1 DEF CallsInv, ClientRight, CallRight, Forwards, Replies, Quiet
  <2>3. up[a][n] = Head(up[a])
    BY <2>1, <2>2, OneMessage DEF Sent, SyInv, SyType
  <2>4. Op(c) \in Request
    BY <2>1, CallerHas
  <2>5. Op(c) \in Forwarded
    BY <2>1, <2>2, <2>3, <2>4, RequestsAreNoAnswers DEF Sent
  <2> QED
    BY <2>1, <2>2, <2>3, <2>5 DEF Sent, Makes, Forwarded, OwnSession
<1> QED
  BY <1>2, <1>3

LEMMA ServerLives == SyInv /\ CallsInv => ~MsDies
<1> SUFFICES ASSUME SyInv, CallsInv PROVE ~MsDies
  OBVIOUS
<1>1. ASSUME NEW a \in Addr PROVE ~NullSession(a)
  <2>1. up[a] \in Seq(Message)
    BY SaidIsMessage DEF SyInv, SyType, UpIsSaid
  <2>2. up[a] # <<>> => 1 \in DOMAIN up[a] /\ Head(up[a]) = up[a][1]
    BY <2>1
  <2> QED
    BY <2>2, SessionIsFound DEF SessionFound, NullSession
<1>2. ASSUME NEW a \in Addr PROVE ~(slot[a] # None /\ owner[slot[a].to] = None)
  BY WritesArrive DEF NoDanglingWrite
<1> QED
  BY <1>1, <1>2 DEF MsDies

LEMMA CallsInvStep ==
    ASSUME NobodyDies, SyInv, CallsInv, [Next]_vars
    PROVE  CallsInv'
<1>1. CASE UNCHANGED vars
  <2>1. UNCHANGED <<owner, up, down, slot, sessions, filesys, fs, client, ms>>
    BY <1>1 DEF vars, wire, tables
  <2>2. FsDown' = FsDown /\ FsUp' = FsUp /\ FsSlot' = FsSlot
    BY <2>1 DEF FsDown, FsUp, FsSlot
  <2>3. ASSUME NEW c \in Client PROVE ClientRight(c)'
    <3>1. OwnSession(c)' /\ CallRight(c)' /\ (Waits(c) => Waits(c)')
      BY <2>1, ClientFrame
    <3>2. FsSide(c)'
      BY <2>1, <2>2, <3>1, ThinsItself, FsFrame DEF Answered, Data
    <3> QED
      BY <3>1, <3>2 DEF ClientRight
  <2>4. Calm' /\ OneServer'
    BY <2>1 DEF CallsInv, Calm, InCall, At, OneServer
  <2>5. OthersQuiet' /\ OwnWrite'
    BY <2>1, <2>2 DEF CallsInv, OthersQuiet, Quiet, At, OwnWrite
  <2> QED
    BY <2>3, <2>4, <2>5 DEF CallsInv
<1>2. ASSUME NEW c \in Client, Call(c) \/ ClientReceive(c) \/ ClientCrash(c)
      PROVE  CallsInv'
  BY <1>2, CallCalls, ClientReceiveCalls DEF ClientCrash, NobodyDies
<1>3. ASSUME NEW a \in Addr, MsReceive(a) \/ MsWrite(a) \/ MsClosed(a)
      PROVE  CallsInv'
  BY <1>3, RegisterCalls, SyInitCalls, SyConnectCalls, ForwardCalls, FsInitOkCalls,
     FsReadyCalls, SyCleanupCalls, MsWriteCalls, MsClosedCalls DEF MsReceive
<1>4. CASE FsStart \/ FsWrite \/ FsReceive
  BY <1>4, FsStartCalls, FsWriteCalls, FsReceiveCalls
<1>5. ~FsCrash
  <2>1. fs.at # None => fs.starts = 1
    BY FsHas
  <2>2. fs.at # None => ~(fs.starts < FsStarts)
    BY <2>1, FsStartsIsNat DEF NobodyDies
  <2> QED
    BY <2>2 DEF FsCrash
<1>6. ~MsDies
  BY ServerLives
<1>7. ~MsStart
  BY DEF MsStart, CallsInv, Calm
<1> QED
  BY <1>1, <1>2, <1>3, <1>4, <1>5, <1>6, <1>7 DEF Next

LEMMA CallsInvHolds == NobodyDies => (Spec => []CallsInv)
<1> SUFFICES ASSUME NobodyDies PROVE Spec => []CallsInv
  OBVIOUS
<1>1. SyInv /\ CallsInv /\ [Next]_vars => CallsInv'
  BY CallsInvStep
<1> QED
  BY <1>1, CallsInvInit, SyInvHolds, PTL DEF Spec

\* As long as neither clients nor the file server die, the metadata server
\* never writes to a connection it has freed (metadata_server.c:469 and 583),
\* for any clients, programs and addresses, ...
THEOREM NoDanglingWriteHolds == NobodyDies => (Spec => []NoDanglingWrite)
BY CallsInvHolds, SyInvHolds, WritesArrive, PTL

\* ... and so does not die itself.
THEOREM ServerStaysUp == NobodyDies => (Spec => [](ms = "first"))
<1>1. CallsInv => ms = "first"
  BY DEF CallsInv, Calm
<1> QED
  BY <1>1, CallsInvHolds, PTL

\* What is on its way to a client in a call answers that call, about the
\* client's own session: client_wsi is never that of another call
\* (metadata_server.c:583 to 820).
THEOREM AnswersTheCallHolds == NobodyDies => (Spec => []AnswersTheCall)
<1>1. SyInv /\ CallsInv => AnswersTheCall
  <2> SUFFICES ASSUME SyInv, CallsInv, NEW c \in Client, InCall(c),
                      NEW n \in DOMAIN down[At(c)]
               PROVE  /\ down[At(c)][n].type = Awaited[Op(c)]
                      /\ down[At(c)][n].id =
                            CASE Op(c) \in {"SY_INIT", "SY_CONNECT"} -> CallId(c)
                              [] Op(c) = "SY_CLEANUP" -> None
                              [] OTHER -> client[c].session
    BY DEF AnswersTheCall, At
  <2>1. down[At(c)] # <<>>
    OBVIOUS
  <2>2. down[At(c)] = <<Answer(c)>>
    BY <2>1 DEF CallsInv, ClientRight, CallRight, Sent, Forwards, Replies, Quiet
  <2>3. down[At(c)][n] = Answer(c)
    BY <2>2
  <2> QED
    BY <2>3 DEF Answer, Msg, Cur, Makes
<1> QED
  BY <1>1, CallsInvHolds, SyInvHolds, PTL

\* No handler meets a session_id that is not in the session collection: what
\* get_session returns (metadata_server.c:755) is never NULL.
THEOREM SessionFoundHolds == NobodyDies => (Spec => []SessionFound)
BY SessionIsFound, CallsInvHolds, SyInvHolds, PTL

-----------------------------------------------------------------------------
(***************************************************************************)
(* With the transfers of the file server: SyPromise is kept.               *)
(***************************************************************************)
\* TransferPool is SySignaling, with more to say about the file server
\* (file_server.c:297 to 454).
THEOREM PoolImplementsSignaling == PoolSpec => Spec
<1>1. PoolInit => Init
  BY DEF PoolInit
<1> QED
  BY <1>1, PoolStepIsStep, PTL DEF PoolSpec, Spec

LEMMA PoolCallsInv == NobodyDies => (PoolSpec => [](SyInv /\ CallsInv))
BY PoolImplementsSignaling, SyInvHolds, CallsInvHolds, PTL

\* The variables of SyPromise.
Steps == [c \in Client |-> client[c].step]
Pcs == [c \in Client |-> client[c].pc]
Sessions == [c \in Client |-> client[c].session]
Live == {i \in Id : sessions[i] # None}

\* A step that does not show.
Stays == UNCHANGED <<Steps, Pcs, Sessions, Live>>

LEMMA ClientsStay == UNCHANGED client => UNCHANGED <<Steps, Pcs, Sessions>>
BY DEF Steps, Pcs, Sessions

LEMMA PromiseInit == Init => Promise!Init
<1> SUFFICES ASSUME Init PROVE Promise!Init
  OBVIOUS
<1>1. Steps = [c \in Client |-> 1] /\ Pcs = [c \in Client |-> "idle"]
      /\ Sessions = [c \in Client |-> None] /\ Live = {}
  BY DEF Init, Steps, Pcs, Sessions, Live
<1> QED
  BY <1>1 DEF Promise!Init, Steps, Pcs, Sessions, Live

LEMMA CallIsCall ==
    ASSUME SyInv, NEW c \in Client, Call(c)
    PROVE  Promise!Call(c)
<1>1. PICK a \in Addr, i \in Argument(c) :
         client' = [client EXCEPT ![c].pc = "called", ![c].at = a]
  BY DEF Call
<1>2. client[c].pc = "idle" /\ client[c].step <= Len(Program[c]) /\ UNCHANGED sessions
  BY DEF Call, tables
<1>3. Op(c) \notin {"SY_INIT", "SY_CONNECT"} => client[c].session # None
  BY <1>1 DEF Argument
<1>4. client'[c] = [step |-> client[c].step, pc |-> "called", at |-> a,
                    session |-> client[c].session]
  <2>1. client[c] \in ClientState
    BY DEF SyInv, SyType
  <2>2. client'[c] = [client[c] EXCEPT !.pc = "called", !.at = a]
    BY <1>1 DEF SyInv, SyType
  <2> QED
    BY <2>1, <2>2, Updates
<1>5. \A d \in Client : d # c => client'[d] = client[d]
  BY <1>1 DEF SyInv, SyType
<1>6. Steps' = Steps /\ Sessions' = Sessions /\ Pcs' = [Pcs EXCEPT ![c] = "called"]
  <2>1. /\ client'[c].step = client[c].step /\ client'[c].session = client[c].session
        /\ client'[c].pc = "called"
    BY <1>4
  <2>2. \A d \in Client : /\ client'[d].step = client[d].step
                          /\ client'[d].session = client[d].session
                          /\ client'[d].pc = IF d = c THEN "called" ELSE client[d].pc
    BY <1>5, <2>1
  <2> QED
    BY <2>2 DEF Steps, Sessions, Pcs
<1>7. Live' = Live
  BY <1>2 DEF Live
<1>8. Promise!Op(c) = Op(c)
  BY DEF Promise!Op, Op
<1> QED
  BY <1>2, <1>3, <1>6, <1>7, <1>8 DEF Promise!Call, Steps, Sessions, Pcs, Live

LEMMA ReceiveIsReturn ==
    ASSUME SyInv, CallsInv, NEW c \in Client, ClientReceive(c)
    PROVE  Promise!Return(c)
<1> DEFINE s == IF Makes(c) THEN Cur(c)
                ELSE IF Op(c) = "SY_CLEANUP" THEN None ELSE client[c].session
<1> DEFINE p == IF Op(c) \in {"SY_UPLOAD", "SY_DOWNLOAD"} THEN "transferring" ELSE "idle"
<1>1. /\ client'[c] = [step |-> client[c].step + 1, pc |-> p, at |-> None, session |-> s]
      /\ \A d \in Client : d # c => client'[d] = client[d]
  BY Returns
<1>2. InCall(c) /\ UNCHANGED sessions
  BY DEF ClientReceive, tables
<1>3. Replies(c)
  BY Returns
<1>4. Cur(c) \in Id
  BY <1>2, CallerHas
<1>5. Promise!Op(c) = Op(c) /\ Promise!CallId(c) = CallId(c) /\ Promise!Makes(c) = Makes(c)
  BY DEF Promise!Op, Promise!CallId, Promise!Makes, Op, CallId, Makes
<1>6. /\ s = IF Makes(c) THEN CallId(c) ELSE IF Op(c) = "SY_CLEANUP" THEN None ELSE Sessions[c]
  BY DEF Cur, Sessions
<1>7. IF Op(c) = "SY_CLEANUP" THEN Sessions[c] \notin Live ELSE s \in Live
  <2>1. Op(c) = "SY_CLEANUP" <=> sessions[Cur(c)] = None
    BY <1>3 DEF Replies
  <2>2. Op(c) = "SY_CLEANUP" => ~Makes(c)
    BY DEF Makes
  <2>3. Op(c) = "SY_CLEANUP" => Sessions[c] = Cur(c)
    BY <2>2 DEF Cur, Sessions
  <2>4. Op(c) # "SY_CLEANUP" => s = Cur(c)
    BY DEF Cur
  <2> HIDE DEF s
  <2> QED
    BY <1>4, <2>1, <2>3, <2>4 DEF Live
<1> HIDE DEF s, p
<1>8. Steps' = [Steps EXCEPT ![c] = Steps[c] + 1] /\ Pcs' = [Pcs EXCEPT ![c] = p]
      /\ Sessions' = [Sessions EXCEPT ![c] = s]
  <2>1. client'[c].step = client[c].step + 1 /\ client'[c].pc = p /\ client'[c].session = s
    BY <1>1
  <2>2. \A d \in Client :
           /\ client'[d].step = IF d = c THEN client[c].step + 1 ELSE client[d].step
           /\ client'[d].pc = IF d = c THEN p ELSE client[d].pc
           /\ client'[d].session = IF d = c THEN s ELSE client[d].session
    BY <1>1, <2>1
  <2>3. Steps[c] = client[c].step
    BY DEF Steps
  <2> QED
    BY <2>2, <2>3 DEF Steps, Sessions, Pcs
<1>9. Sessions'[c] = s /\ Live' = Live
  BY <1>2, <1>8 DEF Live, Sessions
<1>10. Pcs[c] = "called"
  BY <1>2 DEF InCall, Pcs
<1> QED
  BY <1>5, <1>6, <1>7, <1>8, <1>9, <1>10 DEF Promise!Return, Steps, Sessions, Pcs, Live, p

\* A session is made, or ended, by the handler of the call.
LEMMA HandlerIsEffect ==
    ASSUME SyInv, NEW c \in Client, InCall(c), UNCHANGED client,
           \/ Makes(c) /\ Live' = Live \cup {CallId(c)}
           \/ Op(c) = "SY_CLEANUP" /\ Live' = Live \ {client[c].session}
    PROVE  Promise!Effect(c)
<1>1. Promise!Op(c) = Op(c) /\ Promise!CallId(c) = CallId(c) /\ Promise!Makes(c) = Makes(c)
  BY DEF Promise!Op, Promise!CallId, Promise!Makes, Op, CallId, Makes
<1>2. Pcs[c] = "called" /\ UNCHANGED <<Steps, Pcs, Sessions>> /\ Sessions[c] = client[c].session
  BY ClientsStay DEF InCall, Pcs, Sessions
<1> QED
  BY <1>1, <1>2 DEF Promise!Effect, Steps, Sessions, Pcs, Live

LEMMA MakingIsEffect ==
    ASSUME SyInv, CallsInv, NEW a \in Addr, SyInit(a) \/ SyConnect(a), ~Stays
    PROVE  \E c \in Client : Promise!Effect(c)
<1>1. PICK r \in {"SY_INIT", "SY_CONNECT"} : Takes(a, {r})
  BY DEF SyInit, SyConnect
<1>2. PICK c \in Client : /\ InCall(c) /\ At(c) = a /\ owner[a] = CallId(c) /\ Op(c) = r
  BY <1>1, ClientSends DEF Request
<1>3. Makes(c) /\ CallId(c) \in Id
  BY <1>2, CallerHas DEF Makes
<1>4. UNCHANGED client
  BY <1>1 DEF Takes
<1>5. sessions' # sessions
  BY <1>4, ClientsStay DEF Stays, Live
<1>6. PICK f \in Addr : sessions' = [sessions EXCEPT ![owner[a]] =
                                        [fileserver_wsi |-> f, client_wsi |-> a]]
  <2>1. CASE SyInit(a)
    BY <1>5, <2>1 DEF SyInit, SyInv, SyType
  <2>2. CASE SyConnect(a)
    <3>1. Head(up[a]).id \in Id
      BY <2>2, TakesGives DEF SyConnect, Request
    <3> QED
      BY <1>5, <2>2, <3>1 DEF SyConnect, SyInv, SyType
  <2> QED
    BY <2>1, <2>2
<1>7. Live' = Live \cup {CallId(c)}
  <2>1. sessions'[CallId(c)] # None
    BY <1>2, <1>3, <1>6, NoSessionIsNone DEF SyInv, SyType
  <2>2. \A i \in Id : i # CallId(c) => sessions'[i] = sessions[i]
    BY <1>2, <1>6 DEF SyInv, SyType
  <2> QED
    BY <1>3, <2>1, <2>2 DEF Live
<1> QED
  BY <1>2, <1>3, <1>4, <1>7, HandlerIsEffect

LEMMA CleanupIsEffect ==
    ASSUME SyInv, CallsInv, NEW a \in Addr, SyCleanup(a)
    PROVE  \E c \in Client : Promise!Effect(c)
<1>1. /\ Takes(a, {"SY_CLEANUP"})
      /\ sessions' = [sessions EXCEPT ![Head(up[a]).id] = None]
  BY DEF SyCleanup
<1>2. PICK c \in Client : /\ InCall(c) /\ At(c) = a /\ Op(c) = "SY_CLEANUP"
                          /\ ~Makes(c) => Head(up[a]).id = Cur(c)
  BY <1>1, ClientSends DEF Request
<1>3. Head(up[a]).id = client[c].session
  BY <1>2 DEF Makes, Cur
<1>4. UNCHANGED client
  BY <1>1 DEF Takes
<1>5. Live' = Live \ {client[c].session}
  BY <1>1, <1>3 DEF Live, SyInv, SyType
<1> QED
  BY <1>2, <1>4, <1>5, HandlerIsEffect

LEMMA ForwardStays ==
    ASSUME SyInv, NEW a \in Addr, Forward(a)
    PROVE  Stays
<1> DEFINE i == Head(up[a]).id
<1>1. /\ Takes(a, Forwarded) /\ sessions[i] # None
      /\ sessions' = [sessions EXCEPT ![i].client_wsi = a]
  BY DEF Forward
<1>2. i \in Id
  BY <1>1, TakesGives DEF Forwarded, Request
<1> HIDE DEF i
<1>3. sessions[i] \in Session
  BY <1>1, <1>2 DEF SyInv, SyType
<1>4. sessions'[i] # None
  <2>1. sessions'[i] = [sessions[i] EXCEPT !.client_wsi = a]
    BY <1>1, <1>2 DEF SyInv, SyType
  <2>2. \A r \in Session :
           [r EXCEPT !.client_wsi = a] = [fileserver_wsi |-> r.fileserver_wsi, client_wsi |-> a]
    BY DEF Session
  <2>3. sessions[i].fileserver_wsi \in Addr
    BY <1>3 DEF Session
  <2>4. sessions'[i] = [fileserver_wsi |-> sessions[i].fileserver_wsi, client_wsi |-> a]
    BY <1>3, <2>1, <2>2
  <2> QED
    BY <2>3, <2>4, NoSessionIsNone
<1>5. \A j \in Id : j # i => sessions'[j] = sessions[j]
  BY <1>1 DEF SyInv, SyType
<1>6. Live' = Live
  BY <1>1, <1>4, <1>5 DEF Live
<1> QED
  BY <1>1, <1>6, ClientsStay DEF Takes, Stays

LEMMA StepKeepsPromise ==
    ASSUME NobodyDies, SyInv, CallsInv, [Next]_vars
    PROVE  Promise!Next \/ Stays
<1>1. UNCHANGED <<client, sessions>> => Stays
  BY ClientsStay DEF Stays, Live
<1>2. CASE UNCHANGED vars
  BY <1>1, <1>2 DEF vars, tables
<1>3. ASSUME NEW c \in Client, Call(c) \/ ClientReceive(c) \/ ClientCrash(c)
      PROVE  Promise!Next
  BY <1>3, CallIsCall, ReceiveIsReturn DEF ClientCrash, NobodyDies, Promise!Next
<1>4. CASE FsStart \/ FsWrite \/ FsReceive \/ FsCrash
  BY <1>1, <1>4 DEF FsStart, FsWrite, FsReceive, FsCrash, tables
<1>5. ASSUME NEW a \in Addr, MsReceive(a) PROVE Promise!Next \/ Stays
  <2>1. CASE Register(a) \/ FsInitOk(a) \/ FsReady(a)
    BY <1>1, <2>1 DEF Register, FsInitOk, FsReady, Takes, tables
  <2>2. CASE SyInit(a) \/ SyConnect(a)
    BY <2>2, MakingIsEffect DEF Promise!Next
  <2>3. CASE SyCleanup(a)
    BY <2>3, CleanupIsEffect DEF Promise!Next
  <2>4. CASE Forward(a)
    BY <2>4, ForwardStays
  <2> QED
    BY <1>5, <2>1, <2>2, <2>3, <2>4 DEF MsReceive
<1>6. ASSUME NEW a \in Addr, MsWrite(a) \/ MsClosed(a) PROVE Stays
  BY <1>1, <1>6 DEF MsWrite, MsClosed, tables
<1>7. ~MsDies
  BY ServerLives
<1>8. CASE MsStart
  BY <1>1, <1>8 DEF MsStart, tables
<1> QED
  BY <1>2, <1>3, <1>4, <1>5, <1>6, <1>7, <1>8 DEF Next

\* As long as nobody dies, the sy_* calls keep what SyPromise says: each takes
\* effect at one point between its start and its return, and a session lives
\* from the call that makes it to its client's sy_cleanup.
THEOREM KeepsSyPromiseHolds == NobodyDies => (PoolSpec => KeepsSyPromise)
<1> SUFFICES ASSUME NobodyDies PROVE PoolSpec => Promise!Spec
  BY DEF KeepsSyPromise
<1>1. PoolInit => Promise!Init
  BY PromiseInit DEF PoolInit
<1>2. SyInv /\ CallsInv /\ [PoolNext]_poolvars => Promise!Next \/ Stays
  BY PoolStepIsStep, StepKeepsPromise
<1>3. Stays => UNCHANGED <<[c \in Client |-> client[c].step], [c \in Client |-> client[c].pc],
                           [c \in Client |-> client[c].session],
                           {i \in Id : sessions[i] # None}>>
  BY DEF Stays, Steps, Pcs, Sessions, Live
<1> QED
  BY <1>1, <1>2, <1>3, PoolCallsInv, PTL DEF Promise!Spec, PoolSpec

-----------------------------------------------------------------------------
(***************************************************************************)
(* What SyPromise says of the sessions: none outlives its client's use of  *)
(* it, if the client ends each session before it makes another.            *)
(***************************************************************************)
Makers == {"SY_INIT", "SY_CONNECT"}

\* As main() of cli/sy.c does (sy.c:822 to 851): there is a sy_cleanup between
\* any two calls that make a session.  sy_session, which the calls overwrite,
\* has room for the id of one.
CleansUp == \A c \in Client : \A j, k \in 1 .. Len(Program[c]) :
    j < k /\ Program[c][j] \in Makers /\ Program[c][k] \in Makers
        => \E n \in j + 1 .. k - 1 : Program[c][n] = "SY_CLEANUP"

\* A client with a session has made it and not cleaned up since; the sessions
\* there are of a client are that one and the one its call is making.
Holds(c) == \E j \in 1 .. client[c].step - 1 :
    /\ Program[c][j] \in Makers
    /\ \A n \in j + 1 .. client[c].step - 1 : Program[c][n] # "SY_CLEANUP"
OnlyOwn(c) ==
    /\ client[c].session # None => Holds(c)
    /\ \A i \in Live : i[1] = c =>
          i = client[c].session \/ (InCall(c) /\ Makes(c) /\ i = CallId(c))

LEMMA MakesFromNothing ==
    ASSUME CleansUp, SyInv, NEW c \in Client, OnlyOwn(c), Makes(c),
           client[c].step <= Len(Program[c])
    PROVE  client[c].session = None
<1> SUFFICES ASSUME client[c].session # None PROVE FALSE
  OBVIOUS
<1> DEFINE k == client[c].step
<1>1. k \in 1 .. Len(Program[c])
  BY ProgramIsRequests DEF SyInv, SyType, ClientState
<1>2. PICK j \in 1 .. k - 1 : /\ Program[c][j] \in Makers
                              /\ \A n \in j + 1 .. k - 1 : Program[c][n] # "SY_CLEANUP"
  BY DEF OnlyOwn, Holds
<1>3. j \in 1 .. Len(Program[c]) /\ j < k
  <2>1. Len(Program[c]) \in Nat
    BY ProgramIsRequests
  <2> QED
    BY <1>1, <1>2, <2>1
<1>4. Program[c][k] \in Makers
  BY DEF Makes, Op, Makers
<1> HIDE DEF k
<1> QED
  BY <1>1, <1>2, <1>3, <1>4 DEF CleansUp

LEMMA OnlyOwnInit == Init => \A c \in Client : OnlyOwn(c)
<1> SUFFICES ASSUME Init, NEW c \in Client PROVE OnlyOwn(c)
  OBVIOUS
<1>1. client[c].session = None /\ Live = {}
  BY DEF Init, Live
<1> QED
  BY <1>1 DEF OnlyOwn

\* A client that does not move, and whose sessions do not grow.
LEMMA OnlyOwnFrame ==
    ASSUME NEW c \in Client, OnlyOwn(c), Pcs'[c] = Pcs[c], Steps'[c] = Steps[c],
           Sessions'[c] = Sessions[c], \A i \in Live' : i[1] = c => i \in Live
    PROVE  OnlyOwn(c)'
<1>1. /\ client'[c].pc = client[c].pc /\ client'[c].step = client[c].step
      /\ client'[c].session = client[c].session
  BY DEF Pcs, Steps, Sessions
<1>2. /\ InCall(c)' = InCall(c) /\ Makes(c)' = Makes(c) /\ CallId(c)' = CallId(c)
      /\ Holds(c)' = Holds(c)
  BY <1>1 DEF InCall, Makes, Op, CallId, Holds
<1> QED
  BY <1>1, <1>2 DEF OnlyOwn

LEMMA CallKeepsOwn ==
    ASSUME NEW c \in Client, OnlyOwn(c), Promise!Call(c)
    PROVE  OnlyOwn(c)'
<1>1. /\ Pcs[c] = "idle" /\ Pcs'[c] = "called"
      /\ UNCHANGED <<Steps, Sessions, Live>>
  BY DEF Promise!Call, Pcs, Steps, Sessions, Live
<1>2. /\ ~InCall(c) /\ client'[c].step = client[c].step
      /\ client'[c].session = client[c].session
  <2>1. Steps'[c] = Steps[c] /\ Sessions'[c] = Sessions[c]
    BY <1>1
  <2> QED
    BY <1>1, <2>1 DEF InCall, Pcs, Steps, Sessions
<1>3. Holds(c)' = Holds(c)
  BY <1>2 DEF Holds
<1> QED
  BY <1>1, <1>2, <1>3 DEF OnlyOwn

LEMMA EffectKeepsOwn ==
    ASSUME NEW c \in Client, OnlyOwn(c), Promise!Effect(c)
    PROVE  OnlyOwn(c)'
<1>1. /\ Pcs[c] = "called" /\ UNCHANGED <<Steps, Pcs, Sessions>>
      /\ \/ Promise!Makes(c) /\ Live' = Live \cup {Promise!CallId(c)}
         \/ Live' \subseteq Live
  BY DEF Promise!Effect, Pcs, Steps, Sessions, Live
<1>2. Promise!CallId(c) = CallId(c) /\ Promise!Makes(c) = Makes(c)
  BY DEF Promise!Op, Promise!CallId, Promise!Makes, Op, CallId, Makes
<1>3. /\ client'[c].pc = client[c].pc /\ client'[c].step = client[c].step
      /\ client'[c].session = client[c].session
  <2>1. Steps'[c] = Steps[c] /\ Sessions'[c] = Sessions[c] /\ Pcs'[c] = Pcs[c]
    BY <1>1
  <2> QED
    BY <2>1 DEF Pcs, Steps, Sessions
<1>4. /\ InCall(c) /\ InCall(c)' /\ Makes(c)' = Makes(c) /\ CallId(c)' = CallId(c)
      /\ Holds(c)' = Holds(c)
  BY <1>1, <1>3 DEF InCall, Makes, Op, CallId, Holds, Pcs
<1> QED
  BY <1>1, <1>2, <1>3, <1>4 DEF OnlyOwn

LEMMA ReturnKeepsOwn ==
    ASSUME CleansUp, SyInv, NEW c \in Client, OnlyOwn(c), Promise!Return(c),
           client[c].step <= Len(Program[c])
    PROVE  OnlyOwn(c)'
<1>1. Promise!Op(c) = Op(c) /\ Promise!CallId(c) = CallId(c) /\ Promise!Makes(c) = Makes(c)
  BY DEF Promise!Op, Promise!CallId, Promise!Makes, Op, CallId, Makes
<1>2. /\ Live' = Live /\ Steps'[c] = Steps[c] + 1 /\ Pcs'[c] # "called"
      /\ Op(c) = "SY_CLEANUP" => Sessions[c] \notin Live
      /\ Sessions'[c] = IF Makes(c) THEN CallId(c)
                        ELSE IF Op(c) = "SY_CLEANUP" THEN None ELSE Sessions[c]
  BY <1>1 DEF Promise!Return, Pcs, Steps, Sessions, Live
<1>3. /\ client'[c].step = client[c].step + 1 /\ ~InCall(c)'
      /\ client'[c].session = IF Makes(c) THEN CallId(c)
                              ELSE IF Op(c) = "SY_CLEANUP" THEN None ELSE client[c].session
      /\ Op(c) = "SY_CLEANUP" => client[c].session \notin Live
  BY <1>2 DEF InCall, Steps, Pcs, Sessions
<1>4. client[c].step \in Nat \ {0}
  BY DEF SyInv, SyType, ClientState
<1>5. CASE Makes(c)
  <2>1. client[c].session = None
    BY <1>5, MakesFromNothing
  <2>2. None \notin Live
    BY Names DEF Live
  <2>3. Program[c][client[c].step] \in Makers
    BY <1>5 DEF Makes, Op, Makers
  <2>4. client[c].step + 1 - 1 = client[c].step
    BY <1>4
  <2>5. Holds(c)'
    <3>1. client[c].step \in 1 .. client'[c].step - 1
      BY <1>3, <1>4
    <3>2. ~\E n \in client[c].step + 1 .. client'[c].step - 1 : TRUE
      BY <1>3, <1>4
    <3> QED
      BY <2>3, <3>1, <3>2 DEF Holds
  <2> QED
    BY <1>2, <1>3, <1>5, <2>1, <2>2, <2>5 DEF OnlyOwn
<1>6. CASE Op(c) = "SY_CLEANUP"
  <2>1. ~Makes(c)
    BY <1>6 DEF Makes
  <2> QED
    BY <1>2, <1>3, <1>6, <2>1 DEF OnlyOwn
<1>7. CASE ~Makes(c) /\ Op(c) # "SY_CLEANUP"
  <2>1. Holds(c) => Holds(c)'
    <3> SUFFICES ASSUME Holds(c) PROVE Holds(c)'
      OBVIOUS
    <3>1. PICK j \in 1 .. client[c].step - 1 :
             /\ Program[c][j] \in Makers
             /\ \A n \in j + 1 .. client[c].step - 1 : Program[c][n] # "SY_CLEANUP"
      BY DEF Holds
    <3>2. j \in 1 .. client'[c].step - 1
      BY <1>3, <1>4
    <3>3. ASSUME NEW n \in j + 1 .. client'[c].step - 1
          PROVE  n \in j + 1 .. client[c].step - 1 \/ n = client[c].step
      BY <1>3, <1>4
    <3>4. Program[c][client[c].step] # "SY_CLEANUP"
      BY <1>7 DEF Op
    <3> QED
      BY <3>1, <3>2, <3>3, <3>4 DEF Holds
  <2> QED
    BY <1>2, <1>3, <1>7, <2>1 DEF OnlyOwn
<1> QED
  BY <1>5, <1>6, <1>7

LEMMA OthersKeepOwn ==
    ASSUME NEW c \in Client, NEW d \in Client, d # c, OnlyOwn(d),
           Promise!Call(c) \/ Promise!Effect(c) \/ Promise!Return(c)
    PROVE  OnlyOwn(d)'
<1>1. Pcs'[d] = Pcs[d] /\ Steps'[d] = Steps[d] /\ Sessions'[d] = Sessions[d]
  <2>1. CASE Promise!Call(c)
    BY <2>1 DEF Promise!Call, Pcs, Steps, Sessions
  <2>2. CASE Promise!Effect(c)
    BY <2>2 DEF Promise!Effect, Pcs, Steps, Sessions
  <2>3. CASE Promise!Return(c)
    BY <2>3 DEF Promise!Return, Pcs, Steps, Sessions
  <2> QED
    BY <2>1, <2>2, <2>3
<1>2. Live' \subseteq Live \cup {CallId(c)}
  <2>1. Promise!CallId(c) = CallId(c)
    BY DEF Promise!CallId, CallId
  <2> QED
    BY <2>1 DEF Promise!Call, Promise!Effect, Promise!Return, Live
<1>3. CallId(c)[1] = c
  BY DEF CallId
<1> QED
  BY <1>1, <1>2, <1>3, OnlyOwnFrame

LEMMA OnlyOwnStep ==
    ASSUME CleansUp, SyInv, CallsInv, \A c \in Client : OnlyOwn(c),
           Promise!Next \/ Stays
    PROVE  \A c \in Client : OnlyOwn(c)'
<1>1. CASE Stays
  <2> SUFFICES ASSUME NEW c \in Client PROVE OnlyOwn(c)'
    OBVIOUS
  <2>1. Pcs' = Pcs /\ Steps' = Steps /\ Sessions' = Sessions /\ Live' = Live
    BY <1>1 DEF Stays
  <2> QED
    BY <2>1, OnlyOwnFrame
<1>2. ASSUME NEW c \in Client, Promise!Call(c) \/ Promise!Effect(c) \/ Promise!Return(c)
      PROVE  \A d \in Client : OnlyOwn(d)'
  <2>1. Promise!Return(c) => client[c].step <= Len(Program[c])
    <3>1. Promise!Return(c) => InCall(c)
      BY DEF Promise!Return, InCall
    <3> QED
      BY <3>1 DEF CallsInv, ClientRight, CallRight
  <2>2. OnlyOwn(c)'
    BY <1>2, <2>1, CallKeepsOwn, EffectKeepsOwn, ReturnKeepsOwn
  <2> QED
    BY <1>2, <2>2, OthersKeepOwn
<1> QED
  BY <1>1, <1>2 DEF Promise!Next

\* As long as nobody dies, and clients clean up between the sessions they make,
\* the session collection holds no session that its client has no id of.
THEOREM NoOrphanSessionHolds == NobodyDies /\ CleansUp => (Spec => []NoOrphanSession)
<1> SUFFICES ASSUME NobodyDies, CleansUp PROVE Spec => []NoOrphanSession
  OBVIOUS
<1> DEFINE AllOwn == \A c \in Client : OnlyOwn(c)
<1>1. AllOwn => NoOrphanSession
  BY IdsHaveClients DEF OnlyOwn, Live, InCall, NoOrphanSession
<1>2. Init => AllOwn
  BY OnlyOwnInit
<1>3. SyInv /\ CallsInv /\ AllOwn /\ [Next]_vars => AllOwn'
  BY StepKeepsPromise, OnlyOwnStep
<1> HIDE DEF AllOwn
<1> QED
  BY <1>1, <1>2, <1>3, SyInvHolds, CallsInvHolds, PTL DEF Spec

-----------------------------------------------------------------------------
(***************************************************************************)
(* A transfer that a client has been told to start is with the pool.       *)
(***************************************************************************)
Ready == {"FS_UPLOAD_READY", "FS_DOWNLOAD_READY"}
AtPool(i) == i \in running \/ \E n \in DOMAIN queue : queue[n].id = i

\* The messages on their way.
Elems(q) == {q[n] : n \in DOMAIN q}
Carried == {m \in Message :
    \/ m = fs.data
    \/ \E a \in Addr : \/ m \in Elems(up[a]) \/ m \in Elems(down[a])
                       \/ slot[a] # None /\ m = slot[a].msg}

ReadyInv ==
    /\ \A m \in Carried : m.type \in Ready => AtPool(m.id)
    /\ \A c \in Client : client[c].pc = "transferring" => AtPool(client[c].session)

LEMMA ElemsOf ==
    ASSUME NEW S, NEW q \in Seq(S)
    PROVE  /\ q # <<>> => Elems(Tail(q)) \subseteq Elems(q) /\ Head(q) \in Elems(q)
           /\ \A m \in S : Elems(Append(q, m)) \subseteq Elems(q) \cup {m}
           /\ Elems(<<>>) = {} /\ \A m : Elems(<<m>>) = {m}
<1>1. ASSUME q # <<>> PROVE Elems(Tail(q)) \subseteq Elems(q) /\ Head(q) \in Elems(q)
  <2>1. \A n \in DOMAIN Tail(q) : n + 1 \in DOMAIN q /\ Tail(q)[n] = q[n + 1]
    BY <1>1
  <2>2. 1 \in DOMAIN q /\ q[1] = Head(q)
    BY <1>1
  <2> QED
    BY <2>1, <2>2 DEF Elems
<1>2. ASSUME NEW m \in S PROVE Elems(Append(q, m)) \subseteq Elems(q) \cup {m}
  <2> DEFINE r == Append(q, m)
  <2>1. \A n \in DOMAIN r : (n \in DOMAIN q /\ r[n] = q[n]) \/ r[n] = m
    OBVIOUS
  <2> HIDE DEF r
  <2>2. Elems(r) \subseteq Elems(q) \cup {m}
    BY <2>1 DEF Elems
  <2> QED
    BY <2>2 DEF r
<1>3. Elems(<<>>) = {} /\ \A m : Elems(<<m>>) = {m}
  BY DEF Elems
<1> QED
  BY <1>1, <1>2, <1>3

LEMMA NobodyStops ==
    ASSUME NobodyDies, SyInv, CallsInv
    PROVE  ~FsCrash /\ ~MsDies /\ ~MsStart /\ \A c \in Client : ~ClientCrash(c)
<1>1. ~FsCrash
  <2>1. fs.at # None => fs.starts = 1
    BY FsHas
  <2>2. fs.at # None => ~(fs.starts < FsStarts)
    BY <2>1, FsStartsIsNat DEF NobodyDies
  <2> QED
    BY <2>2 DEF FsCrash
<1>2. ~MsDies
  BY ServerLives
<1>3. ~MsStart
  BY DEF MsStart, CallsInv, Calm
<1>4. \A c \in Client : ~ClientCrash(c)
  BY DEF ClientCrash, NobodyDies
<1> QED
  BY <1>1, <1>2, <1>3, <1>4

LEMMA PoolGrows ==
    ASSUME NobodyDies, SyInv, CallsInv, PoolInv, [PoolNext]_poolvars
    PROVE  \A i : AtPool(i) => AtPool(i)'
<1>1. CASE UNCHANGED <<queue, running>>
  BY <1>1 DEF AtPool
<1>2. CASE FsHandle
  <2> DEFINE m == Head(down[fs.at])
  <2>1. UNCHANGED running /\ (queue' = queue \/ queue' = Append(queue, m))
    BY <1>2 DEF FsHandle
  <2> HIDE DEF m
  <2>2. \A n \in DOMAIN queue : n \in DOMAIN queue' /\ queue'[n] = queue[n]
    BY <2>1 DEF PoolInv
  <2> QED
    BY <2>1, <2>2 DEF AtPool
<1>3. CASE TakeWork
  <2>1. /\ queue # <<>> /\ running' = running \cup {Head(queue).id}
        /\ queue' = Tail(queue)
    BY <1>3 DEF TakeWork
  <2>2. \A n \in DOMAIN queue : \/ queue[n] = Head(queue)
                                \/ n - 1 \in DOMAIN queue' /\ queue'[n - 1] = queue[n]
    BY <2>1 DEF PoolInv
  <2> QED
    BY <2>1, <2>2 DEF AtPool
<1> QED
  BY <1>1, <1>2, <1>3, NobodyStops
     DEF PoolNext, pool, poolvars, HandlerReturns, TakeGarbage

\* The file server is the only one to say that a transfer is ready, and queues
\* it as it does.
LEMMA FsHandleReadies ==
    ASSUME SyInv, PoolInv, FsHandle, NEW m \in Carried', m \notin Carried, m.type \in Ready
    PROVE  AtPool(m.id)'
<1> DEFINE x == Head(down[fs.at])
<1>1. /\ fs.at # None /\ down[fs.at] # <<>>
      /\ fs' = IF x.type \in DOMAIN FsAnswer
               THEN [fs EXCEPT !.data = Msg(FsAnswer[x.type], x.id)] ELSE fs
      /\ down' = [down EXCEPT ![fs.at] = Tail(@)]
      /\ UNCHANGED <<up, slot>>
      /\ x.type \in Transfers => queue' = Append(queue, x)
  BY DEF FsHandle, FsReceive
<1>2. fs.at \in Addr /\ down[fs.at] \in Seq(Told) /\ x \in Message
  BY <1>1, SaidIsMessage DEF SyInv, SyType
<1>3. \A a \in Addr : Elems(down'[a]) \subseteq Elems(down[a])
  BY <1>1, <1>2, ElemsOf DEF SyInv, SyType
<1> HIDE DEF x
<1>4. m = fs'.data /\ m # fs.data
  BY <1>1, <1>3 DEF Carried
<1>5. x.type \in DOMAIN FsAnswer /\ m = Msg(FsAnswer[x.type], x.id)
  BY <1>1, <1>4 DEF SyInv, SyType
<1>6. x.type \in Transfers /\ m.id = x.id
  BY <1>5, FsAnswerIs DEF Ready, Transfers, Msg
<1>7. queue' = Append(queue, x) /\ queue \in Seq(Message)
  BY <1>1, <1>6 DEF PoolInv
<1>8. Len(queue) + 1 \in DOMAIN queue' /\ queue'[Len(queue) + 1] = x
  BY <1>2, <1>7
<1> QED
  BY <1>6, <1>8 DEF AtPool

\* A handler takes a message and prepares another.
LEMMA HandlerCarries ==
    ASSUME SyInv, NEW a \in Addr, MsReceive(a), NEW m \in Carried', m.type \in Ready
    PROVE  m \in Carried
<1>1. PICK types : Takes(a, types)
  BY DEF MsReceive, Register, SyInit, SyConnect, Forward, FsInitOk, FsReady, SyCleanup
<1>2. /\ up[a] # <<>> /\ up' = [up EXCEPT ![a] = Tail(@)] /\ UNCHANGED <<down, fs>>
      /\ Head(up[a]) \in Message
  BY <1>1, TakesGives DEF Takes
<1>3. /\ \A b \in Addr : Elems(up'[b]) \subseteq Elems(up[b])
      /\ Head(up[a]) \in Carried
  <2>1. up[a] \in Seq(Message)
    BY DEF SyInv, SyType
  <2>2. Elems(Tail(up[a])) \subseteq Elems(up[a]) /\ Head(up[a]) \in Elems(up[a])
    BY <1>2, <2>1, ElemsOf
  <2> QED
    BY <1>2, <2>2 DEF Carried, SyInv, SyType
<1> DEFINE NotReady == \A b \in Addr : slot'[b] # None /\ slot'[b] # slot[b] =>
              (slot'[b].msg = Head(up[a]) \/ slot'[b].msg.type \notin Ready)
<1>4. NotReady
  <2>0. ASSUME NEW t, NEW y, NEW i, y \notin Ready,
               slot' = [slot EXCEPT ![a] = [to |-> t, msg |-> Msg(y, i)]]
        PROVE  NotReady
    BY <2>0 DEF SyInv, SyType, Msg
  <2>1. CASE Register(a) \/ SyInit(a) \/ SyConnect(a) \/ FsInitOk(a) \/ SyCleanup(a)
    <3>0. {"FS_REGISTER_OK", "SY_INIT", "SY_CONNECT_OK", "SY_INIT_OK", "SY_CLEANUP_OK"}
            \cap Ready = {}
      BY DEF Ready
    <3>1. CASE Register(a)
      BY <2>0, <3>0, <3>1 DEF Register, Prepare
    <3>2. CASE SyInit(a)
      <4>1. CASE UNCHANGED slot
        BY <4>1
      <4>2. CASE \E f : Prepare(a, f, Msg("SY_INIT", owner[a]))
        BY <2>0, <3>0, <4>2 DEF Prepare
      <4> QED
        BY <3>2, <4>1, <4>2 DEF SyInit
    <3>3. CASE SyConnect(a)
      <4>1. CASE UNCHANGED slot
        BY <4>1
      <4>2. CASE Prepare(a, a, Msg("SY_CONNECT_OK", owner[a]))
        BY <2>0, <3>0, <4>2 DEF Prepare
      <4> QED
        BY <3>3, <4>1, <4>2 DEF SyConnect
    <3>4. CASE FsInitOk(a)
      BY <2>0, <3>0, <3>4 DEF FsInitOk, Prepare
    <3>5. CASE SyCleanup(a)
      BY <2>0, <3>0, <3>5 DEF SyCleanup, Prepare
    <3> QED
      BY <2>1, <3>1, <3>2, <3>3, <3>4, <3>5
  <2>2. CASE Forward(a)
    <3>1. PICK t : slot' = [slot EXCEPT ![a] = [to |-> t, msg |-> Head(up[a])]]
      BY <2>2 DEF Forward, Prepare
    <3> QED
      BY <3>1 DEF SyInv, SyType
  <2>3. CASE FsReady(a)
    <3> DEFINE h == Head(up[a])
    <3>1. PICK t : slot' = [slot EXCEPT ![a] =
                     [to |-> t, msg |-> IF h.type = "FS_STATUS_OK"
                                        THEN Msg("SY_STATUS_OK", h.id) ELSE h]]
      BY <2>3 DEF FsReady, Prepare
    <3>2. CASE h.type = "FS_STATUS_OK"
      <4>1. slot' = [slot EXCEPT ![a] = [to |-> t, msg |-> Msg("SY_STATUS_OK", h.id)]]
        BY <3>1, <3>2
      <4> QED
        BY <4>1 DEF SyInv, SyType, Msg, Ready
    <3>3. CASE h.type # "FS_STATUS_OK"
      <4>1. slot' = [slot EXCEPT ![a] = [to |-> t, msg |-> h]]
        BY <3>1, <3>3
      <4> QED
        BY <4>1 DEF SyInv, SyType
    <3> QED
      BY <3>2, <3>3
  <2> QED
    BY <2>1, <2>2, <2>3 DEF MsReceive
<1> QED
  BY <1>2, <1>3, <1>4 DEF Carried

\* Nobody else makes one up.
LEMMA CallCarries ==
    ASSUME SyInv, NEW c \in Client, Call(c), NEW m \in Carried', m.type \in Ready
    PROVE  m \in Carried
<1>1. PICK a \in Addr, i \in Argument(c) : up' = [up EXCEPT ![a] = <<Msg(Op(c), i)>>]
  BY DEF Call, Connect
<1>2. UNCHANGED <<down, slot, fs>> /\ client[c].step <= Len(Program[c])
  BY DEF Call, Connect
<1>3. Op(c) \in Request
  <2>1. Program[c] \in Seq(Request) /\ client[c].step \in Nat \ {0}
    BY ProgramIsRequests DEF SyInv, SyType, ClientState
  <2>2. client[c].step \in DOMAIN Program[c]
    BY <1>2, <2>1
  <2> QED
    BY <2>1, <2>2 DEF Op
<1>4. Msg(Op(c), i).type \notin Ready
  BY <1>3 DEF Msg, Ready, Request
<1>5. Elems(<<Msg(Op(c), i)>>) = {Msg(Op(c), i)}
  BY DEF Elems
<1>6. \A b \in Addr : m \in Elems(up'[b]) => m \in Elems(up[b])
  BY <1>1, <1>4, <1>5 DEF SyInv, SyType
<1> QED
  BY <1>2, <1>6 DEF Carried

LEMMA OthersCarry ==
    ASSUME SyInv, NEW m \in Carried', m.type \in Ready,
           \/ \E c \in Client : ClientReceive(c)
           \/ FsStart \/ FsWrite
           \/ \E a \in Addr : MsWrite(a) \/ MsClosed(a)
    PROVE  m \in Carried
<1>1. ASSUME NEW c \in Client, ClientReceive(c) PROVE m \in Carried
  <2> DEFINE a == client[c].at
  <2>1. /\ a # None /\ down[a] # <<>> /\ down' = [down EXCEPT ![a] = Tail(@)]
        /\ UNCHANGED <<up, slot, fs>>
    BY <1>1 DEF ClientReceive
  <2>2. a \in Addr /\ down[a] \in Seq(Told)
    BY <2>1 DEF SyInv, SyType, ClientState
  <2>3. Elems(Tail(down[a])) \subseteq Elems(down[a])
    BY <2>1, <2>2, ElemsOf
  <2>4. \A b \in Addr : Elems(down'[b]) \subseteq Elems(down[b])
    BY <2>1, <2>3 DEF SyInv, SyType
  <2> QED
    BY <2>1, <2>4 DEF Carried
<1>2. CASE FsStart
  <2>0. PICK a \in Addr : /\ Connect(FileServer, a, <<>>)
                          /\ fs' = [at |-> a, data |-> Msg("FS_REGISTER", None),
                                    starts |-> fs.starts + 1]
    BY <1>2 DEF FsStart
  <2>1. up' = [up EXCEPT ![a] = <<>>] /\ fs'.data = Msg("FS_REGISTER", None)
    BY <2>0 DEF Connect
  <2>2. UNCHANGED <<down, slot>>
    BY <1>2 DEF FsStart, Connect
  <2>3. Elems(<<>>) = {}
    BY DEF Elems
  <2>4. \A b \in Addr : Elems(up'[b]) \subseteq Elems(up[b])
    BY <2>1, <2>3 DEF SyInv, SyType
  <2>5. m # fs'.data
    BY <2>1 DEF Msg, Ready
  <2> QED
    BY <2>2, <2>4, <2>5 DEF Carried
<1>3. CASE FsWrite
  <2>1. /\ fs.at # None /\ fs.data # None /\ UNCHANGED <<down, slot>> /\ fs'.data = None
        /\ up' = [up EXCEPT ![fs.at] = Append(@, fs.data)]
    BY <1>3 DEF FsWrite, SyInv, SyType
  <2>2. fs.at \in Addr /\ fs.data \in Message /\ up[fs.at] \in Seq(Message)
    BY <2>1, SaidIsMessage DEF SyInv, SyType
  <2>3. Elems(Append(up[fs.at], fs.data)) \subseteq Elems(up[fs.at]) \cup {fs.data}
    BY <2>2, ElemsOf
  <2>4. \A b \in Addr : Elems(up'[b]) \subseteq Elems(up[b]) \cup {fs.data}
    BY <2>1, <2>2, <2>3 DEF SyInv, SyType
  <2>5. m \in Message /\ m # None
    BY NoneIsNoMessage DEF Carried
  <2> QED
    BY <2>1, <2>4, <2>5 DEF Carried
<1>4. ASSUME NEW a \in Addr, MsWrite(a) PROVE m \in Carried
  <2> DEFINE t == slot[a].to
  <2> DEFINE x == slot[a].msg
  <2>1. /\ slot[a] # None /\ slot' = [slot EXCEPT ![a] = None] /\ UNCHANGED <<up, fs>>
        /\ down' = down \/ down' = [down EXCEPT ![t] = Append(@, x)]
    BY <1>4 DEF MsWrite
  <2>2. t \in Addr /\ x \in Told /\ down[t] \in Seq(Told)
    BY <2>1 DEF SyInv, SyType
  <2>3. Elems(Append(down[t], x)) \subseteq Elems(down[t]) \cup {x}
    BY <2>2, ElemsOf
  <2> HIDE DEF t, x
  <2>4. \A b \in Addr : Elems(down'[b]) \subseteq Elems(down[b]) \cup {x}
    BY <2>1, <2>2, <2>3 DEF SyInv, SyType
  <2>5. \A b \in Addr : slot'[b] # None => slot'[b] = slot[b]
    BY <2>1 DEF SyInv, SyType
  <2> QED
    BY <2>1, <2>4, <2>5 DEF Carried, x
<1>5. ASSUME NEW a \in Addr, MsClosed(a) PROVE m \in Carried
  <2>1. /\ up' = [up EXCEPT ![a] = <<>>] /\ down' = [down EXCEPT ![a] = <<>>]
        /\ slot' = [slot EXCEPT ![a] = None] /\ UNCHANGED fs
    BY <1>5 DEF MsClosed
  <2>2. Elems(<<>>) = {}
    BY DEF Elems
  <2>3. \A b \in Addr : /\ Elems(up'[b]) \subseteq Elems(up[b])
                        /\ Elems(down'[b]) \subseteq Elems(down[b])
                        /\ slot'[b] # None => slot'[b] = slot[b]
    BY <2>1, <2>2 DEF SyInv, SyType
  <2> QED
    BY <2>1, <2>3 DEF Carried
<1> QED
  BY <1>1, <1>2, <1>3, <1>4, <1>5

LEMMA ReadyInvStep ==
    ASSUME NobodyDies, SyInv, CallsInv, PoolInv, ReadyInv, [PoolNext]_poolvars
    PROVE  ReadyInv'
<1>1. \A i : AtPool(i) => AtPool(i)'
  BY PoolGrows
<1>2. ASSUME NEW m \in Carried', m.type \in Ready PROVE AtPool(m.id)'
  <2>1. CASE UNCHANGED vars
    <3>1. m \in Carried
      BY <2>1 DEF vars, wire, Carried
    <3> QED
      BY <1>1, <1>2, <3>1 DEF ReadyInv
  <2>2. CASE FsHandle
    BY <1>1, <1>2, <2>2, FsHandleReadies DEF ReadyInv
  <2>3. CASE \/ \E c \in Client : Call(c) \/ ClientReceive(c)
             \/ FsStart \/ FsWrite
             \/ \E a \in Addr : MsReceive(a) \/ MsWrite(a) \/ MsClosed(a)
    <3>1. m \in Carried
      BY <1>2, <2>3, CallCarries, OthersCarry, HandlerCarries
    <3> QED
      BY <1>1, <1>2, <3>1 DEF ReadyInv
  <2> QED
    BY <2>1, <2>2, <2>3, NobodyStops
       DEF PoolNext, poolvars, HandlerReturns, TakeWork, TakeGarbage
<1>3. ASSUME NEW c \in Client, client'[c].pc = "transferring",
             NEW i, i = client'[c].session
      PROVE  AtPool(i)'
  <2>1. CASE client'[c] = client[c]
    BY <1>1, <1>3, <2>1 DEF ReadyInv
  <2>2. CASE Call(c)
    BY <1>3, <2>2 DEF Call, SyInv, SyType
  <2>3. CASE ClientReceive(c)
    <3> DEFINE p == IF Op(c) \in {"SY_UPLOAD", "SY_DOWNLOAD"} THEN "transferring" ELSE "idle"
    <3> DEFINE s == IF Makes(c) THEN Cur(c)
                    ELSE IF Op(c) = "SY_CLEANUP" THEN None ELSE client[c].session
    <3>1. client'[c] = [step |-> client[c].step + 1, pc |-> p, at |-> None, session |-> s]
      BY <2>3, Returns
    <3>2. Op(c) \in {"SY_UPLOAD", "SY_DOWNLOAD"}
      BY <1>3, <3>1
    <3>3. s = Cur(c)
      BY <3>2 DEF Makes, Cur
    <3> HIDE DEF p, s
    <3>4. client'[c].session = Cur(c)
      BY <3>1, <3>3
    <3>5. Answer(c).type \in Ready /\ Answer(c).id = Cur(c)
      BY <3>2, AwaitedOf DEF Answer, Msg, Ready
    <3>6. Answer(c) \in Carried
      <4>1. At(c) \in Addr /\ down[At(c)] \in Seq(Message)
        BY <2>3, CallerHas, SaidIsMessage DEF ClientReceive, SyInv, SyType
      <4>2. down[At(c)] = <<Answer(c)>>
        BY <2>3, Returns
      <4>3. Answer(c) \in Elems(down[At(c)])
        BY <4>2 DEF Elems
      <4>4. Answer(c) \in Message
        BY <4>1, <4>2
      <4> QED
        BY <4>1, <4>3, <4>4 DEF Carried
    <3> QED
      BY <1>1, <1>3, <3>4, <3>5, <3>6 DEF ReadyInv
  <2>4. CASE UNCHANGED client
    BY <2>1, <2>4
  <2>5. CASE \E d \in Client : d # c /\ (Call(d) \/ ClientReceive(d))
    BY <2>1, <2>5 DEF Call, ClientReceive, SyInv, SyType
  <2> QED
    BY <2>2, <2>3, <2>4, <2>5, NobodyStops
       DEF PoolNext, poolvars, vars, FsStart, FsWrite, FsHandle, FsReceive, HandlerReturns,
           TakeWork, TakeGarbage, MsReceive, Register, SyInit, SyConnect, Forward, FsInitOk,
           FsReady, SyCleanup, Takes, MsWrite, MsClosed
<1> QED
  BY <1>2, <1>3 DEF ReadyInv

\* As long as nobody dies, a client that has come to rtcdc_loop has its
\* counterpart at the file server (file_server.c:297 to 454), with a worker or
\* waiting for one, however many clients and workers there are.
THEOREM HasCounterpartHolds == NobodyDies => (PoolSpec => []HasCounterpart)
<1> SUFFICES ASSUME NobodyDies PROVE PoolSpec => []HasCounterpart
  OBVIOUS
<1>1. PoolInit => ReadyInv
  <2> SUFFICES ASSUME PoolInit PROVE ReadyInv
    OBVIOUS
  <2>1. fs.data = None /\ \A a \in Addr : up[a] = <<>> /\ down[a] = <<>> /\ slot[a] = None
    BY DEF PoolInit, Init
  <2>2. Carried = {}
    BY <2>1, NoneIsNoMessage DEF Carried, Elems
  <2> QED
    BY <2>2 DEF ReadyInv, PoolInit, Init
<1>2. (SyInv /\ CallsInv) /\ PoolInv /\ ReadyInv /\ [PoolNext]_poolvars => ReadyInv'
  BY ReadyInvStep
<1>3. ReadyInv => HasCounterpart
  BY DEF ReadyInv, HasCounterpart, AtPool
<1> QED
  BY <1>1, <1>2, <1>3, PoolCallsInv, PoolInvHolds, PTL DEF PoolSpec
================================================================================
