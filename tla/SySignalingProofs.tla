-------------------------- MODULE SySignalingProofs --------------------------
(***************************************************************************)
(* TypeOK and RegisteredIsFileServer for any number of clients, calls and  *)
(* starts of the file server.                                              *)
(***************************************************************************)
EXTENDS SySignaling, TLAPS

\* What the owner of a connection says on it, ...
Said(o) == {m \in Message :
    IF o = FileServer
    THEN m.type = "FS_REGISTER" \/ (m.type \in FsAnswers /\ m.id \in Id)
    ELSE o \in Id /\ m.type \in Request /\ (m.type # "SY_INIT" => m.id \in Id)}

\* ... and is told: a request that is to be answered names its session.
Told == {m \in Message : m.type \in DOMAIN FsAnswer => m.id \in Id}

ClientState == [step : Nat \ {0}, pc : {"idle", "called", "transferring", "dead"},
                at : Addr \cup {None}, session : Id \cup {None}]
Session == [fileserver_wsi : Addr, client_wsi : Addr]

SyType ==
    /\ owner \in [Addr -> Id \cup {FileServer, None}]
    /\ alive \in [Addr -> BOOLEAN]
    /\ up \in [Addr -> Seq(Message)]
    /\ down \in [Addr -> Seq(Told)]
    /\ slot \in [Addr -> [to : Addr, msg : Told] \cup {None}]
    /\ fileservers \subseteq Addr
    /\ sessions \in [Id -> Session \cup {None}]
    /\ filesys \in [Id -> Addr \cup {None}]
    /\ fs \in [at : Addr \cup {None}, data : Said(FileServer) \cup {None},
              starts : 0 .. FsStarts]
    /\ client \in [Client -> ClientState]
    /\ ms \in {"first", "down", "again"}

UpIsSaid == \A a \in Addr : up[a] \in Seq(Said(owner[a]))

\* Whoever has a connection is its owner and keeps it open.
FsConnected == fs.at # None => owner[fs.at] = FileServer /\ alive[fs.at]
Connected(c) == client[c].at # None =>
    owner[client[c].at] = CallId(c) /\ alive[client[c].at]

SyInv ==
    /\ SyType
    /\ UpIsSaid
    /\ FsConnected
    /\ \A c \in Client : Connected(c)
    /\ RegisteredIsFileServer

-----------------------------------------------------------------------------
LEMMA FsAnswerIs ==
    /\ DOMAIN FsAnswer = {"SY_INIT", "SY_STATUS", "SY_UPLOAD", "SY_DOWNLOAD"}
    /\ FsAnswer["SY_INIT"] = "FS_INIT_OK" /\ FsAnswer["SY_STATUS"] = "FS_STATUS_OK"
    /\ FsAnswer["SY_UPLOAD"] = "FS_UPLOAD_READY"
    /\ FsAnswer["SY_DOWNLOAD"] = "FS_DOWNLOAD_READY"
BY DEF FsAnswer

LEMMA FsAnswersAre ==
    FsAnswers = {"FS_INIT_OK", "FS_STATUS_OK", "FS_UPLOAD_READY", "FS_DOWNLOAD_READY"}
BY FsAnswerIs DEF FsAnswers

LEMMA AwaitedIs ==
    {Awaited[r] : r \in Request} =
        {"SY_INIT_OK", "SY_CONNECT_OK", "SY_STATUS_OK", "FS_UPLOAD_READY",
         "FS_DOWNLOAD_READY", "SY_CLEANUP_OK"}
<1>1. /\ Awaited["SY_INIT"] = "SY_INIT_OK" /\ Awaited["SY_CONNECT"] = "SY_CONNECT_OK"
      /\ Awaited["SY_STATUS"] = "SY_STATUS_OK" /\ Awaited["SY_UPLOAD"] = "FS_UPLOAD_READY"
      /\ Awaited["SY_DOWNLOAD"] = "FS_DOWNLOAD_READY"
      /\ Awaited["SY_CLEANUP"] = "SY_CLEANUP_OK"
  BY DEF Awaited
<1> QED
  BY <1>1 DEF Request

LEMMA TypesAre ==
    METADATAtype = {"SY_INIT", "SY_CONNECT", "SY_STATUS", "SY_UPLOAD", "SY_DOWNLOAD",
                    "SY_CLEANUP", "FS_INIT_OK", "FS_STATUS_OK", "FS_UPLOAD_READY",
                    "FS_DOWNLOAD_READY", "SY_INIT_OK", "SY_CONNECT_OK", "SY_STATUS_OK",
                    "SY_CLEANUP_OK", "FS_REGISTER", "FS_REGISTER_OK"}
BY FsAnswersAre, AwaitedIs DEF METADATAtype, Request, Closing

LEMMA Names ==
    /\ None \notin Addr /\ None \notin Id /\ None # FileServer /\ FileServer \notin Id
    /\ Id \subseteq Client \X Nat
<1>1. Id \subseteq Client \X Nat
  BY DEF Id
<1> QED
  BY <1>1, NoneIsNothing, FileServerIsNoCall

LEMMA SaidIsMessage == Told \subseteq Message /\ \A o : Said(o) \subseteq Message
BY DEF Told, Said

LEMMA NobodySaysNothing == Said(None) = {}
BY Names DEF Said

LEMMA Updates ==
    ASSUME NEW r \in ClientState, NEW p, NEW v
    PROVE  /\ [r EXCEPT !.pc = p, !.at = v] =
                 [step |-> r.step, pc |-> p, at |-> v, session |-> r.session]
           /\ [r EXCEPT !.at = v] =
                 [step |-> r.step, pc |-> r.pc, at |-> v, session |-> r.session]
<1>1. r = [step |-> r.step, pc |-> r.pc, at |-> r.at, session |-> r.session]
  BY DEF ClientState
<1>2. [r EXCEPT !.at = v] =
          [step |-> r.step, pc |-> r.pc, at |-> v, session |-> r.session]
  BY <1>1
<1>3. [r EXCEPT !.pc = p] =
          [step |-> r.step, pc |-> p, at |-> r.at, session |-> r.session]
  BY <1>1
<1>4. \A t : t = [step |-> r.step, pc |-> p, at |-> r.at, session |-> r.session]
          => [t EXCEPT !.at = v] =
                [step |-> r.step, pc |-> p, at |-> v, session |-> r.session]
  OBVIOUS
<1>5. [[r EXCEPT !.pc = p] EXCEPT !.at = v] =
          [step |-> r.step, pc |-> p, at |-> v, session |-> r.session]
  BY <1>3, <1>4
<1> QED
  BY <1>2, <1>5

LEMMA CallersAreCalls ==
    ASSUME SyType, NEW c \in Client
    PROVE  /\ CallId(c) # None /\ CallId(c) # FileServer
           /\ \A d \in Client : d # c => CallId(d) # CallId(c)
<1>1. CallId(c) \in Client \X Nat
  BY DEF CallId, SyType, ClientState
<1>2. CallId(c) # None /\ CallId(c) # FileServer
  BY <1>1, NoneIsNothing, FileServerIsNoCall
<1> QED
  BY <1>2 DEF CallId

LEMMA CallsAreIds ==
    ASSUME SyType, NEW c \in Client, client[c].step <= Len(Program[c])
    PROVE  CallId(c) \in Id
<1>1. Program[c] \in Seq(Request)
  BY ProgramIsRequests
<1>2. client[c].step \in 1 .. Len(Program[c])
  BY <1>1 DEF SyType, ClientState
<1> QED
  BY <1>2 DEF CallId, Id

LEMMA InvIsTypeOK == SyInv => TypeOK
<1> SUFFICES ASSUME SyInv PROVE TypeOK
  OBVIOUS
<1>1. down \in [Addr -> Seq(Message)]
  BY SaidIsMessage DEF SyInv, SyType
<1>2. slot \in [Addr -> [to : Addr, msg : Message] \cup {None}]
  BY SaidIsMessage DEF SyInv, SyType
<1>3. fs \in [at : Addr \cup {None}, data : Message \cup {None}, starts : 0 .. FsStarts]
  BY SaidIsMessage DEF SyInv, SyType
<1>4. client \in [Client ->
          [step : Nat, pc : {"idle", "called", "transferring", "dead"},
           at : Addr \cup {None}, session : Id \cup {None}]]
  BY DEF SyInv, SyType, ClientState
<1> QED
  BY <1>1, <1>2, <1>3, <1>4 DEF SyInv, SyType, TypeOK, Session

LEMMA SyInvInit == Init => SyInv
<1> SUFFICES ASSUME Init PROVE SyInv
  OBVIOUS
<1>1. SyType
  <2>1. client \in [Client -> ClientState]
    BY DEF Init, ClientState
  <2>2. fs \in [at : Addr \cup {None}, data : Said(FileServer) \cup {None},
               starts : 0 .. FsStarts]
    BY FsStartsIsNat DEF Init
  <2> QED
    BY <2>1, <2>2 DEF Init, SyType
<1>2. UpIsSaid
  BY DEF Init, UpIsSaid
<1>3. FsConnected /\ (\A c \in Client : Connected(c)) /\ RegisteredIsFileServer
  BY DEF Init, FsConnected, Connected, RegisteredIsFileServer
<1> QED
  BY <1>1, <1>2, <1>3 DEF SyInv

-----------------------------------------------------------------------------
\* A new connection disturbs none that is there.
LEMMA ConnectKeeps ==
    ASSUME SyInv, NEW o \in Id \cup {FileServer}, NEW a \in Addr,
           NEW msgs \in Seq(Said(o)), Connect(o, a, msgs), UNCHANGED <<fileservers, ms>>
    PROVE  /\ owner' \in [Addr -> Id \cup {FileServer, None}]
           /\ alive' \in [Addr -> BOOLEAN]
           /\ up' \in [Addr -> Seq(Message)]
           /\ UpIsSaid'
           /\ owner'[a] = o /\ alive'[a]
           /\ \A b \in Addr : owner[b] # None => owner'[b] = owner[b] /\ alive'[b] = alive[b]
           /\ RegisteredIsFileServer'
<1>1. /\ owner' = [owner EXCEPT ![a] = o] /\ owner[a] = None
      /\ alive' = [alive EXCEPT ![a] = TRUE]
      /\ up' = [up EXCEPT ![a] = msgs]
  BY DEF Connect
<1>2. /\ owner' \in [Addr -> Id \cup {FileServer, None}]
      /\ alive' \in [Addr -> BOOLEAN]
      /\ owner'[a] = o /\ alive'[a]
      /\ \A b \in Addr : b # a => /\ owner'[b] = owner[b] /\ alive'[b] = alive[b]
                                 /\ up'[b] = up[b]
  BY <1>1 DEF SyInv, SyType
<1>3. msgs \in Seq(Message)
  BY SaidIsMessage
<1>4. up' \in [Addr -> Seq(Message)] /\ up'[a] = msgs
  BY <1>1, <1>3 DEF SyInv, SyType
<1>5. UpIsSaid'
  BY <1>2, <1>4 DEF SyInv, UpIsSaid
<1>6. RegisteredIsFileServer'
  BY <1>1, <1>2, Names DEF SyInv, RegisteredIsFileServer
<1> QED
  BY <1>1, <1>2, <1>4, <1>5, <1>6

LEMMA CallKeeps ==
    ASSUME SyInv, NEW c \in Client, Call(c)
    PROVE  SyInv'
<1>1. PICK a \in Addr, i \in Argument(c) :
         /\ Connect(CallId(c), a, <<Msg(Op(c), i)>>)
         /\ client' = [client EXCEPT ![c].pc = "called", ![c].at = a]
  BY DEF Call
<1>2. client[c].step <= Len(Program[c]) /\ UNCHANGED <<slot, tables, fs, ms>>
  BY DEF Call
<1>3. CallId(c) \in Id
  BY <1>2, CallsAreIds DEF SyInv
<1>4. Op(c) \in Request
  <2>1. Program[c] \in Seq(Request)
    BY ProgramIsRequests
  <2>2. client[c].step \in 1 .. Len(Program[c])
    BY <1>2, <2>1 DEF SyInv, SyType, ClientState
  <2> QED
    BY <2>1, <2>2 DEF Op
<1>5. i \in Id \cup {None} /\ (Op(c) # "SY_INIT" => i \in Id)
  BY DEF Argument, SyInv, SyType, ClientState
<1>6. Msg(Op(c), i) \in Message
  BY <1>4, <1>5 DEF Msg, Message, METADATAtype
<1>7. Msg(Op(c), i) \in Said(CallId(c))
  BY <1>3, <1>4, <1>5, <1>6, Names DEF Said, Msg
<1>8. <<Msg(Op(c), i)>> \in Seq(Said(CallId(c)))
  BY <1>7
<1>9. /\ owner' \in [Addr -> Id \cup {FileServer, None}]
      /\ alive' \in [Addr -> BOOLEAN]
      /\ up' \in [Addr -> Seq(Message)]
      /\ UpIsSaid'
      /\ owner'[a] = CallId(c) /\ alive'[a]
      /\ \A b \in Addr : owner[b] # None => owner'[b] = owner[b] /\ alive'[b] = alive[b]
      /\ RegisteredIsFileServer'
  BY <1>1, <1>2, <1>3, <1>8, ConnectKeeps DEF tables
<1>10. client' \in [Client -> ClientState]
  <2>1. client' = [client EXCEPT ![c] =
           [step |-> client[c].step, pc |-> "called", at |-> a,
            session |-> client[c].session]]
    <3> DEFINE new == [step |-> client[c].step, pc |-> "called", at |-> a,
                       session |-> client[c].session]
    <3>1. client[c] \in ClientState
      BY DEF SyInv, SyType
    <3>2. [client[c] EXCEPT !.pc = "called", !.at = a] = new
      BY <3>1, Updates
    <3>3. client' = [client EXCEPT ![c] = [client[c] EXCEPT !.pc = "called", !.at = a]]
      BY <1>1 DEF SyInv, SyType
    <3> QED
      BY <3>2, <3>3
  <2> QED
    BY <2>1 DEF SyInv, SyType, ClientState
<1>11. /\ client'[c].at = a /\ client'[c].step = client[c].step
       /\ \A d \in Client : d # c => client'[d] = client[d]
  BY <1>1 DEF SyInv, SyType
<1>12. SyType'
  BY <1>1, <1>2, <1>9, <1>10 DEF SyInv, SyType, Connect, tables
<1>13. FsConnected'
  BY <1>2, <1>9, Names DEF SyInv, SyType, FsConnected
<1>14. \A d \in Client : Connected(d)'
  <2> SUFFICES ASSUME NEW d \in Client PROVE Connected(d)'
    OBVIOUS
  <2>1. CASE d = c
    BY <1>9, <1>11, <2>1 DEF Connected, CallId
  <2>2. CASE d # c
    <3>1. client[d].at # None => owner[client[d].at] # None /\ client[d].at \in Addr
      BY CallersAreCalls DEF SyInv, SyType, ClientState, Connected
    <3> QED
      <4> DEFINE b == client[d].at
      <4>1. b # None => /\ owner[b] = CallId(d) /\ alive[b]
                        /\ owner'[b] = owner[b] /\ alive'[b] = alive[b]
        BY <1>9, <3>1 DEF SyInv, Connected
      <4>2. client'[d] = client[d]
        BY <1>11, <2>2
      <4> QED
        BY <4>1, <4>2 DEF Connected, CallId
  <2> QED
    BY <2>1, <2>2
<1> QED
  BY <1>9, <1>12, <1>13, <1>14 DEF SyInv

LEMMA FsStartKeeps == SyInv /\ FsStart => SyInv'
<1> SUFFICES ASSUME SyInv, FsStart PROVE SyInv'
  OBVIOUS
<1>1. PICK a \in Addr :
         /\ Connect(FileServer, a, <<>>)
         /\ fs' = [at |-> a, data |-> Msg("FS_REGISTER", None), starts |-> fs.starts + 1]
  BY DEF FsStart
<1>2. fs.starts < FsStarts /\ UNCHANGED <<slot, tables, client, ms>>
  BY DEF FsStart
<1>3. <<>> \in Seq(Said(FileServer))
  OBVIOUS
<1>4. /\ owner' \in [Addr -> Id \cup {FileServer, None}]
      /\ alive' \in [Addr -> BOOLEAN]
      /\ up' \in [Addr -> Seq(Message)]
      /\ UpIsSaid'
      /\ owner'[a] = FileServer /\ alive'[a]
      /\ \A b \in Addr : owner[b] # None => owner'[b] = owner[b] /\ alive'[b] = alive[b]
      /\ RegisteredIsFileServer'
  BY <1>1, <1>2, <1>3, ConnectKeeps DEF tables
<1>5. Msg("FS_REGISTER", None) \in Said(FileServer)
  BY DEF Said, Msg, Message, METADATAtype
<1>6. fs.starts + 1 \in 0 .. FsStarts
  BY <1>2, FsStartsIsNat DEF SyInv, SyType
<1>7. SyType'
  BY <1>1, <1>2, <1>4, <1>5, <1>6 DEF SyInv, SyType, Connect, tables
<1>8. FsConnected'
  BY <1>1, <1>4 DEF FsConnected
<1>9. \A d \in Client : Connected(d)'
  <2> SUFFICES ASSUME NEW d \in Client PROVE Connected(d)'
    OBVIOUS
  <2>1. client[d].at # None => owner[client[d].at] # None /\ client[d].at \in Addr
    BY CallersAreCalls DEF SyInv, SyType, ClientState, Connected
  <2> QED
    BY <1>2, <1>4, <2>1 DEF SyInv, Connected, CallId
<1> QED
  BY <1>4, <1>7, <1>8, <1>9 DEF SyInv

-----------------------------------------------------------------------------
\* A connection that is closed by its own end is no longer that end's.
LEMMA CloseKeeps ==
    ASSUME SyInv, NEW c \in Client, client[c].at \in Addr, NEW new, new.at = None,
           alive' = [alive EXCEPT ![client[c].at] = FALSE],
           client' = [client EXCEPT ![c] = new], UNCHANGED owner,
           owner[client[c].at] = CallId(c)
    PROVE  \A d \in Client : Connected(d)'
<1> SUFFICES ASSUME NEW d \in Client PROVE Connected(d)'
  OBVIOUS
<1>1. CASE d = c
  BY <1>1 DEF SyInv, SyType, Connected
<1>2. CASE d # c
  <2>1. client'[d] = client[d]
    BY <1>2 DEF SyInv, SyType
  <2>2. client[d].at # None => /\ owner[client[d].at] = CallId(d) /\ alive[client[d].at]
                               /\ client[d].at \in Addr
    BY DEF SyInv, SyType, ClientState, Connected
  <2>3. CallId(d) # CallId(c)
    BY <1>2, CallersAreCalls DEF SyInv
  <2>4. client[d].at # None => alive'[client[d].at]
    BY <2>2, <2>3 DEF SyInv, SyType
  <2> QED
    BY <2>1, <2>2, <2>4 DEF Connected, CallId
<1> QED
  BY <1>1, <1>2

LEMMA ClientAnsweredKeeps ==
    ASSUME SyInv, NEW c \in Client, ClientReceive(c),
           Head(down[client[c].at]).type \in Closing
    PROVE  SyInv'
<1> DEFINE a == client[c].at
<1> DEFINE m == Head(down[a])
<1> DEFINE new == IF m.type = Awaited[Op(c)] THEN Returned(c, m)
                  ELSE [client[c] EXCEPT !.at = None]
<1>1. /\ a # None /\ down[a] # <<>>
      /\ down' = [down EXCEPT ![a] = Tail(@)]
      /\ alive' = [alive EXCEPT ![a] = FALSE]
      /\ client' = [client EXCEPT ![c] = new]
      /\ UNCHANGED <<owner, up, slot, tables, fs, ms>>
  BY DEF ClientReceive
<1>2. a \in Addr /\ client[c] \in ClientState /\ down[a] \in Seq(Told)
  BY <1>1 DEF SyInv, SyType, ClientState
<1>3. m \in Message /\ Tail(down[a]) \in Seq(Told)
  BY <1>1, <1>2, SaidIsMessage
<1>4. m.id \in Id \cup {None}
  BY <1>3 DEF Message
<1> HIDE DEF a, m
<1>5. new \in ClientState /\ new.at = None
  <2> DEFINE r == [step |-> client[c].step + 1, pc |-> "idle", at |-> None,
                   session |-> client[c].session]
  <2>3. r \in ClientState /\ r.at = None
    BY <1>2 DEF ClientState
  <2>4. [client[c] EXCEPT !.at = None] =
            [step |-> client[c].step, pc |-> client[c].pc, at |-> None,
             session |-> client[c].session]
    BY <1>2, Updates
  <2>5. CASE m.type # Awaited[Op(c)]
    BY <1>2, <2>4, <2>5 DEF ClientState
  <2> HIDE DEF r
  <2>6. CASE m.type = Awaited[Op(c)]
    <3>1. new = CASE Op(c) \in {"SY_INIT", "SY_CONNECT"} -> [r EXCEPT !.session = m.id]
                  [] Op(c) = "SY_STATUS" -> r
                  [] Op(c) = "SY_CLEANUP" -> [r EXCEPT !.session = None]
                  [] OTHER -> [r EXCEPT !.pc = "transferring"]
      BY <2>6 DEF Returned, r
    <3>2. r = [step |-> r.step, pc |-> r.pc, at |-> r.at, session |-> r.session]
      BY <2>3 DEF ClientState
    <3>3. [r EXCEPT !.session = m.id] =
              [step |-> r.step, pc |-> r.pc, at |-> r.at, session |-> m.id]
      BY <3>2
    <3>4. [r EXCEPT !.session = None] =
              [step |-> r.step, pc |-> r.pc, at |-> r.at, session |-> None]
      BY <3>2
    <3>5. [r EXCEPT !.pc = "transferring"] =
              [step |-> r.step, pc |-> "transferring", at |-> r.at, session |-> r.session]
      BY <3>2
    <3>6. [r EXCEPT !.session = m.id] \in ClientState /\ [r EXCEPT !.session = m.id].at = None
      BY <1>4, <2>3, <3>3 DEF ClientState
    <3>7. [r EXCEPT !.session = None] \in ClientState /\ [r EXCEPT !.session = None].at = None
      BY <2>3, <3>4 DEF ClientState
    <3>8. /\ [r EXCEPT !.pc = "transferring"] \in ClientState
          /\ [r EXCEPT !.pc = "transferring"].at = None
      BY <2>3, <3>5 DEF ClientState
    <3>9. \/ new = [r EXCEPT !.session = m.id] \/ new = r
          \/ new = [r EXCEPT !.session = None] \/ new = [r EXCEPT !.pc = "transferring"]
      BY <3>1
    <3> HIDE DEF new
    <3> QED
      BY <2>3, <3>6, <3>7, <3>8, <3>9
  <2> QED
    BY <2>5, <2>6
<1> HIDE DEF new
<1>6. /\ alive' \in [Addr -> BOOLEAN] /\ down' \in [Addr -> Seq(Told)]
      /\ client' \in [Client -> ClientState]
  BY <1>1, <1>2, <1>3, <1>5 DEF SyInv, SyType
<1>7. SyType'
  BY <1>1, <1>6 DEF SyInv, SyType, tables
<1>8. UpIsSaid' /\ RegisteredIsFileServer'
  BY <1>1 DEF SyInv, UpIsSaid, RegisteredIsFileServer, tables
<1>9. owner[a] = CallId(c) /\ CallId(c) # FileServer
  BY <1>1, CallersAreCalls DEF SyInv, Connected, a
<1>10. FsConnected'
  BY <1>1, <1>9 DEF SyInv, SyType, FsConnected
<1>11. \A d \in Client : Connected(d)'
  BY <1>1, <1>2, <1>5, <1>9, CloseKeeps DEF a
<1> QED
  BY <1>7, <1>8, <1>10, <1>11 DEF SyInv

LEMMA ClientReceiveKeeps ==
    ASSUME SyInv, NEW c \in Client, ClientReceive(c)
    PROVE  SyInv'
<1> DEFINE a == client[c].at
<1>1. CASE Head(down[a]).type \in Closing
  BY <1>1, ClientAnsweredKeeps
<1>2. CASE Head(down[a]).type \notin Closing
  <2>1. /\ a # None /\ down[a] # <<>>
        /\ down' = [down EXCEPT ![a] = Tail(@)]
        /\ UNCHANGED <<owner, alive, up, slot, tables, fs, client, ms>>
    BY <1>2 DEF ClientReceive
  <2>2. a \in Addr /\ down[a] \in Seq(Told)
    BY <2>1 DEF SyInv, SyType, ClientState
  <2>3. Tail(down[a]) \in Seq(Told)
    BY <2>1, <2>2
  <2> HIDE DEF a
  <2>4. down' \in [Addr -> Seq(Told)]
    BY <2>1, <2>2, <2>3 DEF SyInv, SyType
  <2>5. SyType'
    BY <2>1, <2>4 DEF SyInv, SyType, tables
  <2>6. UpIsSaid' /\ FsConnected' /\ RegisteredIsFileServer'
    BY <2>1 DEF SyInv, UpIsSaid, FsConnected, RegisteredIsFileServer, tables
  <2>7. \A d \in Client : Connected(d)'
    BY <2>1 DEF SyInv, Connected, CallId
  <2> QED
    BY <2>5, <2>6, <2>7 DEF SyInv
<1> QED
  BY <1>1, <1>2

LEMMA ClientCrashKeeps ==
    ASSUME SyInv, NEW c \in Client, ClientCrash(c)
    PROVE  SyInv'
<1> DEFINE a == client[c].at
<1> DEFINE new == [step |-> client[c].step, pc |-> "dead", at |-> None,
                   session |-> client[c].session]
<1>1. /\ a # None /\ alive' = [alive EXCEPT ![a] = FALSE]
      /\ client' = [client EXCEPT ![c].pc = "dead", ![c].at = None]
      /\ UNCHANGED <<owner, up, down, slot, tables, fs, ms>>
  BY DEF ClientCrash
<1>2. a \in Addr /\ client[c] \in ClientState
  BY <1>1 DEF SyInv, SyType, ClientState
<1>3. client' = [client EXCEPT ![c] = new]
  <2>1. [client[c] EXCEPT !.pc = "dead", !.at = None] = new
    BY <1>2, Updates
  <2>2. client' = [client EXCEPT ![c] = [client[c] EXCEPT !.pc = "dead", !.at = None]]
    BY <1>1 DEF SyInv, SyType
  <2> QED
    BY <2>1, <2>2
<1>4. new \in ClientState /\ new.at = None
  BY <1>2 DEF ClientState
<1> HIDE DEF a, new
<1>5. alive' \in [Addr -> BOOLEAN] /\ client' \in [Client -> ClientState]
  BY <1>1, <1>2, <1>3, <1>4 DEF SyInv, SyType
<1>6. SyType'
  BY <1>1, <1>5 DEF SyInv, SyType, tables
<1>7. UpIsSaid' /\ RegisteredIsFileServer'
  BY <1>1 DEF SyInv, UpIsSaid, RegisteredIsFileServer, tables
<1>8. owner[a] = CallId(c) /\ CallId(c) # FileServer
  BY <1>1, CallersAreCalls DEF SyInv, Connected, a
<1>9. FsConnected'
  BY <1>1, <1>8 DEF SyInv, SyType, FsConnected
<1>10. \A d \in Client : Connected(d)'
  BY <1>1, <1>2, <1>3, <1>4, <1>8, CloseKeeps DEF a
<1> QED
  BY <1>6, <1>7, <1>9, <1>10 DEF SyInv

-----------------------------------------------------------------------------
LEMMA FsCrashKeeps == SyInv /\ FsCrash => SyInv'
<1> SUFFICES ASSUME SyInv, FsCrash PROVE SyInv'
  OBVIOUS
<1>1. /\ fs.at # None /\ alive' = [alive EXCEPT ![fs.at] = FALSE]
      /\ fs' = [fs EXCEPT !.at = None, !.data = None]
      /\ UNCHANGED <<owner, up, down, slot, tables, client, ms>>
  BY DEF FsCrash
<1>2. fs.at \in Addr /\ owner[fs.at] = FileServer
  BY <1>1 DEF SyInv, SyType, FsConnected
<1>3. fs'.at = None /\ fs'.data = None /\ fs'.starts = fs.starts
  BY <1>1 DEF SyInv, SyType
<1>4. SyType'
  <2>1. fs' \in [at : Addr \cup {None}, data : Said(FileServer) \cup {None},
                starts : 0 .. FsStarts]
    BY <1>1 DEF SyInv, SyType
  <2> QED
    BY <1>1, <2>1 DEF SyInv, SyType, tables
<1>5. UpIsSaid' /\ RegisteredIsFileServer' /\ FsConnected'
  BY <1>1, <1>3 DEF SyInv, UpIsSaid, RegisteredIsFileServer, tables, FsConnected
<1>6. \A d \in Client : Connected(d)'
  <2> SUFFICES ASSUME NEW d \in Client PROVE Connected(d)'
    OBVIOUS
  <2>1. client[d].at # None => client[d].at \in Addr /\ client[d].at # fs.at
    BY <1>2, CallersAreCalls DEF SyInv, SyType, ClientState, Connected
  <2> QED
    BY <1>1, <2>1 DEF SyInv, SyType, Connected, CallId
<1> QED
  BY <1>4, <1>5, <1>6 DEF SyInv

LEMMA FsWriteKeeps == SyInv /\ FsWrite => SyInv'
<1> SUFFICES ASSUME SyInv, FsWrite PROVE SyInv'
  OBVIOUS
<1>1. /\ fs.at # None /\ fs.data # None
      /\ up' = [up EXCEPT ![fs.at] = Append(@, fs.data)]
      /\ fs' = [fs EXCEPT !.data = None]
      /\ UNCHANGED <<owner, alive, down, slot, tables, client, ms>>
  BY DEF FsWrite
<1>2. fs.at \in Addr /\ owner[fs.at] = FileServer /\ fs.data \in Said(FileServer)
  BY <1>1 DEF SyInv, SyType, FsConnected
<1>3. Append(up[fs.at], fs.data) \in Seq(Said(FileServer))
  BY <1>2 DEF SyInv, UpIsSaid
<1>4. Append(up[fs.at], fs.data) \in Seq(Message)
  BY <1>2, SaidIsMessage DEF SyInv, SyType
<1>5. /\ up' \in [Addr -> Seq(Message)]
      /\ up'[fs.at] = Append(up[fs.at], fs.data)
      /\ \A b \in Addr : b # fs.at => up'[b] = up[b]
  BY <1>1, <1>2, <1>4 DEF SyInv, SyType
<1>6. UpIsSaid'
  BY <1>1, <1>2, <1>3, <1>5 DEF SyInv, UpIsSaid
<1>7. fs' \in [at : Addr \cup {None}, data : Said(FileServer) \cup {None},
              starts : 0 .. FsStarts] /\ fs'.at = fs.at
  BY <1>1 DEF SyInv, SyType
<1>8. SyType'
  BY <1>1, <1>5, <1>7 DEF SyInv, SyType, tables
<1>9. FsConnected' /\ RegisteredIsFileServer'
  BY <1>1, <1>7 DEF SyInv, FsConnected, RegisteredIsFileServer, tables
<1>10. \A d \in Client : Connected(d)'
  BY <1>1 DEF SyInv, Connected, CallId
<1> QED
  BY <1>6, <1>8, <1>9, <1>10 DEF SyInv

LEMMA FsReceiveKeeps == SyInv /\ FsReceive => SyInv'
<1> SUFFICES ASSUME SyInv, FsReceive PROVE SyInv'
  OBVIOUS
<1> DEFINE m == Head(down[fs.at])
<1>1. /\ fs.at # None /\ down[fs.at] # <<>>
      /\ fs' = IF m.type \in DOMAIN FsAnswer
               THEN [fs EXCEPT !.data = Msg(FsAnswer[m.type], m.id)] ELSE fs
      /\ down' = [down EXCEPT ![fs.at] = Tail(@)]
      /\ UNCHANGED <<owner, alive, up, slot, tables, client, ms>>
  BY DEF FsReceive
<1>2. fs.at \in Addr /\ down[fs.at] \in Seq(Told)
  BY <1>1 DEF SyInv, SyType
<1>3. m \in Told /\ Tail(down[fs.at]) \in Seq(Told)
  BY <1>1, <1>2
<1>4. down' \in [Addr -> Seq(Told)]
  BY <1>1, <1>3 DEF SyInv, SyType
<1> HIDE DEF m
<1>5. m.type \in DOMAIN FsAnswer => Msg(FsAnswer[m.type], m.id) \in Said(FileServer)
  <2> SUFFICES ASSUME m.type \in DOMAIN FsAnswer
               PROVE  Msg(FsAnswer[m.type], m.id) \in Said(FileServer)
    OBVIOUS
  <2>1. m.id \in Id /\ FsAnswer[m.type] \in FsAnswers
    BY <1>3 DEF Told, FsAnswers
  <2>2. FsAnswer[m.type] \in METADATAtype
    BY <2>1 DEF METADATAtype
  <2> HIDE DEF m
  <2> QED
    BY <2>1, <2>2 DEF Said, Msg, Message
<1>6. fs' \in [at : Addr \cup {None}, data : Said(FileServer) \cup {None},
              starts : 0 .. FsStarts] /\ fs'.at = fs.at
  BY <1>1, <1>5 DEF SyInv, SyType
<1>7. SyType'
  BY <1>1, <1>4, <1>6 DEF SyInv, SyType, tables
<1>8. UpIsSaid' /\ FsConnected' /\ RegisteredIsFileServer'
  BY <1>1, <1>6 DEF SyInv, UpIsSaid, FsConnected, RegisteredIsFileServer, tables
<1>9. \A d \in Client : Connected(d)'
  BY <1>1 DEF SyInv, Connected, CallId
<1> QED
  BY <1>7, <1>8, <1>9 DEF SyInv

-----------------------------------------------------------------------------
\* What a handler of the metadata server has in hand.
LEMMA TakesGives ==
    ASSUME SyInv, NEW a \in Addr, NEW types, Takes(a, types)
    PROVE  /\ Head(up[a]) \in Said(owner[a]) /\ Head(up[a]) \in Message
           /\ Head(up[a]).type \in types
           /\ Head(up[a]).type \in Request => owner[a] \in Id
           /\ Head(up[a]).type \in Request \ {"SY_INIT"} => Head(up[a]).id \in Id
           /\ Head(up[a]).type \in FsAnswers => Head(up[a]).id \in Id
           /\ Head(up[a]).type = "FS_REGISTER" => owner[a] = FileServer
<1>1. up[a] # <<>> /\ up[a] \in Seq(Said(owner[a])) /\ Head(up[a]).type \in types
  BY DEF Takes, SyInv, UpIsSaid
<1>2. Head(up[a]) \in Said(owner[a])
  BY <1>1
<1>3. \A m \in Said(owner[a]) :
          /\ m.type \in Request => owner[a] \in Id
          /\ m.type \in Request \ {"SY_INIT"} => m.id \in Id
          /\ m.type \in FsAnswers => m.id \in Id
          /\ m.type = "FS_REGISTER" => owner[a] = FileServer
  BY FsAnswersAre DEF Said, Request
<1> QED
  BY <1>1, <1>2, <1>3, SaidIsMessage

\* Handlers take one message and change what is their own.
LEMMA TakesKeeps ==
    ASSUME SyInv, NEW a \in Addr, NEW types, Takes(a, types),
           slot' \in [Addr -> [to : Addr, msg : Told] \cup {None}],
           sessions' \in [Id -> Session \cup {None}],
           filesys' \in [Id -> Addr \cup {None}],
           fileservers' = fileservers
             \/ (fileservers' = fileservers \cup {a} /\ owner[a] = FileServer),
           UNCHANGED ms
    PROVE  SyInv'
<1>1. /\ up[a] # <<>> /\ up' = [up EXCEPT ![a] = Tail(@)]
      /\ UNCHANGED <<owner, alive, down, fs, client>>
  BY DEF Takes
<1>2. Tail(up[a]) \in Seq(Said(owner[a])) /\ Tail(up[a]) \in Seq(Message)
  BY <1>1 DEF SyInv, SyType, UpIsSaid
<1>3. /\ up' \in [Addr -> Seq(Message)] /\ up'[a] = Tail(up[a])
      /\ \A b \in Addr : b # a => up'[b] = up[b]
  BY <1>1, <1>2 DEF SyInv, SyType
<1>4. UpIsSaid'
  BY <1>1, <1>2, <1>3 DEF SyInv, UpIsSaid
<1>5. fileservers' \subseteq Addr
  BY DEF SyInv, SyType
<1>6. SyType'
  BY <1>1, <1>3, <1>5 DEF SyInv, SyType
<1>7. FsConnected' /\ RegisteredIsFileServer'
  BY <1>1 DEF SyInv, FsConnected, RegisteredIsFileServer
<1>8. \A d \in Client : Connected(d)'
  BY <1>1 DEF SyInv, Connected, CallId
<1> QED
  BY <1>4, <1>6, <1>7, <1>8 DEF SyInv

LEMMA PrepareKeeps ==
    ASSUME SyInv, NEW a \in Addr, NEW t \in Addr, NEW m \in Told, Prepare(a, t, m)
    PROVE  slot' \in [Addr -> [to : Addr, msg : Told] \cup {None}]
BY DEF SyInv, SyType, Prepare

LEMMA RegisterKeeps ==
    ASSUME SyInv, NEW a \in Addr, Register(a)
    PROVE  SyInv'
<1>1. Takes(a, {"FS_REGISTER"}) /\ Prepare(a, a, Msg("FS_REGISTER_OK", None))
  BY DEF Register
<1>2. fileservers' = fileservers \cup {a} /\ UNCHANGED <<sessions, filesys, ms>>
  BY DEF Register
<1>3. owner[a] = FileServer
  BY <1>1, TakesGives
<1>4. Msg("FS_REGISTER_OK", None) \in Told
  BY FsAnswerIs DEF Told, Msg, Message, METADATAtype
<1> QED
  BY <1>1, <1>2, <1>3, <1>4, PrepareKeeps, TakesKeeps DEF SyInv, SyType

LEMMA SyInitKeeps ==
    ASSUME SyInv, NEW a \in Addr, SyInit(a)
    PROVE  SyInv'
<1>1. Takes(a, {"SY_INIT"}) /\ UNCHANGED <<fileservers, filesys, ms>>
  BY DEF SyInit
<1>2. CASE UNCHANGED <<sessions, slot>>
  BY <1>1, <1>2, TakesKeeps DEF SyInv, SyType
<1>3. CASE \E f \in fileservers :
             /\ sessions' = [sessions EXCEPT ![owner[a]] =
                                [fileserver_wsi |-> f, client_wsi |-> a]]
             /\ Prepare(a, f, Msg("SY_INIT", owner[a]))
  <2>1. PICK f \in fileservers :
             /\ sessions' = [sessions EXCEPT ![owner[a]] =
                                [fileserver_wsi |-> f, client_wsi |-> a]]
             /\ Prepare(a, f, Msg("SY_INIT", owner[a]))
    BY <1>3
  <2>2. owner[a] \in Id /\ f \in Addr
    <3>1. owner[a] \in Id
      BY <1>1, TakesGives DEF Request
    <3> QED
      BY <3>1 DEF SyInv, SyType
  <2>3. Msg("SY_INIT", owner[a]) \in Told
    BY <2>2 DEF Told, Msg, Message, METADATAtype, Request
  <2>4. sessions' \in [Id -> Session \cup {None}]
    BY <2>1, <2>2 DEF SyInv, SyType, Session
  <2> QED
    BY <1>1, <2>1, <2>2, <2>3, <2>4, PrepareKeeps, TakesKeeps DEF SyInv, SyType
<1> QED
  BY <1>2, <1>3 DEF SyInit

LEMMA SyConnectKeeps ==
    ASSUME SyInv, NEW a \in Addr, SyConnect(a)
    PROVE  SyInv'
<1> DEFINE f == filesys[Head(up[a]).id]
<1>1. Takes(a, {"SY_CONNECT"}) /\ UNCHANGED <<fileservers, filesys, ms>>
  BY DEF SyConnect
<1>2. CASE UNCHANGED <<sessions, slot>>
  BY <1>1, <1>2, TakesKeeps DEF SyInv, SyType
<1>3. CASE /\ f # None
           /\ sessions' = [sessions EXCEPT ![owner[a]] =
                               [fileserver_wsi |-> f, client_wsi |-> a]]
           /\ Prepare(a, a, Msg("SY_CONNECT_OK", owner[a]))
  <2>1. owner[a] \in Id /\ Head(up[a]).id \in Id
    BY <1>1, TakesGives DEF Request
  <2>2. f \in Addr
    BY <1>3, <2>1 DEF SyInv, SyType
  <2>3. Msg("SY_CONNECT_OK", owner[a]) \in Told
    BY <2>1, FsAnswerIs, TypesAre DEF Told, Msg, Message
  <2>4. sessions' \in [Id -> Session \cup {None}]
    BY <1>3, <2>1, <2>2 DEF SyInv, SyType, Session
  <2> QED
    BY <1>1, <1>3, <2>3, <2>4, PrepareKeeps, TakesKeeps DEF SyInv, SyType
<1> QED
  BY <1>2, <1>3 DEF SyConnect

LEMMA ForwardKeeps ==
    ASSUME SyInv, NEW a \in Addr, Forward(a)
    PROVE  SyInv'
<1> DEFINE i == Head(up[a]).id
<1>1. /\ Takes(a, Forwarded) /\ sessions[i] # None
      /\ sessions' = [sessions EXCEPT ![i].client_wsi = a]
      /\ Prepare(a, sessions[i].fileserver_wsi, Head(up[a]))
      /\ UNCHANGED <<fileservers, filesys, ms>>
  BY DEF Forward
<1>2. i \in Id /\ Head(up[a]) \in Message
  BY <1>1, TakesGives DEF Forwarded, Request
<1> HIDE DEF i
<1>3. sessions[i] \in Session
  BY <1>1, <1>2 DEF SyInv, SyType
<1>4. sessions' \in [Id -> Session \cup {None}]
  <2>1. [sessions[i] EXCEPT !.client_wsi = a] \in Session
    BY <1>3 DEF Session
  <2>2. sessions' = [sessions EXCEPT ![i] = [sessions[i] EXCEPT !.client_wsi = a]]
    BY <1>1, <1>2 DEF SyInv, SyType
  <2> QED
    BY <1>2, <2>1, <2>2 DEF SyInv, SyType
<1>5. Head(up[a]) \in Told
  BY <1>2 DEF Told, i
<1>6. sessions[i].fileserver_wsi \in Addr
  BY <1>3 DEF Session
<1> QED
  BY <1>1, <1>4, <1>5, <1>6, PrepareKeeps, TakesKeeps DEF SyInv, SyType

LEMMA FsInitOkKeeps ==
    ASSUME SyInv, NEW a \in Addr, FsInitOk(a)
    PROVE  SyInv'
<1> DEFINE i == Head(up[a]).id
<1>1. /\ Takes(a, {"FS_INIT_OK"}) /\ sessions[i] # None
      /\ filesys' = [filesys EXCEPT ![i] = sessions[i].fileserver_wsi]
      /\ Prepare(a, sessions[i].client_wsi, Msg("SY_INIT_OK", i))
      /\ UNCHANGED <<fileservers, sessions, ms>>
  BY DEF FsInitOk
<1>2. i \in Id
  BY <1>1, TakesGives, FsAnswersAre
<1> HIDE DEF i
<1>3. sessions[i].fileserver_wsi \in Addr /\ sessions[i].client_wsi \in Addr
  BY <1>1, <1>2 DEF SyInv, SyType, Session
<1>4. filesys' \in [Id -> Addr \cup {None}]
  BY <1>1, <1>3 DEF SyInv, SyType
<1>5. Msg("SY_INIT_OK", i) \in Told
  BY <1>2, FsAnswerIs, TypesAre DEF Told, Msg, Message
<1> QED
  BY <1>1, <1>3, <1>4, <1>5, PrepareKeeps, TakesKeeps DEF SyInv, SyType

LEMMA FsReadyKeeps ==
    ASSUME SyInv, NEW a \in Addr, FsReady(a)
    PROVE  SyInv'
<1> DEFINE m == Head(up[a])
<1> DEFINE answer == IF m.type = "FS_STATUS_OK" THEN Msg("SY_STATUS_OK", m.id) ELSE m
<1>1. /\ Takes(a, FsAnswers \ {"FS_INIT_OK"}) /\ sessions[m.id] # None
      /\ Prepare(a, sessions[m.id].client_wsi, answer)
      /\ UNCHANGED <<tables, ms>>
  BY DEF FsReady
<1>2. m.id \in Id /\ m \in Message
  BY <1>1, TakesGives
<1>3. sessions[m.id].client_wsi \in Addr
  BY <1>1, <1>2 DEF SyInv, SyType, Session
<1>4. answer \in Told
  BY <1>2, FsAnswerIs, TypesAre DEF Told, Msg, Message
<1> QED
  BY <1>1, <1>3, <1>4, PrepareKeeps, TakesKeeps DEF SyInv, SyType, tables

LEMMA SyCleanupKeeps ==
    ASSUME SyInv, NEW a \in Addr, SyCleanup(a)
    PROVE  SyInv'
<1>1. /\ Takes(a, {"SY_CLEANUP"})
      /\ sessions' = [sessions EXCEPT ![Head(up[a]).id] = None]
      /\ Prepare(a, a, Msg("SY_CLEANUP_OK", None))
      /\ UNCHANGED <<fileservers, filesys, ms>>
  BY DEF SyCleanup
<1>2. sessions' \in [Id -> Session \cup {None}]
  BY <1>1 DEF SyInv, SyType
<1>3. Msg("SY_CLEANUP_OK", None) \in Told
  BY FsAnswerIs, TypesAre DEF Told, Msg, Message
<1> QED
  BY <1>1, <1>2, <1>3, PrepareKeeps, TakesKeeps DEF SyInv, SyType

-----------------------------------------------------------------------------
LEMMA MsWriteKeeps ==
    ASSUME SyInv, NEW a \in Addr, MsWrite(a)
    PROVE  SyInv'
<1> DEFINE t == slot[a].to
<1>1. /\ slot[a] # None /\ slot' = [slot EXCEPT ![a] = None]
      /\ down' = [down EXCEPT ![t] = Append(@, slot[a].msg)] \/ down' = down
      /\ UNCHANGED <<owner, alive, up, tables, fs, client, ms>>
  BY DEF MsWrite
<1>2. t \in Addr /\ slot[a].msg \in Told
  BY <1>1 DEF SyInv, SyType
<1>3. down' \in [Addr -> Seq(Told)]
  <2>1. Append(down[t], slot[a].msg) \in Seq(Told)
    BY <1>2 DEF SyInv, SyType
  <2> QED
    BY <1>1, <2>1 DEF SyInv, SyType
<1>4. slot' \in [Addr -> [to : Addr, msg : Told] \cup {None}]
  BY <1>1 DEF SyInv, SyType
<1>5. SyType'
  BY <1>1, <1>3, <1>4 DEF SyInv, SyType, tables
<1>6. UpIsSaid' /\ FsConnected' /\ RegisteredIsFileServer'
  BY <1>1 DEF SyInv, UpIsSaid, FsConnected, RegisteredIsFileServer, tables
<1>7. \A d \in Client : Connected(d)'
  BY <1>1 DEF SyInv, Connected, CallId
<1> QED
  BY <1>5, <1>6, <1>7 DEF SyInv

LEMMA MsDiesKeeps == SyInv /\ MsDies => SyInv'
<1> SUFFICES ASSUME SyInv, MsDies PROVE SyInv'
  OBVIOUS
<1>1. /\ ms' = "down"
      /\ owner' = [a \in Addr |-> None] /\ alive' = [a \in Addr |-> FALSE]
      /\ up' = [a \in Addr |-> <<>>] /\ down' = [a \in Addr |-> <<>>]
      /\ slot' = [a \in Addr |-> None]
      /\ fs' = [fs EXCEPT !.at = None, !.data = None]
      /\ client' = [c \in Client |-> [client[c] EXCEPT !.at = None]]
      /\ UNCHANGED tables
  BY DEF MsDies
<1>2. fs' \in [at : Addr \cup {None}, data : Said(FileServer) \cup {None},
              starts : 0 .. FsStarts] /\ fs'.at = None
  BY <1>1 DEF SyInv, SyType
<1>3. \A c \in Client : client'[c] \in ClientState /\ client'[c].at = None
  <2> SUFFICES ASSUME NEW c \in Client
               PROVE  client'[c] \in ClientState /\ client'[c].at = None
    OBVIOUS
  <2>1. client[c] \in ClientState
    BY DEF SyInv, SyType
  <2>2. client'[c] = [step |-> client[c].step, pc |-> client[c].pc, at |-> None,
                      session |-> client[c].session]
    BY <1>1, <2>1, Updates
  <2> QED
    BY <2>1, <2>2 DEF ClientState
<1>4. client' \in [Client -> ClientState]
  BY <1>1, <1>3
<1>5. SyType'
  BY <1>1, <1>2, <1>4 DEF SyInv, SyType, tables
<1>6. UpIsSaid' /\ FsConnected' /\ RegisteredIsFileServer'
  BY <1>1, <1>2 DEF UpIsSaid, FsConnected, RegisteredIsFileServer
<1>7. \A d \in Client : Connected(d)'
  BY <1>3 DEF Connected
<1> QED
  BY <1>5, <1>6, <1>7 DEF SyInv

LEMMA MsClosedKeeps ==
    ASSUME SyInv, NEW a \in Addr, MsClosed(a)
    PROVE  SyInv'
<1>1. /\ ~alive[a]
      /\ owner' = [owner EXCEPT ![a] = None]
      /\ up' = [up EXCEPT ![a] = <<>>] /\ down' = [down EXCEPT ![a] = <<>>]
      /\ slot' = [slot EXCEPT ![a] = None]
      /\ fileservers' = fileservers \ {a}
      /\ UNCHANGED <<alive, sessions, filesys, fs, client, ms>>
  BY DEF MsClosed
<1>2. /\ owner' \in [Addr -> Id \cup {FileServer, None}]
      /\ up' \in [Addr -> Seq(Message)] /\ down' \in [Addr -> Seq(Told)]
      /\ slot' \in [Addr -> [to : Addr, msg : Told] \cup {None}]
      /\ up'[a] = <<>>
      /\ \A b \in Addr : b # a => owner'[b] = owner[b] /\ up'[b] = up[b]
  BY <1>1 DEF SyInv, SyType
<1>3. SyType'
  BY <1>1, <1>2 DEF SyInv, SyType
<1>4. UpIsSaid'
  <2> SUFFICES ASSUME NEW b \in Addr PROVE up'[b] \in Seq(Said(owner'[b]))
    BY DEF UpIsSaid, Said
  <2>1. CASE b = a
    BY <1>2, <2>1
  <2>2. CASE b # a
    BY <1>2, <2>2 DEF SyInv, UpIsSaid
  <2> QED
    BY <2>1, <2>2
<1>5. FsConnected' /\ RegisteredIsFileServer'
  BY <1>1, <1>2 DEF SyInv, SyType, FsConnected, RegisteredIsFileServer
<1>6. \A d \in Client : Connected(d)'
  <2> SUFFICES ASSUME NEW d \in Client PROVE Connected(d)'
    OBVIOUS
  <2>1. client[d].at # None => client[d].at \in Addr /\ client[d].at # a
    BY <1>1 DEF SyInv, SyType, ClientState, Connected
  <2> QED
    BY <1>1, <1>2, <2>1 DEF SyInv, Connected, CallId
<1> QED
  BY <1>3, <1>4, <1>5, <1>6 DEF SyInv

-----------------------------------------------------------------------------
LEMMA SyInvStep == SyInv /\ [Next]_vars => SyInv'
<1> SUFFICES ASSUME SyInv, [Next]_vars PROVE SyInv'
  OBVIOUS
<1>1. CASE UNCHANGED <<wire, slot, tables, fs, client>> /\ (ms' = ms \/ ms' = "again")
  <2>1. SyType'
    BY <1>1 DEF SyInv, SyType, wire, tables
  <2>2. UpIsSaid' /\ FsConnected' /\ RegisteredIsFileServer'
    BY <1>1 DEF SyInv, UpIsSaid, FsConnected, RegisteredIsFileServer, wire, tables
  <2>3. \A d \in Client : Connected(d)'
    BY <1>1 DEF SyInv, Connected, CallId, wire
  <2> QED
    BY <2>1, <2>2, <2>3 DEF SyInv
<1>2. CASE UNCHANGED vars \/ MsStart
  BY <1>1, <1>2 DEF vars, MsStart
<1>3. CASE \E c \in Client : Call(c) \/ ClientReceive(c) \/ ClientCrash(c)
  BY <1>3, CallKeeps, ClientReceiveKeeps, ClientCrashKeeps
<1>4. CASE FsStart \/ FsWrite \/ FsReceive \/ FsCrash
  BY <1>4, FsStartKeeps, FsWriteKeeps, FsReceiveKeeps, FsCrashKeeps
<1>5. CASE \E a \in Addr : MsReceive(a)
  BY <1>5, RegisterKeeps, SyInitKeeps, SyConnectKeeps, ForwardKeeps, FsInitOkKeeps,
     FsReadyKeeps, SyCleanupKeeps DEF MsReceive
<1>6. CASE \E a \in Addr : MsWrite(a) \/ MsClosed(a)
  BY <1>6, MsWriteKeeps, MsClosedKeeps
<1>7. CASE MsDies
  BY <1>7, MsDiesKeeps
<1> QED
  BY <1>2, <1>3, <1>4, <1>5, <1>6, <1>7 DEF Next

LEMMA SyInvHolds == Spec => []SyInv
BY SyInvInit, SyInvStep, PTL DEF Spec

\* Types, for any clients, programs, addresses, crashes and restarts: a request
\* that is answered names a session, and only file servers answer.
THEOREM TypeCorrect == Spec => []TypeOK
BY SyInvHolds, InvIsTypeOK, PTL

\* However often clients and file servers come, die and have their addresses
\* reused, the fileserver collection lists connections of file servers only,
\* until the metadata server dies (metadata_server.c:161, 469).
THEOREM RegisteredIsFileServerHolds == Spec => []RegisteredIsFileServer
<1>1. SyInv => RegisteredIsFileServer
  BY DEF SyInv
<1> QED
  BY <1>1, SyInvHolds, PTL
================================================================================
