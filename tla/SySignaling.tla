------------------------------ MODULE SySignaling ------------------------------
(***************************************************************************)
(* Signalling of the sy_* file synchronisation service in APIs/: clients   *)
(* (cli/sy.c) and the file server (fs/file_server.c) hold websocket        *)
(* connections to the metadata server (ms/metadata_server.c), which keeps  *)
(* its tables in MongoDB and routes every message by the libwebsocket      *)
(* pointers, the wsi addresses, it has stored there.                       *)
(*                                                                         *)
(* A session or URI id is named by the call it is made for: <<client,      *)
(* step>>.  Checksums, SDPs and candidates are left out, and so are the    *)
(* session's state and repo_name, which no handler branches on.            *)
(***************************************************************************)
EXTENDS Naturals, Sequences

CONSTANTS
    Client,
    Program,    \* Program[c]: the sequence of sy_* calls c makes
    Addr,       \* where the metadata server may allocate a struct libwebsocket
    FileServer, \* the owner of the file server's connections
    None,       \* no connection, address, message, session or id
    ClientsCrash,   \* TRUE: a client may die during a call
    FsStarts,   \* bound: how often the file server starts; it dies before
                \* each start but the first
    FsFirst,    \* TRUE: clients call once a file server is registered
    KnownURIs,  \* TRUE: sy_connect is given a URI_code that exists
    MsRestarts  \* TRUE: a metadata server that has died is started again

Request == {"SY_INIT", "SY_CONNECT", "SY_STATUS", "SY_UPLOAD", "SY_DOWNLOAD",
            "SY_CLEANUP"}

ASSUME ProgramIsRequests == Program \in [Client -> Seq(Request)]
ASSUME NoneIsNothing == None \notin Addr \cup {FileServer} \cup (Client \X Nat)
ASSUME NoneIsNoSession == None \notin [fileserver_wsi : Addr, client_wsi : Addr]
ASSUME FileServerIsNoCall == FileServer \notin Client \X Nat
ASSUME FsStartsIsNat == FsStarts \in Nat
ASSUME OptionsAreBool == {ClientsCrash, FsFirst, KnownURIs, MsRestarts} \subseteq BOOLEAN

Id == UNION {{c} \X (1 .. Len(Program[c])) : c \in Client}

\* What the file server answers, and what a call waits for.
FsAnswer == [SY_INIT |-> "FS_INIT_OK", SY_STATUS |-> "FS_STATUS_OK",
             SY_UPLOAD |-> "FS_UPLOAD_READY", SY_DOWNLOAD |-> "FS_DOWNLOAD_READY"]
Awaited == [SY_INIT |-> "SY_INIT_OK", SY_CONNECT |-> "SY_CONNECT_OK",
            SY_STATUS |-> "SY_STATUS_OK", SY_UPLOAD |-> "FS_UPLOAD_READY",
            SY_DOWNLOAD |-> "FS_DOWNLOAD_READY", SY_CLEANUP |-> "SY_CLEANUP_OK"]

Forwarded == {"SY_STATUS", "SY_UPLOAD", "SY_DOWNLOAD"}
FsAnswers == {FsAnswer[r] : r \in DOMAIN FsAnswer}
Closing == {Awaited[r] : r \in Request}
METADATAtype == Request \cup FsAnswers \cup Closing
                        \cup {"FS_REGISTER", "FS_REGISTER_OK"}

Message == [type : METADATAtype, id : Id \cup {None}]
Msg(t, i) == [type |-> t, id |-> i]

VARIABLES
    owner,  \* owner[a]: the call or file server whose connection the wsi at a
            \* is, None if a is free
    alive,  \* alive[a]: the other end has not closed the connection
    up,     \* up[a]: messages to the metadata server
    down,   \* down[a]: messages to the other end
    slot,   \* slot[a]: the write_data of a: a message and its target_wsi, or None
    fileservers, \* the fileserver collection: a set of addresses
    sessions,    \* the session collection: id -> addresses, or None
    filesys,     \* the filesys collection: URI_code -> address, or None
    fs,     \* the file server: its connection, its write_data, its starts so far
    client, \* per client: its step, its connection and its session_id
    ms      \* the metadata server: "first" until it dies, "down", then "again"

wire == <<owner, alive, up, down>>
tables == <<fileservers, sessions, filesys>>
vars == <<wire, slot, tables, fs, client, ms>>

\* The calls of a client that is not in the middle of one.
Op(c) == Program[c][client[c].step]
CallId(c) == <<c, client[c].step>>
InCall(c) == client[c].pc = "called"

Init ==
    /\ owner = [a \in Addr |-> None]
    /\ alive = [a \in Addr |-> FALSE]
    /\ up = [a \in Addr |-> <<>>]
    /\ down = [a \in Addr |-> <<>>]
    /\ slot = [a \in Addr |-> None]
    /\ fileservers = {}
    /\ sessions = [i \in Id |-> None]
    /\ filesys = [i \in Id |-> None]
    /\ fs = [at |-> None, data |-> None, starts |-> 0]
    /\ client = [c \in Client |-> [step |-> 1, pc |-> "idle", at |-> None,
                                   session |-> None]]
    /\ ms = "first"

\* A new connection of o, with msgs already on their way to the server.
Connect(o, a, msgs) ==
    /\ ms # "down" /\ owner[a] = None
    /\ owner' = [owner EXCEPT ![a] = o]
    /\ alive' = [alive EXCEPT ![a] = TRUE]
    /\ up' = [up EXCEPT ![a] = msgs]
    /\ UNCHANGED down

-----------------------------------------------------------------------------
(***************************************************************************)
(* The client: sy_init, sy_connect, sy_status, sy_upload, sy_download and  *)
(* sy_cleanup.                                                             *)
(***************************************************************************)
Argument(c) ==
    IF Op(c) = "SY_INIT" THEN {None}
    ELSE IF Op(c) # "SY_CONNECT" THEN {client[c].session} \ {None}
    ELSE {u \in Id : KnownURIs => filesys[u] # None}

\* Every call opens a connection of its own and sends one message on it.
Call(c) ==
    /\ client[c].pc = "idle" /\ client[c].step <= Len(Program[c])
    /\ FsFirst => fileservers # {}
    /\ \E a \in Addr, i \in Argument(c) :
          /\ Connect(CallId(c), a, <<Msg(Op(c), i)>>)
          /\ client' = [client EXCEPT ![c].pc = "called", ![c].at = a]
    /\ UNCHANGED <<slot, tables, fs, ms>>

\* What the call returns to its caller.  rtcdc_loop does not return, so
\* sy_upload and sy_download do not either.
Returned(c, m) ==
    LET r == [step |-> client[c].step + 1, pc |-> "idle", at |-> None,
              session |-> client[c].session] IN
    CASE Op(c) \in {"SY_INIT", "SY_CONNECT"} -> [r EXCEPT !.session = m.id]
      [] Op(c) = "SY_STATUS" -> r
      [] Op(c) = "SY_CLEANUP" -> [r EXCEPT !.session = None]
      [] OTHER -> [r EXCEPT !.pc = "transferring"]

\* callback_client closes the connection at any answer to a call; the call
\* goes on if it is the one it waits for, and waits for ever if it is not.
\* Every other message is ignored.
ClientReceive(c) ==
    LET a == client[c].at IN
    /\ InCall(c) /\ a # None /\ down[a] # <<>>
    /\ down' = [down EXCEPT ![a] = Tail(@)]
    /\ IF Head(down[a]).type \notin Closing THEN UNCHANGED <<alive, client>>
       ELSE /\ alive' = [alive EXCEPT ![a] = FALSE]
            /\ client' = [client EXCEPT ![c] =
                  IF Head(down[a]).type = Awaited[Op(c)]
                  THEN Returned(c, Head(down[a])) ELSE [@ EXCEPT !.at = None]]
    /\ UNCHANGED <<owner, up, slot, tables, fs, ms>>

ClientCrash(c) ==
    /\ ClientsCrash /\ InCall(c) /\ client[c].at # None
    /\ alive' = [alive EXCEPT ![client[c].at] = FALSE]
    /\ client' = [client EXCEPT ![c].pc = "dead", ![c].at = None]
    /\ UNCHANGED <<owner, up, down, slot, tables, fs, ms>>

-----------------------------------------------------------------------------
(***************************************************************************)
(* The file server.                                                        *)
(***************************************************************************)
FsStart ==
    /\ fs.at = None /\ fs.starts < FsStarts
    /\ \E a \in Addr :
          /\ Connect(FileServer, a, <<>>)
          /\ fs' = [at |-> a, data |-> Msg("FS_REGISTER", None),
                    starts |-> fs.starts + 1]
    /\ UNCHANGED <<slot, tables, client, ms>>

\* LWS_CALLBACK_CLIENT_WRITEABLE, once asked for.
FsWrite ==
    /\ fs.at # None /\ fs.data # None
    /\ up' = [up EXCEPT ![fs.at] = Append(@, fs.data)]
    /\ fs' = [fs EXCEPT !.data = None]
    /\ UNCHANGED <<owner, alive, down, slot, tables, client, ms>>

\* LWS_CALLBACK_CLIENT_RECEIVE: the answer takes the place of whatever
\* write_data still holds.
FsReceive ==
    /\ fs.at # None /\ down[fs.at] # <<>>
    /\ LET m == Head(down[fs.at]) IN
       fs' = IF m.type \in DOMAIN FsAnswer
             THEN [fs EXCEPT !.data = Msg(FsAnswer[m.type], m.id)] ELSE fs
    /\ down' = [down EXCEPT ![fs.at] = Tail(@)]
    /\ UNCHANGED <<owner, alive, up, slot, tables, client, ms>>

\* The process ends.
FsCrash ==
    /\ fs.at # None /\ fs.starts < FsStarts
    /\ alive' = [alive EXCEPT ![fs.at] = FALSE]
    /\ fs' = [fs EXCEPT !.at = None, !.data = None]
    /\ UNCHANGED <<owner, up, down, slot, tables, client, ms>>

-----------------------------------------------------------------------------
(***************************************************************************)
(* The metadata server, a single thread: callback_SDP on one connection at *)
(* a time.  A handler prepares one write in the write_data of the          *)
(* connection it received from, whoever the target is.  Handlers that use  *)
(* what get_session returns are enabled when it finds the session; reading *)
(* through NULL is in MsDies.                                              *)
(***************************************************************************)
Takes(a, types) ==
    /\ ms # "down" /\ owner[a] # None /\ up[a] # <<>>
    /\ Head(up[a]).type \in types
    /\ up' = [up EXCEPT ![a] = Tail(@)]
    /\ UNCHANGED <<owner, alive, down, fs, client>>

Prepare(a, target, m) == slot' = [slot EXCEPT ![a] = [to |-> target, msg |-> m]]

\* FS_REGISTER_t
Register(a) ==
    /\ Takes(a, {"FS_REGISTER"})
    /\ fileservers' = fileservers \cup {a}
    /\ Prepare(a, a, Msg("FS_REGISTER_OK", None))
    /\ UNCHANGED <<sessions, filesys, ms>>

\* Mutants: the session is not stored; or NULL is used as a file server.
SyInit_NoSession(a) ==
    /\ Takes(a, {"SY_INIT"})
    /\ \E f \in fileservers : Prepare(a, f, Msg("SY_INIT", owner[a]))
    /\ UNCHANGED <<tables, ms>>

SyInit_NoCheck(a) ==
    /\ Takes(a, {"SY_INIT"})
    /\ \E f \in IF fileservers = {} THEN {None} ELSE fileservers :
          /\ sessions' = [sessions EXCEPT ![owner[a]] =
                             [fileserver_wsi |-> f, client_wsi |-> a]]
          /\ Prepare(a, f, Msg("SY_INIT", owner[a]))
    /\ UNCHANGED <<fileservers, filesys, ms>>

\* SY_INIT.  Without a file server the call gets no answer.
SyInit(a) ==
    /\ Takes(a, {"SY_INIT"})
    /\ \/ /\ fileservers = {}
          /\ UNCHANGED <<sessions, slot>>
       \/ \E f \in fileservers :
             /\ sessions' = [sessions EXCEPT ![owner[a]] =
                                [fileserver_wsi |-> f, client_wsi |-> a]]
             /\ Prepare(a, f, Msg("SY_INIT", owner[a]))
    /\ UNCHANGED <<fileservers, filesys, ms>>

\* SY_CONNECT.  Without the URI the call gets no answer.
SyConnect(a) ==
    LET f == filesys[Head(up[a]).id] IN
    /\ Takes(a, {"SY_CONNECT"})
    /\ IF f = None THEN UNCHANGED <<sessions, slot>>
       ELSE /\ sessions' = [sessions EXCEPT ![owner[a]] =
                               [fileserver_wsi |-> f, client_wsi |-> a]]
            /\ Prepare(a, a, Msg("SY_CONNECT_OK", owner[a]))
    /\ UNCHANGED <<fileservers, filesys, ms>>

\* Mutant: client_wsi stays that of the call which made the session.
Forward_OldClient(a) ==
    LET i == Head(up[a]).id IN
    /\ Takes(a, Forwarded)
    /\ sessions[i] # None
    /\ Prepare(a, sessions[i].fileserver_wsi, Head(up[a]))
    /\ UNCHANGED <<tables, ms>>

\* SY_STATUS, SY_UPLOAD and SY_DOWNLOAD.
Forward(a) ==
    LET i == Head(up[a]).id IN
    /\ Takes(a, Forwarded)
    /\ sessions[i] # None
    /\ sessions' = [sessions EXCEPT ![i].client_wsi = a]
    /\ Prepare(a, sessions[i].fileserver_wsi, Head(up[a]))
    /\ UNCHANGED <<fileservers, filesys, ms>>

\* FS_INIT_OK also enters the URI, under the id of the session.
FsInitOk(a) ==
    LET i == Head(up[a]).id IN
    /\ Takes(a, {"FS_INIT_OK"})
    /\ sessions[i] # None
    /\ filesys' = [filesys EXCEPT ![i] = sessions[i].fileserver_wsi]
    /\ Prepare(a, sessions[i].client_wsi, Msg("SY_INIT_OK", i))
    /\ UNCHANGED <<fileservers, sessions, ms>>

\* FS_STATUS_OK, FS_UPLOAD_READY and FS_DOWNLOAD_READY.
FsReady(a) ==
    LET m == Head(up[a]) IN
    /\ Takes(a, FsAnswers \ {"FS_INIT_OK"})
    /\ sessions[m.id] # None
    /\ Prepare(a, sessions[m.id].client_wsi,
               IF m.type = "FS_STATUS_OK" THEN Msg("SY_STATUS_OK", m.id) ELSE m)
    /\ UNCHANGED <<tables, ms>>

\* Mutants: the session stays; or there is no answer.
SyCleanup_Keep(a) ==
    /\ Takes(a, {"SY_CLEANUP"})
    /\ Prepare(a, a, Msg("SY_CLEANUP_OK", None))
    /\ UNCHANGED <<tables, ms>>
SyCleanup_Silent(a) ==
    /\ Takes(a, {"SY_CLEANUP"})
    /\ sessions' = [sessions EXCEPT ![Head(up[a]).id] = None]
    /\ UNCHANGED <<fileservers, filesys, slot, ms>>

\* SY_CLEANUP
SyCleanup(a) ==
    /\ Takes(a, {"SY_CLEANUP"})
    /\ sessions' = [sessions EXCEPT ![Head(up[a]).id] = None]
    /\ Prepare(a, a, Msg("SY_CLEANUP_OK", None))
    /\ UNCHANGED <<fileservers, filesys, ms>>

\* LWS_CALLBACK_SERVER_WRITEABLE, once asked for.  A connection whose other
\* end has gone swallows the message.
MsWrite(a) ==
    LET t == slot[a].to IN
    /\ ms # "down" /\ slot[a] # None
    /\ slot' = [slot EXCEPT ![a] = None]
    /\ down' = IF owner[t] # None /\ alive[t]
               THEN [down EXCEPT ![t] = Append(@, slot[a].msg)] ELSE down
    /\ UNCHANGED <<owner, alive, up, tables, fs, client, ms>>

\* The next message of a is about a session that get_session does not find.
NullSession(a) ==
    /\ owner[a] # None /\ up[a] # <<>>
    /\ Head(up[a]).type \in Forwarded \cup FsAnswers
    /\ sessions[Head(up[a]).id] = None

\* A target that has been closed is freed memory: writing to it does nothing
\* (above) or kills the metadata server, as reading through NULL does.  The
\* file server exits when its connection is lost; a client waits on.  MongoDB
\* keeps the tables.
MsDies ==
    /\ ms # "down"
    /\ \E a \in Addr : \/ slot[a] # None /\ owner[slot[a].to] = None
                      \/ NullSession(a)
    /\ ms' = "down"
    /\ owner' = [a \in Addr |-> None]
    /\ alive' = [a \in Addr |-> FALSE]
    /\ up' = [a \in Addr |-> <<>>]
    /\ down' = [a \in Addr |-> <<>>]
    /\ slot' = [a \in Addr |-> None]
    /\ fs' = [fs EXCEPT !.at = None, !.data = None]
    /\ client' = [c \in Client |-> [client[c] EXCEPT !.at = None]]
    /\ UNCHANGED tables

MsStart ==
    /\ MsRestarts /\ ms = "down"
    /\ ms' = "again"
    /\ UNCHANGED <<wire, slot, tables, fs, client>>

\* Mutant: the file server stays registered.
MsClosed_Keep(a) ==
    /\ ms # "down" /\ owner[a] # None /\ ~alive[a]
    /\ owner' = [owner EXCEPT ![a] = None]
    /\ up' = [up EXCEPT ![a] = <<>>]
    /\ down' = [down EXCEPT ![a] = <<>>]
    /\ slot' = [slot EXCEPT ![a] = None]
    /\ UNCHANGED <<alive, tables, fs, client, ms>>

\* LWS_CALLBACK_CLOSED: messages not read yet are lost, write_data and the
\* struct libwebsocket are freed.
MsClosed(a) ==
    /\ ms # "down" /\ owner[a] # None /\ ~alive[a]
    /\ owner' = [owner EXCEPT ![a] = None]
    /\ up' = [up EXCEPT ![a] = <<>>]
    /\ down' = [down EXCEPT ![a] = <<>>]
    /\ slot' = [slot EXCEPT ![a] = None]
    /\ fileservers' = fileservers \ {a}
    /\ UNCHANGED <<alive, sessions, filesys, fs, client, ms>>

MsReceive(a) ==
    \/ Register(a) \/ SyInit(a) \/ SyConnect(a) \/ Forward(a)
    \/ FsInitOk(a) \/ FsReady(a) \/ SyCleanup(a)

Next ==
    \/ \E c \in Client : Call(c) \/ ClientReceive(c) \/ ClientCrash(c)
    \/ FsStart \/ FsWrite \/ FsReceive \/ FsCrash
    \/ \E a \in Addr : MsReceive(a) \/ MsWrite(a) \/ MsClosed(a)
    \/ MsDies \/ MsStart

Spec == Init /\ [][Next]_vars

\* Every process runs a service loop; nothing makes a client call, a process
\* die or the file server start.
Fairness ==
    /\ \A c \in Client : WF_vars(ClientReceive(c))
    /\ WF_vars(FsWrite) /\ WF_vars(FsReceive)
    /\ \A a \in Addr : WF_vars(MsReceive(a)) /\ WF_vars(MsWrite(a))
                        /\ WF_vars(MsClosed(a))

FairSpec == Spec /\ Fairness

-----------------------------------------------------------------------------
(***************************************************************************)
(* Properties                                                              *)
(***************************************************************************)

\* Every variable has its type.
TypeOK ==
    /\ owner \in [Addr -> Id \cup {FileServer, None}]
    /\ alive \in [Addr -> BOOLEAN]
    /\ up \in [Addr -> Seq(Message)]
    /\ down \in [Addr -> Seq(Message)]
    /\ slot \in [Addr -> [to : Addr, msg : Message] \cup {None}]
    /\ fileservers \subseteq Addr
    /\ sessions \in [Id -> [fileserver_wsi : Addr, client_wsi : Addr] \cup {None}]
    /\ filesys \in [Id -> Addr \cup {None}]
    /\ fs \in [at : Addr \cup {None}, data : Message \cup {None},
              starts : 0 .. FsStarts]
    /\ client \in [Client ->
          [step : Nat, pc : {"idle", "called", "transferring", "dead"},
           at : Addr \cup {None}, session : Id \cup {None}]]
    /\ ms \in {"first", "down", "again"}

\* The metadata server never has a write pending for a connection it has
\* freed: what the tables hold when a handler prepares a write
\* (target_wsi = session->client_wsi, session->fileserver_wsi) is still
\* connected when LWS_CALLBACK_SERVER_WRITEABLE comes to it.
NoDanglingWrite ==
    \A a \in Addr : slot[a] # None => owner[slot[a].to] # None

\* What is on its way to a client in a call answers that call, and is about
\* the client's own session: no handler routes by a client_wsi of another
\* call or another client.
AnswersTheCall ==
    \A c \in Client : InCall(c) /\ client[c].at # None =>
        \A n \in DOMAIN down[client[c].at] :
            LET m == down[client[c].at][n] IN
            /\ m.type = Awaited[Op(c)]
            /\ m.id = CASE Op(c) \in {"SY_INIT", "SY_CONNECT"} -> CallId(c)
                         [] Op(c) = "SY_CLEANUP" -> None
                         [] OTHER -> client[c].session

\* As long as nobody dies, no handler will meet a session_id that is not in
\* the session collection: whatever is sent about a session, by its client or
\* by the file server, is sent after the session is stored and handled before
\* it is deleted.
SessionFound ==
    \A a \in Addr : \A n \in DOMAIN up[a] :
        up[a][n].type \in Forwarded \cup FsAnswers
            => sessions[up[a][n].id] # None

\* Until the metadata server dies, the fileserver collection lists
\* connections of file servers only, never an address that has been closed,
\* whoever has it now.
RegisteredIsFileServer ==
    ms = "first" => \A a \in fileservers : owner[a] = FileServer

\* The session collection holds what some client still works with: between
\* its calls, a client's only session is the one it has an id of.
NoOrphanSession ==
    \A i \in Id : LET c == i[1] IN
        sessions[i] # None /\ client[c].pc = "idle" => client[c].session = i

\* Every sy_* call gets its answer, or its client dies.
CallsAnswered ==
    \A c \in Client : InCall(c) ~> ~InCall(c)

================================================================================
