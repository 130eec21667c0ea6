------------------------------ MODULE TransferPool ------------------------------
(***************************************************************************)
(* The transfers of the file server (fs/file_server.c, sy_rtcdc.c): the    *)
(* handler of SY_UPLOAD or SY_DOWNLOAD makes a peer connection, has        *)
(* the answer written and queues rtcdc_loop, which does not return, as a   *)
(* work item of libuv.  The uv_work_t is a local variable of the handler.  *)
(***************************************************************************)
EXTENDS SySignaling, FiniteSets

CONSTANT Workers  \* the threads of libuv's pool

ASSUME WorkersIsNat == Workers \in Nat \ {0}
ASSUME NoneIsNoMessage == None \notin Message

Transfers == {"SY_UPLOAD", "SY_DOWNLOAD"}

VARIABLES
    handler, \* the message whose handler the service thread is in, or None
    queue,   \* libuv's queue (external): the messages, in the order of their items
    running  \* the sessions whose rtcdc_loop has a worker

pool == <<handler, queue, running>>
poolvars == <<vars, pool>>

PoolInit == Init /\ handler = None /\ queue = <<>> /\ running = {}

FreeWorker == Cardinality(running) < Workers

-----------------------------------------------------------------------------
\* Mutant: a download is not queued.
FsHandle_NoWork ==
    /\ handler = None
    /\ FsReceive
    /\ LET m == Head(down[fs.at]) IN
       IF m.type = "SY_UPLOAD"
       THEN handler' = m /\ queue' = Append(queue, m)
       ELSE UNCHANGED <<handler, queue>>
    /\ UNCHANGED running

\* The service thread takes a message; for a transfer it queues the work, and
\* is still in the handler.
FsHandle ==
    /\ handler = None
    /\ FsReceive
    /\ LET m == Head(down[fs.at]) IN
       IF m.type \in Transfers
       THEN handler' = m /\ queue' = Append(queue, m)
       ELSE UNCHANGED <<handler, queue>>
    /\ UNCHANGED running

\* The handler waits for nothing: sleep(3) of SY_UPLOAD is a delay only, and
\* SY_DOWNLOAD has none, so a worker may or may not have come to its item.
HandlerReturns ==
    /\ handler # None
    /\ handler' = None
    /\ UNCHANGED <<vars, queue, running>>

\* libuv: a free worker takes the first item, and runs uv_rtcdc_loop ...
TakeWork ==
    /\ FreeWorker /\ queue # <<>>
    /\ running' = running \cup {Head(queue).id}
    /\ queue' = Tail(queue)
    /\ UNCHANGED <<vars, handler>>

PoolEnds == handler' = None /\ queue' = <<>> /\ running' = {}

\* ... unless the item's handler has returned, and its uv_work_t is whatever
\* the stack holds: it may still be what it was, or the process ends.
TakeGarbage ==
    /\ FreeWorker /\ queue # <<>> /\ handler # Head(queue)
    /\ FsCrash
    /\ PoolEnds

PoolNext ==
    \/ (\E c \in Client : Call(c) \/ ClientReceive(c) \/ ClientCrash(c)) /\ UNCHANGED pool
    \/ handler = None /\ FsWrite /\ UNCHANGED pool
    \/ FsStart /\ UNCHANGED pool
    \/ FsHandle \/ HandlerReturns \/ TakeWork \/ TakeGarbage
    \/ (FsCrash \/ MsDies) /\ PoolEnds
    \/ (\E a \in Addr : MsReceive(a) \/ MsWrite(a) \/ MsClosed(a)) /\ UNCHANGED pool
    \/ MsStart /\ UNCHANGED pool

PoolSpec == PoolInit /\ [][PoolNext]_poolvars

\* The workers are threads as well.
PoolFairness ==
    /\ \A c \in Client : WF_poolvars(ClientReceive(c) /\ UNCHANGED pool)
    /\ WF_poolvars(handler = None /\ FsWrite /\ UNCHANGED pool)
    /\ WF_poolvars(FsHandle) /\ WF_poolvars(HandlerReturns) /\ WF_poolvars(TakeWork)
    /\ \A a \in Addr : /\ WF_poolvars(MsReceive(a) /\ UNCHANGED pool)
                       /\ WF_poolvars(MsWrite(a) /\ UNCHANGED pool)
                       /\ WF_poolvars(MsClosed(a) /\ UNCHANGED pool)

FairPoolSpec == PoolSpec /\ PoolFairness

-----------------------------------------------------------------------------
(***************************************************************************)
(* Properties                                                              *)
(***************************************************************************)

\* A client that has come to rtcdc_loop has its counterpart at the file
\* server, for its own session, with a worker or waiting for one
\* (file_server.c:297 to 454; sy.c:617 to 634).
HasCounterpart ==
    \A c \in Client : client[c].pc = "transferring" /\ fs.starts = 1 /\ fs.at # None =>
        \/ client[c].session \in running
        \/ \E n \in DOMAIN queue : queue[n].id = client[c].session

\* ... and gets a worker, as long as there are no more transfers than workers
\* (file_server.c:361: "when the rtcdc_loop terminate?").
TransferRuns ==
    \A c \in Client :
        client[c].pc = "transferring" /\ Cardinality(Client) <= Workers
            ~> client[c].session \in running

\* The sy_* calls keep what SyPromise says.
Promise == INSTANCE SyPromise WITH
    step <- [c \in Client |-> client[c].step],
    pc <- [c \in Client |-> client[c].pc],
    session <- [c \in Client |-> client[c].session],
    live <- {i \in Id : sessions[i] # None}
KeepsSyPromise == Promise!Spec

================================================================================
