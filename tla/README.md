# A verification project for librtcdc

librtcdc is a small WebRTC data-channel library in C (ICE from libnice, DTLS
from OpenSSL, SCTP from usrsctp), with, under `APIs/`, a file-synchronisation
system ("SY") built on it: a metadata server, file servers and a client
library that signal over WebSockets and move files over data channels.

This directory models the parts of it whose correctness depends on the order
of events, checks the models with TLC and proves some of the results for every
instance with TLAPS. Source lines are quoted as `file:line`; file names without
a directory are those of `src/src/`.

## 1. The system

| part | source | state it keeps | operations | how it meets the others |
|---|---|---|---|---|
| peer connection | `rtcdc.c`, `rtcdc.h` | role, `channels[128]`, `exit_thread`, `initialized` | create, destroy, offer and answer, `rtcdc_loop` | owns the transports, starts the ICE and startup threads, runs the GLib main loop |
| data channels | `rtcdc.c:245-353`, `dcep.c` | sid, state, callbacks of a channel; `stream_cursor` | create, send, OPEN / ACK / DATA handlers | the application's thread and the main loop share the table without a lock |
| SCTP transport | `sctp.c` | socket, two memory BIOs, `handshake_done` flag, process-wide `g_sctp_ref` | create, destroy, send, the two usrsctp callbacks | usrsctp calls back on its timer thread, on the main loop and on the sender's thread |
| DTLS transport | `dtls.c` | SSL object, two memory BIOs, mutex, process-wide context with `g_context_ref` | create, destroy | driven by the startup thread, the ICE thread and the main loop |
| ICE transport | `ice.c` | `gathering_done`, `negotiation_done`, main loop | create, destroy, libnice's callbacks, `ice_thread` | gives datagrams to DTLS and SCTP |
| SDP | `sdp.c`, `rtcdc.c:165-243` | none of its own; sets role and remote port | generate, parse | the signalling system carries the text |
| metadata server | `APIs/ms/metadata_server.c` | sessions and file servers (MongoDB), per-connection write slot | one WebSocket handler per message type | clients and file servers |
| file server | `APIs/fs` | repositories on disk, one peer per transfer | WebSocket handler, data-channel callbacks | metadata server, client |
| client library | `APIs/cli` | a session per repository | `sy_init`, `sy_connect`, `sy_status`, `sy_upload`, `sy_download`, `sy_cleanup` | metadata server, file server |
| Python binding | `python/` | callback records | wraps the C functions | application |
| examples, sandbox | `examples/`, `sandbox/` | | demonstrations | |


### What is hard here

- **Three threads, no lock.** The thread that creates data channels, the
  startup thread and the GLib main loop share `peer->channels`,
  `stream_cursor`, `sctp->sock` and `handshake_done` (`rtcdc.c:245-443`,
  `dcep.c`). Each action of `DataChannels` is one access to what they share.
- **Flags polled by threads.** `startup_thread` and `ice_thread` wait for
  `gathering_done`, `negotiation_done`, `handshake_done` and `exit_thread`;
  `sctp_to_dtls` and `dtls_to_ice` (`sctp.c:221-300`) wait for the same flags
  from within whatever thread usrsctp calls back on.
- **Roles by order of calls.** Who is DTLS and SCTP client follows from the
  order in which both applications generate and parse SDPs, some of them twice
  (`rtcdc.c:165-243`).
- **No end-to-end acknowledgement of an OPEN.** What is sent before
  `handshake_done` is dropped and reported as sent (`sctp.c:357`).
- **An end without a join.** `rtcdc_destroy_peer_connection` quits the main
  loop, sleeps 100 ms and frees (`rtcdc.c:147-149`), wherever the loop and the
  two threads have come to in that time.
- **Addresses as names.** The metadata server stores `struct libwebsocket`
  addresses in MongoDB and routes by them; connections close after each call,
  addresses are used again, and processes restart (`metadata_server.c:443-1061`).
- **One write slot per connection.** A message prepared before the one before
  has been written takes its place (`file_server.c:222`, `metadata_server.c:585`).
- **Bytes, not packets.** Every SCTP packet goes through two memory BIOs and
  every datagram through two more, each read "all there is" by whichever thread
  comes first (`sctp.c:220-292`, `ice.c:91-147`, `ice.c:247-270`).
- **Counts without locks, errors half way.** Two process-wide counts decide
  when the DTLS context and usrsctp are torn down, on paths of success, failure
  and destruction (`rtcdc.c:22-101`, `sctp.c:80-218`).
- **Work that outlives its handler.** The file server queues each transfer as a
  `uv_work_t` on its handler's stack, for a pool whose workers never come back
  (`file_server.c:297-454`).
- **Checksums of lengths.** `gen_md5` clears its buffer between `fread` and
  `MD5_Update` (`sy.c:41-45`, `file_server.c:42-46`), so what it returns depends
  on the length of a file only, and a diff does not see files of one length.
- **Transfers that break off.** A file that was half sent must not count as
  sent; what receives it is a static `FILE *` (`fs_rtcdc.c:14`).

What makes each part correct:

| part | correct when | property |
|---|---|---|
| data channels | a stream number is one channel's, at both ends, with its creator's parity | `SidParity`, `OneChannelPerStream` |
| | on_channel, then on_open, once each, and for the channel that was created | `KeepsPromise`, `AckIsTruthful`, `OnChannelCalled`, `AcceptedIsOpened` |
| | messages reach the channel they were sent on; nobody overwrites an entry | `DataFindsItsChannel`, `DataFindsAcceptor`, `ChannelsStay`, `OfferFindsSlot` |
| | `exit(1)` after a failed send is out of reach | the theorem `NoExitHolds` |
| set-up | a client and a server, for DTLS and for SCTP, whatever SDP comes when | `RolesAgree` |
| | SCTP never waits in the main loop for the main loop | `PipelineReady` |
| | peers that have each other's SDP and candidates connect, unless a call of usrsctp fails | `Talks` |
| threads | a quit loop returns; no packet goes through freed transports, if who would send it was done within the 100 ms | `QuitReturns`, `AbortIsNotSent` |
| packet path | a packet handed to SCTP's outgoing BIO leaves it again, once, and arrives unless the network loses it or calls overlap | `NoneStranded`, `AloneTravelsAlone`, `RefinesLossyPath`, `AloneArrives` |
| transports | DTLS context and usrsctp outlive every transport and go with the last | `ContextAlive`, `LastFinishes` |
| signalling | an answer goes to the call it is for, no write goes to freed memory, every call is answered | `AnswersTheCall`, `NoDanglingWrite`, `CallsAnswered`, `KeepsSyPromise` |
| | the collections agree with the connections and the clients | `SessionFound`, `NoOrphanSession`, `RegisteredIsFileServer` |
| transfers | a client in a transfer has its counterpart at the file server, with a worker | `HasCounterpart`, `TransferRuns` |
| synchronisation | the diff is an outer join of what the two sides know of their files, and a transfer that finished has brought over every file but those of one length on both sides | `DiffIsRight`, `Transferred` |

## 2. The modules

| module | models | stands on |
|---|---|---|
| `ChannelPromise` | what the library promises about opening a channel | |
| `DataChannels` | `rtcdc_create_data_channel`, `startup_thread` from DTLS on, `send_sctp_message`, the DCEP handlers, at two peers | implements `ChannelPromise` |
| `DataChannelsProofs` | theorems about `DataChannels` | |
| `MCDataChannels` | who creates channels, for TLC | |
| `PeerSetup` | SDP calls, roles, libnice's signals, `startup_thread` up to an SCTP association, at two peers | |
| `PeerSetupProofs` | theorems about `PeerSetup` | |
| `PacketPath` | the DTLS handshake and the way of SCTP's packets through the four BIOs and the network, at two peers | extends `PeerSetup` and implements it; implements `LossyPath` |
| `PacketPathProofs` | theorems about `PacketPath` | |
| `LossyPath` | what SCTP needs from the path below it | |
| `PeerThreads` | `rtcdc_loop`, its two threads, `exit_thread` and the destruction of one peer | |
| `TransportRefs` | creating, failing to create and destroying the transports of all peers, with the two counts | extends `PeerThreads` |
| `TransportRefsProofs` | theorems about `PeerThreads` and `TransportRefs` | |
| `SySignaling` | the WebSocket handlers of the metadata server and the file server, and the calls of the client library | |
| `SySignalingProofs` | theorems about `SySignaling` | |
| `SyPromise` | what the calls of the service promise about sessions | |
| `TransferPool` | the transfers of the file server: handlers, work items, workers | extends `SySignaling`; implements `SyPromise` |
| `TransferPoolProofs` | theorems about `TransferPool` | |
| `SyCallsProofs` | theorems about the calls of `SySignaling` and `TransferPool` | |
| `MCSySignaling`, `MCTransferPool` | the programs clients run, for TLC | |
| `FileSync` | checksums, the join, the diff, packets and the callbacks that write them | |
| `FileSyncProofs` | theorems about `FileSync` | |
| `MCFileSync` | the directories clients start with, for TLC | |

A definition carries the name of the function it models where it models one;
`map` in `PROJECT.json` gives the lines of each. The operators named
`X_Suffix` are altered forms of `X`, each with a comment that says what was
altered: nothing refers to them, and with one of them in the place of `X` the
run that `mutants` names fails, which shows that its property says something.

### DataChannels

The state of a peer is `stage` (how far `startup_thread` is), `stream_cursor`,
the table `channels`, the channel objects `chan`, and the two places in which a
thread can be in the middle of something: `creator` for
`rtcdc_create_data_channel` and `reader` for `handle_rtcdc_open_request` in the
main loop. `net[p][s]` is what usrsctp will deliver to `p` on stream `s`.

| code | action |
|---|---|
| `rtcdc.c:260-264`, the scan | `CreateScan` |
| `rtcdc.c:284-291`, sid and cursor | `CreateNumber` |
| `rtcdc.c:304-313`, the OPEN message, the `goto` | `CreateSend` |
| `rtcdc.c:315`, the store | `CreateStore` |
| `dcep.c` request: scan and allocation, store, ACK | `HandleOpenRequest`, `OpenRequestStore`, `OpenRequestAck` |
| `dcep.c` ACK; data | `HandleOpenAck`, `HandleData` |
| `rtcdc.c:388-443` | `StartSctp`, `SctpConnected`, `SctpFails`, `SwapSocket` |
| usrsctp's handshake (external) | `Associate` |

Abstractions: the scan of the table is one step (an entry never becomes free
again, so a scan that took longer could only find a later free entry). Labels
and payloads are the identity of the channel. A peer has one thread that
creates channels, as in every program of the repository. The data handler makes
a CLOSED channel CONNECTED; no channel in the table is ever CLOSED, so that
branch has no action.

The constants say under which use a property is checked: `Timing` is when the
application dares to create a channel ("any": once the transport exists;
"on_connect": from the callback on; "settled": when both peers are up, which the
examples approximate with `sleep(5)`); `InLoop` says whether it creates from a
main-loop callback, which keeps the creator and the reader apart;
`SendMayFail` lets `usrsctp_sendv` fail for reasons of its own; `DebugSctp` is
the build flag of `src/Makefile` with which a failed send ends in `exit(1)`.

### PeerSetup

`transport`, `role`, `generated` and `parsed` follow the SDP calls;
`looping`, `gathered` and `negotiated` the ICE side; `dtls_role` and
`sctp_role` are what `startup_thread` read from `peer->role` at `rtcdc.c:373`
and `rtcdc.c:388`, with SDPs parsed at any time before, between and after. An
SDP is its `a=setup` attribute; it carries credentials and no candidate. Those
come to the other peer by `rtcdc_parse_candidate_sdp` (`ParseCandidates`), once
it has a transport: libnice selects a pair between peers that have both of each
other (`Known`). A DTLS handshake succeeds once a client and a server both send:
that step is what `PacketPath` refines. `usrsctp_connect` and `usrsctp_accept`
may return an error at any time after they were called, which ends
`startup_thread` for good (`ConnectFails`, `rtcdc.c:398`, `:435`). With
`Repeats`, SDPs are generated and parsed any number of times.

### PacketPath

The state of `PeerSetup`, and below it: `ssl`, the last flight an SSL object
sent; `outgoing` and `incoming`, the BIOs of `dtls.c`, as sequences of records;
`sctp_out`, the outgoing BIO of `sctp.c`; `net`, the datagrams on their way;
`call`, where the call of `sctp_data_ready_cb` for a packet is.

| code | action |
|---|---|
| `rtcdc.c:364-377` | `StartHandshake` |
| `ice.c:247-260`, `ice.c:262-269` | `IcePump`, `IceHandshake` |
| `ice.c:91-147` | `data_received_cb` |
| `sctp.c:19-30`, the BIO_write | `sctp_data_ready_cb` |
| `sctp.c:259-285`, up to the BIO_read | `TakePackets` |
| `sctp.c:286-290`, SSL_write | `Encrypt` |
| `sctp.c:220-244` | `SendDatagram` |
| the network (external) | `Lose`; a datagram that `data_received_cb` takes may stay to come again |

OpenSSL's handshake is four flights, each taken as a unit; whoever waits may
repeat its last one at any time when no copy of it is under way. A record of
application data keeps its limits and its replay check; the SCTP packets in one
record do not, and a record with two of them fails SCTP's checksum. Packets are
followed in one direction, from the peer that calls `usrsctp_connect`. Only
datagrams with data are repeated by the network. The look at a BIO outside its
mutex and the BIO_read inside are one step, since a read that comes too late
finds nothing and gives -1. SSL_read is called without `dtls_mutex` at
`ice.c:116` while another thread may be in SSL_write: a data race in OpenSSL,
which the model does not represent.

What the module shows: bytes put into a BIO are always taken out by a thread
that comes after them (`NoneStranded`), so that no packet waits for the next
one; packets are run together only if their calls overlapped
(`AloneTravelsAlone`), and then SCTP has to send them again; otherwise one
SSL_read for each datagram is enough (`AloneArrives`), the replayed flights of
the handshake included.

### PeerThreads

One thread calls `rtcdc_loop`, another `rtcdc_destroy_peer_connection`, an
application may set `exit_thread` when its upload is over (`cli_rtcdc.c:61`).
The 100 ms of `rtcdc.c:148` are a delay, not a join: `Free` may come at any
moment of the sleep, wherever the loop, `ice_thread` and `startup_thread` are.
`outran` records who still used the peer or the transports then; such a thread
reads any value where a flag was (`Read`, `ReadDone`), and each of its steps may
crash the process. `startup_thread` is followed to its end: after the call of
usrsctp has returned it sets `handshake_done` ("connected"), a server puts the
accepted socket into `sctp->sock` ("swapping"), and it calls `on_connect`
("notifying"), without another look at `exit_thread`. The call may return with
an error, which ends it.

What this module makes visible and no text of the repository speaks of:
destroying a connected peer ends the process, because `usrsctp_close` sends an
ABORT through `sctp_data_ready_cb`, which calls `exit(1)` when `exit_thread` is
set (`sctp.c:229`). `AbortIsNotSent` says that this is what stands between the
ABORT and transports that `rtcdc.c:86-91` has freed already, and names what it
takes: `rtcdc_loop` has come to set `exit_thread` within the 100 ms, and a
server's `startup_thread` has put its socket in place. A server whose client
never comes is never joined, since `usrsctp_accept` does not look at
`exit_thread`. `QuitReturns` names these ends, and the threads that were late.

### TransportRefs

The state of `PeerThreads` for the peer `This`, and of every peer its
`transport`; `context` is `g_dtls_context` with a number for each one created,
`usrsctp` whether the stack is initialised.

| code | action |
|---|---|
| `rtcdc.c:22-78` | `CreateTransport` |
| its failures at `rtcdc.c:37`, `:44`, `:48`, `:52` | `ContextFails`, `DtlsFails`, `SctpFails`, `IceFails` |
| `rtcdc.c:80-101` with the three destructors | `DestroyTransport` |
| `rtcdc.c:140-163` | `DestroyBare`, `DestroyOther`, and for `This` the steps of `PeerThreads` |

The transports are created and destroyed one at a time: nothing guards the
counts, and the programs of the repository do both from one thread.
`create_sctp_transport` does not give its reference back when it fails
(`sctp.c:182-187`), and calls `usrsctp_finish` without a look at the count:
`unreturned` counts these references. No peer loses usrsctp all the same, because
usrsctp refuses to finish while a socket is open (the loop of `sctp.c:211-217`
relies on that too); the cost is in `LastFinishes`, where the end of usrsctp needs
`unreturned = 0`. A server that is freed between `usrsctp_accept` and the swap
(`Unswapped`) leaves the accepted socket open for good: `leaked` counts it.

### TransferPool

The state of `SySignaling`, the message whose handler the file server's only
service thread is in, libuv's queue and the sessions that have a worker.
`FsHandle` is the handler up to `uv_queue_work`, `HandlerReturns` its end.
Neither waits for the worker: `sleep(3)` in the handler of SY_UPLOAD
(`file_server.c:363`) is a delay, the handler of SY_DOWNLOAD has none.
`TakeGarbage` is a worker that comes to an item whose `uv_work_t` has gone with
its handler: the process may end (or the stack may still hold what it held:
`TakeWork`). `HasCounterpart` and `TransferRuns` are about a file server that
this has not ended.

### SySignaling

A connection is known to the metadata server by an address of `Addr`; `owner`
is whose it is, `alive` whether the other end still has it, `up` and `down`
carry messages, `slot` is its `write_data`. `fileservers`, `sessions` and
`filesys` are the MongoDB collections, which survive the processes. Every
message type of `callback_SDP` has an action, with the early returns as guards
or as branches that answer nothing. A handler that uses what `get_session`
returned for a session that does not exist reads through NULL (`NullSession`:
`metadata_server.c:564`, `:677`), and a write to a connection that has been
freed is undefined: `MsDies` is the end of the metadata server by either.
A client keeps its connection open at a message it has no case for (the default
of `sy.c:246`), and closes it at an answer (`Closing`).

Abstractions: a pointer fits the int32 MongoDB stores (`metadata_server.c:57`,
`:90`; where it does not, no message reaches its target); 100 ms suffice for a
client's connection to be up; a new session or URI id is the name of the call it
is made for, so ids do not collide; a session's `state` and `repo_name`, on
which no handler branches, are left out; the file server dies before each start
but the first.

### FileSync

Each client has a directory, the file server has the repository's. `Status`,
`FsStatus` are the two halves of `sy_status`; `Start`, `SendFile`, `OnMessage`,
`Quit` a transfer and its breaking off. The listing of a directory comes in any
order, and `join_checksum_arrays` and `Compare` work on what was listed.

`gen_md5` is what the code computes: the sum of as many zeros as the file has
bytes, that is, its length. A piece stands for what one `fgets` reads, all of one
length, so two files with the same number of pieces have the same sum, and the
diff calls them FILE_CLEAN. `sy_status` lists `local_repo_path` and takes the
sums of these names in `LOCAL_REPO_PATH` (`sy.c:467-477`): `SamePath` says
whether the two are one directory. The loops of a transfer count up to a
`uint8_t` (`Counted`: `common.h:68`).

Abstractions: MD5 tells two lengths apart; what was written reaches the disk at
`fclose`; a packet that finds `pFILE` closed changes nothing (the code calls
`fwrite(NULL)`); one file is sent in one step. `Overlap = FALSE` is a rule about
the clients, not something the code does: an upload overlaps with no other use
of the repository.

## 3. The runs

| run | module, cfg | checks | what it shows |
|---|---|---|---|
| `loop_creators` | `MCDataChannels`, `LoopCreators.cfg` | `DataFindsItsChannel`, `ChannelsStay`, `OnChannelCalled`, `AcceptedIsOpened` | Both applications create channels from a main-loop callback once both peers are up, the only use of the library without a race: every channel is accepted, opened, and gets the messages sent on it. |
| `failing_sends` | `MCDataChannels`, `FailingSends.cfg` | `DataFindsAcceptor`, `OfferFindsSlot` | The OPEN messages of a client may fail, its entries are used again: every request that gets through finds a free entry, and what the client sends reaches the channel it was meant for. |
| `racing_creators` | `MCDataChannels`, `RacingCreators.cfg` | `IndInv`, `SidParity`, `OneChannelPerStream`, `AckIsTruthful`, `KeepsPromise` | Both applications create from threads of their own as soon as they are connected and sends may fail: the numbering of channels survives every race, and the opening of a channel implements ChannelPromise. |
| `connect_race` (expected to fail) | `MCDataChannels`, `ConnectRace.cfg` | `AcceptedIsOpened` | A channel created in on_connect may reach the remote peer before its handshake_done: the ACK is dropped and on_open is never called. |
| `offer_answer` | `PacketPath`, `OfferAnswer.cfg` | `RolesAgree`, `PipelineReady`, `NoneStranded`, `AloneTravelsAlone`, `Talks`, `RefinesSetup`, `RefinesLossyPath`, `AloneArrives` | An answerer that parses before it generates, whatever order the other calls, repeated SDPs, libnice's signals, threads and datagrams come in, and whatever datagrams are lost or repeated: the peers take opposite roles, nothing busy-waits in the main loop, peers that know each other's SDP and candidates get connected unless usrsctp_connect or usrsctp_accept fails, and the packets of SCTP go through the four BIOs to the other end, none left behind, made up or doubled, and only those of overlapping calls run together. |
| `glare` (expected to fail) | `PeerSetup`, `Glare.cfg` | `Talks` | Both peers generate an offer before they parse the other's, each once: both become servers and never connect, though no call has failed. |
| `quit_loop` | `TransportRefs`, `QuitLoop.cfg` | `AbortIsNotSent`, `RefsInv`, `ContextAlive`, `LastFinishes`, `QuitReturns` | rtcdc_destroy_peer_connection quits the main loop of one of three peers at any moment, while the transports of the others are created, fail to be created and are destroyed; it frees the transports wherever the threads are by then. If they have come far enough in its 100 ms, rtcdc_loop returns or the process ends itself and no ABORT goes through freed transports; the DTLS context and usrsctp outlive every transport in any case. |
| `sy_one_client` | `MCTransferPool`, `SyOneClient.cfg` | `CallsAnswered`, `TransferRuns` | The calls of main() of cli/sy.c, one client and a file server that stays up, with one worker: every call gets its answer, and the transfer its worker. |
| `sy_two_clients` | `MCTransferPool`, `SyTwoClients.cfg` | `NoDanglingWrite`, `AnswersTheCall`, `NoOrphanSession`, `SessionFound`, `HasCounterpart`, `KeepsSyPromise` | Two clients that share a repository, in any interleaving of messages, writes and closing connections, with fewer workers than transfers: each answer goes to the call it answers, no write is prepared for a freed connection, no message refers to a session that is not in the session collection, sessions end with their owner's call, a client in rtcdc_loop has its counterpart at the file server, and the calls implement SyPromise. |
| `sy_restarts` | `MCTransferPool`, `SyRestarts.cfg` | `TypeOK`, `RegisteredIsFileServer` | Clients die during calls, the file server and the metadata server die and start again: the fileserver collection lists connections of file servers only until the metadata server dies, while answers go to other calls than they are for, handlers meet sessions that are not there and workers meet items that are not there any more. |
| `sy_lost_reply` (expected to fail) | `MCSySignaling`, `SyLostReply.cfg` | `CallsAnswered` | Two calls at a time: the second message on the file server's connection overwrites the answer in its only write slot, and the first client waits for ever. |
| `sync_two_clients` | `MCFileSync`, `SyncTwoClients.cfg` | `TypeOK`, `Transferred`, `DiffIsRight` | Two clients with different directories, every order of listing them, transfers that break off and start again: the diff is the outer join of what the two sides know of their files, and a finished transfer has copied every file but those that have their length on both sides, which gen_md5 cannot tell apart. |

The bounds, and why they are enough:

- **Data channels.** Two peers are all there are. Two entries of the table and
  up to three creations per peer reach a full table, a race for its last entry, a
  failed OPEN followed by further ones and, the edge of the association's stream numbers: in `loop_creators` and
  `racing_creators` the numbers the peers use are exactly those there are
  (`MaxOutStream = 2 * MaxCreate`). That no peer gets past them is not checked by
  a run, where so few channels show little, but proved (`NoExitHolds`). What does not depend on the bounds is
  proved (section 4).
- **Set-up and path.** In `offer_answer` no bound on the calls: SDPs are members
  of a set, and calls repeat for ever (`Repeats`). In `glare` each peer generates
  and parses once, as the programs it is about do. `MaxPackets = 2` packets are the fewest that can be run
  together, overtake each other or be left behind by one another. A flight is
  repeated only while no copy of it is in a BIO or on its way, so that `net` stays
  finite: every copy is answered like the first.
- **Threads and transports.** Every flag is set once. Three peers are a last
  one, one that stays and one that goes; `MaxFailures = 1` lets a creation
  fail before, between or after them, with and without a lost reference; more
  failures are covered by the theorems.
- **Signalling.** `sy_one_client` runs the calls of `main()` of `cli/sy.c` with
  `sy_status` twice; `sy_two_clients` has two clients in one repository, with
  more addresses than connections at a time, so that addresses are used again.
  `sy_restarts` lets clients die at any point, the file server start twice and
  the metadata server die and come back, with shorter programs
  (`ShortTransfers`): one client's has a download, the other's cleans up and
  connects again before it uploads, and both ask for the status, so that
  requests for sessions that have gone and answers nobody waits for occur. `Workers = 1` fills the pool with one transfer
  (libuv's default is four): two clients have one transfer too many. With
  `FsStarts = 1` the file server does not die, `TakeGarbage` included.
- **Synchronisation.** Two file names, two pieces, files of up to two of them,
  two clients. Clients start with files `<<p1, p2>>` or without, the file server
  with `<<p2, p1>>` or without (`MCInit`): files of one length and different
  content, which the diff spares. A transfer that breaks off leaves an empty
  file, which differs from both, and one client's transfer can follow another's,
  so a file can be absent, empty, equal, different in length, and different at
  one length.

Fairness: threads that can run do run, processes run their service loop, the
network delivers and usrsctp has packets to send (heartbeats, retransmissions
of an INIT). No fairness is assumed of an application: nothing makes it create a
channel, call the library, hand over a packet, upload, or die. None is assumed
of the end of the sleep in `rtcdc_destroy_peer_connection` either, which may come
before or after any step of the threads. A peer whose call of usrsctp has failed
may leave the other waiting: fairness of the set-up stops there (`NoneFailed`). `Talks`,
`RefinesSetup`, `AloneArrives`, `CallsAnswered`, `TransferRuns`,
`OnChannelCalled`, `AcceptedIsOpened` and `QuitReturns` use it.
Fairness is weak, since every wait of the code is a loop that looks again, but
for one part of `PathFairness`: a flight that is sent again and again is
received in the end (strong fairness), which is what a network that is of any use
does, and without which no handshake could be promised.

`CHECK_DEADLOCK FALSE` is set where the system may stop: applications create a
bounded number of channels, programs of calls end, a process may have exited.

### Findings

Three runs are expected to fail, each with a line of the repository it
contradicts (`findings` in `PROJECT.json`):

- `connect_race`: a channel created in `on_connect`, as the README's demo does,
  may never open: the remote peer answers the OPEN message while its own
  `handshake_done` is not yet set, and the ACK is dropped.
- `glare`: both peers generate an SDP first and parse second, as the README's
  demo and the example programs do, both become servers, nobody connects. Every
  SDP is generated and parsed once there.
- `sy_lost_reply`: two calls at a time, the second message on a connection
  overwrites the answer in its only write slot, and the first call waits for
  ever.

### Outside the checked conditions

The properties above hold under the constants of their runs. These changes make
TLC find them violated; they describe uses the repository says nothing about, or
no line of it could be quoted against them:

| property | with | because |
|---|---|---|
| `DataFindsAcceptor` | `Creators <- Both`, `InLoop = FALSE`, `Timing = "settled"`, `MaxData = 1` | the store of `rtcdc.c:315` overwrites an entry the main loop has filled since the scan |
| `AckOpensChannel`, `AcceptedIsOpened` | `Creators <- ClientOnly`, `InLoop = FALSE`, `Timing = "settled"` | the ACK comes before the store |
| `SidParity` | `Creators <- Both`, `Timing = "any"` | the server has not yet chosen odd numbers |
| `OfferFindsSlot` | `Creators <- Both`, `MaxChannels = 1` | both peers take their last entry at the same time |
| `CallsAnswered` | `Program <- InitConnect`, `KnownURIs = FALSE` (`MCSySignaling`, `FairSpec`) | `metadata_server.c:616` leaves the handler without an answer |
| `AnswersTheCall`, `KeepsSyPromise` | `Program <- TwoInits`, `ClientsCrash = TRUE` | a client dies, the next connection gets its address, its answer and its session (`metadata_server.c:583`) |
| `SessionFound` | `ClientsCrash = TRUE`, one client calls SY_INIT, SY_STATUS, another SY_CLEANUP as well | an answer to a dead client ends a call of the next owner of its address, whose SY_CLEANUP overtakes its request |
| `NoDanglingWrite` | `Program <- InitStatus`, `FsStarts = 2` | sessions keep the old connection of a file server that started again |
| `DiffIsRight`, `Transferred` | `SamePath = FALSE` | names are listed in one directory, sums taken in another (`sy.c:467-477`) |
| `Transferred` without its second disjunct | | files of one length are spared whatever is in them (`sy.c:41-45`) |
| `Transferred` without its bound | more than 255 names | the loops count to `num % 256` (`common.h:68`) |
| `AbortIsNotSent` without its exceptions | | the loop or a server's startup thread needs more than the 100 ms of `rtcdc.c:148` |
| `Transferred` | `Overlap = TRUE` | diffs grow stale, and two uploads share `pFILE` |
| `Transferred` | `Piece = {p, bin}` | `strlen` ends a packet at its first NUL |

## 4. The proofs

TLAPS checks `DataChannelsProofs`, `PeerSetupProofs`, `PacketPathProofs`,
`TransportRefsProofs`, `SySignalingProofs`, `TransferPoolProofs`,
`SyCallsProofs` and `FileSyncProofs`. The assumptions are the named `ASSUME`s of the modules
(the bounds are natural numbers, the peers differ, there are finitely many) and,
in the theorems that need it, one on the use of the library.

- `TypeCorrect`: types, for every table size, number of streams, creators, timing
  and build.
- `Inductive`: `Timing # "any" => (Spec => []IndInv)`, that is, as long as no
  application creates a channel before it is connected. `SidParity`,
  `OneChannelPerStream` and `AckIsTruthful` are not inductive: a stream number is
  safe because whoever has it, table, message or handler, has it from its
  creator, and because a creator's numbers are below its cursor and of its
  parity. `IndInv` says this part by part: `CursorsRight`, `OwnNumbered` and
  `OwnDistinct` are about the creator; `AcceptedTold`, `MessagesTold`,
  `ReaderTold` about the ways a number gets to the other end; `TableAllocated`
  about the table. There is a lemma per action, with a step per conjunct the
  action touches.
- `SidParityHolds`, `OneChannelPerStreamHolds`, `AckIsTruthfulHolds` follow from
  `IndInv`.
- `KeepsPromiseHolds`: `DataChannels` implements `ChannelPromise` under
  `status <- StatusOf`: each step is a step of the promise or leaves it alone.
  That an ACK opens only a channel that was accepted is `MessagesTold`.
- `ChannelsStayHolds`, with `InLoop`: `SlotsFree` says that of a peer's creator
  and its main loop at most one is in the middle of the table, and that the entry
  it found is still free. Without `InLoop` both may have found the same one.
- `NoExitHolds`, under `Careful`: both peers are up before either creates, they
  create in the loop, and usrsctp does not fail of itself. The argument counts:
  every channel a peer has created has an entry of its own (`UpInv`), so by the
  pigeonhole principle there are no more than `MaxChannels`, the cursor is at
  most twice their number, and twice `MaxChannels` is no more than
  `MaxOutStream` (128 and 256 in the code).
- `OfferFindsSlotHolds` and `DataFindsAcceptorHolds`, when one peer creates, in
  the loop or not, whether sends fail or not. `FeedInv` follows an offer from
  the creator (`Sent`) to the other end: it is on its stream, with the reader, or
  in the table (`Placed`), once (`OffersNew`, `TableNew`), and before what is
  sent on the channel (`DataFollows`). The creator has an entry for each of its
  channels (`EntriesKept`), the one that is offered among them, and the acceptor
  has only some of the others: it has a free entry (`RoomLeft`).
- `DataFindsItsChannelHolds`, `AckOpensChannelHolds` and `OfferFindsSlotInLoop`,
  under `LoopCreation` (`InLoop`, and nobody creates before it is connected), when
  either peer creates and whatever sends fail. `Tables` says that a channel has
  one entry and that its creator has had one for it, or is about to write it,
  since the offer was sent; with `InLoop` the write is done when the main loop
  takes the next message, so the answer finds it. `Wires` follows the offer to the
  other end as `FeedInv` does, for both directions. There the scan needs a free
  entry: `RoomForAll`, twice `MaxCreate` channels fit in a table, is assumed for
  offers and messages, not for ACKs, and `RoomForOffer` uses it by the pigeonhole
  principle. It bounds what the applications do, not the library: with 64
  channels each, a table of `RTCDC_MAX_CHANNEL_NUM` entries suffices; with more,
  an offer may be ignored, as `OfferFindsSlot` in the table above.
- `RolesInductive`: with an answerer that parses before it generates,
  `IndInv` of `PeerSetup` is an invariant: the offerer never becomes a server,
  and the answerer is one before anybody can learn its role. `RolesAgreeHolds`
  and `PipelineReadyHolds` follow.
- `NoneStrandedHolds` and `AloneTravelsAloneHolds` of `PacketPathProofs`, for any
  number of packets and under any handshake and network. `PathInv` follows a
  packet on its way: whatever is in sctp's BIO has a thread before its `BIO_read`
  (`WritersCome`); what a thread has read is its own packet or one of an
  overlapped call (`BufsAlone`); a record in the BIO of DTLS has a thread before
  its `nice_agent_send` (`HasWriter`), so a second record there is one of an
  overlapped call too. Flights of the handshake and `ice_thread` only add records
  without packets or empty the BIO.
- `PathRefinesSetup`: the handshake of flights takes only steps that `PeerSetup`
  has, which is the safety part of `RefinesSetup`, so `PathRolesAgree` and
  `PathPipelineReady` carry over. `HandshakeInv` says of each peer that SSL has
  sent what its role may have sent by now and heard only flights the other has
  sent (`HandshakeOf`): a client is at flight 1, 3 or 5, a server at 0, 2 or 4;
  whoever is past flight 2 has heard of a peer that sends and has the other role,
  and that peer has heard of it. So when SSL is done, in `ice_thread` or in
  `data_received_cb`, all that the one step `DtlsDone` asks for has happened.
- `PathIsLossy`: the path implements `LossyPath`. `Placed` says that a packet is
  in one place, in sctp's BIO, with one thread between `BIO_read` and
  `SSL_write`, or in records; `NoneTwice` that no BIO and no datagram has a data
  record twice; `ReadOnce` that a record that was read is among those the replay
  check knows and waits nowhere else. A datagram that comes again, or late, so
  brings nothing new. Which records SSL keeps is the recursive function `Kept`;
  `KeptRecords` says what it computes, by induction.
- `Inductive` of `TransportRefsProofs`, about `PeerThreads`: threads exist once
  `rtcdc_loop` was called, an association is made by a startup thread that has
  come past usrsctp, destroying a peer in its loop has quit that loop, and no loop
  ends without `exit_thread` set. Nothing is assumed of the 100 ms. So whoever
  frees the transports of an associated peer with its loop ended has `exit_thread`
  set, and, unless the accepted socket is not in place yet, ends the process in
  `usrsctp_close`; who was late is in `outran`, and does not leave it.
  `AbortIsNotSentHolds` follows.
- `RefsInvHolds` of `TransportRefsProofs`: with the `IndInv` of `PeerThreads`, `g_context_ref` is the number of live
  transports and `g_sctp_ref` that number plus the references failed creations
  have kept; with both exact, no path frees what another peer uses.
  `ContextAliveHolds`, `StackAliveHolds` and `LastFinishesHolds` are its
  consequences, for any number of peers and failures. The proof counts: a
  creation adds a peer to `Live`, a destruction takes one out, and one more or
  one less is what the count says (`FS_AddElement`, `FS_RemoveElement`). Its last
  part says that the peer whose transport is freed at the end of the sleep
  still has it. `ComposedPeersEnd` carries `AbortIsNotSent` over: whatever other
  peers are created, fail and are destroyed meanwhile.
- `TypeCorrect` and `RegisteredIsFileServerHolds` of `SySignalingProofs`, for any
  clients, programs, addresses, deaths and restarts. Neither is inductive: a
  handler has a session only if the message in hand names one, and a
  registration comes from a file server only if nobody else can say FS_REGISTER.
  `SyInv` says what each owner of a connection may have said on it (`Said`), that
  what the file server is asked to answer names a session (`Told`), and that
  whoever has a connection is its owner and keeps it open, so that an address is
  not given away under him.
- `PoolKeepsSignaling` of `TransferPoolProofs`, for any number of workers,
  carries the theorems of `SySignaling` over: a step of `TransferPool` is one of
  `SySignaling`, or leaves it alone.
- `SyCallsProofs`, for any clients, programs, addresses and workers, with
  `NobodyDies`: clients do not die in a call, and the file server starts once.
  (What happens when they do is in `sy_restarts` and in the table above.)
  `CallsInv` says of every call that it is at one of four places: its request is
  on its way (`Sent`), the metadata server is about to pass it on (`Forwards`),
  its answer has been prepared or is on its way (`Replies`), or nothing is left
  on its connection (`Quiet`). Of the connection of the file server, which all
  clients share, `FsSide` says that at most one message there is about a client,
  be it in `down`, in `write_data`, in `up` or in the slot, and that this client
  waits for the answer with its own address as `client_wsi`. From it follow
  `NoDanglingWriteHolds`, `AnswersTheCallHolds` and `SessionFoundHolds`, and since
  the only death left is that of the metadata server, which takes a dangling
  write or a request for a session that does not exist, `ServerStaysUp`. `SessionFound` needs more than itself because an answer
  comes after the session it names is stored only if its request did.
- `KeepsSyPromiseHolds`: `TransferPool` implements `SySignaling`
  (`PoolImplementsSignaling`) and with `CallsInv` the promise, where `Effect` is
  the handler of the metadata server that stores or deletes the session and
  `Return` the client's receipt of the answer.
- `HasCounterpartHolds`: `ReadyInv` says that wherever a message that a transfer is
  ready may be, in any queue, slot or `write_data`, the transfer is with the
  pool; nobody takes it out again.
- `NoOrphanSessionHolds`, with `NobodyDies` and `CleansUp`: a client ends a session
  before it makes another, as `main()` of `sy.c` does. The argument is about
  `SyPromise`: `OnlyOwn` says that the sessions there are of a client are the one
  it has the id of and the one its call is making; `StepKeepsPromise` carries
  every step over, and a call that makes a session meets none of its client's
  (`MakesFromNothing`). A client that makes two in a row has one id for both, so
  `CleansUp` is needed; `CallsInv` does not depend on it.

- `DiffIsRightHolds` of `FileSyncProofs`, for directories of any size and with any
  `Overlap`, when the listed directory is the one the sums are taken in
  (`SamePath`). What it says is that the join loses and doubles no file and
  that a file's class follows from the two sums, which are lengths; it does not
  say that files called FILE_CLEAN are the same. `join_checksum_arrays` is a fold, so this is an induction over its
  rounds: `JoinedUpTo` says what the result is after `k` of them (an entry for
  each file of the file server and each of the client that has come, with both
  sums as far as they are known), `JoinRound` that a round keeps it. The library's
  induction theorems are of no use to the installed provers; `SetInduction`, which
  follows from the least-element form of well-foundedness, has a set of numbers in
  the place of the predicate. That `readdir` lists every file once
  (`ListingIsComplete`) is the pigeonhole principle. Then `AskedInv`: between the
  client's checksums and the answer nothing writes to its directory.
- `TypeCorrect` and `TransferredHolds` of `FileSyncProofs`, with `~Overlap`,
  `SamePath` and no piece that has a NUL: a finished transfer of at most 255
  entries has brought over every file but those whose length was the same on both
  sides (`Spared`). `TransferInv` has a predicate of each transfer under way,
  `Moving`: what is left of the diff is still right, except for files that are not
  sent (`TodoOK`); the channel is made of whole files, but for the one whose first
  packets the receiver has taken and holds in `pFILE` (`ChannelOK`, `FileOK`,
  `RestAt`); no file is in two of these places, and one that differs is in one of
  them (`NothingForgotten`). What an earlier transfer left in `pFILE` does not
  matter since the channel begins with a first packet then. A diff that is known
  stays right until its transfer starts (`KnownInv`), since an upload is alone
  (`AloneInv`), and a download writes only to its own directory. `TransferInv` was
  checked with TLC on the instance of `sync_two_clients` before.

The `IndInv` of `DataChannels` is also checked by TLC, in `racing_creators`, and
that of `PeerThreads` as a part of `RefsInv`, in `quit_loop`.

Only model-checked: the liveness properties (the prover has no ENABLED, hence no
fairness) and the fairness part of `RefinesSetup`. Every invariant and every
action property of a passing run is stated by a theorem, under the assumptions on
the use of the library given above.

## 5. What is not modelled, and the plan

Not modelled, with the reason: the text of SDPs and certificates (formatting);
the Python binding, the examples and the sandbox (no state that decides about
control flow); data races as such (an access is taken to be atomic and visible),
the unlocked SSL_read of `ice.c:116` among them; two threads that create
transports, or data channels on one peer, at a time, which no program of the
repository does and no line of the code provides for; the `rtcdc_info` a
transfer's callbacks read from a stack frame that has gone (`file_server.c:435`);
the time a connection takes to come up.

The plan, the most important part first; all of it is done:

1. `ChannelPromise`, `DataChannels`, its runs and its proofs;
2. `PeerSetup`, its runs and its proofs;
3. `PeerThreads` and its proofs;
4. `SySignaling`: one client, two clients, restarts;
5. `FileSync`: the diff and the transfers;
6. the findings of 1, 2 and 4;
7. `PacketPath` and `LossyPath`, composed with `PeerSetup`;
8. `TransportRefs` and its proofs, composed with `PeerThreads`;
9. `TransferPool`, composed with `SySignaling`;
10. `SyPromise`.
