----------------------------- MODULE TransportRefs -----------------------------
(***************************************************************************)
(* The transports of all the peers of a process: create_rtcdc_transport,   *)
(* which may fail at any of its steps, destroy_rtcdc_transport, and the    *)
(* two counts that decide when the DTLS context and usrsctp are set up and *)
(* torn down (rtcdc.c, sctp.c).  One of the peers is the one whose threads *)
(* are those of PeerThreads; the others have not come to rtcdc_loop.       *)
(* Transports are created and destroyed by one thread at a time, since     *)
(* nothing guards the counts.                                              *)
(***************************************************************************)
EXTENDS PeerThreads, Naturals, FiniteSets

CONSTANTS
    This,       \* the peer of PeerThreads
    Others,     \* the other peers of the process
    MaxFailures \* bound: creations that fail

Peers == {This} \cup Others

ASSUME ThisIsNoOther == This \notin Others
ASSUME PeersAreFinite == IsFiniteSet(Others)
ASSUME MaxFailuresIsNat == MaxFailures \in Nat

VARIABLES
    transport,     \* peer->transport: "none", "live", or the peer is "gone"
    context,       \* g_dtls_context: 0 is NULL, a new one gets a new number
    contexts,      \* the number of contexts created so far
    ctx,           \* transport->ctx
    g_context_ref,
    g_sctp_ref,
    usrsctp,       \* usrsctp is initialised (external)
    leaked,        \* sockets that are left open for good (external)
    unreturned,    \* history: references to usrsctp that were not given back
    failures       \* creations that failed

dtls_refs == <<context, contexts, g_context_ref>>
sctp_refs == <<g_sctp_ref, usrsctp, leaked, unreturned>>
refs == <<transport, ctx, dtls_refs, sctp_refs, failures>>
refvars == <<vars, refs>>

Live == {p \in Peers : transport[p] = "live"}

RefsInit ==
    /\ Init
    /\ transport = [p \in Peers |-> "none"]
    /\ context = 0 /\ contexts = 0
    /\ ctx = [p \in Peers |-> 0]
    /\ g_context_ref = 0
    /\ g_sctp_ref = 0
    /\ usrsctp = FALSE
    /\ leaked = 0
    /\ unreturned = 0
    /\ failures = 0

-----------------------------------------------------------------------------
(***************************************************************************)
(* create_rtcdc_transport.                                                 *)
(***************************************************************************)

\* The context the new transport gets.
TakeContext == IF context = 0 THEN contexts + 1 ELSE context

\* Whether usrsctp is initialised once create_sctp_transport has looked at
\* g_sctp_ref.
InitSctp == usrsctp \/ g_sctp_ref = 0

\* usrsctp_finish does nothing and returns -1 while there are sockets.
FinishSctp(up, sockets) == up /\ sockets > 0

CreateTransport(p) ==
    /\ ~exited
    /\ transport[p] = "none"
    /\ InitSctp
    /\ transport' = [transport EXCEPT ![p] = "live"]
    /\ context' = TakeContext
    /\ contexts' = IF context = 0 THEN contexts + 1 ELSE contexts
    /\ ctx' = [ctx EXCEPT ![p] = TakeContext]
    /\ g_context_ref' = g_context_ref + 1
    /\ g_sctp_ref' = g_sctp_ref + 1
    /\ usrsctp' = InitSctp
    /\ UNCHANGED <<vars, leaked, unreturned, failures>>

\* Mutant: the error path frees the context whoever else uses it.
ReturnContext_Always ==
    /\ context' = 0
    /\ contexts' = IF context = 0 THEN contexts + 1 ELSE contexts
    /\ UNCHANGED g_context_ref

\* dtls_null_err: the context, perhaps a new one, is given back.
ReturnContext ==
    /\ context' = IF g_context_ref = 0 THEN 0 ELSE context
    /\ contexts' = IF context = 0 THEN contexts + 1 ELSE contexts
    /\ UNCHANGED g_context_ref

CreateFails(p) ==
    /\ ~exited
    /\ transport[p] = "none"
    /\ failures < MaxFailures /\ failures' = failures + 1
    /\ UNCHANGED <<vars, transport, ctx>>

\* create_dtls_context fails.
ContextFails(p) ==
    /\ CreateFails(p)
    /\ context = 0
    /\ UNCHANGED <<dtls_refs, sctp_refs>>

\* create_dtls_transport fails, or create_sctp_transport before it takes its
\* reference.
DtlsFails(p) ==
    /\ CreateFails(p)
    /\ ReturnContext
    /\ UNCHANGED sctp_refs

\* create_sctp_transport fails after that: without a socket, as it must when
\* usrsctp was finished (external), or with one, which stays open.
SctpFails(p) ==
    /\ CreateFails(p)
    /\ ReturnContext
    /\ g_sctp_ref' = g_sctp_ref + 1
    /\ unreturned' = unreturned + 1
    /\ \/ UNCHANGED leaked
       \/ InitSctp /\ leaked' = leaked + 1
    /\ usrsctp' = FinishSctp(InitSctp, Cardinality(Live) + leaked')

\* Mutant: the SCTP transport is left as it is.
IceFails_Keep(p) ==
    /\ CreateFails(p)
    /\ InitSctp
    /\ ReturnContext
    /\ g_sctp_ref' = g_sctp_ref + 1
    /\ usrsctp' = InitSctp
    /\ leaked' = leaked + 1
    /\ UNCHANGED unreturned

\* create_ice_transport fails: the SCTP transport is destroyed.
IceFails(p) ==
    /\ CreateFails(p)
    /\ InitSctp
    /\ ReturnContext
    /\ usrsctp' = IF g_sctp_ref = 0 THEN FinishSctp(TRUE, Cardinality(Live) + leaked)
                  ELSE InitSctp
    /\ UNCHANGED <<g_sctp_ref, leaked, unreturned>>

-----------------------------------------------------------------------------
(***************************************************************************)
(* destroy_rtcdc_transport.                                                *)
(***************************************************************************)

\* Mutant: usrsctp_finish comes before usrsctp_close.
DestroyTransport_Early(p, lost) ==
    /\ transport' = [transport EXCEPT ![p] = "gone"]
    /\ g_sctp_ref' = g_sctp_ref - 1
    /\ leaked' = leaked + lost
    /\ usrsctp' = IF g_sctp_ref = 1 THEN FinishSctp(usrsctp, Cardinality(Live) + leaked')
                  ELSE usrsctp
    /\ g_context_ref' = g_context_ref - 1
    /\ context' = IF g_context_ref = 1 THEN 0 ELSE context
    /\ UNCHANGED <<contexts, ctx, unreturned, failures>>

\* ICE, then DTLS, then SCTP with its reference, then the context's; lost is
\* 1 if another socket than sctp->sock stays open.
DestroyTransport(p, lost) ==
    /\ transport' = [transport EXCEPT ![p] = "gone"]
    /\ g_sctp_ref' = g_sctp_ref - 1
    /\ leaked' = leaked + lost
    /\ usrsctp' = IF g_sctp_ref = 1
                  THEN FinishSctp(usrsctp, Cardinality(Live \ {p}) + leaked')
                  ELSE usrsctp
    /\ g_context_ref' = g_context_ref - 1
    /\ context' = IF g_context_ref = 1 THEN 0 ELSE context
    /\ UNCHANGED <<contexts, ctx, unreturned, failures>>

\* rtcdc_destroy_peer_connection of a peer without a transport ...
DestroyBare(p) ==
    /\ ~exited
    /\ transport[p] = "none"
    /\ transport' = [transport EXCEPT ![p] = "gone"]
    /\ UNCHANGED <<vars, ctx, dtls_refs, sctp_refs, failures>>

\* ... and of one that has not come to rtcdc_loop.
DestroyOther(p) ==
    /\ ~exited
    /\ transport[p] = "live" /\ DestroyTransport(p, 0)
    /\ UNCHANGED vars

-----------------------------------------------------------------------------
\* The sockets that only startup_thread has, between usrsctp_accept and
\* usrsctp_close of the old one.  When the transport is freed then, it may
\* not come to close one.
Held == IF role = "SERVER" /\ startup \in {"connected", "swapping"} THEN 0 .. 1 ELSE {0}

\* The steps of PeerThreads, for a peer that has its transport (rtcdc_loop
\* waits for it).
ThreadsStep ==
    \/ (LoopThread \/ IceThread \/ StartupThread) /\ UNCHANGED refs
    \/ (\E f \in Flags : Progress(f)) /\ UNCHANGED refs
    \/ (Connected \/ DataReady \/ SetExitThread) /\ UNCHANGED refs
    \/ (Loop \/ Destroy) /\ transport[This] = "live" /\ UNCHANGED refs
    \/ Free /\ \E lost \in Held : DestroyTransport(This, lost)

RefsNext ==
    \/ ThreadsStep
    \/ \E p \in Peers :
          \/ CreateTransport(p)
          \/ ContextFails(p) \/ DtlsFails(p) \/ SctpFails(p) \/ IceFails(p)
    \/ \E p \in Peers : DestroyBare(p)
    \/ \E p \in Others : DestroyOther(p)

RefsSpec == RefsInit /\ [][RefsNext]_refvars

RefsFairness ==
    /\ WF_refvars(LoopThread /\ UNCHANGED refs) /\ WF_refvars(IceThread /\ UNCHANGED refs)
    /\ WF_refvars(StartupThread /\ UNCHANGED refs)
    /\ WF_refvars(DataReady /\ UNCHANGED refs)

FairRefsSpec == RefsSpec /\ RefsFairness

-----------------------------------------------------------------------------
(***************************************************************************)
(* Properties                                                              *)
(***************************************************************************)

\* The DTLS context of a peer is there as long as its transport, whichever
\* peers come, fail to come, and go (rtcdc.c:40, 63 and 93).
ContextAlive == \A p \in Live : ctx[p] = context /\ context # 0

\* usrsctp is initialised as long as a peer has a socket, although a creation
\* that fails calls usrsctp_finish without a look at g_sctp_ref (sctp.c:184).
StackAlive == Live # {} => usrsctp

\* The last transport puts out the light: usrsctp and the context are there as
\* long as there is a transport and no longer (rtcdc.c:93, sctp.c:211), while
\* no reference has been lost and no transport was freed while startup_thread
\* held a socket.
LastFinishes ==
    /\ StackAlive
    /\ unreturned = 0 /\ "startup" \notin outran => (usrsctp <=> Live # {})
    /\ context # 0 <=> Live # {}

\* The counts that all this rests on.
CountsRight ==
    /\ transport \in [Peers -> {"none", "live", "gone"}]
    /\ ctx \in [Peers -> Nat]
    /\ contexts \in Nat /\ context \in 0 .. contexts
    /\ leaked \in Nat /\ unreturned \in Nat
    /\ "startup" \notin outran => leaked <= unreturned
    /\ failures \in Nat
    /\ usrsctp \in BOOLEAN
    /\ g_context_ref = Cardinality(Live)
    /\ g_sctp_ref = Cardinality(Live) + unreturned
    /\ ContextAlive
    /\ context # 0 <=> Live # {}
    /\ Live # {} \/ leaked > 0 => usrsctp
    /\ unreturned = 0 /\ "startup" \notin outran => (usrsctp <=> Live # {})
    /\ destroy = "sleeping" => transport[This] = "live"
    /\ destroy # "over" => outran = {}

\* ... and the threads of This are where PeerThreads has them.
RefsInv == IndInv /\ CountsRight
================================================================================
