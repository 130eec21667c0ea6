-------------------------- MODULE TransportRefsProofs --------------------------
(***************************************************************************)
(* Theorems about PeerThreads and TransportRefs.  When the transports of a *)
(* peer are freed, no ABORT goes through them, unless the 100 ms were too  *)
(* short for one of two threads.  For any number of peers and of creations *)
(* that fail, the counts agree with the transports there are, and no peer  *)
(* loses the DTLS context or usrsctp to another.                           *)
(***************************************************************************)
EXTENDS TransportRefs, FiniteSetTheorems, TLAPS

\* Before rtcdc_loop there is no thread.
LEMMA InitIndInv == Init => IndInv
BY DEF Init, IndInv, TypeOK, AbortIsNotSent

\* rtcdc_loop, until it runs the main loop, is not called on a freed peer.
LEMMA LoopKeeps == IndInv /\ Loop => IndInv'
BY DEF IndInv, TypeOK, AbortIsNotSent, Loop, stopping

\* The joins come after exit_thread is set.
LEMMA LoopThreadKeeps == IndInv /\ LoopThread => IndInv'
<1>. SUFFICES ASSUME IndInv, LoopThread
              PROVE  IndInv'
  OBVIOUS
<1>1. exited' \in BOOLEAN
  BY DEF LoopThread, Crash
<1>2. CASE app = "looping"
  BY <1>1, <1>2 DEF IndInv, TypeOK, AbortIsNotSent, LoopThread, LoopEnds
<1>3. CASE app = "joining"
  BY <1>1, <1>3 DEF IndInv, TypeOK, AbortIsNotSent, LoopThread, LoopEnds
<1>. QED  BY <1>2, <1>3 DEF LoopThread, LoopEnds

\* A thread that runs only goes forward, whatever it reads.
LEMMA ThreadsKeep == IndInv /\ (IceThread \/ StartupThread) => IndInv'
<1>. SUFFICES ASSUME IndInv, IceThread \/ StartupThread
              PROVE  IndInv'
  OBVIOUS
<1>1. exited' \in BOOLEAN
  BY DEF IceThread, StartupThread, Crash
<1>2. CASE IceThread
  <2>1. ice # "none" /\ ice' \in {"gathering", "negotiating", "pumping", "ended"}
    BY <1>2 DEF IceThread, IceNext
  <2>. QED
    BY <1>1, <1>2, <2>1 DEF IndInv, TypeOK, AbortIsNotSent, IceThread, stopping
<1>3. CASE StartupThread
  <2>1. startup # "none" /\ startup' \in {"negotiating", "handshaking", "connecting",
                                         "connected", "swapping", "notifying", "ended"}
    BY <1>3 DEF StartupThread, StartupWaits, StartupFinishes
  <2>2. associated => startup' \in {"connected", "swapping", "notifying", "ended"}
    BY <1>3 DEF IndInv, StartupThread, StartupFinishes
  <2>. QED
    BY <1>1, <1>3, <2>1, <2>2 DEF IndInv, TypeOK, AbortIsNotSent, StartupThread, stopping
<1>. QED  BY <1>2, <1>3

\* An association is only made while the main loop runs on a peer that is
\* there.
LEMMA ConnectedKeeps == IndInv /\ Connected => IndInv'
<1>. SUFFICES ASSUME IndInv, Connected
              PROVE  IndInv'
  OBVIOUS
<1>1. CASE associated' = TRUE /\ startup' = "connected" /\ app = "looping" /\ ~freed
  BY <1>1 DEF IndInv, TypeOK, AbortIsNotSent, Connected, stopping
<1>2. CASE UNCHANGED associated /\ startup' = "ended"
  BY <1>2 DEF IndInv, TypeOK, AbortIsNotSent, Connected, stopping
<1>. QED  BY <1>1, <1>2 DEF Connected

\* Signals, packets and exit_thread itself move no thread.
LEMMA OthersKeep ==
    IndInv /\ ((\E f \in Flags : Progress(f)) \/ DataReady \/ SetExitThread) => IndInv'
<1>. SUFFICES ASSUME IndInv, (\E f \in Flags : Progress(f)) \/ DataReady \/ SetExitThread
              PROVE  IndInv'
  OBVIOUS
<1>1. ASSUME NEW f \in Flags, Progress(f)
      PROVE  IndInv'
  BY <1>1 DEF IndInv, TypeOK, AbortIsNotSent, Progress, threads, stopping
<1>2. CASE DataReady
  <2>1. exited' \in BOOLEAN
    BY <1>2 DEF DataReady, IndInv, TypeOK
  <2>. QED
    BY <1>2, <2>1 DEF IndInv, TypeOK, AbortIsNotSent, DataReady, threads, stopping
<1>3. CASE SetExitThread
  BY <1>3 DEF IndInv, TypeOK, AbortIsNotSent, SetExitThread, threads
<1>. QED  BY <1>1, <1>2, <1>3

\* Destroying a peer in its loop quits the loop.
LEMMA DestroyKeeps == IndInv /\ Destroy => IndInv'
<1>. SUFFICES ASSUME IndInv, Destroy
              PROVE  IndInv'
  OBVIOUS
<1>1. /\ UNCHANGED <<role, threads, done, associated, exit_thread, freed, outran, exited>>
      /\ destroy' = "sleeping" /\ destroy = "none"
  BY DEF Destroy
<1>2. quit' \in BOOLEAN /\ (app = "looping" => quit')
  BY DEF Destroy
<1>3. ~freed
  BY <1>1 DEF IndInv
<1>. QED  BY <1>1, <1>2, <1>3 DEF IndInv, TypeOK, AbortIsNotSent, threads

\* The sleep ends wherever the threads are.  Where usrsctp_close finds an
\* association, the loop has ended with exit_thread set, or was late.
LEMMA FreeKeeps == IndInv /\ Free => IndInv'
<1>. SUFFICES ASSUME IndInv, Free
              PROVE  IndInv'
  OBVIOUS
<1>1. outran' = Using /\ Using \subseteq {"loop", "ice", "startup"}
  BY DEF Free, Using
<1>2. exited' \in BOOLEAN
  BY DEF Free
<1>3. ASSUME associated
      PROVE  exited' \/ "loop" \in Using \/ (role = "SERVER" /\ "startup" \in Using)
  <2>1. CASE app = "looping"
    BY <2>1 DEF Using
  <2>2. CASE Unswapped
    BY <2>2 DEF Unswapped, Using
  <2>3. CASE app # "looping" /\ ~Unswapped
    <3>1. exit_thread
      BY <1>3, <2>3 DEF IndInv, TypeOK
    <3>. QED  BY <1>3, <2>3, <3>1 DEF Free
  <2>. QED  BY <2>1, <2>2, <2>3
<1>4. AbortIsNotSent'
  BY <1>1, <1>3 DEF AbortIsNotSent, Free, threads
<1>. QED  BY <1>1, <1>2, <1>4 DEF Free, IndInv, TypeOK, threads

\* The strengthening is an invariant.
THEOREM Inductive == Spec => []IndInv
<1>1. IndInv /\ [Next]_vars => IndInv'
  <2>. SUFFICES ASSUME IndInv, [Next]_vars
                PROVE  IndInv'
    OBVIOUS
  <2>1. CASE UNCHANGED vars
    BY <2>1 DEF vars, threads, stopping, IndInv, TypeOK, AbortIsNotSent
  <2>2. CASE Next
    BY <2>2, LoopKeeps, LoopThreadKeeps, ThreadsKeep, ConnectedKeeps, OthersKeep,
       DestroyKeeps, FreeKeeps DEF Next
  <2>. QED  BY <2>1, <2>2
<1>. QED  BY <1>1, InitIndInv, PTL DEF Spec

\* Transports that are freed under an association have ended the process in
\* sctp_to_dtls, before usrsctp_close could send an ABORT through them, unless
\* 100 ms were too short for the main loop or, at a server, for startup_thread
\* (rtcdc.c:86-91 and 147-149, sctp.c:203).
THEOREM AbortIsNotSentHolds == Spec => []AbortIsNotSent
<1>1. IndInv => AbortIsNotSent
  BY DEF IndInv
<1>. QED  BY <1>1, Inductive, PTL

-----------------------------------------------------------------------------

\* The live transports can be counted.
LEMMA LiveIsFinite ==
    /\ IsFiniteSet(Live)
    /\ Cardinality(Live) \in Nat
    /\ Cardinality(Live) = 0 <=> Live = {}
<1>1. IsFiniteSet(Others \cup {This})
  BY PeersAreFinite, FS_AddElement
<1>2. Live \subseteq Others \cup {This}
  BY DEF Live, Peers
<1>3. IsFiniteSet(Live)
  BY <1>1, <1>2, FS_Subset
<1>. QED  BY <1>3, FS_CardinalityType, FS_EmptySet

\* A new transport counts one more ...
LEMMA OneMore ==
    ASSUME transport \in [Peers -> {"none", "live", "gone"}], NEW p \in Peers,
           transport[p] = "none", transport' = [transport EXCEPT ![p] = "live"]
    PROVE  /\ Live' = Live \cup {p} /\ p \notin Live
           /\ Cardinality(Live') = Cardinality(Live) + 1
<1>1. Live' = Live \cup {p} /\ p \notin Live
  BY DEF Live
<1>2. Cardinality(Live \cup {p}) = Cardinality(Live) + 1
  BY <1>1, LiveIsFinite, FS_AddElement
<1>. QED  BY <1>1, <1>2

\* ... and a destroyed one counts one less.
LEMMA OneLess ==
    ASSUME transport \in [Peers -> {"none", "live", "gone"}], NEW p \in Peers,
           transport[p] = "live", transport' = [transport EXCEPT ![p] = "gone"]
    PROVE  /\ Live' = Live \ {p} /\ p \in Live
           /\ Cardinality(Live') = Cardinality(Live) - 1
           /\ Cardinality(Live') \in Nat
           /\ Cardinality(Live') = 0 <=> Live' = {}
<1>1. Live' = Live \ {p} /\ p \in Live
  BY DEF Live
<1>2. /\ IsFiniteSet(Live \ {p})
      /\ Cardinality(Live \ {p}) = Cardinality(Live) - 1
  BY <1>1, LiveIsFinite, FS_RemoveElement
<1>3. /\ Cardinality(Live \ {p}) \in Nat
      /\ Cardinality(Live \ {p}) = 0 <=> Live \ {p} = {}
  BY <1>2, FS_CardinalityType, FS_EmptySet
<1>. QED  BY <1>1, <1>2, <1>3

-----------------------------------------------------------------------------
\* In the beginning there is nothing to count.
LEMMA CountsInit == RefsInit => CountsRight
<1>. SUFFICES ASSUME RefsInit
              PROVE  CountsRight
  OBVIOUS
<1>1. Live = {}
  BY DEF RefsInit, Live
<1>2. Cardinality(Live) = 0
  BY <1>1, LiveIsFinite
<1>3. /\ transport \in [Peers -> {"none", "live", "gone"}]
      /\ ctx \in [Peers -> Nat]
      /\ ContextAlive
  BY <1>1 DEF RefsInit, ContextAlive
<1>4. usrsctp \in BOOLEAN /\ ~usrsctp /\ destroy # "sleeping" /\ outran = {}
  BY DEF RefsInit, Init
<1>5. context = 0 /\ contexts = 0 /\ leaked = 0 /\ unreturned = 0 /\ failures = 0
      /\ g_context_ref = 0 /\ g_sctp_ref = 0
  BY DEF RefsInit
<1>. QED  BY <1>1, <1>2, <1>3, <1>4, <1>5 DEF CountsRight

\* A new transport shares the context of those there are, or brings it.
LEMMA CreateKeeps ==
    ASSUME CountsRight, NEW p \in Peers, CreateTransport(p)
    PROVE  CountsRight'
<1>1. /\ Live' = Live \cup {p} /\ p \notin Live
      /\ Cardinality(Live') = Cardinality(Live) + 1
  BY OneMore DEF CreateTransport, CountsRight
<1>2. transport' \in [Peers -> {"none", "live", "gone"}]
  BY DEF CreateTransport, CountsRight
<1>3. ctx' \in [Peers -> Nat] /\ context' \in 0 .. contexts' /\ contexts' \in Nat
      /\ context' # 0 /\ context' = TakeContext
  BY DEF CreateTransport, TakeContext, CountsRight
<1>4. ContextAlive'
  <2>. SUFFICES ASSUME NEW q \in Live'
                PROVE  ctx'[q] = context'
    BY <1>3 DEF ContextAlive
  <2>1. CASE q = p
    BY <1>3, <2>1 DEF CreateTransport, CountsRight
  <2>2. CASE q # p
    <3>1. q \in Live /\ q \in Peers
      BY <1>1, <2>2 DEF Live
    <3>2. context' = context /\ ctx[q] = context
      BY <3>1, <1>3 DEF TakeContext, CountsRight, ContextAlive
    <3>. QED  BY <2>2, <3>1, <3>2 DEF CreateTransport, CountsRight
  <2>. QED  BY <2>1, <2>2
<1>5. /\ g_context_ref' = Cardinality(Live')
      /\ g_sctp_ref' = Cardinality(Live') + unreturned'
      /\ Live' # {} /\ usrsctp' = TRUE
  BY <1>1, LiveIsFinite DEF CreateTransport, CountsRight
<1>6. /\ leaked' = leaked /\ unreturned' = unreturned /\ failures' = failures
      /\ UNCHANGED <<destroy, outran>>
  BY DEF CreateTransport, vars, stopping
<1>7. destroy' = "sleeping" => transport'[This] = "live"
  BY <1>6 DEF CreateTransport, CountsRight, Peers
<1>. QED  BY <1>2, <1>3, <1>4, <1>5, <1>6, <1>7 DEF CountsRight

\* The error path gives back a context that nobody else uses, and no other.
LEMMA ReturnKeepsContext ==
    ASSUME CountsRight, ReturnContext, UNCHANGED <<transport, ctx>>
    PROVE  /\ ContextAlive' /\ (context' # 0 <=> Live' # {})
           /\ contexts' \in Nat /\ context' \in 0 .. contexts'
           /\ g_context_ref' = g_context_ref
<1>1. Live' = Live
  BY DEF Live
<1>2. context' = context
  BY LiveIsFinite DEF ReturnContext, CountsRight
<1>. QED  BY <1>1, <1>2 DEF ReturnContext, CountsRight, ContextAlive

\* What every failing creation leaves alone.
LEMMA FailureLeaves ==
    ASSUME CountsRight, NEW p \in Peers, CreateFails(p)
    PROVE  /\ UNCHANGED <<transport, ctx>> /\ Live' = Live
           /\ Cardinality(Live') = Cardinality(Live)
           /\ failures' \in Nat
           /\ destroy' = "sleeping" => transport'[This] = "live"
           /\ UNCHANGED <<destroy, outran>>
<1>1. UNCHANGED <<transport, ctx, destroy, outran>> /\ failures' = failures + 1
  BY DEF CreateFails, vars, stopping
<1>2. Live' = Live
  BY <1>1 DEF Live
<1>. QED  BY <1>1, <1>2 DEF CountsRight

\* A creation that fails leaves the counts in order, up to the reference the
\* SCTP error path does not give back.
LEMMA FailureKeeps ==
    ASSUME CountsRight, NEW p \in Peers,
           ContextFails(p) \/ DtlsFails(p) \/ SctpFails(p) \/ IceFails(p)
    PROVE  CountsRight'
<1>1. CreateFails(p)
  BY DEF ContextFails, DtlsFails, SctpFails, IceFails
<1>2. /\ UNCHANGED <<transport, ctx>> /\ Live' = Live
      /\ Cardinality(Live') = Cardinality(Live)
      /\ failures' \in Nat
      /\ destroy' = "sleeping" => transport'[This] = "live"
      /\ UNCHANGED <<destroy, outran>>
  BY <1>1, FailureLeaves
<1>3. CASE ContextFails(p)
  BY <1>2, <1>3 DEF ContextFails, dtls_refs, sctp_refs, CountsRight, ContextAlive
<1>. SUFFICES ASSUME DtlsFails(p) \/ SctpFails(p) \/ IceFails(p)
              PROVE  CountsRight'
  BY <1>3
<1>4. ReturnContext
  BY DEF DtlsFails, SctpFails, IceFails
<1>5. /\ ContextAlive' /\ (context' # 0 <=> Live' # {})
      /\ contexts' \in Nat /\ context' \in 0 .. contexts'
      /\ g_context_ref' = g_context_ref
  BY <1>2, <1>4, ReturnKeepsContext
<1>6. CASE DtlsFails(p)
  BY <1>2, <1>5, <1>6 DEF DtlsFails, sctp_refs, CountsRight
<1>7. CASE SctpFails(p)
  <2>1. /\ g_sctp_ref' = g_sctp_ref + 1 /\ unreturned' = unreturned + 1
        /\ leaked' = leaked \/ (leaked' = leaked + 1 /\ InitSctp)
        /\ usrsctp' <=> InitSctp /\ Cardinality(Live) + leaked' > 0
    BY <1>7 DEF SctpFails, FinishSctp
  <2>2. /\ leaked' \in Nat /\ unreturned' \in Nat /\ unreturned' # 0
        /\ "startup" \notin outran => leaked' <= unreturned'
    BY <2>1 DEF CountsRight
  <2>3. Live # {} => InitSctp /\ Cardinality(Live) > 0
    BY LiveIsFinite DEF InitSctp, CountsRight
  <2>4. leaked' > 0 => InitSctp
    BY <2>1 DEF InitSctp, CountsRight
  <2>5. Live # {} \/ leaked' > 0 => usrsctp'
    BY <2>1, <2>2, <2>3, <2>4, LiveIsFinite
  <2>6. usrsctp' \in BOOLEAN
    BY <1>7 DEF SctpFails, FinishSctp, InitSctp, CountsRight
  <2>7. g_sctp_ref' = Cardinality(Live') + unreturned'
    BY <1>2, <2>1, LiveIsFinite DEF CountsRight
  <2>. QED  BY <1>2, <1>5, <2>2, <2>5, <2>6, <2>7 DEF CountsRight
<1>8. CASE IceFails(p)
  <2>1. UNCHANGED <<g_sctp_ref, leaked, unreturned>>
    BY <1>8 DEF IceFails
  <2>2. /\ usrsctp' \in BOOLEAN
        /\ g_sctp_ref = 0 => (usrsctp' <=> Cardinality(Live) + leaked > 0)
        /\ g_sctp_ref # 0 => usrsctp'
    <3>1. CASE g_sctp_ref = 0
      BY <1>8, <3>1 DEF IceFails, FinishSctp
    <3>2. CASE g_sctp_ref # 0
      BY <1>8, <3>2 DEF IceFails, InitSctp, CountsRight
    <3>. QED  BY <3>1, <3>2
  <2>3. Live' # {} \/ leaked' > 0 => usrsctp'
    BY <1>2, <2>1, <2>2, LiveIsFinite DEF CountsRight
  <2>4. unreturned' = 0 /\ "startup" \notin outran => (usrsctp' <=> Live' # {})
    BY <1>2, <2>1, <2>2, LiveIsFinite DEF CountsRight
  <2>. QED  BY <1>2, <1>5, <2>1, <2>2, <2>3, <2>4 DEF CountsRight
<1>. QED  BY <1>6, <1>7, <1>8

\* The last transport takes the context and usrsctp with it, and no other does.
LEMMA DestroyKeepsRefs ==
    ASSUME CountsRight, NEW p \in Peers, NEW lost \in 0 .. 1, transport[p] = "live",
           DestroyTransport(p, lost),
           lost # 0 => "startup" \in outran',
           "startup" \in outran => "startup" \in outran',
           destroy' # "over" => outran' = {},
           p = This => destroy' # "sleeping", p # This => destroy' = destroy
    PROVE  CountsRight'
<1>1. transport' = [transport EXCEPT ![p] = "gone"]
      /\ UNCHANGED <<contexts, ctx, unreturned, failures>>
      /\ leaked' = leaked + lost
  BY DEF DestroyTransport
<1>2. /\ Live' = Live \ {p} /\ p \in Live
      /\ Cardinality(Live') = Cardinality(Live) - 1
      /\ Cardinality(Live') \in Nat
      /\ Cardinality(Live') = 0 <=> Live' = {}
  BY <1>1, OneLess DEF CountsRight
<1>3. /\ g_sctp_ref' = g_sctp_ref - 1 /\ g_context_ref' = g_context_ref - 1
      /\ g_context_ref' = Cardinality(Live')
      /\ g_sctp_ref' = Cardinality(Live') + unreturned'
  BY <1>1, <1>2, LiveIsFinite DEF DestroyTransport, CountsRight
<1>4. usrsctp = TRUE /\ context # 0
  BY <1>2 DEF CountsRight
<1>5. /\ usrsctp' \in BOOLEAN
      /\ g_sctp_ref = 1 => (usrsctp' <=> Cardinality(Live') + leaked' > 0)
      /\ g_sctp_ref # 1 => usrsctp'
  BY <1>2, <1>4 DEF DestroyTransport, FinishSctp
<1>6. context' = IF g_context_ref = 1 THEN 0 ELSE context
  BY DEF DestroyTransport
<1>7. context' # 0 <=> Live' # {}
  BY <1>2, <1>3, <1>4, <1>6, LiveIsFinite DEF CountsRight
<1>8. ContextAlive'
  BY <1>1, <1>2, <1>6, <1>7 DEF CountsRight, ContextAlive
<1>9. /\ leaked' \in Nat /\ unreturned' = unreturned /\ unreturned \in Nat
      /\ "startup" \notin outran' => leaked' <= unreturned'
  BY <1>1 DEF CountsRight
<1>10. /\ Live' # {} \/ leaked' > 0 => usrsctp'
       /\ unreturned' = 0 /\ "startup" \notin outran' => (usrsctp' <=> Live' # {})
  <2>1. CASE g_sctp_ref = 1
    <3>1. Cardinality(Live') = 0 /\ unreturned' = 0
      <4>1. \A c, u \in Nat : c + u = 0 => c = 0 /\ u = 0
        OBVIOUS
      <4>2. Cardinality(Live') + unreturned' = 0
        BY <1>3, <2>1
      <4>. QED  BY <1>2, <1>9, <4>1, <4>2
    <3>2. Live' = {} /\ (usrsctp' <=> leaked' > 0)
      <4>1. usrsctp' <=> Cardinality(Live') + leaked' > 0
        BY <1>5, <2>1
      <4>2. usrsctp' <=> leaked' > 0
        <5>1. \A l \in Nat : 0 + l = l
          OBVIOUS
        <5>2. Cardinality(Live') + leaked' = leaked'
          BY <1>9, <3>1, <5>1
        <5>. QED  BY <4>1, <5>2
      <4>. QED  BY <1>2, <3>1, <4>2
    <3>3. "startup" \notin outran' => leaked' = 0
      BY <1>9, <3>1
    <3>. QED  BY <3>2, <3>3
  <2>2. CASE g_sctp_ref # 1
    <3>1. usrsctp'
      BY <1>5, <2>2
    <3>2. unreturned' = 0 => Live' # {}
      BY <1>2, <1>3, <2>2, LiveIsFinite DEF CountsRight
    <3>. QED  BY <3>1, <3>2
  <2>. QED  BY <2>1, <2>2
<1>11. destroy' = "sleeping" => transport'[This] = "live"
  BY <1>1 DEF CountsRight, Peers
<1>12. /\ transport' \in [Peers -> {"none", "live", "gone"}]
       /\ context' \in 0 .. contexts'
  BY <1>1, <1>6 DEF CountsRight
<1>. QED  BY <1>1, <1>3, <1>5, <1>7, <1>8, <1>9, <1>10, <1>11, <1>12 DEF CountsRight

\* The threads of a peer touch the counts only when its transport is freed.
LEMMA ThreadsKeepRefs == CountsRight /\ ThreadsStep => CountsRight'
<1>. SUFFICES ASSUME CountsRight, ThreadsStep
              PROVE  CountsRight'
  OBVIOUS
<1>1. CASE Free /\ \E lost \in Held : DestroyTransport(This, lost)
  <2>1. destroy = "sleeping" /\ destroy' = "over" /\ outran' = Using
    BY <1>1 DEF Free
  <2>2. This \in Peers /\ transport[This] = "live" /\ outran = {}
    BY <2>1 DEF CountsRight, Peers
  <2>3. PICK lost \in Held : DestroyTransport(This, lost)
    BY <1>1
  <2>4. lost \in 0 .. 1 /\ (lost # 0 => "startup" \in Using)
    BY DEF Held, Using
  <2>. QED  BY <2>1, <2>2, <2>3, <2>4, DestroyKeepsRefs
<1>2. CASE /\ UNCHANGED <<refs, outran>>
           /\ destroy' = "sleeping" => transport[This] = "live"
           /\ destroy' # "over" => destroy # "over"
  <2>1. Live' = Live
    BY <1>2 DEF refs, Live
  <2>. QED  BY <1>2, <2>1 DEF refs, dtls_refs, sctp_refs, CountsRight, ContextAlive
<1>3. CASE UNCHANGED <<refs, outran>> /\ destroy' = destroy
  BY <1>2, <1>3 DEF CountsRight
<1>4. CASE (LoopThread \/ IceThread \/ StartupThread) /\ UNCHANGED refs
  BY <1>3, <1>4 DEF LoopThread, IceThread, StartupThread, stopping
<1>5. CASE (\E f \in Flags : Progress(f)) /\ UNCHANGED refs
  BY <1>3, <1>5 DEF Progress, stopping
<1>6. CASE (Connected \/ DataReady \/ SetExitThread) /\ UNCHANGED refs
  BY <1>3, <1>6 DEF Connected, DataReady, SetExitThread, stopping
<1>7. CASE (Loop \/ Destroy) /\ transport[This] = "live" /\ UNCHANGED refs
  BY <1>2, <1>7 DEF Loop, Destroy, stopping
<1>. QED  BY <1>1, <1>4, <1>5, <1>6, <1>7 DEF ThreadsStep

\* Every step keeps the counts in order.
LEMMA CountsKept == CountsRight /\ [RefsNext]_refvars => CountsRight'
<1>. SUFFICES ASSUME CountsRight, [RefsNext]_refvars
              PROVE  CountsRight'
  OBVIOUS
<1>1. CASE UNCHANGED refvars
  <2>1. Live' = Live
    BY <1>1 DEF refvars, refs, Live
  <2>. QED
    BY <1>1, <2>1 DEF refvars, refs, vars, stopping, dtls_refs, sctp_refs, CountsRight,
       ContextAlive
<1>2. CASE ThreadsStep
  BY <1>2, ThreadsKeepRefs
<1>3. ASSUME NEW p \in Peers, CreateTransport(p)
      PROVE  CountsRight'
  BY <1>3, CreateKeeps
<1>4. ASSUME NEW p \in Peers,
             ContextFails(p) \/ DtlsFails(p) \/ SctpFails(p) \/ IceFails(p)
      PROVE  CountsRight'
  BY <1>4, FailureKeeps
<1>5. ASSUME NEW p \in Peers, DestroyBare(p)
      PROVE  CountsRight'
  <2>1. /\ transport' = [transport EXCEPT ![p] = "gone"] /\ transport[p] = "none"
        /\ UNCHANGED <<ctx, dtls_refs, sctp_refs, failures>>
        /\ UNCHANGED <<destroy, outran>>
    BY <1>5 DEF DestroyBare, vars, stopping
  <2>2. Live' = Live
    BY <2>1 DEF CountsRight, Live
  <2>3. /\ transport' \in [Peers -> {"none", "live", "gone"}]
        /\ destroy' = "sleeping" => transport'[This] = "live"
    BY <2>1 DEF CountsRight, Peers
  <2>. QED  BY <2>1, <2>2, <2>3 DEF dtls_refs, sctp_refs, CountsRight, ContextAlive
<1>6. ASSUME NEW p \in Others, DestroyOther(p)
      PROVE  CountsRight'
  <2>1. p \in Peers /\ p # This /\ transport[p] = "live" /\ DestroyTransport(p, 0)
    BY <1>6, ThisIsNoOther DEF DestroyOther, Peers
  <2>2. destroy' = destroy /\ outran' = outran
    BY <1>6 DEF DestroyOther, vars, stopping
  <2>3. destroy # "over" => outran = {}
    BY DEF CountsRight
  <2>. QED  BY <2>1, <2>2, <2>3, DestroyKeepsRefs
<1>. QED  BY <1>1, <1>2, <1>3, <1>4, <1>5, <1>6 DEF RefsNext

-----------------------------------------------------------------------------
\* The counts are right (rtcdc.c:22-101, sctp.c:80-218).
LEMMA CountsRightHolds == RefsSpec => []CountsRight
BY CountsInit, CountsKept, PTL DEF RefsSpec

\* No peer loses the DTLS context to another (rtcdc.c:40, 63 and 93).
THEOREM ContextAliveHolds == RefsSpec => []ContextAlive
<1>1. CountsRight => ContextAlive
  BY DEF CountsRight
<1>. QED  BY <1>1, CountsRightHolds, PTL

\* No peer with a socket loses usrsctp to another (sctp.c:184 and 212).
THEOREM StackAliveHolds == RefsSpec => []StackAlive
<1>1. CountsRight => StackAlive
  BY DEF CountsRight, StackAlive
<1>. QED  BY <1>1, CountsRightHolds, PTL

\* The last transport finishes usrsctp and frees the context, unless a creation
\* has failed in SCTP and lost a reference (sctp.c:184), or the peer was freed
\* under a startup_thread that held a socket (rtcdc.c:423-431).
THEOREM LastFinishesHolds == RefsSpec => []LastFinishes
<1>1. CountsRight => LastFinishes
  BY DEF CountsRight, LastFinishes, StackAlive
<1>. QED  BY <1>1, CountsRightHolds, PTL

\* The steps of this module are, for the threads of a peer, steps of
\* PeerThreads or none.
LEMMA StepsRefine == [RefsNext]_refvars => [Next]_vars
<1>. SUFFICES ASSUME [RefsNext]_refvars
              PROVE  [Next]_vars
  OBVIOUS
<1>1. CASE UNCHANGED refvars
  BY <1>1 DEF refvars
<1>2. CASE ThreadsStep
  BY <1>2 DEF ThreadsStep, Next
<1>3. ASSUME NEW p \in Peers, CreateTransport(p)
      PROVE  UNCHANGED vars
  BY <1>3 DEF CreateTransport
<1>4. ASSUME NEW p \in Peers,
             ContextFails(p) \/ DtlsFails(p) \/ SctpFails(p) \/ IceFails(p)
      PROVE  UNCHANGED vars
  BY <1>4 DEF ContextFails, DtlsFails, SctpFails, IceFails, CreateFails
<1>5. ASSUME NEW p \in Peers, DestroyBare(p)
      PROVE  UNCHANGED vars
  BY <1>5 DEF DestroyBare
<1>6. ASSUME NEW p \in Others, DestroyOther(p)
      PROVE  UNCHANGED vars
  BY <1>6 DEF DestroyOther
<1>. QED  BY <1>1, <1>2, <1>3, <1>4, <1>5, <1>6 DEF RefsNext

LEMMA RefsAreThreads == RefsSpec => Spec
<1>1. RefsInit => Init
  BY DEF RefsInit
<1>. QED  BY <1>1, StepsRefine, PTL DEF RefsSpec, Spec

\* The counts are right, and the threads of a peer among others are where
\* PeerThreads has them (rtcdc.c:22-163, 445-470, sctp.c:80-218).
THEOREM RefsInvHolds == RefsSpec => []RefsInv
BY CountsRightHolds, RefsAreThreads, Inductive, PTL DEF RefsInv

\* So what PeerThreads shows of one peer holds among others, whichever of them
\* come and go while its transport is freed.
THEOREM ComposedPeersEnd == RefsSpec => []AbortIsNotSent
BY RefsAreThreads, AbortIsNotSentHolds, PTL
================================================================================
