------------------------------ MODULE PeerThreads ------------------------------
(***************************************************************************)
(* The threads of one peer connection and its end: rtcdc_loop, the ICE and *)
(* startup threads, exit_thread, and rtcdc_destroy_peer_connection         *)
(* (rtcdc.c, ice.c, sctp.c).  Called back by usrsctp, sctp_data_ready_cb   *)
(* ends the process when exit_thread is set.  The destruction does not     *)
(* wait for the threads but sleeps 100 ms; whoever is late finds freed     *)
(* memory: any value in it, and perhaps a crash.                           *)
(***************************************************************************)
VARIABLES
    role,       \* peer->role, settled before rtcdc_loop
    app,        \* the thread that calls rtcdc_loop
    ice,        \* ice_thread
    startup,    \* startup_thread
    done,       \* the set of *_done flags that are set
    associated, \* usrsctp has an association for the peer
    quit,       \* g_main_loop_quit has been called while the loop ran
    exit_thread,
    destroy,    \* rtcdc_destroy_peer_connection: "none", "sleeping" or "over"
    freed,      \* the transports and the peer are freed
    outran,     \* history: who still used them then
    exited      \* the process has called exit(1), or crashed

threads == <<app, ice, startup>>
stopping == <<quit, exit_thread, destroy, freed, outran>>
vars == <<role, threads, done, associated, stopping, exited>>

Init ==
    /\ role \in {"CLIENT", "SERVER"}
    /\ app = "before"
    /\ ice = "none"
    /\ startup = "none"
    /\ done = {}
    /\ associated = FALSE
    /\ quit = FALSE
    /\ exit_thread = FALSE
    /\ destroy = "none"
    /\ freed = FALSE
    /\ outran = {}
    /\ exited = FALSE

-----------------------------------------------------------------------------
\* What a thread of the peer reads where x was written, and whether the
\* access ends the process.
Read(x) == IF freed THEN BOOLEAN ELSE {x}
Crash == IF freed THEN BOOLEAN ELSE {FALSE}

Flags == {"gathering", "negotiation", "dtls"}
ReadDone == IF freed THEN SUBSET Flags ELSE {done}

\* rtcdc_loop up to g_main_loop_run.
Loop ==
    /\ ~exited
    /\ app = "before" /\ destroy = "none"
    /\ app' = "looping"
    /\ ice' = "gathering"
    /\ startup' = "negotiating"
    /\ UNCHANGED <<role, done, associated, stopping, exited>>

\* Mutant: the loop has ended, but the threads are not told.
LoopEnds_NoFlag ==
    \/ /\ app = "looping" /\ quit
       /\ app' = "joining"
       /\ UNCHANGED exit_thread
    \/ /\ app = "joining" /\ ice = "ended" /\ startup = "ended"
       /\ app' = "after"
       /\ UNCHANGED exit_thread

\* g_main_loop_run returns when the loop has been quit; then the joins.
LoopEnds ==
    \/ /\ app = "looping" /\ quit
       /\ exit_thread' = TRUE
       /\ app' = "joining"
    \/ /\ app = "joining" /\ ice = "ended" /\ startup = "ended"
       /\ app' = "after"
       /\ UNCHANGED exit_thread

LoopThread ==
    /\ ~exited
    /\ LoopEnds
    /\ exited' \in IF app = "looping" THEN Crash ELSE {FALSE}
    /\ UNCHANGED <<role, ice, startup, done, associated, quit, destroy, freed, outran>>

\* libnice and OpenSSL in the main loop, in this order but for the gathering.
Progress(flag) ==
    /\ ~exited /\ ~freed
    /\ app = "looping" /\ flag \notin done
    /\ flag = "dtls" => ice = "pumping" /\ startup = "handshaking"
    /\ done' = done \cup {flag}
    /\ UNCHANGED <<role, threads, associated, stopping, exited>>

\* Mutant: once its two waits are over, ice_thread does not look at
\* exit_thread.
IceNext_Deaf(stop, flags) ==
    IF ice = "pumping" THEN "pumping"
    ELSE IF stop THEN "ended"
    ELSE IF ice = "gathering" /\ "gathering" \in flags THEN "negotiating"
    ELSE IF ice = "negotiating" /\ "negotiation" \in flags THEN "pumping"
    ELSE ice

\* Where one round of the loop it is in takes ice_thread, when it reads stop
\* in exit_thread and finds these flags set.
IceNext(stop, flags) ==
    IF stop THEN "ended"
    ELSE IF ice = "gathering" /\ "gathering" \in flags THEN "negotiating"
    ELSE IF ice = "negotiating" /\ "negotiation" \in flags THEN "pumping"
    ELSE ice

IceThread ==
    /\ ~exited
    /\ ice \in {"gathering", "negotiating", "pumping"}
    /\ \E stop \in Read(exit_thread), flags \in ReadDone : ice' = IceNext(stop, flags)
    /\ exited' \in Crash
    /\ UNCHANGED <<role, app, startup, done, associated, stopping>>

\* Where one round of its wait takes startup_thread, until it calls
\* usrsctp_connect or usrsctp_accept ...
StartupWaits(stop, flags) ==
    IF stop THEN "ended"
    ELSE IF startup = "negotiating" /\ "negotiation" \in flags THEN "handshaking"
    ELSE IF startup = "handshaking" /\ "dtls" \in flags THEN "connecting"
    ELSE startup

\* ... and each step once the call has returned: handshake_done, for a server
\* the accepted socket put in place and the old one closed, on_connect.  It
\* does not look at exit_thread again.
StartupFinishes ==
    CASE startup = "connected" -> IF role = "SERVER" THEN "swapping" ELSE "notifying"
      [] startup = "swapping"  -> "notifying"
      [] startup = "notifying" -> "ended"

StartupThread ==
    /\ ~exited
    /\ \/ /\ startup \in {"negotiating", "handshaking"}
          /\ \E stop \in Read(exit_thread), flags \in ReadDone :
                startup' = StartupWaits(stop, flags)
       \/ /\ startup \in {"connected", "swapping", "notifying"}
          /\ startup' = StartupFinishes
    /\ exited' \in Crash
    /\ UNCHANGED <<role, app, ice, done, associated, stopping>>

\* usrsctp_connect or usrsctp_accept returns: with an association, while the
\* packets of both directions get through, or without (rtcdc.c:398 and 435),
\* which ends the thread.
Connected ==
    /\ ~exited
    /\ startup = "connecting"
    /\ \/ /\ app = "looping" /\ ice = "pumping" /\ ~exit_thread /\ ~freed
          /\ associated' = TRUE
          /\ startup' = "connected"
       \/ /\ startup' = "ended"
          /\ UNCHANGED associated
    /\ UNCHANGED <<role, app, ice, done, stopping, exited>>

\* usrsctp has a packet to send: an INIT of a client that is connecting, or
\* anything for the association (a heartbeat at least).  When the transports
\* are freed there is one only on a socket that startup_thread had accepted
\* and not put in place.
DataReady ==
    /\ ~exited
    /\ associated \/ (role = "CLIENT" /\ startup = "connecting")
    /\ freed => associated /\ role = "SERVER" /\ "startup" \in outran
    /\ exited' \in IF freed THEN BOOLEAN ELSE {exit_thread}
    /\ UNCHANGED <<role, threads, done, associated, stopping>>

-----------------------------------------------------------------------------
\* What an application does to stop the loop when its upload is over; the
\* channel it uploads on was created in on_connect.
SetExitThread ==
    /\ ~exited /\ ~freed
    /\ app = "looping" /\ associated /\ ~exit_thread
    /\ startup \in {"notifying", "ended"}
    /\ exit_thread' = TRUE
    /\ UNCHANGED <<role, threads, done, associated, quit, destroy, freed, outran, exited>>

\* rtcdc_destroy_peer_connection up to its g_usleep, called by another thread
\* than rtcdc_loop, which would not be on the main loop's stack otherwise.
\* That it does not come between the threads' creation and g_main_loop_run,
\* which would lose the quit, is up to the caller.
Destroy ==
    /\ ~exited
    /\ destroy = "none"
    /\ app \in {"before", "looping"}
    /\ destroy' = "sleeping"
    /\ quit' = (app = "looping")
    /\ UNCHANGED <<role, threads, done, associated, exit_thread, freed, outran, exited>>

\* Who has not come to where it does without the peer: a startup thread in
\* usrsctp_connect or usrsctp_accept does if the call fails.
Using ==
    {t \in {"loop", "ice", "startup"} :
        \/ t = "loop" /\ app = "looping"
        \/ t = "ice" /\ ice \notin {"none", "ended"}
        \/ t = "startup" /\ startup \notin {"none", "connecting", "ended"}}

\* The socket of the association is not sctp->sock yet.
Unswapped == role = "SERVER" /\ startup = "connected"

\* The 100 ms are over, wherever the threads are.  usrsctp_close aborts an
\* association (SO_LINGER is 0), that is, calls sctp_data_ready_cb after the
\* other transports have been freed.
Free ==
    /\ ~exited
    /\ destroy = "sleeping"
    /\ destroy' = "over"
    /\ freed' = TRUE
    /\ outran' = Using
    /\ exited' \in IF ~associated \/ Unswapped THEN {FALSE}
                   ELSE IF exit_thread THEN {TRUE}
                   ELSE BOOLEAN
    /\ UNCHANGED <<role, threads, done, associated, quit, exit_thread>>

Next ==
    \/ Loop \/ LoopThread \/ IceThread \/ StartupThread
    \/ \E f \in Flags : Progress(f)
    \/ Connected \/ DataReady
    \/ SetExitThread \/ Destroy \/ Free

Spec == Init /\ [][Next]_vars

\* The scheduler runs every thread, and usrsctp has heartbeats to send.  How
\* long the sleep of rtcdc_destroy_peer_connection is next to the threads'
\* steps is left open.
Fairness ==
    /\ WF_vars(LoopThread) /\ WF_vars(IceThread) /\ WF_vars(StartupThread)
    /\ WF_vars(DataReady)

FairSpec == Spec /\ Fairness

-----------------------------------------------------------------------------
(***************************************************************************)
(* Properties                                                              *)
(***************************************************************************)

\* usrsctp_close has no ABORT to send through ICE and DTLS transports that are
\* freed already (rtcdc.c:86 to 91): with an association, the process has
\* ended in sctp_to_dtls before it looks at them.  That takes a main loop
\* that has ended in the 100 ms, so that rtcdc_loop has set exit_thread, and,
\* for a server, a startup_thread that has put the accepted socket in place.
\* ice_thread and a client's startup_thread may be late.
AbortIsNotSent ==
    freed /\ associated => \/ exited
                           \/ "loop" \in outran
                           \/ role = "SERVER" /\ "startup" \in outran

\* Every variable has its type.
TypeOK ==
    /\ role \in {"CLIENT", "SERVER"}
    /\ app \in {"before", "looping", "joining", "after"}
    /\ ice \in {"none", "gathering", "negotiating", "pumping", "ended"}
    /\ startup \in {"none", "negotiating", "handshaking", "connecting",
                   "connected", "swapping", "notifying", "ended"}
    /\ done \subseteq Flags
    /\ associated \in BOOLEAN
    /\ quit \in BOOLEAN
    /\ exit_thread \in BOOLEAN
    /\ destroy \in {"none", "sleeping", "over"}
    /\ freed \in BOOLEAN
    /\ outran \subseteq {"loop", "ice", "startup"}
    /\ exited \in BOOLEAN

\* What makes AbortIsNotSent inductive: an association needs rtcdc_loop, and
\* no loop ends without exit_thread set (rtcdc.c:445-466).
IndInv ==
    /\ TypeOK
    /\ AbortIsNotSent
    /\ app = "before" => ice = "none" /\ startup = "none"
    /\ app # "before" => ice # "none" /\ startup # "none"
    /\ app \in {"joining", "after"} => exit_thread
    /\ associated => startup \in {"connected", "swapping", "notifying", "ended"}
    /\ freed <=> destroy = "over"
    /\ destroy # "none" /\ app = "looping" => quit

\* Once the main loop is quit, rtcdc_loop returns or the process ends itself.
\* There are two exceptions.  The startup thread it joins may be blocked in
\* usrsctp: a server's waits for a client that nobody can serve any more, a
\* client's when the socket it connects has been freed.  And the 100 ms may
\* have been too short, so that a thread reads in freed memory that it is to
\* go on.
QuitReturns ==
    quit ~> \/ app = "after" \/ exited
            \/ startup = "connecting" /\ (role = "SERVER" \/ freed)
            \/ outran # {}

================================================================================
