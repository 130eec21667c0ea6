------------------------------- MODULE PeerSetup -------------------------------
(***************************************************************************)
(* How two peers get to an SCTP association: the SDP calls and the roles   *)
(* they settle, rtcdc_loop, and the ICE and startup threads (rtcdc.c,      *)
(* sdp.c, ice.c).  An SDP text is abstracted to its a=setup: attribute, a  *)
(* text of candidates to that it is one; the signalling system may deliver *)
(* what a peer generated late, twice, in another order or never.           *)
(***************************************************************************)
CONSTANTS
    Offerer, Answerer,  \* the two peers, by what the application does first
    AnswerLast,         \* TRUE: the answerer parses an SDP before it generates
                        \* one, as APIs/fs does
    Repeats             \* TRUE: SDPs are generated and parsed again and again

Peer == {Offerer, Answerer}
Role == {"CLIENT", "SERVER"}
Setup == {"active", "passive"}

ASSUME PeersDiffer == Offerer # Answerer
ASSUME SwitchesAreBool == AnswerLast \in BOOLEAN /\ Repeats \in BOOLEAN

VARIABLES
    transport,  \* peer->transport # NULL, and initialized
    role,       \* peer->role
    generated,  \* the a=setup: attributes of the SDPs a peer has generated
    parsed,     \* libnice has accepted a remote SDP
    candidates, \* libnice has accepted remote candidates
    looping,    \* rtcdc_loop runs: the main loop and the two threads
    gathered,   \* ice->gathering_done
    negotiated, \* ice->negotiation_done
    dtls_role,  \* the role startup_thread read at rtcdc.c:372, if it did
    dtls_done,  \* dtls->handshake_done
    sctp_role,  \* the role startup_thread read at rtcdc.c:388, if it did
    sctp_done,  \* sctp->handshake_done
    sctp_failed \* startup_thread has ended without a connection

sdp == <<transport, role, generated, parsed, candidates>>
ice == <<gathered, negotiated>>
sctp == <<sctp_role, sctp_done, sctp_failed>>
startup == <<dtls_role, dtls_done, sctp>>
vars == <<sdp, looping, ice, startup>>

Other(p) == IF p = Offerer THEN Answerer ELSE Offerer
SetupOf(r) == IF r = "CLIENT" THEN "active" ELSE "passive"

Init ==
    /\ transport = [p \in Peer |-> FALSE]
    /\ role = [p \in Peer |-> "UNKNOWN"]
    /\ generated = [p \in Peer |-> {}]
    /\ parsed = [p \in Peer |-> FALSE]
    /\ candidates = [p \in Peer |-> FALSE]
    /\ looping = [p \in Peer |-> FALSE]
    /\ gathered = [p \in Peer |-> FALSE]
    /\ negotiated = [p \in Peer |-> FALSE]
    /\ dtls_role = [p \in Peer |-> "UNKNOWN"]
    /\ dtls_done = [p \in Peer |-> FALSE]
    /\ sctp_role = [p \in Peer |-> "UNKNOWN"]
    /\ sctp_done = [p \in Peer |-> FALSE]
    /\ sctp_failed = [p \in Peer |-> FALSE]

-----------------------------------------------------------------------------
(***************************************************************************)
(* The application's calls.  The SDP calls create the transport if there   *)
(* is none, and a peer with a new transport is a client.                   *)
(***************************************************************************)
RoleInUse(p) == IF transport[p] THEN role[p] ELSE "CLIENT"

\* create_rtcdc_transport fails: so does the call, but the role is set.
CreateFails(p) ==
    /\ ~transport[p]
    /\ role' = [role EXCEPT ![p] = "CLIENT"]
    /\ UNCHANGED <<transport, generated, parsed, candidates, looping, ice, startup>>

GenerateCandidates(p) ==
    /\ transport' = [transport EXCEPT ![p] = TRUE]
    /\ role' = [role EXCEPT ![p] = RoleInUse(p)]
    /\ UNCHANGED <<generated, parsed, candidates, looping, ice, startup>>

GenerateOffer(p) ==
    /\ AnswerLast /\ p = Answerer => parsed[p]
    /\ Repeats \/ generated[p] = {}
    /\ transport' = [transport EXCEPT ![p] = TRUE]
    /\ role' = [role EXCEPT ![p] = RoleInUse(p)]
    /\ generated' = [generated EXCEPT ![p] = @ \cup {SetupOf(RoleInUse(p))}]
    /\ UNCHANGED <<parsed, candidates, looping, ice, startup>>

\* Mutants: each SDP turns the role round; or none does.
AnswerTo_Flip(r, s) == IF r = "CLIENT" THEN "SERVER" ELSE "CLIENT"
AnswerTo_Keep(r, s) == r

\* The role after a remote a=setup: attribute.
AnswerTo(r, s) ==
    IF s = "active" /\ r = "CLIENT" THEN "SERVER"
    ELSE IF s = "passive" /\ r = "SERVER" THEN "CLIENT"
    ELSE r

\* The role is settled before nice_agent_parse_remote_sdp, which may fail.
ParseOffer(p) ==
    /\ Repeats \/ ~parsed[p]
    /\ \E s \in generated[Other(p)] :
          role' = [role EXCEPT ![p] = AnswerTo(RoleInUse(p), s)]
    /\ transport' = [transport EXCEPT ![p] = TRUE]
    /\ \E accepted \in BOOLEAN : parsed' = [parsed EXCEPT ![p] = @ \/ accepted]
    /\ UNCHANGED <<generated, candidates, looping, ice, startup>>

\* Candidates come from a peer with a transport, one by one through
\* on_candidate or in the text of rtcdc_generate_local_candidate_sdp, which
\* may have none yet.  The call needs a transport, and libnice may refuse.
ParseCandidates(p) ==
    /\ transport[p] /\ transport[Other(p)]
    /\ candidates' = [candidates EXCEPT ![p] = TRUE]
    /\ UNCHANGED <<transport, role, generated, parsed, looping, ice, startup>>

\* rtcdc_loop, which waits for peer->initialized.
Loop(p) ==
    /\ transport[p] /\ ~looping[p]
    /\ looping' = [looping EXCEPT ![p] = TRUE]
    /\ UNCHANGED <<sdp, ice, startup>>

-----------------------------------------------------------------------------
(***************************************************************************)
(* libnice's signals, delivered in the main loop.                          *)
(***************************************************************************)
GatheringDone(p) ==
    /\ looping[p] /\ ~gathered[p]
    /\ gathered' = [gathered EXCEPT ![p] = TRUE]
    /\ UNCHANGED <<sdp, looping, negotiated, startup>>

\* The other peer's SDP brings its credentials and no candidate.
Known(p) == parsed[p] /\ candidates[p]

\* The connectivity checks succeed between peers that know each other,
\* perhaps while a STUN server still owes a candidate.
PairSelected(p) ==
    /\ \A q \in Peer : looping[q] /\ Known(q)
    /\ ~negotiated[p]
    /\ negotiated' = [negotiated EXCEPT ![p] = TRUE]
    /\ UNCHANGED <<sdp, looping, gathered, startup>>

-----------------------------------------------------------------------------
(***************************************************************************)
(* startup_thread and ice_thread.                                          *)
(***************************************************************************)

\* The role decides between SSL_set_connect_state and SSL_set_accept_state.
StartDtls(p) ==
    /\ looping[p] /\ negotiated[p] /\ dtls_role[p] = "UNKNOWN"
    /\ dtls_role' = [dtls_role EXCEPT ![p] = role[p]]
    /\ UNCHANGED <<sdp, looping, ice, dtls_done, sctp>>

\* Mutant: a thread that does not wait for the gathering.
Sends_Early(p) == looping[p] /\ negotiated[p]

\* ice_thread sends what SSL wants to send when the candidates are gathered
\* and a pair is selected; data_received_cb wants the pair only.
Sends(p) == looping[p] /\ gathered[p] /\ negotiated[p]

\* A DTLS handshake needs a client and a server that send.
DtlsDone(p) ==
    /\ ~dtls_done[p]
    /\ \A q \in Peer : Sends(q)
    /\ {dtls_role[q] : q \in Peer} = Role
    /\ dtls_done' = [dtls_done EXCEPT ![p] = TRUE]
    /\ UNCHANGED <<sdp, looping, ice, dtls_role, sctp>>

\* The role, read again, decides between usrsctp_connect and usrsctp_accept.
StartSctp(p) ==
    /\ dtls_done[p] /\ sctp_role[p] = "UNKNOWN"
    /\ sctp_role' = [sctp_role EXCEPT ![p] = role[p]]
    /\ UNCHANGED <<sdp, looping, ice, dtls_role, dtls_done, sctp_done, sctp_failed>>

\* The association comes up unless both peers wait in usrsctp_accept (two
\* calls of usrsctp_connect meet in the middle).
Connected(p) ==
    /\ ~sctp_done[p] /\ ~sctp_failed[p]
    /\ \A q \in Peer : sctp_role[q] # "UNKNOWN"
    /\ \E q \in Peer : sctp_role[q] = "CLIENT"
    /\ sctp_done' = [sctp_done EXCEPT ![p] = TRUE]
    /\ UNCHANGED <<sdp, looping, ice, dtls_role, dtls_done, sctp_role, sctp_failed>>

\* usrsctp_connect or usrsctp_accept returns with an error: the thread ends.
ConnectFails(p) ==
    /\ sctp_role[p] # "UNKNOWN" /\ ~sctp_done[p] /\ ~sctp_failed[p]
    /\ sctp_failed' = [sctp_failed EXCEPT ![p] = TRUE]
    /\ UNCHANGED <<sdp, looping, ice, dtls_role, dtls_done, sctp_role, sctp_done>>

Startup(p) == StartDtls(p) \/ DtlsDone(p) \/ StartSctp(p) \/ Connected(p)

Next == \E p \in Peer :
    \/ CreateFails(p) \/ GenerateCandidates(p) \/ GenerateOffer(p) \/ ParseOffer(p)
    \/ ParseCandidates(p) \/ Loop(p) \/ GatheringDone(p) \/ PairSelected(p)
    \/ Startup(p) \/ ConnectFails(p)

Spec == Init /\ [][Next]_vars

\* A call that has failed leaves the other peer's waiting for good, perhaps.
NoneFailed == \A p \in Peer : ~sctp_failed[p]

\* The threads run and the network works; nothing makes the application call
\* the library.
FairSpec == Spec /\ \A p \in Peer :
    /\ WF_vars(GatheringDone(p)) /\ WF_vars(PairSelected(p))
    /\ WF_vars(Startup(p) /\ NoneFailed)

-----------------------------------------------------------------------------
TypeOK ==
    /\ transport \in [Peer -> BOOLEAN]
    /\ role \in [Peer -> Role \cup {"UNKNOWN"}]
    /\ generated \in [Peer -> SUBSET Setup]
    /\ parsed \in [Peer -> BOOLEAN]
    /\ candidates \in [Peer -> BOOLEAN]
    /\ looping \in [Peer -> BOOLEAN]
    /\ gathered \in [Peer -> BOOLEAN]
    /\ negotiated \in [Peer -> BOOLEAN]
    /\ dtls_role \in [Peer -> Role \cup {"UNKNOWN"}]
    /\ dtls_done \in [Peer -> BOOLEAN]
    /\ sctp_role \in [Peer -> Role \cup {"UNKNOWN"}]
    /\ sctp_done \in [Peer -> BOOLEAN]
    /\ sctp_failed \in [Peer -> BOOLEAN]

\* What startup_thread read is not what the other peer's read, for DTLS and
\* for SCTP, and its two reads agree, though the application may parse other
\* SDPs before, between and after them (rtcdc.c:220, 372 and 388).
RolesAgree == \A p \in Peer :
    /\ dtls_role[p] # "UNKNOWN" => dtls_role[p] # dtls_role[Other(p)]
    /\ sctp_role[p] # "UNKNOWN" => sctp_role[p] = dtls_role[p]

\* With SCTP in use, all that sctp_to_dtls and dtls_to_ice wait for has
\* happened (sctp.c:226 to 231, 267 to 276): they run in the main loop too,
\* which would wait for a signal that only the main loop delivers.
PipelineReady == \A p \in Peer :
    sctp_role[p] # "UNKNOWN" => gathered[p] /\ negotiated[p] /\ dtls_done[p]

\* Two peers that have parsed each other's SDP and candidates and run their
\* loops come to talk to each other, unless usrsctp_connect or usrsctp_accept
\* returns an error, which the code does not try again (rtcdc.c:398 and 435).
Talks ==
    (\A p \in Peer : Known(p) /\ looping[p])
        ~> ((\A p \in Peer : sctp_done[p]) \/ ~NoneFailed)

\* What makes RolesAgree and PipelineReady inductive: who offers first stays
\* a client and says so, who answers is a server before it says so.
IndInv ==
    /\ TypeOK
    /\ role[Offerer] # "SERVER"
    /\ "passive" \notin generated[Offerer]
    /\ "active" \notin generated[Answerer]
    /\ generated[Answerer] # {} => parsed[Answerer]
    /\ parsed[Answerer] => role[Answerer] = "SERVER"
    /\ \A p \in Peer :
          /\ looping[p] \/ parsed[p] \/ generated[p] # {} => transport[p]
          /\ transport[p] => role[p] # "UNKNOWN"
          /\ negotiated[p] => \A q \in Peer : looping[q] /\ parsed[q]
          /\ dtls_role[p] # "UNKNOWN" => dtls_role[p] = role[p] /\ negotiated[p]
          /\ dtls_done[p] => Sends(p) /\ dtls_role[p] # "UNKNOWN"
          /\ sctp_role[p] # "UNKNOWN" => sctp_role[p] = role[p] /\ dtls_done[p]
=============================================================================
