---------------------------- MODULE PeerSetupProofs ----------------------------
(***************************************************************************)
(* RolesAgree and PipelineReady for every pair of peers, when the answerer *)
(* parses an offer before it generates its own SDP.                        *)
(***************************************************************************)
EXTENDS PeerSetup, TLAPS

LEMMA PeerFacts ==
    /\ Offerer \in Peer /\ Answerer \in Peer
    /\ \A p \in Peer : Other(p) \in Peer /\ Other(p) # p /\ Other(Other(p)) = p
    /\ \A p \in Peer : p = Offerer \/ p = Answerer
    /\ Other(Offerer) = Answerer /\ Other(Answerer) = Offerer
BY PeersDiffer DEF Peer, Other

LEMMA IndInit == Init => IndInv
BY DEF Init, IndInv, TypeOK, Sends, Peer, Role, Setup

\* The SDP calls: the invariant speaks of roles, SDPs and what was parsed.
LEMMA SdpKeeps ==
    ASSUME AnswerLast, IndInv, NEW p \in Peer,
           \/ CreateFails(p) \/ GenerateCandidates(p) \/ GenerateOffer(p) \/ ParseOffer(p)
           \/ ParseCandidates(p)
    PROVE  IndInv'
<1>1. CASE CreateFails(p)
  <2>1. ~parsed[p]
    BY <1>1, PeerFacts DEF IndInv, TypeOK, CreateFails
  <2> QED
    BY <1>1, <2>1, PeerFacts DEF IndInv, TypeOK, CreateFails, Sends, ice, startup, sctp, Role
<1>2. CASE GenerateCandidates(p)
  BY <1>2, PeerFacts DEF IndInv, TypeOK, GenerateCandidates, RoleInUse, Sends, ice,
                         startup, sctp, Role
<1>3. CASE GenerateOffer(p)
  <2>1. p = Answerer => parsed[p]
    BY <1>3 DEF GenerateOffer
  <2>2. SetupOf(RoleInUse(p)) \in Setup
    BY DEF SetupOf, Setup
  <2>3. p = Offerer => SetupOf(RoleInUse(p)) = "active"
    BY PeerFacts DEF IndInv, TypeOK, RoleInUse, SetupOf, Role
  <2>4. p = Answerer => SetupOf(RoleInUse(p)) = "passive"
    BY <2>1, PeerFacts DEF IndInv, TypeOK, RoleInUse, SetupOf, Role
  <2> QED
    BY <1>3, <2>1, <2>2, <2>3, <2>4, PeerFacts
    DEF IndInv, TypeOK, GenerateOffer, RoleInUse, Sends, ice, startup, sctp, Role
<1>4. CASE ParseOffer(p)
  <2>1. PICK s \in generated[Other(p)] :
            role' = [role EXCEPT ![p] = AnswerTo(RoleInUse(p), s)]
    BY <1>4 DEF ParseOffer
  <2>2. p = Offerer => s = "passive"
    BY <2>1, PeerFacts DEF IndInv, TypeOK, Setup
  <2>3. p = Answerer => s = "active"
    BY <2>1, PeerFacts DEF IndInv, TypeOK, Setup
  <2>4. p = Offerer => AnswerTo(RoleInUse(p), s) = "CLIENT"
    BY <2>2, PeerFacts DEF IndInv, TypeOK, RoleInUse, AnswerTo, Role
  <2>5. p = Answerer => AnswerTo(RoleInUse(p), s) = "SERVER"
    BY <2>3, PeerFacts DEF IndInv, TypeOK, RoleInUse, AnswerTo, Role
  <2>6. dtls_role[p] # "UNKNOWN" \/ sctp_role[p] # "UNKNOWN" =>
            AnswerTo(RoleInUse(p), s) = role[p]
    BY <2>4, <2>5, PeerFacts DEF IndInv, TypeOK, Role
  <2> QED
    BY <1>4, <2>1, <2>4, <2>5, <2>6, PeerFacts
    DEF IndInv, TypeOK, ParseOffer, Sends, ice, startup, sctp, Role
<1>5. CASE ParseCandidates(p)
  BY <1>5, PeerFacts DEF IndInv, TypeOK, ParseCandidates, Sends, ice, startup, sctp
<1> QED
  BY <1>1, <1>2, <1>3, <1>4, <1>5

\* The loop, libnice's signals and the startup thread leave the SDPs alone.
LEMMA ThreadsKeep ==
    ASSUME IndInv, NEW p \in Peer,
           \/ Loop(p) \/ GatheringDone(p) \/ PairSelected(p)
           \/ Startup(p) \/ ConnectFails(p)
    PROVE  IndInv'
<1>1. CASE Loop(p)
  BY <1>1, PeerFacts DEF IndInv, TypeOK, Loop, Sends, sdp, ice, startup, sctp
<1>2. CASE GatheringDone(p)
  BY <1>2, PeerFacts DEF IndInv, TypeOK, GatheringDone, Sends, sdp, startup, sctp
<1>3. CASE PairSelected(p)
  BY <1>3, PeerFacts DEF IndInv, TypeOK, PairSelected, Known, Sends, sdp, startup, sctp
<1>4. CASE StartDtls(p)
  BY <1>4, PeerFacts DEF IndInv, TypeOK, StartDtls, Sends, sdp, ice, sctp
<1>5. CASE DtlsDone(p)
  <2>1. dtls_role[p] # "UNKNOWN"
    BY <1>5 DEF DtlsDone, Role
  <2> QED
    BY <1>5, <2>1, PeerFacts DEF IndInv, TypeOK, DtlsDone, Sends, sdp, ice, sctp
<1>6. CASE StartSctp(p)
  BY <1>6, PeerFacts DEF IndInv, TypeOK, StartSctp, Sends, sdp, ice, sctp
<1>7. CASE Connected(p)
  BY <1>7, PeerFacts DEF IndInv, TypeOK, Connected, Sends, sdp, ice, sctp
<1>8. CASE ConnectFails(p)
  BY <1>8, PeerFacts DEF IndInv, TypeOK, ConnectFails, Sends, sdp, ice
<1> QED
  BY <1>1, <1>2, <1>3, <1>4, <1>5, <1>6, <1>7, <1>8 DEF Startup

LEMMA IndStep == AnswerLast /\ IndInv /\ [Next]_vars => IndInv'
<1> SUFFICES ASSUME AnswerLast, IndInv, [Next]_vars PROVE IndInv'
  OBVIOUS
<1>1. CASE Next
  BY <1>1, SdpKeeps, ThreadsKeep DEF Next
<1>2. CASE UNCHANGED vars
  BY <1>2 DEF vars, sdp, ice, startup, sctp, IndInv, TypeOK, Sends
<1> QED
  BY <1>1, <1>2

\* The strengthening holds throughout: the roles are settled before anything
\* reads them, whatever SDPs the signalling system repeats or reorders.
THEOREM RolesInductive == AnswerLast => (Spec => []IndInv)
<1> SUFFICES ASSUME AnswerLast PROVE Spec => []IndInv
  OBVIOUS
<1>1. IndInv /\ [Next]_vars => IndInv'
  BY IndStep
<1> QED
  BY <1>1, IndInit, PTL DEF Spec

\* One peer is the client of DTLS and of SCTP, the other the server.
THEOREM RolesAgreeHolds == AnswerLast => (Spec => []RolesAgree)
<1>1. IndInv => RolesAgree
  <2> SUFFICES ASSUME IndInv, NEW p \in Peer
               PROVE  /\ dtls_role[p] # "UNKNOWN" => dtls_role[p] # dtls_role[Other(p)]
                      /\ sctp_role[p] # "UNKNOWN" => sctp_role[p] = dtls_role[p]
    BY DEF RolesAgree
  <2>1. dtls_role[p] # "UNKNOWN" => /\ role[Offerer] = "CLIENT"
                                    /\ role[Answerer] = "SERVER"
    BY PeerFacts DEF IndInv, TypeOK, Role
  <2> QED
    BY <2>1, PeerFacts DEF IndInv, TypeOK
<1> QED
  BY <1>1, RolesInductive, PTL

\* No call in the SCTP pipeline waits for a signal of the main loop.
THEOREM PipelineReadyHolds == AnswerLast => (Spec => []PipelineReady)
<1>1. IndInv => PipelineReady
  BY DEF IndInv, PipelineReady, Sends
<1> QED
  BY <1>1, RolesInductive, PTL
=============================================================================
