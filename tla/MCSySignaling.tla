----------------------------- MODULE MCSySignaling -----------------------------
(***************************************************************************)
(* Instances of SySignaling: what main() of cli/sy.c calls, and other      *)
(* orders in which the sy_* calls make sense.                              *)
(***************************************************************************)
EXTENDS SySignaling, TLC

CONSTANTS c1, c2

\* main() of cli/sy.c, with sy_status called twice.
MainProgram ==
    c1 :> <<"SY_INIT", "SY_CLEANUP", "SY_CONNECT", "SY_STATUS", "SY_STATUS",
            "SY_DOWNLOAD">>

\* Two clients that share a repository: c2 connects to what c1 made.
TwoPrograms ==
    c1 :> <<"SY_INIT", "SY_STATUS", "SY_CLEANUP", "SY_CONNECT", "SY_DOWNLOAD">>
    @@ c2 :> <<"SY_CONNECT", "SY_STATUS", "SY_UPLOAD">>

\* Short ones.
TwoInits == c1 :> <<"SY_INIT">> @@ c2 :> <<"SY_INIT">>
InitConnect == c1 :> <<"SY_INIT", "SY_CONNECT">>
InitStatus == c1 :> <<"SY_INIT", "SY_STATUS">>

Addresses == Permutations(Addr)

================================================================================
