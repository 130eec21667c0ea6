----------------------------- MODULE MCTransferPool -----------------------------
(***************************************************************************)
(* Instances of TransferPool: those of SySignaling, and one for crashes.   *)
(***************************************************************************)
EXTENDS MCSySignaling, TransferPool

\* For runs in which processes die: the answers to two status calls may cross
\* and outlive the session of one, before a download and an upload.
ShortTransfers ==
    c1 :> <<"SY_INIT", "SY_STATUS", "SY_DOWNLOAD">>
    @@ c2 :> <<"SY_CONNECT", "SY_STATUS", "SY_CLEANUP", "SY_CONNECT", "SY_UPLOAD">>

================================================================================
