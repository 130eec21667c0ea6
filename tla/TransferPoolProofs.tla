--------------------------- MODULE TransferPoolProofs ---------------------------
(***************************************************************************)
(* What is proved of SySignaling holds of it with the transfers of the     *)
(* file server too: a step of the pool is a step of SySignaling or of      *)
(* nothing in it.                                                          *)
(***************************************************************************)
EXTENDS TransferPool, SySignalingProofs

\* The types of the handler and the queue.
PoolInv == handler \in Message \cup {None} /\ queue \in Seq(Message)

-----------------------------------------------------------------------------
LEMMA PoolStepIsStep == [PoolNext]_poolvars => [Next]_vars
BY DEF PoolNext, Next, FsHandle, HandlerReturns, TakeWork, TakeGarbage, poolvars

LEMMA PoolSyInv == PoolSpec => []SyInv
<1>1. PoolInit => SyInv
  BY SyInvInit DEF PoolInit
<1>2. SyInv /\ [PoolNext]_poolvars => SyInv'
  BY PoolStepIsStep, SyInvStep
<1> QED
  BY <1>1, <1>2, PTL DEF PoolSpec

LEMMA PoolInvStep == SyInv /\ PoolInv /\ [PoolNext]_poolvars => PoolInv'
<1> SUFFICES ASSUME SyInv, PoolInv, [PoolNext]_poolvars PROVE PoolInv'
  OBVIOUS
<1>1. CASE FsHandle
  <2>1. down[fs.at] \in Seq(Told) /\ down[fs.at] # <<>>
    BY <1>1 DEF FsHandle, FsReceive, SyInv, SyType
  <2>2. Head(down[fs.at]) \in Message
    BY <2>1, SaidIsMessage
  <2> QED
    BY <1>1, <2>2 DEF FsHandle, PoolInv
<1>2. CASE HandlerReturns
  BY <1>2 DEF PoolInv, HandlerReturns
<1>3. CASE TakeWork
  BY <1>3 DEF PoolInv, TakeWork
<1>4. CASE PoolEnds
  BY <1>4 DEF PoolInv, PoolEnds
<1>5. CASE UNCHANGED pool
  BY <1>5 DEF PoolInv, pool
<1> QED
  BY <1>1, <1>2, <1>3, <1>4, <1>5 DEF PoolNext, TakeGarbage, poolvars

LEMMA PoolInvHolds == PoolSpec => []PoolInv
<1>1. PoolInit => PoolInv
  BY DEF PoolInit, PoolInv
<1>2. SyInv /\ PoolInv /\ [PoolNext]_poolvars => PoolInv'
  BY PoolInvStep
<1> QED
  BY <1>1, <1>2, PoolSyInv, PTL DEF PoolSpec

\* The types and the registered file servers of SySignaling, with the transfers
\* of the file server added.
THEOREM PoolKeepsSignaling == PoolSpec => [](TypeOK /\ RegisteredIsFileServer)
<1>1. SyInv => TypeOK /\ RegisteredIsFileServer
  BY InvIsTypeOK DEF SyInv
<1> QED
  BY <1>1, PoolSyInv, PTL
================================================================================
