------------------------------- MODULE SyPromise -------------------------------
(***************************************************************************)
(* What the sy_* service promises its clients: a call takes effect at one  *)
(* point between its start and its return, and returns only after that.    *)
(* A session lives from the sy_init or sy_connect that makes it to the     *)
(* sy_cleanup of its client, and is nobody else's.                         *)
(***************************************************************************)
EXTENDS Naturals, Sequences

CONSTANTS Client, Program, None

VARIABLES
    step, pc, session,  \* per client
    live                \* the sessions there are

Op(c) == Program[c][step[c]]
CallId(c) == <<c, step[c]>>
Makes(c) == Op(c) \in {"SY_INIT", "SY_CONNECT"}

Init ==
    /\ step = [c \in Client |-> 1]
    /\ pc = [c \in Client |-> "idle"]
    /\ session = [c \in Client |-> None]
    /\ live = {}

Call(c) ==
    /\ pc[c] = "idle" /\ step[c] <= Len(Program[c])
    /\ Op(c) \notin {"SY_INIT", "SY_CONNECT"} => session[c] # None
    /\ pc' = [pc EXCEPT ![c] = "called"]
    /\ UNCHANGED <<step, session, live>>

\* What a call does to the sessions.
Effect(c) ==
    /\ pc[c] = "called"
    /\ \/ Makes(c) /\ live' = live \cup {CallId(c)}
       \/ Op(c) = "SY_CLEANUP" /\ live' = live \ {session[c]}
    /\ UNCHANGED <<step, pc, session>>

Return(c) ==
    /\ pc[c] = "called"
    /\ session' = [session EXCEPT ![c] =
          IF Makes(c) THEN CallId(c) ELSE IF Op(c) = "SY_CLEANUP" THEN None ELSE @]
    /\ IF Op(c) = "SY_CLEANUP" THEN session[c] \notin live ELSE session'[c] \in live
    /\ step' = [step EXCEPT ![c] = @ + 1]
    /\ pc' = [pc EXCEPT ![c] =
          IF Op(c) \in {"SY_UPLOAD", "SY_DOWNLOAD"} THEN "transferring" ELSE "idle"]
    /\ UNCHANGED live

Next == \E c \in Client : Call(c) \/ Effect(c) \/ Return(c)

Spec == Init /\ [][Next]_<<step, pc, session, live>>
================================================================================
