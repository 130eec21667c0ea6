------------------------------ MODULE LossyPath ------------------------------
(***************************************************************************)
(* What SCTP may take the path below it for: a packet that was handed over *)
(* arrives once or never, and packets may overtake each other.             *)
(***************************************************************************)
EXTENDS Sequences, Functions

CONSTANT Packet
VARIABLES sent, arrived

Init == sent = {} /\ arrived = <<>>

Send(p) ==
    /\ sent' = sent \cup {p}
    /\ UNCHANGED arrived

Arrive(p) ==
    /\ p \in sent \ Range(arrived)
    /\ arrived' = Append(arrived, p)
    /\ UNCHANGED sent

Next == \E p \in Packet : Send(p) \/ Arrive(p)

Spec == Init /\ [][Next]_<<sent, arrived>>
==============================================================================
