--------------------------- MODULE ChannelPromise ---------------------------
(***************************************************************************)
(* What librtcdc promises about the opening of a channel, whatever threads *)
(* and messages it takes: a channel is offered by rtcdc_create_data_channel,*)
(* accepted by the remote peer (on_channel), then open (on_open), in this  *)
(* order and once each.  Only an offer that could not be sent is withdrawn.*)
(***************************************************************************)
CONSTANT Chan
VARIABLE status

Init == status = [c \in Chan |-> "none"]

Advance(c, from, to) ==
    /\ status[c] = from
    /\ status' = [status EXCEPT ![c] = to]

Offer(c) == Advance(c, "none", "offered")
Withdraw(c) == Advance(c, "offered", "none")
Accept(c) == Advance(c, "offered", "accepted")
Open(c) == Advance(c, "accepted", "open")

Next == \E c \in Chan : Offer(c) \/ Withdraw(c) \/ Accept(c) \/ Open(c)

Spec == Init /\ [][Next]_status
=============================================================================
