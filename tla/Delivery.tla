------------------------------ MODULE Delivery ------------------------------
(***************************************************************************)
(* What a channel promises to the modules at its two ends, without blocks, *)
(* proofs, clients or relayers: every packet is applied by its receiver at *)
(* most once and ends, if it ends, in one way at its sender.               *)
(*                                                                         *)
(*   unsent -> sent -> applied -> confirmed                                *)
(*                \        \                                               *)
(*                 \        `-> failed -> errored                          *)
(*                  \-----------^                                          *)
(*                   `-> timedOut                                          *)
(*                                                                         *)
(* On an ORDERED channel a packet is delivered only after all the earlier  *)
(* ones.  A packet that timed out is never delivered, and blocks the later *)
(* packets of an ORDERED channel for good.                                 *)
(***************************************************************************)
EXTENDS Integers

CONSTANTS
  Ends,            \* the ends of the channel
  Ordered,         \* whether the channel is ORDERED
  LastSequence     \* bound: packets sent from each end

VARIABLE status    \* status[c][s]: the packet with sequence s sent from end c

Statuses ==
  {"unsent", "sent", "applied", "failed", "confirmed", "errored", "timedOut"}

Delivered == {"applied", "failed", "confirmed", "errored"}

Init == status = [c \in Ends |-> [s \in 1 .. LastSequence |-> "unsent"]]

Move(c, s, from, to) ==
  /\ status[c][s] = from
  /\ status' = [status EXCEPT ![c][s] = to]

Send(c, s) ==
  /\ \A t \in 1 .. s - 1 : status[c][t] # "unsent"
  /\ Move(c, s, "unsent", "sent")

Deliver(c, s) ==
  /\ Ordered => \A t \in 1 .. s - 1 : status[c][t] \in Delivered
  /\ Move(c, s, "sent", "applied") \/ Move(c, s, "sent", "failed")

Undo(c, s) == Move(c, s, "applied", "failed")

Confirm(c, s) == Move(c, s, "applied", "confirmed")

Fail(c, s) == Move(c, s, "failed", "errored")

TimeOut(c, s) == Move(c, s, "sent", "timedOut")

Next ==
  \E c \in Ends, s \in 1 .. LastSequence :
    \/ Send(c, s) \/ Deliver(c, s) \/ Undo(c, s)
    \/ Confirm(c, s) \/ Fail(c, s) \/ TimeOut(c, s)

Spec == Init /\ [][Next]_status
=============================================================================
