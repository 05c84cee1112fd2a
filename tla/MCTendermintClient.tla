------------------------- MODULE MCTendermintClient -------------------------
(***************************************************************************)
(* A counterparty chain with blocks a1, a2, a3 that is upgraded at a3 to   *)
(* its second revision, whose first block is n5.  f2 forks from a2 and is  *)
(* not earlier than a3.                                                    *)
(***************************************************************************)
EXTENDS TendermintClient

Block(r, n, t, root) == [height |-> <<r, n>>, time |-> t, root |-> root]

MCHeaders ==
  {Block(1, 1, 1, "a1"), Block(1, 2, 2, "a2"), Block(1, 3, 3, "a3"),
   Block(1, 2, 3, "f2"), Block(2, 2, 4, "n5")}

MCTrusted == [k |-> {"a1"}, j |-> {"a3"}]

MCPlans == {[previous |-> "a2", last |-> "a3", to |-> <<2, 1>>]}

=============================================================================
