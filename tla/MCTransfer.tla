----------------------------- MODULE MCTransfer -----------------------------
(* Instances of Transfer for TLC. *)
EXTENDS Transfer, TLC

End(c, i) == [chain |-> c, port |-> "transfer", channel |-> i]

\* Two channels between A and B.  One has the same identifier on both.
MCEnds == {End("A", 0), End("A", 1), End("B", 0), End("B", 2)}
MCLink ==
  [e \in MCEnds |-> IF e.channel = 0 THEN End(IF e.chain = "A" THEN "B" ELSE "A", 0)
                    ELSE IF e.chain = "A" THEN End("B", 2) ELSE End("A", 1)]

\* Both chains have a coin of the same name.
MCNatives == (<<"A", "u", "coin">> :> 2) @@ (<<"B", "u", "coin">> :> 1)

\* Transfers to A may name an escrow address, transfers to B a module account.
MCReceivers == [A |-> {Account("u"), Hop(End("A", 0))}, B |-> {Account("u"), Account("m")}]
=============================================================================
