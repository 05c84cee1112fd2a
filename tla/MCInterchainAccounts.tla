------------------------ MODULE MCInterchainAccounts ------------------------
(***************************************************************************)
(* Two controller chains, each with a connection of the same name and an   *)
(* owner of the same name.  The transactions of A succeed, fail at their   *)
(* second message, or carry the signature of the other chain's account.    *)
(* The address of the account of X may have an account before, and X does  *)
(* not check the ports of its channels.                                    *)
(***************************************************************************)
EXTENDS InterchainAccounts

MCConnections ==
  [h \in 0 .. 1 |-> [chain |-> IF h = 0 THEN "A" ELSE "X", conn |-> 0]]

MCMaxChannels == [c \in {"A", "X", "host"} |-> IF c = "X" THEN 1 ELSE 2]

MCMaxPackets == [e \in Slots |-> IF e = <<"A", 1>> THEN 2 ELSE 1]

Message(port, kind) == [signer |-> GenerateAddress(port), kind |-> kind]

PortOfA == GeneratePortID("o", 0, 0)
PortOfX == GeneratePortID("o", 0, 1)

MCTxs ==
  [port \in ControllerPorts |->
     IF port = PortOfX THEN {<<Message(PortOfX, "ok")>>}
     ELSE {<<Message(PortOfA, "ok"), Message(PortOfA, "ok")>>,
           <<Message(PortOfA, "ok"), Message(PortOfA, "fails")>>,
           <<Message(PortOfX, "ok")>>}]

MCPreexisting == {GenerateAddress(PortOfX)}
=============================================================================
