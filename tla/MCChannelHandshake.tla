------------------------- MODULE MCChannelHandshake -------------------------
(* Instances of ChannelHandshake for TLC. *)
EXTENDS ChannelHandshake

Proposal(ordering, cpPort, version) ==
  [state |-> "INIT", ordering |-> ordering, port |-> "p", cpPort |-> cpPort,
   cpChannel |-> None, version |-> version]

\* Two proposals match only if they are equal and between ports of one name; the
\* others differ from the first in ordering, port or version.
MCProposals ==
  {Proposal("UNORDERED", "p", "v1"), Proposal("ORDERED", "p", "v1"),
   Proposal("UNORDERED", "q", "v1"), Proposal("UNORDERED", "p", "v2")}

MCVersions == {"v1", "v2", "v1+", "v2+", "v1*"}

\* The modules of both chains extend the proposed version in the same way.
SharedNegotiate ==
  [c \in Chains |-> [v \in MCVersions |-> IF v = "v1" THEN {"v1+"} ELSE {"v2+"}]]

\* The module of B adds something of its own instead, the way the interchain
\* accounts host adds an account address.
OwnNegotiate == [SharedNegotiate EXCEPT !["B"]["v1"] = {"v1*"}]

MCMaxChannels == [c \in Chains |-> IF c = "A" THEN 1 ELSE 2]
=============================================================================
