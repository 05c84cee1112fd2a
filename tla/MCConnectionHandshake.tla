----------------------- MODULE MCConnectionHandshake -----------------------
(* An instance of ConnectionHandshake for TLC. *)
EXTENDS ConnectionHandshake

\* B has a good client of A, one of an impostor of A, and one with parameters that
\* are not those of A.
MCClients ==
  [A |-> [a |-> [follows |-> "B", sound |-> TRUE]],
   B |-> [b |-> [follows |-> "A", sound |-> TRUE],
          x |-> [follows |-> "X", sound |-> TRUE],
          y |-> [follows |-> "A", sound |-> FALSE]]]

Proposal(client, cpClient, version) ==
  [client |-> client, cpClient |-> cpClient, version |-> version, delay |-> 0]

Version(features) == [identifier |-> 1, features |-> features]

MCProposals ==
  [A |-> {Proposal("a", "b", NoVersion), Proposal("a", "x", NoVersion),
          Proposal("a", "y", NoVersion), Proposal("a", "b", Version(<<"ORDERED">>))},
   B |-> {Proposal("b", "a", NoVersion),
          Proposal("b", "a", Version(<<"UNORDERED", "ORDERED">>)),
          Proposal("b", "a", Version(<<"UNORDERED">>)),
          [Proposal("b", "a", NoVersion) EXCEPT !.delay = 1]}]

\* The impostor claims to have started a handshake, or to have opened.
Forged(state, cpConnection) ==
  <<1, [state |-> state, client |-> "a", cpClient |-> "x",
        cpConnection |-> cpConnection, delay |-> 0,
        versions |-> GetCompatibleVersions], {}>>
MCForgeries == [A |-> {}, B |-> {Forged("INIT", None), Forged("OPEN", 1)}]

MCFreezable == [A |-> {"a"}, B |-> {}]
MCMaxConnections == [A |-> 1, B |-> 2]
=============================================================================
