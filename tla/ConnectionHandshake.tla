------------------------ MODULE ConnectionHandshake ------------------------
(***************************************************************************)
(* The connection handshake (modules/core/03-connection/keeper), with the  *)
(* validation of the clients by which the two chains know each other       *)
(* (modules/core/02-client/keeper/keeper.go) and the negotiation of the    *)
(* version (modules/core/03-connection/types/version.go).                  *)
(*                                                                         *)
(* As in ChannelHandshake, a step needs a proof of the end at the other    *)
(* chain, which may be any that a block of that chain has committed.  Here *)
(* the proof also shows the client that the other chain has of this one.   *)
(* A client follows one chain.  That may be an impostor: a chain with the  *)
(* identifier of the other one, which proves whatever it likes.  Consensus *)
(* states of different chains differ, so a consensus state of the client   *)
(* equals that of this chain, at a height in its historical info, if and   *)
(* only if the client follows this chain; heights themselves are left out. *)
(* So is the commitment prefix, which is fixed on each chain.              *)
(*                                                                         *)
(* An operator named WrongX is X with a bug that X could plausibly have.   *)
(* No action uses it: it shows that a property notices the bug.            *)
(***************************************************************************)
EXTENDS Integers, Sequences

CONSTANTS
  Clients,          \* the clients of each chain: which chain each one follows, and
                    \* whether its parameters are those of the chain it claims to follow
  Proposals,        \* what ConnOpenInit may be asked for: clients, version and delay
  Forgeries,        \* what impostors prove: pairs of an identifier and an end
  Freezable,        \* the clients for which there is evidence of misbehaviour
  MaxConnections    \* bound: connections created on each chain

Chains == {"A", "B"}
Peer(c) == IF c = "A" THEN "B" ELSE "A"
Impostor == "X"

States == {"INIT", "TRYOPEN", "OPEN"}
None == 0         \* the empty connection identifier
NoVersion == <<>> \* MsgConnectionOpenInit without a version

-----------------------------------------------------------------------------
(* Versions *)

Versions == [identifier : Nat, features : Seq(STRING)]
DefaultIBCVersion == [identifier |-> 1, features |-> <<"ORDERED", "UNORDERED">>]
GetCompatibleVersions == <<DefaultIBCVersion>>
AllowNilFeatureSet == {}
Contains(set, elem) == \E i \in 1 .. Len(set) : set[i] = elem

\* Only a version without features is kept from being proposed or picked.
NilFeaturesRefused(identifier, features) ==
  features = <<>> /\ identifier \notin AllowNilFeatureSet

\* The first position in a list of those in the set.
First(positions) == CHOOSE i \in positions : \A j \in positions : i <= j

\* Where a version with v's identifier is.  The first of them is the one found.
Matches(v, versions) == {i \in DOMAIN versions : v.identifier = versions[i].identifier}
FindSupportedVersion(v, supported) == supported[First(Matches(v, supported))]

VerifyProposedVersion(supported, v) ==
  /\ v.identifier = supported.identifier
  /\ ~ NilFeaturesRefused(v.identifier, v.features)
  /\ \A i \in DOMAIN v.features : Contains(supported.features, v.features[i])

IsSupportedVersion(v) ==
  /\ Matches(v, GetCompatibleVersions) # {}
  /\ VerifyProposedVersion(FindSupportedVersion(v, GetCompatibleVersions), v)

GetFeatureSetIntersection(source, counterparty) ==
  LET featureSet[n \in 0 .. Len(source)] ==
        IF n = 0 THEN <<>>
        ELSE IF Contains(counterparty, source[n])
             THEN Append(featureSet[n - 1], source[n])
             ELSE featureSet[n - 1]
  IN  featureSet[Len(source)]

\* What the search for a compatible version makes of one supported version, and
\* whether it is the one to return.
Restricted(v, counterpartyVersions) ==
  [identifier |-> v.identifier,
   features |-> GetFeatureSetIntersection(v.features,
                  FindSupportedVersion(v, counterpartyVersions).features)]
Compatible(v, counterpartyVersions) ==
  /\ Matches(v, counterpartyVersions) # {}
  /\ ~ NilFeaturesRefused(v.identifier, Restricted(v, counterpartyVersions).features)

\* The version picked, as a list: there may be none.
WrongPickVersion(supportedVersions, counterpartyVersions) ==
  LET found == {i \in DOMAIN supportedVersions :
                  Matches(supportedVersions[i], counterpartyVersions) # {}}
  IN  IF found = {} THEN <<>> ELSE <<supportedVersions[First(found)]>>
PickVersion(supportedVersions, counterpartyVersions) ==
  LET found == {i \in DOMAIN supportedVersions :
                  Compatible(supportedVersions[i], counterpartyVersions)}
  IN  IF found = {} THEN <<>>
      ELSE <<Restricted(supportedVersions[First(found)], counterpartyVersions)>>

-----------------------------------------------------------------------------
ClientIds(c) == DOMAIN Clients[c]

ASSUME ConnectionAssumptions ==
  /\ DOMAIN Clients = Chains
  /\ \A c \in Chains : \A k \in ClientIds(c) :
       Clients[c][k] \in [follows : {Peer(c), Impostor}, sound : BOOLEAN]
  /\ \A c \in Chains : \A p \in Proposals[c] :
       /\ p.client \in ClientIds(c) /\ p.cpClient \in ClientIds(Peer(c))
       /\ p.version \in Versions \cup {NoVersion}
  /\ \A c \in Chains : \A proof \in Forgeries[c] :
       proof[1] \in Nat /\ proof[2].versions \in Seq(Versions)
  /\ \A c \in Chains : Freezable[c] \subseteq ClientIds(c)
  /\ MaxConnections \in [Chains -> Nat]

VARIABLES
  ends,     \* the connection ends of each chain: connection-{i-1} is ends[c][i]
  paths,    \* the connections listed under each client
  frozen,   \* the clients of each chain that are frozen
  proofs    \* what blocks of each chain have committed: triples of an identifier,
            \* an end and the clients that were frozen then

vars == <<ends, paths, frozen, proofs>>

Init ==
  /\ ends = [c \in Chains |-> <<>>]
  /\ paths = [c \in Chains |-> [k \in ClientIds(c) |-> <<>>]]
  /\ frozen = [c \in Chains |-> {}]
  /\ proofs = [c \in Chains |-> {}]

SetConnection(c, i, e) == ends' = [ends EXCEPT ![c][i] = e]

CreateConnection(c, e) ==
  /\ Len(ends[c]) < MaxConnections[c]
  /\ ends' = [ends EXCEPT ![c] = Append(@, e)]

AddConnectionToClient(c, k, i) == paths' = [paths EXCEPT ![c][k] = Append(@, i)]

ConnOpenInit(c) ==
  \E p \in Proposals[c] :
    /\ p.version # NoVersion => IsSupportedVersion(p.version)
    /\ CreateConnection(c,
         [state |-> "INIT", client |-> p.client, cpClient |-> p.cpClient,
          cpConnection |-> None, delay |-> p.delay,
          versions |-> IF p.version = NoVersion THEN GetCompatibleVersions
                                                ELSE <<p.version>>])
    /\ AddConnectionToClient(c, p.client, Len(ends[c]) + 1)
    /\ UNCHANGED <<frozen, proofs>>

Active(c, k) == k \notin frozen[c]

\* What can be proven to chain c through its client k.
VerifyConnectionState(c, k) ==
  IF Clients[c][k].follows = Impostor THEN Forgeries[c] ELSE proofs[Peer(c)]

\* The proof shows that the other chain's client k follows this chain, with the
\* right parameters, and was not frozen.
WrongValidateSelfClient(c, k, froze) ==
  /\ k \notin froze
  /\ Clients[Peer(c)][k].sound
ValidateSelfClient(c, k, froze) ==
  /\ k \notin froze
  /\ Clients[Peer(c)][k].sound
  /\ Clients[Peer(c)][k].follows = c

\* An impostor proves what it has to about the client it claims to have.
VerifyClientState(c, k, cpClient, froze) ==
  \/ Clients[c][k].follows = Impostor
  \/ ValidateSelfClient(c, cpClient, froze)

\* The end i of chain c may be named as the previous connection.
WrongSameProposal(c, i, k, f) ==
  LET e == ends[c][i] IN
  /\ e.client = k
  /\ e.cpClient = f.client
  /\ e.delay = f.delay
SameProposal(c, i, k, f) ==
  LET e == ends[c][i] IN
  /\ e.state = "INIT"
  /\ e.cpConnection = None
  /\ e.client = k
  /\ e.cpClient = f.client
  /\ e.delay = f.delay

\* The end that answers proposal j of the peer, with client k.
WrongAnswer(f, j, k, version) ==
  [state |-> "TRYOPEN", client |-> f.client, cpClient |-> f.cpClient, cpConnection |-> j,
   delay |-> f.delay, versions |-> <<version>>]
Answer(f, j, k, version) ==
  [state |-> "TRYOPEN", client |-> k, cpClient |-> f.client, cpConnection |-> j,
   delay |-> f.delay, versions |-> <<version>>]

ConnOpenTry(c) ==
  \E k \in ClientIds(c) : \E proof \in VerifyConnectionState(c, k) :
    LET j == proof[1]
        f == proof[2]
        picked(supported) == PickVersion(supported, f.versions)
    IN  /\ Active(c, k)
        /\ f.state = "INIT"
        /\ f.cpClient = k
        /\ f.cpConnection = None
        /\ VerifyClientState(c, k, f.client, proof[3])
        /\ \/ /\ picked(GetCompatibleVersions) # <<>>
              /\ CreateConnection(c, Answer(f, j, k, Head(picked(GetCompatibleVersions))))
              /\ AddConnectionToClient(c, k, Len(ends[c]) + 1)
           \/ \E i \in DOMAIN ends[c] :
                /\ SameProposal(c, i, k, f)
                /\ picked(ends[c][i].versions) # <<>>
                /\ SetConnection(c, i, Answer(f, j, k, Head(picked(ends[c][i].versions))))
                /\ AddConnectionToClient(c, k, i)
        /\ UNCHANGED <<frozen, proofs>>

\* The end that the counterparty of end i has to be, in the given state.
Shows(c, i, f, state) ==
  LET e == ends[c][i] IN
  /\ f.state = state
  /\ f.client = e.cpClient
  /\ f.cpClient = e.client
  /\ f.cpConnection = i
  /\ f.delay = e.delay

WrongAcceptsVersion(e, version) == e.state = "INIT" /\ IsSupportedVersion(version)
AcceptsVersion(e, version) ==
  \/ e.state = "INIT" /\ IsSupportedVersion(version)
  \/ e.state = "TRYOPEN" /\ e.versions = <<version>>

ConnOpenAck(c) ==
  \E i \in DOMAIN ends[c] : \E proof \in VerifyConnectionState(c, ends[c][i].client) :
    LET e == ends[c][i]
        f == proof[2]
    IN  /\ Len(f.versions) = 1
        /\ AcceptsVersion(e, f.versions[1])
        /\ Active(c, e.client)
        /\ Shows(c, i, f, "TRYOPEN")
        /\ VerifyClientState(c, e.client, e.cpClient, proof[3])
        /\ SetConnection(c, i, [e EXCEPT !.state = "OPEN", !.versions = f.versions,
                                         !.cpConnection = proof[1]])
        /\ UNCHANGED <<paths, frozen, proofs>>

ConnOpenConfirm(c) ==
  \E i \in DOMAIN ends[c] : \E proof \in VerifyConnectionState(c, ends[c][i].client) :
    LET e == ends[c][i]
    IN  /\ e.state = "TRYOPEN"
        /\ Active(c, e.client)
        /\ proof[1] = e.cpConnection
        /\ Shows(c, i, proof[2], "OPEN")
        /\ proof[2].versions = e.versions
        /\ SetConnection(c, i, [e EXCEPT !.state = "OPEN"])
        /\ UNCHANGED <<paths, frozen, proofs>>

\* Evidence of misbehaviour freezes a client.
CheckMisbehaviour(c) ==
  \E k \in Freezable[c] \ frozen[c] :
    /\ frozen' = [frozen EXCEPT ![c] = @ \cup {k}]
    /\ UNCHANGED <<ends, paths, proofs>>

\* A block ends: what the transactions in it left can be proven from now on.
NewBlock(c) ==
  LET committed == {<<i, ends[c][i], frozen[c]>> : i \in DOMAIN ends[c]} IN
  /\ ~ committed \subseteq proofs[c]
  /\ proofs' = [proofs EXCEPT ![c] = @ \cup committed]
  /\ UNCHANGED <<ends, paths, frozen>>

Next ==
  \E c \in Chains :
    \/ ConnOpenInit(c) \/ ConnOpenTry(c) \/ ConnOpenAck(c) \/ ConnOpenConfirm(c)
    \/ CheckMisbehaviour(c) \/ NewBlock(c)

Spec == Init /\ [][Next]_vars

\* Blocks keep coming and a relayer updates clients and completes handshakes.
\* Nobody has to begin one.
Fairness ==
  \A c \in Chains :
    WF_vars(NewBlock(c)) /\ WF_vars(ConnOpenAck(c)) /\ WF_vars(ConnOpenConfirm(c))

FairSpec == Spec /\ Fairness

-----------------------------------------------------------------------------
Features == {"ORDERED", "UNORDERED"}
FeatureSet(v) == {v.features[i] : i \in DOMAIN v.features}

\* The properties are about ends whose client follows the chain it should follow.
Honest(c, i) == Clients[c][ends[c][i].client].follows = Peer(c)

\* Ends have a state, clients of the right chains and versions with known features;
\* each is listed under its own client.
TypeOK ==
  \A c \in Chains :
    /\ Len(ends[c]) <= MaxConnections[c]
    /\ \A i \in DOMAIN ends[c] :
         /\ ends[c][i].state \in States
         /\ ends[c][i].client \in ClientIds(c)
         /\ Honest(c, i) => ends[c][i].cpClient \in ClientIds(Peer(c))
         /\ ends[c][i].cpConnection \in Nat
         /\ \A k \in DOMAIN ends[c][i].versions :
              FeatureSet(ends[c][i].versions[k]) \subseteq Features
         /\ Contains(paths[c][ends[c][i].client], i)

\* The end that an end names as its counterparty.
Linked(c, i) == ends[c][i].cpConnection \in DOMAIN ends[Peer(c)]
CounterpartyOf(c, i) == ends[Peer(c)][ends[c][i].cpConnection]

\* An end that has answered or is OPEN names an end of the other chain which names the
\* same two clients and the same delay, and whose client follows this chain with the
\* right parameters: however old the proofs, whoever proposed, and although the other
\* chain also has clients of an impostor of this one.
ClientsAreMutual ==
  \A c \in Chains : \A i \in DOMAIN ends[c] :
    ends[c][i].state \in {"TRYOPEN", "OPEN"} /\ Honest(c, i) =>
      LET f == CounterpartyOf(c, i)
      IN  /\ Linked(c, i)
          /\ f.client = ends[c][i].cpClient
          /\ f.cpClient = ends[c][i].client
          /\ f.delay = ends[c][i].delay
          /\ Clients[Peer(c)][f.client] = [follows |-> c, sound |-> TRUE]

\* No block has shown end i of chain c in INIT: it only answers a proposal.
Passive(c, i) ==
  /\ ends[c][i].state # "INIT"
  /\ \A proof \in proofs[c] : proof[1] = i => proof[2].state # "INIT"

\* "PickVersion must only provide a version that is in the intersection of the
\* supported versions and the counterparty versions" (version.go:153), over the
\* whole handshake: an OPEN end has one version, with features that this end and
\* its counterparty had proposed, and an end that only answered shares it with its
\* counterparty, which has opened with this very end.
VersionsNegotiated ==
  \A c \in Chains : \A i \in DOMAIN ends[c] :
    LET e == ends[c][i]
        offered(x, j) == {FeatureSet(proof[2].versions[1]) :
                            proof \in {p \in proofs[x] : p[1] = j /\ p[2].state = "INIT"}}
    IN  e.state = "OPEN" /\ Honest(c, i) =>
          /\ Len(e.versions) = 1
          /\ FeatureSet(e.versions[1]) # {}
          /\ \A S \in offered(c, i) \cup offered(Peer(c), e.cpConnection) :
               FeatureSet(e.versions[1]) \subseteq S
          /\ Passive(c, i) => /\ CounterpartyOf(c, i).state = "OPEN"
                              /\ CounterpartyOf(c, i).cpConnection = i
                              /\ CounterpartyOf(c, i).versions = e.versions

Rank(state) == CASE state = "INIT" -> 1 [] state = "TRYOPEN" -> 2 [] state = "OPEN" -> 3

\* An end only moves forward and keeps its clients and its delay.  It settles on a
\* version with its answer, and is never turned over to another once it is OPEN,
\* by however old a proof.
ConnectionsOnlyAdvance ==
  [][\A c \in Chains : \A i \in DOMAIN ends[c] :
       LET old == ends[c][i]
           new == ends'[c][i]
       IN  new # old =>
             /\ Rank(old.state) < Rank(new.state)
             /\ new.client = old.client /\ new.cpClient = old.cpClient
             /\ new.delay = old.delay
             /\ old.state = "TRYOPEN" => new.versions = old.versions]_vars

Unfrozen(c, i) == Active(c, ends[c][i].client) /\ Active(Peer(c), ends[c][i].cpClient)

\* End i of chain c and the end it answers can still agree: the other chain accepts
\* this chain's client, its end is not settled with another end and, in the case of
\* crossing hellos, both have picked the same version.  They pick different ones if
\* they proposed the features in different orders, because PickVersion keeps the order
\* of the supported version.
Trying(c, i) ==
  /\ i \in DOMAIN ends[c]
  /\ ends[c][i].state = "TRYOPEN"
  /\ Honest(c, i) /\ Clients[c][ends[c][i].client].sound /\ Unfrozen(c, i)
  /\ LET f == CounterpartyOf(c, i)
     IN  \/ f.state = "INIT"
         \/ f.cpConnection = i /\ f.versions = ends[c][i].versions

\* With a relayer at work and clients that stay active, an end in TRYOPEN opens,
\* unless the end it answers has settled with another one.
TriesComplete ==
  \A c \in Chains : \A i \in 1 .. MaxConnections[c] : Trying(c, i) ~> ~ Trying(c, i)
=============================================================================
