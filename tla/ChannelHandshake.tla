-------------------------- MODULE ChannelHandshake --------------------------
(***************************************************************************)
(* The channel handshake (modules/core/04-channel/keeper/handshake.go and  *)
(* the handlers of modules/core/keeper/msg_server.go that call it).        *)
(*                                                                         *)
(* Two chains open any number of channels over one connection, which is    *)
(* OPEN on both.  Either chain may start, both may start at once (crossing *)
(* hellos), and several ends may answer one proposal.  Each step other     *)
(* than the first needs a proof of the channel end at the other chain; the *)
(* proof may show any end that a block of that chain has committed,        *)
(* however old.  The channel of chain c with identifier channel-{i-1} is   *)
(* ends[c][i].                                                             *)
(*                                                                         *)
(* The model leaves out the sequence numbers, which the first step on a    *)
(* chain sets to 1 (see Packets), and the capabilities, which are created  *)
(* with the end and authenticate the one module that owns its port.        *)
(*                                                                         *)
(* An operator named WrongX is X with a bug that X could plausibly have.   *)
(* No action uses it: it shows that a property notices the bug.            *)
(***************************************************************************)
EXTENDS Integers, Sequences

CONSTANTS
  Ports,         \* the ports modules have bound, on either chain
  Versions,      \* the application versions
  Proposals,     \* the ends that ChanOpenInit may be asked for
  Negotiate,     \* the versions OnChanOpenTry may return, on each chain
  MaxChannels    \* bound: channel ends created on each chain

Chains == {"A", "B"}
Peer(c) == IF c = "A" THEN "B" ELSE "A"

States == {"INIT", "TRYOPEN", "OPEN", "CLOSED"}
Orderings == {"ORDERED", "UNORDERED"}
None == 0        \* the empty channel identifier

End ==
  [state : States, ordering : Orderings, port : Ports,
   cpPort : Ports, cpChannel : Nat, version : Versions]

\* A counterparty identifier in MsgChannelOpenInit must be empty.
ASSUME HandshakeAssumptions ==
  /\ Proposals \subseteq [state : {"INIT"}, ordering : Orderings, port : Ports,
                           cpPort : Ports, cpChannel : {None}, version : Versions]
  /\ Negotiate \in [Chains -> [Versions -> SUBSET Versions]]
  /\ MaxChannels \in [Chains -> Nat]

VARIABLES
  ends,     \* the channel ends of each chain
  proofs    \* what blocks of each chain have committed: pairs of an
            \* identifier and an end

vars == <<ends, proofs>>

Init ==
  /\ ends = [c \in Chains |-> <<>>]
  /\ proofs = [c \in Chains |-> {}]

-----------------------------------------------------------------------------
CreateEnd(c, e) ==
  /\ Len(ends[c]) < MaxChannels[c]
  /\ ends' = [ends EXCEPT ![c] = Append(@, e)]
  /\ UNCHANGED proofs

SetEnd(c, i, e) ==
  /\ ends' = [ends EXCEPT ![c][i] = e]
  /\ UNCHANGED proofs

ChanOpenInit(c) == \E e \in Proposals : CreateEnd(c, e)

\* The end that ChanOpenTry answers proposal j of the peer with.
WrongAnswer(f, j, version) ==
  [state |-> "UNINITIALIZED", ordering |-> f.ordering, port |-> f.cpPort,
   cpPort |-> f.port, cpChannel |-> j, version |-> version]
Answer(f, j, version) ==
  [state |-> "TRYOPEN", ordering |-> f.ordering, port |-> f.cpPort,
   cpPort |-> f.port, cpChannel |-> j, version |-> version]

\* The end i of chain c proposes what f does: MsgChannelOpenTry may name it as
\* the previous channel.
WrongSameProposal(c, i, f) ==
  LET e == ends[c][i] IN
  /\ e.state = "INIT"
  /\ e.ordering = f.ordering
  /\ e.cpPort = f.port
  /\ e.port = f.cpPort
SameProposal(c, i, f) ==
  LET e == ends[c][i] IN
  /\ e.state = "INIT"
  /\ e.ordering = f.ordering
  /\ e.cpPort = f.port
  /\ e.cpChannel = None
  /\ e.version = f.version
  /\ e.port = f.cpPort

ChanOpenTry(c) ==
  \E proof \in proofs[Peer(c)] :
    LET j == proof[1]
        f == proof[2]
    IN  /\ f.state = "INIT"
        /\ f.cpChannel = None
        /\ \E version \in Negotiate[c][f.version] :
             \/ CreateEnd(c, Answer(f, j, version))
             \/ \E i \in DOMAIN ends[c] :
                  SameProposal(c, i, f) /\ SetEnd(c, i, Answer(f, j, version))

\* The proof shows the end the counterparty's end has to be, in the given state:
\* of the same ordering, at the counterparty port, with end i as counterparty.
WrongShows(c, i, f, state) ==
  LET e == ends[c][i] IN
  /\ f.state = state
  /\ f.ordering = e.ordering
  /\ f.port = e.cpPort
  /\ f.cpPort = e.port
Shows(c, i, f, state) ==
  LET e == ends[c][i] IN
  /\ f.state = state
  /\ f.ordering = e.ordering
  /\ f.port = e.cpPort
  /\ f.cpPort = e.port
  /\ f.cpChannel = i

WrongAckStates == States
WrongAckStatesInitOnly == {"INIT"}
AckStates == {"INIT", "TRYOPEN"}

\* The counterparty's identifier and version come from the message.
WrongChanOpenAck(c) ==
  \E i \in DOMAIN ends[c], proof \in proofs[Peer(c)] :
    /\ ends[c][i].state \in AckStates
    /\ Shows(c, i, proof[2], "TRYOPEN")
    /\ SetEnd(c, i, [ends[c][i] EXCEPT !.state = "OPEN",
                                       !.version = proof[2].version])
ChanOpenAck(c) ==
  \E i \in DOMAIN ends[c], proof \in proofs[Peer(c)] :
    /\ ends[c][i].state \in AckStates
    /\ Shows(c, i, proof[2], "TRYOPEN")
    /\ SetEnd(c, i, [ends[c][i] EXCEPT !.state = "OPEN",
                                       !.version = proof[2].version,
                                       !.cpChannel = proof[1]])

\* A proof about the counterparty channel this end already names.
ShowsCounterparty(c, i, proof, state) ==
  /\ proof[1] = ends[c][i].cpChannel
  /\ Shows(c, i, proof[2], state)
  /\ proof[2].version = ends[c][i].version

ChanOpenConfirm(c) ==
  \E i \in DOMAIN ends[c], proof \in proofs[Peer(c)] :
    /\ ends[c][i].state = "TRYOPEN"
    /\ ShowsCounterparty(c, i, proof, "OPEN")
    /\ SetEnd(c, i, [ends[c][i] EXCEPT !.state = "OPEN"])

ChanCloseInit(c) ==
  \E i \in DOMAIN ends[c] :
    /\ ends[c][i].state # "CLOSED"
    /\ SetEnd(c, i, [ends[c][i] EXCEPT !.state = "CLOSED"])

WrongChanCloseConfirm(c) ==
  \E i \in DOMAIN ends[c], proof \in proofs[Peer(c)] :
    /\ ends[c][i].state = "OPEN"
    /\ ShowsCounterparty(c, i, proof, "CLOSED")
    /\ SetEnd(c, i, [ends[c][i] EXCEPT !.state = "CLOSED"])
ChanCloseConfirm(c) ==
  \E i \in DOMAIN ends[c], proof \in proofs[Peer(c)] :
    /\ ends[c][i].state # "CLOSED"
    /\ ShowsCounterparty(c, i, proof, "CLOSED")
    /\ SetEnd(c, i, [ends[c][i] EXCEPT !.state = "CLOSED"])

\* A block ends: what the transactions in it left can be proven from now on.
NewBlock(c) ==
  LET committed == {<<i, ends[c][i]>> : i \in DOMAIN ends[c]} IN
  /\ ~ committed \subseteq proofs[c]
  /\ proofs' = [proofs EXCEPT ![c] = @ \cup committed]
  /\ UNCHANGED ends

Next ==
  \E c \in Chains :
    \/ ChanOpenInit(c) \/ ChanOpenTry(c) \/ ChanOpenAck(c) \/ ChanOpenConfirm(c)
    \/ ChanCloseInit(c) \/ ChanCloseConfirm(c) \/ NewBlock(c)

Spec == Init /\ [][Next]_vars

\* Blocks keep coming and a relayer submits the messages that complete what the
\* modules have begun.  Nobody has to begin a handshake or to close a channel.
Fairness ==
  \A c \in Chains :
    /\ WF_vars(NewBlock(c)) /\ WF_vars(ChanOpenAck(c))
    /\ WF_vars(ChanOpenConfirm(c)) /\ WF_vars(ChanCloseConfirm(c))

FairSpec == Spec /\ Fairness

-----------------------------------------------------------------------------
\* Ends have the type above, and a block commits ends that its chain has created.
TypeOK ==
  /\ ends \in [Chains -> Seq(End)]
  /\ DOMAIN proofs = Chains
  /\ \A c \in Chains :
       /\ Len(ends[c]) <= MaxChannels[c]
       /\ proofs[c] \subseteq (DOMAIN ends[c]) \X End

\* The end that end i of chain c names as its counterparty.
Linked(c, i) == ends[c][i].cpChannel \in DOMAIN ends[Peer(c)]
CounterpartyOf(c, i) == ends[Peer(c)][ends[c][i].cpChannel]
NamedBack(c, i) == Linked(c, i) /\ CounterpartyOf(c, i).cpChannel = i

\* No block has shown end i of chain c in INIT: it only answers a proposal.
Passive(c, i) ==
  /\ ends[c][i].state # "INIT"
  /\ \A proof \in proofs[c] : proof[1] = i => proof[2].state # "INIT"

\* An end that is OPEN names an end that exists, connects the same two ports the
\* other way round and has the same ordering, whatever the two chains proposed
\* to each other before and however stale the proofs were.
OpenEndsMatch ==
  \A c \in Chains : \A i \in DOMAIN ends[c] :
    ends[c][i].state = "OPEN" =>
      /\ Linked(c, i)
      /\ CounterpartyOf(c, i).ordering = ends[c][i].ordering
      /\ CounterpartyOf(c, i).port = ends[c][i].cpPort
      /\ CounterpartyOf(c, i).cpPort = ends[c][i].port

\* Several ends may answer one proposal, and the proposer settles with one: an end
\* that only answered is OPEN only if the proposer has opened with this very end,
\* under the same version.
AnswersArePaired ==
  \A c \in Chains : \A i \in DOMAIN ends[c] :
    ends[c][i].state = "OPEN" /\ Passive(c, i) =>
      /\ NamedBack(c, i)
      /\ CounterpartyOf(c, i).state \in {"OPEN", "CLOSED"}
      /\ CounterpartyOf(c, i).version = ends[c][i].version

\* "The version returned will be the channel version used for both channel ends"
\* (docs/ibc/apps.md:94, of OnChanOpenTry).
VersionsAgree ==
  \A c \in Chains : \A i \in DOMAIN ends[c] :
    ends[c][i].state = "OPEN" /\ NamedBack(c, i) =>
      (CounterpartyOf(c, i).state = "OPEN" =>
        CounterpartyOf(c, i).version = ends[c][i].version)

Rank(state) ==
  CASE state = "INIT" -> 1 [] state = "TRYOPEN" -> 2
    [] state = "OPEN" -> 3 [] state = "CLOSED" -> 4

\* An end only moves forward, keeps its ports and ordering, and once it is OPEN
\* also its counterparty and version: a late ChanOpenTry or ChanOpenAck with an
\* old proof does not turn an end that is in use over to another counterparty.
EndsOnlyAdvance ==
  [][\A c \in Chains : \A i \in DOMAIN ends[c] :
       LET old == ends[c][i]
           new == ends'[c][i]
       IN  /\ Rank(old.state) <= Rank(new.state)
           /\ [new EXCEPT !.state = old.state] # old =>
                /\ old.state \in {"INIT", "TRYOPEN"}
                /\ old.state # new.state
           /\ new.ordering = old.ordering
           /\ new.port = old.port /\ new.cpPort = old.cpPort]_vars

\* End i of chain c has answered a proposal that is not settled with another end.
Trying(c, i) ==
  /\ i \in DOMAIN ends[c]
  /\ ends[c][i].state = "TRYOPEN"
  /\ CounterpartyOf(c, i).state \in {"INIT", "TRYOPEN"} \/ NamedBack(c, i)

\* With a relayer at work, an end in TRYOPEN does not stay there: it opens or
\* closes, unless the end it answers closed or opened with another end first.
TriesComplete ==
  \A c \in Chains : \A i \in 1 .. MaxChannels[c] : Trying(c, i) ~> ~ Trying(c, i)

HalfClosed(c, i) ==
  /\ i \in DOMAIN ends[c]
  /\ ends[c][i].state = "CLOSED"
  /\ NamedBack(c, i)
  /\ CounterpartyOf(c, i).state # "CLOSED"

\* Closing one of two ends that name each other closes the other one too, unless
\* that one has not opened yet and goes on to open with another end.
ClosePropagates ==
  \A c \in Chains : \A i \in 1 .. MaxChannels[c] : HalfClosed(c, i) ~> ~ HalfClosed(c, i)
=============================================================================
