------------------------------ MODULE Packets ------------------------------
(***************************************************************************)
(* The life of the packets of one channel (modules/core/04-channel).       *)
(*                                                                         *)
(* Two chains keep the two ends of a channel.  A packet is committed on    *)
(* the chain that sends it, received on its peer, and then acknowledged or *)
(* timed out on the sender.  Nothing travels between the chains except     *)
(* proofs: whoever submits a message names a height of the peer that the   *)
(* light client holds, and the handler reads the peer's store as it was at *)
(* that height.  A proof may be arbitrarily old, messages come in any      *)
(* order, any number of times or never.                                    *)
(*                                                                         *)
(* history[c][h] is the store the header of height h of chain c commits    *)
(* to: the state after block h - 1, which is also the state block h starts *)
(* from.  The block being executed on c is number Len(history[c]).         *)
(*                                                                         *)
(* The model starts when chain "A" has executed ChanOpenInit and chain "B" *)
(* ChanOpenTry.  The connection below is OPEN on both chains by then and   *)
(* has no delay period.                                                    *)
(*                                                                         *)
(* An operator named WrongX is X with a bug that X could plausibly have.   *)
(* No action uses it: it shows that a property notices the bug.            *)
(***************************************************************************)
EXTENDS Integers, Sequences

CONSTANTS
  Ordering,       \* "ORDERED" or "UNORDERED"
  Timeouts,       \* the timeouts a packet may carry
  Senders,        \* the chains whose module sends packets
  TimeSteps,      \* what block time may advance by from block to block
  Replies,        \* what OnRecvPacket may return: "result", "error", "async"
  Fallible,       \* the chains whose light client may expire
  MaxSequence,    \* bound: packets sent on each chain
  MaxHeight,      \* bound: blocks of each chain
  ExtraBlocks     \* bound: further blocks, each committing something new

Chains == {"A", "B"}

\* 0 stands for an unset timeout; Packet.ValidateBasic wants one of the two set.
ASSUME PacketAssumptions ==
  /\ Ordering \in {"ORDERED", "UNORDERED"}
  /\ Timeouts \subseteq [height : Nat, timestamp : Nat]
  /\ \A t \in Timeouts : t.height # 0 \/ t.timestamp # 0
  /\ Senders \subseteq Chains
  /\ Replies \subseteq {"result", "error", "async"}
  /\ Fallible \subseteq Chains
  /\ TimeSteps \subseteq Nat \ {0}
  /\ MaxSequence \in Nat
  /\ MaxHeight \in [Chains -> Nat]
  /\ ExtraBlocks \in Nat

VARIABLES
  store,     \* the channel's part of each chain's store
  history,   \* the stores the headers of each chain commit to
  times,     \* the block times of each chain
  clients,   \* the heights of the peer that each chain's client knows
  active,    \* whether each chain's client is Active
  app        \* the callbacks the module on each chain has executed

vars == <<store, history, times, clients, active, app>>

Peer(c) == IF c = "A" THEN "B" ELSE "A"
Height(c) == Len(history[c])
Now(c) == times[c][Height(c)]
LatestHeight(c) == CHOOSE h \in clients[c] : \A k \in clients[c] : h >= k
EarliestHeight(c) == CHOOSE h \in clients[c] : \A k \in clients[c] : h <= k

SequenceNumbers == 1 .. MaxSequence
Packet == [sequence : SequenceNumbers, timeout : Timeouts]
Acks == {"result", "error"}
Zeroes == [s \in SequenceNumbers |-> 0]

Store ==
  [state : {"INIT", "TRYOPEN", "OPEN", "CLOSED"},
   linked : BOOLEAN,                  \* Counterparty.ChannelId is set
   nextSequenceSend : Nat \ {0}, nextSequenceRecv : Nat \ {0},
   nextSequenceAck : Nat \ {0},
   commitments : SUBSET Packet,
   receipts : SUBSET SequenceNumbers,
   acks : SUBSET (SequenceNumbers \X Acks)]

\* What the module on a chain has seen: the packets it sent, how often it has
\* applied each packet of the peer, and how often its own packets ended with a
\* success acknowledgement, an error acknowledgement or a timeout.
Module ==
  [sent : SUBSET Packet,
   applied : [SequenceNumbers -> Nat], confirmed : [SequenceNumbers -> Nat],
   errored : [SequenceNumbers -> Nat], timedOut : [SequenceNumbers -> Nat]]

NewEnd(state) ==
  [state |-> state, linked |-> state = "TRYOPEN",
   nextSequenceSend |-> 1, nextSequenceRecv |-> 1, nextSequenceAck |-> 1,
   commitments |-> {}, receipts |-> {}, acks |-> {}]

Init ==
  /\ store = [c \in Chains |-> NewEnd(IF c = "A" THEN "INIT" ELSE "TRYOPEN")]
  /\ history = [c \in Chains |-> <<store[c]>>]
  /\ times = [c \in Chains |-> <<1>>]
  /\ clients = [c \in Chains |-> {1}]
  /\ active = [c \in Chains |-> TRUE]
  /\ app = [c \in Chains |->
              [sent |-> {}, applied |-> Zeroes, confirmed |-> Zeroes,
               errored |-> Zeroes, timedOut |-> Zeroes]]

-----------------------------------------------------------------------------
\* A transaction on chain c commits: st is the channel's new store and m the
\* module's new state.
Commit(c, st, m) ==
  /\ store' = [store EXCEPT ![c] = st]
  /\ app' = [app EXCEPT ![c] = m]
  /\ UNCHANGED <<history, times, clients, active>>

-----------------------------------------------------------------------------
(* What a proof at height h lets chain c believe of its peer's store. *)

\* The Verify functions of 03-connection: the client must be Active and hold a
\* consensus state for the height.
CanVerify(c, h) == active[c] /\ h \in clients[c]

Proven(c, h) == history[Peer(c)][h]

Expired(p, h, t) ==
  \/ p.timeout.height # 0 /\ h >= p.timeout.height
  \/ p.timeout.timestamp # 0 /\ t >= p.timeout.timestamp

\* A store shows that the packet with sequence s has been received.
Received(st, s) ==
  IF Ordering = "ORDERED" THEN s < st.nextSequenceRecv ELSE s \in st.receipts

HasAck(st, s) == \E a \in Acks : <<s, a>> \in st.acks

\* The proof of non-receipt that both timeouts require.
WrongProvenUnreceived(c, h, p) ==
  IF Ordering = "ORDERED"
  THEN p.sequence >= Proven(c, h).nextSequenceRecv - 1
  ELSE p.sequence \notin Proven(c, h).receipts
ProvenUnreceived(c, h, p) == ~ Received(Proven(c, h), p.sequence)

-----------------------------------------------------------------------------
(* Opening and closing the channel. *)

WrongCanOpen(c) == TRUE
CanOpen(c) == store[c].state \in {"INIT", "TRYOPEN"}

ChanOpenAck(c) ==
  /\ CanOpen(c)
  /\ \E h \in clients[c] :
       /\ CanVerify(c, h)
       /\ Proven(c, h).state = "TRYOPEN"
       /\ Proven(c, h).linked
  /\ Commit(c, [store[c] EXCEPT !.state = "OPEN", !.linked = TRUE], app[c])

ChanOpenConfirm(c) ==
  /\ store[c].state = "TRYOPEN"
  /\ \E h \in clients[c] :
       /\ CanVerify(c, h)
       /\ Proven(c, h).state = "OPEN"
       /\ Proven(c, h).linked
  /\ Commit(c, [store[c] EXCEPT !.state = "OPEN"], app[c])

ChanCloseInit(c) ==
  /\ store[c].state # "CLOSED"
  /\ Commit(c, [store[c] EXCEPT !.state = "CLOSED"], app[c])

\* The proof is of an end CLOSED whose counterparty is this channel, looked up
\* under this end's counterparty identifier: both ends must be linked.
ProvenClosed(c, h) ==
  /\ store[c].linked
  /\ Proven(c, h).state = "CLOSED"
  /\ Proven(c, h).linked

ChanCloseConfirm(c) ==
  /\ store[c].state # "CLOSED"
  /\ \E h \in clients[c] : CanVerify(c, h) /\ ProvenClosed(c, h)
  /\ Commit(c, [store[c] EXCEPT !.state = "CLOSED"], app[c])

-----------------------------------------------------------------------------
(* Packets. *)

\* What the handlers write to the store.
RecordSend(st, p) ==
  [st EXCEPT !.nextSequenceSend = @ + 1, !.commitments = @ \cup {p}]
RecordRecv(st, s) ==
  IF Ordering = "ORDERED" THEN [st EXCEPT !.nextSequenceRecv = @ + 1]
                          ELSE [st EXCEPT !.receipts = @ \cup {s}]
RecordAck(st, s, ack) == [st EXCEPT !.acks = @ \cup {<<s, ack>>}]
ClearAcked(st, p) ==
  [st EXCEPT !.commitments = @ \ {p},
             !.nextSequenceAck = IF Ordering = "ORDERED" THEN @ + 1 ELSE @]
WrongClearTimedOut(st, p) ==
  [st EXCEPT !.state = IF Ordering = "ORDERED" THEN "CLOSED" ELSE @]
ClearTimedOut(st, p) ==
  [st EXCEPT !.commitments = @ \ {p},
             !.state = IF Ordering = "ORDERED" THEN "CLOSED" ELSE @]

\* What the sending of a packet and the callbacks do to the module.  The writes of
\* OnRecvPacket are discarded when the acknowledgement reports an error; "async" is the
\* nil acknowledgement.
\* A module that reports an error later has to undo what it did for the packet.
NoteSent(m, p) == [m EXCEPT !.sent = @ \cup {p}]
WrongOnRecvPacket(m, s, ack) ==
  [m EXCEPT !.applied[s] = IF ack = "result" THEN @ + 1 ELSE @]
OnRecvPacket(m, s, ack) ==
  [m EXCEPT !.applied[s] = IF ack # "error" THEN @ + 1 ELSE @]
UndoOnError(m, s, ack) == [m EXCEPT !.applied[s] = IF ack = "error" THEN 0 ELSE @]
OnAcknowledgementPacket(m, s, ack) ==
  IF ack = "result" THEN [m EXCEPT !.confirmed[s] = @ + 1]
                    ELSE [m EXCEPT !.errored[s] = @ + 1]
OnTimeoutPacket(m, s) == [m EXCEPT !.timedOut[s] = @ + 1]

SendPacket(c) ==
  \E timeout \in Timeouts :
    LET p == [sequence |-> store[c].nextSequenceSend, timeout |-> timeout] IN
    /\ c \in Senders
    /\ p.sequence <= MaxSequence
    /\ store[c].state # "CLOSED"
    /\ store[c].linked
    /\ active[c]
    /\ ~ Expired(p, LatestHeight(c), times[Peer(c)][LatestHeight(c)])
    /\ Commit(c, RecordSend(store[c], p), NoteSent(app[c], p))

\* The destination's own check of the timeout.
WrongTimedOutHere(c, p) == Expired(p, Height(c) - 1, Now(c))
TimedOutHere(c, p) == Expired(p, Height(c), Now(c))

\* The packet has not been received before and, on an ORDERED channel, is the
\* next one.
WrongFresh(c, p) == Ordering = "ORDERED" => p.sequence >= store[c].nextSequenceRecv
Fresh(c, p) ==
  IF Ordering = "ORDERED" THEN p.sequence = store[c].nextSequenceRecv
                          ELSE p.sequence \notin store[c].receipts

RecvPacket(c) ==
  \E p \in Packet, h \in clients[c], ack \in Replies :
    /\ store[c].state = "OPEN"
    /\ ~ TimedOutHere(c, p)
    /\ CanVerify(c, h)
    /\ p \in Proven(c, h).commitments
    /\ Fresh(c, p)
    /\ ack # "async" => ~ HasAck(store[c], p.sequence)
    /\ LET st == RecordRecv(store[c], p.sequence) IN
       Commit(c, IF ack = "async" THEN st ELSE RecordAck(st, p.sequence, ack),
                 OnRecvPacket(app[c], p.sequence, ack))

\* The module acknowledges a packet it received earlier.
WriteAcknowledgement(c) ==
  \E s \in SequenceNumbers, ack \in Acks :
    /\ "async" \in Replies
    /\ Received(store[c], s)
    /\ store[c].state = "OPEN"
    /\ ~ HasAck(store[c], s)
    /\ Commit(c, RecordAck(store[c], s, ack), UndoOnError(app[c], s, ack))

AcknowledgePacket(c) ==
  \E p \in store[c].commitments, h \in clients[c], ack \in Acks :
    /\ store[c].state = "OPEN"
    /\ CanVerify(c, h)
    /\ <<p.sequence, ack>> \in Proven(c, h).acks
    /\ Ordering = "ORDERED" => p.sequence = store[c].nextSequenceAck
    /\ Commit(c, ClearAcked(store[c], p),
                 OnAcknowledgementPacket(app[c], p.sequence, ack))

\* The callback and TimeoutExecuted.
ExecuteTimeout(c, p) ==
  Commit(c, ClearTimedOut(store[c], p), OnTimeoutPacket(app[c], p.sequence))

TimeoutPacket(c) ==
  \E p \in store[c].commitments, h \in clients[c] :
    /\ Expired(p, h, times[Peer(c)][h])
    /\ store[c].state = "OPEN"
    /\ CanVerify(c, h)
    /\ ProvenUnreceived(c, h, p)
    /\ ExecuteTimeout(c, p)

WrongTimeoutOnClose(c) ==
  \E p \in store[c].commitments, h \in clients[c] :
    /\ store[c].state = "OPEN"
    /\ CanVerify(c, h)
    /\ ProvenClosed(c, h)
    /\ ProvenUnreceived(c, h, p)
    /\ ExecuteTimeout(c, p)
TimeoutOnClose(c) ==
  \E p \in store[c].commitments, h \in clients[c] :
    /\ CanVerify(c, h)
    /\ ProvenClosed(c, h)
    /\ ProvenUnreceived(c, h, p)
    /\ ExecuteTimeout(c, p)

-----------------------------------------------------------------------------
(* The decorator that looks at a transaction before it gets into the mempool. *)

\* The packet messages that relayers can have for chain c.
PacketMsgs(c) ==
  ({"RecvPacket"} \X app[Peer(c)].sent)
    \cup ({"Acknowledgement", "Timeout", "TimeoutOnClose"} \X app[c].sent)

WrongRedundant(c, msg) ==
  IF msg[1] = "RecvPacket" THEN msg[2].sequence \in store[c].receipts
  ELSE \E p \in store[c].commitments : p.sequence = msg[2].sequence
Redundant(c, msg) ==
  IF msg[1] = "RecvPacket" THEN msg[2].sequence \in store[c].receipts
  ELSE ~ \E p \in store[c].commitments : p.sequence = msg[2].sequence

\* A transaction with these packet messages is refused, if all its other messages
\* update clients.
AnteHandleRefuses(c, msgs) == msgs # {} /\ \A msg \in msgs : Redundant(c, msg)

-----------------------------------------------------------------------------
(* Blocks and light clients. *)

NewBlock(c) ==
  /\ \/ Height(c) < MaxHeight[c]
     \/ /\ Height(c) < MaxHeight[c] + ExtraBlocks
        /\ store[c] # history[c][Height(c)]
  /\ history' = [history EXCEPT ![c] = Append(@, store[c])]
  /\ \E d \in TimeSteps : times' = [times EXCEPT ![c] = Append(@, Now(c) + d)]
  /\ UNCHANGED <<store, clients, active, app>>

\* An update may drop the earliest consensus state, once it has expired.  A header
\* is verified against a consensus state of a lower height that has not.
Prunable(c) ==
  {{}} \cup {{EarliestHeight(c)} : d \in Fallible \cap {c}}

WrongUpdateClient(c) ==
  /\ active[c]
  /\ \E pruned \in Prunable(c), h \in 1 .. Height(Peer(c)) + 1 :
       /\ h \notin clients[c]
       /\ \E trusted \in clients[c] \ pruned : trusted < h
       /\ clients' = [clients EXCEPT ![c] = (@ \ pruned) \cup {h}]
  /\ UNCHANGED <<store, history, times, active, app>>
UpdateClient(c) ==
  /\ active[c]
  /\ \E pruned \in Prunable(c), h \in 1 .. Height(Peer(c)) :
       /\ h \notin clients[c]
       /\ \E trusted \in clients[c] \ pruned : trusted < h
       /\ clients' = [clients EXCEPT ![c] = (@ \ pruned) \cup {h}]
  /\ UNCHANGED <<store, history, times, active, app>>

\* The trusting period has passed since the latest header.
ExpireClient(c) ==
  /\ c \in Fallible
  /\ active[c]
  /\ active' = [active EXCEPT ![c] = FALSE]
  /\ UNCHANGED <<store, history, times, clients, app>>

\* A governance proposal installs the latest state of a substitute client.
RecoverClient(c) ==
  /\ ~ active[c]
  /\ \E h \in 1 .. Height(Peer(c)) :
       /\ h > LatestHeight(c)
       /\ clients' = [clients EXCEPT ![c] = @ \cup {h}]
  /\ active' = [active EXCEPT ![c] = TRUE]
  /\ UNCHANGED <<store, history, times, app>>

-----------------------------------------------------------------------------
Next ==
  \E c \in Chains :
    \/ ChanOpenAck(c) \/ ChanOpenConfirm(c)
    \/ ChanCloseInit(c) \/ ChanCloseConfirm(c)
    \/ SendPacket(c) \/ RecvPacket(c) \/ WriteAcknowledgement(c)
    \/ AcknowledgePacket(c) \/ TimeoutPacket(c) \/ TimeoutOnClose(c)
    \/ NewBlock(c) \/ UpdateClient(c) \/ ExpireClient(c) \/ RecoverClient(c)

Spec == Init /\ [][Next]_vars

\* A relayer keeps submitting what can be submitted, blocks keep coming, and a
\* module acknowledges what it has received.  No module has to send or to close.
Fairness ==
  \A c \in Chains :
    /\ WF_vars(NewBlock(c)) /\ WF_vars(UpdateClient(c)) /\ WF_vars(RecoverClient(c))
    /\ WF_vars(ChanOpenAck(c)) /\ WF_vars(ChanOpenConfirm(c))
    /\ WF_vars(ChanCloseConfirm(c))
    /\ WF_vars(RecvPacket(c)) /\ WF_vars(WriteAcknowledgement(c))
    /\ WF_vars(AcknowledgePacket(c))
    /\ WF_vars(TimeoutPacket(c)) /\ WF_vars(TimeoutOnClose(c))

FairSpec == Spec /\ Fairness

-----------------------------------------------------------------------------
\* The variables have the types declared above, and clients only know heights
\* that the peer has reached.
TypeOK ==
  /\ store \in [Chains -> Store]
  /\ history \in [Chains -> Seq(Store)]
  /\ times \in [Chains -> Seq(Nat)]
  /\ clients \in [Chains -> SUBSET Nat]
  /\ active \in [Chains -> BOOLEAN]
  /\ app \in [Chains -> Module]
  /\ \A c \in Chains :
       /\ Len(history[c]) >= 1
       /\ Len(times[c]) = Len(history[c])
       /\ clients[c] \subseteq 1 .. Height(Peer(c))

\* What a packet did on the receiving chain and its refund on the sending chain
\* exclude each other: the module of the receiver keeps the effects of a packet
\* at most once, and never of one that its sender gave up as timed out or failed.
NoDeliveryAndRefund ==
  \A c \in Chains, s \in SequenceNumbers :
    app[Peer(c)].applied[s] + app[c].timedOut[s] + app[c].errored[s] <= 1

\* The sender runs one callback for a packet at most, and only then does the
\* commitment of the packet go away.
OneOutcomePerPacket ==
  \A c \in Chains : \A p \in app[c].sent :
    app[c].confirmed[p.sequence] + app[c].errored[p.sequence]
      + app[c].timedOut[p.sequence]
        = IF p \in store[c].commitments THEN 0 ELSE 1

\* A success acknowledgement reaches the sender only for a packet whose effects
\* the receiver has kept.
ConfirmedWasApplied ==
  \A c \in Chains, s \in SequenceNumbers :
    app[c].confirmed[s] > 0 => app[Peer(c)].applied[s] = 1

\* "If packet sequence n times out, then a packet at sequence k > n cannot be
\* received" (docs/ibc/readme.md): on an ORDERED channel, neither n nor a later
\* packet has been or ever will be received, even with proofs older than the
\* timeout, and none is acknowledged.
OrderedTimeoutIsFinal ==
  Ordering = "ORDERED" =>
    \A c \in Chains, n \in SequenceNumbers :
      app[c].timedOut[n] > 0 =>
        \A k \in n .. MaxSequence :
          /\ ~ Received(store[Peer(c)], k)
          /\ app[c].confirmed[k] + app[c].errored[k] = 0

StaysClosed(c) ==
  store[c].state = "CLOSED" =>
    /\ store'[c].state = "CLOSED"
    /\ store'[c].nextSequenceRecv = store[c].nextSequenceRecv
    /\ store'[c].receipts = store[c].receipts
    /\ store'[c].acks = store[c].acks
    /\ app'[c].sent = app[c].sent

\* "Once closed, channels cannot be reopened" (ChanCloseInit): a late handshake
\* message with an old proof does not reopen an end, and a closed end accepts no
\* packet, writes no acknowledgement and sends nothing.
ClosedIsFinal == [][\A c \in Chains : StaysClosed(c)]_vars

\* The callback that a message is for does not run.
NoCallback(c, msg) ==
  LET n == msg[2].sequence IN
  IF msg[1] = "RecvPacket" THEN app'[c].applied[n] <= app[c].applied[n]
  ELSE /\ app'[c].confirmed[n] = app[c].confirmed[n]
       /\ app'[c].errored[n] = app[c].errored[n]
       /\ app'[c].timedOut[n] = app[c].timedOut[n]

\* A transaction that the decorator refuses is of no use, now or later, although the
\* decorator sees the state of the last block only: the transaction stays refused, and
\* no callback runs any more for a packet in it.
RefusedStaysUseless ==
  [][\A c \in Chains : \A msgs \in SUBSET PacketMsgs(c) :
       AnteHandleRefuses(c, msgs) =>
         /\ AnteHandleRefuses(c, msgs)'
         /\ \A msg \in msgs : NoCallback(c, msg)]_vars

-----------------------------------------------------------------------------
(* The channel implements Delivery. *)

Sent(c, s) == s < store[c].nextSequenceSend

\* A combination of callbacks that Delivery does not know is "invalid".
StatusFrom(sent, received, applied, outcome) ==
  CASE ~ sent -> "unsent"
    [] sent /\ outcome = <<0, 0, 0>> /\ ~ received /\ applied = 0 -> "sent"
    [] sent /\ outcome = <<0, 0, 0>> /\ received /\ applied = 1 -> "applied"
    [] sent /\ outcome = <<0, 0, 0>> /\ received /\ applied = 0 -> "failed"
    [] sent /\ outcome = <<1, 0, 0>> /\ received /\ applied = 1 -> "confirmed"
    [] sent /\ outcome = <<0, 1, 0>> /\ received /\ applied = 0 -> "errored"
    [] sent /\ outcome = <<0, 0, 1>> /\ ~ received /\ applied = 0 -> "timedOut"
    [] OTHER -> "invalid"

Status(c, s) ==
  StatusFrom(Sent(c, s), Received(store[Peer(c)], s), app[Peer(c)].applied[s],
             <<app[c].confirmed[s], app[c].errored[s], app[c].timedOut[s]>>)

statuses == [c \in Chains |-> [s \in SequenceNumbers |-> Status(c, s)]]

Channel == INSTANCE Delivery WITH
  Ends <- Chains,
  Ordered <- (Ordering = "ORDERED"),
  LastSequence <- MaxSequence,
  status <- statuses

\* Whatever the relayer does with stale proofs, repeated messages and the order
\* of the two chains' blocks, every step of the handlers is a step of the
\* abstract channel or leaves it unchanged.
ImplementsDelivery == Channel!Spec

-----------------------------------------------------------------------------
(* Liveness. *)

Resolved(c, s) ==
  app[c].confirmed[s] + app[c].errored[s] + app[c].timedOut[s] > 0

\* Once ChanOpenAck has linked the ends, every packet sent gets its callback on
\* the sender, unless the packet was received and then one of the ends closed: the
\* acknowledgement of such a packet can no longer be processed.
EveryPacketResolves ==
  \A c \in Chains, s \in SequenceNumbers :
    (Sent(c, s) /\ \A d \in Chains : store[d].linked) ~>
      \/ Resolved(c, s)
      \/ /\ Received(store[Peer(c)], s)
         /\ \E d \in Chains : store[d].state = "CLOSED"

\* "If the timeout passes without the packet being successfully received, the
\* packet can no longer be received on the destination chain. The sending module
\* can timeout the packet" (docs/ibc/readme.md:244-245).
ExpiredPacketTimesOut ==
  \A c \in Chains : \A p \in Packet :
    (/\ p \in app[c].sent
     /\ Expired(p, Height(Peer(c)), Now(Peer(c)))
     /\ ~ Received(store[Peer(c)], p.sequence)) ~> Resolved(c, p.sequence)
=============================================================================
