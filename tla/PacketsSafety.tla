-------------------------- MODULE PacketsSafety -----------------------------
(***************************************************************************)
(* Proofs about Packets, for every set of timeouts, every bound and both   *)
(* orderings: type correctness and what its writes and callbacks change;   *)
(* the inductive invariant, which relates the present stores, the stores   *)
(* that proofs can still show, and what the modules have been told; the    *)
(* safety properties, which follow from it; and that the channel of        *)
(* Packets implements Delivery.                                            *)
(***************************************************************************)
EXTENDS Packets, TLAPS

\* Leaves are proved by Zenon unless they name another prover.
USE Zenon

-----------------------------------------------------------------------------
LEMMA PeerFacts ==
  \A c \in Chains : /\ Peer(c) \in Chains
                    /\ Peer(c) # c
                    /\ Peer(Peer(c)) = c
                    /\ \A d \in Chains : d # c => d = Peer(c)
BY DEF Chains, Peer

LEMMA Singleton ==
  ASSUME NEW S, NEW x \in S
  PROVE  <<x>> \in Seq(S) /\ Len(<<x>>) = 1 /\ <<x>>[1] = x
BY SMT

LEMMA ChainType ==
  ASSUME TypeOK, NEW c \in Chains
  PROVE  /\ store[c] \in Store
         /\ app[c] \in Module
         /\ history[c] \in Seq(Store)
         /\ times[c] \in Seq(Nat)
         /\ Height(c) \in Nat \ {0}
         /\ Len(times[c]) = Height(c)
         /\ Now(c) \in Nat
         /\ clients[c] \subseteq 1 .. Height(Peer(c))
BY SMT DEF TypeOK, Height, Now

LEMMA CommitType ==
  ASSUME TypeOK, NEW c \in Chains, NEW st \in Store, NEW m \in Module, Commit(c, st, m)
  PROVE  TypeOK'
BY DEF TypeOK, Height, Commit

\* The new state of the end, in each of the four handshake handlers.
LEMMA OpenedFields ==
  ASSUME NEW st \in Store, NEW s \in {"OPEN", "CLOSED"}
  PROVE  LET n == [st EXCEPT !.state = s] IN
         /\ n \in Store /\ n.state = s
         /\ n.nextSequenceSend = st.nextSequenceSend
         /\ n.nextSequenceRecv = st.nextSequenceRecv
         /\ n.commitments = st.commitments
         /\ n.receipts = st.receipts
         /\ n.acks = st.acks
BY DEF Store

LEMMA LinkedFields ==
  ASSUME NEW st \in Store
  PROVE  LET n == [st EXCEPT !.state = "OPEN", !.linked = TRUE] IN
         /\ n \in Store /\ n.state = "OPEN"
         /\ n.nextSequenceSend = st.nextSequenceSend
         /\ n.nextSequenceRecv = st.nextSequenceRecv
         /\ n.commitments = st.commitments
         /\ n.receipts = st.receipts
         /\ n.acks = st.acks
BY DEF Store

\* The fields that the writes of the handlers change.
LEMMA RecordSendFields ==
  ASSUME NEW st \in Store, NEW p \in Packet
  PROVE  LET n == RecordSend(st, p) IN
         /\ n \in Store
         /\ n.state = st.state
         /\ n.nextSequenceSend = st.nextSequenceSend + 1
         /\ n.nextSequenceRecv = st.nextSequenceRecv
         /\ n.commitments = st.commitments \cup {p}
         /\ n.receipts = st.receipts
         /\ n.acks = st.acks
<1>1. st.nextSequenceSend + 1 \in Nat \ {0} /\ st.commitments \cup {p} \in SUBSET Packet
  BY SMT DEF Store
<1> QED
  BY <1>1 DEF Store, RecordSend

LEMMA RecordRecvFields ==
  ASSUME NEW st \in Store, NEW s \in SequenceNumbers
  PROVE  LET n == RecordRecv(st, s) IN
         /\ n \in Store
         /\ n.state = st.state
         /\ n.nextSequenceSend = st.nextSequenceSend
         /\ n.nextSequenceRecv = IF Ordering = "ORDERED" THEN st.nextSequenceRecv + 1
                                                         ELSE st.nextSequenceRecv
         /\ n.commitments = st.commitments
         /\ n.receipts = IF Ordering = "ORDERED" THEN st.receipts ELSE st.receipts \cup {s}
         /\ n.acks = st.acks
<1>1. st.nextSequenceRecv + 1 \in Nat \ {0} /\ st.receipts \cup {s} \in SUBSET SequenceNumbers
  BY SMT DEF Store
<1>2. CASE Ordering = "ORDERED"
  BY <1>1, <1>2 DEF Store, RecordRecv
<1>3. CASE Ordering # "ORDERED"
  BY <1>1, <1>3 DEF Store, RecordRecv
<1> QED
  BY <1>2, <1>3

LEMMA RecordAckFields ==
  ASSUME NEW st \in Store, NEW s \in SequenceNumbers, NEW ack \in Acks
  PROVE  LET n == RecordAck(st, s, ack) IN
         /\ n \in Store
         /\ n.state = st.state
         /\ n.nextSequenceSend = st.nextSequenceSend
         /\ n.nextSequenceRecv = st.nextSequenceRecv
         /\ n.commitments = st.commitments
         /\ n.receipts = st.receipts
         /\ n.acks = st.acks \cup {<<s, ack>>}
<1>1. st.acks \cup {<<s, ack>>} \in SUBSET (SequenceNumbers \X Acks)
  BY SMT DEF Store
<1> QED
  BY <1>1 DEF Store, RecordAck

LEMMA ClearAckedFields ==
  ASSUME NEW st \in Store, NEW p \in Packet
  PROVE  LET n == ClearAcked(st, p) IN
         /\ n \in Store
         /\ n.state = st.state
         /\ n.nextSequenceSend = st.nextSequenceSend
         /\ n.nextSequenceRecv = st.nextSequenceRecv
         /\ n.commitments = st.commitments \ {p}
         /\ n.receipts = st.receipts
         /\ n.acks = st.acks
<1> DEFINE na == IF Ordering = "ORDERED" THEN st.nextSequenceAck + 1 ELSE st.nextSequenceAck
<1>1. na \in Nat \ {0} /\ st.commitments \ {p} \in SUBSET Packet
  BY SMT DEF Store
<1> QED
  BY <1>1 DEF Store, ClearAcked

LEMMA ClearTimedOutFields ==
  ASSUME NEW st \in Store, NEW p \in Packet
  PROVE  LET n == ClearTimedOut(st, p) IN
         /\ n \in Store
         /\ n.state = IF Ordering = "ORDERED" THEN "CLOSED" ELSE st.state
         /\ n.nextSequenceSend = st.nextSequenceSend
         /\ n.nextSequenceRecv = st.nextSequenceRecv
         /\ n.commitments = st.commitments \ {p}
         /\ n.receipts = st.receipts
         /\ n.acks = st.acks
<1>1. st.commitments \ {p} \in SUBSET Packet
  BY DEF Store
<1> QED
  BY <1>1 DEF Store, ClearTimedOut

\* The counters that the callbacks change.
LEMMA NoteSentFields ==
  ASSUME NEW m \in Module, NEW p \in Packet
  PROVE  LET n == NoteSent(m, p) IN
         /\ n \in Module
         /\ n.sent = m.sent \cup {p}
         /\ n.applied = m.applied
         /\ n.confirmed = m.confirmed
         /\ n.errored = m.errored
         /\ n.timedOut = m.timedOut
BY DEF Module, NoteSent

LEMMA OnRecvPacketFields ==
  ASSUME NEW m \in Module, NEW s \in SequenceNumbers, NEW ack
  PROVE  LET n == OnRecvPacket(m, s, ack) IN
         /\ n \in Module
         /\ n.sent = m.sent
         /\ n.applied[s] = IF ack # "error" THEN m.applied[s] + 1 ELSE m.applied[s]
         /\ \A t \in SequenceNumbers : t # s => n.applied[t] = m.applied[t]
         /\ n.confirmed = m.confirmed
         /\ n.errored = m.errored
         /\ n.timedOut = m.timedOut
<1> DEFINE v == IF ack # "error" THEN m.applied[s] + 1 ELSE m.applied[s]
<1>1. v \in Nat
  BY SMT DEF Module
<1> QED
  BY <1>1 DEF Module, OnRecvPacket

LEMMA UndoOnErrorFields ==
  ASSUME NEW m \in Module, NEW s \in SequenceNumbers, NEW ack
  PROVE  LET n == UndoOnError(m, s, ack) IN
         /\ n \in Module
         /\ n.sent = m.sent
         /\ n.applied[s] = IF ack = "error" THEN 0 ELSE m.applied[s]
         /\ \A t \in SequenceNumbers : t # s => n.applied[t] = m.applied[t]
         /\ n.confirmed = m.confirmed
         /\ n.errored = m.errored
         /\ n.timedOut = m.timedOut
BY DEF Module, UndoOnError

LEMMA OnAcknowledgementPacketFields ==
  ASSUME NEW m \in Module, NEW s \in SequenceNumbers, NEW ack
  PROVE  LET n == OnAcknowledgementPacket(m, s, ack) IN
         /\ n \in Module
         /\ n.sent = m.sent
         /\ n.applied = m.applied
         /\ n.confirmed[s] = IF ack = "result" THEN m.confirmed[s] + 1 ELSE m.confirmed[s]
         /\ n.errored[s] = IF ack = "result" THEN m.errored[s] ELSE m.errored[s] + 1
         /\ \A t \in SequenceNumbers : t # s =>
              n.confirmed[t] = m.confirmed[t] /\ n.errored[t] = m.errored[t]
         /\ n.timedOut = m.timedOut
<1>1. CASE ack = "result"
  BY <1>1, SMT DEF Module, OnAcknowledgementPacket
<1>2. CASE ack # "result"
  BY <1>2, SMT DEF Module, OnAcknowledgementPacket
<1> QED
  BY <1>1, <1>2

LEMMA OnTimeoutPacketFields ==
  ASSUME NEW m \in Module, NEW s \in SequenceNumbers
  PROVE  LET n == OnTimeoutPacket(m, s) IN
         /\ n \in Module
         /\ n.sent = m.sent
         /\ n.applied = m.applied
         /\ n.confirmed = m.confirmed
         /\ n.errored = m.errored
         /\ n.timedOut[s] = m.timedOut[s] + 1
         /\ \A t \in SequenceNumbers : t # s => n.timedOut[t] = m.timedOut[t]
BY SMT DEF Module, OnTimeoutPacket

LEMMA InitType == Init => TypeOK
<1> SUFFICES ASSUME Init PROVE TypeOK
  OBVIOUS
<1>1. Zeroes \in [SequenceNumbers -> Nat]
  BY DEF Zeroes
<1>2. \A c \in Chains : app[c] \in Module
  BY <1>1 DEF Init, Module
<1>3. \A c \in Chains : store[c] \in Store
  BY SMT DEF Init, NewEnd, Store
<1>4. \A c \in Chains : history[c] = <<store[c]>> /\ times[c] = <<1>> /\ clients[c] = {1}
  BY DEF Init
<1>5. \A c \in Chains : history[c] \in Seq(Store) /\ Len(history[c]) = 1
  <2> TAKE c \in Chains
  <2>1. <<store[c]>> \in Seq(Store) /\ Len(<<store[c]>>) = 1
    BY <1>3, Singleton
  <2> QED
    BY <1>4, <2>1
<1>6. \A c \in Chains : times[c] \in Seq(Nat) /\ Len(times[c]) = 1
  <2>1. 1 \in Nat
    OBVIOUS
  <2> QED
    BY <2>1, <1>4, Singleton
<1>7. store \in [Chains -> Store] /\ history \in [Chains -> Seq(Store)]
      /\ times \in [Chains -> Seq(Nat)] /\ active \in [Chains -> BOOLEAN]
      /\ app \in [Chains -> Module]
  BY <1>2, <1>3, <1>5, <1>6 DEF Init
<1>8. \A c \in Chains : clients[c] \subseteq 1 .. Height(Peer(c))
  <2> TAKE c \in Chains
  <2>1. Height(Peer(c)) = 1
    BY <1>5, PeerFacts DEF Height
  <2> QED
    BY <1>4, <2>1, SMT
<1>9. \A c \in Chains : Len(history[c]) >= 1 /\ Len(times[c]) = Len(history[c])
  BY <1>5, <1>6, SMT
<1>10. clients \in [Chains -> SUBSET Nat]
  BY SMT DEF Init
<1> QED
  BY <1>7, <1>8, <1>9, <1>10 DEF TypeOK

\* The packet of SendPacket is a packet, and its number is the next one.
LEMMA SentPacket ==
  ASSUME TypeOK, NEW c \in Chains, SendPacket(c)
  PROVE  \E p \in Packet : /\ p.sequence = store[c].nextSequenceSend
                           /\ store[c].state # "CLOSED"
                           /\ Commit(c, RecordSend(store[c], p), NoteSent(app[c], p))
<1>1. PICK timeout \in Timeouts :
        LET p == [sequence |-> store[c].nextSequenceSend, timeout |-> timeout] IN
        /\ p.sequence <= MaxSequence
        /\ store[c].state # "CLOSED"
        /\ Commit(c, RecordSend(store[c], p), NoteSent(app[c], p))
  BY DEF SendPacket
<1> DEFINE p == [sequence |-> store[c].nextSequenceSend, timeout |-> timeout]
<1>2. p \in Packet /\ p.sequence = store[c].nextSequenceSend
  BY <1>1, ChainType, PacketAssumptions, SMT DEF Packet, SequenceNumbers, Store
<1>3. store[c].state # "CLOSED" /\ Commit(c, RecordSend(store[c], p), NoteSent(app[c], p))
  BY <1>1
<1> HIDE DEF p
<1> QED
  BY <1>2, <1>3

LEMMA NextType == TypeOK /\ [Next]_vars => TypeOK'
<1> SUFFICES ASSUME TypeOK, [Next]_vars PROVE TypeOK'
  OBVIOUS
<1>1. CASE UNCHANGED vars
  BY <1>1 DEF vars, TypeOK, Height
<1>2. ASSUME NEW c \in Chains, ChanOpenAck(c) PROVE TypeOK'
  BY <1>2, ChainType, OpenedFields, LinkedFields, CommitType DEF ChanOpenAck
<1>3. ASSUME NEW c \in Chains, ChanOpenConfirm(c) PROVE TypeOK'
  BY <1>3, ChainType, OpenedFields, LinkedFields, CommitType DEF ChanOpenConfirm
<1>4. ASSUME NEW c \in Chains, ChanCloseInit(c) \/ ChanCloseConfirm(c) PROVE TypeOK'
  BY <1>4, ChainType, OpenedFields, LinkedFields, CommitType DEF ChanCloseInit, ChanCloseConfirm
<1>5. ASSUME NEW c \in Chains, SendPacket(c) PROVE TypeOK'
  <2>1. PICK p \in Packet : Commit(c, RecordSend(store[c], p), NoteSent(app[c], p))
    BY <1>5, SentPacket
  <2> QED
    BY <2>1, ChainType, RecordSendFields, NoteSentFields, CommitType
<1>6. ASSUME NEW c \in Chains, RecvPacket(c) PROVE TypeOK'
  <2>1. PICK s \in SequenceNumbers, ack \in Replies, st \in Store :
          Commit(c, st, OnRecvPacket(app[c], s, ack))
    <3>1. PICK p \in Packet, ack \in Replies :
            LET st == RecordRecv(store[c], p.sequence) IN
            Commit(c, IF ack = "async" THEN st ELSE RecordAck(st, p.sequence, ack),
                      OnRecvPacket(app[c], p.sequence, ack))
      BY <1>6 DEF RecvPacket
    <3>2. p.sequence \in SequenceNumbers /\ (ack # "async" => ack \in Acks)
      BY PacketAssumptions DEF Packet, Acks
    <3>3. RecordRecv(store[c], p.sequence) \in Store
      BY <3>2, ChainType, RecordRecvFields
    <3>4. ack # "async" => RecordAck(RecordRecv(store[c], p.sequence), p.sequence, ack) \in Store
      BY <3>2, <3>3, RecordAckFields
    <3> QED
      BY <3>1, <3>2, <3>3, <3>4
  <2>2. OnRecvPacket(app[c], s, ack) \in Module
    BY ChainType, OnRecvPacketFields
  <2> QED
    BY <2>1, <2>2, CommitType
<1>7. ASSUME NEW c \in Chains, WriteAcknowledgement(c) PROVE TypeOK'
  BY <1>7, ChainType, RecordAckFields, UndoOnErrorFields, CommitType DEF WriteAcknowledgement
<1>8. \A c \in Chains : store[c].commitments \subseteq Packet
  BY ChainType DEF Store
<1>9. ASSUME NEW c \in Chains, AcknowledgePacket(c) PROVE TypeOK'
  <2>1. PICK p \in store[c].commitments, ack \in Acks :
          Commit(c, ClearAcked(store[c], p), OnAcknowledgementPacket(app[c], p.sequence, ack))
    BY <1>9 DEF AcknowledgePacket
  <2>2. p \in Packet /\ p.sequence \in SequenceNumbers
    BY <1>8 DEF Packet
  <2>3. ClearAcked(store[c], p) \in Store
    BY <2>2, ChainType, ClearAckedFields
  <2>4. OnAcknowledgementPacket(app[c], p.sequence, ack) \in Module
    BY <2>2, ChainType, OnAcknowledgementPacketFields
  <2> QED
    BY <2>1, <2>3, <2>4, CommitType
<1>10. ASSUME NEW c \in Chains, TimeoutPacket(c) \/ TimeoutOnClose(c) PROVE TypeOK'
  <2>1. PICK p \in store[c].commitments : ExecuteTimeout(c, p)
    BY <1>10 DEF TimeoutPacket, TimeoutOnClose
  <2>2. p \in Packet /\ p.sequence \in SequenceNumbers
    BY <1>8 DEF Packet
  <2>3. ClearTimedOut(store[c], p) \in Store
    BY <2>2, ChainType, ClearTimedOutFields
  <2>4. OnTimeoutPacket(app[c], p.sequence) \in Module
    BY <2>2, ChainType, OnTimeoutPacketFields
  <2> QED
    BY <2>1, <2>3, <2>4, CommitType DEF ExecuteTimeout
<1>11. ASSUME NEW c \in Chains, NewBlock(c) PROVE TypeOK'
  <2>1. PICK d \in TimeSteps : times' = [times EXCEPT ![c] = Append(@, Now(c) + d)]
    BY <1>11 DEF NewBlock
  <2>2. Now(c) + d \in Nat
    BY ChainType, PacketAssumptions, SMT
  <2>3. history' = [history EXCEPT ![c] = Append(@, store[c])]
        /\ UNCHANGED <<store, clients, active, app>>
    BY <1>11 DEF NewBlock
  <2>4. history' \in [Chains -> Seq(Store)] /\ times' \in [Chains -> Seq(Nat)]
    BY <2>1, <2>2, <2>3, ChainType, SMT DEF TypeOK
  <2>5. \A x \in Chains : Len(history'[x]) >= Len(history[x])
                          /\ Len(times'[x]) = Len(history'[x])
    BY <2>1, <2>2, <2>3, ChainType, SMT DEF TypeOK
  <2> QED
    BY <2>3, <2>4, <2>5, PeerFacts, SMT DEF TypeOK, Height
<1>12. ASSUME NEW c \in Chains, UpdateClient(c) PROVE TypeOK'
  <2>1. PICK pruned \in Prunable(c), h \in 1 .. Height(Peer(c)) :
               clients' = [clients EXCEPT ![c] = (@ \ pruned) \cup {h}]
    BY <1>12 DEF UpdateClient
  <2>2. /\ clients' \in [Chains -> SUBSET Nat]
        /\ clients'[c] \subseteq clients[c] \cup {h}
        /\ \A x \in Chains : x # c => clients'[x] = clients[x]
    BY <2>1, SMT DEF TypeOK, Height
  <2>3. \A x \in Chains : clients'[x] \subseteq 1 .. Height(Peer(x))
    BY <2>1, <2>2 DEF TypeOK
  <2> QED
    BY <1>12, <2>2, <2>3 DEF UpdateClient, Height, TypeOK
<1>13. ASSUME NEW c \in Chains, ExpireClient(c) PROVE TypeOK'
  BY <1>13 DEF ExpireClient, Height, TypeOK
<1>14. ASSUME NEW c \in Chains, RecoverClient(c) PROVE TypeOK'
  <2>1. PICK h \in 1 .. Height(Peer(c)) : clients' = [clients EXCEPT ![c] = @ \cup {h}]
    BY <1>14 DEF RecoverClient
  <2>2. /\ clients' \in [Chains -> SUBSET Nat]
        /\ clients'[c] = clients[c] \cup {h}
        /\ \A x \in Chains : x # c => clients'[x] = clients[x]
    BY <2>1, SMT DEF TypeOK, Height
  <2>3. \A x \in Chains : clients'[x] \subseteq 1 .. Height(Peer(x))
    BY <2>1, <2>2 DEF TypeOK
  <2>4. active' \in [Chains -> BOOLEAN] /\ UNCHANGED <<store, history, times, app>>
    BY <1>14 DEF RecoverClient, TypeOK
  <2> QED
    BY <2>2, <2>3, <2>4 DEF Height, TypeOK
<1> QED
  BY <1>1, <1>2, <1>3, <1>4, <1>5, <1>6, <1>7, <1>9, <1>10, <1>11, <1>12, <1>13, <1>14
     DEF Next

\* The variables keep their types through every handler, and a client only ever
\* knows heights that its peer has reached.
THEOREM TypeCorrect == Spec => []TypeOK
BY InitType, NextType, PTL DEF Spec

-----------------------------------------------------------------------------
(* The inductive invariant. *)

\* Block times do not decrease.
Clock ==
  \A c \in Chains : \A i, j \in 1 .. Height(c) : i <= j => times[c][i] <= times[c][j]

\* A store o that a proof can show is not ahead of the present store n, and an
\* end that was CLOSED has received nothing since.
Older(o, n) ==
  /\ o.nextSequenceRecv <= n.nextSequenceRecv
  /\ o.receipts \subseteq n.receipts
  /\ o.acks \subseteq n.acks
  /\ o.state = "CLOSED" => /\ n.state = "CLOSED"
                           /\ n.nextSequenceRecv = o.nextSequenceRecv
                           /\ n.receipts = o.receipts

Snapshots ==
  \A c \in Chains : \A i \in 1 .. Height(c) :
    /\ Older(history[c][i], store[c])
    /\ history[c][i].commitments \subseteq app[c].sent

\* One packet has been sent under each sequence number below the next one, and
\* nothing has happened to the other numbers on either chain.
SendsOf(c) ==
  /\ store[c].commitments \subseteq app[c].sent
  /\ \A p \in app[c].sent : p.sequence < store[c].nextSequenceSend
  /\ \A p, q \in app[c].sent : p.sequence = q.sequence => p = q
  /\ \A s \in SequenceNumbers : s < store[c].nextSequenceSend =>
       \E p \in app[c].sent : p.sequence = s
  /\ \A s \in SequenceNumbers : s >= store[c].nextSequenceSend =>
       /\ app[c].confirmed[s] = 0 /\ app[c].errored[s] = 0 /\ app[c].timedOut[s] = 0
       /\ ~ Received(store[Peer(c)], s)
Sends == \A c \in Chains : SendsOf(c)

\* A packet that has been received was received before any block at which it
\* counts as expired: the store of such a block shows the receipt.
InTime(c, p) ==
  Received(store[Peer(c)], p.sequence) =>
    \A h \in 1 .. Height(Peer(c)) :
      Expired(p, h, times[Peer(c)][h]) => Received(history[Peer(c)][h], p.sequence)
ReceivedInTime == \A c \in Chains : \A p \in app[c].sent : InTime(c, p)

\* A packet that has timed out has not been received and cannot be any more: it
\* is expired at its destination, or the destination is closed.
OutOfTime(c, p) ==
  app[c].timedOut[p.sequence] > 0 =>
    /\ ~ Received(store[Peer(c)], p.sequence)
    /\ Expired(p, Height(Peer(c)), Now(Peer(c))) \/ store[Peer(c)].state = "CLOSED"
TimedOutForGood == \A c \in Chains : \A p \in app[c].sent : OutOfTime(c, p)

\* Only received packets have acknowledgements and effects, and both agree.
EffectsOf(c, s) ==
  /\ ~ Received(store[c], s) => app[c].applied[s] = 0 /\ ~ HasAck(store[c], s)
  /\ <<s, "error">> \in store[c].acks =>
       app[c].applied[s] = 0 /\ <<s, "result">> \notin store[c].acks
  /\ Received(store[c], s) /\ <<s, "error">> \notin store[c].acks =>
       app[c].applied[s] = 1
Effects == \A c \in Chains : \A s \in SequenceNumbers : EffectsOf(c, s)

\* The callbacks of the sender were given acknowledgements that the receiver wrote.
CallbacksOf(c, s) ==
  /\ app[c].confirmed[s] > 0 => <<s, "result">> \in store[Peer(c)].acks
  /\ app[c].errored[s] > 0 => <<s, "error">> \in store[Peer(c)].acks
Callbacks == \A c \in Chains : \A s \in SequenceNumbers : CallbacksOf(c, s)

IInv ==
  /\ TypeOK /\ Clock /\ Snapshots /\ Sends /\ OneOutcomePerPacket
  /\ ReceivedInTime /\ TimedOutForGood /\ Effects /\ Callbacks

-----------------------------------------------------------------------------
(* Facts the steps share. *)

LEMMA ExpiredStays ==
  ASSUME NEW p \in Packet, NEW h \in Nat, NEW i \in Nat, NEW t \in Nat, NEW u \in Nat,
         h <= i, t <= u, Expired(p, h, t)
  PROVE  Expired(p, i, u)
<1>1. p.timeout.height \in Nat /\ p.timeout.timestamp \in Nat
  BY PacketAssumptions DEF Packet
<1> QED
  BY <1>1, SMT DEF Expired

LEMMA OlderTransitive ==
  ASSUME NEW a \in Store, NEW b \in Store, NEW c \in Store, Older(a, b), Older(b, c)
  PROVE  Older(a, c)
<1>1. /\ a.nextSequenceRecv \in Nat /\ b.nextSequenceRecv \in Nat /\ c.nextSequenceRecv \in Nat
  BY DEF Store
<1> QED
  BY <1>1, SMT DEF Older

\* What is expired at a height the peer has reached is expired there now.
LEMMA ExpiredNow ==
  ASSUME TypeOK, Clock, NEW c \in Chains, NEW p \in Packet, NEW h \in 1 .. Height(c),
         Expired(p, h, times[c][h])
  PROVE  Expired(p, Height(c), Now(c))
<1>1. Height(c) \in Nat \ {0} /\ Len(times[c]) = Height(c) /\ times[c] \in Seq(Nat)
  BY ChainType
<1>2. h \in Nat /\ h <= Height(c) /\ times[c][h] \in Nat /\ Now(c) \in Nat
  BY <1>1, SMT DEF Now
<1>3. times[c][h] <= Now(c)
  BY <1>1, <1>2, SMT DEF Clock, Now
<1> QED
  BY <1>1, <1>2, <1>3, ExpiredStays

LEMMA Recorded ==
  ASSUME NEW st \in Store, NEW s \in SequenceNumbers,
         IF Ordering = "ORDERED" THEN s = st.nextSequenceRecv ELSE s \notin st.receipts
  PROVE  /\ ~ Received(st, s)
         /\ \A t \in SequenceNumbers :
              Received(RecordRecv(st, s), t) <=> t = s \/ Received(st, t)
<1>1. s \in Nat /\ st.nextSequenceRecv \in Nat /\ SequenceNumbers \subseteq Nat
  BY SMT DEF SequenceNumbers, Store
<1>2. CASE Ordering = "ORDERED"
  BY <1>1, <1>2, RecordRecvFields, SMT DEF Received
<1>3. CASE Ordering # "ORDERED"
  BY <1>3, RecordRecvFields, SMT DEF Received
<1> QED
  BY <1>2, <1>3

LEMMA CommitFrame ==
  ASSUME TypeOK, NEW c \in Chains, NEW st, NEW m, Commit(c, st, m)
  PROVE  /\ store'[c] = st
         /\ app'[c] = m
         /\ store'[Peer(c)] = store[Peer(c)]
         /\ app'[Peer(c)] = app[Peer(c)]
         /\ \A d \in Chains : d = c \/ d = Peer(c)
         /\ history' = history
         /\ times' = times
BY PeerFacts DEF TypeOK, Commit

LEMMA CommitClock ==
  ASSUME Clock, NEW c, NEW st, NEW m, Commit(c, st, m)
  PROVE  Clock'
BY DEF Clock, Height, Commit

LEMMA CommitSnapshots ==
  ASSUME TypeOK, Snapshots, NEW c \in Chains, NEW st \in Store, NEW m \in Module,
         Commit(c, st, m), Older(store[c], st), app[c].sent \subseteq m.sent
  PROVE  Snapshots'
<1> SUFFICES ASSUME NEW d \in Chains, NEW i \in 1 .. Height(d)
             PROVE  /\ Older(history[d][i], store'[d])
                    /\ history[d][i].commitments \subseteq app'[d].sent
  BY CommitFrame, SMT DEF Snapshots, Height, Older
<1>1. Older(history[d][i], store[d]) /\ history[d][i].commitments \subseteq app[d].sent
  BY DEF Snapshots
<1>2. history[d][i] \in Store /\ store[d] \in Store
  BY ChainType, SMT DEF Height
<1>3. CASE d = c
  <2>1. store'[c] = st /\ app'[c] = m
    BY CommitFrame, SMT
  <2>2. Older(history[d][i], st)
    BY <1>1, <1>2, <1>3, OlderTransitive
  <2> QED
    BY <1>1, <1>3, <2>1, <2>2
<1>4. CASE d # c
  <2>1. store'[d] = store[d] /\ app'[d] = app[d]
    BY <1>4, CommitFrame
  <2> QED
    BY <1>1, <2>1
<1> QED
  BY <1>3, <1>4

-----------------------------------------------------------------------------
(* Each step keeps the invariant. *)

\* A handshake step changes only the state of an end, and never a CLOSED one.
LEMMA HandshakeStep ==
  ASSUME IInv, NEW c \in Chains, NEW st \in Store, Commit(c, st, app[c]),
         st.nextSequenceSend = store[c].nextSequenceSend,
         st.nextSequenceRecv = store[c].nextSequenceRecv,
         st.commitments = store[c].commitments,
         st.receipts = store[c].receipts,
         st.acks = store[c].acks,
         store[c].state = "CLOSED" => st.state = "CLOSED"
  PROVE  IInv'
<1> DEFINE d == Peer(c)
<1>1. TypeOK /\ Clock /\ Snapshots /\ store[c] \in Store /\ app[c] \in Module
  BY ChainType DEF IInv
<1>2. TypeOK' /\ Clock'
  BY <1>1, CommitType, CommitClock
<1>3. /\ store'[c] = st /\ store'[d] = store[d]
      /\ app'[c] = app[c] /\ app'[d] = app[d]
      /\ history' = history /\ times' = times
      /\ \A x \in Chains : x = c \/ x = d
  BY <1>1, CommitFrame
<1>4. Snapshots'
  <2>1. store[c].nextSequenceRecv \in Nat
    BY <1>1 DEF Store
  <2>2. Older(store[c], st)
    BY <2>1, SMT DEF Older
  <2> QED
    BY <1>1, <2>2, CommitSnapshots
<1>5. d \in Chains /\ Peer(d) = c
  BY PeerFacts
<1> HIDE DEF d
<1>6. /\ \A x \in Chains : /\ app'[x] = app[x]
                           /\ store'[x].nextSequenceSend = store[x].nextSequenceSend
                           /\ store'[x].nextSequenceRecv = store[x].nextSequenceRecv
                           /\ store'[x].commitments = store[x].commitments
                           /\ store'[x].receipts = store[x].receipts
                           /\ store'[x].acks = store[x].acks
                           /\ store[x].state = "CLOSED" => store'[x].state = "CLOSED"
  BY <1>3
<1>7. \A x \in Chains : \A s \in SequenceNumbers :
         Received(store'[x], s) <=> Received(store[x], s)
  BY <1>6 DEF Received
<1>8. \A x \in Chains : Peer(x) \in Chains
  BY PeerFacts
<1>9. Sends'
  BY <1>6, <1>7, <1>8, SMT DEF IInv, Sends, SendsOf
<1>10. OneOutcomePerPacket'
  BY <1>6, SMT DEF IInv, OneOutcomePerPacket
<1>11. \A x \in Chains : \A p \in app[x].sent : p.sequence \in SequenceNumbers
  BY <1>1, ChainType, SMT DEF Module, Packet
<1>12. ReceivedInTime'
  BY <1>3, <1>6, <1>7, <1>8, <1>11 DEF IInv, ReceivedInTime, InTime, Height
<1>13. TimedOutForGood'
  BY <1>3, <1>6, <1>7, <1>8, <1>11 DEF IInv, TimedOutForGood, OutOfTime, Height, Now
<1>14. Effects'
  <2>1. \A x \in Chains : \A s \in SequenceNumbers : HasAck(store'[x], s) <=> HasAck(store[x], s)
    BY <1>6 DEF HasAck
  <2>2. ASSUME NEW x \in Chains, NEW s \in SequenceNumbers PROVE EffectsOf(x, s)'
    <3>1. EffectsOf(x, s)
      BY DEF IInv, Effects
    <3>2. app'[x] = app[x] /\ store'[x].acks = store[x].acks
      BY <1>6
    <3> QED
      BY <1>7, <2>1, <3>1, <3>2 DEF EffectsOf
  <2> QED
    BY <2>2 DEF Effects
<1>15. Callbacks'
  BY <1>6, <1>8 DEF IInv, Callbacks, CallbacksOf
<1> QED
  BY <1>2, <1>4, <1>9, <1>10, <1>12, <1>13, <1>14, <1>15 DEF IInv

\* Conjuncts that do not mention what a step changes.
LEMMA SameEffects ==
  ASSUME Effects, NEW x \in Chains,
         app'[x].applied = app[x].applied,
         store'[x].nextSequenceRecv = store[x].nextSequenceRecv,
         store'[x].receipts = store[x].receipts,
         store'[x].acks = store[x].acks
  PROVE  \A s \in SequenceNumbers : EffectsOf(x, s)'
<1> TAKE s \in SequenceNumbers
<1>1. EffectsOf(x, s)
  BY DEF Effects
<1>2. (Received(store'[x], s) <=> Received(store[x], s))
      /\ (HasAck(store'[x], s) <=> HasAck(store[x], s))
  BY DEF Received, HasAck
<1> QED
  BY <1>1, <1>2 DEF EffectsOf

LEMMA SameSends ==
  ASSUME NEW x \in Chains, SendsOf(x),
         app'[x].sent = app[x].sent,
         store'[x].nextSequenceSend = store[x].nextSequenceSend,
         store'[x].commitments \subseteq store[x].commitments,
         \A s \in SequenceNumbers : s >= store[x].nextSequenceSend =>
           /\ app'[x].confirmed[s] = app[x].confirmed[s]
           /\ app'[x].errored[s] = app[x].errored[s]
           /\ app'[x].timedOut[s] = app[x].timedOut[s]
           /\ ~ Received(store'[Peer(x)], s)
  PROVE  SendsOf(x)'
BY DEF SendsOf

LEMMA SentTypes ==
  ASSUME TypeOK, NEW c \in Chains
  PROVE  /\ app[c].sent \subseteq Packet
         /\ store[c].commitments \subseteq Packet
         /\ \A p \in Packet : p.sequence \in SequenceNumbers
         /\ SequenceNumbers \subseteq Nat
         /\ store[c].nextSequenceSend \in Nat
         /\ store[c].nextSequenceRecv \in Nat
         /\ \A s \in SequenceNumbers : /\ app[c].applied[s] \in Nat
                                       /\ app[c].confirmed[s] \in Nat
                                       /\ app[c].errored[s] \in Nat
                                       /\ app[c].timedOut[s] \in Nat
<1>1. app[c] \in Module /\ store[c] \in Store
  BY ChainType
<1>2. /\ app[c].sent \subseteq Packet
      /\ \A s \in SequenceNumbers : /\ app[c].applied[s] \in Nat
                                    /\ app[c].confirmed[s] \in Nat
                                    /\ app[c].errored[s] \in Nat
                                    /\ app[c].timedOut[s] \in Nat
  BY <1>1 DEF Module
<1>3. /\ store[c].commitments \subseteq Packet
      /\ store[c].nextSequenceSend \in Nat
      /\ store[c].nextSequenceRecv \in Nat
  BY <1>1 DEF Store
<1>4. (\A p \in Packet : p.sequence \in SequenceNumbers) /\ SequenceNumbers \subseteq Nat
  BY SMT DEF Packet, SequenceNumbers
<1> QED
  BY <1>2, <1>3, <1>4

LEMMA SameInTime ==
  ASSUME NEW x \in Chains, NEW p, InTime(x, p),
         history' = history, times' = times,
         store'[Peer(x)].nextSequenceRecv = store[Peer(x)].nextSequenceRecv,
         store'[Peer(x)].receipts = store[Peer(x)].receipts
  PROVE  InTime(x, p)'
<1>1. Received(store'[Peer(x)], p.sequence) <=> Received(store[Peer(x)], p.sequence)
  BY DEF Received
<1> QED
  BY <1>1 DEF InTime, Height

LEMMA SameOutOfTime ==
  ASSUME NEW x \in Chains, NEW p, OutOfTime(x, p),
         history' = history, times' = times,
         app'[x].timedOut[p.sequence] = app[x].timedOut[p.sequence],
         store'[Peer(x)].nextSequenceRecv = store[Peer(x)].nextSequenceRecv,
         store'[Peer(x)].receipts = store[Peer(x)].receipts,
         store[Peer(x)].state = "CLOSED" => store'[Peer(x)].state = "CLOSED"
  PROVE  OutOfTime(x, p)'
<1>1. Received(store'[Peer(x)], p.sequence) <=> Received(store[Peer(x)], p.sequence)
  BY DEF Received
<1> QED
  BY <1>1 DEF OutOfTime, Height, Now

LEMMA SendStep ==
  ASSUME IInv, NEW c \in Chains, SendPacket(c)
  PROVE  IInv'
<1> DEFINE d == Peer(c)
<1>1. TypeOK /\ Clock /\ Snapshots /\ Sends /\ store[c] \in Store /\ app[c] \in Module
  BY ChainType DEF IInv
<1>2. PICK p \in Packet : /\ p.sequence = store[c].nextSequenceSend
                          /\ Commit(c, RecordSend(store[c], p), NoteSent(app[c], p))
  BY <1>1, SentPacket
<1> DEFINE st == RecordSend(store[c], p)
           m == NoteSent(app[c], p)
<1>3. /\ st \in Store
      /\ st.state = store[c].state
      /\ st.nextSequenceSend = store[c].nextSequenceSend + 1
      /\ st.nextSequenceRecv = store[c].nextSequenceRecv
      /\ st.commitments = store[c].commitments \cup {p}
      /\ st.receipts = store[c].receipts
      /\ st.acks = store[c].acks
  BY <1>1, RecordSendFields
<1>4. /\ m \in Module
      /\ m.sent = app[c].sent \cup {p}
      /\ m.applied = app[c].applied
      /\ m.confirmed = app[c].confirmed
      /\ m.errored = app[c].errored
      /\ m.timedOut = app[c].timedOut
  BY <1>1, NoteSentFields
<1>5. Commit(c, st, m)
  BY <1>2
<1> HIDE DEF st, m
<1>6. /\ store'[c] = st /\ store'[d] = store[d]
      /\ app'[c] = m /\ app'[d] = app[d]
      /\ history' = history /\ times' = times
      /\ \A x \in Chains : x = c \/ x = d
  BY <1>1, <1>5, CommitFrame, SMT
<1>7. d \in Chains /\ Peer(d) = c /\ Peer(c) = d
  BY PeerFacts
<1> HIDE DEF d
<1>8. TypeOK' /\ Clock'
  BY <1>1, <1>3, <1>4, <1>5, CommitType, CommitClock
<1>9. Snapshots'
  <2>1. Older(store[c], st)
    BY <1>1, <1>3, SentTypes, SMT DEF Older
  <2> QED
    BY <1>1, <1>3, <1>4, <1>5, <2>1, CommitSnapshots
<1>10. /\ \A s \in SequenceNumbers : Received(store'[c], s) <=> Received(store[c], s)
       /\ \A s \in SequenceNumbers : Received(store'[d], s) <=> Received(store[d], s)
  BY <1>3, <1>6 DEF Received
<1>11. SendsOf(c) /\ SendsOf(d)
  BY <1>1, <1>7 DEF Sends
<1>12. /\ app[c].confirmed[p.sequence] = 0 /\ app[c].errored[p.sequence] = 0
       /\ app[c].timedOut[p.sequence] = 0 /\ ~ Received(store[d], p.sequence)
  <2>1. p.sequence \in SequenceNumbers /\ p.sequence >= store[c].nextSequenceSend
    BY <1>1, <1>2, SentTypes, SMT
  <2> QED
    BY <1>7, <1>11, <2>1 DEF SendsOf
<1>13. /\ p.sequence \in Nat /\ p.sequence = store[c].nextSequenceSend
       /\ \A q \in app[c].sent : /\ q.sequence \in SequenceNumbers /\ q.sequence \in Nat
                                  /\ q.sequence < p.sequence /\ q # p
  <2>1. p.sequence \in Nat /\ p.sequence = store[c].nextSequenceSend
    BY <1>1, <1>2, SentTypes
  <2>2. \A q \in app[c].sent : q.sequence \in SequenceNumbers /\ q.sequence \in Nat
    BY <1>1, SentTypes
  <2>3. \A q \in app[c].sent : q.sequence < p.sequence
    BY <1>11, <2>1 DEF SendsOf
  <2> QED
    BY <2>1, <2>2, <2>3, SMT
<1>14. Sends'
  <2>1. SendsOf(c)'
    <3>1. /\ store'[c].commitments \subseteq app'[c].sent
          /\ \A q \in app'[c].sent : q.sequence < store'[c].nextSequenceSend
      <4>1. store[c].commitments \subseteq app[c].sent
        BY <1>11 DEF SendsOf
      <4>2. \A n \in Nat : n < p.sequence => n < p.sequence + 1
        BY <1>13, SMT
      <4> QED
        BY <1>3, <1>4, <1>6, <1>13, <4>1, <4>2, SMT
    <3>2. \A q, r \in app'[c].sent : q.sequence = r.sequence => q = r
      <4>1. \A q, r \in app[c].sent : q.sequence = r.sequence => q = r
        BY <1>11 DEF SendsOf
      <4>2. \A q \in app[c].sent : q.sequence # p.sequence
        BY <1>13, SMT
      <4> QED
        BY <1>4, <1>6, <4>1, <4>2
    <3>3. ASSUME NEW s \in SequenceNumbers, s < store'[c].nextSequenceSend
          PROVE  \E q \in app'[c].sent : q.sequence = s
      <4>1. CASE s = p.sequence
        BY <1>4, <1>6, <4>1
      <4>2. CASE s # p.sequence
        <5>1. s < store[c].nextSequenceSend
          <6>1. s \in Nat /\ s < p.sequence + 1
            BY <1>1, <1>3, <1>6, <1>13, <3>3, SentTypes
          <6> QED
            BY <1>13, <4>2, <6>1, SMT
        <5> QED
          BY <1>4, <1>6, <1>11, <5>1 DEF SendsOf
      <4> QED
        BY <4>1, <4>2
    <3>4. ASSUME NEW s \in SequenceNumbers, s >= store'[c].nextSequenceSend
          PROVE  /\ app'[c].confirmed[s] = 0 /\ app'[c].errored[s] = 0 /\ app'[c].timedOut[s] = 0
                 /\ ~ Received(store'[d], s)
      <4>1. s >= store[c].nextSequenceSend
        BY <1>1, <1>3, <1>6, <3>4, SentTypes, SMT
      <4>2. /\ app[c].confirmed[s] = 0 /\ app[c].errored[s] = 0 /\ app[c].timedOut[s] = 0
            /\ ~ Received(store[d], s)
        BY <1>7, <1>11, <4>1 DEF SendsOf
      <4> QED
        BY <1>4, <1>6, <4>2
    <3> QED
      BY <1>7, <3>1, <3>2, <3>3, <3>4 DEF SendsOf
  <2>2. SendsOf(d)'
    BY <1>6, <1>7, <1>10, <1>11 DEF SendsOf
  <2> QED
    BY <1>6, <2>1, <2>2 DEF Sends
<1>15. OneOutcomePerPacket'
  <2>1. \A q \in app[c].sent : q \in st.commitments <=> q \in store[c].commitments
    BY <1>3, <1>13
  <2>2. p \in st.commitments
    BY <1>3
  <2>3. ASSUME NEW q \in m.sent
        PROVE  m.confirmed[q.sequence] + m.errored[q.sequence] + m.timedOut[q.sequence]
                 = IF q \in st.commitments THEN 0 ELSE 1
    <3>1. CASE q = p
      BY <1>4, <1>12, <2>2, <3>1, SMT
    <3>2. CASE q \in app[c].sent
      BY <1>4, <2>1, <3>2 DEF IInv, OneOutcomePerPacket
    <3> QED
      BY <1>4, <3>1, <3>2
  <2>4. \A q \in app[d].sent :
          app[d].confirmed[q.sequence] + app[d].errored[q.sequence] + app[d].timedOut[q.sequence]
            = IF q \in store[d].commitments THEN 0 ELSE 1
    BY <1>7 DEF IInv, OneOutcomePerPacket
  <2> QED
    BY <1>6, <2>3, <2>4 DEF OneOutcomePerPacket
<1>16. ReceivedInTime'
  <2>1. \A q \in app[c].sent : InTime(c, q)'
    BY <1>6, <1>7, SameInTime DEF IInv, ReceivedInTime
  <2>2. InTime(c, p)'
    BY <1>6, <1>7, <1>12 DEF InTime
  <2>3. \A q \in app[d].sent : InTime(d, q)'
    BY <1>3, <1>6, <1>7, SameInTime DEF IInv, ReceivedInTime
  <2> QED
    BY <1>4, <1>6, <2>1, <2>2, <2>3 DEF ReceivedInTime
<1>17. TimedOutForGood'
  <2>1. \A q \in app[c].sent : OutOfTime(c, q)'
    <3>1. \A q \in app[c].sent : OutOfTime(c, q)
      BY DEF IInv, TimedOutForGood
    <3> QED
      BY <1>4, <1>6, <1>7, <3>1, SameOutOfTime
  <2>2. OutOfTime(c, p)'
    BY <1>4, <1>6, <1>12, SMT DEF OutOfTime
  <2>3. \A q \in app[d].sent : OutOfTime(d, q)'
    BY <1>3, <1>6, <1>7, SameOutOfTime DEF IInv, TimedOutForGood
  <2> QED
    BY <1>4, <1>6, <2>1, <2>2, <2>3 DEF TimedOutForGood
<1>18. Effects'
  <2>1. Effects
    BY DEF IInv
  <2>2. \A s \in SequenceNumbers : EffectsOf(c, s)'
    BY <1>3, <1>4, <1>6, <2>1, SameEffects
  <2>3. \A s \in SequenceNumbers : EffectsOf(d, s)'
    BY <1>6, <1>7, <2>1, SameEffects
  <2> QED
    BY <1>6, <2>2, <2>3 DEF Effects
<1>19. Callbacks'
  <2>1. /\ \A s \in SequenceNumbers : CallbacksOf(c, s)
        /\ \A s \in SequenceNumbers : CallbacksOf(d, s)
    BY <1>7 DEF IInv, Callbacks
  <2>2. /\ \A s \in SequenceNumbers : CallbacksOf(c, s)'
        /\ \A s \in SequenceNumbers : CallbacksOf(d, s)'
    BY <1>3, <1>4, <1>6, <1>7, <2>1 DEF CallbacksOf
  <2> QED
    BY <1>6, <2>2 DEF Callbacks
<1> QED
  BY <1>8, <1>9, <1>14, <1>15, <1>16, <1>17, <1>18, <1>19 DEF IInv

LEMMA NewBlockStep ==
  ASSUME IInv, NEW c \in Chains, NewBlock(c)
  PROVE  IInv'
<1> DEFINE d == Peer(c)
<1>1. /\ TypeOK /\ Clock /\ Snapshots /\ Sends /\ OneOutcomePerPacket
      /\ ReceivedInTime /\ TimedOutForGood /\ Effects /\ Callbacks
  BY DEF IInv
<1>2. TypeOK'
  BY <1>1, NextType DEF Next
<1>3. d \in Chains /\ Peer(d) = c /\ Peer(c) = d /\ d # c /\ \A x \in Chains : x = c \/ x = d
  BY PeerFacts
<1> HIDE DEF d
<1>4. PICK dt \in TimeSteps : times' = [times EXCEPT ![c] = Append(@, Now(c) + dt)]
  BY DEF NewBlock
<1>5. /\ history' = [history EXCEPT ![c] = Append(@, store[c])]
      /\ store' = store /\ app' = app
  BY DEF NewBlock
<1>6. /\ history[c] \in Seq(Store) /\ times[c] \in Seq(Nat) /\ store[c] \in Store
      /\ Height(c) \in Nat \ {0} /\ Len(history[c]) = Height(c) /\ Len(times[c]) = Height(c)
      /\ Now(c) \in Nat
  BY <1>1, ChainType DEF Height
<1>7. dt \in Nat /\ Now(c) + dt \in Nat /\ Now(c) + dt >= Now(c)
  BY <1>6, PacketAssumptions, SMT
<1>8. /\ Len(history'[c]) = Height(c) + 1
      /\ history'[c][Height(c) + 1] = store[c]
      /\ \A i \in 1 .. Height(c) : history'[c][i] = history[c][i]
  BY <1>1, <1>5, <1>6, SMT DEF TypeOK
<1>9. /\ times'[c][Height(c) + 1] = Now(c) + dt
      /\ \A i \in 1 .. Height(c) : times'[c][i] = times[c][i]
  BY <1>1, <1>4, <1>6, <1>7, SMT DEF TypeOK
<1>10. history'[d] = history[d] /\ times'[d] = times[d]
  BY <1>1, <1>3, <1>4, <1>5 DEF TypeOK
<1>11. \A i \in 1 .. Height(c) + 1 : i \in 1 .. Height(c) \/ i = Height(c) + 1
  BY <1>6, SMT
<1>12. \A i \in 1 .. Height(c) : times[c][i] \in Nat /\ times[c][i] <= Now(c)
  BY <1>1, <1>6, SMT DEF Clock, Now
<1>13. Clock'
  <2>1. ASSUME NEW i \in 1 .. Height(c) + 1, NEW j \in 1 .. Height(c) + 1, i <= j
        PROVE  times'[c][i] <= times'[c][j]
    <3>1. CASE i \in 1 .. Height(c) /\ j \in 1 .. Height(c)
      <4>1. times[c][i] <= times[c][j]
        BY <1>1, <2>1, <3>1 DEF Clock
      <4> QED
        BY <1>9, <3>1, <4>1
    <3>2. CASE i \in 1 .. Height(c) /\ j = Height(c) + 1
      <4>1. times'[c][i] = times[c][i] /\ times'[c][j] = Now(c) + dt
        BY <1>9, <3>2
      <4>2. times[c][i] \in Nat /\ times[c][i] <= Now(c)
        BY <1>12, <3>2
      <4> QED
        BY <1>6, <1>7, <4>1, <4>2, SMT
    <3>3. CASE i = Height(c) + 1
      <4>1. j = i
        BY <1>6, <2>1, <3>3, SMT
      <4> QED
        BY <1>7, <1>9, <3>3, <4>1, SMT
    <3> QED
      BY <1>11, <3>1, <3>2, <3>3
  <2>2. \A i, j \in 1 .. Len(history[d]) : i <= j => times[d][i] <= times[d][j]
    BY <1>1, <1>3 DEF Clock, Height
  <2> QED
    BY <1>3, <1>8, <1>10, <2>1, <2>2 DEF Clock, Height
<1>14. Snapshots'
  <2>1. ASSUME NEW i \in 1 .. Height(c) + 1
        PROVE  Older(history'[c][i], store[c]) /\ history'[c][i].commitments \subseteq app[c].sent
    <3>1. CASE i \in 1 .. Height(c)
      BY <1>1, <1>8, <3>1 DEF Snapshots
    <3>2. CASE i = Height(c) + 1
      <4>1. store[c].nextSequenceRecv \in Nat /\ store[c].commitments \subseteq app[c].sent
        BY <1>1, SentTypes DEF Sends, SendsOf
      <4>2. Older(store[c], store[c])
        BY <4>1, SMT DEF Older
      <4> QED
        BY <1>8, <3>2, <4>1, <4>2
    <3> QED
      BY <1>11, <3>1, <3>2
  <2>2. \A i \in 1 .. Len(history[d]) :
          Older(history[d][i], store[d]) /\ history[d][i].commitments \subseteq app[d].sent
    BY <1>1, <1>3 DEF Snapshots, Height
  <2>3. ASSUME NEW x \in Chains, NEW i \in 1 .. Len(history'[x])
        PROVE  /\ Older(history'[x][i], store'[x])
               /\ history'[x][i].commitments \subseteq app'[x].sent
    <3>1. CASE x = c
      BY <1>5, <1>8, <2>1, <3>1
    <3>2. CASE x = d
      BY <1>5, <1>10, <2>2, <3>2
    <3> QED
      BY <1>3, <3>1, <3>2
  <2> QED
    BY <2>3 DEF Snapshots, Older, Height
<1>15. Sends' /\ OneOutcomePerPacket' /\ Effects' /\ Callbacks'
  <2>1. Sends'
    BY <1>1, <1>5 DEF Sends, SendsOf
  <2>2. OneOutcomePerPacket'
    BY <1>1, <1>5 DEF OneOutcomePerPacket
  <2>3. Effects' /\ Callbacks'
    BY <1>1, <1>5 DEF Effects, EffectsOf, Callbacks, CallbacksOf
  <2> QED
    BY <2>1, <2>2, <2>3
<1>16. ReceivedInTime'
  <2>1. ASSUME NEW p \in app[d].sent PROVE InTime(d, p)'
    <3>1. InTime(d, p)
      BY <1>1, <1>3 DEF ReceivedInTime
    <3>2. ASSUME NEW h \in 1 .. Height(c) + 1, Received(store[c], p.sequence),
                 Expired(p, h, times'[c][h])
          PROVE  Received(history'[c][h], p.sequence)
      <4>1. CASE h \in 1 .. Height(c)
        BY <1>3, <1>8, <1>9, <3>1, <3>2, <4>1 DEF InTime
      <4>2. CASE h = Height(c) + 1
        BY <1>8, <3>2, <4>2
      <4> QED
        BY <1>11, <4>1, <4>2
    <3> QED
      BY <1>3, <1>5, <1>8, <3>2 DEF InTime, Height
  <2>2. ASSUME NEW p \in app[c].sent PROVE InTime(c, p)'
    BY <1>1, <1>3, <1>5, <1>10 DEF ReceivedInTime, InTime, Height
  <2> QED
    BY <1>3, <1>5, <2>1, <2>2 DEF ReceivedInTime
<1>17. TimedOutForGood'
  <2>1. ASSUME NEW p \in app[d].sent PROVE OutOfTime(d, p)'
    <3>1. OutOfTime(d, p)
      BY <1>1, <1>3 DEF TimedOutForGood
    <3>2. p \in Packet
      BY <1>1, <1>3, SentTypes
    <3>3. Expired(p, Height(c), Now(c)) => Expired(p, Height(c) + 1, Now(c) + dt)
      BY <1>6, <1>7, <3>2, ExpiredStays, SMT
    <3>4. Height(c)' = Height(c) + 1 /\ Now(c)' = Now(c) + dt
      BY <1>8, <1>9 DEF Height, Now
    <3> QED
      BY <1>3, <1>5, <3>1, <3>3, <3>4 DEF OutOfTime
  <2>2. ASSUME NEW p \in app[c].sent PROVE OutOfTime(c, p)'
    BY <1>1, <1>3, <1>5, <1>10 DEF TimedOutForGood, OutOfTime, Height, Now
  <2> QED
    BY <1>3, <1>5, <2>1, <2>2 DEF TimedOutForGood
<1> QED
  BY <1>2, <1>13, <1>14, <1>15, <1>16, <1>17 DEF IInv

\* The other conjuncts do not depend on what the clients know.
LEMMA ClientStep ==
  ASSUME IInv, TypeOK', UNCHANGED <<store, history, times, app>>
  PROVE  IInv'
<1>1. Clock' /\ Snapshots'
  BY SMT DEF IInv, Clock, Snapshots, Older, Height
<1>2. Sends' /\ OneOutcomePerPacket' /\ Effects' /\ Callbacks'
  <2>1. Sends'
    BY DEF IInv, Sends, SendsOf
  <2>2. OneOutcomePerPacket'
    BY DEF IInv, OneOutcomePerPacket
  <2>3. Effects' /\ Callbacks'
    BY DEF IInv, Effects, EffectsOf, Callbacks, CallbacksOf
  <2> QED
    BY <2>1, <2>2, <2>3
<1>3. ReceivedInTime' /\ TimedOutForGood'
  BY DEF IInv, ReceivedInTime, InTime, TimedOutForGood, OutOfTime, Height, Now
<1> QED
  BY <1>1, <1>2, <1>3 DEF IInv

LEMMA InitInv == Init => IInv
<1> SUFFICES ASSUME Init PROVE IInv
  OBVIOUS
<1>1. TypeOK
  BY InitType
<1>2. /\ \A c \in Chains : history[c] = <<store[c]>> /\ times[c] = <<1>> /\ Height(c) = 1
      /\ \A c \in Chains : store[c].commitments = {} /\ store[c].receipts = {}
                           /\ store[c].acks = {} /\ store[c].nextSequenceSend = 1
                           /\ store[c].nextSequenceRecv = 1
      /\ \A c \in Chains : app[c].sent = {} /\ app[c].applied = Zeroes
                           /\ app[c].confirmed = Zeroes /\ app[c].errored = Zeroes
                           /\ app[c].timedOut = Zeroes
  BY DEF Init, NewEnd, Height
<1>3. Clock
  BY <1>2, SMT DEF Clock
<1>4. Snapshots
  <2>1. \A c \in Chains : \A i \in 1 .. Height(c) : history[c][i] = store[c]
    BY <1>2, SMT
  <2> QED
    BY <1>2, <2>1, SMT DEF Snapshots, Older
<1>5. \A s \in SequenceNumbers : Zeroes[s] = 0 /\ s \in Nat /\ s >= 1
  BY SMT DEF Zeroes, SequenceNumbers
<1>6. \A c \in Chains, s \in SequenceNumbers : ~ Received(store[c], s)
  BY <1>2, <1>5, SMT DEF Received
<1>7. Sends
  <2>1. \A c \in Chains, s \in SequenceNumbers : ~ (s < store[c].nextSequenceSend)
    BY <1>2, <1>5, SMT
  <2>2. \A c \in Chains, s \in SequenceNumbers : ~ Received(store[Peer(c)], s)
    BY <1>6, PeerFacts
  <2> QED
    BY <1>2, <1>5, <2>1, <2>2 DEF Sends, SendsOf
<1>8. OneOutcomePerPacket /\ ReceivedInTime /\ TimedOutForGood
  BY <1>2 DEF OneOutcomePerPacket, ReceivedInTime, TimedOutForGood
<1>9. Effects
  BY <1>2, <1>5, <1>6 DEF Effects, EffectsOf, HasAck
<1>10. Callbacks
  BY <1>2, <1>5, SMT DEF Callbacks, CallbacksOf
<1> QED
  BY <1>1, <1>3, <1>4, <1>7, <1>8, <1>9, <1>10 DEF IInv

-----------------------------------------------------------------------------
(* RecvPacket and WriteAcknowledgement keep the invariant. *)

\* What a packet handler reads in a proof: the packet was sent by the peer.
LEMMA ProvenSent ==
  ASSUME TypeOK, Snapshots, NEW c \in Chains, NEW h \in clients[c],
         NEW p \in Proven(c, h).commitments
  PROVE  p \in app[Peer(c)].sent
<1>1. Peer(c) \in Chains /\ h \in 1 .. Height(Peer(c))
  BY PeerFacts, ChainType
<1> QED
  BY <1>1 DEF Snapshots, Proven

\* RecvPacket, reduced to what it writes.
LEMMA RecvWrites ==
  ASSUME IInv, NEW c \in Chains, RecvPacket(c)
  PROVE  \E p \in app[Peer(c)].sent, ack \in Replies, st \in Store, m \in Module :
           /\ Commit(c, st, m)
           /\ store[c].state = "OPEN"
           /\ ~ TimedOutHere(c, p)
           /\ ~ Received(store[c], p.sequence)
           /\ \A t \in SequenceNumbers :
                Received(st, t) <=> t = p.sequence \/ Received(store[c], t)
           /\ Ordering = "ORDERED" => p.sequence = store[c].nextSequenceRecv
           /\ st.state = store[c].state
           /\ st.nextSequenceSend = store[c].nextSequenceSend
           /\ st.commitments = store[c].commitments
           /\ Older(store[c], st)
           /\ st.acks = IF ack = "async" THEN store[c].acks
                                         ELSE store[c].acks \cup {<<p.sequence, ack>>}
           /\ m = OnRecvPacket(app[c], p.sequence, ack)
<1>1. TypeOK /\ Snapshots /\ store[c] \in Store /\ app[c] \in Module
  BY ChainType DEF IInv
<1>2. PICK p \in Packet, h \in clients[c], ack \in Replies :
        /\ store[c].state = "OPEN"
        /\ ~ TimedOutHere(c, p)
        /\ p \in Proven(c, h).commitments
        /\ Fresh(c, p)
        /\ LET st == RecordRecv(store[c], p.sequence) IN
           Commit(c, IF ack = "async" THEN st ELSE RecordAck(st, p.sequence, ack),
                     OnRecvPacket(app[c], p.sequence, ack))
  BY DEF RecvPacket
<1>3. p \in app[Peer(c)].sent
  BY <1>1, <1>2, ProvenSent
<1>4. p.sequence \in SequenceNumbers /\ (ack # "async" => ack \in Acks)
  BY PacketAssumptions DEF Packet, Acks
<1> DEFINE r == RecordRecv(store[c], p.sequence)
           st == IF ack = "async" THEN r ELSE RecordAck(r, p.sequence, ack)
           m == OnRecvPacket(app[c], p.sequence, ack)
<1>5. /\ r \in Store
      /\ r.state = store[c].state
      /\ r.nextSequenceSend = store[c].nextSequenceSend
      /\ r.nextSequenceRecv >= store[c].nextSequenceRecv
      /\ r.commitments = store[c].commitments
      /\ store[c].receipts \subseteq r.receipts
      /\ r.acks = store[c].acks
  <2>1. store[c].nextSequenceRecv \in Nat
    BY <1>1, SentTypes
  <2>2. /\ r \in Store
        /\ r.state = store[c].state
        /\ r.nextSequenceSend = store[c].nextSequenceSend
        /\ r.nextSequenceRecv = IF Ordering = "ORDERED" THEN store[c].nextSequenceRecv + 1
                                                        ELSE store[c].nextSequenceRecv
        /\ r.commitments = store[c].commitments
        /\ r.receipts = IF Ordering = "ORDERED" THEN store[c].receipts
                                                ELSE store[c].receipts \cup {p.sequence}
        /\ r.acks = store[c].acks
    BY <1>1, <1>4, RecordRecvFields
  <2> HIDE DEF r
  <2> QED
    BY <2>1, <2>2, SMT
<1>6. /\ ~ Received(store[c], p.sequence)
      /\ \A t \in SequenceNumbers : Received(r, t) <=> t = p.sequence \/ Received(store[c], t)
  BY <1>1, <1>2, <1>4, Recorded DEF Fresh
<1>7. m \in Module
  BY <1>1, <1>4, OnRecvPacketFields
<1>8. Commit(c, st, m)
  BY <1>2
<1> HIDE DEF r, m
<1>9. /\ st \in Store
      /\ st.state = r.state
      /\ st.nextSequenceSend = r.nextSequenceSend
      /\ st.nextSequenceRecv = r.nextSequenceRecv
      /\ st.commitments = r.commitments
      /\ st.receipts = r.receipts
      /\ st.acks = IF ack = "async" THEN r.acks ELSE r.acks \cup {<<p.sequence, ack>>}
  <2>1. CASE ack = "async"
    BY <1>5, <2>1
  <2>2. CASE ack # "async"
    BY <1>4, <1>5, <2>2, RecordAckFields, SMT
  <2> QED
    BY <2>1, <2>2
<1> HIDE DEF st
<1>10. \A t \in SequenceNumbers : Received(st, t) <=> Received(r, t)
  BY <1>9 DEF Received
<1>11. Older(store[c], st)
  <2>1. store[c].nextSequenceRecv \in Nat /\ r.nextSequenceRecv \in Nat
    BY <1>1, <1>5 DEF Store
  <2> QED
    BY <1>2, <1>5, <1>9, <2>1 DEF Older
<1>12. \A t \in SequenceNumbers : Received(st, t) <=> t = p.sequence \/ Received(store[c], t)
  BY <1>6, <1>10
<1> p \in app[Peer(c)].sent /\ st \in Store /\ m \in Module
  BY <1>3, <1>7, <1>9
<1>13. Ordering = "ORDERED" => p.sequence = store[c].nextSequenceRecv
  BY <1>2 DEF Fresh
<1> WITNESS p \in app[Peer(c)].sent, ack \in Replies, st \in Store, m \in Module
<1> QED
  BY <1>2, <1>5, <1>6, <1>8, <1>9, <1>11, <1>12, <1>13 DEF m

LEMMA RecvStep ==
  ASSUME IInv, NEW c \in Chains, RecvPacket(c)
  PROVE  IInv'
<1> DEFINE d == Peer(c)
<1>1. /\ TypeOK /\ Clock /\ Snapshots /\ Sends /\ ReceivedInTime /\ TimedOutForGood /\ Effects
      /\ store[c] \in Store /\ app[c] \in Module
  BY ChainType DEF IInv
<1>2. PICK p \in app[d].sent, ack \in Replies, st \in Store, m \in Module :
           /\ Commit(c, st, m)
           /\ store[c].state = "OPEN"
           /\ ~ TimedOutHere(c, p)
           /\ ~ Received(store[c], p.sequence)
           /\ \A t \in SequenceNumbers :
                Received(st, t) <=> t = p.sequence \/ Received(store[c], t)
           /\ Ordering = "ORDERED" => p.sequence = store[c].nextSequenceRecv
           /\ st.state = store[c].state
           /\ st.nextSequenceSend = store[c].nextSequenceSend
           /\ st.commitments = store[c].commitments
           /\ Older(store[c], st)
           /\ st.acks = IF ack = "async" THEN store[c].acks
                                         ELSE store[c].acks \cup {<<p.sequence, ack>>}
           /\ m = OnRecvPacket(app[c], p.sequence, ack)
  BY RecvWrites
<1>3. /\ store'[c] = st /\ store'[d] = store[d]
      /\ app'[c] = m /\ app'[d] = app[d]
      /\ history' = history /\ times' = times
      /\ \A x \in Chains : x = c \/ x = d
  BY <1>1, <1>2, CommitFrame, SMT
<1>4. d \in Chains /\ Peer(d) = c /\ Peer(c) = d
  BY PeerFacts
<1> HIDE DEF d
<1>5. p \in Packet /\ p.sequence \in SequenceNumbers
  BY <1>1, <1>4, SentTypes
<1>6. /\ m.sent = app[c].sent
      /\ m.applied[p.sequence] = IF ack # "error" THEN app[c].applied[p.sequence] + 1
                                                  ELSE app[c].applied[p.sequence]
      /\ \A t \in SequenceNumbers : t # p.sequence => m.applied[t] = app[c].applied[t]
      /\ m.confirmed = app[c].confirmed
      /\ m.errored = app[c].errored
      /\ m.timedOut = app[c].timedOut
  BY <1>1, <1>2, <1>5, OnRecvPacketFields, SMT
<1>7. TypeOK' /\ Clock' /\ Snapshots'
  BY <1>1, <1>2, <1>6, CommitType, CommitClock, CommitSnapshots
<1>8. SendsOf(c) /\ SendsOf(d)
  BY <1>1, <1>4 DEF Sends
<1>9. Sends'
  <2>1. SendsOf(c)'
    <3>1. \A s \in SequenceNumbers : s >= store[c].nextSequenceSend => ~ Received(store[d], s)
      BY <1>4, <1>8 DEF SendsOf
    <3> QED
      BY <1>2, <1>3, <1>4, <1>6, <1>8, <3>1, SameSends, SMT
  <2>2. ASSUME NEW s \in SequenceNumbers, s >= store[d].nextSequenceSend
        PROVE  ~ Received(store'[c], s)
    <3>1. s # p.sequence
      BY <1>1, <1>4, <1>5, <1>8, <2>2, SentTypes, SMT DEF SendsOf
    <3> QED
      BY <1>2, <1>3, <1>4, <1>8, <2>2, <3>1 DEF SendsOf
  <2>3. SendsOf(d)'
    BY <1>3, <1>4, <1>8, <2>2, SameSends
  <2> QED
    BY <1>3, <2>1, <2>3 DEF Sends
<1>10. OneOutcomePerPacket'
  BY <1>2, <1>3, <1>6, SMT DEF IInv, OneOutcomePerPacket
<1>11. \A q \in app[d].sent : q # p => q.sequence # p.sequence /\ q.sequence \in SequenceNumbers
  BY <1>1, <1>4, <1>8, SentTypes DEF SendsOf
<1>12. ~ Expired(p, Height(c), Now(c))
  BY <1>2 DEF TimedOutHere
<1>13. ReceivedInTime'
  <2>1. \A q \in app[c].sent : InTime(c, q)'
    BY <1>1, <1>3, <1>4, SameInTime DEF ReceivedInTime
  <2>2. InTime(d, p)'
    <3>1. \A h \in 1 .. Height(c) : ~ Expired(p, h, times[c][h])
      BY <1>1, <1>5, <1>12, ExpiredNow
    <3> QED
      BY <1>3, <1>4, <3>1 DEF InTime, Height
  <2>3. ASSUME NEW q \in app[d].sent, q # p PROVE InTime(d, q)'
    <3>1. InTime(d, q)
      BY <1>1, <1>4 DEF ReceivedInTime
    <3>2. Received(store'[c], q.sequence) <=> Received(store[c], q.sequence)
      BY <1>2, <1>3, <1>11, <2>3
    <3> QED
      BY <1>3, <1>4, <3>1, <3>2 DEF InTime, Height
  <2> QED
    BY <1>3, <1>6, <2>1, <2>2, <2>3 DEF ReceivedInTime
<1>14. TimedOutForGood'
  <2>1. \A q \in app[c].sent : OutOfTime(c, q)'
    BY <1>1, <1>3, <1>4, <1>6, SameOutOfTime, SMT DEF TimedOutForGood
  <2>2. ASSUME NEW q \in app[d].sent PROVE OutOfTime(d, q)'
    <3>1. OutOfTime(d, q)
      BY <1>1, <1>4 DEF TimedOutForGood
    <3>2. CASE q = p
      BY <1>2, <1>3, <1>4, <1>12, <3>1, <3>2 DEF OutOfTime
    <3>3. CASE q # p
      <4>1. Received(store'[c], q.sequence) <=> Received(store[c], q.sequence)
        BY <1>2, <1>3, <1>11, <3>3
      <4> QED
        BY <1>2, <1>3, <1>4, <3>1, <4>1 DEF OutOfTime, Height, Now
    <3> QED
      BY <3>2, <3>3
  <2> QED
    BY <1>3, <1>6, <2>1, <2>2 DEF TimedOutForGood
<1>15. Effects'
  <2>1. \A s \in SequenceNumbers : EffectsOf(d, s)'
    BY <1>1, <1>3, <1>4, SameEffects
  <2>2. ASSUME NEW s \in SequenceNumbers, s # p.sequence PROVE EffectsOf(c, s)'
    <3>1. EffectsOf(c, s)
      BY <1>1 DEF Effects
    <3>2. \A a \in Acks : <<s, a>> \in st.acks <=> <<s, a>> \in store[c].acks
      BY <1>2, <2>2, SMT
    <3>3. HasAck(st, s) <=> HasAck(store[c], s)
      BY <3>2 DEF HasAck
    <3>4. Received(st, s) <=> Received(store[c], s)
      BY <1>2, <2>2
    <3>5. "error" \in Acks /\ "result" \in Acks
      BY DEF Acks
    <3>6. m.applied[s] = app[c].applied[s]
      BY <1>6, <2>2
    <3> QED
      BY <1>3, <3>1, <3>2, <3>3, <3>4, <3>5, <3>6 DEF EffectsOf
  <2>3. EffectsOf(c, p.sequence)'
    <3>1. app[c].applied[p.sequence] = 0 /\ \A a \in Acks : <<p.sequence, a>> \notin store[c].acks
      <4>1. EffectsOf(c, p.sequence)
        BY <1>1, <1>5 DEF Effects
      <4> QED
        BY <1>2, <4>1 DEF EffectsOf, HasAck
    <3>2. Received(st, p.sequence)
      BY <1>2, <1>5
    <3>3. "error" \in Acks /\ "result" \in Acks
      BY DEF Acks
    <3>4. <<p.sequence, "error">> \in st.acks <=> ack = "error"
      BY <1>2, <3>1, <3>3, SMT
    <3>5. <<p.sequence, "result">> \in st.acks <=> ack = "result"
      BY <1>2, <3>1, <3>3, SMT
    <3> QED
      BY <1>3, <1>6, <3>1, <3>2, <3>4, <3>5, SMT DEF EffectsOf
  <2> QED
    BY <1>3, <2>1, <2>2, <2>3 DEF Effects
<1>16. Callbacks'
  <2>1. /\ \A s \in SequenceNumbers : CallbacksOf(c, s)
        /\ \A s \in SequenceNumbers : CallbacksOf(d, s)
    BY <1>4 DEF IInv, Callbacks
  <2>2. store[c].acks \subseteq st.acks
    BY <1>2
  <2>3. /\ \A s \in SequenceNumbers : CallbacksOf(c, s)'
        /\ \A s \in SequenceNumbers : CallbacksOf(d, s)'
    BY <1>3, <1>4, <1>6, <2>1, <2>2 DEF CallbacksOf
  <2> QED
    BY <1>3, <2>3 DEF Callbacks
<1> QED
  BY <1>7, <1>9, <1>10, <1>13, <1>14, <1>15, <1>16 DEF IInv

LEMMA WriteAckStep ==
  ASSUME IInv, NEW c \in Chains, WriteAcknowledgement(c)
  PROVE  IInv'
<1> DEFINE d == Peer(c)
<1>1. /\ TypeOK /\ Clock /\ Snapshots /\ Sends /\ ReceivedInTime /\ TimedOutForGood /\ Effects
      /\ store[c] \in Store /\ app[c] \in Module
  BY ChainType DEF IInv
<1>2. PICK s \in SequenceNumbers, ack \in Acks :
        /\ Received(store[c], s)
        /\ ~ HasAck(store[c], s)
        /\ Commit(c, RecordAck(store[c], s, ack), UndoOnError(app[c], s, ack))
  BY DEF WriteAcknowledgement
<1> DEFINE st == RecordAck(store[c], s, ack)
           m == UndoOnError(app[c], s, ack)
<1>3. /\ st \in Store
      /\ st.state = store[c].state
      /\ st.nextSequenceSend = store[c].nextSequenceSend
      /\ st.nextSequenceRecv = store[c].nextSequenceRecv
      /\ st.commitments = store[c].commitments
      /\ st.receipts = store[c].receipts
      /\ st.acks = store[c].acks \cup {<<s, ack>>}
  BY <1>1, RecordAckFields
<1>4. /\ m \in Module
      /\ m.sent = app[c].sent
      /\ m.applied[s] = IF ack = "error" THEN 0 ELSE app[c].applied[s]
      /\ \A t \in SequenceNumbers : t # s => m.applied[t] = app[c].applied[t]
      /\ m.confirmed = app[c].confirmed
      /\ m.errored = app[c].errored
      /\ m.timedOut = app[c].timedOut
  BY <1>1, UndoOnErrorFields, SMT
<1>5. Commit(c, st, m)
  BY <1>2
<1> HIDE DEF st, m
<1>6. /\ store'[c] = st /\ store'[d] = store[d]
      /\ app'[c] = m /\ app'[d] = app[d]
      /\ history' = history /\ times' = times
      /\ \A x \in Chains : x = c \/ x = d
  BY <1>1, <1>5, CommitFrame, SMT
<1>7. d \in Chains /\ Peer(d) = c /\ Peer(c) = d
  BY PeerFacts
<1> HIDE DEF d
<1>8. TypeOK' /\ Clock' /\ Snapshots'
  <2>1. Older(store[c], st)
    BY <1>1, <1>3, SentTypes, SMT DEF Older
  <2> QED
    BY <1>1, <1>3, <1>4, <1>5, <2>1, CommitType, CommitClock, CommitSnapshots
<1>9. \A t \in SequenceNumbers : Received(st, t) <=> Received(store[c], t)
  BY <1>3 DEF Received
<1>10. Sends'
  <2>1. SendsOf(c) /\ SendsOf(d)
    BY <1>1, <1>7 DEF Sends
  <2>2. /\ \A t \in SequenceNumbers : t >= store[c].nextSequenceSend => ~ Received(store[d], t)
        /\ \A t \in SequenceNumbers : t >= store[d].nextSequenceSend => ~ Received(st, t)
    BY <1>7, <1>9, <2>1 DEF SendsOf
  <2>3. SendsOf(c)' /\ SendsOf(d)'
    BY <1>3, <1>4, <1>6, <1>7, <2>1, <2>2, SameSends
  <2> QED
    BY <1>6, <2>3 DEF Sends
<1>11. OneOutcomePerPacket'
  BY <1>3, <1>4, <1>6, SMT DEF IInv, OneOutcomePerPacket
<1>12. ReceivedInTime'
  <2>1. /\ \A q \in app[c].sent : InTime(c, q)'
        /\ \A q \in app[d].sent : InTime(d, q)'
    BY <1>1, <1>3, <1>6, <1>7, SameInTime DEF ReceivedInTime
  <2> QED
    BY <1>4, <1>6, <2>1 DEF ReceivedInTime
<1>13. TimedOutForGood'
  <2>1. /\ \A q \in app[c].sent : OutOfTime(c, q)'
        /\ \A q \in app[d].sent : OutOfTime(d, q)'
    BY <1>1, <1>3, <1>4, <1>6, <1>7, SameOutOfTime, SMT DEF TimedOutForGood
  <2> QED
    BY <1>4, <1>6, <2>1 DEF TimedOutForGood
<1>14. Effects'
  <2>1. \A t \in SequenceNumbers : EffectsOf(d, t)'
    BY <1>1, <1>6, <1>7, SameEffects
  <2>2. "error" \in Acks /\ "result" \in Acks
    BY DEF Acks
  <2>3. ASSUME NEW t \in SequenceNumbers, t # s PROVE EffectsOf(c, t)'
    <3>1. EffectsOf(c, t)
      BY <1>1 DEF Effects
    <3>2. \A a \in Acks : <<t, a>> \in st.acks <=> <<t, a>> \in store[c].acks
      BY <1>3, <2>3
    <3>3. HasAck(st, t) <=> HasAck(store[c], t)
      BY <3>2 DEF HasAck
    <3>4. m.applied[t] = app[c].applied[t]
      BY <1>4, <2>3
    <3> QED
      BY <1>6, <1>9, <2>2, <3>1, <3>2, <3>3, <3>4 DEF EffectsOf
  <2>4. EffectsOf(c, s)'
    <3>1. \A a \in Acks : <<s, a>> \notin store[c].acks
      BY <1>2 DEF HasAck
    <3>2. app[c].applied[s] = 1
      <4>1. EffectsOf(c, s)
        BY <1>1 DEF Effects
      <4> QED
        BY <1>2, <2>2, <3>1, <4>1 DEF EffectsOf
    <3>3. <<s, "error">> \in st.acks <=> ack = "error"
      BY <1>3, <2>2, <3>1
    <3>4. <<s, "result">> \in st.acks <=> ack = "result"
      BY <1>3, <2>2, <3>1
    <3> QED
      BY <1>2, <1>4, <1>6, <1>9, <3>2, <3>3, <3>4 DEF EffectsOf
  <2> QED
    BY <1>6, <2>1, <2>3, <2>4 DEF Effects
<1>15. Callbacks'
  <2>1. /\ \A t \in SequenceNumbers : CallbacksOf(c, t)
        /\ \A t \in SequenceNumbers : CallbacksOf(d, t)
    BY <1>7 DEF IInv, Callbacks
  <2>2. /\ \A t \in SequenceNumbers : CallbacksOf(c, t)'
        /\ \A t \in SequenceNumbers : CallbacksOf(d, t)'
    BY <1>3, <1>4, <1>6, <1>7, <2>1 DEF CallbacksOf
  <2> QED
    BY <1>6, <2>2 DEF Callbacks
<1> QED
  BY <1>8, <1>10, <1>11, <1>12, <1>13, <1>14, <1>15 DEF IInv

-----------------------------------------------------------------------------
(* AcknowledgePacket and the timeouts keep it. *)

\* The end of a packet at its sender: its commitment is deleted and one of the
\* three counters, all zero until then, is incremented.
ClearsCommitment(old, new, p) ==
  /\ new.nextSequenceSend = old.nextSequenceSend
  /\ new.nextSequenceRecv = old.nextSequenceRecv
  /\ new.commitments = old.commitments \ {p}
  /\ new.receipts = old.receipts
  /\ new.acks = old.acks
  /\ old.state = "CLOSED" => new.state = "CLOSED"
RunsCallback(old, new, s) ==
  /\ new.sent = old.sent
  /\ new.applied = old.applied
  /\ \A t \in SequenceNumbers : t # s =>
       /\ new.confirmed[t] = old.confirmed[t]
       /\ new.errored[t] = old.errored[t]
       /\ new.timedOut[t] = old.timedOut[t]
  /\ new.confirmed[s] + new.errored[s] + new.timedOut[s]
       = old.confirmed[s] + old.errored[s] + old.timedOut[s] + 1

LEMMA OutcomeStep ==
  ASSUME IInv, NEW c \in Chains, NEW p \in store[c].commitments,
         NEW st \in Store, NEW m \in Module, Commit(c, st, m),
         ClearsCommitment(store[c], st, p), RunsCallback(app[c], m, p.sequence),
         OutOfTime(c, p)', CallbacksOf(c, p.sequence)'
  PROVE  IInv'
<1> DEFINE d == Peer(c)
<1>1. /\ TypeOK /\ Clock /\ Snapshots /\ Sends /\ ReceivedInTime /\ TimedOutForGood /\ Effects
      /\ store[c] \in Store /\ app[c] \in Module
  BY ChainType DEF IInv
<1>2. /\ store'[c] = st /\ store'[d] = store[d]
      /\ app'[c] = m /\ app'[d] = app[d]
      /\ history' = history /\ times' = times
      /\ \A x \in Chains : x = c \/ x = d
  BY <1>1, CommitFrame, SMT
<1>3. d \in Chains /\ Peer(d) = c /\ Peer(c) = d
  BY PeerFacts
<1> HIDE DEF d
<1>4. TypeOK' /\ Clock' /\ Snapshots'
  <2>1. Older(store[c], st)
    BY <1>1, SentTypes, SMT DEF Older, ClearsCommitment
  <2> QED
    BY <1>1, <2>1, CommitType, CommitClock, CommitSnapshots DEF RunsCallback
<1>5. SendsOf(c) /\ SendsOf(d)
  BY <1>1, <1>3 DEF Sends
<1>6. p \in app[c].sent /\ p.sequence \in SequenceNumbers
  BY <1>1, <1>5, SentTypes DEF SendsOf
<1>7. \A q \in app[c].sent : q # p => q.sequence # p.sequence /\ q.sequence \in SequenceNumbers
  BY <1>1, <1>5, <1>6, SentTypes DEF SendsOf
<1>8. Sends'
  <2>1. \A s \in SequenceNumbers : s >= store[c].nextSequenceSend => s # p.sequence
    BY <1>1, <1>5, <1>6, SentTypes, SMT DEF SendsOf
  <2>2. \A s \in SequenceNumbers : Received(st, s) <=> Received(store[c], s)
    BY DEF Received, ClearsCommitment
  <2>3. /\ \A s \in SequenceNumbers : s >= store[c].nextSequenceSend => ~ Received(store[d], s)
        /\ \A s \in SequenceNumbers : s >= store[d].nextSequenceSend => ~ Received(st, s)
    BY <1>3, <1>5, <2>2 DEF SendsOf
  <2>4. SendsOf(c)'
    BY <1>2, <1>3, <1>5, <2>1, <2>3, SameSends, SMT DEF ClearsCommitment, RunsCallback
  <2>5. SendsOf(d)'
    BY <1>2, <1>3, <1>5, <2>3, SameSends
  <2> QED
    BY <1>2, <2>4, <2>5 DEF Sends
<1>9. OneOutcomePerPacket'
  <2>1. app[c].confirmed[p.sequence] + app[c].errored[p.sequence] + app[c].timedOut[p.sequence] = 0
    BY <1>6 DEF IInv, OneOutcomePerPacket
  <2>2. m.confirmed[p.sequence] + m.errored[p.sequence] + m.timedOut[p.sequence] = 1
    BY <2>1, SMT DEF RunsCallback
  <2>3. ASSUME NEW q \in app[c].sent
        PROVE  m.confirmed[q.sequence] + m.errored[q.sequence] + m.timedOut[q.sequence]
                 = IF q \in st.commitments THEN 0 ELSE 1
    <3>1. CASE q = p
      BY <2>2, <3>1 DEF ClearsCommitment
    <3>2. CASE q # p
      <4>1. app[c].confirmed[q.sequence] + app[c].errored[q.sequence] + app[c].timedOut[q.sequence]
              = IF q \in store[c].commitments THEN 0 ELSE 1
        BY DEF IInv, OneOutcomePerPacket
      <4> QED
        BY <1>7, <3>2, <4>1 DEF ClearsCommitment, RunsCallback
    <3> QED
      BY <3>1, <3>2
  <2>4. \A q \in app[d].sent :
          app[d].confirmed[q.sequence] + app[d].errored[q.sequence] + app[d].timedOut[q.sequence]
            = IF q \in store[d].commitments THEN 0 ELSE 1
    BY <1>3 DEF IInv, OneOutcomePerPacket
  <2> QED
    <3>1. ASSUME NEW x \in Chains, NEW q \in app'[x].sent
          PROVE  app'[x].confirmed[q.sequence] + app'[x].errored[q.sequence]
                   + app'[x].timedOut[q.sequence]
                     = IF q \in store'[x].commitments THEN 0 ELSE 1
      <4>1. CASE x = c
        BY <1>2, <2>3, <4>1 DEF RunsCallback
      <4>2. CASE x = d
        BY <1>2, <2>4, <4>2
      <4> QED
        BY <1>2, <4>1, <4>2
    <3> QED
      BY <3>1 DEF OneOutcomePerPacket
<1>10. ReceivedInTime'
  <2>1. /\ \A q \in app[c].sent : InTime(c, q)'
        /\ \A q \in app[d].sent : InTime(d, q)'
    BY <1>1, <1>2, <1>3, SameInTime DEF ReceivedInTime, ClearsCommitment
  <2> QED
    BY <1>2, <2>1 DEF ReceivedInTime, RunsCallback
<1>11. TimedOutForGood'
  <2>1. ASSUME NEW q \in app[c].sent, q # p PROVE OutOfTime(c, q)'
    BY <1>1, <1>2, <1>3, <1>7, <2>1, SameOutOfTime, SMT DEF TimedOutForGood, RunsCallback
  <2>2. \A q \in app[d].sent : OutOfTime(d, q)'
    BY <1>1, <1>2, <1>3, SameOutOfTime DEF TimedOutForGood, ClearsCommitment
  <2> QED
    BY <1>2, <2>1, <2>2 DEF TimedOutForGood, RunsCallback
<1>12. Effects'
  <2>1. \A s \in SequenceNumbers : EffectsOf(c, s)'
    BY <1>1, <1>2, SameEffects DEF ClearsCommitment, RunsCallback
  <2>2. \A s \in SequenceNumbers : EffectsOf(d, s)'
    BY <1>1, <1>2, <1>3, SameEffects
  <2> QED
    BY <1>2, <2>1, <2>2 DEF Effects
<1>13. Callbacks'
  <2>1. /\ \A t \in SequenceNumbers : CallbacksOf(c, t)
        /\ \A t \in SequenceNumbers : CallbacksOf(d, t)
    BY <1>3 DEF IInv, Callbacks
  <2>2. \A t \in SequenceNumbers : t # p.sequence => CallbacksOf(c, t)'
    BY <1>2, <1>3, <2>1 DEF CallbacksOf, RunsCallback
  <2>3. \A t \in SequenceNumbers : CallbacksOf(d, t)'
    BY <1>2, <1>3, <2>1 DEF CallbacksOf, ClearsCommitment
  <2> QED
    BY <1>2, <2>2, <2>3 DEF Callbacks
<1> QED
  BY <1>4, <1>8, <1>9, <1>10, <1>11, <1>12, <1>13 DEF IInv

\* Until its outcome, a packet with a commitment has had no callback.
LEMMA NoOutcomeYet ==
  ASSUME TypeOK, Sends, OneOutcomePerPacket, NEW c \in Chains, NEW p \in store[c].commitments
  PROVE  /\ p \in Packet /\ p \in app[c].sent /\ p.sequence \in SequenceNumbers
         /\ app[c].confirmed[p.sequence] = 0
         /\ app[c].errored[p.sequence] = 0
         /\ app[c].timedOut[p.sequence] = 0
<1>1. p \in Packet /\ p \in app[c].sent /\ p.sequence \in SequenceNumbers
  BY SentTypes DEF Sends, SendsOf
<1>2. /\ app[c].confirmed[p.sequence] \in Nat
      /\ app[c].errored[p.sequence] \in Nat
      /\ app[c].timedOut[p.sequence] \in Nat
  BY <1>1, SentTypes
<1>3. app[c].confirmed[p.sequence] + app[c].errored[p.sequence] + app[c].timedOut[p.sequence] = 0
  BY <1>1 DEF OneOutcomePerPacket
<1>4. \A a, b, e \in Nat : a + b + e = 0 => a = 0 /\ b = 0 /\ e = 0
  BY SMT
<1> QED
  BY <1>1, <1>2, <1>3, <1>4, Zenon

LEMMA AckStep ==
  ASSUME IInv, NEW c \in Chains, AcknowledgePacket(c)
  PROVE  IInv'
<1> DEFINE d == Peer(c)
<1>1. /\ TypeOK /\ Snapshots /\ Sends /\ OneOutcomePerPacket
      /\ store[c] \in Store /\ app[c] \in Module
  BY ChainType DEF IInv
<1>2. PICK p \in store[c].commitments, h \in clients[c], ack \in Acks :
        /\ <<p.sequence, ack>> \in Proven(c, h).acks
        /\ Commit(c, ClearAcked(store[c], p),
                     OnAcknowledgementPacket(app[c], p.sequence, ack))
  BY DEF AcknowledgePacket
<1>3. /\ p \in Packet /\ p.sequence \in SequenceNumbers
      /\ app[c].confirmed[p.sequence] = 0
      /\ app[c].errored[p.sequence] = 0
      /\ app[c].timedOut[p.sequence] = 0
  BY <1>1, NoOutcomeYet
<1>4. d \in Chains /\ h \in 1 .. Height(d)
  BY <1>1, PeerFacts, ChainType
<1>5. <<p.sequence, ack>> \in store[d].acks
  BY <1>1, <1>2, <1>4 DEF Snapshots, Older, Proven
<1> DEFINE st == ClearAcked(store[c], p)
           m == OnAcknowledgementPacket(app[c], p.sequence, ack)
<1>6. /\ st \in Store
      /\ st.state = store[c].state
      /\ st.nextSequenceSend = store[c].nextSequenceSend
      /\ st.nextSequenceRecv = store[c].nextSequenceRecv
      /\ st.commitments = store[c].commitments \ {p}
      /\ st.receipts = store[c].receipts
      /\ st.acks = store[c].acks
  BY <1>1, <1>3, ClearAckedFields
<1>7. /\ m \in Module
      /\ m.sent = app[c].sent
      /\ m.applied = app[c].applied
      /\ m.confirmed[p.sequence] = IF ack = "result" THEN 1 ELSE 0
      /\ m.errored[p.sequence] = IF ack = "result" THEN 0 ELSE 1
      /\ \A t \in SequenceNumbers : t # p.sequence =>
           m.confirmed[t] = app[c].confirmed[t] /\ m.errored[t] = app[c].errored[t]
      /\ m.timedOut = app[c].timedOut
  BY <1>1, <1>3, OnAcknowledgementPacketFields, SMT
<1>8. Commit(c, st, m)
  BY <1>2
<1> HIDE DEF st, m
<1>9. app'[c] = m /\ store'[d] = store[d]
  BY <1>1, <1>8, CommitFrame, SMT
<1>10. OutOfTime(c, p)'
  BY <1>3, <1>7, <1>9, SMT DEF OutOfTime
<1>11. CallbacksOf(c, p.sequence)'
  BY <1>5, <1>7, <1>9, SMT DEF CallbacksOf, Acks
<1>12. ClearsCommitment(store[c], st, p) /\ RunsCallback(app[c], m, p.sequence)
  BY <1>3, <1>6, <1>7, SMT DEF ClearsCommitment, RunsCallback
<1> QED
  BY <1>6, <1>7, <1>8, <1>10, <1>11, <1>12, OutcomeStep

\* Both timeouts prove that the packet has not been received and cannot be.
LEMMA TimeoutProof ==
  ASSUME IInv, NEW c \in Chains, TimeoutPacket(c) \/ TimeoutOnClose(c)
  PROVE  \E p \in store[c].commitments :
           /\ ~ Received(store[Peer(c)], p.sequence)
           /\ \/ Expired(p, Height(Peer(c)), Now(Peer(c)))
              \/ store[Peer(c)].state = "CLOSED"
           /\ ExecuteTimeout(c, p)
<1> DEFINE d == Peer(c)
<1>1. TypeOK /\ Clock /\ Snapshots /\ Sends /\ ReceivedInTime /\ d \in Chains
  BY PeerFacts DEF IInv
<1> HIDE DEF d
<1>2. clients[c] \subseteq 1 .. Height(d)
  BY <1>1, ChainType DEF d
<1>3. store[c].commitments \subseteq app[c].sent /\ store[c].commitments \subseteq Packet
  BY <1>1, SentTypes DEF Sends, SendsOf
<1>4. ASSUME NEW p \in store[c].commitments, NEW h \in clients[c],
             Expired(p, h, times[d][h]), ~ Received(history[d][h], p.sequence)
      PROVE  /\ ~ Received(store[d], p.sequence)
             /\ Expired(p, Height(d), Now(d))
  <2>1. InTime(c, p)
    BY <1>1, <1>3 DEF ReceivedInTime
  <2>2. ~ Received(store[d], p.sequence)
    BY <1>2, <1>4, <2>1 DEF InTime, d
  <2>3. Expired(p, Height(d), Now(d))
    BY <1>1, <1>2, <1>3, <1>4, ExpiredNow
  <2> QED
    BY <2>2, <2>3
<1>5. ASSUME NEW p \in store[c].commitments, NEW h \in clients[c],
             history[d][h].state = "CLOSED", ~ Received(history[d][h], p.sequence)
      PROVE  /\ ~ Received(store[d], p.sequence)
             /\ store[d].state = "CLOSED"
  <2>1. Older(history[d][h], store[d])
    BY <1>1, <1>2 DEF Snapshots
  <2> QED
    BY <1>5, <2>1 DEF Older, Received
<1>6. CASE TimeoutPacket(c)
  <2>1. PICK p \in store[c].commitments, h \in clients[c] :
          /\ Expired(p, h, times[d][h])
          /\ ~ Received(history[d][h], p.sequence)
          /\ ExecuteTimeout(c, p)
    BY <1>6 DEF TimeoutPacket, ProvenUnreceived, Proven, d
  <2> QED
    BY <1>4, <2>1 DEF d
<1>7. CASE TimeoutOnClose(c)
  <2>1. PICK p \in store[c].commitments, h \in clients[c] :
          /\ history[d][h].state = "CLOSED"
          /\ ~ Received(history[d][h], p.sequence)
          /\ ExecuteTimeout(c, p)
    BY <1>7 DEF TimeoutOnClose, ProvenClosed, ProvenUnreceived, Proven, d
  <2> QED
    BY <1>5, <2>1 DEF d
<1> QED
  BY <1>6, <1>7

LEMMA TimeoutStep ==
  ASSUME IInv, NEW c \in Chains, TimeoutPacket(c) \/ TimeoutOnClose(c)
  PROVE  IInv'
<1> DEFINE d == Peer(c)
<1>1. /\ TypeOK /\ Sends /\ OneOutcomePerPacket
      /\ store[c] \in Store /\ app[c] \in Module
  BY ChainType DEF IInv
<1>2. PICK p \in store[c].commitments :
        /\ ~ Received(store[d], p.sequence)
        /\ Expired(p, Height(d), Now(d)) \/ store[d].state = "CLOSED"
        /\ ExecuteTimeout(c, p)
  BY TimeoutProof
<1>3. /\ p \in Packet /\ p \in app[c].sent /\ p.sequence \in SequenceNumbers
      /\ app[c].confirmed[p.sequence] = 0
      /\ app[c].errored[p.sequence] = 0
      /\ app[c].timedOut[p.sequence] = 0
  BY <1>1, NoOutcomeYet
<1> DEFINE st == ClearTimedOut(store[c], p)
           m == OnTimeoutPacket(app[c], p.sequence)
<1>4. /\ st \in Store
      /\ st.state = IF Ordering = "ORDERED" THEN "CLOSED" ELSE store[c].state
      /\ st.nextSequenceSend = store[c].nextSequenceSend
      /\ st.nextSequenceRecv = store[c].nextSequenceRecv
      /\ st.commitments = store[c].commitments \ {p}
      /\ st.receipts = store[c].receipts
      /\ st.acks = store[c].acks
  BY <1>1, <1>3, ClearTimedOutFields
<1>5. /\ m \in Module
      /\ m.sent = app[c].sent
      /\ m.applied = app[c].applied
      /\ m.confirmed = app[c].confirmed
      /\ m.errored = app[c].errored
      /\ m.timedOut[p.sequence] = 1
      /\ \A t \in SequenceNumbers : t # p.sequence => m.timedOut[t] = app[c].timedOut[t]
  BY <1>1, <1>3, OnTimeoutPacketFields, SMT
<1>6. Commit(c, st, m)
  BY <1>2 DEF ExecuteTimeout
<1> HIDE DEF st, m
<1>7. /\ app'[c] = m /\ store'[d] = store[d]
      /\ history' = history /\ times' = times
  BY <1>1, <1>6, CommitFrame, SMT
<1>8. OutOfTime(c, p)'
  BY <1>2, <1>7 DEF OutOfTime, Height, Now
<1>9. CallbacksOf(c, p.sequence)'
  BY <1>3, <1>5, <1>7, SMT DEF CallbacksOf
<1>10. ClearsCommitment(store[c], st, p) /\ RunsCallback(app[c], m, p.sequence)
  BY <1>3, <1>4, <1>5, SMT DEF ClearsCommitment, RunsCallback
<1> HIDE DEF d
<1> QED
  BY <1>4, <1>5, <1>6, <1>8, <1>9, <1>10, OutcomeStep

-----------------------------------------------------------------------------
(* Every step keeps the invariant. *)

LEMMA NextInv == IInv /\ [Next]_vars => IInv'
<1> SUFFICES ASSUME IInv, [Next]_vars PROVE IInv'
  OBVIOUS
<1>1. TypeOK /\ TypeOK' /\ \A c \in Chains : store[c] \in Store
  BY NextType, ChainType DEF IInv
<1>2. CASE UNCHANGED vars
  BY <1>1, <1>2, ClientStep DEF vars
<1>3. ASSUME NEW c \in Chains, ChanOpenAck(c) PROVE IInv'
  <2>1. store[c].state # "CLOSED"
        /\ Commit(c, [store[c] EXCEPT !.state = "OPEN", !.linked = TRUE], app[c])
    BY <1>3 DEF ChanOpenAck, CanOpen
  <2> QED
    BY <1>1, <2>1, LinkedFields, HandshakeStep
<1>4. ASSUME NEW c \in Chains, ChanOpenConfirm(c) PROVE IInv'
  <2>1. store[c].state # "CLOSED" /\ Commit(c, [store[c] EXCEPT !.state = "OPEN"], app[c])
    BY <1>4 DEF ChanOpenConfirm
  <2> QED
    BY <1>1, <2>1, OpenedFields, HandshakeStep
<1>5. ASSUME NEW c \in Chains, ChanCloseInit(c) \/ ChanCloseConfirm(c) PROVE IInv'
  <2>1. Commit(c, [store[c] EXCEPT !.state = "CLOSED"], app[c])
    BY <1>5 DEF ChanCloseInit, ChanCloseConfirm
  <2> QED
    BY <1>1, <2>1, OpenedFields, HandshakeStep
<1>6. ASSUME NEW c \in Chains, UpdateClient(c) \/ ExpireClient(c) \/ RecoverClient(c)
      PROVE  IInv'
  BY <1>1, <1>6, ClientStep DEF UpdateClient, ExpireClient, RecoverClient
<1> QED
  BY <1>2, <1>3, <1>4, <1>5, <1>6, SendStep, RecvStep, WriteAckStep, AckStep, TimeoutStep,
     NewBlockStep DEF Next

-----------------------------------------------------------------------------
(* The theorems. *)

LEMMA Invariance == Spec => []IInv
BY InitInv, NextInv, PTL DEF Spec

\* In every behaviour of the handlers each packet has one outcome at its sender,
\* whose commitment goes away exactly then.
THEOREM OneOutcome == Spec => []OneOutcomePerPacket
<1>1. IInv => OneOutcomePerPacket
  BY DEF IInv
<1> QED
  BY <1>1, Invariance, PTL

\* What RecvPacket lets the receiver keep, and what a timeout or an error
\* acknowledgement gives back to the sender, exclude each other.
THEOREM DeliveryExcludesRefund == Spec => []NoDeliveryAndRefund
<1>1. ASSUME IInv, NEW c \in Chains, NEW s \in SequenceNumbers
      PROVE  app[Peer(c)].applied[s] + app[c].timedOut[s] + app[c].errored[s] <= 1
  <2> DEFINE d == Peer(c)
  <2>1. TypeOK /\ Sends /\ OneOutcomePerPacket /\ d \in Chains
    BY <1>1, PeerFacts DEF IInv
  <2> HIDE DEF d
  <2>2. /\ app[d].applied[s] \in Nat /\ app[c].timedOut[s] \in Nat /\ app[c].errored[s] \in Nat
        /\ app[c].confirmed[s] \in Nat /\ s \in Nat /\ store[c].nextSequenceSend \in Nat
    BY <2>1, SentTypes
  <2>3. app[c].timedOut[s] + app[c].errored[s] <= 1
    <3>1. CASE s < store[c].nextSequenceSend
      <4>1. PICK p \in app[c].sent : p.sequence = s
        BY <2>1, <3>1 DEF Sends, SendsOf
      <4>2. app[c].confirmed[s] + app[c].errored[s] + app[c].timedOut[s]
              = IF p \in store[c].commitments THEN 0 ELSE 1
        BY <2>1, <4>1 DEF OneOutcomePerPacket
      <4> QED
        BY <2>2, <4>2, SMT
    <3>2. CASE s >= store[c].nextSequenceSend
      BY <2>1, <2>2, <3>2, SMT DEF Sends, SendsOf
    <3> QED
      BY <2>2, <3>1, <3>2, SMT
  <2>4. EffectsOf(d, s) /\ CallbacksOf(c, s)
    BY <1>1, <2>1 DEF IInv, Effects, Callbacks
  <2>5. app[c].timedOut[s] > 0 => app[d].applied[s] = 0
    <3> SUFFICES ASSUME app[c].timedOut[s] > 0 PROVE app[d].applied[s] = 0
      OBVIOUS
    <3>1. s < store[c].nextSequenceSend
      BY <2>1, <2>2, SMT DEF Sends, SendsOf
    <3>2. PICK p \in app[c].sent : p.sequence = s
      BY <2>1, <3>1 DEF Sends, SendsOf
    <3>3. OutOfTime(c, p)
      BY <1>1 DEF IInv, TimedOutForGood
    <3> QED
      BY <2>4, <3>2, <3>3 DEF OutOfTime, EffectsOf, d
  <2>6. app[c].errored[s] > 0 => app[d].applied[s] = 0
    BY <2>4 DEF CallbacksOf, EffectsOf, d
  <2>7. app[d].applied[s] <= 1
    BY <2>2, <2>4, SMT DEF EffectsOf
  <2>8. app[d].applied[s] + app[c].timedOut[s] + app[c].errored[s] <= 1
    BY <2>2, <2>3, <2>5, <2>6, <2>7, SMT
  <2> QED
    BY <2>8 DEF d
<1>2. IInv => NoDeliveryAndRefund
  BY <1>1 DEF NoDeliveryAndRefund
<1> QED
  BY <1>2, Invariance, PTL

\* A success acknowledgement tells the sender that the receiver kept the packet.
THEOREM SuccessIsApplied == Spec => []ConfirmedWasApplied
<1>1. ASSUME IInv, NEW c \in Chains, NEW s \in SequenceNumbers, app[c].confirmed[s] > 0
      PROVE  app[Peer(c)].applied[s] = 1
  <2>1. EffectsOf(Peer(c), s) /\ CallbacksOf(c, s)
    BY <1>1, PeerFacts DEF IInv, Effects, Callbacks
  <2>2. "result" \in Acks
    BY DEF Acks
  <2> QED
    BY <1>1, <2>1, <2>2 DEF CallbacksOf, EffectsOf, HasAck
<1>2. IInv => ConfirmedWasApplied
  BY <1>1 DEF ConfirmedWasApplied
<1> QED
  BY <1>2, Invariance, PTL

\* After a timeout on an ORDERED channel nothing later is received or acknowledged.
THEOREM OrderedTimeout == Spec => []OrderedTimeoutIsFinal
<1>1. ASSUME IInv, Ordering = "ORDERED", NEW c \in Chains, NEW n \in SequenceNumbers,
             app[c].timedOut[n] > 0, NEW k \in n .. MaxSequence
      PROVE  /\ ~ Received(store[Peer(c)], k)
             /\ app[c].confirmed[k] + app[c].errored[k] = 0
  <2> DEFINE d == Peer(c)
  <2>1. TypeOK /\ Sends /\ d \in Chains
    BY <1>1, PeerFacts DEF IInv
  <2> HIDE DEF d
  <2>2. /\ n \in Nat /\ k \in Nat /\ k \in SequenceNumbers /\ k >= n
        /\ store[c].nextSequenceSend \in Nat /\ store[d].nextSequenceRecv \in Nat
    <3>1. n \in Nat /\ n >= 1 /\ MaxSequence \in Nat
      BY PacketAssumptions, SMT DEF SequenceNumbers
    <3>2. k \in Nat /\ k >= n /\ k \in SequenceNumbers
      BY <3>1, SMT DEF SequenceNumbers
    <3> QED
      BY <2>1, <3>1, <3>2, SentTypes
  <2>3. n < store[c].nextSequenceSend
    BY <1>1, <2>1, <2>2, SMT DEF Sends, SendsOf
  <2>4. PICK p \in app[c].sent : p.sequence = n
    BY <2>1, <2>3 DEF Sends, SendsOf
  <2>5. ~ Received(store[d], n)
    BY <1>1, <2>4 DEF IInv, TimedOutForGood, OutOfTime, d
  <2>6. ~ Received(store[d], k)
    BY <1>1, <2>2, <2>5, SMT DEF Received
  <2>7. EffectsOf(d, k) /\ CallbacksOf(c, k)
    BY <1>1, <2>1, <2>2 DEF IInv, Effects, Callbacks
  <2>8. "result" \in Acks /\ "error" \in Acks
    BY DEF Acks
  <2>9. /\ app[c].confirmed[k] \in Nat /\ app[c].errored[k] \in Nat
        /\ ~ (app[c].confirmed[k] > 0) /\ ~ (app[c].errored[k] > 0)
    BY <2>1, <2>2, <2>6, <2>7, <2>8, SentTypes DEF EffectsOf, CallbacksOf, HasAck, d
  <2> QED
    BY <2>6, <2>9, SMT DEF d
<1>2. IInv => OrderedTimeoutIsFinal
  BY <1>1 DEF OrderedTimeoutIsFinal
<1> QED
  BY <1>2, Invariance, PTL

LEMMA ClosedStep == IInv /\ [Next]_vars => [\A c \in Chains : StaysClosed(c)]_vars
<1> SUFFICES ASSUME IInv, Next, NEW c \in Chains, store[c].state = "CLOSED"
             PROVE  StaysClosed(c)
  BY DEF StaysClosed
<1>1. TypeOK /\ store[c] \in Store /\ app[c] \in Module
  BY ChainType DEF IInv
<1>2. PICK x \in Chains :
        \/ ChanOpenAck(x) \/ ChanOpenConfirm(x)
        \/ ChanCloseInit(x) \/ ChanCloseConfirm(x)
        \/ SendPacket(x) \/ RecvPacket(x) \/ WriteAcknowledgement(x)
        \/ AcknowledgePacket(x) \/ TimeoutPacket(x) \/ TimeoutOnClose(x)
        \/ NewBlock(x) \/ UpdateClient(x) \/ ExpireClient(x) \/ RecoverClient(x)
  BY DEF Next
<1>3. ASSUME store' = store, app' = app PROVE StaysClosed(c)
  BY <1>3 DEF StaysClosed
<1>4. ASSUME NEW st, NEW m, Commit(x, st, m), x # c PROVE StaysClosed(c)
  <2>1. store'[c] = store[c] /\ app'[c] = app[c]
    BY <1>1, <1>4 DEF Commit, TypeOK
  <2> QED
    BY <2>1 DEF StaysClosed
<1>5. ASSUME NEW st, NEW m, Commit(c, st, m), st.state = "CLOSED",
             st.nextSequenceRecv = store[c].nextSequenceRecv,
             st.receipts = store[c].receipts, st.acks = store[c].acks, m.sent = app[c].sent
      PROVE  StaysClosed(c)
  <2>1. store'[c] = st /\ app'[c] = m
    BY <1>1, <1>5, CommitFrame, SMT
  <2> QED
    BY <1>5, <2>1 DEF StaysClosed
<1>6. CASE NewBlock(x) \/ UpdateClient(x) \/ ExpireClient(x) \/ RecoverClient(x)
  BY <1>3, <1>6 DEF NewBlock, UpdateClient, ExpireClient, RecoverClient
<1>7. CASE ChanOpenAck(x) \/ ChanOpenConfirm(x)
  BY <1>4, <1>7 DEF ChanOpenAck, ChanOpenConfirm, CanOpen
<1>8. CASE ChanCloseInit(x) \/ ChanCloseConfirm(x)
  <2>1. Commit(x, [store[x] EXCEPT !.state = "CLOSED"], app[x]) /\ x # c
    BY <1>8 DEF ChanCloseInit, ChanCloseConfirm
  <2> QED
    BY <1>4, <2>1
<1>9. CASE SendPacket(x)
  <2>1. PICK p \in Packet : store[x].state # "CLOSED"
                            /\ Commit(x, RecordSend(store[x], p), NoteSent(app[x], p))
    BY <1>1, <1>9, SentPacket
  <2> QED
    BY <1>4, <2>1
<1>10. CASE RecvPacket(x) \/ WriteAcknowledgement(x) \/ AcknowledgePacket(x)
  BY <1>4, <1>10 DEF RecvPacket, WriteAcknowledgement, AcknowledgePacket
<1>11. CASE TimeoutPacket(x) \/ TimeoutOnClose(x)
  <2>1. PICK p \in store[x].commitments : ExecuteTimeout(x, p)
    BY <1>11 DEF TimeoutPacket, TimeoutOnClose
  <2>2. Commit(x, ClearTimedOut(store[x], p), OnTimeoutPacket(app[x], p.sequence))
    BY <2>1 DEF ExecuteTimeout
  <2>3. CASE x = c
    <3>1. p \in Packet /\ p.sequence \in SequenceNumbers
      BY <1>1, <2>3, SentTypes
    <3>2. /\ ClearTimedOut(store[c], p).state = "CLOSED"
          /\ ClearTimedOut(store[c], p).nextSequenceRecv = store[c].nextSequenceRecv
          /\ ClearTimedOut(store[c], p).receipts = store[c].receipts
          /\ ClearTimedOut(store[c], p).acks = store[c].acks
      BY <1>1, <3>1, ClearTimedOutFields
    <3>3. OnTimeoutPacket(app[c], p.sequence).sent = app[c].sent
      BY <1>1, <3>1, OnTimeoutPacketFields
    <3> QED
      BY <1>5, <2>2, <2>3, <3>2, <3>3
  <2> QED
    BY <1>4, <2>2, <2>3
<1> QED
  BY <1>2, <1>6, <1>7, <1>8, <1>9, <1>10, <1>11

\* A CLOSED end stays CLOSED, and receives, acknowledges and sends nothing more.
THEOREM ClosedForever == Spec => ClosedIsFinal
BY ClosedStep, Invariance, PTL DEF Spec, ClosedIsFinal

-----------------------------------------------------------------------------
(* Redundant messages. *)

\* What the step of chain c to store st and module state m does for packets that were
\* received or resolved before: nothing, but for a later error of the module.
Settles(c, st, m) ==
  /\ store[c].receipts \subseteq st.receipts
  /\ Ordering = "ORDERED" => st.receipts = store[c].receipts
  /\ \A n \in SequenceNumbers : Received(store[c], n) => m.applied[n] <= app[c].applied[n]
  /\ \A p \in app[c].sent :
       (\A q \in store[c].commitments : q.sequence # p.sequence) =>
         /\ \A q \in st.commitments : q.sequence # p.sequence
         /\ m.confirmed[p.sequence] = app[c].confirmed[p.sequence]
         /\ m.errored[p.sequence] = app[c].errored[p.sequence]
         /\ m.timedOut[p.sequence] = app[c].timedOut[p.sequence]

LEMMA NothingSettles ==
  ASSUME IInv, NEW c \in Chains, NEW st, st.receipts = store[c].receipts,
         st.commitments = store[c].commitments
  PROVE  Settles(c, st, app[c])
<1>1. \A n \in SequenceNumbers : app[c].applied[n] \in Nat
  BY SentTypes DEF IInv
<1> QED
  BY <1>1, SMT DEF Settles

LEMMA SendSettles ==
  ASSUME IInv, NEW c \in Chains, SendPacket(c)
  PROVE  \E st, m : Commit(c, st, m) /\ Settles(c, st, m)
<1>1. TypeOK /\ store[c] \in Store /\ app[c] \in Module /\ SendsOf(c)
  BY ChainType DEF IInv, Sends
<1>2. PICK p \in Packet : /\ p.sequence = store[c].nextSequenceSend
                          /\ Commit(c, RecordSend(store[c], p), NoteSent(app[c], p))
  BY <1>1, SentPacket
<1> DEFINE st == RecordSend(store[c], p)
           m == NoteSent(app[c], p)
<1>3. st.commitments = store[c].commitments \cup {p} /\ st.receipts = store[c].receipts
  BY <1>1, RecordSendFields
<1>4. /\ m.applied = app[c].applied /\ m.confirmed = app[c].confirmed
      /\ m.errored = app[c].errored /\ m.timedOut = app[c].timedOut
  BY <1>1, NoteSentFields
<1>5. \A n \in SequenceNumbers : app[c].applied[n] \in Nat
  BY <1>1, SentTypes
<1>6. \A q \in app[c].sent : p.sequence # q.sequence
  BY <1>1, <1>2, SentTypes, SMT DEF SendsOf
<1> HIDE DEF st, m
<1>7. Settles(c, st, m)
  BY <1>3, <1>4, <1>5, <1>6, SMT DEF Settles
<1> QED
  BY <1>2, <1>7 DEF st, m

LEMMA RecvSettles ==
  ASSUME IInv, NEW c \in Chains, RecvPacket(c)
  PROVE  \E st, m : Commit(c, st, m) /\ Settles(c, st, m)
<1>1. TypeOK /\ store[c] \in Store /\ app[c] \in Module
  BY ChainType DEF IInv
<1>2. PICK p \in Packet, ack \in Replies :
        /\ Fresh(c, p)
        /\ LET st == RecordRecv(store[c], p.sequence) IN
           Commit(c, IF ack = "async" THEN st ELSE RecordAck(st, p.sequence, ack),
                     OnRecvPacket(app[c], p.sequence, ack))
  BY DEF RecvPacket
<1>3. p.sequence \in SequenceNumbers /\ (ack # "async" => ack \in Acks)
  BY PacketAssumptions DEF Packet, Acks
<1> DEFINE r == RecordRecv(store[c], p.sequence)
           st == IF ack = "async" THEN r ELSE RecordAck(r, p.sequence, ack)
           m == OnRecvPacket(app[c], p.sequence, ack)
<1>4. /\ r \in Store
      /\ r.commitments = store[c].commitments
      /\ r.receipts = IF Ordering = "ORDERED" THEN store[c].receipts
                      ELSE store[c].receipts \cup {p.sequence}
  BY <1>1, <1>3, RecordRecvFields
<1> HIDE DEF r
<1>5. st.commitments = r.commitments /\ st.receipts = r.receipts
  BY <1>3, <1>4, RecordAckFields
<1>6. /\ \A n \in SequenceNumbers : n # p.sequence => m.applied[n] = app[c].applied[n]
      /\ m.confirmed = app[c].confirmed
      /\ m.errored = app[c].errored /\ m.timedOut = app[c].timedOut
  BY <1>1, <1>3, OnRecvPacketFields, SMT
<1>7. ~ Received(store[c], p.sequence)
  BY <1>1, <1>2, <1>3, SentTypes, SMT DEF Fresh, Received
<1>8. \A n \in SequenceNumbers : app[c].applied[n] \in Nat
  BY <1>1, SentTypes
<1>9. Commit(c, st, m)
  BY <1>2 DEF r
<1> HIDE DEF st, m
<1>10. Settles(c, st, m)
  BY <1>4, <1>5, <1>6, <1>7, <1>8, SMT DEF Settles
<1> QED
  BY <1>9, <1>10

LEMMA WriteAckSettles ==
  ASSUME IInv, NEW c \in Chains, WriteAcknowledgement(c)
  PROVE  \E st, m : Commit(c, st, m) /\ Settles(c, st, m)
<1>1. TypeOK /\ store[c] \in Store /\ app[c] \in Module
  BY ChainType DEF IInv
<1>2. PICK s \in SequenceNumbers, ack \in Acks :
        Commit(c, RecordAck(store[c], s, ack), UndoOnError(app[c], s, ack))
  BY DEF WriteAcknowledgement
<1> DEFINE st == RecordAck(store[c], s, ack)
           m == UndoOnError(app[c], s, ack)
<1>3. st.commitments = store[c].commitments /\ st.receipts = store[c].receipts
  BY <1>1, RecordAckFields, SMT
<1>4. /\ m.applied[s] = IF ack = "error" THEN 0 ELSE app[c].applied[s]
      /\ \A n \in SequenceNumbers : n # s => m.applied[n] = app[c].applied[n]
      /\ m.confirmed = app[c].confirmed
      /\ m.errored = app[c].errored /\ m.timedOut = app[c].timedOut
  BY <1>1, UndoOnErrorFields, SMT
<1>5. \A n \in SequenceNumbers : app[c].applied[n] \in Nat
  BY <1>1, SentTypes
<1> HIDE DEF st, m
<1>6. \A n \in SequenceNumbers : m.applied[n] <= app[c].applied[n]
  BY <1>4, <1>5, SMT
<1>7. Settles(c, st, m)
  BY <1>3, <1>4, <1>6 DEF Settles
<1> QED
  BY <1>2, <1>7 DEF st, m

\* The end of a packet that has a commitment.
LEMMA OutcomeSettles ==
  ASSUME IInv, NEW c \in Chains, NEW p \in store[c].commitments, NEW st, NEW m,
         ClearsCommitment(store[c], st, p), RunsCallback(app[c], m, p.sequence)
  PROVE  Settles(c, st, m)
<1>1. /\ \A n \in SequenceNumbers : app[c].applied[n] \in Nat
      /\ \A q \in app[c].sent : q.sequence \in SequenceNumbers
  BY SentTypes DEF IInv
<1> QED
  BY <1>1, SMT DEF Settles, ClearsCommitment, RunsCallback

LEMMA AckSettles ==
  ASSUME IInv, NEW c \in Chains, AcknowledgePacket(c)
  PROVE  \E st, m : Commit(c, st, m) /\ Settles(c, st, m)
<1>1. /\ TypeOK /\ Sends /\ OneOutcomePerPacket
      /\ store[c] \in Store /\ app[c] \in Module
  BY ChainType DEF IInv
<1>2. PICK p \in store[c].commitments, ack \in Acks :
        Commit(c, ClearAcked(store[c], p), OnAcknowledgementPacket(app[c], p.sequence, ack))
  BY DEF AcknowledgePacket
<1>3. /\ p \in Packet /\ p.sequence \in SequenceNumbers
      /\ app[c].confirmed[p.sequence] = 0
      /\ app[c].errored[p.sequence] = 0
      /\ app[c].timedOut[p.sequence] = 0
  BY <1>1, NoOutcomeYet
<1> DEFINE st == ClearAcked(store[c], p)
           m == OnAcknowledgementPacket(app[c], p.sequence, ack)
<1>4. ClearsCommitment(store[c], st, p)
  BY <1>1, <1>3, ClearAckedFields DEF ClearsCommitment
<1>5. /\ m.sent = app[c].sent
      /\ m.applied = app[c].applied
      /\ m.confirmed[p.sequence] = IF ack = "result" THEN 1 ELSE 0
      /\ m.errored[p.sequence] = IF ack = "result" THEN 0 ELSE 1
      /\ \A t \in SequenceNumbers : t # p.sequence =>
           m.confirmed[t] = app[c].confirmed[t] /\ m.errored[t] = app[c].errored[t]
      /\ m.timedOut = app[c].timedOut
  BY <1>1, <1>3, OnAcknowledgementPacketFields, SMT
<1> HIDE DEF st, m
<1>6. RunsCallback(app[c], m, p.sequence)
  BY <1>3, <1>5, SMT DEF RunsCallback
<1>7. Settles(c, st, m)
  BY <1>4, <1>6, OutcomeSettles
<1> QED
  BY <1>2, <1>7 DEF st, m

LEMMA TimeoutSettles ==
  ASSUME IInv, NEW c \in Chains, TimeoutPacket(c) \/ TimeoutOnClose(c)
  PROVE  \E st, m : Commit(c, st, m) /\ Settles(c, st, m)
<1>1. /\ TypeOK /\ Sends /\ OneOutcomePerPacket
      /\ store[c] \in Store /\ app[c] \in Module
  BY ChainType DEF IInv
<1>2. PICK p \in store[c].commitments : ExecuteTimeout(c, p)
  BY TimeoutProof
<1>3. /\ p \in Packet /\ p.sequence \in SequenceNumbers
      /\ app[c].confirmed[p.sequence] = 0
      /\ app[c].errored[p.sequence] = 0
      /\ app[c].timedOut[p.sequence] = 0
  BY <1>1, NoOutcomeYet
<1> DEFINE st == ClearTimedOut(store[c], p)
           m == OnTimeoutPacket(app[c], p.sequence)
<1>4. ClearsCommitment(store[c], st, p)
  BY <1>1, <1>3, ClearTimedOutFields DEF ClearsCommitment
<1>5. /\ m.sent = app[c].sent
      /\ m.applied = app[c].applied
      /\ m.confirmed = app[c].confirmed
      /\ m.errored = app[c].errored
      /\ m.timedOut[p.sequence] = 1
      /\ \A t \in SequenceNumbers : t # p.sequence => m.timedOut[t] = app[c].timedOut[t]
  BY <1>1, <1>3, OnTimeoutPacketFields, SMT
<1> HIDE DEF st, m
<1>6. RunsCallback(app[c], m, p.sequence)
  BY <1>3, <1>5, SMT DEF RunsCallback
<1>7. Settles(c, st, m)
  BY <1>4, <1>6, OutcomeSettles
<1> QED
  BY <1>2, <1>7 DEF ExecuteTimeout, st, m

LEMMA StepSettles ==
  ASSUME IInv, [Next]_vars, NEW c \in Chains
  PROVE  Settles(c, store'[c], app'[c])
<1>1. TypeOK /\ store[c] \in Store
  BY ChainType DEF IInv
<1>2. ASSUME store'[c] = store[c], app'[c] = app[c]
      PROVE  Settles(c, store'[c], app'[c])
  BY <1>2, NothingSettles
<1>3. CASE UNCHANGED vars
  BY <1>2, <1>3 DEF vars
<1>4. CASE Next
  <2>1. PICK x \in Chains :
          \/ ChanOpenAck(x) \/ ChanOpenConfirm(x)
          \/ ChanCloseInit(x) \/ ChanCloseConfirm(x)
          \/ SendPacket(x) \/ RecvPacket(x) \/ WriteAcknowledgement(x)
          \/ AcknowledgePacket(x) \/ TimeoutPacket(x) \/ TimeoutOnClose(x)
          \/ NewBlock(x) \/ UpdateClient(x) \/ ExpireClient(x) \/ RecoverClient(x)
    BY <1>4 DEF Next
  <2>2. ASSUME NEW st, NEW m, Commit(x, st, m), x = c => Settles(c, st, m)
        PROVE  Settles(c, store'[c], app'[c])
    <3>1. CASE x = c
      <4>1. store'[c] = st /\ app'[c] = m
        BY <1>1, <2>2, <3>1, CommitFrame, SMT
      <4> QED
        BY <2>2, <3>1, <4>1
    <3>2. CASE x # c
      <4>1. store'[c] = store[c] /\ app'[c] = app[c]
        BY <1>1, <2>2, <3>2 DEF Commit, TypeOK
      <4> QED
        BY <1>2, <4>1
    <3> QED
      BY <3>1, <3>2
  <2>3. ASSUME NEW st, Commit(x, st, app[x]), x = c => st.receipts = store[c].receipts
                                                       /\ st.commitments = store[c].commitments
        PROVE  Settles(c, store'[c], app'[c])
    BY <2>2, <2>3, NothingSettles
  <2>4. CASE ChanOpenAck(x)
    <3>1. Commit(x, [store[x] EXCEPT !.state = "OPEN", !.linked = TRUE], app[x])
      BY <2>4 DEF ChanOpenAck
    <3> QED
      BY <1>1, <2>3, <3>1, LinkedFields
  <2>5. CASE ChanOpenConfirm(x) \/ ChanCloseInit(x) \/ ChanCloseConfirm(x)
    <3>1. PICK state \in {"OPEN", "CLOSED"} :
            Commit(x, [store[x] EXCEPT !.state = state], app[x])
      BY <2>5 DEF ChanOpenConfirm, ChanCloseInit, ChanCloseConfirm
    <3> DEFINE st == [store[x] EXCEPT !.state = state]
    <3>2. x = c => st.receipts = store[c].receipts /\ st.commitments = store[c].commitments
      BY <1>1, OpenedFields, SMT
    <3> HIDE DEF st
    <3>3. Commit(x, st, app[x])
      BY <3>1 DEF st
    <3> QED
      BY <2>3, <3>2, <3>3
  <2>6. CASE SendPacket(x) \/ RecvPacket(x) \/ WriteAcknowledgement(x)
             \/ AcknowledgePacket(x) \/ TimeoutPacket(x) \/ TimeoutOnClose(x)
    <3>1. PICK st, m : Commit(x, st, m) /\ Settles(x, st, m)
      BY <2>6, SendSettles, RecvSettles, WriteAckSettles, AckSettles, TimeoutSettles
    <3> QED
      BY <2>2, <3>1
  <2>7. CASE NewBlock(x) \/ UpdateClient(x) \/ ExpireClient(x) \/ RecoverClient(x)
    BY <1>2, <2>7 DEF NewBlock, UpdateClient, ExpireClient, RecoverClient
  <2> QED
    BY <2>1, <2>4, <2>5, <2>6, <2>7
<1> QED
  BY <1>3, <1>4

\* An ORDERED channel keeps no receipts.
NoReceipts == Ordering = "ORDERED" => \A c \in Chains : store[c].receipts = {}

LEMMA NoReceiptsInvariance == Spec => []NoReceipts
<1>1. Init => NoReceipts
  BY SMT DEF Init, NoReceipts, NewEnd
<1>2. IInv /\ [Next]_vars /\ NoReceipts => NoReceipts'
  BY StepSettles DEF NoReceipts, Settles
<1> QED
  BY <1>1, <1>2, Invariance, PTL DEF Spec

LEMMA RefusedStep ==
  ASSUME IInv, NoReceipts, [Next]_vars, NEW c \in Chains, NEW msgs \in SUBSET PacketMsgs(c),
         AnteHandleRefuses(c, msgs)
  PROVE  AnteHandleRefuses(c, msgs)' /\ \A msg \in msgs : NoCallback(c, msg)
<1>1. Settles(c, store'[c], app'[c]) /\ TypeOK /\ Peer(c) \in Chains
  BY StepSettles, PeerFacts DEF IInv
<1>2. msgs # {}
  BY DEF AnteHandleRefuses
<1>3. ASSUME NEW msg \in msgs PROVE Redundant(c, msg)' /\ NoCallback(c, msg)
  <2>1. Redundant(c, msg)
    BY <1>3 DEF AnteHandleRefuses
  <2>2. CASE msg[1] = "RecvPacket"
    <3>1. msg[2].sequence \in store[c].receipts
      BY <2>1, <2>2 DEF Redundant
    <3>2. msg[2].sequence \in SequenceNumbers
      BY <1>1, <3>1, ChainType DEF Store
    <3>3. Received(store[c], msg[2].sequence)
      BY <3>1 DEF Received, NoReceipts
    <3> QED
      BY <1>1, <2>2, <3>1, <3>2, <3>3 DEF Settles, Redundant, NoCallback
  <2>3. CASE msg[1] # "RecvPacket"
    <3>1. msg[2] \in app[c].sent
      BY <1>3, <2>3 DEF PacketMsgs
    <3>2. \A q \in store[c].commitments : q.sequence # msg[2].sequence
      BY <2>1, <2>3 DEF Redundant
    <3> QED
      BY <1>1, <2>3, <3>1, <3>2 DEF Settles, Redundant, NoCallback
  <2> QED
    BY <2>2, <2>3
<1> QED
  BY <1>2, <1>3 DEF AnteHandleRefuses

\* What the decorator of core/ante refuses can never run a callback again, for every
\* set of packets and messages, whatever happens after the block whose state it saw.
THEOREM RefusedForGood == Spec => RefusedStaysUseless
<1>1. IInv /\ NoReceipts /\ [Next]_vars =>
        [\A c \in Chains : \A msgs \in SUBSET PacketMsgs(c) :
           AnteHandleRefuses(c, msgs) =>
             /\ AnteHandleRefuses(c, msgs)'
             /\ \A msg \in msgs : NoCallback(c, msg)]_vars
  BY RefusedStep
<1> QED
  BY <1>1, Invariance, NoReceiptsInvariance, PTL DEF Spec, RefusedStaysUseless

-----------------------------------------------------------------------------
(* The channel implements Delivery: every step of a handler is a step of one
   packet's status, or changes no status. *)

-----------------------------------------------------------------------------
(* The status of a packet. *)

LEMMA StatusValues ==
  ASSUME NEW received, NEW applied
  PROVE  /\ \A out : StatusFrom(FALSE, received, applied, out) = "unsent"
         /\ StatusFrom(TRUE, FALSE, 0, <<0, 0, 0>>) = "sent"
         /\ StatusFrom(TRUE, TRUE, 1, <<0, 0, 0>>) = "applied"
         /\ StatusFrom(TRUE, TRUE, 0, <<0, 0, 0>>) = "failed"
         /\ StatusFrom(TRUE, TRUE, 1, <<1, 0, 0>>) = "confirmed"
         /\ StatusFrom(TRUE, TRUE, 0, <<0, 1, 0>>) = "errored"
         /\ StatusFrom(TRUE, FALSE, 0, <<0, 0, 1>>) = "timedOut"
BY SMT DEF StatusFrom

\* What a packet's status depends on.
LEMMA SameStatus ==
  ASSUME NEW c \in Chains, NEW s \in SequenceNumbers,
         Sent(c, s)' <=> Sent(c, s),
         Received(store'[Peer(c)], s) <=> Received(store[Peer(c)], s),
         app'[Peer(c)].applied[s] = app[Peer(c)].applied[s],
         app'[c].confirmed[s] = app[c].confirmed[s],
         app'[c].errored[s] = app[c].errored[s],
         app'[c].timedOut[s] = app[c].timedOut[s]
  PROVE  Status(c, s)' = Status(c, s)
<1>1. Sent(c, s)' = Sent(c, s)
  BY SMT DEF Sent
<1>2. Received(store'[Peer(c)], s) = Received(store[Peer(c)], s)
  BY SMT DEF Received
<1> QED
  BY <1>1, <1>2 DEF Status

\* One status changes.
LEMMA StatusMove ==
  ASSUME NEW c \in Chains, NEW s \in SequenceNumbers, NEW from, NEW to,
         Status(c, s) = from, Status(c, s)' = to,
         \A x \in Chains, t \in SequenceNumbers : x # c \/ t # s => Status(x, t)' = Status(x, t)
  PROVE  Channel!Move(c, s, from, to)
<1>1. statuses[c][s] = from
  BY DEF statuses
<1>2. statuses' = [statuses EXCEPT ![c][s] = to]
  BY DEF statuses
<1> QED
  BY <1>1, <1>2 DEF Channel!Move

\* The callbacks of a packet by how far it got.
LEMMA Counters ==
  ASSUME IInv, NEW c \in Chains, NEW s \in SequenceNumbers
  PROVE  /\ app[Peer(c)].applied[s] \in Nat
         /\ app[c].confirmed[s] \in Nat /\ app[c].errored[s] \in Nat /\ app[c].timedOut[s] \in Nat
         /\ app[c].confirmed[s] + app[c].errored[s] + app[c].timedOut[s] <= 1
         /\ Received(store[Peer(c)], s) => Sent(c, s) /\ app[c].timedOut[s] = 0
         /\ ~ Received(store[Peer(c)], s) =>
              /\ app[Peer(c)].applied[s] = 0
              /\ app[c].confirmed[s] = 0 /\ app[c].errored[s] = 0
<1> DEFINE d == Peer(c)
<1>1. TypeOK /\ SendsOf(c) /\ OneOutcomePerPacket /\ d \in Chains
  BY PeerFacts DEF IInv, Sends
<1>2. EffectsOf(d, s) /\ CallbacksOf(c, s)
  BY <1>1 DEF IInv, Effects, Callbacks
<1>3. /\ app[d].applied[s] \in Nat /\ app[c].confirmed[s] \in Nat
      /\ app[c].errored[s] \in Nat /\ app[c].timedOut[s] \in Nat
      /\ s \in Nat /\ store[c].nextSequenceSend \in Nat
  BY <1>1, SentTypes
<1>4. s < store[c].nextSequenceSend => \E p \in app[c].sent : p.sequence = s
  BY <1>1 DEF SendsOf
<1>5. ~ (s < store[c].nextSequenceSend) =>
        /\ app[c].confirmed[s] = 0 /\ app[c].errored[s] = 0 /\ app[c].timedOut[s] = 0
        /\ ~ Received(store[d], s)
  BY <1>1, <1>3, SMT DEF SendsOf
<1>6. ASSUME NEW p \in app[c].sent, p.sequence = s
      PROVE  /\ app[c].confirmed[s] + app[c].errored[s] + app[c].timedOut[s]
                  = IF p \in store[c].commitments THEN 0 ELSE 1
             /\ app[c].timedOut[s] > 0 => ~ Received(store[d], s)
  <2>1. OutOfTime(c, p)
    BY DEF IInv, TimedOutForGood
  <2> QED
    BY <1>1, <1>6, <2>1 DEF OneOutcomePerPacket, OutOfTime
<1>7. app[c].confirmed[s] + app[c].errored[s] + app[c].timedOut[s] <= 1
  BY <1>3, <1>4, <1>5, <1>6, SMT
<1>8. Received(store[d], s) => Sent(c, s) /\ app[c].timedOut[s] = 0
  BY <1>3, <1>4, <1>5, <1>6, SMT DEF Sent
<1>9. ~ Received(store[d], s) =>
        app[d].applied[s] = 0 /\ app[c].confirmed[s] = 0 /\ app[c].errored[s] = 0
  <2>1. "result" \in Acks /\ "error" \in Acks
    BY DEF Acks
  <2> QED
    BY <1>2, <1>3, <2>1, SMT DEF EffectsOf, CallbacksOf, HasAck
<1> QED
  BY <1>3, <1>7, <1>8, <1>9

LEMMA ReceivedIsDelivered ==
  ASSUME IInv, NEW c \in Chains, NEW s \in SequenceNumbers, Received(store[Peer(c)], s)
  PROVE  Status(c, s) \in Channel!Delivered
<1> DEFINE d == Peer(c)
           ap == app[d].applied[s]
           cf == app[c].confirmed[s]
           er == app[c].errored[s]
           to == app[c].timedOut[s]
<1>1. /\ ap \in Nat /\ cf \in Nat /\ er \in Nat /\ to = 0 /\ cf + er + to <= 1 /\ Sent(c, s)
  BY Counters
<1>2. EffectsOf(d, s) /\ CallbacksOf(c, s)
  BY PeerFacts DEF IInv, Effects, Callbacks
<1>3. /\ cf > 0 => ap = 1
      /\ er > 0 => ap = 0
      /\ ap = 0 \/ ap = 1
  <2>1. "result" \in Acks /\ "error" \in Acks
    BY DEF Acks
  <2> QED
    BY <1>2, <2>1 DEF EffectsOf, CallbacksOf
<1>4. Status(c, s) = StatusFrom(TRUE, TRUE, ap, <<cf, er, to>>)
  <2>1. Sent(c, s) = TRUE /\ Received(store[d], s) = TRUE
    BY <1>1 DEF Sent, Received
  <2> QED
    BY <2>1 DEF Status
<1> HIDE DEF d, ap, cf, er, to
<1>5. \/ ap = 1 /\ cf = 0 /\ er = 0
      \/ ap = 0 /\ cf = 0 /\ er = 0
      \/ ap = 1 /\ cf = 1 /\ er = 0
      \/ ap = 0 /\ cf = 0 /\ er = 1
  BY <1>1, <1>3, SMT
<1> QED
  BY <1>1, <1>4, <1>5, StatusValues DEF Channel!Delivered

-----------------------------------------------------------------------------
(* Each step is a step of Delivery. *)

LEMMA SentStatus ==
  ASSUME NEW c \in Chains, NEW s \in SequenceNumbers, Sent(c, s)
  PROVE  Status(c, s) # "unsent"
<1>1. Sent(c, s) = TRUE
  BY DEF Sent
<1>2. \A r, a, o : StatusFrom(TRUE, r, a, o) # "unsent"
  BY DEF StatusFrom
<1> QED
  BY <1>1, <1>2 DEF Status

LEMMA SendRefines ==
  ASSUME IInv, NEW c \in Chains, SendPacket(c)
  PROVE  Channel!Next
<1> DEFINE d == Peer(c)
<1>1. TypeOK /\ SendsOf(c) /\ store[c] \in Store /\ app[c] \in Module
  BY ChainType DEF IInv, Sends
<1>2. PICK p \in Packet : /\ p.sequence = store[c].nextSequenceSend
                          /\ Commit(c, RecordSend(store[c], p), NoteSent(app[c], p))
  BY <1>1, SentPacket
<1> DEFINE st == RecordSend(store[c], p)
           m == NoteSent(app[c], p)
           s == p.sequence
<1>3. /\ st.nextSequenceSend = store[c].nextSequenceSend + 1
      /\ st.nextSequenceRecv = store[c].nextSequenceRecv
      /\ st.receipts = store[c].receipts
  BY <1>1, RecordSendFields
<1>4. /\ m.applied = app[c].applied
      /\ m.confirmed = app[c].confirmed
      /\ m.errored = app[c].errored
      /\ m.timedOut = app[c].timedOut
  BY <1>1, NoteSentFields
<1>5. Commit(c, st, m)
  BY <1>2
<1> HIDE DEF st, m
<1>6. /\ store'[c] = st /\ store'[d] = store[d]
      /\ app'[c] = m /\ app'[d] = app[d]
      /\ \A x \in Chains : x = c \/ x = d
  BY <1>1, <1>5, CommitFrame, SMT
<1>7. d \in Chains /\ Peer(d) = c /\ Peer(c) = d /\ c # d
  BY PeerFacts
<1>8. /\ s \in SequenceNumbers /\ SequenceNumbers \subseteq Nat
      /\ store[c].nextSequenceSend \in Nat
  BY <1>1, <1>2, SentTypes
<1> HIDE DEF d, s
<1>9. \A t \in SequenceNumbers : /\ Received(st, t) <=> Received(store[c], t)
                                 /\ t # s => (Sent(c, t)' <=> Sent(c, t))
                                 /\ Sent(d, t)' <=> Sent(d, t)
  <2>1. \A t \in SequenceNumbers : Received(st, t) <=> Received(store[c], t)
    BY <1>3 DEF Received
  <2>2. \A t \in SequenceNumbers : t # s => (Sent(c, t)' <=> Sent(c, t))
    <3>1. \A n, t \in Nat : t # n => (t < n + 1 <=> t < n)
      BY SMT
    <3>2. s = store[c].nextSequenceSend /\ store'[c].nextSequenceSend = s + 1 /\ s \in Nat
      BY <1>2, <1>3, <1>6, <1>8 DEF s
    <3> QED
      BY <1>8, <3>1, <3>2, SMT DEF Sent
  <2>3. \A t \in SequenceNumbers : Sent(d, t)' <=> Sent(d, t)
    BY <1>6 DEF Sent
  <2> QED
    BY <2>1, <2>2, <2>3
<1>10. \A x \in Chains, t \in SequenceNumbers : x # c \/ t # s => Status(x, t)' = Status(x, t)
  <2>1. ASSUME NEW t \in SequenceNumbers PROVE Status(d, t)' = Status(d, t)
    BY <1>4, <1>6, <1>7, <1>9, SameStatus
  <2>2. ASSUME NEW t \in SequenceNumbers, t # s PROVE Status(c, t)' = Status(c, t)
    BY <1>4, <1>6, <1>7, <1>9, <2>2, SameStatus
  <2> QED
    BY <1>6, <2>1, <2>2
<1>11. ~ Sent(c, s) /\ Sent(c, s)'
  BY <1>2, <1>3, <1>6, <1>8, SMT DEF Sent, s
<1>12. Status(c, s) = "unsent"
  <2>1. Sent(c, s) = FALSE
    BY <1>11, SMT DEF Sent
  <2> QED
    BY <2>1, StatusValues DEF Status
<1>13. Status(c, s)' = "sent"
  <2>1. /\ app[c].confirmed[s] = 0 /\ app[c].errored[s] = 0 /\ app[c].timedOut[s] = 0
        /\ ~ Received(store[d], s)
    BY <1>1, <1>2, <1>7, <1>8, SMT DEF SendsOf, s
  <2>2. app[d].applied[s] = 0
    BY <1>7, <1>8, <2>1, Counters
  <2>3. Sent(c, s)' = TRUE /\ Received(store'[d], s) = FALSE
    BY <1>6, <1>11, <2>1, SMT DEF Sent, Received
  <2>4. Status(c, s)' = StatusFrom(TRUE, FALSE, 0, <<0, 0, 0>>)
    BY <1>4, <1>6, <1>7, <2>1, <2>2, <2>3 DEF Status
  <2> QED
    BY <2>4, StatusValues
<1>14. Channel!Move(c, s, "unsent", "sent")
  BY <1>8, <1>10, <1>12, <1>13, StatusMove
<1>15. \A t \in 1 .. s - 1 : statuses[c][t] # "unsent"
  <2> TAKE t \in 1 .. s - 1
  <2>1. t \in SequenceNumbers /\ Sent(c, t)
    BY <1>2, <1>8, PacketAssumptions, SMT DEF Sent, SequenceNumbers, s
  <2> QED
    BY <2>1, SentStatus DEF statuses
<1>16. Channel!Send(c, s)
  BY <1>14, <1>15 DEF Channel!Send
<1> QED
  BY <1>8, <1>16 DEF Channel!Next, SequenceNumbers

LEMMA RecvRefines ==
  ASSUME IInv, NEW c \in Chains, RecvPacket(c)
  PROVE  Channel!Next
<1> DEFINE d == Peer(c)
<1>1. TypeOK /\ store[c] \in Store /\ app[c] \in Module
  BY ChainType DEF IInv
<1>2. PICK p \in app[d].sent, ack \in Replies, st \in Store, m \in Module :
           /\ Commit(c, st, m)
           /\ store[c].state = "OPEN"
           /\ ~ TimedOutHere(c, p)
           /\ ~ Received(store[c], p.sequence)
           /\ \A t \in SequenceNumbers :
                Received(st, t) <=> t = p.sequence \/ Received(store[c], t)
           /\ Ordering = "ORDERED" => p.sequence = store[c].nextSequenceRecv
           /\ st.state = store[c].state
           /\ st.nextSequenceSend = store[c].nextSequenceSend
           /\ st.commitments = store[c].commitments
           /\ Older(store[c], st)
           /\ st.acks = IF ack = "async" THEN store[c].acks
                                         ELSE store[c].acks \cup {<<p.sequence, ack>>}
           /\ m = OnRecvPacket(app[c], p.sequence, ack)
  BY RecvWrites
<1> DEFINE s == p.sequence
<1>3. d \in Chains /\ Peer(d) = c /\ Peer(c) = d /\ c # d
  BY PeerFacts
<1>4. /\ s \in SequenceNumbers /\ SequenceNumbers \subseteq Nat
      /\ store[c].nextSequenceRecv \in Nat
  BY <1>1, <1>3, SentTypes
<1>5. /\ m.applied[s] = IF ack # "error" THEN app[c].applied[s] + 1 ELSE app[c].applied[s]
      /\ \A t \in SequenceNumbers : t # s => m.applied[t] = app[c].applied[t]
      /\ m.confirmed = app[c].confirmed
      /\ m.errored = app[c].errored
      /\ m.timedOut = app[c].timedOut
  <2>1. m = OnRecvPacket(app[c], s, ack)
    BY <1>2
  <2> HIDE DEF s
  <2> QED
    BY <1>1, <1>4, <2>1, OnRecvPacketFields, SMT
<1>6. /\ store'[c] = st /\ store'[d] = store[d]
      /\ app'[c] = m /\ app'[d] = app[d]
      /\ \A x \in Chains : x = c \/ x = d
  BY <1>1, <1>2, CommitFrame, SMT
<1> HIDE DEF d, s
<1>7. \A t \in SequenceNumbers : /\ t # s => (Received(st, t) <=> Received(store[c], t))
                                 /\ Sent(c, t)' <=> Sent(c, t)
                                 /\ Sent(d, t)' <=> Sent(d, t)
  BY <1>2, <1>6 DEF Sent, s
<1>8. \A x \in Chains, t \in SequenceNumbers : x # d \/ t # s => Status(x, t)' = Status(x, t)
  <2>1. ASSUME NEW t \in SequenceNumbers PROVE Status(c, t)' = Status(c, t)
    BY <1>3, <1>5, <1>6, <1>7, SameStatus
  <2>2. ASSUME NEW t \in SequenceNumbers, t # s PROVE Status(d, t)' = Status(d, t)
    BY <1>3, <1>5, <1>6, <1>7, <2>2, SameStatus
  <2> QED
    BY <1>6, <2>1, <2>2
<1>9. Sent(d, s)
  BY <1>2, <1>3 DEF IInv, Sends, SendsOf, Sent, s
<1>10. ~ Received(store[c], s) /\ Received(st, s)
  BY <1>2, <1>4 DEF s
<1>11. /\ app[c].applied[s] = 0 /\ app[d].confirmed[s] = 0 /\ app[d].errored[s] = 0
       /\ app[d].timedOut[s] \in Nat
  BY <1>3, <1>4, <1>10, Counters
<1>12. app[d].timedOut[s] = 0
  <2>1. OutOfTime(d, p)
    BY <1>2, <1>3 DEF IInv, TimedOutForGood
  <2>2. ~ (app[d].timedOut[s] > 0)
    BY <1>2, <1>3, <2>1 DEF OutOfTime, TimedOutHere, s
  <2> QED
    BY <1>11, <2>2, SMT
<1>13. Status(d, s) = "sent"
  <2>1. Sent(d, s) = TRUE /\ Received(store[c], s) = FALSE
    BY <1>9, <1>10, SMT DEF Sent, Received
  <2>2. Status(d, s) = StatusFrom(TRUE, FALSE, 0, <<0, 0, 0>>)
    BY <1>3, <1>11, <1>12, <2>1 DEF Status
  <2> QED
    BY <2>2, StatusValues
<1>14. Status(d, s)' = IF ack # "error" THEN "applied" ELSE "failed"
  <2>1. Sent(d, s)' = TRUE /\ Received(store'[c], s) = TRUE
    BY <1>4, <1>6, <1>7, <1>9, <1>10 DEF Sent, Received
  <2>2. Status(d, s)' = StatusFrom(TRUE, TRUE, m.applied[s], <<0, 0, 0>>)
    BY <1>3, <1>6, <1>11, <1>12, <2>1 DEF Status
  <2>3. m.applied[s] = IF ack # "error" THEN 1 ELSE 0
    BY <1>5, <1>11, SMT
  <2> QED
    BY <2>2, <2>3, StatusValues
<1>15. Channel!Move(d, s, "sent", "applied") \/ Channel!Move(d, s, "sent", "failed")
  <2>1. CASE ack # "error"
    BY <1>3, <1>4, <1>8, <1>13, <1>14, <2>1, StatusMove
  <2>2. CASE ack = "error"
    BY <1>3, <1>4, <1>8, <1>13, <1>14, <2>2, StatusMove
  <2> QED
    BY <2>1, <2>2
<1>16. ASSUME Ordering = "ORDERED", NEW t \in 1 .. s - 1
       PROVE  statuses[d][t] \in Channel!Delivered
  <2>1. t \in SequenceNumbers /\ t < s
    BY <1>4, PacketAssumptions, SMT DEF SequenceNumbers
  <2>2. Received(store[c], t)
    BY <1>2, <1>16, <2>1 DEF Received, s
  <2>3. Status(d, t) \in Channel!Delivered
    BY <1>3, <2>1, <2>2, ReceivedIsDelivered
  <2> QED
    BY <1>3, <2>1, <2>3 DEF statuses
<1>17. Channel!Deliver(d, s)
  BY <1>15, <1>16 DEF Channel!Deliver
<1> QED
  BY <1>3, <1>4, <1>17 DEF Channel!Next, SequenceNumbers

LEMMA WriteAckRefines ==
  ASSUME IInv, NEW c \in Chains, WriteAcknowledgement(c)
  PROVE  Channel!Next \/ UNCHANGED statuses
<1> DEFINE d == Peer(c)
<1>1. TypeOK /\ store[c] \in Store /\ app[c] \in Module
  BY ChainType DEF IInv
<1>2. PICK s \in SequenceNumbers, ack \in Acks :
        /\ Received(store[c], s)
        /\ ~ HasAck(store[c], s)
        /\ Commit(c, RecordAck(store[c], s, ack), UndoOnError(app[c], s, ack))
  BY DEF WriteAcknowledgement
<1> DEFINE st == RecordAck(store[c], s, ack)
           m == UndoOnError(app[c], s, ack)
<1>3. /\ st.nextSequenceSend = store[c].nextSequenceSend
      /\ st.nextSequenceRecv = store[c].nextSequenceRecv
      /\ st.receipts = store[c].receipts
  BY <1>1, RecordAckFields, SMT
<1>4. /\ m.applied[s] = IF ack = "error" THEN 0 ELSE app[c].applied[s]
      /\ \A t \in SequenceNumbers : t # s => m.applied[t] = app[c].applied[t]
      /\ m.confirmed = app[c].confirmed
      /\ m.errored = app[c].errored
      /\ m.timedOut = app[c].timedOut
  BY <1>1, UndoOnErrorFields, SMT
<1>5. /\ store'[c] = st /\ store'[d] = store[d]
      /\ app'[c] = m /\ app'[d] = app[d]
      /\ \A x \in Chains : x = c \/ x = d
  BY <1>1, <1>2, CommitFrame
<1> HIDE DEF st, m
<1>6. d \in Chains /\ Peer(d) = c /\ Peer(c) = d /\ c # d
  BY PeerFacts
<1> HIDE DEF d
<1>7. \A t \in SequenceNumbers : /\ Received(st, t) <=> Received(store[c], t)
                                 /\ Sent(c, t)' <=> Sent(c, t)
                                 /\ Sent(d, t)' <=> Sent(d, t)
  BY <1>3, <1>5 DEF Sent, Received
<1>8. \A x \in Chains, t \in SequenceNumbers : x # d \/ t # s => Status(x, t)' = Status(x, t)
  <2>1. ASSUME NEW t \in SequenceNumbers PROVE Status(c, t)' = Status(c, t)
    BY <1>4, <1>5, <1>6, <1>7, SameStatus
  <2>2. ASSUME NEW t \in SequenceNumbers, t # s PROVE Status(d, t)' = Status(d, t)
    BY <1>4, <1>5, <1>6, <1>7, <2>2, SameStatus
  <2> QED
    BY <1>5, <2>1, <2>2
<1>9. CASE ack # "error"
  <2>1. Status(d, s)' = Status(d, s)
    BY <1>4, <1>5, <1>6, <1>7, <1>9, SameStatus
  <2>2. \A x \in Chains, t \in SequenceNumbers : Status(x, t)' = Status(x, t)
    BY <1>8, <2>1
  <2> QED
    BY <2>2 DEF statuses
<1>10. CASE ack = "error"
  <2>1. "result" \in Acks /\ "error" \in Acks
    BY DEF Acks
  <2>2. EffectsOf(c, s) /\ CallbacksOf(d, s)
    BY <1>6 DEF IInv, Effects, Callbacks
  <2>3. /\ app[d].confirmed[s] \in Nat /\ app[d].errored[s] \in Nat
        /\ app[d].timedOut[s] = 0 /\ Sent(d, s)
    BY <1>2, <1>6, Counters
  <2>4. app[c].applied[s] = 1 /\ app[d].confirmed[s] = 0 /\ app[d].errored[s] = 0
    BY <1>2, <1>6, <2>1, <2>2, <2>3, SMT DEF EffectsOf, CallbacksOf, HasAck
  <2>5. Sent(d, s) = TRUE /\ Sent(d, s)' = TRUE /\ Received(store[c], s) = TRUE
        /\ Received(st, s) = TRUE
    BY <1>2, <1>7, <2>3 DEF Sent, Received
  <2>6. Status(d, s) = StatusFrom(TRUE, TRUE, 1, <<0, 0, 0>>)
    BY <1>6, <2>3, <2>4, <2>5 DEF Status
  <2>7. Status(d, s)' = StatusFrom(TRUE, TRUE, 0, <<0, 0, 0>>)
    BY <1>4, <1>5, <1>6, <1>10, <2>3, <2>4, <2>5 DEF Status
  <2>8. Status(d, s) = "applied" /\ Status(d, s)' = "failed"
    BY <2>6, <2>7, StatusValues
  <2>9. Channel!Undo(d, s)
    BY <1>6, <1>8, <2>8, StatusMove DEF Channel!Undo
  <2> QED
    BY <1>6, <2>9 DEF Channel!Next, SequenceNumbers
<1> QED
  BY <1>9, <1>10

\* The outcome of a packet at its sender changes the status of that packet only.
LEMMA OutcomeMove ==
  ASSUME IInv, NEW c \in Chains, NEW p \in store[c].commitments, NEW st, NEW m,
         Commit(c, st, m), ClearsCommitment(store[c], st, p),
         RunsCallback(app[c], m, p.sequence),
         NEW to, Status(c, p.sequence)' = to
  PROVE  Channel!Move(c, p.sequence, Status(c, p.sequence), to)
<1> DEFINE d == Peer(c)
           s == p.sequence
<1>1. TypeOK /\ s \in SequenceNumbers
  BY NoOutcomeYet DEF IInv
<1>2. d \in Chains /\ Peer(d) = c /\ Peer(c) = d /\ c # d
  BY PeerFacts
<1>3. /\ store'[c] = st /\ store'[d] = store[d]
      /\ app'[c] = m /\ app'[d] = app[d]
      /\ \A x \in Chains : x = c \/ x = d
  BY <1>1, CommitFrame, SMT
<1>4. /\ m.applied = app[c].applied
      /\ \A t \in SequenceNumbers : t # s =>
           /\ m.confirmed[t] = app[c].confirmed[t]
           /\ m.errored[t] = app[c].errored[t]
           /\ m.timedOut[t] = app[c].timedOut[t]
  BY DEF RunsCallback
<1> HIDE DEF d, s
<1>5. \A t \in SequenceNumbers : /\ Received(st, t) <=> Received(store[c], t)
                                 /\ Sent(c, t)' <=> Sent(c, t)
                                 /\ Sent(d, t)' <=> Sent(d, t)
  BY <1>3 DEF Sent, Received, ClearsCommitment
<1>6. \A t \in SequenceNumbers : Status(d, t)' = Status(d, t)
  BY <1>2, <1>3, <1>4, <1>5, SameStatus
<1>7. ASSUME NEW t \in SequenceNumbers, t # s PROVE Status(c, t)' = Status(c, t)
  BY <1>2, <1>3, <1>4, <1>5, <1>7, SameStatus
<1>8. \A x \in Chains, t \in SequenceNumbers : x # c \/ t # s => Status(x, t)' = Status(x, t)
  BY <1>3, <1>6, <1>7
<1>9. Channel!Move(c, s, Status(c, s), to)
  BY <1>1, <1>8, StatusMove DEF s
<1> QED
  BY <1>9 DEF s

LEMMA AckRefines ==
  ASSUME IInv, NEW c \in Chains, AcknowledgePacket(c)
  PROVE  Channel!Next
<1> DEFINE d == Peer(c)
<1>1. /\ TypeOK /\ Snapshots /\ Sends /\ OneOutcomePerPacket
      /\ store[c] \in Store /\ app[c] \in Module
  BY ChainType DEF IInv
<1>2. PICK p \in store[c].commitments, h \in clients[c], ack \in Acks :
        /\ <<p.sequence, ack>> \in Proven(c, h).acks
        /\ Commit(c, ClearAcked(store[c], p),
                     OnAcknowledgementPacket(app[c], p.sequence, ack))
  BY DEF AcknowledgePacket
<1> DEFINE s == p.sequence
<1>3. /\ p \in Packet /\ p \in app[c].sent /\ s \in SequenceNumbers
      /\ app[c].confirmed[s] = 0 /\ app[c].errored[s] = 0 /\ app[c].timedOut[s] = 0
  BY <1>1, NoOutcomeYet
<1>4. d \in Chains /\ Peer(d) = c /\ c # d /\ h \in 1 .. Height(d)
  BY <1>1, PeerFacts, ChainType
<1>5. <<s, ack>> \in store[d].acks
  BY <1>1, <1>2, <1>4 DEF Snapshots, Older, Proven
<1> DEFINE st == ClearAcked(store[c], p)
           m == OnAcknowledgementPacket(app[c], s, ack)
<1>6. ClearsCommitment(store[c], st, p)
  BY <1>1, <1>3, ClearAckedFields DEF ClearsCommitment
<1>7. /\ m.sent = app[c].sent
      /\ m.applied = app[c].applied
      /\ m.confirmed[s] = IF ack = "result" THEN 1 ELSE 0
      /\ m.errored[s] = IF ack = "result" THEN 0 ELSE 1
      /\ \A t \in SequenceNumbers : t # s =>
           m.confirmed[t] = app[c].confirmed[t] /\ m.errored[t] = app[c].errored[t]
      /\ m.timedOut = app[c].timedOut
  <2> HIDE DEF s, m
  <2>1. m = OnAcknowledgementPacket(app[c], s, ack)
    BY DEF m
  <2> QED
    BY <1>1, <1>3, <2>1, OnAcknowledgementPacketFields, SMT
<1>8. Commit(c, st, m)
  BY <1>2
<1> HIDE DEF st, m
<1>8a. /\ store'[c] = st /\ store'[Peer(c)] = store[Peer(c)]
       /\ app'[c] = m /\ app'[Peer(c)] = app[Peer(c)]
  BY <1>1, <1>8, CommitFrame, SMT
<1> HIDE DEF d
<1>9. RunsCallback(app[c], m, p.sequence)
  <2>1. m.confirmed[s] + m.errored[s] = 1
    <3>1. CASE ack = "result"
      BY <1>7, <3>1, SMT
    <3>2. CASE ack # "result"
      BY <1>7, <3>2, SMT
    <3> QED
      BY <3>1, <3>2
  <2>2. m.confirmed[s] + m.errored[s] + m.timedOut[s]
          = app[c].confirmed[s] + app[c].errored[s] + app[c].timedOut[s] + 1
    BY <1>3, <1>7, <2>1, SMT
  <2>3. \A t \in SequenceNumbers : t # s =>
          /\ m.confirmed[t] = app[c].confirmed[t]
          /\ m.errored[t] = app[c].errored[t]
          /\ m.timedOut[t] = app[c].timedOut[t]
    BY <1>7
  <2> QED
    BY <1>7, <2>2, <2>3 DEF RunsCallback
<1>10. store'[c] = st /\ store'[d] = store[d] /\ app'[c] = m /\ app'[d] = app[d]
  BY <1>8a DEF d
<1>11. /\ Received(store[d], s)
       /\ app[d].applied[s] = IF ack = "result" THEN 1 ELSE 0
  <2>1. EffectsOf(d, s)
    BY <1>3, <1>4 DEF IInv, Effects
  <2> QED
    BY <1>3, <1>5, <2>1 DEF EffectsOf, HasAck, Acks
<1>12. Sent(c, s) /\ (Sent(c, s)' <=> Sent(c, s))
  BY <1>3, <1>4, <1>6, <1>10, <1>11, Counters DEF d, Sent, ClearsCommitment
<1>13. /\ Sent(c, s) = TRUE /\ Sent(c, s)' = TRUE
       /\ Received(store[d], s) = TRUE /\ Received(store'[d], s) = TRUE
  BY <1>10, <1>11, <1>12 DEF Sent, Received
<1>14. Status(c, s) = StatusFrom(TRUE, TRUE, app[d].applied[s], <<0, 0, 0>>)
  BY <1>3, <1>13 DEF Status, d
<1>15. Status(c, s)' = StatusFrom(TRUE, TRUE, app[d].applied[s], <<m.confirmed[s], m.errored[s], 0>>)
  BY <1>3, <1>7, <1>10, <1>13 DEF Status, d
<1>16. CASE ack = "result"
  <2>1. Status(c, s) = "applied" /\ Status(c, s)' = "confirmed"
    BY <1>7, <1>11, <1>14, <1>15, <1>16, StatusValues
  <2>2. Channel!Confirm(c, s)
    BY <1>6, <1>8, <1>9, <2>1, OutcomeMove DEF Channel!Confirm
  <2> QED
    BY <1>3, <2>2 DEF Channel!Next, SequenceNumbers
<1>17. CASE ack # "result"
  <2>1. Status(c, s) = "failed" /\ Status(c, s)' = "errored"
    BY <1>7, <1>11, <1>14, <1>15, <1>17, StatusValues
  <2>2. Channel!Fail(c, s)
    BY <1>6, <1>8, <1>9, <2>1, OutcomeMove DEF Channel!Fail
  <2> QED
    BY <1>3, <2>2 DEF Channel!Next, SequenceNumbers
<1> QED
  BY <1>16, <1>17

LEMMA TimeoutRefines ==
  ASSUME IInv, NEW c \in Chains, TimeoutPacket(c) \/ TimeoutOnClose(c)
  PROVE  Channel!Next
<1> DEFINE d == Peer(c)
<1>1. /\ TypeOK /\ Sends /\ OneOutcomePerPacket
      /\ store[c] \in Store /\ app[c] \in Module
  BY ChainType DEF IInv
<1>2. PICK p \in store[c].commitments : ~ Received(store[d], p.sequence) /\ ExecuteTimeout(c, p)
  BY TimeoutProof
<1> DEFINE s == p.sequence
<1>3. /\ p \in Packet /\ p \in app[c].sent /\ s \in SequenceNumbers
      /\ app[c].confirmed[s] = 0 /\ app[c].errored[s] = 0 /\ app[c].timedOut[s] = 0
  BY <1>1, NoOutcomeYet
<1> DEFINE st == ClearTimedOut(store[c], p)
           m == OnTimeoutPacket(app[c], s)
<1>4. ClearsCommitment(store[c], st, p)
  BY <1>1, <1>3, ClearTimedOutFields DEF ClearsCommitment
<1>5. /\ m.sent = app[c].sent /\ m.applied = app[c].applied
      /\ m.confirmed = app[c].confirmed /\ m.errored = app[c].errored
      /\ m.timedOut[s] = 1
      /\ \A t \in SequenceNumbers : t # s => m.timedOut[t] = app[c].timedOut[t]
  BY <1>1, <1>3, OnTimeoutPacketFields, SMT
<1>6. Commit(c, st, m)
  BY <1>2 DEF ExecuteTimeout
<1> HIDE DEF st, m
<1>7. RunsCallback(app[c], m, p.sequence)
  <2>1. m.confirmed[s] + m.errored[s] + m.timedOut[s]
          = app[c].confirmed[s] + app[c].errored[s] + app[c].timedOut[s] + 1
    BY <1>3, <1>5, SMT
  <2>2. \A t \in SequenceNumbers : t # s =>
          /\ m.confirmed[t] = app[c].confirmed[t]
          /\ m.errored[t] = app[c].errored[t]
          /\ m.timedOut[t] = app[c].timedOut[t]
    BY <1>5
  <2> QED
    BY <1>5, <2>1, <2>2 DEF RunsCallback
<1>8. store'[c] = st /\ store'[d] = store[d] /\ app'[c] = m /\ app'[d] = app[d]
  BY <1>1, <1>6, CommitFrame, SMT
<1> HIDE DEF d
<1>9. app[d].applied[s] = 0
  BY <1>2, <1>3, Counters DEF d
<1>10. Sent(c, s) /\ (Sent(c, s)' <=> Sent(c, s))
  BY <1>1, <1>3, <1>4, <1>8 DEF Sends, SendsOf, Sent, ClearsCommitment
<1>11. /\ Sent(c, s) = TRUE /\ Sent(c, s)' = TRUE
       /\ Received(store[d], s) = FALSE /\ Received(store'[d], s) = FALSE
  <2>1. Sent(c, s) = TRUE /\ Sent(c, s)' = TRUE
    BY <1>10 DEF Sent
  <2>2. Received(store[d], s) = FALSE
    BY <1>2, SMT DEF Received
  <2> QED
    BY <1>8, <2>1, <2>2
<1>12. Status(c, s) = StatusFrom(TRUE, FALSE, 0, <<0, 0, 0>>)
  BY <1>3, <1>9, <1>11 DEF Status, d
<1>13. Status(c, s)' = StatusFrom(TRUE, FALSE, 0, <<0, 0, 1>>)
  BY <1>3, <1>5, <1>8, <1>9, <1>11 DEF Status, d
<1>14. Status(c, s) = "sent" /\ Status(c, s)' = "timedOut"
  BY <1>12, <1>13, StatusValues
<1>15. Channel!TimeOut(c, s)
  BY <1>4, <1>6, <1>7, <1>14, OutcomeMove DEF Channel!TimeOut
<1> QED
  BY <1>3, <1>15 DEF Channel!Next, SequenceNumbers

-----------------------------------------------------------------------------
(* The other steps. *)

\* The handshake moves no packet.
LEMMA HandshakeRefines ==
  ASSUME TypeOK, NEW c \in Chains, NEW st, Commit(c, st, app[c]),
         st.nextSequenceSend = store[c].nextSequenceSend,
         st.nextSequenceRecv = store[c].nextSequenceRecv,
         st.receipts = store[c].receipts
  PROVE  UNCHANGED statuses
<1>1. /\ store'[c] = st /\ store'[Peer(c)] = store[Peer(c)]
      /\ app'[c] = app[c] /\ app'[Peer(c)] = app[Peer(c)]
      /\ \A x \in Chains : x = c \/ x = Peer(c)
  BY CommitFrame
<1>2. Peer(c) \in Chains /\ Peer(Peer(c)) = c
  BY PeerFacts
<1>3. \A x \in Chains, t \in SequenceNumbers :
        /\ Sent(x, t)' <=> Sent(x, t)
        /\ Received(store'[x], t) <=> Received(store[x], t)
        /\ app'[x] = app[x]
  BY <1>1 DEF Sent, Received
<1>4. \A x \in Chains : Peer(x) \in Chains
  BY PeerFacts
<1>5. \A x \in Chains, t \in SequenceNumbers : Status(x, t)' = Status(x, t)
  BY <1>3, <1>4, SameStatus
<1> QED
  BY <1>5 DEF statuses

LEMMA InitRefines == Init => Channel!Init
<1> SUFFICES ASSUME Init PROVE Channel!Init
  OBVIOUS
<1>1. ASSUME NEW c \in Chains, NEW s \in SequenceNumbers PROVE Status(c, s) = "unsent"
  <2>1. store[c].nextSequenceSend = 1
    BY DEF Init, NewEnd
  <2>2. s \in Nat /\ s >= 1
    BY PacketAssumptions, SMT DEF SequenceNumbers
  <2>3. Sent(c, s) = FALSE
    BY <2>1, <2>2, SMT DEF Sent
  <2> QED
    BY <2>3, StatusValues DEF Status
<1> QED
  BY <1>1 DEF Channel!Init, statuses, SequenceNumbers

LEMMA NextRefines == IInv /\ [Next]_vars => [Channel!Next]_statuses
<1> SUFFICES ASSUME IInv, [Next]_vars PROVE Channel!Next \/ UNCHANGED statuses
  OBVIOUS
<1>1. TypeOK /\ \A c \in Chains : store[c] \in Store
  BY ChainType DEF IInv
<1>2. ASSUME store' = store, app' = app PROVE UNCHANGED statuses
  BY <1>2 DEF statuses, Status, Sent, Received
<1>3. ASSUME NEW c \in Chains,
             ChanOpenAck(c) \/ ChanOpenConfirm(c) \/ ChanCloseInit(c) \/ ChanCloseConfirm(c)
      PROVE  UNCHANGED statuses
  <2>1. CASE ChanOpenAck(c)
    <3>1. Commit(c, [store[c] EXCEPT !.state = "OPEN", !.linked = TRUE], app[c])
      BY <2>1 DEF ChanOpenAck
    <3> QED
      BY <1>1, <3>1, LinkedFields, HandshakeRefines
  <2>2. CASE ChanOpenConfirm(c)
    <3>1. Commit(c, [store[c] EXCEPT !.state = "OPEN"], app[c])
      BY <2>2 DEF ChanOpenConfirm
    <3> QED
      BY <1>1, <3>1, OpenedFields, HandshakeRefines
  <2>3. CASE ChanCloseInit(c) \/ ChanCloseConfirm(c)
    <3>1. Commit(c, [store[c] EXCEPT !.state = "CLOSED"], app[c])
      BY <2>3 DEF ChanCloseInit, ChanCloseConfirm
    <3> QED
      BY <1>1, <3>1, OpenedFields, HandshakeRefines
  <2> QED
    BY <1>3, <2>1, <2>2, <2>3
<1>4. ASSUME NEW c \in Chains,
             NewBlock(c) \/ UpdateClient(c) \/ ExpireClient(c) \/ RecoverClient(c)
      PROVE  UNCHANGED statuses
  BY <1>2, <1>4 DEF NewBlock, UpdateClient, ExpireClient, RecoverClient
<1>5. CASE UNCHANGED vars
  BY <1>2, <1>5 DEF vars
<1> QED
  BY <1>3, <1>4, <1>5, SendRefines, RecvRefines, WriteAckRefines, AckRefines, TimeoutRefines
     DEF Next

\* The handlers of both chains, with every relayer and every schedule of blocks,
\* implement the abstract channel.
THEOREM Refinement == Spec => ImplementsDelivery
BY InitRefines, NextRefines, Invariance, PTL DEF Spec, ImplementsDelivery, Channel!Spec
=============================================================================
