----------------------------- MODULE SoloMachine -----------------------------
(***************************************************************************)
(* The solo machine light client (06-solomachine) as the client keeper and *)
(* the proof verifications of the other submodules drive it.  A solo       *)
(* machine is a key holder: a proof is its signature over a sequence       *)
(* number, a time, the client's diversifier and the proven data.  Every    *)
(* signature that is accepted takes one sequence number.                   *)
(*                                                                         *)
(* The machine itself is not in the repository.  It is modelled from what  *)
(* the client demands of it: it keeps a book of sequence, key and          *)
(* diversifier for each client and signs one message for each sequence,    *)
(* perhaps again at a later time; relayers keep every signature and submit *)
(* it to any client at any time.  The machines of Faulty clients sign      *)
(* different messages with one sequence.  A signature cannot be forged.    *)
(***************************************************************************)
EXTENDS Naturals, Sequences

CONSTANTS
  Clients,
  Start,          \* the state that a client is created with
  Messages,       \* what the machine of a client proves, one datum at a time
  Headers,        \* the keys and diversifiers it may move to
  Faulty,
  AllowUpdateAfterProposal,
  Times,          \* bound: the timestamps that the machine of a client signs with
  MaxSequence     \* bound: the sequence where the machine of a client stops

VARIABLES
  states,         \* the client states, with the latest consensus state in them
  heights,        \* where a client has consensus states in its store
  book,           \* the machine's sequence, key, diversifier, time and data so far
  signed,         \* every signature made
  applied         \* history: the signatures that a client accepted, in order

vars == <<states, heights, book, signed, applied>>

Timestamps == UNION {Times[k] : k \in Clients}

Keys(k) == {Start[k].key} \union {hd.key : hd \in Headers[k]}
Diversifiers(k) == {Start[k].diversifier} \union {hd.diversifier : hd \in Headers[k]}

\* Honest machines keep the diversifiers of their clients apart.
ASSUME MachineAssumption ==
  /\ Faulty \subseteq Clients
  /\ \A k \in Clients : Start[k].sequence \in Nat
  /\ \A k \in Clients : \A data \in Messages[k] : data.type # "HEADER"
  /\ \A j, k \in Clients \ Faulty : j # k => Diversifiers(j) \intersect Diversifiers(k) = {}

\* What signs for an honest client is no faulty machine.
ASSUME KeyAssumption ==
  \A k \in Clients \ Faulty, m \in Faulty : Keys(k) \intersect Keys(m) = {}

Init ==
  /\ states = <<>>
  /\ heights = [k \in Clients |-> {}]
  /\ book = [k \in Clients |-> [sequence |-> Start[k].sequence, key |-> Start[k].key,
                                diversifier |-> Start[k].diversifier,
                                timestamp |-> Start[k].timestamp, log |-> <<>>]]
  /\ signed = {}
  /\ applied = [k \in Clients |-> <<>>]

-----------------------------------------------------------------------------
SignBytes(sequence, timestamp, diversifier, data) ==
  [sequence |-> sequence, timestamp |-> timestamp,
   diversifier |-> diversifier, data |-> data]

\* A header is signed with the diversifier that it introduces, not the current one.
HeaderSignBytes(hd) ==
  SignBytes(hd.sequence, hd.timestamp, hd.diversifier,
            [type |-> "HEADER", key |-> hd.key, diversifier |-> hd.diversifier])

VerifySignature(key, bytes) == [key |-> key, bytes |-> bytes] \in signed

\* The three proofs of ConnOpenTry and ConnOpenAck.
ConnectionData ==
  <<[type |-> "CONNECTION", state |-> "INIT"], [type |-> "CLIENT"], [type |-> "CONSENSUS"]>>

\* The data of the messages whose handlers verify one proof.
OneProof(data) ==
  /\ data.type \in {"CONNECTION", "CHANNEL", "PACKETCOMMITMENT", "PACKETACKNOWLEDGEMENT"}
  /\ data # ConnectionData[1]

-----------------------------------------------------------------------------
(* The machine. *)

\* The signature of the machine of k over data, i sequences ahead of its book.
Signature(k, data, t, i) ==
  [key |-> book[k].key,
   bytes |-> IF data.type = "HEADER"
             THEN HeaderSignBytes([sequence |-> book[k].sequence + i, timestamp |-> t,
                                   key |-> data.key, diversifier |-> data.diversifier])
             ELSE SignBytes(book[k].sequence + i, t, book[k].diversifier, data)]

HeaderData(k) == {[type |-> "HEADER", key |-> hd.key, diversifier |-> hd.diversifier] :
                    hd \in Headers[k]}

Later(k) == {t \in Times[k] : t >= book[k].timestamp}

Sign(k, data, t) ==
  /\ book[k].sequence < MaxSequence[k]
  /\ signed' = signed \union {Signature(k, data, t, 0)}
  /\ book' = [book EXCEPT ![k] =
       [sequence |-> @.sequence + 1,
        key |-> IF data.type = "HEADER" THEN data.key ELSE @.key,
        diversifier |-> IF data.type = "HEADER" THEN data.diversifier ELSE @.diversifier,
        timestamp |-> t,
        log |-> Append(@.log, data)]]
  /\ UNCHANGED <<states, heights, applied>>

\* The three proofs of a connection handshake, with consecutive sequences.
SignConnection(k, t) ==
  /\ book[k].sequence + 2 < MaxSequence[k]
  /\ signed' = signed \union {Signature(k, ConnectionData[i], t, i - 1) : i \in 1 .. 3}
  /\ book' = [book EXCEPT ![k].sequence = @ + 3, ![k].timestamp = t,
                          ![k].log = @ \o ConnectionData]
  /\ UNCHANGED <<states, heights, applied>>

\* The last message once more, at another time.
SignAgain(k, t) ==
  /\ \E s \in signed :
       /\ s.bytes.sequence = book[k].sequence - 1
       /\ book[k].log # <<>> /\ s.bytes.data = book[k].log[Len(book[k].log)]
       /\ s.bytes.diversifier = book[k].diversifier
       /\ signed' = signed \union
            {[key |-> s.key, bytes |-> SignBytes(s.bytes.sequence, t,
                                                 s.bytes.diversifier, s.bytes.data)]}
  /\ book' = [book EXCEPT ![k].timestamp = t]
  /\ UNCHANGED <<states, heights, applied>>

\* A faulty machine does not advance its sequence.
DoubleSign(k, data, t) ==
  /\ k \in Faulty
  /\ signed' = signed \union {Signature(k, data, t, 0)}
  /\ UNCHANGED <<states, heights, book, applied>>

-----------------------------------------------------------------------------
(* The client. *)

Exists(k) == k \in DOMAIN states

Active(cs) == ~cs.frozen

CreateClient(k) ==
  /\ ~Exists(k)
  /\ Start[k].sequence # 0
  /\ states' = [j \in DOMAIN states \union {k} |->
       IF j = k THEN [sequence |-> Start[k].sequence, frozen |-> FALSE,
                      key |-> Start[k].key, diversifier |-> Start[k].diversifier,
                      timestamp |-> Start[k].timestamp]
       ELSE states[j]]
  /\ heights' = [heights EXCEPT ![k] = {Start[k].sequence}]
  /\ UNCHANGED <<book, signed, applied>>

ProduceVerificationArgs(cs, height, timestamp) ==
  /\ height = cs.sequence
  /\ cs.timestamp <= timestamp

\* The common part of the eight verification functions, which differ in the data.
Verify(cs, height, timestamp, data) ==
  /\ Active(cs)
  /\ ProduceVerificationArgs(cs, height, timestamp)
  /\ VerifySignature(cs.key, SignBytes(height, timestamp, cs.diversifier, data))

Verified(cs, timestamp) ==
  [cs EXCEPT !.sequence = @ + 1, !.timestamp = timestamp]

\* Signature s is the proof that client k takes next.
Accepts(k, s) ==
  /\ s.key = states[k].key /\ s.bytes.diversifier = states[k].diversifier
  /\ Verify(states[k], s.bytes.sequence, s.bytes.timestamp, s.bytes.data)

\* ConnOpenConfirm, a channel handshake or closing step, RecvPacket, AcknowledgePacket.
VerifyOne(k, s) ==
  LET b == s.bytes
  IN  /\ Exists(k)
      /\ OneProof(b.data)
      /\ Accepts(k, s)
      /\ states' = [states EXCEPT ![k] = Verified(@, b.timestamp)]
      /\ applied' = [applied EXCEPT ![k] = Append(@, s)]
      /\ UNCHANGED <<heights, book, signed>>

\* ConnOpenTry and ConnOpenAck verify three proofs in one transaction: of the
\* connection at the proof height, of the client one above it, and of the consensus
\* state two above it.
VerifyHandshake(k, height, times) ==
  LET one == Verified(states[k], times[1])
      two == Verified(one, times[2])
      data == ConnectionData
      signature(i) == [key |-> states[k].key,
                       bytes |-> SignBytes(height + i - 1, times[i],
                                           states[k].diversifier, data[i])]
  IN  /\ Exists(k)
      /\ Verify(states[k], height, times[1], data[1])
      /\ Verify(one, height + 1, times[2], data[2])
      /\ Verify(two, height + 2, times[3], data[3])
      /\ states' = [states EXCEPT ![k] = Verified(two, times[3])]
      /\ applied' = [applied EXCEPT ![k] = @ \o <<signature(1), signature(2), signature(3)>>]
      /\ UNCHANGED <<heights, book, signed>>

\* What a timeout proves: a packet was not received, or the sequence to be received next.
TimeoutProof(data) == data.type \in {"PACKETRECEIPTABSENCE", "NEXTSEQUENCERECV"}

\* TimeoutPacket first reads the time of a stored consensus state at the proof height.
TimeoutPacketVerifies(k, s) ==
  /\ TimeoutProof(s.bytes.data)
  /\ s.bytes.sequence \in heights[k]
  /\ Accepts(k, s)

\* TimeoutOnClose verifies, at one proof height, that the channel is closed and then the
\* same as TimeoutPacket.
TimeoutOnCloseVerifies(k, closed, s) ==
  /\ TimeoutProof(s.bytes.data) /\ closed.bytes.data.type = "CHANNEL"
  /\ Accepts(k, closed)
  /\ Verify(Verified(states[k], closed.bytes.timestamp), closed.bytes.sequence,
            s.bytes.timestamp, s.bytes.data)

\* Accepts a header of any sequence.
WrongCheckHeader(cs, hd) ==
  /\ hd.timestamp >= cs.timestamp
  /\ VerifySignature(cs.key, HeaderSignBytes(hd))

CheckHeader(cs, hd) ==
  /\ hd.sequence = cs.sequence
  /\ hd.timestamp >= cs.timestamp
  /\ VerifySignature(cs.key, HeaderSignBytes(hd))

Update(cs, hd) ==
  [cs EXCEPT !.sequence = @ + 1, !.key = hd.key,
             !.diversifier = hd.diversifier, !.timestamp = hd.timestamp]

GetHeight(hd) == hd.sequence

UpdateClient(k, hd) ==
  /\ Exists(k)
  /\ Active(states[k])
  /\ CheckHeader(states[k], hd)
  /\ applied' = [applied EXCEPT ![k] =
       Append(@, [key |-> states[k].key, bytes |-> HeaderSignBytes(hd)])]
  /\ states' = [states EXCEPT ![k] = Update(@, hd)]
  /\ heights' = [heights EXCEPT ![k] = @ \union {GetHeight(hd)}]
  /\ UNCHANGED <<book, signed>>

\* Takes two signatures over the same data for misbehaviour.
WrongMisbehaviourValidateBasic(one, two) == one # two

MisbehaviourValidateBasic(one, two) ==
  /\ one # two
  /\ one.bytes.data # two.bytes.data

\* Only the current key and diversifier count; the sequence and times may be old.
MisbehaviourSignBytes(cs, sequence, timestamp, data) ==
  SignBytes(sequence, timestamp, cs.diversifier, data)

VerifySignatureAndData(cs, sequence, s) ==
  s \in signed /\ VerifySignature(cs.key,
                     MisbehaviourSignBytes(cs, sequence, s.bytes.timestamp, s.bytes.data))

SubmitMisbehaviour(k, sequence, one, two) ==
  /\ Exists(k)
  /\ Active(states[k])
  /\ MisbehaviourValidateBasic(one, two)
  /\ VerifySignatureAndData(states[k], sequence, one)
  /\ VerifySignatureAndData(states[k], sequence, two)
  /\ states' = [states EXCEPT ![k].frozen = TRUE]
  /\ UNCHANGED <<heights, book, signed, applied>>

CheckSubstituteAndUpdateState(subject, substitute) ==
  /\ subject \in AllowUpdateAfterProposal
  /\ states[subject].key # states[substitute].key
  /\ states' = [states EXCEPT ![subject] = [states[substitute] EXCEPT !.frozen = FALSE]]

ClientUpdateProposal(subject, substitute) ==
  /\ Exists(subject) /\ Exists(substitute)
  /\ ~Active(states[subject])
  /\ states[subject].sequence < states[substitute].sequence
  /\ Active(states[substitute])
  /\ CheckSubstituteAndUpdateState(subject, substitute)
  /\ UNCHANGED <<heights, book, signed, applied>>

-----------------------------------------------------------------------------
HeaderOf(s) ==
  [sequence |-> s.bytes.sequence, timestamp |-> s.bytes.timestamp,
   key |-> s.bytes.data.key, diversifier |-> s.bytes.data.diversifier]

Machine(k) ==
  \E t \in Later(k) :
    /\ Exists(k)
    /\ \/ \E data \in Messages[k] \union HeaderData(k) : Sign(k, data, t)
       \/ SignConnection(k, t)
       \/ SignAgain(k, t)
       \/ \E data \in Messages[k] : DoubleSign(k, data, t)

Client(k) ==
  \/ CreateClient(k)
  \/ \E s \in signed : VerifyOne(k, s)
  \/ \E s \in {r \in signed : r.bytes.data = ConnectionData[1]}, t, u \in Timestamps :
       VerifyHandshake(k, s.bytes.sequence, <<s.bytes.timestamp, t, u>>)
  \/ \E s \in {r \in signed : r.bytes.data.type = "HEADER"} : UpdateClient(k, HeaderOf(s))
  \/ \E one, two \in signed : SubmitMisbehaviour(k, one.bytes.sequence, one, two)
  \/ \E substitute \in Clients : ClientUpdateProposal(k, substitute)

Next == \E k \in Clients : Machine(k) \/ Client(k)

Spec == Init /\ [][Next]_vars

-----------------------------------------------------------------------------
\* "diversifier allows the same public key to be re-used across different solo machine
\* clients (potentially on different chains) without being considered misbehaviour"
\* (solomachine.proto): two clients of one key, signed for at the same sequences, a
\* message signed again at another time, a key or diversifier that has moved on:
\* CheckMisbehaviourAndUpdateState freezes only a client whose key belongs to a machine
\* that did sign two messages with one sequence.
FaultyKeys == UNION {Keys(k) : k \in Faulty}
FrozenForFault ==
  \A k \in DOMAIN states : states[k].frozen => states[k].key \in FaultyKeys

\* The accepted signatures of an honest machine's client are its messages, in the order
\* in which they were signed, each once: relayers cannot repeat, skip or exchange a
\* message by what they submit and when, whether it is a header, a packet or the three
\* proofs of a handshake.  A header of another client of the same key may be accepted
\* too, as headers are signed with the new diversifier; what follows one is left out.
OwnHeader(k, s) ==
  s.bytes.data.type = "HEADER" =>
    s.bytes.diversifier \in Diversifiers(k)
AppliedInOrder ==
  \A k \in Clients \ Faulty : \A i \in DOMAIN applied[k] :
    (\A j \in 1 .. i : OwnHeader(k, applied[k][j])) =>
      /\ i <= Len(book[k].log)
      /\ applied[k][i].bytes.data = book[k].log[i]

Connected(k) == \E i \in DOMAIN applied[k] : applied[k][i].bytes.data = ConnectionData[3]

\* "The sending module can timeout the packet" (docs/ibc/readme.md) and "The solo machine
\* light client can verify [...] packet receipt absence, and the next sequence receive"
\* (06-solomachine/spec/01_concepts.md): when the client of a connection accepts the
\* machine's signature that a packet was not received, TimeoutPacket or TimeoutOnClose
\* can use it.
TimeoutsCanBeProved ==
  \A k \in DOMAIN states, s \in signed :
    Connected(k) /\ TimeoutProof(s.bytes.data) /\ Accepts(k, s) =>
      \/ TimeoutPacketVerifies(k, s)
      \/ \E closed \in signed : TimeoutOnCloseVerifies(k, closed, s)
=============================================================================
