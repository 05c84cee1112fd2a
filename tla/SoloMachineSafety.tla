-------------------------- MODULE SoloMachineSafety --------------------------
(***************************************************************************)
(* Proofs about SoloMachine for every set of clients, keys, messages and   *)
(* times and for every bound: honest machines are not frozen, no packet to *)
(* a solo machine can be timed out, and what a client accepts is what its  *)
(* machine signed, in order.                                               *)
(***************************************************************************)
EXTENDS SoloMachine, SequenceTheorems, TLAPS

\* Leaves are proved by Zenon unless they name another prover.
USE Zenon

\* The fields that matter here; a field may hold anything where only its own value is
\* named.
IsState(cs) ==
  cs \in [sequence : Nat, frozen : BOOLEAN, key : {cs.key},
          diversifier : {cs.diversifier}, timestamp : {cs.timestamp}]

IsBook(k, b) ==
  b \in [sequence : Nat, key : Keys(k), diversifier : Diversifiers(k),
         timestamp : {b.timestamp}, log : {b.log}]

Types ==
  /\ states = [k \in DOMAIN states |-> states[k]]
  /\ DOMAIN states \subseteq Clients
  /\ \A k \in DOMAIN states : IsState(states[k])
  /\ heights = [k \in Clients |-> heights[k]]
  /\ applied = [k \in Clients |-> applied[k]]
  /\ book = [k \in Clients |-> book[k]]
  /\ \A k \in Clients : IsBook(k, book[k])

\* A signature with a key that no faulty machine has belongs to an honest machine's
\* client, of which the diversifier tells, and to a sequence that is behind its book.
Signer(s, k) ==
  /\ k \in Clients \ Faulty
  /\ s.bytes.diversifier \in Diversifiers(k)
  /\ s.bytes.sequence \in Nat
  /\ s.bytes.sequence < book[k].sequence
Signers == \A s \in signed : s.key \notin FaultyKeys => \E k \in Clients : Signer(s, k)

\* Two such signatures with one sequence and one diversifier are over the same data.
OneMessage ==
  \A r, s \in signed :
    (/\ r.key \notin FaultyKeys
     /\ s.key \notin FaultyKeys
     /\ r.bytes.sequence = s.bytes.sequence
     /\ r.bytes.diversifier = s.bytes.diversifier) => r.bytes.data = s.bytes.data

\* The sequence is above every stored consensus state, from the first proof on.
Behind(k) == \A h \in heights[k] : h \in Nat /\ h < states[k].sequence
AtMost(k) == \A h \in heights[k] : h \in Nat /\ h <= states[k].sequence
HeightsBehind ==
  /\ \A k \in DOMAIN states : AtMost(k) /\ (applied[k] = <<>> \/ Behind(k))
  /\ \A k \in Clients \ DOMAIN states : applied[k] = <<>>

\* The inductive invariant.
IInv == Types /\ Signers /\ OneMessage /\ FrozenForFault /\ HeightsBehind

-----------------------------------------------------------------------------
\* New signatures keep the two facts about signatures if a machine takes fresh
\* sequences for them, or if it is faulty.
LEMMA FreshSignatures ==
  ASSUME Types, Signers, OneMessage, Types',
         NEW k \in Clients, NEW N,
         signed' = signed \union N,
         \A j \in Clients : book'[j].sequence >= book[j].sequence,
         \A s \in N :
           /\ s.key = book[k].key
           /\ s.bytes.diversifier \in Diversifiers(k)
           /\ s.bytes.sequence \in Nat
           /\ s.bytes.sequence >= book[k].sequence
           /\ k \notin Faulty => s.bytes.sequence < book'[k].sequence,
         \A r, s \in N : r.bytes.sequence = s.bytes.sequence /\ k \notin Faulty =>
                           r.bytes.data = s.bytes.data
  PROVE  Signers' /\ OneMessage'
<1>1. k \in Faulty => \A s \in N : s.key \in FaultyKeys
  BY DEF Types, IsBook, FaultyKeys
<1>2. \A j \in Clients : book[j].sequence \in Nat /\ book'[j].sequence \in Nat
  BY DEF Types, IsBook
<1>3. Signers'
  <2> SUFFICES ASSUME NEW s \in signed', s.key \notin FaultyKeys
               PROVE  \E j \in Clients : Signer(s, j)'
    BY DEF Signers
  <2>1. CASE s \in N
    BY <1>1, <2>1 DEF Signer
  <2>2. CASE s \in signed
    <3>1. PICK j \in Clients : Signer(s, j)
      BY <2>2 DEF Signers
    <3>2. Signer(s, j)'
      BY <1>2, <3>1, SMT DEF Signer
    <3> QED BY <3>2
  <2> QED BY <2>1, <2>2
<1>4. OneMessage'
  <2> SUFFICES ASSUME NEW r \in signed', NEW s \in signed',
                      r.key \notin FaultyKeys, s.key \notin FaultyKeys,
                      r.bytes.sequence = s.bytes.sequence,
                      r.bytes.diversifier = s.bytes.diversifier
               PROVE  r.bytes.data = s.bytes.data
    BY DEF OneMessage
  <2>1. ASSUME NEW x \in signed, NEW y \in N, x.key \notin FaultyKeys, y.key \notin FaultyKeys,
               x.bytes.sequence = y.bytes.sequence,
               x.bytes.diversifier = y.bytes.diversifier
        PROVE  FALSE
    <3>1. PICK j \in Clients : Signer(x, j)
      BY <2>1 DEF Signers
    <3>2. k \in Clients \ Faulty
      BY <1>1, <2>1
    <3>3. j = k
      BY <2>1, <3>1, <3>2, MachineAssumption DEF Signer
    <3> QED BY <1>2, <2>1, <3>1, <3>3, SMT DEF Signer
  <2>2. CASE r \in signed /\ s \in signed
    BY <2>2 DEF OneMessage
  <2>3. CASE r \in N /\ s \in N
    BY <1>1, <2>3
  <2> QED BY <2>1, <2>2, <2>3
<1> QED BY <1>3, <1>4

\* A book with other fields.
LEMMA BookOf ==
  ASSUME NEW k, NEW q \in Nat, NEW key \in Keys(k), NEW d \in Diversifiers(k), NEW t, NEW l
  PROVE  LET b == [sequence |-> q, key |-> key, diversifier |-> d, timestamp |-> t, log |-> l]
         IN  IsBook(k, b) /\ b.sequence = q
BY DEF IsBook

LEMMA KeepsClients ==
  ASSUME IInv, UNCHANGED <<states, heights, applied>>
  PROVE  FrozenForFault' /\ HeightsBehind'
BY DEF IInv, FrozenForFault, HeightsBehind, AtMost, Behind

LEMMA KeepsSignatures ==
  ASSUME IInv, UNCHANGED <<book, signed>>
  PROVE  Signers' /\ OneMessage'
BY DEF IInv, Signers, OneMessage, Signer

LEMMA SignPreserves ==
  ASSUME IInv, NEW k \in Clients, NEW t,
         NEW data \in Messages[k] \union HeaderData(k), Sign(k, data, t)
  PROVE  IInv'
<1>1. IsBook(k, book[k])
  BY DEF IInv, Types
<1>2. data.type = "HEADER" => data.key \in Keys(k) /\ data.diversifier \in Diversifiers(k)
  <2>1. CASE data \in Messages[k]
    BY <2>1, MachineAssumption
  <2>2. CASE data \in HeaderData(k)
    <3>1. PICK hd \in Headers[k] :
            data = [type |-> "HEADER", key |-> hd.key, diversifier |-> hd.diversifier]
      BY <2>2 DEF HeaderData
    <3>2. data.key = hd.key /\ data.diversifier = hd.diversifier
      BY <3>1
    <3> QED BY <3>2 DEF Keys, Diversifiers
  <2> QED BY <2>1, <2>2
<1>3. /\ IsBook(k, book'[k])
      /\ book'[k].sequence = book[k].sequence + 1
      /\ \A j \in Clients \ {k} : book'[j] = book[j]
      /\ book' = [j \in Clients |-> book'[j]]
  <2> DEFINE q == book[k].sequence + 1
             key == IF data.type = "HEADER" THEN data.key ELSE book[k].key
             d == IF data.type = "HEADER" THEN data.diversifier ELSE book[k].diversifier
             l == Append(book[k].log, data)
  <2>1. q \in Nat /\ key \in Keys(k) /\ d \in Diversifiers(k)
    BY <1>1, <1>2, SMT DEF IsBook
  <2>2. /\ book'[k] = [sequence |-> q, key |-> key, diversifier |-> d,
                       timestamp |-> t, log |-> l]
        /\ \A j \in Clients \ {k} : book'[j] = book[j]
        /\ book' = [j \in Clients |-> book'[j]]
    BY DEF IInv, Types, Sign
  <2> HIDE DEF key, d, l
  <2> QED BY <2>1, <2>2, BookOf, SMT
<1>4. Types'
  BY <1>3, SMT DEF IInv, Types, Sign
<1>5. LET s == Signature(k, data, t, 0) IN
      /\ s.key = book[k].key
      /\ s.bytes.diversifier \in Diversifiers(k)
      /\ s.bytes.sequence = book[k].sequence
  BY <1>1, <1>2, SMT DEF Signature, HeaderSignBytes, SignBytes, IsBook
<1>6. \A j \in Clients : book'[j].sequence >= book[j].sequence
  BY <1>1, <1>3, SMT DEF IInv, Types, IsBook
<1>7. Signers' /\ OneMessage'
  <2> DEFINE N == {Signature(k, data, t, 0)}
  <2>1. signed' = signed \union N
    BY DEF Sign
  <2>2. \A s \in N : /\ s.key = book[k].key
                     /\ s.bytes.diversifier \in Diversifiers(k)
                     /\ s.bytes.sequence \in Nat
                     /\ s.bytes.sequence >= book[k].sequence
                     /\ k \notin Faulty => s.bytes.sequence < book'[k].sequence
    BY <1>1, <1>3, <1>5, SMT DEF IsBook
  <2>3. \A r, s \in N : r.bytes.sequence = s.bytes.sequence /\ k \notin Faulty =>
                          r.bytes.data = s.bytes.data
    OBVIOUS
  <2> HIDE DEF N
  <2> QED BY <1>4, <1>6, <2>1, <2>2, <2>3, FreshSignatures, SMT DEF IInv
<1>8. FrozenForFault' /\ HeightsBehind'
  BY KeepsClients DEF Sign
<1> QED BY <1>4, <1>7, <1>8 DEF IInv

LEMMA SignConnectionPreserves ==
  ASSUME IInv, NEW k \in Clients, NEW t, SignConnection(k, t)
  PROVE  IInv'
<1>1. IsBook(k, book[k])
  BY DEF IInv, Types
<1>2. /\ book'[k] = [book[k] EXCEPT !.sequence = @ + 3, !.timestamp = t,
                                   !.log = @ \o ConnectionData]
      /\ \A j \in Clients \ {k} : book'[j] = book[j]
      /\ book' = [j \in Clients |-> book'[j]]
  BY DEF IInv, Types, SignConnection
<1>3. IsBook(k, book'[k]) /\ book'[k].sequence = book[k].sequence + 3
  <2> DEFINE q == book[k].sequence + 3
             l == book[k].log \o ConnectionData
  <2>1. q \in Nat
    BY <1>1, SMT DEF IsBook
  <2>2. book'[k] = [book[k] EXCEPT !.sequence = q, !.timestamp = t, !.log = l]
    BY <1>2
  <2>3. IsBook(k, book'[k]) /\ book'[k].sequence = q
    <3> HIDE DEF l, q
    <3> QED BY <1>1, <2>1, <2>2 DEF IsBook
  <2> QED BY <2>3
<1>4. Types'
  BY <1>2, <1>3, SMT DEF IInv, Types, SignConnection
<1>5. \A i \in 1 .. 3 : ConnectionData[i].type # "HEADER"
  BY SMT DEF ConnectionData
<1>6. \A i \in 1 .. 3 :
        LET s == Signature(k, ConnectionData[i], t, i - 1) IN
        /\ s.key = book[k].key
        /\ s.bytes.diversifier \in Diversifiers(k)
        /\ s.bytes.sequence = book[k].sequence + (i - 1)
        /\ s.bytes.data = ConnectionData[i]
  BY <1>1, <1>5 DEF Signature, SignBytes, IsBook
<1>7. \A j \in Clients : book'[j].sequence >= book[j].sequence
  <2> SUFFICES ASSUME NEW j \in Clients PROVE book'[j].sequence >= book[j].sequence
    OBVIOUS
  <2>1. book[j].sequence \in Nat
    BY DEF IInv, Types, IsBook
  <2>2. CASE j = k
    BY <1>3, <2>1, <2>2, SMT
  <2>3. CASE j # k
    <3>1. book'[j] = book[j]
      BY <1>2, <2>3
    <3> QED BY <2>1, <3>1, SMT
  <2> QED BY <2>2, <2>3
<1>8. Signers' /\ OneMessage'
  <2> DEFINE N == {Signature(k, ConnectionData[i], t, i - 1) : i \in 1 .. 3}
  <2>1. signed' = signed \union N
    BY DEF SignConnection
  <2>2. \A s \in N : \E i \in 1 .. 3 :
          /\ s.key = book[k].key
          /\ s.bytes.diversifier \in Diversifiers(k)
          /\ s.bytes.sequence = book[k].sequence + (i - 1)
          /\ s.bytes.data = ConnectionData[i]
    BY <1>6
  <2> HIDE DEF N
  <2>3. book[k].sequence \in Nat
    BY <1>1 DEF IsBook
  <2>4. \A s \in N : /\ s.key = book[k].key
                     /\ s.bytes.diversifier \in Diversifiers(k)
                     /\ s.bytes.sequence \in Nat
                     /\ s.bytes.sequence >= book[k].sequence
                     /\ k \notin Faulty => s.bytes.sequence < book'[k].sequence
    BY <1>3, <2>2, <2>3, SMT
  <2>5. \A r, s \in N : r.bytes.sequence = s.bytes.sequence /\ k \notin Faulty =>
                          r.bytes.data = s.bytes.data
    BY <2>2, <2>3, SMT
  <2> QED BY <1>4, <1>7, <2>1, <2>4, <2>5, FreshSignatures, SMT DEF IInv
<1>9. FrozenForFault' /\ HeightsBehind'
  BY KeepsClients DEF SignConnection
<1> QED BY <1>4, <1>8, <1>9 DEF IInv

\* Signing again gives a signature that differs in the time alone.
LEMMA SignAgainPreserves ==
  ASSUME IInv, NEW k \in Clients, NEW t, SignAgain(k, t)
  PROVE  IInv'
<1>1. IsBook(k, book[k])
  BY DEF IInv, Types
<1>2. /\ book'[k] = [book[k] EXCEPT !.timestamp = t]
      /\ \A j \in Clients \ {k} : book'[j] = book[j]
      /\ book' = [j \in Clients |-> book'[j]]
  BY DEF IInv, Types, SignAgain
<1>3. IsBook(k, book'[k]) /\ book'[k].sequence = book[k].sequence
  BY <1>1, <1>2 DEF IsBook
<1>4. Types'
  BY <1>2, <1>3, SMT DEF IInv, Types, SignAgain
<1>5. \A j \in Clients : book'[j].sequence = book[j].sequence
  BY <1>2, <1>3
<1>6. PICK s \in signed :
        signed' = signed \union
          {[key |-> s.key, bytes |-> SignBytes(s.bytes.sequence, t,
                                               s.bytes.diversifier, s.bytes.data)]}
  BY DEF SignAgain
<1>7. \A r \in signed' : \E q \in signed :
        /\ r.key = q.key
        /\ r.bytes.sequence = q.bytes.sequence
        /\ r.bytes.diversifier = q.bytes.diversifier
        /\ r.bytes.data = q.bytes.data
  BY <1>6, SMT DEF SignBytes
<1>8. Signers'
  BY <1>5, <1>7 DEF IInv, Signers, Signer
<1>9. OneMessage'
  BY <1>7, SMT DEF IInv, OneMessage
<1>10. FrozenForFault' /\ HeightsBehind'
  BY KeepsClients DEF SignAgain
<1> QED BY <1>4, <1>8, <1>9, <1>10 DEF IInv

LEMMA DoubleSignPreserves ==
  ASSUME IInv, NEW k \in Clients, NEW t, NEW data \in Messages[k], DoubleSign(k, data, t)
  PROVE  IInv'
<1>1. Types'
  BY DEF IInv, Types, DoubleSign
<1>2. IsBook(k, book[k])
  BY DEF IInv, Types
<1>3. Signature(k, data, t, 0).key \in FaultyKeys
  BY <1>2 DEF Signature, IsBook, FaultyKeys, DoubleSign
<1>4. Signers'
  BY <1>3 DEF IInv, Signers, Signer, DoubleSign
<1>5. OneMessage'
  BY <1>3 DEF IInv, OneMessage, DoubleSign
<1>6. FrozenForFault' /\ HeightsBehind'
  BY KeepsClients DEF DoubleSign
<1> QED BY <1>1, <1>4, <1>5, <1>6 DEF IInv

-----------------------------------------------------------------------------
\* What accepting a signature does: the state of one active client moves on by at least
\* one sequence and is still active; a consensus state is stored below it, if at all.
LEMMA AcceptPreserves ==
  ASSUME IInv, NEW k \in DOMAIN states, NEW cs, IsState(cs),
         cs.sequence > states[k].sequence, ~cs.frozen,
         states' = [states EXCEPT ![k] = cs],
         \A j \in Clients \ {k} : heights'[j] = heights[j] /\ applied'[j] = applied[j],
         heights' = [j \in Clients |-> heights'[j]],
         applied' = [j \in Clients |-> applied'[j]],
         \A h \in heights'[k] : h \in heights[k] \/ h = states[k].sequence,
         UNCHANGED <<book, signed>>
  PROVE  IInv'
<1>1. /\ DOMAIN states' = DOMAIN states
      /\ states'[k] = cs
      /\ \A j \in DOMAIN states \ {k} : states'[j] = states[j]
      /\ states' = [j \in DOMAIN states' |-> states'[j]]
      /\ DOMAIN states \subseteq Clients
  BY DEF IInv, Types
<1>2. Types'
  BY <1>1 DEF IInv, Types
<1>3. states[k].sequence \in Nat /\ cs.sequence \in Nat
  BY DEF IInv, Types, IsState
<1>4. Behind(k)'
  <2>1. AtMost(k)
    BY DEF IInv, HeightsBehind
  <2> QED BY <1>1, <1>3, <2>1, SMT DEF AtMost, Behind
<1>5. AtMost(k)'
  BY <1>1, <1>3, <1>4, SMT DEF AtMost, Behind
<1>6. HeightsBehind'
  BY <1>1, <1>4, <1>5 DEF IInv, HeightsBehind, AtMost, Behind
<1>7. FrozenForFault'
  BY <1>1 DEF IInv, FrozenForFault
<1> QED BY <1>2, <1>6, <1>7, KeepsSignatures DEF IInv

LEMMA CreatePreserves ==
  ASSUME IInv, NEW k \in Clients, CreateClient(k)
  PROVE  IInv'
<1> DEFINE cs == [sequence |-> Start[k].sequence, frozen |-> FALSE, key |-> Start[k].key,
                  diversifier |-> Start[k].diversifier, timestamp |-> Start[k].timestamp]
<1>1. /\ DOMAIN states' = DOMAIN states \union {k}
      /\ states'[k] = cs
      /\ \A j \in DOMAIN states : states'[j] = states[j]
      /\ states' = [j \in DOMAIN states' |-> states'[j]]
      /\ k \notin DOMAIN states
  BY DEF CreateClient, Exists
<1>2. IsState(cs) /\ ~cs.frozen /\ cs.sequence = Start[k].sequence /\ Start[k].sequence \in Nat
  BY MachineAssumption DEF IsState
<1> HIDE DEF cs
<1>3. /\ heights'[k] = {Start[k].sequence}
      /\ \A j \in Clients \ {k} : heights'[j] = heights[j]
      /\ heights' = [j \in Clients |-> heights'[j]]
      /\ UNCHANGED <<book, signed, applied>>
  BY DEF CreateClient, IInv, Types
<1>4. Types'
  BY <1>1, <1>2, <1>3 DEF IInv, Types
<1>5. HeightsBehind'
  <2>1. AtMost(k)' /\ applied'[k] = <<>>
    BY <1>1, <1>2, <1>3, SMT DEF IInv, HeightsBehind, AtMost
  <2>2. ASSUME NEW j \in DOMAIN states
        PROVE  AtMost(j)' /\ (applied'[j] = <<>> \/ Behind(j)')
    BY <1>1, <1>3, <2>2 DEF IInv, Types, HeightsBehind, AtMost, Behind
  <2>3. \A j \in Clients \ DOMAIN states' : applied'[j] = <<>>
    BY <1>1, <1>3 DEF IInv, HeightsBehind
  <2> QED BY <1>1, <2>1, <2>2, <2>3 DEF HeightsBehind
<1>6. FrozenForFault'
  BY <1>1, <1>2 DEF IInv, FrozenForFault
<1> QED BY <1>3, <1>4, <1>5, <1>6, KeepsSignatures DEF IInv

LEMMA VerifiedState ==
  ASSUME NEW cs, IsState(cs), NEW t
  PROVE  /\ IsState(Verified(cs, t))
         /\ Verified(cs, t).sequence = cs.sequence + 1
         /\ Verified(cs, t).frozen = cs.frozen
<1> DEFINE q == cs.sequence + 1
<1>1. q \in Nat
  BY SMT DEF IsState
<1>2. Verified(cs, t) = [cs EXCEPT !.sequence = q, !.timestamp = t]
  BY DEF Verified
<1>3. /\ IsState(Verified(cs, t))
      /\ Verified(cs, t).sequence = q
      /\ Verified(cs, t).frozen = cs.frozen
  <2> HIDE DEF q
  <2> QED BY <1>1, <1>2 DEF IsState
<1> QED BY <1>3

LEMMA VerifyOnePreserves ==
  ASSUME IInv, NEW k \in Clients, NEW s, VerifyOne(k, s)
  PROVE  IInv'
<1> DEFINE cs == Verified(states[k], s.bytes.timestamp)
<1>1. k \in DOMAIN states /\ IsState(states[k])
  BY DEF VerifyOne, Exists, IInv, Types
<1>2. IsState(cs) /\ cs.sequence = states[k].sequence + 1 /\ cs.frozen = states[k].frozen
  BY <1>1, VerifiedState
<1>3. ~states[k].frozen /\ states[k].sequence \in Nat
  BY <1>1 DEF VerifyOne, Accepts, Verify, Active, IsState
<1>4. states' = [states EXCEPT ![k] = cs]
  BY DEF VerifyOne
<1> HIDE DEF cs
<1>5. /\ applied' = [j \in Clients |-> applied'[j]]
      /\ heights' = [j \in Clients |-> heights'[j]]
      /\ \A j \in Clients \ {k} : heights'[j] = heights[j] /\ applied'[j] = applied[j]
      /\ heights' = heights
      /\ UNCHANGED <<book, signed>>
  BY DEF VerifyOne, IInv, Types
<1>6. cs.sequence > states[k].sequence
  BY <1>2, <1>3, SMT
<1> QED BY <1>1, <1>2, <1>3, <1>4, <1>5, <1>6, AcceptPreserves

LEMMA VerifyHandshakePreserves ==
  ASSUME IInv, NEW k \in Clients, NEW height, NEW times, VerifyHandshake(k, height, times)
  PROVE  IInv'
<1> DEFINE one == Verified(states[k], times[1])
           two == Verified(one, times[2])
           cs == Verified(two, times[3])
<1>1. k \in DOMAIN states /\ IsState(states[k])
  BY DEF VerifyHandshake, Exists, IInv, Types
<1>2. IsState(one) /\ one.sequence = states[k].sequence + 1 /\ one.frozen = states[k].frozen
  BY <1>1, VerifiedState
<1>3. IsState(two) /\ two.sequence = one.sequence + 1 /\ two.frozen = one.frozen
  <2> HIDE DEF one
  <2> QED BY <1>2, VerifiedState
<1>4. IsState(cs) /\ cs.sequence = two.sequence + 1 /\ cs.frozen = two.frozen
  <2> HIDE DEF two
  <2> QED BY <1>3, VerifiedState
<1>5. ~states[k].frozen /\ states[k].sequence \in Nat
  BY <1>1 DEF VerifyHandshake, Verify, Active, IsState
<1>6. states' = [states EXCEPT ![k] = cs]
  BY DEF VerifyHandshake
<1> HIDE DEF one, two, cs
<1>7. /\ applied' = [j \in Clients |-> applied'[j]]
      /\ heights' = [j \in Clients |-> heights'[j]]
      /\ \A j \in Clients \ {k} : heights'[j] = heights[j] /\ applied'[j] = applied[j]
      /\ heights' = heights
      /\ UNCHANGED <<book, signed>>
  BY DEF VerifyHandshake, IInv, Types
<1>8. cs.sequence > states[k].sequence /\ ~cs.frozen
  BY <1>2, <1>3, <1>4, <1>5, SMT
<1> QED BY <1>1, <1>4, <1>6, <1>7, <1>8, AcceptPreserves

LEMMA UpdatePreserves ==
  ASSUME IInv, NEW k \in Clients, NEW hd, UpdateClient(k, hd)
  PROVE  IInv'
<1> DEFINE cs == Update(states[k], hd)
           q == states[k].sequence + 1
<1>1. k \in DOMAIN states /\ IsState(states[k]) /\ ~states[k].frozen
  BY DEF UpdateClient, Exists, Active, IInv, Types
<1>2. states[k].sequence \in Nat /\ q \in Nat /\ q > states[k].sequence
  BY <1>1, SMT DEF IsState
<1>3. cs = [states[k] EXCEPT !.sequence = q, !.key = hd.key,
                             !.diversifier = hd.diversifier, !.timestamp = hd.timestamp]
  BY DEF Update
<1>4. states' = [states EXCEPT ![k] = cs]
  BY DEF UpdateClient
<1>5. IsState(cs) /\ cs.sequence = q /\ ~cs.frozen
  <2> HIDE DEF cs, q
  <2> QED BY <1>1, <1>2, <1>3 DEF IsState
<1> HIDE DEF cs
<1>6. /\ applied' = [j \in Clients |-> applied'[j]]
      /\ heights' = [j \in Clients |-> heights'[j]]
      /\ \A j \in Clients \ {k} : heights'[j] = heights[j] /\ applied'[j] = applied[j]
      /\ heights'[k] = heights[k] \union {hd.sequence}
      /\ hd.sequence = states[k].sequence
      /\ UNCHANGED <<book, signed>>
  BY DEF UpdateClient, CheckHeader, GetHeight, IInv, Types
<1>7. \A h \in heights'[k] : h \in heights[k] \/ h = states[k].sequence
  BY <1>6
<1>8. cs.sequence > states[k].sequence
  BY <1>2, <1>5
<1> QED BY <1>1, <1>4, <1>5, <1>6, <1>7, <1>8, AcceptPreserves

\* The two signatures of a misbehaviour have one key, one sequence and one diversifier;
\* with different data the key must be a faulty machine's.
LEMMA MisbehaviourPreserves ==
  ASSUME IInv, NEW k \in Clients, NEW sequence, NEW one, NEW two,
         SubmitMisbehaviour(k, sequence, one, two)
  PROVE  IInv'
<1> DEFINE r == [key |-> states[k].key,
                 bytes |-> SignBytes(sequence, one.bytes.timestamp,
                                     states[k].diversifier, one.bytes.data)]
           s == [key |-> states[k].key,
                 bytes |-> SignBytes(sequence, two.bytes.timestamp,
                                     states[k].diversifier, two.bytes.data)]
<1>1. r \in signed /\ s \in signed
  BY DEF SubmitMisbehaviour, VerifySignatureAndData, MisbehaviourSignBytes, VerifySignature
<1>2. /\ r.key = states[k].key /\ s.key = states[k].key
      /\ r.bytes.sequence = s.bytes.sequence
      /\ r.bytes.diversifier = s.bytes.diversifier
      /\ r.bytes.data = one.bytes.data
      /\ s.bytes.data = two.bytes.data
  BY DEF SignBytes
<1> HIDE DEF r, s
<1>3. one.bytes.data # two.bytes.data
  BY DEF SubmitMisbehaviour, MisbehaviourValidateBasic
<1>4. states[k].key \in FaultyKeys
  BY <1>1, <1>2, <1>3 DEF IInv, OneMessage
<1>5. /\ k \in DOMAIN states
      /\ DOMAIN states' = DOMAIN states
      /\ states'[k] = [states[k] EXCEPT !.frozen = TRUE]
      /\ \A j \in DOMAIN states \ {k} : states'[j] = states[j]
      /\ states' = [j \in DOMAIN states' |-> states'[j]]
      /\ UNCHANGED <<heights, book, signed, applied>>
  BY DEF SubmitMisbehaviour, Exists, IInv, Types
<1>6. IsState(states[k])
  BY <1>5 DEF IInv, Types
<1>7. /\ IsState(states'[k])
      /\ states'[k].sequence = states[k].sequence
      /\ states'[k].key = states[k].key
  BY <1>5, <1>6 DEF IsState
<1>8. Types'
  BY <1>5, <1>7 DEF IInv, Types
<1>9. FrozenForFault'
  BY <1>4, <1>5, <1>7 DEF IInv, FrozenForFault
<1>10. HeightsBehind'
  BY <1>5, <1>7 DEF IInv, HeightsBehind, AtMost, Behind
<1> QED BY <1>5, <1>8, <1>9, <1>10, KeepsSignatures DEF IInv

LEMMA ProposalPreserves ==
  ASSUME IInv, NEW k \in Clients, NEW substitute \in Clients,
         ClientUpdateProposal(k, substitute)
  PROVE  IInv'
<1> DEFINE cs == [states[substitute] EXCEPT !.frozen = FALSE]
<1>1. k \in DOMAIN states /\ substitute \in DOMAIN states
  BY DEF ClientUpdateProposal, Exists
<1>2. IsState(states[substitute]) /\ IsState(states[k])
  BY <1>1 DEF IInv, Types
<1>3. IsState(cs) /\ ~cs.frozen /\ cs.sequence = states[substitute].sequence
  BY <1>2 DEF IsState
<1>4. states' = [states EXCEPT ![k] = cs]
  BY DEF ClientUpdateProposal, CheckSubstituteAndUpdateState
<1> HIDE DEF cs
<1>5. cs.sequence > states[k].sequence
  BY <1>2, <1>3 DEF ClientUpdateProposal, IsState
<1>6. /\ UNCHANGED <<heights, book, signed, applied>>
      /\ applied' = [j \in Clients |-> applied'[j]]
      /\ heights' = [j \in Clients |-> heights'[j]]
  BY DEF ClientUpdateProposal, IInv, Types
<1> QED BY <1>1, <1>3, <1>4, <1>5, <1>6, AcceptPreserves

-----------------------------------------------------------------------------
LEMMA InitIInv == Init => IInv
<1> SUFFICES ASSUME Init PROVE IInv
  OBVIOUS
<1>1. DOMAIN states = {} /\ states = [k \in {} |-> states[k]]
  BY SMT DEF Init
<1>2. \A k \in Clients : IsBook(k, book[k])
  <2> SUFFICES ASSUME NEW k \in Clients PROVE IsBook(k, book[k])
    OBVIOUS
  <2>1. /\ Start[k].sequence \in Nat
        /\ Start[k].key \in Keys(k)
        /\ Start[k].diversifier \in Diversifiers(k)
    BY MachineAssumption DEF Keys, Diversifiers
  <2> QED BY <2>1, BookOf DEF Init
<1>3. Types
  BY <1>1, <1>2 DEF Init, Types
<1> QED BY <1>1, <1>3 DEF Init, IInv, Signers, OneMessage, FrozenForFault, HeightsBehind

LEMMA NextIInv == IInv /\ [Next]_vars => IInv'
<1> SUFFICES ASSUME IInv, [Next]_vars PROVE IInv'
  OBVIOUS
<1>1. CASE UNCHANGED vars
  BY <1>1 DEF vars, IInv, Types, Signers, Signer, OneMessage, FrozenForFault,
              HeightsBehind, AtMost, Behind
<1>2. CASE Next
  <2>1. PICK k \in Clients : Machine(k) \/ Client(k)
    BY <1>2 DEF Next
  <2>2. CASE Machine(k)
    BY <2>2, SignPreserves, SignConnectionPreserves, SignAgainPreserves,
       DoubleSignPreserves DEF Machine
  <2>3. CASE Client(k)
    BY <2>3, CreatePreserves, VerifyOnePreserves, VerifyHandshakePreserves, UpdatePreserves,
       MisbehaviourPreserves, ProposalPreserves DEF Client
  <2> QED BY <2>1, <2>2, <2>3
<1> QED BY <1>1, <1>2

\* CheckMisbehaviourAndUpdateState freezes no client whose key belongs to honest machines
\* only, however many clients share the key, as long as these machines keep the
\* diversifiers of their clients apart.
THEOREM HonestMachinesNotFrozen == Spec => []FrozenForFault
<1>1. IInv => FrozenForFault
  BY DEF IInv
<1> QED BY InitIInv, NextIInv, <1>1, PTL DEF Spec

\* No signature proves a timeout to the client of a connection.
NoTimeout(k) ==
  \A s \in signed : /\ ~ TimeoutPacketVerifies(k, s)
                    /\ \A closed \in signed : ~ TimeoutOnCloseVerifies(k, closed, s)

\* TimeoutPacket and TimeoutOnClose never find a proof that a solo machine client accepts,
\* once the connection handshake has used a sequence of the client, whatever the machine
\* signs and whatever update, misbehaviour or proposal follows: the stored consensus
\* states are all of earlier sequences, and the first of two proofs at one height moves
\* the client to the next (GetTimestampAtHeight, produceVerificationArgs).
THEOREM TimeoutsNeverProved ==
  Spec => [](\A k \in DOMAIN states : Connected(k) => NoTimeout(k))
<1>1. IInv => \A k \in DOMAIN states : Connected(k) => NoTimeout(k)
  <2> SUFFICES ASSUME IInv, NEW k \in DOMAIN states, Connected(k), NEW s \in signed,
                      NEW closed \in signed
               PROVE  ~ TimeoutPacketVerifies(k, s) /\ ~ TimeoutOnCloseVerifies(k, closed, s)
    BY DEF NoTimeout
  <2>1. IsState(states[k]) /\ states[k].sequence \in Nat
    BY DEF IInv, Types, IsState
  <2>2. Behind(k)
    BY SMT DEF IInv, HeightsBehind, Connected
  <2>3. \A t : Verified(states[k], t).sequence # states[k].sequence
    BY <2>1, VerifiedState, SMT
  <2>4. ~ TimeoutPacketVerifies(k, s)
    <3> SUFFICES ASSUME TimeoutPacketVerifies(k, s) PROVE FALSE
      OBVIOUS
    <3>1. s.bytes.sequence \in heights[k] /\ s.bytes.sequence = states[k].sequence
      BY DEF TimeoutPacketVerifies, Accepts, Verify, ProduceVerificationArgs
    <3> QED BY <2>1, <2>2, <3>1, SMT DEF Behind
  <2>5. ~ TimeoutOnCloseVerifies(k, closed, s)
    BY <2>3 DEF TimeoutOnCloseVerifies, Accepts, Verify, ProduceVerificationArgs
  <2> QED BY <2>4, <2>5
<1> QED BY InitIInv, NextIInv, <1>1, PTL DEF Spec

-----------------------------------------------------------------------------
(* The order of what a client accepts.  The book of a machine numbers its messages from
   the start sequence; a signature of an honest machine is of the message the book has
   under its sequence; and as long as only own headers were accepted, the client has
   accepted one message for each sequence and still has a key and a diversifier of its
   own machine. *)

\* What a machine may sign.
Data(k) == Messages[k] \union HeaderData(k) \union {ConnectionData[i] : i \in 1 .. 3}

Numbered(k, b) == /\ b.log \in Seq(Data(k))
                  /\ b.sequence = Start[k].sequence + Len(b.log)

Recorded(k, s, b) ==
  s.key \notin FaultyKeys /\ s.bytes.diversifier \in Diversifiers(k) =>
    /\ s.bytes.sequence \in Start[k].sequence .. b.sequence - 1
    /\ s.bytes.data = b.log[s.bytes.sequence - Start[k].sequence + 1]

OwnHeaders(k, A) == \A i \in DOMAIN A : OwnHeader(k, A[i])

InOrder(k, A, log) ==
  \A i \in DOMAIN A :
    (\A j \in 1 .. i : OwnHeader(k, A[j])) => i <= Len(log) /\ A[i].bytes.data = log[i]

InStep(k, cs, A) ==
  OwnHeaders(k, A) => /\ cs.sequence = Start[k].sequence + Len(A)
                      /\ cs.key \in Keys(k)
                      /\ cs.diversifier \in Diversifiers(k)

IsList(A) == \E T : A \in Seq(T)

Order ==
  /\ \A k \in Clients : Numbered(k, book[k])
  /\ \A k \in Clients \ Faulty : \A s \in signed : Recorded(k, s, book[k])
  /\ \A k \in Clients : IsList(applied[k])
  /\ \A k \in Clients \ Faulty : InOrder(k, applied[k], book[k].log)
  /\ \A k \in DOMAIN states \ Faulty : InStep(k, states[k], applied[k])

LEMMA HonestKeys ==
  ASSUME NEW k \in Clients \ Faulty, NEW key \in Keys(k)
  PROVE  key \notin FaultyKeys
BY KeyAssumption DEF FaultyKeys

LEMMA HeaderKeys ==
  ASSUME NEW k \in Clients, NEW data \in Data(k), data.type = "HEADER"
  PROVE  data.key \in Keys(k)
<1>1. data \notin Messages[k]
  BY MachineAssumption
<1>2. data \notin {ConnectionData[i] : i \in 1 .. 3}
  BY SMT DEF ConnectionData
<1>3. PICK hd \in Headers[k] :
        data = [type |-> "HEADER", key |-> hd.key, diversifier |-> hd.diversifier]
  BY <1>1, <1>2 DEF Data, HeaderData
<1>4. data.key = hd.key
  BY <1>3
<1> QED BY <1>4 DEF Keys

\* One more message in the list.
LEMMA ListMore ==
  ASSUME NEW A, IsList(A), NEW x
  PROVE  /\ IsList(Append(A, x))
         /\ Len(A) \in Nat /\ DOMAIN A = 1 .. Len(A)
         /\ Len(Append(A, x)) = Len(A) + 1
         /\ DOMAIN Append(A, x) = 1 .. Len(A) + 1
         /\ Append(A, x)[Len(A) + 1] = x
         /\ \A i \in 1 .. Len(A) : Append(A, x)[i] = A[i]
<1>1. PICK T : A \in Seq(T)
  BY DEF IsList
<1>2. A \in Seq(T \union {x}) /\ x \in T \union {x}
  BY <1>1, SMT
<1>3. Append(A, x) \in Seq(T \union {x})
  BY <1>2, SMT
<1> QED BY <1>2, <1>3, SMT DEF IsList

\* A client in step that accepts a recorded signature stays in step.
LEMMA AcceptInOrder ==
  ASSUME NEW k \in Clients \ Faulty, NEW cs, NEW new, NEW A, NEW s, NEW b,
         IsList(A), InOrder(k, A, b.log), InStep(k, cs, A),
         Numbered(k, b), Recorded(k, s, b),
         s.key = cs.key, s.bytes.sequence = cs.sequence,
         new.sequence = cs.sequence + 1,
         \/ /\ s.bytes.data.type = "HEADER"
            /\ new.key = s.bytes.data.key
            /\ new.diversifier = s.bytes.diversifier
         \/ /\ s.bytes.data.type # "HEADER"
            /\ s.bytes.diversifier = cs.diversifier
            /\ new.key = cs.key
            /\ new.diversifier = cs.diversifier
  PROVE  /\ IsList(Append(A, s))
         /\ InOrder(k, Append(A, s), b.log)
         /\ InStep(k, new, Append(A, s))
<1> DEFINE B == Append(A, s)
           n == Len(A) + 1
<1>1. /\ IsList(B)
      /\ Len(A) \in Nat /\ DOMAIN A = 1 .. Len(A)
      /\ Len(B) = n /\ DOMAIN B = 1 .. n /\ B[n] = s
      /\ \A i \in 1 .. Len(A) : B[i] = A[i]
  BY ListMore, SMT
<1> HIDE DEF B
<1>2. Start[k].sequence \in Nat
  BY MachineAssumption
<1>3. ASSUME OwnHeaders(k, B)
      PROVE  /\ cs.sequence = Start[k].sequence + Len(A)
             /\ cs.key \in Keys(k) /\ cs.diversifier \in Diversifiers(k)
             /\ s.bytes.diversifier \in Diversifiers(k)
             /\ n \in 1 .. Len(b.log) /\ s.bytes.data = b.log[n]
             /\ b.log[n] \in Data(k)
  <2>1. OwnHeaders(k, A) /\ OwnHeader(k, s)
    BY <1>1, <1>3, SMT DEF OwnHeaders
  <2>2. /\ cs.sequence = Start[k].sequence + Len(A)
        /\ cs.key \in Keys(k) /\ cs.diversifier \in Diversifiers(k)
    BY <2>1 DEF InStep
  <2>3. s.bytes.diversifier \in Diversifiers(k)
    BY <2>1, <2>2 DEF OwnHeader
  <2>4. s.key \notin FaultyKeys
    BY <2>2, HonestKeys
  <2>5. /\ cs.sequence \in Start[k].sequence .. b.sequence - 1
        /\ s.bytes.data = b.log[cs.sequence - Start[k].sequence + 1]
    BY <2>3, <2>4 DEF Recorded
  <2>6. b.log \in Seq(Data(k)) /\ b.sequence = Start[k].sequence + Len(b.log)
    BY DEF Numbered
  <2>7. n \in 1 .. Len(b.log) /\ cs.sequence - Start[k].sequence + 1 = n
    <3>1. Len(b.log) \in Nat /\ Len(A) \in Nat
      BY <1>1, <2>6, SMT
    <3>2. /\ Start[k].sequence + Len(A) <= b.sequence - 1
          /\ b.sequence \in Nat
      BY <1>2, <2>2, <2>5, <2>6, <3>1, SMT
    <3> QED BY <1>2, <2>2, <2>6, <3>1, <3>2, SMT
  <2>8. b.log[n] \in Data(k)
    BY <2>6, <2>7, SMT
  <2> QED BY <2>2, <2>3, <2>5, <2>7, <2>8
<1>4. InOrder(k, B, b.log)
  <2> SUFFICES ASSUME NEW i \in DOMAIN B, \A j \in 1 .. i : OwnHeader(k, B[j])
               PROVE  i <= Len(b.log) /\ B[i].bytes.data = b.log[i]
    BY DEF InOrder
  <2>1. CASE i = n
    <3>1. OwnHeaders(k, B)
      BY <1>1, <2>1 DEF OwnHeaders
    <3> QED BY <1>1, <1>3, <2>1, <3>1, SMT DEF Numbered
  <2>2. CASE i # n
    <3>1. i \in DOMAIN A /\ B[i] = A[i]
      BY <1>1, <2>2, SMT
    <3>2. \A j \in 1 .. i : OwnHeader(k, A[j])
      BY <1>1, <3>1, SMT
    <3> QED BY <3>1, <3>2 DEF InOrder
  <2> QED BY <2>1, <2>2
<1>5. InStep(k, new, B)
  <2> SUFFICES ASSUME OwnHeaders(k, B)
               PROVE  /\ new.sequence = Start[k].sequence + Len(B)
                      /\ new.key \in Keys(k)
                      /\ new.diversifier \in Diversifiers(k)
    BY DEF InStep
  <2>1. new.sequence = Start[k].sequence + Len(B)
    <3> DEFINE a == Len(A)
               q == Start[k].sequence
    <3>1. cs.sequence = q + a
      BY <1>3
    <3>2. a \in Nat /\ q \in Nat /\ Len(B) = a + 1
      BY <1>1, <1>2
    <3> HIDE DEF a, q
    <3>3. new.sequence = q + Len(B)
      BY <3>1, <3>2, SMT
    <3> QED BY <3>3 DEF q
  <2>2. CASE s.bytes.data.type = "HEADER"
    <3>1. s.bytes.data \in Data(k)
      BY <1>3
    <3>2. s.bytes.data.key \in Keys(k)
      BY <2>2, <3>1, HeaderKeys
    <3> QED BY <1>3, <2>1, <2>2, <3>2
  <2>3. CASE s.bytes.data.type # "HEADER"
    BY <1>3, <2>1, <2>3
  <2> QED BY <2>2, <2>3
<1> QED BY <1>1, <1>4, <1>5 DEF B

\* A book that is only written on.
Extends(b, c) == /\ Len(b.log) <= Len(c.log)
                 /\ \A i \in 1 .. Len(b.log) : c.log[i] = b.log[i]

LEMMA BookGrows ==
  ASSUME NEW k \in Clients, NEW b, NEW c, Numbered(k, b), Numbered(k, c), Extends(b, c)
  PROVE  /\ \A s : Recorded(k, s, b) => Recorded(k, s, c)
         /\ \A A : IsList(A) /\ InOrder(k, A, b.log) => InOrder(k, A, c.log)
<1>1. Start[k].sequence \in Nat
  BY MachineAssumption
<1>2. /\ Len(b.log) \in Nat /\ Len(c.log) \in Nat
      /\ b.sequence = Start[k].sequence + Len(b.log)
      /\ c.sequence = Start[k].sequence + Len(c.log)
  BY SMT DEF Numbered
<1>3. ASSUME NEW s, Recorded(k, s, b),
             s.key \notin FaultyKeys, s.bytes.diversifier \in Diversifiers(k)
      PROVE  /\ s.bytes.sequence \in Start[k].sequence .. c.sequence - 1
             /\ s.bytes.data = c.log[s.bytes.sequence - Start[k].sequence + 1]
  <2> DEFINE i == s.bytes.sequence - Start[k].sequence + 1
  <2>1. /\ s.bytes.sequence \in Start[k].sequence .. b.sequence - 1
        /\ s.bytes.data = b.log[i]
    BY <1>3 DEF Recorded
  <2>2. s.bytes.sequence \in Start[k].sequence .. c.sequence - 1 /\ i \in 1 .. Len(b.log)
    <3> DEFINE q == s.bytes.sequence
               p == Start[k].sequence
               m == Len(b.log)
               n == Len(c.log)
    <3>1. /\ q \in p .. b.sequence - 1 /\ p \in Nat /\ m \in Nat /\ n \in Nat
          /\ b.sequence = p + m /\ c.sequence = p + n /\ m <= n
      BY <1>1, <1>2, <2>1 DEF Extends
    <3> HIDE DEF q, p, m, n
    <3>2. q \in p .. c.sequence - 1 /\ q - p + 1 \in 1 .. m
      BY <3>1, SMT
    <3> QED BY <3>2 DEF q, p, m
  <2> QED BY <2>1, <2>2 DEF Extends
<1>4. ASSUME NEW A, IsList(A), InOrder(k, A, b.log), NEW i \in DOMAIN A,
             \A j \in 1 .. i : OwnHeader(k, A[j])
      PROVE  i <= Len(c.log) /\ A[i].bytes.data = c.log[i]
  <2>1. i \in Nat \ {0}
    BY <1>4, ListMore, SMT
  <2>2. i <= Len(b.log) /\ A[i].bytes.data = b.log[i]
    BY <1>4 DEF InOrder
  <2>3. i \in 1 .. Len(b.log) /\ i <= Len(c.log)
    BY <1>2, <2>1, <2>2, SMT DEF Extends
  <2> QED BY <2>2, <2>3 DEF Extends
<1> QED BY <1>3, <1>4 DEF Recorded, InOrder

\* A step of the machine of k keeps the order if its book records what it signs.
LEMMA MachineKeepsOrder ==
  ASSUME IInv, Order, NEW k \in Clients,
         UNCHANGED <<states, applied>>,
         \A j \in Clients \ {k} : book'[j] = book[j],
         Numbered(k, book'[k]), Extends(book[k], book'[k]),
         \A s \in signed' : s \in signed \/ \A j \in Clients \ Faulty : Recorded(j, s, book'[j])
  PROVE  Order'
<1>1. \A j \in Clients : Numbered(j, book'[j])
  BY DEF Order
<1>2. \A j \in Clients : Extends(book[j], book'[j])
  <2> SUFFICES ASSUME NEW j \in Clients, j # k PROVE Extends(book[j], book'[j])
    OBVIOUS
  <2>1. book[j].log \in Seq(Data(j)) /\ book'[j] = book[j]
    BY DEF Order, Numbered
  <2> QED BY <2>1, SMT DEF Extends
<1>3. \A j \in Clients : Numbered(j, book[j])
  BY DEF Order
<1>4. \A j \in Clients : \A s : Recorded(j, s, book[j]) => Recorded(j, s, book'[j])
  BY <1>1, <1>2, <1>3, BookGrows
<1>5. \A j \in Clients : \A A :
        IsList(A) /\ InOrder(j, A, book[j].log) => InOrder(j, A, book'[j].log)
  BY <1>1, <1>2, <1>3, BookGrows
<1>6. \A j \in Clients \ Faulty : \A s \in signed' : Recorded(j, s, book'[j])
  BY <1>4 DEF Order
<1>7. \A j \in Clients \ Faulty : InOrder(j, applied'[j], book'[j].log)
  BY <1>5 DEF Order
<1> QED BY <1>1, <1>6, <1>7 DEF Order

\* A signature that the machine of k makes and its book records.
LEMMA FreshRecorded ==
  ASSUME IInv, NEW k \in Clients, NEW s, s.key = book[k].key,
         s.bytes.diversifier \in Diversifiers(k),
         Recorded(k, s, book'[k])
  PROVE  \A j \in Clients \ Faulty : Recorded(j, s, book'[j])
<1> SUFFICES ASSUME NEW j \in Clients \ Faulty PROVE Recorded(j, s, book'[j])
  OBVIOUS
<1>1. CASE k \in Faulty
  <2>1. s.key \in FaultyKeys
    BY <1>1 DEF IInv, Types, IsBook, FaultyKeys
  <2> QED BY <2>1 DEF Recorded
<1>2. CASE j = k
  BY <1>2
<1>3. CASE k \notin Faulty /\ j # k
  <2>1. s.bytes.diversifier \notin Diversifiers(j)
    BY <1>3, MachineAssumption
  <2> QED BY <2>1 DEF Recorded
<1> QED BY <1>1, <1>2, <1>3

\* One more message in the book.
Writes(b, c, data) == c.sequence = b.sequence + 1 /\ c.log = Append(b.log, data)

LEMMA BookMore ==
  ASSUME NEW k \in Clients, NEW b, Numbered(k, b), NEW data \in Data(k), NEW c,
         Writes(b, c, data)
  PROVE  /\ Numbered(k, c) /\ Extends(b, c)
         /\ b.sequence \in Start[k].sequence .. c.sequence - 1
         /\ c.log[b.sequence - Start[k].sequence + 1] = data
<1>1. Start[k].sequence \in Nat
  BY MachineAssumption
<1>2. b.log \in Seq(Data(k)) /\ b.sequence = Start[k].sequence + Len(b.log)
  BY DEF Numbered
<1>3. /\ c.log \in Seq(Data(k)) /\ Len(c.log) = Len(b.log) + 1 /\ Len(b.log) \in Nat
      /\ \A i \in 1 .. Len(b.log) : c.log[i] = b.log[i]
      /\ c.log[Len(b.log) + 1] = data
      /\ c.sequence = b.sequence + 1
  BY <1>2, SMT DEF Writes
<1>4. Numbered(k, c) /\ Extends(b, c)
  <2>1. c.sequence = Start[k].sequence + Len(c.log) /\ Len(b.log) <= Len(c.log)
    <3> DEFINE m == Len(b.log)
               n == Len(c.log)
    <3>1. /\ m \in Nat /\ n = m + 1 /\ b.sequence = Start[k].sequence + m
          /\ c.sequence = b.sequence + 1
      BY <1>2, <1>3
    <3> HIDE DEF m, n
    <3>2. c.sequence = Start[k].sequence + n /\ m <= n
      BY <1>1, <3>1, SMT
    <3> QED BY <3>2 DEF m, n
  <2> QED BY <1>3, <2>1 DEF Numbered, Extends
<1>5. b.sequence \in Start[k].sequence .. c.sequence - 1
  BY <1>1, <1>2, <1>3, SMT
<1>6. b.sequence - Start[k].sequence + 1 = Len(b.log) + 1
  BY <1>1, <1>2, <1>3, SMT
<1> QED BY <1>3, <1>4, <1>5, <1>6

LEMMA SignKeepsOrder ==
  ASSUME IInv, Order, NEW k \in Clients, NEW t,
         NEW data \in Messages[k] \union HeaderData(k), Sign(k, data, t)
  PROVE  Order'
<1> DEFINE s == Signature(k, data, t, 0)
<1>1. /\ book'[k].sequence = book[k].sequence + 1
      /\ book'[k].log = Append(book[k].log, data)
      /\ \A j \in Clients \ {k} : book'[j] = book[j]
      /\ signed' = signed \union {s}
      /\ UNCHANGED <<states, applied>>
  BY DEF IInv, Types, Sign
<1>2. data \in Data(k)
  BY DEF Data
<1>3. Numbered(k, book[k])
  BY DEF Order
<1>4. /\ Numbered(k, book'[k]) /\ Extends(book[k], book'[k])
      /\ book[k].sequence \in Start[k].sequence .. book'[k].sequence - 1
      /\ book'[k].log[book[k].sequence - Start[k].sequence + 1] = data
  <2>1. Writes(book[k], book'[k], data)
    BY <1>1 DEF Writes
  <2> QED BY <1>2, <1>3, <2>1, BookMore, SMT
<1>5. data.type = "HEADER" =>
        /\ data = [type |-> "HEADER", key |-> data.key, diversifier |-> data.diversifier]
        /\ data.diversifier \in Diversifiers(k)
  <2>1. CASE data \in Messages[k]
    BY <2>1, MachineAssumption
  <2>2. CASE data \in HeaderData(k)
    <3>1. PICK hd \in Headers[k] :
            data = [type |-> "HEADER", key |-> hd.key, diversifier |-> hd.diversifier]
      BY <2>2 DEF HeaderData
    <3>2. data.key = hd.key /\ data.diversifier = hd.diversifier
      BY <3>1
    <3> QED BY <3>1, <3>2 DEF Diversifiers
  <2> QED BY <2>1, <2>2
<1>6. book[k].sequence \in Nat /\ book[k].diversifier \in Diversifiers(k)
  BY DEF IInv, Types, IsBook
<1>7. /\ s.key = book[k].key
      /\ s.bytes.diversifier \in Diversifiers(k)
      /\ s.bytes.sequence = book[k].sequence
      /\ s.bytes.data = data
  BY <1>5, <1>6, SMT DEF Signature, HeaderSignBytes, SignBytes
<1> HIDE DEF s
<1>8. Recorded(k, s, book'[k])
  BY <1>4, <1>7 DEF Recorded
<1>9. \A j \in Clients \ Faulty : Recorded(j, s, book'[j])
  BY <1>7, <1>8, FreshRecorded
<1> QED BY <1>1, <1>4, <1>9, MachineKeepsOrder

LEMMA SignConnectionKeepsOrder ==
  ASSUME IInv, Order, NEW k \in Clients, NEW t, SignConnection(k, t)
  PROVE  Order'
<1> DEFINE N == {Signature(k, ConnectionData[i], t, i - 1) : i \in 1 .. 3}
           p == Start[k].sequence
           n == Len(book[k].log)
<1>1. IsBook(k, book[k]) /\ Numbered(k, book[k]) /\ p \in Nat
  BY MachineAssumption DEF IInv, Types, Order
<1>2. /\ book'[k] = [book[k] EXCEPT !.sequence = @ + 3, !.timestamp = t,
                                   !.log = @ \o ConnectionData]
      /\ \A j \in Clients \ {k} : book'[j] = book[j]
      /\ signed' = signed \union N
      /\ UNCHANGED <<states, applied>>
  BY DEF IInv, Types, SignConnection
<1>3. book'[k].sequence = book[k].sequence + 3 /\ book'[k].log = book[k].log \o ConnectionData
  BY <1>1, <1>2 DEF IsBook
<1>4. ConnectionData \in Seq(Data(k)) /\ Len(ConnectionData) = 3
  <2> DEFINE x == ConnectionData[1]
             y == ConnectionData[2]
             z == ConnectionData[3]
  <2>1. x \in Data(k) /\ y \in Data(k) /\ z \in Data(k)
    BY SMT DEF Data
  <2>2. ConnectionData = <<x, y, z>>
    BY DEF ConnectionData
  <2> HIDE DEF x, y, z
  <2> QED BY <2>1, <2>2, SMT
<1>5. book[k].log \in Seq(Data(k)) /\ n \in Nat /\ book[k].sequence = p + n
  BY <1>1, SMT DEF Numbered
<1>6. /\ book'[k].log \in Seq(Data(k)) /\ Len(book'[k].log) = n + 3
      /\ \A i \in 1 .. n : book'[k].log[i] = book[k].log[i]
      /\ \A i \in 1 .. 3 : book'[k].log[n + i] = ConnectionData[i]
  <2> DEFINE L == book[k].log
  <2>1. L \in Seq(Data(k)) /\ Len(L) = n
    BY <1>5
  <2> HIDE DEF L, n
  <2>2. /\ L \o ConnectionData \in Seq(Data(k))
        /\ Len(L \o ConnectionData) = n + 3
        /\ \A i \in 1 .. n + 3 : (L \o ConnectionData)[i] =
                                IF i <= n THEN L[i] ELSE ConnectionData[i - n]
    <3>1. /\ L \o ConnectionData \in Seq(Data(k))
          /\ Len(L \o ConnectionData) = Len(L) + Len(ConnectionData)
          /\ \A i \in 1 .. Len(L) + Len(ConnectionData) : (L \o ConnectionData)[i] =
               IF i <= Len(L) THEN L[i] ELSE ConnectionData[i - Len(L)]
      BY <1>4, <2>1, ConcatProperties, Zenon
    <3> QED BY <1>4, <2>1, <3>1, Zenon
  <2>3. \A i \in 1 .. n : (L \o ConnectionData)[i] = L[i]
    BY <1>5, <2>2, SMT
  <2>4. ASSUME NEW i \in 1 .. 3 PROVE (L \o ConnectionData)[n + i] = ConnectionData[i]
    <3>1. n + i \in 1 .. n + 3 /\ ~(n + i <= n) /\ (n + i) - n = i
      BY <1>5, SMT
    <3> QED BY <2>2, <3>1
  <2> QED BY <1>3, <2>2, <2>3, <2>4 DEF L
<1>7. Numbered(k, book'[k]) /\ Extends(book[k], book'[k])
  <2>1. book'[k].sequence = p + (n + 3)
    BY <1>1, <1>3, <1>5, SMT
  <2>2. n <= n + 3
    BY <1>5, SMT
  <2> QED BY <1>6, <2>1, <2>2 DEF Numbered, Extends
<1>8. ASSUME NEW s \in N PROVE \A j \in Clients \ Faulty : Recorded(j, s, book'[j])
  <2>1. PICK i \in 1 .. 3 : s = Signature(k, ConnectionData[i], t, i - 1)
    BY <1>8
  <2>2. ConnectionData[i].type # "HEADER"
    BY SMT DEF ConnectionData
  <2>3. /\ s.key = book[k].key
        /\ s.bytes.diversifier \in Diversifiers(k)
        /\ s.bytes.sequence = book[k].sequence + (i - 1)
        /\ s.bytes.data = ConnectionData[i]
    BY <1>1, <2>1, <2>2 DEF Signature, SignBytes, IsBook
  <2>4. /\ s.bytes.sequence \in p .. book'[k].sequence - 1
        /\ s.bytes.sequence - p + 1 = n + i
    <3> HIDE DEF p, n
    <3> QED BY <1>1, <1>3, <1>5, <2>3, SMT
  <2>5. Recorded(k, s, book'[k])
    BY <1>6, <2>3, <2>4 DEF Recorded
  <2> QED BY <2>3, <2>5, FreshRecorded
<1> HIDE DEF N
<1> QED BY <1>2, <1>7, <1>8, MachineKeepsOrder

LEMMA SignAgainKeepsOrder ==
  ASSUME IInv, Order, NEW k \in Clients, NEW t, SignAgain(k, t)
  PROVE  Order'
<1>1. IsBook(k, book[k]) /\ Numbered(k, book[k])
  BY DEF IInv, Types, Order
<1>2. /\ book'[k] = [book[k] EXCEPT !.timestamp = t]
      /\ \A j \in Clients \ {k} : book'[j] = book[j]
      /\ UNCHANGED <<states, applied>>
  BY DEF IInv, Types, SignAgain
<1>3. \A j \in Clients : book'[j].sequence = book[j].sequence /\ book'[j].log = book[j].log
  BY <1>1, <1>2 DEF IsBook
<1>4. PICK q \in signed :
        signed' = signed \union
          {[key |-> q.key, bytes |-> SignBytes(q.bytes.sequence, t,
                                               q.bytes.diversifier, q.bytes.data)]}
  BY DEF SignAgain
<1>5. Numbered(k, book'[k]) /\ Extends(book[k], book'[k])
  BY <1>1, <1>3, SMT DEF Numbered, Extends
<1>6. \A s \in signed' : s \in signed \/ \A j \in Clients \ Faulty : Recorded(j, s, book'[j])
  <2> SUFFICES ASSUME NEW s \in signed', s \notin signed, NEW j \in Clients \ Faulty
               PROVE  Recorded(j, s, book'[j])
    OBVIOUS
  <2>1. /\ s.key = q.key
        /\ s.bytes.sequence = q.bytes.sequence
        /\ s.bytes.diversifier = q.bytes.diversifier
        /\ s.bytes.data = q.bytes.data
    BY <1>4, SMT DEF SignBytes
  <2>2. Recorded(j, q, book[j])
    BY DEF Order
  <2> QED BY <1>3, <2>1, <2>2 DEF Recorded
<1> QED BY <1>2, <1>5, <1>6, MachineKeepsOrder

LEMMA DoubleSignKeepsOrder ==
  ASSUME IInv, Order, NEW k \in Clients, NEW t, NEW data \in Messages[k], DoubleSign(k, data, t)
  PROVE  Order'
<1>1. IsBook(k, book[k]) /\ Numbered(k, book[k])
  BY DEF IInv, Types, Order
<1>2. Signature(k, data, t, 0).key \in FaultyKeys
  BY <1>1 DEF Signature, IsBook, FaultyKeys, DoubleSign
<1>3. Extends(book[k], book[k])
  BY <1>1, SMT DEF Numbered, Extends
<1>4. \A j \in Clients \ Faulty : Recorded(j, Signature(k, data, t, 0), book[j])
  BY <1>2 DEF Recorded
<1>5. /\ UNCHANGED <<states, applied, book>>
      /\ signed' = signed \union {Signature(k, data, t, 0)}
  BY DEF DoubleSign
<1> HIDE DEF Signature
<1>6. \A s \in signed' : s \in signed \/ \A j \in Clients \ Faulty : Recorded(j, s, book'[j])
  BY <1>4, <1>5
<1> QED BY <1>1, <1>3, <1>5, <1>6, MachineKeepsOrder

-----------------------------------------------------------------------------
\* A step of client k that leaves the machines alone.
LEMMA ClientKeepsOrder ==
  ASSUME IInv, Order, NEW k \in Clients, NEW cs,
         UNCHANGED <<book, signed>>,
         DOMAIN states' \subseteq DOMAIN states \union {k},
         \A j \in DOMAIN states \ {k} : states'[j] = states[j],
         states'[k] = cs,
         \A j \in Clients \ {k} : applied'[j] = applied[j],
         IsList(applied'[k]),
         k \notin Faulty => /\ InOrder(k, applied'[k], book[k].log)
                            /\ InStep(k, cs, applied'[k])
  PROVE  Order'
<1>1. DOMAIN states \subseteq Clients
  BY DEF IInv, Types
<1>2. \A j \in Clients : IsList(applied'[j])
  BY DEF Order
<1>3. \A j \in Clients \ Faulty : InOrder(j, applied'[j], book'[j].log)
  BY DEF Order
<1>4. \A j \in DOMAIN states' \ Faulty : InStep(j, states'[j], applied'[j])
  BY <1>1 DEF Order
<1> QED BY <1>2, <1>3, <1>4 DEF Order

\* What the client of an honest machine accepts keeps it in order.
LEMMA OneAccepted ==
  ASSUME IInv, Order, NEW k \in DOMAIN states, NEW cs, NEW new, NEW A, NEW s \in signed,
         k \notin Faulty =>
           InOrder(k, A, book[k].log) /\ InStep(k, cs, A),
         IsList(A), s.key = cs.key, s.bytes.sequence = cs.sequence,
         new.sequence = cs.sequence + 1,
         \/ /\ s.bytes.data.type = "HEADER"
            /\ new.key = s.bytes.data.key
            /\ new.diversifier = s.bytes.diversifier
         \/ /\ s.bytes.data.type # "HEADER"
            /\ s.bytes.diversifier = cs.diversifier
            /\ new.key = cs.key
            /\ new.diversifier = cs.diversifier
  PROVE  /\ IsList(Append(A, s))
         /\ k \notin Faulty => /\ InOrder(k, Append(A, s), book[k].log)
                               /\ InStep(k, new, Append(A, s))
<1>1. IsList(Append(A, s))
  BY ListMore
<1>2. ASSUME k \notin Faulty
      PROVE  InOrder(k, Append(A, s), book[k].log) /\ InStep(k, new, Append(A, s))
  <2>1. k \in Clients \ Faulty
    BY <1>2 DEF IInv, Types
  <2>2. Numbered(k, book[k]) /\ Recorded(k, s, book[k])
    BY <2>1 DEF Order
  <2> DEFINE b == book[k]
  <2>3. /\ Numbered(k, b) /\ Recorded(k, s, b)
        /\ InOrder(k, A, b.log) /\ InStep(k, cs, A)
    BY <1>2, <2>2
  <2> HIDE DEF b
  <2>4. InOrder(k, Append(A, s), b.log) /\ InStep(k, new, Append(A, s))
    BY <2>1, <2>3, AcceptInOrder
  <2> QED BY <2>4 DEF b
<1> QED BY <1>1, <1>2

\* A client that exists is in order so far.
LEMMA SoFar ==
  ASSUME IInv, Order, NEW k \in DOMAIN states
  PROVE  /\ k \in Clients /\ IsList(applied[k])
         /\ k \notin Faulty => /\ InOrder(k, applied[k], book[k].log)
                               /\ InStep(k, states[k], applied[k])
BY DEF IInv, Types, Order

LEMMA VerifiedFields ==
  ASSUME NEW cs, IsState(cs), NEW t
  PROVE  /\ Verified(cs, t).key = cs.key
         /\ Verified(cs, t).diversifier = cs.diversifier
<1> DEFINE q == cs.sequence + 1
<1>1. Verified(cs, t) = [cs EXCEPT !.sequence = q, !.timestamp = t]
  BY DEF Verified
<1> HIDE DEF q
<1> QED BY <1>1 DEF IsState

LEMMA VerifyOneKeepsOrder ==
  ASSUME IInv, Order, NEW k \in Clients, NEW s \in signed, VerifyOne(k, s)
  PROVE  Order'
<1> DEFINE cs == states[k]
           new == Verified(cs, s.bytes.timestamp)
<1>1. k \in DOMAIN states /\ IsState(cs)
  BY DEF VerifyOne, Exists, IInv, Types
<1>2. /\ new.sequence = cs.sequence + 1
      /\ new.key = cs.key /\ new.diversifier = cs.diversifier
  BY <1>1, VerifiedState, VerifiedFields
<1>3. /\ s.key = cs.key /\ s.bytes.sequence = cs.sequence
      /\ s.bytes.diversifier = cs.diversifier /\ s.bytes.data.type # "HEADER"
  BY DEF VerifyOne, OneProof, Accepts, Verify, ProduceVerificationArgs
<1>4. /\ states' = [states EXCEPT ![k] = new]
      /\ applied' = [applied EXCEPT ![k] = Append(applied[k], s)]
      /\ UNCHANGED <<book, signed>>
  BY DEF VerifyOne
<1> HIDE DEF new
<1>5. /\ DOMAIN states' = DOMAIN states /\ states'[k] = new
      /\ \A j \in DOMAIN states \ {k} : states'[j] = states[j]
      /\ applied'[k] = Append(applied[k], s)
      /\ \A j \in Clients \ {k} : applied'[j] = applied[j]
  BY <1>1, <1>4 DEF IInv, Types
<1>6. /\ IsList(applied'[k])
      /\ k \notin Faulty => /\ InOrder(k, applied'[k], book[k].log)
                            /\ InStep(k, new, applied'[k])
  <2>1. /\ IsList(applied[k])
        /\ k \notin Faulty => InOrder(k, applied[k], book[k].log) /\ InStep(k, cs, applied[k])
    BY <1>1, SoFar
  <2> DEFINE A == applied[k]
  <2> HIDE DEF cs, A
  <2>2. /\ IsList(A)
        /\ k \notin Faulty => InOrder(k, A, book[k].log) /\ InStep(k, cs, A)
    BY <2>1 DEF A
  <2>3. /\ IsList(Append(A, s))
        /\ k \notin Faulty => /\ InOrder(k, Append(A, s), book[k].log)
                              /\ InStep(k, new, Append(A, s))
    BY <1>1, <1>2, <1>3, <2>2, OneAccepted
  <2> QED BY <1>5, <2>3 DEF A
<1> QED BY <1>4, <1>5, <1>6, ClientKeepsOrder

LEMMA UpdateKeepsOrder ==
  ASSUME IInv, Order, NEW k \in Clients, NEW hd, UpdateClient(k, hd)
  PROVE  Order'
<1> DEFINE cs == states[k]
           new == Update(cs, hd)
           s == [key |-> cs.key, bytes |-> HeaderSignBytes(hd)]
<1>1. k \in DOMAIN states /\ IsState(cs) /\ s \in signed /\ hd.sequence = cs.sequence
  BY DEF UpdateClient, Exists, CheckHeader, VerifySignature, IInv, Types
<1>2. /\ new.sequence = cs.sequence + 1
      /\ new.key = hd.key /\ new.diversifier = hd.diversifier
  <2> DEFINE q == cs.sequence + 1
  <2>1. new = [cs EXCEPT !.sequence = q, !.key = hd.key,
                         !.diversifier = hd.diversifier, !.timestamp = hd.timestamp]
    BY DEF Update
  <2>2. new.sequence = q /\ new.key = hd.key /\ new.diversifier = hd.diversifier
    <3> HIDE DEF q, new
    <3> QED BY <1>1, <2>1 DEF IsState
  <2> QED BY <2>2
<1>3. /\ s.key = cs.key /\ s.bytes.sequence = hd.sequence
      /\ s.bytes.diversifier = hd.diversifier
      /\ s.bytes.data.type = "HEADER" /\ s.bytes.data.key = hd.key
  BY DEF HeaderSignBytes, SignBytes
<1>4. /\ states' = [states EXCEPT ![k] = new]
      /\ applied' = [applied EXCEPT ![k] = Append(applied[k], s)]
      /\ UNCHANGED <<book, signed>>
  BY DEF UpdateClient
<1> HIDE DEF new, s
<1>5. /\ DOMAIN states' = DOMAIN states /\ states'[k] = new
      /\ \A j \in DOMAIN states \ {k} : states'[j] = states[j]
      /\ applied'[k] = Append(applied[k], s)
      /\ \A j \in Clients \ {k} : applied'[j] = applied[j]
  BY <1>1, <1>4 DEF IInv, Types
<1>6. /\ IsList(applied'[k])
      /\ k \notin Faulty => /\ InOrder(k, applied'[k], book[k].log)
                            /\ InStep(k, new, applied'[k])
  <2>1. /\ IsList(applied[k])
        /\ k \notin Faulty => InOrder(k, applied[k], book[k].log) /\ InStep(k, cs, applied[k])
    BY <1>1, SoFar
  <2> DEFINE A == applied[k]
  <2> HIDE DEF cs, A
  <2>2. /\ IsList(A)
        /\ k \notin Faulty => InOrder(k, A, book[k].log) /\ InStep(k, cs, A)
    BY <2>1 DEF A
  <2>3. /\ IsList(Append(A, s))
        /\ k \notin Faulty => /\ InOrder(k, Append(A, s), book[k].log)
                              /\ InStep(k, new, Append(A, s))
    BY <1>1, <1>2, <1>3, <2>2, OneAccepted
  <2> QED BY <1>5, <2>3 DEF A
<1> QED BY <1>4, <1>5, <1>6, ClientKeepsOrder

\* Three messages at once are three messages one after the other.
AtOnce(A, x, y, z) == A \o <<x, y, z>>

LEMMA ThreeMore ==
  ASSUME NEW A, IsList(A), NEW x, NEW y, NEW z
  PROVE  AtOnce(A, x, y, z) = Append(Append(Append(A, x), y), z)
<1>1. PICK T : A \in Seq(T)
  BY DEF IsList
<1> DEFINE S == T \union {x, y, z}
           B == A \o <<x, y, z>>
           C == Append(Append(Append(A, x), y), z)
           D == <<x, y, z>>
           n == Len(A)
<1>2. A \in Seq(S) /\ x \in S /\ y \in S /\ z \in S
  BY <1>1, SMT
<1>3. D \in Seq(S) /\ Len(D) = 3 /\ D[1] = x /\ D[2] = y /\ D[3] = z /\ n \in Nat
  BY <1>2, SMT
<1> HIDE DEF S, D
<1>4. /\ A \o D \in Seq(S) /\ Len(A \o D) = Len(A) + Len(D)
      /\ \A i \in 1 .. Len(A) + Len(D) : (A \o D)[i] =
           IF i <= Len(A) THEN A[i] ELSE D[i - Len(A)]
  BY <1>2, <1>3, ConcatProperties, Zenon
<1> DEFINE E == A \o D
<1>5. /\ E \in Seq(S) /\ Len(E) = n + 3
      /\ \A i \in 1 .. n : E[i] = A[i]
      /\ E[n + 1] = x /\ E[n + 2] = y /\ E[n + 3] = z
  <2> HIDE DEF n
  <2>1. /\ E \in Seq(S) /\ Len(E) = n + 3
        /\ \A i \in 1 .. n + 3 : E[i] = IF i <= n THEN A[i] ELSE D[i - n]
    BY <1>3, <1>4, Zenon DEF n
  <2> HIDE DEF E
  <2>2. \A i \in 1 .. n : E[i] = A[i]
    BY <1>3, <2>1, SMT
  <2>3. /\ n + 1 \in 1 .. n + 3 /\ ~(n + 1 <= n) /\ (n + 1) - n = 1
        /\ n + 2 \in 1 .. n + 3 /\ ~(n + 2 <= n) /\ (n + 2) - n = 2
        /\ n + 3 \in 1 .. n + 3 /\ ~(n + 3 <= n) /\ (n + 3) - n = 3
    BY <1>3, SMT
  <2>4. E[n + 1] = D[1] /\ E[n + 2] = D[2] /\ E[n + 3] = D[3]
    BY <2>1, <2>3
  <2> QED BY <1>3, <2>1, <2>2, <2>4
<1>6. /\ C \in Seq(S) /\ Len(C) = n + 3
      /\ \A i \in 1 .. n : C[i] = A[i]
      /\ C[n + 1] = x /\ C[n + 2] = y /\ C[n + 3] = z
  BY <1>2, SMT
<1> HIDE DEF C, E, n
<1>7. \A i \in 1 .. n + 3 : i \in 1 .. n \/ i = n + 1 \/ i = n + 2 \/ i = n + 3
  BY <1>3, SMT
<1>8. E = C
  <2>1. \A i \in 1 .. Len(E) : E[i] = C[i]
    BY <1>5, <1>6, <1>7
  <2>2. Len(E) = Len(C)
    BY <1>5, <1>6
  <2> QED BY <1>5, <1>6, <2>1, <2>2, SeqEqual
<1> QED BY <1>8 DEF E, C, D, AtOnce

\* The list of client k is as it has to be when the client is cs.
ListFits(k, cs, A) ==
  /\ IsList(A)
  /\ k \notin Faulty => InOrder(k, A, book[k].log) /\ InStep(k, cs, A)

\* The client cs verifies the signature s of a message and becomes new.
VerifiedBy(cs, s, new) ==
  /\ s.key = cs.key /\ s.bytes.sequence = cs.sequence
  /\ s.bytes.data.type # "HEADER" /\ s.bytes.diversifier = cs.diversifier
  /\ new.sequence = cs.sequence + 1
  /\ new.key = cs.key /\ new.diversifier = cs.diversifier

LEMMA OneVerified ==
  ASSUME IInv, Order, NEW k \in DOMAIN states, NEW cs, NEW new, NEW A, NEW s \in signed,
         ListFits(k, cs, A), VerifiedBy(cs, s, new)
  PROVE  ListFits(k, new, Append(A, s))
<1>1. /\ IsList(Append(A, s))
      /\ k \notin Faulty => /\ InOrder(k, Append(A, s), book[k].log)
                           /\ InStep(k, new, Append(A, s))
  BY OneAccepted DEF ListFits, VerifiedBy
<1> QED BY <1>1 DEF ListFits

LEMMA VerifyHandshakeKeepsOrder ==
  ASSUME IInv, Order, NEW k \in Clients, NEW height, NEW times, VerifyHandshake(k, height, times)
  PROVE  Order'
<1> DEFINE cs == states[k]
           one == Verified(cs, times[1])
           two == Verified(one, times[2])
           new == Verified(two, times[3])
           s(i) == [key |-> cs.key,
                    bytes |-> SignBytes(height + i - 1, times[i],
                                        cs.diversifier, ConnectionData[i])]
           A == applied[k]
           B == Append(A, s(1))
           C == Append(B, s(2))
           D == Append(C, s(3))
<1>1. k \in DOMAIN states /\ IsState(cs) /\ cs.sequence \in Nat
  BY DEF VerifyHandshake, Exists, IInv, Types, IsState
<1>2. /\ IsState(one) /\ one.sequence = cs.sequence + 1
      /\ one.key = cs.key /\ one.diversifier = cs.diversifier
  BY <1>1, VerifiedState, VerifiedFields
<1>3. /\ IsState(two) /\ two.sequence = one.sequence + 1
      /\ two.key = cs.key /\ two.diversifier = cs.diversifier
  <2> HIDE DEF one
  <2> QED BY <1>2, VerifiedState, VerifiedFields
<1>4. /\ new.sequence = two.sequence + 1
      /\ new.key = cs.key /\ new.diversifier = cs.diversifier
  <2> HIDE DEF two
  <2> QED BY <1>3, VerifiedState, VerifiedFields
<1>5. /\ height = cs.sequence
      /\ Verify(one, height + 1, times[2], ConnectionData[2])
      /\ Verify(two, height + 2, times[3], ConnectionData[3])
      /\ Verify(cs, height, times[1], ConnectionData[1])
      /\ states' = [states EXCEPT ![k] = new]
      /\ applied' = [applied EXCEPT ![k] = A \o <<s(1), s(2), s(3)>>]
      /\ UNCHANGED <<book, signed>>
  BY DEF VerifyHandshake, Verify, ProduceVerificationArgs
<1> HIDE DEF one, two, new
<1>6. height + 1 - 1 = height /\ height + 2 - 1 = height + 1 /\ height + 3 - 1 = height + 2
  BY <1>1, <1>5, SMT
<1>7. s(1) \in signed /\ s(2) \in signed /\ s(3) \in signed
  BY <1>2, <1>3, <1>5, <1>6 DEF Verify, VerifySignature
<1>8. \A i \in 1 .. 3 : /\ s(i).key = cs.key
                        /\ s(i).bytes.sequence = height + i - 1
                        /\ s(i).bytes.diversifier = cs.diversifier
                        /\ s(i).bytes.data.type # "HEADER"
  BY SMT DEF SignBytes, ConnectionData
<1>9. /\ s(1).key = cs.key /\ s(2).key = one.key /\ s(3).key = two.key
      /\ s(1).bytes.sequence = cs.sequence
      /\ s(2).bytes.sequence = one.sequence
      /\ s(3).bytes.sequence = two.sequence
  <2>1. one.sequence = height + 1 /\ two.sequence = height + 2
    BY <1>1, <1>2, <1>3, <1>5, SMT
  <2> HIDE DEF s
  <2>2. s(1).key = cs.key /\ s(2).key = cs.key /\ s(3).key = cs.key
    BY <1>8, SMT
  <2>3. /\ s(1).bytes.sequence = height + 1 - 1
        /\ s(2).bytes.sequence = height + 2 - 1
        /\ s(3).bytes.sequence = height + 3 - 1
    BY <1>8, SMT
  <2>4. one.key = cs.key /\ two.key = cs.key
    BY <1>2, <1>3
  <2> QED BY <1>5, <1>6, <2>1, <2>2, <2>3, <2>4
<1> HIDE DEF s
<1>10. ListFits(k, cs, A)
  BY <1>1, SoFar DEF ListFits
<1>11. applied'[k] = D
  <2>1. applied'[k] = A \o <<s(1), s(2), s(3)>>
    BY <1>5 DEF IInv, Types
  <2>2. applied'[k] = AtOnce(A, s(1), s(2), s(3))
    BY <2>1 DEF AtOnce
  <2> HIDE DEF A
  <2> QED BY <1>10, <2>2, ThreeMore, SMT DEF ListFits
<1> HIDE DEF cs, A
<1>12. ListFits(k, one, B)
  <2>1. VerifiedBy(cs, s(1), one)
    BY <1>2, <1>8, <1>9, SMT DEF VerifiedBy
  <2> QED BY <1>1, <1>7, <1>10, <2>1, OneVerified
<1> HIDE DEF B
<1>13. ListFits(k, two, C)
  <2>1. s(2).bytes.data.type # "HEADER" /\ s(2).bytes.diversifier = cs.diversifier
    BY <1>8, SMT
  <2>2. VerifiedBy(one, s(2), two)
    BY <1>2, <1>3, <1>9, <2>1 DEF VerifiedBy
  <2> QED BY <1>1, <1>7, <1>12, <2>2, OneVerified
<1> HIDE DEF C
<1>14. ListFits(k, new, D)
  <2>1. s(3).bytes.data.type # "HEADER" /\ s(3).bytes.diversifier = cs.diversifier
    BY <1>8, SMT
  <2>2. VerifiedBy(two, s(3), new)
    BY <1>3, <1>4, <1>9, <2>1 DEF VerifiedBy
  <2> QED BY <1>1, <1>7, <1>13, <2>2, OneVerified
<1> HIDE DEF D
<1>15. /\ DOMAIN states' = DOMAIN states /\ states'[k] = new
       /\ \A j \in DOMAIN states \ {k} : states'[j] = states[j]
       /\ \A j \in Clients \ {k} : applied'[j] = applied[j]
  BY <1>1, <1>5 DEF IInv, Types
<1> QED BY <1>5, <1>11, <1>14, <1>15, ClientKeepsOrder DEF ListFits

LEMMA CreateKeepsOrder ==
  ASSUME IInv, Order, NEW k \in Clients, CreateClient(k)
  PROVE  Order'
<1>1. /\ DOMAIN states' = DOMAIN states \union {k}
      /\ states'[k] = [sequence |-> Start[k].sequence, frozen |-> FALSE,
                       key |-> Start[k].key, diversifier |-> Start[k].diversifier,
                       timestamp |-> Start[k].timestamp]
      /\ \A j \in DOMAIN states : states'[j] = states[j]
      /\ k \notin DOMAIN states
      /\ UNCHANGED <<book, signed, applied>>
  BY DEF CreateClient, Exists
<1>2. applied[k] = <<>>
  BY <1>1 DEF IInv, HeightsBehind
<1>3. /\ states'[k].sequence = Start[k].sequence
      /\ states'[k].key \in Keys(k) /\ states'[k].diversifier \in Diversifiers(k)
  BY <1>1, SMT DEF Keys, Diversifiers
<1>4. InStep(k, states'[k], applied'[k])
  <2>1. Start[k].sequence \in Nat
    BY MachineAssumption
  <2> QED BY <1>1, <1>2, <1>3, <2>1, SMT DEF InStep
<1>5. /\ IsList(applied'[k])
      /\ k \notin Faulty => InOrder(k, applied'[k], book[k].log)
  BY <1>1 DEF Order
<1> QED BY <1>1, <1>4, <1>5, ClientKeepsOrder

LEMMA MisbehaviourKeepsOrder ==
  ASSUME IInv, Order, NEW k \in Clients, NEW sequence, NEW one, NEW two,
         SubmitMisbehaviour(k, sequence, one, two)
  PROVE  Order'
<1>1. /\ k \in DOMAIN states
      /\ DOMAIN states' = DOMAIN states
      /\ states'[k] = [states[k] EXCEPT !.frozen = TRUE]
      /\ \A j \in DOMAIN states \ {k} : states'[j] = states[j]
      /\ UNCHANGED <<book, signed, applied>>
  BY DEF SubmitMisbehaviour, Exists, IInv, Types
<1>2. IsState(states[k])
  BY <1>1 DEF IInv, Types
<1>3. /\ states'[k].sequence = states[k].sequence
      /\ states'[k].key = states[k].key
      /\ states'[k].diversifier = states[k].diversifier
  BY <1>1, <1>2 DEF IsState
<1>4. /\ IsList(applied'[k])
      /\ k \notin Faulty => /\ InOrder(k, applied'[k], book[k].log)
                            /\ InStep(k, states'[k], applied'[k])
  BY <1>1, <1>3, SoFar DEF InStep
<1> QED BY <1>1, <1>4, ClientKeepsOrder

\* Only a client that is frozen is replaced; one in step has no key of a faulty machine.
LEMMA ProposalKeepsOrder ==
  ASSUME IInv, Order, NEW k \in Clients, NEW substitute \in Clients,
         ClientUpdateProposal(k, substitute)
  PROVE  Order'
<1>1. k \in DOMAIN states /\ states[k].frozen
  BY DEF ClientUpdateProposal, Exists, Active
<1>2. /\ DOMAIN states' = DOMAIN states
      /\ \A j \in DOMAIN states \ {k} : states'[j] = states[j]
      /\ UNCHANGED <<book, signed, applied>>
  BY DEF ClientUpdateProposal, CheckSubstituteAndUpdateState, IInv, Types
<1>3. states[k].key \in FaultyKeys
  BY <1>1 DEF IInv, FrozenForFault
<1>4. /\ IsList(applied[k])
      /\ k \notin Faulty => InOrder(k, applied[k], book[k].log) /\ InStep(k, states[k], applied[k])
  BY <1>1, SoFar
<1>5. k \notin Faulty => ~OwnHeaders(k, applied[k])
  BY <1>3, <1>4, HonestKeys DEF InStep
<1>6. k \notin Faulty => InStep(k, states'[k], applied'[k])
  BY <1>2, <1>5 DEF InStep
<1> QED BY <1>2, <1>4, <1>6, ClientKeepsOrder

LEMMA InitOrder == Init => Order
<1> SUFFICES ASSUME Init PROVE Order
  OBVIOUS
<1>1. ASSUME NEW k \in Clients PROVE Numbered(k, book[k])
  <2>1. book[k].log = <<>> /\ book[k].sequence = Start[k].sequence
    BY DEF Init
  <2>2. Start[k].sequence \in Nat /\ <<>> \in Seq(Data(k)) /\ Len(<<>>) = 0
    BY MachineAssumption, SMT
  <2> QED BY <2>1, <2>2, SMT DEF Numbered
<1>2. \A k \in Clients : applied[k] = <<>> /\ IsList(applied[k])
  <2>1. <<>> \in Seq(Nat)
    BY SMT
  <2> QED BY <2>1 DEF Init, IsList
<1>3. \A k \in Clients : InOrder(k, applied[k], book[k].log)
  BY <1>2, SMT DEF InOrder
<1> QED BY <1>1, <1>2, <1>3, SMT DEF Init, Order

LEMMA NextOrder == IInv /\ Order /\ [Next]_vars => Order'
<1> SUFFICES ASSUME IInv, Order, [Next]_vars PROVE Order'
  OBVIOUS
<1>1. CASE UNCHANGED vars
  BY <1>1 DEF vars, Order
<1>2. CASE Next
  <2>1. PICK k \in Clients : Machine(k) \/ Client(k)
    BY <1>2 DEF Next
  <2>2. CASE Machine(k)
    BY <2>2, SignKeepsOrder, SignConnectionKeepsOrder, SignAgainKeepsOrder,
       DoubleSignKeepsOrder DEF Machine
  <2>3. CASE Client(k)
    BY <2>3, CreateKeepsOrder, VerifyOneKeepsOrder, VerifyHandshakeKeepsOrder,
       UpdateKeepsOrder, MisbehaviourKeepsOrder, ProposalKeepsOrder DEF Client
  <2> QED BY <2>1, <2>2, <2>3
<1> QED BY <1>1, <1>2

\* Whatever relayers submit and when, the verification functions and UpdateClient accept
\* of an honest machine exactly its messages, in the order it signed them and each once,
\* up to the first header of another client of the same key: for any clients, keys and
\* messages, whatever the faulty machines sign and governance replaces.
THEOREM MessagesAppliedInOrder == Spec => []AppliedInOrder
<1>1. Order => AppliedInOrder
  BY DEF Order, InOrder, AppliedInOrder
<1> QED BY InitIInv, NextIInv, InitOrder, NextOrder, <1>1, PTL DEF Spec

=============================================================================
