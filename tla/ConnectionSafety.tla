-------------------------- MODULE ConnectionSafety --------------------------
(***************************************************************************)
(* Proofs about ConnectionHandshake for every set of clients, proposals    *)
(* and forgeries of impostors and any number of connections: that the      *)
(* clients of connected ends are mutual, that connections only advance,    *)
(* what version.go computes, that every OPEN end has a version both sides  *)
(* proposed, and type correctness.                                         *)
(***************************************************************************)
EXTENDS ConnectionHandshake, WellFoundedInduction, TLAPS

\* Leaves are proved by Zenon unless they name another prover.
USE Zenon

\* A connection end, whatever its fields hold.
IsEnd(e) ==
  e = [state |-> e.state, client |-> e.client, cpClient |-> e.cpClient,
       cpConnection |-> e.cpConnection, delay |-> e.delay, versions |-> e.versions]

\* What no step changes of an end.
Alike(e, f) == e.client = f.client /\ e.cpClient = f.cpClient /\ e.delay = f.delay

\* An end that has answered has settled on one version.
Settled(e) == e.state = "TRYOPEN" => e.versions = <<e.versions[1]>>

GoodEnd(c, e) == /\ IsEnd(e)
                 /\ e.state \in States
                 /\ e.client \in ClientIds(c)
                 /\ Settled(e)

\* End e of chain c fits the end it names as its counterparty, if E are the ends.
Fits(E, c, e) ==
  LET f == E[Peer(c)][e.cpConnection]
  IN  /\ e.cpConnection \in DOMAIN E[Peer(c)]
      /\ f.client = e.cpClient
      /\ f.cpClient = e.client
      /\ f.delay = e.delay
      /\ Clients[Peer(c)][f.client] = [follows |-> c, sound |-> TRUE]

\* An end has to fit if its client follows the right chain and it has answered.
MustFit(c, e) == e.state \in {"TRYOPEN", "OPEN"} /\ Clients[c][e.client].follows = Peer(c)

\* What is proven of chain c is an end that it has, if E are the ends.
GoodProof(E, c, proof) ==
  /\ proof[1] \in DOMAIN E[c]
  /\ GoodEnd(c, proof[2])
  /\ Alike(E[c][proof[1]], proof[2])

(* The inductive invariant: ends are well formed, proofs show what no step has
   changed since, and ends that have answered fit. *)
Shape ==
  /\ DOMAIN ends = Chains /\ DOMAIN proofs = Chains
  /\ \A c \in Chains : \E T : ends[c] \in Seq(T)
  /\ \A c \in Chains : \A i \in DOMAIN ends[c] : GoodEnd(c, ends[c][i])
Shown == \A c \in Chains : \A proof \in proofs[c] : GoodProof(ends, c, proof)
Fitting ==
  \A c \in Chains : \A i \in DOMAIN ends[c] :
    MustFit(c, ends[c][i]) => Fits(ends, c, ends[c][i])

IInv == Shape /\ Shown /\ Fitting

-----------------------------------------------------------------------------
LEMMA PeerFacts ==
  \A c \in Chains : /\ Peer(c) \in Chains
                    /\ Peer(c) # c
                    /\ Peer(c) # Impostor
                    /\ Peer(Peer(c)) = c
                    /\ \A d \in Chains : d # c => d = Peer(c)
BY DEF Chains, Peer, Impostor

LEMMA SeqFacts ==
  ASSUME Shape, NEW c \in Chains
  PROVE  Len(ends[c]) \in Nat /\ DOMAIN ends[c] = 1 .. Len(ends[c])
<1>1. PICK T : ends[c] \in Seq(T)
  BY DEF Shape
<1> QED BY <1>1, SMT

\* An end that an Ack opens.
Opened(e, vs, j) == [e EXCEPT !.state = "OPEN", !.versions = vs, !.cpConnection = j]

LEMMA OpenedFields ==
  ASSUME NEW e, IsEnd(e), NEW vs, NEW j
  PROVE  LET new == Opened(e, vs, j)
         IN  /\ IsEnd(new) /\ new.state = "OPEN" /\ Alike(new, e)
             /\ new.versions = vs /\ new.cpConnection = j
<1>1. e \in [state : {e.state}, client : {e.client}, cpClient : {e.cpClient},
             cpConnection : {e.cpConnection}, delay : {e.delay}, versions : {e.versions}]
  BY DEF IsEnd
<1> DEFINE new == Opened(e, vs, j)
<1>2. new \in [state : {"OPEN"}, client : {e.client}, cpClient : {e.cpClient},
               cpConnection : {j}, delay : {e.delay}, versions : {vs}]
  BY <1>1 DEF Opened
<1> HIDE DEF new
<1>3. /\ IsEnd(new) /\ new.state = "OPEN" /\ Alike(new, e)
      /\ new.versions = vs /\ new.cpConnection = j
  BY <1>2 DEF IsEnd, Alike
<1> QED BY <1>3 DEF new

LEMMA ConfirmedFields ==
  ASSUME NEW e, IsEnd(e)
  PROVE  LET new == [e EXCEPT !.state = "OPEN"]
         IN  /\ IsEnd(new) /\ new.state = "OPEN" /\ Alike(new, e)
             /\ new.versions = e.versions /\ new.cpConnection = e.cpConnection
<1>1. e \in [state : {e.state}, client : {e.client}, cpClient : {e.cpClient},
             cpConnection : {e.cpConnection}, delay : {e.delay}, versions : {e.versions}]
  BY DEF IsEnd
<1> QED BY <1>1, SMT DEF IsEnd, Alike

\* One end changes.
LEMMA SetFacts ==
  ASSUME Shape, NEW c \in Chains, NEW i \in DOMAIN ends[c], NEW e, SetConnection(c, i, e)
  PROVE  /\ DOMAIN ends' = Chains
         /\ \A d \in Chains : \E T : ends'[d] \in Seq(T)
         /\ ends'[Peer(c)] = ends[Peer(c)]
         /\ DOMAIN ends'[c] = DOMAIN ends[c]
         /\ ends'[c][i] = e
         /\ \A k \in DOMAIN ends[c] : k # i => ends'[c][k] = ends[c][k]
<1>1. ends' = [ends EXCEPT ![c] = [ends[c] EXCEPT ![i] = e]]
  BY DEF SetConnection
<1>2. /\ DOMAIN ends' = Chains
      /\ ends'[c] = [ends[c] EXCEPT ![i] = e]
      /\ \A d \in Chains : d # c => ends'[d] = ends[d]
  BY <1>1 DEF Shape
<1>3. PICK T : ends[c] \in Seq(T)
  BY DEF Shape
<1>4. ends[c] \in Seq(T \union {e})
  BY <1>3, SMT
<1>5. /\ ends'[c] \in Seq(T \union {e})
      /\ DOMAIN ends'[c] = DOMAIN ends[c]
      /\ ends'[c][i] = e
      /\ \A k \in DOMAIN ends[c] : k # i => ends'[c][k] = ends[c][k]
  BY <1>2, <1>4, SMT
<1>6. \A d \in Chains : \E U : ends'[d] \in Seq(U)
  BY <1>2, <1>5 DEF Shape
<1> QED BY <1>2, <1>5, <1>6, PeerFacts

\* One end is added.
LEMMA CreateFacts ==
  ASSUME Shape, NEW c \in Chains, NEW e, CreateConnection(c, e)
  PROVE  /\ DOMAIN ends' = Chains
         /\ \A d \in Chains : \E T : ends'[d] \in Seq(T)
         /\ ends'[Peer(c)] = ends[Peer(c)]
         /\ DOMAIN ends'[c] = DOMAIN ends[c] \union {Len(ends[c]) + 1}
         /\ Len(ends[c]) + 1 \notin DOMAIN ends[c]
         /\ ends'[c][Len(ends[c]) + 1] = e
         /\ \A k \in DOMAIN ends[c] : ends'[c][k] = ends[c][k]
<1>1. ends' = [ends EXCEPT ![c] = Append(ends[c], e)]
  BY DEF CreateConnection
<1>2. /\ DOMAIN ends' = Chains
      /\ ends'[c] = Append(ends[c], e)
      /\ \A d \in Chains : d # c => ends'[d] = ends[d]
  BY <1>1 DEF Shape
<1>3. PICK T : ends[c] \in Seq(T)
  BY DEF Shape
<1>4. ends[c] \in Seq(T \union {e}) /\ e \in T \union {e}
  BY <1>3, SMT
<1>5. /\ ends'[c] \in Seq(T \union {e})
      /\ DOMAIN ends'[c] = DOMAIN ends[c] \union {Len(ends[c]) + 1}
      /\ Len(ends[c]) + 1 \notin DOMAIN ends[c]
      /\ ends'[c][Len(ends[c]) + 1] = e
      /\ \A k \in DOMAIN ends[c] : ends'[c][k] = ends[c][k]
  BY <1>2, <1>4, SMT
<1>6. \A d \in Chains : \E U : ends'[d] \in Seq(U)
  BY <1>2, <1>5 DEF Shape
<1> QED BY <1>2, <1>5, <1>6, PeerFacts

-----------------------------------------------------------------------------
(* What each handler does to the end it works on. *)

Advances(old, new) == /\ Rank(old.state) < Rank(new.state)
                      /\ old.state = "TRYOPEN" => new.versions = old.versions

Fitted(c, e) == GoodEnd(c, e) /\ (MustFit(c, e) => Fits(ends, c, e))

Creates(c) == \E e : CreateConnection(c, e) /\ Fitted(c, e)
Moves(c) ==
  \E i \in DOMAIN ends[c] : \E e :
    /\ SetConnection(c, i, e)
    /\ Fitted(c, e)
    /\ Alike(e, ends[c][i])
    /\ Advances(ends[c][i], e)

\* What is proven through a client of the right chain is the end it says it is.
LEMMA HonestProof ==
  ASSUME IInv, NEW c \in Chains, NEW k \in ClientIds(c),
         Clients[c][k].follows = Peer(c),
         NEW proof \in VerifyConnectionState(c, k)
  PROVE  GoodProof(ends, Peer(c), proof)
<1>1. proof \in proofs[Peer(c)]
  BY PeerFacts DEF VerifyConnectionState
<1> QED BY <1>1, PeerFacts DEF IInv, Shown

\* The end of chain c fits the proven one if that names the same clients and delay and
\* its client has been validated.
LEMMA ProofFits ==
  ASSUME IInv, NEW c \in Chains, NEW proof, GoodProof(ends, Peer(c), proof), NEW froze,
         ValidateSelfClient(c, proof[2].client, froze),
         NEW e, e.cpConnection = proof[1], e.cpClient = proof[2].client,
         e.client = proof[2].cpClient, e.delay = proof[2].delay
  PROVE  Fits(ends, c, e)
<1> DEFINE f == proof[2]
           k == f.client
<1>1. k \in ClientIds(Peer(c))
  BY DEF GoodProof, GoodEnd
<1>2. Clients[Peer(c)][k] \in [follows : {Peer(Peer(c)), Impostor}, sound : BOOLEAN]
  BY <1>1, PeerFacts, ConnectionAssumptions
<1>3. Clients[Peer(c)][k].follows = c /\ Clients[Peer(c)][k].sound = TRUE
  BY <1>2 DEF ValidateSelfClient
<1>4. Clients[Peer(c)][k] = [follows |-> c, sound |-> TRUE]
  BY <1>2, <1>3
<1>5. /\ proof[1] \in DOMAIN ends[Peer(c)]
      /\ ends[Peer(c)][proof[1]].client = k
      /\ ends[Peer(c)][proof[1]].cpClient = f.cpClient
      /\ ends[Peer(c)][proof[1]].delay = f.delay
  BY DEF GoodProof, Alike
<1> QED BY <1>4, <1>5 DEF Fits

LEMMA InitCreates ==
  ASSUME IInv, NEW c \in Chains, ConnOpenInit(c)
  PROVE  Creates(c) /\ proofs' = proofs
<1>1. PICK p \in Proposals[c] :
        /\ CreateConnection(c,
             [state |-> "INIT", client |-> p.client, cpClient |-> p.cpClient,
              cpConnection |-> None, delay |-> p.delay,
              versions |-> IF p.version = NoVersion THEN GetCompatibleVersions
                                                    ELSE <<p.version>>])
        /\ proofs' = proofs
  BY DEF ConnOpenInit
<1> DEFINE vs == IF p.version = NoVersion THEN GetCompatibleVersions ELSE <<p.version>>
           e == [state |-> "INIT", client |-> p.client, cpClient |-> p.cpClient,
                 cpConnection |-> None, delay |-> p.delay, versions |-> vs]
<1> HIDE DEF vs
<1>2. IsEnd(e) /\ e.state = "INIT" /\ e.client = p.client
  BY DEF IsEnd
<1>3. CreateConnection(c, e)
  BY <1>1 DEF vs
<1> HIDE DEF e
<1>4. p.client \in ClientIds(c)
  BY ConnectionAssumptions
<1>5. Fitted(c, e)
  BY <1>2, <1>4 DEF Fitted, GoodEnd, Settled, MustFit, States
<1> QED BY <1>1, <1>3, <1>5 DEF Creates

LEMMA AnswerFitted ==
  ASSUME IInv, NEW c \in Chains, NEW k \in ClientIds(c),
         NEW proof \in VerifyConnectionState(c, k), NEW version,
         proof[2].cpClient = k,
         VerifyClientState(c, k, proof[2].client, proof[3])
  PROVE  LET e == Answer(proof[2], proof[1], k, version)
         IN  /\ Fitted(c, e)
             /\ e.state = "TRYOPEN" /\ e.client = k
             /\ e.cpClient = proof[2].client /\ e.delay = proof[2].delay
<1> DEFINE f == proof[2]
           e == Answer(f, proof[1], k, version)
<1>1. /\ IsEnd(e) /\ e.state = "TRYOPEN" /\ e.client = k
      /\ e.cpClient = f.client /\ e.cpConnection = proof[1] /\ e.delay = f.delay
      /\ e.versions = <<version>>
  BY DEF Answer, IsEnd
<1> HIDE DEF e
<1>2. GoodEnd(c, e)
  BY <1>1, SMT DEF GoodEnd, Settled, States
<1>3. ASSUME MustFit(c, e) PROVE Fits(ends, c, e)
  <2>1. Clients[c][k].follows = Peer(c)
    BY <1>1, <1>3 DEF MustFit
  <2>2. GoodProof(ends, Peer(c), proof)
    BY <2>1, HonestProof
  <2>3. ValidateSelfClient(c, f.client, proof[3])
    BY <2>1, PeerFacts DEF VerifyClientState
  <2> QED BY <1>1, <2>2, <2>3, ProofFits
<1>4. Fitted(c, e)
  BY <1>2, <1>3 DEF Fitted
<1> QED BY <1>1, <1>4 DEF e

LEMMA TrySteps ==
  ASSUME IInv, NEW c \in Chains, ConnOpenTry(c)
  PROVE  (Creates(c) \/ Moves(c)) /\ proofs' = proofs
<1>1. PICK k, proof :
        /\ k \in ClientIds(c) /\ proof \in VerifyConnectionState(c, k)
        /\ proof[2].cpClient = k
        /\ VerifyClientState(c, k, proof[2].client, proof[3])
        /\ \/ \E v : CreateConnection(c, Answer(proof[2], proof[1], k, v))
           \/ \E i \in DOMAIN ends[c] : \E v :
                /\ SameProposal(c, i, k, proof[2])
                /\ SetConnection(c, i, Answer(proof[2], proof[1], k, v))
        /\ proofs' = proofs
  BY DEF ConnOpenTry
<1> DEFINE e(v) == Answer(proof[2], proof[1], k, v)
<1>2. \A v : /\ Fitted(c, e(v))
             /\ e(v).state = "TRYOPEN" /\ e(v).client = k
             /\ e(v).cpClient = proof[2].client /\ e(v).delay = proof[2].delay
  BY <1>1, AnswerFitted, SMT
<1> HIDE DEF e
<1>3. CASE \E v : CreateConnection(c, e(v))
  BY <1>1, <1>2, <1>3 DEF Creates
<1>4. CASE \E i \in DOMAIN ends[c] : \E v :
             SameProposal(c, i, k, proof[2]) /\ SetConnection(c, i, e(v))
  <2>1. PICK i, v : /\ i \in DOMAIN ends[c]
                    /\ SameProposal(c, i, k, proof[2]) /\ SetConnection(c, i, e(v))
    BY <1>4
  <2>2. Alike(e(v), ends[c][i])
    BY <1>2, <2>1 DEF SameProposal, Alike
  <2>3. Advances(ends[c][i], e(v))
    BY <1>2, <2>1, SMT DEF SameProposal, Advances, Rank
  <2> QED BY <1>1, <1>2, <2>1, <2>2, <2>3 DEF Moves
<1> QED BY <1>1, <1>3, <1>4 DEF e

\* A list of one version is that version's.
LEMMA OneVersion ==
  ASSUME NEW T, NEW s \in Seq(T), Len(s) = 1
  PROVE  s = <<s[1]>>
BY SMT

LEMMA AckMoves ==
  ASSUME IInv, NEW c \in Chains, ConnOpenAck(c)
  PROVE  Moves(c) /\ proofs' = proofs
<1>1. PICK i, proof :
        /\ i \in DOMAIN ends[c] /\ proof \in VerifyConnectionState(c, ends[c][i].client)
        /\ Len(proof[2].versions) = 1
        /\ AcceptsVersion(ends[c][i], proof[2].versions[1])
        /\ Shows(c, i, proof[2], "TRYOPEN")
        /\ VerifyClientState(c, ends[c][i].client, ends[c][i].cpClient, proof[3])
        /\ SetConnection(c, i, Opened(ends[c][i], proof[2].versions, proof[1]))
        /\ proofs' = proofs
  BY DEF ConnOpenAck, Opened
<1> DEFINE old == ends[c][i]
           f == proof[2]
           new == Opened(old, f.versions, proof[1])
<1>2. GoodEnd(c, old)
  BY <1>1 DEF IInv, Shape
<1>3. /\ IsEnd(new) /\ new.state = "OPEN" /\ Alike(new, old)
      /\ new.versions = f.versions /\ new.cpConnection = proof[1]
  BY <1>2, OpenedFields, SMT DEF GoodEnd
<1>4. SetConnection(c, i, new)
  BY <1>1
<1> HIDE DEF new
<1>5. GoodEnd(c, new)
  BY <1>2, <1>3 DEF GoodEnd, Settled, States, Alike
<1>6. old.client \in ClientIds(c)
  BY <1>2 DEF GoodEnd
<1>7. ASSUME Clients[c][old.client].follows = Peer(c)
      PROVE  GoodProof(ends, Peer(c), proof)
  BY <1>1, <1>6, <1>7, HonestProof
<1>8. ASSUME MustFit(c, new) PROVE Fits(ends, c, new)
  <2>1. Clients[c][old.client].follows = Peer(c)
    BY <1>3, <1>8 DEF MustFit, Alike
  <2>2. ValidateSelfClient(c, f.client, proof[3])
    BY <1>1, <2>1, PeerFacts DEF VerifyClientState, Shows
  <2>3. f.client = new.cpClient /\ f.cpClient = new.client /\ f.delay = new.delay
    BY <1>1, <1>3 DEF Shows, Alike
  <2> QED BY <1>3, <1>7, <2>1, <2>2, <2>3, ProofFits
<1>9. f.versions = <<f.versions[1]>>
  <2>1. CASE Clients[c][old.client].follows = Impostor
    <3>1. proof \in Forgeries[c]
      BY <1>1, <2>1 DEF VerifyConnectionState
    <3>2. f.versions \in Seq([identifier : Nat, features : Seq(STRING)])
      BY <3>1, ConnectionAssumptions DEF Versions
    <3> QED BY <1>1, <3>2, OneVersion
  <2>2. CASE Clients[c][old.client].follows = Peer(c)
    BY <1>1, <1>7, <2>2 DEF GoodProof, GoodEnd, Settled, Shows
  <2>3. Clients[c][old.client].follows \in {Peer(c), Impostor}
    BY <1>6, ConnectionAssumptions
  <2> QED BY <2>1, <2>2, <2>3
<1>10. Advances(old, new)
  <2>1. old.state \in {"INIT", "TRYOPEN"}
    BY <1>1 DEF AcceptsVersion
  <2>2. Rank(old.state) < Rank(new.state)
    BY <1>3, <2>1, SMT DEF Rank
  <2>3. ASSUME old.state = "TRYOPEN" PROVE old.versions = f.versions
    BY <1>1, <1>9, <2>3 DEF AcceptsVersion
  <2> QED BY <1>3, <2>2, <2>3 DEF Advances
<1>11. Moves(c)
  BY <1>1, <1>3, <1>4, <1>5, <1>8, <1>10 DEF Moves, Fitted
<1> QED BY <1>1, <1>11

LEMMA ConfirmMoves ==
  ASSUME IInv, NEW c \in Chains, ConnOpenConfirm(c)
  PROVE  Moves(c) /\ proofs' = proofs
<1>1. PICK i \in DOMAIN ends[c] :
        /\ ends[c][i].state = "TRYOPEN"
        /\ SetConnection(c, i, [ends[c][i] EXCEPT !.state = "OPEN"])
        /\ proofs' = proofs
  BY DEF ConnOpenConfirm
<1> DEFINE old == ends[c][i]
           new == [old EXCEPT !.state = "OPEN"]
<1>2. GoodEnd(c, old)
  BY DEF IInv, Shape
<1>3. /\ IsEnd(new) /\ new.state = "OPEN" /\ Alike(new, old)
      /\ new.versions = old.versions /\ new.cpConnection = old.cpConnection
  BY <1>2, ConfirmedFields DEF GoodEnd
<1>4. SetConnection(c, i, new)
  BY <1>1
<1> HIDE DEF new
<1>5. GoodEnd(c, new)
  BY <1>2, <1>3 DEF GoodEnd, Settled, States, Alike
<1>6. MustFit(c, new) => Fits(ends, c, old)
  BY <1>1, <1>3 DEF IInv, Fitting, MustFit, Alike
<1>7. MustFit(c, new) => Fits(ends, c, new)
  BY <1>3, <1>6 DEF Fits, Alike
<1>8. Advances(old, new)
  BY <1>1, <1>3, SMT DEF Advances, Rank
<1> QED BY <1>1, <1>3, <1>4, <1>5, <1>7, <1>8 DEF Moves, Fitted

-----------------------------------------------------------------------------
(* The invariant. *)

\* Ends are only added, and keep their clients and delay.
Grows(E, F) ==
  \A c \in Chains : /\ DOMAIN E[c] \subseteq DOMAIN F[c]
                    /\ \A i \in DOMAIN E[c] : Alike(F[c][i], E[c][i])

LEMMA GrowsKeeps ==
  ASSUME NEW E, NEW F, Grows(E, F), NEW c \in Chains
  PROVE  /\ \A e : Fits(E, c, e) => Fits(F, c, e)
         /\ \A proof : GoodProof(E, c, proof) => GoodProof(F, c, proof)
<1>1. ASSUME NEW e, Fits(E, c, e) PROVE Fits(F, c, e)
  BY <1>1, PeerFacts DEF Grows, Fits, Alike
<1>2. ASSUME NEW proof, GoodProof(E, c, proof) PROVE GoodProof(F, c, proof)
  BY <1>2 DEF Grows, GoodProof, Alike
<1> QED BY <1>1, <1>2

LEMMA CreateKeeps ==
  ASSUME IInv, NEW c \in Chains, Creates(c), proofs' = proofs
  PROVE  IInv'
<1>1. PICK e : CreateConnection(c, e) /\ Fitted(c, e)
  BY DEF Creates
<1> DEFINE n == Len(ends[c]) + 1
<1>2. /\ DOMAIN ends' = Chains
      /\ \A d \in Chains : \E T : ends'[d] \in Seq(T)
      /\ ends'[Peer(c)] = ends[Peer(c)]
      /\ DOMAIN ends'[c] = DOMAIN ends[c] \union {n}
      /\ n \notin DOMAIN ends[c]
      /\ ends'[c][n] = e
      /\ \A k \in DOMAIN ends[c] : ends'[c][k] = ends[c][k]
  BY <1>1, CreateFacts DEF IInv
<1> HIDE DEF n
<1>3. Grows(ends, ends')
  BY <1>2, PeerFacts DEF Grows, Alike
<1>4. ASSUME NEW d \in Chains, NEW i \in DOMAIN ends'[d]
      PROVE  /\ GoodEnd(d, ends'[d][i])
             /\ MustFit(d, ends'[d][i]) => Fits(ends', d, ends'[d][i])
  <2>1. CASE d = c /\ i = n
    BY <1>1, <1>2, <1>3, <2>1, GrowsKeeps DEF Fitted
  <2>2. CASE ~ (d = c /\ i = n)
    <3>1. i \in DOMAIN ends[d] /\ ends'[d][i] = ends[d][i]
      BY <1>2, <1>4, <2>2, PeerFacts, SMT
    <3> QED BY <1>3, <3>1, GrowsKeeps DEF IInv, Shape, Fitting
  <2> QED BY <2>1, <2>2
<1>5. Shown'
  BY <1>3, GrowsKeeps DEF IInv, Shown
<1>6. DOMAIN proofs' = Chains
  BY DEF IInv, Shape
<1> QED BY <1>2, <1>4, <1>5, <1>6 DEF IInv, Shape, Fitting

LEMMA MoveKeeps ==
  ASSUME IInv, NEW c \in Chains, Moves(c), proofs' = proofs
  PROVE  IInv'
<1>1. PICK i, e : /\ i \in DOMAIN ends[c]
                  /\ SetConnection(c, i, e)
                  /\ Fitted(c, e)
                  /\ Alike(e, ends[c][i])
  BY DEF Moves
<1>2. /\ DOMAIN ends' = Chains
      /\ \A d \in Chains : \E T : ends'[d] \in Seq(T)
      /\ ends'[Peer(c)] = ends[Peer(c)]
      /\ DOMAIN ends'[c] = DOMAIN ends[c]
      /\ ends'[c][i] = e
      /\ \A k \in DOMAIN ends[c] : k # i => ends'[c][k] = ends[c][k]
  BY <1>1, SetFacts DEF IInv
<1>3. Grows(ends, ends')
  BY <1>1, <1>2, PeerFacts, SMT DEF Grows, Alike
<1>4. ASSUME NEW d \in Chains, NEW k \in DOMAIN ends'[d]
      PROVE  /\ GoodEnd(d, ends'[d][k])
             /\ MustFit(d, ends'[d][k]) => Fits(ends', d, ends'[d][k])
  <2>1. CASE d = c /\ k = i
    BY <1>1, <1>2, <1>3, <2>1, GrowsKeeps DEF Fitted
  <2>2. CASE ~ (d = c /\ k = i)
    <3>1. k \in DOMAIN ends[d] /\ ends'[d][k] = ends[d][k]
      BY <1>2, <1>4, <2>2, PeerFacts
    <3> QED BY <1>3, <3>1, GrowsKeeps DEF IInv, Shape, Fitting
  <2> QED BY <2>1, <2>2
<1>5. Shown'
  BY <1>3, GrowsKeeps DEF IInv, Shown
<1>6. DOMAIN proofs' = Chains
  BY DEF IInv, Shape
<1> QED BY <1>2, <1>4, <1>5, <1>6 DEF IInv, Shape, Fitting

LEMMA BlockKeeps ==
  ASSUME IInv, NEW c \in Chains, NewBlock(c)
  PROVE  IInv'
<1> DEFINE committed == {<<i, ends[c][i], frozen[c]>> : i \in DOMAIN ends[c]}
<1>1. /\ ends' = ends
      /\ proofs' = [proofs EXCEPT ![c] = proofs[c] \union committed]
  BY DEF NewBlock
<1>2. \A proof \in committed : GoodProof(ends, c, proof)
  BY SMT DEF IInv, Shape, GoodProof, Alike
<1> HIDE DEF committed
<1>3. DOMAIN proofs' = Chains /\ \A d \in Chains :
        proofs'[d] = IF d = c THEN proofs[c] \union committed ELSE proofs[d]
  BY <1>1 DEF IInv, Shape
<1>4. Shown'
  BY <1>1, <1>2, <1>3 DEF IInv, Shown
<1> QED BY <1>1, <1>3, <1>4 DEF IInv, Shape, Fitting

\* Every step creates a fitting end, moves one on, or leaves all ends as they are.
LEMMA StepKinds ==
  ASSUME IInv, NEW c \in Chains,
         \/ ConnOpenInit(c) \/ ConnOpenTry(c) \/ ConnOpenAck(c) \/ ConnOpenConfirm(c)
         \/ CheckMisbehaviour(c) \/ NewBlock(c)
  PROVE  \/ (Creates(c) \/ Moves(c)) /\ proofs' = proofs
         \/ ends' = ends /\ (proofs' = proofs \/ NewBlock(c))
<1>1. CASE ConnOpenInit(c) BY <1>1, InitCreates
<1>2. CASE ConnOpenTry(c) BY <1>2, TrySteps
<1>3. CASE ConnOpenAck(c) BY <1>3, AckMoves
<1>4. CASE ConnOpenConfirm(c) BY <1>4, ConfirmMoves
<1>5. CASE CheckMisbehaviour(c) BY <1>5 DEF CheckMisbehaviour
<1>6. CASE NewBlock(c) BY <1>6 DEF NewBlock
<1> QED BY <1>1, <1>2, <1>3, <1>4, <1>5, <1>6

LEMMA InitIInv == Init => IInv
<1> SUFFICES ASSUME Init PROVE IInv
  OBVIOUS
<1>1. \A c \in Chains : ends[c] = <<>> /\ proofs[c] = {} /\ DOMAIN ends[c] = {}
  BY SMT DEF Init
<1>2. \A c \in Chains : ends[c] \in Seq(Nat)
  <2>1. <<>> \in Seq(Nat)
    BY SMT
  <2> QED BY <1>1, <2>1
<1> QED BY <1>1, <1>2 DEF Init, IInv, Shape, Shown, Fitting

LEMMA NextIInv == IInv /\ [Next]_vars => IInv'
<1> SUFFICES ASSUME IInv, [Next]_vars PROVE IInv'
  OBVIOUS
<1>1. CASE ends' = ends /\ proofs' = proofs
  BY <1>1 DEF IInv, Shape, Shown, Fitting
<1>2. CASE Next
  BY <1>1, <1>2, StepKinds, CreateKeeps, MoveKeeps, BlockKeeps DEF Next
<1>3. CASE vars' = vars
  BY <1>1, <1>3 DEF vars
<1> QED BY <1>2, <1>3

\* The inductive invariant holds in every state of the handshake.
THEOREM Invariance == Spec => []IInv
BY InitIInv, NextIInv, PTL DEF Spec

\* The ends of two chains whose handlers ConnOpenTry, ConnOpenAck and ConnOpenConfirm
\* have run name each other's clients and the same delay, and the client of the other
\* chain follows this one with the right parameters: for any clients, any number of
\* connections, proofs however old and whatever impostors prove.
THEOREM ClientsAlwaysMutual == Spec => []ClientsAreMutual
<1>1. IInv => ClientsAreMutual
  BY DEF IInv, Fitting, MustFit, Fits, ClientsAreMutual, Honest, Linked, CounterpartyOf
<1> QED BY <1>1, Invariance, PTL

\* The handlers of the connection handshake only move an end forward, keep its clients
\* and its delay, and keep the version it has answered with.
THEOREM ConnectionsAlwaysAdvance == Spec => ConnectionsOnlyAdvance
<1> DEFINE Step(old, new) ==
      new # old =>
        /\ Rank(old.state) < Rank(new.state)
        /\ new.client = old.client /\ new.cpClient = old.cpClient
        /\ new.delay = old.delay
        /\ old.state = "TRYOPEN" => new.versions = old.versions
    Forward == \A c \in Chains : \A i \in DOMAIN ends[c] : Step(ends[c][i], ends'[c][i])
<1>1. ASSUME IInv, [Next]_vars PROVE [Forward]_vars
  <2>1. CASE ends' = ends
    BY <2>1
  <2>2. ASSUME NEW c \in Chains, Creates(c) PROVE Forward
    <3>1. PICK e : CreateConnection(c, e)
      BY <2>2 DEF Creates
    <3>2. /\ ends'[Peer(c)] = ends[Peer(c)]
          /\ \A k \in DOMAIN ends[c] : ends'[c][k] = ends[c][k]
      BY <1>1, <3>1, CreateFacts DEF IInv
    <3> QED BY <3>2, PeerFacts, SMT
  <2>3. ASSUME NEW c \in Chains, Moves(c) PROVE Forward
    <3>1. PICK i, e : /\ i \in DOMAIN ends[c]
                      /\ SetConnection(c, i, e)
                      /\ Alike(e, ends[c][i])
                      /\ Advances(ends[c][i], e)
      BY <2>3 DEF Moves
    <3>2. /\ ends'[Peer(c)] = ends[Peer(c)]
          /\ ends'[c][i] = e
          /\ \A k \in DOMAIN ends[c] : k # i => ends'[c][k] = ends[c][k]
      BY <1>1, <3>1, SetFacts, SMT DEF IInv
    <3> QED BY <3>1, <3>2, PeerFacts, SMT DEF Alike, Advances
  <2>4. CASE Next
    BY <1>1, <2>1, <2>2, <2>3, <2>4, StepKinds DEF Next
  <2> QED BY <1>1, <2>4
<1> QED BY <1>1, Invariance, PTL DEF Spec, ConnectionsOnlyAdvance

-----------------------------------------------------------------------------
(* What the functions of version.go return. *)

\* A version has a list of features.  It can be proposed or picked if they are known.
IsVersion(v) == \E T : v.features \in Seq(T)
GoodVersion(v) == IsVersion(v) /\ FeatureSet(v) # {} /\ FeatureSet(v) \subseteq Features

\* A nonempty set of naturals has a least element.
LEMMA LeastNat ==
  ASSUME NEW T, T \subseteq Nat, T # {}
  PROVE  \E n \in T : \A m \in T : n <= m
<1>1. PICK n \in T : \A m \in T : ~ (<<m, n>> \in OpToRel(<, Nat))
  BY NatLessThanWellFounded, WFMin
<1>2. \A m, k \in Nat : m < k => <<m, k>> \in OpToRel(<, Nat)
  BY DEF OpToRel
<1>3. \A m \in T : m \in Nat /\ n \in Nat /\ ~ (m < n)
  BY <1>1, <1>2
<1> QED BY <1>3, SMT

LEMMA FirstFacts ==
  ASSUME NEW S, S \subseteq Nat, S # {}
  PROVE  First(S) \in S
<1>1. \E i \in S : \A j \in S : i <= j
  BY LeastNat
<1> QED BY <1>1 DEF First

\* The loop of GetFeatureSetIntersection: g has gone through the first n features.
IntersectionStep(source, cp, g, k) ==
  IF k = 0 THEN <<>>
  ELSE IF Contains(cp, source[k]) THEN Append(g[k - 1], source[k]) ELSE g[k - 1]
Intersects(source, cp, n, g) == g = [k \in 0 .. n |-> IntersectionStep(source, cp, g, k)]

LEMMA IntersectionUnfolds ==
  ASSUME NEW source, NEW cp
  PROVE  GetFeatureSetIntersection(source, cp) =
           (CHOOSE g : Intersects(source, cp, Len(source), g))[Len(source)]
BY DEF GetFeatureSetIntersection, Intersects, IntersectionStep

LEMMA IntersectionExists ==
  ASSUME NEW source, NEW cp
  PROVE  \A n \in Nat : \E g : Intersects(source, cp, n, g)
<1> DEFINE bad == {n \in Nat : ~ \E g : Intersects(source, cp, n, g)}
<1>1. ASSUME bad # {} PROVE FALSE
  <2>1. PICK m \in bad : \A k \in bad : m <= k
    BY <1>1, LeastNat
  <2>2. ~ \E g : Intersects(source, cp, m, g)
    BY <2>1
  <2>3. CASE m = 0
    <3>1. Intersects(source, cp, 0, [k \in 0 .. 0 |-> <<>>])
      BY SMT DEF Intersects, IntersectionStep
    <3> QED BY <2>2, <2>3, <3>1
  <2>4. CASE m # 0
    <3>1. m - 1 \in Nat /\ m - 1 \notin bad
      BY <2>1, <2>4, SMT
    <3>2. PICK g : Intersects(source, cp, m - 1, g)
      BY <3>1
    <3> DEFINE h == [k \in 0 .. m |-> IF k < m THEN g[k] ELSE IntersectionStep(source, cp, g, m)]
    <3>3. ASSUME NEW k \in 0 .. m PROVE h[k] = IntersectionStep(source, cp, h, k)
      <4>1. CASE k < m
        <5>1. k \in 0 .. (m - 1) /\ h[k] = g[k]
          BY <4>1, SMT
        <5>2. g[k] = IntersectionStep(source, cp, g, k)
          BY <3>2, <5>1 DEF Intersects
        <5>3. k # 0 => h[k - 1] = g[k - 1]
          BY <4>1, SMT
        <5> QED BY <5>1, <5>2, <5>3 DEF IntersectionStep
      <4>2. CASE k = m
        <5>1. h[k] = IntersectionStep(source, cp, g, m)
          BY <4>2, SMT
        <5>2. h[m - 1] = g[m - 1]
          BY <2>4, SMT
        <5> QED BY <4>2, <5>1, <5>2 DEF IntersectionStep
      <4> QED BY <4>1, <4>2, SMT
    <3>4. h = [k \in 0 .. m |-> h[k]]
      OBVIOUS
    <3> HIDE DEF h
    <3>5. Intersects(source, cp, m, h)
      BY <3>3, <3>4 DEF Intersects
    <3> QED BY <2>2, <3>5
  <2> QED BY <2>3, <2>4
<1> QED BY <1>1

\* The intersection is a list of features of the source that the counterparty has too.
Shared(T, source, cp, s) ==
  s \in Seq(T) /\ \A i \in DOMAIN s : Contains(source, s[i]) /\ Contains(cp, s[i])

LEMMA SharedGrows ==
  ASSUME NEW T, NEW source \in Seq(T), NEW cp, NEW s, Shared(T, source, cp, s),
         NEW k \in 1 .. Len(source), Contains(cp, source[k])
  PROVE  Shared(T, source, cp, Append(s, source[k]))
<1>1. source[k] \in T /\ s \in Seq(T)
  BY SMT DEF Shared
<1>2. Contains(source, source[k])
  BY DEF Contains
<1>3. Append(s, source[k]) \in Seq(T)
  BY <1>1, SMT
<1>4. ASSUME NEW i \in DOMAIN Append(s, source[k])
      PROVE  (i \in DOMAIN s /\ Append(s, source[k])[i] = s[i]) \/ Append(s, source[k])[i] = source[k]
  BY <1>1, SMT
<1> QED BY <1>2, <1>3, <1>4 DEF Shared

LEMMA IntersectionFacts ==
  ASSUME NEW T, NEW source \in Seq(T), NEW cp
  PROVE  Shared(T, source, cp, GetFeatureSetIntersection(source, cp))
<1> DEFINE n == Len(source)
           g == CHOOSE h : Intersects(source, cp, n, h)
           bad == {k \in 0 .. n : ~ Shared(T, source, cp, g[k])}
<1>1. n \in Nat
  BY SMT
<1>2. Intersects(source, cp, n, g)
  BY <1>1, IntersectionExists
<1> HIDE DEF g
<1>3. ASSUME bad # {} PROVE FALSE
  <2>1. bad \subseteq Nat
    BY SMT
  <2>2. PICK m \in bad : \A k \in bad : m <= k
    BY <1>3, <2>1, LeastNat
  <2>3. m \in 0 .. n /\ ~ Shared(T, source, cp, g[m])
    BY <2>2
  <2>4. g[m] = IntersectionStep(source, cp, g, m)
    BY <1>2, <2>3 DEF Intersects
  <2>5. m # 0
    <3>1. Shared(T, source, cp, <<>>)
      BY SMT DEF Shared
    <3> QED BY <2>3, <2>4, <3>1 DEF IntersectionStep
  <2>6. m \in 1 .. n /\ m - 1 \in 0 .. n /\ m - 1 \notin bad
    BY <1>1, <2>2, <2>3, <2>5, SMT
  <2>7. Shared(T, source, cp, g[m - 1])
    BY <2>6
  <2>8. Contains(cp, source[m]) => Shared(T, source, cp, Append(g[m - 1], source[m]))
    BY <2>6, <2>7, SharedGrows
  <2> QED BY <2>3, <2>4, <2>5, <2>7, <2>8 DEF IntersectionStep
<1>4. n \in 0 .. n
  BY <1>1, SMT
<1>5. Shared(T, source, cp, g[n])
  BY <1>3, <1>4
<1> QED BY <1>5, IntersectionUnfolds DEF g

\* What Contains says of the features of a version.
LEMMA FeatureFacts ==
  ASSUME NEW v, IsVersion(v), NEW x
  PROVE  Contains(v.features, x) => x \in FeatureSet(v)
BY SMT DEF IsVersion, Contains, FeatureSet

\* A list of versions.
AreVersions(vs) == (\E T : vs \in Seq(T)) /\ \A i \in DOMAIN vs : IsVersion(vs[i])

LEMMA RestrictedFacts ==
  ASSUME NEW v, IsVersion(v), NEW cps, AreVersions(cps), Compatible(v, cps)
  PROVE  LET w == Restricted(v, cps)
         IN  /\ IsVersion(w) /\ FeatureSet(w) # {}
             /\ FeatureSet(w) \subseteq FeatureSet(v)
             /\ \E i \in DOMAIN cps : FeatureSet(w) \subseteq FeatureSet(cps[i])
<1> DEFINE i == First(Matches(v, cps))
           s == GetFeatureSetIntersection(v.features, cps[i].features)
           w == [identifier |-> v.identifier, features |-> s]
<1>1. Restricted(v, cps) = w
  BY DEF Restricted, FindSupportedVersion
<1>2. Matches(v, cps) # {} /\ Matches(v, cps) \subseteq Nat /\ Matches(v, cps) \subseteq DOMAIN cps
  BY SMT DEF Compatible, Matches, AreVersions
<1>3. i \in DOMAIN cps
  BY <1>2, FirstFacts
<1> HIDE DEF i
<1>4. PICK T : v.features \in Seq(T)
  BY DEF IsVersion
<1>5. Shared(T, v.features, cps[i].features, s)
  BY <1>4, IntersectionFacts
<1>6. s # <<>>
  BY <1>1, SMT DEF Compatible, NilFeaturesRefused, AllowNilFeatureSet
<1> HIDE DEF s
<1>7. IsVersion(w)
  BY <1>5 DEF IsVersion, Shared
<1>8. FeatureSet(w) = {s[k] : k \in DOMAIN s}
  BY DEF FeatureSet
<1>9. FeatureSet(w) # {}
  <2>1. s \in Seq(T)
    BY <1>5 DEF Shared
  <2>2. 1 \in DOMAIN s
    BY <1>6, <2>1, SMT
  <2> QED BY <1>8, <2>2
<1>10. \A k \in DOMAIN s : s[k] \in FeatureSet(v) /\ s[k] \in FeatureSet(cps[i])
  BY <1>3, <1>5, FeatureFacts DEF Shared, AreVersions
<1> HIDE DEF w
<1>11. FeatureSet(w) \subseteq FeatureSet(v) /\ FeatureSet(w) \subseteq FeatureSet(cps[i])
  BY <1>8, <1>10
<1> QED BY <1>1, <1>3, <1>7, <1>9, <1>11

\* The contract of PickVersion: what it picks is in the intersection of a supported and
\* a version of the counterparty.
InBoth(v, supported, cps) ==
  /\ IsVersion(v) /\ FeatureSet(v) # {}
  /\ \E i \in DOMAIN supported : FeatureSet(v) \subseteq FeatureSet(supported[i])
  /\ \E i \in DOMAIN cps : FeatureSet(v) \subseteq FeatureSet(cps[i])

LEMMA PickFacts ==
  ASSUME NEW supported, AreVersions(supported), NEW cps, AreVersions(cps),
         PickVersion(supported, cps) # <<>>
  PROVE  InBoth(Head(PickVersion(supported, cps)), supported, cps)
<1> DEFINE found == {i \in DOMAIN supported : Compatible(supported[i], cps)}
           i == First(found)
<1>1. found # {} /\ PickVersion(supported, cps) = <<Restricted(supported[i], cps)>>
  BY DEF PickVersion
<1>2. found \subseteq Nat
  BY SMT DEF AreVersions
<1>3. i \in found
  BY <1>1, <1>2, FirstFacts
<1>4. i \in DOMAIN supported /\ IsVersion(supported[i]) /\ Compatible(supported[i], cps)
  BY <1>3 DEF AreVersions
<1> HIDE DEF i, found
<1> DEFINE w == Restricted(supported[i], cps)
<1>5. /\ IsVersion(w) /\ FeatureSet(w) # {}
      /\ FeatureSet(w) \subseteq FeatureSet(supported[i])
      /\ \E k \in DOMAIN cps : FeatureSet(w) \subseteq FeatureSet(cps[k])
  BY <1>4, RestrictedFacts, SMT
<1>6. PickVersion(supported, cps) = <<w>>
  BY <1>1
<1> HIDE DEF w
<1>7. Head(PickVersion(supported, cps)) = w
  BY <1>6, SMT
<1> QED BY <1>4, <1>5, <1>7 DEF InBoth

LEMMA DefaultIsGood ==
  /\ GoodVersion(DefaultIBCVersion)
  /\ GetCompatibleVersions = <<DefaultIBCVersion>>
  /\ FeatureSet(DefaultIBCVersion) = Features
<1> DEFINE s == <<"ORDERED", "UNORDERED">>
<1>1. s \in Seq({"ORDERED", "UNORDERED"}) /\ DOMAIN s = {1, 2} /\ s[1] = "ORDERED" /\ s[2] = "UNORDERED"
  <2>1. DOMAIN s = 1 .. 2 /\ s[1] = "ORDERED" /\ s[2] = "UNORDERED"
    BY SMT
  <2>2. s \in Seq({"ORDERED", "UNORDERED"})
    BY SMT
  <2>3. 1 .. 2 = {1, 2}
    BY SMT
  <2> QED BY <2>1, <2>2, <2>3
<1> HIDE DEF s
<1>2. DefaultIBCVersion = [identifier |-> 1, features |-> s]
  BY DEF DefaultIBCVersion, s
<1>3. IsVersion(DefaultIBCVersion) /\ DefaultIBCVersion.features = s
  BY <1>1, <1>2 DEF IsVersion
<1>4. FeatureSet(DefaultIBCVersion) = Features
  BY <1>1, <1>3 DEF FeatureSet, Features
<1> QED BY <1>3, <1>4 DEF GoodVersion, Features, GetCompatibleVersions

\* A version that IsSupportedVersion accepts is good.
LEMMA SupportedIsGood ==
  ASSUME NEW v, IsVersion(v), IsSupportedVersion(v)
  PROVE  GoodVersion(v)
<1> DEFINE i == First(Matches(v, GetCompatibleVersions))
<1>1. DOMAIN GetCompatibleVersions = {1} /\ GetCompatibleVersions[1] = DefaultIBCVersion
  BY DefaultIsGood, SMT
<1>2. /\ Matches(v, GetCompatibleVersions) # {}
      /\ Matches(v, GetCompatibleVersions) \subseteq {1}
  BY <1>1 DEF IsSupportedVersion, Matches
<1>3. i = 1
  BY <1>2, FirstFacts, SMT
<1>4. VerifyProposedVersion(DefaultIBCVersion, v)
  BY <1>1, <1>3 DEF IsSupportedVersion, FindSupportedVersion
<1>5. v.features # <<>>
  BY <1>4 DEF VerifyProposedVersion, NilFeaturesRefused, AllowNilFeatureSet
<1>6. 1 \in DOMAIN v.features
  BY <1>5, SMT DEF IsVersion
<1>7. FeatureSet(v) # {}
  BY <1>6 DEF FeatureSet
<1>8. \A k \in DOMAIN v.features : v.features[k] \in FeatureSet(DefaultIBCVersion)
  BY <1>4, FeatureFacts, DefaultIsGood DEF VerifyProposedVersion, GoodVersion
<1>9. FeatureSet(v) \subseteq Features
  BY <1>8, DefaultIsGood DEF FeatureSet
<1> QED BY <1>7, <1>9 DEF GoodVersion

-----------------------------------------------------------------------------
(* The negotiation of versions. *)

\* An end has one version, and these are its features.
OneGoodVersion(e) == e.versions = <<e.versions[1]>> /\ GoodVersion(e.versions[1])
FeaturesOf(e) == FeatureSet(e.versions[1])

\* An end has been as old, at some time before it is as now.
Before(old, now) == old = now \/ Rank(old.state) < Rank(now.state)

\* The proof shows end i as it was proposed.
ShowsProposal(p, i) == p[1] = i /\ p[2].state = "INIT"

\* End i of chain c, being e, has only features that were proposed for it and for the
\* end it names, of which it has seen a proof, if P are the proofs.
Negotiated(P, c, i, e) ==
  Clients[c][e.client].follows = Peer(c) =>
    /\ \A p \in P[c] : ShowsProposal(p, i) => FeaturesOf(e) \subseteq FeaturesOf(p[2])
    /\ e.state # "INIT" =>
         /\ \A p \in P[Peer(c)] : ShowsProposal(p, e.cpConnection) =>
              FeaturesOf(e) \subseteq FeaturesOf(p[2])
         /\ \E p \in P[Peer(c)] : /\ p[1] = e.cpConnection
                                  /\ e.state = "TRYOPEN" => p[2].state = "INIT"

\* An OPEN end i of chain c has been shown in INIT, or has opened after its counterparty.
OpenedLast(E, P, c, i, e) ==
  Clients[c][e.client].follows = Peer(c) /\ e.state = "OPEN" =>
    \/ \E p \in P[c] : ShowsProposal(p, i)
    \/ LET f == E[Peer(c)][e.cpConnection]
       IN  f.state = "OPEN" /\ f.cpConnection = i /\ f.versions = e.versions

GoodNow(E, P, c, i, e) ==
  OneGoodVersion(e) /\ Negotiated(P, c, i, e) /\ OpenedLast(E, P, c, i, e)
GoodThen(E, P, c, p) ==
  OneGoodVersion(p[2]) /\ Negotiated(P, c, p[1], p[2]) /\ Before(p[2], E[c][p[1]])

(* The invariant: what ends have now and what has been shown of them is negotiated,
   and an end has been shown in one way only in each of its states. *)
Negotiation ==
  /\ \A c \in Chains : \A i \in DOMAIN ends[c] : GoodNow(ends, proofs, c, i, ends[c][i])
  /\ \A c \in Chains : \A p \in proofs[c] : GoodThen(ends, proofs, c, p)
  /\ \A c \in Chains : \A p, q \in proofs[c] :
       p[1] = q[1] /\ p[2].state = q[2].state => p[2] = q[2]

\* What is proven to chain c through client k.
LEMMA ProofKinds ==
  ASSUME IInv, Negotiation, NEW c \in Chains, NEW k \in ClientIds(c),
         NEW proof \in VerifyConnectionState(c, k)
  PROVE  \/ /\ Clients[c][k].follows = Impostor /\ Impostor # Peer(c)
            /\ AreVersions(proof[2].versions) /\ proof[1] \in Nat
         \/ /\ Clients[c][k].follows = Peer(c)
            /\ proof \in proofs[Peer(c)]
            /\ GoodThen(ends, proofs, Peer(c), proof) /\ GoodProof(ends, Peer(c), proof)
            /\ AreVersions(proof[2].versions) /\ proof[1] \in Nat
<1>1. CASE Clients[c][k].follows = Impostor
  <2>1. proof \in Forgeries[c]
    BY <1>1 DEF VerifyConnectionState
  <2>2. proof[1] \in Nat /\ proof[2].versions \in Seq(Versions)
    BY <2>1, ConnectionAssumptions
  <2>3. \A v \in Versions : IsVersion(v)
    BY DEF Versions, IsVersion
  <2>4. AreVersions(proof[2].versions)
    BY <2>2, <2>3, SMT DEF AreVersions
  <2> QED BY <1>1, <2>2, <2>4, PeerFacts
<1>2. CASE Clients[c][k].follows = Peer(c)
  <2>1. proof \in proofs[Peer(c)] /\ Peer(c) \in Chains
    BY <1>2, PeerFacts DEF VerifyConnectionState
  <2>2. GoodThen(ends, proofs, Peer(c), proof) /\ GoodProof(ends, Peer(c), proof)
    BY <2>1 DEF IInv, Shown, Negotiation
  <2>3. proof[1] \in Nat
    BY <2>1, <2>2, SeqFacts, SMT DEF GoodProof, IInv
  <2>4. AreVersions(proof[2].versions)
    <3> DEFINE v == proof[2].versions[1]
    <3>1. proof[2].versions = <<v>> /\ IsVersion(v)
      BY <2>2 DEF GoodThen, OneGoodVersion, GoodVersion
    <3> HIDE DEF v
    <3>2. <<v>> \in Seq({v}) /\ DOMAIN <<v>> = {1} /\ <<v>>[1] = v
      BY SMT
    <3> QED BY <3>1, <3>2 DEF AreVersions
  <2> QED BY <1>2, <2>1, <2>2, <2>3, <2>4
<1>3. Clients[c][k].follows \in {Peer(c), Impostor}
  BY ConnectionAssumptions
<1> QED BY <1>1, <1>2, <1>3

\* A list of one good version.
LEMMA OneInList ==
  ASSUME NEW v
  PROVE  DOMAIN <<v>> = {1} /\ <<v>>[1] = v /\ <<v>> \in Seq({v})
BY SMT

\* What a handler of chain c makes of an end i, which may be a new one.
WellNamed(c, e) == /\ e.client \in ClientIds(c)
                   /\ e.cpConnection \in Nat
                   /\ e.state = "INIT" => e.cpClient \in ClientIds(Peer(c))
Makes(c, i, e) ==
  /\ \/ /\ i = Len(ends[c]) + 1 /\ CreateConnection(c, e)
        /\ AddConnectionToClient(c, e.client, i)
     \/ /\ i \in DOMAIN ends[c] /\ SetConnection(c, i, e)
        /\ Rank(ends[c][i].state) < Rank(e.state) /\ e.client = ends[c][i].client
        /\ paths' = paths \/ AddConnectionToClient(c, e.client, i)
  /\ WellNamed(c, e)
  /\ GoodNow(ends, proofs, c, i, e)
  /\ e.state \in States
  /\ proofs' = proofs

\* No proof is about an end that does not exist yet.
LEMMA NotYetShown ==
  ASSUME IInv, NEW c \in Chains, NEW p \in proofs[c]
  PROVE  p[1] # Len(ends[c]) + 1
<1>1. p[1] \in DOMAIN ends[c]
  BY DEF IInv, Shown, GoodProof
<1> QED BY <1>1, SeqFacts, SMT DEF IInv

LEMMA InitMakes ==
  ASSUME IInv, Negotiation, NEW c \in Chains, ConnOpenInit(c)
  PROVE  \E e : Makes(c, Len(ends[c]) + 1, e)
<1>1. PICK p \in Proposals[c] :
        /\ p.version # NoVersion => IsSupportedVersion(p.version)
        /\ CreateConnection(c,
             [state |-> "INIT", client |-> p.client, cpClient |-> p.cpClient,
              cpConnection |-> None, delay |-> p.delay,
              versions |-> IF p.version = NoVersion THEN GetCompatibleVersions
                                                    ELSE <<p.version>>])
        /\ AddConnectionToClient(c, p.client, Len(ends[c]) + 1)
        /\ proofs' = proofs
  BY DEF ConnOpenInit
<1> DEFINE v == IF p.version = NoVersion THEN DefaultIBCVersion ELSE p.version
           e == [state |-> "INIT", client |-> p.client, cpClient |-> p.cpClient,
                 cpConnection |-> None, delay |-> p.delay, versions |-> <<v>>]
           n == Len(ends[c]) + 1
<1>2. GoodVersion(v)
  <2>1. p.version # NoVersion => p.version \in Versions
    BY ConnectionAssumptions
  <2>2. p.version # NoVersion => IsVersion(p.version)
    BY <2>1 DEF Versions, IsVersion
  <2> QED BY <1>1, <2>2, DefaultIsGood, SupportedIsGood
<1>3. (IF p.version = NoVersion THEN GetCompatibleVersions ELSE <<p.version>>) = <<v>>
  BY DefaultIsGood
<1>4. CreateConnection(c, e)
  BY <1>1, <1>3
<1> HIDE DEF v
<1>5. /\ e.state = "INIT" /\ e.versions = <<v>> /\ e.client = p.client
      /\ e.cpClient = p.cpClient /\ e.cpConnection = 0
  BY DEF None
<1> HIDE DEF e
<1>6. OneGoodVersion(e)
  BY <1>2, <1>5, OneInList DEF OneGoodVersion
<1>7. Negotiated(proofs, c, n, e)
  BY <1>5, NotYetShown DEF Negotiated, ShowsProposal
<1>8. OpenedLast(ends, proofs, c, n, e)
  BY <1>5 DEF OpenedLast
<1>9. WellNamed(c, e)
  BY <1>5, ConnectionAssumptions, SMT DEF WellNamed
<1> QED BY <1>1, <1>4, <1>5, <1>6, <1>7, <1>8, <1>9 DEF Makes, GoodNow, States

\* An answer e of chain c, with client k, has features of a supported version and those
\* of the proposal that it answers.
Answers(c, k, supported, e) ==
  /\ OneGoodVersion(e) /\ e.state = "TRYOPEN" /\ e.client = k /\ e.cpConnection \in Nat
  /\ \E i \in DOMAIN supported : FeaturesOf(e) \subseteq FeatureSet(supported[i])
  /\ Clients[c][k].follows = Peer(c) =>
       /\ \A p \in proofs[Peer(c)] : ShowsProposal(p, e.cpConnection) =>
            FeaturesOf(e) \subseteq FeaturesOf(p[2])
       /\ \E p \in proofs[Peer(c)] : p[1] = e.cpConnection /\ p[2].state = "INIT"
AreGood(vs) == AreVersions(vs) /\ \A i \in DOMAIN vs : GoodVersion(vs[i])

LEMMA AnswerMakes ==
  ASSUME IInv, Negotiation, NEW c \in Chains, NEW k \in ClientIds(c),
         NEW proof \in VerifyConnectionState(c, k), proof[2].state = "INIT",
         NEW supported, AreGood(supported),
         PickVersion(supported, proof[2].versions) # <<>>,
         NEW e, e = Answer(proof[2], proof[1], k,
                           Head(PickVersion(supported, proof[2].versions)))
  PROVE  Answers(c, k, supported, e)
<1> DEFINE f == proof[2]
           v == Head(PickVersion(supported, f.versions))
<1>1. AreVersions(f.versions) /\ proof[1] \in Nat
  BY ProofKinds
<1>2. InBoth(v, supported, f.versions)
  BY <1>1, PickFacts DEF AreGood
<1> HIDE DEF v
<1>3. GoodVersion(v)
  BY <1>2 DEF InBoth, GoodVersion, AreGood
<1>4. /\ e.state = "TRYOPEN" /\ e.client = k /\ e.cpConnection = proof[1]
      /\ e.versions = <<v>>
  BY DEF Answer, v
<1>5. OneGoodVersion(e) /\ FeaturesOf(e) = FeatureSet(v)
  BY <1>3, <1>4, OneInList, SMT DEF OneGoodVersion, FeaturesOf
<1>6. ASSUME Clients[c][k].follows = Peer(c)
      PROVE  /\ \A p \in proofs[Peer(c)] : ShowsProposal(p, e.cpConnection) =>
                  FeaturesOf(e) \subseteq FeaturesOf(p[2])
             /\ \E p \in proofs[Peer(c)] : p[1] = e.cpConnection /\ p[2].state = "INIT"
  <2>1. proof \in proofs[Peer(c)] /\ GoodThen(ends, proofs, Peer(c), proof)
    BY <1>6, ProofKinds, PeerFacts
  <2>2. f.versions = <<f.versions[1]>>
    BY <2>1 DEF GoodThen, OneGoodVersion
  <2>3. FeatureSet(v) \subseteq FeaturesOf(f)
    BY <1>2, <2>2, OneInList DEF InBoth, FeaturesOf
  <2>4. ASSUME NEW p \in proofs[Peer(c)], ShowsProposal(p, proof[1]) PROVE p[2] = f
    BY <2>1, <2>4, PeerFacts, SMT DEF ShowsProposal, Negotiation
  <2> QED BY <1>4, <1>5, <2>1, <2>3, <2>4
<1>7. \E i \in DOMAIN supported : FeaturesOf(e) \subseteq FeatureSet(supported[i])
  BY <1>2, <1>5 DEF InBoth
<1> QED BY <1>1, <1>4, <1>5, <1>6, <1>7 DEF Answers

LEMMA TryMakes ==
  ASSUME IInv, Negotiation, NEW c \in Chains, ConnOpenTry(c)
  PROVE  \E i, e : Makes(c, i, e)
<1>1. PICK k, proof :
        /\ k \in ClientIds(c) /\ proof \in VerifyConnectionState(c, k)
        /\ proof[2].state = "INIT"
        /\ \/ /\ PickVersion(GetCompatibleVersions, proof[2].versions) # <<>>
              /\ CreateConnection(c, Answer(proof[2], proof[1], k,
                   Head(PickVersion(GetCompatibleVersions, proof[2].versions))))
              /\ AddConnectionToClient(c, k, Len(ends[c]) + 1)
           \/ \E i \in DOMAIN ends[c] :
                /\ SameProposal(c, i, k, proof[2])
                /\ PickVersion(ends[c][i].versions, proof[2].versions) # <<>>
                /\ SetConnection(c, i, Answer(proof[2], proof[1], k,
                     Head(PickVersion(ends[c][i].versions, proof[2].versions))))
                /\ AddConnectionToClient(c, k, i)
        /\ proofs' = proofs
  BY DEF ConnOpenTry
<1> DEFINE e(s) == Answer(proof[2], proof[1], k, Head(PickVersion(s, proof[2].versions)))
<1>2. ASSUME NEW v, GoodVersion(v), PickVersion(<<v>>, proof[2].versions) # <<>>
      PROVE  Answers(c, k, <<v>>, e(<<v>>))
  <2> DEFINE s == <<v>>
             x == e(s)
  <2>1. DOMAIN s = {1} /\ s[1] = v /\ s \in Seq({v})
    BY OneInList
  <2>2. AreGood(s)
    BY <1>2, <2>1 DEF AreGood, AreVersions, GoodVersion
  <2>3. PickVersion(s, proof[2].versions) # <<>>
    BY <1>2
  <2>4. x = Answer(proof[2], proof[1], k, Head(PickVersion(s, proof[2].versions)))
    OBVIOUS
  <2> HIDE DEF s, x
  <2>5. Answers(c, k, s, x)
    BY <1>1, <2>2, <2>3, <2>4, AnswerMakes
  <2> QED BY <2>5 DEF s, x
<1> HIDE DEF e
<1>3. CASE /\ PickVersion(GetCompatibleVersions, proof[2].versions) # <<>>
           /\ CreateConnection(c, e(GetCompatibleVersions))
           /\ AddConnectionToClient(c, k, Len(ends[c]) + 1)
  <2> DEFINE new == e(<<DefaultIBCVersion>>)
             n == Len(ends[c]) + 1
  <2>1. CreateConnection(c, new) /\ PickVersion(<<DefaultIBCVersion>>, proof[2].versions) # <<>>
    BY <1>3, DefaultIsGood
  <2>2. /\ OneGoodVersion(new) /\ new.state = "TRYOPEN" /\ new.client = k
        /\ new.cpConnection \in Nat
        /\ Clients[c][k].follows = Peer(c) =>
             /\ \A p \in proofs[Peer(c)] : ShowsProposal(p, new.cpConnection) =>
                  FeaturesOf(new) \subseteq FeaturesOf(p[2])
             /\ \E p \in proofs[Peer(c)] : p[1] = new.cpConnection /\ p[2].state = "INIT"
    BY <1>2, <2>1, DefaultIsGood DEF Answers
  <2> HIDE DEF new
  <2>3. Negotiated(proofs, c, n, new)
    BY <2>2, NotYetShown DEF Negotiated, ShowsProposal
  <2>4. OpenedLast(ends, proofs, c, n, new)
    BY <2>2 DEF OpenedLast
  <2>5. WellNamed(c, new)
    BY <1>1, <2>2 DEF WellNamed
  <2>6. Makes(c, n, new)
    BY <1>1, <1>3, <2>1, <2>2, <2>3, <2>4, <2>5 DEF Makes, GoodNow, States
  <2> QED BY <2>6
<1>4. ASSUME NEW i \in DOMAIN ends[c], SameProposal(c, i, k, proof[2]),
             PickVersion(ends[c][i].versions, proof[2].versions) # <<>>,
             SetConnection(c, i, e(ends[c][i].versions)),
             AddConnectionToClient(c, k, i)
      PROVE  \E new : Makes(c, i, new)
  <2> DEFINE old == ends[c][i]
             v == old.versions[1]
             new == e(<<v>>)
  <2>1. old.versions = <<v>> /\ GoodVersion(v)
    BY DEF Negotiation, GoodNow, OneGoodVersion
  <2>2. old.state = "INIT" /\ old.client = k /\ FeaturesOf(old) = FeatureSet(v)
    BY <1>4 DEF SameProposal, FeaturesOf
  <2>3. SetConnection(c, i, new) /\ PickVersion(<<v>>, proof[2].versions) # <<>>
    BY <1>4, <2>1
  <2> HIDE DEF v
  <2>4. /\ OneGoodVersion(new) /\ new.state = "TRYOPEN" /\ new.client = k
        /\ new.cpConnection \in Nat
        /\ FeaturesOf(new) \subseteq FeaturesOf(old)
        /\ Clients[c][k].follows = Peer(c) =>
             /\ \A p \in proofs[Peer(c)] : ShowsProposal(p, new.cpConnection) =>
                  FeaturesOf(new) \subseteq FeaturesOf(p[2])
             /\ \E p \in proofs[Peer(c)] : p[1] = new.cpConnection /\ p[2].state = "INIT"
    <3>1. Answers(c, k, <<v>>, new)
      BY <1>2, <2>1, <2>3
    <3>2. DOMAIN <<v>> = {1} /\ <<v>>[1] = v
      BY OneInList
    <3> HIDE DEF new
    <3> QED BY <2>2, <3>1, <3>2 DEF Answers
  <2> HIDE DEF new
  <2>5. ASSUME Clients[c][k].follows = Peer(c), NEW p \in proofs[c], ShowsProposal(p, i)
        PROVE  FeaturesOf(new) \subseteq FeaturesOf(p[2])
    <3>1. Negotiated(proofs, c, i, old)
      BY DEF Negotiation, GoodNow
    <3>2. FeaturesOf(old) \subseteq FeaturesOf(p[2])
      BY <2>2, <2>5, <3>1 DEF Negotiated
    <3> QED BY <2>4, <3>2
  <2>6. Negotiated(proofs, c, i, new)
    BY <2>4, <2>5 DEF Negotiated
  <2>7. OpenedLast(ends, proofs, c, i, new)
    BY <2>4 DEF OpenedLast
  <2>8. Rank(old.state) < Rank(new.state)
    BY <2>2, <2>4, SMT DEF Rank
  <2>9. WellNamed(c, new)
    BY <1>1, <2>4 DEF WellNamed
  <2>10. Makes(c, i, new)
    BY <1>1, <1>4, <2>2, <2>3, <2>4, <2>6, <2>7, <2>8, <2>9 DEF Makes, GoodNow, States
  <2> QED BY <2>10
<1> QED BY <1>1, <1>3, <1>4 DEF e

LEMMA AckMakes ==
  ASSUME IInv, Negotiation, NEW c \in Chains, ConnOpenAck(c)
  PROVE  \E i, e : Makes(c, i, e)
<1>1. PICK i, proof :
        /\ i \in DOMAIN ends[c] /\ proof \in VerifyConnectionState(c, ends[c][i].client)
        /\ Len(proof[2].versions) = 1
        /\ AcceptsVersion(ends[c][i], proof[2].versions[1])
        /\ Shows(c, i, proof[2], "TRYOPEN")
        /\ VerifyClientState(c, ends[c][i].client, ends[c][i].cpClient, proof[3])
        /\ SetConnection(c, i, Opened(ends[c][i], proof[2].versions, proof[1]))
        /\ paths' = paths /\ proofs' = proofs
  BY DEF ConnOpenAck, Opened
<1> DEFINE old == ends[c][i]
           f == proof[2]
           new == Opened(old, f.versions, proof[1])
<1>2. GoodEnd(c, old)
  BY <1>1 DEF IInv, Shape
<1>3. /\ new.state = "OPEN" /\ new.client = old.client
      /\ new.versions = f.versions /\ new.cpConnection = proof[1]
  BY <1>2, OpenedFields, SMT DEF GoodEnd, Alike
<1>4. SetConnection(c, i, new)
  BY <1>1
<1> HIDE DEF new
<1>5. old.client \in ClientIds(c) /\ AreVersions(f.versions) /\ proof[1] \in Nat
  BY <1>1, <1>2, ProofKinds DEF GoodEnd
<1>6. OneGoodVersion(new)
  <2>1. f.versions = <<f.versions[1]>> /\ IsVersion(f.versions[1])
    BY <1>1, <1>5, OneVersion, SMT DEF AreVersions
  <2>2. CASE old.state = "INIT"
    <3>1. GoodVersion(f.versions[1])
      BY <1>1, <2>1, <2>2, SupportedIsGood DEF AcceptsVersion
    <3> QED BY <1>3, <2>1, <3>1 DEF OneGoodVersion
  <2>3. CASE old.state = "TRYOPEN"
    <3>1. old.versions = f.versions
      BY <1>1, <2>1, <2>3 DEF AcceptsVersion
    <3>2. OneGoodVersion(old)
      BY <1>1 DEF Negotiation, GoodNow
    <3> QED BY <1>3, <3>1, <3>2 DEF OneGoodVersion
  <2> QED BY <1>1, <2>2, <2>3 DEF AcceptsVersion
<1>7. FeaturesOf(new) = FeaturesOf(f)
  BY <1>3 DEF FeaturesOf
<1>8. f.state = "TRYOPEN" /\ f.client = old.cpClient /\ f.cpConnection = i
  BY <1>1 DEF Shows
<1>9. ASSUME Clients[c][old.client].follows = Peer(c)
      PROVE  /\ \A p \in proofs[c] : ShowsProposal(p, i) => FeaturesOf(f) \subseteq FeaturesOf(p[2])
             /\ \E p \in proofs[c] : ShowsProposal(p, i)
             /\ proof \in proofs[Peer(c)]
             /\ \A p \in proofs[Peer(c)] : ShowsProposal(p, proof[1]) =>
                  FeaturesOf(f) \subseteq FeaturesOf(p[2])
  <2>1. proof \in proofs[Peer(c)] /\ GoodThen(ends, proofs, Peer(c), proof)
    BY <1>1, <1>5, <1>9, ProofKinds, PeerFacts
  <2>2. Clients[Peer(c)][f.client].follows = c
    BY <1>1, <1>8, <1>9, PeerFacts DEF VerifyClientState, ValidateSelfClient
  <2>3. Negotiated(proofs, Peer(c), proof[1], f) /\ Peer(Peer(c)) = c
    BY <2>1, PeerFacts DEF GoodThen
  <2> QED BY <1>8, <2>1, <2>2, <2>3 DEF Negotiated, ShowsProposal
<1>10. Negotiated(proofs, c, i, new)
  BY <1>3, <1>7, <1>9 DEF Negotiated
<1>11. OpenedLast(ends, proofs, c, i, new)
  BY <1>3, <1>9 DEF OpenedLast
<1>12. Rank(old.state) < Rank(new.state)
  BY <1>1, <1>3, SMT DEF AcceptsVersion, Rank
<1>13. WellNamed(c, new)
  BY <1>3, <1>5 DEF WellNamed
<1>14. Makes(c, i, new)
  BY <1>1, <1>3, <1>4, <1>6, <1>10, <1>11, <1>12, <1>13 DEF Makes, GoodNow, States
<1> QED BY <1>14

LEMMA ConfirmMakes ==
  ASSUME IInv, Negotiation, NEW c \in Chains, ConnOpenConfirm(c)
  PROVE  \E i, e : Makes(c, i, e)
<1>1. PICK i, proof :
        /\ i \in DOMAIN ends[c] /\ proof \in VerifyConnectionState(c, ends[c][i].client)
        /\ ends[c][i].state = "TRYOPEN"
        /\ proof[1] = ends[c][i].cpConnection
        /\ Shows(c, i, proof[2], "OPEN")
        /\ proof[2].versions = ends[c][i].versions
        /\ SetConnection(c, i, [ends[c][i] EXCEPT !.state = "OPEN"])
        /\ paths' = paths /\ proofs' = proofs
  BY DEF ConnOpenConfirm
<1> DEFINE old == ends[c][i]
           f == proof[2]
           new == [old EXCEPT !.state = "OPEN"]
<1>2. GoodEnd(c, old)
  BY <1>1 DEF IInv, Shape
<1>3. /\ new.state = "OPEN" /\ new.client = old.client
      /\ new.versions = old.versions /\ new.cpConnection = old.cpConnection
  BY <1>2, ConfirmedFields DEF GoodEnd, Alike
<1>4. SetConnection(c, i, new)
  BY <1>1
<1> HIDE DEF new
<1>5. OneGoodVersion(old) /\ Negotiated(proofs, c, i, old) /\ FeaturesOf(new) = FeaturesOf(old)
  BY <1>1, <1>3 DEF Negotiation, GoodNow, FeaturesOf
<1>6. OneGoodVersion(new) /\ Negotiated(proofs, c, i, new)
  BY <1>1, <1>3, <1>5 DEF OneGoodVersion, Negotiated
<1>7. ASSUME Clients[c][old.client].follows = Peer(c)
      PROVE  ends[Peer(c)][proof[1]] = f
  <2>1. GoodThen(ends, proofs, Peer(c), proof) /\ GoodProof(ends, Peer(c), proof)
    BY <1>1, <1>2, <1>7, ProofKinds, PeerFacts DEF GoodEnd
  <2>2. ends[Peer(c)][proof[1]].state \in States
    BY <2>1, PeerFacts DEF IInv, Shape, GoodProof, GoodEnd
  <2>3. f.state = "OPEN" /\ Before(f, ends[Peer(c)][proof[1]])
    BY <1>1, <2>1 DEF Shows, GoodThen
  <2> QED BY <2>2, <2>3, SMT DEF Before, Rank, States
<1>8. OpenedLast(ends, proofs, c, i, new)
  BY <1>1, <1>3, <1>7 DEF OpenedLast, Shows
<1>9. Rank(old.state) < Rank(new.state)
  BY <1>1, <1>3, SMT DEF Rank
<1>10. WellNamed(c, new)
  <2>1. old.client \in ClientIds(c)
    BY <1>2 DEF GoodEnd
  <2>2. proof[1] \in Nat
    BY <1>1, <2>1, ProofKinds
  <2> QED BY <1>1, <1>3, <2>1, <2>2 DEF WellNamed
<1>11. Makes(c, i, new)
  BY <1>1, <1>3, <1>4, <1>6, <1>8, <1>9, <1>10 DEF Makes, GoodNow, States
<1> QED BY <1>11

\* One end changes, or is new.
LEMMA MakesFacts ==
  ASSUME IInv, NEW c \in Chains, NEW i, NEW e, Makes(c, i, e)
  PROVE  /\ ends'[Peer(c)] = ends[Peer(c)]
         /\ DOMAIN ends'[c] = DOMAIN ends[c] \union {i} /\ ends'[c][i] = e
         /\ \A k \in DOMAIN ends[c] : k # i => ends'[c][k] = ends[c][k]
         /\ i \in DOMAIN ends[c] => Rank(ends[c][i].state) < Rank(e.state)
<1>1. CASE i = Len(ends[c]) + 1 /\ CreateConnection(c, e)
  BY <1>1, CreateFacts DEF IInv
<1>2. CASE /\ i \in DOMAIN ends[c] /\ SetConnection(c, i, e)
           /\ Rank(ends[c][i].state) < Rank(e.state)
  BY <1>2, SetFacts, SMT DEF IInv
<1> QED BY <1>1, <1>2 DEF Makes

LEMMA MakesKeeps ==
  ASSUME IInv, Negotiation, NEW c \in Chains, NEW i, NEW e, Makes(c, i, e)
  PROVE  Negotiation'
<1>1. /\ ends'[Peer(c)] = ends[Peer(c)]
      /\ DOMAIN ends'[c] = DOMAIN ends[c] \union {i} /\ ends'[c][i] = e
      /\ \A k \in DOMAIN ends[c] : k # i => ends'[c][k] = ends[c][k]
      /\ i \in DOMAIN ends[c] => Rank(ends[c][i].state) < Rank(e.state)
  BY MakesFacts
<1>2. GoodNow(ends, proofs, c, i, e) /\ e.state \in States /\ proofs' = proofs
  BY DEF Makes
<1>3. ASSUME NEW d \in Chains, NEW k \in DOMAIN ends[d], k \notin DOMAIN ends'[d] \/ ends'[d][k] # ends[d][k]
      PROVE  d = c /\ k = i
  BY <1>1, <1>3, PeerFacts, SMT
<1>4. ASSUME NEW d \in Chains, NEW k, NEW x, OpenedLast(ends, proofs, d, k, x),
             MustFit(d, x) => x.cpConnection \in DOMAIN ends[Peer(d)]
      PROVE  OpenedLast(ends', proofs, d, k, x)
  <2> SUFFICES ASSUME Clients[d][x.client].follows = Peer(d), x.state = "OPEN",
                      ends[Peer(d)][x.cpConnection].state = "OPEN"
               PROVE  ends'[Peer(d)][x.cpConnection] = ends[Peer(d)][x.cpConnection]
    BY <1>4 DEF OpenedLast
  <2>1. x.cpConnection \in DOMAIN ends[Peer(d)] /\ Peer(d) \in Chains
    BY <1>4, PeerFacts DEF MustFit
  <2>2. CASE Peer(d) = c /\ x.cpConnection = i
    <3>1. Rank("OPEN") < Rank(e.state)
      BY <1>1, <2>1, <2>2
    <3> QED BY <1>2, <3>1, SMT DEF Rank, States
  <2> QED BY <1>3, <2>1, <2>2
<1>5. ASSUME NEW d \in Chains, NEW k \in DOMAIN ends'[d]
      PROVE  GoodNow(ends', proofs, d, k, ends'[d][k])
  <2>1. CASE d = c /\ k = i
    <3>1. OpenedLast(ends', proofs, c, i, e)
      BY <1>1, <1>2 DEF GoodNow, OpenedLast
    <3> QED BY <1>1, <1>2, <2>1, <3>1 DEF GoodNow
  <2>2. CASE ~ (d = c /\ k = i)
    <3>1. k \in DOMAIN ends[d] /\ ends'[d][k] = ends[d][k]
      BY <1>1, <1>5, <2>2, PeerFacts, SMT
    <3>2. GoodNow(ends, proofs, d, k, ends[d][k])
      BY <3>1 DEF Negotiation
    <3>3. MustFit(d, ends[d][k]) => ends[d][k].cpConnection \in DOMAIN ends[Peer(d)]
      BY <3>1 DEF IInv, Fitting, Fits
    <3> QED BY <1>4, <3>1, <3>2, <3>3 DEF GoodNow
  <2> QED BY <2>1, <2>2
<1>6. ASSUME NEW d \in Chains, NEW p \in proofs[d]
      PROVE  GoodThen(ends', proofs, d, p)
  <2>1. GoodThen(ends, proofs, d, p) /\ p[1] \in DOMAIN ends[d] /\ p[2].state \in States
    BY DEF Negotiation, IInv, Shown, GoodProof, GoodEnd
  <2>2. ends[d][p[1]].state \in States
    BY <2>1 DEF IInv, Shape, GoodEnd
  <2>3. CASE d = c /\ p[1] = i
    <3>1. Rank(ends[d][i].state) < Rank(e.state) /\ ends'[d][i] = e
      BY <1>1, <2>1, <2>3
    <3>2. Rank(p[2].state) < Rank(e.state)
      BY <1>2, <2>1, <2>2, <2>3, <3>1, SMT DEF GoodThen, Before, Rank, States
    <3> QED BY <2>1, <2>3, <3>1, <3>2 DEF GoodThen, Before
  <2>4. CASE ~ (d = c /\ p[1] = i)
    BY <1>3, <2>1, <2>4 DEF GoodThen
  <2> QED BY <2>3, <2>4
<1> QED BY <1>2, <1>5, <1>6 DEF Negotiation

\* An end that was so before it is as now stays negotiated when a block shows the ends.
LEMMA BlockNegotiated ==
  ASSUME IInv, Negotiation, NEW c \in Chains, NewBlock(c), NEW d \in Chains,
         NEW i \in DOMAIN ends[d], NEW e, e.state \in States, Before(e, ends[d][i]),
         Negotiated(proofs, d, i, e)
  PROVE  Negotiated(proofs', d, i, e)
<1> DEFINE committed == {<<j, ends[c][j], frozen[c]>> : j \in DOMAIN ends[c]}
<1>1. \A x \in Chains : proofs'[x] = IF x = c THEN proofs[c] \union committed ELSE proofs[x]
  BY DEF NewBlock, IInv, Shape
<1>2. \A q \in committed : q[1] \in DOMAIN ends[c] /\ q[2] = ends[c][q[1]]
  BY SMT
<1> HIDE DEF committed
<1> SUFFICES ASSUME Clients[d][e.client].follows = Peer(d)
             PROVE  /\ \A p \in proofs'[d] : ShowsProposal(p, i) =>
                         FeaturesOf(e) \subseteq FeaturesOf(p[2])
                    /\ e.state # "INIT" =>
                         /\ \A p \in proofs'[Peer(d)] : ShowsProposal(p, e.cpConnection) =>
                              FeaturesOf(e) \subseteq FeaturesOf(p[2])
                         /\ \E p \in proofs'[Peer(d)] :
                              /\ p[1] = e.cpConnection
                              /\ e.state = "TRYOPEN" => p[2].state = "INIT"
  BY DEF Negotiated
<1>3. ASSUME NEW p \in proofs'[d], ShowsProposal(p, i)
      PROVE  FeaturesOf(e) \subseteq FeaturesOf(p[2])
  <2>1. CASE p \in proofs[d]
    BY <1>3, <2>1 DEF Negotiated
  <2>2. CASE p \notin proofs[d]
    <3>1. d = c /\ p \in committed
      BY <1>1, <1>3, <2>2
    <3>2. p[2] = ends[d][i] /\ p[2].state = "INIT"
      BY <1>2, <1>3, <3>1 DEF ShowsProposal
    <3>3. e = p[2]
      BY <3>2, SMT DEF Before, Rank, States
    <3> QED BY <3>3
  <2> QED BY <2>1, <2>2
<1>4. ASSUME e.state # "INIT", NEW p \in proofs'[Peer(d)], ShowsProposal(p, e.cpConnection)
      PROVE  FeaturesOf(e) \subseteq FeaturesOf(p[2])
  <2>1. CASE p \in proofs[Peer(d)]
    BY <1>4, <2>1 DEF Negotiated
  <2>2. CASE p \notin proofs[Peer(d)]
    <3>1. Peer(d) = c /\ p \in committed
      BY <1>1, <1>4, <2>2, PeerFacts
    <3>2. p[2] = ends[c][p[1]] /\ p[2].state = "INIT" /\ p[1] = e.cpConnection
      BY <1>2, <1>4, <3>1 DEF ShowsProposal
    <3>3. PICK q \in proofs[c] : q[1] = e.cpConnection
      BY <1>4, <3>1 DEF Negotiated
    <3>4. Before(q[2], ends[c][q[1]]) /\ q[2].state \in States
      BY DEF Negotiation, GoodThen, IInv, Shown, GoodProof, GoodEnd
    <3>5. q[2] = p[2]
      BY <3>2, <3>3, <3>4, SMT DEF Before, Rank, States
    <3> QED BY <1>4, <3>1, <3>2, <3>3, <3>5 DEF Negotiated, ShowsProposal
  <2> QED BY <2>1, <2>2
<1>5. proofs[Peer(d)] \subseteq proofs'[Peer(d)]
  BY <1>1, PeerFacts
<1> QED BY <1>3, <1>4, <1>5 DEF Negotiated

LEMMA BlockKeepsNegotiation ==
  ASSUME IInv, Negotiation, NEW c \in Chains, NewBlock(c)
  PROVE  Negotiation'
<1> DEFINE committed == {<<j, ends[c][j], frozen[c]>> : j \in DOMAIN ends[c]}
<1>1. /\ \A x \in Chains : proofs'[x] = IF x = c THEN proofs[c] \union committed ELSE proofs[x]
      /\ ends' = ends
  BY DEF NewBlock, IInv, Shape
<1>2. \A q \in committed : q[1] \in DOMAIN ends[c] /\ q[2] = ends[c][q[1]]
  BY SMT
<1> HIDE DEF committed
<1>3. ASSUME NEW d \in Chains, NEW i \in DOMAIN ends[d]
      PROVE  GoodNow(ends, proofs', d, i, ends[d][i])
  <2> DEFINE e == ends[d][i]
  <2>1. GoodNow(ends, proofs, d, i, e) /\ e.state \in States /\ Before(e, ends[d][i])
    BY DEF Negotiation, IInv, Shape, GoodEnd, Before
  <2> HIDE DEF e
  <2>2. Negotiated(proofs', d, i, e)
    BY <2>1, BlockNegotiated DEF GoodNow
  <2>3. proofs[d] \subseteq proofs'[d]
    BY <1>1
  <2>4. OpenedLast(ends, proofs', d, i, e)
    BY <2>1, <2>3 DEF GoodNow, OpenedLast
  <2> QED BY <2>1, <2>2, <2>4 DEF GoodNow, e
<1>4. ASSUME NEW d \in Chains, NEW p \in proofs[d]
      PROVE  GoodThen(ends, proofs', d, p)
  <2>1. /\ GoodThen(ends, proofs, d, p) /\ p[1] \in DOMAIN ends[d]
        /\ p[2].state \in States
    BY DEF Negotiation, IInv, Shown, GoodProof, GoodEnd
  <2>2. Negotiated(proofs', d, p[1], p[2])
    BY <2>1, BlockNegotiated DEF GoodThen
  <2> QED BY <2>1, <2>2 DEF GoodThen
<1>5. ASSUME NEW p \in committed
      PROVE  GoodThen(ends, proofs', c, p)
  BY <1>2, <1>3 DEF GoodNow, GoodThen, Before
<1>6. ASSUME NEW p \in proofs[c], NEW q \in committed, p[1] = q[1], p[2].state = q[2].state
      PROVE  p[2] = q[2]
  <2>1. Before(p[2], ends[c][p[1]]) /\ p[2].state \in States
    BY DEF Negotiation, GoodThen, IInv, Shown, GoodProof, GoodEnd
  <2> QED BY <1>2, <1>6, <2>1, SMT DEF Before, Rank, States
<1>7. ASSUME NEW d \in Chains, NEW p \in proofs'[d], NEW q \in proofs'[d],
             p[1] = q[1], p[2].state = q[2].state
      PROVE  p[2] = q[2]
  <2>1. CASE p \in proofs[d] /\ q \in proofs[d]
    BY <1>7, <2>1 DEF Negotiation
  <2>2. CASE ~ (p \in proofs[d] /\ q \in proofs[d])
    BY <1>1, <1>2, <1>6, <1>7, <2>2, SMT
  <2> QED BY <2>1, <2>2
<1> QED BY <1>1, <1>3, <1>4, <1>5, <1>7 DEF Negotiation

-----------------------------------------------------------------------------
(* Types. *)

Bounded ==
  /\ \A c \in Chains : Len(ends[c]) <= MaxConnections[c]
  /\ \A c \in Chains : \A i \in DOMAIN ends[c] : WellNamed(c, ends[c][i])

\* The connections are listed under their clients.
Listed ==
  /\ DOMAIN paths = Chains
  /\ \A c \in Chains : DOMAIN paths[c] = ClientIds(c)
  /\ \A c \in Chains : \A k \in ClientIds(c) : \E T : paths[c][k] \in Seq(T)
  /\ \A c \in Chains : \A i \in DOMAIN ends[c] : Contains(paths[c][ends[c][i].client], i)

LEMMA ContainsMore ==
  ASSUME NEW s, \E T : s \in Seq(T), NEW x
  PROVE  /\ \E T : Append(s, x) \in Seq(T)
         /\ \A y : Contains(s, y) => Contains(Append(s, x), y)
         /\ Contains(Append(s, x), x)
<1>1. PICK T : s \in Seq(T)
  OBVIOUS
<1>2. s \in Seq(T \union {x}) /\ x \in T \union {x}
  BY <1>1, SMT
<1>3. Append(s, x) \in Seq(T \union {x})
  BY <1>2, SMT
<1>4. /\ Len(Append(s, x)) = Len(s) + 1 /\ Len(s) \in Nat /\ Append(s, x)[Len(s) + 1] = x
      /\ \A i \in 1 .. Len(s) : Append(s, x)[i] = s[i]
  BY <1>2, SMT
<1> QED BY <1>3, <1>4, SMT DEF Contains

LEMMA MakesListed ==
  ASSUME IInv, Bounded, Listed, NEW c \in Chains, NEW i, NEW e, Makes(c, i, e)
  PROVE  Bounded' /\ Listed'
<1>1. /\ ends'[Peer(c)] = ends[Peer(c)]
      /\ DOMAIN ends'[c] = DOMAIN ends[c] \union {i} /\ ends'[c][i] = e
      /\ \A k \in DOMAIN ends[c] : k # i => ends'[c][k] = ends[c][k]
  BY MakesFacts, SMT
<1>2. WellNamed(c, e) /\ e.client \in ClientIds(c)
  BY DEF Makes, WellNamed
<1>3. ASSUME NEW d \in Chains, NEW k \in DOMAIN ends'[d], ~ (d = c /\ k = i)
      PROVE  k \in DOMAIN ends[d] /\ ends'[d][k] = ends[d][k]
  BY <1>1, <1>3, PeerFacts, SMT
<1>4. \A d \in Chains : \A k \in DOMAIN ends'[d] : WellNamed(d, ends'[d][k])
  BY <1>1, <1>2, <1>3 DEF Bounded
<1>5. Len(ends'[c]) <= MaxConnections[c]
  <2>1. PICK T : ends[c] \in Seq(T)
    BY DEF IInv, Shape
  <2>2. CASE CreateConnection(c, e)
    <3>1. ends'[c] = Append(ends[c], e) /\ Len(ends[c]) < MaxConnections[c]
      BY <2>2 DEF CreateConnection, IInv, Shape
    <3>2. ends[c] \in Seq(T \union {e}) /\ e \in T \union {e}
      BY <2>1, SMT
    <3>3. Len(ends'[c]) = Len(ends[c]) + 1 /\ Len(ends[c]) \in Nat
      BY <3>1, <3>2, SMT
    <3> QED BY <3>1, <3>3, ConnectionAssumptions, SMT
  <2>3. CASE i \in DOMAIN ends[c] /\ SetConnection(c, i, e)
    <3>1. ends' = [ends EXCEPT ![c] = [ends[c] EXCEPT ![i] = e]]
      BY <2>3 DEF SetConnection
    <3>2. ends'[c] = [ends[c] EXCEPT ![i] = e]
      BY <3>1 DEF IInv, Shape
    <3>3. ends[c] \in Seq(T \union {e})
      BY <2>1, SMT
    <3>4. Len(ends'[c]) = Len(ends[c])
      BY <2>3, <3>2, <3>3, SMT
    <3> QED BY <3>4 DEF Bounded
  <2> QED BY <2>2, <2>3 DEF Makes
<1>6. Bounded'
  BY <1>1, <1>4, <1>5, PeerFacts DEF Bounded
<1>7. /\ DOMAIN paths' = Chains
      /\ \A d \in Chains : DOMAIN paths'[d] = ClientIds(d)
      /\ \A d \in Chains : \A k \in ClientIds(d) :
           /\ \E T : paths'[d][k] \in Seq(T)
           /\ \A j : Contains(paths[d][k], j) => Contains(paths'[d][k], j)
  <2>1. CASE paths' = paths
    BY <2>1 DEF Listed
  <2>2. CASE AddConnectionToClient(c, e.client, i)
    <3>1. /\ DOMAIN paths' = Chains
          /\ \A d \in Chains : DOMAIN paths'[d] = ClientIds(d)
          /\ \A d \in Chains : \A k \in ClientIds(d) :
               paths'[d][k] = IF d = c /\ k = e.client THEN Append(paths[d][k], i)
                                                       ELSE paths[d][k]
      BY <1>2, <2>2 DEF AddConnectionToClient, Listed
    <3>2. ASSUME NEW d \in Chains, NEW k \in ClientIds(d)
          PROVE  /\ \E T : paths'[d][k] \in Seq(T)
                 /\ \A j : Contains(paths[d][k], j) => Contains(paths'[d][k], j)
      <4> DEFINE s == paths[d][k]
      <4>1. \E T : s \in Seq(T)
        BY DEF Listed
      <4> HIDE DEF s
      <4>2. /\ \E T : Append(s, i) \in Seq(T)
            /\ \A j : Contains(s, j) => Contains(Append(s, i), j)
        BY <4>1, ContainsMore
      <4>3. paths'[d][k] = s \/ paths'[d][k] = Append(s, i)
        BY <3>1 DEF s
      <4> QED BY <4>1, <4>2, <4>3 DEF s
    <3> QED BY <3>1, <3>2
  <2> QED BY <2>1, <2>2 DEF Makes
<1>8. Contains(paths'[c][e.client], i)
  <2>1. CASE AddConnectionToClient(c, e.client, i)
    <3> DEFINE s == paths[c][e.client]
    <3>1. paths'[c][e.client] = Append(s, i) /\ \E T : s \in Seq(T)
      BY <1>2, <2>1 DEF AddConnectionToClient, Listed
    <3> HIDE DEF s
    <3> QED BY <3>1, ContainsMore
  <2>2. CASE i \in DOMAIN ends[c] /\ e.client = ends[c][i].client
    BY <1>2, <1>7, <2>2 DEF Listed
  <2> QED BY <2>1, <2>2 DEF Makes
<1>9. ASSUME NEW d \in Chains, NEW k \in DOMAIN ends'[d]
      PROVE  Contains(paths'[d][ends'[d][k].client], k)
  <2>1. CASE d = c /\ k = i
    BY <1>1, <1>8, <2>1
  <2>2. CASE ~ (d = c /\ k = i)
    <3>1. k \in DOMAIN ends[d] /\ ends'[d][k] = ends[d][k]
      BY <1>3, <1>9, <2>2
    <3>2. ends[d][k].client \in ClientIds(d)
      BY <3>1 DEF Bounded, WellNamed
    <3> QED BY <1>7, <3>1, <3>2 DEF Listed
  <2> QED BY <2>1, <2>2
<1> QED BY <1>6, <1>7, <1>9 DEF Listed

-----------------------------------------------------------------------------
(* Every step keeps what is negotiated, and the types. *)

Settlement == IInv /\ Negotiation /\ Bounded /\ Listed

LEMMA InitSettlement == Init => Settlement
<1> SUFFICES ASSUME Init PROVE Settlement
  OBVIOUS
<1>1. \A c \in Chains : /\ ends[c] = <<>> /\ proofs[c] = {} /\ DOMAIN ends[c] = {}
                        /\ Len(ends[c]) = 0
  BY SMT DEF Init
<1>2. Negotiation
  BY <1>1 DEF Negotiation
<1>3. Bounded
  BY <1>1, ConnectionAssumptions, SMT DEF Bounded
<1>4. Listed
  <2>1. <<>> \in Seq(Nat)
    BY SMT
  <2>2. \A c \in Chains : \A k \in ClientIds(c) : paths[c][k] = <<>>
    BY DEF Init
  <2> QED BY <1>1, <2>1, <2>2 DEF Init, Listed
<1> QED BY <1>2, <1>3, <1>4, InitIInv DEF Settlement

LEMMA NextSettlement == Settlement /\ [Next]_vars => Settlement'
<1> SUFFICES ASSUME Settlement, [Next]_vars PROVE Settlement'
  OBVIOUS
<1>1. IInv'
  BY NextIInv DEF Settlement
<1>2. ASSUME NEW c \in Chains, \E i, e : Makes(c, i, e)
      PROVE  Negotiation' /\ Bounded' /\ Listed'
  BY <1>2, MakesKeeps, MakesListed DEF Settlement
<1>3. ASSUME NEW c \in Chains,
             ConnOpenInit(c) \/ ConnOpenTry(c) \/ ConnOpenAck(c) \/ ConnOpenConfirm(c)
      PROVE  \E i, e : Makes(c, i, e)
  BY <1>3, InitMakes, TryMakes, AckMakes, ConfirmMakes DEF Settlement
<1>4. ASSUME ends' = ends, paths' = paths
      PROVE  Bounded' /\ Listed'
  BY <1>4 DEF Settlement, Bounded, Listed
<1>5. ASSUME ends' = ends, proofs' = proofs
      PROVE  Negotiation'
  BY <1>5 DEF Settlement, Negotiation
<1>6. ASSUME NEW c \in Chains, CheckMisbehaviour(c)
      PROVE  Negotiation' /\ Bounded' /\ Listed'
  BY <1>4, <1>5, <1>6 DEF CheckMisbehaviour
<1>7. ASSUME NEW c \in Chains, NewBlock(c)
      PROVE  Negotiation' /\ Bounded' /\ Listed'
  <2>1. ends' = ends /\ paths' = paths
    BY <1>7 DEF NewBlock
  <2> QED BY <1>4, <1>7, <2>1, BlockKeepsNegotiation DEF Settlement
<1>8. CASE Next
  BY <1>1, <1>2, <1>3, <1>6, <1>7, <1>8 DEF Next, Settlement
<1>9. CASE vars' = vars
  BY <1>1, <1>4, <1>5, <1>9 DEF vars, Settlement
<1> QED BY <1>8, <1>9

LEMMA SettlementAlways == Spec => []Settlement
BY InitSettlement, NextSettlement, PTL DEF Spec

\* What the handlers of the connection handshake store is well formed: an end has a known
\* state, its client exists, it is listed under that client (AddConnectionToClient), and
\* its versions have features this chain knows, whatever was proposed or proven; the
\* counterparty's client exists if this chain's client is not of an impostor.
THEOREM ConnectionTypes == Spec => []TypeOK
<1>1. ASSUME Settlement PROVE TypeOK
  <2> SUFFICES ASSUME NEW c \in Chains
               PROVE  /\ Len(ends[c]) <= MaxConnections[c]
                      /\ \A i \in DOMAIN ends[c] :
                           /\ ends[c][i].state \in States
                           /\ ends[c][i].client \in ClientIds(c)
                           /\ Honest(c, i) => ends[c][i].cpClient \in ClientIds(Peer(c))
                           /\ ends[c][i].cpConnection \in Nat
                           /\ \A k \in DOMAIN ends[c][i].versions :
                                FeatureSet(ends[c][i].versions[k]) \subseteq Features
                           /\ Contains(paths[c][ends[c][i].client], i)
    BY DEF TypeOK
  <2>1. ASSUME NEW i \in DOMAIN ends[c]
        PROVE  /\ ends[c][i].state \in States
               /\ ends[c][i].client \in ClientIds(c)
               /\ Honest(c, i) => ends[c][i].cpClient \in ClientIds(Peer(c))
               /\ ends[c][i].cpConnection \in Nat
               /\ \A k \in DOMAIN ends[c][i].versions :
                    FeatureSet(ends[c][i].versions[k]) \subseteq Features
               /\ Contains(paths[c][ends[c][i].client], i)
    <3> DEFINE e == ends[c][i]
    <3>1. WellNamed(c, e) /\ Contains(paths[c][e.client], i)
      BY <1>1 DEF Settlement, Bounded, Listed
    <3>2. e.state \in States
      BY <1>1 DEF Settlement, IInv, Shape, GoodEnd
    <3>3. ASSUME Honest(c, i) PROVE e.cpClient \in ClientIds(Peer(c))
      <4>1. CASE e.state = "INIT"
        BY <3>1, <4>1 DEF WellNamed
      <4>2. CASE e.state # "INIT"
        <5>1. Fits(ends, c, e)
          BY <1>1, <3>2, <3>3, <4>2 DEF Settlement, IInv, Fitting, MustFit, Honest, States
        <5>2. Peer(c) \in Chains
          BY PeerFacts
        <5> QED BY <1>1, <5>1, <5>2 DEF Fits, Settlement, IInv, Shape, GoodEnd
      <4> QED BY <4>1, <4>2
    <3>4. \A k \in DOMAIN e.versions : FeatureSet(e.versions[k]) \subseteq Features
      <4> DEFINE v == e.versions[1]
      <4>1. e.versions = <<v>> /\ FeatureSet(v) \subseteq Features
        BY <1>1 DEF Settlement, Negotiation, GoodNow, OneGoodVersion, GoodVersion
      <4> HIDE DEF v, e
      <4>2. DOMAIN <<v>> = {1} /\ <<v>>[1] = v
        BY OneInList
      <4> QED BY <4>1, <4>2
    <3> QED BY <3>1, <3>2, <3>3, <3>4 DEF WellNamed
  <2> QED BY <1>1, <2>1 DEF Settlement, Bounded
<1> QED BY <1>1, SettlementAlways, PTL

\* The contract of PickVersion over the whole handshake: an end that is OPEN, and whose
\* client follows the other chain, has one version, whose features were all in what this
\* end and its counterparty had proposed, and an end that only answered shares it with a
\* counterparty that has opened with this very end.
THEOREM VersionsAlwaysNegotiated == Spec => []VersionsNegotiated
<1>1. ASSUME Settlement PROVE VersionsNegotiated
  <2> DEFINE offered(x, j) == {FeatureSet(proof[2].versions[1]) :
                     proof \in {p \in proofs[x] : p[1] = j /\ p[2].state = "INIT"}}
  <2> SUFFICES ASSUME NEW c \in Chains, NEW i \in DOMAIN ends[c],
                      ends[c][i].state = "OPEN", Honest(c, i)
               PROVE  /\ Len(ends[c][i].versions) = 1
                      /\ FeatureSet(ends[c][i].versions[1]) # {}
                      /\ \A S \in offered(c, i) \cup offered(Peer(c), ends[c][i].cpConnection) :
                           FeatureSet(ends[c][i].versions[1]) \subseteq S
                      /\ Passive(c, i) => /\ CounterpartyOf(c, i).state = "OPEN"
                                          /\ CounterpartyOf(c, i).cpConnection = i
                                          /\ CounterpartyOf(c, i).versions = ends[c][i].versions
    BY SMT DEF VersionsNegotiated
  <2> DEFINE e == ends[c][i]
             v == e.versions[1]
  <2>1. /\ OneGoodVersion(e) /\ Negotiated(proofs, c, i, e)
        /\ OpenedLast(ends, proofs, c, i, e) /\ Clients[c][e.client].follows = Peer(c)
    BY <1>1 DEF Settlement, Negotiation, GoodNow, Honest
  <2>2. Len(e.versions) = 1 /\ FeatureSet(v) # {}
    <3>1. e.versions = <<v>> /\ FeatureSet(v) # {}
      BY <2>1 DEF OneGoodVersion, GoodVersion
    <3> HIDE DEF v, e
    <3>2. Len(<<v>>) = 1
      OBVIOUS
    <3> QED BY <3>1, <3>2
  <2>3. ASSUME NEW p \in proofs[c], p[1] = i, p[2].state = "INIT"
        PROVE  FeatureSet(v) \subseteq FeatureSet(p[2].versions[1])
    BY <2>1, <2>3 DEF Negotiated, ShowsProposal, FeaturesOf
  <2>4. ASSUME NEW p \in proofs[Peer(c)], p[1] = e.cpConnection, p[2].state = "INIT"
        PROVE  FeatureSet(v) \subseteq FeatureSet(p[2].versions[1])
    BY <2>1, <2>4 DEF Negotiated, ShowsProposal, FeaturesOf
  <2>5. \A S \in offered(c, i) \cup offered(Peer(c), e.cpConnection) : FeatureSet(v) \subseteq S
    BY <2>3, <2>4
  <2>6. ASSUME Passive(c, i)
        PROVE  /\ CounterpartyOf(c, i).state = "OPEN"
               /\ CounterpartyOf(c, i).cpConnection = i
               /\ CounterpartyOf(c, i).versions = e.versions
    BY <2>1, <2>6 DEF OpenedLast, ShowsProposal, Passive, CounterpartyOf
  <2> QED BY <2>2, <2>5, <2>6
<1> QED BY <1>1, SettlementAlways, PTL

=============================================================================
