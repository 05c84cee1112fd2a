----------------------- MODULE ChannelHandshakeSafety -----------------------
(***************************************************************************)
(* Proofs about ChannelHandshake for every set of ports, versions and      *)
(* proposals, every negotiation and any number of channels: type           *)
(* correctness, that open ends match, that an end which only answered is   *)
(* paired with its proposer, that paired ends agree on the version if the  *)
(* modules negotiate alike, and that ends only advance.                    *)
(***************************************************************************)
EXTENDS ChannelHandshake, TLAPS

\* What no step changes of an end.
Alike(e, f) == e.ordering = f.ordering /\ e.port = f.port /\ e.cpPort = f.cpPort

\* An end may become another one: nothing of an end that has been OPEN changes but its
\* state, and no end gets back to INIT.
Advances(e, f) ==
  /\ Alike(e, f)
  /\ f.state # "INIT"
  /\ e.state \in {"OPEN", "CLOSED"} => /\ f.state \in {"OPEN", "CLOSED"}
                                       /\ f.version = e.version
                                       /\ f.cpChannel = e.cpChannel

\* Whatever a block has shown an end to be, f, it is still so for the end as it is, e,
\* except for what may have advanced.
StillSo(e, f) ==
  /\ Alike(e, f)
  /\ f.state = "OPEN" => /\ e.state \in {"OPEN", "CLOSED"}
                         /\ e.version = f.version
                         /\ e.cpChannel = f.cpChannel
  /\ f.state # "INIT" => e.state # "INIT"
  /\ f.state = "INIT" /\ e.state = "INIT" => e.version = f.version
Stable ==
  \A c \in Chains : \A proof \in proofs[c] : StillSo(ends[c][proof[1]], proof[2])

\* End e of chain c fits the end it names as its counterparty.
Fits(c, e) ==
  /\ e.cpChannel \in DOMAIN ends[Peer(c)]
  /\ LET f == ends[Peer(c)][e.cpChannel]
     IN  f.ordering = e.ordering /\ f.port = e.cpPort /\ f.cpPort = e.port
Fitting ==
  \A c \in Chains : \A i \in DOMAIN ends[c] :
    ends[c][i].state \in {"TRYOPEN", "OPEN"} => Fits(c, ends[c][i])

\* A block has shown end i of chain c in INIT, with version v.
Proposed(c, i, v) ==
  \E proof \in proofs[c] :
    proof[1] = i /\ proof[2].state = "INIT" /\ proof[2].version = v

\* End e, number i of chain c, answers a proposal that was shown with a version its
\* module negotiated; if end i was a proposal itself, it proposed the same version.
Answers(c, i, e) ==
  \E v \in Versions :
    /\ Proposed(Peer(c), e.cpChannel, v)
    /\ e.version \in Negotiate[c][v]
    /\ \A w : Proposed(c, i, w) => w = v

\* An end in TRYOPEN is such an answer, and so is one in an old block.
Answering ==
  \A c \in Chains :
    /\ \A i \in DOMAIN ends[c] :
         ends[c][i].state = "TRYOPEN" => Answers(c, i, ends[c][i])
    /\ \A proof \in proofs[c] :
         proof[2].state = "TRYOPEN" => Answers(c, proof[1], proof[2])

\* Some end has opened with end e, number i of chain c, under its version.
Pairs(c, i, e) ==
  /\ e.cpChannel \in DOMAIN ends[Peer(c)]
  /\ LET f == ends[Peer(c)][e.cpChannel]
     IN  f.cpChannel = i /\ f.state \in {"OPEN", "CLOSED"} /\ f.version = e.version

\* A block has shown the answer to end i that end e, number i of chain c, opened with.
Acked(c, i, e) ==
  \E proof \in proofs[Peer(c)] :
    /\ proof[1] = e.cpChannel
    /\ proof[2].state = "TRYOPEN"
    /\ proof[2].cpChannel = i
    /\ proof[2].version = e.version

\* An end that is OPEN has got there by ChanOpenAck or by ChanOpenConfirm.
Paired ==
  \A c \in Chains : \A i \in DOMAIN ends[c] :
    ends[c][i].state = "OPEN" => Acked(c, i, ends[c][i]) \/ Pairs(c, i, ends[c][i])

\* The inductive invariant.
IInv == TypeOK /\ Stable /\ Fitting /\ Answering /\ Paired

-----------------------------------------------------------------------------
LEMMA PeerFacts ==
  \A c \in Chains : /\ Peer(c) \in Chains
                    /\ Peer(c) # c
                    /\ Peer(Peer(c)) = c
                    /\ \A d \in Chains : d # c => d = Peer(c)
BY DEF Chains, Peer

LEMMA TypeFacts ==
  ASSUME TypeOK, NEW c \in Chains
  PROVE  /\ ends[c] \in Seq(End)
         /\ Len(ends[c]) \in Nat
         /\ DOMAIN ends[c] = 1 .. Len(ends[c])
         /\ \A i \in DOMAIN ends[c] : ends[c][i] \in End
         /\ \A proof \in proofs[c] : proof[1] \in DOMAIN ends[c] /\ proof[2] \in End
BY DEF TypeOK

\* One end changes.
LEMMA SetEndFacts ==
  ASSUME TypeOK, NEW c \in Chains, NEW i \in DOMAIN ends[c], NEW e \in End, SetEnd(c, i, e)
  PROVE  /\ TypeOK'
         /\ proofs' = proofs
         /\ ends'[Peer(c)] = ends[Peer(c)]
         /\ DOMAIN ends'[c] = DOMAIN ends[c]
         /\ ends'[c][i] = e
         /\ \A k \in DOMAIN ends[c] : k # i => ends'[c][k] = ends[c][k]
<1>1. /\ ends' = [ends EXCEPT ![c] = [ends[c] EXCEPT ![i] = e]]
      /\ proofs' = proofs
  BY DEF SetEnd
<1>2. ends'[c] = [ends[c] EXCEPT ![i] = e] /\ \A d \in Chains : d # c => ends'[d] = ends[d]
  BY <1>1 DEF TypeOK
<1>3. /\ ends'[c] \in Seq(End)
      /\ Len(ends'[c]) = Len(ends[c])
      /\ DOMAIN ends'[c] = DOMAIN ends[c]
      /\ ends'[c][i] = e
      /\ \A k \in DOMAIN ends[c] : k # i => ends'[c][k] = ends[c][k]
  BY <1>2, TypeFacts
<1>4. TypeOK'
  BY <1>1, <1>2, <1>3 DEF TypeOK
<1> QED BY <1>1, <1>2, <1>3, <1>4, PeerFacts

\* One end is added.
LEMMA CreateEndFacts ==
  ASSUME TypeOK, NEW c \in Chains, NEW e \in End, CreateEnd(c, e)
  PROVE  /\ TypeOK'
         /\ proofs' = proofs
         /\ ends'[Peer(c)] = ends[Peer(c)]
         /\ DOMAIN ends'[c] = DOMAIN ends[c] \union {Len(ends[c]) + 1}
         /\ Len(ends[c]) + 1 \notin DOMAIN ends[c]
         /\ ends'[c][Len(ends[c]) + 1] = e
         /\ \A k \in DOMAIN ends[c] : ends'[c][k] = ends[c][k]
<1>1. /\ ends' = [ends EXCEPT ![c] = Append(ends[c], e)]
      /\ proofs' = proofs
      /\ Len(ends[c]) < MaxChannels[c]
  BY DEF CreateEnd
<1>2. ends'[c] = Append(ends[c], e) /\ \A d \in Chains : d # c => ends'[d] = ends[d]
  BY <1>1 DEF TypeOK
<1>3. /\ ends'[c] \in Seq(End)
      /\ Len(ends'[c]) = Len(ends[c]) + 1
      /\ DOMAIN ends'[c] = DOMAIN ends[c] \union {Len(ends[c]) + 1}
      /\ Len(ends[c]) + 1 \notin DOMAIN ends[c]
      /\ ends'[c][Len(ends[c]) + 1] = e
      /\ \A k \in DOMAIN ends[c] : ends'[c][k] = ends[c][k]
  BY <1>2, TypeFacts
<1>4. TypeOK'
  <2>1. MaxChannels[c] \in Nat /\ Len(ends[c]) \in Nat
    BY TypeFacts, HandshakeAssumptions
  <2>2. Len(ends'[c]) <= MaxChannels[c]
    BY <1>1, <1>3, <2>1
  <2>3. proofs[c] \subseteq (DOMAIN ends'[c]) \X End
    BY <1>3 DEF TypeOK
  <2> QED BY <1>1, <1>2, <1>3, <2>2, <2>3 DEF TypeOK
<1> QED BY <1>1, <1>2, <1>3, <1>4, PeerFacts
-----------------------------------------------------------------------------
\* An end that advances keeps the invariant if what it has become fits, answers and is
\* paired.
LEMMA SetEndPreserves ==
  ASSUME IInv, NEW c \in Chains, NEW i \in DOMAIN ends[c], NEW e \in End, SetEnd(c, i, e),
         Advances(ends[c][i], e),
         e.state \in {"TRYOPEN", "OPEN"} => Fits(c, e),
         e.state = "TRYOPEN" => Answers(c, i, e),
         e.state = "OPEN" => Acked(c, i, e) \/ Pairs(c, i, e)
  PROVE  IInv'
<1>1. /\ TypeOK'
      /\ proofs' = proofs
      /\ ends'[Peer(c)] = ends[Peer(c)]
      /\ DOMAIN ends'[c] = DOMAIN ends[c]
      /\ ends'[c][i] = e
      /\ \A k \in DOMAIN ends[c] : k # i => ends'[c][k] = ends[c][k]
  BY SetEndFacts DEF IInv
<1>2. \A d, k, g : /\ Answers(d, k, g)' <=> Answers(d, k, g)
                   /\ Acked(d, k, g)' <=> Acked(d, k, g)
  BY <1>1 DEF Answers, Proposed, Acked
<1>3. Stable'
  <2> SUFFICES ASSUME NEW d \in Chains, NEW proof \in proofs[d]
               PROVE  StillSo(ends'[d][proof[1]], proof[2])
    BY <1>1 DEF Stable, StillSo, Alike
  <2>1. StillSo(ends[d][proof[1]], proof[2])
    BY DEF IInv, Stable
  <2>2. CASE d = c /\ proof[1] = i
    BY <1>1, <2>1, <2>2 DEF Advances, Alike, StillSo
  <2>3. CASE ~ (d = c /\ proof[1] = i)
    <3>1. ends'[d][proof[1]] = ends[d][proof[1]]
      BY <1>1, <2>3, PeerFacts, TypeFacts DEF IInv
    <3> QED BY <2>1, <3>1
  <2> QED BY <2>2, <2>3
<1>4. Fitting'
  <2> SUFFICES ASSUME NEW d \in Chains, NEW k \in DOMAIN ends'[d],
                      ends'[d][k].state \in {"TRYOPEN", "OPEN"}
               PROVE  Fits(d, ends[d][k])'
    BY DEF Fitting
  <2>1. CASE d = c /\ k = i
    BY <1>1, <2>1 DEF Fits
  <2>2. CASE d = c /\ k # i
    <3>1. Fits(d, ends[d][k])
      BY <1>1, <2>2 DEF IInv, Fitting
    <3> QED BY <1>1, <2>2, <3>1 DEF Fits
  <2>3. CASE d = Peer(c)
    <3>1. Fits(d, ends[d][k]) /\ Peer(d) = c
      BY <1>1, <2>3, PeerFacts DEF IInv, Fitting
    <3>2. CASE ends[d][k].cpChannel = i
      BY <1>1, <2>3, <3>1, <3>2 DEF Fits, Advances, Alike
    <3>3. CASE ends[d][k].cpChannel # i
      BY <1>1, <2>3, <3>1, <3>3 DEF Fits
    <3> QED BY <3>2, <3>3
  <2> QED BY <2>1, <2>2, <2>3, PeerFacts
<1>5. Answering'
  <2> SUFFICES ASSUME NEW d \in Chains
               PROVE  /\ \A k \in DOMAIN ends'[d] :
                           ends'[d][k].state = "TRYOPEN" => Answers(d, k, ends'[d][k])
                      /\ \A proof \in proofs[d] :
                           proof[2].state = "TRYOPEN" => Answers(d, proof[1], proof[2])
    BY <1>1, <1>2 DEF Answering
  <2>1. CASE d = c
    BY <1>1, <2>1 DEF IInv, Answering
  <2>2. CASE d = Peer(c)
    BY <1>1, <2>2 DEF IInv, Answering
  <2> QED BY <2>1, <2>2, PeerFacts
<1>6. Paired'
  <2> SUFFICES ASSUME NEW d \in Chains, NEW k \in DOMAIN ends'[d],
                      ends'[d][k].state = "OPEN", ~ Acked(d, k, ends'[d][k])
               PROVE  Pairs(d, k, ends[d][k])'
    BY <1>2 DEF Paired
  <2>1. CASE d = c /\ k = i
    BY <1>1, <2>1 DEF Pairs
  <2>2. CASE d = c /\ k # i
    <3>1. Pairs(d, k, ends[d][k])
      BY <1>1, <2>2 DEF IInv, Paired
    <3> QED BY <1>1, <2>2, <3>1 DEF Pairs
  <2>3. CASE d = Peer(c)
    <3>1. Pairs(d, k, ends[d][k]) /\ Peer(d) = c
      BY <1>1, <2>3, PeerFacts DEF IInv, Paired
    <3>2. CASE ends[d][k].cpChannel = i
      BY <1>1, <2>3, <3>1, <3>2 DEF Pairs, Advances
    <3>3. CASE ends[d][k].cpChannel # i
      BY <1>1, <2>3, <3>1, <3>3 DEF Pairs
    <3> QED BY <3>2, <3>3
  <2> QED BY <2>1, <2>2, <2>3, PeerFacts
<1> QED BY <1>1, <1>3, <1>4, <1>5, <1>6 DEF IInv
\* A new end keeps the invariant if it is in INIT, or fits and answers.
LEMMA CreateEndPreserves ==
  ASSUME IInv, NEW c \in Chains, NEW e \in End, CreateEnd(c, e),
         e.state \in {"INIT", "TRYOPEN"},
         e.state = "TRYOPEN" => Fits(c, e) /\ Answers(c, Len(ends[c]) + 1, e)
  PROVE  IInv'
<1> DEFINE n == Len(ends[c]) + 1
<1>0. e.state = "TRYOPEN" => Fits(c, e) /\ Answers(c, n, e)
  OBVIOUS
<1>1. /\ TypeOK'
      /\ proofs' = proofs
      /\ ends'[Peer(c)] = ends[Peer(c)]
      /\ DOMAIN ends'[c] = DOMAIN ends[c] \union {n}
      /\ n \notin DOMAIN ends[c]
      /\ ends'[c][n] = e
      /\ \A k \in DOMAIN ends[c] : ends'[c][k] = ends[c][k]
  BY CreateEndFacts DEF IInv
<1> HIDE DEF n
<1>2. \A d, k, g : /\ Answers(d, k, g)' <=> Answers(d, k, g)
                   /\ Acked(d, k, g)' <=> Acked(d, k, g)
  BY <1>1 DEF Answers, Proposed, Acked
<1>3. \A d \in Chains : \A k \in DOMAIN ends[d] :
        k \in DOMAIN ends'[d] /\ ends'[d][k] = ends[d][k]
  BY <1>1, PeerFacts
<1>4. Stable'
  <2> SUFFICES ASSUME NEW d \in Chains, NEW proof \in proofs[d]
               PROVE  StillSo(ends'[d][proof[1]], proof[2])
    BY <1>1 DEF Stable, StillSo, Alike
  <2>1. ends'[d][proof[1]] = ends[d][proof[1]]
    BY <1>3, TypeFacts DEF IInv
  <2> QED BY <2>1 DEF IInv, Stable
<1>5. \A d \in Chains : \A k \in DOMAIN ends'[d] :
        \/ k \in DOMAIN ends[d] /\ ends'[d][k] = ends[d][k]
        \/ d = c /\ k = n /\ ends'[d][k] = e
  BY <1>1, PeerFacts
<1>6. Fitting'
  <2> SUFFICES ASSUME NEW d \in Chains, NEW k \in DOMAIN ends'[d],
                      ends'[d][k].state \in {"TRYOPEN", "OPEN"}
               PROVE  Fits(d, ends[d][k])'
    BY DEF Fitting
  <2>1. Fits(d, ends'[d][k])
    BY <1>5 DEF IInv, Fitting
  <2> QED BY <1>3, <2>1, PeerFacts DEF Fits
<1>7. Answering'
  <2> SUFFICES ASSUME NEW d \in Chains
               PROVE  /\ \A k \in DOMAIN ends'[d] :
                           ends'[d][k].state = "TRYOPEN" => Answers(d, k, ends'[d][k])
                      /\ \A proof \in proofs[d] :
                           proof[2].state = "TRYOPEN" => Answers(d, proof[1], proof[2])
    BY <1>1, <1>2 DEF Answering
  <2> QED BY <1>0, <1>5 DEF IInv, Answering
<1>8. Paired'
  <2> SUFFICES ASSUME NEW d \in Chains, NEW k \in DOMAIN ends'[d],
                      ends'[d][k].state = "OPEN", ~ Acked(d, k, ends'[d][k])
               PROVE  Pairs(d, k, ends[d][k])'
    BY <1>2 DEF Paired
  <2>1. Pairs(d, k, ends'[d][k])
    BY <1>5 DEF IInv, Paired
  <2> QED BY <1>3, <2>1, PeerFacts DEF Pairs
<1> QED BY <1>1, <1>4, <1>6, <1>7, <1>8 DEF IInv

\* A block adds the ends as they are to what can be proven.
LEMMA NewBlockPreserves ==
  ASSUME IInv, NEW c \in Chains, NewBlock(c)
  PROVE  IInv'
<1>1. ends' = ends /\ DOMAIN proofs' = Chains
  BY DEF NewBlock, IInv, TypeOK
<1>2. \A d \in Chains : \A proof \in proofs'[d] :
        \/ proof \in proofs[d]
        \/ proof[1] \in DOMAIN ends[d] /\ proof = <<proof[1], ends[d][proof[1]]>>
  BY DEF NewBlock, IInv, TypeOK
<1>3. \A d \in Chains : proofs[d] \subseteq proofs'[d]
  BY DEF NewBlock, IInv, TypeOK
<1>4. \A d \in Chains : \A k, v :
        /\ Proposed(d, k, v) => Proposed(d, k, v)'
        /\ Proposed(d, k, v)' =>
             \/ Proposed(d, k, v)
             \/ k \in DOMAIN ends[d] /\ ends[d][k].state = "INIT"
  <2> SUFFICES ASSUME NEW d \in Chains, NEW k, NEW v
               PROVE  /\ Proposed(d, k, v) => Proposed(d, k, v)'
                      /\ Proposed(d, k, v)' =>
                           \/ Proposed(d, k, v)
                           \/ k \in DOMAIN ends[d] /\ ends[d][k].state = "INIT"
    OBVIOUS
  <2>1. Proposed(d, k, v) => Proposed(d, k, v)'
    BY <1>3 DEF Proposed
  <2>2. ASSUME NEW proof \in proofs'[d], proof[1] = k, proof[2].state = "INIT",
               proof[2].version = v
        PROVE  Proposed(d, k, v) \/ (k \in DOMAIN ends[d] /\ ends[d][k].state = "INIT")
    <3>1. CASE proof \in proofs[d]
      BY <2>2, <3>1 DEF Proposed
    <3>2. CASE /\ proof[1] \in DOMAIN ends[d]
               /\ proof = <<proof[1], ends[d][proof[1]]>>
      <4>1. proof[2] = ends[d][proof[1]]
        BY <3>2
      <4> QED BY <2>2, <3>2, <4>1
    <3> QED BY <1>2, <3>1, <3>2
  <2> QED BY <2>1, <2>2 DEF Proposed
<1>10. ASSUME NEW d \in Chains, NEW k \in DOMAIN ends[d], NEW e,
              Answers(d, k, e), ends[d][k].state # "INIT"
       PROVE  Answers(d, k, e)'
  <2>1. PICK v \in Versions : /\ Proposed(Peer(d), e.cpChannel, v)
                              /\ e.version \in Negotiate[d][v]
                              /\ \A w : Proposed(d, k, w) => w = v
    BY <1>10 DEF Answers
  <2>2. Proposed(Peer(d), e.cpChannel, v)'
    BY <1>4, <2>1, PeerFacts
  <2>3. \A w : Proposed(d, k, w)' => w = v
    BY <1>4, <1>10, <2>1
  <2> QED BY <2>1, <2>2, <2>3 DEF Answers
<1>5. TypeOK'
  <2>1. \A d \in Chains : \A k \in DOMAIN ends[d] : ends[d][k] \in End
    BY TypeFacts DEF IInv
  <2>2. \A d \in Chains : proofs'[d] \subseteq (DOMAIN ends[d]) \X End
    <3> SUFFICES ASSUME NEW d \in Chains, NEW proof \in proofs'[d]
                 PROVE  proof \in (DOMAIN ends[d]) \X End
      OBVIOUS
    <3>1. CASE proof \in proofs[d]
      BY <3>1 DEF IInv, TypeOK
    <3>2. CASE /\ proof[1] \in DOMAIN ends[d]
               /\ proof = <<proof[1], ends[d][proof[1]]>>
      BY <2>1, <3>2
    <3> QED BY <1>2, <3>1, <3>2
  <2> QED BY <1>1, <2>2 DEF IInv, TypeOK
<1>6. Stable'
  <2> SUFFICES ASSUME NEW d \in Chains, NEW proof \in proofs'[d]
               PROVE  StillSo(ends[d][proof[1]], proof[2])
    BY <1>1 DEF Stable, StillSo, Alike
  <2>1. CASE proof \in proofs[d]
    BY <2>1 DEF IInv, Stable
  <2>2. CASE proof = <<proof[1], ends[d][proof[1]]>>
    <3>1. proof[2] = ends[d][proof[1]]
      BY <2>2
    <3> QED BY <3>1 DEF StillSo, Alike
  <2> QED BY <1>2, <2>1, <2>2
<1>7. Fitting'
  BY <1>1 DEF IInv, Fitting, Fits
<1>8. Answering'
  <2> SUFFICES ASSUME NEW d \in Chains
               PROVE  /\ \A k \in DOMAIN ends[d] :
                           ends[d][k].state = "TRYOPEN" => Answers(d, k, ends[d][k])'
                      /\ \A proof \in proofs'[d] :
                           proof[2].state = "TRYOPEN" => Answers(d, proof[1], proof[2])'
    BY <1>1 DEF Answering
  <2>1. ASSUME NEW k \in DOMAIN ends[d], ends[d][k].state = "TRYOPEN"
        PROVE  Answers(d, k, ends[d][k])'
    <3>1. Answers(d, k, ends[d][k])
      BY <2>1 DEF IInv, Answering
    <3> QED BY <1>1, <1>10, <2>1, <3>1
  <2>2. ASSUME NEW proof \in proofs'[d], proof[2].state = "TRYOPEN"
        PROVE  Answers(d, proof[1], proof[2])'
    <3>1. CASE proof \in proofs[d]
      <4>1. Answers(d, proof[1], proof[2])
        BY <2>2, <3>1 DEF IInv, Answering
      <4>2. proof[1] \in DOMAIN ends[d] /\ ends[d][proof[1]].state # "INIT"
        BY <2>2, <3>1, TypeFacts DEF IInv, Stable, StillSo
      <4> QED BY <1>10, <4>1, <4>2
    <3>2. CASE /\ proof[1] \in DOMAIN ends[d]
               /\ proof = <<proof[1], ends[d][proof[1]]>>
      <4>1. proof[2] = ends[d][proof[1]]
        BY <3>2
      <4> QED BY <1>1, <2>1, <2>2, <3>2, <4>1
    <3> QED BY <1>2, <3>1, <3>2
  <2> QED BY <2>1, <2>2
<1>9. Paired'
  <2>1. \A d \in Chains : \A k, e : Acked(d, k, e) => Acked(d, k, e)'
    BY <1>3, PeerFacts DEF Acked
  <2> SUFFICES ASSUME NEW d \in Chains, NEW k \in DOMAIN ends[d], ends[d][k].state = "OPEN"
               PROVE  Acked(d, k, ends[d][k])' \/ Pairs(d, k, ends[d][k])'
    BY <1>1 DEF Paired
  <2>2. CASE Acked(d, k, ends[d][k])
    BY <1>1, <2>1, <2>2
  <2>3. CASE Pairs(d, k, ends[d][k])
    BY <1>1, <2>3 DEF Pairs
  <2> QED BY <2>2, <2>3 DEF IInv, Paired
<1> QED BY <1>5, <1>6, <1>7, <1>8, <1>9 DEF IInv
-----------------------------------------------------------------------------
\* What a handler makes of end i of chain c, and what it creates.
GoodEnd(c, i, e) ==
  /\ e \in End
  /\ Advances(ends[c][i], e)
  /\ Rank(ends[c][i].state) < Rank(e.state)
  /\ e.state \in {"TRYOPEN", "OPEN"} => Fits(c, e)
  /\ e.state = "TRYOPEN" => Answers(c, i, e)
  /\ e.state = "OPEN" => Acked(c, i, e) \/ Pairs(c, i, e)
GoodNewEnd(c, e) ==
  /\ e \in End
  /\ e.state \in {"INIT", "TRYOPEN"}
  /\ e.state = "TRYOPEN" => Fits(c, e) /\ Answers(c, Len(ends[c]) + 1, e)

LEMMA RankFacts ==
  /\ Rank("INIT") = 1 /\ Rank("TRYOPEN") = 2 /\ Rank("OPEN") = 3 /\ Rank("CLOSED") = 4
  /\ \A state \in States : Rank(state) \in 1 .. 4
BY DEF Rank, States

\* What a proof shows of an end of the peer.
LEMMA ProofFacts ==
  ASSUME IInv, NEW c \in Chains, NEW proof \in proofs[Peer(c)]
  PROVE  /\ proof[1] \in DOMAIN ends[Peer(c)]
         /\ proof[1] \in Nat
         /\ proof[2] \in End
         /\ Alike(ends[Peer(c)][proof[1]], proof[2])
         /\ proof[2].state = "OPEN" =>
              /\ ends[Peer(c)][proof[1]].state \in {"OPEN", "CLOSED"}
              /\ ends[Peer(c)][proof[1]].version = proof[2].version
              /\ ends[Peer(c)][proof[1]].cpChannel = proof[2].cpChannel
<1>1. Peer(c) \in Chains /\ Peer(Peer(c)) = c
  BY PeerFacts
<1>2. proof[1] \in DOMAIN ends[Peer(c)] /\ proof[1] \in Nat /\ proof[2] \in End
  BY <1>1, TypeFacts DEF IInv
<1> QED BY <1>1, <1>2 DEF IInv, Stable, StillSo

LEMMA InitCreates ==
  ASSUME NEW c \in Chains, ChanOpenInit(c)
  PROVE  \E e : CreateEnd(c, e) /\ GoodNewEnd(c, e)
<1>1. PICK e \in Proposals : CreateEnd(c, e)
  BY DEF ChanOpenInit
<1>2. e \in End /\ e.state = "INIT"
  BY HandshakeAssumptions DEF End, States, None
<1> QED BY <1>1, <1>2 DEF GoodNewEnd

LEMMA TryAnswers ==
  ASSUME IInv, NEW c \in Chains, ChanOpenTry(c)
  PROVE  \/ \E e : CreateEnd(c, e) /\ GoodNewEnd(c, e)
         \/ \E i \in DOMAIN ends[c] : \E e : SetEnd(c, i, e) /\ GoodEnd(c, i, e)
<1>1. PICK proof \in proofs[Peer(c)] :
        /\ proof[2].state = "INIT"
        /\ \E version \in Negotiate[c][proof[2].version] :
             \/ CreateEnd(c, Answer(proof[2], proof[1], version))
             \/ \E i \in DOMAIN ends[c] :
                  /\ SameProposal(c, i, proof[2])
                  /\ SetEnd(c, i, Answer(proof[2], proof[1], version))
  BY DEF ChanOpenTry
<1>2. PICK version \in Negotiate[c][proof[2].version] :
        \/ CreateEnd(c, Answer(proof[2], proof[1], version))
        \/ \E i \in DOMAIN ends[c] :
             /\ SameProposal(c, i, proof[2])
             /\ SetEnd(c, i, Answer(proof[2], proof[1], version))
  BY <1>1
<1> DEFINE e == Answer(proof[2], proof[1], version)
<1>3. /\ proof[1] \in DOMAIN ends[Peer(c)]
      /\ proof[1] \in Nat
      /\ proof[2] \in End
      /\ Alike(ends[Peer(c)][proof[1]], proof[2])
  BY ProofFacts
<1>4. version \in Versions
  BY <1>3, HandshakeAssumptions DEF End
<1>5. /\ e.state = "TRYOPEN"
      /\ e.ordering = proof[2].ordering
      /\ e.port = proof[2].cpPort
      /\ e.cpPort = proof[2].port
      /\ e.cpChannel = proof[1]
      /\ e.version \in Negotiate[c][proof[2].version]
  BY <1>2 DEF Answer
<1>6. e \in End
  BY <1>3, <1>4 DEF Answer, End, States
<1> HIDE DEF e
<1>7. Fits(c, e)
  BY <1>3, <1>5 DEF Fits, Alike
<1>8. ASSUME NEW k, \A w : Proposed(c, k, w) => w = proof[2].version
      PROVE  Answers(c, k, e)
  <2>1. proof[2].version \in Versions
    BY <1>3 DEF End
  <2>2. Proposed(Peer(c), e.cpChannel, proof[2].version)
    BY <1>1, <1>5 DEF Proposed
  <2> QED BY <1>5, <1>8, <2>1, <2>2 DEF Answers
<1>9. CASE CreateEnd(c, e)
  <2>1. Len(ends[c]) + 1 \notin DOMAIN ends[c]
    BY TypeFacts DEF IInv
  <2>2. \A w : ~ Proposed(c, Len(ends[c]) + 1, w)
    BY <2>1, TypeFacts DEF IInv, Proposed
  <2>3. Answers(c, Len(ends[c]) + 1, e)
    BY <1>8, <2>2
  <2> QED BY <1>5, <1>6, <1>7, <1>9, <2>3 DEF GoodNewEnd
<1>10. CASE \E i \in DOMAIN ends[c] : SameProposal(c, i, proof[2]) /\ SetEnd(c, i, e)
  <2>1. PICK i \in DOMAIN ends[c] : SameProposal(c, i, proof[2]) /\ SetEnd(c, i, e)
    BY <1>10
  <2>2. Advances(ends[c][i], e) /\ ends[c][i].state = "INIT"
    BY <1>5, <2>1 DEF SameProposal, Advances, Alike
  <2>3. \A w : Proposed(c, i, w) => w = proof[2].version
    BY <2>1, <2>2 DEF IInv, Stable, StillSo, Proposed, SameProposal
  <2>4. Answers(c, i, e)
    BY <1>8, <2>3
  <2>5. GoodEnd(c, i, e)
    BY <1>5, <1>6, <1>7, <2>2, <2>4, RankFacts DEF GoodEnd
  <2> QED BY <2>1, <2>5
<1> QED BY <1>2, <1>9, <1>10 DEF e

LEMMA AckOpens ==
  ASSUME IInv, NEW c \in Chains, ChanOpenAck(c)
  PROVE  \E i \in DOMAIN ends[c] : \E e : SetEnd(c, i, e) /\ GoodEnd(c, i, e)
<1>1. PICK i \in DOMAIN ends[c], proof \in proofs[Peer(c)] :
        /\ ends[c][i].state \in AckStates
        /\ Shows(c, i, proof[2], "TRYOPEN")
        /\ SetEnd(c, i, [ends[c][i] EXCEPT !.state = "OPEN",
                                           !.version = proof[2].version,
                                           !.cpChannel = proof[1]])
  BY DEF ChanOpenAck
<1> DEFINE e == [ends[c][i] EXCEPT !.state = "OPEN",
                                   !.version = proof[2].version,
                                   !.cpChannel = proof[1]]
<1>2. /\ proof[1] \in DOMAIN ends[Peer(c)]
      /\ proof[1] \in Nat
      /\ proof[2] \in End
      /\ Alike(ends[Peer(c)][proof[1]], proof[2])
  BY ProofFacts
<1>3. ends[c][i] \in End
  BY TypeFacts DEF IInv
<1>4. /\ e \in End
      /\ Alike(ends[c][i], e)
      /\ e.state = "OPEN"
      /\ e.cpChannel = proof[1]
      /\ e.version = proof[2].version
  BY <1>2, <1>3 DEF End, States, Alike
<1> HIDE DEF e
<1>5. Fits(c, e) /\ Acked(c, i, e)
  BY <1>1, <1>2, <1>4 DEF Fits, Alike, Shows, Acked
<1>6. Advances(ends[c][i], e) /\ Rank(ends[c][i].state) < Rank(e.state)
  BY <1>1, <1>4, RankFacts DEF Advances, AckStates
<1>7. GoodEnd(c, i, e)
  BY <1>4, <1>5, <1>6 DEF GoodEnd
<1> QED BY <1>1, <1>7 DEF e

LEMMA ConfirmOpens ==
  ASSUME IInv, NEW c \in Chains, ChanOpenConfirm(c)
  PROVE  \E i \in DOMAIN ends[c] : \E e : SetEnd(c, i, e) /\ GoodEnd(c, i, e)
<1>1. PICK i \in DOMAIN ends[c], proof \in proofs[Peer(c)] :
        /\ ends[c][i].state = "TRYOPEN"
        /\ ShowsCounterparty(c, i, proof, "OPEN")
        /\ SetEnd(c, i, [ends[c][i] EXCEPT !.state = "OPEN"])
  BY DEF ChanOpenConfirm
<1> DEFINE e == [ends[c][i] EXCEPT !.state = "OPEN"]
<1>2. /\ proof[1] \in DOMAIN ends[Peer(c)]
      /\ proof[2].state = "OPEN" =>
           /\ ends[Peer(c)][proof[1]].state \in {"OPEN", "CLOSED"}
           /\ ends[Peer(c)][proof[1]].version = proof[2].version
           /\ ends[Peer(c)][proof[1]].cpChannel = proof[2].cpChannel
  BY ProofFacts
<1>3. ends[c][i] \in End
  BY TypeFacts DEF IInv
<1>4. /\ e \in End
      /\ Alike(ends[c][i], e)
      /\ e.state = "OPEN"
      /\ e.cpChannel = ends[c][i].cpChannel
      /\ e.version = ends[c][i].version
  BY <1>3 DEF End, States, Alike
<1> HIDE DEF e
<1>5. Fits(c, e)
  <2>1. Fits(c, ends[c][i])
    BY <1>1 DEF IInv, Fitting
  <2> QED BY <1>4, <2>1 DEF Fits, Alike
<1>6. Pairs(c, i, e)
  BY <1>1, <1>2, <1>4 DEF Pairs, ShowsCounterparty, Shows
<1>7. Advances(ends[c][i], e) /\ Rank(ends[c][i].state) < Rank(e.state)
  BY <1>1, <1>4, RankFacts DEF Advances
<1>8. GoodEnd(c, i, e)
  BY <1>4, <1>5, <1>6, <1>7 DEF GoodEnd
<1> QED BY <1>1, <1>8 DEF e

LEMMA CloseCloses ==
  ASSUME IInv, NEW c \in Chains, ChanCloseInit(c) \/ ChanCloseConfirm(c)
  PROVE  \E i \in DOMAIN ends[c] : \E e : SetEnd(c, i, e) /\ GoodEnd(c, i, e)
<1>1. PICK i \in DOMAIN ends[c] :
        /\ ends[c][i].state # "CLOSED"
        /\ SetEnd(c, i, [ends[c][i] EXCEPT !.state = "CLOSED"])
  BY DEF ChanCloseInit, ChanCloseConfirm
<1> DEFINE e == [ends[c][i] EXCEPT !.state = "CLOSED"]
<1>2. ends[c][i] \in End
  BY TypeFacts DEF IInv
<1>3. /\ e \in End
      /\ Alike(ends[c][i], e)
      /\ e.state = "CLOSED"
      /\ e.cpChannel = ends[c][i].cpChannel
      /\ e.version = ends[c][i].version
  BY <1>2 DEF End, States, Alike
<1> HIDE DEF e
<1>4. ends[c][i].state \in {"INIT", "TRYOPEN", "OPEN"}
  BY <1>1, <1>2 DEF End, States
<1>5. Advances(ends[c][i], e) /\ Rank(ends[c][i].state) < Rank(e.state)
  BY <1>3, <1>4, RankFacts DEF Advances
<1>6. GoodEnd(c, i, e)
  BY <1>3, <1>5 DEF GoodEnd
<1> QED BY <1>1, <1>6 DEF e

\* Every step changes one end, creates one end or ends a block.
LEMMA StepShapes ==
  ASSUME IInv, Next
  PROVE  \E c \in Chains :
           \/ \E i \in DOMAIN ends[c] : \E e : SetEnd(c, i, e) /\ GoodEnd(c, i, e)
           \/ \E e : CreateEnd(c, e) /\ GoodNewEnd(c, e)
           \/ NewBlock(c)
BY InitCreates, TryAnswers, AckOpens, ConfirmOpens, CloseCloses DEF Next

LEMMA InitInvariant ==
  ASSUME Init
  PROVE  IInv
<1>1. \A c \in Chains : ends[c] = <<>> /\ proofs[c] = {}
  BY DEF Init
<1>2. \A c \in Chains : DOMAIN ends[c] = {} /\ Len(ends[c]) = 0
  BY <1>1
<1>3. TypeOK
  BY <1>1, <1>2, HandshakeAssumptions DEF Init, TypeOK
<1> QED BY <1>1, <1>2, <1>3 DEF IInv, Stable, Fitting, Answering, Paired

LEMMA StepInvariant ==
  ASSUME IInv, [Next]_vars
  PROVE  IInv'
<1>1. CASE UNCHANGED vars
  <2>1. ends' = ends /\ proofs' = proofs
    BY <1>1 DEF vars
  <2>2. TypeOK'
    BY <2>1 DEF IInv, TypeOK
  <2>3. Stable'
    BY <2>1 DEF IInv, Stable
  <2>4. Fitting'
    BY <2>1 DEF IInv, Fitting, Fits
  <2>5. Answering'
    <3>1. \A d, k, g : Answers(d, k, g)' <=> Answers(d, k, g)
      BY <2>1 DEF Answers, Proposed
    <3> QED BY <2>1, <3>1 DEF IInv, Answering
  <2>6. Paired'
    BY <2>1 DEF IInv, Paired, Acked, Pairs
  <2> QED BY <2>2, <2>3, <2>4, <2>5, <2>6 DEF IInv
<1>2. CASE Next
  <2>1. PICK c \in Chains :
          \/ \E i \in DOMAIN ends[c] : \E e : SetEnd(c, i, e) /\ GoodEnd(c, i, e)
          \/ \E e : CreateEnd(c, e) /\ GoodNewEnd(c, e)
          \/ NewBlock(c)
    BY <1>2, StepShapes
  <2>2. ASSUME NEW i \in DOMAIN ends[c], NEW e, SetEnd(c, i, e), GoodEnd(c, i, e)
        PROVE  IInv'
    BY <2>2, SetEndPreserves DEF GoodEnd
  <2>3. ASSUME NEW e, CreateEnd(c, e), GoodNewEnd(c, e)
        PROVE  IInv'
    BY <2>3, CreateEndPreserves DEF GoodNewEnd
  <2> QED BY <2>1, <2>2, <2>3, NewBlockPreserves
<1> QED BY <1>1, <1>2

\* An end that opened by ChanOpenAck was a proposal, and opened with an answer to it; if
\* the answering end was a proposal too, the two proposed the same version.
LEMMA AckedProposed ==
  ASSUME IInv, NEW c \in Chains, NEW i, NEW e, Acked(c, i, e)
  PROVE  \E v \in Versions : /\ Proposed(c, i, v)
                             /\ e.version \in Negotiate[Peer(c)][v]
                             /\ \A w : Proposed(Peer(c), e.cpChannel, w) => w = v
<1>1. PICK proof \in proofs[Peer(c)] : /\ proof[1] = e.cpChannel
                                       /\ proof[2].state = "TRYOPEN"
                                       /\ proof[2].cpChannel = i
                                       /\ proof[2].version = e.version
  BY DEF Acked
<1>2. Answers(Peer(c), proof[1], proof[2])
  BY <1>1, PeerFacts DEF IInv, Answering
<1> QED BY <1>1, <1>2, PeerFacts DEF Answers

THEOREM Invariance == Spec => []IInv
BY InitInvariant, StepInvariant, PTL DEF Spec

-----------------------------------------------------------------------------
\* The handlers of handshake.go keep the type of every channel end, and a block commits
\* only ends that were created.
THEOREM TypeCorrect == Spec => []TypeOK
<1>1. IInv => TypeOK
  BY DEF IInv
<1> QED BY <1>1, Invariance, PTL

\* An OPEN end names an existing end with the mirrored ports and the same ordering,
\* however many channels there are and however old the proofs are that ChanOpenTry,
\* ChanOpenAck and ChanOpenConfirm accepted.
THEOREM OpenEndsAlwaysMatch == Spec => []OpenEndsMatch
<1>1. IInv => OpenEndsMatch
  BY DEF IInv, Fitting, Fits, OpenEndsMatch, Linked, CounterpartyOf
<1> QED BY <1>1, Invariance, PTL

\* An end that only answered a proposal opens by ChanOpenConfirm only, with the proposer
\* that opened with this very end, under the same version.
THEOREM AnswersAlwaysPaired == Spec => []AnswersArePaired
<1>1. ASSUME IInv PROVE AnswersArePaired
  <2> SUFFICES ASSUME NEW c \in Chains, NEW i \in DOMAIN ends[c],
                      ends[c][i].state = "OPEN", Passive(c, i)
               PROVE  Pairs(c, i, ends[c][i])
    BY DEF AnswersArePaired, Pairs, NamedBack, Linked, CounterpartyOf
  <2>1. ~ Acked(c, i, ends[c][i])
    BY <1>1, AckedProposed DEF Passive, Proposed
  <2> QED BY <1>1, <2>1 DEF IInv, Paired
<1> QED BY <1>1, Invariance, PTL

\* The modules of the two chains answer a proposed version alike.
NegotiateAlike ==
  \A v \in Versions : \A x \in Negotiate["A"][v] : \A y \in Negotiate["B"][v] : x = y

\* Two OPEN ends that name each other have the same version if the modules of the two
\* chains answer a proposal alike, also when both ends proposed, answered each other and
\* opened by ChanOpenAck, each with the version the other's OnChanOpenTry returned.
\* Without that hypothesis they need not.
THEOREM VersionsAlwaysAgree ==
  ASSUME NegotiateAlike
  PROVE  Spec => []VersionsAgree
<1>1. ASSUME IInv PROVE VersionsAgree
  <2> SUFFICES ASSUME NEW c \in Chains, NEW i \in DOMAIN ends[c],
                      ends[c][i].state = "OPEN", NamedBack(c, i),
                      CounterpartyOf(c, i).state = "OPEN"
               PROVE  CounterpartyOf(c, i).version = ends[c][i].version
    BY DEF VersionsAgree
  <2> DEFINE d == Peer(c)
             j == ends[c][i].cpChannel
  <2>1. d \in Chains /\ Peer(d) = c
    BY PeerFacts
  <2>2. /\ j \in DOMAIN ends[d]
        /\ CounterpartyOf(c, i) = ends[d][j]
        /\ ends[d][j].state = "OPEN" /\ ends[d][j].cpChannel = i
    BY DEF NamedBack, Linked, CounterpartyOf
  <2> HIDE DEF d, j
  <2>3. CASE Pairs(c, i, ends[c][i]) \/ Pairs(d, j, ends[d][j])
    BY <2>1, <2>2, <2>3 DEF Pairs, d, j
  <2>4. CASE Acked(c, i, ends[c][i]) /\ Acked(d, j, ends[d][j])
    <3>1. PICK v \in Versions : /\ Proposed(c, i, v)
                                /\ ends[c][i].version \in Negotiate[d][v]
                                /\ \A w : Proposed(d, j, w) => w = v
      BY <1>1, <2>4, AckedProposed DEF d, j
    <3>2. PICK u \in Versions : /\ Proposed(d, j, u)
                                /\ ends[d][j].version \in Negotiate[c][u]
      BY <1>1, <2>1, <2>2, <2>4, AckedProposed
    <3>3. u = v
      BY <3>1, <3>2
    <3>4. (c = "A" /\ d = "B") \/ (c = "B" /\ d = "A")
      BY DEF Chains, Peer, d
    <3>5. ends[d][j].version = ends[c][i].version
      BY <1>1, <3>1, <3>2, <3>3, <3>4 DEF NegotiateAlike
    <3> QED BY <2>2, <3>5
  <2>5. Acked(c, i, ends[c][i]) \/ Pairs(c, i, ends[c][i])
    BY <1>1 DEF IInv, Paired
  <2>6. Acked(d, j, ends[d][j]) \/ Pairs(d, j, ends[d][j])
    BY <1>1, <2>1, <2>2 DEF IInv, Paired
  <2> QED BY <2>3, <2>4, <2>5, <2>6
<1> QED BY <1>1, Invariance, PTL

\* No handler, with whatever old proof, moves an end backwards, changes its ports or
\* ordering, or gives an end that has opened another counterparty or version.
THEOREM EndsAlwaysAdvance == Spec => EndsOnlyAdvance
<1> DEFINE Forward(old, new) ==
             /\ Rank(old.state) <= Rank(new.state)
             /\ [new EXCEPT !.state = old.state] # old =>
                  /\ old.state \in {"INIT", "TRYOPEN"}
                  /\ old.state # new.state
             /\ new.ordering = old.ordering
             /\ new.port = old.port /\ new.cpPort = old.cpPort
<1>1. ASSUME NEW e \in End
      PROVE  Forward(e, e)
  BY RankFacts DEF End
<1>2. ASSUME NEW e \in End, NEW f \in End, Advances(e, f), Rank(e.state) < Rank(f.state)
      PROVE  Forward(e, f)
  <2>1. Rank(e.state) \in Nat /\ Rank(f.state) \in Nat /\ e.state \in States
    BY RankFacts DEF End
  <2>2. CASE e.state \in {"OPEN", "CLOSED"}
    <3>1. /\ f.ordering = e.ordering /\ f.port = e.port /\ f.cpPort = e.cpPort
          /\ f.version = e.version /\ f.cpChannel = e.cpChannel
      BY <1>2, <2>2 DEF Advances, Alike
    <3>2. [f EXCEPT !.state = e.state] = e
      BY <3>1 DEF End
    <3> QED BY <1>2, <2>1, <3>1, <3>2
  <2>3. CASE e.state \in {"INIT", "TRYOPEN"}
    BY <1>2, <2>1, <2>3 DEF Advances, Alike
  <2> QED BY <2>1, <2>2, <2>3 DEF States
<1> HIDE DEF Forward
<1>3. ASSUME IInv, [Next]_vars, NEW d \in Chains, NEW k \in DOMAIN ends[d]
      PROVE  Forward(ends[d][k], ends'[d][k])
  <2>1. ends[d][k] \in End
    BY <1>3, TypeFacts DEF IInv
  <2>2. CASE ends' = ends
    BY <1>1, <2>1, <2>2
  <2>3. CASE Next
    <3>1. PICK c \in Chains :
            \/ \E i \in DOMAIN ends[c] : \E e : SetEnd(c, i, e) /\ GoodEnd(c, i, e)
            \/ \E e : CreateEnd(c, e) /\ GoodNewEnd(c, e)
            \/ NewBlock(c)
      BY <1>3, <2>3, StepShapes
    <3>2. ASSUME NEW i \in DOMAIN ends[c], NEW e, SetEnd(c, i, e), GoodEnd(c, i, e)
          PROVE  Forward(ends[d][k], ends'[d][k])
      <4>1. /\ e \in End
            /\ Advances(ends[c][i], e)
            /\ Rank(ends[c][i].state) < Rank(e.state)
        BY <3>2 DEF GoodEnd
      <4>2. /\ ends'[Peer(c)] = ends[Peer(c)]
            /\ ends'[c][i] = e
            /\ \A j \in DOMAIN ends[c] : j # i => ends'[c][j] = ends[c][j]
        BY <1>3, <3>2, <4>1, SetEndFacts DEF IInv
      <4>3. CASE d = c /\ k = i
        BY <1>2, <2>1, <4>1, <4>2, <4>3
      <4>4. CASE ~ (d = c /\ k = i)
        <5>1. ends'[d][k] = ends[d][k]
          BY <1>3, <4>2, <4>4, PeerFacts
        <5> QED BY <1>1, <2>1, <5>1
      <4> QED BY <4>3, <4>4
    <3>3. ASSUME NEW e, CreateEnd(c, e), GoodNewEnd(c, e)
          PROVE  Forward(ends[d][k], ends'[d][k])
      <4>1. /\ ends'[Peer(c)] = ends[Peer(c)]
            /\ \A j \in DOMAIN ends[c] : ends'[c][j] = ends[c][j]
        BY <1>3, <3>3, CreateEndFacts DEF IInv, GoodNewEnd
      <4>2. ends'[d][k] = ends[d][k]
        BY <1>3, <4>1, PeerFacts
      <4> QED BY <1>1, <2>1, <4>2
    <3>4. CASE NewBlock(c)
      BY <2>2, <3>4 DEF NewBlock
    <3> QED BY <3>1, <3>2, <3>3, <3>4
  <2> QED BY <1>3, <2>2, <2>3 DEF vars
<1>4. IInv /\ [Next]_vars =>
        [\A c \in Chains : \A i \in DOMAIN ends[c] :
           Forward(ends[c][i], ends'[c][i])]_vars
  BY <1>3
<1> USE DEF Forward
<1> QED BY <1>4, Invariance, PTL DEF Spec, EndsOnlyAdvance
=============================================================================
