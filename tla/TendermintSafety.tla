-------------------------- MODULE TendermintSafety --------------------------
(***************************************************************************)
(* Proofs about TendermintClient for every set of clients, headers and     *)
(* upgrade plans, every period and any number of blocks: the client state  *)
(* and the store agree, only trusted clients change, the delay of a        *)
(* connection is kept, blocks are stored in order and a client is frozen   *)
(* only for a cause.                                                       *)
(***************************************************************************)
EXTENDS TendermintClient, WellFoundedInduction, TLAPS

\* Leaves are proved by Zenon unless they name another prover.
USE Zenon

Height == Nat \X Nat
ClientState == [latest : Height, frozen : BOOLEAN]

\* With the time t, the height n and the history s: what is stored at h is no younger
\* than the first time its block was stored.
GoodEntry(h, cs, t, n, s) ==
  /\ h \in Height
  /\ cs.time \in Nat
  /\ cs.processedTime \in Nat /\ cs.processedTime <= t
  /\ cs.processedHeight \in Nat /\ cs.processedHeight <= n
  /\ cs.root # SentinelRoot =>
       /\ cs.root \in DOMAIN s
       /\ s[cs.root].time <= cs.processedTime
       /\ s[cs.root].height <= cs.processedHeight

\* The client state and the store of one client agree.
GoodClient(st, store, t, n, s) ==
  /\ st \in ClientState
  /\ st.latest \in DOMAIN store
  /\ \A h \in DOMAIN store : GoodEntry(h, store[h], t, n, s) /\ LTE(h, st.latest)

GoodHistory(s, t, n) ==
  \A r \in DOMAIN s : /\ s[r].time \in Nat /\ s[r].time <= t
                      /\ s[r].height \in Nat /\ s[r].height <= n

\* The history s has grown to s2.
Grows(s, s2) == DOMAIN s \subseteq DOMAIN s2 /\ \A r \in DOMAIN s : s2[r] = s[r]

\* The inductive invariant.
IInv ==
  /\ now \in Nat /\ height \in Nat
  /\ GoodHistory(seen, now, height)
  /\ DOMAIN states \subseteq Clients
  /\ DOMAIN stores = DOMAIN states
  /\ \A k \in DOMAIN states : GoodClient(states[k], stores[k], now, height, seen)

-----------------------------------------------------------------------------
LEMMA HeightOrder ==
  /\ \A g \in Height : LTE(g, g) /\ ~ LT(g, g)
  /\ \A f, g, h \in Height : LTE(f, g) /\ LTE(g, h) => LTE(f, h)
  /\ \A g, h \in Height : /\ Maximum(g, h) \in {g, h}
                          /\ LTE(g, Maximum(g, h)) /\ LTE(h, Maximum(g, h))
                          /\ LT(g, h) => LTE(g, h) /\ g # h
<1>1. \A g \in Height : g = <<g[1], g[2]>> /\ g[1] \in Nat /\ g[2] \in Nat
  BY SMT DEF Height
<1>2. \A g \in Height : LTE(g, g) /\ ~ LT(g, g)
  BY <1>1, SMT DEF LTE, LT
<1>3. \A f, g, h \in Height : LTE(f, g) /\ LTE(g, h) => LTE(f, h)
  BY <1>1, SMT DEF LTE, LT
<1>4. \A g, h \in Height : LT(g, h) \/ LTE(h, g)
  BY <1>1, SMT DEF LTE, LT
<1>5. \A g, h \in Height : /\ Maximum(g, h) \in {g, h}
                           /\ LTE(g, Maximum(g, h)) /\ LTE(h, Maximum(g, h))
                           /\ LT(g, h) => LTE(g, h) /\ g # h
  BY <1>2, <1>4 DEF Maximum, LTE
<1> QED BY <1>2, <1>3, <1>5

\* The history only grows, and what is stored now is good.
LEMMA SeenFacts ==
  ASSUME IInv, NEW hd, hd.height \in Height, hd.time \in Nat
  PROVE  /\ Grows(seen, Seen(hd.root))
         /\ GoodHistory(Seen(hd.root), now, height)
         /\ GoodEntry(hd.height, ConsensusState(hd), now, height, Seen(hd.root))
<1> DEFINE s == Seen(hd.root)
<1>1. /\ Grows(seen, s)
      /\ hd.root # SentinelRoot => hd.root \in DOMAIN s
      /\ hd.root # SentinelRoot /\ hd.root \notin DOMAIN seen =>
           s[hd.root].time = now /\ s[hd.root].height = height
      /\ GoodHistory(s, now, height)
  BY SMT DEF IInv, Seen, Grows, GoodHistory
<1>2. hd.root # SentinelRoot => s[hd.root].time <= now /\ s[hd.root].height <= height
  BY <1>1 DEF GoodHistory
<1> QED BY <1>1, <1>2, SMT DEF IInv, GoodEntry, ConsensusState

LEMMA EntriesStayGood ==
  ASSUME NEW h, NEW cs, NEW t \in Nat, NEW n \in Nat, NEW s, GoodEntry(h, cs, t, n, s),
         NEW t2 \in Nat, t <= t2, NEW n2 \in Nat, n <= n2, NEW s2, Grows(s, s2)
  PROVE  GoodEntry(h, cs, t2, n2, s2)
BY SMT DEF GoodEntry, Grows

\* A client of this chain changes or is created, and nothing else does.
Changes(k) ==
  /\ DOMAIN states' = DOMAIN states \union {k}
  /\ DOMAIN stores' = DOMAIN states \union {k}
  /\ \A j \in DOMAIN states : j # k => states'[j] = states[j] /\ stores'[j] = stores[j]
  /\ UNCHANGED <<now, height>>

LEMMA ChangePreserves ==
  ASSUME IInv, NEW k \in Clients, Changes(k),
         Grows(seen, seen'), GoodHistory(seen', now, height),
         GoodClient(states'[k], stores'[k], now, height, seen')
  PROVE  IInv'
<1>1. now' = now /\ height' = height /\ now \in Nat /\ height \in Nat
  BY DEF Changes, IInv
<1>2. ASSUME NEW j \in DOMAIN states'
      PROVE  GoodClient(states'[j], stores'[j], now, height, seen')
  <2>1. CASE j = k
    BY <2>1
  <2>2. CASE j # k
    <3>1. /\ j \in DOMAIN states
          /\ states'[j] = states[j]
          /\ stores'[j] = stores[j]
      BY <1>2, <2>2 DEF Changes
    <3>2. GoodClient(states[j], stores[j], now, height, seen)
      BY <3>1 DEF IInv
    <3>3. \A h \in DOMAIN stores[j] : GoodEntry(h, stores[j][h], now, height, seen')
      BY <1>1, <3>2, EntriesStayGood, SMT DEF GoodClient
    <3> QED BY <3>1, <3>2, <3>3 DEF GoodClient
  <2> QED BY <2>1, <2>2
<1>3. \A j \in DOMAIN states' : GoodClient(states'[j], stores'[j], now', height', seen')
  BY <1>1, <1>2
<1>4. DOMAIN states' \subseteq Clients /\ DOMAIN stores' = DOMAIN states'
  BY DEF Changes, IInv
<1> QED BY <1>1, <1>3, <1>4 DEF IInv

\* Storing one more entry, at or below the latest height.
LEMMA StoreMore ==
  ASSUME IInv, NEW k \in DOMAIN states, NEW st \in ClientState, NEW h, NEW cs, NEW s,
         Grows(seen, s), GoodEntry(h, cs, now, height, s),
         LTE(h, st.latest), LTE(states[k].latest, st.latest),
         NEW kept, DOMAIN kept \subseteq Heights(k), \A g \in DOMAIN kept : kept[g] = stores[k][g],
         st.latest \in DOMAIN kept \union {h}
  PROVE  GoodClient(st, With(kept, h, cs), now, height, s)
<1> DEFINE w == With(kept, h, cs)
<1>1. /\ DOMAIN w = DOMAIN kept \union {h}
      /\ w[h] = cs
      /\ \A g \in DOMAIN kept : g # h => w[g] = kept[g]
  BY DEF With
<1> HIDE DEF w
<1>2. now \in Nat /\ height \in Nat /\ GoodClient(states[k], stores[k], now, height, seen)
  BY DEF IInv
<1>3. ASSUME NEW g \in DOMAIN w
      PROVE  GoodEntry(g, w[g], now, height, s) /\ LTE(g, st.latest)
  <2>1. CASE g = h
    BY <1>1, <2>1
  <2>2. CASE g # h
    <3>1. g \in DOMAIN stores[k] /\ w[g] = stores[k][g]
      BY <1>1, <1>3, <2>2 DEF Heights
    <3>2. GoodEntry(g, stores[k][g], now, height, seen) /\ LTE(g, states[k].latest)
      BY <1>2, <3>1 DEF GoodClient
    <3>3. GoodEntry(g, w[g], now, height, s)
      BY <1>2, <3>1, <3>2, EntriesStayGood, SMT
    <3>4. g \in Height /\ states[k].latest \in Height /\ st.latest \in Height
      BY <1>2, <3>2 DEF GoodEntry, GoodClient, ClientState
    <3> QED BY <3>2, <3>3, <3>4, HeightOrder, SMT
  <2> QED BY <2>1, <2>2
<1>4. st.latest \in DOMAIN w
  BY <1>1
<1> QED BY <1>3, <1>4 DEF GoodClient, w

-----------------------------------------------------------------------------
\* Client k may change as it does: it is active and does not move back, or governance
\* moves it up to the latest block of an active client.
MayChange(k) ==
  \/ Status(k) = "Active" /\ LTE(states[k].latest, states'[k].latest)
  \/ /\ LT(states[k].latest, states'[k].latest)
     /\ \E j \in DOMAIN states \ {k} :
          /\ ~states[j].frozen
          /\ states[j].latest = states'[k].latest
          /\ stores[j][states[j].latest].time + TrustingPeriod > now

GoodStep(k) ==
  /\ k \in Clients
  /\ Changes(k)
  /\ Grows(seen, seen') /\ GoodHistory(seen', now, height)
  /\ GoodClient(states'[k], stores'[k], now, height, seen')
  /\ k \in DOMAIN states => MayChange(k)

LEMMA ClientFacts ==
  ASSUME IInv, NEW k \in DOMAIN states
  PROVE  /\ k \in Clients
         /\ GoodClient(states[k], stores[k], now, height, seen)
         /\ states[k].latest \in Height
         /\ states[k].latest \in Heights(k)
         /\ \A h \in Heights(k) : h \in Height /\ LTE(h, states[k].latest)
                                  /\ stores[k][h].time \in Nat
         /\ Status(k) = "Active" => /\ ~ states[k].frozen
                                    /\ ~ IsExpired(stores[k][states[k].latest].time)
<1>1. k \in Clients /\ GoodClient(states[k], stores[k], now, height, seen)
  BY DEF IInv
<1>2. /\ states[k].latest \in Height
      /\ states[k].latest \in Heights(k)
      /\ \A h \in Heights(k) : h \in Height /\ LTE(h, states[k].latest)
                               /\ stores[k][h].time \in Nat
  BY <1>1 DEF GoodClient, GoodEntry, ClientState, Heights
<1>3. Status(k) = "Active" => ~ states[k].frozen
  BY DEF Status
<1>4. Status(k) = "Active" => ~ IsExpired(stores[k][states[k].latest].time)
  BY <1>2, <1>3 DEF Status
<1> QED BY <1>1, <1>2, <1>3, <1>4

LEMMA HistoryStays ==
  ASSUME IInv, seen' = seen
  PROVE  Grows(seen, seen') /\ GoodHistory(seen', now, height)
BY DEF IInv, Grows

LEMMA CreateGood ==
  ASSUME IInv, NEW k \in Clients, NEW hd \in Headers, CreateClient(k, hd)
  PROVE  GoodStep(k)
<1>1. hd.height \in Height /\ hd.time \in Nat
  BY ClientAssumption DEF Height
<1>2. /\ Grows(seen, seen') /\ GoodHistory(seen', now, height)
      /\ GoodEntry(hd.height, ConsensusState(hd), now, height, seen')
  BY <1>1, SeenFacts DEF CreateClient
<1>3. /\ k \notin DOMAIN states
      /\ Changes(k)
      /\ states'[k] = [latest |-> hd.height, frozen |-> FALSE]
      /\ stores'[k] = Initialize(hd)
  BY DEF CreateClient, Exists, With, Changes, IInv
<1>4. /\ DOMAIN stores'[k] = {hd.height}
      /\ stores'[k][hd.height] = ConsensusState(hd)
  BY <1>3 DEF Initialize
<1>5. states'[k] \in ClientState /\ states'[k].latest = hd.height
  BY <1>1, <1>3, SMT DEF ClientState
<1>6. GoodClient(states'[k], stores'[k], now, height, seen')
  BY <1>1, <1>2, <1>4, <1>5, HeightOrder, SMT DEF GoodClient
<1> QED BY <1>2, <1>3, <1>6 DEF GoodStep

\* One client that exists changes.
LEMMA OneChanges ==
  ASSUME IInv, NEW k \in DOMAIN states, NEW st, NEW store,
         states' = [states EXCEPT ![k] = st], stores' = [stores EXCEPT ![k] = store],
         UNCHANGED <<now, height>>
  PROVE  Changes(k) /\ states'[k] = st /\ stores'[k] = store
BY DEF Changes, IInv

LEMMA FreezeGood ==
  ASSUME IInv, NEW k \in DOMAIN states, Status(k) = "Active",
         states' = [states EXCEPT ![k].frozen = TRUE], UNCHANGED <<stores, seen, now, height>>
  PROVE  GoodStep(k)
<1> DEFINE st == [states[k] EXCEPT !.frozen = TRUE]
<1>1. states[k] \in ClientState
  BY ClientFacts DEF GoodClient
<1>2. st \in ClientState /\ st.latest = states[k].latest
  BY <1>1 DEF ClientState
<1>3. Changes(k) /\ states'[k] = st /\ stores'[k] = stores[k]
  BY DEF Changes, IInv
<1> HIDE DEF st
<1>4. GoodClient(states'[k], stores'[k], now, height, seen')
  BY <1>2, <1>3, ClientFacts DEF GoodClient
<1>5. MayChange(k)
  BY <1>2, <1>3, ClientFacts, HeightOrder DEF MayChange
<1> QED BY <1>3, <1>4, <1>5, ClientFacts, HistoryStays DEF GoodStep

LEMMA UpdateGood ==
  ASSUME IInv, NEW k \in Clients, NEW hd \in Headers, NEW trusted, UpdateClient(k, hd, trusted)
  PROVE  GoodStep(k)
<1>1. k \in DOMAIN states /\ Status(k) = "Active" /\ UNCHANGED <<now, height>>
  BY DEF UpdateClient, Exists
<1>2. CASE states' = [states EXCEPT ![k].frozen = TRUE] /\ UNCHANGED <<stores, seen>>
  BY <1>1, <1>2, FreezeGood
<1>3. CASE /\ states' = [states EXCEPT ![k].latest = UpdatedHeight(k, hd)]
           /\ stores' = [stores EXCEPT ![k] =
                With([h \in Heights(k) \ PruneHeights(k) |-> stores[k][h]],
                     hd.height, ConsensusState(hd))]
           /\ seen' = Seen(hd.root)
  <2> DEFINE latest == UpdatedHeight(k, hd)
             st == [states[k] EXCEPT !.latest = latest]
             kept == [h \in Heights(k) \ PruneHeights(k) |-> stores[k][h]]
             store == With(kept, hd.height, ConsensusState(hd))
  <2>1. hd.height \in Height /\ hd.time \in Nat
    BY ClientAssumption DEF Height
  <2>2. /\ Grows(seen, seen') /\ GoodHistory(seen', now, height)
        /\ GoodEntry(hd.height, ConsensusState(hd), now, height, seen')
    BY <1>3, <2>1, SeenFacts
  <2>3. /\ latest \in {states[k].latest, hd.height}
        /\ LTE(states[k].latest, latest) /\ LTE(hd.height, latest)
    BY <1>1, <2>1, ClientFacts, HeightOrder DEF UpdatedHeight
  <2>4. states[k] \in ClientState /\ states[k].latest \in Height
    BY <1>1, ClientFacts DEF GoodClient
  <2> HIDE DEF latest
  <2>5. st \in ClientState /\ st.latest = latest
    BY <2>1, <2>3, <2>4 DEF ClientState
  <2>6. /\ DOMAIN kept \subseteq Heights(k)
        /\ \A g \in DOMAIN kept : kept[g] = stores[k][g]
        /\ states[k].latest \in DOMAIN kept
    BY <1>1, ClientFacts DEF PruneHeights
  <2>7. Changes(k) /\ states'[k] = st /\ stores'[k] = store
    <3>1. states' = [states EXCEPT ![k] = st]
      BY <1>3 DEF latest
    <3>2. stores' = [stores EXCEPT ![k] = store]
      BY <1>3
    <3> HIDE DEF st, store
    <3> QED BY <1>1, <3>1, <3>2, OneChanges
  <2> HIDE DEF st, kept
  <2>8. st.latest \in DOMAIN kept \union {hd.height}
    BY <2>3, <2>5, <2>6
  <2>9. GoodClient(st, store, now, height, seen')
    BY <1>1, <2>2, <2>3, <2>5, <2>6, <2>8, StoreMore
  <2>10. MayChange(k)
    BY <1>1, <2>3, <2>5, <2>7 DEF MayChange
  <2> QED BY <2>2, <2>7, <2>9, <2>10 DEF GoodStep
<1> QED BY <1>2, <1>3 DEF UpdateClient, CheckHeaderAndUpdateState

LEMMA MisbehaviourGood ==
  ASSUME IInv, NEW k \in Clients, NEW hd1 \in Headers, NEW hd2 \in Headers,
         SubmitMisbehaviour(k, hd1, hd2)
  PROVE  GoodStep(k)
BY FreezeGood DEF SubmitMisbehaviour, CheckMisbehaviourAndUpdateState, Exists

\* Moving client k up to height h with one more entry there.
LEMMA MoveGood ==
  ASSUME IInv, NEW k \in DOMAIN states, NEW h \in Height, NEW cs,
         LT(states[k].latest, h), GoodEntry(h, cs, now, height, seen), MayChange(k),
         states' = [states EXCEPT ![k] = [latest |-> h, frozen |-> FALSE]],
         stores' = [stores EXCEPT ![k] = With(stores[k], h, cs)],
         UNCHANGED <<seen, now, height>>
  PROVE  GoodStep(k)
<1> DEFINE st == [latest |-> h, frozen |-> FALSE]
           store == With(stores[k], h, cs)
<1>1. st \in ClientState /\ st.latest = h
  BY DEF ClientState
<1>2. LTE(states[k].latest, h) /\ LTE(h, h)
  BY ClientFacts, HeightOrder
<1>3. Grows(seen, seen)
  BY DEF Grows
<1> HIDE DEF st
<1>4. GoodClient(st, store, now, height, seen)
  BY <1>1, <1>2, <1>3, StoreMore DEF Heights
<1> HIDE DEF store
<1>5. Changes(k) /\ states'[k] = st /\ stores'[k] = store
  BY OneChanges DEF st, store
<1>6. GoodClient(states'[k], stores'[k], now, height, seen')
  BY <1>4, <1>5
<1> QED BY <1>5, <1>6, ClientFacts, HistoryStays DEF GoodStep

LEMMA UpgradeGood ==
  ASSUME IInv, NEW k \in Clients, NEW plan \in Plans, UpgradeClient(k, plan)
  PROVE  GoodStep(k)
<1> DEFINE cs == ConsensusState(UpgradedConsState(plan))
<1>1. /\ k \in DOMAIN states
      /\ Status(k) = "Active"
      /\ LT(states[k].latest, plan.to)
      /\ states' = [states EXCEPT ![k] = [latest |-> plan.to, frozen |-> FALSE]]
      /\ stores' = [stores EXCEPT ![k] = With(stores[k], plan.to, cs)]
      /\ UNCHANGED <<seen, now, height>>
  BY DEF UpgradeClient, VerifyUpgradeAndUpdateState, Exists
<1>2. plan.to \in Height
  BY ClientAssumption DEF Height
<1>3. UpgradedConsState(plan).time \in Nat
  <2> DEFINE hd == CHOOSE x \in Headers : x.root = plan.previous
  <2>1. hd \in Headers
    BY ClientAssumption
  <2>2. hd.time \in Nat
    BY <2>1, ClientAssumption
  <2> QED BY <2>2 DEF UpgradedConsState
<1>4. /\ cs.time = UpgradedConsState(plan).time
      /\ cs.root = SentinelRoot
      /\ cs.processedTime = now /\ cs.processedHeight = height
  BY DEF ConsensusState, UpgradedConsState
<1>5. GoodEntry(plan.to, cs, now, height, seen)
  BY <1>2, <1>3, <1>4, SMT DEF GoodEntry, IInv
<1>6. states'[k].latest = plan.to
  BY <1>1
<1>7. MayChange(k)
  BY <1>1, <1>2, <1>6, ClientFacts, HeightOrder DEF MayChange
<1> HIDE DEF cs
<1> QED BY <1>1, <1>2, <1>5, <1>7, MoveGood

LEMMA ProposalGood ==
  ASSUME IInv, NEW k \in DOMAIN states, NEW j \in DOMAIN states, ClientUpdateProposal(k, j)
  PROVE  GoodStep(k)
<1> DEFINE h == states[j].latest
<1>1. /\ LT(states[k].latest, h)
      /\ Status(j) = "Active"
      /\ states' = [states EXCEPT ![k] = [latest |-> h, frozen |-> FALSE]]
      /\ stores' = [stores EXCEPT ![k] = With(stores[k], h, stores[j][h])]
      /\ UNCHANGED <<seen, now, height>>
  BY DEF ClientUpdateProposal, IsSubstitute, CheckSubstituteAndUpdateState
<1>2. /\ h \in Height
      /\ GoodEntry(h, stores[j][h], now, height, seen)
      /\ stores[j][h].time \in Nat
      /\ ~ states[j].frozen
      /\ ~ IsExpired(stores[j][h].time)
  BY <1>1, ClientFacts DEF GoodClient
<1>3. states'[k].latest = h /\ j # k
  BY <1>1, <1>2, ClientFacts, HeightOrder
<1>4. stores[j][h].time + TrustingPeriod > now
  BY <1>2, ClientAssumption, SMT DEF IsExpired, IInv
<1>5. MayChange(k)
  BY <1>1, <1>2, <1>3, <1>4 DEF MayChange
<1> HIDE DEF h
<1> QED BY <1>1, <1>2, <1>5, MoveGood

\* Every step changes one client as it may, or is a block.
LEMMA StepShapes ==
  ASSUME IInv, Next
  PROVE  NewBlock \/ \E k : GoodStep(k)
<1>1. ASSUME NEW k \in Clients, NEW hd \in Headers, CreateClient(k, hd)
      PROVE  \E j : GoodStep(j)
  BY <1>1, CreateGood
<1>2. ASSUME NEW k \in DOMAIN states, NEW hd \in Headers, NEW trusted,
             UpdateClient(k, hd, trusted)
      PROVE  \E j : GoodStep(j)
  BY <1>2, UpdateGood, ClientFacts
<1>3. ASSUME NEW k \in Clients, NEW hd1 \in Headers, NEW hd2 \in Headers,
             SubmitMisbehaviour(k, hd1, hd2)
      PROVE  \E j : GoodStep(j)
  BY <1>3, MisbehaviourGood
<1>4. ASSUME NEW k \in Clients, NEW plan \in Plans, UpgradeClient(k, plan)
      PROVE  \E j : GoodStep(j)
  BY <1>4, UpgradeGood
<1>5. ASSUME NEW k \in DOMAIN states, NEW j \in DOMAIN states, ClientUpdateProposal(k, j)
      PROVE  \E i : GoodStep(i)
  BY <1>5, ProposalGood
<1> QED BY <1>1, <1>2, <1>3, <1>4, <1>5 DEF Next

LEMMA BlockPreserves ==
  ASSUME IInv, NewBlock
  PROVE  IInv'
<1>1. PICK d \in BlockTimes : now' = now + d
  BY DEF NewBlock
<1>2. /\ now' \in Nat /\ now <= now' /\ height' \in Nat /\ height <= height'
      /\ now \in Nat /\ height \in Nat
  BY <1>1, ClientAssumption, SMT DEF NewBlock, IInv
<1>3. UNCHANGED <<states, stores, seen>>
  BY DEF NewBlock
<1>4. GoodHistory(seen', now', height')
  <2>1. ASSUME NEW r \in DOMAIN seen
        PROVE  /\ seen[r].time \in Nat /\ seen[r].time <= now'
               /\ seen[r].height \in Nat /\ seen[r].height <= height'
    <3>1. /\ seen[r].time \in Nat /\ seen[r].time <= now
          /\ seen[r].height \in Nat /\ seen[r].height <= height
      BY DEF IInv, GoodHistory
    <3> QED BY <1>2, <3>1, SMT
  <2> QED BY <1>3, <2>1 DEF GoodHistory
<1>5. ASSUME NEW k \in DOMAIN states
      PROVE  GoodClient(states'[k], stores'[k], now', height', seen')
  <2>1. GoodClient(states[k], stores[k], now, height, seen) /\ Grows(seen, seen)
    BY DEF IInv, Grows
  <2>2. \A h \in DOMAIN stores[k] : GoodEntry(h, stores[k][h], now', height', seen)
    BY <1>2, <2>1, EntriesStayGood DEF GoodClient
  <2> QED BY <1>3, <2>1, <2>2 DEF GoodClient
<1>6. DOMAIN states' \subseteq Clients /\ DOMAIN stores' = DOMAIN states'
  BY <1>3 DEF IInv
<1> QED BY <1>2, <1>3, <1>4, <1>5, <1>6 DEF IInv

LEMMA InitInvariant ==
  ASSUME Init
  PROVE  IInv
<1>1. DOMAIN states = {} /\ DOMAIN stores = {} /\ DOMAIN seen = {}
  BY SMT DEF Init
<1>2. now \in Nat /\ height \in Nat
  BY ClientAssumption DEF Init
<1> QED BY <1>1, <1>2 DEF IInv, GoodHistory

LEMMA StepInvariant ==
  ASSUME IInv, [Next]_vars
  PROVE  IInv'
<1>1. CASE UNCHANGED vars
  BY <1>1 DEF vars, IInv
<1>2. ASSUME NEW k, GoodStep(k)
      PROVE  IInv'
  BY <1>2, ChangePreserves DEF GoodStep
<1> QED BY <1>1, <1>2, StepShapes, BlockPreserves

THEOREM Invariance == Spec => []IInv
BY InitInvariant, StepInvariant, PTL DEF Spec

-----------------------------------------------------------------------------
\* The latest height of a client state is the greatest that its store holds, over
\* updates in any order, pruning, upgrades and replacements (update.go, upgrade.go,
\* proposal_handle.go).
THEOREM StateAndStoreAgree == Spec => []TypeOK
<1>1. ASSUME IInv PROVE TypeOK
  BY <1>1 DEF IInv, TypeOK, GoodClient, GoodEntry, ClientState, Heights
<1> QED BY <1>1, Invariance, PTL

\* Only an active client, or one that governance moves up to the latest block of an
\* active client, ever changes (client.go, proposal.go), and never to a lower height.
THEOREM OnlyTrustedClientsChange == Spec => OnlyTrustedChanges
<1> DEFINE Kept(k) == states'[k] = states[k] /\ stores'[k] = stores[k]
<1>1. ASSUME IInv, [Next]_vars, NEW k \in DOMAIN states
      PROVE  Kept(k) \/ MayChange(k)
  <2>1. CASE UNCHANGED vars
    BY <2>1 DEF vars
  <2>2. CASE NewBlock
    BY <2>2 DEF NewBlock
  <2>3. ASSUME NEW j, GoodStep(j)
        PROVE  Kept(k) \/ MayChange(k)
    <3>1. CASE j = k
      BY <1>1, <2>3, <3>1 DEF GoodStep
    <3>2. CASE j # k
      BY <1>1, <2>3, <3>2 DEF GoodStep, Changes
    <3> QED BY <3>1, <3>2
  <2> QED BY <1>1, <2>1, <2>2, <2>3, StepShapes
<1>2. IInv /\ [Next]_vars => [\A k \in DOMAIN states : Kept(k) \/ MayChange(k)]_vars
  BY <1>1
<1>3. [\A k \in DOMAIN states : Kept(k) \/ MayChange(k)]_vars =>
        [\A k \in DOMAIN states :
           \/ states'[k] = states[k] /\ stores'[k] = stores[k]
           \/ Status(k) = "Active" /\ LTE(states[k].latest, states'[k].latest)
           \/ /\ LT(states[k].latest, states'[k].latest)
              /\ \E j \in DOMAIN states \ {k} :
                   /\ ~states[j].frozen
                   /\ states[j].latest = states'[k].latest
                   /\ stores[j][states[j].latest].time + TrustingPeriod > now]_vars
  BY DEF MayChange
<1> QED BY <1>2, <1>3, Invariance, PTL DEF Spec, OnlyTrustedChanges

\* Rounding up to whole blocks loses nothing of the delay.
LEMMA BlockDelay ==
  ASSUME NEW n \in Nat, n >= GetBlockDelay(DelayPeriod)
  PROVE  n * MaxExpectedTimePerBlock >= DelayPeriod
<1> DEFINE m == MaxExpectedTimePerBlock
           x == DelayPeriod + m - 1
           q == x \div m
<1>1. m \in Nat /\ m > 0 /\ DelayPeriod \in Nat /\ x \in Nat
  BY ClientAssumption, SMT
<1>2. n >= q
  BY <1>1, SMT DEF GetBlockDelay
<1> HIDE DEF m
<1>3. q \in Nat /\ x < m * q + m
  <2> HIDE DEF x
  <2> QED BY <1>1, SMT
<1>4. m * q >= DelayPeriod
  <2>1. m * q \in Nat
    <3> HIDE DEF q
    <3> QED BY <1>1, <1>3, SMT
  <2> DEFINE y == m * q
  <2>2. DelayPeriod + m - 1 < y + m
    BY <1>3
  <2>3. y \in Nat
    BY <2>1
  <2> HIDE DEF y
  <2>4. y >= DelayPeriod
    BY <1>1, <2>2, <2>3, SMT
  <2> QED BY <2>4 DEF y
<1>5. n * m >= q * m
  <2> HIDE DEF q
  <2> QED BY <1>1, <1>2, <1>3, SMT
<1> QED BY <1>1, <1>2, <1>3, <1>4, <1>5, SMT DEF m

\* Whatever the delay period and the expected time per block, whichever client brought
\* a block first and in whatever order: a block is used for packets only after this
\* chain has had it for the delay in time and in blocks (verifyDelayPeriodPassed,
\* getBlockDelay).
THEOREM DelayAlwaysPasses == Spec => []DelayHasPassed
<1>1. ASSUME IInv, NEW k \in DOMAIN states, NEW h \in Heights(k), VerifyPacket(k, h)
      PROVE  LET first == seen[stores[k][h].root]
             IN  /\ now - first.time >= DelayPeriod
                 /\ (height - first.height) * MaxExpectedTimePerBlock >= DelayPeriod
  <2> DEFINE cs == stores[k][h]
             first == seen[cs.root]
  <2>1. /\ GoodEntry(h, cs, now, height, seen)
        /\ now \in Nat /\ height \in Nat
        /\ GoodHistory(seen, now, height)
    BY <1>1 DEF IInv, GoodClient, Heights
  <2>2. /\ cs.root # SentinelRoot
        /\ now >= cs.processedTime + DelayPeriod
        /\ height >= cs.processedHeight + GetBlockDelay(DelayPeriod)
    BY <1>1 DEF VerifyPacket, VerifyMembership, VerifyDelayPeriodPassed
  <2>3. /\ cs.root \in DOMAIN seen
        /\ first.time <= cs.processedTime /\ first.height <= cs.processedHeight
        /\ first.time \in Nat /\ first.height \in Nat /\ first.height <= height
        /\ cs.processedTime \in Nat /\ cs.processedHeight \in Nat
    BY <2>1, <2>2 DEF GoodEntry, GoodHistory
  <2>4. DelayPeriod \in Nat /\ GetBlockDelay(DelayPeriod) \in Nat
    BY ClientAssumption, SMT DEF GetBlockDelay
  <2>5. now - first.time >= DelayPeriod
    BY <2>1, <2>2, <2>3, <2>4, SMT
  <2>6. height - first.height \in Nat /\ height - first.height >= GetBlockDelay(DelayPeriod)
    BY <2>1, <2>2, <2>3, <2>4, SMT
  <2> HIDE DEF first
  <2>7. (height - first.height) * MaxExpectedTimePerBlock >= DelayPeriod
    BY <2>6, BlockDelay
  <2> QED BY <2>5, <2>7 DEF first
<1>2. IInv => DelayHasPassed
  BY <1>1 DEF DelayHasPassed
<1> QED BY <1>2, Invariance, PTL

-----------------------------------------------------------------------------
\* The order of the blocks a client stores, and the causes for which it freezes.
BlockAt(store, h) == [height |-> h, time |-> store[h].time, root |-> store[h].root]

Blocks == Headers \union {UpgradedConsState(plan) : plan \in Plans}

EndsRevision(last) ==
  \A hd \in Headers :
    Revision(hd.height) = Revision(last.height) => LTE(hd.height, last.height)

Ordered(store) ==
  \A g, h \in DOMAIN store :
    Revision(g) = Revision(h) /\ LT(g, h) => store[g].time < store[h].time

\* The entry at h was stored by an upgrade from the block last.  As long as a block below
\* it is stored, last is, and nothing is stored in between.
UpgradedFrom(store, h, last) ==
  /\ EndsRevision(last)
  /\ Revision(last.height) < Revision(h)
  /\ \A g \in DOMAIN store : LT(g, h) => LTE(g, last.height) /\ last.height \in DOMAIN store

Upgrades(store) ==
  \A h \in DOMAIN store :
    store[h].root = SentinelRoot => \E last \in Headers : UpgradedFrom(store, h, last)

Cause(blocks) == \E b, c \in blocks : b.root # SentinelRoot /\ IsMisbehaviour(b, c)

\* What a client stores it has verified, in order; it is frozen only for a cause.
Sound(st, store, blocks) ==
  /\ blocks \subseteq Blocks
  /\ \A h \in DOMAIN store : BlockAt(store, h) \in blocks
  /\ Ordered(store)
  /\ Upgrades(store)
  /\ st.frozen => Cause(blocks)

\* The second invariant, over the first.
AllSound ==
  /\ DOMAIN known = Clients
  /\ \A k \in DOMAIN states \ replaced : Sound(states[k], stores[k], known[k])

\* A nonempty set of naturals has a least element.
LEMMA LeastNat ==
  ASSUME NEW T, T \subseteq Nat, T # {}
  PROVE  \E n \in T : \A m \in T : n <= m
<1>1. PICK n \in T : \A m \in T : ~ (<<m, n>> \in OpToRel(<, Nat))
  BY NatLessThanWellFounded, WFMin
<1>2. \A m, k \in Nat : m < k => <<m, k>> \in OpToRel(<, Nat)
  BY DEF OpToRel
<1>3. \A m \in T : m \in Nat /\ n \in Nat /\ ~ (m < n)
  BY <1>1, <1>2
<1> QED BY <1>3, SMT

\* A lower block of the same revision has a nearest one, which GetPreviousConsensusState
\* finds.
LEMMA PreviousExists ==
  ASSUME NEW k, Heights(k) \subseteq Height, NEW h \in Height,
         NEW f \in Heights(k), LT(f, h), Revision(f) = Revision(h)
  PROVE  \E g \in GetPreviousConsensusState(k, h) : Revision(g) = Revision(h) /\ LTE(f, g)
<1> DEFINE below == {g \in Heights(k) : LT(g, h) /\ Revision(g) = Revision(h)}
           gaps == {h[2] - g[2] : g \in below}
<1>1. \A g \in Height : g = <<g[1], g[2]>> /\ g[1] \in Nat /\ g[2] \in Nat
  BY SMT DEF Height
<1>2. \A g \in below : h[2] - g[2] \in Nat
  BY <1>1, SMT DEF LT, Revision
<1>3. gaps \subseteq Nat /\ gaps # {}
  BY <1>2
<1>4. PICK n \in gaps : \A m \in gaps : n <= m
  BY <1>3, LeastNat
<1>5. PICK g \in below : n = h[2] - g[2]
  BY <1>4
<1>6. ASSUME NEW e \in Heights(k), LT(e, h)
      PROVE  LTE(e, g)
  <2>1. CASE e \in below
    <3>1. h[2] - g[2] <= h[2] - e[2]
      BY <1>4, <1>5, <2>1
    <3> QED BY <1>1, <1>5, <1>6, <2>1, <3>1, SMT DEF LT, LTE, Revision
  <2>2. CASE e \notin below
    BY <1>1, <1>5, <1>6, <2>2 DEF LT, LTE, Revision
  <2> QED BY <2>1, <2>2
<1> QED BY <1>5, <1>6 DEF GetPreviousConsensusState

\* The same for the blocks above.
LEMMA NextExists ==
  ASSUME NEW k, Heights(k) \subseteq Height, NEW h \in Height,
         NEW f \in Heights(k), LT(h, f), Revision(f) = Revision(h)
  PROVE  \E g \in GetNextConsensusState(k, h) : Revision(g) = Revision(h) /\ LTE(g, f)
<1> DEFINE above == {g \in Heights(k) : LT(h, g) /\ Revision(g) = Revision(h)}
           numbers == {g[2] : g \in above}
<1>1. \A g \in Height : g = <<g[1], g[2]>> /\ g[1] \in Nat /\ g[2] \in Nat
  BY SMT DEF Height
<1>2. numbers \subseteq Nat /\ numbers # {}
  BY <1>1
<1>3. PICK n \in numbers : \A m \in numbers : n <= m
  BY <1>2, LeastNat
<1>4. PICK g \in above : n = g[2]
  BY <1>3
<1>5. ASSUME NEW e \in Heights(k), LT(h, e)
      PROVE  LTE(g, e)
  <2>1. CASE e \in above
    <3>1. g[2] <= e[2]
      BY <1>3, <1>4, <2>1
    <3> QED BY <1>1, <1>4, <1>5, <2>1, <3>1, SMT DEF LT, LTE, Revision
  <2>2. CASE e \notin above
    BY <1>1, <1>4, <1>5, <2>2 DEF LT, LTE, Revision
  <2> QED BY <2>1, <2>2
<1> QED BY <1>4, <1>5 DEF GetNextConsensusState

\* A header that passes the check of monotonic times keeps the order.
LEMMA NewBlockOrdered ==
  ASSUME IInv, NEW k \in DOMAIN states, Ordered(stores[k]),
         NEW hd \in Headers, hd.height \notin Heights(k), ~ NotMonotonic(k, hd),
         NEW g \in Heights(k), Revision(g) = Revision(hd.height)
  PROVE  /\ LT(g, hd.height) => stores[k][g].time < hd.time
         /\ LT(hd.height, g) => hd.time < stores[k][g].time
<1>1. /\ Heights(k) \subseteq Height /\ hd.height \in Height /\ hd.time \in Nat
      /\ \A h \in Heights(k) : stores[k][h].time \in Nat
  BY ClientFacts, ClientAssumption DEF Height
<1>2. ASSUME LT(g, hd.height)
      PROVE  stores[k][g].time < hd.time
  <2>1. PICK f \in GetPreviousConsensusState(k, hd.height) :
          Revision(f) = Revision(hd.height) /\ LTE(g, f)
    BY <1>1, <1>2, PreviousExists
  <2>2. f \in Heights(k) /\ stores[k][f].time < hd.time
    BY <1>1, SMT DEF NotMonotonic, GetPreviousConsensusState
  <2>3. g = f \/ stores[k][g].time < stores[k][f].time
    BY <2>1, <2>2 DEF Ordered, Heights, LTE
  <2> QED BY <1>1, <2>2, <2>3, SMT
<1>3. ASSUME LT(hd.height, g)
      PROVE  hd.time < stores[k][g].time
  <2>1. PICK f \in GetNextConsensusState(k, hd.height) :
          Revision(f) = Revision(hd.height) /\ LTE(f, g)
    BY <1>1, <1>3, NextExists
  <2>2. f \in Heights(k) /\ hd.time < stores[k][f].time
    BY <1>1, SMT DEF NotMonotonic, GetNextConsensusState
  <2>3. g = f \/ stores[k][f].time < stores[k][g].time
    BY <2>1, <2>2 DEF Ordered, Heights, LTE
  <2> QED BY <1>1, <2>2, <2>3, SMT
<1> QED BY <1>2, <1>3

LEMMA HeightFacts ==
  /\ \A g, h \in Height : LTE(g, h) /\ LTE(h, g) => g = h
  /\ \A f, g, h \in Height : LT(f, g) /\ LT(g, h) => LT(f, h)
  /\ \A f, g, h \in Height :
       Revision(f) = Revision(g) /\ LTE(f, h) => LTE(g, h) \/ Revision(g) = Revision(h)
  /\ \A g, h \in Height : Revision(g) < Revision(h) => LT(g, h)
  /\ \A g, h \in Height : LTE(g, h) => Revision(g) <= Revision(h) /\ ~ LT(h, g)
<1>1. \A g \in Height : g = <<g[1], g[2]>> /\ g[1] \in Nat /\ g[2] \in Nat
  BY SMT DEF Height
<1> QED BY <1>1, SMT DEF LTE, LT, Revision

\* A header that the client may store is stored in order, and what an upgrade left
\* stays in place.
LEMMA UpdateSound ==
  ASSUME IInv, NEW k \in DOMAIN states, NEW blocks, Sound(states[k], stores[k], blocks),
         ~ states[k].frozen, NEW hd \in Headers, hd.height \notin Heights(k),
         NEW trusted \in Heights(k), CheckValidity(k, hd, trusted), ~ NotMonotonic(k, hd),
         NEW st, ~ st.frozen,
         NEW kept, DOMAIN kept = Heights(k) \ PruneHeights(k),
         \A h \in DOMAIN kept : kept[h] = stores[k][h]
  PROVE  Sound(st, With(kept, hd.height, ConsensusState(hd)), blocks \union {hd})
<1> DEFINE store == With(kept, hd.height, ConsensusState(hd))
<1>1. /\ DOMAIN store = DOMAIN kept \union {hd.height}
      /\ store[hd.height] = ConsensusState(hd)
      /\ \A g \in DOMAIN kept : g \in Heights(k) /\ g # hd.height /\ store[g] = stores[k][g]
  BY DEF With
<1> HIDE DEF store
<1>2. /\ store[hd.height].time = hd.time
      /\ store[hd.height].root = hd.root
      /\ hd.root # SentinelRoot
  BY <1>1, CounterpartyAssumption, SMT DEF ConsensusState
<1>3. /\ hd.height \in Height
      /\ Heights(k) \subseteq Height
      /\ \A g \in DOMAIN store : g \in Height
  BY <1>1, ClientFacts, ClientAssumption DEF Height
<1>4. blocks \union {hd} \subseteq Blocks
  BY DEF Sound, Blocks
<1>5. ASSUME NEW h \in DOMAIN store
      PROVE  BlockAt(store, h) \in blocks \union {hd}
  <2>1. CASE h \in DOMAIN kept
    <3>1. BlockAt(store, h) = BlockAt(stores[k], h)
      BY <1>1, <2>1 DEF BlockAt
    <3> QED BY <1>1, <2>1, <3>1 DEF Sound, Heights
  <2>2. CASE h = hd.height
    BY <1>2, <2>2, CounterpartyAssumption DEF BlockAt
  <2> QED BY <1>1, <1>5, <2>1, <2>2
<1>6. Ordered(store)
  <2>1. Ordered(stores[k])
    BY DEF Sound
  <2> SUFFICES ASSUME NEW g \in DOMAIN store, NEW h \in DOMAIN store,
                      Revision(g) = Revision(h), LT(g, h)
               PROVE  store[g].time < store[h].time
    BY DEF Ordered
  <2>2. g # h
    BY <1>3, HeightOrder
  <2>3. CASE g \in DOMAIN kept /\ h \in DOMAIN kept
    BY <1>1, <2>1, <2>3 DEF Ordered, Heights
  <2>4. CASE g = hd.height
    BY <1>1, <1>2, <2>1, <2>2, <2>4, NewBlockOrdered
  <2>5. CASE h = hd.height
    BY <1>1, <1>2, <2>1, <2>2, <2>5, NewBlockOrdered, SMT
  <2> QED BY <1>1, <2>3, <2>4, <2>5
<1>7. Upgrades(store)
  <2> SUFFICES ASSUME NEW h \in DOMAIN store, store[h].root = SentinelRoot
               PROVE  \E last \in Headers : UpgradedFrom(store, h, last)
    BY DEF Upgrades
  <2>1. h \in Heights(k) /\ stores[k][h].root = SentinelRoot
    BY <1>1, <1>2
  <2>2. PICK last \in Headers : UpgradedFrom(stores[k], h, last)
    BY <2>1 DEF Sound, Upgrades, Heights
  <2>3. /\ Revision(last.height) < Revision(h)
        /\ EndsRevision(last)
        /\ \A g \in Heights(k) : LT(g, h) => LTE(g, last.height) /\ last.height \in Heights(k)
    BY <2>2 DEF UpgradedFrom, Heights
  <2>4. last.height \in Height
    BY ClientAssumption DEF Height
  <2>5. ASSUME NEW g \in Heights(k), g \notin PruneHeights(k), LT(g, h)
        PROVE  LTE(g, last.height) /\ last.height \in DOMAIN store
    <3>1. LTE(g, last.height) /\ last.height \in Heights(k)
      BY <2>3, <2>5
    <3>2. last.height \in PruneHeights(k) => LTE(last.height, g)
      BY <2>5 DEF PruneHeights
    <3>3. last.height \notin PruneHeights(k)
      BY <1>3, <2>4, <2>5, <3>1, <3>2, HeightFacts
    <3> QED BY <1>1, <3>1, <3>3
  <2>6. ASSUME LT(hd.height, h)
        PROVE  LTE(hd.height, last.height) /\ last.height \in DOMAIN store
    <3>1. /\ Revision(hd.height) = Revision(trusted)
          /\ LT(trusted, hd.height)
          /\ trusted \notin PruneHeights(k)
      BY DEF CheckValidity, PruneHeights
    <3>2. LT(trusted, h) /\ trusted \in Height /\ h \in Height
      BY <1>3, <2>6, <3>1, HeightFacts
    <3>3. LTE(trusted, last.height) /\ last.height \in DOMAIN store
      BY <2>5, <3>1, <3>2
    <3>4. Revision(hd.height) = Revision(last.height) => LTE(hd.height, last.height)
      BY <2>3 DEF EndsRevision
    <3>5. LTE(hd.height, last.height)
      BY <1>3, <2>4, <3>1, <3>2, <3>3, <3>4, HeightFacts
    <3> QED BY <3>3, <3>5
  <2>7. ASSUME NEW g \in DOMAIN store, LT(g, h)
        PROVE  LTE(g, last.height) /\ last.height \in DOMAIN store
    BY <1>1, <2>5, <2>6, <2>7
  <2> QED BY <2>3, <2>7 DEF UpgradedFrom
<1> QED BY <1>4, <1>5, <1>6, <1>7 DEF Sound, store

\* A header that freezes the client is, with a block the client has, a cause.
LEMMA FreezeSound ==
  ASSUME IInv, NEW k \in DOMAIN states, NEW blocks, Sound(states[k], stores[k], blocks),
         NEW hd \in Headers, NEW trusted \in Heights(k), ~ Duplicate(k, hd),
         CheckValidity(k, hd, trusted), ConflictingHeader(k, hd) \/ NotMonotonic(k, hd)
  PROVE  Cause(blocks \union {hd})
<1>1. /\ hd = [height |-> hd.height, time |-> hd.time, root |-> hd.root]
      /\ hd.root # SentinelRoot
      /\ hd.height \in Height /\ Heights(k) \subseteq Height
  BY CounterpartyAssumption, ClientAssumption, ClientFacts DEF Height
<1>2. \A g \in Heights(k) : /\ BlockAt(stores[k], g) \in blocks
                            /\ BlockAt(stores[k], g).height = g
                            /\ BlockAt(stores[k], g).time = stores[k][g].time
                            /\ BlockAt(stores[k], g).root = stores[k][g].root
  BY DEF Sound, BlockAt, Heights
<1>3. CASE ConflictingHeader(k, hd)
  <2> DEFINE b == BlockAt(stores[k], hd.height)
  <2>1. b \in Blocks /\ b # hd /\ b.height = hd.height /\ b \in blocks
    BY <1>2, <1>3 DEF ConflictingHeader, Stored, BlockAt, Sound
  <2>2. b.root # hd.root
    <3>1. CASE b \in Headers
      BY <2>1, <3>1, CounterpartyAssumption
    <3>2. CASE b \notin Headers
      <4>1. PICK plan \in Plans : b = UpgradedConsState(plan)
        BY <2>1, <3>2 DEF Blocks
      <4>2. b.root = SentinelRoot
        BY <4>1, SMT DEF UpgradedConsState
      <4> QED BY <1>1, <4>2
    <3> QED BY <3>1, <3>2
  <2> HIDE DEF b
  <2>3. IsMisbehaviour(hd, b)
    BY <2>1, <2>2 DEF IsMisbehaviour
  <2> QED BY <1>1, <2>1, <2>3 DEF Cause
<1>4. ASSUME NEW g \in GetPreviousConsensusState(k, hd.height), stores[k][g].time >= hd.time
      PROVE  Cause(blocks \union {hd})
  <2> DEFINE b == BlockAt(stores[k], g)
  <2>1. b \in blocks /\ LT(b.height, hd.height) /\ hd.time <= b.time
    <3>1. stores[k][g].time \in Nat /\ hd.time \in Nat
      BY ClientFacts, ClientAssumption DEF GetPreviousConsensusState
    <3> QED BY <1>2, <1>4, <3>1 DEF GetPreviousConsensusState
  <2> HIDE DEF b
  <2>2. IsMisbehaviour(hd, b)
    BY <2>1 DEF IsMisbehaviour
  <2> QED BY <1>1, <2>1, <2>2 DEF Cause
<1>5. ASSUME NEW g \in GetNextConsensusState(k, hd.height), stores[k][g].time <= hd.time,
             ~ ConflictingHeader(k, hd)
      PROVE  Cause(blocks \union {hd})
  <2> DEFINE b == BlockAt(stores[k], g)
  <2>1. /\ g \in Heights(k) /\ LT(hd.height, g)
        /\ \A f \in Heights(k) : LT(hd.height, f) => LTE(g, f)
    BY DEF GetNextConsensusState
  <2>2. b \in blocks /\ LT(hd.height, b.height) /\ b.time <= hd.time
    BY <1>2, <1>5, <2>1
  <2>3. stores[k][g].root # SentinelRoot
    <3> SUFFICES ASSUME stores[k][g].root = SentinelRoot
                 PROVE  FALSE
      OBVIOUS
    <3>1. PICK last \in Headers : UpgradedFrom(stores[k], g, last)
      BY <2>1 DEF Sound, Upgrades, Heights
    <3>2. /\ Revision(hd.height) = Revision(trusted)
          /\ LT(trusted, hd.height)
          /\ hd.height \notin Heights(k)
      BY <1>5 DEF CheckValidity, Duplicate
    <3>3. LT(trusted, g) /\ last.height \in Height
      BY <1>1, <2>1, <3>2, HeightFacts, ClientAssumption DEF Height
    <3>4. LTE(trusted, last.height) /\ last.height \in Heights(k) /\ EndsRevision(last)
      BY <3>1, <3>3 DEF UpgradedFrom, Heights
    <3>5. Revision(hd.height) = Revision(last.height) => LTE(hd.height, last.height)
      BY <3>4 DEF EndsRevision
    <3>6. LTE(hd.height, last.height)
      BY <1>1, <3>2, <3>3, <3>4, <3>5, HeightFacts
    <3>7. LT(hd.height, last.height)
      BY <3>2, <3>4, <3>6 DEF LTE
    <3>8. LTE(g, last.height)
      BY <2>1, <3>4, <3>7
    <3>9. Revision(last.height) < Revision(g)
      BY <3>1 DEF UpgradedFrom
    <3>10. LT(last.height, g)
      BY <1>1, <2>1, <3>3, <3>9, HeightFacts
    <3> QED BY <1>1, <2>1, <3>3, <3>8, <3>10, HeightFacts
  <2>4. b.root # SentinelRoot
    BY <1>2, <2>1, <2>3
  <2> HIDE DEF b
  <2>5. IsMisbehaviour(b, hd)
    BY <2>2 DEF IsMisbehaviour
  <2> QED BY <2>2, <2>4, <2>5 DEF Cause
<1> QED BY <1>3, <1>4, <1>5 DEF NotMonotonic

\* An upgrade from the last block of a revision adds the first entry of a new one.
LEMMA UpgradeSound ==
  ASSUME IInv, NEW k \in DOMAIN states, NEW blocks, Sound(states[k], stores[k], blocks),
         NEW plan \in Plans, LT(states[k].latest, plan.to),
         stores[k][states[k].latest].root = plan.last, NEW st, ~ st.frozen
  PROVE  Sound(st, With(stores[k], plan.to, ConsensusState(UpgradedConsState(plan))),
               blocks \union {UpgradedConsState(plan)})
<1> DEFINE new == UpgradedConsState(plan)
           store == With(stores[k], plan.to, ConsensusState(new))
           last == BlockAt(stores[k], states[k].latest)
<1>1. /\ DOMAIN store = Heights(k) \union {plan.to}
      /\ store[plan.to] = ConsensusState(new)
      /\ \A g \in Heights(k) : g # plan.to => store[g] = stores[k][g]
  BY DEF With, Heights
<1>2. /\ states[k].latest \in Heights(k) /\ states[k].latest \in Height
      /\ Heights(k) \subseteq Height
      /\ \A g \in Heights(k) : LTE(g, states[k].latest)
  BY ClientFacts
<1>3. last \in Headers /\ last.height = states[k].latest /\ last.root = plan.last
  <2>1. last \in Blocks /\ last.height = states[k].latest /\ last.root = plan.last
    BY <1>2 DEF Sound, BlockAt, Heights
  <2>2. plan.last # SentinelRoot
    BY CounterpartyAssumption
  <2> HIDE DEF last
  <2> QED BY <2>1, <2>2, SMT DEF Blocks, UpgradedConsState
<1>4. /\ Revision(last.height) < Revision(plan.to) /\ EndsRevision(last)
      /\ plan.to \in Height
  BY <1>3, CounterpartyAssumption, ClientAssumption DEF EndsRevision, Height
<1> HIDE DEF last
<1>5. \A g \in Heights(k) : /\ Revision(g) < Revision(plan.to)
                            /\ LT(g, plan.to) /\ ~ LT(plan.to, g) /\ g # plan.to
  <2> SUFFICES ASSUME NEW g \in Heights(k)
               PROVE  Revision(g) < Revision(plan.to)
    BY <1>2, <1>4, HeightFacts, HeightOrder
  <2>1. Revision(g) <= Revision(last.height)
    BY <1>2, <1>3, HeightFacts
  <2>2. \A h \in Height : Revision(h) \in Nat
    BY DEF Revision, Height
  <2> QED BY <1>2, <1>3, <1>4, <2>1, <2>2, SMT
<1>6. new = [height |-> plan.to, time |-> new.time, root |-> SentinelRoot]
  BY SMT DEF UpgradedConsState
<1>7. blocks \union {new} \subseteq Blocks
  BY DEF Sound, Blocks
<1> HIDE DEF new, store
<1>8. store[plan.to].time = new.time /\ store[plan.to].root = SentinelRoot
  BY <1>1, <1>6, SMT DEF ConsensusState
<1>9. ASSUME NEW h \in DOMAIN store
      PROVE  BlockAt(store, h) \in blocks \union {new}
  <2>1. CASE h \in Heights(k)
    <3>1. BlockAt(store, h) = BlockAt(stores[k], h)
      BY <1>1, <1>5, <2>1 DEF BlockAt
    <3> QED BY <2>1, <3>1 DEF Sound, Heights
  <2>2. CASE h = plan.to
    BY <1>6, <1>8, <2>2 DEF BlockAt
  <2> QED BY <1>1, <1>9, <2>1, <2>2
<1>10. Ordered(store)
  <2>1. ASSUME NEW g \in DOMAIN store, NEW h \in DOMAIN store,
               Revision(g) = Revision(h), LT(g, h)
        PROVE  store[g].time < store[h].time
    <3>1. \A f \in Height : Revision(f) \in Nat /\ ~ LT(f, f)
      BY HeightOrder DEF Revision, Height
    <3>2. g \in Heights(k) /\ h \in Heights(k)
      BY <1>1, <1>2, <1>4, <1>5, <2>1, <3>1, SMT
    <3> QED BY <1>1, <1>5, <2>1, <3>2 DEF Sound, Ordered, Heights
  <2> QED BY <2>1 DEF Ordered
<1>11. Upgrades(store)
  <2> SUFFICES ASSUME NEW h \in DOMAIN store, store[h].root = SentinelRoot
               PROVE  \E l \in Headers : UpgradedFrom(store, h, l)
    BY DEF Upgrades
  <2>1. CASE h = plan.to
    <3>1. \A g \in DOMAIN store : LT(g, h) => g \in Heights(k)
      BY <1>1, <1>4, <2>1, HeightOrder
    <3> QED BY <1>1, <1>2, <1>3, <1>4, <2>1, <3>1 DEF UpgradedFrom
  <2>2. CASE h \in Heights(k)
    <3>1. PICK l \in Headers : UpgradedFrom(stores[k], h, l)
      BY <1>1, <1>5, <2>2 DEF Sound, Upgrades, Heights
    <3>2. \A g \in DOMAIN store : LT(g, h) => g \in Heights(k)
      BY <1>1, <1>5, <2>2
    <3>3. UpgradedFrom(store, h, l)
      BY <1>1, <3>1, <3>2 DEF UpgradedFrom, Heights
    <3> QED BY <3>3
  <2> QED BY <1>1, <2>1, <2>2
<1> QED BY <1>7, <1>9, <1>10, <1>11 DEF Sound, new, store

\* Client k, and no other, changes, and it is sound afterwards or replaced.
SoundStep(k) ==
  /\ DOMAIN states' \subseteq DOMAIN states \union {k}
  /\ DOMAIN known' = Clients
  /\ replaced \subseteq replaced'
  /\ \A j \in DOMAIN states : j # k => /\ states'[j] = states[j] /\ stores'[j] = stores[j]
                                       /\ known'[j] = known[j]
  /\ k \notin replaced' => Sound(states'[k], stores'[k], known'[k])

LEMMA SoundStepPreserves ==
  ASSUME AllSound, NEW k, SoundStep(k)
  PROVE  AllSound'
<1>1. ASSUME NEW j \in DOMAIN states' \ replaced'
      PROVE  Sound(states'[j], stores'[j], known'[j])
  <2>1. CASE j = k
    BY <1>1, <2>1 DEF SoundStep
  <2>2. CASE j # k
    BY <1>1, <2>2 DEF SoundStep, AllSound
  <2> QED BY <2>1, <2>2
<1> QED BY <1>1 DEF AllSound, SoundStep

\* Freezing changes the client state only.
LEMMA FrozenSound ==
  ASSUME IInv, AllSound, NEW k \in DOMAIN states, NEW new, new \subseteq Headers,
         states' = [states EXCEPT ![k].frozen = TRUE], UNCHANGED <<stores, replaced>>,
         known' = [known EXCEPT ![k] = @ \union new],
         k \notin replaced => Cause(known[k] \union new)
  PROVE  SoundStep(k)
<1>1. k \in Clients /\ k \in DOMAIN known
  BY DEF IInv, AllSound
<1>2. known'[k] = known[k] \union new
  BY <1>1
<1>3. ASSUME k \notin replaced
      PROVE  Sound(states'[k], stores'[k], known'[k])
  <2>1. Sound(states[k], stores[k], known[k])
    BY <1>3 DEF AllSound
  <2>2. known'[k] \subseteq Blocks
    BY <1>2, <2>1 DEF Sound, Blocks
  <2>3. Cause(known'[k]) /\ \A h \in DOMAIN stores[k] : BlockAt(stores[k], h) \in known'[k]
    BY <1>2, <1>3, <2>1 DEF Sound
  <2> QED BY <2>1, <2>2, <2>3 DEF Sound
<1> QED BY <1>1, <1>3, SMT DEF SoundStep, AllSound

LEMMA CreateKeepsSound ==
  ASSUME IInv, AllSound, NEW k \in Clients, NEW hd \in Headers, CreateClient(k, hd)
  PROVE  SoundStep(k)
<1>1. /\ states'[k] = [latest |-> hd.height, frozen |-> FALSE]
      /\ stores'[k] = Initialize(hd)
      /\ known'[k] = {hd}
  BY DEF CreateClient, Exists, With, AllSound
<1> DEFINE store == Initialize(hd)
<1>2. /\ DOMAIN store = {hd.height}
      /\ store[hd.height].time = hd.time /\ store[hd.height].root = hd.root
  BY DEF Initialize, ConsensusState
<1>3. /\ BlockAt(store, hd.height) = hd /\ hd.root # SentinelRoot
      /\ hd.height \in Height
  BY <1>2, CounterpartyAssumption, ClientAssumption DEF BlockAt, Height
<1> HIDE DEF store
<1>4. Ordered(store) /\ Upgrades(store)
  BY <1>2, <1>3, HeightOrder DEF Ordered, Upgrades
<1>5. Sound(states'[k], store, {hd})
  BY <1>1, <1>2, <1>3, <1>4, SMT DEF Sound, Blocks
<1>6. /\ DOMAIN states' \subseteq DOMAIN states \union {k}
      /\ \A j \in DOMAIN states : j # k => /\ states'[j] = states[j] /\ stores'[j] = stores[j]
                                           /\ known'[j] = known[j]
      /\ DOMAIN known' = Clients /\ replaced' = replaced
  BY DEF CreateClient, With, AllSound, IInv
<1> QED BY <1>1, <1>5, <1>6 DEF SoundStep, store

LEMMA UpdateKeepsSound ==
  ASSUME IInv, AllSound, NEW k \in DOMAIN states, NEW hd \in Headers,
         NEW trusted \in Heights(k), UpdateClient(k, hd, trusted)
  PROVE  SoundStep(k)
<1>1. /\ k \in Clients /\ k \in DOMAIN known /\ k \in DOMAIN stores
      /\ ~ states[k].frozen
      /\ known' = [known EXCEPT ![k] = @ \union {hd}] /\ replaced' = replaced
      /\ ~ Duplicate(k, hd) /\ CheckValidity(k, hd, trusted)
  BY ClientFacts DEF UpdateClient, CheckHeaderAndUpdateState, IInv, AllSound
<1>2. k \notin replaced => Sound(states[k], stores[k], known[k])
  BY DEF AllSound
<1>3. CASE /\ ConflictingHeader(k, hd) \/ NotMonotonic(k, hd)
           /\ states' = [states EXCEPT ![k].frozen = TRUE] /\ UNCHANGED stores
  <2>1. k \notin replaced => Cause(known[k] \union {hd})
    BY <1>1, <1>2, <1>3, FreezeSound
  <2> QED BY <1>1, <1>3, <2>1, FrozenSound
<1>4. CASE /\ ~ ConflictingHeader(k, hd) /\ ~ NotMonotonic(k, hd)
           /\ states' = [states EXCEPT ![k].latest = UpdatedHeight(k, hd)]
           /\ stores' = [stores EXCEPT ![k] =
                With([h \in Heights(k) \ PruneHeights(k) |-> stores[k][h]],
                     hd.height, ConsensusState(hd))]
  <2> DEFINE kept == [h \in Heights(k) \ PruneHeights(k) |-> stores[k][h]]
             st == [states[k] EXCEPT !.latest = UpdatedHeight(k, hd)]
  <2>1. hd.height \notin Heights(k)
    BY <1>1, <1>4 DEF Duplicate
  <2>2. st.frozen = states[k].frozen
    <3>1. states[k] \in [latest : Height, frozen : BOOLEAN]
      BY ClientFacts DEF GoodClient, ClientState
    <3> QED BY <3>1
  <2>3. /\ states'[k] = st
        /\ stores'[k] = With(kept, hd.height, ConsensusState(hd))
        /\ known'[k] = known[k] \union {hd}
    BY <1>1, <1>4
  <2>4. DOMAIN kept = Heights(k) \ PruneHeights(k) /\ \A h \in DOMAIN kept : kept[h] = stores[k][h]
    OBVIOUS
  <2> HIDE DEF kept, st
  <2>5. k \notin replaced => Sound(states'[k], stores'[k], known'[k])
    BY <1>1, <1>2, <1>4, <2>1, <2>2, <2>3, <2>4, UpdateSound
  <2>6. /\ DOMAIN states' = DOMAIN states /\ DOMAIN known' = Clients
        /\ \A j \in DOMAIN states : j # k => /\ states'[j] = states[j] /\ stores'[j] = stores[j]
                                             /\ known'[j] = known[j]
    BY <1>1, <1>4 DEF AllSound, IInv
  <2> QED BY <1>1, <2>5, <2>6 DEF SoundStep
<1> QED BY <1>3, <1>4 DEF UpdateClient, CheckHeaderAndUpdateState

LEMMA MisbehaviourKeepsSound ==
  ASSUME IInv, AllSound, NEW k \in Clients, NEW hd1 \in Headers, NEW hd2 \in Headers,
         SubmitMisbehaviour(k, hd1, hd2)
  PROVE  SoundStep(k)
<1>1. Cause(known[k] \union {hd1, hd2})
  BY CounterpartyAssumption
     DEF SubmitMisbehaviour, CheckMisbehaviourAndUpdateState, Cause
<1> QED BY <1>1, FrozenSound
        DEF SubmitMisbehaviour, CheckMisbehaviourAndUpdateState, Exists

LEMMA UpgradeKeepsSound ==
  ASSUME IInv, AllSound, NEW k \in Clients, NEW plan \in Plans, UpgradeClient(k, plan)
  PROVE  SoundStep(k)
<1> DEFINE st == [latest |-> plan.to, frozen |-> FALSE]
           new == UpgradedConsState(plan)
           store == With(stores[k], plan.to, ConsensusState(new))
<1>1. /\ k \in DOMAIN states /\ k \in DOMAIN stores /\ k \in DOMAIN known
      /\ LT(states[k].latest, plan.to) /\ stores[k][states[k].latest].root = plan.last
      /\ states' = [states EXCEPT ![k] = st] /\ stores' = [stores EXCEPT ![k] = store]
      /\ known' = [known EXCEPT ![k] = @ \union {new}] /\ replaced' = replaced
  BY DEF UpgradeClient, VerifyUpgradeAndUpdateState, Exists, IInv, AllSound
<1>2. ~ st.frozen
  OBVIOUS
<1> HIDE DEF st, new, store
<1>3. states'[k] = st /\ stores'[k] = store /\ known'[k] = known[k] \union {new}
  BY <1>1
<1>4. k \notin replaced => Sound(st, store, known[k] \union {new})
  BY <1>1, <1>2, UpgradeSound DEF AllSound, store, new
<1>5. /\ DOMAIN states' = DOMAIN states /\ DOMAIN known' = Clients
      /\ \A j \in DOMAIN states : j # k => /\ states'[j] = states[j] /\ stores'[j] = stores[j]
                                           /\ known'[j] = known[j]
  BY <1>1 DEF AllSound, IInv
<1> QED BY <1>1, <1>3, <1>4, <1>5 DEF SoundStep

\* A client that governance replaces is left to it.
LEMMA ProposalKeepsSound ==
  ASSUME IInv, AllSound, NEW k \in DOMAIN states, NEW j \in DOMAIN states,
         ClientUpdateProposal(k, j)
  PROVE  SoundStep(k)
<1>1. k \in replaced' /\ replaced \subseteq replaced'
  BY DEF ClientUpdateProposal
<1>2. /\ DOMAIN states' = DOMAIN states /\ DOMAIN known' = Clients
      /\ \A i \in DOMAIN states : i # k => /\ states'[i] = states[i] /\ stores'[i] = stores[i]
                                           /\ known'[i] = known[i]
  BY DEF ClientUpdateProposal, CheckSubstituteAndUpdateState, AllSound, IInv
<1> QED BY <1>1, <1>2 DEF SoundStep

LEMMA NextSound ==
  ASSUME IInv, AllSound, [Next]_vars
  PROVE  AllSound'
<1>1. ASSUME NEW k \in Clients, NEW hd \in Headers, CreateClient(k, hd)
      PROVE  AllSound'
  BY <1>1, CreateKeepsSound, SoundStepPreserves
<1>2. ASSUME NEW k \in DOMAIN states, NEW hd \in Headers, NEW trusted \in Heights(k),
             UpdateClient(k, hd, trusted)
      PROVE  AllSound'
  BY <1>2, UpdateKeepsSound, SoundStepPreserves
<1>3. ASSUME NEW k \in Clients, NEW hd1 \in Headers, NEW hd2 \in Headers,
             SubmitMisbehaviour(k, hd1, hd2)
      PROVE  AllSound'
  BY <1>3, MisbehaviourKeepsSound, SoundStepPreserves
<1>4. ASSUME NEW k \in Clients, NEW plan \in Plans, UpgradeClient(k, plan)
      PROVE  AllSound'
  BY <1>4, UpgradeKeepsSound, SoundStepPreserves
<1>5. ASSUME NEW k \in DOMAIN states, NEW j \in DOMAIN states, ClientUpdateProposal(k, j)
      PROVE  AllSound'
  BY <1>5, ProposalKeepsSound, SoundStepPreserves
<1>6. CASE NewBlock \/ UNCHANGED vars
  BY <1>6 DEF NewBlock, vars, AllSound
<1> QED BY <1>1, <1>2, <1>3, <1>4, <1>5, <1>6 DEF Next

LEMMA SoundInvariance == Spec => []AllSound
<1>1. Init => AllSound
  BY SMT DEF Init, AllSound
<1>2. IInv /\ AllSound /\ [Next]_vars => AllSound'
  BY NextSound
<1> QED BY <1>1, <1>2, Invariance, PTL DEF Spec

\* In whatever order headers arrive, over pruning and upgrades, the blocks of a revision
\* that a client stores are later the higher they are (update.go,
\* CheckHeaderAndUpdateState).
THEOREM TimesAlwaysIncrease == Spec => []TimesIncrease
<1>1. AllSound => TimesIncrease
  BY DEF AllSound, Sound, Ordered, TimesIncrease, Heights
<1> QED BY <1>1, SoundInvariance, PTL

\* Only two blocks that no honest chain has both freeze a client, in whatever order
\* headers arrive and whatever was pruned (CheckHeaderAndUpdateState,
\* CheckMisbehaviourAndUpdateState).
THEOREM AlwaysFrozenForCause == Spec => []FrozenForCause
<1>1. AllSound => FrozenForCause
  BY DEF AllSound, Sound, Cause, FrozenForCause
<1> QED BY <1>1, SoundInvariance, PTL

=============================================================================
