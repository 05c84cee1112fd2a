-------------------------- MODULE TendermintClient --------------------------
(***************************************************************************)
(* The Tendermint light client (ICS 7) and the client keeper (ICS 2) that  *)
(* drives it: creation, updates with headers in any order, misbehaviour,   *)
(* expiry and pruning, upgrades to a new revision, replacement by          *)
(* governance, and the delay before a header may be used for packets.      *)
(*                                                                         *)
(* A header is its height, its time and its root; the root stands for the  *)
(* block, so two headers of one height with different roots are a fork.    *)
(* Every header of Headers is signed by enough of the trusted validators:  *)
(* what light.Verify decides from heights and times is modelled, what it   *)
(* decides from signatures is not.  A consensus state and the metadata     *)
(* written with it (processed time, processed height, iteration key) are   *)
(* one record of the client's store.                                       *)
(***************************************************************************)
EXTENDS Naturals, FiniteSets

CONSTANTS
  Clients,                      \* the client identifiers of the chain
  Headers,                      \* headers of the counterparty, forged forks included
  Trusted,                      \* roots of the headers each client may be created from
  Plans,                        \* upgrades of the counterparty: the roots of its last two
                                \* blocks and the height the new revision starts from
  SentinelRoot,                 \* the root of an upgraded consensus state
  TrustingPeriod, MaxClockDrift,
  DelayPeriod,                  \* of the connection that uses the client
  MaxExpectedTimePerBlock,      \* parameter of 03-connection
  AllowUpdateAfterExpiry, AllowUpdateAfterMisbehaviour,
  BlockTimes,                   \* times that may pass from one block to the next
  MaxHeight                     \* bound on the blocks of this chain

VARIABLES
  states,      \* the client states of the clients that exist
  stores,      \* their consensus states with metadata, by height
  height,      \* height of this chain
  now,         \* its block time
  seen,        \* history: when a block was first stored, by root
  known,       \* history: the blocks each client has verified or stored
  replaced     \* history: the clients governance has replaced

vars == <<states, stores, height, now, seen, known, replaced>>

\* Params.Validate of 03-connection refuses a zero time per block.
ASSUME ClientAssumption ==
  /\ \A hd \in Headers : hd.height \in Nat \X Nat /\ hd.time \in Nat
  /\ \A plan \in Plans : plan.to \in Nat \X Nat /\ \E hd \in Headers : hd.root = plan.previous
  /\ TrustingPeriod \in Nat /\ DelayPeriod \in Nat
  /\ MaxExpectedTimePerBlock \in Nat \ {0}
  /\ BlockTimes \subseteq Nat

Revision(h) == h[1]

\* Height.Compare: revisions first.
LT(g, h) == g[1] < h[1] \/ (g[1] = h[1] /\ g[2] < h[2])

LTE(g, h) == g = h \/ LT(g, h)

\* The root stands for the block, and the upgraded consensus state is none.  The block
\* named last by a plan is the last of its revision, and the plan starts a new one.
ASSUME CounterpartyAssumption ==
  /\ \A hd \in Headers : /\ hd = [height |-> hd.height, time |-> hd.time, root |-> hd.root]
                        /\ hd.root # SentinelRoot
  /\ \A hd1, hd2 \in Headers : hd1.root = hd2.root => hd1 = hd2
  /\ \A plan \in Plans : plan.last # SentinelRoot
  /\ \A plan \in Plans, last \in Headers : last.root = plan.last =>
       /\ Revision(last.height) < Revision(plan.to)
       /\ \A hd \in Headers :
            Revision(hd.height) = Revision(last.height) => LTE(hd.height, last.height)

Maximum(g, h) == IF LT(g, h) THEN h ELSE g

Heights(k) == DOMAIN stores[k]

Stored(k, h) == [height |-> h, time |-> stores[k][h].time, root |-> stores[k][h].root]

ConsensusState(hd) ==
  [time |-> hd.time, root |-> hd.root, processedTime |-> now, processedHeight |-> height]

\* The blocks whose metadata the history keeps: the sentinel is no block.
Seen(root) ==
  IF root = SentinelRoot \/ root \in DOMAIN seen THEN seen
  ELSE [r \in DOMAIN seen \union {root} |->
          IF r = root THEN [time |-> now, height |-> height] ELSE seen[r]]

With(f, x, v) == [y \in DOMAIN f \union {x} |-> IF y = x THEN v ELSE f[y]]

Init ==
  /\ states = <<>>
  /\ stores = <<>>
  /\ height = 1
  /\ now \in BlockTimes
  /\ seen = <<>>
  /\ known = [k \in Clients |-> {}]
  /\ replaced = {}

-----------------------------------------------------------------------------
IsExpired(time) == time + TrustingPeriod <= now

Status(k) ==
  CASE states[k].frozen -> "Frozen"
    [] ~states[k].frozen /\ states[k].latest \notin Heights(k) -> "Unknown"
    [] OTHER -> IF IsExpired(stores[k][states[k].latest].time) THEN "Expired" ELSE "Active"

Exists(k) == k \in DOMAIN states

\* Initialize writes the metadata of the first consensus state.
Initialize(hd) == [h \in {hd.height} |-> ConsensusState(hd)]

CreateClient(k, hd) ==
  /\ ~Exists(k)
  /\ states' = With(states, k, [latest |-> hd.height, frozen |-> FALSE])
  /\ stores' = With(stores, k, Initialize(hd))
  /\ seen' = Seen(hd.root)
  /\ known' = [known EXCEPT ![k] = {hd}]
  /\ UNCHANGED <<height, now, replaced>>

\* The parts of light.Verify and checkValidity that heights and times decide.
CheckValidity(k, hd, trusted) ==
  LET time == stores[k][trusted].time
  IN  /\ Revision(hd.height) = Revision(trusted)
      /\ LT(trusted, hd.height)
      /\ ~IsExpired(time)
      /\ time < hd.time
      /\ hd.time < now + MaxClockDrift

GetPreviousConsensusState(k, h) ==
  {g \in Heights(k) : LT(g, h) /\ \A f \in Heights(k) : LT(f, h) => LTE(f, g)}

\* A lookup that finds no later consensus state.
WrongGetNextConsensusState(k, h) == {}

GetNextConsensusState(k, h) ==
  {g \in Heights(k) : LT(h, g) /\ \A f \in Heights(k) : LT(h, f) => LTE(g, f)}

\* Treats every header of a height that is stored as a conflict.
WrongConflictingHeader(k, hd) == hd.height \in Heights(k)

ConflictingHeader(k, hd) ==
  hd.height \in Heights(k) /\ Stored(k, hd.height) # hd

Duplicate(k, hd) ==
  hd.height \in Heights(k) /\ ~ConflictingHeader(k, hd)

NotMonotonic(k, hd) ==
  \/ \E g \in GetPreviousConsensusState(k, hd.height) : stores[k][g].time >= hd.time
  \/ \E g \in GetNextConsensusState(k, hd.height) : stores[k][g].time <= hd.time

\* The earliest consensus state, and only it, is deleted when it has expired.
PruneHeights(k) ==
  {h \in Heights(k) : IsExpired(stores[k][h].time) /\ \A g \in Heights(k) : LTE(h, g)}

\* Makes the height of every header the latest one.
WrongUpdatedHeight(k, hd) == hd.height

UpdatedHeight(k, hd) == Maximum(states[k].latest, hd.height)

\* A header that is already stored returns early and changes nothing.  One that
\* conflicts with what is stored freezes the client, and its consensus state is not
\* stored.
CheckHeaderAndUpdateState(k, hd, trusted) ==
  /\ trusted \in Heights(k)
  /\ ~Duplicate(k, hd)
  /\ CheckValidity(k, hd, trusted)
  /\ \/ /\ ConflictingHeader(k, hd) \/ NotMonotonic(k, hd)
        /\ states' = [states EXCEPT ![k].frozen = TRUE]
        /\ UNCHANGED <<stores, seen>>
     \/ /\ ~ConflictingHeader(k, hd) /\ ~NotMonotonic(k, hd)
        /\ states' = [states EXCEPT ![k].latest = UpdatedHeight(k, hd)]
        /\ LET kept == [h \in Heights(k) \ PruneHeights(k) |-> stores[k][h]]
           IN  stores' = [stores EXCEPT ![k] = With(kept, hd.height, ConsensusState(hd))]
        /\ seen' = Seen(hd.root)

UpdateClient(k, hd, trusted) ==
  /\ Exists(k)
  /\ Status(k) = "Active"
  /\ CheckHeaderAndUpdateState(k, hd, trusted)
  /\ known' = [known EXCEPT ![k] = @ \union {hd}]
  /\ UNCHANGED <<height, now, replaced>>

-----------------------------------------------------------------------------
\* Misbehaviour: a fork at one height, or a block that is not later than a lower one.
IsMisbehaviour(hd1, hd2) ==
  \/ hd1.height = hd2.height /\ hd1.root # hd2.root
  \/ LT(hd2.height, hd1.height) /\ hd1.time <= hd2.time

\* Two headers of one chain: its identifier has the revision, and the identifiers must be
\* the same.
MisbehaviourValidateBasic(hd1, hd2) ==
  /\ Revision(hd1.height) = Revision(hd2.height)
  /\ ~LT(hd1.height, hd2.height)

CheckMisbehaviourHeader(k, hd, trusted) ==
  /\ trusted \in Heights(k)
  /\ LT(trusted, hd.height)
  /\ ~IsExpired(stores[k][trusted].time)

CheckMisbehaviourAndUpdateState(k, hd1, hd2) ==
  /\ IsMisbehaviour(hd1, hd2)
  /\ \A hd \in {hd1, hd2} : \E trusted \in Heights(k) : CheckMisbehaviourHeader(k, hd, trusted)
  /\ states' = [states EXCEPT ![k].frozen = TRUE]

SubmitMisbehaviour(k, hd1, hd2) ==
  /\ MisbehaviourValidateBasic(hd1, hd2)
  /\ Exists(k)
  /\ Status(k) = "Active"
  /\ CheckMisbehaviourAndUpdateState(k, hd1, hd2)
  /\ known' = [known EXCEPT ![k] = @ \union {hd1, hd2}]
  /\ UNCHANGED <<stores, height, now, seen, replaced>>

\* What the counterparty commits for an upgrade: the client state when the plan is made,
\* and in the block before the plan's height a consensus state with the time of that
\* block.  The root of the header at the plan's height is the first to include both.
UpgradedConsState(plan) ==
  [height |-> plan.to, time |-> (CHOOSE hd \in Headers : hd.root = plan.previous).time,
   root |-> SentinelRoot]

\* Both are proven against the latest consensus state.
VerifyUpgradeAndUpdateState(k, plan) ==
  /\ LT(states[k].latest, plan.to)
  /\ stores[k][states[k].latest].root = plan.last
  /\ states' = [states EXCEPT ![k] = [latest |-> plan.to, frozen |-> FALSE]]
  /\ stores' = [stores EXCEPT ![k] = With(@, plan.to, ConsensusState(UpgradedConsState(plan)))]

UpgradeClient(k, plan) ==
  /\ Exists(k)
  /\ Status(k) = "Active"
  /\ VerifyUpgradeAndUpdateState(k, plan)
  /\ known' = [known EXCEPT ![k] = @ \union {UpgradedConsState(plan)}]
  /\ UNCHANGED <<height, now, seen, replaced>>

MayBeReplaced(k) ==
  \/ Status(k) = "Frozen" /\ AllowUpdateAfterMisbehaviour
  \/ Status(k) = "Expired" /\ AllowUpdateAfterExpiry

\* A substitute that need not be active.
WrongIsSubstitute(k, j) == LT(states[k].latest, states[j].latest)

IsSubstitute(k, j) ==
  /\ LT(states[k].latest, states[j].latest)
  /\ Status(j) = "Active"

\* Copies the substitute's latest consensus state and its metadata.  All clients here
\* have equal parameters, as IsMatchingClientState demands.
CheckSubstituteAndUpdateState(k, j) ==
  LET new == states[j].latest
  IN  /\ MayBeReplaced(k)
      /\ states' = [states EXCEPT ![k] = [latest |-> new, frozen |-> FALSE]]
      /\ stores' = [stores EXCEPT ![k] = With(@, new, stores[j][new])]

ClientUpdateProposal(k, j) ==
  /\ Exists(k) /\ Exists(j)
  /\ Status(k) # "Active"
  /\ IsSubstitute(k, j)
  /\ CheckSubstituteAndUpdateState(k, j)
  /\ known' = [known EXCEPT ![k] =
       {Stored(k, h) : h \in Heights(k)} \union {Stored(j, states[j].latest)}]
  /\ replaced' = replaced \union {k}
  /\ UNCHANGED <<height, now, seen>>

\* This chain commits a block.
NewBlock ==
  /\ height < MaxHeight
  /\ height' = height + 1
  /\ \E d \in BlockTimes : now' = now + d
  /\ UNCHANGED <<states, stores, seen, known, replaced>>

Next ==
  \/ \E k \in Clients, hd \in Headers : hd.root \in Trusted[k] /\ CreateClient(k, hd)
  \/ \E k \in DOMAIN states : \E hd \in Headers, trusted \in Heights(k) : UpdateClient(k, hd, trusted)
  \/ \E k \in Clients, hd1, hd2 \in Headers : SubmitMisbehaviour(k, hd1, hd2)
  \/ \E k \in Clients, plan \in Plans : UpgradeClient(k, plan)
  \/ \E k, j \in DOMAIN states : ClientUpdateProposal(k, j)
  \/ NewBlock

Spec == Init /\ [][Next]_vars

-----------------------------------------------------------------------------
\* Blocks of the delay a connection asks for, rounded down.
WrongGetBlockDelay(delay) ==
  IF MaxExpectedTimePerBlock = 0 THEN 0 ELSE delay \div MaxExpectedTimePerBlock

GetBlockDelay(delay) ==
  IF MaxExpectedTimePerBlock = 0 THEN 0
  ELSE (delay + MaxExpectedTimePerBlock - 1) \div MaxExpectedTimePerBlock

VerifyDelayPeriodPassed(k, h) ==
  /\ now >= stores[k][h].processedTime + DelayPeriod
  /\ height >= stores[k][h].processedHeight + GetBlockDelay(DelayPeriod)

ProduceVerificationArgs(k, h) ==
  /\ LTE(h, states[k].latest)
  /\ h \in Heights(k)

\* The client's verification of a packet's commitment, acknowledgement, missing receipt
\* or next sequence, with a proof that was built for the block stored at h.
VerifyMembership(k, h) ==
  /\ ProduceVerificationArgs(k, h)
  /\ VerifyDelayPeriodPassed(k, h)
  /\ stores[k][h].root # SentinelRoot

\* The same, asked for by a connection.
VerifyPacket(k, h) ==
  /\ Status(k) = "Active"
  /\ VerifyMembership(k, h)

-----------------------------------------------------------------------------
\* The client state and the store agree: the latest height is the greatest of the
\* heights stored, whatever the order of the updates and whatever was pruned, so the
\* status of a client is never Unknown (client_state.go, Status).
TypeOK ==
  /\ DOMAIN states = DOMAIN stores
  /\ DOMAIN states \subseteq Clients
  /\ \A k \in DOMAIN states :
       /\ states[k].frozen \in BOOLEAN
       /\ states[k].latest \in Heights(k)
       /\ \A h \in Heights(k) :
            /\ LTE(h, states[k].latest)
            /\ stores[k][h].processedTime <= now
            /\ stores[k][h].processedHeight <= height

\* "Check that consensus state timestamps are monotonic" (update.go): in whatever order
\* headers arrive, the blocks of a revision that a client stores are later the higher
\* they are.  A replacement by governance is not checked this way.
TimesIncrease ==
  \A k \in DOMAIN states \ replaced : \A g, h \in Heights(k) :
    Revision(g) = Revision(h) /\ LT(g, h) => stores[k][g].time < stores[k][h].time

\* A client is frozen for a cause: among the blocks that it verified or stored, two of
\* one height differ or a block is not later than a lower one (update.go,
\* misbehaviour_handle.go).  Late, repeated or reordered headers of one honest chain
\* never freeze it, over upgrades and pruning too.  (A client that governance moved to
\* an upgraded consensus state lacks the blocks before it, and a late header of the old
\* revision may freeze it: the upgraded state has the time of the last block but one.)
FrozenForCause ==
  \A k \in DOMAIN states \ replaced :
    states[k].frozen => \E b, c \in known[k] : b.root # SentinelRoot /\ IsMisbehaviour(b, c)

\* Only an active client changes.  One that is frozen or expired changes only when
\* governance moves it to the latest block of an active client, and no step moves a
\* client to a lower height (client.go, proposal.go).
OnlyTrustedChanges ==
  [][\A k \in DOMAIN states :
       \/ states'[k] = states[k] /\ stores'[k] = stores[k]
       \/ Status(k) = "Active" /\ LTE(states[k].latest, states'[k].latest)
       \/ /\ LT(states[k].latest, states'[k].latest)
          /\ \E j \in DOMAIN states \ {k} :
               /\ ~states[j].frozen
               /\ states[j].latest = states'[k].latest
               /\ stores[j][states[j].latest].time + TrustingPeriod > now]_vars

\* A block is used for packets only after this chain has had it for the connection's
\* delay, in time and in blocks of the expected length, through whichever client and
\* header it first came (verifyDelayPeriodPassed, getBlockDelay).
DelayHasPassed ==
  \A k \in DOMAIN states : \A h \in Heights(k) :
    VerifyPacket(k, h) =>
      LET first == seen[stores[k][h].root]
      IN  /\ now - first.time >= DelayPeriod
          /\ (height - first.height) * MaxExpectedTimePerBlock >= DelayPeriod

=============================================================================
