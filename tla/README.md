# TLA+ models and proofs of ibc-go

This directory specifies the protocol parts of ibc-go: what the handlers in
`modules/` do to the stores of two chains, what that guarantees to the modules
on top, and machine-checked arguments that it does. Every definition is written
from the Go source; `PROJECT.json` maps it to the lines it models.

## The system

ibc-go lets a module on one chain send packets to a module on another. The chains
never talk to each other. Relayers, whom nobody trusts, read one chain and submit
transactions to the other, and every claim about the other chain comes with a
Merkle proof at a height the local light client knows.

| part | source | interacts with |
|---|---|---|
| light clients (ICS 2, 6, 7, 9) | `core/02-client`, `light-clients/*` | hold consensus states of the counterparty; verify proofs for connections |
| connections (ICS 3) | `core/03-connection` | a handshake over two clients; the `Verify*` functions used by channels |
| channels and packets (ICS 4) | `core/04-channel` | handshake, sending, receiving, acknowledging, timing out |
| ports and routing (ICS 5, 26) | `core/05-port`, `core/keeper/msg_server.go` | bind modules to channels, run a handler and then the module's callback in one transaction |
| token transfer (ICS 20) | `apps/transfer` | a module on UNORDERED channels |
| interchain accounts (ICS 27) | `apps/27-interchain-accounts` | modules on ORDERED channels |
| commitments, identifiers (ICS 23, 24) | `core/23-commitment`, `core/24-host` | proofs and store paths |
| ante decorator | `core/ante` | refuses transactions of redundant packet messages at CheckTx |
| queries, CLI, genesis, migrations, simulation | throughout | read or copy state |

`PROJECT.json` lists them all with what is modelled of each, and the hazards the
code is exposed to with the properties that would notice them going wrong.

## Modules

| module | content |
|---|---|
| `Delivery` | what a channel promises: the status of each packet, without chains, proofs or relayers |
| `Packets` | the packet handlers, the closing and the last two steps of the opening handshake on two chains, with their blocks and light clients, and the ante decorator; the properties |
| `ChannelHandshake` | the six steps of the channel handshake, between any number of ends |
| `ConnectionHandshake` | the four steps of the connection handshake, with client validation and version negotiation |
| `TendermintClient` | the Tendermint client and the client keeper: updates, misbehaviour, expiry, upgrade, replacement, delay |
| `SoloMachine` | the solo machine client, and the machine as the client needs it to be |
| `Transfer` | token transfer over channels of `Delivery` |
| `InterchainAccounts` | interchain accounts over ORDERED channels of `Delivery` |
| `MC...` | values of the constants of each of these for TLC |
| `PacketsSafety` | proofs: the inductive invariant of `Packets`, the safety theorems, and that `Packets` implements `Delivery` |
| `TransferInvariant` | proofs: sums and bags, and what each action of `Transfer` does to balances, packets and traces |
| `TransferSafety` | proofs: vouchers are backed and value is conserved |
| `ChannelHandshakeSafety`, `ConnectionSafety`, `TendermintSafety`, `SoloMachineSafety`, `InterchainAccountsSafety` | proofs about the module each extends |

How they fit together: clients decide what a proof shows, connections and channels
use proofs, `Packets` shows what channels promise (`Delivery`), and the two
applications are built on that promise. `Packets` and the handshakes therefore model
a client by the set of heights or states it can prove; `TendermintClient` is about
how that set comes about.

### Packets

Chain `"A"` has run ChanOpenInit and chain `"B"` ChanOpenTry. Their connection is
OPEN and has no delay period, and both chains stay in one revision.

- `store[c]` is the channel's part of chain c's store: the channel end's state,
  whether it knows the counterparty's channel identifier (`linked`), the three
  sequence counters, commitments, receipts and acknowledgements
  (`04-channel/keeper/keeper.go`). A commitment is the packet itself and an
  acknowledgement is `"result"` or `"error"`: hashing is taken to be injective.
- `history[c][h]` is the store to which the header of height h commits, that is
  the state after block h - 1, and `times[c][h]` that block's time. Block
  `Len(history[c])` is being executed.
- `clients[c]` are the heights of the peer for which c's client holds a consensus
  state, and `active[c]` is its status.
- `app[c]` records the callbacks that the module on c has executed. It stands for
  any module: OnRecvPacket may succeed, fail or postpone its acknowledgement.

Each action is one message handler with everything it does, including the
callback that `msg_server.go` runs in the same transaction; a transaction that
fails changes nothing and is not a step. A handler that needs a proof picks any
height of `clients[c]` and reads the peer's store of that height (`Proven`), so a
proof can be as old as the client allows. Nothing is consumed by reading it:
every message can be submitted again, late, or never. That covers all relayers.

The remaining actions are the environment: NewBlock, UpdateClient (any unknown
height above a trusted one, possibly deleting the earliest consensus state),
ExpireClient and RecoverClient (the governance proposal that replaces an expired
client's state by a newer one).

The ante decorator (`core/ante/ante.go`) is no step, as it changes no state. `Redundant`
and `AnteHandleRefuses` are what it computes from the store of the block it runs in.

Two choices are worth knowing. WriteAcknowledgement requires that the packet was
received; the code leaves that to the module, as its comment says (`CONTRACT` 2).
And a module that first accepted a packet and later acknowledges it with an error
is taken to undo what it did.

### Delivery

A packet moves from `unsent` to `sent`, is delivered (`applied`, or `failed` when
the receiver reports an error), and then `confirmed` or `errored` at its sender;
or it goes from `sent` to `timedOut`. On an ORDERED channel only after all earlier
packets were delivered may a packet be delivered. `Packets` implements it under
the mapping `Status`, which computes the status from the two stores and the
callbacks; a combination that Delivery does not know maps to `"invalid"` and
would refute the refinement.

### ChannelHandshake

`Packets` starts with one pair of ends; this module is about how pairs come about.
Two chains share a connection that is OPEN on both and allows both orderings.
`ends[c][i]` is chain c's channel `channel-{i-1}` with its state, ordering, ports,
the counterparty's identifier (`None` when still unknown) and version. `proofs[c]`
holds the ends that blocks of c have committed, each with its identifier; a step that needs a
proof takes any of them, however old.

Each action is one handler with its application callback. ChanOpenTry either creates
an end or, when the message names a previous channel with the same fields in INIT,
turns that one to TRYOPEN: this is how crossing hellos meet. `Negotiate` gives the
versions that OnChanOpenTry may return for a proposed one. The identifier and version
that ChanOpenAck writes come from the message and are those the proof shows. Left
out are sequence numbers, which the first step sets to 1 (`Packets` has them), and
capabilities, which are created with an end and stay with the owner of its port.

### ConnectionHandshake

The same way of modelling, one layer down. `ends[c][i]` is chain c's
`connection-{i-1}`, `paths[c][k]` the connections listed under client k, `frozen[c]`
the frozen clients, and a proof shows an end together with the clients that were
frozen then. `Clients[c][k]` says which chain a client really follows and whether its
parameters are right: it may follow an impostor, which proves anything (`Forgeries`).
Consensus states of different chains differ, so the comparison of the proven
consensus state with this chain's own one holds exactly if the client follows this
chain; heights are left out with it, and so is the commitment prefix. Versions are
records of an identifier and a sequence of features, and `PickVersion`,
`VerifyProposedVersion` and `GetFeatureSetIntersection` are the functions of
`version.go`.

### TendermintClient

`states` and `stores` are the client states and consensus states of the clients of
one chain; a consensus state is one record with its metadata (processed time,
processed height, iteration key), which the code writes and deletes together. A header
is a height with a revision, a time and a root. `Headers` holds every header that
enough validators signed, those of a fork included: what signatures decide is the
choice of that set, what heights, times and the trusting period decide is modelled.
`seen`, `known` and `replaced` are history variables for the properties.

UpdateClient has the paths of `update.go`: a header already stored changes nothing,
one that conflicts with a stored one or whose time is not between its neighbours'
freezes the client, any other is stored after the earliest expired consensus state is
deleted. `VerifyMembership` and `VerifyDelayPeriodPassed` guard what packets use.

### SoloMachine

A proof is a signature over a sequence, a time, the client's diversifier and data.
The clients follow `06-solomachine`; the machine is outside the repository and keeps
a `book` of sequence, key and diversifier for each client. Signatures are kept in
`signed` for good and may be submitted to any client at any time. VerifyHandshake is
the sequence of three proofs that ConnOpenTry or ConnOpenAck verifies in one transaction.
`TimeoutPacketVerifies` and `TimeoutOnCloseVerifies` are what the two timeout messages of
a channel ask of the client; they are no actions, because they never hold once a
connection is open (`TimeoutsNeverProved`).

### Transfer

A denomination is its trace: the hops it came through and the base name. `bank[c]` is
a bag (a function that counts copies) of pairs of account and denomination, escrow
accounts included; `traces[c]` is the trace store. SendTransfer, OnRecvPacket, OnAcknowledgementPacket and
OnTimeoutPacket are those of `relay.go`, each composed with the step of `Delivery`
that the packet takes: an error in OnRecvPacket is `failed`, and a refund that fails
disables the step, as the transaction fails. Governance switches sending and
receiving. Hashing is taken to be injective and base denominations to contain no `/`.

### InterchainAccounts

Several controller chains and one host. Ports, channel ends, active channels and
registered addresses are as in the stores of the two keepers; the handshake callbacks
are operators named as in the code, used by the message that runs them. Both ends check
the connection sequences in a port. The controllers in `Foreign` run another
implementation that leaves its check out, so that the host's own check has to do.

The host executes the messages of a transaction one after the other, and any may fail.
`CacheContext` is that loop: it appends to a copy of what the host has executed and stops
at the first failure. ExecuteTx writes the copy back only if all succeeded, and RecvPacket
of core keeps what the callback wrote only if its acknowledgement is a success. The two
caches are nested, so either alone would keep transactions atomic.

A packet ends by an acknowledgement, by TimeoutPacket, or by TimeoutOnClose once the host
end has closed. The last also works on an end that is CLOSED itself, for the packets that
were left when an earlier one timed out. Both timeouts run OnTimeoutPacket, which deletes
the active channel of the port, whichever channel that is.

TrySendTx stands also for the authentication module, which holds the channel's
capability and may send packets that time out. The host never sends, so
OnChanCloseConfirm of a controller is never reached, and handlers that only refuse
are no steps.

## What is checked

Every property that holds has a mutant, an operator `WrongX` beside the definition `X` of the
model, that violates it.

| run | instance | shows |
|---|---|---|
| `packets_unordered` | one packet from A, timeouts by height or by time, 3 blocks per chain, both clients may expire | the safety properties, the refinement and `RefusedStaysUseless` |
| `packets_ordered` | two packets from B that may expire at different blocks, 4 blocks of A and 2 of B | the same for order, `OrderedTimeoutIsFinal` and `ClosedIsFinal` |
| `packets_live` | two packets from B on an ORDERED channel, fair relayer | `EveryPacketResolves` |
| `packets_optimistic_send` | one packet from B, fair relayer | a counterexample to `ExpiredPacketTimesOut` |
| `channel_handshake` | one end on A, two on B, four proposals, modules that negotiate alike | the properties of the handshake |
| `channel_versions` | the same, with a module on B that returns a version of its own | a counterexample to `VersionsAgree` |
| `connection_handshake` | one end on A, two on B; B has a good client, one of an impostor and one with wrong parameters; A's client may be frozen | the properties of the handshake |
| `tendermint_client` | two clients, three blocks and a fork, an upgrade, 4 blocks of this chain | the properties of the client |
| `solo_machine` | two clients of one honest machine and one key, one client of a faulty machine | the properties of the client |
| `solo_machine_timeout` | one client, whose machine signs a handshake and that a packet is absent | a counterexample to `TimeoutsCanBeProved` |
| `transfer` | two channels between two chains that both have a coin of the same name; receivers may be an escrow or a blocked module account | escrow, value, traces, and that transfers end |
| `interchain_accounts` | two controller chains with connections and owners of the same name, channels lost and reopened; one controller chain does not check ports | who acts through an account, atomicity, active channels |

Properties:

- `NoDeliveryAndRefund`: the receiver keeps the effects of a packet at most once,
  and never of a packet that its sender gave up as timed out or failed. This is
  what makes refunds sound.
- `OneOutcomePerPacket`: one callback at the sender, and the commitment is there
  until exactly then.
- `ConfirmedWasApplied`: a success acknowledgement is about effects that exist.
- `OrderedTimeoutIsFinal`: after packet n of an ORDERED channel timed out, no
  packet from n on is ever received or acknowledged.
- `ClosedIsFinal`: a CLOSED end never opens, receives, acknowledges or sends.
- `ImplementsDelivery`: every step is a step of Delivery or changes no status.
- `EveryPacketResolves`: see fairness.
- `RefusedStaysUseless`: what the ante decorator refuses with the state of the last
  block could have had no effect in any later state either.
- `OpenEndsMatch`: an OPEN end names an end that exists, with the same ordering and
  the same two ports the other way round.
- `AnswersArePaired`: of the ends that answer one proposal, one that opens is the one
  its proposer opened with, under the same version.
- `VersionsAgree`: two OPEN ends that name each other have the same version.
- `EndsOnlyAdvance`: ends move forward only, and an OPEN end keeps its counterparty
  and version whatever old proof is submitted.
- `TriesComplete`, `ClosePropagates`: an answered proposal does not stay unanswered,
  nor a channel half closed.
- `ClientsAreMutual`: a connection end that answered or opened names an end that names
  it by the same two clients and delay, and the other chain's client really follows
  this chain, although impostors prove anything and proofs may be old.
- `VersionsNegotiated`: an OPEN connection has one version, with features both sides
  proposed, and an end that only answered shares it with its counterparty.
- `ConnectionsOnlyAdvance`, `TriesComplete`: as for channels.
- `TypeOK` of `TendermintClient`: the latest height is the greatest one stored, after
  any updates and pruning, so that the status of a client is never Unknown.
- `TimesIncrease`: the blocks a client stores of one revision are later the higher
  they are, in whatever order they came.
- `FrozenForCause`: a client is frozen only if it met two blocks that no honest chain
  can have; late, repeated or reordered headers of an honest chain do not freeze it.
- `OnlyTrustedChanges`: a frozen or expired client changes only through governance, to
  the latest block of an active client, and no client moves to a lower height.
- `DelayHasPassed`: a block is used for packets only after this chain had it for the
  delay, in time and in blocks.
- `FrozenForFault`: a solo machine's client is frozen only if its machine did sign two
  messages with one sequence; sharing a key under different diversifiers is no fault.
- `AppliedInOrder`: a client accepts what was signed for it in that order, each once.
- `TimeoutsCanBeProved`: when the client accepts a signature that a packet was not
  received, one of the two timeout messages can use it. It does not hold: finding (2).
- `EscrowBalance`: an escrow account holds exactly what left through its channel end
  and is a voucher at the other end, or in flight, now.
- `ValueConserved`: over all chains and vouchers there is as much of a native coin as
  at first, whatever path it took, and coins of the same name are not confused.
- `VouchersHaveTraces`: every voucher held, or to be refunded, can be sent on.
- `TransfersComplete`: every transfer ends, whatever governance switches off.
- `AccountsHaveOneOwner`: messages signed by one account came from one owner over one
  connection of one chain.
- `TransactionsAreAtomic`: the host has executed all messages of the transactions that
  are acknowledged as successful, once and in order, and nothing of the others.
- `ActiveChannelsWork`: the active channel of a port is open, belongs to the port and
  leads to the host channel that answered it, and the owner knows the right address,
  whatever other channels of the port open, close and time out meanwhile.

`AnswersArePaired` is restricted to ends that no block has shown in INIT, because
ChanOpenAck on a TRYOPEN end replaces the counterparty identifier. After crossing
hellos an end may therefore open with a different end than the one it answered, and
leave that one behind.

Bounds. In the UNORDERED run timeouts lie at height or time 3 and blocks take 2 units
of time, so that the two kinds of timeout come due at different blocks. With 3 blocks
a packet can be received in the last block before its timeout, and there is a header
of a height before, at and after the timeout to prove with. Two packets are what
order needs; in the ORDERED run one may expire at height 2 and one at time 3, so that
either can expire first. The liveness run keeps the earlier timeout.
`ExtraBlocks` lets the liveness runs make a new block whenever there is something new
to commit, so that the bound does not stop a relayer. Runs do not check for deadlock:
with bounded blocks, packets or channels the system stops.

In the handshake runs one end of A and two of B let both chains propose at once and
two ends answer one proposal. Of the four channel proposals one differs from the first
in ordering, one in port and one in version, the fields that must match; the
connection proposals differ in client, features, the order of features and delay. A
second end on A multiplies the states by fifty.

The client run has the shortest chain that has a fork between two blocks, an upgrade
after it and a block of the new revision, and two clients, one to replace the other;
the trusting period of 5 lets clients expire and be pruned within 4 blocks of 1 or 3
units. The delay of 3 at 2 units per block needs rounding up. Sequences of the solo
machine run to 5, enough for a handshake of three proofs, a packet and a header on
one client while the other is at the same sequences. Transfers take up to two hops and
each end sends once, so a coin can go out on one channel and come back on the other.
Two channels of one port on A are what losing and reopening one takes, and two packets
what order takes.

Fairness. `FairSpec` assumes that blocks are made, that some relayer keeps updating
clients and submitting whatever handshake message, packet, acknowledgement or timeout
would be accepted, that an expired client is recovered, and that a module eventually
writes an acknowledgement it postponed. The code cannot enforce any of these; they are
what running a relayer means, and weak fairness suffices because no one can disable a
valid message for good without resolving the packet. No module is assumed to send or
to close. The fairness of `ChannelHandshake` is the same for the steps that complete a
handshake or a closing, and so is that of `ConnectionHandshake`; nobody has to begin
or to answer one. `Transfer` assumes that packets and acknowledgements are delivered,
which is what `EveryPacketResolves` gives for channels that stay open, and not that
anything times out. `EveryPacketResolves` holds from the moment both ends know each
other and has one exception, which the code really has: a packet that was received
before one of the ends closed keeps its commitment, because AcknowledgePacket requires
an OPEN end.

Findings. (1) SendPacket works on a TRYOPEN end, TimeoutPacket only on an OPEN one. If
the initiating end is closed while still in INIT, it never learns its counterparty's
channel identifier, so TimeoutOnClose cannot be proved either. A packet sent from
the TRYOPEN end then expires without any way to time it out, against
`docs/ibc/readme.md` ("The sending module can timeout the packet and take
appropriate actions"). `packets_optimistic_send` is the shortest such behaviour.

(2) TimeoutPacket first reads the consensus state stored at the proof height. A solo
machine client stores one when it is created and at each header, always below the
sequence at which it accepts the next proof. TimeoutOnClose verifies two proofs at one
height, and a solo machine client takes one per sequence. A packet to a solo machine can
therefore not be timed out, against the same words of `docs/ibc/readme.md`, although the
client's `spec/01_concepts.md` lists packet receipt absence and the next sequence receive
among what it verifies. `solo_machine_timeout` shows a signature of absence that the client
accepts and neither message can use; `TimeoutsNeverProved` shows it in general.

(3) In crossing hellos both modules run OnChanOpenTry, and each ChanOpenAck takes
over the version of the other end. The ends exchange their versions. If the modules
returned different ones, two OPEN ends are left with different versions, against
`docs/ibc/apps.md` ("The version returned will be the channel version used for both
channel ends"). `channel_handshake` shows that they agree when both modules negotiate
alike.

### Observations

What the models had to account for and a reader of the code may want to know.

- Connections: when hellos cross and the two proposals list the features in different
  orders, each end picks its own order and refuses the other's version. Both stay in
  TRYOPEN (`Trying` leaves this case out). `addConnectionToClient` lists a connection
  a second time when ConnOpenTry continues a previous one.
- Tendermint client: the upgraded consensus state carries the time of the block before
  the last one, so times increase within a revision only. A client that governance
  moved onto such a state lacks the blocks before it, and a late header of the old
  revision may freeze it (`FrozenForCause` leaves replaced clients out). A comment in
  `upgrade.go` says that processed time is not set, but `setConsensusMetadata` is
  called right after. `getBlockDelay` computes with float64, which is exact for delays
  below 2^53 ns.
- Migration (`02-client/legacy/v100`): pruning expired consensus states also deletes
  the latest one of an expired client. Its status is then Unknown, which the handler
  of a governance replacement does not accept, although `docs/ibc/proto-docs.md` says of
  `allow_update_after_expiry` that it lets governance recover an expired client.
- Packets: TimeoutPacket and RecvPacket take a packet as expired when either its timeout
  height or its timeout timestamp has passed (`timeout.go:69`, `packet.go:200`), while
  `modules/core/spec/01_concepts.md:209` says that both must have. The safety theorems
  hold for what the code does.
- Solo machine: headers are signed with the new diversifier, so one made for another client of the
  same key and sequence can be accepted; `AppliedInOrder` leaves out what follows one.
- Transfer: releasing coins from escrow does not ask whether the bank blocks the
  receiving address, minting does.
- Interchain accounts: two channels of one port can be in INIT at once. The later
  ChanOpenAck takes over the active entry, and a timeout on the older channel then
  deletes it, so the port has no active channel although one is open. TimeoutOnClose of a
  packet left on a closed channel does the same to the channel opened in its place. A
  comment in `controller/keeper/relay.go:74` says that the active channel removed is the
  packet's own. The host's
  active channel is kept under its one port and is that of whoever opened last. If
  an account exists at the derived address before, it is not registered, and the
  port's transactions are refused.

## What is proved

Every safety property that a run shows to hold is a theorem too, `VersionsAgree` under a
hypothesis. Each theorem holds for every value of the constants that satisfies the named
assumptions of its module, which TLC evaluates in every run:

- `PacketAssumptions`, `HandshakeAssumptions`, `ConnectionAssumptions`,
  `TransferAssumptions` and `AccountAssumptions`: types of the constants, and what
  makes the instance one of the system (links are mutual, the ends of a chain have
  different identifiers, a host is no controller).
- `ClientAssumption`: types of headers and plans. `CounterpartyAssumption`: roots tell
  blocks apart, and the block at which a chain is upgraded is the last of its revision.
  Forks are allowed.
- `MachineAssumption`: honest machines keep the diversifiers of their clients apart.
  `KeyAssumption`: a faulty machine does not have the key of an honest one.

In most proof modules Zenon is the prover of a leaf unless the leaf names SMT. Induction
over data is done with the least natural number that violates a statement (`LeastNat`),
as the induction theorems of the library are out of the provers' reach.

### Packets

For every set of timeouts, every bound and both orderings:

- `TypeCorrect`: `Spec => []TypeOK`.
- `OneOutcome`, `DeliveryExcludesRefund`, `SuccessIsApplied`, `OrderedTimeout`,
  `ClosedForever`: the safety properties above.
- `RefusedForGood`: `Spec => RefusedStaysUseless`.
- `Refinement`: `Spec => ImplementsDelivery`.

None of the properties is inductive. The invariant `IInv` adds to them what
the handlers rely on:

- `Clock`: block times do not decrease.
- `Snapshots`: every store in the history is `Older` than the present one: sequence
  counters, receipts and acknowledgements only grow, commitments were packets really
  sent, and an end that was CLOSED then is CLOSED now and has received nothing since.
  This is what a stale proof still tells about the present.
- `Sends`: sequence numbers are used once and commitments are of packets sent.
- `ReceivedInTime`: if a packet has been received, then every header at which it
  counts as expired already shows the receipt. RecvPacket keeps this since the block
  it runs in is not expired and headers show the state of the block before. The
  off-by-one between RecvPacket and TimeoutPacket is settled here.
- `TimedOutForGood`: a packet that timed out is unreceived and can never be received,
  because it is expired at the present height or the destination is CLOSED.
- `Effects` and `Callbacks`: how acknowledgements in the store relate to what the
  receiver applied, and callbacks at the sender to acknowledgements of the receiver.

The proof never uses SendPacket's own check of the timeout: safety does not depend on
it. The refinement is shown action by action: which step of Delivery each handler
takes.

`RefusedForGood` needs that receipts are kept for good, that a sequence number is
used once, and that the ORDERED handlers write no receipts.

### Channel handshake

`TypeCorrect`, `OpenEndsAlwaysMatch`, `AnswersAlwaysPaired`, `VersionsAlwaysAgree` and
`EndsAlwaysAdvance`, for every set of ports, versions and proposals and any number of
ends. The invariant adds:

- `Stable`: what a block has shown of an end is still so, but for what may have
  advanced. This is what makes old proofs harmless.
- `Fitting`: an end that answered fits the one it names.
- `Answering`: it answers a proposal some block has shown, with a version its module
  negotiated for the one proposed. If it was a proposal itself, it proposed the same
  version.
- `Paired`: an OPEN end was opened by ChanOpenAck, with the version its counterparty had
  answered, or by ChanOpenConfirm after its counterparty had opened with it.

`VersionsAlwaysAgree` has a hypothesis, `NegotiateAlike`: the modules of the two chains
answer a proposed version alike. Finding (3) shows that it is needed.

### Connection handshake

`ConnectionTypes`, `ClientsAlwaysMutual`, `VersionsAlwaysNegotiated` and
`ConnectionsAlwaysAdvance`, for every set of clients, proposals and forgeries and any
number of ends. The invariant: proofs show ends whose clients and delay are still the
same, an end in TRYOPEN has settled on one version, and every end that answered through
a client of the right chain fits the one it names. Each step is shown to create a
fitting end, to move one end forward, or to leave the ends alone.

For the versions, `GetFeatureSetIntersection` and `PickVersion` are first shown to
return a version within both arguments, for lists of any length. `Negotiation` then
says that every end has one version, with features that this chain supports and within
whatever a block has shown to be proposed for the end; that an end which answered has
seen a proof of the end it names and stays within what was proposed for that one too;
that two proofs of one end in one state are the same; and that an OPEN end has been
shown in INIT or opened after its counterparty had opened with it.

Nothing is assumed of what an impostor proves except that its connection identifiers are
natural numbers and its versions lists of versions.

### Tendermint client

`StateAndStoreAgree` (`TypeOK`), `OnlyTrustedClientsChange`, `DelayAlwaysPasses`,
`TimesAlwaysIncrease` and `AlwaysFrozenForCause`, for every set of headers, forks and
upgrade plans and every period. The first invariant relates each consensus state to the
first time this chain stored its block, which is what the delay is measured from.

The second, `AllSound`, is about the blocks a client has verified: those it stores are
among them and ordered by time within a revision, and a frozen client has met two that
conflict. Since the upgraded consensus state is no block of the counterparty, a header
next to it must not count as a conflict. The invariant shows why it does not: the entry
was made from the last block of the old revision, and as long as anything older is
stored, that block is, with nothing between the two.

### Solo machine

`HonestMachinesNotFrozen`, `MessagesAppliedInOrder`, and `TimeoutsNeverProved`, which is
finding (2) for every instance. The first
invariant: a signature with an honest machine's key belongs to a sequence behind that
machine's book and to the client of its diversifier, two of them with one sequence and
diversifier agree on the data, and the sequence of a client is above all its stored
consensus states from its first proof on. The second, `Order`: such a signature is over
the data that the book recorded for its sequence, and as long as a client has accepted
no header of another client its sequence has grown by the number of messages accepted,
which are those the book recorded.

### Transfer

`TransferTypes`, `TracesComplete`, `VouchersBacked` and `ValueIsConserved`, for any
chains, channels, users and coins, traces of any length and any amounts.

`TransferInvariant` first shows that the sum over a finite set does not depend on the
order of its elements, and what adding to and taking from a bag does to the sum over a
part of it. Every action is then shown to be one of three kinds of entry (`Ledger`): a
coin moves between an owner and the packet at the end it leaves from (`Local`: sending
and refunding), between a packet and an owner at the other end (`Remote`: receiving), or
nothing moves. `TransferSafety` shows that every kind keeps two balances:

- `Backed`: the escrow of an end is what it was given outright and what is a voucher at
  the other end, held there or on its way there or back. The ends of a chain have
  different escrow accounts and a voucher tells its end, so an entry affects one
  balance.
- `Conserved`: the sum, over all owners and all packets under way, of the coins that
  come from one native coin. Where a denomination comes from is computed by walking
  its trace, and prefixing or removing a hop is a step of that walk.

### Interchain accounts

`EveryAccountHasOneOwner`, `EveryTransactionIsAtomic` and `EveryActiveChannelWorks`, for
any controller chains, connections, owners and transactions. The invariant has two parts:

- `Handshakes`: a port fits the connection of its channel at both ends once the host has
  answered it, an address is the one generated from the port, and the active channel of a
  port is an open one of it whose host end has not closed.
- `Deliveries`: the packets of a channel are delivered in turn, what the host has
  executed came, message by message, from packets acknowledged as successful, and it
  is complete and in order. For RecvPacket this rests on what the loop over the messages
  computes, by induction on their number: after n messages without a failure the copy has
  n more entries, of those messages in order.

### Only model-checked

Liveness, since the prover does not treat fairness or ENABLED: `EveryPacketResolves`,
`TriesComplete` (of channels and of connections), `ClosePropagates` and
`TransfersComplete`. That `Transfer` and `InterchainAccounts` use channels as `Delivery`
allows is by construction: their packets move by its actions.

## Not modelled

- Merkle proofs, hashing and signatures: assumed sound and injective. A proof at a
  height shows what the store held at that height, and nothing else.
- Identifier syntax, codecs and stateless message validation: the models use abstract
  names, and assume of messages what ValidateBasic ensures.
- The localhost client: it reads its own chain's store without proofs, keeps nothing
  but its height, and cannot be created.
- Routing of callbacks by capability. A port is bound once and never released, and a
  channel's capability stays with the port's owner, so each model knows whose callback
  runs.
- Genesis import and export, which copy the store field by field and are the identity
  at the level of the models; one-off migrations; simulation.
- Queries, CLI, REST gateways, events, telemetry and the testing package: no protocol
  state.

Most lines of the repository are of these kinds. Seven tenths are generated protobuf
and gateway code or tests' support code. Of the hand-written rest the map covers more
than a quarter, and of the keepers and light clients, which hold the protocol, about
half; what remains there are queries, iterators, accessors, events and genesis.
