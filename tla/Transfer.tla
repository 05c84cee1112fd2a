------------------------------ MODULE Transfer ------------------------------
(***************************************************************************)
(* Token transfer, ICS 20 (modules/apps/transfer/keeper/relay.go), between *)
(* any number of chains.  The channels are those of module Delivery, which *)
(* module Packets implements: each packet is applied at most once, and is  *)
(* acknowledged or timed out, not both.                                    *)
(*                                                                         *)
(* A denomination is the trace that the code keeps of it: the port and     *)
(* channel it came through last, first, and the base denomination.  The    *)
(* bank knows a voucher by the hash of its trace.  Hashing is taken to be  *)
(* injective, so the model names the voucher by the trace itself; what the *)
(* trace store adds is that only a hash that is in it can be sent.         *)
(*                                                                         *)
(* An operator named WrongX is X with a bug that X could plausibly have.   *)
(* No action uses it: it shows that a property notices the bug.            *)
(***************************************************************************)
EXTENDS Integers, Sequences, FiniteSets, Functions

CONSTANTS
  Ends,          \* the channel ends: records with a chain, a port and a channel
  Link,          \* the end at the other side of each end's channel
  Users,         \* accounts that sign transfers
  Blocked,       \* module accounts, which the bank blocks from receiving
  Natives,       \* a bag: the coins <<chain, account, base>> there are at first
  Amounts,       \* the amounts in transfers
  Receivers,     \* the receivers named in transfers to each chain
  Governed,      \* the chains whose governance changes the parameters
  MaxHops,       \* bound: the length of a trace
  MaxSequence    \* bound: packets sent from each end

\* A bag is a function that counts copies, as in module Bags.  The copies of x in it,
\* and the bag with n more and with n fewer of them.
IsABag(bag) == bag \in [DOMAIN bag -> Nat \ {0}]
BagToSet(bag) == DOMAIN bag
EmptyBag == <<>>
AmountOf(x, bag) == IF x \in BagToSet(bag) THEN bag[x] ELSE 0
With(bag, x, n) ==
  [y \in BagToSet(bag) \cup {x} |-> AmountOf(y, bag) + (IF y = x THEN n ELSE 0)]
Without(bag, x, n) ==
  LET left(y) == bag[y] - (IF y = x THEN n ELSE 0)
  IN  [y \in {z \in BagToSet(bag) : left(z) > 0} |-> left(y)]

Chains == {e.chain : e \in Ends}
Hop(e) == <<e.port, e.channel>>
GetEscrowAddress(e) == Hop(e)

\* Addresses are those of users, modules and escrows.  An address that the
\* receiving chain cannot parse is "invalid".
Account(name) == <<name>>
Escrows(c) == {GetEscrowAddress(e) : e \in {x \in Ends : x.chain = c}}
Owners == {Account(a) : a \in Users \cup Blocked}
Accounts(c) == Owners \cup Escrows(c)

Bases == {coin[3] : coin \in BagToSet(Natives)}
Native(base) == [path |-> <<>>, base |-> base]

ASSUME TransferAssumptions ==
  /\ IsFiniteSet(Ends)
  /\ Link \in [Ends -> Ends]
  /\ \A e \in Ends : Link[Link[e]] = e /\ Link[e].chain # e.chain
  /\ \A e, f \in Ends : e.chain = f.chain /\ Hop(e) = Hop(f) => e = f
  /\ IsABag(Natives) /\ IsFiniteSet(BagToSet(Natives))
  /\ BagToSet(Natives) \subseteq Chains \X Users \X Bases
  /\ Amounts \subseteq Nat \ {0}
  /\ \A c \in Chains : Receivers[c] \subseteq Accounts(c) \cup {Account("invalid")}
  /\ Governed \subseteq Chains
  /\ "invalid" \notin Users \cup Blocked
  /\ MaxHops \in Nat /\ MaxSequence \in Nat

VARIABLES
  bank,      \* the balances on each chain: a bag of pairs of account and denomination
  traces,    \* the traces stored on each chain
  enabled,   \* the parameters SendEnabled and ReceiveEnabled of each chain
  sent,      \* the data of the packets sent from each end
  status,    \* the status of these packets, as Delivery has it
  gifts      \* history: the coins received by the escrow account of each end

vars == <<bank, traces, enabled, sent, status, gifts>>

Channel == INSTANCE Delivery WITH Ordered <- FALSE, LastSequence <- MaxSequence

Balance(c, account, denom) == AmountOf(<<account, denom>>, bank[c])

InitialBank(c) ==
  [key \in {<<Account(coin[2]), Native(coin[3])>> :
               coin \in {x \in BagToSet(Natives) : x[1] = c}} |->
     Natives[<<c, key[1][1], key[2].base>>]]

Init ==
  /\ bank = [c \in Chains |-> InitialBank(c)]
  /\ traces = [c \in Chains |-> {}]
  /\ enabled = [c \in Chains |-> [send |-> TRUE, receive |-> TRUE]]
  /\ sent = [e \in Ends |-> <<>>]
  /\ gifts = [e \in Ends |-> EmptyBag]
  /\ Channel!Init

-----------------------------------------------------------------------------
ReceiverChainIsSource(e, denom) == denom.path # <<>> /\ Head(denom.path) = Hop(e)

SenderChainIsSource(e, denom) == ~ ReceiverChainIsSource(e, denom)

WrongGetPrefixedDenom(e, denom) ==
  [path |-> <<Hop(Link[e])>> \o denom.path, base |-> denom.base]
GetPrefixedDenom(e, denom) ==
  [path |-> <<Hop(e)>> \o denom.path, base |-> denom.base]
Unprefixed(denom) == [path |-> Tail(denom.path), base |-> denom.base]

\* What the bank does: it moves coins if they are there, and mints.
SendCoins(c, from, to, denom, amount) ==
  /\ Balance(c, from, denom) >= amount
  /\ bank' = [bank EXCEPT ![c] = With(Without(@, <<from, denom>>, amount),
                                      <<to, denom>>, amount)]
BurnCoins(c, from, denom, amount) ==
  /\ Balance(c, from, denom) >= amount
  /\ bank' = [bank EXCEPT ![c] = Without(@, <<from, denom>>, amount)]
MintCoins(c, to, denom, amount) ==
  bank' = [bank EXCEPT ![c] = With(@, <<to, denom>>, amount)]

\* A native coin or a voucher whose hash DenomPathFromHash finds.
CanSend(c, denom) == denom.path = <<>> \/ denom \in traces[c]

EscrowOrBurn(e, sender, denom, amount) ==
  \/ /\ SenderChainIsSource(e, denom)
     /\ SendCoins(e.chain, sender, GetEscrowAddress(e), denom, amount)
  \/ /\ ReceiverChainIsSource(e, denom)
     /\ BurnCoins(e.chain, sender, denom, amount)

SendTransfer(e) ==
  \E u \in Users, amount \in Amounts, receiver \in Receivers[Link[e].chain] :
  \E denom \in {key[2] : key \in BagToSet(bank[e.chain])} :
    /\ enabled[e.chain].send
    /\ CanSend(e.chain, denom)
    /\ Len(denom.path) < MaxHops \/ ReceiverChainIsSource(e, denom)
    /\ EscrowOrBurn(e, Account(u), denom, amount)
    /\ sent' = [sent EXCEPT ![e] = Append(@,
         [denom |-> denom, amount |-> amount,
          sender |-> Account(u), receiver |-> receiver])]
    /\ Len(sent[e]) < MaxSequence
    /\ Channel!Send(e, Len(sent[e]) + 1)
    /\ UNCHANGED <<traces, enabled, gifts>>

\* The coins go out of the escrow they went into when they left this chain.
Unescrow(f, data) ==
  /\ SendCoins(f.chain, GetEscrowAddress(f), data.receiver,
               Unprefixed(data.denom), data.amount)
  /\ UNCHANGED traces

WrongMintVoucher(f, data) ==
  /\ data.receiver \notin {Account(b) : b \in Blocked}
  /\ MintCoins(f.chain, data.receiver, GetPrefixedDenom(f, data.denom), data.amount)
  /\ UNCHANGED traces
MintVoucher(f, data) ==
  /\ data.receiver \notin {Account(b) : b \in Blocked}
  /\ MintCoins(f.chain, data.receiver, GetPrefixedDenom(f, data.denom), data.amount)
  /\ traces' = [traces EXCEPT ![f.chain] = @ \cup {GetPrefixedDenom(f, data.denom)}]

\* Packet s from end e arrives at f, the other end.
Accept(e, f, data) ==
  /\ enabled[f.chain].receive
  /\ data.receiver # Account("invalid")
  /\ \/ ReceiverChainIsSource(e, data.denom) /\ Unescrow(f, data)
     \/ SenderChainIsSource(e, data.denom) /\ MintVoucher(f, data)

\* The conditions under which Accept returns an error.
Refuses(e, f, data) ==
  \/ ~ enabled[f.chain].receive
  \/ data.receiver = Account("invalid")
  \/ /\ ReceiverChainIsSource(e, data.denom)
     /\ Balance(f.chain, GetEscrowAddress(f), Unprefixed(data.denom)) < data.amount
  \/ /\ SenderChainIsSource(e, data.denom)
     /\ data.receiver \in {Account(b) : b \in Blocked}

ReceivedDenom(e, f, denom) ==
  IF ReceiverChainIsSource(e, denom) THEN Unprefixed(denom)
                                     ELSE GetPrefixedDenom(f, denom)

\* An escrow address can be the receiver, too.
RecordGift(e, f, data) ==
  gifts' = [g \in Ends |->
    IF g.chain = f.chain /\ GetEscrowAddress(g) = data.receiver
    THEN With(gifts[g], ReceivedDenom(e, f, data.denom), data.amount)
    ELSE gifts[g]]

\* A failed callback leaves nothing behind but the acknowledgement.
OnRecvPacket(e, s) ==
  LET f == Link[e]
      data == sent[e][s]
  IN  /\ Channel!Deliver(e, s)
      /\ \/ /\ status'[e][s] = "applied"
            /\ Accept(e, f, data)
            /\ RecordGift(e, f, data)
         \/ /\ status'[e][s] = "failed"
            /\ Refuses(e, f, data)
            /\ UNCHANGED <<bank, traces, gifts>>
      /\ UNCHANGED <<enabled, sent>>

WrongRefundPacketToken(e, data) ==
  MintCoins(e.chain, data.sender, data.denom, data.amount)
WrongRefundFromEscrow(e, data) ==
  SendCoins(e.chain, GetEscrowAddress(e), data.sender, data.denom, data.amount)
RefundPacketToken(e, data) ==
  \/ /\ SenderChainIsSource(e, data.denom)
     /\ SendCoins(e.chain, GetEscrowAddress(e), data.sender, data.denom, data.amount)
  \/ /\ ReceiverChainIsSource(e, data.denom)
     /\ MintCoins(e.chain, data.sender, data.denom, data.amount)

WrongOnAcknowledgementPacket(e, s) ==
  /\ Channel!Confirm(e, s) \/ Channel!Fail(e, s)
  /\ UNCHANGED <<bank, traces, enabled, sent, gifts>>
OnAcknowledgementPacket(e, s) ==
  /\ \/ Channel!Confirm(e, s) /\ UNCHANGED bank
     \/ Channel!Fail(e, s) /\ RefundPacketToken(e, sent[e][s])
  /\ UNCHANGED <<traces, enabled, sent, gifts>>

OnTimeoutPacket(e, s) ==
  /\ Channel!TimeOut(e, s)
  /\ RefundPacketToken(e, sent[e][s])
  /\ UNCHANGED <<traces, enabled, sent, gifts>>

\* Governance switches sending or receiving on or off.
SetParams(c) ==
  /\ enabled' \in {[enabled EXCEPT ![c] = params] :
                     params \in [send : BOOLEAN, receive : BOOLEAN] \ {enabled[c]}}
  /\ UNCHANGED <<bank, traces, sent, status, gifts>>

Next ==
  \/ \E e \in Ends :
       \/ SendTransfer(e)
       \/ \E s \in DOMAIN sent[e] :
            OnRecvPacket(e, s) \/ OnAcknowledgementPacket(e, s) \/ OnTimeoutPacket(e, s)
  \/ \E c \in Governed : SetParams(c)

Spec == Init /\ [][Next]_vars

\* A relayer delivers packets and acknowledgements.  Nothing has to time out.
Fairness ==
  \A e \in Ends, s \in 1 .. MaxSequence :
    /\ WF_vars(s \in DOMAIN sent[e] /\ OnRecvPacket(e, s))
    /\ WF_vars(s \in DOMAIN sent[e] /\ OnAcknowledgementPacket(e, s))

FairSpec == Spec /\ Fairness

-----------------------------------------------------------------------------
Hops(c) == {Hop(e) : e \in {x \in Ends : x.chain = c}}

\* Balances are of accounts in denominations with traces of bounded length; packet
\* data is stored exactly for the sequences that have been sent.
TypeOK ==
  /\ \A c \in Chains :
       /\ IsABag(bank[c])
       /\ \A key \in BagToSet(bank[c]) :
            /\ key[1] \in Accounts(c)
            /\ key[2].base \in Bases
            /\ Len(key[2].path) <= MaxHops
            /\ key[2].path = <<>> \/ Head(key[2].path) \in Hops(c)
       /\ enabled[c] \in [send : BOOLEAN, receive : BOOLEAN]
  /\ status \in [Ends -> [1 .. MaxSequence -> Channel!Statuses]]
  /\ \A e \in Ends, s \in 1 .. MaxSequence :
       s \in DOMAIN sent[e] <=> status[e][s] # "unsent"

Supply(c, denom) ==
  SumFunctionOnSet(bank[c], {key \in BagToSet(bank[c]) : key[2] = denom})

\* The coins in those packets of S from end e that have neither arrived nor been refunded.
Flying(e, S) ==
  SumFunctionOnSet([s \in DOMAIN sent[e] |-> sent[e][s].amount],
                   {s \in S : status[e][s] \in {"sent", "failed"}})

InFlight(e, denom) == Flying(e, {s \in DOMAIN sent[e] : sent[e][s].denom = denom})

Denoms(c) ==
  {key[2] : key \in BagToSet(bank[c])}
    \cup UNION {{sent[e][s].denom : s \in DOMAIN sent[e]} : e \in {x \in Ends : x.chain = c}}

\* The escrow account of a channel end holds exactly the coins that left through
\* this end and are vouchers at the other end now, or on their way there or back;
\* besides what was sent to the account as the receiver of a transfer.  So no
\* interleaving of transfers, returns, refunds and timeouts, over any channels,
\* leaves vouchers unbacked or coins stuck in escrow.
EscrowBalance ==
  \A e \in Ends : \A denom \in Denoms(e.chain) :
    Balance(e.chain, GetEscrowAddress(e), denom) =
      AmountOf(denom, gifts[e]) +
      (IF SenderChainIsSource(e, denom)
       THEN LET voucher == GetPrefixedDenom(Link[e], denom)
            IN  InFlight(e, denom) + Supply(Link[e].chain, voucher)
                  + InFlight(Link[e], voucher)
       ELSE 0)

\* Where a denomination on chain c comes from: its home chain and its name there.
EndOf(c, hop) == CHOOSE e \in Ends : e.chain = c /\ Hop(e) = hop
Origin(c, denom) ==
  LET home[i \in 0 .. Len(denom.path)] ==
        IF i = 0 THEN c ELSE Link[EndOf(home[i - 1], denom.path[i])].chain
  IN  <<home[Len(denom.path)], denom.base>>

Owned(c, origin) ==
  SumFunctionOnSet(bank[c], {key \in BagToSet(bank[c]) :
                               key[1] \in Owners /\ Origin(c, key[2]) = origin})
Underway(e, origin) ==
  Flying(e, {s \in DOMAIN sent[e] : Origin(e.chain, sent[e][s].denom) = origin})
Given(e, origin) ==
  SumFunctionOnSet(gifts[e], {d \in BagToSet(gifts[e]) : Origin(e.chain, d) = origin})
InitialSupply(c, base) ==
  SumFunctionOnSet(InitialBank(c), {key \in BagToSet(InitialBank(c)) : key[2] = Native(base)})

\* Over all chains, what users and modules own of a native coin, as the coin itself
\* or as any voucher for it, with what is in flight, is what there was at first:
\* no path through several channels creates or destroys value, or turns a coin of
\* one chain into one of the same name on another.
ValueConserved ==
  \A c \in Chains, base \in Bases :
    LET origin == <<c, base>> IN
    SumFunction([x \in Chains |-> Owned(x, origin)])
      + SumFunction([e \in Ends |-> Underway(e, origin) + Given(e, origin)])
      = InitialSupply(c, base)

\* Every voucher that anyone holds, or will get back by a refund, has its trace in
\* the store: DenomPathFromHash finds it when the voucher is to be sent home.
VouchersHaveTraces ==
  /\ \A c \in Chains : \A key \in BagToSet(bank[c]) : CanSend(c, key[2])
  /\ \A e \in Ends : \A s \in DOMAIN sent[e] : CanSend(e.chain, sent[e][s].denom)

\* With a relayer at work, every transfer ends: the receiver has the coins and the
\* sender knows, or the sender has them back, whatever governance switches off.
TransfersComplete ==
  \A e \in Ends, s \in 1 .. MaxSequence :
    status[e][s] = "sent" ~> status[e][s] \in {"confirmed", "errored", "timedOut"}
=============================================================================
