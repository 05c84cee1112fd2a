------------------------- MODULE InterchainAccounts -------------------------
(***************************************************************************)
(* Interchain accounts, ICS 27 (modules/apps/27-interchain-accounts): the  *)
(* controller module of any number of chains and the host module of one    *)
(* chain, from binding a port (05-port) over opening, losing and reopening *)
(* a channel to executing the transactions that are sent over it.          *)
(*                                                                         *)
(* The channels are ORDERED channels of module Delivery.  A handshake step *)
(* may use the proof of any state the other end has been in.  Neither      *)
(* module lets a user close a channel, so one closes only when a packet    *)
(* times out: packets of TrySendTx carry the last possible timestamp, but  *)
(* the authentication module holds the channel's capability and may send   *)
(* packets that time out.  Packets left on a closed channel are timed out  *)
(* when the host's end has closed too, also after another channel of the   *)
(* port has opened.  As the host never sends, OnChanCloseConfirm of a      *)
(* controller is never reached; the handlers that only refuse              *)
(* (OnChanOpenTry and OnChanOpenConfirm of a controller, OnChanOpenInit,   *)
(* OnChanOpenAck, OnAcknowledgementPacket and OnTimeoutPacket of the host, *)
(* OnChanCloseInit) are no steps.                                          *)
(*                                                                         *)
(* The host does not know what software a controller chain runs.  The      *)
(* chains in Foreign have a controller module that leaves out the check of *)
(* the port, and differs in nothing else.                                  *)
(*                                                                         *)
(* An operator named WrongX is X with a bug that X could plausibly have.   *)
(* No action uses it: it shows that a property notices the bug.            *)
(***************************************************************************)
EXTENDS Integers, Sequences

CONSTANTS
  Controllers,     \* the controller chains
  Foreign,         \* those of them that do not check the port of a channel
  Connections,     \* the host's connections: sequence number -> controller chain and
                   \* the sequence number of its connection
  Owners,          \* owners of interchain accounts
  Txs,             \* the transactions that may be sent from a port: sequences of messages
  Preexisting,     \* addresses that may have an account before it is registered
  Governed,        \* the chains whose governance changes the parameters
  MaxChannels,     \* bound: channel ends created on each chain
  MaxPackets,      \* bound: packets sent on each channel
  MaxSequence      \* bound: packets sent on any channel

Host == "host"
None == 0

Chains == Controllers \cup {Host}
Slots == UNION {{c} \X (1 .. MaxChannels[c]) : c \in Controllers}

\* A controller port names the sequence numbers of both ends of a connection.
GeneratePortID(owner, conn, hostConn) == <<conn, hostConn, owner>>
ParseControllerConnSequence(port) == port[1]
ParseHostConnSequence(port) == port[2]

ConnectionSequences(c) == {Connections[h].conn : h \in {g \in DOMAIN Connections : Connections[g].chain = c}}
HostConnection(c, conn) == CHOOSE h \in DOMAIN Connections : Connections[h] = [chain |-> c, conn |-> conn]

ControllerPorts ==
  {GeneratePortID(o, n, h) : o \in Owners, h \in DOMAIN Connections,
                             n \in UNION {ConnectionSequences(c) : c \in Controllers}}

GenerateAddress(port) == [account |-> port]

ASSUME AccountAssumptions ==
  /\ Host \notin Controllers
  /\ Foreign \subseteq Controllers
  /\ \A h \in DOMAIN Connections : Connections[h] \in [chain : Controllers, conn : Nat]
  /\ \A port \in ControllerPorts : \A tx \in Txs[port] :
       Len(tx) \in Nat /\ DOMAIN tx = 1 .. Len(tx)
  /\ Governed \subseteq Chains
  /\ MaxChannels \in [Chains -> Nat]
  /\ MaxSequence \in Nat
  /\ MaxPackets \in [Slots -> 0 .. MaxSequence]

VARIABLES
  enabled,     \* the parameters ControllerEnabled and HostEnabled
  bound,       \* the ports each controller chain has bound
  ends,        \* the channel ends of each controller chain
  active,      \* active channels of the ports of each controller chain
  addresses,   \* addresses by port: of each controller chain and of the host
  hostEnds,    \* the channel ends of the host
  hostActive,  \* the active channel of the host's port
  accounts,    \* the accounts of the host that matter here
  sent,        \* the transactions sent on each controller channel
  status,      \* the status of their packets, as Delivery has it
  executed     \* the messages executed on the host, in order

vars == <<enabled, bound, ends, active, addresses, hostEnds, hostActive, accounts,
          sent, status, executed>>

Channel == INSTANCE Delivery WITH Ends <- Slots, Ordered <- TRUE, LastSequence <- MaxSequence

Init ==
  /\ enabled = [c \in Chains |-> TRUE]
  /\ bound = [c \in Controllers |-> {}]
  /\ ends = [c \in Controllers |-> <<>>]
  /\ active = [c \in Controllers |-> [p \in ControllerPorts |-> None]]
  /\ addresses = [c \in Chains |-> <<>>]
  /\ hostEnds = <<>>
  /\ hostActive = None
  /\ accounts \in SUBSET Preexisting
  /\ sent = [e \in Slots |-> <<>>]
  /\ executed = <<>>
  /\ Channel!Init

-----------------------------------------------------------------------------
\* The controller's check: the port agrees with its connection conn.
ValidateControllerPortParams(c, port, conn) ==
  /\ ParseControllerConnSequence(port) = conn
  /\ ParseHostConnSequence(port) = HostConnection(c, conn)

\* The host's check of the same name, against its own connection h.
WrongHostValidateControllerPortParams(port, h) ==
  ParseControllerConnSequence(port) = Connections[h].conn
HostValidateControllerPortParams(port, h) ==
  /\ ParseHostConnSequence(port) = h
  /\ ParseControllerConnSequence(port) = Connections[h].conn

\* The stores of the two modules.
IsBound(c, port) == port \in bound[c]
BindPort(c, port) == ~ IsBound(c, port) /\ bound' = [bound EXCEPT ![c] = @ \cup {port}]

GetActiveChannelID(c, port) == active[c][port]
SetActiveChannelID(c, port, i) == active' = [active EXCEPT ![c][port] = i]
WrongDeleteActiveChannelID(c, port) == UNCHANGED active
DeleteActiveChannelID(c, port) == active' = [active EXCEPT ![c][port] = None]

SetInterchainAccountAddress(c, port, address) ==
  addresses' = [addresses EXCEPT ![c] =
                  [p \in DOMAIN @ \cup {port} |-> IF p = port THEN address ELSE @[p]]]

\* A version is a prefix, followed by an address once the host has answered.
VersionPrefix == "ics27-1"
NewAppVersion(prefix, address) == <<prefix, address>>
ValidateVersion(version) == Len(version) = 2 /\ version[1] = VersionPrefix
ParseAddressFromVersion(version) == version[2]

-----------------------------------------------------------------------------
\* What OnChanOpenInit of the controller checks.
OnChanOpenInit(c, port, conn) ==
  /\ enabled[c]
  /\ c \in Foreign \/ ValidateControllerPortParams(c, port, conn)
  /\ GetActiveChannelID(c, port) = None

ChannelOpenInit(c, port, conn) ==
  /\ OnChanOpenInit(c, port, conn)
  /\ Len(ends[c]) < MaxChannels[c]
  /\ ends' = [ends EXCEPT ![c] =
                Append(@, [port |-> port, conn |-> conn, state |-> "INIT", channel |-> None])]

InitInterchainAccount(c) ==
  \E o \in Owners, conn \in ConnectionSequences(c), h \in DOMAIN Connections :
    LET port == GeneratePortID(o, conn, h)
    IN  /\ BindPort(c, port)
        /\ ChannelOpenInit(c, port, conn)
        /\ UNCHANGED <<enabled, active, addresses, hostEnds, hostActive, accounts, sent,
                       status, executed>>

\* Anyone may ask for another channel of a port that is bound.
MsgChannelOpenInit(c) ==
  \E port \in bound[c], conn \in ConnectionSequences(c) :
    /\ ChannelOpenInit(c, port, conn)
    /\ UNCHANGED <<enabled, bound, active, addresses, hostEnds, hostActive, accounts,
                   sent, status, executed>>

RegisterInterchainAccount(address, port) ==
  IF address \in accounts THEN UNCHANGED <<accounts, addresses>>
  ELSE accounts' = accounts \cup {address} /\ SetInterchainAccountAddress(Host, port, address)

\* The host's OnChanOpenTry for a channel over its connection h.
OnChanOpenTry(port, h) ==
  /\ HostValidateControllerPortParams(port, h)
  /\ RegisterInterchainAccount(GenerateAddress(port), port)

ChannelOpenTry(c, i) ==
  LET e == ends[c][i]
  IN  /\ enabled[Host]
      /\ OnChanOpenTry(e.port, HostConnection(c, e.conn))
      /\ Len(hostEnds) < MaxChannels[Host]
      /\ hostEnds' = Append(hostEnds,
           [controller |-> <<c, i>>, state |-> "TRYOPEN", port |-> e.port,
            version |-> NewAppVersion(VersionPrefix, GenerateAddress(e.port))])
      /\ UNCHANGED <<enabled, bound, ends, active, hostActive, sent, status, executed>>

\* The controller's OnChanOpenAck.
OnChanOpenAck(c, port, i, version) ==
  /\ ValidateVersion(version)
  /\ SetActiveChannelID(c, port, i)
  /\ SetInterchainAccountAddress(c, port, ParseAddressFromVersion(version))

\* The answer is that of host channel j.
ChannelOpenAck(c, i, j) ==
  /\ enabled[c]
  /\ ends[c][i].state = "INIT"
  /\ hostEnds[j].controller = <<c, i>>
  /\ OnChanOpenAck(c, ends[c][i].port, i, hostEnds[j].version)
  /\ ends' = [ends EXCEPT ![c][i] = [@ EXCEPT !.state = "OPEN", !.channel = j]]
  /\ UNCHANGED <<enabled, bound, hostEnds, hostActive, accounts, sent, status, executed>>

ControllerEnd(j) == ends[hostEnds[j].controller[1]][hostEnds[j].controller[2]]

OnChanOpenConfirm(j) == hostActive' = j

ChannelOpenConfirm(j) ==
  /\ enabled[Host]
  /\ hostEnds[j].state = "TRYOPEN"
  /\ ControllerEnd(j).channel = j
  /\ OnChanOpenConfirm(j)
  /\ hostEnds' = [hostEnds EXCEPT ![j].state = "OPEN"]
  /\ UNCHANGED <<enabled, bound, ends, active, addresses, accounts, sent, status, executed>>

OnChanCloseConfirm(j) == hostActive' = None

ChannelCloseConfirm(j) ==
  /\ hostEnds[j].state # "CLOSED"
  /\ ControllerEnd(j).channel = j
  /\ ControllerEnd(j).state = "CLOSED"
  /\ OnChanCloseConfirm(j)
  /\ hostEnds' = [hostEnds EXCEPT ![j].state = "CLOSED"]
  /\ UNCHANGED <<enabled, bound, ends, active, addresses, accounts, sent, status, executed>>

-----------------------------------------------------------------------------
TrySendTx(c, port) ==
  LET i == GetActiveChannelID(c, port)
  IN  /\ i # None
      /\ Len(sent[<<c, i>>]) < MaxPackets[<<c, i>>]
      /\ \E tx \in Txs[port] : sent' = [sent EXCEPT ![<<c, i>>] = Append(@, tx)]
      /\ Channel!Send(<<c, i>>, Len(sent[<<c, i>>]) + 1)
      /\ UNCHANGED <<enabled, bound, ends, active, addresses, hostEnds, hostActive,
                     accounts, executed>>

\* A message is allowed and signed by the account registered for the port, or not.
AuthenticateTx(tx, port) ==
  /\ port \in DOMAIN addresses[Host]
  /\ \A n \in DOMAIN tx :
       tx[n].kind # "forbidden" /\ tx[n].signer = addresses[Host][port]

\* executeMsg: a message that succeeds leaves an entry in the context ctx.
ExecuteMsg(ctx, e, s, n) ==
  Append(ctx, [end |-> e, sequence |-> s, number |-> n, signer |-> sent[e][s][n].signer])

\* Passes over a message that fails.
WrongCacheContext(e, s) ==
  LET run[n \in 0 .. Len(sent[e][s])] ==
        IF n = 0 THEN [ok |-> TRUE, ctx |-> executed]
        ELSE IF sent[e][s][n].kind = "ok"
             THEN [ok |-> TRUE, ctx |-> ExecuteMsg(run[n - 1].ctx, e, s, n)]
             ELSE run[n - 1]
  IN  run[Len(sent[e][s])]

\* The loop of executeTx after n messages: the cached context, and whether all succeeded.
\* It returns at the first message that fails.
CacheContext(e, s) ==
  LET run[n \in 0 .. Len(sent[e][s])] ==
        IF n = 0 THEN [ok |-> TRUE, ctx |-> executed]
        ELSE IF run[n - 1].ok /\ sent[e][s][n].kind = "ok"
             THEN [ok |-> TRUE, ctx |-> ExecuteMsg(run[n - 1].ctx, e, s, n)]
             ELSE [ok |-> FALSE, ctx |-> run[n - 1].ctx]
  IN  run[Len(sent[e][s])]

\* The cached context is written back only if every message succeeded.
ExecuteTx(e, s, port) ==
  IF AuthenticateTx(sent[e][s], port) /\ CacheContext(e, s).ok
  THEN CacheContext(e, s) ELSE [ok |-> FALSE, ctx |-> executed]

OnRecvPacket(e, s, port) ==
  IF enabled[Host] THEN ExecuteTx(e, s, port) ELSE [ok |-> FALSE, ctx |-> executed]

\* Core drops what the callback wrote if its acknowledgement reports an error.
RecvPacket(e, s) ==
  LET end == ends[e[1]][e[2]]
      ack == OnRecvPacket(e, s, end.port)
  IN  /\ end.channel # None
      /\ hostEnds[end.channel].state = "OPEN"
      /\ Channel!Deliver(e, s)
      /\ status'[e][s] = IF ack.ok THEN "applied" ELSE "failed"
      /\ executed' = IF ack.ok THEN ack.ctx ELSE executed
      /\ UNCHANGED <<enabled, bound, ends, active, addresses, hostEnds, hostActive,
                     accounts, sent>>

\* Acknowledgements of an ORDERED channel are relayed in order.
AcknowledgePacket(e, s) ==
  /\ enabled[e[1]]
  /\ ends[e[1]][e[2]].state = "OPEN"
  /\ \A t \in 1 .. s - 1 : status[e][t] \in {"confirmed", "errored"}
  /\ Channel!Confirm(e, s) \/ Channel!Fail(e, s)
  /\ UNCHANGED <<enabled, bound, ends, active, addresses, hostEnds, hostActive,
                 accounts, sent, executed>>

OnTimeoutPacket(c, port) == DeleteActiveChannelID(c, port)

\* A timeout closes an ORDERED channel.
TimeoutPacket(e, s) ==
  /\ enabled[e[1]]
  /\ ends[e[1]][e[2]].state = "OPEN"
  /\ Channel!TimeOut(e, s)
  /\ ends' = [ends EXCEPT ![e[1]][e[2]].state = "CLOSED"]
  /\ OnTimeoutPacket(e[1], ends[e[1]][e[2]].port)
  /\ UNCHANGED <<enabled, bound, addresses, hostEnds, hostActive, accounts, sent, executed>>

\* A packet left on a channel whose host end has closed.  Whatever channel of the port is
\* active now, its entry is deleted.
TimeoutOnClose(e, s) ==
  LET end == ends[e[1]][e[2]]
  IN  /\ enabled[e[1]]
      /\ end.channel # None
      /\ hostEnds[end.channel].state = "CLOSED"
      /\ hostEnds[end.channel].controller = e
      /\ Channel!TimeOut(e, s)
      /\ ends' = [ends EXCEPT ![e[1]][e[2]].state = "CLOSED"]
      /\ OnTimeoutPacket(e[1], end.port)
      /\ UNCHANGED <<enabled, bound, addresses, hostEnds, hostActive, accounts, sent, executed>>

SetParams(c) ==
  /\ enabled' = [enabled EXCEPT ![c] = ~ @]
  /\ UNCHANGED <<bound, ends, active, addresses, hostEnds, hostActive, accounts, sent,
                 status, executed>>

Next ==
  \/ \E c \in Controllers :
       \/ InitInterchainAccount(c) \/ MsgChannelOpenInit(c)
       \/ \E i \in DOMAIN ends[c] :
            ChannelOpenTry(c, i) \/ \E j \in DOMAIN hostEnds : ChannelOpenAck(c, i, j)
       \/ \E port \in bound[c] : TrySendTx(c, port)
  \/ \E j \in DOMAIN hostEnds : ChannelOpenConfirm(j) \/ ChannelCloseConfirm(j)
  \/ \E e \in Slots : \E s \in DOMAIN sent[e] :
       \/ RecvPacket(e, s) \/ AcknowledgePacket(e, s)
       \/ TimeoutPacket(e, s) \/ TimeoutOnClose(e, s)
  \/ \E c \in Governed : SetParams(c)

Spec == Init /\ [][Next]_vars

-----------------------------------------------------------------------------
\* The chain, the connection and the owner a channel belongs to.
Controller(e) == <<e[1], ends[e[1]][e[2]].conn, ends[e[1]][e[2]].port[3]>>

\* An interchain account acts for one owner on one chain only: messages it signed came
\* from the same owner over the same connection, also when another chain has an owner,
\* a connection and a port of the same name, and does not check its ports itself (the
\* host's validateControllerPortParams, AuthenticateTx).
AccountsHaveOneOwner ==
  \A m, n \in DOMAIN executed :
    executed[m].signer = executed[n].signer =>
      Controller(executed[m].end) = Controller(executed[n].end)

\* "performing state transitions atomically" (host relay.go): what a channel's packets
\* have executed is, in the order they were sent, every message of those whose
\* acknowledgement reports success, once, and nothing of the others.
TransactionsAreAtomic ==
  \A e \in Slots :
    LET mine == {n \in DOMAIN executed : executed[n].end = e}
        numbers(s) == {executed[n].number : n \in {m \in mine : executed[m].sequence = s}}
    IN  /\ \A n \in mine : executed[n].sequence \in DOMAIN sent[e]
        /\ \A s \in DOMAIN sent[e] :
             numbers(s) = IF status[e][s] \in {"applied", "confirmed"}
                          THEN DOMAIN sent[e][s] ELSE {}
        /\ \A m, n \in mine : m < n =>
             \/ executed[m].sequence < executed[n].sequence
             \/ /\ executed[m].sequence = executed[n].sequence
                /\ executed[m].number < executed[n].number

\* The channel TrySendTx uses is open, is of the port, and leads to the host channel that
\* answered it, and the address the owner was told is the one its messages are checked
\* against, over any number of channels lost and reopened (OnChanOpenAck,
\* OnTimeoutPacket, RegisterInterchainAccount).
ActiveChannelsWork ==
  \A c \in Controllers : \A port \in ControllerPorts :
    /\ active[c][port] # None =>
         LET e == ends[c][active[c][port]]
         IN  /\ e.state = "OPEN" /\ e.port = port
             /\ hostEnds[e.channel].controller = <<c, active[c][port]>>
             /\ hostEnds[e.channel].state # "CLOSED"
             /\ port \in DOMAIN addresses[c]
    /\ port \in DOMAIN addresses[c] =>
         /\ addresses[c][port] \in accounts
         /\ port \in DOMAIN addresses[Host] => addresses[Host][port] = addresses[c][port]
=============================================================================
