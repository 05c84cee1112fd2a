---------------------- MODULE InterchainAccountsSafety ----------------------
(***************************************************************************)
(* Proofs about InterchainAccounts for any controller chains, connections, *)
(* owners and transactions and for every bound: an account acts for one    *)
(* owner, transactions are executed all or nothing and in order, and the   *)
(* active channel of a port works.                                         *)
(*                                                                         *)
(* The invariant has two parts.  Handshakes: the port of a channel the     *)
(* host has answered fits its connection at both ends, an address is       *)
(* always the one generated from the port, and the active channel is an    *)
(* open one of the port whose host end has not closed.  Deliveries: the    *)
(* packets of a channel are delivered in turn, and what has been executed  *)
(* is, message by message, from packets whose acknowledgement reports      *)
(* success.                                                                *)
(***************************************************************************)
EXTENDS InterchainAccounts, SequenceTheorems, NaturalsInduction, WellFoundedInduction, TLAPS

\* Leaves are proved by Zenon unless they name another prover.
USE Zenon

EndType(c) ==
  [port : ControllerPorts, conn : ConnectionSequences(c),
   state : {"INIT", "OPEN", "CLOSED"}, channel : Nat]

HostEndType ==
  [controller : Slots, state : {"TRYOPEN", "OPEN", "CLOSED"}, port : ControllerPorts,
   version : {NewAppVersion(VersionPrefix, GenerateAddress(p)) : p \in ControllerPorts}]

(* The handshakes. *)

HandshakeTypes ==
  /\ bound \in [Controllers -> SUBSET ControllerPorts]
  /\ DOMAIN ends = Controllers
  /\ \A c \in Controllers : ends[c] \in Seq(EndType(c)) /\ Len(ends[c]) <= MaxChannels[c]
  /\ active \in [Controllers -> [ControllerPorts -> Nat]]
  /\ DOMAIN addresses = Chains
  /\ hostEnds \in Seq(HostEndType)

\* The port of an end that the host has answered is that of its connection.
PortFits(c, x) == x.port[1] = x.conn /\ x.port[2] = HostConnection(c, x.conn)
PortsFit ==
  \A c \in Controllers : \A i \in DOMAIN ends[c] :
    ends[c][i].state # "INIT" => PortFits(c, ends[c][i])

\* A host end, if E are the ends of the controllers and G the accounts.
Answers(x, E, G) ==
  LET c == x.controller[1]
      i == x.controller[2]
  IN  /\ i \in DOMAIN E[c]
      /\ x.port = E[c][i].port /\ PortFits(c, E[c][i])
      /\ x.version = NewAppVersion(VersionPrefix, GenerateAddress(x.port))
      /\ GenerateAddress(x.port) \in G
      /\ x.state = "CLOSED" => E[c][i].state = "CLOSED"
Answered == \A j \in DOMAIN hostEnds : Answers(hostEnds[j], ends, accounts)

Addressed ==
  \A c \in Chains : \A port \in DOMAIN addresses[c] :
    addresses[c][port] = GenerateAddress(port) /\ addresses[c][port] \in accounts

\* The channel i of chain c works for the port, if E and H are the ends.
Works(c, port, i, E, H) ==
  LET x == E[c][i]
  IN  /\ i \in DOMAIN E[c]
      /\ x.state = "OPEN" /\ x.port = port
      /\ x.channel \in DOMAIN H
      /\ H[x.channel].controller = <<c, i>>
      /\ H[x.channel].state # "CLOSED"
ActiveOnes ==
  \A c \in Controllers : \A port \in ControllerPorts :
    active[c][port] # None =>
      Works(c, port, active[c][port], ends, hostEnds) /\ port \in DOMAIN addresses[c]

Handshakes == HandshakeTypes /\ PortsFit /\ Answered /\ Addressed /\ ActiveOnes

(* The deliveries. *)

Statuses == Channel!Statuses
Delivered == Channel!Delivered
Successful == {"applied", "confirmed"}

AllTxs == UNION {Txs[port] : port \in ControllerPorts}

EntryType ==
  [end : Slots, sequence : Nat, number : Nat,
   signer : {GenerateAddress(p) : p \in ControllerPorts}]

DeliveryTypes ==
  /\ sent \in [Slots -> Seq(AllTxs)]
  /\ \A e \in Slots : Len(sent[e]) <= MaxPackets[e]
  /\ status \in [Slots -> [1 .. MaxSequence -> Statuses]]
  /\ executed \in Seq(EntryType)

\* Only an end that the host has answered has sent anything.
SentFromEnds ==
  \A e \in Slots : sent[e] # <<>> =>
    e[2] \in DOMAIN ends[e[1]] /\ ends[e[1]][e[2]].state # "INIT"

\* The messages of a transaction, as they are executed.
Entries(e, s) == [n \in DOMAIN sent[e][s] |->
  [end |-> e, sequence |-> s, number |-> n, signer |-> sent[e][s][n].signer]]

\* The packets of a channel are delivered in turn.
InTurn ==
  \A e \in Slots : \A s \in 1 .. MaxSequence :
    status[e][s] \in Delivered => \A t \in 1 .. s - 1 : status[e][t] \in Delivered

\* Entry x of what was executed is a message that succeeded.
Genuine(x) ==
  LET e == x.end
  IN  /\ x.sequence \in DOMAIN sent[e]
      /\ x.number \in DOMAIN sent[e][x.sequence]
      /\ status[e][x.sequence] \in Successful
      /\ x.signer = GenerateAddress(ends[e[1]][e[2]].port)
AllGenuine == \A n \in DOMAIN executed : Genuine(executed[n])

Names(x, e, s, k) == x.end = e /\ x.sequence = s /\ x.number = k

\* Every message that succeeded is there.
Complete ==
  \A e \in Slots : \A s \in DOMAIN sent[e] :
    status[e][s] \in Successful =>
      \A k \in DOMAIN sent[e][s] : \E n \in DOMAIN executed : Names(executed[n], e, s, k)

\* The entries of a channel are in order.
Before(x, y) == \/ x.sequence < y.sequence
                \/ x.sequence = y.sequence /\ x.number < y.number
Sorted ==
  \A m, n \in DOMAIN executed :
    m < n /\ executed[m].end = executed[n].end => Before(executed[m], executed[n])

Deliveries == DeliveryTypes /\ SentFromEnds /\ InTurn /\ AllGenuine /\ Complete /\ Sorted

-----------------------------------------------------------------------------
(* The constants. *)

LEMMA SlotFacts ==
  /\ \A c \in Controllers : \A i \in 1 .. MaxChannels[c] : <<c, i>> \in Slots
  /\ \A e \in Slots : /\ e[1] \in Controllers /\ e[2] \in 1 .. MaxChannels[e[1]]
                      /\ e = <<e[1], e[2]>>
BY SMT DEF Slots

LEMMA ConnectionFacts ==
  ASSUME NEW c \in Controllers, NEW conn \in ConnectionSequences(c)
  PROVE  /\ HostConnection(c, conn) \in DOMAIN Connections
         /\ Connections[HostConnection(c, conn)].chain = c
         /\ Connections[HostConnection(c, conn)].conn = conn
<1>1. PICK h \in DOMAIN Connections : Connections[h].chain = c /\ Connections[h].conn = conn
  BY DEF ConnectionSequences
<1>2. Connections[h] = [chain |-> c, conn |-> conn]
  BY <1>1, AccountAssumptions
<1>3. /\ HostConnection(c, conn) \in DOMAIN Connections
      /\ Connections[HostConnection(c, conn)] = [chain |-> c, conn |-> conn]
  BY <1>2 DEF HostConnection
<1> QED BY <1>3, SMT

LEMMA PortFacts ==
  ASSUME NEW c \in Controllers, NEW conn \in ConnectionSequences(c),
         NEW o \in Owners, NEW h \in DOMAIN Connections
  PROVE  GeneratePortID(o, conn, h) \in ControllerPorts
BY SMT DEF ControllerPorts

\* Two channels of one port are of one chain and one connection.
LEMMA PortTells ==
  ASSUME NEW c \in Controllers, NEW x \in EndType(c), PortFits(c, x),
         NEW d \in Controllers, NEW y \in EndType(d), PortFits(d, y), x.port = y.port
  PROVE  c = d /\ x.conn = y.conn
BY ConnectionFacts, SMT DEF PortFits, EndType

LEMMA AddressTells ==
  ASSUME NEW p, NEW q, GenerateAddress(p) = GenerateAddress(q)
  PROVE  p = q
BY DEF GenerateAddress

-----------------------------------------------------------------------------
(* Steps on the lists of ends. *)

\* One more end.
LEMMA AddEnd ==
  ASSUME NEW S, NEW s \in Seq(S), NEW x \in S
  PROVE  /\ Append(s, x) \in Seq(S)
         /\ Len(s) \in Nat /\ Len(Append(s, x)) = Len(s) + 1
         /\ DOMAIN s = 1 .. Len(s)
         /\ DOMAIN Append(s, x) = DOMAIN s \union {Len(s) + 1}
         /\ \A i \in DOMAIN s : Append(s, x)[i] = s[i]
         /\ Append(s, x)[Len(s) + 1] = x
BY SMT

\* One end changes.
LEMMA SetEnd ==
  ASSUME NEW S, NEW s \in Seq(S), NEW i \in DOMAIN s, NEW x \in S
  PROVE  LET t == [s EXCEPT ![i] = x]
         IN  /\ t \in Seq(S)
             /\ Len(t) = Len(s) /\ DOMAIN t = DOMAIN s
             /\ t[i] = x
             /\ \A k \in DOMAIN s : k # i => t[k] = s[k]
BY SMT

\* Ends are only added, keep their port and connection, and do not return to INIT.
Kept(E, F) ==
  \A c \in Controllers :
    /\ DOMAIN E[c] \subseteq DOMAIN F[c]
    /\ \A i \in DOMAIN E[c] :
         /\ F[c][i].port = E[c][i].port /\ F[c][i].conn = E[c][i].conn
         /\ F[c][i].state = "INIT" => E[c][i].state = "INIT"

\* ...nor is a closed one ever opened again.
StayClosed(E, F) ==
  \A c \in Controllers : \A i \in DOMAIN E[c] :
    E[c][i].state = "CLOSED" => F[c][i].state = "CLOSED"

LEMMA AnswersKept ==
  ASSUME NEW E, NEW F, NEW G, NEW H, NEW x \in HostEndType,
         Kept(E, F), StayClosed(E, F), G \subseteq H, Answers(x, E, G)
  PROVE  Answers(x, F, H)
<1>1. x.controller[1] \in Controllers
  BY SlotFacts DEF HostEndType
<1> DEFINE c == x.controller[1]
           i == x.controller[2]
<1>2. i \in DOMAIN E[c] /\ PortFits(c, E[c][i])
  BY DEF Answers
<1>3. PortFits(c, F[c][i])
  BY <1>1, <1>2 DEF Kept, PortFits
<1>4. i \in DOMAIN F[c] /\ F[c][i].port = E[c][i].port
  BY <1>1, <1>2 DEF Kept
<1>6. E[c][i].state = "CLOSED" => F[c][i].state = "CLOSED"
  BY <1>1, <1>2 DEF StayClosed
<1>5. /\ x.port = E[c][i].port
      /\ x.version = NewAppVersion(VersionPrefix, GenerateAddress(x.port))
      /\ GenerateAddress(x.port) \in G
      /\ x.state = "CLOSED" => E[c][i].state = "CLOSED"
  BY DEF Answers
<1> HIDE DEF c, i
<1> QED BY <1>2, <1>3, <1>4, <1>5, <1>6 DEF Answers, c, i

-----------------------------------------------------------------------------
(* The handshakes, action by action. *)

\* A controller end is added.
LEMMA OpenInitKeeps ==
  ASSUME Handshakes, NEW c \in Controllers, NEW port \in ControllerPorts,
         NEW conn \in ConnectionSequences(c), ChannelOpenInit(c, port, conn),
         bound' \in [Controllers -> SUBSET ControllerPorts],
         UNCHANGED <<active, addresses, hostEnds, accounts>>
  PROVE  Handshakes' /\ Kept(ends, ends')
<1> DEFINE x == [port |-> port, conn |-> conn, state |-> "INIT", channel |-> None]
           n == Len(ends[c])
<1>1. x \in EndType(c) /\ x.state = "INIT"
  BY DEF EndType, None
<1>2. ends' = [ends EXCEPT ![c] = Append(ends[c], x)] /\ n < MaxChannels[c]
  BY DEF ChannelOpenInit
<1> HIDE DEF x
<1>3. ends[c] \in Seq(EndType(c)) /\ MaxChannels[c] \in Nat /\ DOMAIN ends = Controllers
  BY AccountAssumptions DEF Handshakes, HandshakeTypes, Chains
<1>4. /\ DOMAIN ends' = Controllers
      /\ ends'[c] = Append(ends[c], x)
      /\ \A d \in Controllers : d # c => ends'[d] = ends[d]
  BY <1>2, <1>3
<1>5. /\ ends'[c] \in Seq(EndType(c))
      /\ n \in Nat /\ Len(ends'[c]) = n + 1
      /\ DOMAIN ends[c] = 1 .. n
      /\ DOMAIN ends'[c] = DOMAIN ends[c] \union {n + 1}
      /\ \A i \in DOMAIN ends[c] : ends'[c][i] = ends[c][i]
      /\ ends'[c][n + 1] = x
  BY <1>1, <1>3, <1>4, AddEnd, SMT
<1>6. \A d \in Controllers : /\ DOMAIN ends[d] \subseteq DOMAIN ends'[d]
                             /\ \A i \in DOMAIN ends[d] : ends'[d][i] = ends[d][i]
  BY <1>4, <1>5
<1>7. Kept(ends, ends') /\ StayClosed(ends, ends')
  BY <1>6 DEF Kept, StayClosed
<1>8. HandshakeTypes'
  <2>1. Len(ends'[c]) <= MaxChannels[c]
    BY <1>2, <1>3, <1>5, SMT
  <2> QED BY <1>4, <1>5, <2>1 DEF Handshakes, HandshakeTypes
<1>9. PortsFit'
  <2> SUFFICES ASSUME NEW d \in Controllers, NEW k \in DOMAIN ends'[d],
                      ends'[d][k].state # "INIT"
               PROVE  PortFits(d, ends'[d][k])
    BY DEF PortsFit
  <2>1. k \in DOMAIN ends[d] /\ ends'[d][k] = ends[d][k]
    BY <1>1, <1>4, <1>5
  <2> QED BY <2>1 DEF Handshakes, PortsFit
<1>10. Answered'
  <2> SUFFICES ASSUME NEW j \in DOMAIN hostEnds
               PROVE  Answers(hostEnds[j], ends', accounts)
    BY DEF Answered
  <2>1. hostEnds[j] \in HostEndType /\ Answers(hostEnds[j], ends, accounts)
    BY SMT DEF Handshakes, HandshakeTypes, Answered
  <2> QED BY <1>7, <2>1, AnswersKept
<1>11. Addressed'
  BY DEF Handshakes, Addressed
<1>12. ActiveOnes'
  <2> SUFFICES ASSUME NEW d \in Controllers, NEW q \in ControllerPorts, active[d][q] # None
               PROVE  /\ Works(d, q, active[d][q], ends', hostEnds)
                      /\ q \in DOMAIN addresses[d]
    BY DEF ActiveOnes
  <2>1. Works(d, q, active[d][q], ends, hostEnds) /\ q \in DOMAIN addresses[d]
    BY DEF Handshakes, ActiveOnes
  <2> DEFINE k == active[d][q]
  <2>2. k \in DOMAIN ends'[d] /\ ends'[d][k] = ends[d][k]
    BY <1>6, <2>1 DEF Works
  <2> QED BY <2>1, <2>2 DEF Works
<1> QED BY <1>7, <1>8, <1>9, <1>10, <1>11, <1>12 DEF Handshakes

LEMMA InitAccountKeeps ==
  ASSUME Handshakes, NEW c \in Controllers, InitInterchainAccount(c)
  PROVE  Handshakes' /\ Kept(ends, ends')
<1>1. PICK o \in Owners, conn \in ConnectionSequences(c), h \in DOMAIN Connections :
        /\ BindPort(c, GeneratePortID(o, conn, h))
        /\ ChannelOpenInit(c, GeneratePortID(o, conn, h), conn)
        /\ UNCHANGED <<active, addresses, hostEnds, accounts>>
  BY DEF InitInterchainAccount
<1>2. GeneratePortID(o, conn, h) \in ControllerPorts
  BY PortFacts
<1>3. bound' \in [Controllers -> SUBSET ControllerPorts]
  BY <1>1, <1>2 DEF BindPort, Handshakes, HandshakeTypes
<1> QED BY <1>1, <1>2, <1>3, OpenInitKeeps

LEMMA MsgOpenInitKeeps ==
  ASSUME Handshakes, NEW c \in Controllers, MsgChannelOpenInit(c)
  PROVE  Handshakes' /\ Kept(ends, ends')
<1>1. PICK port \in bound[c], conn \in ConnectionSequences(c) :
        /\ ChannelOpenInit(c, port, conn)
        /\ UNCHANGED <<bound, active, addresses, hostEnds, accounts>>
  BY DEF MsgChannelOpenInit
<1>2. port \in ControllerPorts /\ bound' \in [Controllers -> SUBSET ControllerPorts]
  BY <1>1 DEF Handshakes, HandshakeTypes
<1> QED BY <1>1, <1>2, OpenInitKeeps

\* The address that is stored for a port is the one generated from it.
LEMMA SetAddress ==
  ASSUME Handshakes, NEW c \in Chains, NEW port, NEW address,
         SetInterchainAccountAddress(c, port, address),
         address = GenerateAddress(port), accounts \subseteq accounts', address \in accounts'
  PROVE  /\ DOMAIN addresses' = Chains
         /\ Addressed'
         /\ \A d \in Chains : DOMAIN addresses[d] \subseteq DOMAIN addresses'[d]
         /\ port \in DOMAIN addresses'[c]
<1> DEFINE F == [p \in DOMAIN addresses[c] \union {port} |->
                   IF p = port THEN address ELSE addresses[c][p]]
<1>1. addresses' = [addresses EXCEPT ![c] = F]
  BY DEF SetInterchainAccountAddress
<1>2. DOMAIN addresses = Chains
  BY DEF Handshakes, HandshakeTypes
<1>3. /\ DOMAIN addresses' = Chains /\ addresses'[c] = F
      /\ \A d \in Chains : d # c => addresses'[d] = addresses[d]
  BY <1>1, <1>2
<1>4. /\ DOMAIN F = DOMAIN addresses[c] \union {port}
      /\ \A p \in DOMAIN F : F[p] = IF p = port THEN address ELSE addresses[c][p]
  OBVIOUS
<1> HIDE DEF F
<1>5. Addressed'
  <2> SUFFICES ASSUME NEW d \in Chains, NEW p \in DOMAIN addresses'[d]
               PROVE  /\ addresses'[d][p] = GenerateAddress(p)
                      /\ addresses'[d][p] \in accounts'
    BY DEF Addressed
  <2>1. CASE d = c /\ p = port
    BY <1>3, <1>4, <2>1
  <2>2. CASE ~(d = c /\ p = port)
    <3>1. p \in DOMAIN addresses[d] /\ addresses'[d][p] = addresses[d][p]
      BY <1>3, <1>4, <2>2
    <3> QED BY <3>1 DEF Handshakes, Addressed
  <2> QED BY <2>1, <2>2
<1> QED BY <1>3, <1>4, <1>5

\* A host end is added, and its account if there is none.
LEMMA OpenTryKeeps ==
  ASSUME Handshakes, NEW c \in Controllers, NEW i \in DOMAIN ends[c], ChannelOpenTry(c, i)
  PROVE  Handshakes' /\ Kept(ends, ends')
<1> DEFINE e == ends[c][i]
           a == GenerateAddress(e.port)
           x == [controller |-> <<c, i>>, state |-> "TRYOPEN", port |-> e.port,
                 version |-> NewAppVersion(VersionPrefix, a)]
           n == Len(hostEnds)
<1>1. /\ e \in EndType(c) /\ e.port \in ControllerPorts
      /\ i \in 1 .. MaxChannels[c]
  <2>1. ends[c] \in Seq(EndType(c)) /\ Len(ends[c]) <= MaxChannels[c]
    BY DEF Handshakes, HandshakeTypes
  <2>2. MaxChannels[c] \in Nat
    BY AccountAssumptions DEF Chains
  <2>3. e \in EndType(c) /\ i \in 1 .. Len(ends[c]) /\ Len(ends[c]) \in Nat
    BY <2>1, SMT
  <2>4. i \in 1 .. MaxChannels[c]
    BY <2>1, <2>2, <2>3, SMT
  <2> QED BY <2>3, <2>4 DEF EndType
<1>2. x \in HostEndType
  BY <1>1, SlotFacts DEF HostEndType
<1>3. /\ RegisterInterchainAccount(a, e.port)
      /\ hostEnds' = Append(hostEnds, x)
      /\ UNCHANGED <<bound, ends, active>>
  BY DEF ChannelOpenTry, OnChanOpenTry
<1>4. x.controller = <<c, i>> /\ x.state = "TRYOPEN" /\ x.port = e.port
      /\ x.version = NewAppVersion(VersionPrefix, a)
  OBVIOUS
<1>12. PortFits(c, e)
  <2>1. /\ e.port[2] = HostConnection(c, e.conn)
        /\ e.port[1] = Connections[HostConnection(c, e.conn)].conn
    BY DEF ChannelOpenTry, OnChanOpenTry, HostValidateControllerPortParams,
           ParseControllerConnSequence, ParseHostConnSequence
  <2>2. Connections[HostConnection(c, e.conn)].conn = e.conn
    BY <1>1, ConnectionFacts DEF EndType
  <2> QED BY <2>1, <2>2 DEF PortFits
<1> HIDE DEF x
<1>5. hostEnds \in Seq(HostEndType)
  BY DEF Handshakes, HandshakeTypes
<1>6. /\ hostEnds' \in Seq(HostEndType)
      /\ DOMAIN hostEnds' = DOMAIN hostEnds \union {n + 1}
      /\ \A j \in DOMAIN hostEnds : hostEnds'[j] = hostEnds[j]
      /\ hostEnds'[n + 1] = x
  BY <1>2, <1>3, <1>5, AddEnd, SMT
<1>7. /\ accounts \subseteq accounts' /\ a \in accounts'
      /\ DOMAIN addresses' = Chains /\ Addressed'
      /\ \A d \in Chains : DOMAIN addresses[d] \subseteq DOMAIN addresses'[d]
  <2>1. CASE a \in accounts
    BY <1>3, <2>1 DEF RegisterInterchainAccount, Handshakes, HandshakeTypes, Addressed
  <2>2. CASE a \notin accounts
    <3>1. accounts' = accounts \union {a} /\ SetInterchainAccountAddress(Host, e.port, a)
      BY <1>3, <2>2 DEF RegisterInterchainAccount
    <3>2. Host \in Chains /\ accounts \subseteq accounts' /\ a \in accounts'
      BY <3>1 DEF Chains
    <3> QED BY <3>1, <3>2, SetAddress
  <2> QED BY <2>1, <2>2
<1>8. Kept(ends, ends') /\ StayClosed(ends, ends')
  BY <1>3 DEF Kept, StayClosed
<1>9. HandshakeTypes' /\ PortsFit'
  BY <1>3, <1>6, <1>7 DEF Handshakes, HandshakeTypes, PortsFit
<1>10. Answered'
  <2> SUFFICES ASSUME NEW j \in DOMAIN hostEnds'
               PROVE  Answers(hostEnds'[j], ends', accounts')
    BY DEF Answered
  <2>1. CASE j = n + 1
    <3>1. x.controller[1] = c /\ x.controller[2] = i
      BY <1>4, SMT
    <3> QED BY <1>3, <1>4, <1>6, <1>7, <1>12, <2>1, <3>1 DEF Answers
  <2>2. CASE j # n + 1
    <3>1. j \in DOMAIN hostEnds /\ hostEnds'[j] = hostEnds[j]
      BY <1>6, <2>2
    <3>2. hostEnds[j] \in HostEndType /\ Answers(hostEnds[j], ends, accounts)
      BY <1>5, <3>1, SMT DEF Handshakes, Answered
    <3> QED BY <1>7, <1>8, <3>1, <3>2, AnswersKept
  <2> QED BY <2>1, <2>2
<1>11. ActiveOnes'
  <2> SUFFICES ASSUME NEW d \in Controllers, NEW port \in ControllerPorts,
                      active[d][port] # None
               PROVE  /\ Works(d, port, active[d][port], ends, hostEnds')
                      /\ port \in DOMAIN addresses'[d]
    BY <1>3 DEF ActiveOnes
  <2>1. /\ Works(d, port, active[d][port], ends, hostEnds)
        /\ port \in DOMAIN addresses[d]
    BY DEF Handshakes, ActiveOnes
  <2>2. Works(d, port, active[d][port], ends, hostEnds')
    BY <1>6, <2>1 DEF Works
  <2> QED BY <1>7, <2>1, <2>2 DEF Chains
<1> QED BY <1>7, <1>8, <1>9, <1>10, <1>11 DEF Handshakes

\* No end but end i of chain c changes.
OnlyEnd(c, i, E, F) ==
  \A d \in Controllers : \A k \in DOMAIN E[d] :
    k \in DOMAIN F[d] /\ (<<d, k>> # <<c, i>> => F[d][k] = E[d][k])

\* A controller end changes its state or its channel.
LEMMA EndChanges ==
  ASSUME Handshakes, NEW c \in Controllers, NEW i \in DOMAIN ends[c], NEW x \in EndType(c),
         x.port = ends[c][i].port, x.conn = ends[c][i].conn,
         ends[c][i].state = "CLOSED" => x.state = "CLOSED",
         x.state # "INIT", PortFits(c, ends[c][i]),
         ends' = [ends EXCEPT ![c][i] = x],
         UNCHANGED <<hostEnds, accounts>>
  PROVE  /\ DOMAIN ends' = Controllers
         /\ \A d \in Controllers : ends'[d] \in Seq(EndType(d)) /\ Len(ends'[d]) <= MaxChannels[d]
         /\ ends'[c][i] = x
         /\ OnlyEnd(c, i, ends, ends')
         /\ PortsFit' /\ Answered' /\ Kept(ends, ends')
<1>1. ends[c] \in Seq(EndType(c)) /\ DOMAIN ends = Controllers
  BY DEF Handshakes, HandshakeTypes
<1>2. ends' = [ends EXCEPT ![c] = [ends[c] EXCEPT ![i] = x]]
  OBVIOUS
<1>3. /\ DOMAIN ends' = Controllers
      /\ ends'[c] = [ends[c] EXCEPT ![i] = x]
      /\ \A d \in Controllers : d # c => ends'[d] = ends[d]
  BY <1>1, <1>2
<1>4. /\ ends'[c] \in Seq(EndType(c))
      /\ Len(ends'[c]) = Len(ends[c]) /\ DOMAIN ends'[c] = DOMAIN ends[c]
      /\ ends'[c][i] = x
      /\ \A k \in DOMAIN ends[c] : k # i => ends'[c][k] = ends[c][k]
  BY <1>1, <1>3, SetEnd, SMT
<1>5. \A d \in Controllers : ends'[d] \in Seq(EndType(d)) /\ Len(ends'[d]) <= MaxChannels[d]
  BY <1>3, <1>4 DEF Handshakes, HandshakeTypes
<1>6. OnlyEnd(c, i, ends, ends')
  BY <1>3, <1>4 DEF OnlyEnd
<1>7. Kept(ends, ends') /\ StayClosed(ends, ends')
  BY <1>3, <1>4 DEF Kept, StayClosed
<1>8. PortsFit'
  BY <1>3, <1>4, SMT DEF Handshakes, PortsFit, PortFits
<1>9. Answered'
  <2> SUFFICES ASSUME NEW j \in DOMAIN hostEnds
               PROVE  Answers(hostEnds[j], ends', accounts)
    BY DEF Answered
  <2>1. hostEnds[j] \in HostEndType /\ Answers(hostEnds[j], ends, accounts)
    BY SMT DEF Handshakes, HandshakeTypes, Answered
  <2> QED BY <1>7, <2>1, AnswersKept
<1> QED BY <1>3, <1>4, <1>5, <1>6, <1>7, <1>8, <1>9

\* Another active channel works on when one end changes.
LEMMA OthersWork ==
  ASSUME Handshakes, NEW c, NEW i, NEW d \in Controllers, NEW q \in ControllerPorts,
         active[d][q] # None, <<d, active[d][q]>> # <<c, i>>,
         OnlyEnd(c, i, ends, ends')
  PROVE  Works(d, q, active[d][q], ends', hostEnds) /\ q \in DOMAIN addresses[d]
<1> DEFINE k == active[d][q]
<1>1. Works(d, q, k, ends, hostEnds) /\ q \in DOMAIN addresses[d]
  BY DEF Handshakes, ActiveOnes
<1>2. k \in DOMAIN ends[d]
  BY <1>1 DEF Works
<1>3. k \in DOMAIN ends'[d] /\ ends'[d][k] = ends[d][k]
  BY <1>2 DEF OnlyEnd
<1> QED BY <1>1, <1>3 DEF Works

LEMMA OpenAckKeeps ==
  ASSUME Handshakes, NEW c \in Controllers, NEW i \in DOMAIN ends[c],
         NEW j \in DOMAIN hostEnds, ChannelOpenAck(c, i, j)
  PROVE  Handshakes' /\ Kept(ends, ends')
<1> DEFINE e == ends[c][i]
           x == [e EXCEPT !.state = "OPEN", !.channel = j]
           p == e.port
<1>1. /\ e.state = "INIT" /\ hostEnds[j].controller = <<c, i>>
      /\ OnChanOpenAck(c, p, i, hostEnds[j].version)
      /\ ends' = [ends EXCEPT ![c][i] = x]
      /\ UNCHANGED <<bound, hostEnds, accounts>>
  BY DEF ChannelOpenAck
<1>2. /\ e \in EndType(c) /\ j \in Nat \ {0} /\ i \in Nat \ {0}
      /\ hostEnds[j] \in HostEndType
  <2>1. ends[c] \in Seq(EndType(c)) /\ hostEnds \in Seq(HostEndType)
    BY DEF Handshakes, HandshakeTypes
  <2> QED BY <2>1, SMT
<1>3. /\ x \in EndType(c) /\ x.port = p /\ x.conn = e.conn
      /\ x.state = "OPEN" /\ x.channel = j /\ p \in ControllerPorts
  BY <1>2 DEF EndType
<1> HIDE DEF x
<1>5. Answers(hostEnds[j], ends, accounts)
  BY DEF Handshakes, Answered
<1>6. hostEnds[j].controller[1] = c /\ hostEnds[j].controller[2] = i
  BY <1>1, SMT
<1>13. PortFits(c, e)
  BY <1>5, <1>6 DEF Answers
<1>4. /\ DOMAIN ends' = Controllers
      /\ \A d \in Controllers : ends'[d] \in Seq(EndType(d)) /\ Len(ends'[d]) <= MaxChannels[d]
      /\ ends'[c][i] = x
      /\ OnlyEnd(c, i, ends, ends')
      /\ PortsFit' /\ Answered' /\ Kept(ends, ends')
  BY <1>1, <1>3, <1>13, EndChanges
<1>7. /\ hostEnds[j].port = p /\ GenerateAddress(p) \in accounts
      /\ hostEnds[j].version = NewAppVersion(VersionPrefix, GenerateAddress(p))
      /\ hostEnds[j].state # "CLOSED"
  BY <1>1, <1>5, <1>6 DEF Answers
<1>8. /\ SetActiveChannelID(c, p, i)
      /\ SetInterchainAccountAddress(c, p, GenerateAddress(p))
  BY <1>1, <1>7, SMT DEF OnChanOpenAck, ParseAddressFromVersion, NewAppVersion
<1>9. /\ DOMAIN addresses' = Chains /\ Addressed'
      /\ \A d \in Chains : DOMAIN addresses[d] \subseteq DOMAIN addresses'[d]
      /\ p \in DOMAIN addresses'[c]
  BY <1>1, <1>7, <1>8, SetAddress DEF Chains
<1>10. /\ active' \in [Controllers -> [ControllerPorts -> Nat]]
       /\ active'[c][p] = i
       /\ \A d \in Controllers, q \in ControllerPorts :
            <<d, q>> # <<c, p>> => active'[d][q] = active[d][q]
  BY <1>2, <1>3, <1>8 DEF SetActiveChannelID, Handshakes, HandshakeTypes
<1>11. HandshakeTypes'
  BY <1>1, <1>4, <1>9, <1>10 DEF Handshakes, HandshakeTypes
<1>12. ActiveOnes'
  <2> SUFFICES ASSUME NEW d \in Controllers, NEW q \in ControllerPorts, active'[d][q] # None
               PROVE  /\ Works(d, q, active'[d][q], ends', hostEnds)
                      /\ q \in DOMAIN addresses'[d]
    BY <1>1 DEF ActiveOnes
  <2>1. CASE <<d, q>> = <<c, p>>
    <3>1. d = c /\ q = p
      BY <2>1
    <3>2. i \in DOMAIN ends'[c]
      BY <1>4 DEF OnlyEnd
    <3>3. ends'[c][i] = x /\ p \in DOMAIN addresses'[c] /\ active'[c][p] = i
      BY <1>4, <1>9, <1>10
    <3>4. Works(c, p, i, ends', hostEnds)
      BY <1>1, <1>3, <1>7, <3>2, <3>3 DEF Works
    <3> QED BY <3>1, <3>3, <3>4
  <2>2. CASE <<d, q>> # <<c, p>>
    <3>1. active'[d][q] = active[d][q]
      BY <1>10, <2>2
    <3>2. ends[d][active[d][q]].state = "OPEN"
      BY <3>1 DEF Handshakes, ActiveOnes, Works
    <3>3. <<d, active[d][q]>> # <<c, i>>
      BY <1>1, <3>2
    <3>4. Works(d, q, active[d][q], ends', hostEnds) /\ q \in DOMAIN addresses[d]
      BY <1>4, <3>1, <3>3, OthersWork
    <3> QED BY <1>9, <3>1, <3>4 DEF Chains
  <2> QED BY <2>1, <2>2
<1> QED BY <1>4, <1>9, <1>11, <1>12 DEF Handshakes

\* What a timeout does to the controller.
LEMMA TimeoutKeeps ==
  ASSUME Handshakes, NEW e \in Slots, NEW s, TimeoutPacket(e, s) \/ TimeoutOnClose(e, s),
         e[2] \in DOMAIN ends[e[1]], ends[e[1]][e[2]].state # "INIT"
  PROVE  Handshakes' /\ Kept(ends, ends')
<1> DEFINE c == e[1]
           i == e[2]
           old == ends[c][i]
           x == [old EXCEPT !.state = "CLOSED"]
           p == old.port
<1>1. c \in Controllers /\ i \in DOMAIN ends[c]
  BY SlotFacts
<1>2. /\ ends' = [ends EXCEPT ![c][i] = x]
      /\ DeleteActiveChannelID(c, p)
      /\ UNCHANGED <<bound, addresses, hostEnds, accounts>>
  BY DEF TimeoutPacket, TimeoutOnClose, OnTimeoutPacket
<1>3. old \in EndType(c)
  BY <1>1, SMT DEF Handshakes, HandshakeTypes
<1>4. /\ x \in EndType(c) /\ x.port = p /\ x.conn = old.conn /\ x.state = "CLOSED"
      /\ p \in ControllerPorts
  BY <1>3 DEF EndType
<1>9. PortFits(c, old)
  BY <1>1 DEF Handshakes, PortsFit
<1> HIDE DEF x, c, i
<1>5. /\ DOMAIN ends' = Controllers
      /\ \A d \in Controllers : ends'[d] \in Seq(EndType(d)) /\ Len(ends'[d]) <= MaxChannels[d]
      /\ OnlyEnd(c, i, ends, ends')
      /\ PortsFit' /\ Answered' /\ Kept(ends, ends')
  BY <1>1, <1>2, <1>4, <1>9, EndChanges
<1>6. /\ active' \in [Controllers -> [ControllerPorts -> Nat]]
      /\ active'[c][p] = None
      /\ \A d \in Controllers, q \in ControllerPorts :
           <<d, q>> # <<c, p>> => active'[d][q] = active[d][q]
  BY <1>1, <1>2, <1>4 DEF DeleteActiveChannelID, Handshakes, HandshakeTypes, None
<1>7. HandshakeTypes' /\ Addressed'
  BY <1>2, <1>5, <1>6 DEF Handshakes, HandshakeTypes, Addressed
<1>8. ActiveOnes'
  <2> SUFFICES ASSUME NEW d \in Controllers, NEW q \in ControllerPorts, active'[d][q] # None
               PROVE  /\ Works(d, q, active'[d][q], ends', hostEnds)
                      /\ q \in DOMAIN addresses[d]
    BY <1>2 DEF ActiveOnes
  <2>1. <<d, q>> # <<c, p>> /\ active'[d][q] = active[d][q]
    BY <1>6
  <2>2. ends[d][active[d][q]].port = q
    BY <2>1 DEF Handshakes, ActiveOnes, Works
  <2>3. <<d, active[d][q]>> # <<c, i>>
    BY <2>1, <2>2
  <2> QED BY <1>5, <2>1, <2>3, OthersWork
<1> QED BY <1>5, <1>7, <1>8 DEF Handshakes

\* A host end changes its state, to CLOSED only if the controller's end is closed.
LEMMA HostChanges ==
  ASSUME Handshakes, NEW j \in DOMAIN hostEnds, NEW state \in {"OPEN", "CLOSED"},
         hostEnds' = [hostEnds EXCEPT ![j].state = state],
         state = "CLOSED" => ControllerEnd(j).state = "CLOSED",
         UNCHANGED <<bound, ends, active, addresses, accounts>>
  PROVE  Handshakes' /\ Kept(ends, ends')
<1> DEFINE y == hostEnds[j]
           x == [y EXCEPT !.state = state]
<1>1. hostEnds \in Seq(HostEndType) /\ y \in HostEndType
  BY SMT DEF Handshakes, HandshakeTypes
<1>2. /\ x \in HostEndType /\ x.controller = y.controller /\ x.port = y.port
      /\ x.version = y.version /\ x.state = state
  BY <1>1 DEF HostEndType
<1>3. hostEnds' = [hostEnds EXCEPT ![j] = x]
  OBVIOUS
<1> HIDE DEF x
<1>4. /\ hostEnds' \in Seq(HostEndType) /\ DOMAIN hostEnds' = DOMAIN hostEnds
      /\ hostEnds'[j] = x
      /\ \A k \in DOMAIN hostEnds : k # j => hostEnds'[k] = hostEnds[k]
  BY <1>1, <1>2, <1>3, SetEnd, SMT
<1>5. Answered'
  <2> SUFFICES ASSUME NEW k \in DOMAIN hostEnds'
               PROVE  Answers(hostEnds'[k], ends, accounts)
    BY DEF Answered
  <2>1. Answers(hostEnds[k], ends, accounts)
    BY <1>4 DEF Handshakes, Answered
  <2>2. CASE k # j
    BY <1>4, <2>1, <2>2
  <2>3. CASE k = j
    BY <1>2, <1>4, <2>1, <2>3 DEF Answers, ControllerEnd
  <2> QED BY <2>2, <2>3
<1>6. ActiveOnes'
  <2> SUFFICES ASSUME NEW d \in Controllers, NEW q \in ControllerPorts, active[d][q] # None
               PROVE  /\ Works(d, q, active[d][q], ends, hostEnds')
                      /\ q \in DOMAIN addresses[d]
    BY DEF ActiveOnes
  <2> DEFINE i == active[d][q]
             k == ends[d][i].channel
  <2>1. Works(d, q, i, ends, hostEnds) /\ q \in DOMAIN addresses[d]
    BY DEF Handshakes, ActiveOnes
  <2>2. CASE k # j
    BY <1>4, <2>1, <2>2 DEF Works
  <2>3. CASE k = j
    <3>1. y.controller = <<d, i>> /\ ends[d][i].state = "OPEN"
      BY <2>1, <2>3 DEF Works
    <3>2. ControllerEnd(j).state = "OPEN"
      BY <3>1, SMT DEF ControllerEnd
    <3> QED BY <1>2, <1>4, <2>1, <2>3, <3>2 DEF Works
  <2> QED BY <2>2, <2>3
<1>7. HandshakeTypes' /\ PortsFit' /\ Addressed'
  BY <1>4 DEF Handshakes, HandshakeTypes, PortsFit, Addressed
<1>8. Kept(ends, ends')
  BY DEF Kept
<1> QED BY <1>5, <1>6, <1>7, <1>8 DEF Handshakes

LEMMA QuietKeeps ==
  ASSUME Handshakes, UNCHANGED <<bound, ends, active, addresses, hostEnds, accounts>>
  PROVE  Handshakes' /\ Kept(ends, ends')
BY DEF Handshakes, HandshakeTypes, PortsFit, Answered, Addressed, ActiveOnes, Kept

\* Every step keeps the handshakes right.
LEMMA NextHandshakes ==
  ASSUME Handshakes, SentFromEnds, [Next]_vars
  PROVE  Handshakes' /\ Kept(ends, ends')
<1>1. CASE UNCHANGED vars
  BY <1>1, QuietKeeps DEF vars
<1>2. CASE \E c \in Controllers : InitInterchainAccount(c) \/ MsgChannelOpenInit(c)
  BY <1>2, InitAccountKeeps, MsgOpenInitKeeps
<1>3. CASE \E c \in Controllers : \E i \in DOMAIN ends[c] :
             ChannelOpenTry(c, i) \/ \E j \in DOMAIN hostEnds : ChannelOpenAck(c, i, j)
  BY <1>3, OpenTryKeeps, OpenAckKeeps
<1>4. CASE \E c \in Controllers : \E port \in bound[c] : TrySendTx(c, port)
  BY <1>4, QuietKeeps DEF TrySendTx
<1>5. ASSUME NEW j \in DOMAIN hostEnds, ChannelOpenConfirm(j)
      PROVE  Handshakes' /\ Kept(ends, ends')
  BY <1>5, HostChanges DEF ChannelOpenConfirm
<1>6. ASSUME NEW j \in DOMAIN hostEnds, ChannelCloseConfirm(j)
      PROVE  Handshakes' /\ Kept(ends, ends')
  BY <1>6, HostChanges DEF ChannelCloseConfirm
<1>7. ASSUME NEW e \in Slots, NEW s \in DOMAIN sent[e],
             \/ RecvPacket(e, s) \/ AcknowledgePacket(e, s)
             \/ TimeoutPacket(e, s) \/ TimeoutOnClose(e, s)
      PROVE  Handshakes' /\ Kept(ends, ends')
  <2>1. CASE RecvPacket(e, s) \/ AcknowledgePacket(e, s)
    BY <2>1, QuietKeeps DEF RecvPacket, AcknowledgePacket
  <2>2. CASE TimeoutPacket(e, s) \/ TimeoutOnClose(e, s)
    <3>1. sent[e] # <<>>
      BY SMT
    <3> QED BY <2>2, <3>1, TimeoutKeeps DEF SentFromEnds
  <2> QED BY <1>7, <2>1, <2>2
<1>8. CASE \E c \in Governed : SetParams(c)
  BY <1>8, QuietKeeps DEF SetParams
<1> QED BY <1>1, <1>2, <1>3, <1>4, <1>5, <1>6, <1>7, <1>8 DEF Next

-----------------------------------------------------------------------------
(* The deliveries, action by action. *)

LEMMA SentFacts ==
  ASSUME DeliveryTypes, NEW e \in Slots
  PROVE  /\ sent[e] \in Seq(AllTxs)
         /\ Len(sent[e]) \in Nat /\ DOMAIN sent[e] = 1 .. Len(sent[e])
         /\ MaxPackets[e] \in Nat /\ MaxPackets[e] <= MaxSequence /\ MaxSequence \in Nat
         /\ DOMAIN sent[e] \subseteq 1 .. MaxSequence
         /\ \A s \in DOMAIN sent[e] :
              Len(sent[e][s]) \in Nat /\ DOMAIN sent[e][s] = 1 .. Len(sent[e][s])
<1>1. sent[e] \in Seq(AllTxs) /\ Len(sent[e]) <= MaxPackets[e]
  BY DEF DeliveryTypes
<1>2. MaxSequence \in Nat /\ MaxPackets[e] \in 0 .. MaxSequence
  BY AccountAssumptions
<1>3. Len(sent[e]) \in Nat /\ DOMAIN sent[e] = 1 .. Len(sent[e])
  BY <1>1, SMT
<1>4. DOMAIN sent[e] \subseteq 1 .. MaxSequence
  BY <1>1, <1>2, <1>3, SMT
<1>5. \A s \in DOMAIN sent[e] :
        Len(sent[e][s]) \in Nat /\ DOMAIN sent[e][s] = 1 .. Len(sent[e][s])
  <2> SUFFICES ASSUME NEW s \in DOMAIN sent[e]
               PROVE  Len(sent[e][s]) \in Nat /\ DOMAIN sent[e][s] = 1 .. Len(sent[e][s])
    OBVIOUS
  <2>1. sent[e][s] \in AllTxs
    BY <1>1, SMT
  <2> QED BY <2>1, AccountAssumptions, SMT DEF AllTxs
<1> QED BY <1>1, <1>2, <1>3, <1>4, <1>5, SMT

\* The status of one packet changes.
Moved(e, s, from, to) ==
  /\ status[e][s] = from
  /\ status' = [status EXCEPT ![e][s] = to]

OnlyPacket(e, s, old, new) ==
  \A d \in Slots : \A t \in 1 .. MaxSequence : <<d, t>> # <<e, s>> => new[d][t] = old[d][t]

LEMMA MoveFacts ==
  ASSUME DeliveryTypes, NEW e \in Slots, NEW s \in 1 .. MaxSequence,
         NEW from, NEW to \in Statuses, Moved(e, s, from, to)
  PROVE  /\ status' \in [Slots -> [1 .. MaxSequence -> Statuses]]
         /\ status[e][s] = from /\ status'[e][s] = to
         /\ OnlyPacket(e, s, status, status')
<1>1. status \in [Slots -> [1 .. MaxSequence -> Statuses]]
  BY DEF DeliveryTypes
<1>2. status' = [status EXCEPT ![e] = [status[e] EXCEPT ![s] = to]]
  BY DEF Moved
<1>3. /\ status'[e] = [status[e] EXCEPT ![s] = to]
      /\ \A d \in Slots : d # e => status'[d] = status[d]
  BY <1>1, <1>2
<1>4. status'[e] \in [1 .. MaxSequence -> Statuses] /\ status'[e][s] = to
  BY <1>1, <1>3
<1>5. \A t \in 1 .. MaxSequence : t # s => status'[e][t] = status[e][t]
  BY <1>1, <1>3
<1>6. status' \in [Slots -> [1 .. MaxSequence -> Statuses]]
  BY <1>1, <1>2, <1>4
<1> QED BY <1>3, <1>4, <1>5, <1>6 DEF Moved, OnlyPacket

\* The order of delivery is kept if the packet is delivered in its turn, or not at all.
LEMMA TurnKept ==
  ASSUME DeliveryTypes, InTurn, NEW e \in Slots, NEW s \in 1 .. MaxSequence,
         OnlyPacket(e, s, status, status'),
         \/ status[e][s] \in Delivered <=> status'[e][s] \in Delivered
         \/ /\ status'[e][s] \in Delivered
            /\ \A t \in 1 .. s - 1 : status[e][t] \in Delivered
  PROVE  InTurn'
<1> SUFFICES ASSUME NEW d \in Slots, NEW t \in 1 .. MaxSequence, status'[d][t] \in Delivered,
                    NEW u \in 1 .. t - 1
             PROVE  status'[d][u] \in Delivered
  BY DEF InTurn
<1>1. MaxSequence \in Nat
  BY AccountAssumptions
<1>2. u \in 1 .. MaxSequence /\ t \in Nat /\ u < t
  BY <1>1, SMT
<1>3. CASE d # e
  BY <1>2, <1>3 DEF OnlyPacket, InTurn
<1>4. CASE d = e /\ u = s
  <2>1. status'[d][t] = status[d][t]
    BY <1>2, <1>4, SMT DEF OnlyPacket
  <2>2. status[e][s] \in Delivered
    BY <1>2, <1>4, <2>1 DEF InTurn
  <2> QED BY <1>4, <2>2
<1>5. CASE d = e /\ u # s
  <2>1. status'[d][u] = status[d][u]
    BY <1>2, <1>5 DEF OnlyPacket
  <2>2. CASE t # s
    <3>1. status[d][t] \in Delivered
      BY <1>5, <2>2 DEF OnlyPacket
    <3> QED BY <2>1, <3>1 DEF InTurn
  <2>3. CASE t = s
    BY <1>2, <1>5, <2>1, <2>3 DEF InTurn
  <2> QED BY <2>2, <2>3
<1> QED BY <1>3, <1>4, <1>5

\* An entry stays genuine while its packet stays successful.
LEMMA GenuineKept ==
  ASSUME DeliveryTypes, SentFromEnds, Kept(ends, ends'), NEW x \in EntryType, Genuine(x),
         \A e \in Slots : \A s \in DOMAIN sent[e] :
           s \in DOMAIN sent'[e] /\ sent'[e][s] = sent[e][s],
         status'[x.end][x.sequence] \in Successful
  PROVE  Genuine(x)'
<1> DEFINE e == x.end
<1>1. e \in Slots /\ e[1] \in Controllers
  BY SlotFacts DEF EntryType
<1>2. x.sequence \in DOMAIN sent[e]
  BY DEF Genuine
<1>3. e[2] \in DOMAIN ends[e[1]]
  <2>1. sent[e] # <<>>
    BY <1>2, SMT
  <2> QED BY <1>1, <2>1 DEF SentFromEnds
<1>4. ends'[e[1]][e[2]].port = ends[e[1]][e[2]].port
  BY <1>1, <1>3 DEF Kept
<1> QED BY <1>1, <1>2, <1>4 DEF Genuine

\* A step on the status alone that does not change who succeeded.
LEMMA StatusKeeps ==
  ASSUME Deliveries, Kept(ends, ends'), UNCHANGED <<sent, executed>>,
         status' \in [Slots -> [1 .. MaxSequence -> Statuses]], InTurn',
         \A e \in Slots : \A s \in DOMAIN sent[e] :
           status'[e][s] \in Successful <=> status[e][s] \in Successful
  PROVE  Deliveries'
<1>1. DeliveryTypes'
  BY DEF Deliveries, DeliveryTypes
<1>2. SentFromEnds'
  BY SlotFacts DEF Deliveries, SentFromEnds, Kept
<1>3. AllGenuine'
  <2> SUFFICES ASSUME NEW n \in DOMAIN executed PROVE Genuine(executed[n])'
    BY DEF AllGenuine
  <2>1. executed[n] \in EntryType /\ Genuine(executed[n])
    BY SMT DEF Deliveries, DeliveryTypes, AllGenuine
  <2> DEFINE x == executed[n]
  <2>2. status'[x.end][x.sequence] \in Successful
    BY <2>1 DEF Genuine, EntryType
  <2>3. Genuine(x)'
    <3> HIDE DEF x
    <3> QED BY <2>1, <2>2, GenuineKept DEF Deliveries, x
  <2> QED BY <2>3
<1>4. Complete' /\ Sorted'
  BY DEF Deliveries, Complete, Sorted
<1> QED BY <1>1, <1>2, <1>3, <1>4 DEF Deliveries

LEMMA QuietDeliveries ==
  ASSUME Deliveries, Kept(ends, ends'), UNCHANGED <<sent, status, executed>>
  PROVE  Deliveries'
<1>1. InTurn' /\ status' \in [Slots -> [1 .. MaxSequence -> Statuses]]
  BY DEF Deliveries, DeliveryTypes, InTurn
<1> QED BY <1>1, StatusKeeps

LEMMA AcknowledgeDeliveries ==
  ASSUME Deliveries, Kept(ends, ends'), NEW e \in Slots, NEW s \in DOMAIN sent[e],
         AcknowledgePacket(e, s) \/ TimeoutPacket(e, s) \/ TimeoutOnClose(e, s)
  PROVE  Deliveries'
<1>1. DeliveryTypes /\ s \in 1 .. MaxSequence
  BY SentFacts DEF Deliveries
<1>2. PICK from \in Statuses, to \in Statuses :
        /\ Moved(e, s, from, to)
        /\ from \in Successful <=> to \in Successful
        /\ from \in Delivered <=> to \in Delivered
  BY DEF AcknowledgePacket, TimeoutPacket, TimeoutOnClose, Channel!Confirm, Channel!Fail,
         Channel!TimeOut, Channel!Move, Moved, Statuses, Delivered, Successful, Channel!Statuses,
         Channel!Delivered
<1>3. UNCHANGED <<sent, executed>>
  BY DEF AcknowledgePacket, TimeoutPacket, TimeoutOnClose
<1>4. /\ status' \in [Slots -> [1 .. MaxSequence -> Statuses]]
      /\ status[e][s] = from /\ status'[e][s] = to
      /\ OnlyPacket(e, s, status, status')
  BY <1>1, <1>2, MoveFacts
<1>5. InTurn'
  BY <1>1, <1>2, <1>4, TurnKept DEF Deliveries
<1>6. \A d \in Slots : \A t \in DOMAIN sent[d] :
        status'[d][t] \in Successful <=> status[d][t] \in Successful
  <2> SUFFICES ASSUME NEW d \in Slots, NEW t \in DOMAIN sent[d]
               PROVE  status'[d][t] \in Successful <=> status[d][t] \in Successful
    OBVIOUS
  <2>1. t \in 1 .. MaxSequence
    BY <1>1, SentFacts
  <2>2. CASE d = e /\ t = s
    BY <1>2, <1>4, <2>2
  <2>3. CASE ~(d = e /\ t = s)
    BY <1>4, <2>1, <2>3 DEF OnlyPacket
  <2> QED BY <2>2, <2>3
<1> QED BY <1>3, <1>4, <1>5, <1>6, StatusKeeps

\* A transaction is sent on the active channel.
LEMMA SendDeliveries ==
  ASSUME Handshakes, Deliveries, NEW c \in Controllers, NEW port \in bound[c],
         TrySendTx(c, port)
  PROVE  Deliveries'
<1> DEFINE i == active[c][port]
           e == <<c, i>>
           n == Len(sent[e])
           s == n + 1
<1>1. /\ i # None /\ n < MaxPackets[e]
      /\ \A t \in 1 .. s - 1 : status[e][t] # "unsent"
      /\ Moved(e, s, "unsent", "sent")
      /\ UNCHANGED <<ends, executed>>
  BY DEF TrySendTx, GetActiveChannelID, Channel!Send, Channel!Move, Moved
<1>2. PICK tx \in Txs[port] : sent' = [sent EXCEPT ![e] = Append(sent[e], tx)]
  BY DEF TrySendTx, GetActiveChannelID
<1>3. port \in ControllerPorts
  BY DEF Handshakes, HandshakeTypes
<1>4. i \in DOMAIN ends[c] /\ ends[c][i].state # "INIT"
  BY <1>1, <1>3 DEF Handshakes, ActiveOnes, Works
<1>5. e \in Slots /\ e[1] = c /\ e[2] = i
  <2>1. ends[c] \in Seq(EndType(c)) /\ Len(ends[c]) <= MaxChannels[c]
    BY DEF Handshakes, HandshakeTypes
  <2>2. MaxChannels[c] \in Nat
    BY AccountAssumptions DEF Chains
  <2>3. i \in 1 .. Len(ends[c]) /\ Len(ends[c]) \in Nat
    BY <1>4, <2>1, SMT
  <2>4. i \in 1 .. MaxChannels[c]
    BY <2>1, <2>2, <2>3, SMT
  <2> QED BY <2>4, SlotFacts
<1> HIDE DEF i, e
<1>6. DeliveryTypes /\ SentFromEnds /\ InTurn
  BY DEF Deliveries
<1>7. /\ sent[e] \in Seq(AllTxs) /\ n \in Nat /\ DOMAIN sent[e] = 1 .. n
      /\ MaxPackets[e] \in Nat /\ MaxPackets[e] <= MaxSequence /\ MaxSequence \in Nat
  BY <1>5, <1>6, SentFacts
<1>8. s \in 1 .. MaxSequence /\ s \notin DOMAIN sent[e] /\ n + 1 <= MaxPackets[e]
  BY <1>1, <1>7, SMT
<1>9. tx \in AllTxs
  BY <1>3 DEF AllTxs
<1>10. /\ sent' \in [Slots -> Seq(AllTxs)]
       /\ sent'[e] = Append(sent[e], tx)
       /\ \A d \in Slots : d # e => sent'[d] = sent[d]
  BY <1>2, <1>5, <1>6, <1>7, <1>9, SMT DEF DeliveryTypes
<1>11. /\ Len(sent'[e]) = n + 1 /\ DOMAIN sent'[e] = DOMAIN sent[e] \union {s}
       /\ \A t \in DOMAIN sent[e] : sent'[e][t] = sent[e][t]
  BY <1>7, <1>9, <1>10, AddEnd, SMT
<1>12. /\ status' \in [Slots -> [1 .. MaxSequence -> Statuses]]
       /\ status[e][s] = "unsent" /\ status'[e][s] = "sent"
       /\ OnlyPacket(e, s, status, status')
  <2>1. "sent" \in Statuses
    BY DEF Statuses, Channel!Statuses
  <2> HIDE DEF s
  <2> QED BY <1>1, <1>5, <1>6, <1>8, <2>1, MoveFacts
<1> HIDE DEF s
<1>13. InTurn'
  <2>1. "unsent" \notin Delivered /\ "sent" \notin Delivered
    BY DEF Delivered, Channel!Delivered
  <2> QED BY <1>5, <1>6, <1>8, <1>12, <2>1, TurnKept
<1>14. Kept(ends, ends')
  BY <1>1 DEF Kept
<1>15. \A d \in Slots : \A t \in DOMAIN sent[d] :
         /\ t \in DOMAIN sent'[d] /\ sent'[d][t] = sent[d][t]
         /\ status'[d][t] = status[d][t]
  <2> SUFFICES ASSUME NEW d \in Slots, NEW t \in DOMAIN sent[d]
               PROVE  /\ t \in DOMAIN sent'[d] /\ sent'[d][t] = sent[d][t]
                      /\ status'[d][t] = status[d][t]
    OBVIOUS
  <2>1. t \in 1 .. MaxSequence
    BY <1>6, SentFacts
  <2>2. ~(d = e /\ t = s)
    BY <1>8
  <2>3. status'[d][t] = status[d][t]
    BY <1>12, <2>1, <2>2 DEF OnlyPacket
  <2> QED BY <1>10, <1>11, <2>3
<1>16. DeliveryTypes'
  <2>1. \A d \in Slots : Len(sent'[d]) <= MaxPackets[d]
    BY <1>6, <1>8, <1>10, <1>11 DEF DeliveryTypes
  <2> QED BY <1>1, <1>6, <1>10, <1>12, <2>1 DEF DeliveryTypes
<1>17. SentFromEnds'
  BY <1>1, <1>4, <1>5, <1>6, <1>10 DEF SentFromEnds
<1>18. AllGenuine'
  <2> SUFFICES ASSUME NEW m \in DOMAIN executed PROVE Genuine(executed[m])'
    BY <1>1 DEF AllGenuine
  <2> DEFINE x == executed[m]
  <2>1. x \in EntryType /\ Genuine(x) /\ x' = x
    BY <1>1, SMT DEF Deliveries, DeliveryTypes, AllGenuine
  <2>2. status'[x.end][x.sequence] \in Successful
    BY <1>15, <2>1 DEF Genuine, EntryType
  <2>3. Genuine(x)'
    <3> HIDE DEF x
    <3> QED BY <1>6, <1>14, <1>15, <2>1, <2>2, GenuineKept
  <2> QED BY <2>3
<1>19. Complete'
  <2> SUFFICES ASSUME NEW d \in Slots, NEW t \in DOMAIN sent'[d],
                      status'[d][t] \in Successful, NEW k \in DOMAIN sent'[d][t]
               PROVE  \E m \in DOMAIN executed : Names(executed[m], d, t, k)
    BY <1>1 DEF Complete
  <2>1. t \in DOMAIN sent[d]
    BY <1>10, <1>11, <1>12 DEF Successful
  <2> QED BY <1>15, <2>1 DEF Deliveries, Complete
<1>20. Sorted'
  BY <1>1 DEF Deliveries, Sorted
<1> QED BY <1>13, <1>16, <1>17, <1>18, <1>19, <1>20 DEF Deliveries

\* A nonempty set of naturals has a least element.
LEMMA LeastNat ==
  ASSUME NEW T, T \subseteq Nat, T # {}
  PROVE  \E n \in T : \A m \in T : n <= m
<1>1. PICK n \in T : \A m \in T : ~ (<<m, n>> \in OpToRel(<, Nat))
  BY NatLessThanWellFounded, WFMin
<1>2. \A m, k \in Nat : m < k => <<m, k>> \in OpToRel(<, Nat)
  BY DEF OpToRel
<1>3. \A m \in T : m \in Nat /\ n \in Nat /\ ~ (m < n)
  BY <1>1, <1>2
<1> QED BY <1>3, SMT

\* The loop of executeTx: g has gone through the first n messages.
RunStep(e, s, g, k) ==
  IF k = 0 THEN [ok |-> TRUE, ctx |-> executed]
  ELSE IF g[k - 1].ok /\ sent[e][s][k].kind = "ok"
       THEN [ok |-> TRUE, ctx |-> ExecuteMsg(g[k - 1].ctx, e, s, k)]
       ELSE [ok |-> FALSE, ctx |-> g[k - 1].ctx]
Runs(e, s, n, g) == g = [k \in 0 .. n |-> RunStep(e, s, g, k)]

LEMMA CacheUnfolds ==
  ASSUME NEW e, NEW s
  PROVE  CacheContext(e, s) = (CHOOSE g : Runs(e, s, Len(sent[e][s]), g))[Len(sent[e][s])]
BY DEF CacheContext, Runs, RunStep

LEMMA RunExists ==
  ASSUME NEW e, NEW s
  PROVE  \A n \in Nat : \E g : Runs(e, s, n, g)
<1> DEFINE bad == {n \in Nat : ~ \E g : Runs(e, s, n, g)}
<1>1. ASSUME bad # {} PROVE FALSE
  <2>1. PICK m \in bad : \A k \in bad : m <= k
    BY <1>1, LeastNat
  <2>2. ~ \E g : Runs(e, s, m, g)
    BY <2>1
  <2>3. CASE m = 0
    <3> DEFINE start == [ok |-> TRUE, ctx |-> executed]
               h == [k \in 0 .. 0 |-> start]
    <3>1. ASSUME NEW k \in 0 .. 0 PROVE h[k] = RunStep(e, s, h, k)
      <4>1. k = 0
        BY SMT
      <4> QED BY <4>1 DEF RunStep
    <3>2. h = [k \in 0 .. 0 |-> h[k]]
      OBVIOUS
    <3> HIDE DEF h
    <3>3. Runs(e, s, 0, h)
      BY <3>1, <3>2 DEF Runs
    <3> QED BY <2>2, <2>3, <3>3
  <2>4. CASE m # 0
    <3>1. m - 1 \in Nat /\ m - 1 \notin bad
      BY <2>1, <2>4, SMT
    <3>2. PICK g : Runs(e, s, m - 1, g)
      BY <3>1
    <3> DEFINE h == [k \in 0 .. m |-> IF k < m THEN g[k] ELSE RunStep(e, s, g, m)]
    <3>3. ASSUME NEW k \in 0 .. m PROVE h[k] = RunStep(e, s, h, k)
      <4>1. CASE k < m
        <5>1. k \in 0 .. (m - 1) /\ h[k] = g[k]
          BY <4>1, SMT
        <5>2. g[k] = RunStep(e, s, g, k)
          BY <3>2, <5>1 DEF Runs
        <5>3. k # 0 => h[k - 1] = g[k - 1]
          BY <4>1, SMT
        <5> QED BY <5>1, <5>2, <5>3 DEF RunStep
      <4>2. CASE k = m
        <5>1. h[k] = RunStep(e, s, g, m)
          BY <4>2, SMT
        <5>2. h[m - 1] = g[m - 1]
          BY <2>4, SMT
        <5> QED BY <4>2, <5>1, <5>2 DEF RunStep
      <4> QED BY <4>1, <4>2, SMT
    <3>4. h = [k \in 0 .. m |-> h[k]]
      OBVIOUS
    <3> HIDE DEF h
    <3>5. Runs(e, s, m, h)
      BY <3>3, <3>4 DEF Runs
    <3> QED BY <2>2, <3>5
  <2> QED BY <2>3, <2>4
<1> QED BY <1>1

\* The first k elements of f, as a sequence.
Firsts(f, k) == [j \in 1 .. k |-> f[j]]

AppendsAfter(L, F, x) == Append(L \o F, x) = L \o Append(F, x)

LEMMA AppendAfter ==
  ASSUME NEW S, NEW L \in Seq(S), NEW F \in Seq(S), NEW x \in S
  PROVE  AppendsAfter(L, F, x)
<1> DEFINE G == Append(F, x)
           A == L \o F
           B == L \o G
           C == Append(A, x)
<1>1. /\ G \in Seq(S) /\ Len(G) = Len(F) + 1 /\ G[Len(F) + 1] = x
      /\ \A i \in 1 .. Len(F) : G[i] = F[i]
  BY SMT
<1>2. /\ A \in Seq(S) /\ Len(A) = Len(L) + Len(F)
      /\ \A i \in 1 .. Len(L) + Len(F) :
           A[i] = IF i <= Len(L) THEN L[i] ELSE F[i - Len(L)]
  BY ConcatProperties
<1>3. G \in Seq(S)
  BY <1>1
<1> HIDE DEF G
<1>4. /\ B \in Seq(S) /\ Len(B) = Len(L) + Len(G)
      /\ \A i \in 1 .. Len(L) + Len(G) :
           B[i] = IF i <= Len(L) THEN L[i] ELSE G[i - Len(L)]
  BY <1>3, ConcatProperties
<1>5. A \in Seq(S)
  BY <1>2
<1> HIDE DEF A, B
<1>6. /\ C \in Seq(S) /\ Len(C) = Len(A) + 1 /\ C[Len(A) + 1] = x
      /\ \A i \in 1 .. Len(A) : C[i] = A[i]
  BY <1>5, SMT
<1> HIDE DEF C
<1>7. Len(L) \in Nat /\ Len(F) \in Nat
  BY SMT
<1>8. Len(C) = Len(B)
  BY <1>1, <1>2, <1>4, <1>6, <1>7, SMT
<1> DEFINE l == Len(L)
           m == Len(F)
<1>9. ASSUME NEW i \in 1 .. Len(C) PROVE C[i] = B[i]
  <2>1. /\ l \in Nat /\ m \in Nat /\ Len(A) = l + m /\ Len(C) = l + m + 1
        /\ i \in 1 .. l + m + 1
    BY <1>2, <1>6, <1>7, SMT
  <2> HIDE DEF l, m
  <2>2. CASE i <= l
    <3>1. i \in 1 .. Len(A) /\ i \in 1 .. l + m /\ i \in 1 .. l + Len(G)
      BY <1>1, <2>1, <2>2, SMT DEF m
    <3> QED BY <1>2, <1>4, <1>6, <2>2, <3>1 DEF l, m
  <2>3. CASE ~(i <= l) /\ i <= l + m
    <3>1. i \in 1 .. Len(A) /\ i \in 1 .. l + m /\ i \in 1 .. l + Len(G) /\ i - l \in 1 .. m
      BY <1>1, <2>1, <2>3, SMT DEF m
    <3> QED BY <1>1, <1>2, <1>4, <1>6, <2>3, <3>1 DEF l, m
  <2>4. CASE ~(i <= l + m)
    <3>1. /\ i = Len(A) + 1 /\ i \in 1 .. l + Len(G) /\ i - l = m + 1
          /\ ~(i <= l)
      BY <1>1, <2>1, <2>4, SMT DEF m
    <3> QED BY <1>1, <1>4, <1>6, <3>1 DEF l, m
  <2> QED BY <2>2, <2>3, <2>4
<1>10. C = B
  BY <1>4, <1>6, <1>8, <1>9, SeqEqual
<1> QED BY <1>10 DEF A, B, C, G, AppendsAfter

\* One more element of f follows L.
FollowedByNext(L, f, k) == Append(L \o Firsts(f, k - 1), f[k]) = L \o Firsts(f, k)

LEMMA FollowedBy ==
  ASSUME NEW S, NEW L \in Seq(S), NEW n \in Nat, NEW f \in [1 .. n -> S], NEW k \in 1 .. n
  PROVE  FollowedByNext(L, f, k)
<1>1. Firsts(f, k - 1) \in Seq(S) /\ f[k] \in S
  BY SMT DEF Firsts
<1>2. Append(Firsts(f, k - 1), f[k]) = Firsts(f, k)
  BY SMT DEF Firsts
<1>3. AppendsAfter(L, Firsts(f, k - 1), f[k])
  BY <1>1, AppendAfter
<1> QED BY <1>2, <1>3 DEF FollowedByNext, AppendsAfter

LEMMA ResultFacts ==
  ASSUME NEW a, NEW c
  PROVE  LET x == [ok |-> a, ctx |-> c] IN x.ok = a /\ x.ctx = c
OBVIOUS

\* If the loop comes to its end, the cached context holds what was executed before and
\* then every message of the transaction.
LEMMA AllExecuted ==
  ASSUME DeliveryTypes, NEW e \in Slots, NEW s \in DOMAIN sent[e], CacheContext(e, s).ok
  PROVE  CacheContext(e, s).ctx = executed \o Entries(e, s)
<1> DEFINE n == Len(sent[e][s])
           g == CHOOSE h : Runs(e, s, n, h)
           f == Entries(e, s)
           S == EntryType \union {f[k] : k \in 1 .. n}
           bad == {k \in 0 .. n : g[k].ok /\ g[k].ctx # executed \o Firsts(f, k)}
<1>1. n \in Nat /\ DOMAIN sent[e][s] = 1 .. n
  BY SentFacts
<1>2. f \in [1 .. n -> S]
  BY <1>1 DEF Entries
<1>10. f = Firsts(f, n)
  BY <1>1 DEF Entries, Firsts
<1>3. \A k \in 1 .. n : f[k] =
        [end |-> e, sequence |-> s, number |-> k, signer |-> sent[e][s][k].signer]
  BY <1>1 DEF Entries
<1>4. executed \in Seq(S)
  <2>1. executed \in Seq(EntryType)
    BY DEF DeliveryTypes
  <2> HIDE DEF S
  <2>2. EntryType \subseteq S
    BY DEF S
  <2> QED BY <2>1, <2>2, SMT
<1>5. Runs(e, s, n, g)
  BY <1>1, RunExists
<1>6. CacheContext(e, s) = g[n]
  BY CacheUnfolds
<1> HIDE DEF g, f, S, n
<1>7. ASSUME bad # {} PROVE FALSE
  <2>1. bad \subseteq Nat
    BY <1>1, SMT
  <2>2. PICK m \in bad : \A k \in bad : m <= k
    BY <1>7, <2>1, LeastNat
  <2>3. m \in 0 .. n /\ g[m].ok /\ g[m].ctx # executed \o Firsts(f, m)
    BY <2>2
  <2>7. ASSUME NEW k \in 0 .. n, k \notin bad, g[k].ok PROVE g[k].ctx = executed \o Firsts(f, k)
    BY <2>7
  <2> HIDE DEF bad
  <2>4. g[m] = RunStep(e, s, g, m)
    BY <1>5, <2>3 DEF Runs
  <2>5. CASE m = 0
    <3>1. Firsts(f, 0) = <<>>
      BY SMT DEF Firsts
    <3>2. executed \o <<>> = executed
      BY <1>4, SMT
    <3>3. g[m].ctx = executed
      BY <2>4, <2>5, SMT DEF RunStep
    <3> QED BY <2>3, <2>5, <3>1, <3>2, <3>3
  <2>6. CASE m # 0
    <3>1. m \in 1 .. n /\ m - 1 \in 0 .. n /\ m - 1 \notin bad
      BY <1>1, <2>2, <2>3, <2>6, SMT
    <3>2. g[m - 1].ok /\ g[m].ctx = ExecuteMsg(g[m - 1].ctx, e, s, m)
      <4>1. CASE g[m - 1].ok /\ sent[e][s][m].kind = "ok"
        <5>1. g[m] = [ok |-> TRUE, ctx |-> ExecuteMsg(g[m - 1].ctx, e, s, m)]
          BY <2>4, <2>6, <4>1 DEF RunStep
        <5>2. g[m].ctx = ExecuteMsg(g[m - 1].ctx, e, s, m)
          BY <5>1, ResultFacts
        <5> QED BY <4>1, <5>2
      <4>2. CASE ~ (g[m - 1].ok /\ sent[e][s][m].kind = "ok")
        <5>1. g[m] = [ok |-> FALSE, ctx |-> g[m - 1].ctx]
          BY <2>4, <2>6, <4>2 DEF RunStep
        <5> QED BY <2>3, <5>1, ResultFacts
      <4> QED BY <4>1, <4>2
    <3>3. g[m - 1].ctx = executed \o Firsts(f, m - 1)
      BY <2>7, <3>1, <3>2
    <3>4. g[m].ctx = Append(executed \o Firsts(f, m - 1), f[m])
      BY <1>3, <3>1, <3>2, <3>3 DEF ExecuteMsg
    <3>5. Append(executed \o Firsts(f, m - 1), f[m]) = executed \o Firsts(f, m)
      <4>1. FollowedByNext(executed, f, m)
        BY <1>1, <1>2, <1>4, <3>1, FollowedBy
      <4> QED BY <4>1 DEF FollowedByNext
    <3> QED BY <2>3, <3>4, <3>5
  <2> QED BY <2>5, <2>6
<1>8. n \in 0 .. n
  BY <1>1, SMT
<1>9. g[n].ctx = executed \o Firsts(f, n)
  BY <1>6, <1>7, <1>8
<1> QED BY <1>10, <1>6, <1>9 DEF f

\* The messages of one transaction, as they are executed.
LEMMA EntryFacts ==
  ASSUME Handshakes, Deliveries, NEW e \in Slots, NEW s \in DOMAIN sent[e],
         AuthenticateTx(sent[e][s], ends[e[1]][e[2]].port)
  PROVE  /\ Entries(e, s) \in Seq(EntryType)
         /\ DOMAIN Entries(e, s) = DOMAIN sent[e][s]
         /\ \A k \in DOMAIN sent[e][s] :
              /\ Names(Entries(e, s)[k], e, s, k)
              /\ Entries(e, s)[k].signer = GenerateAddress(ends[e[1]][e[2]].port)
<1> DEFINE tx == sent[e][s]
           port == ends[e[1]][e[2]].port
           address == GenerateAddress(port)
<1>1. Len(tx) \in Nat /\ DOMAIN tx = 1 .. Len(tx) /\ s \in Nat
  BY SentFacts, SMT DEF Deliveries
<1>2. port \in ControllerPorts
  <2>1. e[1] \in Controllers /\ e[2] \in DOMAIN ends[e[1]]
    BY SlotFacts, SMT DEF Deliveries, SentFromEnds
  <2>2. ends[e[1]] \in Seq(EndType(e[1]))
    BY <2>1 DEF Handshakes, HandshakeTypes
  <2>3. ends[e[1]][e[2]] \in EndType(e[1])
    BY <2>1, <2>2, SMT
  <2> QED BY <2>3 DEF EndType
<1>3. \A k \in DOMAIN tx : tx[k].signer = address
  <2>1. port \in DOMAIN addresses[Host] /\ \A k \in DOMAIN tx : tx[k].signer = addresses[Host][port]
    BY DEF AuthenticateTx
  <2>2. addresses[Host][port] = address
    BY <2>1 DEF Handshakes, Addressed, Chains
  <2> QED BY <2>1, <2>2
<1> DEFINE x(k) == [end |-> e, sequence |-> s, number |-> k, signer |-> address]
<1>4. Entries(e, s) = [k \in 1 .. Len(tx) |-> x(k)]
  <2>1. Entries(e, s) = [k \in DOMAIN tx |->
          [end |-> e, sequence |-> s, number |-> k, signer |-> tx[k].signer]]
    BY DEF Entries
  <2> HIDE DEF tx, address
  <2> QED BY <1>1, <1>3, <2>1
<1>5. \A k \in 1 .. Len(tx) : x(k) \in EntryType
  <2> SUFFICES ASSUME NEW k \in 1 .. Len(tx) PROVE x(k) \in EntryType
    OBVIOUS
  <2>1. k \in Nat
    BY <1>1, SMT
  <2>2. address \in {GenerateAddress(p) : p \in ControllerPorts}
    BY <1>2
  <2> HIDE DEF address, tx
  <2> QED BY <1>1, <2>1, <2>2 DEF EntryType
<1>6. \A k \in DOMAIN tx : Names(x(k), e, s, k) /\ x(k).signer = address
  <2> HIDE DEF address, tx
  <2> QED BY DEF Names
<1> HIDE DEF x, tx
<1>7. Entries(e, s) \in Seq(EntryType)
  BY <1>1, <1>4, <1>5, SMT
<1> QED BY <1>1, <1>4, <1>6, <1>7 DEF tx

\* A transaction succeeds and its messages follow what was executed.
Joined(L, D, M) ==
  /\ Len(L) \in Nat /\ Len(D) \in Nat
  /\ DOMAIN L = 1 .. Len(L) /\ DOMAIN D = 1 .. Len(D)
  /\ \A n \in DOMAIN L : n \in DOMAIN M /\ M[n] = L[n]
  /\ \A k \in DOMAIN D : Len(L) + k \in DOMAIN M /\ M[Len(L) + k] = D[k]
  /\ \A n \in DOMAIN M : n \in DOMAIN L \/ \E k \in DOMAIN D : n = Len(L) + k

LEMMA Concatenated ==
  ASSUME NEW S, NEW L \in Seq(S), NEW D \in Seq(S)
  PROVE  L \o D \in Seq(S) /\ Joined(L, D, L \o D)
<1>1. L \o D \in Seq(S) /\ Len(L) \in Nat /\ Len(D) \in Nat
  BY SMT
<1>2. DOMAIN L = 1 .. Len(L) /\ DOMAIN D = 1 .. Len(D)
  BY SMT
<1>3. DOMAIN (L \o D) = 1 .. Len(L) + Len(D)
  BY SMT
<1>4. \A n \in 1 .. Len(L) : (L \o D)[n] = L[n]
  BY SMT
<1>5. \A k \in 1 .. Len(D) : (L \o D)[Len(L) + k] = D[k]
  BY SMT
<1>6. \A n \in 1 .. Len(L) + Len(D) :
        n \in 1 .. Len(L) \/ \E k \in 1 .. Len(D) : n = Len(L) + k
  <2> SUFFICES ASSUME NEW n \in 1 .. Len(L) + Len(D), n \notin 1 .. Len(L)
               PROVE  \E k \in 1 .. Len(D) : n = Len(L) + k
    OBVIOUS
  <2> DEFINE a == Len(L)
             b == Len(D)
  <2> HIDE DEF a, b
  <2>1. a \in Nat /\ b \in Nat /\ n \in 1 .. a + b /\ n \notin 1 .. a
    BY <1>1 DEF a, b
  <2>2. n - a \in 1 .. b /\ n = a + (n - a)
    BY <2>1, SMT
  <2> QED BY <2>2 DEF a, b
<1>7. \A n \in 1 .. Len(L) : n \in 1 .. Len(L) + Len(D)
  BY <1>1, SMT
<1>8. \A k \in 1 .. Len(D) : Len(L) + k \in 1 .. Len(L) + Len(D)
  BY <1>1, SMT
<1> QED BY <1>1, <1>2, <1>3, <1>4, <1>5, <1>6, <1>7, <1>8 DEF Joined

\* The step RecvPacket, whether or not the transaction succeeds.
LEMMA RecvFacts ==
  ASSUME Deliveries, NEW e \in Slots, NEW s \in DOMAIN sent[e], RecvPacket(e, s)
  PROVE  /\ s \in 1 .. MaxSequence
         /\ status[e][s] = "sent"
         /\ status' \in [Slots -> [1 .. MaxSequence -> Statuses]]
         /\ OnlyPacket(e, s, status, status')
         /\ InTurn'
         /\ UNCHANGED <<ends, sent>>
         /\ \/ /\ status'[e][s] = "applied"
               /\ AuthenticateTx(sent[e][s], ends[e[1]][e[2]].port)
               /\ executed' = executed \o Entries(e, s)
            \/ /\ status'[e][s] = "failed"
               /\ executed' = executed
<1> DEFINE port == ends[e[1]][e[2]].port
<1>1. DeliveryTypes /\ InTurn /\ s \in 1 .. MaxSequence
  BY SentFacts DEF Deliveries
<1>2. PICK to \in Statuses : to \in {"applied", "failed"} /\ Moved(e, s, "sent", to)
  BY DEF RecvPacket, Channel!Deliver, Channel!Move, Moved, Statuses, Channel!Statuses
<1>3. /\ status' \in [Slots -> [1 .. MaxSequence -> Statuses]]
      /\ status[e][s] = "sent" /\ status'[e][s] = to
      /\ OnlyPacket(e, s, status, status')
  BY <1>1, <1>2, MoveFacts
<1>4. \A t \in 1 .. s - 1 : status[e][t] \in Delivered
  BY DEF RecvPacket, Channel!Deliver, Delivered
<1>5. to \in Delivered
  BY <1>2 DEF Delivered, Channel!Delivered
<1>6. InTurn'
  BY <1>1, <1>3, <1>4, <1>5, TurnKept
<1>7. UNCHANGED <<ends, sent>>
  BY DEF RecvPacket
<1> DEFINE ack == OnRecvPacket(e, s, port)
<1>8. /\ status'[e][s] = IF ack.ok THEN "applied" ELSE "failed"
      /\ executed' = IF ack.ok THEN ack.ctx ELSE executed
  BY DEF RecvPacket
<1>9. CASE ack.ok
  <2>1. /\ AuthenticateTx(sent[e][s], port) /\ CacheContext(e, s).ok
        /\ ack = CacheContext(e, s)
    BY <1>9 DEF OnRecvPacket, ExecuteTx
  <2>2. CacheContext(e, s).ctx = executed \o Entries(e, s)
    BY <1>1, <2>1, AllExecuted
  <2> QED BY <1>1, <1>3, <1>6, <1>7, <1>8, <1>9, <2>1, <2>2
<1>10. CASE ~ ack.ok
  <2>1. executed' = executed /\ status'[e][s] = "failed"
    BY <1>8, <1>10
  <2> QED BY <1>1, <1>3, <1>6, <1>7, <2>1
<1> QED BY <1>9, <1>10

LEMMA RecvDeliveries ==
  ASSUME Handshakes, Deliveries, NEW e \in Slots, NEW s \in DOMAIN sent[e], RecvPacket(e, s)
  PROVE  Deliveries'
<1>1. /\ s \in 1 .. MaxSequence
      /\ status[e][s] = "sent"
      /\ status' \in [Slots -> [1 .. MaxSequence -> Statuses]]
      /\ OnlyPacket(e, s, status, status')
      /\ InTurn'
      /\ UNCHANGED <<ends, sent>>
  BY RecvFacts
<1>2. Kept(ends, ends')
  BY <1>1 DEF Kept
<1>3. \A d \in Slots : \A t \in DOMAIN sent[d] :
        ~(d = e /\ t = s) => status'[d][t] = status[d][t]
  BY <1>1, SentFacts DEF OnlyPacket, Deliveries
<1>4. CASE status'[e][s] = "failed" /\ executed' = executed
  <2>1. \A d \in Slots : \A t \in DOMAIN sent[d] :
          status'[d][t] \in Successful <=> status[d][t] \in Successful
    <3>1. status'[e][s] \notin Successful /\ status[e][s] \notin Successful
      BY <1>1, <1>4 DEF Successful
    <3> QED BY <1>3, <3>1
  <2> QED BY <1>1, <1>2, <1>4, <2>1, StatusKeeps
<1>5. CASE /\ status'[e][s] = "applied"
           /\ AuthenticateTx(sent[e][s], ends[e[1]][e[2]].port)
           /\ executed' = executed \o Entries(e, s)
  <2> DEFINE L == executed
             D == Entries(e, s)
             address == GenerateAddress(ends[e[1]][e[2]].port)
  <2>1. /\ D \in Seq(EntryType) /\ DOMAIN D = DOMAIN sent[e][s]
        /\ \A k \in DOMAIN sent[e][s] : Names(D[k], e, s, k) /\ D[k].signer = address
    BY <1>5, EntryFacts
  <2>2. /\ L \in Seq(EntryType) /\ DeliveryTypes /\ SentFromEnds /\ InTurn
        /\ AllGenuine /\ Complete /\ Sorted
    BY DEF Deliveries, DeliveryTypes
  <2> DEFINE M == executed'
  <2>3. M \in Seq(EntryType) /\ Joined(L, D, M)
    <3>1. L \in Seq(EntryType) /\ D \in Seq(EntryType) /\ M = L \o D
      BY <1>5, <2>1, <2>2
    <3> HIDE DEF L, D, M
    <3> QED BY <3>1, Concatenated
  <2>4. /\ M \in Seq(EntryType)
        /\ Len(L) \in Nat /\ Len(D) \in Nat
        /\ DOMAIN L = 1 .. Len(L) /\ DOMAIN D = 1 .. Len(D)
        /\ \A n \in DOMAIN L : n \in DOMAIN M /\ M[n] = L[n]
        /\ \A k \in DOMAIN D : Len(L) + k \in DOMAIN M /\ M[Len(L) + k] = D[k]
        /\ \A n \in DOMAIN M : n \in DOMAIN L \/ \E k \in DOMAIN D : n = Len(L) + k
    BY <2>3 DEF Joined
  <2>5. DeliveryTypes'
    BY <1>1, <2>2, <2>4 DEF DeliveryTypes
  <2>6. SentFromEnds'
    BY <1>1, <2>2 DEF SentFromEnds
  <2>7. "applied" \in Successful /\ status[e][s] \notin Successful
    BY <1>1 DEF Successful
  <2>8. \A n \in DOMAIN L : Genuine(L[n]) /\ L[n] \in EntryType
    BY <2>2, SMT DEF AllGenuine
  <2>9. ASSUME NEW n \in DOMAIN L, L[n].end = e PROVE L[n].sequence < s
    <3> DEFINE t == L[n].sequence
    <3>1. t \in DOMAIN sent[e] /\ status[e][t] \in Successful
      BY <2>8, <2>9 DEF Genuine
    <3>2. t \in 1 .. MaxSequence /\ MaxSequence \in Nat
      BY <2>2, <3>1, SentFacts
    <3>3. t # s /\ status[e][t] \in Delivered /\ "sent" \notin Delivered
      BY <1>1, <3>1 DEF Successful, Delivered, Channel!Delivered
    <3> HIDE DEF t
    <3>4. ~(s < t)
      <4> SUFFICES ASSUME s < t PROVE FALSE
        OBVIOUS
      <4>1. s \in 1 .. t - 1
        BY <1>1, <3>2, SMT
      <4> QED BY <1>1, <2>2, <3>2, <3>3, <4>1 DEF InTurn
    <3>5. t < s
      BY <1>1, <3>2, <3>3, <3>4, SMT
    <3> QED BY <3>5 DEF t
  <2> HIDE DEF L, D, M, address
  <2>10. AllGenuine'
    <3>1. ASSUME NEW n \in DOMAIN M, NEW x, x = M[n] PROVE Genuine(x)'
      <4>1. CASE n \in DOMAIN L
        <5>1. x = L[n] /\ x \in EntryType /\ Genuine(x)
          BY <2>4, <2>8, <3>1, <4>1
        <5>2. status'[x.end][x.sequence] \in Successful
          <6>1. x.end \in Slots /\ x.sequence \in DOMAIN sent[x.end]
            BY <5>1 DEF EntryType, Genuine
          <6> QED BY <1>3, <2>7, <5>1, <6>1 DEF Genuine
        <5> QED BY <1>1, <1>2, <2>2, <5>1, <5>2, GenuineKept
      <4>2. ASSUME NEW k \in DOMAIN D, n = Len(L) + k PROVE Genuine(x)'
        <5>1. x = D[k]
          BY <2>4, <3>1, <4>2
        <5>2. Names(x, e, s, k) /\ x.signer = address /\ k \in DOMAIN sent[e][s]
          BY <2>1, <5>1
        <5> QED BY <1>1, <1>5, <2>7, <5>2 DEF Genuine, Names, address
      <4> QED BY <2>4, <4>1, <4>2
    <3> QED BY <3>1 DEF AllGenuine, Genuine, M
  <2>11. Complete'
    <3> SUFFICES ASSUME NEW d \in Slots, NEW t \in DOMAIN sent[d], status'[d][t] \in Successful,
                        NEW k \in DOMAIN sent[d][t]
                 PROVE  \E n \in DOMAIN M : Names(M[n], d, t, k)
      BY <1>1 DEF Complete, M
    <3>1. CASE d = e /\ t = s
      <4>1. k \in DOMAIN D /\ Names(D[k], d, t, k)
        BY <2>1, <3>1
      <4> QED BY <2>4, <4>1
    <3>2. CASE ~(d = e /\ t = s)
      <4>1. status[d][t] \in Successful
        BY <1>3, <3>2
      <4>2. PICK n \in DOMAIN L : Names(L[n], d, t, k)
        BY <2>2, <4>1 DEF Complete, L
      <4> QED BY <2>4, <4>2
    <3> QED BY <3>1, <3>2
  <2>12. Sorted'
    <3> SUFFICES ASSUME NEW m \in DOMAIN M, NEW n \in DOMAIN M, m < n, M[m].end = M[n].end
                 PROVE  Before(M[m], M[n])
      BY DEF Sorted, M
    <3>1. CASE m \in DOMAIN L /\ n \in DOMAIN L
      BY <2>2, <2>4, <3>1 DEF Sorted, L
    <3>2. ASSUME m \in DOMAIN L, NEW k \in DOMAIN D, n = Len(L) + k PROVE Before(M[m], M[n])
      <4>1. M[m] = L[m] /\ M[n] = D[k] /\ D[k].end = e /\ D[k].sequence = s
        BY <2>1, <2>4, <3>2 DEF Names
      <4>2. L[m].sequence < s
        BY <2>9, <3>2, <4>1
      <4> QED BY <4>1, <4>2 DEF Before
    <3>3. ASSUME NEW j \in DOMAIN D, m = Len(L) + j, n \in DOMAIN L PROVE FALSE
      <4> DEFINE a == Len(L)
      <4>1. a \in Nat /\ j \in Nat /\ j >= 1 /\ n \in 1 .. a /\ m = a + j
        BY <2>4, <3>3, SMT
      <4> HIDE DEF a
      <4> QED BY <4>1, SMT
    <3>4. ASSUME NEW j \in DOMAIN D, NEW k \in DOMAIN D, m = Len(L) + j, n = Len(L) + k
          PROVE  Before(M[m], M[n])
      <4>1. /\ M[m] = D[j] /\ M[n] = D[k] /\ D[j].sequence = s /\ D[k].sequence = s
            /\ D[j].number = j /\ D[k].number = k
        BY <2>1, <2>4, <3>4 DEF Names
      <4>2. j < k
        <5> DEFINE a == Len(L)
        <5>1. a \in Nat /\ j \in Nat /\ k \in Nat /\ m = a + j /\ n = a + k
          BY <2>4, <3>4, SMT
        <5> HIDE DEF a
        <5> QED BY <5>1, SMT
      <4> QED BY <4>1, <4>2 DEF Before
    <3> QED BY <2>4, <3>1, <3>2, <3>3, <3>4
  <2> QED BY <1>1, <2>5, <2>6, <2>10, <2>11, <2>12 DEF Deliveries
<1> QED BY <1>4, <1>5, RecvFacts

LEMMA NextDeliveries ==
  ASSUME Handshakes, Deliveries, [Next]_vars
  PROVE  Deliveries'
<1>1. Kept(ends, ends')
  BY NextHandshakes DEF Deliveries
<1>2. CASE UNCHANGED <<sent, status, executed>>
  BY <1>1, <1>2, QuietDeliveries
<1>3. ASSUME NEW c \in Controllers, NEW port \in bound[c], TrySendTx(c, port)
      PROVE  Deliveries'
  BY <1>3, SendDeliveries
<1>4. ASSUME NEW e \in Slots, NEW s \in DOMAIN sent[e],
             \/ RecvPacket(e, s) \/ AcknowledgePacket(e, s)
             \/ TimeoutPacket(e, s) \/ TimeoutOnClose(e, s)
      PROVE  Deliveries'
  BY <1>1, <1>4, RecvDeliveries, AcknowledgeDeliveries
<1>5. ASSUME NEW c \in Controllers, InitInterchainAccount(c) \/ MsgChannelOpenInit(c)
      PROVE  UNCHANGED <<sent, status, executed>>
  BY <1>5 DEF InitInterchainAccount, MsgChannelOpenInit, ChannelOpenInit
<1>6. ASSUME NEW c \in Controllers, NEW i \in DOMAIN ends[c],
             ChannelOpenTry(c, i) \/ \E j \in DOMAIN hostEnds : ChannelOpenAck(c, i, j)
      PROVE  UNCHANGED <<sent, status, executed>>
  BY <1>6 DEF ChannelOpenTry, ChannelOpenAck
<1>7. ASSUME NEW j \in DOMAIN hostEnds, ChannelOpenConfirm(j) \/ ChannelCloseConfirm(j)
      PROVE  UNCHANGED <<sent, status, executed>>
  BY <1>7 DEF ChannelOpenConfirm, ChannelCloseConfirm
<1>8. ASSUME NEW c \in Governed, SetParams(c)
      PROVE  UNCHANGED <<sent, status, executed>>
  BY <1>8 DEF SetParams
<1>9. UNCHANGED vars => UNCHANGED <<sent, status, executed>>
  BY DEF vars
<1> QED BY <1>2, <1>3, <1>4, <1>5, <1>6, <1>7, <1>8, <1>9 DEF Next

LEMMA InitAccounts ==
  ASSUME Init
  PROVE  Handshakes /\ Deliveries
<1>1. HandshakeTypes
  <2>1. None \in Nat
    BY DEF None
  <2>2. \A c \in Controllers : MaxChannels[c] \in Nat
    BY AccountAssumptions DEF Chains
  <2> QED BY <2>1, <2>2, SMT DEF Init, HandshakeTypes
<1>2. PortsFit /\ Answered /\ Addressed /\ ActiveOnes
  BY SMT DEF Init, PortsFit, Answered, Addressed, ActiveOnes
<1>3. DeliveryTypes
  <2>1. status = [e \in Slots |-> [s \in 1 .. MaxSequence |-> "unsent"]]
    BY DEF Init, Channel!Init
  <2>2. "unsent" \in Statuses
    BY DEF Statuses, Channel!Statuses
  <2>3. status \in [Slots -> [1 .. MaxSequence -> Statuses]]
    BY <2>1, <2>2
  <2>4. \A e \in Slots : MaxPackets[e] >= 0
    BY AccountAssumptions, SMT
  <2> QED BY <2>3, <2>4, SMT DEF Init, DeliveryTypes
<1>4. SentFromEnds /\ AllGenuine /\ Complete /\ Sorted
  BY SMT DEF Init, SentFromEnds, AllGenuine, Complete, Sorted
<1>5. InTurn
  BY DEF Init, Channel!Init, InTurn, Delivered, Channel!Delivered
<1> QED BY <1>1, <1>2, <1>3, <1>4, <1>5 DEF Handshakes, Deliveries

LEMMA Invariance == Spec => [](Handshakes /\ Deliveries)
<1>1. Init => Handshakes /\ Deliveries
  BY InitAccounts
<1>2. Handshakes /\ Deliveries /\ [Next]_vars => (Handshakes /\ Deliveries)'
  BY NextHandshakes, NextDeliveries DEF Deliveries
<1> QED BY <1>1, <1>2, PTL DEF Spec

-----------------------------------------------------------------------------
\* However many chains, connections, owners and channels there are, and even if no
\* controller chain checks its ports, an account signs for one owner of one chain: the
\* port, and so the address, tells the connections of both chains (GenerateAddress, the
\* host's validateControllerPortParams, AuthenticateTx).
THEOREM EveryAccountHasOneOwner == Spec => []AccountsHaveOneOwner
<1>1. Handshakes /\ Deliveries => AccountsHaveOneOwner
  <2> SUFFICES ASSUME Handshakes, Deliveries, NEW m \in DOMAIN executed,
                      NEW n \in DOMAIN executed, executed[m].signer = executed[n].signer
               PROVE  Controller(executed[m].end) = Controller(executed[n].end)
    BY DEF AccountsHaveOneOwner
  <2> DEFINE d == executed[m].end
             e == executed[n].end
             x == ends[d[1]][d[2]]
             y == ends[e[1]][e[2]]
  <2>1. /\ executed[m] \in EntryType /\ executed[n] \in EntryType
        /\ Genuine(executed[m]) /\ Genuine(executed[n])
    BY SMT DEF Deliveries, DeliveryTypes, AllGenuine
  <2>2. d \in Slots /\ e \in Slots
    BY <2>1 DEF EntryType
  <2>3. GenerateAddress(x.port) = GenerateAddress(y.port)
    BY <2>1 DEF Genuine
  <2>4. x.port = y.port
    BY <2>3, AddressTells
  <2>5. sent[d] # <<>> /\ sent[e] # <<>>
    BY <2>1, SMT DEF Genuine
  <2>6. /\ d[1] \in Controllers /\ d[2] \in DOMAIN ends[d[1]] /\ x.state # "INIT"
        /\ e[1] \in Controllers /\ e[2] \in DOMAIN ends[e[1]] /\ y.state # "INIT"
    BY <2>2, <2>5, SlotFacts DEF Deliveries, SentFromEnds
  <2>7. /\ x \in EndType(d[1]) /\ PortFits(d[1], x)
        /\ y \in EndType(e[1]) /\ PortFits(e[1], y)
    BY <2>6, SMT DEF Handshakes, HandshakeTypes, PortsFit
  <2>8. d[1] = e[1] /\ x.conn = y.conn
    <3> HIDE DEF x, y
    <3> QED BY <2>4, <2>6, <2>7, PortTells, SMT
  <2> QED BY <2>4, <2>8 DEF Controller
<1> QED BY <1>1, Invariance, PTL

\* The host executes every message of the transactions it reports as successful, in the
\* order they were sent, and nothing of the others, however channels are lost and
\* reopened and parameters change (OnRecvPacket, executeTx and its cached context).
THEOREM EveryTransactionIsAtomic == Spec => []TransactionsAreAtomic
<1>1. Handshakes /\ Deliveries => TransactionsAreAtomic
  <2> SUFFICES ASSUME Deliveries, NEW e \in Slots
               PROVE  LET mine == {n \in DOMAIN executed : executed[n].end = e}
                          numbers(s) == {executed[n].number :
                                           n \in {m \in mine : executed[m].sequence = s}}
                      IN  /\ \A n \in mine : executed[n].sequence \in DOMAIN sent[e]
                          /\ \A s \in DOMAIN sent[e] :
                               numbers(s) = IF status[e][s] \in {"applied", "confirmed"}
                                            THEN DOMAIN sent[e][s] ELSE {}
                          /\ \A m, n \in mine : m < n =>
                               \/ executed[m].sequence < executed[n].sequence
                               \/ /\ executed[m].sequence = executed[n].sequence
                                  /\ executed[m].number < executed[n].number
    BY DEF TransactionsAreAtomic
  <2> DEFINE mine == {n \in DOMAIN executed : executed[n].end = e}
             numbers(s) == {executed[n].number : n \in {m \in mine : executed[m].sequence = s}}
  <2>1. \A n \in mine : Genuine(executed[n]) /\ executed[n].end = e
    BY DEF Deliveries, AllGenuine
  <2>2. \A n \in mine : executed[n].sequence \in DOMAIN sent[e]
    BY <2>1 DEF Genuine
  <2>3. ASSUME NEW s \in DOMAIN sent[e], status[e][s] \in Successful
        PROVE  numbers(s) = DOMAIN sent[e][s]
    <3>1. \A k \in numbers(s) : k \in DOMAIN sent[e][s]
      BY <2>1 DEF Genuine
    <3>2. \A k \in DOMAIN sent[e][s] : k \in numbers(s)
      BY <2>3, SMT DEF Deliveries, Complete, Names
    <3> QED BY <3>1, <3>2
  <2>4. ASSUME NEW s \in DOMAIN sent[e], status[e][s] \notin Successful
        PROVE  numbers(s) = {}
    BY <2>1, <2>4 DEF Genuine
  <2>5. \A m, n \in mine : m < n => Before(executed[m], executed[n])
    BY DEF Deliveries, Sorted
  <2> HIDE DEF mine
  <2> QED BY <2>2, <2>3, <2>4, <2>5 DEF Before, Successful, mine
<1> QED BY <1>1, Invariance, PTL

\* Over any number of channels lost and reopened, the channel an owner's transactions go
\* to is open and answered, and the address the owner was told is the one the host
\* checks (OnChanOpenAck, OnTimeoutPacket after a timeout and after a timeout on close,
\* RegisterInterchainAccount).
THEOREM EveryActiveChannelWorks == Spec => []ActiveChannelsWork
<1>1. Handshakes => ActiveChannelsWork
  <2> SUFFICES ASSUME Handshakes, NEW c \in Controllers, NEW port \in ControllerPorts
               PROVE  /\ active[c][port] # None =>
                           LET e == ends[c][active[c][port]]
                           IN  /\ e.state = "OPEN" /\ e.port = port
                               /\ hostEnds[e.channel].controller = <<c, active[c][port]>>
                               /\ hostEnds[e.channel].state # "CLOSED"
                               /\ port \in DOMAIN addresses[c]
                      /\ port \in DOMAIN addresses[c] =>
                           /\ addresses[c][port] \in accounts
                           /\ port \in DOMAIN addresses[Host] =>
                                addresses[Host][port] = addresses[c][port]
    BY DEF ActiveChannelsWork
  <2>1. active[c][port] # None =>
          Works(c, port, active[c][port], ends, hostEnds) /\ port \in DOMAIN addresses[c]
    BY DEF Handshakes, ActiveOnes
  <2>2. c \in Chains /\ Host \in Chains
    BY DEF Chains
  <2> QED BY <2>1, <2>2 DEF Handshakes, Addressed, Works
<1> QED BY <1>1, Invariance, PTL

=============================================================================
