--------------------------- MODULE TransferSafety ---------------------------
(***************************************************************************)
(* Proofs about Transfer, from what TransferInvariant says of its steps:   *)
(* vouchers are backed by escrow, and value is conserved over all chains.  *)
(***************************************************************************)
EXTENDS TransferInvariant

\* Leaves are proved by Zenon unless they name another prover.
USE Zenon

-----------------------------------------------------------------------------
(* Vouchers are backed by escrow. *)

\* EscrowBalance, for one end and denomination.
Backing(g, x) ==
  LET f == Link[g]
      v == GetPrefixedDenom(f, x)
  IN  Part(bank[g.chain], {<<Hop(g), x>>}) = Part(gifts[g], {x}) +
        (IF SenderChainIsSource(g, x)
         THEN Carried(sent[g], status[g], {x}) + Part(bank[f.chain], Accounts(f.chain) \X {v})
                + Carried(sent[f], status[f], {v})
         ELSE 0)

Backed == \A g \in Ends, x \in Denominations : Backing(g, x)

\* The ends of a chain have different escrow addresses, and no owner has one of these.
LEMMA HopFacts ==
  ASSUME NEW e \in Ends
  PROVE  /\ \A g \in Ends : g.chain = e.chain /\ Hop(g) = Hop(e) => g = e
         /\ \A name : Account(name) # Hop(e)
         /\ Hop(e) \notin Owners
<1>1. \A name : Account(name) # Hop(e)
  BY DEF Account, Hop
<1> QED BY <1>1, TransferAssumptions DEF Owners

\* A voucher has been prefixed with one hop.
LEMMA PrefixInjective ==
  ASSUME NEW f \in Ends, NEW d \in Denominations, NEW g \in Ends, NEW x \in Denominations
  PROVE  /\ d = GetPrefixedDenom(g, x) => /\ ReceiverChainIsSource(f, d) <=> Hop(f) = Hop(g)
                                          /\ Unprefixed(d) = x
         /\ GetPrefixedDenom(f, d) = GetPrefixedDenom(g, x) => Hop(f) = Hop(g) /\ d = x
<1>1. /\ GetPrefixedDenom(g, x).path # <<>>
      /\ Head(GetPrefixedDenom(g, x).path) = Hop(g)
      /\ Unprefixed(GetPrefixedDenom(g, x)) = x
      /\ Head(GetPrefixedDenom(f, d).path) = Hop(f)
      /\ Unprefixed(GetPrefixedDenom(f, d)) = d
  BY PrefixFacts
<1>2. d = GetPrefixedDenom(g, x) => /\ ReceiverChainIsSource(f, d) <=> Hop(f) = Hop(g)
                                    /\ Unprefixed(d) = x
  BY <1>1 DEF ReceiverChainIsSource
<1>3. GetPrefixedDenom(f, d) = GetPrefixedDenom(g, x) => Hop(f) = Hop(g) /\ d = x
  <2> DEFINE p == GetPrefixedDenom(f, d)
             q == GetPrefixedDenom(g, x)
  <2>1. Head(p.path) = Hop(f) /\ Unprefixed(p) = d /\ Head(q.path) = Hop(g) /\ Unprefixed(q) = x
    BY <1>1
  <2> HIDE DEF p, q
  <2>2. p = q => Hop(f) = Hop(g) /\ d = x
    BY <2>1
  <2> QED BY <2>2 DEF p, q
<1> QED BY <1>2, <1>3

LEMMA LocalBacked ==
  ASSUME Types, NEW e \in Ends, NEW u \in Users, NEW d \in Denominations, NEW n \in Int,
         Local(e, Account(u), d, n),
         NEW g \in Ends, NEW x \in Denominations, Backing(g, x)
  PROVE  Backing(g, x)'
<1> DEFINE f == Link[g]
           v == GetPrefixedDenom(f, x)
           K == {<<Hop(g), x>>}
           V == Accounts(f.chain) \X {v}
           a == Account(u)
           source == SenderChainIsSource(e, d)
<1>1. /\ f \in Ends /\ v \in Denominations /\ g.chain \in Chains /\ f.chain \in Chains
      /\ Hop(e) \in Accounts(e.chain) /\ a \in Accounts(e.chain)
  BY AmountFacts, PrefixFacts, AccountFacts
<1>2. /\ g.chain = e.chain /\ Hop(e) = Hop(g) => e = g
      /\ a # Hop(g)
  BY HopFacts
<1>3. d = v /\ ~ source /\ f.chain = e.chain => f = e
  <2>1. d = v => (ReceiverChainIsSource(e, d) <=> Hop(e) = Hop(f))
    BY <1>1, PrefixInjective, SMT
  <2>2. f.chain = e.chain /\ Hop(f) = Hop(e) => f = e
    BY <1>1, HopFacts
  <2> QED BY <2>1, <2>2 DEF SenderChainIsSource
<1>4. d = v /\ f = e => ~ source
  <2>1. d = v => (ReceiverChainIsSource(e, d) <=> Hop(e) = Hop(f))
    BY <1>1, PrefixInjective, SMT
  <2> QED BY <2>1 DEF SenderChainIsSource
<1>5. /\ Part(bank[g.chain], K) \in Nat
      /\ Part(bank'[g.chain], K) = Part(bank[g.chain], K) +
           (IF g = e /\ x = d /\ source THEN n ELSE 0)
  <2>1. /\ Part(bank[g.chain], K) \in Nat
        /\ Part(bank'[g.chain], K) = Part(bank[g.chain], K) +
             (IF g.chain # e.chain THEN 0
              ELSE (IF source THEN Share(<<Hop(e), d>>, K, n) ELSE 0) - Share(<<a, d>>, K, n))
    BY <1>1 DEF Local, BankLocal
  <2>2. Share(<<a, d>>, K, n) = 0
    BY <1>2 DEF Share
  <2>3. Share(<<Hop(e), d>>, K, n) = IF Hop(e) = Hop(g) /\ d = x THEN n ELSE 0
    BY DEF Share
  <2> QED BY <1>2, <2>1, <2>2, <2>3, SMT
<1>6. /\ Part(bank[f.chain], V) \in Nat
      /\ Part(bank'[f.chain], V) = Part(bank[f.chain], V) - (IF f = e /\ d = v THEN n ELSE 0)
  <2>1. /\ Part(bank[f.chain], V) \in Nat
        /\ Part(bank'[f.chain], V) = Part(bank[f.chain], V) +
             (IF f.chain # e.chain THEN 0
              ELSE (IF source THEN Share(<<Hop(e), d>>, V, n) ELSE 0) - Share(<<a, d>>, V, n))
    BY <1>1 DEF Local, BankLocal
  <2>2. f.chain = e.chain => /\ Share(<<a, d>>, V, n) = IF d = v THEN n ELSE 0
                             /\ Share(<<Hop(e), d>>, V, n) = IF d = v THEN n ELSE 0
    BY <1>1 DEF Share
  <2> QED BY <1>3, <1>4, <2>1, <2>2, SMT
<1>7. /\ Carried(sent[g], status[g], {x}) \in Nat /\ Carried(sent[f], status[f], {v}) \in Nat
      /\ Carried(sent'[g], status'[g], {x}) = Carried(sent[g], status[g], {x}) +
           (IF g = e /\ x = d THEN n ELSE 0)
      /\ Carried(sent'[f], status'[f], {v}) = Carried(sent[f], status[f], {v}) +
           (IF f = e /\ d = v THEN n ELSE 0)
  <2>1. /\ Share(d, {x}, n) = IF x = d THEN n ELSE 0
        /\ Share(d, {v}, n) = IF d = v THEN n ELSE 0
    BY DEF Share
  <2>2. /\ Carried(sent[g], status[g], {x}) \in Nat /\ Carried(sent[f], status[f], {v}) \in Nat
        /\ Carried(sent'[g], status'[g], {x}) = Carried(sent[g], status[g], {x}) +
             (IF g = e THEN Share(d, {x}, n) ELSE 0)
        /\ Carried(sent'[f], status'[f], {v}) = Carried(sent[f], status[f], {v}) +
             (IF f = e THEN Share(d, {v}, n) ELSE 0)
    BY <1>1 DEF Local, Flow
  <2> QED BY <2>1, <2>2
<1>8. Part(gifts[g], {x}) \in Nat /\ gifts' = gifts
  BY PartNat DEF Local, Types, GiftsOK
<1>9. Part(bank[g.chain], K) = Part(gifts[g], {x}) +
        (IF SenderChainIsSource(g, x)
         THEN Carried(sent[g], status[g], {x}) + Part(bank[f.chain], V)
                + Carried(sent[f], status[f], {v})
         ELSE 0)
  BY DEF Backing
<1>10. Part(bank'[g.chain], K) = Part(gifts'[g], {x}) +
        (IF SenderChainIsSource(g, x)
         THEN Carried(sent'[g], status'[g], {x}) + Part(bank'[f.chain], V)
                + Carried(sent'[f], status'[f], {v})
         ELSE 0)
  <2> HIDE DEF f, v, K, V, a, source
  <2>1. CASE SenderChainIsSource(g, x)
    <3>1. g = e /\ x = d => source
      BY <2>1 DEF source
    <3> QED BY <1>5, <1>6, <1>7, <1>8, <1>9, <2>1, <3>1, SMT
  <2>2. CASE ~ SenderChainIsSource(g, x)
    <3>1. ~ (g = e /\ x = d /\ source)
      BY <2>2 DEF source
    <3> QED BY <1>5, <1>8, <1>9, <2>2, <3>1, SMT
  <2> QED BY <2>1, <2>2
<1> QED BY <1>10 DEF Backing

LEMMA RemoteBacked ==
  ASSUME Types, NEW e \in Ends, NEW d \in ValidDenoms(e.chain), NEW n \in Nat,
         NEW a \in Accounts(Link[e].chain), ReceivedDenom(e, Link[e], d) \in Denominations,
         Remote(e, a, d, n),
         NEW g \in Ends, NEW x \in Denominations, Backing(g, x)
  PROVE  Backing(g, x)'
<1> DEFINE f == Link[g]
           v == GetPrefixedDenom(f, x)
           h == Link[e]
           r == ReceivedDenom(e, h, d)
           K == {<<Hop(g), x>>}
           V == Accounts(f.chain) \X {v}
           returns == ReceiverChainIsSource(e, d)
           gift == IF g.chain = h.chain /\ Hop(g) = a /\ x = r THEN n ELSE 0
<1>1. /\ f \in Ends /\ h \in Ends /\ v \in Denominations /\ r \in Denominations
      /\ d \in Denominations /\ Link[h] = e /\ Link[f] = g
      /\ g.chain \in Chains /\ f.chain \in Chains /\ Hop(h) \in Accounts(h.chain)
  BY AmountFacts, PrefixFacts, AccountFacts DEF ValidDenoms
<1>2. /\ g.chain = h.chain /\ Hop(h) = Hop(g) => g = h
      /\ f.chain = h.chain /\ Hop(h) = Hop(f) => f = h
      /\ f = h <=> g = e
      /\ f = e <=> g = h
  BY <1>1, HopFacts
<1>3. /\ returns => r = Unprefixed(d) /\ d = GetPrefixedDenom(e, r)
      /\ ~ returns => r = GetPrefixedDenom(h, d)
  BY <1>1, PrefixFacts DEF ReceivedDenom
<1>4. ~ returns /\ r = v => Hop(h) = Hop(f) /\ x = d
  BY <1>1, <1>3, PrefixInjective, SMT
<1>5. g = h => (d = v <=> returns /\ x = r)
  <2>1. g = h => v = GetPrefixedDenom(e, x)
    BY <1>2
  <2>2. d = GetPrefixedDenom(e, x) => ReceiverChainIsSource(e, d) /\ Unprefixed(d) = x
    BY <1>1, PrefixInjective, SMT
  <2> QED BY <1>3, <2>1, <2>2
<1>6. returns => SenderChainIsSource(h, r)
  <2> SUFFICES ASSUME returns PROVE SenderChainIsSource(h, r)
    OBVIOUS
  <2>1. PICK k \in Ends : /\ k.chain = e.chain /\ Head(d.path) = Hop(k)
                          /\ SenderChainIsSource(Link[k], Unprefixed(d))
    BY DEF ValidDenoms, ReceiverChainIsSource
  <2>2. k = e
    BY <2>1, HopFacts DEF ReceiverChainIsSource
  <2> QED BY <1>3, <2>1, <2>2
<1>7. /\ Part(bank[g.chain], K) \in Nat
      /\ Part(bank'[g.chain], K) = Part(bank[g.chain], K) + gift
           - (IF returns /\ g = h /\ x = r THEN n ELSE 0)
  <2>1. /\ Part(bank[g.chain], K) \in Nat
        /\ Part(bank'[g.chain], K) = Part(bank[g.chain], K) +
             (IF g.chain # h.chain THEN 0
              ELSE Share(<<a, r>>, K, n) - (IF returns THEN Share(<<Hop(h), r>>, K, n) ELSE 0))
    BY <1>1 DEF Remote, BankRemote
  <2>2. /\ Share(<<a, r>>, K, n) = IF Hop(g) = a /\ x = r THEN n ELSE 0
        /\ Share(<<Hop(h), r>>, K, n) = IF Hop(h) = Hop(g) /\ x = r THEN n ELSE 0
    BY DEF Share
  <2> HIDE DEF K, returns, h, r
  <2> QED BY <1>2, <2>1, <2>2, SMT
<1>8. /\ Part(bank[f.chain], V) \in Nat
      /\ Part(bank'[f.chain], V) = Part(bank[f.chain], V) +
           (IF ~ returns /\ f = h /\ x = d THEN n ELSE 0)
  <2>1. /\ Part(bank[f.chain], V) \in Nat
        /\ Part(bank'[f.chain], V) = Part(bank[f.chain], V) +
             (IF f.chain # h.chain THEN 0
              ELSE Share(<<a, r>>, V, n) - (IF returns THEN Share(<<Hop(h), r>>, V, n) ELSE 0))
    BY <1>1 DEF Remote, BankRemote
  <2>2. f.chain = h.chain => /\ Share(<<a, r>>, V, n) = IF r = v THEN n ELSE 0
                             /\ Share(<<Hop(h), r>>, V, n) = IF r = v THEN n ELSE 0
    BY <1>1 DEF Share
  <2>3. ~ returns /\ f = h /\ x = d => r = v
    BY <1>3
  <2> HIDE DEF V, v, f, returns, h, r
  <2> QED BY <1>2, <1>4, <2>1, <2>2, <2>3, SMT
<1>9. /\ Carried(sent[g], status[g], {x}) \in Nat /\ Carried(sent[f], status[f], {v}) \in Nat
      /\ Carried(sent'[g], status'[g], {x}) = Carried(sent[g], status[g], {x}) -
           (IF g = e /\ x = d THEN n ELSE 0)
      /\ Carried(sent'[f], status'[f], {v}) = Carried(sent[f], status[f], {v}) -
           (IF g = h /\ returns /\ x = r THEN n ELSE 0)
  <2>1. /\ Share(d, {x}, -n) = IF x = d THEN -n ELSE 0
        /\ Share(d, {v}, -n) = IF d = v THEN -n ELSE 0
    BY DEF Share
  <2>2. /\ Carried(sent[g], status[g], {x}) \in Nat /\ Carried(sent[f], status[f], {v}) \in Nat
        /\ Carried(sent'[g], status'[g], {x}) = Carried(sent[g], status[g], {x}) +
             (IF g = e THEN Share(d, {x}, -n) ELSE 0)
        /\ Carried(sent'[f], status'[f], {v}) = Carried(sent[f], status[f], {v}) +
             (IF f = e THEN Share(d, {v}, -n) ELSE 0)
    BY <1>1 DEF Remote, Flow
  <2> HIDE DEF v, f, returns, h, r
  <2> QED BY <1>2, <1>5, <2>1, <2>2, SMT
<1>10. /\ Part(gifts[g], {x}) \in Nat
       /\ Part(gifts'[g], {x}) = Part(gifts[g], {x}) + gift
  <2>1. /\ Part(gifts[g], {x}) \in Nat
        /\ Part(gifts'[g], {x}) = Part(gifts[g], {x}) +
             (IF g.chain = h.chain /\ Hop(g) = a THEN Share(r, {x}, n) ELSE 0)
    BY DEF Remote, GiftsRemote
  <2>2. Share(r, {x}, n) = IF x = r THEN n ELSE 0
    BY DEF Share
  <2> HIDE DEF r, h
  <2> QED BY <2>1, <2>2
<1>11. Part(bank[g.chain], K) = Part(gifts[g], {x}) +
        (IF SenderChainIsSource(g, x)
         THEN Carried(sent[g], status[g], {x}) + Part(bank[f.chain], V)
                + Carried(sent[f], status[f], {v})
         ELSE 0)
  BY DEF Backing
<1>12. gift \in Nat
  OBVIOUS
<1>13. Part(bank'[g.chain], K) = Part(gifts'[g], {x}) +
        (IF SenderChainIsSource(g, x)
         THEN Carried(sent'[g], status'[g], {x}) + Part(bank'[f.chain], V)
                + Carried(sent'[f], status'[f], {v})
         ELSE 0)
  <2>1. CASE SenderChainIsSource(g, x)
    <3>1. g = e /\ x = d => ~ returns
      BY <2>1 DEF SenderChainIsSource
    <3> HIDE DEF f, v, K, V, h, r, returns, gift
    <3> QED BY <1>2, <1>7, <1>8, <1>9, <1>10, <1>11, <1>12, <2>1, <3>1, SMT
  <2>2. CASE ~ SenderChainIsSource(g, x)
    <3>1. ~ (returns /\ g = h /\ x = r)
      BY <1>6, <2>2
    <3> HIDE DEF f, v, K, V, h, r, returns, gift
    <3> QED BY <1>7, <1>10, <1>11, <1>12, <2>2, <3>1, SMT
  <2> QED BY <2>1, <2>2
<1> QED BY <1>13 DEF Backing

LEMMA NextBacked ==
  ASSUME Types, Ledger, Backed
  PROVE  Backed'
<1> SUFFICES ASSUME NEW g \in Ends, NEW x \in Denominations
             PROVE  Backing(g, x)'
  BY DEF Backed
<1>1. Backing(g, x)
  BY DEF Backed
<1>2. CASE Still
  <2>1. Link[g] \in Ends
    BY AmountFacts
  <2> QED BY <1>1, <1>2, <2>1 DEF Still, Backing
<1>3. ASSUME NEW e \in Ends, NEW u \in Users, NEW d \in Denominations, NEW n \in Int,
             Local(e, Account(u), d, n)
      PROVE  Backing(g, x)'
  BY <1>1, <1>3, LocalBacked
<1>4. ASSUME NEW e \in Ends, NEW n \in Nat,
             NEW d \in ValidDenoms(e.chain), NEW a \in Accounts(Link[e].chain),
             ReceivedDenom(e, Link[e], d) \in Denominations, Remote(e, a, d, n)
      PROVE  Backing(g, x)'
  BY <1>1, <1>4, RemoteBacked
<1> QED BY <1>2, <1>3, <1>4 DEF Ledger

LEMMA InitBacked == Init => Backed
<1> SUFFICES ASSUME Init, NEW g \in Ends, NEW x \in Denominations
             PROVE  Backing(g, x)
  BY DEF Backed
<1> DEFINE f == Link[g]
           v == GetPrefixedDenom(f, x)
<1>1. /\ bank = [c \in Chains |-> InitialBank(c)]
      /\ sent = [e \in Ends |-> <<>>] /\ gifts = [e \in Ends |-> EmptyBag]
  BY DEF Init
<1>2. f \in Ends /\ g.chain \in Chains /\ f.chain \in Chains /\ v.path # <<>>
  BY AmountFacts, PrefixFacts
<1>3. Part(bank[g.chain], {<<Hop(g), x>>}) = 0
  <2>1. Hop(g) \notin Owners
    BY HopFacts
  <2>2. BagToSet(bank[g.chain]) \cap {<<Hop(g), x>>} = {}
    BY <1>1, <1>2, <2>1, InitialBankFacts
  <2> QED BY <2>2, PartNone
<1>4. Part(bank[f.chain], Accounts(f.chain) \X {v}) = 0
  <2>1. \A base : Native(base) # v
    BY <1>2, SMT DEF Native
  <2> HIDE DEF v
  <2>2. BagToSet(bank[f.chain]) \cap (Accounts(f.chain) \X {v}) = {}
    BY <1>1, <1>2, <2>1, InitialBankFacts
  <2> QED BY <2>2, PartNone
<1>5. Part(gifts[g], {x}) = 0
  <2>1. BagToSet(gifts[g]) \cap {x} = {}
    BY <1>1, SMT DEF EmptyBag, BagToSet
  <2> QED BY <2>1, PartNone
<1>6. Carried(sent[g], status[g], {x}) = 0 /\ Carried(sent[f], status[f], {v}) = 0
  BY <1>1, <1>2, CarriedNone
<1> QED BY <1>3, <1>4, <1>5, <1>6, SMT DEF Backing

\* The sums of the model in terms of Part and Carried.
LEMMA LedgerTerms ==
  ASSUME Types
  PROVE  /\ \A c \in Chains : \A a, d : Balance(c, a, d) = Part(bank[c], {<<a, d>>})
         /\ \A c \in Chains : \A d : Supply(c, d) = Part(bank[c], Accounts(c) \X {d})
         /\ \A e \in Ends : \A d : InFlight(e, d) = Carried(sent[e], status[e], {d})
         /\ \A e \in Ends : \A d : AmountOf(d, gifts[e]) = Part(gifts[e], {d})
<1>1. ASSUME NEW c \in Chains, NEW a, NEW d
      PROVE  Balance(c, a, d) = Part(bank[c], {<<a, d>>})
  <2>1. FiniteBag(bank[c])
    BY DEF Types, BankOK
  <2> QED BY <2>1, PartOne DEF Balance
<1>2. ASSUME NEW c \in Chains, NEW d
      PROVE  Supply(c, d) = Part(bank[c], Accounts(c) \X {d})
  <2>1. BagToSet(bank[c]) \subseteq Accounts(c) \X ValidDenoms(c)
    BY DEF Types, BankOK
  <2>2. {key \in BagToSet(bank[c]) : key[2] = d} = BagToSet(bank[c]) \cap (Accounts(c) \X {d})
    BY <2>1
  <2> QED BY <2>2, Zenon DEF Supply, Part
<1>3. ASSUME NEW e \in Ends, NEW d
      PROVE  InFlight(e, d) = Carried(sent[e], status[e], {d})
  <2>1. {s \in {s \in DOMAIN sent[e] : sent[e][s].denom = d} : status[e][s] \in {"sent", "failed"}}
          = {s \in DOMAIN sent[e] : sent[e][s].denom \in {d} /\ status[e][s] \in Flown}
    BY DEF Flown
  <2> QED BY <2>1, Zenon DEF InFlight, Flying, Carried
<1>4. ASSUME NEW e \in Ends, NEW d
      PROVE  AmountOf(d, gifts[e]) = Part(gifts[e], {d})
  <2>1. FiniteBag(gifts[e])
    BY DEF Types, GiftsOK
  <2> QED BY <2>1, PartOne
<1> QED BY <1>1, <1>2, <1>3, <1>4

LEMMA BackedIsBalance ==
  ASSUME Types, Backed
  PROVE  EscrowBalance
<1> SUFFICES ASSUME NEW e \in Ends, NEW d \in Denoms(e.chain)
             PROVE  Balance(e.chain, GetEscrowAddress(e), d) =
                      AmountOf(d, gifts[e]) +
                      (IF SenderChainIsSource(e, d)
                       THEN InFlight(e, d) + Supply(Link[e].chain, GetPrefixedDenom(Link[e], d))
                              + InFlight(Link[e], GetPrefixedDenom(Link[e], d))
                       ELSE 0)
  BY DEF EscrowBalance
<1>1. e.chain \in Chains /\ Link[e] \in Ends /\ Link[e].chain \in Chains
  BY AmountFacts
<1>2. d \in Denominations
  <2>1. CASE d \in {key[2] : key \in BagToSet(bank[e.chain])}
    BY <1>1, <2>1 DEF Types, BankOK, ValidDenoms
  <2>2. ASSUME NEW g \in Ends, NEW s \in DOMAIN sent[g], d = sent[g][s].denom
        PROVE  d \in Denominations
    <3>1. sent[g][s] \in PacketData(g)
      BY SMT DEF Types, PacketsOK
    <3> QED BY <2>2, <3>1 DEF PacketData, ValidDenoms
  <2> QED BY <2>1, <2>2 DEF Denoms
<1>3. Backing(e, d)
  BY <1>2 DEF Backed
<1> DEFINE f == Link[e]
           v == GetPrefixedDenom(f, d)
<1>4. Balance(e.chain, GetEscrowAddress(e), d) = Part(bank[e.chain], {<<Hop(e), d>>})
  BY <1>1, LedgerTerms, SMT DEF GetEscrowAddress
<1>5. Supply(f.chain, v) = Part(bank[f.chain], Accounts(f.chain) \X {v})
  BY <1>1, LedgerTerms
<1>6. InFlight(e, d) = Carried(sent[e], status[e], {d})
  BY LedgerTerms
<1>7. InFlight(f, v) = Carried(sent[f], status[f], {v})
  BY <1>1, LedgerTerms
<1>8. AmountOf(d, gifts[e]) = Part(gifts[e], {d})
  BY LedgerTerms
<1>9. Part(bank[e.chain], {<<Hop(e), d>>}) = Part(gifts[e], {d}) +
        (IF SenderChainIsSource(e, d)
         THEN Carried(sent[e], status[e], {d}) + Part(bank[f.chain], Accounts(f.chain) \X {v})
                + Carried(sent[f], status[f], {v})
         ELSE 0)
  BY <1>3 DEF Backing
<1> QED BY <1>4, <1>5, <1>6, <1>7, <1>8, <1>9

-----------------------------------------------------------------------------
(* The origin of a denomination does not change on the way. *)

IsWalk(c, path, n, h) ==
  h = [i \in 0 .. n |-> IF i = 0 THEN c ELSE Link[EndOf(h[i - 1], path[i])].chain]

\* A walk, step by step.
Walks(c, path, n, h) ==
  h[0] = c /\ \A i \in 1 .. n : h[i] = Link[EndOf(h[i - 1], path[i])].chain

LEMMA WalkStep ==
  ASSUME NEW c, NEW path, NEW n \in Nat, NEW h, IsWalk(c, path, n, h)
  PROVE  Walks(c, path, n, h)
<1>1. \A i \in 0 .. n : h[i] = IF i = 0 THEN c ELSE Link[EndOf(h[i - 1], path[i])].chain
  BY DEF IsWalk
<1>2. 0 \in 0 .. n /\ \A i \in 1 .. n : i \in 0 .. n /\ i # 0
  BY SMT
<1> QED BY <1>1, <1>2 DEF Walks

LEMMA WalkExists ==
  ASSUME NEW c, NEW path, NEW n \in Nat
  PROVE  \E h : IsWalk(c, path, n, h)
<1> DEFINE bad == {m \in Nat : ~ \E h : IsWalk(c, path, m, h)}
<1> SUFFICES ASSUME bad # {} PROVE FALSE
  OBVIOUS
<1>1. PICK m \in bad : \A k \in bad : m <= k
  BY LeastNat
<1>2. CASE m = 0
  <2> DEFINE h == [i \in 0 .. 0 |-> c]
  <2>1. IsWalk(c, path, 0, h)
    BY SMT DEF IsWalk
  <2> QED BY <1>1, <1>2, <2>1
<1>3. CASE m # 0
  <2>1. m - 1 \in Nat /\ m - 1 \notin bad
    BY <1>1, <1>3, SMT
  <2>2. PICK h : IsWalk(c, path, m - 1, h)
    BY <2>1
  <2>3. /\ h[0] = c
        /\ \A i \in 1 .. m - 1 : h[i] = Link[EndOf(h[i - 1], path[i])].chain
    <3>1. m - 1 \in Nat
      BY <2>1, SMT
    <3>2. Walks(c, path, m - 1, h)
      BY <2>2, <3>1, WalkStep
    <3> QED BY <3>2 DEF Walks
  <2> DEFINE next(i) == Link[EndOf(h[i - 1], path[i])].chain
             k == [i \in 0 .. m |-> IF i = 0 THEN c ELSE next(i)]
  <2>4. \A i \in 0 .. m - 1 : k[i] = h[i]
    <3> HIDE DEF next
    <3>1. \A i \in 1 .. m - 1 : h[i] = next(i)
      BY <2>3 DEF next
    <3> QED BY <1>1, <2>3, <3>1, SMT
  <2>5. \A i \in 0 .. m : k[i] = IF i = 0 THEN c ELSE Link[EndOf(k[i - 1], path[i])].chain
    <3> SUFFICES ASSUME NEW i \in 0 .. m, i # 0
                 PROVE  k[i] = Link[EndOf(k[i - 1], path[i])].chain
      BY <1>1, <2>1
    <3>1. k[i] = next(i) /\ i - 1 \in 0 .. m - 1
      BY <1>1, SMT
    <3>2. k[i - 1] = h[i - 1]
      BY <2>4, <3>1
    <3> HIDE DEF k
    <3> QED BY <3>1, <3>2
  <2>6. k = [i \in 0 .. m |-> k[i]]
    OBVIOUS
  <2> HIDE DEF k
  <2>7. k = [i \in 0 .. m |-> IF i = 0 THEN c ELSE Link[EndOf(k[i - 1], path[i])].chain]
    BY <2>5, <2>6
  <2> QED BY <1>1, <2>7 DEF IsWalk
<1> QED BY <1>2, <1>3

LEMMA WalkUnique ==
  ASSUME NEW c, NEW path, NEW n \in Nat, NEW h, IsWalk(c, path, n, h),
         NEW k, IsWalk(c, path, n, k)
  PROVE  h[n] = k[n]
<1> DEFINE bad == {i \in 0 .. n : h[i] # k[i]}
<1>1. /\ h[0] = c /\ \A i \in 1 .. n : h[i] = Link[EndOf(h[i - 1], path[i])].chain
      /\ k[0] = c /\ \A i \in 1 .. n : k[i] = Link[EndOf(k[i - 1], path[i])].chain
  <2>1. Walks(c, path, n, h) /\ Walks(c, path, n, k)
    BY WalkStep
  <2> QED BY <2>1 DEF Walks
<1>2. ASSUME bad # {} PROVE FALSE
  <2>1. bad \subseteq Nat
    BY SMT
  <2>2. PICK i \in bad : \A j \in bad : i <= j
    BY <1>2, <2>1, LeastNat
  <2>3. i \in 1 .. n /\ i - 1 \in 0 .. n
    BY <1>1, <2>2, SMT
  <2>4. i - 1 \notin bad
    BY <2>1, <2>2, <2>3, SMT
  <2>5. h[i - 1] = k[i - 1]
    BY <2>3, <2>4
  <2> QED BY <1>1, <2>2, <2>3, <2>5
<1> QED BY <1>2, SMT

LEMMA OriginWalk ==
  ASSUME NEW c, NEW d, Len(d.path) \in Nat
  PROVE  \E h : IsWalk(c, d.path, Len(d.path), h) /\ Origin(c, d) = <<h[Len(d.path)], d.base>>
<1> DEFINE h == CHOOSE k : IsWalk(c, d.path, Len(d.path), k)
<1>1. IsWalk(c, d.path, Len(d.path), h)
  BY WalkExists
<1>2. Origin(c, d) = <<h[Len(d.path)], d.base>>
  BY DEF Origin, IsWalk
<1> HIDE DEF h
<1> QED BY <1>1, <1>2

\* A voucher comes from where the coin comes from that it stands for.
LEMMA OriginPrefix ==
  ASSUME NEW f \in Ends, NEW d \in Denominations
  PROVE  Origin(f.chain, GetPrefixedDenom(f, d)) = Origin(Link[f].chain, d)
<1> DEFINE p == d.path
           n == Len(p)
           v == GetPrefixedDenom(f, d)
           q == <<Hop(f)>> \o p
<1>1. p \in Seq({Hop(e) : e \in Ends}) /\ n \in Nat
  BY SMT DEF Denominations
<1>2. v.path = q /\ v.base = d.base
  BY DEF GetPrefixedDenom
<1>3. Len(q) = n + 1 /\ q[1] = Hop(f) /\ \A i \in 1 .. n : q[i + 1] = p[i]
  BY <1>1, SMT
<1> HIDE DEF p, v, q, n
<1>4. PICK h : IsWalk(f.chain, q, n + 1, h) /\ Origin(f.chain, v) = <<h[n + 1], d.base>>
  <2>1. Len(v.path) \in Nat /\ Len(v.path) = n + 1
    BY <1>1, <1>2, <1>3, SMT
  <2> QED BY <1>2, <2>1, OriginWalk
<1>5. PICK k : IsWalk(Link[f].chain, p, n, k) /\ Origin(Link[f].chain, d) = <<k[n], d.base>>
  BY <1>1, OriginWalk DEF p, n
<1>6. h[0] = f.chain /\ \A i \in 1 .. n + 1 : h[i] = Link[EndOf(h[i - 1], q[i])].chain
  <2> DEFINE m == n + 1
  <2>1. m \in Nat /\ IsWalk(f.chain, q, m, h)
    BY <1>1, <1>4, SMT
  <2> HIDE DEF m
  <2>2. h[0] = f.chain /\ \A i \in 1 .. m : h[i] = Link[EndOf(h[i - 1], q[i])].chain
    <3>1. Walks(f.chain, q, m, h)
      BY <2>1, WalkStep
    <3> QED BY <3>1 DEF Walks
  <2> QED BY <2>2 DEF m
<1>7. EndOf(f.chain, Hop(f)) = f
  BY HopFacts DEF EndOf
<1> DEFINE s == [i \in 0 .. n |-> h[i + 1]]
<1>8. IsWalk(Link[f].chain, p, n, s)
  <2>1. h[1] = Link[f].chain
    BY <1>1, <1>3, <1>6, <1>7, SMT
  <2>2. \A i \in 0 .. n : s[i] = IF i = 0 THEN Link[f].chain ELSE Link[EndOf(s[i - 1], p[i])].chain
    <3> TAKE i \in 0 .. n
    <3>1. CASE i = 0
      BY <1>1, <2>1, <3>1, SMT
    <3>2. CASE i # 0
      <4>1. i \in 1 .. n /\ i + 1 \in 1 .. n + 1 /\ i - 1 \in 0 .. n /\ (i + 1) - 1 = i
        BY <1>1, <3>2, SMT
      <4>2. s[i] = h[i + 1] /\ s[i - 1] = h[i]
        BY <4>1, SMT
      <4>3. h[i + 1] = Link[EndOf(h[(i + 1) - 1], q[i + 1])].chain
        BY <1>6, <4>1
      <4> QED BY <1>3, <3>2, <4>1, <4>2, <4>3
    <3> QED BY <3>1, <3>2
  <2>3. s = [i \in 0 .. n |-> s[i]]
    OBVIOUS
  <2> HIDE DEF s
  <2> QED BY <2>2, <2>3 DEF IsWalk
<1>9. s[n] = h[n + 1]
  BY <1>1, SMT
<1> HIDE DEF s
<1>10. s[n] = k[n]
  BY <1>1, <1>5, <1>8, WalkUnique, SMT
<1> QED BY <1>4, <1>5, <1>9, <1>10 DEF v

LEMMA OriginNative ==
  ASSUME NEW c, NEW base
  PROVE  Origin(c, Native(base)) = <<c, base>>
<1> DEFINE d == Native(base)
<1>1. d.path = <<>> /\ d.base = base /\ Len(d.path) = 0
  BY DEF Native
<1> HIDE DEF d
<1>2. PICK h : IsWalk(c, d.path, 0, h) /\ Origin(c, d) = <<h[0], d.base>>
  BY <1>1, OriginWalk
<1>3. h[0] = c
  <2>1. 0 \in Nat
    BY SMT
  <2>2. Walks(c, d.path, 0, h)
    BY <1>2, <2>1, WalkStep
  <2> QED BY <2>2 DEF Walks
<1> QED BY <1>1, <1>2, <1>3 DEF d

-----------------------------------------------------------------------------
(* Value is conserved. *)

\* One summand changes by k.
Bump(f, g, S, x, k) ==
  /\ x \in S
  /\ \A y \in S : f[y] \in Nat /\ g[y] \in Nat /\ g[y] = f[y] + (IF y = x THEN k ELSE 0)

LEMMA SumBump ==
  ASSUME NEW f, NEW g, NEW S, IsFiniteSet(S), NEW x, NEW k \in Int, Bump(f, g, S, x, k)
  PROVE  /\ SumFunctionOnSet(f, S) \in Nat /\ SumFunctionOnSet(g, S) \in Nat
         /\ SumFunctionOnSet(g, S) = SumFunctionOnSet(f, S) + k
<1>1. /\ Summable(f, S) /\ SameBut(x, f, S, g, S) /\ x \in S /\ g[x] \in Nat /\ f[x] \in Nat
      /\ g[x] = f[x] + k
  BY SMT DEF Bump, Summable, SameBut
<1>2. /\ Total(f, S) \in Nat /\ Total(g, S) \in Nat
      /\ Total(g, S) = Total(f, S) - At(f, S, x) + At(g, S, x)
  BY <1>1, SumChange, SMT DEF Total
<1>3. At(f, S, x) = f[x] /\ At(g, S, x) = g[x]
  BY <1>1 DEF At
<1>4. Total(g, S) = Total(f, S) + k
  BY <1>1, <1>2, <1>3, SMT
<1> QED BY <1>2, <1>4 DEF Total

\* The denominations on chain c of a coin that comes from there.
Class(c, origin) == {d \in Denominations : Origin(c, d) = origin}

OnChain(x, origin) == Part(bank[x], Owners \X Class(x, origin))
AtEnd(e, origin) ==
  Carried(sent[e], status[e], Class(e.chain, origin)) + Part(gifts[e], Class(e.chain, origin))

Value(origin) ==
  SumFunctionOnSet([x \in Chains |-> OnChain(x, origin)], Chains)
    + SumFunctionOnSet([e \in Ends |-> AtEnd(e, origin)], Ends)

LEMMA FiniteChains == IsFiniteSet(Chains) /\ IsFiniteSet(Ends)
<1> DEFINE chain == [e \in Ends |-> e.chain]
<1>1. chain \in Surjection(Ends, Chains)
  BY DEF Surjection, Chains
<1> HIDE DEF chain
<1> QED BY <1>1, TransferAssumptions, FS_Surjection

\* A step changes what the owners on one chain have, and what is at two ends.
ChainBump(origin, c, k) ==
  \A x \in Chains : /\ OnChain(x, origin) \in Nat /\ OnChain(x, origin)' \in Nat
                    /\ OnChain(x, origin)' = OnChain(x, origin) + (IF x = c THEN k ELSE 0)
EndBump(origin, e, j, g, i) ==
  \A x \in Ends : /\ AtEnd(x, origin) \in Nat /\ AtEnd(x, origin)' \in Nat
                  /\ AtEnd(x, origin)' = AtEnd(x, origin) + (IF x = e THEN j ELSE 0)
                                           + (IF x = g THEN i ELSE 0)

LEMMA ValueStep ==
  ASSUME NEW origin, NEW c \in Chains, NEW k \in Int, ChainBump(origin, c, k),
         NEW e \in Ends, NEW j \in Int, NEW g \in Ends, NEW i \in Nat,
         EndBump(origin, e, j, g, i), k + j + i = 0
  PROVE  Value(origin)' = Value(origin)
<1> DEFINE p == [x \in Chains |-> OnChain(x, origin)]
           p2 == [x \in Chains |-> OnChain(x, origin)']
           q == [x \in Ends |-> AtEnd(x, origin)]
           q1 == [x \in Ends |-> AtEnd(x, origin) + (IF x = g THEN i ELSE 0)]
           q2 == [x \in Ends |-> AtEnd(x, origin)']
<1>1. Bump(p, p2, Chains, c, k)
  BY DEF Bump, ChainBump
<1>2. Bump(q, q1, Ends, g, i)
  BY SMT DEF Bump, EndBump
<1>3. Bump(q1, q2, Ends, e, j)
  BY SMT DEF Bump, EndBump
<1> HIDE DEF p, p2, q, q1, q2
<1>4. Total(p, Chains) \in Nat /\ Total(p2, Chains) = Total(p, Chains) + k
  BY <1>1, FiniteChains, SumBump, SMT DEF Total
<1>5. Total(q, Ends) \in Nat /\ Total(q1, Ends) = Total(q, Ends) + i
  BY <1>2, FiniteChains, SumBump, SMT DEF Total
<1>6. Total(q2, Ends) = Total(q1, Ends) + j
  BY <1>3, FiniteChains, SumBump, SMT DEF Total
<1>7. Total(p2, Chains) + Total(q2, Ends) = Total(p, Chains) + Total(q, Ends)
  BY <1>4, <1>5, <1>6, SMT
<1> QED BY <1>7 DEF Value, Total, p, p2, q, q2

LEMMA LocalConserves ==
  ASSUME Types, NEW e \in Ends, NEW u \in Users, NEW d \in Denominations, NEW n \in Int,
         Local(e, Account(u), d, n), NEW origin
  PROVE  Value(origin)' = Value(origin)
<1> DEFINE c == e.chain
           m == Share(d, Class(c, origin), n)
<1>1. c \in Chains /\ m \in Int /\ -m \in Int
  BY AmountFacts, SMT DEF Share
<1>2. ChainBump(origin, c, -m)
  <2> SUFFICES ASSUME NEW x \in Chains
               PROVE  /\ OnChain(x, origin) \in Nat /\ OnChain(x, origin)' \in Nat
                      /\ OnChain(x, origin)' = OnChain(x, origin) + (IF x = c THEN -m ELSE 0)
    BY DEF ChainBump
  <2> DEFINE K == Owners \X Class(x, origin)
  <2>1. /\ Part(bank[x], K) \in Nat /\ Part(bank'[x], K) \in Nat
        /\ Part(bank'[x], K) = Part(bank[x], K) +
             (IF x # c THEN 0
              ELSE (IF SenderChainIsSource(e, d) THEN Share(<<Hop(e), d>>, K, n) ELSE 0)
                     - Share(<<Account(u), d>>, K, n))
    BY DEF Local, BankLocal
  <2>2. Share(<<Hop(e), d>>, K, n) = 0
    BY HopFacts DEF Share
  <2>3. x = c => Share(<<Account(u), d>>, K, n) = m
    BY DEF Share, Owners
  <2>4. OnChain(x, origin) = Part(bank[x], K) /\ OnChain(x, origin)' = Part(bank'[x], K)
    BY DEF OnChain
  <2> HIDE DEF K, m, c
  <2> QED BY <1>1, <2>1, <2>2, <2>3, <2>4, SMT
<1>3. EndBump(origin, e, m, e, 0)
  <2> SUFFICES ASSUME NEW g \in Ends
               PROVE  /\ AtEnd(g, origin) \in Nat /\ AtEnd(g, origin)' \in Nat
                      /\ AtEnd(g, origin)' = AtEnd(g, origin) + (IF g = e THEN m ELSE 0)
    BY SMT DEF EndBump
  <2> DEFINE D == Class(g.chain, origin)
  <2>1. /\ Carried(sent[g], status[g], D) \in Nat /\ Carried(sent'[g], status'[g], D) \in Nat
        /\ Carried(sent'[g], status'[g], D) = Carried(sent[g], status[g], D) +
             (IF g = e THEN Share(d, D, n) ELSE 0)
    BY DEF Local, Flow
  <2>2. Part(gifts[g], D) \in Nat /\ gifts' = gifts
    BY PartNat DEF Local, Types, GiftsOK
  <2>3. g = e => Share(d, D, n) = m
    OBVIOUS
  <2>4. /\ AtEnd(g, origin) = Carried(sent[g], status[g], D) + Part(gifts[g], D)
        /\ AtEnd(g, origin)' = Carried(sent'[g], status'[g], D) + Part(gifts'[g], D)
    BY DEF AtEnd
  <2> HIDE DEF D, m
  <2> QED BY <1>1, <2>1, <2>2, <2>3, <2>4, SMT
<1> HIDE DEF m, c
<1>4. (-m) + m + 0 = 0
  BY <1>1, SMT
<1> QED BY <1>1, <1>2, <1>3, <1>4, ValueStep

LEMMA RemoteConserves ==
  ASSUME NEW e \in Ends, NEW d \in ValidDenoms(e.chain), NEW n \in Nat,
         NEW a \in Accounts(Link[e].chain), ReceivedDenom(e, Link[e], d) \in Denominations,
         Remote(e, a, d, n), NEW origin
  PROVE  Value(origin)' = Value(origin)
<1> DEFINE h == Link[e]
           c == h.chain
           r == ReceivedDenom(e, h, d)
           m == Share(d, Class(e.chain, origin), n)
           k == IF a \in Owners THEN m ELSE 0
           i == IF a \in Owners THEN 0 ELSE m
<1>1. c \in Chains /\ h \in Ends /\ Link[h] = e /\ d \in Denominations /\ r \in Denominations
  BY AmountFacts DEF ValidDenoms
<1>2. m \in Nat /\ -m \in Int /\ k \in Int /\ i \in Nat /\ k + (-m) + i = 0
  BY SMT DEF Share
<1>3. Share(r, Class(c, origin), n) = m
  <2>1. Origin(c, r) = Origin(e.chain, d)
    <3>1. CASE ReceiverChainIsSource(e, d)
      <4>1. d = GetPrefixedDenom(e, r)
        BY <1>1, <3>1, PrefixFacts DEF ReceivedDenom
      <4> HIDE DEF r
      <4> QED BY <1>1, <4>1, OriginPrefix
    <3>2. CASE ~ ReceiverChainIsSource(e, d)
      <4>1. r = GetPrefixedDenom(h, d)
        BY <3>2 DEF ReceivedDenom
      <4> QED BY <1>1, <4>1, OriginPrefix
    <3> QED BY <3>1, <3>2
  <2> QED BY <1>1, <2>1 DEF Share, Class
<1>4. ChainBump(origin, c, k)
  <2> SUFFICES ASSUME NEW x \in Chains
               PROVE  /\ OnChain(x, origin) \in Nat /\ OnChain(x, origin)' \in Nat
                      /\ OnChain(x, origin)' = OnChain(x, origin) + (IF x = c THEN k ELSE 0)
    BY DEF ChainBump
  <2> DEFINE K == Owners \X Class(x, origin)
  <2>1. /\ Part(bank[x], K) \in Nat /\ Part(bank'[x], K) \in Nat
        /\ Part(bank'[x], K) = Part(bank[x], K) +
             (IF x # c THEN 0
              ELSE Share(<<a, r>>, K, n) -
                (IF ReceiverChainIsSource(e, d) THEN Share(<<Hop(h), r>>, K, n) ELSE 0))
    BY DEF Remote, BankRemote
  <2>2. Share(<<Hop(h), r>>, K, n) = 0
    BY <1>1, HopFacts DEF Share
  <2>3. x = c => Share(<<a, r>>, K, n) = k
    <3>1. x = c => Share(<<a, r>>, K, n) = IF a \in Owners THEN Share(r, Class(c, origin), n) ELSE 0
      BY DEF Share
    <3> HIDE DEF m, K
    <3> QED BY <1>3, <3>1
  <2>4. OnChain(x, origin) = Part(bank[x], K) /\ OnChain(x, origin)' = Part(bank'[x], K)
    BY DEF OnChain
  <2> HIDE DEF K, m, c, k, r, h
  <2> QED BY <1>2, <2>1, <2>2, <2>3, <2>4, SMT
<1>5. PICK g \in Ends : a \in Owners \/ (g.chain = c /\ Hop(g) = a)
  BY <1>1 DEF Accounts, Escrows, GetEscrowAddress
<1>6. EndBump(origin, e, -m, g, i)
  <2> SUFFICES ASSUME NEW x \in Ends
               PROVE  /\ AtEnd(x, origin) \in Nat /\ AtEnd(x, origin)' \in Nat
                      /\ AtEnd(x, origin)' = AtEnd(x, origin) + (IF x = e THEN -m ELSE 0)
                                               + (IF x = g THEN i ELSE 0)
    BY DEF EndBump
  <2> DEFINE D == Class(x.chain, origin)
  <2>1. /\ Carried(sent[x], status[x], D) \in Nat /\ Carried(sent'[x], status'[x], D) \in Nat
        /\ Carried(sent'[x], status'[x], D) = Carried(sent[x], status[x], D) +
             (IF x = e THEN Share(d, D, -n) ELSE 0)
    BY DEF Remote, Flow
  <2>2. /\ Part(gifts[x], D) \in Nat /\ Part(gifts'[x], D) \in Nat
        /\ Part(gifts'[x], D) = Part(gifts[x], D) +
             (IF x.chain = c /\ Hop(x) = a THEN Share(r, D, n) ELSE 0)
    BY DEF Remote, GiftsRemote
  <2>3. x = e => Share(d, D, -n) = -m
    BY ShareFacts, SMT
  <2>4. (IF x.chain = c /\ Hop(x) = a THEN Share(r, D, n) ELSE 0) = IF x = g THEN i ELSE 0
    <3>1. CASE a \in Owners
      <4>1. Hop(x) # a
        BY <3>1, HopFacts
      <4> QED BY <3>1, <4>1
    <3>2. CASE a \notin Owners
      <4>1. x.chain = c /\ Hop(x) = a <=> x = g
        BY <1>5, <3>2, HopFacts
      <4>2. x = g => Share(r, D, n) = m
        BY <1>3, <4>1
      <4> HIDE DEF m, D, r
      <4> QED BY <3>2, <4>1, <4>2
    <3> QED BY <3>1, <3>2
  <2>5. /\ AtEnd(x, origin) = Carried(sent[x], status[x], D) + Part(gifts[x], D)
        /\ AtEnd(x, origin)' = Carried(sent'[x], status'[x], D) + Part(gifts'[x], D)
    BY DEF AtEnd
  <2> HIDE DEF D, m, i, r, c
  <2> DEFINE u == IF x = e THEN -m ELSE 0
             w == IF x = g THEN i ELSE 0
             C1 == Carried(sent[x], status[x], D)
             C2 == Carried(sent'[x], status'[x], D)
             G1 == Part(gifts[x], D)
             G2 == Part(gifts'[x], D)
  <2>6. C1 \in Nat /\ C2 \in Nat /\ C2 = C1 + u
    BY <2>1, <2>3
  <2>7. G1 \in Nat /\ G2 \in Nat /\ G2 = G1 + w
    BY <2>2, <2>4
  <2>8. u \in Int /\ w \in Int
    BY <1>2, SMT
  <2>9. AtEnd(x, origin) = C1 + G1 /\ AtEnd(x, origin)' = C2 + G2
    BY <2>5
  <2> HIDE DEF u, w, C1, C2, G1, G2
  <2>10. /\ AtEnd(x, origin) \in Nat /\ AtEnd(x, origin)' \in Nat
         /\ AtEnd(x, origin)' = AtEnd(x, origin) + u + w
    BY <2>6, <2>7, <2>8, <2>9, SMT
  <2> QED BY <2>10 DEF u, w
<1> HIDE DEF m, c, k, i
<1> QED BY <1>1, <1>2, <1>4, <1>6, ValueStep

Conserved == \A c \in Chains, base \in Bases : Value(<<c, base>>) = InitialSupply(c, base)

LEMMA NextConserves ==
  ASSUME Types, Ledger, Conserved
  PROVE  Conserved'
<1>1. ASSUME NEW origin PROVE Value(origin)' = Value(origin)
  <2>1. CASE Still
    <3>1. \A x \in Chains : OnChain(x, origin)' = OnChain(x, origin)
      BY <2>1 DEF Still, OnChain
    <3>2. \A e \in Ends : AtEnd(e, origin)' = AtEnd(e, origin)
      BY <2>1 DEF Still, AtEnd
    <3> QED BY <3>1, <3>2 DEF Value
  <2>2. ASSUME NEW e \in Ends, NEW u \in Users, NEW d \in Denominations, NEW n \in Int,
               Local(e, Account(u), d, n)
        PROVE  Value(origin)' = Value(origin)
    BY <2>2, LocalConserves
  <2>3. ASSUME NEW e \in Ends, NEW n \in Nat,
               NEW d \in ValidDenoms(e.chain), NEW a \in Accounts(Link[e].chain),
               ReceivedDenom(e, Link[e], d) \in Denominations, Remote(e, a, d, n)
        PROVE  Value(origin)' = Value(origin)
    BY <2>3, RemoteConserves
  <2> QED BY <2>1, <2>2, <2>3 DEF Ledger
<1>2. \A c \in Chains, base \in Bases : InitialSupply(c, base)' = InitialSupply(c, base)
  BY DEF InitialSupply, InitialBank
<1> QED BY <1>1, <1>2 DEF Conserved

LEMMA InitConserved == Init => Conserved
<1> SUFFICES ASSUME Init, NEW c \in Chains, NEW base \in Bases
             PROVE  Value(<<c, base>>) = InitialSupply(c, base)
  BY DEF Conserved
<1> DEFINE o == <<c, base>>
           p == [x \in Chains |-> OnChain(x, o)]
           q == [e \in Ends |-> AtEnd(e, o)]
<1>1. /\ bank = [x \in Chains |-> InitialBank(x)]
      /\ sent = [e \in Ends |-> <<>>] /\ gifts = [e \in Ends |-> EmptyBag]
  BY DEF Init
<1>2. ASSUME NEW x \in Chains, NEW key \in BagToSet(InitialBank(x))
      PROVE  /\ key[1] \in Owners /\ key[2] \in Denominations /\ key = <<key[1], key[2]>>
             /\ key[2] = Native(key[2].base) /\ Origin(x, key[2]) = <<x, key[2].base>>
  <2>1. /\ BankOK(x, InitialBank(x)) /\ key[1] \in Owners /\ key[2] = Native(key[2].base)
    BY InitialBankFacts
  <2>2. key[2] \in Denominations /\ key = <<key[1], key[2]>>
    BY <2>1, SMT DEF BankOK, ValidDenoms
  <2>3. Origin(x, Native(key[2].base)) = <<x, key[2].base>>
    BY OriginNative
  <2> QED BY <2>1, <2>2, <2>3
<1>3. ASSUME NEW x \in Chains, x # c PROVE OnChain(x, o) = 0
  <2>1. BagToSet(bank[x]) \cap (Owners \X Class(x, o)) = {}
    BY <1>1, <1>2, <1>3, SMT DEF Class
  <2> QED BY <2>1, PartNone DEF OnChain
<1>4. OnChain(c, o) = InitialSupply(c, base) /\ OnChain(c, o) \in Nat
  <2> DEFINE B == InitialBank(c)
             S == {key \in BagToSet(B) : key[2] = Native(base)}
             T == BagToSet(B) \cap (Owners \X Class(c, o))
  <2>1. \A key \in BagToSet(B) : key[2] = Native(base) <=> key[2].base = base
    <3>1. Native(base).base = base
      BY DEF Native
    <3> QED BY <1>2, <3>1
  <2>2. \A key \in BagToSet(B) : key \in Owners \X Class(c, o) <=> key[2].base = base
    BY <1>2, SMT DEF Class
  <2>3. S = T
    BY <2>1, <2>2
  <2>4. Total(B, S) = Total(B, T)
    BY <2>3, Zenon
  <2>5. bank[c] = B /\ FiniteBag(B)
    BY <1>1, InitialBankFacts DEF BankOK
  <2> QED BY <2>4, <2>5, PartNat DEF OnChain, Part, Total, InitialSupply
<1>5. SumFunctionOnSet(p, Chains) = OnChain(c, o)
  <2>1. p[c] = OnChain(c, o) /\ \A x \in Chains \ {c} : p[x] = 0
    BY <1>3
  <2> HIDE DEF p
  <2> QED BY <1>4, <2>1, FiniteChains, SumOne
<1>6. ASSUME NEW e \in Ends PROVE AtEnd(e, o) = 0
  <2>1. Carried(sent[e], status[e], Class(e.chain, o)) = 0
    BY <1>1, CarriedNone
  <2>2. BagToSet(gifts[e]) \cap Class(e.chain, o) = {}
    BY <1>1, SMT DEF EmptyBag, BagToSet
  <2> QED BY <2>1, <2>2, PartNone, SMT DEF AtEnd
<1>7. PICK e \in Ends : e.chain = c
  BY DEF Chains
<1>8. SumFunctionOnSet(q, Ends) = 0
  <2>1. q[e] = 0 /\ \A x \in Ends \ {e} : q[x] = 0
    BY <1>6
  <2> HIDE DEF q
  <2> QED BY <2>1, FiniteChains, SumOne, SMT
<1> QED BY <1>4, <1>5, <1>8, SMT DEF Value

LEMMA ConservedIsValue ==
  ASSUME Types, Conserved
  PROVE  ValueConserved
<1> SUFFICES ASSUME NEW c \in Chains, NEW base \in Bases
             PROVE  SumFunction([x \in Chains |-> Owned(x, <<c, base>>)])
                      + SumFunction([e \in Ends |-> Underway(e, <<c, base>>) + Given(e, <<c, base>>)])
                      = InitialSupply(c, base)
  BY DEF ValueConserved
<1> DEFINE o == <<c, base>>
<1>1. ASSUME NEW x \in Chains PROVE Owned(x, o) = OnChain(x, o)
  <2>1. BagToSet(bank[x]) \subseteq Accounts(x) \X ValidDenoms(x)
    BY DEF Types, BankOK
  <2>2. {key \in BagToSet(bank[x]) : key[1] \in Owners /\ Origin(x, key[2]) = o}
          = BagToSet(bank[x]) \cap (Owners \X Class(x, o))
    BY <2>1 DEF Class, ValidDenoms
  <2> HIDE DEF o
  <2> QED BY <2>2, Zenon DEF Owned, OnChain, Part
<1>2. ASSUME NEW e \in Ends PROVE Underway(e, o) + Given(e, o) = AtEnd(e, o)
  <2>1. \A s \in DOMAIN sent[e] : sent[e][s].denom \in Denominations
    <3> TAKE s \in DOMAIN sent[e]
    <3>1. sent[e][s] \in PacketData(e)
      BY SMT DEF Types, PacketsOK
    <3> QED BY <3>1 DEF PacketData, ValidDenoms
  <2>2. {s \in {s \in DOMAIN sent[e] : Origin(e.chain, sent[e][s].denom) = o} :
           status[e][s] \in {"sent", "failed"}}
          = {s \in DOMAIN sent[e] : sent[e][s].denom \in Class(e.chain, o) /\ status[e][s] \in Flown}
    BY <2>1 DEF Class, Flown
  <2>3. BagToSet(gifts[e]) \subseteq Denominations
    BY DEF Types, GiftsOK
  <2>4. {d \in BagToSet(gifts[e]) : Origin(e.chain, d) = o} = BagToSet(gifts[e]) \cap Class(e.chain, o)
    BY <2>3 DEF Class
  <2> HIDE DEF o
  <2>5. Underway(e, o) = Carried(sent[e], status[e], Class(e.chain, o))
    BY <2>2, Zenon DEF Underway, Flying, Carried
  <2>6. Given(e, o) = Part(gifts[e], Class(e.chain, o))
    BY <2>4, Zenon DEF Given, Part
  <2> QED BY <2>5, <2>6 DEF AtEnd
<1> HIDE DEF o
<1>3. [x \in Chains |-> Owned(x, o)] = [x \in Chains |-> OnChain(x, o)]
  BY <1>1
<1>4. [e \in Ends |-> Underway(e, o) + Given(e, o)] = [e \in Ends |-> AtEnd(e, o)]
  BY <1>2
<1>5. SumFunction([x \in Chains |-> OnChain(x, o)]) =
        SumFunctionOnSet([x \in Chains |-> OnChain(x, o)], Chains)
  <2>1. DOMAIN [x \in Chains |-> OnChain(x, o)] = Chains
    OBVIOUS
  <2> QED BY <2>1, Zenon DEF SumFunction
<1>6. SumFunction([e \in Ends |-> AtEnd(e, o)]) =
        SumFunctionOnSet([e \in Ends |-> AtEnd(e, o)], Ends)
  <2>1. DOMAIN [e \in Ends |-> AtEnd(e, o)] = Ends
    OBVIOUS
  <2> QED BY <2>1, Zenon DEF SumFunction
<1>7. Value(o) = InitialSupply(c, base)
  BY DEF Conserved, o
<1>8. SumFunction([x \in Chains |-> Owned(x, o)])
        + SumFunction([e \in Ends |-> Underway(e, o) + Given(e, o)]) = InitialSupply(c, base)
  BY <1>3, <1>4, <1>5, <1>6, <1>7 DEF Value
<1> QED BY <1>8 DEF o

-----------------------------------------------------------------------------
(* The theorems. *)

Inv == Types /\ Backed /\ Conserved

LEMMA Invariance == Spec => []Inv
<1>1. Init => Inv
  BY InitTypes, InitBacked, InitConserved DEF Inv
<1>2. Inv /\ [Next]_vars => Inv'
  BY NextStep, NextBacked, NextConserves DEF Inv
<1> QED BY <1>1, <1>2, PTL DEF Spec

\* What SendTransfer escrows, OnRecvPacket and refundPacketToken release, each once,
\* however transfers, returns, refunds and timeouts interleave: the escrow account
\* of every channel end holds what backs the vouchers at the other end.
THEOREM VouchersBacked == Spec => []EscrowBalance
<1>1. Inv => EscrowBalance
  BY BackedIsBalance DEF Inv
<1> QED BY <1>1, Invariance, PTL

\* Over all chains no transfer, refund or route through several channels makes or
\* destroys coins, or makes them coins of another chain.
THEOREM ValueIsConserved == Spec => []ValueConserved
<1>1. Inv => ValueConserved
  BY ConservedIsValue DEF Inv
<1> QED BY <1>1, Invariance, PTL

=============================================================================
