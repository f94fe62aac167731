------------------------------ MODULE FlowProofs ------------------------------
(***************************************************************************)
(* Proofs about BlockFlow for every set of miners, every number of slots   *)
(* and of transactions, and every choice of leaders and upstreams.  Each   *)
(* part has an inductive invariant and rests on the one before it:         *)
(*   Inv       any faults: the beacon has every block of every node        *)
(*   FlowInv   any faults: what the state holds                            *)
(*   OrderInv  one upstream that answers blocks: the beacon's chain grows   *)
(*             in the order of the slots                                   *)
(*   CopyInv   and one leader: every node's chain is a beginning of the     *)
(*             beacon's, and its bank is that of its ledger                *)
(*   LossInv   and no fault but a late answer: what a miner has accepted   *)
(*             is in a pool, in a cache, on its way or on the chain        *)
(* A hypothesis on leaders, faults or restarts is named where it comes in; *)
(* without it the code does not keep the promise (README).                 *)
(***************************************************************************)
EXTENDS BlockFlow, DataLemmas, SequenceTheorems, TLAPS

Blocks(c) == ToSet(c.ledger)

\* A ledger is a sequence that begins somewhere.
Good(c) == c.ledger \in Seq(Blocks(c)) /\ c.ledger # <<>>

LedgersGood ==
    /\ chain = [n \in Nodes |-> chain[n]]
    /\ \A n \in Nodes : Good(chain[n])

SendingGood ==
    sending = [m \in Miners |-> [block |-> sending[m].block,
                                 left  |-> sending[m].left,
                                 ok    |-> sending[m].ok]]

\* A block that a recipient took is on the beacon's chain.
SentKept == \A m \in Miners : sending[m].ok => sending[m].block \in ToSet(BeaconLedger)

Inv == LedgersGood /\ SendingGood /\ SentKept /\ BeaconHasAllBlocks

----------------------------------------------------------------------------
(* Sequences and the induction over what is fetched.                       *)

\* A block appended to a ledger is one more block of it.
LEMMA Appended ==
    ASSUME NEW L, L \in Seq(ToSet(L)), NEW b
    PROVE  /\ Append(L, b) \in Seq(ToSet(Append(L, b)))
           /\ ToSet(Append(L, b)) = ToSet(L) \cup {b}
           /\ Append(L, b) # <<>>
<1>1. /\ L \in Seq(ToSet(L) \cup {b})
      /\ Len(Append(L, b)) = Len(L) + 1
      /\ DOMAIN Append(L, b) = 1 .. Len(L) + 1
      /\ \A i \in 1 .. Len(L) : Append(L, b)[i] = L[i]
      /\ Append(L, b)[Len(L) + 1] = b
      /\ Append(L, b) \in Seq(ToSet(L) \cup {b})
      /\ DOMAIN L = 1 .. Len(L) /\ Len(L) \in Nat
  <2>1. L \in Seq(ToSet(L) \cup {b})
    BY SeqMonotonic
  <2>. QED BY <2>1, AppendProperties, LenProperties
<1>2. ToSet(Append(L, b)) \subseteq ToSet(L) \cup {b}
  BY <1>1 DEF ToSet
<1>3. ToSet(L) \cup {b} \subseteq ToSet(Append(L, b))
  <2>1. ToSet(L) \subseteq ToSet(Append(L, b))
    BY <1>1 DEF ToSet
  <2>2. b \in ToSet(Append(L, b))
    BY <1>1 DEF ToSet
  <2>. QED BY <2>1, <2>2
<1>4. Append(L, b) # <<>>
  BY <1>1
<1>. QED BY <1>1, <1>2, <1>3, <1>4

\* The same of a sequence over a set.
LEMMA AppendIn ==
    ASSUME NEW T, NEW s \in Seq(T), NEW t \in T
    PROVE  Append(s, t) \in Seq(T) /\ ToSet(Append(s, t)) = ToSet(s) \cup {t}
<1>1. s \in Seq(ToSet(s))
  BY LenProperties DEF ToSet
<1>. QED BY <1>1, Appended, AppendProperties

\* One sequence after another.
LEMMA ConcatIn ==
    ASSUME NEW T, NEW s \in Seq(T), NEW t \in Seq(T)
    PROVE  s \o t \in Seq(T) /\ ToSet(s \o t) = ToSet(s) \cup ToSet(t)
<1>1. /\ s \o t \in Seq(T) /\ Len(s \o t) = Len(s) + Len(t)
      /\ Len(s) \in Nat /\ Len(t) \in Nat
      /\ DOMAIN s = 1 .. Len(s) /\ DOMAIN t = 1 .. Len(t)
      /\ DOMAIN (s \o t) = 1 .. Len(s) + Len(t)
  BY ConcatProperties, LenProperties
<1>2. \A i \in 1 .. Len(s) + Len(t) :
         (s \o t)[i] = IF i <= Len(s) THEN s[i] ELSE t[i - Len(s)]
  BY ConcatProperties
<1> DEFINE u == s \o t
<1> HIDE DEF u
<1>3. \A i \in 1 .. Len(s) : u[i] = s[i] /\ i \in DOMAIN u
  BY <1>1, <1>2 DEF u
<1>4. \A i \in 1 .. Len(t) : u[Len(s) + i] = t[i] /\ Len(s) + i \in DOMAIN u
  BY <1>1, <1>2 DEF u
<1>5. \A i \in DOMAIN u :
         \/ i \in DOMAIN s /\ u[i] = s[i]
         \/ i - Len(s) \in DOMAIN t /\ u[i] = t[i - Len(s)]
  <2>1. DOMAIN u = 1 .. Len(s) + Len(t)
    BY <1>1 DEF u
  <2>2. ASSUME NEW i \in 1 .. Len(s) + Len(t)
        PROVE  \/ i \in DOMAIN s /\ u[i] = s[i]
               \/ i - Len(s) \in DOMAIN t /\ u[i] = t[i - Len(s)]
    <3>1. CASE i <= Len(s)
      BY <1>1, <1>3, <3>1
    <3>2. CASE i > Len(s)
      <4>1. u[i] = t[i - Len(s)] /\ i - Len(s) \in 1 .. Len(t)
        BY <1>1, <1>2, <3>2 DEF u
      <4>. QED BY <1>1, <4>1
    <3>. QED BY <1>1, <3>1, <3>2
  <2>. QED BY <2>1, <2>2
<1>6. ToSet(u) = ToSet(s) \cup ToSet(t)
  BY <1>1, <1>3, <1>4, <1>5 DEF ToSet
<1>. QED BY <1>1, <1>6 DEF u

\* Chain::addBlock appends the block or leaves the ledger alone.
LEMMA AddBlockLedger ==
    ASSUME NEW c, NEW b
    PROVE  LET r == AddBlock(c, b)
           IN  r.chain.ledger = IF r.ok THEN Append(c.ledger, b) ELSE c.ledger
BY DEF AddBlock

\* A chain that takes a block has that block more, one that refuses it none.
LEMMA AddBlockBlocks ==
    ASSUME NEW c, Good(c), NEW b, NEW r, r = AddBlock(c, b)
    PROVE  /\ Good(r.chain)
           /\ r.ok  => Blocks(r.chain) = Blocks(c) \cup {b}
           /\ ~r.ok => r.chain.ledger = c.ledger
<1>1. CASE r.ok
  <2>1. r.chain.ledger = Append(c.ledger, b)
    BY <1>1, AddBlockLedger
  <2>. QED BY <1>1, <2>1, Appended DEF Good, Blocks
<1>2. CASE ~r.ok
  BY <1>2, AddBlockLedger DEF Good, Blocks
<1>. QED BY <1>1, <1>2

\* The sync of AddBlocks, block by block.
After(c, blocks, f) ==
    f = [k \in 0 .. Len(blocks) |->
           IF k = 0 THEN [ok |-> TRUE, chain |-> c]
           ELSE IF f[k - 1].ok THEN AddBlock(f[k - 1].chain, blocks[k])
           ELSE f[k - 1]]

\* There is such a function, so that AddBlocks is what it is defined to be: it
\* is built up to any number of blocks.
LEMMA AfterExists ==
    ASSUME NEW c, NEW blocks, Len(blocks) \in Nat
    PROVE  \E f : After(c, blocks, f)
<1> DEFINE Upto(n, f) ==
             f = [k \in 0 .. n |->
                    IF k = 0 THEN [ok |-> TRUE, chain |-> c]
                    ELSE IF f[k - 1].ok THEN AddBlock(f[k - 1].chain, blocks[k])
                    ELSE f[k - 1]]
           T == {n \in Nat : ~ \E f : Upto(n, f)}
<1>1. SUFFICES ASSUME T # {} PROVE FALSE
  BY DEF After
<1>2. PICK n \in T : \A m \in T : n <= m
  BY <1>1, Least
<1>3. n # 0
  <2>1. Upto(0, [k \in 0 .. 0 |-> [ok |-> TRUE, chain |-> c]])
    OBVIOUS
  <2>. QED BY <2>1
<1>4. n - 1 \in Nat /\ n - 1 \notin T
  <2> HIDE DEF Upto
  <2>. QED BY <1>2, <1>3
<1>5. PICK f : Upto(n - 1, f)
  <2> HIDE DEF Upto
  <2>. QED BY <1>4
<1> DEFINE last == IF f[n - 1].ok THEN AddBlock(f[n - 1].chain, blocks[n]) ELSE f[n - 1]
           g == [k \in 0 .. n |-> IF k = n THEN last ELSE f[k]]
<1>6. Upto(n, g)
  <2> HIDE DEF last
  <2> DEFINE Then(h, k) == IF k = 0 THEN [ok |-> TRUE, chain |-> c]
                           ELSE IF h[k - 1].ok THEN AddBlock(h[k - 1].chain, blocks[k])
                           ELSE h[k - 1]
  <2>1. ASSUME NEW k \in 0 .. n PROVE g[k] = Then(g, k)
    <3>1. CASE k = n
      <4>1. g[k] = last /\ g[k - 1] = f[n - 1]
        BY <3>1, <1>3
      <4>. QED BY <4>1, <3>1, <1>3 DEF last
    <3>2. CASE k # n
      <4>1. k \in 0 .. n - 1 /\ g[k] = f[k] /\ (k # 0 => g[k - 1] = f[k - 1])
        BY <3>2
      <4>2. f[k] = Then(f, k)
        BY <1>5, <4>1
      <4>. QED BY <4>1, <4>2
    <3>. QED BY <3>1, <3>2
  <2>2. g = [k \in 0 .. n |-> g[k]]
    OBVIOUS
  <2> HIDE DEF g
  <2>3. g = [k \in 0 .. n |-> Then(g, k)]
    BY <2>1, <2>2
  <2>. QED BY <2>3
<1>. QED BY <1>6

\* What a sync adds to a ledger are blocks it has fetched
\* (RelayServer::syncBlocksFromBeacon).
LEMMA AddBlocksBlocks ==
    ASSUME NEW c, Good(c), NEW blocks, Len(blocks) \in Nat,
           NEW r, r = AddBlocks(c, blocks)
    PROVE  /\ Good(r.chain)
           /\ Blocks(r.chain) \subseteq
                 Blocks(c) \cup {blocks[i] : i \in 1 .. Len(blocks)}
<1> DEFINE f == CHOOSE f : After(c, blocks, f)
           All == Blocks(c) \cup {blocks[i] : i \in 1 .. Len(blocks)}
           Fine(k) == Good(f[k].chain) /\ Blocks(f[k].chain) \subseteq All
<1>1. r = f[Len(blocks)]
  BY DEF AddBlocks, After
<1>2. After(c, blocks, f)
  BY AfterExists
<1> HIDE DEF f
<1>3. /\ f[0] = [ok |-> TRUE, chain |-> c]
      /\ \A k \in 1 .. Len(blocks) :
            f[k] = IF f[k - 1].ok THEN AddBlock(f[k - 1].chain, blocks[k]) ELSE f[k - 1]
  BY <1>2 DEF After
<1> DEFINE T == {k \in 0 .. Len(blocks) : ~Fine(k)}
<1>4. SUFFICES ASSUME T # {} PROVE FALSE
  BY <1>1
<1>5. PICK k \in T : \A j \in T : k <= j
  <2>1. T \in SUBSET Nat
    OBVIOUS
  <2> HIDE DEF T
  <2>. QED BY <1>4, <2>1, Least
<1>6. k # 0
  BY <1>3
<1>7. k \in 1 .. Len(blocks) /\ Fine(k - 1)
  <2> HIDE DEF Fine
  <2>. QED BY <1>5, <1>6
<1>8. Fine(k)
  <2>1. CASE f[k - 1].ok
    <3>1. f[k] = AddBlock(f[k - 1].chain, blocks[k])
      BY <1>3, <1>7, <2>1
    <3>2. /\ Good(f[k].chain)
          /\ \/ Blocks(f[k].chain) = Blocks(f[k - 1].chain) \cup {blocks[k]}
             \/ f[k].chain.ledger = f[k - 1].chain.ledger
      BY <1>7, <3>1, AddBlockBlocks
    <3>. QED BY <1>7, <3>2 DEF Blocks
  <2>2. CASE ~f[k - 1].ok
    BY <1>3, <1>7, <2>2
  <2>. QED BY <2>1, <2>2
<1>. QED BY <1>5, <1>8

----------------------------------------------------------------------------
(* Folds: what FoldLeft computes, position by position.                    *)

\* The values a fold runs through while Only picks from s what is in S.
Picks(f, s, S) ==
    /\ f[0] = <<>>
    /\ \A k \in 1 .. Len(s) : f[k] = IF s[k] \in S THEN Append(f[k - 1], s[k]) ELSE f[k - 1]

\* What Only computes, element by element.
LEMMA OnlyFold ==
    ASSUME NEW T, NEW s \in Seq(T), NEW S
    PROVE  \E f : Picks(f, s, S) /\ Only(s, S) = f[Len(s)]
<1> DEFINE n == Len(s)
           Pick(r, t) == IF t \in S THEN Append(r, t) ELSE r
           F == [p \in Seq(T) \X (1 .. n) |-> Pick(p[1], s[p[2]])]
           Fold(h) == h = [w \in SUBSET (1 .. n) |->
                             IF w = {} THEN <<>>
                             ELSE LET x == Max(w) IN Pick(h[w \ {x}], s[x])]
           h == CHOOSE h : Fold(h)
<1>1. n \in Nat /\ DOMAIN s = 1 .. n /\ \A k \in 1 .. n : s[k] \in T
  BY LenProperties, ElementOfSeq
<1>2. \E g : Fold(g)
  <2>1. F \in [Seq(T) \X (1 .. n) -> Seq(T)]
    BY <1>1, AppendProperties
  <2>2. <<>> \in Seq(T)
    BY EmptySeq
  <2> HIDE DEF F, n
  <2>3. PICK g : IsFold(g, n, F, <<>>) /\ \A w \in SUBSET (1 .. n) : g[w] \in Seq(T)
    BY <1>1, <2>1, <2>2, FoldExists
  <2>4. ASSUME NEW w \in SUBSET (1 .. n), w # {}
        PROVE  F[<<g[w \ {Max(w)}], Max(w)>>] = Pick(g[w \ {Max(w)}], s[Max(w)])
    <3>1. Max(w) \in w /\ w \ {Max(w)} \in SUBSET (1 .. n)
      BY <1>1, <2>4, MaxIn
    <3>. QED BY <2>3, <3>1 DEF F
  <2> HIDE DEF Pick
  <2>. QED BY <2>3, <2>4 DEF IsFold
<1>3. Fold(h)
  <2> HIDE DEF Fold
  <2>. QED BY <1>2
<1>4. Only(s, S) = h[1 .. n]
  BY <1>1 DEF Only, FoldLeft, MapThenFoldSet
<1> HIDE DEF h
<1> DEFINE f == [k \in 0 .. n |-> h[1 .. k]]
<1>5. h[{}] = <<>> /\ 1 .. 0 = {}
  BY <1>3
<1>6. ASSUME NEW k \in 1 .. n PROVE h[1 .. k] = Pick(h[1 .. (k - 1)], s[k])
  <2>1. 1 .. k \in SUBSET (1 .. n) /\ 1 .. k # {} /\ k \in Nat \ {0}
    BY <1>1
  <2>2. Max(1 .. k) = k /\ (1 .. k) \ {Max(1 .. k)} = 1 .. (k - 1)
    BY <2>1, MaxUpto
  <2> HIDE DEF Pick
  <2>. QED BY <1>3, <2>1, <2>2
<1>7. Picks(f, s, S) /\ Only(s, S) = f[Len(s)]
  BY <1>1, <1>4, <1>5, <1>6 DEF Picks
<1>. QED BY <1>7

----------------------------------------------------------------------------
(* The steps.                                                              *)

\* What any step may leave: ledgers stay sequences, the beacon loses no block,
\* and whatever a ledger gains the beacon has.
Kept(old, new) ==
    /\ new = [n \in Nodes |-> new[n]]
    /\ \A n \in Nodes : Good(new[n])
    /\ Blocks(old[Beacon]) \subseteq Blocks(new[Beacon])
    /\ \A n \in Nodes : Blocks(new[n]) \subseteq Blocks(old[n]) \cup Blocks(new[Beacon])

\* What every step leaves keeps the invariant, with what the senders know.
LEMMA KeptInv ==
    ASSUME Inv, Kept(chain, chain'), SendingGood',
           \A m \in Miners : /\ sending'[m].ok
                             /\ ~(sending[m].ok /\ sending'[m].block = sending[m].block)
                             => sending'[m].block \in Blocks(chain'[Beacon])
    PROVE  Inv'
<1>1. LedgersGood' /\ Beacon \in Nodes
  BY DEF Kept, LedgersGood, Good, Nodes
<1>2. SentKept'
  BY DEF Inv, SentKept, Kept, BeaconLedger, Blocks
<1>3. BeaconHasAllBlocks'
  BY <1>1 DEF Inv, BeaconHasAllBlocks, Kept, BeaconLedger, Blocks
<1>. QED BY <1>1, <1>2, <1>3 DEF Inv

\* A step that leaves the chains alone.
LEMMA KeptSame ==
    ASSUME Inv PROVE Kept(chain, chain)
BY DEF Inv, Kept, LedgersGood, Good

\* A step by which one chain gains what the beacon has.
LEMMA KeptOne ==
    ASSUME Inv, NEW n \in Nodes, NEW c, Good(c),
           Blocks(c) \subseteq Blocks(chain[n]) \cup Blocks(chain[Beacon]),
           Blocks(chain[n]) \subseteq Blocks(c)
    PROVE  Kept(chain, [chain EXCEPT ![n] = c])
<1>1. Beacon \in Nodes
  BY DEF Nodes
<1>. QED BY <1>1 DEF Inv, Kept, LedgersGood, Good

\* The blocks a node fetches are the beacon's.
LEMMA FetchedBlocks ==
    ASSUME Inv, NEW n \in Nodes \ {Beacon}, Source(n) \in Nodes,
           NEW blocks \in Fetches(n, Len(chain[n].ledger))
    PROVE  /\ Len(blocks) \in Nat
           /\ {blocks[i] : i \in 1 .. Len(blocks)} \subseteq Blocks(chain[Beacon])
<1> DEFINE L == chain[Source(n)].ledger
           have == Len(chain[n].ledger)
<1>1. /\ L \in Seq(ToSet(L)) /\ ToSet(L) \subseteq Blocks(chain[Beacon])
      /\ have \in Nat
  BY LenProperties DEF Inv, LedgersGood, Good, Blocks, BeaconHasAllBlocks, BeaconLedger
<1>2. PICK k \in have .. Len(L) : blocks = SubSeq(L, have + 1, k)
  BY DEF Fetches
<1> HIDE DEF L, have
<1>3. Len(L) \in Nat /\ \A i \in have + 1 .. k : L[i] \in ToSet(L)
  BY <1>1, LenProperties DEF ToSet
<1>4. blocks \in Seq(ToSet(L))
  BY <1>1, <1>2, <1>3, SubSeqProperties
<1>. QED BY <1>1, <1>4, LenProperties

\* The source of a node is the beacon or the relay.
LEMMA SourceNodes == \A n \in Nodes : Source(n) \in Nodes
<1>1. Upstreams[1] \in {Beacon, Relay}
  BY FlowAssumption, EmptySeq, ElementOfSeq
<1>. QED BY <1>1 DEF Source, Nodes

----------------------------------------------------------------------------
(* The actions that touch chains.                                          *)

\* HBlockAdd (BeaconServer and RelayServer::hBlockAdd) leaves no block at the
\* relay that it has not left at the beacon, and a success leaves it there.
LEMMA HBlockAddKept ==
    ASSUME Inv, NEW n, NEW b, NEW o, o = HBlockAdd(n, b)
    PROVE  /\ Kept(chain, o.chain)
           /\ o.ok => b \in Blocks(o.chain[Beacon])
<1> DEFINE beacon == AddBlock(chain[Beacon], b)
           relay  == AddBlock(chain[Relay], b)
<1>1. Beacon \in Nodes /\ Relay \in Nodes
  BY DEF Nodes
<1>2. Good(chain[Beacon]) /\ Good(chain[Relay])
  BY <1>1 DEF Inv, LedgersGood, Good
<1>3. /\ Good(beacon.chain)
      /\ beacon.ok  => Blocks(beacon.chain) = Blocks(chain[Beacon]) \cup {b}
      /\ ~beacon.ok => beacon.chain.ledger = chain[Beacon].ledger
  BY <1>2, AddBlockBlocks
<1>4. /\ Good(relay.chain)
      /\ Blocks(relay.chain) \subseteq Blocks(chain[Relay]) \cup {b}
      /\ Blocks(chain[Relay]) \subseteq Blocks(relay.chain)
  <2>1. /\ Good(relay.chain)
        /\ \/ Blocks(relay.chain) = Blocks(chain[Relay]) \cup {b}
           \/ relay.chain.ledger = chain[Relay].ledger
    BY <1>2, AddBlockBlocks
  <2>. QED BY <2>1 DEF Blocks
<1>5. /\ o.ok = beacon.ok
      /\ \/ o.chain = [chain EXCEPT ![Beacon] = beacon.chain]
         \/ beacon.ok /\ o.chain = [chain EXCEPT ![Beacon] = beacon.chain,
                                                 ![Relay] = relay.chain]
  BY DEF HBlockAdd
<1> HIDE DEF beacon, relay
<1>6. /\ Blocks(chain[Beacon]) \subseteq Blocks(beacon.chain)
      /\ beacon.ok => b \in Blocks(beacon.chain)
  BY <1>3 DEF Blocks
<1>7. chain = [k \in Nodes |-> chain[k]] /\ \A k \in Nodes : Good(chain[k])
  BY DEF Inv, LedgersGood, Good
<1>8. CASE o.chain = [chain EXCEPT ![Beacon] = beacon.chain]
  BY <1>1, <1>3, <1>5, <1>6, <1>7, <1>8 DEF Kept
<1>9. CASE beacon.ok /\ o.chain = [chain EXCEPT ![Beacon] = beacon.chain,
                                                ![Relay] = relay.chain]
  <2>1. CASE Beacon = Relay
    <3>1. beacon = relay
      BY <2>1 DEF beacon, relay
    <3>2. o.chain = [chain EXCEPT ![Beacon] = beacon.chain]
      BY <1>1, <1>7, <1>9, <2>1, <3>1
    <3>. QED BY <1>8, <3>2
  <2>2. CASE Beacon # Relay
    <3>1. /\ o.chain = [k \in Nodes |-> o.chain[k]]
          /\ o.chain[Beacon] = beacon.chain /\ o.chain[Relay] = relay.chain
          /\ \A k \in Nodes \ {Beacon, Relay} : o.chain[k] = chain[k]
      BY <1>1, <1>7, <1>9, <2>2
    <3>. QED BY <1>1, <1>3, <1>4, <1>5, <1>6, <1>7, <1>9, <3>1 DEF Kept
  <2>. QED BY <2>1, <2>2
<1>. QED BY <1>5, <1>8, <1>9

\* What broadcastBlock notes of a call.
LEMMA CallUpstreamIs ==
    ASSUME SendingGood, NEW m \in Miners, CallUpstream(m)
    PROVE  \E o \in Outcomes(Head(sending[m].left), sending[m].block) :
              /\ chain' = o.chain
              /\ sending' = [k \in Miners |->
                     IF k = m THEN [block |-> sending[m].block,
                                    left  |-> Tail(sending[m].left),
                                    ok    |-> sending[m].ok \/ o.ok]
                     ELSE sending[k]]
<1> DEFINE s == sending[m]
<1>1. PICK o \in Outcomes(Head(s.left), s.block) :
         /\ chain' = o.chain
         /\ sending' = [sending EXCEPT ![m] =
                [s EXCEPT !.left = Tail(@), !.ok = @ \/ o.ok]]
  BY DEF CallUpstream
<1> DEFINE any == s.ok \/ o.ok
           t   == [s EXCEPT !.left = Tail(@), !.ok = any]
<1>2. t = [block |-> s.block, left |-> Tail(s.left), ok |-> any]
  <2>1. s = [block |-> s.block, left |-> s.left, ok |-> s.ok]
    BY DEF SendingGood
  <2> HIDE DEF s, any
  <2> DEFINE rest == Tail(s.left)
             u    == [s EXCEPT !.left = rest]
  <2>2. t = [u EXCEPT !.ok = any]
    OBVIOUS
  <2> HIDE DEF t, rest
  <2>3. PICK b, l, k : s = [block |-> b, left |-> l, ok |-> k]
    BY <2>1
  <2>4. u = [block |-> b, left |-> rest, ok |-> k]
    BY <2>3
  <2> HIDE DEF u
  <2>5. t = [block |-> b, left |-> rest, ok |-> any]
    BY <2>2, <2>4
  <2>. QED BY <2>3, <2>5 DEF rest
<1>3. sending' = [k \in Miners |-> IF k = m THEN t ELSE sending[k]]
  <2>1. sending = [k \in Miners |-> sending[k]]
    BY DEF SendingGood
  <2>2. sending' = [sending EXCEPT ![m] = t]
    BY <1>1
  <2> HIDE DEF t
  <2>. QED BY <2>1, <2>2
<1> HIDE DEF t
<1>. QED BY <1>1, <1>2, <1>3

\* A call of broadcastBlock, whatever becomes of it.
LEMMA CallUpstreamInv ==
    ASSUME Inv, NEW m \in Miners, CallUpstream(m)
    PROVE  Inv'
<1> DEFINE s == sending[m]
<1>1. PICK o \in Outcomes(Head(s.left), s.block) :
         /\ chain' = o.chain
         /\ sending' = [k \in Miners |->
                IF k = m THEN [block |-> s.block, left |-> Tail(s.left), ok |-> s.ok \/ o.ok]
                ELSE sending[k]]
  BY CallUpstreamIs DEF Inv
<1>2. Kept(chain, o.chain) /\ (o.ok => s.block \in Blocks(o.chain[Beacon]))
  <2>1. CASE o = HBlockAdd(Head(s.left), s.block)
    BY <2>1, HBlockAddKept
  <2>2. CASE o = [ok |-> FALSE, chain |-> chain]
    BY <2>2, KeptSame
  <2>3. ASSUME NEW k, o = [HBlockAdd(k, s.block) EXCEPT !.ok = FALSE]
        PROVE  Kept(chain, o.chain) /\ ~o.ok
    <3>1. Kept(chain, HBlockAdd(k, s.block).chain)
      BY HBlockAddKept
    <3>2. HBlockAdd(k, s.block) = [ok |-> HBlockAdd(k, s.block).ok,
                                   chain |-> HBlockAdd(k, s.block).chain]
      BY DEF HBlockAdd
    <3>. QED BY <2>3, <3>1, <3>2
  <2>. QED BY <2>1, <2>2, <2>3 DEF Outcomes
<1> DEFINE any == s.ok \/ o.ok
<1>3. SendingGood'
  <2> HIDE DEF any
  <2>1. sending' = [k \in Miners |->
            IF k = m THEN [block |-> s.block, left |-> Tail(s.left), ok |-> any]
            ELSE sending[k]]
    BY <1>1 DEF any
  <2>. QED BY <2>1 DEF Inv, SendingGood
<1>4. ASSUME NEW k \in Miners, sending'[k].ok,
             ~(sending[k].ok /\ sending'[k].block = sending[k].block)
      PROVE  sending'[k].block \in Blocks(chain'[Beacon])
  <2> HIDE DEF any
  <2>1. sending' = [i \in Miners |->
            IF i = m THEN [block |-> s.block, left |-> Tail(s.left), ok |-> any]
            ELSE sending[i]]
    BY <1>1 DEF any
  <2>2. k = m
    BY <1>4, <2>1
  <2>3. any /\ sending'[k].block = s.block
    BY <1>4, <2>1, <2>2
  <2>4. o.ok
    BY <1>4, <2>2, <2>3 DEF any
  <2>. QED BY <1>1, <1>2, <2>3, <2>4
<1>. QED BY <1>1, <1>2, <1>3, <1>4, KeptInv

\* The leader adds a block it has a success for, which the beacon has.
LEMMA FinishBroadcastInv ==
    ASSUME Inv, NEW m \in Miners, FinishBroadcast(m)
    PROVE  Inv'
<1> DEFINE s == sending[m]
<1>1. sending' = [k \in Miners |-> IF k = m THEN Idle ELSE sending[k]]
  BY DEF FinishBroadcast, Inv, SendingGood
<1>2. SendingGood' /\ \A k \in Miners : sending'[k].ok => sending'[k] = sending[k]
  BY <1>1 DEF Inv, SendingGood, Idle
<1>3. Kept(chain, chain')
  <2>1. CASE s.ok
    <3> DEFINE own == AddBlock(chain[m], s.block)
    <3>1. chain' = [chain EXCEPT ![m] = own.chain]
      BY <2>1 DEF FinishBroadcast, AnySuccess, OwnChain
    <3>2. m \in Nodes /\ Good(chain[m]) /\ s.block \in Blocks(chain[Beacon])
      BY <2>1 DEF Inv, LedgersGood, Good, SentKept, BeaconLedger, Blocks, Nodes
    <3>3. /\ Good(own.chain)
          /\ \/ Blocks(own.chain) = Blocks(chain[m]) \cup {s.block}
             \/ own.chain.ledger = chain[m].ledger
      BY <3>2, AddBlockBlocks
    <3>4. /\ Blocks(own.chain) \subseteq Blocks(chain[m]) \cup Blocks(chain[Beacon])
          /\ Blocks(chain[m]) \subseteq Blocks(own.chain)
      BY <3>2, <3>3 DEF Blocks
    <3> HIDE DEF own, s
    <3>. QED BY <3>1, <3>2, <3>3, <3>4, KeptOne
  <2>2. CASE ~s.ok
    BY <2>2, KeptSame DEF FinishBroadcast, AnySuccess
  <2>. QED BY <2>1, <2>2
<1>. QED BY <1>2, <1>3, KeptInv

\* A sync.
LEMMA SyncBlocksInv ==
    ASSUME Inv, NEW n \in Nodes, SyncBlocks(n)
    PROVE  Inv'
<1>1. n # Beacon /\ UNCHANGED sending
  BY DEF SyncBlocks, minerVars
<1>2. PICK blocks \in Fetches(n, Len(chain[n].ledger)) :
         chain' = [chain EXCEPT ![n] = AddBlocks(chain[n], blocks).chain]
  BY DEF SyncBlocks
<1> DEFINE r == AddBlocks(chain[n], blocks)
<1>3. /\ Good(chain[n]) /\ Len(blocks) \in Nat
      /\ {blocks[i] : i \in 1 .. Len(blocks)} \subseteq Blocks(chain[Beacon])
  BY <1>1, SourceNodes, FetchedBlocks DEF Inv, LedgersGood, Good
<1>4. /\ Good(r.chain)
      /\ Blocks(r.chain) \subseteq Blocks(chain[n]) \cup Blocks(chain[Beacon])
  BY <1>3, AddBlocksBlocks
<1>5. Kept(chain, chain')
  <2> HIDE DEF r
  <2>1. chain' = [chain EXCEPT ![n] = r.chain] /\ Beacon \in Nodes
    BY <1>2 DEF r, Nodes
  <2>. QED BY <1>1, <1>4, <2>1 DEF Inv, Kept, LedgersGood, Good
<1>. QED BY <1>1, <1>5, KeptInv DEF Inv, SendingGood

\* A restart: the ledger is read back as it is.
LEMMA RestartInv ==
    ASSUME Inv, NEW n \in Nodes, Restart(n)
    PROVE  Inv'
<1> DEFINE load == LoadFromLedger(chain[n].ledger)
<1>1. load.chain.ledger = chain[n].ledger
  BY DEF LoadFromLedger
<1>2. Good(chain[n]) /\ Good(load.chain) /\ Blocks(load.chain) = Blocks(chain[n])
  BY <1>1 DEF Inv, LedgersGood, Good, Blocks
<1> HIDE DEF load
<1>3. PICK r : /\ chain' = [chain EXCEPT ![n] = r.chain]
               /\ \/ r.chain = load.chain
                  \/ /\ n # Beacon
                     /\ \E blocks \in Fetches(n, Len(chain[n].ledger)) :
                           r.chain = AddBlocks(load.chain, blocks).chain
  <2> DEFINE synced == {AddBlocks(load.chain, blocks) :
                          blocks \in Fetches(n, Len(chain[n].ledger))}
             starts == IF n = Beacon \/ ~load.ok THEN {load}
                       ELSE IF Source(n) \notin up THEN {[load EXCEPT !.ok = FALSE]}
                       ELSE {[r EXCEPT !.ok = @ /\ CaughtUp(n, r.chain)] : r \in synced}
  <2>1. PICK r \in starts : chain' = [chain EXCEPT ![n] = r.chain]
    BY DEF Restart, load
  <2>2. CASE n = Beacon \/ ~load.ok
    BY <2>1, <2>2
  <2>3. CASE ~(n = Beacon \/ ~load.ok) /\ Source(n) \notin up
    <3>1. r = [load EXCEPT !.ok = FALSE]
      BY <2>1, <2>3
    <3>2. r.chain = load.chain
      BY <3>1, <1>1 DEF LoadFromLedger, load
    <3>. QED BY <2>1, <3>2
  <2>4. CASE ~(n = Beacon \/ ~load.ok) /\ Source(n) \in up
    <3>1. PICK blocks \in Fetches(n, Len(chain[n].ledger)) :
             LET q == AddBlocks(load.chain, blocks)
             IN  r = [q EXCEPT !.ok = @ /\ CaughtUp(n, q.chain)]
      BY <2>1, <2>4
    <3>2. r.chain = AddBlocks(load.chain, blocks).chain
      BY <3>1
    <3>. QED BY <2>1, <2>4, <3>2
  <2>. QED BY <2>2, <2>3, <2>4
<1>4. /\ Good(r.chain)
      /\ Blocks(r.chain) \subseteq Blocks(chain[n]) \cup Blocks(chain[Beacon])
      /\ n = Beacon => Blocks(r.chain) = Blocks(chain[n])
  <2>1. CASE r.chain = load.chain
    BY <1>2, <2>1
  <2>2. ASSUME n # Beacon, NEW blocks \in Fetches(n, Len(chain[n].ledger)),
               r.chain = AddBlocks(load.chain, blocks).chain
        PROVE  Good(r.chain)
               /\ Blocks(r.chain) \subseteq Blocks(chain[n]) \cup Blocks(chain[Beacon])
    <3>1. /\ Len(blocks) \in Nat
          /\ {blocks[i] : i \in 1 .. Len(blocks)} \subseteq Blocks(chain[Beacon])
      BY <2>2, SourceNodes, FetchedBlocks
    <3> DEFINE q == AddBlocks(load.chain, blocks)
    <3>2. /\ Good(q.chain)
          /\ Blocks(q.chain) \subseteq
                Blocks(load.chain) \cup {blocks[i] : i \in 1 .. Len(blocks)}
      BY <1>2, <3>1, AddBlocksBlocks
    <3> HIDE DEF q
    <3>3. r.chain = q.chain
      BY <2>2 DEF q
    <3>. QED BY <1>2, <3>1, <3>2, <3>3
  <2>. QED BY <1>3, <2>1, <2>2
<1>5. Kept(chain, chain')
  <2>1. Beacon \in Nodes
    BY DEF Nodes
  <2>. QED BY <1>3, <1>4, <2>1 DEF Inv, Kept, LedgersGood, Good
<1>6. SendingGood' /\ \A k \in Miners : sending'[k].ok => sending'[k] = sending[k]
  <2>1. \/ UNCHANGED sending
        \/ n \in Miners /\ sending' = [sending EXCEPT ![n] = Idle]
    BY DEF Restart, minerVars
  <2>. QED BY <2>1 DEF Inv, SendingGood, Idle
<1>. QED BY <1>5, <1>6, KeptInv

\* A miner that starts to send a block has no answer yet.
LEMMA HandleSlotLeaderRoleInv ==
    ASSUME Inv, NEW m \in Miners, HandleSlotLeaderRole(m)
    PROVE  Inv'
<1>1. PICK b : \/ UNCHANGED sending
               \/ sending' = [sending EXCEPT ![m] =
                                [block |-> b, left |-> Upstreams, ok |-> FALSE]]
  BY DEF HandleSlotLeaderRole
<1>2. SendingGood' /\ \A k \in Miners : sending'[k].ok => sending'[k] = sending[k]
  BY <1>1 DEF Inv, SendingGood
<1>3. UNCHANGED chain
  BY DEF HandleSlotLeaderRole
<1>. QED BY <1>2, <1>3, KeptSame, KeptInv

----------------------------------------------------------------------------

\* Every step of BlockFlow keeps the invariant.
LEMMA StepInv == Inv /\ [Next]_vars => Inv'
<1> SUFFICES ASSUME Inv, [Next]_vars PROVE Inv'
  OBVIOUS
<1>1. CASE UNCHANGED <<chain, sending>>
  BY <1>1, KeptSame, KeptInv DEF Inv, SendingGood
<1>2. ASSUME NEW m \in Miners, NEW t \in Txs, HTxAdd(m, t) PROVE Inv'
  BY <1>1, <1>2 DEF HTxAdd
<1>3. ASSUME NEW m \in Miners, RetryForwards(m) PROVE Inv'
  BY <1>1, <1>3 DEF RetryForwards
<1>4. CASE Tick \/ UNCHANGED vars
  BY <1>1, <1>4 DEF Tick, vars, minerVars
<1>. QED BY <1>2, <1>3, <1>4, HandleSlotLeaderRoleInv, CallUpstreamInv,
            FinishBroadcastInv, SyncBlocksInv, RestartInv DEF Next

\* The invariant holds when every node has the genesis block and no more.
LEMMA InitInv == Init => Inv
<1> SUFFICES ASSUME Init PROVE Inv
  OBVIOUS
<1>1. /\ chain = [n \in Nodes |-> GenesisChain]
      /\ GenesisChain.ledger = <<GenesisBlock>>
      /\ Beacon \in Nodes
  BY DEF Init, GenesisChain, Nodes
<1>2. <<GenesisBlock>> \in Seq(ToSet(<<GenesisBlock>>)) /\ <<GenesisBlock>> # <<>>
  BY DEF ToSet
<1>3. LedgersGood /\ BeaconHasAllBlocks
  BY <1>1, <1>2 DEF LedgersGood, Good, BeaconHasAllBlocks, BeaconLedger, Blocks
<1>4. SendingGood /\ SentKept
  BY DEF Init, SendingGood, SentKept, Idle
<1>. QED BY <1>3, <1>4 DEF Inv

\* Whatever is lost, late, answered twice or restarted, no node of any network of
\* miners has a block that the beacon does not have: a miner adds its own block
\* once a recipient took it (Miner, MinerServer::broadcastBlock), a relay once the
\* beacon did (RelayServer::hBlockAdd), and every sync ends at the beacon.
THEOREM NoBlockBeside == Spec => []BeaconHasAllBlocks
<1>1. Spec => []Inv
  BY InitInv, StepInv, PTL DEF Spec
<1>2. Inv => BeaconHasAllBlocks
  BY DEF Inv
<1>. QED BY <1>1, <1>2, PTL

----------------------------------------------------------------------------
(* What the variables hold, whatever happens.                              *)

IsBlock(b, now) ==
    /\ b = [index |-> b.index, slot |-> b.slot, slotLeader |-> b.slotLeader,
            previousHash |-> b.previousHash, records |-> b.records]
    /\ b.index \in Nat
    /\ b.slot \in 0 .. now
    /\ b.records \in Seq(Txs)

QueuesTyped == pool \in [Miners -> Seq(Txs)] /\ cache \in [Miners -> Seq(Txs)]

ClocksTyped ==
    /\ slot \in 1 .. MaxSlot
    /\ prepared \in [Miners -> 0 .. slot]
    /\ produced \in [Miners -> 0 .. slot]

BlocksTyped ==
    /\ \A b \in ToSet(BeaconLedger) : IsBlock(b, slot)
    /\ \A m \in Miners : /\ IsBlock(sending[m].block, slot)
                         /\ sending[m].ok \in BOOLEAN
                         /\ sending[m].left \in Seq({Beacon, Relay})

Typed == QueuesTyped /\ ClocksTyped /\ BlocksTyped

FlowInv == Inv /\ Typed

\* What is picked from a queue was in it, and what was in it and is wanted is
\* picked.
LEMMA OnlyIs ==
    ASSUME NEW T, NEW s \in Seq(T), NEW S
    PROVE  Only(s, S) \in Seq(T) /\ ToSet(Only(s, S)) = ToSet(s) \cap S
<1>1. PICK f : Picks(f, s, S) /\ Only(s, S) = f[Len(s)]
  BY OnlyFold
<1>2. Len(s) \in Nat /\ DOMAIN s = 1 .. Len(s) /\ \A k \in 1 .. Len(s) : s[k] \in T
  BY LenProperties, ElementOfSeq
<1> DEFINE Upto(k) == {s[i] : i \in 1 .. k}
           P == {k \in 0 .. Len(s) : f[k] \in Seq(T) /\ ToSet(f[k]) = Upto(k) \cap S}
<1>3. 0 \in P
  <2>1. f[0] = <<>> /\ ToSet(<<>>) = {} /\ <<>> \in Seq(T)
    BY <1>1 DEF Picks, ToSet
  <2>2. Upto(0) = {} /\ 0 \in 0 .. Len(s)
    BY <1>2
  <2> HIDE DEF Upto
  <2>. QED BY <2>1, <2>2
<1>4. ASSUME NEW k \in 1 .. Len(s), k - 1 \in P PROVE k \in P
  <2>1. f[k - 1] \in Seq(T) /\ ToSet(f[k - 1]) = Upto(k - 1) \cap S /\ s[k] \in T
    BY <1>2, <1>4
  <2>2. Upto(k) = Upto(k - 1) \cup {s[k]}
    <3>1. 1 .. k = (1 .. (k - 1)) \cup {k}
      BY <1>2
    <3>. QED BY <3>1
  <2> HIDE DEF Upto
  <2>3. CASE s[k] \in S
    <3>1. f[k] = Append(f[k - 1], s[k])
      BY <1>1, <2>3 DEF Picks
    <3>2. f[k] \in Seq(T) /\ ToSet(f[k]) = ToSet(f[k - 1]) \cup {s[k]}
      BY <2>1, <3>1, AppendIn
    <3>. QED BY <2>1, <2>2, <2>3, <3>2
  <2>4. CASE s[k] \notin S
    BY <1>1, <2>1, <2>2, <2>4 DEF Picks
  <2>. QED BY <2>3, <2>4
<1>5. Len(s) \in P
  <2> HIDE DEF P
  <2>1. 0 .. Len(s) \subseteq P
    BY <1>2, <1>3, <1>4, Upwards
  <2>. QED BY <1>2, <2>1
<1>6. Upto(Len(s)) = ToSet(s)
  BY <1>2 DEF ToSet
<1>. QED BY <1>1, <1>5, <1>6

\* What HBlockAdd leaves at the beacon.
LEMMA HBlockAddBeacon ==
    ASSUME Inv, NEW n, NEW b
    PROVE  LET a == AddBlock(chain[Beacon], b)
           IN  HBlockAdd(n, b).ok = a.ok /\ HBlockAdd(n, b).chain[Beacon] = a.chain
<1>1. Beacon \in Nodes /\ Beacon # Relay /\ chain = [k \in Nodes |-> chain[k]]
  BY FlowAssumption DEF Nodes, Inv, LedgersGood
<1>. QED BY <1>1 DEF HBlockAdd

\* A call leaves the beacon's ledger as it is, or the beacon has taken the block.
LEMMA CallBeacon ==
    ASSUME Inv, NEW m \in Miners, CallUpstream(m)
    PROVE  \/ BeaconLedger' = BeaconLedger
           \/ /\ AddBlock(chain[Beacon], sending[m].block).ok
              /\ BeaconLedger' = Append(BeaconLedger, sending[m].block)
<1> DEFINE b == sending[m].block
           a == AddBlock(chain[Beacon], b)
<1>1. PICK o \in Outcomes(Head(sending[m].left), b) : chain' = o.chain
  BY CallUpstreamIs DEF Inv
<1>2. o.chain = chain \/ o.chain[Beacon] = a.chain
  <2>1. CASE o = HBlockAdd(Head(sending[m].left), b)
    BY <2>1, HBlockAddBeacon
  <2>2. CASE o = [ok |-> FALSE, chain |-> chain]
    BY <2>2
  <2>3. ASSUME NEW k, o = [HBlockAdd(k, b) EXCEPT !.ok = FALSE]
        PROVE  o.chain[Beacon] = a.chain
    <3>1. o.chain = HBlockAdd(k, b).chain
      BY <2>3 DEF HBlockAdd
    <3>. QED BY <3>1, HBlockAddBeacon
  <2>. QED BY <2>1, <2>2, <2>3 DEF Outcomes
<1>3. a.chain.ledger = IF a.ok THEN Append(BeaconLedger, b) ELSE BeaconLedger
  BY AddBlockLedger DEF BeaconLedger
<1>. QED BY <1>1, <1>2, <1>3 DEF BeaconLedger

\* The beacon's ledger changes only when a call brings it a block that it takes.
LEMMA BeaconSteps ==
    ASSUME Inv, [Next]_vars
    PROVE  \/ BeaconLedger' = BeaconLedger
           \/ \E m \in Miners :
                 /\ CallUpstream(m)
                 /\ AddBlock(chain[Beacon], sending[m].block).ok
                 /\ BeaconLedger' = Append(BeaconLedger, sending[m].block)
<1>1. /\ Beacon \in Nodes /\ Beacon \notin Miners
      /\ chain = [k \in Nodes |-> chain[k]]
  BY FlowAssumption DEF Nodes, Inv, LedgersGood
<1>2. CASE UNCHANGED chain
  BY <1>2 DEF BeaconLedger
<1>3. CASE Tick \/ UNCHANGED vars
  BY <1>2, <1>3 DEF Tick, vars
<1>4. ASSUME NEW m \in Miners,
             (\E t \in Txs : HTxAdd(m, t)) \/ RetryForwards(m) \/ HandleSlotLeaderRole(m)
      PROVE  UNCHANGED chain
  BY <1>4 DEF HTxAdd, RetryForwards, HandleSlotLeaderRole
<1>5. ASSUME NEW m \in Miners, FinishBroadcast(m) PROVE BeaconLedger' = BeaconLedger
  <2>1. UNCHANGED chain \/ \E c : chain' = [chain EXCEPT ![m] = c]
    BY <1>5 DEF FinishBroadcast
  <2>. QED BY <1>1, <2>1 DEF BeaconLedger
<1>6. ASSUME NEW n \in Nodes, SyncBlocks(n) PROVE BeaconLedger' = BeaconLedger
  <2>1. n # Beacon /\ \E c : chain' = [chain EXCEPT ![n] = c]
    BY <1>6 DEF SyncBlocks
  <2>. QED BY <1>1, <2>1 DEF BeaconLedger
<1>7. ASSUME NEW n \in Nodes, Restart(n) PROVE BeaconLedger' = BeaconLedger
  <2>1. CASE n # Beacon
    <3>1. \E c : chain' = [chain EXCEPT ![n] = c]
      BY <1>7 DEF Restart
    <3>. QED BY <1>1, <2>1, <3>1 DEF BeaconLedger
  <2>2. CASE n = Beacon
    <3>1. chain' = [chain EXCEPT ![n] = LoadFromLedger(chain[n].ledger).chain]
      BY <1>7, <2>2 DEF Restart
    <3>2. LoadFromLedger(chain[n].ledger).chain.ledger = chain[n].ledger
      BY DEF LoadFromLedger
    <3>. QED BY <1>1, <2>2, <3>1, <3>2 DEF BeaconLedger
  <2>. QED BY <2>1, <2>2
<1>. QED BY <1>2, <1>3, <1>4, <1>5, <1>6, <1>7, CallBeacon DEF Next

\* What the leader has taken in when it handles its slot, and what it leaves in
\* its cache.
FreshAt(m) == {t \in Txs : Fresh(m, t)}
Handled(m) == pool[m] \o Only(cache[m], FreshAt(m))
Left(m)    == Only(cache[m], Txs \ FreshAt(m))

\* What RetryForwards leaves in the pool and in the cache.
LEMMA HandledIs ==
    ASSUME QueuesTyped, NEW m \in Miners
    PROVE  /\ Handled(m) \in Seq(Txs) /\ Left(m) \in Seq(Txs)
           /\ ToSet(Handled(m)) = ToSet(pool[m]) \cup (ToSet(cache[m]) \cap FreshAt(m))
           /\ ToSet(Left(m)) = ToSet(cache[m]) \ FreshAt(m)
<1>1. pool[m] \in Seq(Txs) /\ cache[m] \in Seq(Txs)
  BY DEF QueuesTyped
<1>2. /\ Only(cache[m], FreshAt(m)) \in Seq(Txs) /\ Left(m) \in Seq(Txs)
      /\ ToSet(Only(cache[m], FreshAt(m))) = ToSet(cache[m]) \cap FreshAt(m)
      /\ ToSet(Left(m)) = ToSet(cache[m]) \cap (Txs \ FreshAt(m))
  BY <1>1, OnlyIs DEF Left
<1>3. ToSet(cache[m]) \subseteq Txs
  BY <1>1, ElementOfSeq, LenProperties DEF ToSet
<1>4. Handled(m) \in Seq(Txs)
      /\ ToSet(Handled(m)) = ToSet(pool[m]) \cup ToSet(Only(cache[m], FreshAt(m)))
  BY <1>1, <1>2, ConcatIn DEF Handled
<1>. QED BY <1>2, <1>3, <1>4

\* A pool is cut into what goes into the block and what does not fit.
LEMMA PartsOf ==
    ASSUME NEW p \in Seq(Txs)
    PROVE  /\ BlockTransactions(p) \in Seq(Txs) /\ Overflow(p) \in Seq(Txs)
           /\ Len(BlockTransactions(p)) <= MaxTransactionsPerBlock
           /\ p # <<>> => BlockTransactions(p) # <<>>
           /\ ToSet(p) = ToSet(BlockTransactions(p)) \cup ToSet(Overflow(p))
<1>1. /\ MaxTransactionsPerBlock \in Nat \ {0} /\ Len(p) \in Nat
      /\ DOMAIN p = 1 .. Len(p) /\ \A i \in 1 .. Len(p) : p[i] \in Txs
  BY ChainAssumption, LenProperties, ElementOfSeq
<1>2. PICK most \in Nat \ {0} : most = MaxTransactionsPerBlock
  BY <1>1
<1>3. PICK k \in 0 .. Len(p) :
         /\ BlockTransactions(p) = SubSeq(p, 1, k)
         /\ \/ Len(p) <= most /\ k = Len(p)
            \/ Len(p) >= most /\ k = most
  <2>1. CASE Len(p) < most
    <3>1. BlockTransactions(p) = SubSeq(p, 1, Len(p))
      BY <1>2, <2>1 DEF BlockTransactions
    <3>2. Len(p) <= most /\ Len(p) \in 0 .. Len(p)
      BY <1>1, <2>1
    <3> WITNESS Len(p) \in 0 .. Len(p)
    <3>. QED BY <3>1, <3>2, Zenon
  <2>2. CASE ~(Len(p) < most)
    <3>1. BlockTransactions(p) = SubSeq(p, 1, most)
      BY <1>2, <2>2 DEF BlockTransactions
    <3>2. most \in 0 .. Len(p) /\ Len(p) >= most
      BY <1>1, <2>2
    <3> WITNESS most \in 0 .. Len(p)
    <3>. QED BY <3>1, <3>2, Zenon
  <2>. QED BY <2>1, <2>2
<1>4. Overflow(p) = SubSeq(p, most + 1, Len(p))
  BY <1>2 DEF Overflow
<1>5. /\ SubSeq(p, 1, k) \in Seq(Txs) /\ Len(SubSeq(p, 1, k)) = k
      /\ \A i \in 1 .. k : SubSeq(p, 1, k)[i] = p[i]
  BY <1>1, SubSeqProperties
<1>6. CASE Len(p) <= most
  <2>1. Overflow(p) = <<>>
    BY <1>1, <1>4, <1>6, SubSeqEmpty
  <2>2. k = Len(p)
    BY <1>3, <1>6
  <2>3. BlockTransactions(p) = p
    BY <1>1, <1>3, <2>2, SubSeqFull
  <2>4. ToSet(<<>>) = {} /\ <<>> \in Seq(Txs)
    BY DEF ToSet
  <2>. QED BY <1>1, <1>2, <1>6, <2>1, <2>3, <2>4
<1>7. CASE Len(p) > most
  <2>1. k = most
    BY <1>3, <1>7
  <2>2. /\ SubSeq(p, most + 1, Len(p)) \in Seq(Txs)
        /\ Len(SubSeq(p, most + 1, Len(p))) = Len(p) - most
        /\ \A i \in 1 .. Len(p) - most : SubSeq(p, most + 1, Len(p))[i] = p[most + i]
    <3>1. \A i \in most + 1 .. Len(p) : p[i] \in Txs
      BY <1>1
    <3>. QED BY <1>1, <1>7, <3>1, SubSeqProperties
  <2> DEFINE a == BlockTransactions(p)
             b == Overflow(p)
  <2>3. /\ DOMAIN a = 1 .. most /\ \A i \in 1 .. most : a[i] = p[i]
        /\ DOMAIN b = 1 .. Len(p) - most /\ \A i \in 1 .. Len(p) - most : b[i] = p[most + i]
    BY <1>3, <1>4, <1>5, <2>1, <2>2, LenProperties
  <2> HIDE DEF a, b
  <2>4. ToSet(p) \subseteq ToSet(a) \cup ToSet(b)
    <3>1. ASSUME NEW i \in 1 .. Len(p) PROVE p[i] \in ToSet(a) \cup ToSet(b)
      <4>1. CASE i <= most
        <5>1. i \in DOMAIN a /\ a[i] = p[i]
          BY <2>3, <4>1
        <5>. QED BY <5>1 DEF ToSet
      <4>2. CASE i > most
        <5>1. i - most \in 1 .. Len(p) - most /\ most + (i - most) = i
          BY <1>1, <4>2
        <5>2. i - most \in DOMAIN b /\ b[i - most] = p[i]
          BY <2>3, <5>1
        <5>. QED BY <5>2 DEF ToSet
      <4>. QED BY <4>1, <4>2
    <3>. QED BY <1>1, <3>1 DEF ToSet
  <2>5. ToSet(a) \cup ToSet(b) \subseteq ToSet(p)
    <3>1. \A i \in 1 .. Len(p) - most : most + i \in 1 .. Len(p)
      BY <1>1
    <3>2. \A i \in 1 .. most : i \in 1 .. Len(p)
      BY <1>1, <1>7
    <3>. QED BY <1>1, <2>3, <3>1, <3>2 DEF ToSet
  <2>6. a # <<>> /\ a \in Seq(Txs) /\ b \in Seq(Txs) /\ Len(a) <= most
    BY <1>3, <1>4, <1>5, <2>1, <2>2 DEF a, b
  <2>. QED BY <1>2, <2>4, <2>5, <2>6 DEF a, b
<1>. QED BY <1>1, <1>6, <1>7

\* The leader of a slot is a miner.
LEMMA LeaderIs == ClocksTyped => Leader[slot] \in Miners
BY ChainAssumption DEF ClocksTyped

\* Queues hold transactions.
LEMMA QueuesStep == Typed /\ [Next]_vars => QueuesTyped'
<1> SUFFICES ASSUME Typed, [Next]_vars PROVE QueuesTyped'
  OBVIOUS
<1> USE DEF QueuesTyped
<1>1. QueuesTyped /\ Leader[slot] \in Miners
  BY LeaderIs DEF Typed
<1>2. CASE UNCHANGED <<pool, cache>>
  BY <1>1, <1>2
<1>3. ASSUME NEW m \in Miners, NEW t \in Txs, HTxAdd(m, t) PROVE QueuesTyped'
  <2>1. \A n \in Miners : Append(pool[n], t) \in Seq(Txs) /\ Append(cache[n], t) \in Seq(Txs)
    BY <1>1, AppendProperties
  <2>2. CASE Pooled(t)
    BY <1>1, <2>1, <2>2 DEF Pooled
  <2>3. CASE NotPooled(m, t)
    BY <1>1, <2>3 DEF NotPooled
  <2>4. CASE Cached(m, t)
    BY <1>1, <2>1, <2>4 DEF Cached
  <2>. QED BY <1>3, <2>2, <2>3, <2>4 DEF HTxAdd
<1>4. ASSUME NEW m \in Miners, RetryForwards(m) PROVE QueuesTyped'
  <2>1. CASE UNCHANGED <<pool, cache>>
    BY <1>2, <2>1
  <2>2. ASSUME NEW s \in Mishaps(m),
               LET gets == {t \in Txs \ s[1] : Fresh(Leader[slot], t)}
               IN  /\ pool' = [pool EXCEPT ![Leader[slot]] = @ \o Only(cache[m], gets)]
                   /\ cache' = [cache EXCEPT ![m] = Only(@, (Txs \ gets) \cup s[2])]
        PROVE  QueuesTyped'
    <3> DEFINE gets == {t \in Txs \ s[1] : Fresh(Leader[slot], t)}
    <3>1. \A S : Only(cache[m], S) \in Seq(Txs)
      BY <1>1, OnlyIs
    <3>2. /\ pool' = [pool EXCEPT ![Leader[slot]] = @ \o Only(cache[m], gets)]
          /\ cache' = [cache EXCEPT ![m] = Only(cache[m], (Txs \ gets) \cup s[2])]
      BY <1>1, <2>2
    <3> HIDE DEF gets
    <3>3. pool[Leader[slot]] \o Only(cache[m], gets) \in Seq(Txs)
      BY <1>1, <3>1, ConcatProperties
    <3>. QED BY <1>1, <3>1, <3>2, <3>3
  <2>. QED BY <1>4, <2>1, <2>2 DEF RetryForwards
<1>5. ASSUME NEW m \in Miners, HandleSlotLeaderRole(m) PROVE QueuesTyped'
  <2> DEFINE p    == Handled(m)
             rest == Left(m)
  <2>1. p \in Seq(Txs) /\ rest \in Seq(Txs)
    BY <1>1, HandledIs
  <2>2. /\ pool' = [pool EXCEPT ![m] = p] \/ pool' = [pool EXCEPT ![m] = <<>>]
        /\ cache' = [cache EXCEPT ![m] = rest]
           \/ cache' = [cache EXCEPT ![m] = rest \o Overflow(p)]
    <3>1. \E lastSecond \in BOOLEAN :
             IF lastSecond /\ NotYetProduced(m) /\ Prepares(m, p) /\ p # <<>>
             THEN /\ pool' = [pool EXCEPT ![m] = <<>>]
                  /\ cache' = [cache EXCEPT ![m] = rest \o Overflow(p)]
             ELSE /\ pool' = [pool EXCEPT ![m] = p]
                  /\ cache' = [cache EXCEPT ![m] = rest]
      BY <1>5 DEF HandleSlotLeaderRole, Handled, Left, FreshAt
    <3> HIDE DEF p, rest
    <3>. QED BY <3>1
  <2>3. rest \o Overflow(p) \in Seq(Txs)
    BY <2>1, PartsOf, ConcatProperties
  <2>4. <<>> \in Seq(Txs)
    BY EmptySeq
  <2> HIDE DEF p, rest
  <2>. QED BY <1>1, <2>1, <2>2, <2>3, <2>4
<1>6. ASSUME NEW n \in Nodes, Restart(n) PROVE QueuesTyped'
  <2>1. \/ UNCHANGED <<pool, cache>>
        \/ /\ n \in Miners
           /\ pool' = [pool EXCEPT ![n] = <<>>]
           /\ cache' = [cache EXCEPT ![n] = <<>>]
    BY <1>6 DEF Restart, minerVars
  <2>2. <<>> \in Seq(Txs)
    BY EmptySeq
  <2>. QED BY <1>1, <1>2, <2>1, <2>2
<1>7. ASSUME NEW m \in Miners, CallUpstream(m) \/ FinishBroadcast(m) PROVE QueuesTyped'
  BY <1>2, <1>7 DEF CallUpstream, FinishBroadcast
<1>8. CASE Tick \/ UNCHANGED vars \/ (\E n \in Nodes : SyncBlocks(n))
  BY <1>2, <1>8 DEF Tick, SyncBlocks, vars, minerVars
<1>. QED BY <1>3, <1>4, <1>5, <1>6, <1>7, <1>8 DEF Next

\* The block a leader makes of what it has taken in.
Made(m) == MakeBlock(m, BlockTransactions(Handled(m)))

\* m starts to send a block.
Starts(m) ==
    /\ NotYetProduced(m) /\ Prepares(m, Handled(m)) /\ Handled(m) # <<>>
    /\ pool' = [pool EXCEPT ![m] = <<>>]
    /\ cache' = [cache EXCEPT ![m] = Left(m) \o Overflow(Handled(m))]
    /\ sending' = [sending EXCEPT ![m] =
           [block |-> Made(m), left |-> Upstreams, ok |-> FALSE]]

\* A leader handles its slot and either starts to send a block or takes in its
\* cache.
LEMMA HandleIs ==
    ASSUME NEW m \in Miners, HandleSlotLeaderRole(m)
    PROVE  /\ Free(m) /\ Leader[slot] = m
           /\ UNCHANGED <<slot, up, chain, produced, retried, clientVars, restarts>>
           /\ \/ Starts(m)
              \/ /\ pool' = [pool EXCEPT ![m] = Handled(m)]
                 /\ cache' = [cache EXCEPT ![m] = Left(m)]
                 /\ UNCHANGED sending
<1> DEFINE p    == Handled(m)
           rest == Left(m)
           made == Made(m)
<1>1. \E lastSecond \in BOOLEAN :
         IF lastSecond /\ NotYetProduced(m) /\ Prepares(m, p) /\ p # <<>>
         THEN /\ pool' = [pool EXCEPT ![m] = <<>>]
              /\ cache' = [cache EXCEPT ![m] = rest \o Overflow(p)]
              /\ sending' = [sending EXCEPT ![m] =
                     [block |-> made, left |-> Upstreams, ok |-> FALSE]]
         ELSE /\ pool' = [pool EXCEPT ![m] = p]
              /\ cache' = [cache EXCEPT ![m] = rest]
              /\ UNCHANGED sending
  BY DEF HandleSlotLeaderRole, Handled, Left, FreshAt, Made
<1>2. \/ Starts(m)
      \/ /\ pool' = [pool EXCEPT ![m] = p]
         /\ cache' = [cache EXCEPT ![m] = rest]
         /\ UNCHANGED sending
  <2> HIDE DEF p, rest, made
  <2>1. PICK lastSecond \in BOOLEAN :
         IF lastSecond /\ NotYetProduced(m) /\ Prepares(m, p) /\ p # <<>>
         THEN /\ pool' = [pool EXCEPT ![m] = <<>>]
              /\ cache' = [cache EXCEPT ![m] = rest \o Overflow(p)]
              /\ sending' = [sending EXCEPT ![m] =
                     [block |-> made, left |-> Upstreams, ok |-> FALSE]]
         ELSE /\ pool' = [pool EXCEPT ![m] = p]
              /\ cache' = [cache EXCEPT ![m] = rest]
              /\ UNCHANGED sending
    BY <1>1
  <2>2. CASE lastSecond /\ NotYetProduced(m) /\ Prepares(m, p) /\ p # <<>>
    BY <2>1, <2>2 DEF Starts, p, rest, made
  <2>3. CASE ~(lastSecond /\ NotYetProduced(m) /\ Prepares(m, p) /\ p # <<>>)
    BY <2>1, <2>3
  <2>. QED BY <2>2, <2>3
<1>. QED BY <1>2 DEF HandleSlotLeaderRole, IsSlotLeader, clientVars

\* The steps that change what a miner sends.
LEMMA SendingSteps ==
    ASSUME SendingGood, [Next]_vars, NEW m \in Miners
    PROVE  \/ sending'[m] = sending[m]
           \/ HandleSlotLeaderRole(m) /\ Starts(m)
           \/ CallUpstream(m)
           \/ FinishBroadcast(m)
           \/ Restart(m)
<1>1. sending = [k \in Miners |-> sending[k]]
  BY DEF SendingGood
<1>2. CASE UNCHANGED sending
  BY <1>2
<1>3. ASSUME NEW k \in Miners, HandleSlotLeaderRole(k)
      PROVE  sending'[m] = sending[m] \/ (HandleSlotLeaderRole(m) /\ Starts(m))
  <2>1. UNCHANGED sending \/ Starts(k)
    BY <1>3, HandleIs
  <2>2. CASE k # m
    BY <1>1, <2>1, <2>2 DEF Starts
  <2>3. CASE k = m
    <3>1. HandleSlotLeaderRole(m) /\ (UNCHANGED sending \/ Starts(m))
      BY <1>3, <2>1, <2>3, Zenon
    <3>. QED BY <3>1
  <2>. QED BY <2>2, <2>3
<1>4. ASSUME NEW k \in Miners, CallUpstream(k) PROVE sending'[m] = sending[m] \/ CallUpstream(m)
  BY <1>4, CallUpstreamIs
<1>5. ASSUME NEW k \in Miners, FinishBroadcast(k)
      PROVE  sending'[m] = sending[m] \/ FinishBroadcast(m)
  <2>1. sending' = [sending EXCEPT ![k] = Idle]
    BY <1>5 DEF FinishBroadcast
  <2>. QED BY <1>1, <1>5, <2>1
<1>6. ASSUME NEW n \in Nodes, Restart(n) PROVE sending'[m] = sending[m] \/ Restart(m)
  <2>1. UNCHANGED sending \/ sending' = [sending EXCEPT ![n] = Idle]
    BY <1>6 DEF Restart, minerVars
  <2>. QED BY <1>1, <1>6, <2>1
<1>7. CASE Tick \/ UNCHANGED vars \/ (\E n \in Nodes : SyncBlocks(n))
  BY <1>2, <1>7 DEF Tick, SyncBlocks, vars, minerVars
<1>8. ASSUME NEW k \in Miners, (\E t \in Txs : HTxAdd(k, t)) \/ RetryForwards(k)
      PROVE  UNCHANGED sending
  BY <1>8 DEF HTxAdd, RetryForwards
<1>. QED BY <1>2, <1>3, <1>4, <1>5, <1>6, <1>7, <1>8 DEF Next

\* All blocks of all nodes are blocks.
LEMMA LedgerBlocks ==
    ASSUME FlowInv, NEW n \in Nodes
    PROVE  /\ chain[n].ledger \in Seq(Blocks(chain[n])) /\ chain[n].ledger # <<>>
           /\ Len(chain[n].ledger) \in Nat \ {0}
           /\ DOMAIN chain[n].ledger = 1 .. Len(chain[n].ledger)
           /\ \A i \in 1 .. Len(chain[n].ledger) : IsBlock(chain[n].ledger[i], slot)
<1> DEFINE L == chain[n].ledger
<1>1. L \in Seq(ToSet(L)) /\ L # <<>> /\ ToSet(L) \subseteq ToSet(BeaconLedger)
  BY DEF FlowInv, Inv, LedgersGood, Good, Blocks, BeaconHasAllBlocks
<1>2. \A b \in ToSet(BeaconLedger) : IsBlock(b, slot)
  BY DEF FlowInv, Typed, BlocksTyped
<1> HIDE DEF L
<1>3. Len(L) \in Nat /\ DOMAIN L = 1 .. Len(L) /\ Len(L) # 0
  BY <1>1, LenProperties, EmptySeq
<1>4. \A i \in 1 .. Len(L) : L[i] \in ToSet(L)
  BY <1>3 DEF ToSet
<1>. QED BY <1>1, <1>2, <1>3, <1>4 DEF L, Blocks

\* The block a leader makes.
LEMMA MadeIs ==
    ASSUME FlowInv, NEW m \in Miners
    PROVE  /\ IsBlock(Made(m), slot)
           /\ Made(m).slot = slot /\ Made(m).slotLeader = m
           /\ Made(m).index = Last(chain[m].ledger).index + 1
           /\ Made(m).previousHash = Hash(Last(chain[m].ledger))
           /\ Made(m).records = BlockTransactions(Handled(m))
<1>1. BlockTransactions(Handled(m)) \in Seq(Txs)
  BY HandledIs, PartsOf DEF FlowInv, Typed
<1>2. IsBlock(Last(chain[m].ledger), slot)
  <2>1. m \in Nodes
    BY DEF Nodes
  <2>. QED BY <2>1, LedgerBlocks DEF Last
<1>3. slot \in Nat /\ slot \in 0 .. slot
  BY DEF FlowInv, Typed, ClocksTyped
<1>. QED BY <1>1, <1>2, <1>3 DEF Made, MakeBlock, IsBlock

\* The slots a miner has prepared and produced are past or present ones.
LEMMA ClocksStep == FlowInv /\ [Next]_vars => ClocksTyped'
<1> SUFFICES ASSUME FlowInv, [Next]_vars PROVE ClocksTyped'
  OBVIOUS
<1>1. /\ slot \in 1 .. MaxSlot /\ MaxSlot \in Nat
      /\ prepared \in [Miners -> 0 .. slot]
      /\ produced \in [Miners -> 0 .. slot]
  BY ChainAssumption DEF FlowInv, Typed, ClocksTyped
<1>2. CASE UNCHANGED <<slot, prepared, produced>>
  BY <1>1, <1>2 DEF ClocksTyped
<1>3. CASE Tick
  <2>1. slot' = slot + 1 /\ slot < MaxSlot /\ UNCHANGED <<prepared, produced>>
    BY <1>3 DEF Tick, minerVars
  <2>2. 0 .. slot \subseteq 0 .. slot'
    BY <1>1, <2>1
  <2>3. prepared' \in [Miners -> 0 .. slot'] /\ produced' \in [Miners -> 0 .. slot']
    BY <1>1, <2>1, <2>2
  <2>. QED BY <1>1, <2>1, <2>3 DEF ClocksTyped
<1>4. ASSUME NEW m \in Miners, HandleSlotLeaderRole(m) PROVE ClocksTyped'
  <2>1. UNCHANGED <<slot, produced>>
    BY <1>4 DEF HandleSlotLeaderRole
  <2>2. \E v \in {prepared[m], slot, 0} : prepared' = [prepared EXCEPT ![m] = v]
    <3> DEFINE p == pool[m] \o Only(cache[m], {t \in Txs : Fresh(m, t)})
               v == IF ~NotYetProduced(m) THEN prepared[m]
                    ELSE IF Prepares(m, p) THEN slot ELSE 0
    <3>1. prepared' = [prepared EXCEPT ![m] = v]
      BY <1>4 DEF HandleSlotLeaderRole
    <3> HIDE DEF p
    <3>2. v \in {prepared[m], slot, 0}
      OBVIOUS
    <3> HIDE DEF v
    <3>. QED BY <3>1, <3>2
  <2>3. prepared' \in [Miners -> 0 .. slot]
    BY <1>1, <2>2
  <2>. QED BY <1>1, <2>1, <2>3 DEF ClocksTyped
<1>5. ASSUME NEW m \in Miners, FinishBroadcast(m) PROVE ClocksTyped'
  <2>1. /\ UNCHANGED <<slot, prepared>>
        /\ \/ UNCHANGED produced
           \/ produced' = [produced EXCEPT ![m] = sending[m].block.slot]
    BY <1>5 DEF FinishBroadcast
  <2>2. sending[m].block.slot \in 0 .. slot
    BY DEF FlowInv, Typed, BlocksTyped, IsBlock
  <2>3. produced' \in [Miners -> 0 .. slot]
    BY <1>1, <2>1, <2>2
  <2>. QED BY <1>1, <2>1, <2>3 DEF ClocksTyped
<1>6. ASSUME NEW n \in Nodes, Restart(n) PROVE ClocksTyped'
  <2>1. /\ UNCHANGED slot
        /\ \/ UNCHANGED <<prepared, produced>>
           \/ /\ prepared' = [prepared EXCEPT ![n] = 0]
              /\ produced' = [produced EXCEPT ![n] = 0]
    BY <1>6 DEF Restart, minerVars
  <2>2. prepared' \in [Miners -> 0 .. slot] /\ produced' \in [Miners -> 0 .. slot]
    BY <1>1, <2>1
  <2>. QED BY <1>1, <2>1, <2>2 DEF ClocksTyped
<1>7. ASSUME NEW m \in Miners,
             (\E t \in Txs : HTxAdd(m, t)) \/ RetryForwards(m) \/ CallUpstream(m)
      PROVE  UNCHANGED <<slot, prepared, produced>>
  BY <1>7 DEF HTxAdd, RetryForwards, CallUpstream
<1>8. ASSUME NEW n \in Nodes, SyncBlocks(n) PROVE UNCHANGED <<slot, prepared, produced>>
  BY <1>8 DEF SyncBlocks, minerVars
<1>9. CASE UNCHANGED vars
  BY <1>2, <1>9 DEF vars, minerVars
<1>. QED BY <1>2, <1>3, <1>4, <1>5, <1>6, <1>7, <1>8, <1>9 DEF Next

\* Time does not go back.
LEMMA SlotGrows ==
    ASSUME ClocksTyped, ClocksTyped', [Next]_vars
    PROVE  slot <= slot' /\ slot \in Nat /\ slot' \in Nat
<1>1. slot \in Nat /\ slot' \in Nat
  BY DEF ClocksTyped
<1>2. slot' = slot \/ slot' = slot + 1
  BY DEF Next, vars, Tick, HTxAdd, RetryForwards, HandleSlotLeaderRole, CallUpstream,
         FinishBroadcast, SyncBlocks, Restart
<1>. QED BY <1>1, <1>2

\* What was a block stays one.
LEMMA StillBlock ==
    ASSUME NEW now \in Nat, NEW later \in Nat, now <= later, NEW b, IsBlock(b, now)
    PROVE  IsBlock(b, later)
<1>1. b.slot \in 0 .. later
  BY DEF IsBlock
<1>. QED BY <1>1 DEF IsBlock

\* The genesis block is a block, and so is nothing, which a free miner sends.
LEMMA GenesisIsBlock == \A now \in Nat : IsBlock(GenesisBlock, now)
<1>1. <<>> \in Seq(Txs)
  BY EmptySeq
<1>. QED BY <1>1 DEF IsBlock, GenesisBlock

\* Blocks stay blocks.
LEMMA BlocksStep == FlowInv /\ [Next]_vars => BlocksTyped'
<1> SUFFICES ASSUME FlowInv, [Next]_vars PROVE BlocksTyped'
  OBVIOUS
<1>1. slot <= slot' /\ slot \in Nat /\ slot' \in Nat
  BY ClocksStep, SlotGrows DEF FlowInv, Typed
<1>2. /\ \A b \in ToSet(BeaconLedger) : IsBlock(b, slot')
      /\ \A m \in Miners : /\ IsBlock(sending[m].block, slot')
                           /\ sending[m].ok \in BOOLEAN
                           /\ sending[m].left \in Seq({Beacon, Relay})
  BY <1>1, StillBlock DEF FlowInv, Typed, BlocksTyped
<1>3. ASSUME NEW b \in ToSet(BeaconLedger') PROVE IsBlock(b, slot')
  <2>1. CASE BeaconLedger' = BeaconLedger
    BY <1>2, <1>3, <2>1
  <2>2. ASSUME NEW m \in Miners, BeaconLedger' = Append(BeaconLedger, sending[m].block)
        PROVE  b \in ToSet(BeaconLedger) \cup {sending[m].block}
    <3>1. BeaconLedger \in Seq(ToSet(BeaconLedger))
      BY DEF FlowInv, Inv, LedgersGood, Good, Blocks, BeaconLedger, Nodes
    <3>. QED BY <1>3, <2>2, <3>1, Appended
  <2>. QED BY <1>2, <2>1, <2>2, BeaconSteps DEF FlowInv
<1>4. ASSUME NEW m \in Miners
      PROVE  /\ IsBlock(sending'[m].block, slot')
             /\ sending'[m].ok \in BOOLEAN
             /\ sending'[m].left \in Seq({Beacon, Relay})
  <2>1. sending = [k \in Miners |-> sending[k]] /\ SendingGood
    BY DEF FlowInv, Inv, SendingGood
  <2>2. CASE sending'[m] = sending[m]
    BY <1>2, <2>2
  <2>3. CASE HandleSlotLeaderRole(m) /\ Starts(m)
    <3>1. sending'[m] = [block |-> Made(m), left |-> Upstreams, ok |-> FALSE]
      BY <2>1, <2>3 DEF Starts
    <3>2. IsBlock(Made(m), slot')
      BY <1>1, MadeIs, StillBlock
    <3>. QED BY <3>1, <3>2, FlowAssumption
  <2>4. CASE CallUpstream(m)
    <3>1. PICK o \in Outcomes(Head(sending[m].left), sending[m].block) :
             sending' = [k \in Miners |->
                 IF k = m THEN [block |-> sending[m].block, left |-> Tail(sending[m].left),
                                ok |-> sending[m].ok \/ o.ok]
                 ELSE sending[k]]
      BY <2>1, <2>4, CallUpstreamIs
    <3> DEFINE any == sending[m].ok \/ o.ok
    <3>2. any \in BOOLEAN
      OBVIOUS
    <3> HIDE DEF any
    <3>3. sending'[m] = [block |-> sending[m].block, left |-> Tail(sending[m].left), ok |-> any]
      BY <3>1 DEF any
    <3>4. Tail(sending[m].left) \in Seq({Beacon, Relay})
      BY <1>2, <2>4, HeadTailProperties DEF CallUpstream
    <3>. QED BY <1>2, <3>2, <3>3, <3>4
  <2>5. CASE FinishBroadcast(m) \/ Restart(m)
    <3>1. sending'[m] = Idle
      <4>1. sending' = [sending EXCEPT ![m] = Idle]
        BY <2>5 DEF FinishBroadcast, Restart
      <4>. QED BY <2>1, <4>1
    <3>2. <<>> \in Seq({Beacon, Relay})
      BY EmptySeq
    <3>. QED BY <1>1, <3>1, <3>2, GenesisIsBlock DEF Idle
  <2>. QED BY <2>1, <2>2, <2>3, <2>4, <2>5, SendingSteps
<1>5. BeaconLedger' = (BeaconLedger)'
  OBVIOUS
<1>. QED BY <1>3, <1>4, <1>5 DEF BlocksTyped

\* Every step keeps the invariant,
LEMMA FlowStep == FlowInv /\ [Next]_vars => FlowInv'
BY StepInv, QueuesStep, ClocksStep, BlocksStep DEF FlowInv, Typed

\* and it holds at the start.
LEMMA FlowInit == Init => FlowInv
<1> SUFFICES ASSUME Init PROVE Typed
  BY InitInv DEF FlowInv
<1>1. <<>> \in Seq(Txs) /\ <<>> \in Seq({Beacon, Relay}) /\ 1 \in 1 .. MaxSlot
  BY EmptySeq, ChainAssumption
<1>2. QueuesTyped /\ ClocksTyped
  BY <1>1 DEF Init, QueuesTyped, ClocksTyped
<1>3. IsBlock(GenesisBlock, slot)
  BY GenesisIsBlock DEF Init
<1>4. ToSet(BeaconLedger) = {GenesisBlock}
  <2>1. BeaconLedger = <<GenesisBlock>>
    BY DEF Init, BeaconLedger, GenesisChain, Nodes
  <2>. QED BY <2>1 DEF ToSet
<1>5. BlocksTyped
  BY <1>1, <1>3, <1>4 DEF Init, BlocksTyped, Idle
<1>. QED BY <1>2, <1>5 DEF Typed

\* Queues hold transactions, clocks show slots that have begun, and ledgers and
\* senders hold blocks, whatever the network and the restarts do.
THEOREM FlowTyped == Spec => []Typed
<1>1. Spec => []FlowInv
  BY FlowInit, FlowStep, PTL DEF Spec
<1>2. FlowInv => Typed
  BY DEF FlowInv
<1>. QED BY <1>1, <1>2, PTL

----------------------------------------------------------------------------
(* One block a slot, and every transaction once.  Both are lost when a      *)
(* leader does not hear that its block was taken, when it has more than one *)
(* upstream, when two leaders send at a time, or when it restarts within    *)
(* its slot; without these the blocks are taken in the order of their slots.*)

\* The miners' configuration names one upstream.
OneUpstream == Len(Upstreams) = 1

\* The answer to a block that was taken arrives.
BlocksAnswered == "lostBlockAck" \notin Faults

\* A leader sends its block within its slot, or no other miner leads one.
OneLeader == \A s, r \in 1 .. MaxSlot : Leader[s] = Leader[r]
InOrder == "late" \notin Faults \/ OneLeader

\* No miner restarts; the beacon and the relay may.
MinersStay == [][\A m \in Miners : ~Restart(m)]_vars

Ascending(L) == \A i, j \in DOMAIN L : i < j => L[i].slot < L[j].slot

Before(L, s) == \A i \in DOMAIN L : L[i].slot < s

\* A leader sends a block of a slot it has not produced, and until its upstream
\* was called the beacon has no block of that slot or a later one.
Senders ==
    \A m \in Miners : sending[m] # Idle =>
        /\ sending[m].block.slot \in 1 .. slot
        /\ "late" \notin Faults => sending[m].block.slot = slot
        /\ Leader[sending[m].block.slot] = m
        /\ produced[m] < sending[m].block.slot
        /\ sending[m].left \in {<<>>, Upstreams}
        /\ sending[m].left # <<>> =>
              ~sending[m].ok /\ Before(BeaconLedger, sending[m].block.slot)

\* When the beacon has a block of this slot, its leader knows.
SlotTaken ==
    (\E i \in DOMAIN BeaconLedger : BeaconLedger[i].slot = slot) =>
        \/ produced[Leader[slot]] = slot
        \/ sending[Leader[slot]].ok /\ sending[Leader[slot]].block.slot = slot

OrderInv == FlowInv /\ Ascending(BeaconLedger) /\ LedgerTxOnce /\ Senders /\ SlotTaken

\* A ledger with a block more, position by position.
LEMMA AppendIs ==
    ASSUME NEW L, L \in Seq(ToSet(L)), NEW b
    PROVE  /\ Len(L) \in Nat /\ Len(Append(L, b)) = Len(L) + 1
           /\ DOMAIN L = 1 .. Len(L)
           /\ DOMAIN Append(L, b) = 1 .. Len(L) + 1
           /\ \A i \in 1 .. Len(L) : Append(L, b)[i] = L[i]
           /\ Append(L, b)[Len(L) + 1] = b
<1>1. L \in Seq(ToSet(L) \cup {b})
  BY SeqMonotonic
<1>. QED BY <1>1, AppendProperties, LenProperties

\* The beacon's ledger.
LEMMA BeaconIs ==
    ASSUME FlowInv
    PROVE  /\ BeaconLedger \in Seq(ToSet(BeaconLedger)) /\ BeaconLedger # <<>>
           /\ Len(BeaconLedger) \in Nat \ {0} /\ DOMAIN BeaconLedger = 1 .. Len(BeaconLedger)
           /\ \A i \in DOMAIN BeaconLedger : IsBlock(BeaconLedger[i], slot)
<1>1. Beacon \in Nodes
  BY DEF Nodes
<1>. QED BY <1>1, LedgerBlocks DEF BeaconLedger, Blocks

\* A chain takes a block of a later slot only with transactions it does not have
\* (Chain::processNormalBlock).
LEMMA TakenFresh ==
    ASSUME NEW c, NEW b, b.records \in Seq(Txs), AddBlock(c, b).ok, Before(c.ledger, b.slot),
           NEW n \in Nat, DOMAIN c.ledger = 1 .. n,
           NEW i \in DOMAIN c.ledger
    PROVE  ToSet(c.ledger[i].records) \cap ToSet(b.records) = {}
<1> DEFINE L == c.ledger
<1> SUFFICES ASSUME NEW t \in ToSet(b.records), t \in ToSet(L[i].records) PROVE FALSE
  OBVIOUS
<1>1. AppliedRecords(L, b) = ToSet(b.records)
  BY DEF AddBlock, ProcessBlock
<1>2. PICK k \in DOMAIN b.records :
         t = b.records[k] /\ \A j \in 1 .. k : ~SpentBefore(L, b.records[j], b.slot)
  BY <1>1 DEF AppliedRecords
<1>3. k \in 1 .. k
  BY LenProperties
<1>4. ~SpentBefore(L, t, b.slot)
  BY <1>2, <1>3
<1>5. \A j \in 1 .. i : L[j].slot < b.slot
  BY DEF Before
<1>. QED BY <1>4, <1>5 DEF SpentBefore

\* Two senders at a time would be of one slot or of one leader.
LEMMA OneSender ==
    ASSUME InOrder, ClocksTyped, Senders, NEW m \in Miners, NEW k \in Miners,
           sending[m] # Idle, sending[k] # Idle
    PROVE  m = k
<1>1. /\ sending[m].block.slot \in 1 .. MaxSlot /\ sending[k].block.slot \in 1 .. MaxSlot
      /\ Leader[sending[m].block.slot] = m /\ Leader[sending[k].block.slot] = k
      /\ "late" \notin Faults => sending[m].block.slot = sending[k].block.slot
  BY ChainAssumption DEF Senders, ClocksTyped
<1>. QED BY <1>1 DEF InOrder, OneLeader

\* A call with an answer: the block is taken and the sender knows it, or it is
\* not taken.
LEMMA CallIs ==
    ASSUME FlowInv, BlocksAnswered, NEW m \in Miners, CallUpstream(m)
    PROVE  LET s == sending[m]
               a == AddBlock(chain[Beacon], s.block)
               Sent(ok) == [k \in Miners |->
                   IF k = m THEN [block |-> s.block, left |-> Tail(s.left), ok |-> ok]
                   ELSE sending[k]]
           IN  \/ chain' = chain /\ sending' = Sent(s.ok)
               \/ /\ Beacon \in up
                  /\ chain' = HBlockAdd(Head(s.left), s.block).chain
                  /\ \/ a.ok /\ sending' = Sent(TRUE)
                     \/ ~a.ok /\ sending' = Sent(s.ok)
<1> DEFINE s == sending[m]
           a == AddBlock(chain[Beacon], s.block)
           Sent(ok) == [k \in Miners |->
                   IF k = m THEN [block |-> s.block, left |-> Tail(s.left), ok |-> ok]
                   ELSE sending[k]]
<1>1. PICK o \in Outcomes(Head(s.left), s.block) : chain' = o.chain /\ sending' = Sent(s.ok \/ o.ok)
  BY CallUpstreamIs DEF FlowInv, Inv
<1>2. \/ Beacon \in up /\ o = HBlockAdd(Head(s.left), s.block)
      \/ o = [ok |-> FALSE, chain |-> chain]
  BY DEF Outcomes, BlocksAnswered
<1>3. s.ok \in BOOLEAN
  BY DEF FlowInv, Typed, BlocksTyped
<1> HIDE DEF s
<1>4. CASE o = [ok |-> FALSE, chain |-> chain]
  <2>1. o.ok = FALSE /\ o.chain = chain
    BY <1>4
  <2>2. (s.ok \/ o.ok) = s.ok
    BY <1>3, <2>1
  <2>. QED BY <1>1, <2>1, <2>2 DEF s
<1>5. CASE Beacon \in up /\ o = HBlockAdd(Head(s.left), s.block)
  <2>1. o.ok = a.ok
    BY <1>5 DEF HBlockAdd
  <2> HIDE DEF a
  <2>2. CASE a.ok
    <3>1. (s.ok \/ o.ok) = TRUE
      BY <2>1, <2>2
    <3>. QED BY <1>1, <1>5, <2>2, <3>1 DEF s, a
  <2>3. CASE ~a.ok
    <3>1. (s.ok \/ o.ok) = s.ok
      BY <1>3, <2>1, <2>3
    <3>. QED BY <1>1, <1>5, <2>3, <3>1 DEF s, a
  <2>. QED BY <2>2, <2>3
<1>. QED BY <1>2, <1>4, <1>5

\* The beacon takes a block from a sender: it is of a later slot than all it has.
LEMMA OrderCall ==
    ASSUME OrderInv, OneUpstream, BlocksAnswered, InOrder, NEW m \in Miners, CallUpstream(m)
    PROVE  OrderInv'
<1> DEFINE s == sending[m]
           b == s.block
           a == AddBlock(chain[Beacon], b)
           L == BeaconLedger
           Sent(ok) == [k \in Miners |->
               IF k = m THEN [block |-> b, left |-> Tail(s.left), ok |-> ok] ELSE sending[k]]
<1>1. FlowInv /\ FlowInv' /\ Senders /\ Inv
  BY FlowStep DEF OrderInv, FlowInv, Next
<1>2. UNCHANGED <<slot, produced>>
  BY DEF CallUpstream
<1>3. PICK ok \in BOOLEAN : /\ sending' = Sent(ok)
                            /\ \/ L' = L
                               \/ a.ok /\ L' = Append(L, b) /\ ok
  <2>1. s.ok \in BOOLEAN
    BY <1>1 DEF FlowInv, Typed, BlocksTyped
  <2>2. \/ chain' = chain /\ sending' = Sent(s.ok)
        \/ /\ Beacon \in up
           /\ chain' = HBlockAdd(Head(s.left), b).chain
           /\ \/ a.ok /\ sending' = Sent(TRUE)
              \/ ~a.ok /\ sending' = Sent(s.ok)
    BY <1>1, CallIs
  <2>3. HBlockAdd(Head(s.left), b).chain[Beacon] = a.chain
    BY <1>1, HBlockAddBeacon
  <2>4. a.chain.ledger = IF a.ok THEN Append(L, b) ELSE L
    BY AddBlockLedger DEF BeaconLedger
  <2> HIDE DEF a, Sent, L
  <2>5. CASE chain' = chain /\ sending' = Sent(s.ok)
    BY <2>1, <2>5 DEF L, BeaconLedger
  <2>6. CASE chain' = HBlockAdd(Head(s.left), b).chain /\ a.ok /\ sending' = Sent(TRUE)
    BY <2>3, <2>4, <2>6 DEF L, BeaconLedger
  <2>7. CASE chain' = HBlockAdd(Head(s.left), b).chain /\ ~a.ok /\ sending' = Sent(s.ok)
    BY <2>1, <2>3, <2>4, <2>7 DEF L, BeaconLedger
  <2>. QED BY <2>2, <2>5, <2>6, <2>7
<1>4. s.left # <<>> /\ s # Idle
  BY DEF CallUpstream, Idle
<1>5. /\ b.slot \in 1 .. slot /\ Leader[b.slot] = m /\ produced[m] < b.slot
      /\ "late" \notin Faults => b.slot = slot
      /\ s.left = Upstreams /\ Before(L, b.slot)
  BY <1>1, <1>4 DEF Senders
<1>6. Tail(s.left) = <<>>
  <2>1. Upstreams \in Seq({Beacon, Relay}) /\ Len(Upstreams) = 1
    BY FlowAssumption DEF OneUpstream
  <2>2. Tail(Upstreams) \in Seq({Beacon, Relay}) /\ Len(Tail(Upstreams)) = 0
    BY <2>1, EmptySeq, HeadTailProperties
  <2>. QED BY <1>5, <2>2, EmptySeq
<1>7. ASSUME NEW k \in Miners, sending[k] # Idle PROVE k = m
  BY <1>1, <1>4, <1>7, OneSender DEF FlowInv, Typed
<1>8. /\ L \in Seq(ToSet(L)) /\ DOMAIN L = 1 .. Len(L) /\ Len(L) \in Nat
      /\ \A i \in DOMAIN L : L[i].slot \in Nat
  BY <1>1, BeaconIs DEF IsBlock
<1>9. Senders'
  <2> HIDE DEF L
  <2>1. /\ sending'[m] = [block |-> b, left |-> <<>>, ok |-> ok]
        /\ \A k \in Miners \ {m} : sending'[k] = Idle
    BY <1>3, <1>6, <1>7
  <2>. QED BY <1>2, <1>5, <2>1 DEF Senders
<1>10. CASE L' = L
  <2>1. Ascending(L') /\ LedgerTxOnce'
    BY <1>10 DEF OrderInv, LedgerTxOnce
  <2>2. SlotTaken'
    <3> SUFFICES ASSUME \E i \in DOMAIN L : L[i].slot = slot
                 PROVE  \/ produced[Leader[slot]] = slot
                        \/ sending'[Leader[slot]].ok /\ sending'[Leader[slot]].block.slot = slot
      BY <1>2, <1>10 DEF SlotTaken
    <3>1. produced[Leader[slot]] = slot \/ sending[Leader[slot]].ok
      BY DEF OrderInv, SlotTaken
    <3>2. ~sending[Leader[slot]].ok
      <4>1. Leader[slot] \in Miners
        BY <1>1, LeaderIs DEF FlowInv, Typed
      <4>2. ~s.ok
        BY <1>1, <1>4 DEF Senders
      <4>3. CASE sending[Leader[slot]] = Idle
        BY <4>3 DEF Idle
      <4>4. CASE sending[Leader[slot]] # Idle
        BY <1>7, <4>1, <4>2, <4>4
      <4>. QED BY <4>3, <4>4
    <3>. QED BY <3>1, <3>2
  <2>. QED BY <1>1, <1>9, <2>1, <2>2 DEF OrderInv
<1>11. CASE a.ok /\ L' = Append(L, b) /\ ok
  <2>1. /\ DOMAIN L' = 1 .. Len(L) + 1 /\ L'[Len(L) + 1] = b
        /\ \A i \in 1 .. Len(L) : L'[i] = L[i]
    BY <1>8, <1>11, AppendIs
  <2>2. \A i \in DOMAIN L' : i \in DOMAIN L \/ i = Len(L) + 1
    BY <1>8, <2>1
  <2>3. \A i \in DOMAIN L : ToSet(L[i].records) \cap ToSet(b.records) = {}
    <3>1. b.records \in Seq(Txs)
      BY <1>1 DEF FlowInv, Typed, BlocksTyped, IsBlock
    <3>2. chain[Beacon].ledger = L
      BY DEF BeaconLedger
    <3> HIDE DEF L, b
    <3>. QED BY <1>5, <1>8, <1>11, <3>1, <3>2, TakenFresh
  <2>4. Ascending(L')
    <3>1. \A i \in DOMAIN L : L[i].slot < L[i].slot + 1 /\ L[i].slot < b.slot
      BY <1>5, <1>8 DEF Before
    <3>2. Ascending(L)
      BY DEF OrderInv
    <3> HIDE DEF L, b
    <3>3. ASSUME NEW i \in DOMAIN L', NEW j \in DOMAIN L', i < j PROVE L'[i].slot < L'[j].slot
      <4>1. i \in DOMAIN L
        BY <1>8, <2>1, <3>3
      <4>2. CASE j \in DOMAIN L
        BY <1>8, <2>1, <3>2, <3>3, <4>1, <4>2 DEF Ascending
      <4>3. CASE j = Len(L) + 1
        BY <1>8, <2>1, <3>1, <4>1, <4>3
      <4>. QED BY <2>2, <4>2, <4>3
    <3>. QED BY <3>3 DEF Ascending
  <2>5. LedgerTxOnce'
    <3>1. \A i, j \in DOMAIN L :
             i # j => ToSet(L[i].records) \cap ToSet(L[j].records) = {}
      BY DEF OrderInv, LedgerTxOnce
    <3>2. L' = BeaconLedger'
      OBVIOUS
    <3> HIDE DEF L, b
    <3>3. ASSUME NEW i \in DOMAIN L', NEW j \in DOMAIN L', i # j
          PROVE  ToSet(L'[i].records) \cap ToSet(L'[j].records) = {}
      <4>1. CASE i \in DOMAIN L /\ j \in DOMAIN L
        BY <1>8, <2>1, <3>1, <3>3, <4>1
      <4>2. CASE i \in DOMAIN L /\ j = Len(L) + 1
        BY <1>8, <2>1, <2>3, <4>2
      <4>3. CASE i = Len(L) + 1 /\ j \in DOMAIN L
        BY <1>8, <2>1, <2>3, <4>3
      <4>. QED BY <2>2, <3>3, <4>1, <4>2, <4>3
    <3>. QED BY <3>2, <3>3 DEF LedgerTxOnce
  <2>6. SlotTaken'
    <3>1. /\ Leader[slot] \in Miners
          /\ sending'[m].ok /\ sending'[m].block = b
      BY <1>1, <1>3, <1>11, LeaderIs DEF FlowInv, Typed
    <3>2. CASE b.slot = slot
      BY <1>2, <1>5, <3>1, <3>2 DEF SlotTaken
    <3>3. CASE b.slot # slot
      <4>1. slot \in Nat /\ b.slot < slot
        BY <1>1, <1>5, <3>3 DEF FlowInv, Typed, ClocksTyped
      <4>2. \A i \in DOMAIN L' : L'[i].slot # slot
        BY <1>5, <1>8, <2>1, <2>2, <4>1 DEF Before
      <4>. QED BY <1>2, <4>2 DEF SlotTaken
    <3>. QED BY <3>2, <3>3
  <2>. QED BY <1>1, <1>9, <2>4, <2>5, <2>6 DEF OrderInv
<1>. QED BY <1>3, <1>10, <1>11

\* A step that leaves the blocks and the clocks alone.
LEMMA OrderSame ==
    ASSUME OrderInv, [Next]_vars, UNCHANGED <<slot, produced, sending>>,
           BeaconLedger' = BeaconLedger
    PROVE  OrderInv'
<1>1. FlowInv'
  BY FlowStep DEF OrderInv
<1>2. Ascending(BeaconLedger') /\ LedgerTxOnce'
  BY DEF OrderInv, LedgerTxOnce
<1>3. Senders' /\ SlotTaken'
  BY DEF OrderInv, Senders, SlotTaken
<1>. QED BY <1>1, <1>2, <1>3 DEF OrderInv

\* No block is of a slot that begins.
LEMMA OrderTick == OrderInv /\ Tick => OrderInv'
<1> SUFFICES ASSUME OrderInv, Tick PROVE OrderInv'
  OBVIOUS
<1>1. FlowInv /\ FlowInv'
  BY FlowStep DEF OrderInv, Next
<1>2. /\ slot' = slot + 1 /\ slot \in Nat
      /\ UNCHANGED <<produced, sending>> /\ BeaconLedger' = BeaconLedger
      /\ "late" \in Faults \/ \A m \in Miners : sending[m] = Idle
  BY <1>1 DEF Tick, minerVars, BeaconLedger, FlowInv, Typed, ClocksTyped
<1>3. Ascending(BeaconLedger') /\ LedgerTxOnce'
  BY <1>2 DEF OrderInv, LedgerTxOnce
<1>4. Senders'
  <2>1. 1 .. slot \subseteq 1 .. slot'
    BY <1>2
  <2>. QED BY <1>2, <2>1 DEF OrderInv, Senders
<1>5. SlotTaken'
  <2>1. \A i \in DOMAIN BeaconLedger : BeaconLedger[i].slot \in 0 .. slot
    BY <1>1, BeaconIs DEF IsBlock
  <2>. QED BY <1>2, <2>1 DEF SlotTaken
<1>. QED BY <1>1, <1>3, <1>4, <1>5 DEF OrderInv

\* A leader that starts to send has no block of this slot at the beacon.
LEMMA OrderStart ==
    ASSUME OrderInv, NEW m \in Miners, HandleSlotLeaderRole(m), Starts(m)
    PROVE  OrderInv'
<1>1. FlowInv /\ FlowInv'
  BY FlowStep DEF OrderInv, Next
<1>2. /\ Free(m) /\ Leader[slot] = m
      /\ UNCHANGED <<slot, produced>> /\ BeaconLedger' = BeaconLedger
  BY HandleIs DEF BeaconLedger
<1>3. sending' = [sending EXCEPT ![m] =
         [block |-> Made(m), left |-> Upstreams, ok |-> FALSE]]
  BY DEF Starts
<1>4. /\ sending'[m] = [block |-> Made(m), left |-> Upstreams, ok |-> FALSE]
      /\ \A k \in Miners \ {m} : sending'[k] = sending[k]
      /\ Made(m).slot = slot
  BY <1>1, <1>3, MadeIs DEF FlowInv, Inv, SendingGood
<1>5. /\ slot \in 1 .. slot /\ produced[m] < slot
  <2>1. slot \in 1 .. MaxSlot /\ produced[m] \in 0 .. slot /\ produced[m] # slot
    BY <1>1 DEF FlowInv, Typed, ClocksTyped, Starts, NotYetProduced
  <2>. QED BY <2>1
<1>6. \A i \in DOMAIN BeaconLedger : BeaconLedger[i].slot # slot
  <2>1. sending[m] = Idle
    BY <1>2 DEF Free
  <2>. QED BY <1>2, <1>5, <2>1 DEF OrderInv, SlotTaken, Idle
<1>7. Before(BeaconLedger, slot)
  <2>1. \A i \in DOMAIN BeaconLedger : BeaconLedger[i].slot \in 0 .. slot
    BY <1>1, BeaconIs DEF IsBlock
  <2>2. slot \in Nat
    BY <1>5
  <2>. QED BY <1>6, <2>1, <2>2 DEF Before
<1>8. Senders'
  <2>1. Senders
    BY DEF OrderInv
  <2>. QED BY <1>2, <1>4, <1>5, <1>7, <2>1 DEF Senders
<1>9. SlotTaken'
  BY <1>2, <1>6 DEF SlotTaken
<1>10. Ascending(BeaconLedger') /\ LedgerTxOnce'
  BY <1>2 DEF OrderInv, LedgerTxOnce
<1>. QED BY <1>1, <1>8, <1>9, <1>10 DEF OrderInv

\* A leader that has its answer notes the slot of its block.
LEMMA OrderFinish ==
    ASSUME OrderInv, NEW m \in Miners, FinishBroadcast(m)
    PROVE  OrderInv'
<1> DEFINE s == sending[m]
<1>1. FlowInv /\ FlowInv'
  BY FlowStep DEF OrderInv, Next
<1>2. /\ UNCHANGED slot /\ s # Idle
      /\ sending' = [sending EXCEPT ![m] = Idle]
      /\ \/ s.ok /\ produced' = [produced EXCEPT ![m] = s.block.slot]
         \/ ~s.ok /\ UNCHANGED produced
  BY DEF FinishBroadcast, AnySuccess
<1>3. BeaconLedger' = BeaconLedger
  <2>1. chain = [n \in Nodes |-> chain[n]] /\ Beacon # m
    BY <1>1, FlowAssumption DEF FlowInv, Inv, LedgersGood
  <2>2. UNCHANGED chain \/ \E c : chain' = [chain EXCEPT ![m] = c]
    BY DEF FinishBroadcast
  <2>. QED BY <2>1, <2>2 DEF BeaconLedger, Nodes
<1>4. /\ sending'[m] = Idle /\ \A k \in Miners \ {m} : sending'[k] = sending[k]
      /\ \A k \in Miners \ {m} : produced'[k] = produced[k]
      /\ produced'[m] = IF s.ok THEN s.block.slot ELSE produced[m]
  BY <1>1, <1>2 DEF FlowInv, Inv, SendingGood, Typed, ClocksTyped
<1>5. produced[m] < s.block.slot /\ s.block.slot \in 1 .. slot /\ slot \in Nat
  BY <1>1, <1>2 DEF OrderInv, Senders, FlowInv, Typed, ClocksTyped
<1>6. Senders'
  BY <1>2, <1>3, <1>4 DEF OrderInv, Senders
<1>7. SlotTaken'
  <2> SUFFICES ASSUME \E i \in DOMAIN BeaconLedger : BeaconLedger[i].slot = slot
               PROVE  \/ produced'[Leader[slot]] = slot
                      \/ sending'[Leader[slot]].ok /\ sending'[Leader[slot]].block.slot = slot
    BY <1>2, <1>3 DEF SlotTaken
  <2>1. \/ produced[Leader[slot]] = slot
        \/ sending[Leader[slot]].ok /\ sending[Leader[slot]].block.slot = slot
    BY DEF OrderInv, SlotTaken
  <2>2. Leader[slot] \in Miners
    BY <1>1, LeaderIs DEF FlowInv, Typed
  <2>3. CASE Leader[slot] = m
    <3>1. produced[m] # slot
      <4>1. produced[m] \in Nat
        BY <1>1 DEF FlowInv, Typed, ClocksTyped
      <4>. QED BY <1>5, <4>1
    <3>. QED BY <1>4, <2>1, <2>3, <3>1
  <2>4. CASE Leader[slot] # m
    BY <1>4, <2>1, <2>2, <2>4
  <2>. QED BY <2>3, <2>4
<1>8. Ascending(BeaconLedger') /\ LedgerTxOnce'
  BY <1>3 DEF OrderInv, LedgerTxOnce
<1>. QED BY <1>1, <1>6, <1>7, <1>8 DEF OrderInv

\* Every step keeps the order of the blocks.
LEMMA OrderStep ==
    ASSUME OneUpstream, BlocksAnswered, InOrder
    PROVE  OrderInv /\ [Next]_vars /\ [\A m \in Miners : ~Restart(m)]_vars => OrderInv'
<1> SUFFICES ASSUME OrderInv, [Next]_vars, [\A m \in Miners : ~Restart(m)]_vars PROVE OrderInv'
  OBVIOUS
<1>1. Inv
  BY DEF OrderInv, FlowInv
<1>2. ASSUME NEW m \in Miners, CallUpstream(m) PROVE OrderInv'
  BY <1>2, OrderCall
<1>3. CASE BeaconLedger' = BeaconLedger
  <2>1. CASE UNCHANGED vars
    BY <1>3, <2>1, OrderSame DEF vars, minerVars
  <2>2. ASSUME NEW m \in Miners, (\E t \in Txs : HTxAdd(m, t)) \/ RetryForwards(m)
        PROVE  UNCHANGED <<slot, produced, sending>>
    BY <2>2 DEF HTxAdd, RetryForwards
  <2>3. ASSUME NEW m \in Miners, HandleSlotLeaderRole(m) PROVE OrderInv'
    <3>1. /\ UNCHANGED <<slot, produced>>
          /\ Starts(m) \/ UNCHANGED sending
      BY <2>3, HandleIs
    <3>. QED BY <1>3, <2>3, <3>1, OrderStart, OrderSame
  <2>4. ASSUME NEW n \in Nodes, SyncBlocks(n) PROVE UNCHANGED <<slot, produced, sending>>
    BY <2>4 DEF SyncBlocks, minerVars
  <2>5. ASSUME NEW n \in Nodes, Restart(n), n \notin Miners
        PROVE  UNCHANGED <<slot, produced, sending>>
    BY <2>5 DEF Restart, minerVars
  <2>6. \/ UNCHANGED vars
        \/ \A n \in Nodes : Restart(n) => n \notin Miners
    OBVIOUS
  <2>. QED BY <1>2, <1>3, <2>1, <2>2, <2>3, <2>4, <2>5, <2>6,
              OrderTick, OrderSame, OrderFinish DEF Next
<1>. QED BY <1>1, <1>2, <1>3, BeaconSteps

\* No block is there but the genesis block.
LEMMA OrderInit == Init => OrderInv
<1> SUFFICES ASSUME Init PROVE OrderInv
  OBVIOUS
<1>1. BeaconLedger = <<GenesisBlock>> /\ DOMAIN BeaconLedger = {1}
  BY DEF Init, BeaconLedger, GenesisChain, Nodes
<1>2. Ascending(BeaconLedger) /\ LedgerTxOnce
  BY <1>1 DEF Ascending, LedgerTxOnce
<1>3. Senders
  BY DEF Init, Senders
<1>4. SlotTaken
  BY <1>1 DEF Init, SlotTaken, GenesisBlock
<1>. QED BY <1>2, <1>3, <1>4, FlowInit DEF OrderInv

\* With one upstream whose answers to blocks arrive, with blocks sent within their
\* slots or by one miner alone, and while no miner restarts, the beacon's chain
\* has one block of a slot at most: lastProducedSlot_ is noted before the leader
\* handles its slot again.
THEOREM BlocksInOrder ==
    ASSUME OneUpstream, BlocksAnswered, InOrder
    PROVE  Spec /\ MinersStay => []OneBlockPerSlot
<1>1. OrderInv /\ [Next]_vars /\ [\A m \in Miners : ~Restart(m)]_vars => OrderInv'
  BY OrderStep
<1>2. OrderInv => OneBlockPerSlot
  <2> SUFFICES ASSUME OrderInv, NEW i \in DOMAIN BeaconLedger, NEW j \in DOMAIN BeaconLedger,
                      i # j
               PROVE  BeaconLedger[i].slot # BeaconLedger[j].slot
    BY DEF OneBlockPerSlot
  <2>1. /\ i \in Nat /\ j \in Nat
        /\ BeaconLedger[i].slot \in Nat /\ BeaconLedger[j].slot \in Nat
    BY BeaconIs DEF OrderInv, IsBlock
  <2>2. i < j \/ j < i
    BY <2>1
  <2>. QED BY <2>1, <2>2 DEF OrderInv, Ascending
<1>. QED BY <1>1, <1>2, OrderInit, PTL DEF Spec, MinersStay

\* Under the same conditions the beacon's chain carries a transaction once: the
\* scan for its idempotent id meets every block before it reaches one of the
\* slot of the block at hand (validateIdempotencyRules).
THEOREM TransactionsOnce ==
    ASSUME OneUpstream, BlocksAnswered, InOrder
    PROVE  Spec /\ MinersStay => []LedgerTxOnce
<1>1. OrderInv /\ [Next]_vars /\ [\A m \in Miners : ~Restart(m)]_vars => OrderInv'
  BY OrderStep
<1>2. OrderInv => LedgerTxOnce
  BY DEF OrderInv
<1>. QED BY <1>1, <1>2, OrderInit, PTL DEF Spec, MinersStay

----------------------------------------------------------------------------
(* Loading a ledger.                                                       *)

Banks == [Txs -> Nat]

\* How often the first k blocks carry a transaction.
CountUpto(L, k) == [t \in Txs |-> Cardinality({i \in 1 .. k : t \in ToSet(L[i].records)})]
Count(L) == CountUpto(L, Len(L))

\* The chain of a node that has applied each block of its ledger once.
Copied(L) == [ledger |-> L, bank |-> Count(L)]

\* The counts after one more block.
LEMMA CountNext ==
    ASSUME NEW L, NEW k \in Nat
    PROVE  /\ CountUpto(L, k) \in Banks
           /\ CountUpto(L, k + 1) = Applied(CountUpto(L, k), ToSet(L[k + 1].records))
<1> DEFINE At(t, n) == {i \in 1 .. n : t \in ToSet(L[i].records)}
<1>1. ASSUME NEW t, NEW n \in Nat PROVE IsFiniteSet(At(t, n)) /\ Cardinality(At(t, n)) \in Nat
  <2>1. IsFiniteSet(1 .. n)
    BY FS_Interval
  <2>2. At(t, n) \subseteq 1 .. n
    OBVIOUS
  <2>. QED BY <2>1, <2>2, FS_Subset, FS_CardinalityType
<1>2. CountUpto(L, k) \in Banks
  BY <1>1 DEF CountUpto, Banks
<1>3. ASSUME NEW t
      PROVE  Cardinality(At(t, k + 1)) =
                 IF t \in ToSet(L[k + 1].records) THEN Cardinality(At(t, k)) + 1
                 ELSE Cardinality(At(t, k))
  <2>1. 1 .. k + 1 = (1 .. k) \cup {k + 1} /\ k + 1 \notin 1 .. k
    OBVIOUS
  <2>2. CASE t \in ToSet(L[k + 1].records)
    <3>1. At(t, k + 1) = At(t, k) \cup {k + 1} /\ k + 1 \notin At(t, k)
      BY <2>1, <2>2
    <3> HIDE DEF At
    <3>. QED BY <1>1, <2>2, <3>1, FS_AddElement
  <2>3. CASE t \notin ToSet(L[k + 1].records)
    <3>1. At(t, k + 1) = At(t, k)
      BY <2>1, <2>3
    <3> HIDE DEF At
    <3>. QED BY <2>3, <3>1
  <2>. QED BY <2>2, <2>3
<1> HIDE DEF At
<1>4. /\ CountUpto(L, k) = [t \in Txs |-> Cardinality(At(t, k))]
      /\ CountUpto(L, k + 1) = [t \in Txs |-> Cardinality(At(t, k + 1))]
  BY DEF CountUpto, At
<1>. QED BY <1>2, <1>3, <1>4 DEF Applied

\* The count looks at the first k blocks only.
LEMMA CountSame ==
    ASSUME NEW L, NEW M, NEW k \in Nat, \A i \in 1 .. k : L[i] = M[i]
    PROVE  CountUpto(L, k) = CountUpto(M, k)
<1>1. \A t : {i \in 1 .. k : t \in ToSet(L[i].records)} = {i \in 1 .. k : t \in ToSet(M[i].records)}
  OBVIOUS
<1>. QED BY <1>1 DEF CountUpto

\* The load of the block at a position.
LoadNext(L, r, i) ==
    IF r.ok /\ ReadBlock(L, i).index = i
    THEN ProcessBlock(L, r.bank, ReadBlock(L, i))
    ELSE [r EXCEPT !.ok = FALSE]

\* The values the load of L runs through.
Loads(f, L) ==
    /\ f[0] = [ok |-> TRUE, bank |-> GenesisChain.bank]
    /\ \A k \in 1 .. Len(L) - 1 : f[k] = LoadNext(L, f[k - 1], k)

\* What loadFromLedger computes is a run of LoadNext over the blocks.
LEMMA LoadFold ==
    ASSUME NEW L, Len(L) \in Nat \ {0}
    PROVE  \E f : /\ Loads(f, L)
                  /\ LoadFromLedger(L) = [ok |-> f[Len(L) - 1].ok,
                                          chain |-> [ledger |-> L, bank |-> f[Len(L) - 1].bank]]
<1> DEFINE n == Len(L) - 1
           D == [ok : BOOLEAN, bank : Banks]
           base == [ok |-> TRUE, bank |-> GenesisChain.bank]
           F == [p \in D \X (1 .. n) |-> LoadNext(L, p[1], p[2])]
           seq == [i \in 1 .. n |-> i]
           Fold(h) == h = [w \in SUBSET DOMAIN seq |->
                             IF w = {} THEN base
                             ELSE LET x == Max(w) IN LoadNext(L, h[w \ {x}], seq[x])]
           h == CHOOSE h : Fold(h)
<1>1. n \in Nat
  OBVIOUS
<1>2. base \in D
  BY DEF GenesisChain, Banks
<1>3. ASSUME NEW r \in D, NEW i \in 1 .. n PROVE LoadNext(L, r, i) \in D
  <2>1. ASSUME NEW b PROVE ProcessBlock(L, r.bank, b) \in D
    <3>1. Applied(r.bank, AppliedRecords(L, b)) \in Banks
      BY DEF Applied, Banks
    <3>. QED BY <3>1 DEF ProcessBlock
  <2>2. [r EXCEPT !.ok = FALSE] \in D
    OBVIOUS
  <2>. QED BY <2>1, <2>2 DEF LoadNext
<1>4. \E g : Fold(g)
  <2>1. F \in [D \X (1 .. n) -> D]
    BY <1>3
  <2> HIDE DEF F, n, D, base
  <2>2. PICK g : IsFold(g, n, F, base) /\ \A w \in SUBSET (1 .. n) : g[w] \in D
    BY <1>1, <1>2, <2>1, FoldExists
  <2>3. ASSUME NEW w \in SUBSET (1 .. n), w # {}
        PROVE  F[<<g[w \ {Max(w)}], Max(w)>>] = LoadNext(L, g[w \ {Max(w)}], seq[Max(w)])
    <3>1. Max(w) \in w /\ w \ {Max(w)} \in SUBSET (1 .. n)
      BY <1>1, <2>3, MaxIn
    <3>. QED BY <2>2, <3>1 DEF F
  <2>4. SUBSET (1 .. n) = SUBSET DOMAIN seq
    OBVIOUS
  <2> HIDE DEF seq
  <2>5. g = [w \in SUBSET DOMAIN seq |->
               IF w = {} THEN base ELSE F[<<g[w \ {Max(w)}], Max(w)>>]]
    BY <2>2, <2>4 DEF IsFold
  <2>6. Fold(g)
    BY <2>3, <2>4, <2>5
  <2>. QED BY <2>6
<1>5. Fold(h)
  <2> HIDE DEF Fold
  <2>. QED BY <1>4
<1>6. LoadFromLedger(L) =
         [ok |-> h[DOMAIN seq].ok, chain |-> [ledger |-> L, bank |-> h[DOMAIN seq].bank]]
  BY DEF LoadFromLedger, FoldLeft, MapThenFoldSet, LoadNext
<1> HIDE DEF h
<1>0. DOMAIN seq = 1 .. n /\ \A i \in 1 .. n : seq[i] = i
  OBVIOUS
<1> HIDE DEF seq, base, n
<1> DEFINE f == [k \in 0 .. n |-> h[1 .. k]]
<1>7. h[{}] = base /\ 1 .. 0 = {}
  BY <1>5
<1>8. ASSUME NEW k \in 1 .. n PROVE h[1 .. k] = LoadNext(L, h[1 .. (k - 1)], seq[k])
  <2>0. k \in Nat \ {0} /\ k <= n
    BY <1>1
  <2>1. 1 .. k \in SUBSET (1 .. n) /\ k \in 1 .. k /\ k \in Nat \ {0}
    BY <1>1, <2>0
  <2>2. Max(1 .. k) = k /\ (1 .. k) \ {Max(1 .. k)} = 1 .. (k - 1)
    BY <2>1, MaxUpto
  <2>. QED BY <1>0, <1>5, <2>1, <2>2
<1>9. Loads(f, L)
  BY <1>0, <1>1, <1>7, <1>8 DEF Loads, base, n
<1>10. f[Len(L) - 1] = h[DOMAIN seq]
  BY <1>0, <1>1 DEF n
<1> HIDE DEF f
<1>. QED BY <1>6, <1>9, <1>10

----------------------------------------------------------------------------
(* Ledgers whose every block could be added to the blocks before it.       *)

IsLedger(L) == L \in Seq(ToSet(L)) /\ L # <<>>

\* b may go after the last block of L, but for transactions it names twice.
Follows(L, b) ==
    /\ b.index = Len(L)
    /\ b.previousHash = Hash(L[Len(L)])
    /\ b.slotLeader = Leader[b.slot]
    /\ b.records \in Seq(Txs) /\ Len(b.records) <= MaxTransactionsPerBlock
    /\ \A t \in ToSet(b.records) : ~SpentBefore(L, t, b.slot)

Linked(L) ==
    /\ L[1] = GenesisBlock
    /\ \A i \in 2 .. Len(L) :
          /\ L[i].index = i - 1
          /\ L[i].previousHash = Hash(L[i - 1])
          /\ L[i].slotLeader = Leader[L[i].slot]
          /\ L[i].records \in Seq(Txs) /\ Len(L[i].records) <= MaxTransactionsPerBlock
          /\ IsInjective(L[i].records)
          /\ \A t \in ToSet(L[i].records) : ~SpentBefore(L, t, L[i].slot)
    /\ \A i \in 1 .. Len(L) : L[i].slot \in Nat

\* L is the beginning of M.
Begins(L, M) == Len(L) <= Len(M) /\ \A i \in 1 .. Len(L) : L[i] = M[i]

\* A ledger holds the genesis block and is numbered from 1.
LEMMA LedgerIs ==
    ASSUME NEW L, IsLedger(L)
    PROVE  Len(L) \in Nat \ {0} /\ DOMAIN L = 1 .. Len(L)
BY LenProperties, EmptySeq DEF IsLedger

\* A block of M that L has, or the next one, has in L the transactions before it
\* that it has in M.
LEMMA SpentBegins ==
    ASSUME NEW L, IsLedger(L), NEW M, IsLedger(M), Begins(L, M), NEW t, NEW s
    PROVE  /\ SpentBefore(L, t, s) => SpentBefore(M, t, s)
           /\ (\E i \in 1 .. Len(L) : L[i].slot = s /\ s \in Nat)
                 => (SpentBefore(M, t, s) => SpentBefore(L, t, s))
<1>1. /\ DOMAIN L = 1 .. Len(L) /\ DOMAIN M = 1 .. Len(M)
      /\ Len(L) \in Nat /\ Len(M) \in Nat
      /\ Len(L) <= Len(M) /\ \A i \in 1 .. Len(L) : L[i] = M[i] /\ i \in 1 .. Len(M)
  BY LedgerIs DEF Begins
<1>2. ASSUME SpentBefore(L, t, s) PROVE SpentBefore(M, t, s)
  <2>1. PICK i \in 1 .. Len(L) : t \in ToSet(L[i].records) /\ \A j \in 1 .. i : L[j].slot < s
    BY <1>1, <1>2 DEF SpentBefore
  <2>2. \A j \in 1 .. i : L[j] = M[j]
    BY <1>1
  <2>. QED BY <1>1, <2>1, <2>2 DEF SpentBefore
<1>3. ASSUME NEW i \in 1 .. Len(L), L[i].slot = s, s \in Nat, SpentBefore(M, t, s)
      PROVE  SpentBefore(L, t, s)
  <2>1. PICK k \in 1 .. Len(M) : t \in ToSet(M[k].records) /\ \A j \in 1 .. k : M[j].slot < s
    BY <1>1, <1>3 DEF SpentBefore
  <2>2. k < i
    <3>1. M[i].slot = s /\ ~(s < s)
      BY <1>1, <1>3
    <3>2. i \notin 1 .. k
      BY <2>1, <3>1
    <3>. QED BY <1>1, <3>2
  <2>3. k \in 1 .. Len(L) /\ \A j \in 1 .. k : L[j] = M[j]
    BY <1>1, <2>2
  <2>4. t \in ToSet(L[k].records) /\ \A j \in 1 .. k : L[j].slot < s
    BY <2>1, <2>3
  <2>. QED BY <1>1, <2>3, <2>4 DEF SpentBefore
<1>. QED BY <1>2, <1>3

\* The beginning of a linked ledger is linked.
LEMMA LinkedBegins ==
    ASSUME NEW L, IsLedger(L), NEW M, IsLedger(M), Begins(L, M), Linked(M)
    PROVE  Linked(L)
<1>1. /\ Len(L) \in Nat \ {0} /\ Len(M) \in Nat
      /\ Len(L) <= Len(M) /\ \A i \in 1 .. Len(L) : L[i] = M[i] /\ i \in 1 .. Len(M)
  BY LedgerIs DEF Begins
<1>2. L[1] = GenesisBlock
  BY <1>1 DEF Linked
<1>3. ASSUME NEW i \in 2 .. Len(L)
      PROVE  /\ L[i].index = i - 1
             /\ L[i].previousHash = Hash(L[i - 1])
             /\ L[i].slotLeader = Leader[L[i].slot]
             /\ L[i].records \in Seq(Txs) /\ Len(L[i].records) <= MaxTransactionsPerBlock
             /\ IsInjective(L[i].records)
             /\ \A t \in ToSet(L[i].records) : ~SpentBefore(L, t, L[i].slot)
  <2>1. i \in 2 .. Len(M) /\ i \in 1 .. Len(L) /\ i - 1 \in 1 .. Len(L)
    BY <1>1
  <2>2. L[i] = M[i] /\ L[i - 1] = M[i - 1]
    BY <1>1, <2>1
  <2>3. \A t \in ToSet(L[i].records) : ~SpentBefore(L, t, L[i].slot)
    BY <2>1, <2>2, SpentBegins DEF Linked
  <2>. QED BY <2>1, <2>2, <2>3 DEF Linked
<1>4. \A i \in 1 .. Len(L) : L[i].slot \in Nat
  BY <1>1 DEF Linked
<1>. QED BY <1>2, <1>3, <1>4 DEF Linked

\* The block of M after L follows L.
LEMMA NextFollows ==
    ASSUME NEW L, IsLedger(L), NEW M, IsLedger(M), Begins(L, M), Linked(M), Len(L) < Len(M)
    PROVE  Follows(L, M[Len(L) + 1]) /\ IsInjective(M[Len(L) + 1].records)
<1> DEFINE i == Len(L) + 1
<1>1. /\ Len(L) \in Nat \ {0} /\ Len(M) \in Nat
      /\ \A k \in 1 .. Len(L) : L[k] = M[k]
  BY LedgerIs DEF Begins
<1>2. i \in 2 .. Len(M) /\ i - 1 = Len(L) /\ L[Len(L)] = M[Len(L)]
  BY <1>1
<1> HIDE DEF i
<1>3. \A t \in ToSet(M[i].records) : ~SpentBefore(L, t, M[i].slot)
  <2>1. \A t \in ToSet(M[i].records) : ~SpentBefore(M, t, M[i].slot)
    BY <1>2 DEF Linked
  <2>. QED BY <2>1, SpentBegins
<1>4. /\ M[i].index = Len(L) /\ M[i].previousHash = Hash(L[Len(L)])
      /\ M[i].slotLeader = Leader[M[i].slot]
      /\ M[i].records \in Seq(Txs) /\ Len(M[i].records) <= MaxTransactionsPerBlock
      /\ IsInjective(M[i].records)
  BY <1>2 DEF Linked
<1>. QED BY <1>3, <1>4 DEF Follows, i

\* A ledger takes a block that follows it, and is linked then, unless the block
\* names a transaction twice: then it is refused and nothing changes.
LEMMA AddFollows ==
    ASSUME NEW L, IsLedger(L), Linked(L), NEW b, Follows(L, b), b.slot \in Nat
    PROVE  AddBlock(Copied(L), b) =
               IF IsInjective(b.records)
               THEN [ok |-> TRUE, chain |-> Copied(Append(L, b))]
               ELSE [ok |-> FALSE, chain |-> Copied(L)]
<1>1. /\ Len(L) \in Nat \ {0} /\ DOMAIN L = 1 .. Len(L)
      /\ \A i \in 1 .. Len(L) : Append(L, b)[i] = L[i]
      /\ Append(L, b)[Len(L) + 1] = b /\ Len(Append(L, b)) = Len(L) + 1
  BY LedgerIs, AppendIs DEF IsLedger
<1>2. L[Len(L)].index = Len(L) - 1
  <2>1. CASE Len(L) = 1
    BY <2>1 DEF Linked, GenesisBlock
  <2>2. CASE Len(L) # 1
    BY <1>1, <2>2 DEF Linked
  <2>. QED BY <2>1, <2>2
<1>3. SequenceValid(L, b)
  BY <1>1, <1>2 DEF SequenceValid, Follows, NextBlockId, ReadBlock
<1>4. ValidBlock(L, b) <=> IsInjective(b.records)
  BY <1>3 DEF ValidBlock, Follows
<1>5. AppliedRecords(L, b) = ToSet(b.records)
  <2>1. b.records \in Seq(Txs) /\ DOMAIN b.records = 1 .. Len(b.records) /\ Len(b.records) \in Nat
    BY LenProperties DEF Follows
  <2>2. ASSUME NEW k \in DOMAIN b.records, NEW j \in 1 .. k
        PROVE  ~SpentBefore(L, b.records[j], b.slot)
    <3>1. j \in DOMAIN b.records
      BY <2>1
    <3>. QED BY <3>1 DEF Follows, ToSet
  <2>. QED BY <2>2 DEF AppliedRecords, ToSet
<1>6. Applied(Count(L), ToSet(b.records)) = Count(Append(L, b))
  <2>1. CountUpto(L, Len(L)) = CountUpto(Append(L, b), Len(L))
    BY <1>1, CountSame
  <2>2. CountUpto(Append(L, b), Len(L) + 1) =
           Applied(CountUpto(Append(L, b), Len(L)), ToSet(Append(L, b)[Len(L) + 1].records))
    BY <1>1, CountNext
  <2>. QED BY <1>1, <2>1, <2>2 DEF Count
<1>7. CASE IsInjective(b.records)
  BY <1>4, <1>5, <1>6, <1>7 DEF AddBlock, ProcessBlock, Copied
<1>8. CASE ~IsInjective(b.records)
  BY <1>4, <1>8 DEF AddBlock, ProcessBlock, Copied
<1>. QED BY <1>7, <1>8

\* A block that follows a linked ledger leaves it linked.
LEMMA LinkedAppend ==
    ASSUME NEW L, IsLedger(L), Linked(L), NEW b, Follows(L, b), IsInjective(b.records),
           b.slot \in Nat
    PROVE  IsLedger(Append(L, b)) /\ Linked(Append(L, b)) /\ Begins(L, Append(L, b))
<1> DEFINE M == Append(L, b)
<1>1. /\ Len(L) \in Nat \ {0} /\ Len(M) = Len(L) + 1
      /\ \A i \in 1 .. Len(L) : M[i] = L[i]
      /\ M[Len(L) + 1] = b
  BY LedgerIs, AppendIs DEF IsLedger
<1>2. IsLedger(M) /\ Begins(L, M)
  BY <1>1, Appended DEF IsLedger, Begins
<1> HIDE DEF M
<1>3. ASSUME NEW i \in 2 .. Len(M)
      PROVE  /\ M[i].index = i - 1
             /\ M[i].previousHash = Hash(M[i - 1])
             /\ M[i].slotLeader = Leader[M[i].slot]
             /\ M[i].records \in Seq(Txs) /\ Len(M[i].records) <= MaxTransactionsPerBlock
             /\ IsInjective(M[i].records)
             /\ \A t \in ToSet(M[i].records) : ~SpentBefore(M, t, M[i].slot)
  <2>1. CASE i <= Len(L)
    <3>1. i \in 2 .. Len(L) /\ i \in 1 .. Len(L) /\ M[i] = L[i] /\ M[i - 1] = L[i - 1]
      BY <1>1, <2>1
    <3>2. L[i].slot \in Nat
      BY <3>1 DEF Linked
    <3>3. \A t \in ToSet(M[i].records) : ~SpentBefore(M, t, M[i].slot)
      BY <1>2, <3>1, <3>2, SpentBegins DEF Linked
    <3>. QED BY <3>1, <3>3 DEF Linked
  <2>2. CASE i = Len(L) + 1
    <3>1. M[i] = b /\ M[i - 1] = L[Len(L)]
      BY <1>1, <2>2
    <3>2. ASSUME NEW t \in ToSet(b.records) PROVE ~SpentBefore(M, t, b.slot)
      <4> SUFFICES ASSUME SpentBefore(M, t, b.slot) PROVE FALSE
        OBVIOUS
      <4>1. PICK k \in 1 .. Len(M) : /\ t \in ToSet(M[k].records)
                                     /\ \A j \in 1 .. k : M[j].slot < b.slot
        BY <1>2, LedgerIs DEF SpentBefore
      <4>2. k # Len(L) + 1
        BY <1>1, <4>1
      <4>3. k \in 1 .. Len(L) /\ \A j \in 1 .. k : M[j] = L[j]
        BY <1>1, <4>2
      <4>4. SpentBefore(L, t, b.slot)
        <5>1. DOMAIN L = 1 .. Len(L) /\ k \in 1 .. k
          BY LedgerIs, <4>3
        <5>. QED BY <4>1, <4>3, <5>1 DEF SpentBefore
      <4>. QED BY <4>4 DEF Follows
    <3>. QED BY <1>1, <2>2, <3>1, <3>2 DEF Follows
  <2>. QED BY <1>1, <2>1, <2>2
<1>4. M[1] = GenesisBlock /\ \A i \in 1 .. Len(M) : M[i].slot \in Nat
  BY <1>1 DEF Linked
<1>. QED BY <1>2, <1>3, <1>4 DEF Linked, M

\* A linked ledger is loaded whole (Chain::loadFromLedger).
LEMMA LoadIs ==
    ASSUME NEW L, IsLedger(L), Linked(L)
    PROVE  LoadFromLedger(L) = [ok |-> TRUE, chain |-> Copied(L)]
<1> DEFINE n == Len(L) - 1
<1>1. Len(L) \in Nat \ {0} /\ DOMAIN L = 1 .. Len(L) /\ n \in Nat
  BY LedgerIs
<1>2. PICK f : /\ Loads(f, L)
               /\ LoadFromLedger(L) = [ok |-> f[n].ok,
                                       chain |-> [ledger |-> L, bank |-> f[n].bank]]
  BY <1>1, LoadFold
<1> DEFINE P == {k \in 0 .. n : f[k] = [ok |-> TRUE, bank |-> CountUpto(L, k + 1)]}
<1>3. 0 \in P
  <2>1. CountUpto(L, 1) = GenesisChain.bank
    <3>1. ToSet(L[1].records) = {}
      BY DEF Linked, GenesisBlock, ToSet
    <3>2. \A t : {i \in 1 .. 1 : t \in ToSet(L[i].records)} = {}
      BY <3>1
    <3>. QED BY <3>2, FS_EmptySet DEF CountUpto, GenesisChain
  <2>2. f[0] = [ok |-> TRUE, bank |-> CountUpto(L, 1)]
    BY <1>2, <2>1 DEF Loads
  <2>3. 0 \in 0 .. n /\ 0 + 1 = 1
    BY <1>1
  <2> HIDE DEF n
  <2>. QED BY <2>2, <2>3
<1>4. ASSUME NEW k \in 1 .. n, k - 1 \in P PROVE k \in P
  <2> DEFINE b == L[k + 1]
  <2>0. /\ k \in Nat /\ k + 1 \in 2 .. Len(L) /\ k \in 1 .. Len(L) - 1 /\ k - 1 + 1 = k
        /\ k + 1 - 1 = k
    BY <1>1
  <2>1. f[k - 1] = [ok |-> TRUE, bank |-> CountUpto(L, k)]
    BY <1>4, <2>0
  <2>2. f[k] = LoadNext(L, f[k - 1], k)
    BY <1>2, <2>0 DEF Loads
  <2>3. /\ b.index = k /\ b.previousHash = Hash(L[k]) /\ b.slotLeader = Leader[b.slot]
        /\ b.records \in Seq(Txs) /\ Len(b.records) <= MaxTransactionsPerBlock
        /\ IsInjective(b.records) /\ \A t \in ToSet(b.records) : ~SpentBefore(L, t, b.slot)
    <3>1. PICK i \in 2 .. Len(L) : i = k + 1 /\ i - 1 = k
      BY <2>0
    <3>2. b = L[i]
      BY <3>1
    <3> HIDE DEF b
    <3>. QED BY <3>1, <3>2 DEF Linked
  <2>4. L[k].index = k - 1
    <3>1. CASE k = 1
      BY <3>1 DEF Linked, GenesisBlock
    <3>2. CASE k # 1
      <4>1. k \in 2 .. Len(L)
        BY <2>0, <3>2
      <4>. QED BY <4>1 DEF Linked
    <3>. QED BY <3>1, <3>2
  <2> HIDE DEF n, P
  <2>5. ReadBlock(L, k) = b /\ ReadBlock(L, k - 1) = L[k]
    BY <2>0 DEF ReadBlock
  <2> HIDE DEF b
  <2>6. ValidBlock(L, b)
    BY <1>1, <2>0, <2>3, <2>4, <2>5 DEF ValidBlock, SequenceValid, NextBlockId
  <2>7. AppliedRecords(L, b) = ToSet(b.records)
    <3>1. DOMAIN b.records = 1 .. Len(b.records) /\ Len(b.records) \in Nat
      BY <2>3, LenProperties
    <3>2. ASSUME NEW i \in DOMAIN b.records, NEW j \in 1 .. i
          PROVE  ~SpentBefore(L, b.records[j], b.slot)
      <4>1. j \in DOMAIN b.records
        BY <3>1
      <4>. QED BY <2>3, <4>1 DEF ToSet
    <3>. QED BY <3>2 DEF AppliedRecords, ToSet
  <2>8. f[k] = ProcessBlock(L, CountUpto(L, k), b)
    BY <2>1, <2>2, <2>3, <2>5 DEF LoadNext
  <2>9. f[k] = [ok |-> TRUE, bank |-> Applied(CountUpto(L, k), ToSet(b.records))]
    BY <2>6, <2>7, <2>8 DEF ProcessBlock
  <2>10. f[k] = [ok |-> TRUE, bank |-> CountUpto(L, k + 1)]
    BY <2>0, <2>9, CountNext DEF b
  <2>. QED BY <1>1, <2>10 DEF P
<1>5. n \in P
  <2> HIDE DEF P, n
  <2>1. 0 .. n \subseteq P
    BY <1>1, <1>3, <1>4, Upwards
  <2>. QED BY <1>1, <2>1
<1>6. f[n] = [ok |-> TRUE, bank |-> Count(L)]
  BY <1>1, <1>5 DEF Count
<1> HIDE DEF n
<1>. QED BY <1>2, <1>6 DEF Copied

\* A node that fetches the blocks after its ledger has them all, and its bank has
\* applied them.
LEMMA CatchUp ==
    ASSUME NEW M, IsLedger(M), Linked(M), NEW L, IsLedger(L), Begins(L, M),
           NEW to \in Len(L) .. Len(M)
    PROVE  \E N : /\ IsLedger(N) /\ Begins(N, M) /\ Len(N) = to
                  /\ AddBlocks(Copied(L), SubSeq(M, Len(L) + 1, to))
                        = [ok |-> TRUE, chain |-> Copied(N)]
<1> DEFINE blocks == SubSeq(M, Len(L) + 1, to)
           have   == Len(L)
           c      == Copied(L)
           f      == CHOOSE f : After(c, blocks, f)
<1>1. /\ have \in Nat \ {0} /\ Len(M) \in Nat /\ to \in Nat /\ have <= to /\ to <= Len(M)
      /\ DOMAIN M = 1 .. Len(M)
  BY LedgerIs
<1>2. Len(blocks) = to - have /\ \A i \in 1 .. to - have : blocks[i] = M[have + i]
  <2>1. \A i \in have + 1 .. to : M[i] \in ToSet(M)
    BY <1>1 DEF ToSet
  <2>2. M \in Seq(ToSet(M))
    BY DEF IsLedger
  <2>3. CASE have + 1 <= to
    <3> HIDE DEF have
    <3>1. Len(SubSeq(M, have + 1, to)) = to - (have + 1) + 1
          /\ \A i \in 1 .. to - (have + 1) + 1 : SubSeq(M, have + 1, to)[i] = M[have + 1 + i - 1]
      BY <1>1, <2>1, <2>2, <2>3, SubSeqProperties
    <3>2. to - (have + 1) + 1 = to - have /\ \A i \in Nat : have + 1 + i - 1 = have + i
      BY <1>1
    <3>. QED BY <3>1, <3>2 DEF have
  <2>4. CASE have = to
    <3>1. blocks = <<>>
      BY <1>1, <2>4, SubSeqEmpty
    <3>. QED BY <1>1, <2>4, <3>1
  <2>. QED BY <1>1, <2>3, <2>4
<1>3. AddBlocks(c, blocks) = f[Len(blocks)]
  BY DEF AddBlocks, After
<1>4. After(c, blocks, f)
  <2>1. to - have \in Nat
    BY <1>1
  <2>2. Len(blocks) \in Nat
    BY <1>2, <2>1
  <2> HIDE DEF blocks
  <2>. QED BY <2>2, AfterExists
<1> HIDE DEF f, blocks
<1>5. /\ f[0] = [ok |-> TRUE, chain |-> c]
      /\ \A k \in 1 .. Len(blocks) :
            f[k] = IF f[k - 1].ok THEN AddBlock(f[k - 1].chain, blocks[k]) ELSE f[k - 1]
  BY <1>1, <1>2, <1>4 DEF After
<1> HIDE DEF have
<1> DEFINE At(k) == \E N : /\ IsLedger(N) /\ Begins(N, M) /\ Len(N) = have + k
                           /\ f[k] = [ok |-> TRUE, chain |-> Copied(N)]
           P == {k \in 0 .. to - have : At(k)}
<1>6. 0 \in P
  <2>1. 0 \in 0 .. to - have /\ Len(L) = have + 0
    BY <1>1 DEF have
  <2>2. f[0] = [ok |-> TRUE, chain |-> Copied(L)]
    BY <1>5
  <2>3. At(0)
    BY <2>1, <2>2
  <2>. QED BY <2>1, <2>3
<1>7. ASSUME NEW k \in 1 .. to - have, k - 1 \in P PROVE k \in P
  <2>1. PICK N : /\ IsLedger(N) /\ Begins(N, M) /\ Len(N) = have + (k - 1)
                 /\ f[k - 1] = [ok |-> TRUE, chain |-> Copied(N)]
    BY <1>7
  <2> DEFINE b == M[Len(N) + 1]
  <2>2. Len(N) < Len(M) /\ Len(N) + 1 = have + k /\ have + k \in 1 .. Len(M)
    BY <1>1, <2>1
  <2>3. f[k] = AddBlock(Copied(N), b)
    BY <1>1, <1>2, <1>5, <2>1, <2>2
  <2>4. Follows(N, b) /\ IsInjective(b.records) /\ Linked(N) /\ b.slot \in Nat
    <3>1. b.slot \in Nat
      BY <2>2 DEF Linked
    <3>. QED BY <2>1, <2>2, <3>1, NextFollows, LinkedBegins
  <2> HIDE DEF b
  <2>5. f[k] = [ok |-> TRUE, chain |-> Copied(Append(N, b))]
    BY <2>1, <2>3, <2>4, AddFollows
  <2>6. IsLedger(Append(N, b))
    BY <2>1, <2>4, LinkedAppend
  <2>7. Len(Append(N, b)) = have + k /\ Begins(Append(N, b), M)
    <3>1. /\ Len(Append(N, b)) = Len(N) + 1 /\ Append(N, b)[Len(N) + 1] = b
          /\ \A i \in 1 .. Len(N) : Append(N, b)[i] = N[i]
          /\ Len(N) \in Nat
      BY <2>1, AppendIs DEF IsLedger
    <3>2. \A i \in 1 .. Len(N) + 1 : Append(N, b)[i] = M[i]
      <4>1. \A i \in 1 .. Len(N) + 1 : i \in 1 .. Len(N) \/ i = Len(N) + 1
        BY <3>1
      <4>. QED BY <2>1, <3>1, <4>1 DEF b, Begins
    <3>. QED BY <2>2, <3>1, <3>2 DEF Begins
  <2>8. At(k)
    BY <2>5, <2>6, <2>7
  <2>9. k \in 0 .. to - have
    BY <1>1
  <2> HIDE DEF At
  <2>. QED BY <2>8, <2>9
<1>8. to - have \in P
  <2> HIDE DEF P
  <2>1. to - have \in Nat
    BY <1>1
  <2>2. 0 .. to - have \subseteq P
    BY <1>6, <1>7, <2>1, Upwards
  <2>. QED BY <2>1, <2>2
<1>9. PICK N : /\ IsLedger(N) /\ Begins(N, M) /\ Len(N) = have + (to - have)
               /\ f[to - have] = [ok |-> TRUE, chain |-> Copied(N)]
  BY <1>8
<1>10. have + (to - have) = to
  BY <1>1
<1>. QED BY <1>2, <1>3, <1>9, <1>10 DEF blocks, have

\* Two beginnings of a ledger: one begins the other, and equally long ones are one.
LEMMA BeginsBoth ==
    ASSUME NEW M, NEW L, IsLedger(L), NEW K, IsLedger(K), Begins(L, M), Begins(K, M),
           Len(L) <= Len(K)
    PROVE  Begins(L, K) /\ (Len(K) <= Len(L) => L = K)
<1>1. /\ Len(L) \in Nat /\ Len(K) \in Nat
      /\ DOMAIN L = 1 .. Len(L) /\ DOMAIN K = 1 .. Len(K)
      /\ L = [i \in 1 .. Len(L) |-> L[i]] /\ K = [i \in 1 .. Len(K) |-> K[i]]
  <2>1. L \in Seq(ToSet(L)) /\ K \in Seq(ToSet(K))
    BY DEF IsLedger
  <2>. QED BY <2>1, LenProperties
<1>2. \A i \in 1 .. Len(L) : L[i] = K[i]
  BY <1>1 DEF Begins
<1>3. ASSUME Len(K) <= Len(L) PROVE L = K
  <2>1. Len(K) \in Nat /\ Len(L) \in Nat
    BY <1>1
  <2>2. Len(K) = Len(L)
    BY <1>3, <2>1
  <2>. QED BY <1>1, <1>2, <2>2
<1>. QED BY <1>2, <1>3 DEF Begins

----------------------------------------------------------------------------
(* One leader.  When one miner leads every slot, its upstream's answers     *)
(* arrive and it has one upstream, every node has a beginning of the        *)
(* beacon's chain and the bank of it, whatever is lost, late or restarted.  *)

TheLeader == Leader[1]

\* Every node has a beginning of the beacon's chain and the bank of it; a relay
\* that is the upstream has all of it.
Copies ==
    /\ Linked(BeaconLedger)
    /\ \A n \in Nodes : Begins(chain[n].ledger, BeaconLedger) /\ chain[n] = Copied(chain[n].ledger)
    /\ Upstreams[1] = Relay => chain[Relay].ledger = BeaconLedger

\* The leader has what the beacon has, but for the block it is sending, which
\* follows the beacon's chain until it is taken.
LeaderKnows ==
    LET s == sending[TheLeader]
        L == chain[TheLeader].ledger
    IN  /\ ~s.ok /\ (s # Idle \/ TheLeader \in up) => L = BeaconLedger
        /\ s.ok => s.left = <<>> /\ BeaconLedger = Append(L, s.block)
        /\ s.left # <<>> => /\ s.left = Upstreams
                            /\ Follows(BeaconLedger, s.block)
                            /\ s.block.records # <<>>

\* The pool is empty while a block is sent, and what is in the pool of a leader
\* that has evaluated its slot may go into a block.
PoolFresh ==
    /\ sending[TheLeader] # Idle => pool[TheLeader] = <<>>
    /\ prepared[TheLeader] = slot => \A t \in ToSet(pool[TheLeader]) : Fresh(TheLeader, t)

OnlyLeader == \A m \in Miners \ {TheLeader} : sending[m] = Idle

CopyInv == FlowInv /\ Copies /\ OnlyLeader /\ LeaderKnows /\ PoolFresh

\* With one leader it leads every slot.
LEMMA LeaderSame ==
    ASSUME OneLeader, ClocksTyped
    PROVE  Leader[slot] = TheLeader /\ TheLeader \in Miners /\ TheLeader \in Nodes
<1>1. slot \in 1 .. MaxSlot /\ 1 \in 1 .. MaxSlot
  BY ChainAssumption DEF ClocksTyped
<1>. QED BY <1>1, ChainAssumption DEF OneLeader, TheLeader, Nodes

\* The one upstream.
LEMMA UpstreamIs ==
    ASSUME OneUpstream
    PROVE  /\ Upstreams[1] \in {Beacon, Relay} /\ Head(Upstreams) = Upstreams[1]
           /\ Tail(Upstreams) = <<>>
<1>1. Upstreams \in Seq({Beacon, Relay}) /\ Len(Upstreams) = 1 /\ Upstreams # <<>>
  BY FlowAssumption DEF OneUpstream
<1>2. /\ Tail(Upstreams) \in Seq({Beacon, Relay}) /\ Len(Tail(Upstreams)) = 0
      /\ Head(Upstreams) = Upstreams[1]
  BY <1>1, HeadTailProperties
<1>. QED BY <1>1, <1>2, EmptySeq, ElementOfSeq

\* What every node has.
LEMMA CopyIs ==
    ASSUME CopyInv, NEW n \in Nodes
    PROVE  /\ IsLedger(chain[n].ledger) /\ IsLedger(BeaconLedger)
           /\ Linked(chain[n].ledger) /\ Linked(BeaconLedger)
           /\ Begins(chain[n].ledger, BeaconLedger)
           /\ chain[n] = Copied(chain[n].ledger)
           /\ LoadFromLedger(chain[n].ledger) = [ok |-> TRUE, chain |-> chain[n]]
<1>1. IsLedger(chain[n].ledger) /\ IsLedger(BeaconLedger)
  BY DEF CopyInv, FlowInv, Inv, LedgersGood, Good, Blocks, IsLedger, BeaconLedger, Nodes
<1>2. /\ Linked(BeaconLedger) /\ Begins(chain[n].ledger, BeaconLedger)
      /\ chain[n] = Copied(chain[n].ledger)
  BY DEF CopyInv, Copies
<1>3. Linked(chain[n].ledger)
  BY <1>1, <1>2, LinkedBegins
<1>4. LoadFromLedger(chain[n].ledger) = [ok |-> TRUE, chain |-> Copied(chain[n].ledger)]
  BY <1>1, <1>3, LoadIs
<1>. QED BY <1>1, <1>2, <1>3, <1>4

\* The bank of a chain is the ledger's.
LEMMA CopiedIs == \A L : Copied(L).ledger = L
BY DEF Copied

\* What a node fetches makes its chain a longer beginning of the beacon's.
LEMMA FetchIs ==
    ASSUME CopyInv, NEW n \in Nodes \ {Beacon},
           NEW blocks \in Fetches(n, Len(chain[n].ledger))
    PROVE  \E N : /\ IsLedger(N) /\ Begins(N, BeaconLedger)
                  /\ Len(chain[n].ledger) <= Len(N) /\ Len(N) <= Len(chain[Source(n)].ledger)
                  /\ AddBlocks(chain[n], blocks) = [ok |-> TRUE, chain |-> Copied(N)]
<1> DEFINE L == chain[n].ledger
           S == chain[Source(n)].ledger
<1>1. /\ IsLedger(L) /\ IsLedger(S) /\ IsLedger(BeaconLedger) /\ Linked(S)
      /\ Begins(L, BeaconLedger) /\ Begins(S, BeaconLedger) /\ chain[n] = Copied(L)
  BY CopyIs, SourceNodes
<1>2. PICK k \in Len(L) .. Len(S) : blocks = SubSeq(S, Len(L) + 1, k)
  BY DEF Fetches
<1> HIDE DEF L, S
<1>3. Len(L) \in Nat /\ Len(S) \in Nat /\ Len(L) <= Len(S) /\ k <= Len(S) /\ Len(L) <= k
  BY <1>1, <1>2, LedgerIs
<1>4. Begins(L, S)
  BY <1>1, <1>3, BeginsBoth
<1>5. PICK N : /\ IsLedger(N) /\ Begins(N, S) /\ Len(N) = k
               /\ AddBlocks(Copied(L), SubSeq(S, Len(L) + 1, k)) = [ok |-> TRUE, chain |-> Copied(N)]
  BY <1>1, <1>2, <1>4, CatchUp
<1>6. Begins(N, BeaconLedger)
  <2>1. /\ Len(BeaconLedger) \in Nat /\ Len(N) \in Nat
        /\ Len(N) <= Len(S) /\ Len(S) <= Len(BeaconLedger)
        /\ \A i \in 1 .. Len(N) : N[i] = S[i]
        /\ \A i \in 1 .. Len(S) : S[i] = BeaconLedger[i]
    BY <1>1, <1>5, LedgerIs DEF Begins
  <2>. QED BY <1>3, <2>1 DEF Begins
<1>. QED BY <1>1, <1>2, <1>3, <1>5, <1>6 DEF L, S

\* A ledger that begins one that begins a third begins the third.
LEMMA BeginsMore ==
    ASSUME NEW L, IsLedger(L), NEW M, IsLedger(M), NEW N, IsLedger(N), Begins(L, M), Begins(M, N)
    PROVE  Begins(L, N)
<1>1. /\ Len(L) \in Nat /\ Len(M) \in Nat /\ Len(N) \in Nat
      /\ Len(L) <= Len(M) /\ Len(M) <= Len(N)
      /\ \A i \in 1 .. Len(L) : L[i] = M[i]
      /\ \A i \in 1 .. Len(M) : M[i] = N[i]
  BY LedgerIs DEF Begins
<1>2. \A i \in 1 .. Len(L) : i \in 1 .. Len(M)
  BY <1>1
<1>. QED BY <1>1, <1>2 DEF Begins

\* A beginning that is as long as the ledger is the ledger.
LEMMA BeginsWhole ==
    ASSUME NEW L, IsLedger(L), NEW M, IsLedger(M), Begins(L, M), Len(M) <= Len(L)
    PROVE  L = M
<1>1. Len(M) \in Nat /\ Len(L) \in Nat /\ Len(L) <= Len(M) /\ Begins(M, M)
  BY LedgerIs DEF Begins
<1>. QED BY <1>1, BeginsBoth

\* A step that leaves the beacon's ledger alone and makes the chain of a node
\* that neither is the beacon nor the relay of the leader's upstream a beginning
\* of it.
LEMMA CopiesOne ==
    ASSUME CopyInv, NEW n \in Nodes \ {Beacon}, NEW N, Begins(N, BeaconLedger),
           n = Relay /\ Upstreams[1] = Relay => N = BeaconLedger,
           chain' = [chain EXCEPT ![n] = Copied(N)]
    PROVE  Copies' /\ BeaconLedger' = BeaconLedger
<1>1. chain = [k \in Nodes |-> chain[k]] /\ Beacon \in Nodes
  BY DEF CopyInv, FlowInv, Inv, LedgersGood, Nodes
<1>2. /\ chain'[n] = Copied(N) /\ chain'[n].ledger = N
      /\ \A k \in Nodes \ {n} : chain'[k] = chain[k]
  BY <1>1, CopiedIs
<1>3. BeaconLedger' = BeaconLedger
  BY <1>1, <1>2 DEF BeaconLedger
<1>4. /\ Linked(BeaconLedger)
      /\ \A k \in Nodes : /\ Begins(chain[k].ledger, BeaconLedger)
                          /\ chain[k] = Copied(chain[k].ledger)
      /\ Upstreams[1] = Relay => chain[Relay].ledger = BeaconLedger
  BY DEF CopyInv, Copies
<1>5. \A k \in Nodes : /\ Begins(chain'[k].ledger, BeaconLedger)
                       /\ chain'[k] = Copied(chain'[k].ledger)
  BY <1>2, <1>4
<1>6. Upstreams[1] = Relay => chain'[Relay].ledger = BeaconLedger
  <2>1. Relay \in Nodes
    BY DEF Nodes
  <2>. QED BY <1>2, <1>4, <2>1
<1>. QED BY <1>3, <1>4, <1>5, <1>6 DEF Copies

\* What is fresh stays so while the leader's chain and the slot stay.
LEMMA FreshSame ==
    ASSUME NEW m, UNCHANGED <<slot, chain>>
    PROVE  \A t : Fresh(m, t)' <=> Fresh(m, t)
BY DEF Fresh

\* A step that leaves chains, senders and servers alone and the leader's pool
\* fresh.
LEMMA CopySame ==
    ASSUME CopyInv, FlowInv', UNCHANGED <<chain, sending>>, up' = up, PoolFresh'
    PROVE  CopyInv'
<1>1. Copies' /\ OnlyLeader' /\ LeaderKnows'
  BY DEF CopyInv, Copies, BeaconLedger, OnlyLeader, LeaderKnows
<1>. QED BY <1>1 DEF CopyInv

\* A client's transaction is put into the pool when it is fresh.
LEMMA CopyTxAdd ==
    ASSUME CopyInv, OneLeader, NEW m \in Miners, NEW t \in Txs, HTxAdd(m, t)
    PROVE  CopyInv'
<1>1. FlowInv /\ FlowInv'
  BY FlowStep DEF CopyInv, Next
<1>2. UNCHANGED <<slot, up, chain, prepared, sending>>
  BY DEF HTxAdd
<1>3. Leader[slot] = TheLeader /\ TheLeader \in Miners
  BY <1>1, LeaderSame DEF FlowInv, Typed
<1>4. pool \in [Miners -> Seq(Txs)]
  BY <1>1 DEF FlowInv, Typed, QueuesTyped
<1>5. \/ UNCHANGED pool
      \/ /\ sending[TheLeader] = Idle /\ Fresh(TheLeader, t)
         /\ pool'[TheLeader] = Append(pool[TheLeader], t)
  BY <1>3, <1>4 DEF HTxAdd, Pooled, NotPooled, Cached, Free
<1>6. CASE UNCHANGED pool
  BY <1>1, <1>2, <1>6, FreshSame, CopySame DEF CopyInv, PoolFresh
<1>7. CASE /\ sending[TheLeader] = Idle /\ Fresh(TheLeader, t)
           /\ pool'[TheLeader] = Append(pool[TheLeader], t)
  <2>1. ToSet(pool'[TheLeader]) = ToSet(pool[TheLeader]) \cup {t}
    BY <1>3, <1>4, <1>7, AppendIn
  <2>2. PoolFresh'
    BY <1>2, <1>7, <2>1, FreshSame DEF CopyInv, PoolFresh
  <2>. QED BY <1>1, <1>2, <2>2, CopySame
<1>. QED BY <1>5, <1>6, <1>7

\* So is what another miner passes on.
LEMMA CopyRetry ==
    ASSUME CopyInv, OneLeader, NEW m \in Miners, RetryForwards(m)
    PROVE  CopyInv'
<1>1. FlowInv /\ FlowInv'
  BY FlowStep DEF CopyInv, Next
<1>2. UNCHANGED <<slot, up, chain, prepared, sending>>
  BY DEF RetryForwards
<1>3. Leader[slot] = TheLeader /\ TheLeader \in Miners
  BY <1>1, LeaderSame DEF FlowInv, Typed
<1>4. pool \in [Miners -> Seq(Txs)] /\ cache \in [Miners -> Seq(Txs)]
  BY <1>1 DEF FlowInv, Typed, QueuesTyped
<1>5. CASE UNCHANGED pool
  BY <1>1, <1>2, <1>5, FreshSame, CopySame DEF CopyInv, PoolFresh
<1>6. ASSUME NEW gets, \A t \in gets : Fresh(TheLeader, t), Free(TheLeader),
             pool' = [pool EXCEPT ![TheLeader] = @ \o Only(cache[m], gets)]
      PROVE  CopyInv'
  <2>1. /\ Only(cache[m], gets) \in Seq(Txs)
        /\ ToSet(Only(cache[m], gets)) = ToSet(cache[m]) \cap gets
    BY <1>4, OnlyIs
  <2>2. ToSet(pool'[TheLeader]) = ToSet(pool[TheLeader]) \cup (ToSet(cache[m]) \cap gets)
    <3>1. pool'[TheLeader] = pool[TheLeader] \o Only(cache[m], gets)
      BY <1>3, <1>4, <1>6
    <3>2. pool[TheLeader] \in Seq(Txs)
      BY <1>3, <1>4
    <3>. QED BY <2>1, <3>1, <3>2, ConcatIn
  <2>3. PoolFresh'
    BY <1>2, <1>6, <2>2, FreshSame DEF CopyInv, PoolFresh, Free
  <2>. QED BY <1>1, <1>2, <2>3, CopySame
<1>7. \/ UNCHANGED pool
      \/ \E gets : /\ \A t \in gets : Fresh(TheLeader, t)
                   /\ Free(TheLeader)
                   /\ pool' = [pool EXCEPT ![TheLeader] = @ \o Only(cache[m], gets)]
  <2>1. CASE UNCHANGED <<pool, cache>>
    BY <2>1
  <2>2. ASSUME NEW s \in Mishaps(m), Free(Leader[slot]),
               LET gets == {t \in Txs \ s[1] : Fresh(Leader[slot], t)}
               IN  pool' = [pool EXCEPT ![Leader[slot]] = @ \o Only(cache[m], gets)]
        PROVE  \E gets : /\ \A t \in gets : Fresh(TheLeader, t)
                         /\ Free(TheLeader)
                         /\ pool' = [pool EXCEPT ![TheLeader] = @ \o Only(cache[m], gets)]
    <3> DEFINE gets == {t \in Txs \ s[1] : Fresh(TheLeader, t)}
    <3>1. pool' = [pool EXCEPT ![TheLeader] = @ \o Only(cache[m], gets)] /\ Free(TheLeader)
      BY <1>3, <2>2
    <3>2. \A t \in gets : Fresh(TheLeader, t)
      OBVIOUS
    <3> HIDE DEF gets
    <3>. QED BY <3>1, <3>2
  <2>. QED BY <2>1, <2>2 DEF RetryForwards
<1>. QED BY <1>5, <1>6, <1>7

\* The leader makes its block of what is fresh, to go after the last block the
\* beacon has.
LEMMA CopyHandle ==
    ASSUME CopyInv, OneLeader, NEW m \in Miners, HandleSlotLeaderRole(m)
    PROVE  CopyInv'
<1>1. FlowInv /\ FlowInv' /\ m \in Nodes
  BY FlowStep DEF CopyInv, Next, Nodes
<1>2. /\ Leader[slot] = TheLeader /\ TheLeader = m /\ Free(m)
      /\ UNCHANGED <<slot, up, chain, produced>>
  BY <1>1, LeaderSame, HandleIs DEF FlowInv, Typed
<1>3. /\ pool \in [Miners -> Seq(Txs)] /\ prepared \in [Miners -> 0 .. slot] /\ slot \in Nat \ {0}
  BY <1>1, ChainAssumption DEF FlowInv, Typed, QueuesTyped, ClocksTyped
<1> DEFINE p == Handled(m)
<1>4. /\ p \in Seq(Txs)
      /\ ToSet(p) = ToSet(pool[m]) \cup (ToSet(cache[m]) \cap FreshAt(m))
  BY <1>1, HandledIs DEF FlowInv, Typed
<1>5. Prepares(m, p) => \A t \in ToSet(p) : Fresh(m, t)
  <2>1. prepared[m] = slot => \A t \in ToSet(pool[m]) : Fresh(m, t)
    BY <1>2 DEF CopyInv, PoolFresh
  <2>. QED BY <1>4, <2>1 DEF Prepares, FreshAt
<1>6. CASE Starts(m)
  <2>1. /\ sending'[m] = [block |-> Made(m), left |-> Upstreams, ok |-> FALSE]
        /\ \A k \in Miners \ {m} : sending'[k] = sending[k]
        /\ pool'[m] = <<>>
    BY <1>1, <1>3, <1>6 DEF Starts, FlowInv, Inv, SendingGood
  <2>2. chain[m].ledger = BeaconLedger
    BY <1>2 DEF CopyInv, LeaderKnows, Free, Idle
  <2>3. IsLedger(BeaconLedger) /\ Linked(BeaconLedger)
    BY <1>1, CopyIs
  <2>4. Made(m).records # <<>> /\ Follows(BeaconLedger, Made(m))
    <3>1. /\ Made(m).slot = slot /\ Made(m).slotLeader = m
          /\ Made(m).index = Last(BeaconLedger).index + 1
          /\ Made(m).previousHash = Hash(Last(BeaconLedger))
          /\ Made(m).records = BlockTransactions(p)
      BY <1>1, <2>2, MadeIs
    <3>2. /\ BlockTransactions(p) \in Seq(Txs) /\ BlockTransactions(p) # <<>>
          /\ Len(BlockTransactions(p)) <= MaxTransactionsPerBlock
          /\ ToSet(BlockTransactions(p)) \subseteq ToSet(p)
      BY <1>4, <1>6, PartsOf DEF Starts
    <3>3. Last(BeaconLedger) = BeaconLedger[Len(BeaconLedger)]
      BY DEF Last
    <3>4. BeaconLedger[Len(BeaconLedger)].index + 1 = Len(BeaconLedger)
      <4>1. Len(BeaconLedger) \in Nat \ {0}
        BY <2>3, LedgerIs
      <4>2. CASE Len(BeaconLedger) = 1
        BY <2>3, <4>2 DEF Linked, GenesisBlock
      <4>3. CASE Len(BeaconLedger) # 1
        <5>1. Len(BeaconLedger) \in 2 .. Len(BeaconLedger)
          BY <4>1, <4>3
        <5>2. BeaconLedger[Len(BeaconLedger)].index = Len(BeaconLedger) - 1
          BY <2>3, <5>1 DEF Linked
        <5>. QED BY <4>1, <5>2
      <4>. QED BY <4>2, <4>3
    <3>5. \A t \in ToSet(p) : ~SpentBefore(BeaconLedger, t, slot)
      BY <1>5, <1>6, <2>2 DEF Starts, Fresh
    <3> HIDE DEF p
    <3>. QED BY <1>2, <3>1, <3>2, <3>3, <3>4, <3>5 DEF Follows
  <2>5. BeaconLedger' = BeaconLedger
    BY <1>2 DEF BeaconLedger
  <2>6. LeaderKnows'
    BY <1>2, <2>1, <2>2, <2>4, <2>5 DEF LeaderKnows
  <2>7. PoolFresh'
    <3>1. ToSet(<<>>) = {}
      BY DEF ToSet
    <3>. QED BY <1>2, <2>1, <3>1 DEF PoolFresh
  <2>8. OnlyLeader' /\ Copies'
    BY <1>2, <2>1, <2>5 DEF CopyInv, OnlyLeader, Copies
  <2>. QED BY <1>1, <2>6, <2>7, <2>8 DEF CopyInv
<1>7. CASE /\ pool' = [pool EXCEPT ![m] = p] /\ UNCHANGED sending
  <2>1. pool'[m] = p /\ sending[m] = Idle
    BY <1>2, <1>3, <1>7 DEF Free
  <2>2. prepared'[m] = slot => \A t \in ToSet(p) : Fresh(m, t)
    <3>1. prepared' = [prepared EXCEPT ![m] =
             IF ~NotYetProduced(m) THEN @ ELSE IF Prepares(m, p) THEN slot ELSE 0]
      BY DEF HandleSlotLeaderRole, Handled, FreshAt
    <3>2. CASE ~NotYetProduced(m)
      <4>1. prepared'[m] = prepared[m]
        BY <1>3, <3>1, <3>2
      <4>2. prepared[m] = slot => Prepares(m, p)
        BY DEF Prepares
      <4>. QED BY <1>5, <4>1, <4>2
    <3>3. CASE NotYetProduced(m) /\ Prepares(m, p)
      BY <1>5, <3>3
    <3>4. CASE NotYetProduced(m) /\ ~Prepares(m, p)
      <4>1. prepared'[m] = 0
        BY <1>3, <3>1, <3>4
      <4>. QED BY <1>3, <4>1
    <3>. QED BY <3>2, <3>3, <3>4
  <2>3. PoolFresh'
    BY <1>2, <1>7, <2>1, <2>2, FreshSame DEF PoolFresh
  <2>. QED BY <1>1, <1>2, <1>7, <2>3, CopySame
<1>. QED BY <1>6, <1>7, HandleIs

\* A block that is sent is of a slot that has begun.
LEMMA SentSlot ==
    ASSUME FlowInv, NEW m \in Miners
    PROVE  sending[m].block.slot \in Nat /\ sending[m].block.slot <= slot
<1>1. slot \in Nat
  BY DEF FlowInv, Typed, ClocksTyped
<1>2. sending[m].block.slot \in 0 .. slot
  BY DEF FlowInv, Typed, BlocksTyped, IsBlock
<1> DEFINE x == sending[m].block.slot
<1> HIDE DEF x
<1>3. x \in 0 .. slot => x \in Nat /\ x <= slot
  BY <1>1
<1>. QED BY <1>2, <1>3 DEF x

\* The beacon takes the leader's block, unless it names a transaction twice.
LEMMA CopyCall ==
    ASSUME CopyInv, OneLeader, OneUpstream, BlocksAnswered, NEW m \in Miners, CallUpstream(m)
    PROVE  CopyInv'
<1> DEFINE s == sending[m]
           b == s.block
           L == BeaconLedger
           M == Append(L, b)
           n == Head(s.left)
           a == AddBlock(chain[Beacon], b)
           Sent(ok) == [k \in Miners |->
               IF k = m THEN [block |-> b, left |-> Tail(s.left), ok |-> ok] ELSE sending[k]]
<1>1. /\ FlowInv /\ FlowInv' /\ m \in Nodes /\ Beacon \in Nodes /\ Relay \in Nodes
      /\ m # Beacon /\ m # Relay /\ Beacon # Relay
  BY FlowStep, FlowAssumption DEF CopyInv, Next, Nodes
<1>2. s # Idle /\ s.left # <<>> /\ m = TheLeader
  BY DEF CallUpstream, Idle, CopyInv, OnlyLeader
<1>3. /\ ~s.ok /\ s.left = Upstreams /\ Follows(L, b) /\ b.records # <<>>
      /\ chain[m].ledger = L /\ pool[m] = <<>>
  BY <1>2 DEF CopyInv, LeaderKnows, PoolFresh
<1>4. n = Upstreams[1] /\ n \in {Beacon, Relay} /\ Tail(s.left) = <<>>
  BY <1>3, UpstreamIs
<1>5. UNCHANGED <<slot, up, pool, prepared>>
  BY DEF CallUpstream
<1>6. /\ IsLedger(L) /\ Linked(L) /\ b.slot \in Nat
      /\ chain[Beacon] = Copied(L)
      /\ n = Relay => chain[Relay] = Copied(L)
  <2>1. b.slot \in Nat
    BY <1>1, SentSlot
  <2>2. chain[Beacon] = Copied(L)
    BY <1>1, CopyIs DEF BeaconLedger
  <2>3. n = Relay => chain[Relay] = Copied(L)
    BY <1>1, <1>4, CopyIs DEF CopyInv, Copies
  <2>. QED BY <1>1, <2>1, <2>2, <2>3, CopyIs
<1>7. a = IF IsInjective(b.records) THEN [ok |-> TRUE, chain |-> Copied(M)]
          ELSE [ok |-> FALSE, chain |-> Copied(L)]
  BY <1>3, <1>6, AddFollows
<1>8. chain = [k \in Nodes |-> chain[k]]
  BY <1>1 DEF FlowInv, Inv, LedgersGood
<1>9. \/ chain' = chain /\ sending' = Sent(s.ok)
      \/ /\ chain' = HBlockAdd(n, b).chain
         /\ \/ a.ok /\ sending' = Sent(TRUE)
            \/ ~a.ok /\ sending' = Sent(s.ok)
  BY <1>1, CallIs
<1>10. \/ chain' = chain /\ sending' = Sent(FALSE)
       \/ /\ IsInjective(b.records) /\ sending' = Sent(TRUE)
          /\ chain'[Beacon] = Copied(M)
          /\ n = Relay => chain'[Relay] = Copied(M)
          /\ \A k \in Nodes \ {Beacon, Relay} : chain'[k] = chain[k]
          /\ n = Beacon => chain'[Relay] = chain[Relay]
  <2>1. s.ok = FALSE
    BY <1>1, <1>3 DEF FlowInv, Typed, BlocksTyped
  <2>2. HBlockAdd(n, b).chain =
           IF n = Beacon \/ ~a.ok THEN [chain EXCEPT ![Beacon] = a.chain]
           ELSE [chain EXCEPT ![Beacon] = a.chain,
                              ![Relay] = AddBlock(chain[Relay], b).chain]
    BY DEF HBlockAdd
  <2>3. n = Relay => AddBlock(chain[Relay], b) = a
    BY <1>6
  <2> HIDE DEF a, Sent, M, L, n, b, s
  <2>4. CASE chain' = chain /\ sending' = Sent(s.ok)
    BY <2>1, <2>4
  <2>5. CASE chain' = HBlockAdd(n, b).chain /\ ~a.ok /\ sending' = Sent(s.ok)
    <3>1. a.chain = chain[Beacon]
      BY <1>6, <1>7, <2>5
    <3>2. chain' = [chain EXCEPT ![Beacon] = chain[Beacon]]
      BY <2>2, <2>5, <3>1
    <3>. QED BY <1>8, <2>1, <2>5, <3>2
  <2>6. CASE chain' = HBlockAdd(n, b).chain /\ a.ok /\ sending' = Sent(TRUE)
    <3>1. a.chain = Copied(M) /\ IsInjective(b.records)
      BY <1>7, <2>6
    <3>2. CASE n = Beacon
      <4>1. chain' = [chain EXCEPT ![Beacon] = Copied(M)]
        BY <2>2, <2>6, <3>1, <3>2
      <4>. QED BY <1>1, <1>8, <2>6, <3>1, <3>2, <4>1
    <3>3. CASE n = Relay
      <4>1. chain' = [chain EXCEPT ![Beacon] = Copied(M), ![Relay] = Copied(M)]
        BY <1>1, <2>2, <2>3, <2>6, <3>1, <3>3
      <4>. QED BY <1>1, <1>8, <2>6, <3>1, <3>3, <4>1
    <3>. QED BY <1>4, <3>2, <3>3
  <2>. QED BY <1>9, <2>4, <2>5, <2>6
<1>11. CASE chain' = chain /\ sending' = Sent(FALSE)
  <2>1. /\ sending'[m] = [block |-> b, left |-> <<>>, ok |-> FALSE]
        /\ \A k \in Miners \ {m} : sending'[k] = sending[k]
    BY <1>4, <1>11
  <2>2. LeaderKnows'
    BY <1>2, <1>3, <1>11, <2>1 DEF LeaderKnows, BeaconLedger
  <2>3. Copies' /\ OnlyLeader'
    BY <1>2, <1>11, <2>1 DEF CopyInv, Copies, OnlyLeader, BeaconLedger
  <2>4. PoolFresh'
    BY <1>2, <1>3, <1>5, <1>11, FreshSame DEF CopyInv, PoolFresh
  <2>. QED BY <1>1, <2>2, <2>3, <2>4 DEF CopyInv
<1>12. CASE /\ IsInjective(b.records) /\ sending' = Sent(TRUE)
            /\ chain'[Beacon] = Copied(M)
            /\ n = Relay => chain'[Relay] = Copied(M)
            /\ \A k \in Nodes \ {Beacon, Relay} : chain'[k] = chain[k]
            /\ n = Beacon => chain'[Relay] = chain[Relay]
  <2>1. IsLedger(M) /\ Linked(M) /\ Begins(L, M)
    BY <1>3, <1>6, <1>12, LinkedAppend
  <2>2. BeaconLedger' = M
    BY <1>12, CopiedIs DEF BeaconLedger
  <2>3. \A k \in Nodes : /\ Begins(chain'[k].ledger, M)
                         /\ chain'[k] = Copied(chain'[k].ledger)
    <3>1. ASSUME NEW k \in Nodes, chain'[k] = Copied(M)
          PROVE  Begins(chain'[k].ledger, M) /\ chain'[k] = Copied(chain'[k].ledger)
      <4>1. Begins(M, M)
        BY <2>1, LedgerIs DEF Begins
      <4>. QED BY <3>1, <4>1, CopiedIs
    <3>2. ASSUME NEW k \in Nodes, chain'[k] = chain[k]
          PROVE  Begins(chain'[k].ledger, M) /\ chain'[k] = Copied(chain'[k].ledger)
      <4>1. /\ IsLedger(chain[k].ledger) /\ Begins(chain[k].ledger, L)
            /\ chain[k] = Copied(chain[k].ledger)
        BY CopyIs
      <4> HIDE DEF M, L
      <4>2. Begins(chain[k].ledger, M)
        BY <1>6, <2>1, <4>1, BeginsMore
      <4>. QED BY <3>2, <4>1, <4>2
    <3> HIDE DEF M, n
    <3>3. ASSUME NEW k \in Nodes PROVE chain'[k] = Copied(M) \/ chain'[k] = chain[k]
      BY <1>4, <1>12
    <3>. QED BY <3>1, <3>2, <3>3
  <2>4. Copies'
    <3>1. Upstreams[1] = Relay => chain'[Relay].ledger = M
      BY <1>4, <1>12, CopiedIs
    <3> HIDE DEF M
    <3>. QED BY <2>1, <2>2, <2>3, <3>1 DEF Copies
  <2>5. /\ sending'[m] = [block |-> b, left |-> <<>>, ok |-> TRUE]
        /\ \A k \in Miners \ {m} : sending'[k] = sending[k]
    BY <1>4, <1>12
  <2>6. chain'[m] = chain[m]
    BY <1>1, <1>12
  <2>7. LeaderKnows'
    BY <1>2, <1>3, <2>2, <2>5, <2>6 DEF LeaderKnows
  <2>8. OnlyLeader'
    BY <1>2, <2>5 DEF CopyInv, OnlyLeader
  <2>9. PoolFresh'
    BY <1>2, <1>3, <1>5, <2>6 DEF CopyInv, PoolFresh, Fresh
  <2>. QED BY <1>1, <2>4, <2>7, <2>8, <2>9 DEF CopyInv
<1>. QED BY <1>10, <1>11, <1>12

\* The leader adds the block the beacon has taken.
LEMMA CopyFinish ==
    ASSUME CopyInv, OneLeader, NEW m \in Miners, FinishBroadcast(m)
    PROVE  CopyInv'
<1> DEFINE s == sending[m]
           L == chain[m].ledger
<1>1. FlowInv /\ FlowInv' /\ m \in Nodes /\ m # Beacon /\ m # Relay
  BY FlowStep, FlowAssumption DEF CopyInv, Next, Nodes
<1>2. /\ s # Idle /\ m = TheLeader /\ pool[m] = <<>>
      /\ UNCHANGED <<slot, up, pool, prepared>>
  BY DEF FinishBroadcast, CopyInv, OnlyLeader, PoolFresh
<1>3. sending'[m] = Idle /\ \A k \in Miners \ {m} : sending'[k] = sending[k]
  BY <1>1 DEF FinishBroadcast, FlowInv, Inv, SendingGood
<1>4. OnlyLeader'
  BY <1>2, <1>3 DEF CopyInv, OnlyLeader
<1>5. PoolFresh'
  BY <1>2, <1>3 DEF PoolFresh, ToSet
<1>6. CASE s.ok
  <2>1. /\ BeaconLedger = Append(L, s.block)
        /\ chain' = [chain EXCEPT ![m] = AddBlock(chain[m], s.block).chain]
    BY <1>2, <1>6 DEF CopyInv, LeaderKnows, FinishBroadcast, AnySuccess, OwnChain
  <2>2. /\ IsLedger(L) /\ IsLedger(BeaconLedger) /\ Linked(BeaconLedger) /\ Linked(L)
        /\ Begins(L, BeaconLedger) /\ chain[m] = Copied(L)
    BY <1>1, CopyIs
  <2>3. /\ Len(BeaconLedger) = Len(L) + 1 /\ Len(L) \in Nat
        /\ BeaconLedger[Len(L) + 1] = s.block
    BY <2>1, <2>2, AppendIs DEF IsLedger
  <2>4. Follows(L, s.block) /\ IsInjective(s.block.records)
    <3>1. Len(L) < Len(BeaconLedger)
      BY <2>3
    <3> HIDE DEF L
    <3>. QED BY <2>2, <2>3, <3>1, NextFollows
  <2>5. s.block.slot \in Nat
    BY <1>1, SentSlot
  <2>6. AddBlock(chain[m], s.block).chain = Copied(BeaconLedger)
    BY <2>1, <2>2, <2>4, <2>5, AddFollows
  <2>7. Begins(BeaconLedger, BeaconLedger)
    BY <2>2, LedgerIs DEF Begins
  <2>8. Copies' /\ BeaconLedger' = BeaconLedger
    BY <1>1, <2>1, <2>6, <2>7, CopiesOne
  <2>9. chain'[m].ledger = BeaconLedger
    <3>1. chain = [k \in Nodes |-> chain[k]]
      BY <1>1 DEF FlowInv, Inv, LedgersGood
    <3>. QED BY <1>1, <2>1, <2>6, <3>1, CopiedIs
  <2>10. LeaderKnows'
    BY <1>2, <1>3, <2>8, <2>9 DEF LeaderKnows, Idle
  <2>. QED BY <1>1, <1>4, <1>5, <2>8, <2>10 DEF CopyInv
<1>7. CASE ~s.ok
  <2>1. UNCHANGED chain
    BY <1>7 DEF FinishBroadcast, AnySuccess
  <2>2. chain[m].ledger = BeaconLedger
    BY <1>2, <1>7 DEF CopyInv, LeaderKnows
  <2>3. LeaderKnows' /\ Copies'
    BY <1>2, <1>3, <2>1, <2>2 DEF CopyInv, LeaderKnows, Copies, BeaconLedger, Idle
  <2>. QED BY <1>1, <1>4, <1>5, <2>3 DEF CopyInv
<1>. QED BY <1>6, <1>7

\* What a leader catches up with is all the beacon has.
LEMMA LeaderSource ==
    ASSUME CopyInv, OneLeader
    PROVE  TheLeader # Beacon /\ TheLeader # Relay /\ chain[Source(TheLeader)].ledger = BeaconLedger
<1>1. TheLeader \in Miners /\ TheLeader # Beacon /\ TheLeader # Relay
  BY LeaderSame, FlowAssumption DEF CopyInv, FlowInv, Typed
<1>2. Upstreams[1] \in {Beacon, Relay}
  BY FlowAssumption, EmptySeq, ElementOfSeq
<1>. QED BY <1>1, <1>2 DEF Source, CopyInv, Copies, BeaconLedger

\* A leader that has finished its block misses nothing, so another node fetches.
LEMMA CopySync ==
    ASSUME CopyInv, OneLeader, NEW n \in Nodes, SyncBlocks(n)
    PROVE  CopyInv'
<1> DEFINE L == chain[n].ledger
           S == chain[Source(n)].ledger
<1>1. FlowInv /\ FlowInv' /\ TheLeader \in Nodes /\ TheLeader \in Miners
  BY FlowStep, LeaderSame DEF CopyInv, FlowInv, Typed, Next
<1>2. /\ n # Beacon /\ Len(L) < Len(S)
      /\ n \in Miners => Free(n)
      /\ UNCHANGED <<slot, up, pool, prepared, sending>>
  BY DEF SyncBlocks, minerVars
<1>3. /\ IsLedger(L) /\ IsLedger(S) /\ IsLedger(BeaconLedger)
      /\ Begins(L, BeaconLedger) /\ Begins(S, BeaconLedger) /\ chain[n] = Copied(L)
  BY CopyIs, SourceNodes
<1>4. Len(L) \in Nat /\ Len(S) \in Nat /\ Len(BeaconLedger) \in Nat /\ Len(S) <= Len(BeaconLedger)
  BY <1>3, LedgerIs DEF Begins
<1>5. L # BeaconLedger
  BY <1>2, <1>4
<1>6. n # TheLeader
  BY <1>1, <1>2, <1>5 DEF CopyInv, LeaderKnows, Free, Idle
<1>7. ~(n = Relay /\ Upstreams[1] = Relay)
  BY <1>5 DEF CopyInv, Copies
<1>8. PICK blocks \in Fetches(n, Len(L)) :
         chain' = [chain EXCEPT ![n] = AddBlocks(chain[n], blocks).chain]
  BY DEF SyncBlocks
<1>9. PICK N : /\ IsLedger(N) /\ Begins(N, BeaconLedger)
               /\ AddBlocks(chain[n], blocks) = [ok |-> TRUE, chain |-> Copied(N)]
  BY <1>2, <1>8, FetchIs
<1>10. chain' = [chain EXCEPT ![n] = Copied(N)]
  BY <1>8, <1>9
<1>11. Copies' /\ BeaconLedger' = BeaconLedger
  BY <1>2, <1>7, <1>9, <1>10, CopiesOne
<1>12. chain'[TheLeader] = chain[TheLeader]
  BY <1>1, <1>6, <1>10 DEF FlowInv, Inv, LedgersGood
<1>13. LeaderKnows' /\ OnlyLeader'
  BY <1>2, <1>11, <1>12 DEF CopyInv, LeaderKnows, OnlyLeader
<1>14. PoolFresh'
  BY <1>2, <1>12 DEF CopyInv, PoolFresh, Fresh
<1>. QED BY <1>1, <1>11, <1>13, <1>14 DEF CopyInv

\* What a node has after a restart is a beginning of the beacon's chain, no
\* shorter than before, and it runs only when it has what its source has.
LEMMA RestartIs ==
    ASSUME CopyInv, NEW n \in Nodes \ {Beacon}, Restart(n)
    PROVE  \E N : /\ IsLedger(N) /\ Begins(N, BeaconLedger) /\ Len(chain[n].ledger) <= Len(N)
                  /\ chain' = [chain EXCEPT ![n] = Copied(N)]
                  /\ n \in up' => Len(chain[Source(n)].ledger) <= Len(N)
                  /\ up' \subseteq up \cup {n}
<1> DEFINE L      == chain[n].ledger
           S      == chain[Source(n)].ledger
           load   == LoadFromLedger(L)
           synced == {AddBlocks(load.chain, blocks) : blocks \in Fetches(n, Len(L))}
           starts == IF n = Beacon \/ ~load.ok THEN {load}
                     ELSE IF Source(n) \notin up THEN {[load EXCEPT !.ok = FALSE]}
                     ELSE {[r EXCEPT !.ok = @ /\ CaughtUp(n, r.chain)] : r \in synced}
<1>1. PICK r \in starts : /\ chain' = [chain EXCEPT ![n] = r.chain]
                          /\ up' = IF r.ok THEN up \cup {n} ELSE up \ {n}
  BY DEF Restart
<1>2. /\ IsLedger(L) /\ IsLedger(S) /\ Begins(L, BeaconLedger) /\ chain[n] = Copied(L)
      /\ load = [ok |-> TRUE, chain |-> Copied(L)]
  BY CopyIs, SourceNodes
<1>3. Len(L) \in Nat /\ Len(S) \in Nat
  BY <1>2, LedgerIs
<1>4. CASE Source(n) \notin up
  <2>1. r = [ok |-> FALSE, chain |-> Copied(L)]
    BY <1>1, <1>2, <1>4
  <2>2. /\ chain' = [chain EXCEPT ![n] = Copied(L)] /\ n \notin up' /\ up' \subseteq up
        /\ Len(L) <= Len(L)
    BY <1>1, <1>3, <2>1
  <2>. QED BY <1>2, <2>2
<1>5. CASE Source(n) \in up
  <2>1. PICK blocks \in Fetches(n, Len(L)) :
           r = [AddBlocks(Copied(L), blocks) EXCEPT
                  !.ok = @ /\ CaughtUp(n, AddBlocks(Copied(L), blocks).chain)]
    BY <1>1, <1>2, <1>5
  <2>2. PICK N : /\ IsLedger(N) /\ Begins(N, BeaconLedger) /\ Len(L) <= Len(N)
                 /\ AddBlocks(Copied(L), blocks) = [ok |-> TRUE, chain |-> Copied(N)]
    BY <1>2, FetchIs
  <2>3. r = [ok |-> CaughtUp(n, Copied(N)), chain |-> Copied(N)]
    BY <2>1, <2>2 DEF CaughtUp
  <2>4. CaughtUp(n, Copied(N)) => Len(S) <= Len(N)
    <3>1. Len(N) \in Nat
      BY <2>2, LedgerIs
    <3>2. CaughtUp(n, Copied(N)) => Len(N) >= Len(S)
      BY CopiedIs DEF CaughtUp
    <3> HIDE DEF S
    <3>. QED BY <1>3, <3>1, <3>2
  <2>5. /\ chain' = [chain EXCEPT ![n] = Copied(N)]
        /\ n \in up' => CaughtUp(n, Copied(N))
        /\ up' \subseteq up \cup {n}
    BY <1>1, <2>3
  <2>. QED BY <2>2, <2>4, <2>5
<1>. QED BY <1>4, <1>5

\* The beacon's load gives the chain it has.
LEMMA BeaconRestart ==
    ASSUME CopyInv, Restart(Beacon)
    PROVE  chain' = chain /\ up' = up \cup {Beacon} /\ UNCHANGED <<slot, minerVars>>
<1>1. Beacon \in Nodes /\ Beacon \notin Miners
  BY FlowAssumption DEF Nodes
<1>2. LoadFromLedger(chain[Beacon].ledger) = [ok |-> TRUE, chain |-> chain[Beacon]]
  BY <1>1, CopyIs
<1>3. chain' = [chain EXCEPT ![Beacon] = chain[Beacon]] /\ up' = up \cup {Beacon}
  <2> DEFINE load   == LoadFromLedger(chain[Beacon].ledger)
             synced == {AddBlocks(load.chain, blocks) :
                           blocks \in Fetches(Beacon, Len(chain[Beacon].ledger))}
             starts == IF Beacon = Beacon \/ ~load.ok THEN {load}
                       ELSE IF Source(Beacon) \notin up THEN {[load EXCEPT !.ok = FALSE]}
                       ELSE {[r EXCEPT !.ok = @ /\ CaughtUp(Beacon, r.chain)] : r \in synced}
  <2>1. PICK r \in starts : /\ chain' = [chain EXCEPT ![Beacon] = r.chain]
                            /\ up' = IF r.ok THEN up \cup {Beacon} ELSE up \ {Beacon}
    BY DEF Restart
  <2>2. r = [ok |-> TRUE, chain |-> chain[Beacon]]
    BY <1>2, <2>1
  <2> HIDE DEF starts
  <2>. QED BY <2>1, <2>2
<1>4. chain = [k \in Nodes |-> chain[k]]
  BY DEF CopyInv, FlowInv, Inv, LedgersGood
<1>. QED BY <1>1, <1>3, <1>4 DEF Restart

\* A node restarts: what it reads back is its own ledger.
LEMMA CopyRestart ==
    ASSUME CopyInv, OneLeader, NEW n \in Nodes, Restart(n)
    PROVE  CopyInv'
<1>1. FlowInv /\ FlowInv' /\ TheLeader \in Nodes /\ TheLeader \in Miners
  BY FlowStep, LeaderSame DEF CopyInv, FlowInv, Typed, Next
<1>2. TheLeader # Beacon /\ TheLeader # Relay /\ chain[Source(TheLeader)].ledger = BeaconLedger
  BY LeaderSource
<1>3. CASE n = Beacon
  <2>1. chain' = chain /\ up' = up \cup {Beacon} /\ UNCHANGED <<slot, minerVars>>
    BY <1>3, BeaconRestart
  <2>2. Copies' /\ OnlyLeader' /\ LeaderKnows'
    BY <1>2, <2>1 DEF CopyInv, Copies, BeaconLedger, OnlyLeader, LeaderKnows, minerVars
  <2>3. PoolFresh'
    BY <2>1 DEF CopyInv, PoolFresh, Fresh, minerVars
  <2>. QED BY <1>1, <2>2, <2>3 DEF CopyInv
<1>4. CASE n # Beacon
  <2>1. PICK N : /\ IsLedger(N) /\ Begins(N, BeaconLedger) /\ Len(chain[n].ledger) <= Len(N)
                 /\ chain' = [chain EXCEPT ![n] = Copied(N)]
                 /\ n \in up' => Len(chain[Source(n)].ledger) <= Len(N)
                 /\ up' \subseteq up \cup {n}
    BY <1>4, RestartIs
  <2>2. IsLedger(BeaconLedger)
    BY <1>1, CopyIs
  <2>3. n = Relay /\ Upstreams[1] = Relay => N = BeaconLedger
    BY <2>1, <2>2, BeginsWhole DEF CopyInv, Copies
  <2>4. Copies' /\ BeaconLedger' = BeaconLedger
    BY <1>4, <2>1, <2>3, CopiesOne
  <2>5. slot' = slot
    BY DEF Restart
  <2>6. CASE n = TheLeader
    <3>1. /\ sending' = [sending EXCEPT ![n] = Idle]
          /\ pool' = [pool EXCEPT ![n] = <<>>]
          /\ prepared' = [prepared EXCEPT ![n] = 0]
      BY <1>1, <2>6 DEF Restart
    <3>2. /\ sending'[n] = Idle /\ pool'[n] = <<>>
          /\ \A m \in Miners \ {n} : sending'[m] = sending[m]
      BY <1>1, <2>6, <3>1 DEF FlowInv, Inv, SendingGood, Typed, QueuesTyped
    <3>3. chain'[n].ledger = N
      BY <1>1, <2>1, <2>6, CopiedIs DEF FlowInv, Inv, LedgersGood
    <3>4. n \in up' => N = BeaconLedger
      BY <1>2, <2>1, <2>2, <2>6, BeginsWhole
    <3>5. LeaderKnows'
      BY <2>4, <2>6, <3>2, <3>3, <3>4 DEF LeaderKnows, Idle
    <3>6. OnlyLeader'
      BY <2>6, <3>2 DEF CopyInv, OnlyLeader
    <3>7. PoolFresh'
      BY <2>6, <3>2 DEF PoolFresh, ToSet
    <3>. QED BY <1>1, <2>4, <3>5, <3>6, <3>7 DEF CopyInv
  <2>7. CASE n # TheLeader
    <3>1. chain'[TheLeader] = chain[TheLeader]
      BY <1>1, <2>1, <2>7 DEF FlowInv, Inv, LedgersGood
    <3>2. /\ sending'[TheLeader] = sending[TheLeader]
          /\ pool'[TheLeader] = pool[TheLeader]
          /\ prepared'[TheLeader] = prepared[TheLeader]
          /\ \A m \in Miners : sending'[m] = sending[m] \/ sending'[m] = Idle
      <4>1. CASE n \in Miners
        <5>1. /\ sending' = [sending EXCEPT ![n] = Idle]
              /\ pool' = [pool EXCEPT ![n] = <<>>]
              /\ prepared' = [prepared EXCEPT ![n] = 0]
          BY <4>1 DEF Restart
        <5>. QED BY <1>1, <2>7, <5>1
               DEF FlowInv, Inv, SendingGood, Typed, QueuesTyped, ClocksTyped
      <4>2. CASE n \notin Miners
        BY <4>2 DEF Restart, minerVars
      <4>. QED BY <4>1, <4>2
    <3>3. LeaderKnows'
      BY <1>1, <2>1, <2>4, <2>7, <3>1, <3>2 DEF CopyInv, LeaderKnows
    <3>4. OnlyLeader'
      BY <3>2 DEF CopyInv, OnlyLeader
    <3>5. PoolFresh'
      BY <2>5, <3>1, <3>2 DEF CopyInv, PoolFresh, Fresh
    <3>. QED BY <1>1, <2>4, <3>3, <3>4, <3>5 DEF CopyInv
  <2>. QED BY <2>6, <2>7
<1>. QED BY <1>3, <1>4

\* The next slot is prepared by no one.
LEMMA CopyTick ==
    ASSUME CopyInv, OneLeader, Tick
    PROVE  CopyInv'
<1>1. FlowInv /\ FlowInv' /\ TheLeader \in Miners
  BY FlowStep, LeaderSame DEF CopyInv, FlowInv, Typed, Next
<1>2. slot' = slot + 1 /\ UNCHANGED <<up, chain, pool, prepared, sending>>
  BY DEF Tick, minerVars
<1>3. slot \in Nat /\ prepared[TheLeader] \in 0 .. slot
  BY <1>1 DEF FlowInv, Typed, ClocksTyped
<1>4. prepared'[TheLeader] # slot'
  BY <1>2, <1>3
<1>5. PoolFresh'
  BY <1>2, <1>4 DEF CopyInv, PoolFresh
<1>6. Copies' /\ OnlyLeader' /\ LeaderKnows'
  BY <1>2 DEF CopyInv, Copies, BeaconLedger, OnlyLeader, LeaderKnows
<1>. QED BY <1>1, <1>5, <1>6 DEF CopyInv

\* Every step keeps the invariant,
LEMMA CopyStep ==
    ASSUME OneLeader, OneUpstream, BlocksAnswered
    PROVE  CopyInv /\ [Next]_vars => CopyInv'
<1> SUFFICES ASSUME CopyInv, [Next]_vars PROVE CopyInv'
  OBVIOUS
<1>1. CASE UNCHANGED vars
  <2>1. FlowInv'
    BY FlowStep DEF CopyInv
  <2>2. PoolFresh'
    BY <1>1 DEF CopyInv, PoolFresh, Fresh, vars, minerVars
  <2>. QED BY <1>1, <2>1, <2>2, CopySame DEF vars, minerVars
<1>2. ASSUME NEW m \in Miners,
             \/ \E t \in Txs : HTxAdd(m, t)
             \/ RetryForwards(m)
             \/ HandleSlotLeaderRole(m)
             \/ CallUpstream(m)
             \/ FinishBroadcast(m)
      PROVE  CopyInv'
  BY <1>2, CopyTxAdd, CopyRetry, CopyHandle, CopyCall, CopyFinish
<1>3. ASSUME NEW n \in Nodes, SyncBlocks(n) \/ Restart(n) PROVE CopyInv'
  BY <1>3, CopySync, CopyRestart
<1>. QED BY <1>1, <1>2, <1>3, CopyTick DEF Next

\* The genesis block alone is linked, and its bank has applied nothing.
LEMMA GenesisCopied ==
    /\ IsLedger(<<GenesisBlock>>) /\ Linked(<<GenesisBlock>>)
    /\ Begins(<<GenesisBlock>>, <<GenesisBlock>>)
    /\ GenesisChain = Copied(<<GenesisBlock>>)
<1> DEFINE G == <<GenesisBlock>>
<1>1. G # <<>> /\ Len(G) = 1 /\ G[1] = GenesisBlock /\ DOMAIN G = 1 .. 1
  OBVIOUS
<1>2. ToSet(G) = {GenesisBlock} /\ G \in Seq({GenesisBlock})
  BY DEF ToSet
<1>3. Linked(G)
  BY <1>1 DEF Linked, GenesisBlock
<1>4. Count(G) = GenesisChain.bank
  <2>1. ToSet(G[1].records) = {}
    BY <1>1 DEF GenesisBlock, ToSet
  <2>2. \A t : {i \in 1 .. 1 : t \in ToSet(G[i].records)} = {}
    BY <2>1
  <2>. QED BY <1>1, <2>2, FS_EmptySet DEF Count, CountUpto, GenesisChain
<1>5. GenesisChain = Copied(G)
  BY <1>4 DEF GenesisChain, Copied
<1> HIDE DEF G
<1>. QED BY <1>1, <1>2, <1>3, <1>5 DEF IsLedger, Begins, G

\* and it holds at the start.
LEMMA CopyInit ==
    ASSUME OneLeader
    PROVE  Init => CopyInv
<1> SUFFICES ASSUME Init PROVE CopyInv
  OBVIOUS
<1>1. FlowInv
  BY FlowInit
<1>2. TheLeader \in Miners /\ TheLeader \in Nodes /\ Beacon \in Nodes /\ Relay \in Nodes
  BY <1>1, LeaderSame DEF FlowInv, Typed, Nodes
<1>3. /\ \A n \in Nodes : chain[n] = GenesisChain /\ chain[n].ledger = <<GenesisBlock>>
      /\ BeaconLedger = <<GenesisBlock>>
  BY <1>2 DEF Init, BeaconLedger, GenesisChain
<1>4. Copies
  BY <1>2, <1>3, GenesisCopied DEF Copies
<1>5. OnlyLeader /\ LeaderKnows
  BY <1>2, <1>3 DEF Init, OnlyLeader, LeaderKnows, Idle
<1>6. PoolFresh
  BY <1>2 DEF Init, PoolFresh, Idle
<1>. QED BY <1>1, <1>4, <1>5, <1>6 DEF CopyInv

\* What a block id names is the same block at every node, where one miner leads,
\* its list has one server, and the answer to a block that was taken arrives:
\* whatever else is lost, late, sent again or restarted.
THEOREM SameBlocksOneLeader ==
    ASSUME OneLeader, OneUpstream, BlocksAnswered
    PROVE  Spec => []SameBlocks
<1>1. CopyInv => SameBlocks
  <2> SUFFICES ASSUME CopyInv, NEW n \in Nodes PROVE IsPrefix(chain[n].ledger, BeaconLedger)
    BY DEF SameBlocks
  <2> DEFINE L == chain[n].ledger
             M == BeaconLedger
  <2>1. IsLedger(L) /\ IsLedger(M) /\ Begins(L, M)
    BY CopyIs
  <2> HIDE DEF L, M
  <2>2. /\ Len(L) \in Nat \ {0} /\ Len(M) \in Nat /\ Len(L) <= Len(M)
        /\ L \in Seq(ToSet(L)) /\ M \in Seq(ToSet(M))
        /\ DOMAIN L = 1 .. Len(L) /\ DOMAIN M = 1 .. Len(M)
    BY <2>1, LedgerIs DEF IsLedger, Begins
  <2>3. ASSUME NEW K, K \in Seq(ToSet(K)), Len(K) \in Nat, Len(L) <= Len(K),
               DOMAIN K = 1 .. Len(K)
        PROVE  SubSeq(K, 1, Len(L)) = [i \in 1 .. Len(L) |-> K[i]]
    <3>1. Len(L) - 1 + 1 = Len(L) /\ \A i \in 1 .. Len(L) : 1 + i - 1 = i /\ K[i] \in ToSet(K)
      BY <2>2, <2>3 DEF ToSet
    <3>2. /\ DOMAIN SubSeq(K, 1, Len(L)) = 1 .. Len(L)
          /\ SubSeq(K, 1, Len(L)) \in Seq(ToSet(K))
          /\ Len(SubSeq(K, 1, Len(L))) = Len(L)
          /\ \A i \in 1 .. Len(L) : SubSeq(K, 1, Len(L))[i] = K[i]
      BY <2>2, <2>3, <3>1, SubSeqProperties
    <3>. QED BY <3>2, LenProperties
  <2>4. SubSeq(L, 1, Len(L)) = SubSeq(M, 1, Len(L))
    <3>1. \A i \in 1 .. Len(L) : L[i] = M[i]
      BY <2>1 DEF Begins
    <3>. QED BY <2>2, <2>3, <3>1
  <2>. QED BY <2>2, <2>4, SubSeqProperties DEF IsPrefix, L, M
<1>. QED BY <1>1, CopyStep, CopyInit, PTL DEF Spec

\* Under the same assumptions a node that restarts (Chain::loadFromLedger) gets
\* back the chain it had.
THEOREM ReloadableOneLeader ==
    ASSUME OneLeader, OneUpstream, BlocksAnswered
    PROVE  Spec => []Reloadable
<1>1. CopyInv => Reloadable
  BY CopyIs DEF Reloadable
<1>. QED BY <1>1, CopyStep, CopyInit, PTL DEF Spec

\* Under the same assumptions a bank has applied each transaction as often as the
\* ledger beside it carries it: no refused block leaves a part of its records.
THEOREM BankOfLedgerOneLeader ==
    ASSUME OneLeader, OneUpstream, BlocksAnswered
    PROVE  Spec => []BankIsOfLedger
<1>1. CopyInv => BankIsOfLedger
  <2> SUFFICES ASSUME CopyInv, NEW n \in Nodes, NEW t \in Txs
               PROVE  chain[n].bank[t] =
                         Cardinality({i \in DOMAIN chain[n].ledger :
                                         t \in ToSet(chain[n].ledger[i].records)})
    BY DEF BankIsOfLedger
  <2> DEFINE L == chain[n].ledger
  <2>1. IsLedger(L) /\ chain[n] = Copied(L)
    BY CopyIs
  <2>2. chain[n].bank = CountUpto(L, Len(L))
    BY <2>1 DEF Copied, Count
  <2>3. DOMAIN L = 1 .. Len(L)
    BY <2>1, LedgerIs
  <2> HIDE DEF L
  <2>4. CountUpto(L, Len(L))[t] = Cardinality({i \in 1 .. Len(L) : t \in ToSet(L[i].records)})
    BY DEF CountUpto
  <2>. QED BY <2>2, <2>3, <2>4 DEF L
<1>. QED BY <1>1, CopyStep, CopyInit, PTL DEF Spec

----------------------------------------------------------------------------
(* The beacon's ledger and the chain it promises to be.                     *)

\* The block the beacon takes is one AuthoritativeChain allows: of a later slot,
\* by its leader, after the last block, with transactions the chain has not seen.
LEMMA TakenExtends ==
    ASSUME OrderInv, CopyInv, NEW m \in Miners, CallUpstream(m),
           AddBlock(chain[Beacon], sending[m].block).ok,
           BeaconLedger' = Append(BeaconLedger, sending[m].block)
    PROVE  Abstract!Extend
<1> DEFINE b == sending[m].block
           L == BeaconLedger
           n == Len(b.records)
           last == Abstract!Last(L)
<1>1. sending[m] # Idle /\ sending[m].left # <<>> /\ m = TheLeader /\ FlowInv
  BY DEF CallUpstream, Idle, CopyInv, OnlyLeader
<1>2. /\ Follows(L, b) /\ b.records # <<>>
      /\ Before(L, b.slot)
  BY <1>1 DEF CopyInv, LeaderKnows, OrderInv, Senders
<1>3. /\ IsLedger(L) /\ Linked(L) /\ chain[Beacon] = Copied(L) /\ chain[Beacon].ledger = L
      /\ Len(L) \in Nat \ {0} /\ DOMAIN L = 1 .. Len(L)
  <2>1. Beacon \in Nodes
    BY DEF Nodes
  <2>. QED BY <2>1, CopyIs, LedgerIs DEF BeaconLedger
<1>4. /\ b.slot \in Nat /\ b.slot <= slot /\ slot <= MaxSlot /\ slot \in Nat /\ MaxSlot \in Nat
      /\ b = [index |-> b.index, slot |-> b.slot, slotLeader |-> b.slotLeader,
              previousHash |-> b.previousHash, records |-> b.records]
  <2>1. b = [index |-> b.index, slot |-> b.slot, slotLeader |-> b.slotLeader,
             previousHash |-> b.previousHash, records |-> b.records]
    BY <1>1 DEF FlowInv, Typed, BlocksTyped, IsBlock
  <2>2. slot \in Nat /\ slot <= MaxSlot /\ MaxSlot \in Nat
    BY <1>1, ChainAssumption DEF FlowInv, Typed, ClocksTyped
  <2> HIDE DEF b
  <2>. QED BY <1>1, <2>1, <2>2, SentSlot DEF b
<1>5. last = L[Len(L)] /\ last.slot \in Nat /\ last.slot < b.slot
  <2>1. last = L[Len(L)] /\ Len(L) \in 1 .. Len(L)
    BY <1>3 DEF Abstract!Last
  <2> HIDE DEF last, b, L
  <2>. QED BY <1>2, <1>3, <2>1 DEF Before, Linked
<1>6. b.slot \in last.slot + 1 .. MaxSlot
  <2> HIDE DEF b, last
  <2>. QED BY <1>4, <1>5
<1>7. /\ b.records \in Seq(Txs) /\ n \in 1 .. MaxTransactionsPerBlock
      /\ DOMAIN b.records = 1 .. n
      /\ b.records = [i \in 1 .. n |-> b.records[i]]
  <2>1. b.records \in Seq(Txs) /\ n <= MaxTransactionsPerBlock /\ b.records # <<>>
    BY <1>2 DEF Follows
  <2> HIDE DEF b
  <2>. QED BY <2>1, LenProperties, EmptySeq, ChainAssumption
<1>8. Abstract!IsInjective(b.records)
  <2>1. IsInjective(b.records)
    BY <1>2, <1>3, <1>4, AddFollows
  <2>. QED BY <2>1 DEF IsInjective, Abstract!IsInjective
<1>9. b.records \in [1 .. n -> Txs \ Abstract!Seen]
  <2>1. ASSUME NEW i \in 1 .. n PROVE b.records[i] \in Txs \ Abstract!Seen
    <3>1. b.records[i] \in Txs /\ b.records[i] \in ToSet(b.records)
      BY <1>7, ElementOfSeq DEF ToSet
    <3>2. ASSUME NEW j \in DOMAIN L PROVE b.records[i] \notin ToSet(L[j].records)
      <4>1. ToSet(L[j].records) \cap ToSet(b.records) = {}
        <5> HIDE DEF b, L
        <5>1. AddBlock(chain[Beacon], b).ok
          BY DEF b
        <5>. QED BY <1>2, <1>3, <1>7, <5>1, TakenFresh
      <4>. QED BY <3>1, <4>1
    <3>. QED BY <3>1, <3>2 DEF Abstract!Seen, Abstract!ToSet, ToSet
  <2> HIDE DEF b
  <2>. QED BY <1>7, <2>1
<1>10. b = [index |-> Len(L), slot |-> b.slot, slotLeader |-> Leader[b.slot],
            previousHash |-> Abstract!Hash(last), records |-> b.records]
  <2>1. /\ b.index = Len(L) /\ b.slotLeader = Leader[b.slot]
        /\ b.previousHash = Abstract!Hash(last)
    BY <1>2, <1>5 DEF Follows, Hash, Abstract!Hash
  <2> HIDE DEF b, last
  <2>. QED BY <1>4, <2>1
<1>11. BeaconLedger' = Append(L, b)
  OBVIOUS
<1>12. \E s \in last.slot + 1 .. MaxSlot, k \in 1 .. MaxTransactionsPerBlock :
          \E records \in [1 .. k -> Txs \ Abstract!Seen] :
              /\ Abstract!IsInjective(records)
              /\ BeaconLedger' = Append(L,
                     [index |-> Len(L), slot |-> s, slotLeader |-> Leader[s],
                      previousHash |-> Abstract!Hash(last), records |-> records])
  <2> HIDE DEF b, L, last, n
  <2>1. BeaconLedger' = Append(L,
           [index |-> Len(L), slot |-> b.slot, slotLeader |-> Leader[b.slot],
            previousHash |-> Abstract!Hash(last), records |-> b.records])
    BY <1>10, <1>11
  <2>. QED BY <1>6, <1>7, <1>8, <1>9, <2>1
<1>. QED BY <1>12 DEF Abstract!Extend

\* Where one miner leads, its list has one server, the answer to a block that was
\* taken arrives and miners stay, the beacon's ledger (BeaconServer::hBlockAdd) is
\* extended as AuthoritativeChain says, whatever else is lost, late or restarted.
THEOREM BeaconImplementsChain ==
    ASSUME OneLeader, OneUpstream, BlocksAnswered
    PROVE  Spec /\ MinersStay => ImplementsChain
<1>1. InOrder
  BY DEF InOrder
<1>2. Init => Abstract!Init
  BY DEF Init, Abstract!Init, BeaconLedger, GenesisChain, Nodes, GenesisBlock,
         Abstract!GenesisBlock
<1>3. OrderInv /\ CopyInv /\ [Next]_vars => [Abstract!Next]_BeaconLedger
  <2> SUFFICES ASSUME OrderInv, CopyInv, [Next]_vars, BeaconLedger' # BeaconLedger
               PROVE  Abstract!Next
    OBVIOUS
  <2>1. Inv
    BY DEF OrderInv, FlowInv
  <2>. QED BY <2>1, BeaconSteps, TakenExtends DEF Abstract!Next
<1>4. OrderInv /\ [Next]_vars /\ [\A m \in Miners : ~Restart(m)]_vars => OrderInv'
  BY <1>1, OrderStep
<1>. QED BY <1>2, <1>3, <1>4, OrderInit, CopyStep, CopyInit, PTL
     DEF Spec, MinersStay, ImplementsChain, Abstract!Spec

----------------------------------------------------------------------------
(* Queues that hold a transaction once.                                     *)

\* A transaction that is not in a queue is added to it,
LEMMA OnceAppend ==
    ASSUME NEW T, NEW s \in Seq(T), NEW t \in T, IsInjective(s), t \notin ToSet(s)
    PROVE  IsInjective(Append(s, t))
<1> DEFINE u == Append(s, t)
<1>1. /\ DOMAIN s = 1 .. Len(s) /\ DOMAIN u = 1 .. Len(s) + 1 /\ Len(s) \in Nat
      /\ \A i \in 1 .. Len(s) : u[i] = s[i] /\ s[i] # t
      /\ u[Len(s) + 1] = t
  BY AppendProperties, LenProperties DEF ToSet
<1>2. \A i \in 1 .. Len(s) + 1 : i \in 1 .. Len(s) \/ i = Len(s) + 1
  BY <1>1
<1> HIDE DEF u
<1>. QED BY <1>1, <1>2 DEF IsInjective, u

\* two queues are joined,
LEMMA OnceConcat ==
    ASSUME NEW T, NEW s \in Seq(T), NEW t \in Seq(T), IsInjective(s), IsInjective(t),
           ToSet(s) \cap ToSet(t) = {}
    PROVE  IsInjective(s \o t)
<1> DEFINE u == s \o t
<1>1. /\ Len(s) \in Nat /\ Len(t) \in Nat
      /\ DOMAIN s = 1 .. Len(s) /\ DOMAIN t = 1 .. Len(t) /\ DOMAIN u = 1 .. Len(s) + Len(t)
  BY ConcatProperties, LenProperties
<1>2. \A i \in 1 .. Len(s) + Len(t) : u[i] = IF i <= Len(s) THEN s[i] ELSE t[i - Len(s)]
  BY ConcatProperties
<1> HIDE DEF u
<1>3. ASSUME NEW i \in 1 .. Len(s) + Len(t)
      PROVE  \/ i \in DOMAIN s /\ u[i] = s[i] /\ u[i] \in ToSet(s) /\ i <= Len(s)
             \/ i - Len(s) \in DOMAIN t /\ u[i] = t[i - Len(s)] /\ u[i] \in ToSet(t)
                /\ ~(i <= Len(s))
  BY <1>1, <1>2 DEF ToSet
<1>4. ASSUME NEW i \in DOMAIN u, NEW j \in DOMAIN u, u[i] = u[j] PROVE i = j
  <2>1. CASE i <= Len(s)
    <3>1. i \in DOMAIN s /\ j \in DOMAIN s /\ s[i] = s[j]
      BY <1>1, <1>3, <1>4, <2>1
    <3>. QED BY <3>1 DEF IsInjective
  <2>2. CASE ~(i <= Len(s))
    <3>1. i - Len(s) \in DOMAIN t /\ j - Len(s) \in DOMAIN t /\ t[i - Len(s)] = t[j - Len(s)]
      BY <1>1, <1>3, <1>4, <2>2
    <3>2. i - Len(s) = j - Len(s)
      BY <3>1 DEF IsInjective
    <3>. QED BY <1>1, <3>2
  <2>. QED BY <2>1, <2>2
<1>. QED BY <1>4 DEF IsInjective, u

\* part of a queue is taken,
LEMMA OncePart ==
    ASSUME NEW T, NEW s \in Seq(T), IsInjective(s), NEW a \in Nat \ {0}, NEW b \in 0 .. Len(s)
    PROVE  IsInjective(SubSeq(s, a, b))
<1> DEFINE u == SubSeq(s, a, b)
<1>1. Len(s) \in Nat /\ DOMAIN s = 1 .. Len(s) /\ \A i \in a .. b : s[i] \in T
  BY LenProperties, ElementOfSeq
<1>2. /\ u \in Seq(T) /\ Len(u) = IF a <= b THEN b - a + 1 ELSE 0
      /\ \A i \in 1 .. b - a + 1 : u[i] = s[a + i - 1]
  BY <1>1, SubSeqProperties
<1>3. DOMAIN u = 1 .. Len(u)
  BY <1>2, LenProperties
<1> HIDE DEF u
<1>4. ASSUME NEW i \in DOMAIN u PROVE i \in Int /\ a + i - 1 \in DOMAIN s /\ u[i] = s[a + i - 1]
  BY <1>1, <1>2, <1>3
<1>5. ASSUME NEW i \in DOMAIN u, NEW j \in DOMAIN u, u[i] = u[j] PROVE i = j
  <2>1. a + i - 1 = a + j - 1
    BY <1>4, <1>5 DEF IsInjective
  <2>. QED BY <1>4, <2>1
<1>. QED BY <1>5 DEF IsInjective, u

\* or what is in S of it.
LEMMA OnceOnly ==
    ASSUME NEW T, NEW s \in Seq(T), IsInjective(s), NEW S
    PROVE  IsInjective(Only(s, S))
<1>1. PICK f : Picks(f, s, S) /\ Only(s, S) = f[Len(s)]
  BY OnlyFold
<1>2. Len(s) \in Nat /\ DOMAIN s = 1 .. Len(s) /\ \A k \in 1 .. Len(s) : s[k] \in T
  BY LenProperties, ElementOfSeq
<1> DEFINE Upto(k) == {s[i] : i \in 1 .. k}
           P == {k \in 0 .. Len(s) : /\ f[k] \in Seq(T) /\ ToSet(f[k]) \subseteq Upto(k)
                                     /\ IsInjective(f[k])}
<1>3. 0 \in P
  <2>1. f[0] = <<>> /\ ToSet(<<>>) = {} /\ <<>> \in Seq(T) /\ IsInjective(<<>>)
    BY <1>1 DEF Picks, ToSet, IsInjective
  <2>2. 0 \in 0 .. Len(s)
    BY <1>2
  <2> HIDE DEF Upto
  <2>. QED BY <2>1, <2>2
<1>4. ASSUME NEW k \in 1 .. Len(s), k - 1 \in P PROVE k \in P
  <2>1. /\ f[k - 1] \in Seq(T) /\ ToSet(f[k - 1]) \subseteq Upto(k - 1) /\ s[k] \in T
        /\ IsInjective(f[k - 1]) /\ k \in 0 .. Len(s)
    BY <1>2, <1>4
  <2>2. Upto(k) = Upto(k - 1) \cup {s[k]}
    <3>1. 1 .. k = (1 .. (k - 1)) \cup {k}
      BY <1>2
    <3>. QED BY <3>1
  <2>3. s[k] \notin Upto(k - 1)
    <3>1. ASSUME NEW i \in 1 .. k - 1 PROVE s[i] # s[k]
      <4>1. i \in DOMAIN s /\ k \in DOMAIN s /\ i # k
        BY <1>2
      <4>. QED BY <4>1 DEF IsInjective
    <3>. QED BY <3>1
  <2> HIDE DEF Upto
  <2>4. CASE s[k] \in S
    <3>1. f[k] = Append(f[k - 1], s[k])
      BY <1>1, <2>4 DEF Picks
    <3>2. f[k] \in Seq(T) /\ ToSet(f[k]) = ToSet(f[k - 1]) \cup {s[k]}
      BY <2>1, <3>1, AppendIn
    <3>3. IsInjective(f[k])
      BY <2>1, <2>3, <3>1, OnceAppend
    <3>. QED BY <2>1, <2>2, <3>2, <3>3
  <2>5. CASE s[k] \notin S
    BY <1>1, <2>1, <2>2, <2>5 DEF Picks
  <2>. QED BY <2>4, <2>5
<1>5. Len(s) \in P
  <2> HIDE DEF P
  <2>1. 0 .. Len(s) \subseteq P
    BY <1>2, <1>3, <1>4, Upwards
  <2>. QED BY <1>2, <2>1
<1>. QED BY <1>1, <1>5

\* A pool that holds each transaction once is cut into a block and a rest that do.
LEMMA OnceParts ==
    ASSUME NEW p \in Seq(Txs), IsInjective(p)
    PROVE  IsInjective(BlockTransactions(p)) /\ IsInjective(Overflow(p))
<1>1. /\ MaxTransactionsPerBlock \in Nat \ {0} /\ Len(p) \in Nat
  BY ChainAssumption, LenProperties
<1>2. PICK most \in Nat \ {0} : most = MaxTransactionsPerBlock
  BY <1>1
<1>3. IsInjective(Overflow(p))
  <2>1. most + 1 \in Nat \ {0} /\ Len(p) \in 0 .. Len(p)
    BY <1>1
  <2>. QED BY <1>2, <2>1, OncePart DEF Overflow
<1>4. IsInjective(BlockTransactions(p))
  <2>1. CASE Len(p) < most
    <3>1. BlockTransactions(p) = SubSeq(p, 1, Len(p))
      BY <1>2, <2>1 DEF BlockTransactions
    <3>2. Len(p) \in 0 .. Len(p)
      BY <1>1
    <3>. QED BY <3>1, <3>2, OncePart
  <2>2. CASE ~(Len(p) < most)
    <3>1. BlockTransactions(p) = SubSeq(p, 1, most)
      BY <1>2, <2>2 DEF BlockTransactions
    <3>2. most \in 0 .. Len(p)
      BY <1>1, <2>2
    <3>. QED BY <3>1, <3>2, OncePart
  <2>. QED BY <2>1, <2>2
<1>. QED BY <1>3, <1>4

----------------------------------------------------------------------------
(* No transaction is lost.                                                  *)

\* Calls and answers arrive, though perhaps a slot later; a client submits a
\* transaction once.
NothingLost   == Faults \subseteq {"late"}
SubmittedOnce == MaxSubmits <= 1

SubmitsTyped == submits \in [Txs -> Nat]

\* A transaction waits in one place, once, and only the leader has a pool.
QueuesOnce ==
    /\ \A m \in Miners : IsInjective(pool[m]) /\ IsInjective(cache[m])
    /\ \A m, k \in Miners : /\ ToSet(pool[m]) \cap ToSet(cache[k]) = {}
                            /\ m # k => ToSet(cache[m]) \cap ToSet(cache[k]) = {}
    /\ \A m \in Miners \ {TheLeader} : pool[m] = <<>>

Submitted == \A m \in Miners : \A t \in ToSet(pool[m]) \cup ToSet(cache[m]) : submits[t] > 0

\* The block names a transaction once, so its upstream takes it.
BlockOnce ==
    LET s == sending[TheLeader]
    IN  s # Idle => IsInjective(s.block.records) /\ (s.left = <<>> => s.ok)

LossInv ==
    /\ CopyInv /\ SubmitsTyped /\ QueuesOnce /\ Submitted /\ BlockOnce
    /\ up = Nodes
    /\ TxKept

Waits(t)    == \E m \in Miners : t \in ToSet(pool[m]) \cup ToSet(cache[m])
Sent(t)     == \E m \in Miners : t \in ToSet(sending[m].block.records)
OnLedger(t) == \E i \in DOMAIN BeaconLedger : t \in ToSet(BeaconLedger[i].records)

\* Where an accepted transaction can be.
LEMMA KeptIs == TxKept <=> \A t \in accepted : Waits(t) \/ Sent(t) \/ OnLedger(t)
BY DEF TxKept, Waits, Sent, OnLedger

\* The leader, its queues and what is idle.
LEMMA LossIs ==
    ASSUME LossInv, OneLeader
    PROVE  /\ FlowInv /\ TheLeader \in Miners /\ Leader[slot] = TheLeader
           /\ pool \in [Miners -> Seq(Txs)] /\ cache \in [Miners -> Seq(Txs)]
           /\ ToSet(Idle.block.records) = {}
<1>1. FlowInv /\ TheLeader \in Miners /\ Leader[slot] = TheLeader
  BY LeaderSame DEF LossInv, CopyInv, FlowInv, Typed
<1>. QED BY <1>1 DEF FlowInv, Typed, QueuesTyped, Idle, GenesisBlock, ToSet

\* A transaction that is submitted for the first time waits nowhere yet.
LEMMA LossTxAdd ==
    ASSUME LossInv, OneLeader, SubmittedOnce, CopyInv',
           NEW m \in Miners, NEW t \in Txs, HTxAdd(m, t)
    PROVE  LossInv'
<1>1. /\ FlowInv /\ TheLeader \in Miners /\ Leader[slot] = TheLeader
      /\ pool \in [Miners -> Seq(Txs)] /\ cache \in [Miners -> Seq(Txs)]
  BY LossIs
<1>2. /\ UNCHANGED <<slot, up, chain, sending>>
      /\ submits[t] < MaxSubmits /\ submits' = [submits EXCEPT ![t] = @ + 1]
  BY DEF HTxAdd
<1>3. submits[t] = 0 /\ submits'[t] = 1 /\ \A u \in Txs \ {t} : submits'[u] = submits[u]
  BY <1>2, FlowAssumption DEF SubmittedOnce, LossInv, SubmitsTyped
<1>4. SubmitsTyped'
  BY <1>2 DEF LossInv, SubmitsTyped
<1>5. \A k \in Miners : t \notin ToSet(pool[k]) /\ t \notin ToSet(cache[k])
  BY <1>3 DEF LossInv, Submitted
<1>6. BlockOnce' /\ up' = Nodes
  BY <1>2 DEF LossInv, BlockOnce
<1>7. \A k \in Miners : \A u \in ToSet(pool[k]) \cup ToSet(cache[k]) :
         u \in Txs /\ submits'[u] > 0
  <2>1. \A k \in Miners : ToSet(pool[k]) \cup ToSet(cache[k]) \subseteq Txs
    BY <1>1, ElementOfSeq, LenProperties DEF ToSet
  <2>. QED BY <1>3, <1>5, <2>1 DEF LossInv, Submitted
<1>8. CASE UNCHANGED <<pool, cache, accepted>>
  <2>1. QueuesOnce' /\ Submitted'
    BY <1>7, <1>8 DEF LossInv, QueuesOnce, Submitted
  <2>2. TxKept'
    BY <1>2, <1>8 DEF LossInv, TxKept, BeaconLedger
  <2>. QED BY <1>4, <1>6, <2>1, <2>2 DEF LossInv
<1>9. CASE /\ pool' = [pool EXCEPT ![TheLeader] = Append(@, t)] /\ UNCHANGED cache
           /\ accepted' \subseteq accepted \cup {t}
  <2>1. /\ pool'[TheLeader] = Append(pool[TheLeader], t)
        /\ \A k \in Miners \ {TheLeader} : pool'[k] = pool[k]
        /\ pool[TheLeader] \in Seq(Txs)
    BY <1>1, <1>9
  <2>2. /\ ToSet(pool'[TheLeader]) = ToSet(pool[TheLeader]) \cup {t}
        /\ IsInjective(pool'[TheLeader])
    BY <1>1, <1>5, <2>1, AppendIn, OnceAppend DEF LossInv, QueuesOnce
  <2>3. QueuesOnce'
    BY <1>1, <1>5, <1>9, <2>1, <2>2 DEF LossInv, QueuesOnce
  <2>4. Submitted'
    BY <1>3, <1>7, <1>9, <2>1, <2>2 DEF Submitted
  <2>5. TxKept'
    <3>1. ASSUME NEW u \in accepted' PROVE Waits(u)' \/ Sent(u)' \/ OnLedger(u)'
      <4>1. CASE u = t
        BY <1>1, <2>2, <4>1 DEF Waits
      <4>2. CASE u # t
        <5>1. Waits(u) \/ Sent(u) \/ OnLedger(u)
          BY <1>9, <3>1, <4>2, KeptIs DEF LossInv
        <5>2. Waits(u) => Waits(u)'
          BY <1>9, <2>1, <2>2 DEF Waits
        <5>. QED BY <1>2, <5>1, <5>2 DEF Sent, OnLedger, BeaconLedger
      <4>. QED BY <4>1, <4>2
    <3>. QED BY <3>1 DEF TxKept, Waits, Sent, OnLedger
  <2>. QED BY <1>4, <1>6, <2>3, <2>4, <2>5 DEF LossInv
<1>10. CASE /\ cache' = [cache EXCEPT ![m] = Append(@, t)] /\ UNCHANGED pool
            /\ accepted' = accepted \cup {t}
  <2>1. /\ cache'[m] = Append(cache[m], t)
        /\ \A k \in Miners \ {m} : cache'[k] = cache[k]
        /\ cache[m] \in Seq(Txs)
    BY <1>1, <1>10
  <2>2. /\ ToSet(cache'[m]) = ToSet(cache[m]) \cup {t}
        /\ IsInjective(cache'[m])
    BY <1>1, <1>5, <2>1, AppendIn, OnceAppend DEF LossInv, QueuesOnce
  <2>3. QueuesOnce'
    BY <1>1, <1>5, <1>10, <2>1, <2>2 DEF LossInv, QueuesOnce
  <2>4. Submitted'
    BY <1>3, <1>7, <1>10, <2>1, <2>2 DEF Submitted
  <2>5. TxKept'
    <3>1. ASSUME NEW u \in accepted' PROVE Waits(u)' \/ Sent(u)' \/ OnLedger(u)'
      <4>1. CASE u = t
        BY <2>2, <4>1 DEF Waits
      <4>2. CASE u # t
        <5>1. Waits(u) \/ Sent(u) \/ OnLedger(u)
          BY <1>10, <3>1, <4>2, KeptIs DEF LossInv
        <5>2. Waits(u) => Waits(u)'
          BY <1>10, <2>1, <2>2 DEF Waits
        <5>. QED BY <1>2, <5>1, <5>2 DEF Sent, OnLedger, BeaconLedger
      <4>. QED BY <4>1, <4>2
    <3>. QED BY <3>1 DEF TxKept, Waits, Sent, OnLedger
  <2>. QED BY <1>4, <1>6, <2>3, <2>4, <2>5 DEF LossInv
<1>. QED BY <1>1, <1>8, <1>9, <1>10 DEF HTxAdd, Pooled, NotPooled, Cached

\* The leader gets some transactions of a miner's cache; the others stay there.
LEMMA PassedOn ==
    ASSUME LossInv, OneLeader, NEW m \in Miners, NEW gets,
           pool' = [pool EXCEPT ![TheLeader] = @ \o Only(cache[m], gets)],
           cache' = [cache EXCEPT ![m] = Only(@, Txs \ gets)],
           submits' = submits
    PROVE  QueuesOnce' /\ Submitted' /\ \A t : Waits(t) => Waits(t)'
<1>1. /\ TheLeader \in Miners
      /\ pool \in [Miners -> Seq(Txs)] /\ cache \in [Miners -> Seq(Txs)]
  BY LossIs
<1> DEFINE got  == Only(cache[m], gets)
           kept == Only(cache[m], Txs \ gets)
           P    == pool[TheLeader]
<1>2. /\ P \in Seq(Txs) /\ cache[m] \in Seq(Txs)
      /\ pool'[TheLeader] = P \o got /\ \A k \in Miners \ {TheLeader} : pool'[k] = pool[k]
      /\ cache'[m] = kept /\ \A k \in Miners \ {m} : cache'[k] = cache[k]
  BY <1>1
<1>3. /\ IsInjective(P) /\ IsInjective(cache[m])
      /\ \A k \in Miners : IsInjective(cache[k])
      /\ \A k \in Miners : ToSet(P) \cap ToSet(cache[k]) = {}
      /\ \A k \in Miners \ {m} : ToSet(cache[m]) \cap ToSet(cache[k]) = {}
      /\ \A k, l \in Miners : k # l => ToSet(cache[k]) \cap ToSet(cache[l]) = {}
      /\ \A k \in Miners \ {TheLeader} : pool[k] = <<>>
  BY <1>1 DEF LossInv, QueuesOnce
<1>4. /\ got \in Seq(Txs) /\ ToSet(got) = ToSet(cache[m]) \cap gets /\ IsInjective(got)
      /\ kept \in Seq(Txs) /\ ToSet(kept) = ToSet(cache[m]) \cap (Txs \ gets) /\ IsInjective(kept)
  BY <1>2, <1>3, OnlyIs, OnceOnly
<1>5. ToSet(cache[m]) \subseteq Txs
  BY <1>2, ElementOfSeq, LenProperties DEF ToSet
<1> HIDE DEF got, kept, P
<1>6. ToSet(P) \cap ToSet(got) = {}
  BY <1>3, <1>4
<1>7. ToSet(P \o got) = ToSet(P) \cup ToSet(got) /\ IsInjective(P \o got)
  BY <1>2, <1>3, <1>4, <1>6, ConcatIn, OnceConcat
<1>8. \A k \in Miners \ {TheLeader} : ToSet(pool'[k]) = {} /\ IsInjective(pool'[k])
  <2>1. ToSet(<<>>) = {} /\ IsInjective(<<>>)
    BY DEF ToSet, IsInjective
  <2>. QED BY <1>2, <1>3, <2>1
<1>9. \A k \in Miners : IsInjective(pool'[k]) /\ IsInjective(cache'[k])
  BY <1>2, <1>3, <1>4, <1>7, <1>8
<1>10. \A k \in Miners : ToSet(cache'[k]) \subseteq ToSet(cache[k])
  BY <1>2, <1>4
<1>11. \A k \in Miners : ToSet(P \o got) \cap ToSet(cache'[k]) = {}
  <2>1. ToSet(P \o got) \cap ToSet(cache'[m]) = {}
    BY <1>2, <1>3, <1>4, <1>7
  <2>2. \A k \in Miners \ {m} : ToSet(P \o got) \cap ToSet(cache'[k]) = {}
    BY <1>2, <1>3, <1>4, <1>7
  <2>. QED BY <2>1, <2>2
<1>12. QueuesOnce'
  <2>1. \A k, l \in Miners : ToSet(pool'[k]) \cap ToSet(cache'[l]) = {}
    BY <1>2, <1>8, <1>11
  <2>2. \A k, l \in Miners : k # l => ToSet(cache'[k]) \cap ToSet(cache'[l]) = {}
    BY <1>3, <1>10
  <2>3. \A k \in Miners \ {TheLeader} : pool'[k] = <<>>
    BY <1>2, <1>3
  <2>. QED BY <1>9, <2>1, <2>2, <2>3 DEF QueuesOnce
<1>13. Submitted'
  <2>1. \A k \in Miners : \A t \in ToSet(pool[k]) \cup ToSet(cache[k]) : submits[t] > 0
    BY DEF LossInv, Submitted
  <2>2. ASSUME NEW k \in Miners, NEW t \in ToSet(pool'[k]) \cup ToSet(cache'[k])
        PROVE  \E l \in Miners : t \in ToSet(pool[l]) \cup ToSet(cache[l])
    <3>1. t \in ToSet(cache'[k]) => t \in ToSet(cache[k])
      BY <1>10
    <3>2. t \in ToSet(pool'[k]) => k = TheLeader
      BY <1>8
    <3>3. t \in ToSet(P \o got) => t \in ToSet(pool[TheLeader]) \/ t \in ToSet(cache[m])
      BY <1>4, <1>7 DEF P
    <3>. QED BY <1>1, <1>2, <2>2, <3>1, <3>2, <3>3
  <2>. QED BY <2>1, <2>2 DEF Submitted
<1>14. ASSUME NEW t, Waits(t) PROVE Waits(t)'
  <2>1. PICK k \in Miners : t \in ToSet(pool[k]) \cup ToSet(cache[k])
    BY <1>14 DEF Waits
  <2>2. CASE t \in ToSet(pool[k])
    <3>1. k = TheLeader
      <4>1. ToSet(<<>>) = {}
        BY DEF ToSet
      <4>. QED BY <1>3, <2>2, <4>1
    <3>2. t \in ToSet(pool'[TheLeader])
      BY <1>2, <1>7, <2>2, <3>1 DEF P
    <3>. QED BY <1>1, <3>2 DEF Waits
  <2>3. CASE t \in ToSet(cache[k])
    <3>1. CASE k = m
      <4>1. t \in ToSet(got) \/ t \in ToSet(kept)
        BY <1>4, <1>5, <2>3, <3>1
      <4>2. t \in ToSet(pool'[TheLeader]) \/ t \in ToSet(cache'[m])
        BY <1>2, <1>7, <4>1
      <4>. QED BY <1>1, <4>2 DEF Waits
    <3>2. CASE k # m
      BY <1>2, <2>3, <3>2 DEF Waits
    <3>. QED BY <3>1, <3>2
  <2>. QED BY <2>1, <2>2, <2>3
<1>. QED BY <1>12, <1>13, <1>14

\* What was accepted is kept by a step that accepts nothing and loses nothing.
LEMMA KeptStill ==
    ASSUME TxKept, accepted' = accepted,
           \A t : Waits(t) => Waits(t)' \/ Sent(t)' \/ OnLedger(t)',
           \A t : Sent(t) => Sent(t)' \/ OnLedger(t)',
           \A t : OnLedger(t) => OnLedger(t)'
    PROVE  TxKept'
<1>1. \A t \in accepted : Waits(t) \/ Sent(t) \/ OnLedger(t)
  BY KeptIs
<1>2. \A t \in accepted' : Waits(t)' \/ Sent(t)' \/ OnLedger(t)'
  BY <1>1
<1>. QED BY <1>2 DEF TxKept, Waits, Sent, OnLedger

\* A miner sends its cache on: nothing of it gets lost on the way.
LEMMA LossRetry ==
    ASSUME LossInv, OneLeader, NothingLost, CopyInv', NEW m \in Miners, RetryForwards(m)
    PROVE  LossInv'
<1>1. /\ TheLeader \in Miners /\ Leader[slot] = TheLeader
      /\ cache \in [Miners -> Seq(Txs)]
  BY LossIs
<1>2. UNCHANGED <<up, chain, sending, submits, accepted>>
  BY DEF RetryForwards, clientVars
<1>3. QueuesOnce' /\ Submitted' /\ \A t : Waits(t) => Waits(t)'
  <2>1. CASE UNCHANGED <<pool, cache>>
    BY <1>2, <2>1 DEF LossInv, QueuesOnce, Submitted, Waits
  <2>2. ASSUME NEW s \in Mishaps(m),
               LET gets == {t \in Txs \ s[1] : Fresh(TheLeader, t)}
               IN  /\ pool' = [pool EXCEPT ![TheLeader] = @ \o Only(cache[m], gets)]
                   /\ cache' = [cache EXCEPT ![m] = Only(@, (Txs \ gets) \cup s[2])]
        PROVE  QueuesOnce' /\ Submitted' /\ \A t : Waits(t) => Waits(t)'
    <3>1. s[2] = {}
      BY DEF Mishaps, NothingLost
    <3> DEFINE gets == {t \in Txs \ s[1] : Fresh(TheLeader, t)}
    <3>2. (Txs \ gets) \cup s[2] = Txs \ gets
      BY <3>1
    <3>3. /\ pool' = [pool EXCEPT ![TheLeader] = @ \o Only(cache[m], gets)]
          /\ cache' = [cache EXCEPT ![m] = Only(@, (Txs \ gets) \cup s[2])]
      BY <2>2
    <3> HIDE DEF gets
    <3>4. cache' = [cache EXCEPT ![m] = Only(@, Txs \ gets)]
      BY <3>2, <3>3
    <3>. QED BY <1>2, <3>3, <3>4, PassedOn
  <2>. QED BY <1>1, <2>1, <2>2 DEF RetryForwards
<1>4. BlockOnce' /\ SubmitsTyped' /\ up' = Nodes
  BY <1>2 DEF LossInv, BlockOnce, SubmitsTyped
<1>5. TxKept'
  BY <1>2, <1>3, KeptStill DEF LossInv, Sent, OnLedger, BeaconLedger
<1>. QED BY <1>3, <1>4, <1>5 DEF LossInv

\* A block takes what fits of the pool, and the cache takes the rest.
LEMMA LossHandle ==
    ASSUME LossInv, OneLeader, CopyInv', NEW m \in Miners, HandleSlotLeaderRole(m)
    PROVE  LossInv'
<1>1. /\ FlowInv /\ m = TheLeader /\ Leader[slot] = TheLeader
      /\ pool \in [Miners -> Seq(Txs)] /\ cache \in [Miners -> Seq(Txs)]
      /\ ToSet(Idle.block.records) = {}
      /\ UNCHANGED <<up, chain, submits, accepted>> /\ sending[m] = Idle
  BY LossIs, HandleIs DEF clientVars, Free
<1>2. SubmitsTyped' /\ up' = Nodes
  BY <1>1 DEF LossInv, SubmitsTyped
<1>3. CASE /\ pool' = [pool EXCEPT ![m] = Handled(m)]
           /\ cache' = [cache EXCEPT ![m] = Left(m)]
           /\ UNCHANGED sending
  <2>1. /\ pool' = [pool EXCEPT ![TheLeader] = @ \o Only(cache[m], FreshAt(m))]
        /\ cache' = [cache EXCEPT ![m] = Only(@, Txs \ FreshAt(m))]
    BY <1>1, <1>3 DEF Handled, Left
  <2>2. QueuesOnce' /\ Submitted' /\ \A t : Waits(t) => Waits(t)'
    BY <1>1, <2>1, PassedOn
  <2>3. BlockOnce'
    BY <1>3 DEF LossInv, BlockOnce
  <2>4. TxKept'
    BY <1>1, <1>3, <2>2, KeptStill DEF LossInv, Sent, OnLedger, BeaconLedger
  <2>. QED BY <1>2, <2>2, <2>3, <2>4 DEF LossInv
<1>4. CASE Starts(m)
  <2> DEFINE p    == Handled(m)
             in   == BlockTransactions(p)
             over == Overflow(p)
             rest == Left(m)
  <2>1. /\ \A k \in Miners : pool'[k] = <<>>
        /\ cache'[m] = rest \o over /\ \A k \in Miners \ {m} : cache'[k] = cache[k]
        /\ sending'[m] = [block |-> Made(m), left |-> Upstreams, ok |-> FALSE]
        /\ \A k \in Miners \ {m} : sending'[k] = sending[k]
    BY <1>1, <1>4 DEF Starts, FlowInv, Inv, SendingGood, LossInv, QueuesOnce
  <2>2. /\ IsInjective(pool[m]) /\ pool[m] \in Seq(Txs) /\ cache[m] \in Seq(Txs)
        /\ \A k \in Miners : IsInjective(cache[k])
        /\ \A k \in Miners : ToSet(pool[m]) \cap ToSet(cache[k]) = {}
        /\ \A k, l \in Miners : k # l => ToSet(cache[k]) \cap ToSet(cache[l]) = {}
        /\ \A k \in Miners \ {m} : pool[k] = <<>>
    BY <1>1 DEF LossInv, QueuesOnce
  <2>3. /\ Only(cache[m], FreshAt(m)) \in Seq(Txs) /\ rest \in Seq(Txs) /\ p \in Seq(Txs)
        /\ ToSet(Only(cache[m], FreshAt(m))) = ToSet(cache[m]) \cap FreshAt(m)
        /\ ToSet(rest) = ToSet(cache[m]) \ FreshAt(m)
        /\ ToSet(p) = ToSet(pool[m]) \cup (ToSet(cache[m]) \cap FreshAt(m))
        /\ IsInjective(Only(cache[m], FreshAt(m))) /\ IsInjective(rest)
    <3>1. /\ rest \in Seq(Txs) /\ p \in Seq(Txs)
          /\ ToSet(p) = ToSet(pool[m]) \cup (ToSet(cache[m]) \cap FreshAt(m))
          /\ ToSet(rest) = ToSet(cache[m]) \ FreshAt(m)
      BY <1>1, HandledIs DEF FlowInv, Typed
    <3>2. /\ Only(cache[m], FreshAt(m)) \in Seq(Txs)
          /\ ToSet(Only(cache[m], FreshAt(m))) = ToSet(cache[m]) \cap FreshAt(m)
      BY <2>2, OnlyIs
    <3>3. IsInjective(Only(cache[m], FreshAt(m))) /\ IsInjective(Only(cache[m], Txs \ FreshAt(m)))
      BY <2>2, OnceOnly
    <3>. QED BY <3>1, <3>2, <3>3 DEF Left
  <2>4. IsInjective(p)
    <3>1. ToSet(pool[m]) \cap ToSet(Only(cache[m], FreshAt(m))) = {}
      BY <2>2, <2>3
    <3>. QED BY <2>2, <2>3, <3>1, OnceConcat DEF Handled
  <2> HIDE DEF p
  <2>5. /\ in \in Seq(Txs) /\ over \in Seq(Txs) /\ IsInjective(in) /\ IsInjective(over)
        /\ ToSet(p) = ToSet(in) \cup ToSet(over)
    BY <2>3, <2>4, PartsOf, OnceParts
  <2>6. Made(m).records = in
    BY DEF Made, MakeBlock, p
  <2> HIDE DEF in, over, rest
  <2>7. ToSet(rest) \cap ToSet(over) = {}
    BY <2>2, <2>3, <2>5
  <2>8. ToSet(rest \o over) = ToSet(rest) \cup ToSet(over) /\ IsInjective(rest \o over)
    BY <2>3, <2>5, <2>7, ConcatIn, OnceConcat
  <2>9. ToSet(rest \o over) \subseteq ToSet(pool[m]) \cup ToSet(cache[m])
    BY <2>3, <2>5, <2>8
  <2>10. ToSet(<<>>) = {} /\ IsInjective(<<>>)
    BY DEF ToSet, IsInjective
  <2>11. QueuesOnce'
    <3>1. \A k \in Miners : IsInjective(pool'[k]) /\ IsInjective(cache'[k])
      BY <2>1, <2>2, <2>8, <2>10
    <3>2. \A k, l \in Miners : ToSet(pool'[k]) \cap ToSet(cache'[l]) = {}
      BY <2>1, <2>10
    <3>3. \A k \in Miners \ {m} : ToSet(rest \o over) \cap ToSet(cache[k]) = {}
      BY <2>2, <2>9
    <3>4. \A k, l \in Miners : k # l => ToSet(cache'[k]) \cap ToSet(cache'[l]) = {}
      BY <2>1, <2>2, <3>3
    <3>. QED BY <2>1, <3>1, <3>2, <3>4 DEF QueuesOnce
  <2>12. Submitted'
    <3>1. \A k \in Miners : \A t \in ToSet(pool[k]) \cup ToSet(cache[k]) : submits[t] > 0
      BY DEF LossInv, Submitted
    <3>2. \A k \in Miners : \A t \in ToSet(pool'[k]) \cup ToSet(cache'[k]) :
             t \in ToSet(pool[k]) \cup ToSet(cache[k])
      BY <2>1, <2>9, <2>10
    <3>. QED BY <1>1, <3>1, <3>2 DEF Submitted
  <2>13. BlockOnce'
    <3>1. Upstreams # <<>>
      BY FlowAssumption
    <3>2. sending'[TheLeader].block.records = in /\ sending'[TheLeader].left # <<>>
      BY <1>1, <2>1, <2>6, <3>1
    <3>. QED BY <2>5, <3>2 DEF BlockOnce
  <2>14. ASSUME NEW t, Waits(t) PROVE Waits(t)' \/ Sent(t)'
    <3>1. PICK k \in Miners : t \in ToSet(pool[k]) \cup ToSet(cache[k])
      BY <2>14 DEF Waits
    <3>2. CASE k = m
      <4>1. t \in ToSet(in) \/ t \in ToSet(over) \/ t \in ToSet(rest)
        BY <2>3, <2>5, <3>1, <3>2
      <4>2. t \in ToSet(sending'[m].block.records) \/ t \in ToSet(cache'[m])
        BY <2>1, <2>6, <2>8, <4>1
      <4>. QED BY <4>2 DEF Waits, Sent
    <3>3. CASE k # m
      <4>1. t \in ToSet(cache'[k])
        BY <2>1, <2>2, <2>10, <3>1, <3>3
      <4>. QED BY <4>1 DEF Waits
    <3>. QED BY <3>2, <3>3
  <2>15. \A t : Sent(t) => Sent(t)'
    BY <1>1, <2>1 DEF Sent
  <2>16. TxKept'
    BY <1>1, <2>14, <2>15, KeptStill DEF LossInv, OnLedger, BeaconLedger
  <2>. QED BY <1>2, <2>11, <2>12, <2>13, <2>16 DEF LossInv
<1>. QED BY <1>3, <1>4, HandleIs

\* The upstream hears of the block, takes it, and the leader hears of that.
LEMMA LossCall ==
    ASSUME LossInv, OneLeader, OneUpstream, NothingLost, CopyInv',
           NEW m \in Miners, CallUpstream(m)
    PROVE  LossInv'
<1> DEFINE s == sending[m]
           b == s.block
           n == Head(s.left)
           L == BeaconLedger
           a == AddBlock(chain[Beacon], b)
<1>1. /\ FlowInv /\ SendingGood /\ TheLeader \in Miners
      /\ UNCHANGED <<up, pool, cache, submits, accepted>> /\ s.left # <<>> /\ s # Idle
  BY LossIs DEF FlowInv, Inv, CallUpstream, clientVars, Idle
<1>2. m = TheLeader
  BY <1>1 DEF LossInv, CopyInv, OnlyLeader
<1>3. s.left = Upstreams /\ Follows(L, b) /\ IsInjective(b.records)
  BY <1>1, <1>2 DEF LossInv, CopyInv, LeaderKnows, BlockOnce
<1>4. n \in {Beacon, Relay} /\ Tail(s.left) = <<>>
  BY <1>3, UpstreamIs
<1>5. IsLedger(L) /\ Linked(L) /\ chain[Beacon] = Copied(L) /\ Beacon \in Nodes
  <2>1. Beacon \in Nodes
    BY DEF Nodes
  <2>. QED BY <2>1, CopyIs DEF BeaconLedger, LossInv
<1>6. a = [ok |-> TRUE, chain |-> Copied(Append(L, b))]
  BY <1>1, <1>3, <1>5, SentSlot, AddFollows
<1>7. Outcomes(n, b) = {HBlockAdd(n, b)}
  <2>1. {n, Beacon} \subseteq up
    BY <1>4 DEF LossInv, Nodes
  <2>2. "drop" \notin Faults /\ "lostBlockAck" \notin Faults
    BY DEF NothingLost
  <2> HIDE DEF n, b
  <2>. QED BY <2>1, <2>2 DEF Outcomes
<1>8. /\ chain' = HBlockAdd(n, b).chain
      /\ sending' = [k \in Miners |->
             IF k = m THEN [block |-> b, left |-> Tail(s.left), ok |-> s.ok \/ HBlockAdd(n, b).ok]
             ELSE sending[k]]
  <2>1. PICK o \in Outcomes(n, b) :
              /\ chain' = o.chain
              /\ sending' = [k \in Miners |->
                     IF k = m THEN [block |-> b, left |-> Tail(s.left), ok |-> s.ok \/ o.ok]
                     ELSE sending[k]]
    BY <1>1, CallUpstreamIs
  <2>2. o = HBlockAdd(n, b)
    BY <1>7, <2>1
  <2> HIDE DEF n, b, s
  <2>. QED BY <2>1, <2>2
<1>9. HBlockAdd(n, b).ok
  BY <1>6 DEF HBlockAdd
<1>10. /\ sending'[m] = [block |-> b, left |-> <<>>, ok |-> s.ok \/ HBlockAdd(n, b).ok]
       /\ \A k \in Miners \ {m} : sending'[k] = sending[k]
  <2> HIDE DEF n, b, s
  <2>. QED BY <1>4, <1>8
<1>11. BlockOnce'
  <2>1. sending'[m].ok /\ sending'[m].block = b
    <3>1. s.ok \in BOOLEAN
      BY <1>1 DEF FlowInv, Typed, BlocksTyped
    <3> HIDE DEF n, b, s
    <3>2. (s.ok \/ HBlockAdd(n, b).ok) = TRUE
      BY <1>9, <3>1
    <3>3. PICK any : /\ any = (s.ok \/ HBlockAdd(n, b).ok)
                     /\ sending'[m] = [block |-> b, left |-> <<>>, ok |-> any]
      BY <1>10
    <3>4. any = TRUE
      BY <3>2, <3>3
    <3>. QED BY <3>3, <3>4
  <2>. QED BY <1>2, <1>3, <2>1 DEF BlockOnce
<1>12. BeaconLedger' = Append(L, b)
  <2>1. HBlockAdd(n, b).chain[Beacon] = a.chain
    BY <1>1, HBlockAddBeacon DEF FlowInv
  <2>2. chain'[Beacon] = HBlockAdd(n, b).chain[Beacon]
    BY <1>8
  <2> HIDE DEF a, L, b, n
  <2>3. chain'[Beacon] = Copied(Append(L, b))
    BY <1>6, <2>1, <2>2
  <2>. QED BY <2>3, CopiedIs DEF BeaconLedger
<1>13. \A t : OnLedger(t) => OnLedger(t)'
  <2>1. /\ DOMAIN L = 1 .. Len(L) /\ DOMAIN Append(L, b) = 1 .. Len(L) + 1 /\ Len(L) \in Nat
        /\ \A i \in 1 .. Len(L) : Append(L, b)[i] = L[i]
    BY <1>5, AppendIs DEF IsLedger
  <2>2. \A i \in 1 .. Len(L) : i \in 1 .. Len(L) + 1
    BY <2>1
  <2> HIDE DEF b
  <2>. QED BY <1>12, <2>1, <2>2 DEF OnLedger
<1>14. \A t : Sent(t) => Sent(t)'
  <2>1. sending'[m].block = sending[m].block
    BY <1>10
  <2>. QED BY <1>10, <2>1 DEF Sent
<1>15. \A t : Waits(t) => Waits(t)'
  BY <1>1 DEF Waits
<1>16. TxKept'
  BY <1>1, <1>13, <1>14, <1>15, KeptStill DEF LossInv
<1>17. QueuesOnce' /\ Submitted' /\ SubmitsTyped' /\ up' = Nodes
  BY <1>1 DEF LossInv, QueuesOnce, Submitted, SubmitsTyped
<1>. QED BY <1>11, <1>16, <1>17 DEF LossInv

\* When the leader is done with the block the beacon has it.
LEMMA LossFinish ==
    ASSUME LossInv, OneLeader, CopyInv', NEW m \in Miners, FinishBroadcast(m)
    PROVE  LossInv'
<1> DEFINE s == sending[m]
           L == chain[m].ledger
<1>1. /\ FlowInv /\ ToSet(Idle.block.records) = {} /\ TheLeader \in Miners
      /\ UNCHANGED <<up, pool, cache, submits, accepted>> /\ s # Idle /\ s.left = <<>>
      /\ sending' = [sending EXCEPT ![m] = Idle]
  BY LossIs DEF FinishBroadcast, clientVars
<1>2. m = TheLeader /\ m \in Nodes /\ m # Beacon
  BY <1>1, FlowAssumption DEF LossInv, CopyInv, OnlyLeader, Nodes
<1>3. s.ok
  BY <1>1, <1>2 DEF LossInv, BlockOnce
<1>4. BeaconLedger = Append(L, s.block)
  BY <1>2, <1>3 DEF LossInv, CopyInv, LeaderKnows
<1>5. BeaconLedger' = BeaconLedger
  <2>1. chain = [k \in Nodes |-> chain[k]] /\ Beacon \in Nodes
    BY <1>1 DEF FlowInv, Inv, LedgersGood, Nodes
  <2>2. chain' = [chain EXCEPT ![m] = OwnChain(m, s.block)]
    BY <1>3 DEF FinishBroadcast, AnySuccess
  <2>. QED BY <1>2, <2>1, <2>2 DEF BeaconLedger
<1>6. sending'[m] = Idle /\ \A k \in Miners \ {m} : sending'[k] = sending[k]
  BY <1>1 DEF FlowInv, Inv, SendingGood
<1>7. \A t \in ToSet(s.block.records) : OnLedger(t)
  <2>1. IsLedger(L)
    BY <1>2, CopyIs DEF LossInv
  <2>2. /\ Len(L) \in Nat /\ DOMAIN BeaconLedger = 1 .. Len(L) + 1
        /\ BeaconLedger[Len(L) + 1] = s.block
    BY <1>4, <2>1, AppendIs DEF IsLedger
  <2>3. Len(L) + 1 \in DOMAIN BeaconLedger
    BY <2>2
  <2>. QED BY <2>2, <2>3 DEF OnLedger
<1>8. \A t : Sent(t) => Sent(t)' \/ OnLedger(t)'
  <2>1. \A t : OnLedger(t) => OnLedger(t)'
    BY <1>5 DEF OnLedger
  <2>2. ASSUME NEW t, Sent(t) PROVE Sent(t)' \/ OnLedger(t)
    <3>1. PICK k \in Miners : t \in ToSet(sending[k].block.records)
      BY <2>2 DEF Sent
    <3>2. CASE k = m
      BY <1>7, <3>1, <3>2
    <3>3. CASE k # m
      BY <1>6, <3>1, <3>3 DEF Sent
    <3>. QED BY <3>2, <3>3
  <2>. QED BY <2>1, <2>2
<1>9. TxKept'
  BY <1>1, <1>5, <1>8, KeptStill DEF LossInv, Waits, OnLedger
<1>10. BlockOnce'
  BY <1>2, <1>6 DEF BlockOnce
<1>11. QueuesOnce' /\ Submitted' /\ SubmitsTyped' /\ up' = Nodes
  BY <1>1 DEF LossInv, QueuesOnce, Submitted, SubmitsTyped
<1>. QED BY <1>9, <1>10, <1>11 DEF LossInv

\* Steps that leave queues, senders and the beacon's ledger alone.
LEMMA LossSame ==
    ASSUME LossInv, CopyInv', UNCHANGED <<pool, cache, sending, submits, accepted>>,
           BeaconLedger' = BeaconLedger, up' = up
    PROVE  LossInv'
<1>1. TxKept'
  BY DEF LossInv, TxKept
<1>. QED BY <1>1 DEF LossInv, SubmitsTyped, QueuesOnce, Submitted, BlockOnce

\* A beacon or relay that restarts reads its chain back, catches up and runs.
LEMMA LossRestart ==
    ASSUME LossInv, NothingLost, CopyInv', NEW n \in {Beacon, Relay}, Restart(n)
    PROVE  LossInv'
<1>1. /\ n \in Nodes /\ n \notin Miners /\ Beacon \in Nodes /\ Relay \in Nodes /\ Beacon # Relay
      /\ CopyInv /\ FlowInv
  BY FlowAssumption DEF Nodes, LossInv, CopyInv
<1>2. UNCHANGED <<pool, cache, sending, submits, accepted>>
  BY <1>1 DEF Restart, minerVars, clientVars
<1>3. CASE n = Beacon
  <2>1. chain' = chain /\ up' = up
    BY <1>1, <1>3, BeaconRestart DEF LossInv
  <2>. QED BY <1>2, <2>1, LossSame DEF BeaconLedger
<1>4. CASE n = Relay
  <2> DEFINE L      == chain[n].ledger
             S      == chain[Source(n)].ledger
             load   == LoadFromLedger(L)
             synced == {AddBlocks(load.chain, blocks) : blocks \in Fetches(n, Len(L))}
             starts == IF n = Beacon \/ ~load.ok THEN {load}
                       ELSE IF Source(n) \notin up THEN {[load EXCEPT !.ok = FALSE]}
                       ELSE {[r EXCEPT !.ok = @ /\ CaughtUp(n, r.chain)] : r \in synced}
  <2>1. PICK r \in starts : /\ chain' = [chain EXCEPT ![n] = r.chain]
                            /\ up' = IF r.ok THEN up \cup {n} ELSE up \ {n}
    BY DEF Restart
  <2>2. Source(n) = Beacon /\ S = BeaconLedger
    BY <1>4 DEF Source, BeaconLedger
  <2>3. /\ IsLedger(L) /\ IsLedger(S) /\ Linked(S) /\ Begins(L, S)
        /\ chain[n] = Copied(L) /\ load = [ok |-> TRUE, chain |-> Copied(L)]
    BY <1>1, <2>2, CopyIs
  <2>4. PICK blocks \in Fetches(n, Len(L)) :
           r = [AddBlocks(Copied(L), blocks) EXCEPT
                  !.ok = @ /\ CaughtUp(n, AddBlocks(Copied(L), blocks).chain)]
    BY <1>1, <1>4, <2>1, <2>2, <2>3 DEF LossInv
  <2>5. blocks = SubSeq(S, Len(L) + 1, Len(S))
    BY <2>4 DEF Fetches, NothingLost
  <2> HIDE DEF L, S, load, synced, starts
  <2>6. Len(L) \in Nat /\ Len(S) \in Nat /\ Len(S) \in Len(L) .. Len(S)
    BY <2>3, LedgerIs DEF Begins
  <2>7. PICK N : /\ IsLedger(N) /\ Begins(N, S) /\ Len(N) = Len(S)
                 /\ AddBlocks(Copied(L), blocks) = [ok |-> TRUE, chain |-> Copied(N)]
    <3>1. \E N : /\ IsLedger(N) /\ Begins(N, S) /\ Len(N) = Len(S)
                 /\ AddBlocks(Copied(L), SubSeq(S, Len(L) + 1, Len(S)))
                       = [ok |-> TRUE, chain |-> Copied(N)]
      BY <2>3, <2>6, CatchUp
    <3>. QED BY <2>5, <3>1
  <2>8. r = [ok |-> CaughtUp(n, Copied(N)), chain |-> Copied(N)]
    BY <2>4, <2>7 DEF CaughtUp
  <2>9. CaughtUp(n, Copied(N))
    BY <2>6, <2>7, CopiedIs DEF CaughtUp, S
  <2>10. up' = up \cup {n}
    BY <2>1, <2>8, <2>9
  <2>11. up' = up
    BY <1>1, <2>10 DEF LossInv
  <2>12. BeaconLedger' = BeaconLedger
    BY <1>1, <1>4, <2>1 DEF BeaconLedger, FlowInv, Inv, LedgersGood
  <2>. QED BY <1>2, <2>11, <2>12, LossSame
<1>. QED BY <1>3, <1>4

\* Every step keeps the invariant,
LEMMA LossStep ==
    ASSUME OneLeader, OneUpstream, NothingLost, SubmittedOnce
    PROVE  LossInv /\ [Next]_vars /\ [\A m \in Miners : ~Restart(m)]_vars => LossInv'
<1> SUFFICES ASSUME LossInv, [Next]_vars, [\A m \in Miners : ~Restart(m)]_vars PROVE LossInv'
  OBVIOUS
<1>1. CopyInv'
  BY CopyStep DEF LossInv, NothingLost, BlocksAnswered
<1>2. CASE UNCHANGED vars
  BY <1>1, <1>2, LossSame DEF vars, minerVars, clientVars, BeaconLedger
<1>3. CASE Tick
  BY <1>1, <1>3, LossSame DEF Tick, minerVars, clientVars, BeaconLedger
<1>4. ASSUME NEW m \in Miners,
             \/ \E t \in Txs : HTxAdd(m, t)
             \/ RetryForwards(m)
             \/ HandleSlotLeaderRole(m)
             \/ CallUpstream(m)
             \/ FinishBroadcast(m)
      PROVE  LossInv'
  BY <1>1, <1>4, LossTxAdd, LossRetry, LossHandle, LossCall, LossFinish
<1>5. ASSUME NEW n \in Nodes, SyncBlocks(n) PROVE LossInv'
  <2>1. BeaconLedger' = BeaconLedger
    <3>1. chain = [k \in Nodes |-> chain[k]] /\ Beacon \in Nodes
      BY DEF LossInv, CopyInv, FlowInv, Inv, LedgersGood, Nodes
    <3>2. PICK c : chain' = [chain EXCEPT ![n] = c]
      BY <1>5 DEF SyncBlocks
    <3>3. n # Beacon
      BY <1>5 DEF SyncBlocks
    <3>. QED BY <3>1, <3>2, <3>3 DEF BeaconLedger
  <2>. QED BY <1>1, <1>5, <2>1, LossSame DEF SyncBlocks, minerVars, clientVars
<1>6. ASSUME NEW n \in Nodes, Restart(n), ~UNCHANGED vars PROVE LossInv'
  <2>1. n \notin Miners
    BY <1>6
  <2>. QED BY <1>1, <1>6, <2>1, LossRestart DEF Nodes
<1>. QED BY <1>2, <1>3, <1>4, <1>5, <1>6 DEF Next

\* and it holds at the start.
LEMMA LossInit ==
    ASSUME OneLeader
    PROVE  Init => LossInv
<1> SUFFICES ASSUME Init PROVE LossInv
  OBVIOUS
<1>1. CopyInv
  BY CopyInit
<1>2. TheLeader \in Miners
  BY <1>1, LeaderSame DEF CopyInv, FlowInv, Typed
<1>3. IsInjective(<<>>) /\ ToSet(<<>>) = {}
  BY DEF IsInjective, ToSet
<1>4. QueuesOnce /\ Submitted
  BY <1>3 DEF Init, QueuesOnce, Submitted
<1>5. SubmitsTyped /\ BlockOnce /\ up = Nodes /\ TxKept
  BY <1>2 DEF Init, SubmitsTyped, BlockOnce, TxKept
<1>. QED BY <1>1, <1>4, <1>5 DEF LossInv

\* Every transaction a client was told is accepted is in a pool, in a cache, in a
\* block on its way or on the beacon's chain: where one miner leads, its list has
\* one server, nothing is lost (though it may come a slot late), clients submit
\* once and miners stay. Each of these is needed (broadcastBlock gives up a block
\* that every upstream refused or that none heard of, and its transactions).
THEOREM AcceptedKept ==
    ASSUME OneLeader, OneUpstream, NothingLost, SubmittedOnce
    PROVE  Spec /\ MinersStay => []TxKept
<1>1. LossInv /\ [Next]_vars /\ [\A m \in Miners : ~Restart(m)]_vars => LossInv'
  BY LossStep
<1>2. LossInv => TxKept
  BY DEF LossInv
<1>. QED BY <1>1, <1>2, LossInit, PTL DEF Spec, MinersStay
=============================================================================
