----------------------------- MODULE EpochProofs -----------------------------
(***************************************************************************)
(* What Epochs promises where a call ends in the slot it began in: for any *)
(* miners, stakes, payments and leaders, and any stops and restarts, the   *)
(* leaders of a chain can be read off it; and where there is one miner,    *)
(* nodes agree on them and can be restarted at any time.                   *)
(*                                                                         *)
(* A view that a node took in an epoch is the one the ledger gives for     *)
(* that epoch, because no block of an epoch is added before the beacon's   *)
(* view is of that epoch, and a load takes its views from the ledger.      *)
(***************************************************************************)
EXTENDS Epochs, DataLemmas, SequenceTheorems, TLAPS

\* Calls end in the slot they began in.
OnTime == "late" \notin Faults

\* All slots with a leader who mines are one miner's.
OneMiner == \A m, k \in Miners : m = k

Blocks == [slot : Nat, leader : Nat, pay : Payments \cup {NoBlock.pay}]
Trunk  == ledger[Beacon]

\* The nodes that have every block as soon as the beacon has it.
Prompt == {n \in Nodes : OneMiner \/ n = Beacon}

Typed ==
    /\ slot \in Nat
    /\ ledger \in [Nodes -> Seq(Blocks)]
    /\ view = [n \in Nodes |-> view[n]]
    /\ sending \in Blocks
    /\ up \subseteq Nodes

\* Ledgers are beginnings of the beacon's.
Branches ==
    /\ \A n \in Nodes : \E k \in 0 .. Len(Trunk) : ledger[n] = SubSeq(Trunk, 1, k)
    /\ \A n \in Prompt : ledger[n] = Trunk

\* A block is added to the chain and in the slot it was made on.
OnItsWay ==
    sending # NoBlock =>
        /\ sending.slot = slot
        /\ sending.leader \in Miners \cap up
        /\ ledger[sending.leader] = Trunk
        /\ view[sending.leader].epoch = Epoch(slot)

InOrder(L) == \A i, j \in 1 .. Len(L) : i <= j => Epoch(L[i].slot) <= Epoch(L[j].slot)

Past(L, e) == \A i \in 1 .. Len(L) : Epoch(L[i].slot) <= e

\* Each block is of the leader of the stakes before its epoch.
Led(L) ==
    \A i \in 1 .. Len(L) :
        L[i].leader = SelectSlotLeader(Stakes(Earlier(L, Epoch(L[i].slot))), L[i].slot)

\* The view the ledger L gives for epoch e.
ViewOf(L, e) == [epoch |-> e, stakes |-> Stakes(Earlier(L, e))]

\* A view taken in epoch e or before it.
ViewIs(v, L, e) == v = NoView \/ (v.epoch \in 0 .. e /\ v = ViewOf(L, v.epoch))

\* No block of an epoch e before the view of it.
InEpoch(v, L, e) == \A i \in 1 .. Len(L) : Epoch(L[i].slot) = e => v.epoch = e

Views ==
    \A n \in Prompt :
        ViewIs(view[n], Trunk, Epoch(slot)) /\ InEpoch(view[n], Trunk, Epoch(slot))

Chained == InOrder(Trunk) /\ Past(Trunk, Epoch(slot)) /\ Led(Trunk)

Inv == Typed /\ Branches /\ OnItsWay /\ Chained /\ Views

----------------------------------------------------------------------------
(* Epochs and ledgers.                                                     *)

\* Later slots are of later epochs, or of the same.
LEMMA EpochGrows ==
    /\ \A s \in Nat : Epoch(s) \in Nat
    /\ \A s, t \in Nat : s <= t => Epoch(s) <= Epoch(t)
<1> DEFINE d == SlotsPerEpoch
<1>1. d \in Nat /\ d > 0
  BY EpochAssumption
<1> HIDE DEF d
<1>2. \A s \in Nat : s \div d \in Nat
  BY <1>1
<1>3. ASSUME NEW s \in Nat, NEW t \in Nat, s <= t PROVE s \div d <= t \div d
  BY <1>1, <1>3
<1>. QED BY <1>2, <1>3 DEF Epoch, d

\* What two ledgers begin with alike, they have as the same beginning.
LEMMA SameStart ==
    ASSUME NEW L \in Seq(Blocks), NEW M \in Seq(Blocks),
           NEW m \in 0 .. Len(L), m <= Len(M), \A j \in 1 .. m : L[j] = M[j]
    PROVE  SubSeq(L, 1, m) = SubSeq(M, 1, m)
<1>1. Len(L) \in Nat /\ Len(M) \in Nat /\ m \in 0 .. Len(M)
  BY LenProperties
<1>2. /\ SubSeq(L, 1, m) \in Seq(Blocks) /\ Len(SubSeq(L, 1, m)) = m
      /\ \A j \in 1 .. m : SubSeq(L, 1, m)[j] = L[j]
  BY <1>1, SubSeqProperties
<1>3. /\ SubSeq(M, 1, m) \in Seq(Blocks) /\ Len(SubSeq(M, 1, m)) = m
      /\ \A j \in 1 .. m : SubSeq(M, 1, m)[j] = M[j]
  BY <1>1, SubSeqProperties
<1>. QED BY <1>2, <1>3, SeqEqual

\* A beginning of a ledger.
LEMMA Beginning ==
    ASSUME NEW L \in Seq(Blocks), NEW k \in 0 .. Len(L)
    PROVE  /\ SubSeq(L, 1, k) \in Seq(Blocks)
           /\ Len(SubSeq(L, 1, k)) = k
           /\ \A j \in 1 .. k : SubSeq(L, 1, k)[j] = L[j]
           /\ k = Len(L) => SubSeq(L, 1, k) = L
<1>1. Len(L) \in Nat
  BY LenProperties
<1>2. /\ SubSeq(L, 1, k) \in Seq(Blocks)
      /\ Len(SubSeq(L, 1, k)) = k
      /\ \A j \in 1 .. k : SubSeq(L, 1, k)[j] = L[j]
  BY <1>1, SubSeqProperties
<1>3. ASSUME k = Len(L) PROVE SubSeq(L, 1, k) = L
  BY <1>2, <1>3, SeqEqual
<1>. QED BY <1>2, <1>3

\* The slots of a ledger are numbers.
LEMMA SlotsType ==
    ASSUME NEW L \in Seq(Blocks), NEW i \in 1 .. Len(L)
    PROVE  L[i] \in Blocks /\ L[i].slot \in Nat /\ Epoch(L[i].slot) \in Nat
<1>1. L[i] \in Blocks
  BY ElementOfSeq
<1>. QED BY <1>1, EpochGrows DEF Blocks

Cuts(L, e) == {i \in 0 .. Len(L) : i = 0 \/ Epoch(L[i].slot) < e}

\* The blocks of earlier epochs are those up to the last cut.
LEMMA CutType ==
    ASSUME NEW L \in Seq(Blocks), NEW e
    PROVE  /\ Max(Cuts(L, e)) \in Cuts(L, e) /\ Max(Cuts(L, e)) \in 0 .. Len(L)
           /\ \A i \in Cuts(L, e) : i <= Max(Cuts(L, e))
           /\ Earlier(L, e) = SubSeq(L, 1, Max(Cuts(L, e)))
<1>1. Len(L) \in Nat /\ 0 \in Int
  BY LenProperties
<1>2. IsFiniteSet(0 .. Len(L))
  BY <1>1, FS_Interval
<1>3. Cuts(L, e) \in SUBSET Nat /\ IsFiniteSet(Cuts(L, e)) /\ Cuts(L, e) # {}
      /\ Cuts(L, e) \subseteq 0 .. Len(L)
  BY <1>1, <1>2, FS_Subset DEF Cuts
<1>4. Max(Cuts(L, e)) \in Cuts(L, e) /\ \A i \in Cuts(L, e) : i <= Max(Cuts(L, e))
  BY <1>3, Greatest
<1>. QED BY <1>3, <1>4 DEF Earlier, Cuts

\* Where the first k blocks are earlier than epoch e and no other block is.
LEMMA EarlierIs ==
    ASSUME NEW L \in Seq(Blocks), NEW e \in Nat, NEW k \in 0 .. Len(L),
           \A i \in 1 .. k : Epoch(L[i].slot) < e,
           \A i \in k + 1 .. Len(L) : Epoch(L[i].slot) >= e
    PROVE  Earlier(L, e) = SubSeq(L, 1, k)
<1> DEFINE m == Max(Cuts(L, e))
<1>1. /\ m \in Cuts(L, e) /\ m \in 0 .. Len(L) /\ \A i \in Cuts(L, e) : i <= m
      /\ Earlier(L, e) = SubSeq(L, 1, m)
  BY CutType
<1> HIDE DEF m
<1>2. Len(L) \in Nat /\ k \in Cuts(L, e)
  BY LenProperties DEF Cuts
<1>3. m <= k
  <2> SUFFICES ASSUME m > k PROVE FALSE
    BY <1>1, <1>2
  <2>1. m \in k + 1 .. Len(L) /\ m \in 1 .. Len(L) /\ m # 0
    BY <1>1, <1>2
  <2>2. Epoch(L[m].slot) < e /\ Epoch(L[m].slot) >= e /\ Epoch(L[m].slot) \in Nat
    BY <1>1, <2>1, SlotsType DEF Cuts
  <2>. QED BY <2>2
<1>4. m = k
  BY <1>1, <1>2, <1>3
<1>. QED BY <1>1, <1>4

\* Blocks of epoch e and later do not change what is earlier.
LEMMA EarlierStays ==
    ASSUME NEW L \in Seq(Blocks), NEW M \in Seq(Blocks), NEW e \in Nat,
           Len(M) <= Len(L), \A i \in 1 .. Len(M) : L[i] = M[i],
           \A i \in Len(M) + 1 .. Len(L) : Epoch(L[i].slot) >= e
    PROVE  Earlier(L, e) = Earlier(M, e)
<1>1. Len(L) \in Nat /\ Len(M) \in Nat
  BY LenProperties
<1>2. Cuts(L, e) = Cuts(M, e)
  <2>1. \A i \in 0 .. Len(L) : i \in 0 .. Len(M) \/ i \in Len(M) + 1 .. Len(L)
    BY <1>1
  <2>2. \A i \in Len(M) + 1 .. Len(L) : i # 0 /\ ~(Epoch(L[i].slot) < e)
    <3>1. ASSUME NEW i \in Len(M) + 1 .. Len(L) PROVE i # 0 /\ ~(Epoch(L[i].slot) < e)
      <4>1. i \in 1 .. Len(L)
        BY <1>1
      <4>2. Epoch(L[i].slot) \in Nat /\ Epoch(L[i].slot) >= e
        BY <4>1, SlotsType
      <4>. QED BY <4>1, <4>2
    <3>. QED BY <3>1
  <2>3. \A i \in 0 .. Len(M) : i \in 0 .. Len(L) /\ (i = 0 \/ L[i] = M[i])
    BY <1>1
  <2>. QED BY <2>1, <2>2, <2>3 DEF Cuts
<1>3. Max(Cuts(M, e)) \in 0 .. Len(M)
  BY CutType
<1>4. SubSeq(L, 1, Max(Cuts(M, e))) = SubSeq(M, 1, Max(Cuts(M, e)))
  <2> DEFINE m == Max(Cuts(M, e))
  <2> HIDE DEF m
  <2>1. m \in 0 .. Len(M) /\ m \in 0 .. Len(L) /\ m <= Len(M) /\ \A j \in 1 .. m : L[j] = M[j]
    BY <1>1, <1>3 DEF m
  <2>2. SubSeq(L, 1, m) = SubSeq(M, 1, m)
    BY <2>1, SameStart
  <2>. QED BY <2>2 DEF m
<1>. QED BY <1>2, <1>4, CutType

\* The blocks before one that begins an epoch.
LEMMA EarlierAt ==
    ASSUME NEW L \in Seq(Blocks), InOrder(L), NEW k \in 1 .. Len(L),
           k = 1 \/ Epoch(L[k - 1].slot) # Epoch(L[k].slot)
    PROVE  Earlier(L, Epoch(L[k].slot)) = SubSeq(L, 1, k - 1)
<1>1. Len(L) \in Nat /\ k - 1 \in 0 .. Len(L) /\ k - 1 + 1 = k
  BY LenProperties
<1>2. ASSUME NEW i \in 1 .. k - 1 PROVE Epoch(L[i].slot) < Epoch(L[k].slot)
  <2>1. i \in 1 .. Len(L) /\ k - 1 \in 1 .. Len(L) /\ i <= k - 1 /\ k - 1 <= k /\ k # 1
    BY <1>1
  <2>2. Epoch(L[i].slot) <= Epoch(L[k - 1].slot) /\ Epoch(L[k - 1].slot) <= Epoch(L[k].slot)
    BY <2>1 DEF InOrder
  <2>3. Epoch(L[i].slot) \in Nat /\ Epoch(L[k - 1].slot) \in Nat /\ Epoch(L[k].slot) \in Nat
    BY <2>1, SlotsType
  <2>. QED BY <2>1, <2>2, <2>3
<1>3. ASSUME NEW i \in k .. Len(L) PROVE Epoch(L[i].slot) >= Epoch(L[k].slot)
  <2>1. i \in 1 .. Len(L) /\ k <= i
    BY <1>1
  <2>2. Epoch(L[k].slot) <= Epoch(L[i].slot)
    BY <2>1 DEF InOrder
  <2>3. Epoch(L[i].slot) \in Nat /\ Epoch(L[k].slot) \in Nat
    BY <2>1, SlotsType
  <2>. QED BY <2>2, <2>3
<1>4. Epoch(L[k].slot) \in Nat
  BY SlotsType
<1>. QED BY <1>1, <1>2, <1>3, <1>4, EarlierIs

\* A beginning of a ledger names the leaders the ledger names.
LEMMA LedBeginning ==
    ASSUME NEW L \in Seq(Blocks), InOrder(L), Led(L), NEW k \in 0 .. Len(L)
    PROVE  InOrder(SubSeq(L, 1, k)) /\ Led(SubSeq(L, 1, k))
<1> DEFINE M == SubSeq(L, 1, k)
<1>1. M \in Seq(Blocks) /\ Len(M) = k /\ (\A j \in 1 .. k : M[j] = L[j])
  BY Beginning
<1> HIDE DEF M
<1>2. Len(L) \in Nat /\ k \in Nat /\ k <= Len(L)
  BY LenProperties
<1>3. InOrder(M)
  BY <1>1, <1>2 DEF InOrder
<1>4. ASSUME NEW i \in 1 .. k
      PROVE  M[i].leader = SelectSlotLeader(Stakes(Earlier(M, Epoch(M[i].slot))), M[i].slot)
  <2>1. i \in 1 .. Len(L) /\ M[i] = L[i] /\ Epoch(L[i].slot) \in Nat
    <3>1. i \in 1 .. Len(L)
      BY <1>2
    <3>. QED BY <1>1, <3>1, SlotsType
  <2>2. \A j \in Len(M) + 1 .. Len(L) : Epoch(L[j].slot) >= Epoch(L[i].slot)
    <3>1. ASSUME NEW j \in Len(M) + 1 .. Len(L) PROVE Epoch(L[j].slot) >= Epoch(L[i].slot)
      <4>1. j \in 1 .. Len(L) /\ i <= j
        BY <1>1, <1>2
      <4>2. Epoch(L[i].slot) <= Epoch(L[j].slot) /\ Epoch(L[j].slot) \in Nat
        BY <2>1, <4>1, SlotsType DEF InOrder
      <4>. QED BY <2>1, <4>2
    <3>. QED BY <3>1
  <2>3. Earlier(L, Epoch(L[i].slot)) = Earlier(M, Epoch(L[i].slot))
    BY <1>1, <1>2, <2>1, <2>2, EarlierStays
  <2>. QED BY <2>1, <2>3 DEF Led
<1>5. Led(M)
  BY <1>1, <1>4 DEF Led
<1>. QED BY <1>3, <1>5 DEF M

----------------------------------------------------------------------------
(* What a load and a sync come to.                                         *)

LoadNext(L, r, i) ==
    LET v == RefreshStakeholders(r.view, Epoch(L[i].slot), SubSeq(L, 1, i - 1))
    IN  IF r.ok THEN [ok |-> ValidSlotLeader(v, L[i]), view |-> v] ELSE r

\* The values the load of L runs through.
Loads(f, L) ==
    /\ f[0] = [ok |-> TRUE, view |-> NoView]
    /\ \A k \in 1 .. Len(L) : f[k] = LoadNext(L, f[k - 1], k)

\* What loadFromLedger computes is a run of LoadNext over the blocks.
LEMMA LoadFold ==
    ASSUME NEW L \in Seq(Blocks)
    PROVE  \E f : Loads(f, L) /\ LoadFromLedger(L) = f[Len(L)]
<1> DEFINE n == Len(L)
           base == [ok |-> TRUE, view |-> NoView]
           V == {NoView} \cup {[epoch |-> Epoch(L[i].slot), stakes |-> Stakes(SubSeq(L, 1, i - 1))] :
                                  i \in 1 .. n}
           D == [ok : BOOLEAN, view : V]
           F == [p \in D \X (1 .. n) |-> LoadNext(L, p[1], p[2])]
           seq == [i \in DOMAIN L |-> i]
           Fold(h) == h = [w \in SUBSET DOMAIN seq |->
                             IF w = {} THEN base
                             ELSE LET x == Max(w) IN LoadNext(L, h[w \ {x}], seq[x])]
           h == CHOOSE h : Fold(h)
<1>1. n \in Nat /\ DOMAIN L = 1 .. n
  BY LenProperties
<1>2. base \in D
  OBVIOUS
<1>3. ASSUME NEW r \in D, NEW i \in 1 .. n PROVE LoadNext(L, r, i) \in D
  <2> DEFINE v == RefreshStakeholders(r.view, Epoch(L[i].slot), SubSeq(L, 1, i - 1))
  <2>1. v \in V
    <3>1. r.view \in V
      OBVIOUS
    <3>. QED BY <3>1 DEF RefreshStakeholders
  <2>2. ValidSlotLeader(v, L[i]) \in BOOLEAN
    BY DEF ValidSlotLeader
  <2>3. LoadNext(L, r, i) = IF r.ok THEN [ok |-> ValidSlotLeader(v, L[i]), view |-> v] ELSE r
    BY DEF LoadNext
  <2> HIDE DEF v, V
  <2>. QED BY <2>1, <2>2, <2>3
<1>4. \E g : Fold(g)
  <2>1. F \in [D \X (1 .. n) -> D]
    BY <1>3
  <2> HIDE DEF F, n, D, base
  <2>2. PICK g : IsFold(g, n, F, base) /\ \A w \in SUBSET (1 .. n) : g[w] \in D
    BY <1>1, <1>2, <2>1, FoldExists
  <2>3. ASSUME NEW w \in SUBSET (1 .. n), w # {}
        PROVE  F[<<g[w \ {Max(w)}], Max(w)>>] = LoadNext(L, g[w \ {Max(w)}], seq[Max(w)])
    <3>1. Max(w) \in w /\ w \ {Max(w)} \in SUBSET (1 .. n)
      BY <1>1, <2>3, MaxIn
    <3>2. seq[Max(w)] = Max(w)
      BY <1>1, <3>1
    <3>. QED BY <2>2, <3>1, <3>2 DEF F
  <2>4. SUBSET (1 .. n) = SUBSET DOMAIN seq
    BY <1>1
  <2> HIDE DEF seq
  <2>5. g = [w \in SUBSET DOMAIN seq |->
               IF w = {} THEN base ELSE F[<<g[w \ {Max(w)}], Max(w)>>]]
    BY <2>2, <2>4 DEF IsFold
  <2>6. Fold(g)
    BY <2>3, <2>4, <2>5
  <2>. QED BY <2>6
<1>5. Fold(h)
  <2> HIDE DEF Fold
  <2>. QED BY <1>4
<1>6. LoadFromLedger(L) = h[DOMAIN seq]
  BY DEF LoadFromLedger, FoldLeft, MapThenFoldSet, LoadNext
<1> HIDE DEF h
<1>7. DOMAIN seq = 1 .. n /\ \A i \in 1 .. n : seq[i] = i
  BY <1>1
<1> HIDE DEF seq, base, n
<1> DEFINE f == [k \in 0 .. n |-> h[1 .. k]]
<1>8. h[{}] = base /\ 1 .. 0 = {}
  BY <1>5
<1>9. ASSUME NEW k \in 1 .. n PROVE h[1 .. k] = LoadNext(L, h[1 .. (k - 1)], k)
  <2>0. k \in Nat \ {0} /\ k <= n
    BY <1>1
  <2>1. 1 .. k \in SUBSET (1 .. n) /\ k \in 1 .. k /\ k \in Nat \ {0}
    BY <1>1, <2>0
  <2>2. Max(1 .. k) = k /\ (1 .. k) \ {Max(1 .. k)} = 1 .. (k - 1)
    BY <2>1, MaxUpto
  <2>3. h[1 .. k] = LoadNext(L, h[(1 .. k) \ {Max(1 .. k)}], seq[Max(1 .. k)])
    BY <1>5, <1>7, <2>1
  <2>. QED BY <1>7, <2>2, <2>3
<1>10. Loads(f, L)
  BY <1>1, <1>8, <1>9 DEF Loads, base, n
<1>11. f[Len(L)] = h[DOMAIN seq]
  BY <1>1, <1>7 DEF n
<1> HIDE DEF f
<1>. QED BY <1>6, <1>10, <1>11

\* The view after the first k blocks.
ViewAfter(L, k) == IF k = 0 THEN NoView ELSE ViewOf(L, Epoch(L[k].slot))

\* A ledger whose leaders can be read off it loads, and leaves the view of its
\* last epoch.
LEMMA LoadIs ==
    ASSUME NEW L \in Seq(Blocks), InOrder(L), Led(L)
    PROVE  LoadFromLedger(L) = [ok |-> TRUE, view |-> ViewAfter(L, Len(L))]
<1>1. PICK f : Loads(f, L) /\ LoadFromLedger(L) = f[Len(L)]
  BY LoadFold
<1> DEFINE n == Len(L)
           P == {k \in 0 .. n : f[k] = [ok |-> TRUE, view |-> ViewAfter(L, k)]}
<1>2. n \in Nat
  BY LenProperties
<1>3. 0 \in P
  BY <1>1, <1>2 DEF Loads, ViewAfter
<1>4. ASSUME NEW k \in 1 .. n, k - 1 \in P PROVE k \in P
  <2> DEFINE e == Epoch(L[k].slot)
             u == ViewAfter(L, k - 1)
             v == RefreshStakeholders(u, e, SubSeq(L, 1, k - 1))
  <2>1. k \in Nat \ {0} /\ k \in 0 .. n
    BY <1>2
  <2>2. f[k] = [ok |-> ValidSlotLeader(v, L[k]), view |-> v]
    <3>1. f[k] = LoadNext(L, f[k - 1], k) /\ f[k - 1] = [ok |-> TRUE, view |-> u]
      BY <1>1, <1>4 DEF Loads
    <3> HIDE DEF u
    <3>. QED BY <3>1 DEF LoadNext
  <2>3. v = ViewOf(L, e)
    <3>1. CASE k # 1 /\ Epoch(L[k - 1].slot) = e
      <4>1. u = ViewOf(L, e) /\ u.epoch = e
        BY <2>1, <3>1 DEF ViewAfter, ViewOf
      <4>. QED BY <4>1 DEF RefreshStakeholders
    <3>2. CASE k = 1 \/ Epoch(L[k - 1].slot) # e
      <4>1. Earlier(L, e) = SubSeq(L, 1, k - 1)
        BY <3>2, EarlierAt
      <4>2. e \in Nat
        BY SlotsType
      <4>3. u.epoch # e
        <5>1. CASE k = 1
          BY <4>2, <5>1 DEF ViewAfter, NoView
        <5>2. CASE k # 1
          BY <2>1, <3>2, <5>2 DEF ViewAfter, ViewOf
        <5>. QED BY <5>1, <5>2
      <4>. QED BY <4>1, <4>3 DEF RefreshStakeholders, ViewOf
    <3>. QED BY <3>1, <3>2
  <2>4. ValidSlotLeader(v, L[k]) = TRUE
    <3>1. L[k].leader = SelectSlotLeader(Stakes(Earlier(L, e)), L[k].slot)
      BY DEF Led
    <3>. QED BY <2>3, <3>1 DEF ValidSlotLeader, ViewOf
  <2>5. ViewAfter(L, k) = ViewOf(L, e)
    BY <2>1 DEF ViewAfter
  <2> HIDE DEF v
  <2>. QED BY <2>1, <2>2, <2>3, <2>4, <2>5
<1>5. n \in P
  <2>1. n \in 0 .. n
    BY <1>2
  <2> HIDE DEF P, n
  <2>2. 0 .. n \subseteq P
    BY <1>2, <1>3, <1>4, Upwards
  <2>. QED BY <2>1, <2>2
<1>. QED BY <1>1, <1>5

\* Of what a node misses it takes a beginning.
LEMMA AcceptedIs ==
    ASSUME NEW v, NEW s \in Seq(Blocks)
    PROVE  \E k \in 0 .. Len(s) : Accepted(v, s) = SubSeq(s, 1, k)
<1> DEFINE ok(n) == \A i \in 1 .. n : ValidSlotLeader(v, s[i])
           S == {n \in 1 .. Len(s) : ok(n)}
           k == Cardinality(S)
<1>1. Len(s) \in Nat /\ IsFiniteSet(1 .. Len(s)) /\ Cardinality(1 .. Len(s)) = Len(s)
  <2>1. Len(s) \in Nat /\ 1 \in Int
    BY LenProperties
  <2>. QED BY <2>1, FS_Interval
<1>2. k \in Nat /\ k <= Len(s)
  <2>1. S \subseteq 1 .. Len(s)
    OBVIOUS
  <2> HIDE DEF S
  <2>. QED BY <1>1, <2>1, FS_Subset, FS_CardinalityType
<1>3. Accepted(v, s) = SubSeq(s, 1, k)
  BY DEF Accepted
<1> HIDE DEF k
<1>. QED BY <1>1, <1>2, <1>3

\* What a node that is behind takes leaves it with a beginning of the trunk; one
\* that has all takes nothing.
LEMMA SyncIs ==
    ASSUME Inv, NEW n \in Nodes, NEW v
    PROVE  /\ \E k \in 0 .. Len(Trunk) :
                 ledger[n] \o Accepted(v, Missing(n)) = SubSeq(Trunk, 1, k)
           /\ ledger[n] = Trunk => /\ Missing(n) = <<>>
                                   /\ Accepted(v, Missing(n)) = <<>>
                                   /\ ledger[n] \o Accepted(v, Missing(n)) = Trunk
<1> DEFINE T == Trunk
           s == Missing(n)
           got == Accepted(v, s)
<1>1. T \in Seq(Blocks) /\ Len(T) \in Nat
  BY LenProperties DEF Inv, Typed, Trunk, Nodes
<1>2. PICK k \in 0 .. Len(T) : ledger[n] = SubSeq(T, 1, k)
  BY DEF Inv, Branches
<1>3. s = SubSeq(T, Len(ledger[n]) + 1, Len(T))
  BY DEF Missing, Trunk
<1> HIDE DEF T, s
<1>4. /\ ledger[n] \in Seq(Blocks) /\ Len(ledger[n]) = k
      /\ \A j \in 1 .. k : ledger[n][j] = T[j]
  BY <1>1, <1>2, Beginning
<1>5. /\ s \in Seq(Blocks) /\ Len(s) = Len(T) - k
      /\ \A j \in 1 .. Len(T) - k : s[j] = T[k + j]
  <2>1. s = SubSeq(T, k + 1, Len(T))
    BY <1>3, <1>4
  <2>2. k + 1 \in 1 .. Len(T) + 1 /\ Len(T) \in k .. Len(T)
    BY <1>1
  <2>. QED BY <1>1, <2>1, <2>2, SubSeqProperties
<1>6. PICK j \in 0 .. Len(s) : got = SubSeq(s, 1, j)
  BY <1>5, AcceptedIs
<1> HIDE DEF got
<1>7. /\ got \in Seq(Blocks) /\ Len(got) = j
      /\ \A i \in 1 .. j : got[i] = s[i]
  BY <1>5, <1>6, Beginning
<1>8. k + j \in 0 .. Len(T) /\ j \in Nat /\ k \in Nat
  BY <1>1, <1>5
<1>9. ledger[n] \o got = SubSeq(T, 1, k + j)
  <2> DEFINE M == ledger[n] \o got
             N == SubSeq(T, 1, k + j)
  <2>1. M \in Seq(Blocks) /\ Len(M) = k + j
        /\ \A i \in 1 .. k + j : M[i] = IF i <= k THEN ledger[n][i] ELSE got[i - k]
    <3>1. /\ M \in Seq(Blocks) /\ Len(M) = Len(ledger[n]) + Len(got)
          /\ \A i \in 1 .. Len(ledger[n]) + Len(got) :
                M[i] = IF i <= Len(ledger[n]) THEN ledger[n][i] ELSE got[i - Len(ledger[n])]
      BY <1>4, <1>7, ConcatProperties
    <3> HIDE DEF M
    <3>. QED BY <1>4, <1>7, <3>1
  <2>2. N \in Seq(Blocks) /\ Len(N) = k + j /\ \A i \in 1 .. k + j : N[i] = T[i]
    BY <1>1, <1>8, Beginning
  <2> HIDE DEF M, N
  <2>3. ASSUME NEW i \in 1 .. k + j PROVE M[i] = N[i]
    <3>1. CASE i <= k
      BY <1>4, <1>8, <2>1, <2>2, <3>1
    <3>2. CASE i > k
      <4>1. i - k \in 1 .. j /\ k + (i - k) = i /\ i - k \in 1 .. Len(T) - k
        BY <1>5, <1>8, <3>2
      <4>2. got[i - k] = s[i - k] /\ s[i - k] = T[i]
        BY <1>5, <1>7, <4>1
      <4>. QED BY <1>8, <2>1, <2>2, <3>2, <4>2
    <3>. QED BY <1>8, <3>1, <3>2
  <2>4. M = N
    BY <2>1, <2>2, <2>3, SeqEqual
  <2>. QED BY <2>4 DEF M, N
<1>10. ASSUME ledger[n] = T PROVE s = <<>> /\ got = <<>> /\ ledger[n] \o got = T
  <2>1. k = Len(T) /\ Len(s) = 0 /\ j = 0 /\ k + j = Len(T)
    BY <1>1, <1>4, <1>5, <1>8, <1>10
  <2>2. s = <<>> /\ got = <<>>
    BY <1>5, <1>7, <2>1, EmptySeq
  <2>. QED BY <1>1, <1>8, <1>9, <2>1, <2>2, Beginning
<1>. QED BY <1>8, <1>9, <1>10 DEF T, s, got

\* A node always loads what it has; if that is all the beacon has, it starts.
LEMMA StartIs ==
    ASSUME Inv, NEW n \in Nodes
    PROVE  /\ Start(n).view = ViewAfter(ledger[n], Len(ledger[n]))
           /\ \E k \in 0 .. Len(Trunk) : ledger[n] \o Start(n).got = SubSeq(Trunk, 1, k)
           /\ ledger[n] = Trunk => Start(n).ok /\ ledger[n] \o Start(n).got = Trunk
<1>1. PICK k \in 0 .. Len(Trunk) : ledger[n] = SubSeq(Trunk, 1, k)
  BY DEF Inv, Branches
<1>2. Trunk \in Seq(Blocks) /\ InOrder(Trunk) /\ Led(Trunk) /\ ledger[n] \in Seq(Blocks)
  BY DEF Inv, Typed, Chained, Trunk, Nodes
<1>3. InOrder(ledger[n]) /\ Led(ledger[n])
  BY <1>1, <1>2, LedBeginning
<1> DEFINE v == ViewAfter(ledger[n], Len(ledger[n]))
<1>4. LoadFromLedger(ledger[n]) = [ok |-> TRUE, view |-> v]
  BY <1>2, <1>3, LoadIs
<1> HIDE DEF v
<1>5. /\ Start(n).view = v /\ Start(n).got = Accepted(v, Missing(n))
      /\ Start(n).ok = (Accepted(v, Missing(n)) = Missing(n))
  BY <1>4 DEF Start
<1>6. /\ \E j \in 0 .. Len(Trunk) :
            ledger[n] \o Accepted(v, Missing(n)) = SubSeq(Trunk, 1, j)
      /\ ledger[n] = Trunk => /\ Missing(n) = <<>>
                              /\ Accepted(v, Missing(n)) = <<>>
                              /\ ledger[n] \o Accepted(v, Missing(n)) = Trunk
  BY SyncIs
<1>. QED BY <1>5, <1>6 DEF v

----------------------------------------------------------------------------
(* The invariant.                                                          *)

\* What the parts of the invariant say after a step.
LEMMA NextIs ==
    /\ (Chained' <=> /\ InOrder(Trunk') /\ Past(Trunk', Epoch(slot')) /\ Led(Trunk'))
    /\ (Views' <=> \A n \in Prompt : /\ ViewIs(view'[n], Trunk', Epoch(slot'))
                                     /\ InEpoch(view'[n], Trunk', Epoch(slot')))
    /\ Trunk' = ledger'[Beacon]
    /\ Epoch(slot)' = Epoch(slot')
<1>1. Trunk' = ledger'[Beacon] /\ Epoch(slot)' = Epoch(slot')
  BY DEF Trunk, Epoch
<1>2. InOrder(Trunk)' <=> InOrder(Trunk')
  BY DEF InOrder, Epoch, Trunk
<1>3. Past(Trunk, Epoch(slot))' <=> Past(Trunk', Epoch(slot'))
  BY DEF Past, Epoch, Trunk
<1>4. \A e : Stakes(Earlier(Trunk, e))' = Stakes(Earlier(Trunk', e))
  <2>1. \A e : Earlier(Trunk, e)' = Earlier(Trunk', e)
    BY DEF Earlier, Trunk, Max, Epoch
  <2>. QED BY <2>1 DEF Stakes, FoldLeft, MapThenFoldSet, Paid
<1>5. Led(Trunk)' <=> Led(Trunk')
  BY Zenon, <1>4 DEF Led, Trunk, Epoch
<1>6. Views' <=> \A n \in Prompt : /\ ViewIs(view'[n], Trunk', Epoch(slot'))
                                   /\ InEpoch(view'[n], Trunk', Epoch(slot'))
  <2>1. \A v : ViewIs(v, Trunk, Epoch(slot))' <=> ViewIs(v, Trunk', Epoch(slot'))
    OBVIOUS
  <2>. QED BY <2>1 DEF Views, Prompt
<1>. QED BY <1>1, <1>2, <1>3, <1>5, <1>6 DEF Chained

\* The beginning.
LEMMA InitInv == Init => Inv
<1> SUFFICES ASSUME Init PROVE Inv
  OBVIOUS
<1>1. Trunk = <<>> /\ Len(Trunk) = 0 /\ SubSeq(Trunk, 1, 0) = <<>> /\ Beacon \in Nodes
  BY DEF Init, Trunk, Nodes
<1>2. Typed
  BY DEF Typed, Init, Blocks, NoBlock
<1>3. Branches
  BY <1>1 DEF Branches, Init, Prompt
<1>4. OnItsWay
  BY DEF OnItsWay, Init
<1>5. Chained
  BY <1>1 DEF Chained, InOrder, Past, Led
<1>6. Views
  BY <1>1 DEF Views, ViewIs, InEpoch, Init, Prompt
<1>. QED BY <1>2, <1>3, <1>4, <1>5, <1>6 DEF Inv

\* The clock goes on.
LEMMA TickKeeps ==
    ASSUME OnTime, Inv, Tick PROVE Inv'
<1>1. /\ sending = NoBlock /\ slot \in Nat /\ slot' = slot + 1 /\ Trunk' = Trunk
      /\ Trunk \in Seq(Blocks)
  BY DEF OnTime, Tick, Inv, Typed, Trunk, Nodes
<1>2. Typed' /\ Branches' /\ OnItsWay'
  BY <1>1 DEF Tick, Inv, Typed, Branches, OnItsWay
<1> DEFINE d == Epoch(slot)
           e == Epoch(slot')
<1>3. d \in Nat /\ e \in Nat /\ d <= e
  BY <1>1, EpochGrows
<1>4. ASSUME NEW i \in 1 .. Len(Trunk)
      PROVE  Epoch(Trunk[i].slot) \in Nat /\ Epoch(Trunk[i].slot) <= d
  BY <1>1, SlotsType DEF Inv, Chained, Past
<1> HIDE DEF d, e
<1>5. Past(Trunk, e)
  BY <1>3, <1>4 DEF Past
<1>6. ASSUME NEW n \in Prompt
      PROVE  ViewIs(view[n], Trunk, e) /\ InEpoch(view[n], Trunk, e)
  <2>1. ViewIs(view[n], Trunk, d) /\ InEpoch(view[n], Trunk, d)
    BY DEF Inv, Views, d
  <2>2. ViewIs(view[n], Trunk, e)
    BY <1>3, <2>1 DEF ViewIs
  <2>3. InEpoch(view[n], Trunk, e)
    BY <1>3, <1>4, <2>1 DEF InEpoch
  <2>. QED BY <2>2, <2>3
<1>7. Chained'
  BY <1>1, <1>5, NextIs DEF e, Inv, Chained
<1>8. Views'
  BY <1>1, <1>6, NextIs DEF e, Tick
<1>. QED BY <1>2, <1>7, <1>8 DEF Inv

\* No block of an epoch is there when a node first takes the stakes for it.
LEMMA RefreshKeeps ==
    ASSUME Inv, NEW n \in Nodes, Refresh(n) PROVE Inv'
<1> DEFINE e == Epoch(slot)
<1>1. /\ Trunk' = Trunk /\ slot' = slot /\ slot \in Nat /\ e \in Nat /\ view[n].epoch # e
      /\ Trunk \in Seq(Blocks) /\ Len(Trunk) \in Nat
      /\ view' = [view EXCEPT ![n] = [epoch |-> e, stakes |-> Stakes(ledger[n])]]
      /\ sending # NoBlock => sending.leader # n
      /\ UNCHANGED <<ledger, sending, up>>
  <2>1. Trunk \in Seq(Blocks)
    BY DEF Inv, Typed, Trunk, Nodes
  <2>. QED BY <2>1, LenProperties, EpochGrows
           DEF Refresh, Current, Free, Busy, RefreshStakeholders, Inv, Typed, Trunk
<1>2. Typed'
  BY <1>1 DEF Inv, Typed
<1>3. Branches'
  BY <1>1 DEF Inv, Branches
<1>4. OnItsWay'
  BY <1>1, NextIs DEF Inv, OnItsWay, Typed, Nodes
<1>5. Chained'
  BY <1>1, NextIs DEF Inv, Chained
<1>6. ASSUME NEW m \in Prompt
      PROVE  ViewIs(view'[m], Trunk, e) /\ InEpoch(view'[m], Trunk, e)
  <2>1. ViewIs(view[m], Trunk, e) /\ InEpoch(view[m], Trunk, e)
    BY DEF Inv, Views
  <2>2. CASE m # n
    BY <1>1, <2>1, <2>2 DEF Inv, Typed
  <2>3. CASE m = n
    <3>1. ledger[n] = Trunk /\ view'[n] = [epoch |-> e, stakes |-> Stakes(ledger[n])]
      BY <1>1, <2>3 DEF Inv, Branches, Typed
    <3>2. \A i \in 1 .. Len(Trunk) : Epoch(Trunk[i].slot) < e
      BY <1>1, <2>1, <2>3, SlotsType DEF InEpoch, Inv, Chained, Past
    <3>3. Earlier(Trunk, e) = SubSeq(Trunk, 1, Len(Trunk))
      <4>1. Len(Trunk) \in 0 .. Len(Trunk) /\ Len(Trunk) + 1 .. Len(Trunk) = {}
        BY <1>1
      <4> HIDE DEF e
      <4>. QED BY <1>1, <3>2, <4>1, EarlierIs
    <3>4. Earlier(Trunk, e) = Trunk
      BY <1>1, <3>3, Beginning
    <3> HIDE DEF e
    <3>. QED BY <1>1, <2>3, <3>1, <3>4 DEF ViewIs, ViewOf, InEpoch
  <2>. QED BY <2>2, <2>3
<1>7. Views'
  BY <1>1, <1>6, NextIs
<1>. QED BY <1>2, <1>3, <1>4, <1>5, <1>7 DEF Inv

\* The trunk, the clock and the views stay.
LEMMA ChainKeeps ==
    ASSUME Inv, Trunk' = Trunk, slot' = slot, UNCHANGED view
    PROVE  Chained' /\ Views'
<1>. QED BY NextIs DEF Inv, Chained, Views

\* A miner makes a block on the trunk, in the epoch of its view.
LEMMA ProduceKeeps ==
    ASSUME Inv, NEW m \in Miners, NEW p \in Payments, ProduceBlock(m, p) PROVE Inv'
<1>1. /\ UNCHANGED <<slot, ledger, view, up>> /\ Trunk' = Trunk
      /\ sending' = [slot |-> slot, leader |-> m, pay |-> p]
      /\ m \in Miners \cap up /\ ledger[m] = Trunk /\ view[m].epoch = Epoch(slot)
      /\ m \in Nat /\ slot \in Nat
  BY EpochAssumption DEF ProduceBlock, Current, Free, Trunk, Inv, Typed
<1>2. Typed'
  BY <1>1 DEF Inv, Typed, Blocks
<1>3. Branches'
  BY <1>1 DEF Inv, Branches
<1>4. OnItsWay'
  BY <1>1, NextIs DEF OnItsWay
<1>5. Chained' /\ Views'
  BY <1>1, ChainKeeps
<1>. QED BY <1>2, <1>3, <1>4, <1>5 DEF Inv

\* The call ends, or a node that is not in one goes away.
LEMMA LostKeeps ==
    ASSUME Inv, BlockLost PROVE Inv'
<1>1. UNCHANGED <<slot, ledger, view, up>> /\ Trunk' = Trunk /\ sending' = NoBlock
  BY DEF BlockLost, Trunk
<1>2. Typed'
  BY <1>1 DEF Inv, Typed, Blocks, NoBlock
<1>3. Branches' /\ OnItsWay'
  BY <1>1 DEF Inv, Branches, OnItsWay
<1>4. Chained' /\ Views'
  BY <1>1, ChainKeeps
<1>. QED BY <1>2, <1>3, <1>4 DEF Inv

\* A node that stops, not in the middle of sending its block.
LEMMA StopKeeps ==
    ASSUME Inv, NEW n \in Nodes, Stop(n) PROVE Inv'
<1>1. /\ UNCHANGED <<slot, ledger, view, sending>> /\ Trunk' = Trunk /\ up' = up \ {n}
      /\ sending # NoBlock => sending.leader # n
  BY DEF Stop, Free, Busy, Trunk
<1>2. Typed' /\ Branches'
  BY <1>1 DEF Inv, Typed, Branches
<1>3. OnItsWay'
  BY <1>1, NextIs DEF Inv, OnItsWay
<1>4. Chained' /\ Views'
  BY <1>1, ChainKeeps
<1>. QED BY <1>2, <1>3, <1>4 DEF Inv

\* Node n alone fetches: it ends with a beginning of the trunk, and the trunk
\* stays what it is.
LEMMA FetchKeeps ==
    ASSUME Inv, NEW n \in Nodes, NEW L,
           \E k \in 0 .. Len(Trunk) : L = SubSeq(Trunk, 1, k),
           ledger[n] = Trunk => L = Trunk,
           ledger' = [ledger EXCEPT ![n] = L]
    PROVE  /\ Trunk' = Trunk /\ ledger' \in [Nodes -> Seq(Blocks)] /\ Branches'
           /\ \A m \in Nodes : m # n => ledger'[m] = ledger[m]
<1>1. Trunk \in Seq(Blocks) /\ ledger \in [Nodes -> Seq(Blocks)] /\ Beacon \in Nodes
  BY DEF Inv, Typed, Trunk, Nodes
<1>2. L \in Seq(Blocks)
  BY <1>1, Beginning
<1>3. /\ ledger' \in [Nodes -> Seq(Blocks)] /\ ledger'[n] = L
      /\ \A m \in Nodes : m # n => ledger'[m] = ledger[m]
  BY <1>1, <1>2
<1>4. Trunk' = Trunk
  BY <1>1, <1>3 DEF Trunk
<1>5. Branches'
  <2>1. \A m \in Nodes : \E k \in 0 .. Len(Trunk) : ledger'[m] = SubSeq(Trunk, 1, k)
    BY <1>3 DEF Inv, Branches
  <2>2. \A m \in Prompt : ledger'[m] = Trunk
    BY <1>3 DEF Inv, Branches, Prompt
  <2>. QED BY <1>4, <2>1, <2>2 DEF Branches
<1>. QED BY <1>3, <1>4, <1>5

\* A miner takes what it misses.
LEMMA SyncKeeps ==
    ASSUME Inv, NEW m \in Miners, SyncBlocks(m) PROVE Inv'
<1> DEFINE L == ledger[m] \o Accepted(view[m], Missing(m))
<1>1. /\ UNCHANGED <<slot, view, sending, up>> /\ ledger' = [ledger EXCEPT ![m] = L]
      /\ sending # NoBlock => sending.leader # m
      /\ m \in Nodes
  BY DEF SyncBlocks, Current, Free, Busy, Nodes
<1>2. /\ \E k \in 0 .. Len(Trunk) : L = SubSeq(Trunk, 1, k)
      /\ ledger[m] = Trunk => L = Trunk
  BY <1>1, SyncIs
<1> HIDE DEF L
<1>3. /\ Trunk' = Trunk /\ ledger' \in [Nodes -> Seq(Blocks)] /\ Branches'
      /\ \A k \in Nodes : k # m => ledger'[k] = ledger[k]
  BY <1>1, <1>2, FetchKeeps
<1>4. Typed'
  BY <1>1, <1>3 DEF Inv, Typed
<1>5. OnItsWay'
  BY <1>1, <1>3, NextIs DEF Inv, OnItsWay, Nodes
<1>6. Chained' /\ Views'
  BY <1>1, <1>3, ChainKeeps
<1>. QED BY <1>3, <1>4, <1>5, <1>6 DEF Inv

\* A node loads its ledger, which leaves it the view of its last epoch.
LEMMA RestartKeeps ==
    ASSUME Inv, NEW n \in Nodes, Restart(n) PROVE Inv'
<1> DEFINE L == ledger[n] \o Start(n).got
           e == Epoch(slot)
           v == ViewAfter(ledger[n], Len(ledger[n]))
<1>1. /\ UNCHANGED <<slot, sending>> /\ ledger' = [ledger EXCEPT ![n] = L]
      /\ view' = [view EXCEPT ![n] = Start(n).view] /\ up' = up \cup {n}
      /\ sending # NoBlock => sending.leader # n
  BY DEF Restart, Free, Busy, Inv, OnItsWay
<1>2. /\ \E k \in 0 .. Len(Trunk) : L = SubSeq(Trunk, 1, k)
      /\ ledger[n] = Trunk => L = Trunk
      /\ Start(n).view = v
  BY StartIs
<1> HIDE DEF L
<1>3. /\ Trunk' = Trunk /\ ledger' \in [Nodes -> Seq(Blocks)] /\ Branches'
      /\ \A k \in Nodes : k # n => ledger'[k] = ledger[k]
  BY <1>1, <1>2, FetchKeeps
<1>4. /\ view' = [m \in Nodes |-> view'[m]] /\ view'[n] = v
      /\ \A m \in Nodes : m # n => view'[m] = view[m]
  BY <1>1, <1>2 DEF Inv, Typed
<1>5. Typed'
  BY <1>1, <1>3, <1>4 DEF Inv, Typed
<1>6. OnItsWay'
  BY <1>1, <1>3, <1>4, NextIs DEF Inv, OnItsWay, Nodes
<1>7. Chained'
  BY <1>1, <1>3, NextIs DEF Inv, Chained
<1>8. ASSUME NEW m \in Prompt
      PROVE  ViewIs(view'[m], Trunk, e) /\ InEpoch(view'[m], Trunk, e)
  <2>1. CASE m # n
    BY <1>4, <2>1 DEF Inv, Views, Prompt
  <2>2. CASE m = n
    <3>1. ledger[n] = Trunk /\ Trunk \in Seq(Blocks) /\ Len(Trunk) \in Nat /\ slot \in Nat
      <4>1. ledger[n] = Trunk /\ Trunk \in Seq(Blocks) /\ slot \in Nat
        BY <2>2 DEF Inv, Typed, Branches, Trunk, Nodes
      <4>. QED BY <4>1, LenProperties
    <3>2. CASE Len(Trunk) = 0
      BY <1>4, <2>2, <3>1, <3>2 DEF ViewAfter, ViewIs, InEpoch
    <3>3. CASE Len(Trunk) # 0
      <4> DEFINE k == Len(Trunk)
                 d == Epoch(Trunk[k].slot)
      <4>1. k \in 1 .. k
        BY <3>1, <3>3
      <4>2. d \in Nat /\ e \in Nat /\ d <= e
        BY <3>1, <4>1, SlotsType, EpochGrows DEF Inv, Chained, Past
      <4>3. v = ViewOf(Trunk, d)
        BY <3>1, <3>3 DEF ViewAfter
      <4>4. \A i \in 1 .. k : Epoch(Trunk[i].slot) = e => d = e
        <5>1. ASSUME NEW i \in 1 .. k, Epoch(Trunk[i].slot) = e PROVE e <= d
          BY <3>1, <4>1, <5>1 DEF Inv, Chained, InOrder
        <5>. QED BY <4>2, <5>1
      <4> HIDE DEF d, e, k
      <4>. QED BY <1>4, <2>2, <4>2, <4>3, <4>4 DEF ViewIs, ViewOf, InEpoch, k
    <3>. QED BY <3>2, <3>3
  <2>. QED BY <2>1, <2>2
<1>9. Views'
  BY <1>1, <1>3, <1>8, NextIs
<1>. QED BY <1>3, <1>5, <1>6, <1>7, <1>9 DEF Inv

\* A block of epoch e behind a ledger of that epoch or of earlier ones.
LEMMA AppendIs ==
    ASSUME NEW L \in Seq(Blocks), NEW b \in Blocks, NEW e \in Nat,
           InOrder(L), Past(L, e), Led(L), Epoch(b.slot) = e,
           b.leader = SelectSlotLeader(ViewOf(L, e).stakes, b.slot)
    PROVE  /\ InOrder(Append(L, b)) /\ Past(Append(L, b), e) /\ Led(Append(L, b))
           /\ \A d \in 0 .. e : ViewOf(Append(L, b), d) = ViewOf(L, d)
<1> DEFINE n == Len(L)
           M == Append(L, b)
<1>1. n \in Nat
  BY LenProperties
<1>2. /\ M \in Seq(Blocks) /\ Len(M) = n + 1 /\ M[n + 1] = b
      /\ \A i \in 1 .. n : M[i] = L[i]
  BY <1>1, AppendProperties
<1> HIDE DEF M
<1>3. \A i \in 1 .. Len(M) : i \in 1 .. n \/ i = n + 1
  BY <1>1, <1>2
<1>4. \A i \in 1 .. n : Epoch(L[i].slot) \in Nat /\ Epoch(L[i].slot) <= e
  BY SlotsType DEF Past
<1>5. Past(M, e)
  BY <1>2, <1>3, <1>4 DEF Past
<1>6. InOrder(M)
  <2>1. ASSUME NEW i \in 1 .. Len(M), NEW j \in 1 .. Len(M), i <= j
        PROVE  Epoch(M[i].slot) <= Epoch(M[j].slot)
    <3>1. CASE j = n + 1
      BY <1>2, <1>3, <1>4, <3>1
    <3>2. CASE j # n + 1
      <4>1. i \in 1 .. n /\ j \in 1 .. n
        BY <1>1, <1>3, <2>1, <3>2
      <4>. QED BY <1>2, <2>1, <4>1 DEF InOrder
    <3>. QED BY <3>1, <3>2
  <2>. QED BY <2>1 DEF InOrder
<1>7. \A d \in 0 .. e : Earlier(M, d) = Earlier(L, d)
  <2>1. ASSUME NEW d \in 0 .. e PROVE Earlier(M, d) = Earlier(L, d)
    <3>1. /\ d \in Nat /\ Len(L) <= Len(M) /\ (\A i \in 1 .. Len(L) : M[i] = L[i])
          /\ \A i \in Len(L) + 1 .. Len(M) : Epoch(M[i].slot) >= d
      BY <1>1, <1>2
    <3>. QED BY <1>2, <3>1, EarlierStays
  <2>. QED BY <2>1
<1>8. \A d \in 0 .. e : ViewOf(M, d) = ViewOf(L, d)
  BY <1>7 DEF ViewOf
<1>9. Led(M)
  <2>1. ASSUME NEW i \in 1 .. Len(M)
        PROVE  M[i].leader = SelectSlotLeader(Stakes(Earlier(M, Epoch(M[i].slot))), M[i].slot)
    <3>1. CASE i \in 1 .. n
      <4>1. M[i] = L[i] /\ Epoch(L[i].slot) \in 0 .. e
        BY <1>2, <1>4, <3>1
      <4>. QED BY <1>7, <3>1, <4>1 DEF Led
    <3>2. CASE i = n + 1
      <4>1. M[i] = b /\ e \in 0 .. e
        BY <1>2, <3>2
      <4>. QED BY <1>7, <4>1 DEF ViewOf
    <3>. QED BY <1>3, <3>1, <3>2
  <2>. QED BY <2>1 DEF Led
<1>. QED BY <1>5, <1>6, <1>8, <1>9 DEF M

\* Nodes in the epoch of the clock whose views are the ledger's judge alike.
LEMMA SameJudge ==
    ASSUME NEW v, NEW L, NEW e \in Nat, ViewIs(v, L, e), v.epoch = e
    PROVE  v = ViewOf(L, e)
<1>1. NoView.epoch = -1 /\ e # -1
  BY DEF NoView
<1>. QED BY <1>1 DEF ViewIs

\* The beacon adds a block of the current epoch, and where there is one miner its
\* maker does too.
LEMMA AddKeeps ==
    ASSUME Inv, AddBlock PROVE Inv'
<1> DEFINE e == Epoch(slot)
           T == Trunk
           adds == {n \in {Beacon, sending.leader} : ValidSlotLeader(view[n], sending)}
<1>1. /\ sending # NoBlock /\ sending \in Blocks /\ sending.slot = slot /\ slot \in Nat
      /\ sending.leader \in Miners /\ sending.leader \in Nodes /\ Beacon \in Nodes
      /\ ledger[sending.leader] = T /\ view[sending.leader].epoch = e
      /\ view[Beacon].epoch = e /\ Beacon \in Prompt
      /\ ledger \in [Nodes -> Seq(Blocks)] /\ T \in Seq(Blocks) /\ T = ledger[Beacon]
  BY DEF AddBlock, Current, Inv, Typed, OnItsWay, Prompt, Nodes, Trunk
<1>2. /\ slot' = slot /\ view' = view /\ up' = up /\ sending' = NoBlock
      /\ ledger' = [n \in Nodes |-> IF n \in adds THEN Append(ledger[n], sending)
                                    ELSE ledger[n]]
      /\ ValidSlotLeader(view[Beacon], sending)
  BY DEF AddBlock
<1>3. e \in Nat /\ Epoch(sending.slot) = e
  BY <1>1, EpochGrows
<1>4. InOrder(T) /\ Past(T, e) /\ Led(T)
  BY DEF Inv, Chained
<1>5. \A n \in Prompt : ViewIs(view[n], T, e) /\ InEpoch(view[n], T, e)
  BY DEF Inv, Views
<1>6. /\ \A n \in Nodes : \E k \in 0 .. Len(T) : ledger[n] = SubSeq(T, 1, k)
      /\ \A n \in Prompt : ledger[n] = T
  BY DEF Inv, Branches
<1> HIDE DEF e, T
<1>7. view[Beacon] = ViewOf(T, e)
  BY <1>1, <1>3, <1>5, SameJudge
<1>8. sending.leader = SelectSlotLeader(ViewOf(T, e).stakes, sending.slot)
  BY <1>2, <1>7 DEF ValidSlotLeader
<1> DEFINE M == Append(T, sending)
<1>9. /\ InOrder(M) /\ Past(M, e) /\ Led(M)
      /\ \A d \in 0 .. e : ViewOf(M, d) = ViewOf(T, d)
  BY <1>1, <1>3, <1>4, <1>8, AppendIs
<1>10. /\ M \in Seq(Blocks) /\ Len(M) = Len(T) + 1 /\ Len(T) \in Nat
       /\ M[Len(T) + 1] = sending
       /\ \A i \in 1 .. Len(T) : M[i] = T[i]
  BY <1>1, AppendProperties, LenProperties
<1>11. Beacon \in adds /\ (\A n \in adds : ledger[n] = T)
  BY <1>1, <1>2
<1>12. \A n \in Prompt : n = Beacon \/ n = sending.leader
  BY <1>1 DEF Prompt, OneMiner, Nodes
<1>13. \A n \in Prompt : n \in adds
  <2>1. ASSUME NEW n \in Prompt PROVE ValidSlotLeader(view[n], sending)
    <3>1. view[n].epoch = e
      BY <1>1, <1>12
    <3>2. view[n] = ViewOf(T, e)
      BY <1>3, <1>5, <3>1, SameJudge
    <3>. QED BY <1>8, <3>2 DEF ValidSlotLeader
  <2>. QED BY <1>12, <2>1
<1> HIDE DEF adds
<1>14. Trunk' = M
  BY <1>1, <1>2, <1>11, NextIs
<1>15. \A n \in Nodes : ledger'[n] = IF n \in adds THEN M ELSE ledger[n]
  BY <1>2, <1>11
<1> HIDE DEF M
<1>16. Typed'
  <2>1. ledger' = [n \in Nodes |-> ledger'[n]] /\ \A n \in Nodes : ledger'[n] \in Seq(Blocks)
    BY <1>1, <1>2, <1>10, <1>15
  <2>2. ledger' \in [Nodes -> Seq(Blocks)]
    BY <2>1
  <2>. QED BY <1>1, <1>2, <2>2 DEF Inv, Typed, Blocks, NoBlock
<1>17. Branches'
  <2>1. ASSUME NEW n \in Nodes PROVE \E k \in 0 .. Len(M) : ledger'[n] = SubSeq(M, 1, k)
    <3>1. CASE n \in adds
      <4>1. Len(M) \in 0 .. Len(M)
        BY <1>10
      <4>2. SubSeq(M, 1, Len(M)) = M
        BY <1>10, <4>1, Beginning
      <4>. QED BY <1>15, <3>1, <4>1, <4>2
    <3>2. CASE n \notin adds
      <4>1. PICK k \in 0 .. Len(T) : ledger[n] = SubSeq(T, 1, k)
        BY <1>6
      <4>2. k \in 0 .. Len(M) /\ k <= Len(M) /\ \A j \in 1 .. k : T[j] = M[j]
        BY <1>10
      <4>3. SubSeq(T, 1, k) = SubSeq(M, 1, k)
        BY <1>1, <1>10, <4>2, SameStart
      <4>. QED BY <1>15, <3>2, <4>1, <4>2, <4>3
    <3>. QED BY <3>1, <3>2
  <2>2. \A n \in Prompt : ledger'[n] = M
    BY <1>13, <1>15 DEF Prompt
  <2>. QED BY <1>14, <2>1, <2>2 DEF Branches
<1>18. OnItsWay'
  BY <1>2 DEF OnItsWay
<1>19. Chained'
  BY <1>2, <1>9, <1>14, NextIs DEF e
<1>20. ASSUME NEW n \in Prompt PROVE ViewIs(view[n], M, e) /\ InEpoch(view[n], M, e)
  <2>1. ViewIs(view[n], M, e)
    BY <1>5, <1>9 DEF ViewIs
  <2>2. view[n].epoch = e
    BY <1>1, <1>12
  <2>. QED BY <2>1, <2>2 DEF InEpoch
<1>21. Views'
  BY <1>2, <1>14, <1>20, NextIs DEF e
<1>. QED BY <1>16, <1>17, <1>18, <1>19, <1>21 DEF Inv

\* Every step keeps the invariant.
LEMMA InvStep ==
    ASSUME OnTime, Inv, [Next]_vars PROVE Inv'
<1>1. CASE Tick
  BY <1>1, TickKeeps
<1>2. ASSUME NEW n \in Nodes, Refresh(n) PROVE Inv'
  BY <1>2, RefreshKeeps
<1>3. ASSUME NEW n \in Nodes, Restart(n) PROVE Inv'
  BY <1>3, RestartKeeps
<1>4. ASSUME NEW n \in Nodes, Stop(n) PROVE Inv'
  BY <1>4, StopKeeps
<1>5. ASSUME NEW m \in Miners, NEW p \in Payments, ProduceBlock(m, p) PROVE Inv'
  BY <1>5, ProduceKeeps
<1>6. CASE BlockLost
  BY <1>6, LostKeeps
<1>7. CASE AddBlock
  BY <1>7, AddKeeps
<1>8. ASSUME NEW m \in Miners, SyncBlocks(m) PROVE Inv'
  BY <1>8, SyncKeeps
<1>9. CASE UNCHANGED vars
  <2>1. UNCHANGED <<slot, ledger, view, sending, up>> /\ Trunk' = Trunk
    BY <1>9 DEF vars, Trunk
  <2>2. Typed' /\ Branches'
    BY <2>1 DEF Inv, Typed, Branches
  <2>3. OnItsWay'
    BY <2>1, NextIs DEF Inv, OnItsWay
  <2>. QED BY <2>1, <2>2, <2>3, ChainKeeps DEF Inv
<1>. QED BY <1>1, <1>2, <1>3, <1>4, <1>5, <1>6, <1>7, <1>8, <1>9 DEF Next

\* In every state of a run in which calls end in the slot they began in, ledgers
\* are beginnings of the beacon's, whose blocks name the leaders the ledger gives.
THEOREM EpochInvariant == ASSUME OnTime PROVE Spec => []Inv
<1>1. Inv /\ [Next]_vars => Inv'
  BY InvStep
<1>. QED BY <1>1, InitInv, PTL DEF Spec

----------------------------------------------------------------------------
(* What it comes to.                                                       *)

\* Whatever miners there are and whoever is stopped for however long: the leader
\* of each block of each node (Consensus, Chain::refreshStakeholders) is the one
\* whom the blocks of earlier epochs in that ledger give.
THEOREM LeadersFromLedger == ASSUME OnTime PROVE Spec => []LeadersByLedger
<1>1. Inv => LeadersByLedger
  <2> SUFFICES ASSUME Inv, NEW n \in Nodes, NEW b \in Range(ledger[n])
               PROVE  b.leader = SelectSlotLeader(Stakes(Earlier(ledger[n], Epoch(b.slot))),
                                                  b.slot)
    BY DEF LeadersByLedger
  <2>1. Trunk \in Seq(Blocks) /\ InOrder(Trunk) /\ Led(Trunk) /\ ledger[n] \in Seq(Blocks)
    BY DEF Inv, Typed, Chained, Trunk, Nodes
  <2>2. PICK k \in 0 .. Len(Trunk) : ledger[n] = SubSeq(Trunk, 1, k)
    BY DEF Inv, Branches
  <2>3. Led(ledger[n])
    BY <2>1, <2>2, LedBeginning
  <2>4. \E i \in 1 .. Len(ledger[n]) : b = ledger[n][i]
    BY <2>1, LenProperties DEF Range
  <2>. QED BY <2>3, <2>4 DEF Led
<1>. QED BY <1>1, EpochInvariant, PTL

\* With one miner, nodes of one epoch have one view, restarted or not.
THEOREM ViewsAgree == ASSUME OnTime, OneMiner PROVE Spec => []SameView
<1>1. Inv => SameView
  <2> SUFFICES ASSUME Inv, NEW n \in up, NEW k \in up, view[n].epoch = view[k].epoch
               PROVE  view[n] = view[k]
    BY DEF SameView
  <2>1. n \in Prompt /\ k \in Prompt /\ slot \in Nat
    BY DEF Inv, Typed, Prompt
  <2>2. ViewIs(view[n], Trunk, Epoch(slot)) /\ ViewIs(view[k], Trunk, Epoch(slot))
    BY <2>1 DEF Inv, Views
  <2>3. NoView.epoch = -1 /\ Epoch(slot) \in Nat
    BY <2>1, EpochGrows DEF NoView
  <2>. QED BY <2>2, <2>3 DEF ViewIs
<1>. QED BY <1>1, EpochInvariant, PTL

\* With one miner, a node may be started again at any time: its own ledger does
\* not stop it (Chain::loadFromLedger).
THEOREM NodesCanStart == ASSUME OnTime, OneMiner PROVE Spec => []CanStart
<1>1. Inv => CanStart
  <2> SUFFICES ASSUME Inv, NEW n \in Nodes PROVE Start(n).ok
    BY DEF CanStart
  <2>1. ledger[n] = Trunk
    BY DEF Inv, Branches, Prompt
  <2>. QED BY <2>1, StartIs
<1>. QED BY <1>1, EpochInvariant, PTL
=============================================================================
