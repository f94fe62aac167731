--------------------------- MODULE CheckpointProofs ---------------------------
(***************************************************************************)
(* What Checkpoints promises for every window, minimum age, epoch and slot *)
(* length, and any number of restarts: the joiners' checkpoint and the     *)
(* blocks after it say every account, and where the age is no part of the  *)
(* rule a block is judged alike by everybody.                              *)
(*                                                                         *)
(* A checkpoint moves on from block c when c is older, in blocks and in    *)
(* seconds, than the deadline by which the block it moves to has to renew  *)
(* accounts.  So that block and those since c say them all.                *)
(***************************************************************************)
EXTENDS Checkpoints, DataLemmas, SequenceTheorems, TLAPS

Accounts == Founders \cup UNION Updates
Blocks   == [time : Nat, renewed : SUBSET Accounts, updated : SUBSET Accounts]
Checks   == [last : Nat, current : Nat]
States   == [has : Nat, check : Checks, config : BOOLEAN, up : BOOLEAN, loaded : BOOLEAN]

Typed ==
    /\ now \in Nat
    /\ minAge \in Nat
    /\ chain \in Seq(Blocks)
    /\ node \in [Nodes -> States]
    /\ prepared \in [slot : Nat, due : SUBSET Accounts]
    /\ produced \in Nat
    /\ sending \in Blocks

\* Nobody has what the beacon has not, and checkpoints are at blocks there are.
Within ==
    /\ node[Beacon].has = Len(chain)
    /\ node[Beacon].config
    /\ node[Beacon].check.last <= node[Beacon].check.current
    /\ node[Beacon].check.current <= Len(chain)
    /\ \A n \in Nodes :
           /\ node[n].has <= Len(chain)
           /\ ~node[n].loaded => node[n].config /\ node[n].check.current <= node[n].has

\* Blocks are in the order of their times, the block being sent after them all.
Ordered ==
    /\ \A i, j \in 0 .. Len(chain) : i <= j => Time(chain, i) <= Time(chain, j)
    /\ \A i \in 0 .. Len(chain) : Time(chain, i) <= now
    /\ sending # NoBlock =>
           /\ \A i \in 0 .. Len(chain) : Time(chain, i) <= sending.time
           /\ sending.time <= now

\* The joiners' checkpoint is old enough to be rotated away by anyone who looks.
Ripe ==
    LET c == node[Beacon].check.last IN
    c = 0 \/ NeedsCheckpoint(chain, now, Start(c), Len(chain) + 1)

JoinPoint ==
    SecondsApart /\ node[Beacon].up =>
        Said(chain, 0, Len(chain)) \subseteq Said(chain, node[Beacon].check.last, Len(chain))

LiveRange ==
    SecondsApart => \A n \in Nodes : ~node[n].loaded =>
        Said(chain, 0, node[n].check.current)
            \subseteq Said(chain, node[n].check.last, node[n].check.current)

\* Without an age, what is due depends on the blocks before only: every block
\* said just that, and so does the leader's preparation until its block is made.
ByBlocks ==
    minAge = 0 =>
        /\ \A i \in 1 .. Len(chain) : ValidRenewals(chain, 0, i, chain[i])
        /\ prepared.slot # produced => prepared.due = Due(chain, 0, Len(chain) + 1)
        /\ sending # NoBlock =>
               /\ prepared.slot = sending.time \div SlotDuration
               /\ sending.renewed = Due(chain, 0, Len(chain) + 1)

Base == Typed /\ Within /\ Ordered
Inv  == Base /\ Ripe /\ JoinPoint /\ LiveRange /\ ByBlocks

----------------------------------------------------------------------------
(* Ledgers and their beginnings.                                           *)

\* Two ledgers have the same first n blocks.
Alike(K, L, n) == \A j \in 1 .. n : K[j] = L[j]

\* They say the same, up to there.
LEMMA AlikeSay ==
    ASSUME NEW K, NEW L, NEW n \in Nat, Alike(K, L, n)
    PROVE  /\ \A j \in 0 .. n : Time(K, j) = Time(L, j) /\ Snapshots(K, j) = Snapshots(L, j)
           /\ \A p \in Nat, q \in 0 .. n : Said(K, p, q) = Said(L, p, q)
           /\ \A m \in 0 .. n : \A a : BlockId(K, m, a) = BlockId(L, m, a)
<1>1. \A j \in 0 .. n : Time(K, j) = Time(L, j) /\ Snapshots(K, j) = Snapshots(L, j)
  BY DEF Alike, Time, Snapshots
<1>2. ASSUME NEW p \in Nat, NEW q \in 0 .. n PROVE Said(K, p, q) = Said(L, p, q)
  <2>1. {Snapshots(K, j) : j \in p .. q} = {Snapshots(L, j) : j \in p .. q}
    BY <1>1
  <2>. QED BY <2>1 DEF Said
<1>3. ASSUME NEW m \in 0 .. n, NEW a PROVE BlockId(K, m, a) = BlockId(L, m, a)
  <2>1. {j \in 0 .. m : a \in Snapshots(K, j)} = {j \in 0 .. m : a \in Snapshots(L, j)}
    BY <1>1
  <2>. QED BY <2>1 DEF BlockId
<1>. QED BY <1>1, <1>2, <1>3

\* What a node has is a beginning of the chain.
LEMMA Beginning ==
    ASSUME NEW L \in Seq(Blocks), NEW k \in 0 .. Len(L)
    PROVE  /\ SubSeq(L, 1, k) \in Seq(Blocks)
           /\ Len(SubSeq(L, 1, k)) = k
           /\ Alike(SubSeq(L, 1, k), L, k)
           /\ k = Len(L) => SubSeq(L, 1, k) = L
<1>1. /\ 1 \in 1 .. Len(L) + 1 /\ k \in (1 - 1) .. Len(L) /\ Len(L) \in Nat
  BY LenProperties
<1>2. /\ SubSeq(L, 1, k) \in Seq(Blocks)
      /\ Len(SubSeq(L, 1, k)) = k
      /\ \A j \in 1 .. k : SubSeq(L, 1, k)[j] = L[j]
  BY <1>1, SubSeqProperties
<1>3. ASSUME k = Len(L) PROVE SubSeq(L, 1, k) = L
  BY <1>2, <1>3, SeqEqual
<1>. QED BY <1>2, <1>3 DEF Alike

\* A block appended.
LEMMA Longer ==
    ASSUME NEW L \in Seq(Blocks), NEW b \in Blocks
    PROVE  /\ Append(L, b) \in Seq(Blocks)
           /\ Len(Append(L, b)) = Len(L) + 1
           /\ Append(L, b)[Len(L) + 1] = b
           /\ Alike(Append(L, b), L, Len(L))
           /\ Len(L) \in Nat
BY AppendProperties, LenProperties DEF Alike

\* Times are numbers, snapshots are of known accounts.
LEMMA LedgerTypes ==
    ASSUME NEW L \in Seq(Blocks), NEW j \in 0 .. Len(L)
    PROVE  Time(L, j) \in Nat /\ Snapshots(L, j) \subseteq Accounts
<1>1. j # 0 => L[j] \in Blocks
  BY ElementOfSeq
<1>. QED BY <1>1 DEF Time, Snapshots, Blocks, Accounts

\* The last snapshot of an account that was ever said is one.
LEMMA LastSnapshot ==
    ASSUME NEW L, NEW n \in Nat, NEW a \in Said(L, 0, n)
    PROVE  BlockId(L, n, a) \in 0 .. n /\ a \in Snapshots(L, BlockId(L, n, a))
<1> DEFINE S == {i \in 0 .. n : a \in Snapshots(L, i)}
<1>1. S # {}
  BY DEF Said
<1>2. S \in SUBSET Nat /\ IsFiniteSet(S)
  <2>1. 0 \in Int /\ n \in Int /\ S \subseteq 0 .. n
    OBVIOUS
  <2>2. IsFiniteSet(0 .. n)
    BY <2>1, FS_Interval
  <2>. QED BY <2>1, <2>2, FS_Subset
<1>3. Max(S) \in S
  <2> HIDE DEF S
  <2>. QED BY <1>1, <1>2, Greatest
<1>. QED BY <1>3 DEF BlockId

\* The least of a set of numbers is one.
LEMMA MinOf ==
    ASSUME NEW S \in SUBSET Nat, S # {}
    PROVE  Min(S) \in S /\ \A y \in S : Min(S) <= y
BY Least DEF Min

\* Nothing young enough is before c.
YoungAfter(L, time, c) ==
    minAge = 0 \/ \A j \in 0 .. Len(L) : Time(L, j) >= time - minAge => j >= c

\* Then the deadline of a block a window above c is at c or later.
LEMMA Deadline ==
    ASSUME minAge \in Nat, NEW L \in Seq(Blocks), NEW time \in Nat, NEW i \in Nat \ {0},
           NEW c \in Nat, c <= i - MinBlocks + 1, i >= MinBlocks, YoungAfter(L, time, c)
    PROVE  /\ MaxBlockIdForRenewal(L, time, i) \in c .. i - 1
           /\ minAge = 0 => MaxBlockIdForRenewal(L, time, i) = i - MinBlocks + 1
<1>0. MinBlocks \in Nat /\ MinBlocks >= 2
  BY CheckpointAssumption
<1> DEFINE since    == {j \in 0 .. Len(L) : Time(L, j) >= time - minAge}
           fromTime == IF minAge = 0 \/ since = {} THEN i ELSE Min(since)
           bound    == Min({i - MinBlocks + 1, fromTime})
<1>1. fromTime \in Nat /\ fromTime >= c /\ (minAge = 0 => fromTime = i)
  <2>1. CASE minAge = 0 \/ since = {}
    BY <1>0, <2>1
  <2>2. CASE ~(minAge = 0 \/ since = {})
    <3>1. since \in SUBSET Nat /\ since # {}
      BY <2>2
    <3>2. Min(since) \in since
      <4> HIDE DEF since
      <4>. QED BY <3>1, MinOf
    <3>. QED BY <2>2, <3>2 DEF YoungAfter
  <2>. QED BY <2>1, <2>2
<1> HIDE DEF fromTime, since
<1>2. bound \in {i - MinBlocks + 1, fromTime} /\ bound <= i - MinBlocks + 1 /\ bound <= fromTime
  <2> DEFINE S == {i - MinBlocks + 1, fromTime}
  <2>1. S \in SUBSET Nat /\ S # {}
    BY <1>0, <1>1
  <2>2. Min(S) \in S /\ \A y \in S : Min(S) <= y
    <3> HIDE DEF S
    <3>. QED BY <2>1, MinOf
  <2>. QED BY <2>2
<1>3. bound \in c .. i - 1 /\ (minAge = 0 => bound = i - MinBlocks + 1)
  <2> HIDE DEF bound
  <2>. QED BY <1>0, <1>1, <1>2
<1>4. MaxBlockIdForRenewal(L, time, i) = IF i < MinBlocks \/ bound >= i THEN 0 ELSE bound
  BY DEF MaxBlockIdForRenewal, fromTime, since
<1> HIDE DEF bound
<1>. QED BY <1>0, <1>3, <1>4

\* A deadline is always before the block.
LEMMA DeadlineType ==
    ASSUME minAge \in Nat, NEW L \in Seq(Blocks), NEW time \in Nat, NEW i \in Nat \ {0}
    PROVE  MaxBlockIdForRenewal(L, time, i) \in 0 .. i - 1
<1>0. MinBlocks \in Nat /\ MinBlocks >= 2
  BY CheckpointAssumption
<1>1. CASE i < MinBlocks
  BY <1>1 DEF MaxBlockIdForRenewal
<1>2. CASE i >= MinBlocks
  <2>1. YoungAfter(L, time, 0)
    BY DEF YoungAfter
  <2>2. 0 \in Nat /\ 0 <= i - MinBlocks + 1
    BY <1>0, <1>2
  <2>3. MaxBlockIdForRenewal(L, time, i) \in 0 .. i - 1
    BY <1>2, <2>1, <2>2, Deadline
  <2>. QED BY <2>3
<1>. QED BY <1>0, <1>1, <1>2

\* A valid block, and those from c on, say every account.
LEMMA SaidAgain ==
    ASSUME minAge \in Nat, NEW L \in Seq(Blocks), NEW time \in Nat, NEW i \in 1 .. Len(L) + 1,
           NEW b \in Blocks, ValidRenewals(L, time, i, b),
           NEW c \in Nat, c <= i - MinBlocks + 1, i >= MinBlocks, YoungAfter(L, time, c),
           NEW K, Alike(K, L, i - 1), K[i] = b
    PROVE  Said(K, 0, i) \subseteq Said(K, c, i)
<1>0. i \in Nat \ {0} /\ i - 1 \in Nat /\ i \in c .. i
  <2>1. MinBlocks \in Nat /\ MinBlocks >= 2 /\ Len(L) \in Nat
    BY CheckpointAssumption, LenProperties
  <2>. QED BY <2>1
<1>1. MaxBlockIdForRenewal(L, time, i) \in c .. i - 1
  BY <1>0, Deadline
<1>2. Snapshots(K, i) = b.renewed \cup b.updated
  BY <1>0 DEF Snapshots
<1> SUFFICES ASSUME NEW a \in Said(K, 0, i) PROVE \E j \in c .. i : a \in Snapshots(K, j)
  BY DEF Said
<1>3. CASE a \in Snapshots(K, i)
  BY <1>0, <1>3
<1>4. CASE a \notin Snapshots(K, i)
  <2>1. a \in Said(L, 0, i - 1)
    <3>1. a \in Said(K, 0, i - 1)
      BY <1>0, <1>4 DEF Said
    <3>2. 0 \in Nat /\ i - 1 \in 0 .. i - 1
      BY <1>0
    <3>. QED BY <1>0, <3>1, <3>2, AlikeSay
  <2>2. a \notin Due(L, time, i)
    BY <1>2, <1>4 DEF ValidRenewals
  <2> DEFINE j == BlockId(L, i - 1, a)
  <2>3. j \in 0 .. i - 1 /\ a \in Snapshots(L, j)
    BY <1>0, <2>1, LastSnapshot
  <2>4. ~(j < MaxBlockIdForRenewal(L, time, i))
    BY <2>1, <2>2 DEF Due
  <2> HIDE DEF j
  <2>5. j \in c .. i
    BY <1>0, <1>1, <2>3, <2>4
  <2>6. a \in Snapshots(K, j)
    BY <1>0, <2>3, AlikeSay
  <2>. QED BY <2>5, <2>6
<1>. QED BY <1>3, <1>4

\* Without an age, the time and the later blocks do not matter.
LEMMA Timeless ==
    ASSUME minAge = 0, NEW i \in Nat \ {0}, NEW K, NEW L, Alike(K, L, i - 1),
           NEW s, NEW t
    PROVE  /\ Due(K, s, i) = Due(L, t, i)
           /\ \A b : ValidRenewals(K, s, i, b) <=> ValidRenewals(L, t, i, b)
<1>0. i - 1 \in Nat /\ 0 \in Nat /\ i - 1 \in 0 .. i - 1
  OBVIOUS
<1>1. MaxBlockIdForRenewal(K, s, i) = MaxBlockIdForRenewal(L, t, i)
  BY DEF MaxBlockIdForRenewal
<1>2. Said(K, 0, i - 1) = Said(L, 0, i - 1) /\ \A a : BlockId(K, i - 1, a) = BlockId(L, i - 1, a)
  BY <1>0, AlikeSay
<1>3. Due(K, s, i) = Due(L, t, i)
  BY <1>1, <1>2 DEF Due
<1>. QED BY <1>1, <1>2, <1>3 DEF ValidRenewals

\* What is due is known, and a block that says just that is valid.
LEMMA DueIsValid ==
    ASSUME minAge \in Nat, NEW L \in Seq(Blocks), NEW time \in Nat, NEW i \in 1 .. Len(L) + 1
    PROVE  /\ Due(L, time, i) \subseteq Accounts
           /\ \A b : b.renewed = Due(L, time, i) => ValidRenewals(L, time, i, b)
<1>0. i \in Nat \ {0} /\ i - 1 \in Nat /\ i - 1 <= Len(L) /\ Len(L) \in Nat
  <2>1. Len(L) \in Nat
    BY LenProperties
  <2>. QED BY <2>1
<1>1. MaxBlockIdForRenewal(L, time, i) \in 0 .. i - 1
  BY <1>0, DeadlineType
<1>2. \A a \in Said(L, 0, i - 1) : BlockId(L, i - 1, a) \in 0 .. i - 1
  BY <1>0, LastSnapshot
<1>3. Due(L, time, i) \subseteq Accounts
  <2>1. \A j \in 0 .. i - 1 : Snapshots(L, j) \subseteq Accounts
    BY <1>0, LedgerTypes
  <2>. QED BY <2>1 DEF Due, Said
<1>4. ASSUME NEW b, b.renewed = Due(L, time, i) PROVE ValidRenewals(L, time, i, b)
  <2>1. b.renewed \subseteq Said(L, 0, i - 1)
    BY <1>4 DEF Due
  <2>2. ASSUME NEW a \in b.renewed
        PROVE  BlockId(L, i - 1, a) <= MaxBlockIdForRenewal(L, time, i)
    <3>1. a \in Said(L, 0, i - 1) /\ BlockId(L, i - 1, a) < MaxBlockIdForRenewal(L, time, i)
      BY <1>4, <2>2 DEF Due
    <3>. QED BY <1>1, <1>2, <3>1
  <2>. QED BY <1>4, <2>1, <2>2 DEF ValidRenewals
<1>. QED BY <1>3, <1>4

----------------------------------------------------------------------------
(* The checkpoint after a load.                                            *)

\* The checkpoints the load of L runs through.
Loads(f, L, time) ==
    /\ f[0] = Start(0)
    /\ \A k \in 1 .. Len(L) : f[k] = Rotate(L, time, f[k - 1], k, Len(L) + 1)

\* What loadFromLedger computes is a run of Rotate over the blocks.
LEMMA LoadFold ==
    ASSUME NEW L \in Seq(Blocks), NEW time
    PROVE  \E f : Loads(f, L, time) /\ LoadFromLedger(L, time).check = f[Len(L)]
<1> DEFINE n == Len(L)
           base == Start(0)
           Next1(r, i) == Rotate(L, time, r, i, Len(L) + 1)
           F == [p \in Checks \X (1 .. n) |-> Next1(p[1], p[2])]
           seq == [i \in DOMAIN L |-> i]
           Fold(h) == h = [w \in SUBSET DOMAIN seq |->
                             IF w = {} THEN base
                             ELSE LET x == Max(w)
                                  IN  Rotate(L, time, h[w \ {x}], seq[x], Len(L) + 1)]
           h == CHOOSE h : Fold(h)
<1>1. n \in Nat /\ DOMAIN L = 1 .. n
  BY LenProperties
<1>2. base \in Checks
  BY DEF Start, Checks
<1>3. ASSUME NEW r \in Checks, NEW i \in 1 .. n PROVE Next1(r, i) \in Checks
  <2>1. i \in Nat
    BY <1>1
  <2>. QED BY <2>1 DEF Rotate, Rotated, Checks
<1>4. \E g : Fold(g)
  <2>1. F \in [Checks \X (1 .. n) -> Checks]
    BY <1>3
  <2> HIDE DEF F, n, base
  <2>2. PICK g : IsFold(g, n, F, base) /\ \A w \in SUBSET (1 .. n) : g[w] \in Checks
    BY <1>1, <1>2, <2>1, FoldExists
  <2>3. ASSUME NEW w \in SUBSET (1 .. n), w # {}
        PROVE  F[<<g[w \ {Max(w)}], Max(w)>>] = Next1(g[w \ {Max(w)}], seq[Max(w)])
    <3>1. Max(w) \in w /\ w \ {Max(w)} \in SUBSET (1 .. n)
      BY <1>1, <2>3, MaxIn
    <3>2. seq[Max(w)] = Max(w)
      BY <1>1, <3>1
    <3>. QED BY <2>2, <3>1, <3>2 DEF F
  <2>4. SUBSET (1 .. n) = SUBSET DOMAIN seq
    BY <1>1
  <2> HIDE DEF seq
  <2>5. g = [w \in SUBSET DOMAIN seq |->
               IF w = {} THEN base ELSE F[<<g[w \ {Max(w)}], Max(w)>>]]
    BY <2>2, <2>4 DEF IsFold
  <2>6. Fold(g)
    BY <2>3, <2>4, <2>5
  <2>. QED BY <2>6
<1>5. Fold(h)
  <2> HIDE DEF Fold
  <2>. QED BY <1>4
<1>6. LoadFromLedger(L, time).check = h[DOMAIN seq]
  BY DEF LoadFromLedger, FoldLeft, MapThenFoldSet
<1> HIDE DEF h
<1>7. DOMAIN seq = 1 .. n /\ \A i \in 1 .. n : seq[i] = i
  BY <1>1
<1> HIDE DEF seq, base, n
<1> DEFINE f == [k \in 0 .. n |-> h[1 .. k]]
<1>8. h[{}] = base /\ 1 .. 0 = {}
  BY <1>5
<1>9. ASSUME NEW k \in 1 .. n PROVE h[1 .. k] = Next1(h[1 .. (k - 1)], k)
  <2>0. k \in Nat \ {0} /\ k <= n
    BY <1>1
  <2>1. 1 .. k \in SUBSET (1 .. n) /\ k \in 1 .. k /\ k \in Nat \ {0}
    BY <1>1, <2>0
  <2>2. Max(1 .. k) = k /\ (1 .. k) \ {Max(1 .. k)} = 1 .. (k - 1)
    BY <2>1, MaxUpto
  <2>3. h[1 .. k] = Rotate(L, time, h[(1 .. k) \ {Max(1 .. k)}], seq[Max(1 .. k)], Len(L) + 1)
    BY <1>5, <1>7, <2>1
  <2>. QED BY <1>7, <2>2, <2>3
<1>10. Loads(f, L, time)
  BY <1>1, <1>8, <1>9 DEF Loads, base, n
<1>11. f[Len(L)] = h[DOMAIN seq]
  BY <1>1, <1>7 DEF n
<1> HIDE DEF f
<1>. QED BY <1>6, <1>10, <1>11

\* Block c is old enough for a ledger L to move its checkpoint on.
Old(L, time, c) == NeedsCheckpoint(L, time, Start(c), Len(L) + 1)

\* A load moves the checkpoint block by block, up to the first that is not old.
LEMMA LoadChecks ==
    ASSUME NEW L \in Seq(Blocks), NEW time
    PROVE  \E k \in 0 .. Len(L) :
               /\ LoadFromLedger(L, time).check =
                      [last |-> IF k = 0 THEN 0 ELSE k - 1, current |-> k]
               /\ \A j \in 0 .. k - 1 : Old(L, time, j)
               /\ k = Len(L) \/ ~Old(L, time, k)
<1> DEFINE n == Len(L)
           At(k) == [last |-> IF k = 0 THEN 0 ELSE k - 1, current |-> k]
<1>1. n \in Nat
  BY LenProperties
<1>2. PICK f : Loads(f, L, time) /\ LoadFromLedger(L, time).check = f[n]
  BY LoadFold
<1> DEFINE Reaches(m, k) == /\ f[m] = At(k)
                            /\ \A j \in 0 .. k - 1 : Old(L, time, j)
                            /\ k = m \/ ~Old(L, time, k)
           P == {m \in 0 .. n : \E k \in 0 .. m : Reaches(m, k)}
<1>3. 0 \in P
  <2>1. f[0] = At(0)
    BY <1>2 DEF Loads, Start
  <2>2. Reaches(0, 0)
    BY <2>1
  <2>. QED BY <1>1, <2>2
<1>4. ASSUME NEW m \in 1 .. n, m - 1 \in P PROVE m \in P
  <2>1. PICK k \in 0 .. m - 1 : Reaches(m - 1, k)
    BY <1>4
  <2>2. k \in Nat /\ m \in Nat /\ k < m /\ m - 1 \in Nat
    BY <1>1
  <2>3. f[m] = IF Old(L, time, k) THEN [last |-> k, current |-> m] ELSE f[m - 1]
    <3>1. f[m] = Rotate(L, time, f[m - 1], m, n + 1) /\ f[m - 1].current = k
      BY <1>2, <2>1 DEF Loads
    <3>2. NeedsCheckpoint(L, time, f[m - 1], n + 1) <=> Old(L, time, k)
      BY <3>1 DEF NeedsCheckpoint, Old, Start
    <3>. QED BY <2>2, <3>1, <3>2 DEF Rotate, Rotated
  <2>4. CASE Old(L, time, k)
    <3>1. k = m - 1
      BY <2>1, <2>4
    <3>2. f[m] = At(m)
      BY <2>2, <2>3, <2>4, <3>1
    <3>3. \A j \in 0 .. m - 1 : Old(L, time, j)
      <4>1. \A j \in 0 .. m - 1 : j \in 0 .. k - 1 \/ j = k
        BY <2>2, <3>1
      <4> HIDE DEF At
      <4>. QED BY <2>1, <2>4, <4>1
    <3>4. Reaches(m, m)
      BY <3>2, <3>3
    <3> HIDE DEF Reaches
    <3>. QED BY <1>1, <2>2, <3>4
  <2>5. CASE ~Old(L, time, k)
    <3>1. Reaches(m, k)
      BY <2>1, <2>3, <2>5
    <3> HIDE DEF Reaches
    <3>. QED BY <1>1, <2>2, <3>1
  <2>. QED BY <2>4, <2>5
<1>5. n \in P
  <2>1. n \in 0 .. n
    BY <1>1
  <2> HIDE DEF P, n
  <2>2. 0 .. n \subseteq P
    BY <1>1, <1>3, <1>4, Upwards
  <2>. QED BY <2>1, <2>2
<1>. QED BY <1>2, <1>5

\* A checkpoint that is old is not before the one it was moved on to.
LEMMA LoadForward ==
    ASSUME Base, NEW c \in 0 .. Len(chain), c = 0 \/ Old(chain, now, c)
    PROVE  LoadFromLedger(chain, now).check.last >= c
<1>1. PICK k \in 0 .. Len(chain) :
          /\ LoadFromLedger(chain, now).check =
                 [last |-> IF k = 0 THEN 0 ELSE k - 1, current |-> k]
          /\ \A j \in 0 .. k - 1 : Old(chain, now, j)
          /\ k = Len(chain) \/ ~Old(chain, now, k)
  BY LoadChecks DEF Base, Typed
<1>2. /\ Len(chain) \in Nat /\ k \in Nat /\ c \in Nat
      /\ MinBlocks \in Nat /\ MinBlocks >= 2 /\ SlotsPerEpoch \in Nat \ {0}
      /\ minAge \in Nat /\ now \in Nat
  BY LenProperties, CheckpointAssumption DEF Base, Typed
<1>3. CASE c = 0
  BY <1>1, <1>2, <1>3
<1>4. CASE Old(chain, now, c)
  <2>1. c < Len(chain)
    BY <1>2, <1>4 DEF Old, NeedsCheckpoint, Start
  <2>2. ASSUME k <= c PROVE Old(chain, now, k)
    <3>1. Time(chain, k) <= Time(chain, c) /\ Time(chain, k) \in Nat /\ Time(chain, c) \in Nat
      BY <1>2, <2>2, LedgerTypes DEF Base, Typed, Ordered
    <3>. QED BY <1>2, <1>4, <2>2, <3>1 DEF Old, NeedsCheckpoint, Start
  <2>3. k > c
    BY <1>1, <1>2, <2>1, <2>2
  <2>. QED BY <1>1, <1>2, <2>3
<1>. QED BY <1>3, <1>4

\* Where blocks are of different seconds, later ones are younger.
LEMMA Younger ==
    ASSUME Base, SecondsApart, minAge # 0, NEW i \in 0 .. Len(chain), NEW j \in 0 .. Len(chain), i < j
    PROVE  Time(chain, i) < Time(chain, j)
<1>1. Len(chain) \in Nat /\ chain \in Seq(Blocks)
  BY LenProperties DEF Base, Typed
<1>2. i \in Nat /\ j \in 1 .. Len(chain) /\ j - 1 \in 0 .. Len(chain) /\ i <= j - 1
  BY <1>1
<1>3. Time(chain, i) <= Time(chain, j - 1) /\ Time(chain, j - 1) < Time(chain, j)
  BY <1>2 DEF Base, Ordered, SecondsApart
<1>4. Time(chain, i) \in Nat /\ Time(chain, j - 1) \in Nat /\ Time(chain, j) \in Nat
  BY <1>1, <1>2, LedgerTypes
<1>. QED BY <1>3, <1>4

\* So nothing before an old enough block is young enough.
LEMMA OldBefore ==
    ASSUME Base, SecondsApart, NEW L \in Seq(Blocks), Len(L) <= Len(chain),
           Alike(L, chain, Len(L)), NEW c \in 0 .. Len(L), now - Time(L, c) >= minAge
    PROVE  YoungAfter(L, now, c)
<1>1. /\ Len(chain) \in Nat /\ Len(L) \in Nat /\ chain \in Seq(Blocks)
      /\ now \in Nat /\ minAge \in Nat
  BY LenProperties DEF Base, Typed
<1>2. SUFFICES ASSUME minAge # 0, NEW j \in 0 .. Len(L), Time(L, j) >= now - minAge, j < c
               PROVE  FALSE
  BY <1>1 DEF YoungAfter
<1>3. j \in 0 .. Len(chain) /\ c \in 0 .. Len(chain)
  BY <1>1
<1>4. Time(chain, j) < Time(chain, c)
  BY <1>2, <1>3, Younger
<1>5. Time(L, j) = Time(chain, j) /\ Time(L, c) = Time(chain, c)
  BY <1>1, AlikeSay
<1>6. Time(chain, j) \in Nat /\ Time(chain, c) \in Nat
  BY <1>1, <1>3, LedgerTypes
<1>. QED BY <1>1, <1>2, <1>4, <1>5, <1>6

\* A node that moves its checkpoint on with the block it adds has every account
\* said by the blocks from the checkpoint before.
LEMMA Rotates ==
    ASSUME Base, SecondsApart, NEW L \in Seq(Blocks), Len(L) <= Len(chain),
           Alike(L, chain, Len(L)), NEW b \in Blocks, NEW check \in Checks,
           check.current <= Len(L),
           ValidRenewals(L, now, Len(L) + 1, b), NeedsCheckpoint(L, now, check, Len(L) + 1),
           NEW K, Alike(K, L, Len(L)), K[Len(L) + 1] = b
    PROVE  Said(K, 0, Len(L) + 1) \subseteq Said(K, check.current, Len(L) + 1)
<1> DEFINE i == Len(L) + 1
           c == check.current
<1>1. /\ Len(L) \in Nat /\ minAge \in Nat /\ now \in Nat
      /\ MinBlocks \in Nat /\ MinBlocks >= 2 /\ SlotsPerEpoch \in Nat \ {0}
      /\ c \in 0 .. Len(L) /\ i \in 1 .. Len(L) + 1 /\ i - 1 = Len(L)
  BY LenProperties, CheckpointAssumption DEF Base, Typed, Checks
<1>2. i >= c + MinBlocks + SlotsPerEpoch /\ now - Time(L, c) >= minAge
  BY DEF NeedsCheckpoint
<1>3. YoungAfter(L, now, c)
  BY <1>1, <1>2, OldBefore
<1> HIDE DEF c
<1>4. c <= i - MinBlocks + 1 /\ i >= MinBlocks /\ c \in Nat
  BY <1>1, <1>2
<1>5. ValidRenewals(L, now, i, b) /\ Alike(K, L, i - 1) /\ K[i] = b
  BY <1>1
<1> HIDE DEF i
<1>6. Said(K, 0, i) \subseteq Said(K, c, i)
  BY <1>1, <1>3, <1>4, <1>5, SaidAgain
<1>. QED BY <1>6 DEF i, c

\* The checkpoint of a load that succeeds is one to join at.
LEMMA LoadJoin ==
    ASSUME Base, SecondsApart, LoadFromLedger(chain, now).ok
    PROVE  Said(chain, 0, Len(chain))
               \subseteq Said(chain, LoadFromLedger(chain, now).check.last, Len(chain))
<1>1. PICK k \in 0 .. Len(chain) :
          /\ LoadFromLedger(chain, now).check =
                 [last |-> IF k = 0 THEN 0 ELSE k - 1, current |-> k]
          /\ \A j \in 0 .. k - 1 : Old(chain, now, j)
          /\ k = Len(chain) \/ ~Old(chain, now, k)
  BY LoadChecks DEF Base, Typed
<1>2. /\ Len(chain) \in Nat /\ k \in Nat /\ minAge \in Nat /\ now \in Nat /\ chain \in Seq(Blocks)
      /\ MinBlocks \in Nat /\ MinBlocks >= 2 /\ SlotsPerEpoch \in Nat \ {0}
  BY LenProperties, CheckpointAssumption DEF Base, Typed
<1>3. CASE k = 0
  BY <1>1, <1>3
<1>4. CASE k # 0
  <2> DEFINE c == k - 1
             i == Len(chain)
  <2>1. c \in 0 .. k - 1 /\ c \in 0 .. Len(chain) /\ c \in Nat
    BY <1>2, <1>4
  <2>2. Len(chain) + 1 >= c + MinBlocks + SlotsPerEpoch /\ now - Time(chain, c) >= minAge
    BY <1>1, <2>1 DEF Old, NeedsCheckpoint, Start
  <2>3. YoungAfter(chain, now, c)
    BY <1>2, <2>1, <2>2, OldBefore DEF Alike
  <2>4. c <= i - MinBlocks + 1 /\ i >= MinBlocks /\ i \in 1 .. Len(chain) /\ i \in 1 .. Len(chain) + 1
    BY <1>2, <2>1, <2>2
  <2>5. chain[i] \in Blocks /\ ValidRenewals(chain, now, i, chain[i])
    <3>1. chain[i] \in Blocks /\ i \in DOMAIN chain
      BY <1>2, <2>4, ElementOfSeq, LenProperties
    <3>. QED BY <3>1 DEF LoadFromLedger
  <2>6. Alike(chain, chain, i - 1)
    BY DEF Alike
  <2>7. LoadFromLedger(chain, now).check.last = c
    BY <1>1, <1>4
  <2>8. Said(chain, 0, i) \subseteq Said(chain, c, i)
    <3> HIDE DEF c, i
    <3>. QED BY <1>2, <2>1, <2>3, <2>4, <2>5, <2>6, SaidAgain
  <2>. QED BY <2>7, <2>8
<1>. QED BY <1>3, <1>4

----------------------------------------------------------------------------
(* The steps.                                                              *)

\* The invariant holds when the network starts.
LEMMA Begins ==
    ASSUME Init
    PROVE  Inv
<1>1. /\ SlotDuration \in Nat /\ Ages \subseteq Nat /\ Beacon # Miner
      /\ Len(<<>>) = 0 /\ chain = <<>> /\ <<>> \in Seq(Blocks)
  BY CheckpointAssumption DEF Init
<1>2. Typed
  BY <1>1 DEF Init, Typed, States, Checks, Start, NotPrepared, NoBlock, Blocks
<1>3. Within
  BY <1>1 DEF Init, Within, Start, Nodes
<1>4. Ordered
  BY <1>1 DEF Init, Ordered, Time
<1>5. Ripe
  BY <1>1 DEF Init, Ripe, Start, Nodes
<1>6. JoinPoint
  BY <1>1 DEF Init, JoinPoint, Start, Nodes
<1>7. LiveRange
  BY <1>1 DEF Init, LiveRange, Start, Nodes
<1>8. ByBlocks
  BY <1>1 DEF Init, ByBlocks, NotPrepared
<1>. QED BY <1>2, <1>3, <1>4, <1>5, <1>6, <1>7, <1>8 DEF Inv, Base

\* The types every step starts from.
LEMMA Numbers ==
    ASSUME Inv
    PROVE  /\ now \in Nat /\ minAge \in Nat /\ chain \in Seq(Blocks) /\ Len(chain) \in Nat
           /\ node \in [Nodes -> States] /\ Beacon \in Nodes /\ Miner \in Nodes /\ Beacon # Miner
           /\ \A n \in Nodes : /\ node[n] \in States
                               /\ node[n].has \in 0 .. Len(chain)
                               /\ node[n].check \in Checks
                               /\ node[n].check.last \in Nat
                               /\ node[n].check.current \in Nat
           /\ \A j \in 0 .. Len(chain) : Time(chain, j) \in Nat
           /\ MinBlocks \in Nat /\ MinBlocks >= 2 /\ SlotsPerEpoch \in Nat \ {0}
           /\ SlotDuration \in Nat \ {0}
<1>1. Typed /\ Within
  BY DEF Inv, Base
<1>2. chain \in Seq(Blocks) /\ Len(chain) \in Nat
  BY <1>1, LenProperties DEF Typed
<1>3. \A n \in Nodes : /\ node[n] \in States
                       /\ node[n].has \in 0 .. Len(chain)
                       /\ node[n].check \in Checks
                       /\ node[n].check.last \in Nat
                       /\ node[n].check.current \in Nat
  BY <1>1, <1>2 DEF Typed, Within, States, Checks
<1>4. \A j \in 0 .. Len(chain) : Time(chain, j) \in Nat
  BY <1>2, LedgerTypes
<1>. QED BY <1>1, <1>2, <1>3, <1>4, CheckpointAssumption DEF Typed, Nodes

\* Where the chain stays, so does what its blocks say.
LEMMA SameSaid ==
    ASSUME UNCHANGED <<minAge, chain>>
    PROVE  /\ SecondsApart' = SecondsApart
           /\ Said(chain, 0, Len(chain))' = Said(chain, 0, Len(chain))
           /\ Said(chain, node[Beacon].check.last, Len(chain))'
                  = Said(chain, node'[Beacon].check.last, Len(chain))
           /\ \A n : /\ Said(chain, 0, node[n].check.current)'
                            = Said(chain, 0, node'[n].check.current)
                     /\ Said(chain, node[n].check.last, node[n].check.current)'
                            = Said(chain, node'[n].check.last, node'[n].check.current)
<1>1. SecondsApart' = SecondsApart
  BY DEF SecondsApart, Time
<1>2. Said(chain, 0, Len(chain))' = Said(chain, 0, Len(chain))
  BY DEF Said, Snapshots
<1>3. Said(chain, node[Beacon].check.last, Len(chain))'
          = Said(chain, node'[Beacon].check.last, Len(chain))
  BY DEF Said, Snapshots
<1>4. ASSUME NEW n
      PROVE  /\ Said(chain, 0, node[n].check.current)' = Said(chain, 0, node'[n].check.current)
             /\ Said(chain, node[n].check.last, node[n].check.current)'
                    = Said(chain, node'[n].check.last, node'[n].check.current)
  BY DEF Said, Snapshots
<1>. QED BY <1>1, <1>2, <1>3, <1>4

\* A step that leaves the chain and the nodes alone leaves what the ranges tell.
LEMMA SameRanges ==
    ASSUME Inv, UNCHANGED <<minAge, chain, node>>
    PROVE  JoinPoint' /\ LiveRange'
BY SameSaid DEF Inv, JoinPoint, LiveRange

\* and what they have to say.
LEMMA SameRule ==
    ASSUME UNCHANGED <<minAge, chain>>
    PROVE  /\ \A i : ValidRenewals(chain, 0, i, chain[i])' = ValidRenewals(chain, 0, i, chain[i])
           /\ Due(chain, 0, Len(chain) + 1)' = Due(chain, 0, Len(chain) + 1)
<1>1. ASSUME NEW i PROVE ValidRenewals(chain, 0, i, chain[i])' = ValidRenewals(chain, 0, i, chain[i])
  BY DEF ValidRenewals, Due, BlockId, MaxBlockIdForRenewal, Said, Snapshots, Time
<1>2. Due(chain, 0, Len(chain) + 1)' = Due(chain, 0, Len(chain) + 1)
  BY DEF Due, BlockId, MaxBlockIdForRenewal, Said, Snapshots, Time
<1>. QED BY <1>1, <1>2

\* Time only makes checkpoints riper.
LEMMA TickKeeps ==
    ASSUME Inv, Tick
    PROVE  Inv'
<1>1. now' = now + 1 /\ UNCHANGED <<minAge, chain, node, prepared, produced, sending>>
  BY DEF Tick
<1>2. now \in Nat /\ Len(chain) \in Nat /\ minAge \in Nat /\ \A j \in 0 .. Len(chain) : Time(chain, j) \in Nat
  BY Numbers
<1>3. Typed' /\ Within'
  BY <1>1, <1>2 DEF Inv, Base, Typed, Within
<1>4. Ordered'
  <2>1. sending.time \in Nat
    BY DEF Inv, Base, Typed, Blocks
  <2>. QED BY <1>1, <1>2, <2>1 DEF Inv, Base, Ordered, Time
<1>5. Ripe'
  <2> DEFINE c == node[Beacon].check.last
  <2>1. CASE c = 0
    BY <1>1, <2>1 DEF Ripe
  <2>2. CASE NeedsCheckpoint(chain, now, Start(c), Len(chain) + 1)
    <3>1. c \in 0 .. Len(chain)
      BY <1>2, Numbers DEF Inv, Base, Within
    <3>2. Time(chain, c) \in Nat
      BY <1>2, <3>1
    <3>. QED BY <1>1, <1>2, <2>2, <3>2 DEF Ripe, NeedsCheckpoint, Start, Time
  <2>. QED BY <2>1, <2>2 DEF Inv, Ripe
<1>6. JoinPoint' /\ LiveRange'
  BY <1>1, SameRanges
<1>7. ByBlocks'
  BY <1>1, SameRule DEF Inv, ByBlocks
<1>. QED BY <1>3, <1>4, <1>5, <1>6, <1>7 DEF Inv, Base

\* The slot of a time is a number.
LEMMA SlotType ==
    ASSUME NEW t \in Nat, NEW d \in Nat, d > 0
    PROVE  t \div d \in Nat
OBVIOUS

\* A miner prepares its slot: whoever it finds due is due to the validator too.
LEMMA PrepareKeeps ==
    ASSUME Inv, Prepare
    PROVE  Inv'
<1>1. /\ prepared' = [slot |-> Slot, due |-> Due(chain, now, Len(chain) + 1)]
      /\ UNCHANGED <<now, minAge, chain, node, produced, sending>>
      /\ sending = NoBlock
  BY DEF Prepare, Ready
<1>2. Due(chain, now, Len(chain) + 1) \subseteq Accounts
  <2>1. Len(chain) + 1 \in 1 .. Len(chain) + 1
    BY Numbers
  <2>. QED BY <2>1, Numbers, DueIsValid
<1>3. Slot \in Nat
  <2>1. now \in Nat /\ SlotDuration \in Nat /\ SlotDuration > 0
    BY Numbers
  <2>. QED BY <2>1, SlotType DEF Slot
<1>4. Base' /\ Ripe'
  BY <1>1, <1>2, <1>3 DEF Inv, Base, Typed, Within, Ordered, Ripe, NeedsCheckpoint, Start, Time
<1>5. JoinPoint' /\ LiveRange'
  BY <1>1, SameRanges
<1>6. ASSUME minAge = 0 PROVE Due(chain, now, Len(chain) + 1) = Due(chain, 0, Len(chain) + 1)
  <2>1. Alike(chain, chain, Len(chain) + 1 - 1) /\ Len(chain) + 1 \in Nat \ {0}
    BY Numbers DEF Alike
  <2>. QED BY <1>6, <2>1, Timeless
<1>7. ByBlocks'
  BY <1>1, <1>6, SameRule DEF Inv, ByBlocks
<1>. QED BY <1>4, <1>5, <1>7 DEF Inv

\* A miner produces its block of what it prepared.
LEMMA ProduceBlockKeeps ==
    ASSUME Inv, ProduceBlock
    PROVE  Inv'
<1>1. /\ UNCHANGED <<now, minAge, chain, node, prepared, produced>>
      /\ prepared.slot = Slot /\ produced # Slot
  BY DEF ProduceBlock, Ready
<1>2. PICK updated \in Updates \cup {{}} :
          sending' = [time |-> now, renewed |-> prepared.due, updated |-> updated]
  BY DEF ProduceBlock
<1>3. sending' \in Blocks
  <2>1. updated \subseteq Accounts /\ prepared.due \subseteq Accounts /\ now \in Nat
    BY DEF Inv, Base, Typed, Accounts
  <2>. QED BY <1>2, <2>1 DEF Blocks
<1>4. sending'.time = now /\ now \in Nat /\ sending'.renewed = prepared.due
  BY <1>2, Numbers
<1>5. Base' /\ Ripe'
  <2>1. Typed' /\ Within' /\ Ripe'
    BY <1>1, <1>3 DEF Inv, Base, Typed, Within, Ripe, NeedsCheckpoint, Start, Time
  <2>2. Ordered'
    BY <1>1, <1>4 DEF Inv, Base, Ordered, Time
  <2>. QED BY <2>1, <2>2 DEF Base
<1>6. JoinPoint' /\ LiveRange'
  BY <1>1, SameRanges
<1>7. ByBlocks'
  BY <1>1, <1>4, SameRule DEF Inv, ByBlocks, Slot
<1>. QED BY <1>5, <1>6, <1>7 DEF Inv

\* A block that is lost was no block of the chain.
LEMMA BlockLostKeeps ==
    ASSUME Inv, BlockLost
    PROVE  Inv'
<1>1. UNCHANGED <<now, minAge, chain, node, prepared, produced>> /\ sending' = NoBlock
  BY DEF BlockLost
<1>2. NoBlock \in Blocks
  BY DEF NoBlock, Blocks
<1>3. Base' /\ Ripe'
  BY <1>1, <1>2 DEF Inv, Base, Typed, Within, Ordered, Ripe, NeedsCheckpoint, Start, Time
<1>4. JoinPoint' /\ LiveRange'
  BY <1>1, SameRanges
<1>5. ByBlocks'
  BY <1>1, SameRule DEF Inv, ByBlocks
<1>. QED BY <1>3, <1>4, <1>5 DEF Inv

\* A rotation leaves the checkpoint where it was or moves it on.
LEMMA RotateType ==
    ASSUME NEW L, NEW time, NEW check \in Checks, NEW i \in Nat, NEW next
    PROVE  /\ Rotate(L, time, check, i, next) \in Checks
           /\ \/ Rotate(L, time, check, i, next) = check
              \/ /\ Rotate(L, time, check, i, next) = [last |-> check.current, current |-> i]
                 /\ NeedsCheckpoint(L, time, check, next)
BY DEF Rotate, Rotated, Checks

\* The miner adds the next block it has not got.
LEMMA AddBlockKeeps ==
    ASSUME Inv, AddBlock
    PROVE  Inv'
<1> DEFINE L == Ledger(Miner)
           s == node[Miner]
           i == Len(L) + 1
<1>1. /\ UNCHANGED <<now, minAge, chain, prepared, produced, sending>>
      /\ node' = [node EXCEPT ![Miner] = Added(Miner)]
      /\ s.has < Len(chain)
      /\ Judged(Miner, chain[s.has + 1])
  BY DEF AddBlock
<1>2. L \in Seq(Blocks) /\ Len(L) = s.has /\ Alike(L, chain, Len(L))
  BY Numbers, Beginning DEF Ledger
<1>3. /\ s \in States /\ s.check \in Checks /\ Len(chain) \in Nat /\ s.has \in Nat
      /\ s.check.current \in Nat /\ s.check.last \in Nat
  BY Numbers
<1> DEFINE r == Rotate(L, now, s.check, i, i)
           t == [s EXCEPT !.has = i, !.check = IF s.config THEN r ELSE s.check]
<1>4. /\ i \in Nat /\ i <= Len(chain) /\ i = s.has + 1 /\ r \in Checks
      /\ r = s.check \/ /\ r = [last |-> s.check.current, current |-> i]
                        /\ NeedsCheckpoint(L, now, s.check, i)
  <2>1. i \in Nat /\ i <= Len(chain) /\ i = s.has + 1
    BY <1>1, <1>2, <1>3
  <2> HIDE DEF i, L, s
  <2>. QED BY <1>3, <2>1, RotateType
<1>5. node' = [node EXCEPT ![Miner] = t]
  BY <1>1, <1>4 DEF Added
<1>6. s.config => ValidRenewals(L, now, i, chain[i])
  BY <1>1, <1>4 DEF Judged
<1> HIDE DEF L, i, r
<1>7. t \in States /\ t.has = i /\ t.config = s.config /\ t.loaded = s.loaded
      /\ t.check = IF s.config THEN r ELSE s.check
  BY <1>3, <1>4 DEF States
<1> HIDE DEF t
<1>8. node'[Beacon] = node[Beacon] /\ node'[Miner] = t /\ node' \in [Nodes -> States]
  <2>1. /\ node \in [Nodes -> States] /\ Beacon \in Nodes /\ Miner \in Nodes /\ Beacon # Miner
    BY Numbers
  <2>. QED BY <1>5, <1>7, <2>1
<1>9. Typed'
  BY <1>1, <1>8 DEF Inv, Base, Typed
<1>10. ~s.loaded => s.config /\ s.check.current <= s.has
  BY Numbers DEF Inv, Base, Within
<1>11. Within'
  <2>1. ~t.loaded => t.config /\ t.check.current <= t.has
    <3>1. i <= i /\ s.has <= i
      BY <1>3, <1>4
    <3>. QED BY <1>3, <1>4, <1>7, <1>10, <3>1
  <2>. QED BY <1>1, <1>4, <1>7, <1>8, <2>1 DEF Inv, Base, Within, Nodes
<1>12. Ordered' /\ Ripe' /\ JoinPoint'
  <2>1. Ordered'
    BY <1>1 DEF Inv, Base, Ordered, Time
  <2>2. Ripe'
    BY <1>1, <1>8 DEF Inv, Ripe, NeedsCheckpoint, Start, Time
  <2>3. JoinPoint'
    BY <1>1, <1>8, SameSaid DEF Inv, JoinPoint
  <2>. QED BY <2>1, <2>2, <2>3
<1>13. ASSUME SecondsApart, ~t.loaded
       PROVE  Said(chain, 0, t.check.current) \subseteq Said(chain, t.check.last, t.check.current)
  <2>1. s.config /\ ~s.loaded /\ s.check.current <= s.has
    BY <1>7, <1>10, <1>13
  <2>2. CASE r = s.check
    BY <1>7, <1>13, <2>1, <2>2, Numbers DEF Inv, LiveRange
  <2>3. CASE /\ r = [last |-> s.check.current, current |-> i]
             /\ NeedsCheckpoint(L, now, s.check, i)
    <3>1. chain[i] \in Blocks
      <4>1. i \in 1 .. Len(chain) /\ chain \in Seq(Blocks)
        BY <1>3, <1>4, Numbers
      <4>. QED BY <4>1, ElementOfSeq
    <3>2. Alike(chain, L, Len(L)) /\ Len(L) <= Len(chain) /\ s.check.current <= Len(L)
          /\ ValidRenewals(L, now, Len(L) + 1, chain[i]) /\ NeedsCheckpoint(L, now, s.check, Len(L) + 1)
          /\ chain[Len(L) + 1] = chain[i]
      BY <1>1, <1>2, <1>3, <1>6, <2>1, <2>3 DEF Alike, i
    <3>3. Said(chain, 0, Len(L) + 1) \subseteq Said(chain, s.check.current, Len(L) + 1)
      BY <1>2, <1>3, <1>13, <3>1, <3>2, Rotates DEF Inv
    <3>. QED BY <1>7, <2>1, <2>3, <3>3 DEF i
  <2>. QED BY <1>4, <2>2, <2>3
<1>14. LiveRange'
  <2>1. ASSUME NEW n \in Nodes, SecondsApart, ~node'[n].loaded
        PROVE  Said(chain, 0, node'[n].check.current)
                   \subseteq Said(chain, node'[n].check.last, node'[n].check.current)
    <3>1. CASE n = Miner
      BY <1>8, <1>13, <2>1, <3>1
    <3>2. CASE n = Beacon
      BY <1>8, <2>1, <3>2 DEF Inv, LiveRange
    <3>. QED BY <3>1, <3>2 DEF Nodes
  <2>. QED BY <1>1, <2>1, SameSaid DEF LiveRange
<1>15. ByBlocks'
  BY <1>1, SameRule DEF Inv, ByBlocks
<1>. QED BY <1>9, <1>11, <1>12, <1>14, <1>15 DEF Inv, Base

\* What the blocks say and have to say after a step.
LEMMA NextSaid ==
    /\ Said(chain, 0, Len(chain))' = Said(chain', 0, Len(chain'))
    /\ Said(chain, node[Beacon].check.last, Len(chain))'
           = Said(chain', node'[Beacon].check.last, Len(chain'))
    /\ \A n : /\ Said(chain, 0, node[n].check.current)' = Said(chain', 0, node'[n].check.current)
              /\ Said(chain, node[n].check.last, node[n].check.current)'
                     = Said(chain', node'[n].check.last, node'[n].check.current)
    /\ \A i : Time(chain, i)' = Time(chain', i)
<1>1. Said(chain, 0, Len(chain))' = Said(chain', 0, Len(chain'))
  BY DEF Said, Snapshots
<1>2. Said(chain, node[Beacon].check.last, Len(chain))'
          = Said(chain', node'[Beacon].check.last, Len(chain'))
  BY DEF Said, Snapshots
<1>3. ASSUME NEW n
      PROVE  /\ Said(chain, 0, node[n].check.current)' = Said(chain', 0, node'[n].check.current)
             /\ Said(chain, node[n].check.last, node[n].check.current)'
                    = Said(chain', node'[n].check.last, node'[n].check.current)
  BY DEF Said, Snapshots
<1>4. ASSUME NEW i PROVE Time(chain, i)' = Time(chain', i)
  BY DEF Time
<1>. QED BY <1>1, <1>2, <1>3, <1>4

\* The beacon adds the block of the leader: what was there before stays.
LEMMA HBlockAddShape ==
    ASSUME Inv, HBlockAdd
    PROVE  LET i == Len(chain) + 1
               s == node[Beacon]
               t == node'[Beacon]
               r == Rotate(chain, now, s.check, i, i)
           IN  /\ chain' \in Seq(Blocks) /\ Len(chain') = i /\ chain'[i] = sending
               /\ sending \in Blocks /\ sending' = NoBlock /\ sending # NoBlock
               /\ Alike(chain', chain, Len(chain)) /\ i \in Nat
               /\ UNCHANGED <<now, minAge, prepared>>
               /\ produced' = sending.time \div SlotDuration
               /\ ValidRenewals(chain, now, i, sending)
               /\ node' \in [Nodes -> States] /\ node'[Miner] = node[Miner]
               /\ t = [s EXCEPT !.has = i, !.check = r]
               /\ t.has = i /\ t.config = s.config /\ t.loaded = s.loaded /\ t.up = s.up /\ s.up
               /\ t.check = r /\ s.check.current <= Len(chain)
               /\ \/ r = s.check
                  \/ /\ r = [last |-> s.check.current, current |-> i]
                     /\ NeedsCheckpoint(chain, now, s.check, i)
<1> DEFINE i == Len(chain) + 1
           s == node[Beacon]
           r == Rotate(chain, now, s.check, i, i)
           t == [s EXCEPT !.has = i, !.check = r]
<1>1. /\ sending # NoBlock /\ s.up /\ Judged(Beacon, sending)
      /\ chain' = Append(chain, sending)
      /\ node' = [node EXCEPT ![Beacon] = Added(Beacon)]
      /\ produced' = sending.time \div SlotDuration
      /\ sending' = NoBlock
      /\ UNCHANGED <<now, minAge, prepared>>
  BY DEF HBlockAdd
<1>2. /\ s \in States /\ s.check \in Checks /\ Len(chain) \in Nat /\ chain \in Seq(Blocks)
      /\ i \in Nat /\ s.has = Len(chain) /\ s.config /\ s.check.current <= Len(chain)
      /\ sending \in Blocks /\ node \in [Nodes -> States] /\ Beacon \in Nodes /\ Miner \in Nodes
      /\ Beacon # Miner
  BY Numbers DEF Inv, Base, Typed, Within
<1>3. Ledger(Beacon) = chain
  BY <1>2, Beginning DEF Ledger
<1>4. /\ r \in Checks
      /\ \/ r = s.check
         \/ /\ r = [last |-> s.check.current, current |-> i]
            /\ NeedsCheckpoint(chain, now, s.check, i)
  <2> HIDE DEF i, s
  <2>. QED BY <1>2, RotateType
<1>5. Added(Beacon) = t /\ ValidRenewals(chain, now, i, sending)
  BY <1>1, <1>2, <1>3 DEF Added, Judged
<1>6. /\ chain' \in Seq(Blocks) /\ Len(chain') = i /\ chain'[i] = sending
      /\ Alike(chain', chain, Len(chain))
  BY <1>1, <1>2, Longer
<1> HIDE DEF r, i
<1>7. t \in States /\ t.has = i /\ t.config = s.config /\ t.loaded = s.loaded /\ t.up = s.up
      /\ t.check = r
  BY <1>2, <1>4 DEF States
<1> HIDE DEF t
<1>8. node' \in [Nodes -> States] /\ node'[Miner] = node[Miner] /\ node'[Beacon] = t
  BY <1>1, <1>2, <1>5, <1>7
<1>. QED BY <1>1, <1>2, <1>4, <1>5, <1>6, <1>7, <1>8 DEF r, t, i

\* A block added: the state keeps its shape and both checkpoints their order.
LEMMA HBlockAddBase ==
    ASSUME Inv, HBlockAdd
    PROVE  Base' /\ Ripe'
<1> DEFINE i == Len(chain) + 1
           s == node[Beacon]
           t == node'[Beacon]
           r == Rotate(chain, now, s.check, i, i)
<1>1. /\ chain' \in Seq(Blocks) /\ Len(chain') = i /\ chain'[i] = sending
      /\ sending \in Blocks /\ sending' = NoBlock /\ sending # NoBlock
      /\ Alike(chain', chain, Len(chain)) /\ i \in Nat
      /\ UNCHANGED <<now, minAge, prepared>>
      /\ produced' = sending.time \div SlotDuration
      /\ node' \in [Nodes -> States] /\ node'[Miner] = node[Miner]
      /\ t.has = i /\ t.config = s.config /\ t.loaded = s.loaded /\ t.check = r
      /\ s.check.current <= Len(chain)
      /\ \/ r = s.check
         \/ /\ r = [last |-> s.check.current, current |-> i]
            /\ NeedsCheckpoint(chain, now, s.check, i)
  BY HBlockAddShape
<1> HIDE DEF i, r
<1>2. Len(chain) \in Nat /\ i = Len(chain) + 1 /\ s.check.last \in Nat /\ s.check.current \in Nat
      /\ sending.time \in Nat /\ now \in Nat /\ minAge \in Nat
  BY <1>1, Numbers DEF i, Blocks
<1>3. \A j \in 0 .. Len(chain) : Time(chain', j) = Time(chain, j) /\ Time(chain, j) \in Nat
  BY <1>1, <1>2, AlikeSay, Numbers
<1>4. Time(chain', i) = sending.time
  BY <1>1, <1>2 DEF Time
<1>5. Typed'
  <2>1. produced' \in Nat
    <3>1. SlotDuration \in Nat /\ SlotDuration > 0
      BY Numbers
    <3>. QED BY <1>1, <1>2, <3>1, SlotType
  <2>2. sending' \in Blocks
    BY <1>1 DEF NoBlock, Blocks
  <2>. QED BY <1>1, <2>1, <2>2 DEF Inv, Base, Typed
<1>6. Within'
  <2>1. s.has = Len(chain) /\ s.config /\ s.check.last <= s.check.current
    BY DEF Inv, Base, Within
  <2>2. t.check.last <= t.check.current /\ t.check.current <= i
    BY <1>1, <1>2, <2>1
  <2>3. ASSUME NEW n \in Nodes
        PROVE  node'[n].has <= i /\ (~node'[n].loaded => node'[n].config /\ node'[n].check.current <= node'[n].has)
    <3>1. CASE n = Beacon
      <4>1. t.has = i /\ t.config /\ t.check.current <= t.has /\ i <= i
        BY <1>1, <1>2, <2>1, <2>2
      <4>. QED BY <3>1, <4>1
    <3>2. CASE n = Miner
      <4>1. node[n].has \in Nat /\ node[n].has <= Len(chain)
            /\ (~node[n].loaded => node[n].config /\ node[n].check.current <= node[n].has)
        BY Numbers DEF Inv, Base, Within
      <4>. QED BY <1>1, <1>2, <3>2, <4>1
    <3>. QED BY <3>1, <3>2 DEF Nodes
  <2>. QED BY <1>1, <2>1, <2>2, <2>3 DEF Within
<1>7. Ordered'
  <2>1. /\ \A j, k \in 0 .. Len(chain) : j <= k => Time(chain, j) <= Time(chain, k)
        /\ \A j \in 0 .. Len(chain) : Time(chain, j) <= now /\ Time(chain, j) <= sending.time
        /\ sending.time <= now
    BY <1>1 DEF Inv, Base, Ordered
  <2>2. \A j \in 0 .. i : j \in 0 .. Len(chain) \/ j = i
    BY <1>2
  <2>3. ASSUME NEW j \in 0 .. i, NEW k \in 0 .. i, j <= k
        PROVE  Time(chain', j) <= Time(chain', k)
    BY <1>2, <1>3, <1>4, <2>1, <2>2, <2>3
  <2>4. \A j \in 0 .. i : Time(chain', j) <= now
    BY <1>3, <1>4, <2>1, <2>2
  <2>. QED BY <1>1, <2>3, <2>4, NextSaid DEF Ordered
<1>8. Ripe'
  <2> DEFINE c == t.check.last
  <2>0. MinBlocks \in Nat /\ MinBlocks >= 2 /\ SlotsPerEpoch \in Nat
    BY Numbers
  <2>1. SUFFICES ASSUME c # 0
                 PROVE  i + 1 >= c + MinBlocks + SlotsPerEpoch /\ now - Time(chain', c) >= minAge
    <3>1. ASSUME c # 0 => NeedsCheckpoint(chain, now, Start(node[Beacon].check.last), Len(chain) + 1)'
          PROVE  Ripe'
      BY <3>1 DEF Ripe
    <3>2. NeedsCheckpoint(chain, now, Start(node[Beacon].check.last), Len(chain) + 1)'
              <=> i + 1 >= c + MinBlocks + SlotsPerEpoch /\ now - Time(chain', c) >= minAge
      BY <1>1 DEF NeedsCheckpoint, Start, Time
    <3>. QED BY <2>1, <3>1, <3>2
  <2>2. CASE r = s.check
    <3>1. Len(chain) + 1 >= c + MinBlocks + SlotsPerEpoch /\ now - Time(chain, c) >= minAge
      BY <1>1, <2>1, <2>2 DEF Inv, Ripe, NeedsCheckpoint, Start
    <3>2. c \in Nat
      BY <1>1, <1>2, <2>2
    <3> HIDE DEF c
    <3>3. c \in 0 .. Len(chain)
      BY <1>2, <2>0, <3>1, <3>2
    <3>4. Time(chain', c) = Time(chain, c)
      BY <1>3, <3>3
    <3>. QED BY <1>2, <2>0, <3>1, <3>2, <3>4
  <2>3. CASE /\ r = [last |-> s.check.current, current |-> i]
             /\ NeedsCheckpoint(chain, now, s.check, i)
    <3>1. c = s.check.current /\ c \in Nat /\ c <= Len(chain)
      BY <1>1, <1>2, <2>3
    <3>2. i >= c + MinBlocks + SlotsPerEpoch /\ now - Time(chain, c) >= minAge
      BY <2>3, <3>1 DEF NeedsCheckpoint
    <3> HIDE DEF c
    <3>3. c \in 0 .. Len(chain)
      BY <1>2, <3>1
    <3>4. Time(chain', c) = Time(chain, c)
      BY <1>3, <3>3
    <3>. QED BY <1>2, <2>0, <3>1, <3>2, <3>4
  <2>. QED BY <1>1, <2>2, <2>3
<1>. QED BY <1>5, <1>6, <1>7, <1>8 DEF Base

\* Two blocks of one second stay.
LEMMA ApartBefore ==
    ASSUME Inv, chain' \in Seq(Blocks), Len(chain') = Len(chain) + 1,
           Alike(chain', chain, Len(chain)), minAge' = minAge, SecondsApart'
    PROVE  SecondsApart
<1>0. Len(chain) \in Nat /\ Len(chain') = Len(chain) + 1
  BY Numbers
<1>1. SUFFICES ASSUME minAge # 0, NEW i \in 1 .. Len(chain)
               PROVE  Time(chain, i - 1) < Time(chain, i)
  BY DEF SecondsApart
<1>2. i - 1 \in 0 .. Len(chain) /\ i \in 0 .. Len(chain) /\ i \in 1 .. Len(chain')
  BY <1>0
<1>3. Time(chain', i - 1) < Time(chain', i)
  BY <1>1, <1>2 DEF SecondsApart, Time
<1>. QED BY <1>0, <1>2, <1>3, AlikeSay

\* A block added: both checkpoints, moved or not, tell all that is told before them.
LEMMA HBlockAddRanges ==
    ASSUME Inv, HBlockAdd
    PROVE  JoinPoint' /\ LiveRange'
<1> DEFINE i == Len(chain) + 1
           s == node[Beacon]
           t == node'[Beacon]
           r == Rotate(chain, now, s.check, i, i)
<1>1. /\ chain' \in Seq(Blocks) /\ Len(chain') = i /\ chain'[i] = sending
      /\ sending \in Blocks
      /\ Alike(chain', chain, Len(chain)) /\ i \in Nat
      /\ UNCHANGED <<now, minAge>>
      /\ ValidRenewals(chain, now, i, sending)
      /\ node'[Miner] = node[Miner]
      /\ t.has = i /\ t.loaded = s.loaded /\ s.up
      /\ t.check = r /\ s.check.current <= Len(chain)
      /\ \/ r = s.check
         \/ /\ r = [last |-> s.check.current, current |-> i]
            /\ NeedsCheckpoint(chain, now, s.check, i)
  BY HBlockAddShape
<1>2. Len(chain) \in Nat /\ s.check \in Checks /\ s.check.last \in Nat /\ s.check.current \in Nat
      /\ chain \in Seq(Blocks)
  BY Numbers
<1>3. SecondsApart' => SecondsApart
  BY <1>1, ApartBefore
<1>4. \A p \in Nat, q \in 0 .. Len(chain) : Said(chain', p, q) = Said(chain, p, q)
  BY <1>1, <1>2, AlikeSay
<1>5. ASSUME SecondsApart, NeedsCheckpoint(chain, now, s.check, i)
      PROVE  Said(chain', 0, i) \subseteq Said(chain', s.check.current, i)
  <2>1. Alike(chain, chain, Len(chain)) /\ Len(chain) <= Len(chain) /\ Base
    BY <1>2 DEF Alike, Inv
  <2>. QED BY <1>1, <1>2, <1>5, <2>1, Rotates
<1>6. ASSUME SecondsApart PROVE Said(chain', 0, i) \subseteq Said(chain', t.check.last, i)
  <2>1. CASE r = s.check
    <3>1. Said(chain, 0, Len(chain)) \subseteq Said(chain, s.check.last, Len(chain))
      BY <1>1, <1>6 DEF Inv, JoinPoint
    <3>2. Said(chain', 0, Len(chain)) \subseteq Said(chain', s.check.last, Len(chain))
      BY <1>2, <1>4, <3>1
    <3>3. s.check.last <= Len(chain)
      BY <1>1, <1>2 DEF Inv, Base, Within
    <3>4. ASSUME NEW p \in 0 .. Len(chain)
          PROVE  Said(chain', p, i) = Said(chain', p, Len(chain)) \cup Snapshots(chain', i)
      <4>1. p .. i = (p .. Len(chain)) \cup {i}
        BY <1>2
      <4>. QED BY <4>1 DEF Said
    <3>5. 0 \in 0 .. Len(chain) /\ s.check.last \in 0 .. Len(chain)
      BY <1>2, <3>3
    <3> HIDE DEF i
    <3>6. t.check.last = s.check.last
      BY <1>1, <2>1
    <3>. QED BY <3>2, <3>4, <3>5, <3>6
  <2>2. CASE /\ r = [last |-> s.check.current, current |-> i]
             /\ NeedsCheckpoint(chain, now, s.check, i)
    BY <1>1, <1>5, <1>6, <2>2
  <2>. QED BY <1>1, <2>1, <2>2
<1>7. JoinPoint'
  BY <1>1, <1>3, <1>6, NextSaid DEF JoinPoint
<1>8. ASSUME NEW n \in Nodes, SecondsApart, ~node'[n].loaded
      PROVE  Said(chain', 0, node'[n].check.current)
                 \subseteq Said(chain', node'[n].check.last, node'[n].check.current)
  <2>1. CASE node'[n].check = node[n].check /\ node'[n].loaded = node[n].loaded
    <3>1. Said(chain, 0, node[n].check.current)
              \subseteq Said(chain, node[n].check.last, node[n].check.current)
      BY <1>8, <2>1 DEF Inv, LiveRange
    <3>2. /\ node[n].check.current \in 0 .. Len(chain)
          /\ node[n].check.last \in Nat /\ 0 \in Nat
      <4>1. /\ node[n].check.current \in Nat /\ node[n].check.last \in Nat
            /\ node[n].has \in Nat /\ Len(chain) \in Nat
        BY Numbers
      <4>2. node[n].check.current <= node[n].has /\ node[n].has <= Len(chain)
        BY <1>8, <2>1 DEF Inv, Base, Within
      <4>. QED BY <4>1, <4>2
    <3>. QED BY <1>4, <2>1, <3>1, <3>2
  <2>2. CASE /\ n = Beacon
             /\ r = [last |-> s.check.current, current |-> i]
             /\ NeedsCheckpoint(chain, now, s.check, i)
    BY <1>1, <1>5, <1>8, <2>2
  <2>. QED BY <1>1, <2>1, <2>2 DEF Nodes
<1>9. LiveRange'
  BY <1>3, <1>8, NextSaid DEF LiveRange
<1>. QED BY <1>7, <1>9

\* A block added: with minAge 0 the rule of blocks is the rule of seconds.
LEMMA HBlockAddRule ==
    ASSUME Inv, HBlockAdd
    PROVE  ByBlocks'
<1> DEFINE i == Len(chain) + 1
<1>1. /\ chain' \in Seq(Blocks) /\ Len(chain') = i /\ chain'[i] = sending
      /\ sending \in Blocks /\ sending' = NoBlock /\ sending # NoBlock
      /\ Alike(chain', chain, Len(chain)) /\ i \in Nat
      /\ UNCHANGED <<minAge, prepared>>
      /\ produced' = sending.time \div SlotDuration
      /\ ValidRenewals(chain, now, i, sending)
  BY HBlockAddShape
<1>2. SUFFICES ASSUME minAge = 0
               PROVE  /\ \A j \in 1 .. i : ValidRenewals(chain', 0, j, chain'[j])
                      /\ prepared'.slot = produced' /\ sending' = NoBlock
  <2>1. \A j : ValidRenewals(chain, 0, j, chain[j])' <=> ValidRenewals(chain', 0, j, chain'[j])
    BY <1>1 DEF ValidRenewals, Due, BlockId, MaxBlockIdForRenewal, Said, Snapshots, Time
  <2>. QED BY <1>1, <1>2, <2>1 DEF ByBlocks
<1>3. prepared'.slot = produced'
  BY <1>1, <1>2 DEF Inv, ByBlocks
<1>4. ASSUME NEW j \in 1 .. i PROVE ValidRenewals(chain', 0, j, chain'[j])
  <2>0. Len(chain) \in Nat /\ j \in Nat \ {0} /\ j <= Len(chain) + 1
    BY <1>1, Numbers
  <2>1. Alike(chain', chain, j - 1)
    BY <1>1, <2>0 DEF Alike
  <2>2. CASE j = i
    BY <1>1, <1>2, <2>0, <2>1, <2>2, Timeless
  <2>3. CASE j # i
    <3>1. j \in 1 .. Len(chain)
      BY <2>0, <2>3
    <3>2. ValidRenewals(chain, 0, j, chain[j]) /\ chain'[j] = chain[j]
      BY <1>1, <1>2, <3>1 DEF Inv, ByBlocks, Alike
    <3>. QED BY <1>2, <2>0, <2>1, <3>2, Timeless
  <2>. QED BY <2>2, <2>3
<1>. QED BY <1>1, <1>3, <1>4

\* A loaded checkpoint is at a block of the ledger.
LEMMA LoadType ==
    ASSUME NEW L \in Seq(Blocks), NEW time
    PROVE  /\ LoadFromLedger(L, time).check \in Checks
           /\ LoadFromLedger(L, time).check.last <= LoadFromLedger(L, time).check.current
           /\ LoadFromLedger(L, time).check.current <= Len(L)
           /\ LoadFromLedger(L, time).ok \in BOOLEAN
<1>1. PICK k \in 0 .. Len(L) :
          LoadFromLedger(L, time).check = [last |-> IF k = 0 THEN 0 ELSE k - 1, current |-> k]
  BY LoadChecks
<1>2. k \in Nat /\ k <= Len(L)
  BY LenProperties
<1>3. LoadFromLedger(L, time).ok \in BOOLEAN
  BY DEF LoadFromLedger
<1>. QED BY <1>1, <1>2, <1>3 DEF Checks

\* The beacon loads its ledger.
LEMMA RestartBeaconKeeps ==
    ASSUME Inv, RestartBeacon
    PROVE  Inv' /\ node'[Beacon].check.last >= node[Beacon].check.last
<1> DEFINE s == node[Beacon]
           r == LoadFromLedger(chain, now)
           t == [s EXCEPT !.check = r.check, !.config = TRUE, !.up = r.ok, !.loaded = TRUE]
<1>1. /\ UNCHANGED <<now, minAge, chain, prepared, produced, sending>>
      /\ node' = [node EXCEPT ![Beacon] = t]
  BY DEF RestartBeacon, Loaded
<1>2. /\ s \in States /\ Len(chain) \in Nat /\ chain \in Seq(Blocks) /\ s.check.last \in Nat
      /\ node \in [Nodes -> States] /\ Beacon \in Nodes /\ Miner \in Nodes /\ Beacon # Miner
      /\ s.has = Len(chain) /\ s.check.last \in 0 .. Len(chain)
      /\ \A n \in Nodes : node[n].has <= Len(chain)
  BY Numbers DEF Inv, Base, Within
<1>3. /\ r.check \in Checks /\ r.check.last <= r.check.current /\ r.check.current <= Len(chain)
      /\ r.ok \in BOOLEAN
  BY <1>2, LoadType
<1> HIDE DEF r
<1>4. t \in States /\ t.has = s.has /\ t.config /\ t.loaded /\ t.check = r.check /\ t.up = r.ok
  BY <1>2, <1>3 DEF States
<1> HIDE DEF t
<1>5. node'[Beacon] = t /\ node'[Miner] = node[Miner] /\ node' \in [Nodes -> States]
  BY <1>1, <1>2, <1>4
<1>6. Typed'
  BY <1>1, <1>5 DEF Inv, Base, Typed
<1>7. Within'
  BY <1>1, <1>2, <1>3, <1>4, <1>5 DEF Inv, Base, Within, Nodes
<1>8. Ordered'
  BY <1>1 DEF Inv, Base, Ordered, Time
<1>9. r.check.last >= s.check.last
  <2>1. s.check.last = 0 \/ Old(chain, now, s.check.last)
    BY DEF Inv, Ripe, Old
  <2>. QED BY <1>2, <2>1, LoadForward DEF Inv, r
<1>10. Ripe'
  <2>1. PICK k \in 0 .. Len(chain) :
            /\ r.check = [last |-> IF k = 0 THEN 0 ELSE k - 1, current |-> k]
            /\ \A j \in 0 .. k - 1 : Old(chain, now, j)
    BY <1>2, LoadChecks DEF r
  <2>2. r.check.last = 0 \/ Old(chain, now, r.check.last)
    <3>1. CASE k = 0
      BY <2>1, <3>1
    <3>2. CASE k # 0
      <4>1. k - 1 \in 0 .. k - 1
        BY <1>2, <3>2
      <4>. QED BY <2>1, <3>2, <4>1
    <3>. QED BY <3>1, <3>2
  <2>. QED BY <1>1, <1>4, <1>5, <2>2 DEF Ripe, Old, NeedsCheckpoint, Start, Time
<1>11. JoinPoint'
  <2>1. ASSUME SecondsApart, r.ok
        PROVE  Said(chain, 0, Len(chain)) \subseteq Said(chain, r.check.last, Len(chain))
    BY <2>1, LoadJoin DEF Inv, r
  <2>. QED BY <1>1, <1>4, <1>5, <2>1, SameSaid DEF JoinPoint
<1>12. LiveRange'
  <2>1. ASSUME NEW n \in Nodes, SecondsApart, ~node'[n].loaded
        PROVE  Said(chain, 0, node'[n].check.current)
                   \subseteq Said(chain, node'[n].check.last, node'[n].check.current)
    BY <1>4, <1>5, <2>1 DEF Inv, LiveRange, Nodes
  <2>. QED BY <1>1, <2>1, SameSaid DEF LiveRange
<1>13. ByBlocks'
  BY <1>1, SameRule DEF Inv, ByBlocks
<1>. QED BY <1>4, <1>5, <1>6, <1>7, <1>8, <1>9, <1>10, <1>11, <1>12, <1>13 DEF Inv, Base

\* The miner loads its ledger, from its beginning or from the joiners' checkpoint.
LEMMA RestartMinerKeeps ==
    ASSUME Inv, RestartMiner
    PROVE  Inv'
<1> DEFINE s == node[Miner]
           from == node[Beacon].check.last
           own == Ledger(Miner)
           t == node'[Miner]
<1>1. /\ UNCHANGED <<now, minAge, chain>>
      /\ prepared' = NotPrepared /\ produced' = 0 /\ sending' = NoBlock
  BY DEF RestartMiner
<1>2. /\ s \in States /\ Len(chain) \in Nat /\ chain \in Seq(Blocks)
      /\ node \in [Nodes -> States] /\ Beacon \in Nodes /\ Miner \in Nodes /\ Beacon # Miner
      /\ s.has \in Nat /\ s.has <= Len(chain) /\ from \in Nat /\ from <= Len(chain)
  <2>1. from <= node[Beacon].check.current /\ node[Beacon].check.current <= Len(chain)
    BY DEF Inv, Base, Within
  <2>2. s.has \in 0 .. Len(chain)
    BY Numbers
  <2>3. from \in Nat /\ node[Beacon].check.current \in Nat /\ Len(chain) \in Nat
    BY Numbers
  <2>. QED BY <2>1, <2>2, <2>3, Numbers
<1>3. own \in Seq(Blocks) /\ Len(own) = s.has
  BY <1>2, Numbers, Beginning DEF Ledger
<1>4. /\ t \in States /\ t.has <= Len(chain) /\ t.loaded
      /\ node'[Beacon] = node[Beacon] /\ node' \in [Nodes -> States]
  <2>1. CASE from = 0
    <3> DEFINE r == LoadFromLedger(own, now)
               u == [s EXCEPT !.check = r.check, !.config = TRUE, !.up = r.ok, !.loaded = TRUE]
    <3>1. node' = [node EXCEPT ![Miner] = u]
      BY <2>1 DEF RestartMiner, Loaded
    <3>2. r.check \in Checks /\ r.ok \in BOOLEAN
      BY <1>3, LoadType
    <3> HIDE DEF r
    <3>3. u \in States /\ u.has = s.has /\ u.loaded
      BY <1>2, <3>2 DEF States
    <3> HIDE DEF u
    <3>. QED BY <1>2, <3>1, <3>3
  <2>2. CASE from # 0
    <3> DEFINE has == IF Len(own) + 1 < from THEN from - 1 ELSE Len(own)
               u == [s EXCEPT !.has = has, !.check = Start(from), !.config = FALSE,
                              !.up = TRUE, !.loaded = TRUE]
    <3>1. node' = [node EXCEPT ![Miner] = u]
      <4>1. node' = [node EXCEPT ![Miner] =
                        IF from = 0 THEN Loaded(Miner, LoadFromLedger(own, now)) ELSE u]
        BY DEF RestartMiner
      <4> HIDE DEF u
      <4>. QED BY <2>2, <4>1
    <3>2. has \in Nat /\ has <= Len(chain) /\ Start(from) \in Checks
      BY <1>2, <1>3, <2>2 DEF Start, Checks
    <3> HIDE DEF has
    <3>3. u \in States /\ u.has = has /\ u.loaded
      BY <1>2, <3>2 DEF States
    <3> HIDE DEF u
    <3>. QED BY <1>2, <3>1, <3>2, <3>3
  <2>. QED BY <2>1, <2>2
<1>5. Base'
  <2>1. NotPrepared \in [slot : Nat, due : SUBSET Accounts] /\ NoBlock \in Blocks
    BY DEF NotPrepared, NoBlock, Blocks
  <2>2. Typed'
    BY <1>1, <1>4, <2>1 DEF Inv, Base, Typed
  <2>3. Within'
    BY <1>1, <1>4 DEF Inv, Base, Within, Nodes
  <2>4. Ordered'
    BY <1>1 DEF Inv, Base, Ordered, Time
  <2>. QED BY <2>2, <2>3, <2>4 DEF Base
<1>6. Ripe'
  BY <1>1, <1>4 DEF Inv, Ripe, NeedsCheckpoint, Start, Time
<1>7. JoinPoint'
  BY <1>1, <1>4, SameSaid DEF Inv, JoinPoint
<1>8. LiveRange'
  <2>1. ASSUME NEW n \in Nodes, SecondsApart, ~node'[n].loaded
        PROVE  Said(chain, 0, node'[n].check.current)
                   \subseteq Said(chain, node'[n].check.last, node'[n].check.current)
    BY <1>4, <2>1 DEF Inv, LiveRange, Nodes
  <2>. QED BY <1>1, <2>1, SameSaid DEF LiveRange
<1>9. ByBlocks'
  BY <1>1, SameRule DEF Inv, ByBlocks, NotPrepared
<1>. QED BY <1>5, <1>6, <1>7, <1>8, <1>9 DEF Inv

\* Every step keeps the invariant.
LEMMA StepKeeps ==
    ASSUME Inv, [Next]_vars
    PROVE  Inv'
<1>1. CASE UNCHANGED vars
  <2>1. UNCHANGED <<now, minAge, chain, node, prepared, produced, sending>>
    BY <1>1 DEF vars
  <2>2. Base' /\ Ripe'
    BY <2>1 DEF Inv, Base, Typed, Within, Ordered, Ripe, NeedsCheckpoint, Start, Time
  <2>3. JoinPoint' /\ LiveRange'
    BY <2>1, SameRanges
  <2>4. ByBlocks'
    BY <2>1, SameRule DEF Inv, ByBlocks
  <2>. QED BY <2>2, <2>3, <2>4 DEF Inv
<1>2. CASE Tick
  BY <1>2, TickKeeps
<1>3. CASE Prepare
  BY <1>3, PrepareKeeps
<1>4. CASE ProduceBlock
  BY <1>4, ProduceBlockKeeps
<1>5. CASE HBlockAdd
  BY <1>5, HBlockAddBase, HBlockAddRanges, HBlockAddRule DEF Inv
<1>6. CASE BlockLost
  BY <1>6, BlockLostKeeps
<1>7. CASE AddBlock
  BY <1>7, AddBlockKeeps
<1>8. CASE RestartBeacon
  BY <1>8, RestartBeaconKeeps
<1>9. CASE RestartMiner
  BY <1>9, RestartMinerKeeps
<1>. QED BY <1>1, <1>2, <1>3, <1>4, <1>5, <1>6, <1>7, <1>8, <1>9 DEF Next

----------------------------------------------------------------------------
(* The theorems.                                                           *)

\* The types, the order of the blocks, and the four parts of the argument hold
\* for every choice of the constants.
THEOREM CheckpointsInvariant == Spec => []Inv
<1>1. Init => Inv
  BY Begins
<1>2. Inv /\ [Next]_vars => Inv'
  BY StepKeeps
<1>. QED BY <1>1, <1>2, PTL DEF Spec

\* A range that tells what was told before it tells all there is.
LEMMA RangeWhole ==
    ASSUME NEW L, NEW from \in Nat, NEW to, Said(L, 0, to) \subseteq Said(L, from, to)
    PROVE  Said(L, 0, to) = Said(L, from, to)
BY DEF Said

\* Whoever joins at the checkpoint a running beacon names meets every account in
\* the blocks from there on, where no two blocks are of the same second.
THEOREM JoinersAreTold == Spec => []JoinPointRestores
<1>1. Inv => JoinPointRestores
  <2> SUFFICES ASSUME Inv, SecondsApart, node[Beacon].up
               PROVE  Said(chain, 0, Len(chain)) = Said(chain, node[Beacon].check.last, Len(chain))
    BY DEF JoinPointRestores, JoinPointTold
  <2>1. node[Beacon].check.last \in Nat
    BY Numbers
  <2>. QED BY <2>1, RangeWhole DEF Inv, JoinPoint
<1>. QED BY <1>1, CheckpointsInvariant, PTL

\* The blocks between the two checkpoints of a node that has run since genesis
\* say every account there was (design.md:69), where no two blocks are of the
\* same second.
THEOREM LiveRangesRestore == Spec => []LiveRangeRestores
<1>1. Inv => LiveRangeRestores
  <2> SUFFICES ASSUME Inv, SecondsApart, NEW n \in Nodes, ~node[n].loaded
               PROVE  Said(chain, 0, node[n].check.current)
                          = Said(chain, node[n].check.last, node[n].check.current)
    BY DEF LiveRangeRestores, RangeRestoresAt
  <2>1. node[n].check.last \in Nat
    BY Numbers
  <2>. QED BY <2>1, RangeWhole DEF Inv, LiveRange
<1>. QED BY <1>1, CheckpointsInvariant, PTL

\* Where the age is no part of the rule, the block of the leader is accepted, and
\* again by the miner when it adds it and by every load of the ledger.
THEOREM BlocksJudgedAlike == Spec => []JudgedAlikeByBlocks
<1>1. Inv => JudgedAlikeByBlocks
  <2> SUFFICES ASSUME Inv, minAge = 0
               PROVE  JudgedAlike /\ (sending # NoBlock => Judged(Beacon, sending))
    BY DEF JudgedAlikeByBlocks
  <2>1. chain \in Seq(Blocks) /\ Len(chain) \in Nat /\ DOMAIN chain = 1 .. Len(chain)
    BY Numbers, LenProperties
  <2>2. ASSUME NEW L, NEW i \in 1 .. Len(chain), Alike(L, chain, i - 1)
        PROVE  ValidRenewals(L, now, i, chain[i])
    <3>1. ValidRenewals(chain, 0, i, chain[i]) /\ i \in Nat \ {0}
      BY <2>1 DEF Inv, ByBlocks
    <3>. QED BY <2>2, <3>1, Timeless
  <2>3. LoadFromLedger(chain, now).ok
    <3>1. \A i \in 1 .. Len(chain) : ValidRenewals(chain, now, i, chain[i])
      BY <2>2 DEF Alike
    <3>. QED BY <2>1, <3>1 DEF LoadFromLedger
  <2>4. ASSUME node[Miner].has < Len(chain) PROVE Judged(Miner, chain[node[Miner].has + 1])
    <3> DEFINE i == node[Miner].has + 1
    <3>1. i \in 1 .. Len(chain) /\ i - 1 \in 0 .. Len(chain) /\ i - 1 = node[Miner].has
      BY <2>4, Numbers
    <3>2. Alike(Ledger(Miner), chain, i - 1)
      BY <2>1, <3>1, Beginning DEF Ledger
    <3> HIDE DEF i
    <3>3. ValidRenewals(Ledger(Miner), now, i, chain[i])
      BY <2>2, <3>1, <3>2
    <3>. QED BY <3>3 DEF Judged, i
  <2>5. ASSUME sending # NoBlock PROVE Judged(Beacon, sending)
    <3> DEFINE i == Len(chain) + 1
    <3>1. i \in 1 .. Len(chain) + 1 /\ i \in Nat \ {0} /\ minAge \in Nat
      BY <2>1, Numbers
    <3>2. Ledger(Beacon) = chain /\ node[Beacon].has = Len(chain)
      BY <2>1, Beginning DEF Inv, Base, Within, Ledger
    <3>3. sending.renewed = Due(chain, 0, i)
      BY <2>5 DEF Inv, ByBlocks
    <3> HIDE DEF i
    <3>4. ValidRenewals(chain, 0, i, sending)
      BY <2>1, <3>1, <3>3, DueIsValid DEF i
    <3>5. ValidRenewals(chain, now, i, sending)
      BY <3>1, <3>4, Timeless DEF Alike
    <3>. QED BY <3>2, <3>5 DEF Judged, i
  <2>. QED BY <2>3, <2>4, <2>5 DEF JudgedAlike
<1>. QED BY <1>1, CheckpointsInvariant, PTL

\* The checkpoint joiners are told of never goes back, a restart of the beacon
\* included.
THEOREM JoinersGoForward == Spec => JoinPointForward
<1>1. ASSUME Inv, [Next]_vars
      PROVE  node'[Beacon].check.last >= node[Beacon].check.last
  <2>0. node[Beacon].check.last \in Nat /\ node[Beacon].check.last <= node[Beacon].check.current
    BY <1>1, Numbers DEF Inv, Base, Within
  <2>1. CASE node'[Beacon] = node[Beacon]
    BY <2>0, <2>1
  <2>2. CASE HBlockAdd
    <3>1. /\ node'[Beacon].check = Rotate(chain, now, node[Beacon].check, Len(chain) + 1, Len(chain) + 1)
          /\ \/ node'[Beacon].check = node[Beacon].check
             \/ node'[Beacon].check = [last |-> node[Beacon].check.current, current |-> Len(chain) + 1]
      BY <1>1, <2>2, HBlockAddShape
    <3>. QED BY <2>0, <3>1
  <2>3. CASE RestartBeacon
    BY <1>1, <2>3, RestartBeaconKeeps
  <2>4. ASSUME AddBlock \/ RestartMiner PROVE node'[Beacon] = node[Beacon]
    <3>1. node \in [Nodes -> States] /\ Beacon \in Nodes /\ Beacon # Miner
      BY <1>1, Numbers
    <3>. QED BY <2>4, <3>1 DEF AddBlock, RestartMiner
  <2>5. ASSUME Tick \/ Prepare \/ ProduceBlock \/ BlockLost \/ UNCHANGED vars
        PROVE  node'[Beacon] = node[Beacon]
    BY <2>5 DEF Tick, Prepare, ProduceBlock, BlockLost, vars
  <2>. QED BY <1>1, <2>1, <2>2, <2>3, <2>4, <2>5 DEF Next
<1>2. Inv /\ [Next]_vars
          => [node'[Beacon].up => node'[Beacon].check.last >= node[Beacon].check.last]_vars
  BY <1>1
<1>. QED BY <1>2, CheckpointsInvariant, PTL DEF Spec, JoinPointForward
=============================================================================
