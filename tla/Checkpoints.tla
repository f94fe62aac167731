----------------------------- MODULE Checkpoints -----------------------------
(***************************************************************************)
(* Checkpoints (Chain::checkpoint) and the renewals that are to make them  *)
(* good: an account whose last snapshot is old, in blocks and in seconds,  *)
(* is said again in the next block, and a checkpoint moves on to a block   *)
(* when the one it is at is old in both.                                   *)
(*                                                                         *)
(* Both take the time from the clock of the node, whenever it judges the   *)
(* block: on the way to the beacon, at a miner that adds it later, or when *)
(* a node loads its ledger.  A load also sees the whole ledger where the   *)
(* node had the blocks before this one only.                               *)
(*                                                                         *)
(* One miner leads all slots and has what the beacon has when it makes a   *)
(* block (BlockFlow says what happens otherwise).  What a snapshot says,   *)
(* and the end of accounts, are in module Bank.                            *)
(***************************************************************************)
EXTENDS Integers, Sequences, SequencesExt, FiniteSetsExt

CONSTANTS Beacon, Miner,
          Founders,      \* accounts of the genesis block
          Updates,       \* sets of accounts clients have registered or updated
          MinBlocks,     \* CheckpointConfig::minBlocks
          Ages,          \* what CheckpointConfig::minAgeSeconds may be
          SlotsPerEpoch, \* the margin of needsCheckpoint
          SlotDuration,
          MaxTime,       \* bound: seconds
          MaxHeight,     \* bound: blocks
          MaxRestarts    \* bound: restarts of nodes

\* A window of one block never has an account renewed: its bound is the block itself.
ASSUME CheckpointAssumption ==
    /\ Beacon # Miner
    /\ MinBlocks \in Nat \ {0, 1}
    /\ Ages \subseteq Nat
    /\ {SlotsPerEpoch, SlotDuration} \subseteq Nat \ {0}
    /\ {MaxTime, MaxHeight, MaxRestarts} \subseteq Nat

Nodes == {Beacon, Miner}

VARIABLES now,      \* seconds since genesis, the same at all nodes
          minAge,   \* minAgeSeconds of the genesis block
          chain,    \* the beacon's blocks after block 0
          node,     \* node -> what it has of the chain, and its checkpoint
          prepared, \* the miner's slotCache_
          produced, \* its lastProducedSlot_
          sending,  \* the block it is sending, or NoBlock
          restarts

vars == <<now, minAge, chain, node, prepared, produced, sending, restarts>>

NoBlock == [time |-> 0, renewed |-> {}, updated |-> {}]
NotPrepared == [slot |-> 0, due |-> {}]

Slot == now \div SlotDuration
LastSecond == (now + 1) % SlotDuration = 0

----------------------------------------------------------------------------
(* What a ledger L, a sequence of blocks from block 1 on, says.            *)

Time(L, i) == IF i = 0 THEN 0 ELSE L[i].time

\* The accounts block i says in full.
Snapshots(L, i) == IF i = 0 THEN Founders ELSE L[i].renewed \cup L[i].updated

Said(L, from, to) == UNION {Snapshots(L, i) : i \in from .. to}

\* The block of the last snapshot of an account among the blocks up to n.
BlockId(L, n, a) == Max({i \in 0 .. n : a \in Snapshots(L, i)})

\* Mistake: the bound is counted from the end of the ledger.
MaxBlockIdFromEnd(L, time, i) ==
    LET last == Len(L) + 1 IN
    IF last < MinBlocks THEN 0 ELSE last - MinBlocks + 1

\* Block i, judged at `time` by a node with ledger L, has to say the accounts
\* whose last snapshot is before this block; 0 asks for none.
MaxBlockIdForRenewal(L, time, i) ==
    LET since    == {j \in 0 .. Len(L) : Time(L, j) >= time - minAge}
        fromTime == IF minAge = 0 \/ since = {} THEN i ELSE Min(since)
        bound    == Min({i - MinBlocks + 1, fromTime})
    IN  IF i < MinBlocks \/ bound >= i THEN 0 ELSE bound

\* The accounts block i has to renew.
Due(L, time, i) ==
    {a \in Said(L, 0, i - 1) : BlockId(L, i - 1, a) < MaxBlockIdForRenewal(L, time, i)}

\* validateAccountRenewals: none too early, none missing.
ValidRenewals(L, time, i, b) ==
    LET bound == MaxBlockIdForRenewal(L, time, i) IN
    /\ b.renewed \subseteq Said(L, 0, i - 1)
    /\ bound > 0 => \A a \in b.renewed : BlockId(L, i - 1, a) <= bound
    /\ Due(L, time, i) \subseteq b.renewed

\* Mistake: the age is not waited for.
NeedsCheckpointByBlocks(L, time, check, nextBlockId) ==
    nextBlockId >= check.current + MinBlocks + SlotsPerEpoch

NeedsCheckpoint(L, time, check, nextBlockId) ==
    /\ nextBlockId >= check.current + MinBlocks + SlotsPerEpoch
    /\ time - Time(L, check.current) >= minAge

\* Mistake: the checkpoint is moved before it is remembered.
RotatedTwice(check, i) == [last |-> i, current |-> i]

Rotated(check, i) == [last |-> check.current, current |-> i]

\* The checkpoint after block i; the ledger reaches up to nextBlockId.
Rotate(L, time, check, i, nextBlockId) ==
    IF NeedsCheckpoint(L, time, check, nextBlockId) /\ i > check.current
    THEN Rotated(check, i) ELSE check

Start(id) == [last |-> id, current |-> id]

\* Mistake: a load does not rotate the checkpoint.
LoadUnrotated(L, time) ==
    [ok |-> \A i \in DOMAIN L : ValidRenewals(L, time, i, L[i]), check |-> Start(0)]

\* loadFromLedger(0): strict, the ledger mounted as a whole.
LoadFromLedger(L, time) ==
    [ok    |-> \A i \in DOMAIN L : ValidRenewals(L, time, i, L[i]),
     check |-> FoldLeft(LAMBDA check, i : Rotate(L, time, check, i, Len(L) + 1),
                        Start(0), [i \in DOMAIN L |-> i])]

----------------------------------------------------------------------------

Init ==
    /\ now = 0
    /\ minAge \in Ages
    /\ chain = <<>>
    /\ node = [n \in Nodes |-> [has |-> 0, check |-> Start(0), config |-> TRUE,
                                up |-> TRUE, loaded |-> FALSE]]
    /\ prepared = NotPrepared
    /\ produced = 0
    /\ sending = NoBlock
    /\ restarts = 0

Ledger(n) == SubSeq(chain, 1, node[n].has)

Tick ==
    /\ now < MaxTime
    /\ now' = now + 1
    /\ UNCHANGED <<minAge, chain, node, prepared, produced, sending, restarts>>

\* The miner has a configuration and the beacon's blocks, and is not sending.
Ready ==
    /\ node[Miner].up /\ node[Miner].config
    /\ node[Miner].has = Len(chain)
    /\ sending = NoBlock
    /\ produced # Slot

\* At some time in its slot the leader collects the renewals (initSlotCache).
Prepare ==
    /\ Ready
    /\ prepared.slot # Slot
    /\ prepared' = [slot |-> Slot, due |-> Due(chain, now, Len(chain) + 1)]
    /\ UNCHANGED <<now, minAge, chain, node, produced, sending, restarts>>

\* In its last second it makes a block of them and of what clients sent.
ProduceBlock ==
    /\ Ready
    /\ prepared.slot = Slot
    /\ LastSecond
    /\ Len(chain) < MaxHeight
    /\ \E updated \in Updates \cup {{}} :
           /\ prepared.due \cup updated # {}
           /\ sending' = [time |-> now, renewed |-> prepared.due, updated |-> updated]
    /\ UNCHANGED <<now, minAge, chain, node, prepared, produced, restarts>>

Judged(n, b) ==
    LET i == node[n].has + 1 IN
    node[n].config => ValidRenewals(Ledger(n), now, i, b)

\* The node after it has added its next block; without a configuration its
\* checkpoint stays.
Added(n) ==
    LET i == node[n].has + 1 IN
    [node[n] EXCEPT !.has = i,
                    !.check = IF node[n].config THEN Rotate(Ledger(n), now, @, i, i) ELSE @]

\* The beacon adds the block; the miner notes the slot.
HBlockAdd ==
    /\ sending # NoBlock
    /\ node[Beacon].up
    /\ Judged(Beacon, sending)
    /\ chain' = Append(chain, sending)
    /\ node' = [node EXCEPT ![Beacon] = Added(Beacon)]
    /\ produced' = sending.time \div SlotDuration
    /\ sending' = NoBlock
    /\ UNCHANGED <<now, minAge, prepared, restarts>>

\* The beacon refuses the block, or is not there: it is gone.
BlockLost ==
    /\ sending # NoBlock
    /\ ~node[Beacon].up \/ ~Judged(Beacon, sending)
    /\ sending' = NoBlock
    /\ UNCHANGED <<now, minAge, chain, node, prepared, produced, restarts>>

\* The miner adds its own block, or one it fetches.
AddBlock ==
    /\ node[Miner].up
    /\ node[Miner].has < Len(chain)
    /\ Judged(Miner, chain[node[Miner].has + 1])
    /\ node' = [node EXCEPT ![Miner] = Added(Miner)]
    /\ UNCHANGED <<now, minAge, chain, prepared, produced, sending, restarts>>

Loaded(n, r) == [node[n] EXCEPT !.check = r.check, !.config = TRUE,
                                !.up = r.ok, !.loaded = TRUE]

\* The beacon always loads its ledger from block 0 (Beacon::mount).
RestartBeacon ==
    /\ restarts < MaxRestarts
    /\ restarts' = restarts + 1
    /\ node' = [node EXCEPT ![Beacon] = Loaded(Beacon, LoadFromLedger(chain, now))]
    /\ UNCHANGED <<now, minAge, chain, prepared, produced, sending>>

\* A miner loads its ledger from the beacon's last checkpoint on; from any but
\* block 0 it loads loosely and meets no configuration, and a ledger that ends
\* before it is removed.
RestartMiner ==
    LET from == node[Beacon].check.last
        own  == Ledger(Miner)
    IN  /\ restarts < MaxRestarts
        /\ restarts' = restarts + 1
        /\ node[Beacon].up
        /\ node' = [node EXCEPT ![Miner] =
               IF from = 0 THEN Loaded(Miner, LoadFromLedger(own, now))
               ELSE [@ EXCEPT !.has = IF Len(own) + 1 < from THEN from - 1 ELSE Len(own),
                              !.check = Start(from), !.config = FALSE,
                              !.up = TRUE, !.loaded = TRUE]]
        /\ prepared' = NotPrepared
        /\ produced' = 0
        /\ sending' = NoBlock
        /\ UNCHANGED <<now, minAge, chain>>

Next ==
    \/ Tick \/ Prepare \/ ProduceBlock \/ HBlockAdd \/ BlockLost \/ AddBlock
    \/ RestartBeacon \/ RestartMiner

Spec == Init /\ [][Next]_vars

----------------------------------------------------------------------------
(* Properties.                                                             *)

\* No two blocks are of the same second, or the age is no part of the rule.  A
\* miner that restarts in the last second of its slot makes a second block in it.
SecondsApart ==
    minAge = 0 \/ \A i \in 1 .. Len(chain) : Time(chain, i - 1) < Time(chain, i)

\* Whoever starts at the checkpoint a running beacon tells joiners of is told
\* every account the beacon has by the blocks from there on
\* (BeaconServer.cpp:598), whenever the beacon was restarted.
JoinPointTold ==
    node[Beacon].up =>
        Said(chain, 0, Len(chain)) = Said(chain, node[Beacon].check.last, Len(chain))

\* It takes blocks of different seconds: the search for the first block young
\* enough also finds the block before the checkpoint, if that is as young.
JoinPointRestores == SecondsApart => JoinPointTold

\* The checkpoint joiners are told of never goes back.
JoinPointForward ==
    [][ node'[Beacon].up => node'[Beacon].check.last >= node[Beacon].check.last ]_vars

\* The blocks between the two checkpoints of a node say every account there was
\* at the second one.
RangeRestoresAt(n) ==
    LET c == node[n].check IN
    node[n].config => Said(chain, 0, c.current) = Said(chain, c.last, c.current)

\* design.md:69: a checkpoint guarantees that every account can be reconstructed
\* from the blocks between it and the one before. True of a node that has not
\* loaded its ledger since genesis, where blocks are of different seconds.
LiveRangeRestores ==
    SecondsApart => \A n \in Nodes : ~node[n].loaded => RangeRestoresAt(n)

RangeRestores == \A n \in Nodes : node[n].up => RangeRestoresAt(n)

\* A block that was accepted once is accepted whenever and wherever it is judged
\* again: by the miner when it adds it, and by a node that loads its ledger.
JudgedAlike ==
    /\ LoadFromLedger(chain, now).ok
    /\ node[Miner].has < Len(chain) => Judged(Miner, chain[node[Miner].has + 1])

\* and the block of the leader is accepted at all; true where the age is no part
\* of the rule.
JudgedAlikeByBlocks ==
    minAge = 0 => JudgedAlike /\ (sending # NoBlock => Judged(Beacon, sending))
=============================================================================
