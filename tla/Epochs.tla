------------------------------- MODULE Epochs -------------------------------
(***************************************************************************)
(* Who leads a slot (Ouroboros, and the stakeholders Chain gives it). A    *)
(* node takes the stakes of its own bank when its clock enters an epoch    *)
(* and judges every block by them; a node that loads its ledger takes them *)
(* when a block is the first of its epoch. The leaders a chain was built   *)
(* with are right only if these agree.                                     *)
(*                                                                         *)
(* A block carries one payment. Chains start at block 0 and have no        *)
(* checkpoint, so validation is strict. A leader makes its block on the    *)
(* chain the beacon has, and one block is on its way at a time: module     *)
(* BlockFlow says what happens where that is not so.                       *)
(***************************************************************************)
EXTENDS Integers, SequencesExt

CONSTANTS Beacon,
          Miners,            \* ids of the accounts whose owners run a miner
          Accounts,          \* ids of accounts
          Genesis,           \* account -> its stake after block 0
          Payments,          \* what a block may do: [from, to, amount]
          Hash,              \* slot -> the number hashSlotAndEpoch yields
          MaxLeaderPoolSize, \* kMaxLeaderPoolSize
          SlotsPerEpoch,
          Faults,            \* a subset of {"late", "down"}
          MaxSlot,           \* bound: slots
          MaxRestarts        \* bound: stops and restarts

ASSUME EpochAssumption ==
    /\ Miners \subseteq Accounts
    /\ Accounts \subseteq Nat \ {0}
    /\ Beacon \notin Accounts
    /\ Genesis \in [Accounts -> Nat]
    /\ \A p \in Payments : p.from \in Accounts /\ p.to \in Accounts \ {p.from}
    /\ MaxLeaderPoolSize \in Nat \ {0}
    /\ SlotsPerEpoch \in Nat \ {0}
    /\ MaxSlot \in Nat
    /\ Hash \in [0 .. MaxSlot + 1 -> Nat]
    /\ Faults \subseteq {"late", "down"}

Nodes == Miners \cup {Beacon}

VARIABLES slot,     \* the current slot, the same at all nodes
          ledger,   \* node -> the blocks of its ledger after block 0
          view,     \* node -> the cache of its Ouroboros
          synced,   \* miner -> lastSyncedEpoch_
          produced, \* miner -> lastProducedSlot_
          sending,  \* the block a miner is sending, or NoBlock
          up,       \* the nodes that run
          restarts

vars == <<slot, ledger, view, synced, produced, sending, up, restarts>>

NoBlock == [slot |-> 0, leader |-> 0, pay |-> [from |-> 0, to |-> 0, amount |-> 0]]

Epoch(s) == s \div SlotsPerEpoch

----------------------------------------------------------------------------

Paid(stakes, p) == [stakes EXCEPT ![p.from] = @ - p.amount, ![p.to] = @ + p.amount]

\* The native balances of the bank that has processed L.
Stakes(L) == FoldLeft(LAMBDA stakes, b : Paid(stakes, b.pay), Genesis, L)

\* getEligibleLeaderPool: the largest stakes first, equal ones by id.
Holders(stakes) == {a \in Accounts : stakes[a] > 0}
Before(stakes, a, b) == \/ stakes[a] > stakes[b]
                        \/ stakes[a] = stakes[b] /\ a < b
Position(stakes, a) == Cardinality({b \in Holders(stakes) : Before(stakes, b, a)})
PoolSize(stakes) == LET n == Cardinality(Holders(stakes))
                    IN  IF n < MaxLeaderPoolSize THEN n ELSE MaxLeaderPoolSize

\* The leader of a slot; 0 if nobody has a stake.
SelectSlotLeader(stakes, s) ==
    IF Holders(stakes) = {} THEN 0
    ELSE CHOOSE a \in Holders(stakes) :
            Position(stakes, a) = Hash[s] % PoolSize(stakes)

\* Before stakeholders are set for the first time, there are none.
NoView == [epoch |-> -1, stakes |-> [a \in Accounts |-> 0]]

\* Mistake: stakeholders are set once.
RefreshedOnce(v, e, L) ==
    [epoch |-> e, stakes |-> IF v.epoch # -1 THEN v.stakes ELSE Stakes(L)]

RefreshStakeholders(v, e, L) ==
    IF v.epoch = e THEN v ELSE [epoch |-> e, stakes |-> Stakes(L)]

ValidSlotLeader(v, b) == SelectSlotLeader(v.stakes, b.slot) = b.leader

\* Blocks added one by one; the first that is refused ends the sync. The
\* stakeholders are not refreshed in between.
Accepted(v, blocks) ==
    LET ok(n) == \A i \in 1 .. n : ValidSlotLeader(v, blocks[i])
    IN  SubSeq(blocks, 1, Cardinality({n \in 1 .. Len(blocks) : ok(n)}))

\* Mistake: stakeholders are refreshed after the block.
LoadLate(L) ==
    FoldLeft(LAMBDA r, i :
                IF ~r.ok THEN r
                ELSE [ok   |-> i = 1 \/ ValidSlotLeader(r.view, L[i]),
                      view |-> RefreshStakeholders(r.view, Epoch(L[i].slot),
                                                   SubSeq(L, 1, i))],
             [ok |-> TRUE, view |-> NoView], [i \in DOMAIN L |-> i])

\* loadFromLedger: before each block, the stakes of its epoch, from the bank as
\* the blocks before it left it.
LoadFromLedger(L) ==
    FoldLeft(LAMBDA r, i :
                LET v == RefreshStakeholders(r.view, Epoch(L[i].slot),
                                             SubSeq(L, 1, i - 1))
                IN  IF r.ok THEN [ok |-> ValidSlotLeader(v, L[i]), view |-> v]
                            ELSE r,
             [ok |-> TRUE, view |-> NoView], [i \in DOMAIN L |-> i])

----------------------------------------------------------------------------

Init ==
    /\ slot = 0
    /\ ledger = [n \in Nodes |-> <<>>]
    /\ view = [n \in Nodes |-> NoView]
    /\ synced = [m \in Miners |-> 0]
    /\ produced = [m \in Miners |-> 0]
    /\ sending = NoBlock
    /\ up = Nodes
    /\ restarts = 0

Busy(n) == sending # NoBlock /\ sending.leader = n
Free(n) == n \in up /\ ~Busy(n)

\* Its loop came round since the epoch began, refresh being the first call.
Current(n) == Free(n) /\ view[n].epoch = Epoch(slot)

\* A slot is long against the loop of a free node, and against a call unless
\* one is "late". A node that was stopped is back before the epoch ends, unless
\* nodes may be "down".
Tick ==
    /\ slot < MaxSlot
    /\ \A n \in up : Busy(n) \/ Current(n)
    /\ "late" \in Faults \/ sending = NoBlock
    /\ "down" \in Faults \/ up = Nodes \/ Epoch(slot + 1) = Epoch(slot)
    /\ slot' = slot + 1
    /\ UNCHANGED <<ledger, view, synced, produced, sending, up, restarts>>

Refresh(n) ==
    /\ Free(n)
    /\ ~Current(n)
    /\ view' = [view EXCEPT ![n] = RefreshStakeholders(@, Epoch(slot), ledger[n])]
    /\ UNCHANGED <<slot, ledger, synced, produced, sending, up, restarts>>

ProduceBlock(m, p) ==
    /\ Current(m)
    /\ sending = NoBlock
    /\ ledger[m] = ledger[Beacon]
    /\ SelectSlotLeader(view[m].stakes, slot) = m
    /\ produced[m] < slot
    /\ Stakes(ledger[m])[p.from] >= p.amount
    /\ sending' = [slot |-> slot, leader |-> m, pay |-> p]
    /\ UNCHANGED <<slot, ledger, view, synced, produced, up, restarts>>

\* The call is lost, or the beacon refuses the block: the pool is empty by now
\* and nothing is left of it.
BlockLost ==
    /\ sending # NoBlock
    /\ Current(Beacon) => ~ValidSlotLeader(view[Beacon], sending)
    /\ sending' = NoBlock
    /\ UNCHANGED <<slot, ledger, view, synced, produced, up, restarts>>

\* The beacon adds the block, then its maker does.
AddBlock ==
    /\ sending # NoBlock
    /\ Current(Beacon)
    /\ ValidSlotLeader(view[Beacon], sending)
    /\ LET adds == {n \in {Beacon, sending.leader} : ValidSlotLeader(view[n], sending)}
       IN  ledger' = [n \in Nodes |-> IF n \in adds THEN Append(ledger[n], sending)
                                      ELSE ledger[n]]
    /\ produced' = [produced EXCEPT ![sending.leader] = sending.slot]
    /\ sending' = NoBlock
    /\ UNCHANGED <<slot, view, synced, up, restarts>>

Missing(n) == SubSeq(ledger[Beacon], Len(ledger[n]) + 1, Len(ledger[Beacon]))

\* At the start of an epoch, and before a slot the miner leads.
SyncDue(m) == \/ synced[m] < Epoch(slot)
              \/ SelectSlotLeader(view[m].stakes, slot + 1) = m

SyncBlocks(m) ==
    /\ Current(m)
    /\ Beacon \in up
    /\ SyncDue(m)
    /\ LET got == Accepted(view[m], Missing(m))
       IN  /\ ledger' = [ledger EXCEPT ![m] = @ \o got]
           /\ synced' = IF got = Missing(m)
                        THEN [synced EXCEPT ![m] = Epoch(slot)] ELSE synced
    /\ UNCHANGED <<slot, view, produced, sending, up, restarts>>

\* What a node that starts ends up with: it loads its ledger and fetches what it
\* misses before its loop, and refresh, runs.
Start(n) ==
    LET load == LoadFromLedger(ledger[n])
        got  == IF load.ok THEN Accepted(load.view, Missing(n)) ELSE <<>>
    IN  [ok |-> load.ok /\ got = Missing(n), got |-> got, view |-> load.view]

Restart(n) ==
    /\ n \notin up \/ Free(n)
    /\ n \in up => restarts < MaxRestarts
    /\ n # Beacon => Beacon \in up
    /\ Start(n).ok
    /\ ledger' = [ledger EXCEPT ![n] = @ \o Start(n).got]
    /\ view' = [view EXCEPT ![n] = Start(n).view]
    /\ synced' = [m \in Miners |-> IF m = n THEN Epoch(slot) ELSE synced[m]]
    /\ produced' = [m \in Miners |-> IF m = n THEN 0 ELSE produced[m]]
    /\ up' = up \cup {n}
    /\ restarts' = IF n \in up THEN restarts + 1 ELSE restarts
    /\ UNCHANGED <<slot, sending>>

\* The node stays away for a while.
Stop(n) ==
    /\ Free(n)
    /\ restarts < MaxRestarts
    /\ up' = up \ {n}
    /\ restarts' = restarts + 1
    /\ UNCHANGED <<slot, ledger, view, synced, produced, sending>>

Next ==
    \/ Tick
    \/ \E n \in Nodes : Refresh(n) \/ Restart(n) \/ Stop(n)
    \/ \E m \in Miners, p \in Payments : ProduceBlock(m, p)
    \/ BlockLost
    \/ AddBlock
    \/ \E m \in Miners : SyncBlocks(m)

Spec == Init /\ [][Next]_vars

----------------------------------------------------------------------------

\* The ledger up to its last block of an epoch before e.
Earlier(L, e) ==
    SubSeq(L, 1, Max({i \in 0 .. Len(L) : i = 0 \/ Epoch(L[i].slot) < e}))

\* Whoever reads a ledger can tell who had to lead each of its slots: the stakes
\* that count are those after the last block of the epochs before. Nothing in
\* the code says so at one place: the nodes take stakes by their clocks.
LeadersByLedger ==
    \A n \in Nodes : \A b \in Range(ledger[n]) :
        b.leader = SelectSlotLeader(Stakes(Earlier(ledger[n], Epoch(b.slot))), b.slot)

\* A node may be stopped and started at any time: it accepts its own ledger
\* again and what the beacon has beyond it.
CanStart == \A n \in Nodes : Beacon \in up => Start(n).ok

\* Nodes that are in the same epoch have the same leaders, however often they
\* were restarted on the way.
SameView ==
    \A n, k \in up : view[n].epoch = view[k].epoch => view[n] = view[k]

\* A miner that has synced in an epoch has the stakes the beacon has for it.
SyncUpdatesStakes ==
    \A m \in Miners :
        Current(m) /\ Current(Beacon) /\ synced[m] = Epoch(slot) => view[m] = view[Beacon]
=============================================================================
