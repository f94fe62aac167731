------------------------------ MODULE BlockFlow ------------------------------
(***************************************************************************)
(* How transactions become blocks and blocks reach the nodes: miners take  *)
(* transactions, pass them to the slot leader, the leader makes a block    *)
(* and sends it to the beacons and relays of its list, a relay passes it   *)
(* to the beacon, and every node but the beacon fetches what it misses.    *)
(*                                                                         *)
(* Each server handles requests and its own periodic work in one thread,   *)
(* so a handler is one step; sending a block is a step per recipient, for  *)
(* the sender waits for each while the others go on.                       *)
(***************************************************************************)
EXTENDS NodeChain, FiniteSets

CONSTANTS Beacon, Relay,
          Upstreams,   \* the "beacons" list of the miners' configuration
          Faults,      \* what the network may do, a subset of
                       \* {"drop", "lostAck", "lostBlockAck", "late"}
          MaxSubmits,  \* bound: times a client submits a transaction
          MaxRestarts  \* bound: restarts of nodes

\* The beacon, the relay and the miners are servers of their own.
ASSUME FlowAssumption ==
    /\ Beacon # Relay
    /\ {Beacon, Relay} \cap Miners = {}
    /\ Upstreams \in Seq({Beacon, Relay})
    /\ Upstreams # <<>>
    /\ Faults \subseteq {"drop", "lostAck", "lostBlockAck", "late"}
    /\ MaxSubmits \in Nat
    /\ MaxRestarts \in Nat

Nodes == Miners \cup {Beacon, Relay}

VARIABLES slot,      \* the current slot, the same at all nodes (calibration)
          up,        \* the nodes that run
          chain,     \* node -> its chain_
          pool,      \* miner -> pendingTxes_
          cache,     \* miner -> forwardCache_
          prepared,  \* miner -> slotCache_.slot
          produced,  \* miner -> lastProducedSlot_
          retried,   \* miner -> lastForwardRetrySlot_
          sending,   \* miner -> the block broadcastBlock is sending
          accepted,  \* transactions a client was told are accepted
          submits,   \* transaction -> times it was submitted
          restarts

minerVars  == <<pool, cache, prepared, produced, retried, sending>>
clientVars == <<accepted, submits>>
vars == <<slot, up, chain, minerVars, clientVars, restarts>>

Idle == [block |-> GenesisBlock, left |-> <<>>, ok |-> FALSE]

Init ==
    /\ slot = 1
    /\ up = Nodes
    /\ chain = [n \in Nodes |-> GenesisChain]
    /\ pool = [m \in Miners |-> <<>>]
    /\ cache = [m \in Miners |-> <<>>]
    /\ prepared = [m \in Miners |-> 0]
    /\ produced = [m \in Miners |-> 0]
    /\ retried = [m \in Miners |-> 0]
    /\ sending = [m \in Miners |-> Idle]
    /\ accepted = {}
    /\ submits = [t \in Txs |-> 0]
    /\ restarts = 0

\* A miner's thread is free: it runs and is not waiting for a recipient.
Free(m) == m \in up /\ sending[m] = Idle

IsSlotLeader(m) == Leader[slot] = m

\* A slot outlasts the calls made in it, unless one is "late".
Tick ==
    /\ slot < MaxSlot
    /\ "late" \in Faults \/ \A m \in Miners : sending[m] = Idle
    /\ slot' = slot + 1
    /\ UNCHANGED <<up, chain, minerVars, clientVars, restarts>>

----------------------------------------------------------------------------
(* Transactions.                                                           *)

\* The members of a sequence that are in S, in their order.
Only(s, S) == FoldLeft(LAMBDA kept, t : IF t \in S THEN Append(kept, t) ELSE kept, <<>>, s)

\* Does the buffer of m take t now (Miner::addTransaction)?
Fresh(m, t) == ~SpentBefore(chain[m].ledger, t, slot)

\* The leader takes t into its pool; the client hears of it, or does not.
Pooled(t) ==
    /\ Free(Leader[slot])
    /\ Fresh(Leader[slot], t)
    /\ pool' = [pool EXCEPT ![Leader[slot]] = Append(@, t)]
    /\ \/ accepted' = accepted \cup {t}
       \/ "lostAck" \in Faults /\ UNCHANGED accepted
    /\ UNCHANGED cache

\* The leader refuses t, or never hears of it.
NotPooled(m, t) ==
    /\ \/ Free(Leader[slot]) /\ ~Fresh(Leader[slot], t)
       \/ "drop" \in Faults /\ ~IsSlotLeader(m)
    /\ UNCHANGED <<pool, cache, accepted>>

\* m does not know the leader's address and keeps t for the next slot.
Cached(m, t) ==
    /\ ~IsSlotLeader(m)
    /\ cache' = [cache EXCEPT ![m] = Append(@, t)]
    /\ accepted' = accepted \cup {t}
    /\ UNCHANGED pool

\* A client submits t to m.
HTxAdd(m, t) ==
    /\ Free(m)
    /\ submits[t] < MaxSubmits
    /\ submits' = [submits EXCEPT ![t] = @ + 1]
    /\ Pooled(t) \/ NotPooled(m, t) \/ Cached(m, t)
    /\ UNCHANGED <<slot, up, chain, prepared, produced, retried, sending, restarts>>

\* The transactions m fails to pass on and those it takes for not passed on.
Mishaps(m) == {s \in (SUBSET ToSet(cache[m])) \X (SUBSET ToSet(cache[m])) :
                  /\ s[1] # {} => "drop" \in Faults
                  /\ s[2] # {} => "lostAck" \in Faults}

\* Once a slot a miner that does not lead it passes on its cache, one by one;
\* what the leader refuses or does not confirm stays. The address may be
\* unknown.
RetryForwards(m) ==
    LET leader == Leader[slot]
    IN  /\ Free(m)
        /\ ~IsSlotLeader(m)
        /\ retried[m] # slot
        /\ retried' = [retried EXCEPT ![m] = slot]
        /\ \/ UNCHANGED <<pool, cache>>
           \/ \E s \in Mishaps(m) :
                 LET gets == {t \in Txs \ s[1] : Fresh(leader, t)}
                 IN  /\ Free(leader)
                     /\ pool' = [pool EXCEPT ![leader] = @ \o Only(cache[m], gets)]
                     /\ cache' = [cache EXCEPT ![m] = Only(@, (Txs \ gets) \cup s[2])]
        /\ UNCHANGED <<slot, up, chain, prepared, produced, sending,
                       clientVars, restarts>>

----------------------------------------------------------------------------
(* Blocks.                                                                 *)

MakeBlock(m, txs) ==
    LET last == Last(chain[m].ledger)
    IN  [index |-> last.index + 1, slot |-> slot, slotLeader |-> m,
         previousHash |-> Hash(last), records |-> txs]

\* mistake: what does not fit into the block is forgotten
OverflowForgotten(p) == <<>>

\* What does not fit into the block.
Overflow(p) == SubSeq(p, MaxTransactionsPerBlock + 1, Len(p))

BlockTransactions(p) ==
    SubSeq(p, 1, IF Len(p) < MaxTransactionsPerBlock
                 THEN Len(p) ELSE MaxTransactionsPerBlock)

\* mistakes: a leader forgets that it has made a block in this slot; a leader
\* that has made a block makes no other
NotYetProducedEver(m) == TRUE
NotYetProducedOnce(m) == produced[m] = 0

NotYetProduced(m) == produced[m] # slot

\* The evaluation at the start of a slot puts the whole pool to the test; if one
\* transaction is refused the slot is not prepared.
Prepares(m, p) == prepared[m] = slot \/ \A t \in ToSet(p) : Fresh(m, t)

\* The leader takes in its cache. Unless it has made its block, it evaluates
\* the slot, and in the slot's last second makes a block of its pool and starts
\* to send it; the pool is emptied before anyone has the block.
HandleSlotLeaderRole(m) ==
    LET fresh == {t \in Txs : Fresh(m, t)}
        p     == pool[m] \o Only(cache[m], fresh)
        rest  == Only(cache[m], Txs \ fresh)
        made  == MakeBlock(m, BlockTransactions(p))
    IN  /\ Free(m)
        /\ IsSlotLeader(m)
        /\ prepared' = [prepared EXCEPT ![m] =
               IF ~NotYetProduced(m) THEN @ ELSE IF Prepares(m, p) THEN slot ELSE 0]
        /\ \E lastSecond \in BOOLEAN :
               IF lastSecond /\ NotYetProduced(m) /\ Prepares(m, p) /\ p # <<>>
               THEN /\ pool' = [pool EXCEPT ![m] = <<>>]
                    /\ cache' = [cache EXCEPT ![m] = rest \o Overflow(p)]
                    /\ sending' = [sending EXCEPT ![m] =
                           [block |-> made, left |-> Upstreams, ok |-> FALSE]]
               ELSE /\ pool' = [pool EXCEPT ![m] = p]
                    /\ cache' = [cache EXCEPT ![m] = rest]
                    /\ UNCHANGED sending
        /\ UNCHANGED <<slot, up, chain, produced, retried, clientVars, restarts>>

----------------------------------------------------------------------------
(* Delivery. An outcome is what a call leaves of the chains and whether the *)
(* caller takes it for a success.                                          *)

\* mistake: the relay keeps the block whatever the beacon says
HBlockAddEager(n, b) ==
    LET beacon == AddBlock(chain[Beacon], b)
        relay  == AddBlock(chain[Relay], b)
    IN  [ok |-> beacon.ok,
         chain |-> IF n = Beacon THEN [chain EXCEPT ![Beacon] = beacon.chain]
                   ELSE [chain EXCEPT ![Beacon] = beacon.chain,
                                      ![Relay] = relay.chain]]

\* The beacon adds the block; the relay passes it to the beacon and, when the
\* beacon has it, adds it too, whatever comes of that.
HBlockAdd(n, b) ==
    LET beacon == AddBlock(chain[Beacon], b)
        relay  == AddBlock(chain[Relay], b)
    IN  [ok |-> beacon.ok,
         chain |-> IF n = Beacon \/ ~beacon.ok
                   THEN [chain EXCEPT ![Beacon] = beacon.chain]
                   ELSE [chain EXCEPT ![Beacon] = beacon.chain,
                                      ![Relay] = relay.chain]]

\* The call to n, or the relay's to the beacon, or an answer on the way back
\* may get lost; a node that is down is not reached.
Outcomes(n, b) ==
    LET reached == {n, Beacon} \subseteq up
    IN  {o \in {HBlockAdd(n, b)} : reached}
        \cup {o \in {[ok |-> FALSE, chain |-> chain]} :
                 ~reached \/ "drop" \in Faults}
        \cup {o \in {[HBlockAdd(k, b) EXCEPT !.ok = FALSE] : k \in {n, Beacon}} :
                 reached /\ "lostBlockAck" \in Faults}

\* broadcastBlock: one recipient after the other, one success is enough.
CallUpstream(m) ==
    LET s == sending[m]
    IN  /\ s.left # <<>>
        /\ \E o \in Outcomes(Head(s.left), s.block) :
               /\ chain' = o.chain
               /\ sending' = [sending EXCEPT ![m] =
                      [s EXCEPT !.left = Tail(@), !.ok = @ \/ o.ok]]
        /\ UNCHANGED <<slot, up, pool, cache, prepared, produced, retried,
                       clientVars, restarts>>

\* mistake: the leader does not keep the block it has sent
OwnChainForgotten(m, b) == chain[m]

OwnChain(m, b) == AddBlock(chain[m], b).chain

\* mistake: a leader takes its block for sent whatever the recipients answered
AnySuccessAssumed(s) == TRUE

AnySuccess(s) == s.ok

\* All were called: with a success the leader notes the slot and adds the block
\* itself, without one the block and its transactions are gone.
FinishBroadcast(m) ==
    LET s == sending[m]
    IN  /\ s # Idle
        /\ s.left = <<>>
        /\ sending' = [sending EXCEPT ![m] = Idle]
        /\ IF AnySuccess(s)
           THEN /\ produced' = [produced EXCEPT ![m] = s.block.slot]
                /\ chain' = [chain EXCEPT ![m] = OwnChain(m, s.block)]
           ELSE UNCHANGED <<produced, chain>>
        /\ UNCHANGED <<slot, up, pool, cache, prepared, retried, clientVars, restarts>>

----------------------------------------------------------------------------
(* Sync and restart.                                                       *)

Source(n) == IF n = Relay THEN Beacon ELSE Upstreams[1]

\* The blocks n fetches from its source, by position; the connection may break
\* after any of them.
Fetches(n, have) ==
    LET L == chain[Source(n)].ledger
    IN  {SubSeq(L, have + 1, k) : k \in {k \in have .. Len(L) :
             k = Len(L) \/ "drop" \in Faults}}

CaughtUp(n, c) == Len(c.ledger) >= Len(chain[Source(n)].ledger)

\* At an epoch's begin, before an own slot, or when a client asks for a block
\* the node does not have.
SyncBlocks(n) ==
    /\ n \in up \ {Beacon}
    /\ n \in Miners => Free(n)
    /\ Source(n) \in up
    /\ Len(chain[n].ledger) < Len(chain[Source(n)].ledger)
    /\ \E blocks \in Fetches(n, Len(chain[n].ledger)) :
           chain' = [chain EXCEPT ![n] = AddBlocks(@, blocks).chain]
    /\ UNCHANGED <<slot, up, minerVars, clientVars, restarts>>

\* A node stops at any point and starts again: its ledger is read back, then it
\* catches up; it does not start when either fails. A miner's memory is empty.
Restart(n) ==
    LET load   == LoadFromLedger(chain[n].ledger)
        synced == {AddBlocks(load.chain, blocks) :
                      blocks \in Fetches(n, Len(chain[n].ledger))}
        starts == IF n = Beacon \/ ~load.ok THEN {load}
                  ELSE IF Source(n) \notin up THEN {[load EXCEPT !.ok = FALSE]}
                  ELSE {[r EXCEPT !.ok = @ /\ CaughtUp(n, r.chain)] : r \in synced}
    IN  /\ restarts < MaxRestarts
        /\ restarts' = restarts + 1
        /\ \E r \in starts :
               /\ chain' = [chain EXCEPT ![n] = r.chain]
               /\ up' = IF r.ok THEN up \cup {n} ELSE up \ {n}
        /\ IF n \in Miners
           THEN /\ pool' = [pool EXCEPT ![n] = <<>>]
                /\ cache' = [cache EXCEPT ![n] = <<>>]
                /\ prepared' = [prepared EXCEPT ![n] = 0]
                /\ produced' = [produced EXCEPT ![n] = 0]
                /\ retried' = [retried EXCEPT ![n] = 0]
                /\ sending' = [sending EXCEPT ![n] = Idle]
           ELSE UNCHANGED minerVars
        /\ UNCHANGED <<slot, clientVars>>

Next ==
    \/ Tick
    \/ \E m \in Miners : \/ \E t \in Txs : HTxAdd(m, t)
                         \/ RetryForwards(m)
                         \/ HandleSlotLeaderRole(m)
                         \/ CallUpstream(m)
                         \/ FinishBroadcast(m)
    \/ \E n \in Nodes : SyncBlocks(n) \/ Restart(n)

Spec == Init /\ [][Next]_vars

\* A leader's loop runs ten times a second, so the last second of its slot does
\* not pass it by, and a call it makes ends with an answer or a timeout.
Produces(m) == HandleSlotLeaderRole(m) /\ sending'[m] # Idle

FairSpec ==
    /\ Spec
    /\ \A m \in Miners : /\ WF_vars(Produces(m))
                         /\ WF_vars(CallUpstream(m))
                         /\ WF_vars(FinishBroadcast(m))

----------------------------------------------------------------------------
(* Properties.                                                             *)

BeaconLedger == chain[Beacon].ledger

\* Every transaction a miner has told a client is accepted is in a pool, in a
\* cache, in a block on its way, or on the beacon's chain.
TxKept ==
    \A t \in accepted :
        \/ \E m \in Miners : t \in ToSet(pool[m]) \cup ToSet(cache[m])
                                   \cup ToSet(sending[m].block.records)
        \/ \E i \in DOMAIN BeaconLedger : t \in ToSet(BeaconLedger[i].records)

\* The beacon's chain carries a transaction once (Ledger.h: idempotentId).
LedgerTxOnce ==
    \A i, j \in DOMAIN BeaconLedger :
        i # j => ToSet(BeaconLedger[i].records) \cap ToSet(BeaconLedger[j].records) = {}

\* The beacon's chain has at most one block of a slot.
OneBlockPerSlot ==
    \A i, j \in DOMAIN BeaconLedger :
        i # j => BeaconLedger[i].slot # BeaconLedger[j].slot

\* Whatever happens, no node has a block the beacon does not have.
BeaconHasAllBlocks ==
    \A n \in Nodes : ToSet(chain[n].ledger) \subseteq ToSet(BeaconLedger)

\* A node that restarted now would load its ledger to the bank it has.
Reloadable ==
    \A n \in Nodes : LoadFromLedger(chain[n].ledger) = [ok |-> TRUE, chain |-> chain[n]]

\* A bank has applied a transaction as often as the ledger beside it carries it.
BankIsOfLedger ==
    \A n \in Nodes, t \in Txs :
        chain[n].bank[t] = Cardinality({i \in DOMAIN chain[n].ledger :
                                           t \in ToSet(chain[n].ledger[i].records)})

\* What a block id names is the same block at every node that has it.
SameBlocks ==
    \A n \in Nodes : IsPrefix(chain[n].ledger, BeaconLedger)

\* A leader of the last slot with transactions waiting makes a block of them.
LeaderProduces ==
    \A m \in Miners :
        slot = MaxSlot /\ IsSlotLeader(m) /\ Free(m) /\ produced[m] # slot /\ pool[m] # <<>>
            ~> pool[m] = <<>>

Abstract == INSTANCE AuthoritativeChain WITH ledger <- BeaconLedger

\* The beacon's ledger is extended as AuthoritativeChain says.
ImplementsChain == Abstract!Spec
=============================================================================
