------------------------------ MODULE NodeChain ------------------------------
(***************************************************************************)
(* The chain of one node (Chain and Ledger): the blocks on its disk, and   *)
(* its bank, of which only how often each transaction was applied is kept. *)
(* What the records do to balances is module Bank.                         *)
(*                                                                         *)
(* Every chain here starts at block 0 and has no checkpoint, so validation *)
(* is strict; every transaction has an idempotent id, a window that covers *)
(* all slots, and a payer that can pay.                                    *)
(***************************************************************************)
EXTENDS Naturals, SequencesExt

CONSTANTS Miners,  \* miner ids
          Leader,  \* slot -> the miner Ouroboros selects for it
          Txs,     \* signed transactions of clients
          MaxTransactionsPerBlock,
          MaxSlot  \* bound: slots

ASSUME ChainAssumption ==
    /\ Miners \subseteq Nat \ {0}
    /\ MaxSlot \in Nat \ {0}
    /\ Leader \in [1 .. MaxSlot -> Miners]
    /\ MaxTransactionsPerBlock \in Nat \ {0}

\* SHA-256 of the block's fields. Blocks are only made in the last second of
\* their slot, so the timestamp adds nothing to the slot.
Hash(b) == <<b.index, b.slot, b.slotLeader, b.previousHash, b.records>>

GenesisBlock == [index |-> 0, slot |-> 0, slotLeader |-> 0,
                 previousHash |-> <<>>, records |-> <<>>]

GenesisChain == [ledger |-> <<GenesisBlock>>, bank |-> [t \in Txs |-> 0]]

\* Block ids are positions on disk, counted from 0.
NextBlockId(L) == Len(L)
ReadBlock(L, id) == L[id + 1]

----------------------------------------------------------------------------

\* The block goes after the block read at the position before its index, which
\* need not be the last one.
SequenceValid(L, b) ==
    /\ b.index <= NextBlockId(L)
    /\ LET prev == ReadBlock(L, b.index - 1)
       IN  /\ b.index = prev.index + 1
           /\ b.previousHash = Hash(prev)

ValidBlock(L, b) ==
    /\ SequenceValid(L, b)
    /\ b.slotLeader = Leader[b.slot]
    /\ Len(b.records) <= MaxTransactionsPerBlock
    /\ IsInjective(b.records)

\* mistake: only the last block is looked at
SpentBeforeLastOnly(L, t, s) == t \in ToSet(Last(L).records)

\* Is t in a block of a slot before s? The scan ends at the first block of slot
\* s or later.
SpentBefore(L, t, s) ==
    \E i \in DOMAIN L : /\ t \in ToSet(L[i].records)
                        /\ \A j \in 1 .. i : L[j].slot < s

\* The records the chain applies before it meets one it refuses.
AppliedRecords(L, b) ==
    {b.records[k] : k \in {k \in DOMAIN b.records :
        \A i \in 1 .. k : ~SpentBefore(L, b.records[i], b.slot)}}

Applied(bank, txs) == [t \in Txs |-> IF t \in txs THEN bank[t] + 1 ELSE bank[t]]

\* Validate the block, apply its records one after the other. A record that is
\* refused fails the block; those before it stay applied.
ProcessBlock(L, bank, b) ==
    IF ~ValidBlock(L, b)
    THEN [ok |-> FALSE, bank |-> bank]
    ELSE [ok   |-> AppliedRecords(L, b) = ToSet(b.records),
          bank |-> Applied(bank, AppliedRecords(L, b))]

AddBlock(c, b) ==
    LET r == ProcessBlock(c.ledger, c.bank, b)
    IN  [ok    |-> r.ok,
         chain |-> [ledger |-> IF r.ok THEN Append(c.ledger, b) ELSE c.ledger,
                    bank   |-> r.bank]]

\* Blocks fetched one by one; the first that is refused ends the sync.
AddBlocks(c, blocks) ==
    LET after[k \in 0 .. Len(blocks)] ==
          IF k = 0 THEN [ok |-> TRUE, chain |-> c]
          ELSE IF after[k - 1].ok THEN AddBlock(after[k - 1].chain, blocks[k])
          ELSE after[k - 1]
    IN  after[Len(blocks)]

\* A restarted node resets its bank and replays what its disk holds, from the
\* block after genesis; a block whose index is not its position ends the load.
LoadFromLedger(L) ==
    LET r == FoldLeft(LAMBDA r, i :
                        IF r.ok /\ ReadBlock(L, i).index = i
                        THEN ProcessBlock(L, r.bank, ReadBlock(L, i))
                        ELSE [r EXCEPT !.ok = FALSE],
                      [ok |-> TRUE, bank |-> GenesisChain.bank],
                      [i \in 1 .. Len(L) - 1 |-> i])
    IN  [ok |-> r.ok, chain |-> [ledger |-> L, bank |-> r.bank]]
=============================================================================
