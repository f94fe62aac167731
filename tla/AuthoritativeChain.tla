-------------------------- MODULE AuthoritativeChain --------------------------
(***************************************************************************)
(* What the beacon's ledger promises: one chain of blocks that only grows  *)
(* at its end, each block numbered by its place, linked to the one before, *)
(* made by the leader of a slot later than all before, and carrying        *)
(* transactions the chain has not seen.                                    *)
(***************************************************************************)
EXTENDS NodeChain

VARIABLE ledger

Init == ledger = <<GenesisBlock>>

Seen == UNION {ToSet(ledger[i].records) : i \in DOMAIN ledger}

Extend ==
    \E s \in Last(ledger).slot + 1 .. MaxSlot, n \in 1 .. MaxTransactionsPerBlock :
        \E records \in [1 .. n -> Txs \ Seen] :
            /\ IsInjective(records)
            /\ ledger' = Append(ledger,
                   [index |-> Len(ledger), slot |-> s, slotLeader |-> Leader[s],
                    previousHash |-> Hash(Last(ledger)), records |-> records])

Next == Extend

Spec == Init /\ [][Next]_ledger
=============================================================================
