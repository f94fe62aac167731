-------------------------------- MODULE Bank --------------------------------
(***************************************************************************)
(* The account bank of a chain, record by record: each block opens with    *)
(* the renewals and terminations its slot leader collects, lowest account  *)
(* id first, and goes on with the records of clients.                      *)
(*                                                                         *)
(* A block is only opened when the leader's trial run accepts the whole    *)
(* batch (Miner::initSlotCache).  A client record that is refused does not *)
(* become part of the block (Miner::addTransaction drops it, a chain that  *)
(* meets it rejects the block), but nothing it did to the bank is undone.  *)
(***************************************************************************)
EXTENDS TxHandlers, Functions

CONSTANTS Supply,      \* INITIAL_TOKEN_SUPPLY
          Fees,        \* fees a client may offer and a configuration may ask
          GenesisFee,  \* the minimum fee of the genesis configuration
          Amounts,     \* amounts a client may transfer
          Routes,      \* <<from, to>> pairs clients transfer along
          Holders,     \* accounts whose owners send updates
          MinBlocks,   \* checkpoint.minBlocks; minAgeSeconds is 0
          MaxTransactionsPerBlock,
          MaxHeight    \* bound: blocks

ASSUME BankAssumption ==
    /\ Supply \in Nat
    /\ Fees \subseteq Nat
    /\ GenesisFee \in Fees
    /\ 3 * GenesisFee <= Supply
    /\ Supply <= MaxInt
    /\ Amounts \subseteq Nat
    /\ \A x \in Amounts \cup Fees, y \in Fees : x + y <= MaxInt
    /\ Routes \subseteq Ids \X Ids
    /\ Holders \subseteq Ids
    /\ MinBlocks \in Nat
    /\ MaxTransactionsPerBlock \in Nat
    /\ MaxHeight \in Nat

VARIABLES bank,    \* Chain::txContext_.bank
          minFee,  \* what optChainConfig asks of a record
          height,  \* index of the block being applied
          due,     \* account -> its record among those still to apply
          records  \* how many records the block holds so far

vars == <<bank, minFee, height, due, records>>

----------------------------------------------------------------------------
(* The genesis block (Beacon::createGenesisBlock): the native token is     *)
(* issued by GENESIS to RESERVE, each of the three new accounts is paid    *)
(* for, and the whole supply is out.                                       *)

GenesisHolding ==
    [a \in Ids |-> CASE a = GENESIS -> -Supply
                     [] a = FEE     -> 3 * GenesisFee
                     [] a = RESERVE -> Supply - 3 * GenesisFee
                     [] OTHER       -> 0]

GenesisBank ==
    [a \in Ids |->
        IF a <= RECYCLE
        THEN [live |-> TRUE, blockId |-> 0,
              bal |-> [NoBalance EXCEPT ![GENESIS] = GenesisHolding[a]]]
        ELSE NoAccount]

Init ==
    /\ bank = GenesisBank
    /\ minFee = GenesisFee
    /\ height = 0
    /\ due = [a \in {} |-> NoRecord]
    /\ records = 0

----------------------------------------------------------------------------

\* Accounts last renewed before this block must be renewed in block h; 0 when
\* none has to be.
MaxBlockIdForRenewal(h) ==
    IF h < MinBlocks \/ h - MinBlocks + 1 >= h THEN 0 ELSE h - MinBlocks + 1

DueAt(h) == AccountIdsBefore(bank, MaxBlockIdForRenewal(h))

Renewals(h) == [a \in DueAt(h) |-> RenewalRecord(bank, a, minFee)]

\* The leader's trial of the records of `batch` to ids below n, in id order: on a
\* bank of its own, that starts empty and takes the accounts it meets from ours.
TrialRun(batch, h) ==
    LET run[n \in 0 .. MaxId + 1] ==
          IF n = 0
          THEN Accept(EmptyBank)
          ELSE IF n - 1 \in DOMAIN batch /\ run[n - 1].ok
               THEN TryRecord(run[n - 1].bank, bank, h, n - 1, batch[n - 1], minFee)
               ELSE run[n - 1]
    IN  run[MaxId + 1]

Collectable(batch) == \A a \in DOMAIN batch : batch[a] # NoRecord

\* A slot leader with nothing to put in a block makes none.
BlockComplete == DOMAIN due = {} /\ (height > 0 => records > 0)

OpenBlock ==
    /\ height < MaxHeight
    /\ BlockComplete
    /\ LET batch == Renewals(height + 1) IN
          /\ Collectable(batch)
          /\ TrialRun(batch, height + 1).ok
          /\ due' = batch
    /\ height' = height + 1
    /\ records' = 0
    /\ UNCHANGED <<bank, minFee>>

\* Mistake: the highest id first.
IsLastDue(a) == a \in DOMAIN due /\ \A c \in DOMAIN due : c <= a

IsNextDue(a) == a \in DOMAIN due /\ \A c \in DOMAIN due : a <= c

ApplyRenewal(a) ==
    /\ IsNextDue(a)
    /\ LET r == ApplyRecord(bank, height, a, due[a], minFee) IN
          /\ r.ok
          /\ bank' = r.bank
    /\ due' = [c \in DOMAIN due \ {a} |-> due[c]]
    /\ records' = records + 1
    /\ UNCHANGED <<minFee, height>>

\* The renewals of the block are done and there is room left for a client's
\* record; 0 stands for no limit.
TakesRecords ==
    /\ height > 0
    /\ DOMAIN due = {}
    /\ MaxTransactionsPerBlock = 0 \/ records < MaxTransactionsPerBlock

ClientRecord(r) ==
    /\ bank' = r.bank
    /\ records' = IF r.ok THEN records + 1 ELSE records
    /\ UNCHANGED <<height, due>>

TransferTx(from, to, t, amount, fee) ==
    /\ TakesRecords
    /\ ClientRecord(ApplyDefault(bank, from, to, t, amount, fee, minFee))
    /\ UNCHANGED minFee

NewUserTx(from, to, amount, fee) ==
    /\ TakesRecords
    /\ ClientRecord(ApplyNewUser(bank, height, from, to, amount, fee, minFee))
    /\ UNCHANGED minFee

\* The snapshots an owner may sign: the balances left once the fee is paid, or
\* one unit more of some token, as far as an int64 can state them.
Claims(a, fee) ==
    LET paid == PaidBalances(bank, a, fee) IN
    {c \in {paid} \cup {[paid EXCEPT ![t] = @ + 1] : t \in Tokens} :
        \A t \in Tokens : c[t] \in MinInt .. MaxInt}

UserUpdateTx(a, fee, balances) ==
    /\ TakesRecords
    /\ ClientRecord(ApplySnapshot(bank, height, a, balances, fee, minFee))
    /\ UNCHANGED minFee

ConfigTx(newMinFee, balances) ==
    LET r == ApplyConfig(bank, height, balances) IN
    /\ TakesRecords
    /\ ClientRecord(r)
    /\ minFee' = IF r.ok THEN newMinFee ELSE minFee

Next ==
    \/ OpenBlock
    \/ \E a \in Ids : ApplyRenewal(a)
    \/ \E r \in Routes, t \in Tokens, amount \in Amounts, fee \in Fees :
          TransferTx(r[1], r[2], t, amount, fee)
    \/ \E r \in Routes, amount \in Amounts, fee \in Fees :
          NewUserTx(r[1], r[2], amount, fee)
    \/ \E a \in Holders, fee \in Fees : \E balances \in Claims(a, fee) :
          UserUpdateTx(a, fee, balances)
    \/ \E f \in Fees : \E balances \in Claims(GENESIS, 0) : ConfigTx(f, balances)

Spec == Init /\ [][Next]_vars

----------------------------------------------------------------------------
(* Properties.                                                             *)

\* The state has its shape; an id without an account holds nothing (the code's
\* getBalance answers 0 for it), and the records to apply are renewals and
\* terminations only.
TypeOK ==
    /\ bank \in Bank
    /\ \A a \in Ids : ~bank[a].live => bank[a] = NoAccount
    /\ minFee \in Fees
    /\ height \in 0 .. MaxHeight
    /\ records \in Nat
    /\ DOMAIN due \subseteq Ids
    /\ \A a \in DOMAIN due :
          /\ due[a].kind \in {"renewal", "end"}
          /\ due[a].fee \in Nat
          /\ due[a].balances \in [Tokens -> Int]

\* No account but its issuer ever owes a custom token, whatever mix of
\* transfers, snapshots signed by owners, renewals and write-offs runs
\* (isNegativeBalanceAllowed, verifySpendingPower, verifyBalance).
CustomNonNegative ==
    \A a \in Ids, t \in Tokens \ {GENESIS} :
        bank[a].bal[t] < 0 => NegativeAllowed(a, t)

\* The accounts that issue the native token and take the fees are never
\* terminated: createRenewalTx spares them, and nothing else writes off.
SystemAccountsLive == bank[GENESIS].live /\ bank[FEE].live

\* Every balance is an int64, RECYCLE's apart: every check that keeps a sum in
\* range is one of CanSpend, Deposit, Transfer, BalanceMatches and RenewalRecord,
\* and writeOff adds without one.
BalancesInRange ==
    \A a \in Ids \ {RECYCLE}, t \in Tokens : bank[a].bal[t] \in MinInt .. MaxInt

\* Once the renewals of a block are applied, no account is left that was last
\* renewed before the deadline of that block, so the blocks a checkpoint may
\* drop hold no account's only record (validateAccountRenewals).
RenewalWindow ==
    \A a \in AccountIdsBefore(bank, MaxBlockIdForRenewal(height)) :
        a \in DOMAIN due

\* A client record that is refused leaves the bank alone, unless the fee account
\* has no room for its fee: then the debit (Transfer), the new account or the
\* new snapshot stays (transferBalance and applyUserAccountUpsert return the
\* error after their writes).
FeeAccountFull == \E fee \in Fees : bank[FEE].bal[GENESIS] > MaxInt - fee

RecordRefused == height' = height /\ records' = records

RefusalSparesBank == [][ RecordRefused => bank' = bank \/ FeeAccountFull' ]_vars

\* Nobody else can push an account other than GENESIS into native debt: it goes
\* below zero only in a step that applies a snapshot its own keys signed.
OverdraftIsOwn ==
    [][ \A a \in Ids \ {GENESIS} :
            (bank[a].bal[GENESIS] >= 0 /\ bank'[a].bal[GENESIS] < 0) =>
                \E fee \in Fees : \E balances \in Claims(a, fee) :
                    UserUpdateTx(a, fee, balances) ]_vars

\* How much of a token there is.
Total(b, t) == SumFunction([a \in Ids |-> b[a].bal[t]])

\* The accounts a step terminates.
Ended == {a \in Ids : bank[a].live /\ ~bank'[a].live}

\* How much of a token there is changes only when an account that owes it is
\* written off, or RECYCLE itself is with what it has collected (writeOff), or
\* a record is refused because its fee finds no room: no transfer, no snapshot
\* and no renewal makes or burns.
SupplyChangesByWriteOff ==
    [][ \A t \in Tokens :
            Total(bank', t) # Total(bank, t) =>
                \/ \E a \in Ended : bank[a].bal[t] < 0 \/ a = RECYCLE
                \/ RecordRefused /\ FeeAccountFull' ]_vars

=============================================================================
