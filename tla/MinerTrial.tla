----------------------------- MODULE MinerTrial -----------------------------
(***************************************************************************)
(* A slot leader and the bank it tries records on (Miner::bufferBank_).    *)
(*                                                                         *)
(* At the start of its slot the leader empties the trial bank and applies  *)
(* the batch of renewals to it; every client record is tried there before  *)
(* it becomes part of the block.  The block then meets the bank of the     *)
(* chain, which is to accept it record by record: the pool is empty by     *)
(* then, and one refused record refuses the block.                         *)
(*                                                                         *)
(* The trial bank knows only the accounts it has met: a record first takes *)
(* those it is about from the committed bank.  The configuration a record  *)
(* is tried under is the committed one.                                    *)
(*                                                                         *)
(* No other block reaches the chain between the trial and the block: what  *)
(* a leader that lags does is in BlockFlow.  A record the trial refuses is *)
(* dropped; that it leaves copies of committed accounts in the trial bank  *)
(* makes no difference, and that it can leave a debit there when the fee   *)
(* account is full is out of the instances.                                *)
(***************************************************************************)
EXTENDS Bank

VARIABLES committed,  \* the bank of the chain when the slot began
          slotFee,    \* and its minimum fee
          trial,      \* Miner::bufferBank_
          strayed,    \* the trial went on with what the block has made untrue
          refused     \* the chain has refused a record of the block

slotVars  == <<committed, slotFee>>
trialVars == <<bank, minFee, height, due, records,
               committed, slotFee, trial, strayed, refused>>

TrialInit ==
    /\ Init
    /\ committed = bank
    /\ slotFee = minFee
    /\ trial = EmptyBank
    /\ strayed = FALSE
    /\ refused = FALSE

----------------------------------------------------------------------------

\* The recycle account is written off while a later id still has to be written
\* off into it: the trial takes it from the committed bank again.
RecycleGoesEarly(batch) ==
    /\ RECYCLE \in DOMAIN batch
    /\ batch[RECYCLE].kind = "end"
    /\ \E a \in DOMAIN batch : a > RECYCLE /\ batch[a].kind = "end"

\* Mistake: the trial bank is not emptied when a slot begins.
TrialBankUncleared ==
    LET fresh == TrialRun(Renewals(height + 1), height + 1).bank IN
    [a \in Ids |-> IF trial[a].live THEN trial[a] ELSE fresh[a]]

TrialBank == TrialRun(Renewals(height + 1), height + 1).bank

InitSlotCache ==
    /\ ~refused
    /\ OpenBlock
    /\ committed' = bank
    /\ slotFee' = minFee
    /\ trial' = TrialBank
    /\ strayed' = RecycleGoesEarly(due')
    /\ UNCHANGED refused

\* The block meets the chain, renewals first.
RenewalOfBlock(a) ==
    /\ ApplyRenewal(a)
    /\ UNCHANGED <<slotVars, trial, strayed, refused>>

----------------------------------------------------------------------------
(* Client records: tried over the accounts `seeds`; a record that passes   *)
(* is one of the block.                                                    *)

WithFee(ids, fee) == IF fee > 0 THEN ids \cup {FEE} ELSE ids

Base(seeds) == Seeded(trial, committed, seeds)

\* The accounts the block has written off and the trial would take in again.
Closed == {a \in Ids : committed[a].live /\ ~bank[a].live /\ ~trial[a].live}

\* The record passes the trial with outcome r and goes into the block; a change
\* of configuration earlier in the block asks more of it than the trial did.
Joins(seeds, r, fee) ==
    /\ ~refused
    /\ Seedable(trial, committed, seeds)
    /\ r.ok
    /\ trial' = r.bank
    /\ strayed' = (strayed \/ seeds \cap Closed # {} \/ fee < minFee)
    /\ refused' = (records' = records)
    /\ UNCHANGED slotVars

AddTransfer(from, to, t, amount, fee) ==
    LET seeds == WithFee({from, to}, fee) IN
    /\ TransferTx(from, to, t, amount, fee)
    /\ Joins(seeds, ApplyDefault(Base(seeds), from, to, t, amount, fee, slotFee), fee)

AddNewUser(from, to, amount, fee) ==
    LET seeds == WithFee({from}, fee) IN
    /\ ~committed[to].live
    /\ NewUserTx(from, to, amount, fee)
    /\ Joins(seeds, ApplyNewUser(Base(seeds), height, from, to, amount, fee, slotFee), fee)

AddUserUpdate(a, fee, balances) ==
    LET seeds == WithFee({a}, fee) IN
    /\ UserUpdateTx(a, fee, balances)
    /\ Joins(seeds, ApplySnapshot(Base(seeds), height, a, balances, fee, slotFee), fee)

AddConfig(newMinFee, balances) ==
    /\ ConfigTx(newMinFee, balances)
    /\ Joins({GENESIS}, ApplyConfig(Base({GENESIS}), height, balances), minFee)

TrialNext ==
    \/ InitSlotCache
    \/ \E a \in Ids : RenewalOfBlock(a)
    \/ \E r \in Routes, t \in Tokens, amount \in Amounts, fee \in Fees :
          AddTransfer(r[1], r[2], t, amount, fee)
    \/ \E r \in Routes, amount \in Amounts, fee \in Fees :
          AddNewUser(r[1], r[2], amount, fee)
    \/ \E a \in Holders, fee \in Fees : \E balances \in Claims(a, fee) :
          AddUserUpdate(a, fee, balances)
    \/ \E f \in Fees : \E balances \in Claims(GENESIS, 0) : AddConfig(f, balances)

\* A leader applies the records of the block it opened without waiting.
TrialSpec ==
    /\ TrialInit
    /\ [][TrialNext]_trialVars
    /\ WF_trialVars(\E a \in Ids : RenewalOfBlock(a))

----------------------------------------------------------------------------
(* Properties.                                                             *)

\* Unless a record needs an account the same block writes off, or is below a
\* fee the same block sets, the chain accepts every record the trial accepted
\* (Miner::addTransaction, Chain::addBufferTransaction).
TrialFits == refused => strayed

\* and the accounts the trial has met are those of the chain once the block is
\* applied (seedFromCommittedIfMissing takes in all a record reads or writes).
TrialAgrees ==
    (DOMAIN due = {} /\ ~strayed) =>
        \A a \in Accounts(trial) : trial[a] = bank[a]

\* Every block a slot leader opens gets its renewals done: the batch its trial
\* accepted is accepted record by record, in the order of the block.
BatchDrains == (DOMAIN due # {} /\ ~strayed) ~> DOMAIN due = {}

\* What initSlotCache promises (Miner.cpp:203, "Re-apply pending txes so buffer
\* matches block order"): the chain never refuses what the trial accepted.
TrialNeverStrays == ~refused
=============================================================================
