------------------------------ MODULE LateJoin ------------------------------
(***************************************************************************)
(* A chain and a node that joins it late: the node gets no block before    *)
(* the checkpoint `Start` and replays the blocks from there in loose mode  *)
(* (Chain::loadFromLedger, the handlers with isStrictMode false), from an  *)
(* empty bank and without the configuration of the chain.                  *)
(*                                                                         *)
(* Replay is a function of the blocks, so the joiner replays each record   *)
(* in the step that adds it to the chain.  Loose mode lasts until the next *)
(* checkpoint rotates, the end of the range the model goes through.        *)
(* Signatures and the hashes and indices of blocks are left out: loose     *)
(* mode checks the latter two as strict mode does.                         *)
(*                                                                         *)
(* The joiner never meets GENESIS: its renewals are passed over while it   *)
(* is not known, and a configuration is refused.  (A user update signed    *)
(* with the genesis keys would do it, and leave GENESIS without the        *)
(* metadata of its next renewal: no such update here.)  So the joiner has  *)
(* no configuration in all of the range.                                   *)
(***************************************************************************)
EXTENDS Bank

CONSTANT SlotsPerEpoch  \* the margin needsCheckpoint adds to MinBlocks

\* The first checkpoint after genesis.
Start == MinBlocks + SlotsPerEpoch

ASSUME JoinAssumption ==
    /\ SlotsPerEpoch \in Nat
    /\ Start > 0
    /\ MaxHeight <= 2 * Start
    /\ GENESIS \notin Holders

VARIABLES joiner, \* the bank of the node that joins
          stuck   \* it has refused a block of the chain

joinVars == <<joiner, stuck>>
allVars  == <<bank, minFee, height, due, records, joiner, stuck>>

JoinInit ==
    /\ Init
    /\ joiner = EmptyBank
    /\ stuck = FALSE

----------------------------------------------------------------------------
(* The handlers in loose mode, on a bank b that misses accounts.           *)

\* Mistake: the payer is not charged the fee of a transfer in a custom token.
WithdrawnUncharged(b, from, t, amount, fee) == Withdraw(b, from, t, amount)

\* The payer of a transfer is known and the payee is not.
Withdrawn(b, from, t, amount, fee) ==
    IF t = GENESIS
    THEN Withdraw(b, from, t, amount + fee)
    ELSE LET r == Withdraw(b, from, t, amount) IN
         IF r.ok /\ fee > 0 THEN Withdraw(r.bank, from, GENESIS, fee) ELSE r

LooseDefault(b, from, to, t, amount, fee) ==
    CASE b[from].live /\ b[to].live ->
           Transfer(b, from, to, t, amount, fee)
      [] b[from].live /\ ~b[to].live ->
           LET r == Withdrawn(b, from, t, amount, fee) IN
           IF r.ok THEN CreditFee(r.bank, fee) ELSE r
      [] ~b[from].live /\ b[to].live ->
           Deposit(b, to, t, amount)
      [] OTHER -> Accept(b)

\* No fee is asked; the payer has to be known and solvent all the same.
LooseNewUser(b, from, to, amount, fee) ==
    ApplyNewUser(b, height, from, to, amount, fee, 0)

\* Mistake: a snapshot of an account that is not known is passed over.
LooseSnapshotOfKnown(b, a, balances, fee) ==
    IF b[a].live THEN ApplySnapshot(b, height, a, balances, fee, 0) ELSE Accept(b)

\* A snapshot of an account that is not known makes it known.
LooseSnapshot(b, a, balances, fee) ==
    IF b[a].live
    THEN ApplySnapshot(b, height, a, balances, fee, 0)
    ELSE CreditFee(Replace(b, a, height, balances), fee)

\* The renewal of GENESIS is passed over while GENESIS is not known, and without
\* a configuration no termination is accepted.
LooseRecord(b, a, record) ==
    CASE record.kind = "end"            -> Refuse(b)
      [] a = GENESIS /\ ~b[GENESIS].live -> Accept(b)
      [] OTHER -> LooseSnapshot(b, a, record.balances, record.fee)

----------------------------------------------------------------------------

\* A record of the chain meets the joiner with the outcome r.
Replays(r) ==
    IF height < Start \/ stuck
    THEN UNCHANGED <<joiner, stuck>>
    ELSE joiner' = r.bank /\ stuck' = ~r.ok

\* Records the chain refuses are in no block.
Stored == records' = records + 1

Open == OpenBlock /\ UNCHANGED joinVars

Renew(a) ==
    /\ ApplyRenewal(a)
    /\ Replays(LooseRecord(joiner, a, due[a]))

Send(from, to, t, amount, fee) ==
    /\ TransferTx(from, to, t, amount, fee)
    /\ Stored
    /\ Replays(LooseDefault(joiner, from, to, t, amount, fee))

Register(from, to, amount, fee) ==
    /\ NewUserTx(from, to, amount, fee)
    /\ Stored
    /\ Replays(LooseNewUser(joiner, from, to, amount, fee))

Update(a, fee, balances) ==
    /\ UserUpdateTx(a, fee, balances)
    /\ Stored
    /\ Replays(LooseSnapshot(joiner, a, balances, fee))

Configure(newMinFee, balances) ==
    /\ ConfigTx(newMinFee, balances)
    /\ Stored
    /\ Replays(ApplyConfig(joiner, height, balances))

JoinNext ==
    \/ Open
    \/ \E a \in Ids : Renew(a)
    \/ \E r \in Routes, t \in Tokens, amount \in Amounts, fee \in Fees :
          Send(r[1], r[2], t, amount, fee)
    \/ \E r \in Routes, amount \in Amounts, fee \in Fees :
          Register(r[1], r[2], amount, fee)
    \/ \E a \in Holders, fee \in Fees : \E balances \in Claims(a, fee) :
          Update(a, fee, balances)
    \/ \E f \in Fees : \E balances \in Claims(GENESIS, 0) : Configure(f, balances)

JoinSpec == JoinInit /\ [][JoinNext]_allVars

----------------------------------------------------------------------------
(* Properties.                                                             *)

\* As long as the joiner can follow, what it knows is true: every account it has
\* met, the fee account apart, is the account of the chain, whichever of the
\* others it has not met (applyDefaultTransferLoose, applyUserAccountUpsert).
JoinerKnowsTruth ==
    ~stuck => \A a \in Accounts(joiner) \ {FEE} : joiner[a] = bank[a]

\* and once the renewals of MinBlocks blocks have gone by it has met every
\* account but GENESIS (calculateMaxBlockIdForRenewal): the blocks before a
\* checkpoint hold nothing that the blocks after it do not say again.
JoinerComplete ==
    (height >= Start + MinBlocks - 1 /\ DOMAIN due = {} /\ ~stuck) =>
        Accounts(bank) \ {GENESIS} \subseteq Accounts(joiner)

\* The fee account is known too: a fee somebody unknown pays is credited as well.
JoinerKnowsFees ==
    (~stuck /\ joiner[FEE].live) => joiner[FEE] = bank[FEE]

\* design.md:63: a participant joins from a checkpoint and only reads the blocks
\* from there on.
JoinerFollows == ~stuck
=============================================================================
