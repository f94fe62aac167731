----------------------------- MODULE TxHandlers -----------------------------
(***************************************************************************)
(* The transaction handlers of src/chain/*TxHandler.cpp as a chain in      *)
(* strict mode applies them: one operator per kind of record, from the     *)
(* bank and the record to an outcome.                                      *)
(*                                                                         *)
(* Keys, signatures and user metadata are left out.  The fee schedule      *)
(* (TxFees.cpp) is the flat `minFee` of metadata inside the free tier.     *)
(***************************************************************************)
EXTENDS AccountBuffer

\* Mistake: the fee of a snapshot is debited and credited to nobody.
CreditFeeNever(b, fee) == Accept(b)

\* The fee of an account snapshot goes to the fee account when there is one.
CreditFee(b, fee) ==
    IF fee > 0 /\ b[FEE].live THEN Deposit(b, FEE, GENESIS, fee) ELSE Accept(b)

ApplyDefault(b, from, to, t, amount, fee, minFee) ==
    IF fee < minFee THEN Refuse(b) ELSE Transfer(b, from, to, t, amount, fee)

\* Mistake: the account is made before its funder is known to be able to pay.
ApplyNewUserEarly(b, blockId, from, to, amount, fee, minFee) ==
    IF fee < minFee \/ b[to].live \/ (from # GENESIS /\ to < FirstUser)
    THEN Refuse(b)
    ELSE Transfer(Replace(b, to, blockId, NoBalance),
                  from, to, GENESIS, amount, fee)

ApplyNewUser(b, blockId, from, to, amount, fee, minFee) ==
    IF \/ fee < minFee
       \/ b[to].live
       \/ ~CanSpend(b, from, GENESIS, amount, fee)
       \/ from # GENESIS /\ to < FirstUser
    THEN Refuse(b)
    ELSE Transfer(Replace(b, to, blockId, NoBalance),
                  from, to, GENESIS, amount, fee)

\* User updates, and the renewals of every account but GENESIS, which the code
\* turns into user updates; the renewal of GENESIS makes the same changes.
ApplySnapshot(b, blockId, a, balances, fee, minFee) ==
    IF fee < minFee \/ ~BalanceMatches(b, a, fee, balances)
    THEN Refuse(b)
    ELSE CreditFee(Replace(b, a, blockId, balances), fee)

\* A configuration update carries no fee.
ApplyConfig(b, blockId, balances) ==
    IF ~BalanceMatches(b, GENESIS, 0, balances)
    THEN Refuse(b)
    ELSE Accept(Replace(b, GENESIS, blockId, balances))

ApplyEndUser(b, a, minFee) ==
    IF ~b[a].live \/ b[a].bal[GENESIS] >= minFee THEN Refuse(b) ELSE WriteOff(b, a)

----------------------------------------------------------------------------
(* The record a slot leader makes for an account that is due (Chain.cpp,   *)
(* createRenewalTx): a renewal, a termination, or no record at all.        *)

Renewal(fee, balances) == [kind |-> "renewal", fee |-> fee, balances |-> balances]
Termination            == [kind |-> "end", fee |-> 0, balances |-> NoBalance]
NoRecord               == [kind |-> "none", fee |-> 0, balances |-> NoBalance]

\* The comparison is between an int64 and a uint64: a negative balance counts
\* as a huge one.
Poor(b, a, minFee) == 0 <= b[a].bal[GENESIS] /\ b[a].bal[GENESIS] < minFee

PaidBalances(b, a, fee) == [b[a].bal EXCEPT ![GENESIS] = @ - fee]

\* Mistake: the fee account is terminated like any other that cannot pay.
RenewalRecordSparesNone(b, a, minFee) ==
    IF a # GENESIS /\ Poor(b, a, minFee)
    THEN Termination
    ELSE Renewal(minFee, IF a = FEE THEN b[a].bal ELSE PaidBalances(b, a, minFee))

RenewalRecord(b, a, minFee) ==
    LET balance == b[a].bal[GENESIS] IN
    CASE a = GENESIS ->
           IF balance < MinInt + minFee
           THEN NoRecord
           ELSE Renewal(minFee, PaidBalances(b, a, minFee))
      [] a = FEE ->
           IF balance < MinInt + minFee THEN NoRecord ELSE Renewal(minFee, b[a].bal)
      [] a \notin {GENESIS, FEE} /\ Poor(b, a, minFee) -> Termination
      [] OTHER ->
           IF balance < minFee
           THEN NoRecord
           ELSE Renewal(minFee, PaidBalances(b, a, minFee))

ApplyRecord(b, blockId, a, record, minFee) ==
    IF record.kind = "renewal"
    THEN ApplySnapshot(b, blockId, a, record.balances, record.fee, minFee)
    ELSE ApplyEndUser(b, a, minFee)

\* The accounts a record of a batch takes into the trial bank of a slot leader.
BatchSeeds(a, record) ==
    {a} \cup IF record.kind = "end" THEN {RECYCLE}
             ELSE IF record.fee > 0 THEN {FEE} ELSE {}

\* The record on the trial bank b of a slot leader (applyBuffer).
TryRecord(b, committed, blockId, a, record, minFee) ==
    LET seeds == BatchSeeds(a, record) IN
    IF Seedable(b, committed, seeds)
    THEN ApplyRecord(Seeded(b, committed, seeds), blockId, a, record, minFee)
    ELSE Refuse(b)

=============================================================================
