--------------------------- MODULE AccountBuffer ---------------------------
(***************************************************************************)
(* The account map of a node (src/chain/AccountBuffer.cpp) and the balance *)
(* operations every transaction handler is built from.                     *)
(*                                                                         *)
(* The map is a total function `bank`: an id that is not in the C++ map is *)
(* mapped to NoAccount, so that getBalance of the code (0 for a missing    *)
(* account or token) is bank[a].bal[t].  Each operation that the code lets *)
(* fail returns an outcome [ok, bank]: the bank of a refused outcome is    *)
(* what the code leaves behind when it returns the error.                  *)
(*                                                                         *)
(* A definition marked "Mistake" is no part of the model: it is a slip the *)
(* code could have had, in place of the definition below it, and some      *)
(* property of the runs fails with it (README, mutants).                   *)
(*                                                                         *)
(* Amounts and fees are small enough that amount + fee is an int64: the    *)
(* code adds them without a check, and what happens beyond is undefined.   *)
(***************************************************************************)
EXTENDS Integers

CONSTANTS MaxId,      \* largest account id of the instance
          FirstUser,  \* ID_FIRST_USER: ids below it are reserved
          Tokens,     \* token ids; a token carries the id of its issuer
          MaxInt      \* INT64_MAX

GENESIS == 0
FEE     == 1
RESERVE == 2
RECYCLE == 3

ASSUME IdsAssumption ==
    /\ MaxId \in Nat
    /\ FirstUser \in Nat
    /\ RECYCLE < FirstUser
    /\ FirstUser <= MaxId

ASSUME TokensAssumption == Tokens \subseteq Nat /\ GENESIS \in Tokens

ASSUME MaxIntAssumption == MaxInt \in Nat \ {0}

Ids    == 0 .. MaxId
MinInt == -MaxInt - 1

Account == [live : BOOLEAN, blockId : Nat, bal : [Tokens -> Int]]
Bank    == [Ids -> Account]

NoBalance == [t \in Tokens |-> 0]
NoAccount == [live |-> FALSE, blockId |-> 0, bal |-> NoBalance]

Accept(b) == [ok |-> TRUE,  bank |-> b]
Refuse(b) == [ok |-> FALSE, bank |-> b]
Outcome   == [ok : BOOLEAN, bank : Bank]

Accounts(b) == {a \in Ids : b[a].live}

AccountIdsBefore(b, blockId) == {a \in Accounts(b) : b[a].blockId < blockId}

NegativeAllowed(a, t) == a < FirstUser /\ a = t

\* A second bank that holds only the accounts it has met starts empty and takes
\* what it misses from the committed one (seedFromCommittedIfMissing): an
\* account that was closed in the second bank comes back.
EmptyBank == [a \in Ids |-> NoAccount]

Seedable(b, committed, ids) == \A a \in ids : b[a].live \/ committed[a].live

\* Mistake: accounts the second bank has already are taken again.
SeededAfresh(b, committed, ids) ==
    [a \in Ids |-> IF a \in ids THEN committed[a] ELSE b[a]]

Seeded(b, committed, ids) ==
    [a \in Ids |-> IF a \in ids /\ ~b[a].live THEN committed[a] ELSE b[a]]

----------------------------------------------------------------------------

\* The balance account a may go down to by spending token t.
Floor(a, t) == IF NegativeAllowed(a, t) THEN MinInt ELSE 0

\* Mistake: the custom token is not looked at, only the fee.
CanSpendFeeOnly(b, a, t, amount, fee) ==
    /\ b[a].live
    /\ IF t = GENESIS
       THEN amount + fee + Floor(a, t) <= b[a].bal[t]
       ELSE fee <= b[a].bal[GENESIS]

\* Mistake: the fee is forgotten when it is paid in the token that moves.
CanSpendBeforeFee(b, a, t, amount, fee) ==
    /\ b[a].live
    /\ amount + Floor(a, t) <= b[a].bal[t]
    /\ t # GENESIS => fee <= b[a].bal[GENESIS]

\* The account can pay (verifySpendingPower): the whole sum when the token is
\* the native one, else the amount and the fee each from its own balance.
CanSpend(b, a, t, amount, fee) ==
    /\ amount <= MaxInt
    /\ fee <= MaxInt
    /\ b[a].live
    /\ IF t = GENESIS
       THEN amount + fee + Floor(a, t) <= b[a].bal[t]
       ELSE /\ amount + Floor(a, t) <= b[a].bal[t]
            /\ fee <= b[a].bal[GENESIS]

\* A snapshot `balances` agrees with the account once `fee` is paid: equal in
\* every other token, and lower by the fee in the native one.
BalanceMatches(b, a, fee, balances) ==
    /\ fee <= MaxInt
    /\ b[a].live
    /\ \A t \in Tokens \ {GENESIS} : b[a].bal[t] = balances[t]
    /\ balances[GENESIS] <= MaxInt - fee
    /\ b[a].bal[GENESIS] = balances[GENESIS] + fee

SetBalance(b, a, t, value) == [b EXCEPT ![a].bal[t] = value]

\* Mistake: no check for room.
DepositUnchecked(b, a, t, amount) ==
    IF ~b[a].live
    THEN Refuse(b)
    ELSE Accept(SetBalance(b, a, t, b[a].bal[t] + amount))

Deposit(b, a, t, amount) ==
    IF ~b[a].live \/ b[a].bal[t] > MaxInt - amount
    THEN Refuse(b)
    ELSE Accept(SetBalance(b, a, t, b[a].bal[t] + amount))

\* What a late joiner takes from a payer it knows when it does not know the payee.
Withdraw(b, a, t, amount) ==
    IF \/ ~b[a].live
       \/ ~NegativeAllowed(a, t) /\ b[a].bal[t] < amount
       \/ b[a].bal[t] < MinInt + amount
    THEN Refuse(b)
    ELSE Accept(SetBalance(b, a, t, b[a].bal[t] - amount))

\* The account map after the two writes of a transfer.  Both balances are read
\* before either is written.
Moved(b, from, to, t, amount) ==
    SetBalance(SetBalance(b, from, t, b[from].bal[t] - amount),
               to, t, b[to].bal[t] + amount)

\* The debit of the fee, again from the balance read before the writes.
Charged(b, from, to, t, amount, fee) ==
    SetBalance(Moved(b, from, to, t, amount), from, GENESIS,
               IF t = GENESIS THEN b[from].bal[t] - amount - fee
                              ELSE b[from].bal[GENESIS] - fee)

Transfer(b, from, to, t, amount, fee) ==
    IF \/ ~CanSpend(b, from, t, amount, fee)
       \/ ~b[to].live
       \/ b[to].bal[t] > MaxInt - amount
    THEN Refuse(b)
    ELSE IF fee = 0
         THEN Accept(Moved(b, from, to, t, amount))
         ELSE Deposit(Charged(b, from, to, t, amount, fee), FEE, GENESIS, fee)

\* Mistake: the replaced account keeps the date of the old one.
ReplaceUndated(b, a, blockId, balances) ==
    [b EXCEPT ![a] = [live |-> TRUE, blockId |-> b[a].blockId, bal |-> balances]]

\* remove and add of the same id: the account is replaced.
Replace(b, a, blockId, balances) ==
    [b EXCEPT ![a] = [live |-> TRUE, blockId |-> blockId, bal |-> balances]]

\* What the recycle account holds once account a is written off: positive
\* balances are credited, negative ones are dropped.
Recycled(b, a) ==
    [t \in Tokens |-> IF b[a].bal[t] > 0
                      THEN b[RECYCLE].bal[t] + b[a].bal[t]
                      ELSE b[RECYCLE].bal[t]]

\* Mistake: the account is closed, what it held is left behind.
WriteOffHalf(b, a) ==
    IF ~b[a].live \/ ~b[RECYCLE].live
    THEN Refuse(b)
    ELSE Accept([b EXCEPT ![RECYCLE].bal = Recycled(b, a), ![a].live = FALSE])

WriteOff(b, a) ==
    IF ~b[a].live \/ ~b[RECYCLE].live
    THEN Refuse(b)
    ELSE Accept([b EXCEPT ![RECYCLE].bal = Recycled(b, a), ![a] = NoAccount])

=============================================================================
