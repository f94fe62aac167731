----------------------------- MODULE JoinProofs -----------------------------
(***************************************************************************)
(* Proofs about LateJoin, for all accounts, tokens, fees, routes, windows  *)
(* and heights: the chain a node joins is a chain of Bank, and what the    *)
(* node knows of it is true and, after one window of renewals, complete.   *)
(*                                                                         *)
(* A handler in strict mode on the bank of the chain and the same handler  *)
(* in loose mode on the joiner's bank are compared account by account:     *)
(* what either does to an account it finds depends on that account alone.  *)
(***************************************************************************)
EXTENDS LateJoin, BankProofs

\* Every account of j but the fee account is the account of b.
Knows(j, b) == \A a \in Ids \ {FEE} : j[a].live => j[a] = b[a]

\* Every account of b that a record since Start has restated is in j.
Met(j, b) == \A a \in Accounts(b) \ {GENESIS} : b[a].blockId >= Start => j[a].live

\* What a transfer does to the balances of an account that pays or gets it.
MovedBalances(bal, pays, gets, t, amount, fee) ==
    [s \in Tokens |->
        IF pays /\ s = GENESIS /\ fee > 0
        THEN IF t = GENESIS THEN bal[t] - amount - fee ELSE bal[GENESIS] - fee
        ELSE IF gets /\ s = t THEN bal[t] + amount
        ELSE IF pays /\ s = t THEN bal[t] - amount
        ELSE bal[s]]

\* and to those of an account that pays and gets nothing.
PaidBalancesOf(bal, t, amount, fee) ==
    [s \in Tokens |->
        IF s = GENESIS /\ fee > 0
        THEN IF t = GENESIS THEN bal[t] - amount - fee ELSE bal[GENESIS] - fee
        ELSE IF s = t THEN bal[t] - amount
        ELSE bal[s]]

\* x is account y, but for balances bal.
Becomes(x, y, bal) ==
    /\ x.live = y.live
    /\ x.blockId = y.blockId
    /\ \A s \in Tokens : x.bal[s] = bal[s]

\* Accounts with the same fields are the same.
LEMMA AccountEquality ==
    ASSUME NEW x \in Account, NEW y \in Account, NEW x0, NEW bal,
           Becomes(x, x0, bal), Becomes(y, x0, bal)
    PROVE  x = y
<1>1. x.bal = y.bal
  BY DEF Account, Becomes
<1>2. x.live = y.live /\ x.blockId = y.blockId
  BY DEF Becomes
<1>. QED BY <1>1, <1>2 DEF Account

\* Accounts of a bank are accounts.
LEMMA BankAccount == ASSUME NEW b \in Bank, NEW a \in Ids PROVE b[a] \in Account
BY DEF Bank

----------------------------------------------------------------------------
(* What the operations do to one account.                                  *)

\* A transfer that is accepted, fee account apart: both sides are known, and an
\* account changes by what it pays and gets.
LEMMA TransferResult ==
    ASSUME NEW b \in Bank, NEW from \in Ids, NEW to \in Ids, NEW t \in Tokens,
           NEW amount \in Nat, NEW fee \in Nat,
           Transfer(b, from, to, t, amount, fee).ok
    PROVE  LET c == Transfer(b, from, to, t, amount, fee).bank IN
           /\ c \in Bank
           /\ SameAccounts(b, c)
           /\ b[from].live /\ b[to].live
           /\ \A a \in Ids \ {FEE} :
                 Becomes(c[a], b[a],
                         MovedBalances(b[a].bal, a = from, a = to, t, amount, fee))
<1> DEFINE m == Moved(b, from, to, t, amount)
           p == Charged(b, from, to, t, amount, fee)
           q == Deposit(p, FEE, GENESIS, fee)
           c == Transfer(b, from, to, t, amount, fee).bank
           bal(a) == MovedBalances(b[a].bal, a = from, a = to, t, amount, fee)
<1>1. c \in Bank /\ SameAccounts(b, c)
  BY TransferFacts DEF Kept
<1>2. /\ CanSpend(b, from, t, amount, fee) /\ b[to].live
      /\ \/ fee = 0 /\ c = m
         \/ fee # 0 /\ c = q.bank
  BY DEF Transfer, Refuse, Accept
<1>3. b[from].live
  BY <1>2 DEF CanSpend
<1>4. /\ m \in Bank
      /\ \A a \in Ids, s \in Tokens :
            m[a].bal[s] = IF a = to /\ s = t THEN b[to].bal[t] + amount
                          ELSE IF a = from /\ s = t THEN b[from].bal[t] - amount
                          ELSE b[a].bal[s]
  BY MovedFacts
<1>5. /\ p \in Bank
      /\ t = GENESIS => p[from].bal[GENESIS] = b[from].bal[t] - amount - fee
      /\ t # GENESIS => p[from].bal[GENESIS] = b[from].bal[GENESIS] - fee
      /\ \A a \in Ids, s \in Tokens :
            (a = from /\ s = GENESIS) \/ p[a].bal[s] = m[a].bal[s]
  BY ChargedFacts
<1> HIDE DEF m, p
<1>6. \A a \in Ids \ {FEE} : q.bank[a] = p[a]
  BY <1>5, SystemIds, DepositFacts
<1> HIDE DEF q, c
<1>7. ASSUME NEW a \in Ids \ {FEE} PROVE Becomes(c[a], b[a], bal(a))
  <2>1. c[a].live = b[a].live /\ c[a].blockId = b[a].blockId
    BY <1>1 DEF SameAccounts
  <2>2. ASSUME NEW s \in Tokens PROVE c[a].bal[s] = bal(a)[s]
    <3>1. CASE fee = 0
      BY <3>1, <1>2, <1>4 DEF MovedBalances
    <3>2. CASE fee # 0 /\ a = from /\ s = GENESIS
      BY <3>2, <1>2, <1>5, <1>6 DEF MovedBalances
    <3>3. CASE fee # 0 /\ ~(a = from /\ s = GENESIS)
      <4>1. c[a].bal[s] = m[a].bal[s]
        BY <3>3, <1>2, <1>5, <1>6
      <4>. QED BY <4>1, <3>3, <1>4 DEF MovedBalances
    <3>. QED BY <3>1, <3>2, <3>3
  <2>. QED BY <2>1, <2>2 DEF Becomes
<1>. QED BY <1>1, <1>2, <1>3, <1>7 DEF c

\* A credited fee changes the fee account only.
LEMMA CreditFeeResult ==
    ASSUME NEW b \in Bank, NEW fee \in Nat
    PROVE  LET c == CreditFee(b, fee).bank IN
           /\ c \in Bank
           /\ SameAccounts(b, c)
           /\ \A a \in Ids \ {FEE} : c[a] = b[a]
<1>1. CreditFee(b, fee).bank \in Bank /\ SameAccounts(b, CreditFee(b, fee).bank)
  BY CreditFeeFacts DEF Kept
<1>2. \/ CreditFee(b, fee).bank = b
      \/ CreditFee(b, fee).bank = Deposit(b, FEE, GENESIS, fee).bank
  BY DEF CreditFee, Accept
<1>3. \A a \in Ids \ {FEE} : Deposit(b, FEE, GENESIS, fee).bank[a] = b[a]
  BY SystemIds, DepositFacts
<1>. QED BY <1>1, <1>2, <1>3

\* A withdrawal that is accepted lowers one balance.
LEMMA WithdrawResult ==
    ASSUME NEW b \in Bank, NEW a \in Ids, NEW t \in Tokens, NEW amount \in Nat,
           Withdraw(b, a, t, amount).ok
    PROVE  LET c == Withdraw(b, a, t, amount).bank IN
           /\ c \in Bank
           /\ SameAccounts(b, c)
           /\ \A x \in Ids, s \in Tokens :
                 c[x].bal[s] = IF x = a /\ s = t THEN b[a].bal[t] - amount
                               ELSE b[x].bal[s]
           /\ \A x \in Ids \ {a} : c[x] = b[x]
<1> DEFINE v == b[a].bal[t] - amount
<1>1. Withdraw(b, a, t, amount).bank = SetBalance(b, a, t, v)
  BY DEF Withdraw, Accept, Refuse
<1>2. v \in Int /\ v = b[a].bal[t] - amount
  BY BankShape
<1> HIDE DEF v
<1>. QED BY <1>1, <1>2, SetBalanceFacts, SMTT(30)

\* What a payer loses whose payee is not known.
LEMMA WithdrawnResult ==
    ASSUME NEW b \in Bank, NEW from \in Ids, NEW t \in Tokens,
           NEW amount \in Nat, NEW fee \in Nat,
           Withdrawn(b, from, t, amount, fee).ok
    PROVE  LET c == Withdrawn(b, from, t, amount, fee).bank IN
           /\ c \in Bank
           /\ SameAccounts(b, c)
           /\ \A a \in Ids \ {from} : c[a] = b[a]
           /\ Becomes(c[from], b[from],
                      PaidBalancesOf(b[from].bal, t, amount, fee))
<1> DEFINE c == Withdrawn(b, from, t, amount, fee).bank
           one == Withdraw(b, from, t, amount)
           bal == PaidBalancesOf(b[from].bal, t, amount, fee)
<1>1. CASE t = GENESIS
  <2> DEFINE all == Withdraw(b, from, t, amount + fee)
  <2>1. all.ok /\ c = all.bank
    BY <1>1 DEF Withdrawn
  <2>2. amount + fee \in Nat
    OBVIOUS
  <2>3. /\ c \in Bank /\ SameAccounts(b, c)
        /\ \A s \in Tokens :
              c[from].bal[s] = IF s = t THEN b[from].bal[t] - (amount + fee)
                               ELSE b[from].bal[s]
        /\ \A a \in Ids \ {from} : c[a] = b[a]
    BY <2>1, <2>2, WithdrawResult
  <2> HIDE DEF c
  <2>4. \A s \in Tokens : c[from].bal[s] = bal[s]
    <3>1. b[from].bal[t] \in Int
      BY BankShape
    <3>. QED BY <3>1, <2>3, <1>1 DEF PaidBalancesOf
  <2>. QED BY <2>3, <2>4 DEF c, Becomes, SameAccounts
<1>2. CASE t # GENESIS
  <2>1. /\ one.ok
        /\ \/ fee > 0 /\ Withdraw(one.bank, from, GENESIS, fee).ok
                      /\ c = Withdraw(one.bank, from, GENESIS, fee).bank
           \/ ~(fee > 0) /\ c = one.bank
    BY <1>2 DEF Withdrawn
  <2>2. /\ one.bank \in Bank /\ SameAccounts(b, one.bank)
        /\ \A s \in Tokens :
              one.bank[from].bal[s] = IF s = t THEN b[from].bal[t] - amount
                                      ELSE b[from].bal[s]
        /\ \A a \in Ids \ {from} : one.bank[a] = b[a]
    BY <2>1, WithdrawResult
  <2> HIDE DEF one, c
  <2>3. CASE fee > 0
    <3>1. /\ c \in Bank /\ SameAccounts(one.bank, c)
          /\ \A s \in Tokens :
                c[from].bal[s] = IF s = GENESIS
                                 THEN one.bank[from].bal[GENESIS] - fee
                                 ELSE one.bank[from].bal[s]
          /\ \A a \in Ids \ {from} : c[a] = one.bank[a]
      BY <2>1, <2>2, <2>3, SystemIds, WithdrawResult
    <3>2. \A s \in Tokens : c[from].bal[s] = bal[s]
      BY <1>2, <2>2, <2>3, <3>1, SystemIds DEF PaidBalancesOf
    <3>3. SameAccounts(b, c)
      BY <2>2, <3>1, SameAccountsTransitive
    <3>. QED BY <2>2, <3>1, <3>2, <3>3 DEF c, Becomes, SameAccounts
  <2>4. CASE ~(fee > 0)
    <3>1. c = one.bank
      BY <2>1, <2>4
    <3>2. \A s \in Tokens : c[from].bal[s] = bal[s]
      BY <2>2, <2>4, <3>1 DEF PaidBalancesOf
    <3>. QED BY <2>2, <3>1, <3>2 DEF c, Becomes, SameAccounts
  <2>. QED BY <2>3, <2>4
<1>. QED BY <1>1, <1>2

----------------------------------------------------------------------------
(* The same record on the bank of the chain and on the joiner's.           *)

\* What the joiner has after a record it accepts: accounts stay known, those of
\* ids are known, and what is known is true of c.
Follows(j, r, c, ids) ==
    /\ r.bank \in Bank
    /\ \A a \in Ids : j[a].live => r.bank[a].live
    /\ \A a \in ids : r.bank[a].live
    /\ Knows(r.bank, c)

\* Accounts that become the same balances stay equal.
LEMMA KnowsBecoming ==
    ASSUME NEW j \in Bank, NEW b \in Bank, NEW k \in Bank, NEW c \in Bank,
           Knows(j, b), SameAccounts(j, k),
           \A a \in Ids \ {FEE} :
              j[a].live => \E bal : Becomes(k[a], j[a], bal) /\ Becomes(c[a], b[a], bal)
    PROVE  Knows(k, c)
<1> SUFFICES ASSUME NEW a \in Ids \ {FEE}, k[a].live PROVE k[a] = c[a]
  BY DEF Knows
<1>1. j[a].live /\ j[a] = b[a]
  BY DEF Knows, SameAccounts
<1>2. PICK bal : Becomes(k[a], j[a], bal) /\ Becomes(c[a], b[a], bal)
  BY <1>1
<1>. QED BY <1>1, <1>2, BankAccount, AccountEquality

\* A transfer that both carry out in full.
LEMMA TransferFollows ==
    ASSUME NEW j \in Bank, NEW b \in Bank, Knows(j, b),
           NEW from \in Ids, NEW to \in Ids, NEW t \in Tokens,
           NEW amount \in Nat, NEW fee \in Nat,
           Transfer(b, from, to, t, amount, fee).ok,
           Transfer(j, from, to, t, amount, fee).ok
    PROVE  Follows(j, Transfer(j, from, to, t, amount, fee),
                   Transfer(b, from, to, t, amount, fee).bank, {from, to})
<1> DEFINE r == Transfer(j, from, to, t, amount, fee)
           k == r.bank
           c == Transfer(b, from, to, t, amount, fee).bank
           bal(a) == MovedBalances(b[a].bal, a = from, a = to, t, amount, fee)
<1>1. /\ k \in Bank /\ SameAccounts(j, k) /\ j[from].live /\ j[to].live
      /\ \A a \in Ids \ {FEE} :
            Becomes(k[a], j[a],
                    MovedBalances(j[a].bal, a = from, a = to, t, amount, fee))
  BY TransferResult
<1>2. /\ c \in Bank
      /\ \A a \in Ids \ {FEE} : Becomes(c[a], b[a], bal(a))
  BY TransferResult
<1> HIDE DEF k, c
<1>3. ASSUME NEW a \in Ids \ {FEE}, j[a].live
      PROVE  Becomes(k[a], j[a], bal(a)) /\ Becomes(c[a], b[a], bal(a))
  <2>1. j[a] = b[a]
    BY <1>3 DEF Knows
  <2>. QED BY <2>1, <1>1, <1>2
<1>4. Knows(k, c)
  <2> HIDE DEF bal
  <2>. QED BY <1>1, <1>2, <1>3, KnowsBecoming
<1>. QED BY <1>1, <1>4 DEF Follows, SameAccounts, k, c

\* What the joiner makes of a transfer to a payee it does not know.
LEMMA UnknownPayee ==
    ASSUME NEW j \in Bank, NEW from \in Ids, NEW t \in Tokens,
           NEW amount \in Nat, NEW fee \in Nat,
           Withdrawn(j, from, t, amount, fee).ok
    PROVE  LET k == CreditFee(Withdrawn(j, from, t, amount, fee).bank, fee).bank IN
           /\ k \in Bank
           /\ SameAccounts(j, k)
           /\ \A a \in Ids \ {FEE, from} : k[a] = j[a]
           /\ from # FEE =>
                 Becomes(k[from], j[from],
                         PaidBalancesOf(j[from].bal, t, amount, fee))
<1> DEFINE w == Withdrawn(j, from, t, amount, fee)
           k == CreditFee(w.bank, fee).bank
<1>1. /\ w.bank \in Bank /\ SameAccounts(j, w.bank)
      /\ \A a \in Ids \ {from} : w.bank[a] = j[a]
      /\ Becomes(w.bank[from], j[from],
                 PaidBalancesOf(j[from].bal, t, amount, fee))
  BY WithdrawnResult
<1> HIDE DEF w
<1>2. /\ k \in Bank /\ SameAccounts(w.bank, k)
      /\ \A a \in Ids \ {FEE} : k[a] = w.bank[a]
  BY <1>1, CreditFeeResult
<1> HIDE DEF k
<1>3. SameAccounts(j, k)
  BY <1>1, <1>2, SameAccountsTransitive
<1>. QED BY <1>1, <1>2, <1>3 DEF k, w

\* and of one from a payer it does not know.
LEMMA UnknownPayer ==
    ASSUME NEW j \in Bank, NEW from \in Ids, NEW to \in Ids, NEW t \in Tokens,
           NEW amount \in Nat, NEW fee \in Nat,
           ~j[from].live, j[to].live,
           LooseDefault(j, from, to, t, amount, fee).ok
    PROVE  LET k == LooseDefault(j, from, to, t, amount, fee).bank IN
           /\ k \in Bank
           /\ SameAccounts(j, k)
           /\ \A a \in Ids \ {from} :
                 Becomes(k[a], j[a],
                         MovedBalances(j[a].bal, a = from, a = to, t, amount, fee))
<1> DEFINE v == j[to].bal[t] + amount
           k == LooseDefault(j, from, to, t, amount, fee).bank
<1>1. v \in Int
  BY BankShape
<1>2. k = SetBalance(j, to, t, v)
  BY DEF LooseDefault, Deposit, Accept, Refuse
<1> HIDE DEF v, k
<1>3. /\ SetBalance(j, to, t, v) \in Bank
      /\ SameAccounts(j, SetBalance(j, to, t, v))
      /\ \A a \in Ids, s \in Tokens :
            SetBalance(j, to, t, v)[a].bal[s] = IF a = to /\ s = t THEN v ELSE j[a].bal[s]
  BY <1>1, SetBalanceFacts
<1>4. /\ k \in Bank /\ SameAccounts(j, k)
      /\ \A a \in Ids, s \in Tokens :
            k[a].bal[s] = IF a = to /\ s = t THEN v ELSE j[a].bal[s]
  BY <1>2, <1>3
<1>5. \A a \in Ids \ {from} :
         Becomes(k[a], j[a],
                 MovedBalances(j[a].bal, a = from, a = to, t, amount, fee))
  BY <1>4 DEF v, Becomes, MovedBalances, SameAccounts
<1>. QED BY <1>4, <1>5 DEF k

\* A transfer of the chain, whichever of its two sides the joiner knows.
LEMMA DefaultFollows ==
    ASSUME NEW j \in Bank, NEW b \in Bank, Knows(j, b),
           NEW from \in Ids, NEW to \in Ids, NEW t \in Tokens,
           NEW amount \in Nat, NEW fee \in Nat,
           Transfer(b, from, to, t, amount, fee).ok,
           LooseDefault(j, from, to, t, amount, fee).ok
    PROVE  Follows(j, LooseDefault(j, from, to, t, amount, fee),
                   Transfer(b, from, to, t, amount, fee).bank, {})
<1> DEFINE r == LooseDefault(j, from, to, t, amount, fee)
           k == r.bank
           c == Transfer(b, from, to, t, amount, fee).bank
           bal(a) == MovedBalances(b[a].bal, a = from, a = to, t, amount, fee)
<1>1. /\ c \in Bank
      /\ \A a \in Ids \ {FEE} : Becomes(c[a], b[a], bal(a))
  BY TransferResult
<1>2. j[from].live \in BOOLEAN /\ j[to].live \in BOOLEAN
  BY BankShape
<1>3. \A a \in Ids, s \in Tokens : j[a].bal[s] \in Int
  BY BankShape
<1>4. SUFFICES /\ k \in Bank /\ SameAccounts(j, k)
               /\ \A a \in Ids \ {FEE} : j[a].live =>
                     Becomes(k[a], j[a],
                             MovedBalances(j[a].bal, a = from, a = to, t, amount, fee))
  <2>1. \A a \in Ids \ {FEE} :
           j[a].live => Becomes(k[a], j[a], bal(a)) /\ Becomes(c[a], b[a], bal(a))
    BY <1>1, <1>4 DEF Knows
  <2> HIDE DEF k, c, bal
  <2>2. Knows(k, c)
    BY <1>1, <1>4, <2>1, KnowsBecoming
  <2>. QED BY <1>4, <2>2 DEF Follows, SameAccounts, k, c
<1>5. CASE j[from].live /\ j[to].live
  <2>1. r = Transfer(j, from, to, t, amount, fee)
    BY <1>5 DEF LooseDefault
  <2>. QED BY <2>1, TransferResult
<1>6. CASE j[from].live /\ ~j[to].live
  <2>1. /\ Withdrawn(j, from, t, amount, fee).ok
        /\ k = CreditFee(Withdrawn(j, from, t, amount, fee).bank, fee).bank
    BY <1>6 DEF LooseDefault
  <2> HIDE DEF k, r, c, bal
  <2>2. /\ k \in Bank /\ SameAccounts(j, k)
        /\ \A a \in Ids \ {FEE, from} : k[a] = j[a]
        /\ from # FEE =>
              Becomes(k[from], j[from],
                      PaidBalancesOf(j[from].bal, t, amount, fee))
    BY <2>1, UnknownPayee
  <2>3. ASSUME NEW a \in Ids \ {FEE}, j[a].live
        PROVE  Becomes(k[a], j[a],
                       MovedBalances(j[a].bal, a = from, a = to, t, amount, fee))
    <3>1. a # to
      BY <1>6, <2>3
    <3>2. CASE a = from
      BY <3>1, <3>2, <2>2 DEF Becomes, MovedBalances, PaidBalancesOf
    <3>3. CASE a # from
      BY <3>1, <3>3, <2>2 DEF Becomes, MovedBalances
    <3>. QED BY <3>2, <3>3
  <2>. QED BY <2>2, <2>3
<1>7. CASE ~j[from].live /\ j[to].live
  BY <1>7, UnknownPayer
<1>8. CASE ~j[from].live /\ ~j[to].live
  <2>1. k = j
    BY <1>8 DEF LooseDefault, Accept
  <2>2. SameAccounts(j, j)
    BY DEF SameAccounts
  <2>3. ASSUME NEW a \in Ids \ {FEE}, j[a].live
        PROVE  Becomes(j[a], j[a],
                       MovedBalances(j[a].bal, a = from, a = to, t, amount, fee))
    <3>1. a # from /\ a # to
      BY <1>8, <2>3
    <3>. QED BY <3>1 DEF Becomes, MovedBalances
  <2>. QED BY <2>1, <2>2, <2>3
<1>. QED BY <1>2, <1>5, <1>6, <1>7, <1>8

\* An account that both banks replace by the same.
LEMMA ReplaceFollows ==
    ASSUME NEW j \in Bank, NEW b \in Bank, Knows(j, b), NEW a \in Ids,
           NEW blockId \in Nat, NEW balances \in [Tokens -> Int]
    PROVE  /\ Replace(j, a, blockId, balances) \in Bank
           /\ Replace(b, a, blockId, balances) \in Bank
           /\ Replace(j, a, blockId, balances)[a].live
           /\ \A x \in Ids : j[x].live => Replace(j, a, blockId, balances)[x].live
           /\ Knows(Replace(j, a, blockId, balances), Replace(b, a, blockId, balances))
<1> DEFINE k == Replace(j, a, blockId, balances)
           c == Replace(b, a, blockId, balances)
<1>1. /\ k \in Bank /\ k[a] = [live |-> TRUE, blockId |-> blockId, bal |-> balances]
      /\ \A x \in Ids \ {a} : k[x] = j[x]
  BY ReplaceFacts
<1>2. /\ c \in Bank /\ c[a] = [live |-> TRUE, blockId |-> blockId, bal |-> balances]
      /\ \A x \in Ids \ {a} : c[x] = b[x]
  BY ReplaceFacts
<1> HIDE DEF k, c
<1>. QED BY <1>1, <1>2 DEF Knows, k, c

\* A snapshot makes its account known, or finds it as the chain does.
LEMMA SnapshotFollows ==
    ASSUME NEW j \in Bank, NEW b \in Bank, Knows(j, b), NEW a \in Ids,
           height \in Nat, NEW balances \in [Tokens -> Int],
           NEW fee \in Nat, NEW f \in Nat,
           ApplySnapshot(b, height, a, balances, fee, f).ok,
           LooseSnapshot(j, a, balances, fee).ok
    PROVE  Follows(j, LooseSnapshot(j, a, balances, fee),
                   ApplySnapshot(b, height, a, balances, fee, f).bank, {a})
<1> DEFINE k == Replace(j, a, height, balances)
           c == Replace(b, a, height, balances)
           r == LooseSnapshot(j, a, balances, fee)
           s == ApplySnapshot(b, height, a, balances, fee, f)
<1>1. s.bank = CreditFee(c, fee).bank
  BY DEF ApplySnapshot, Refuse
<1>2. r.bank = CreditFee(k, fee).bank
  BY DEF LooseSnapshot, ApplySnapshot, Refuse
<1>3. /\ k \in Bank /\ c \in Bank /\ k[a].live
      /\ \A x \in Ids : j[x].live => k[x].live
      /\ Knows(k, c)
  BY ReplaceFollows
<1> HIDE DEF k, c, r, s
<1>4. /\ s.bank \in Bank /\ \A x \in Ids \ {FEE} : s.bank[x] = c[x]
      /\ r.bank \in Bank /\ \A x \in Ids \ {FEE} : r.bank[x] = k[x]
      /\ SameAccounts(k, r.bank)
  BY <1>1, <1>2, <1>3, CreditFeeResult
<1>. QED BY <1>3, <1>4 DEF Follows, Knows, SameAccounts, r, s

\* A new account is made in both.
LEMMA NewUserFollows ==
    ASSUME NEW j \in Bank, NEW b \in Bank, Knows(j, b), height \in Nat,
           NEW from \in Ids, NEW to \in Ids, NEW amount \in Nat,
           NEW fee \in Nat, NEW f \in Nat,
           ApplyNewUser(b, height, from, to, amount, fee, f).ok,
           LooseNewUser(j, from, to, amount, fee).ok
    PROVE  Follows(j, LooseNewUser(j, from, to, amount, fee),
                   ApplyNewUser(b, height, from, to, amount, fee, f).bank, {to})
<1> DEFINE k == Replace(j, to, height, NoBalance)
           c == Replace(b, to, height, NoBalance)
           r == LooseNewUser(j, from, to, amount, fee)
           s == ApplyNewUser(b, height, from, to, amount, fee, f)
<1>1. s = Transfer(c, from, to, GENESIS, amount, fee)
  BY DEF ApplyNewUser, Refuse
<1>2. r = Transfer(k, from, to, GENESIS, amount, fee)
  BY DEF LooseNewUser, ApplyNewUser, Refuse
<1>3. /\ k \in Bank /\ c \in Bank
      /\ \A x \in Ids : j[x].live => k[x].live
      /\ Knows(k, c)
  BY ReplaceFollows DEF NoBalance
<1>4. s.ok /\ r.ok
  OBVIOUS
<1> HIDE DEF k, c, r, s
<1>5. Follows(k, r, s.bank, {from, to})
  BY <1>1, <1>2, <1>3, <1>4, SystemIds, TransferFollows
<1>. QED BY <1>3, <1>5 DEF Follows, r, s

\* A configuration restates GENESIS in both.
LEMMA ConfigFollows ==
    ASSUME NEW j \in Bank, NEW b \in Bank, Knows(j, b), height \in Nat,
           NEW balances \in [Tokens -> Int],
           ApplyConfig(b, height, balances).ok, ApplyConfig(j, height, balances).ok
    PROVE  Follows(j, ApplyConfig(j, height, balances),
                   ApplyConfig(b, height, balances).bank, {})
<1>1. /\ ApplyConfig(j, height, balances).bank = Replace(j, GENESIS, height, balances)
      /\ ApplyConfig(b, height, balances).bank = Replace(b, GENESIS, height, balances)
  BY DEF ApplyConfig, Accept, Refuse
<1>. QED BY <1>1, SystemIds, ReplaceFollows DEF Follows

\* A snapshot of an account the joiner passes over changes nothing it knows.
LEMMA PassedOver ==
    ASSUME NEW j \in Bank, NEW b \in Bank, Knows(j, b), NEW a \in Ids, ~j[a].live,
           NEW blockId \in Nat, NEW balances \in [Tokens -> Int],
           NEW fee \in Nat, NEW f \in Nat,
           ApplySnapshot(b, blockId, a, balances, fee, f).ok
    PROVE  Follows(j, Accept(j), ApplySnapshot(b, blockId, a, balances, fee, f).bank, {})
<1> DEFINE c == Replace(b, a, blockId, balances)
           s == ApplySnapshot(b, blockId, a, balances, fee, f)
<1>1. s.bank = CreditFee(c, fee).bank
  BY DEF ApplySnapshot, Refuse
<1>2. c \in Bank /\ \A x \in Ids \ {a} : c[x] = b[x]
  BY DEF Replace, Bank, Account
<1> HIDE DEF c, s
<1>3. \A x \in Ids \ {FEE} : s.bank[x] = c[x]
  BY <1>1, <1>2, CreditFeeResult
<1>. QED BY <1>2, <1>3 DEF Follows, Knows, Accept, s

----------------------------------------------------------------------------
(* The accounts a record dates.                                            *)

\* Between b and c only accounts of ids are dated, with block blockId.
Dates(b, c, blockId, ids) ==
    /\ \A a \in Ids \ ids : /\ c[a].live => b[a].live
                            /\ c[a].blockId = b[a].blockId
    /\ \A a \in ids : c[a].live => c[a].blockId = blockId

\* A snapshot dates its account.
LEMMA SnapshotDates ==
    ASSUME NEW b \in Bank, NEW blockId \in Nat, NEW a \in Ids,
           NEW balances \in [Tokens -> Int], NEW fee \in Nat, NEW f \in Nat,
           ApplySnapshot(b, blockId, a, balances, fee, f).ok
    PROVE  LET c == ApplySnapshot(b, blockId, a, balances, fee, f).bank IN
           c \in Bank /\ Dates(b, c, blockId, {a})
<1> DEFINE s == ApplySnapshot(b, blockId, a, balances, fee, f)
<1>1. s.ok /\ s.bank \in Bank /\ SnapshotEffect(b, blockId, a, balances, s)
  BY ApplySnapshotFacts
<1> HIDE DEF s
<1>. QED BY <1>1 DEF SnapshotEffect, Dates, s

\* A new account is dated, and no other.
LEMMA NewUserDates ==
    ASSUME NEW b \in Bank, NEW blockId \in Nat, NEW from \in Ids, NEW to \in Ids,
           NEW amount \in Nat, NEW fee \in Nat, NEW f \in Nat,
           ApplyNewUser(b, blockId, from, to, amount, fee, f).ok
    PROVE  LET c == ApplyNewUser(b, blockId, from, to, amount, fee, f).bank IN
           c \in Bank /\ Dates(b, c, blockId, {to})
<1> DEFINE k == Replace(b, to, blockId, NoBalance)
           c == ApplyNewUser(b, blockId, from, to, amount, fee, f).bank
<1>1. /\ Transfer(k, from, to, GENESIS, amount, fee).ok
      /\ c = Transfer(k, from, to, GENESIS, amount, fee).bank
  BY DEF ApplyNewUser, Refuse
<1>2. /\ k \in Bank
      /\ k[to] = [live |-> TRUE, blockId |-> blockId, bal |-> NoBalance]
      /\ \A x \in Ids \ {to} : k[x] = b[x]
  BY ReplaceFacts DEF NoBalance
<1> HIDE DEF k, c
<1>3. c \in Bank /\ SameAccounts(k, c)
  BY <1>1, <1>2, SystemIds, TransferResult
<1>. QED BY <1>2, <1>3 DEF Dates, SameAccounts, c

\* A configuration dates GENESIS.
LEMMA ConfigDates ==
    ASSUME NEW b \in Bank, NEW blockId \in Nat, NEW balances \in [Tokens -> Int],
           ApplyConfig(b, blockId, balances).ok
    PROVE  LET c == ApplyConfig(b, blockId, balances).bank IN
           c \in Bank /\ Dates(b, c, blockId, {GENESIS})
<1> DEFINE k == Replace(b, GENESIS, blockId, balances)
           c == ApplyConfig(b, blockId, balances).bank
<1>1. c = k
  BY DEF ApplyConfig, Accept, Refuse
<1>2. /\ k \in Bank
      /\ k[GENESIS] = [live |-> TRUE, blockId |-> blockId, bal |-> balances]
      /\ \A x \in Ids \ {GENESIS} : k[x] = b[x]
  BY SystemIds, ReplaceFacts
<1> HIDE DEF k, c
<1>. QED BY <1>1, <1>2 DEF Dates, c

\* A termination dates nobody.
LEMMA EndDates ==
    ASSUME NEW b \in Bank, NEW blockId \in Nat, NEW a \in Ids, NEW f \in Nat,
           ApplyEndUser(b, a, f).ok
    PROVE  LET c == ApplyEndUser(b, a, f).bank IN
           c \in Bank /\ Dates(b, c, blockId, {a})
<1> DEFINE e == ApplyEndUser(b, a, f)
<1>1. /\ e.ok /\ Kept(b, e.bank)
      /\ \A c \in Ids \ {a} : /\ e.bank[c].live = b[c].live
                              /\ e.bank[c].blockId = b[c].blockId
      /\ ~e.bank[a].live
  BY ApplyEndUserFacts
<1> HIDE DEF e
<1>. QED BY <1>1 DEF Kept, Dates, e

----------------------------------------------------------------------------
(* The inductive invariant: what the joiner knows is true, and it knows    *)
(* whoever a record since Start has dated; until Start it knows nobody and *)
(* nobody is dated later than the block at hand.                           *)

JoinInv ==
    /\ \A a \in Accounts(bank) : bank[a].blockId <= height
    /\ height < Start => joiner = EmptyBank
    /\ ~stuck => joiner \in Bank /\ Knows(joiner, bank) /\ Met(joiner, bank)

\* The joiner that knows nobody knows all there is before Start.
LEMMA KnowsNobody ==
    /\ EmptyBank \in Bank
    /\ \A a \in Ids : ~EmptyBank[a].live
BY DEF EmptyBank, Bank, Account, NoAccount, NoBalance

\* The checkpoint lies above the genesis block.
LEMMA StartNat == Start \in Nat /\ Start > 0
BY BankAssumption, JoinAssumption DEF Start

\* A record of the chain that dates ids, and that the joiner follows if it
\* accepts it.
LEMMA ReplayStep ==
    ASSUME Inv, JoinInv, NEW r, NEW ids \in SUBSET Ids,
           height' = height, bank' \in Bank, Dates(bank, bank', height, ids),
           Replays(r),
           (joiner \in Bank /\ Knows(joiner, bank) /\ r.ok) =>
              Follows(joiner, r, bank', ids \ {GENESIS})
    PROVE  JoinInv'
<1>1. height \in Nat /\ bank \in Bank
  BY BankAssumption DEF Inv, TypeOK
<1>2. \A a \in Ids : bank'[a].live =>
         /\ bank'[a].blockId <= height
         /\ a \notin ids => bank[a].live /\ bank'[a].blockId = bank[a].blockId
  BY <1>1 DEF JoinInv, Dates, Accounts
<1>3. CASE height < Start
  <2>1. joiner' = EmptyBank /\ joiner = EmptyBank
    BY <1>3 DEF Replays, JoinInv
  <2>2. \A a \in Ids : bank'[a].live => ~(bank'[a].blockId >= Start)
    BY <1>1, <1>2, <1>3, StartNat, BankShape
  <2>3. Knows(EmptyBank, bank') /\ Met(EmptyBank, bank')
    BY <2>2, KnowsNobody DEF Knows, Met, Accounts
  <2>. QED BY <1>2, <2>1, <2>3, KnowsNobody DEF JoinInv, Accounts, Knows, Met
<1>4. CASE ~(height < Start) /\ stuck
  BY <1>2, <1>4 DEF Replays, JoinInv, Accounts
<1>5. CASE ~(height < Start) /\ ~stuck /\ ~r.ok
  BY <1>2, <1>5 DEF Replays, JoinInv, Accounts
<1>6. CASE ~(height < Start) /\ ~stuck /\ r.ok
  <2>1. joiner \in Bank /\ Knows(joiner, bank) /\ Met(joiner, bank)
    BY <1>6 DEF JoinInv
  <2>2. joiner' = r.bank
    BY <1>6 DEF Replays
  <2>3. /\ joiner' \in Bank
        /\ \A a \in Ids : joiner[a].live => joiner'[a].live
        /\ \A a \in ids \ {GENESIS} : joiner'[a].live
        /\ Knows(joiner', bank')
    BY <1>6, <2>1, <2>2 DEF Follows
  <2>4. Met(joiner', bank')
    <3> SUFFICES ASSUME NEW a \in Ids \ {GENESIS}, bank'[a].live,
                        bank'[a].blockId >= Start
        PROVE  joiner'[a].live
      BY DEF Met, Accounts
    <3>1. CASE a \in ids
      BY <2>3, <3>1
    <3>2. CASE a \notin ids
      <4>1. bank[a].live /\ bank[a].blockId >= Start
        BY <1>2, <3>2
      <4>. QED BY <2>1, <2>3, <4>1 DEF Met, Accounts
    <3>. QED BY <3>1, <3>2
  <2>. QED BY <1>2, <1>6, <2>3, <2>4 DEF JoinInv, Accounts, Knows, Met
<1>. QED BY <1>3, <1>4, <1>5, <1>6

\* The joiner's chain at the start: the genesis block, and a bank that is empty.
LEMMA JoinInitInv == JoinInit => JoinInv
<1> SUFFICES ASSUME JoinInit PROVE JoinInv
  OBVIOUS
<1>1. /\ bank = GenesisBank /\ height = 0 /\ joiner = EmptyBank /\ stuck = FALSE
  BY DEF JoinInit, Init
<1>2. \A a \in Ids : GenesisBank[a].blockId = 0
  BY DEF GenesisBank, NoAccount
<1>3. Knows(EmptyBank, bank) /\ Met(EmptyBank, bank)
  BY <1>1, <1>2, StartNat, KnowsNobody DEF Knows, Met, Accounts
<1>. QED BY <1>1, <1>2, <1>3, KnowsNobody, StartNat DEF JoinInv, Accounts

\* A new block changes neither bank.
LEMMA OpenJoins == Inv /\ JoinInv /\ Open => JoinInv'
<1> SUFFICES ASSUME Inv, JoinInv, Open PROVE JoinInv'
  OBVIOUS
<1>1. /\ bank' = bank /\ height' = height + 1 /\ joiner' = joiner /\ stuck' = stuck
      /\ height \in Nat /\ \A a \in Ids : bank[a].blockId \in Nat
  BY BankAssumption, BankShape DEF Open, OpenBlock, joinVars, Inv, TypeOK
<1>. QED BY <1>1, StartNat DEF JoinInv, Accounts, Knows, Met

\* What the records in a block are given and what they leave.
LEMMA RecordContext ==
    ASSUME Inv
    PROVE  /\ bank \in Bank /\ height \in Nat /\ minFee \in Nat
           /\ records \in Nat /\ records + 1 # records
BY BankAssumption DEF Inv, TypeOK

\* A renewal or a termination.
LEMMA RenewJoins ==
    ASSUME Inv, JoinInv, NEW a \in Ids, Renew(a)
    PROVE  JoinInv'
<1> DEFINE rec == due[a]
           s == ApplySnapshot(bank, height, a, rec.balances, rec.fee, minFee)
           e == ApplyEndUser(bank, a, minFee)
           r == LooseRecord(joiner, a, rec)
<1>1. /\ a \in DOMAIN due /\ height' = height /\ Replays(r)
      /\ \/ rec.kind = "renewal" /\ s.ok /\ bank' = s.bank
         \/ rec.kind = "end" /\ e.ok /\ bank' = e.bank
  BY DEF Renew, ApplyRenewal, IsNextDue, ApplyRecord, Inv, TypeOK
<1>2. rec.fee \in Nat /\ rec.balances \in [Tokens -> Int]
  BY <1>1 DEF Inv, TypeOK
<1>3. CASE rec.kind = "renewal" /\ s.ok /\ bank' = s.bank
  <2>1. s.bank \in Bank /\ Dates(bank, s.bank, height, {a})
    BY <1>2, <1>3, RecordContext, SnapshotDates
  <2>2. CASE a = GENESIS /\ ~joiner[GENESIS].live
    <3>1. r = Accept(joiner)
      BY <1>3, <2>2 DEF LooseRecord
    <3>2. ASSUME joiner \in Bank, Knows(joiner, bank), r.ok
          PROVE  Follows(joiner, r, bank', {})
      <4>1. Follows(joiner, Accept(joiner), s.bank, {})
        BY <1>2, <1>3, <2>2, <3>2, RecordContext, PassedOver
      <4>. QED BY <1>3, <3>1, <4>1
    <3>3. {a} \ {GENESIS} = {}
      BY <2>2
    <3> HIDE DEF s, r
    <3>. QED BY <1>1, <1>3, <2>1, <3>2, <3>3, ReplayStep
  <2>3. CASE ~(a = GENESIS /\ ~joiner[GENESIS].live)
    <3>1. r = LooseSnapshot(joiner, a, rec.balances, rec.fee)
      BY <1>3, <2>3 DEF LooseRecord
    <3>2. ASSUME joiner \in Bank, Knows(joiner, bank), r.ok
          PROVE  Follows(joiner, r, bank', {a})
      <4>1. Follows(joiner, LooseSnapshot(joiner, a, rec.balances, rec.fee), s.bank, {a})
        BY <1>2, <1>3, <3>1, <3>2, RecordContext, SnapshotFollows
      <4>. QED BY <1>3, <3>1, <4>1
    <3> HIDE DEF s, r
    <3>3. (joiner \in Bank /\ Knows(joiner, bank) /\ r.ok) =>
             Follows(joiner, r, bank', {a} \ {GENESIS})
      BY <3>2 DEF Follows
    <3>. QED BY <1>1, <1>3, <2>1, <3>3, ReplayStep
  <2>. QED BY <2>2, <2>3
<1>4. CASE rec.kind = "end" /\ e.ok /\ bank' = e.bank
  <2>1. e.bank \in Bank /\ Dates(bank, e.bank, height, {a})
    BY <1>4, RecordContext, EndDates
  <2>2. ~r.ok
    <3>1. a # GENESIS
      BY <1>1, <1>4 DEF Inv, DueSound
    <3>. QED BY <1>4, <3>1 DEF LooseRecord, Refuse
  <2> HIDE DEF e, r
  <2>. QED BY <1>1, <1>4, <2>1, <2>2, ReplayStep
<1>. QED BY <1>1, <1>3, <1>4

\* A transfer.
LEMMA SendJoins ==
    ASSUME Inv, JoinInv, NEW from \in Ids, NEW to \in Ids, NEW t \in Tokens,
           NEW amount \in Amounts, NEW fee \in Fees,
           Send(from, to, t, amount, fee)
    PROVE  JoinInv'
<1> DEFINE s == Transfer(bank, from, to, t, amount, fee)
           r == LooseDefault(joiner, from, to, t, amount, fee)
<1>1. /\ s.ok /\ bank' = s.bank /\ height' = height /\ Replays(r)
  BY RecordContext
     DEF Send, TransferTx, ClientRecord, Stored, ApplyDefault, Refuse
<1>2. amount \in Nat /\ fee \in Nat
  BY BankAssumption
<1>3. s.bank \in Bank /\ SameAccounts(bank, s.bank)
  BY <1>1, <1>2, RecordContext, TransferResult
<1>4. Dates(bank, bank', height, {})
  BY <1>1, <1>3 DEF Dates, SameAccounts
<1>5. ASSUME joiner \in Bank, Knows(joiner, bank), r.ok
      PROVE  Follows(joiner, r, bank', {})
  <2>1. Follows(joiner, r, s.bank, {})
    BY <1>1, <1>2, <1>5, RecordContext, DefaultFollows
  <2>. QED BY <1>1, <2>1
<1>6. {} \ {GENESIS} = {}
  OBVIOUS
<1> HIDE DEF s, r
<1>. QED BY <1>1, <1>3, <1>4, <1>5, <1>6, ReplayStep

\* A new account.
LEMMA RegisterJoins ==
    ASSUME Inv, JoinInv, NEW from \in Ids, NEW to \in Ids,
           NEW amount \in Amounts, NEW fee \in Fees,
           Register(from, to, amount, fee)
    PROVE  JoinInv'
<1> DEFINE s == ApplyNewUser(bank, height, from, to, amount, fee, minFee)
           r == LooseNewUser(joiner, from, to, amount, fee)
<1>1. s.ok /\ bank' = s.bank /\ height' = height /\ Replays(r)
  BY RecordContext DEF Register, NewUserTx, ClientRecord, Stored
<1>2. amount \in Nat /\ fee \in Nat
  BY BankAssumption
<1>3. s.bank \in Bank /\ Dates(bank, s.bank, height, {to})
  BY <1>1, <1>2, RecordContext, NewUserDates
<1>4. ASSUME joiner \in Bank, Knows(joiner, bank), r.ok
      PROVE  Follows(joiner, r, bank', {to})
  <2>1. Follows(joiner, r, s.bank, {to})
    BY <1>1, <1>2, <1>4, RecordContext, NewUserFollows
  <2>. QED BY <1>1, <2>1
<1> HIDE DEF s, r
<1>5. (joiner \in Bank /\ Knows(joiner, bank) /\ r.ok) =>
         Follows(joiner, r, bank', {to} \ {GENESIS})
  BY <1>4 DEF Follows
<1>. QED BY <1>1, <1>3, <1>5, ReplayStep

\* A user update.
LEMMA UpdateJoins ==
    ASSUME Inv, JoinInv, NEW a \in Ids, NEW fee \in Fees,
           NEW balances \in Claims(a, fee), Update(a, fee, balances)
    PROVE  JoinInv'
<1> DEFINE s == ApplySnapshot(bank, height, a, balances, fee, minFee)
           r == LooseSnapshot(joiner, a, balances, fee)
<1>1. s.ok /\ bank' = s.bank /\ height' = height /\ Replays(r)
  BY RecordContext DEF Update, UserUpdateTx, ClientRecord, Stored
<1>2. fee \in Nat /\ balances \in [Tokens -> Int]
  BY BankAssumption, ClaimsFacts DEF Inv
<1>3. s.bank \in Bank /\ Dates(bank, s.bank, height, {a})
  BY <1>1, <1>2, RecordContext, SnapshotDates
<1>4. ASSUME joiner \in Bank, Knows(joiner, bank), r.ok
      PROVE  Follows(joiner, r, bank', {a})
  <2>1. Follows(joiner, r, s.bank, {a})
    BY <1>1, <1>2, <1>4, RecordContext, SnapshotFollows
  <2>. QED BY <1>1, <2>1
<1> HIDE DEF s, r
<1>5. (joiner \in Bank /\ Knows(joiner, bank) /\ r.ok) =>
         Follows(joiner, r, bank', {a} \ {GENESIS})
  BY <1>4 DEF Follows
<1>. QED BY <1>1, <1>3, <1>5, ReplayStep

\* A configuration.
LEMMA ConfigureJoins ==
    ASSUME Inv, JoinInv, NEW f \in Fees, NEW balances \in Claims(GENESIS, 0),
           Configure(f, balances)
    PROVE  JoinInv'
<1> DEFINE s == ApplyConfig(bank, height, balances)
           r == ApplyConfig(joiner, height, balances)
<1>1. s.ok /\ bank' = s.bank /\ height' = height /\ Replays(r)
  BY RecordContext DEF Configure, ConfigTx, ClientRecord, Stored
<1>2. balances \in [Tokens -> Int]
  BY SystemIds, ClaimsFacts DEF Inv
<1>3. s.bank \in Bank /\ Dates(bank, s.bank, height, {GENESIS})
  BY <1>1, <1>2, RecordContext, ConfigDates
<1>4. ASSUME joiner \in Bank, Knows(joiner, bank), r.ok
      PROVE  Follows(joiner, r, bank', {})
  <2>1. Follows(joiner, r, s.bank, {})
    BY <1>1, <1>2, <1>4, RecordContext, ConfigFollows
  <2>. QED BY <1>1, <2>1
<1>5. {GENESIS} \ {GENESIS} = {} /\ {GENESIS} \in SUBSET Ids
  BY SystemIds
<1> HIDE DEF s, r
<1>. QED BY <1>1, <1>3, <1>4, <1>5, ReplayStep

----------------------------------------------------------------------------
(* Every step.                                                             *)

\* A step of the joiner's chain is a step of the chain, or none.
LEMMA JoinNextIsNext == [JoinNext]_allVars => [Next]_vars
BY DEF JoinNext, Next, Open, Renew, Send, Register, Update, Configure, allVars, vars

\* Every step of the ledger, with or without a block for the joiner to replay,
\* keeps both invariants (Chain::loadFromLedger after Chain::addBlock).
LEMMA JoinStepInv == Inv /\ JoinInv /\ [JoinNext]_allVars => JoinInv'
<1> SUFFICES ASSUME Inv, JoinInv, [JoinNext]_allVars PROVE JoinInv'
  OBVIOUS
<1>1. CASE Open
  BY <1>1, OpenJoins
<1>2. CASE \E a \in Ids : Renew(a)
  BY <1>2, RenewJoins
<1>3. CASE \E r \in Routes, t \in Tokens, amount \in Amounts, fee \in Fees :
              Send(r[1], r[2], t, amount, fee)
  <2>1. PICK r \in Routes, t \in Tokens, amount \in Amounts, fee \in Fees :
           Send(r[1], r[2], t, amount, fee)
    BY <1>3
  <2>2. r[1] \in Ids /\ r[2] \in Ids
    BY BankAssumption
  <2>. QED BY <2>1, <2>2, SendJoins
<1>4. CASE \E r \in Routes, amount \in Amounts, fee \in Fees :
              Register(r[1], r[2], amount, fee)
  <2>1. PICK r \in Routes, amount \in Amounts, fee \in Fees :
           Register(r[1], r[2], amount, fee)
    BY <1>4
  <2>2. r[1] \in Ids /\ r[2] \in Ids
    BY BankAssumption
  <2>. QED BY <2>1, <2>2, RegisterJoins
<1>5. CASE \E a \in Holders, fee \in Fees : \E balances \in Claims(a, fee) :
              Update(a, fee, balances)
  <2>1. PICK a \in Holders, fee \in Fees : \E balances \in Claims(a, fee) :
           Update(a, fee, balances)
    BY <1>5
  <2>2. a \in Ids
    BY BankAssumption
  <2>. QED BY <2>1, <2>2, UpdateJoins
<1>6. CASE \E f \in Fees : \E balances \in Claims(GENESIS, 0) : Configure(f, balances)
  BY <1>6, ConfigureJoins
<1>7. CASE UNCHANGED allVars
  BY <1>7 DEF allVars, JoinInv, Accounts, Knows, Met
<1>. QED BY <1>1, <1>2, <1>3, <1>4, <1>5, <1>6, <1>7 DEF JoinNext

----------------------------------------------------------------------------
(* The results.                                                            *)

\* The chain a node joins late goes through the steps of Bank and no others, so
\* what is proved of Bank holds of it.
THEOREM JoinImplementsBank == JoinSpec => Spec
<1>1. JoinInit => Init
  BY DEF JoinInit
<1>. QED BY <1>1, JoinNextIsNext, PTL DEF JoinSpec, Spec

\* Both invariants hold in every state of a ledger that a node joins late.
LEMMA JoinInvHolds == JoinSpec => [](Inv /\ JoinInv)
<1>1. JoinSpec => []Inv
  BY JoinImplementsBank, InvHolds, PTL
<1>. QED BY <1>1, JoinInitInv, JoinStepInv, PTL DEF JoinSpec

\* A node that replays the blocks from a checkpoint on, in loose mode, is never
\* wrong about an account it has met, the fee account apart, as long as it has
\* refused no block.
THEOREM TruthKnown == JoinSpec => []JoinerKnowsTruth
<1>1. JoinInv => JoinerKnowsTruth
  BY DEF JoinInv, Knows, JoinerKnowsTruth, Accounts
<1>. QED BY <1>1, JoinInvHolds, PTL

\* One window of renewals after its checkpoint it has met every account but
\* GENESIS: with renewals asked for at all, that is a window of two blocks or
\* more, no account's only record lies before the checkpoint.
THEOREM KnowledgeComplete ==
    ASSUME MinBlocks > 1
    PROVE  JoinSpec => []JoinerComplete
<1>1. Inv /\ JoinInv => JoinerComplete
  <2> SUFFICES ASSUME Inv, JoinInv,
                      height >= Start + MinBlocks - 1, DOMAIN due = {}, ~stuck,
                      NEW a \in Ids \ {GENESIS}, bank[a].live
      PROVE  joiner[a].live
    BY DEF JoinerComplete, Accounts
  <2>1. /\ height \in Nat /\ MinBlocks \in Nat /\ bank[a].blockId \in Nat
        /\ Start \in Nat /\ Start > 0
    BY BankAssumption, BankShape, StartNat DEF Inv, TypeOK
  <2>2. MaxBlockIdForRenewal(height) = height - MinBlocks + 1
    BY <2>1 DEF MaxBlockIdForRenewal
  <2>3. ~(bank[a].blockId < MaxBlockIdForRenewal(height))
    BY DEF Inv, RenewalWindow, AccountIdsBefore, Accounts
  <2>4. bank[a].blockId >= Start
    BY <2>1, <2>2, <2>3
  <2>. QED BY <2>4 DEF JoinInv, Met, Accounts
<1>. QED BY <1>1, JoinInvHolds, PTL
=============================================================================
