----------------------------- MODULE BankProofs -----------------------------
(***************************************************************************)
(* Proofs about Bank and MinerTrial for every number of accounts, every    *)
(* set of tokens, fees, amounts and routes, and every bound on blocks and  *)
(* records.                                                                *)
(*                                                                         *)
(* First what each operation of AccountBuffer and each handler does to the *)
(* bank, then one step of the proof per action of Bank, then its results.  *)
(*                                                                         *)
(* The second half is about the bank a slot leader tries its records on.   *)
(* A record makes the same of two banks that have the accounts it is about *)
(* alike; so the chain makes of every record what the trial made of it, as *)
(* long as what the trial has met is what the chain has.                   *)
(***************************************************************************)
EXTENDS MinerTrial, DataLemmas, TLAPS

\* A well-formed bank: an id without an account holds nothing.
WellFormed(b) == b \in Bank /\ \A a \in Ids : ~b[a].live => b[a] = NoAccount

\* CustomNonNegative and BalancesInRange of a bank.
Solvent(b) ==
    \A a \in Ids, t \in Tokens \ {GENESIS} :
        b[a].bal[t] < 0 => NegativeAllowed(a, t)

InRange(b) ==
    \A a \in Ids \ {RECYCLE}, t \in Tokens : b[a].bal[t] \in MinInt .. MaxInt

\* c is b up to balances.
SameAccounts(b, c) ==
    \A a \in Ids : c[a].live = b[a].live /\ c[a].blockId = b[a].blockId

\* No account but GENESIS falls into native debt between b and c.
NoNewDebt(b, c) ==
    \A a \in Ids \ {GENESIS} :
        b[a].bal[GENESIS] >= 0 => c[a].bal[GENESIS] >= 0

\* The four system accounts are accounts, and GENESIS is a token (AccountBuffer.h).
LEMMA SystemIds ==
    /\ GENESIS \in Ids /\ FEE \in Ids /\ RESERVE \in Ids /\ RECYCLE \in Ids
    /\ GENESIS \in Tokens
    /\ FEE # GENESIS /\ RECYCLE # GENESIS /\ RECYCLE # FEE
BY IdsAssumption, TokensAssumption DEF Ids, GENESIS, FEE, RESERVE, RECYCLE

----------------------------------------------------------------------------
(* Balance operations.                                                     *)

\* What a bank is, field by field.
LEMMA BankShape ==
    ASSUME NEW b \in Bank, NEW a \in Ids
    PROVE  /\ b[a].live \in BOOLEAN
           /\ b[a].blockId \in Nat
           /\ b[a].bal \in [Tokens -> Int]
           /\ \A t \in Tokens : b[a].bal[t] \in Int
BY DEF Bank, Account

\* A write of one balance changes that balance only.
LEMMA SetBalanceFacts ==
    ASSUME NEW b \in Bank, NEW a \in Ids, NEW t \in Tokens, NEW v \in Int
    PROVE  /\ SetBalance(b, a, t, v) \in Bank
           /\ SameAccounts(b, SetBalance(b, a, t, v))
           /\ \A c \in Ids, s \in Tokens :
                 SetBalance(b, a, t, v)[c].bal[s] =
                     IF c = a /\ s = t THEN v ELSE b[c].bal[s]
           /\ \A c \in Ids \ {a} : SetBalance(b, a, t, v)[c] = b[c]
BY DEF SetBalance, Bank, Account, SameAccounts

\* The two writes of a transfer: the destination is written last, so an account
\* that pays itself ends with the credit.
LEMMA MovedFacts ==
    ASSUME NEW b \in Bank, NEW from \in Ids, NEW to \in Ids, NEW t \in Tokens,
           NEW amount \in Nat
    PROVE  LET m == Moved(b, from, to, t, amount) IN
           /\ m \in Bank
           /\ SameAccounts(b, m)
           /\ \A c \in Ids, s \in Tokens :
                 m[c].bal[s] = IF c = to /\ s = t THEN b[to].bal[t] + amount
                               ELSE IF c = from /\ s = t THEN b[from].bal[t] - amount
                               ELSE b[c].bal[s]
           /\ \A c \in Ids \ {from, to} : m[c] = b[c]
<1> DEFINE x == b[from].bal[t] - amount
           y == b[to].bal[t] + amount
           d == SetBalance(b, from, t, x)
           m == SetBalance(d, to, t, y)
<1>1. x \in Int /\ y \in Int
  BY BankShape
<1>2. Moved(b, from, to, t, amount) = m
  BY DEF Moved
<1>3. x = b[from].bal[t] - amount /\ y = b[to].bal[t] + amount
  OBVIOUS
<1> HIDE DEF x, y
<1>4. /\ d \in Bank
      /\ SameAccounts(b, d)
      /\ \A c \in Ids, s \in Tokens :
            d[c].bal[s] = IF c = from /\ s = t THEN x ELSE b[c].bal[s]
      /\ \A c \in Ids \ {from} : d[c] = b[c]
  BY <1>1, SetBalanceFacts
<1>5. d \in Bank
  BY <1>4
<1> HIDE DEF d
<1>6. /\ m \in Bank
      /\ SameAccounts(d, m)
      /\ \A c \in Ids, s \in Tokens :
            m[c].bal[s] = IF c = to /\ s = t THEN y ELSE d[c].bal[s]
      /\ \A c \in Ids \ {to} : m[c] = d[c]
  BY <1>1, <1>5, SetBalanceFacts
<1> HIDE DEF m
<1>7. SameAccounts(b, m)
  BY <1>4, <1>6 DEF SameAccounts
<1>8. \A c \in Ids, s \in Tokens :
         m[c].bal[s] = IF c = to /\ s = t THEN b[to].bal[t] + amount
                       ELSE IF c = from /\ s = t THEN b[from].bal[t] - amount
                       ELSE b[c].bal[s]
  BY <1>3, <1>4, <1>6
<1>. QED BY <1>2, <1>4, <1>6, <1>7, <1>8

\* The debit of the fee overwrites the native balance of the payer and nothing
\* else.
LEMMA ChargedFacts ==
    ASSUME NEW b \in Bank, NEW from \in Ids, NEW to \in Ids, NEW t \in Tokens,
           NEW amount \in Nat, NEW fee \in Nat
    PROVE  LET m == Charged(b, from, to, t, amount, fee) IN
           /\ m \in Bank
           /\ SameAccounts(b, m)
           /\ t = GENESIS => m[from].bal[GENESIS] = b[from].bal[t] - amount - fee
           /\ t # GENESIS => m[from].bal[GENESIS] = b[from].bal[GENESIS] - fee
           /\ \A c \in Ids, s \in Tokens :
                 \/ c = from /\ s = GENESIS
                 \/ m[c].bal[s] = Moved(b, from, to, t, amount)[c].bal[s]
           /\ \A c \in Ids \ {from, to} : m[c] = b[c]
<1> DEFINE m == Moved(b, from, to, t, amount)
           v == IF t = GENESIS THEN b[from].bal[t] - amount - fee
                               ELSE b[from].bal[GENESIS] - fee
           r == SetBalance(m, from, GENESIS, v)
<1>1. m \in Bank
  BY MovedFacts
<1>2. SameAccounts(b, m) /\ \A c \in Ids \ {from, to} : m[c] = b[c]
  BY MovedFacts
<1>3. v \in Int /\ GENESIS \in Tokens
  BY BankShape, SystemIds
<1>4. Charged(b, from, to, t, amount, fee) = r
  BY DEF Charged
<1> HIDE DEF m, v
<1>5. /\ r \in Bank
      /\ SameAccounts(m, r)
      /\ \A c \in Ids, s \in Tokens :
            r[c].bal[s] = IF c = from /\ s = GENESIS THEN v ELSE m[c].bal[s]
      /\ \A c \in Ids \ {from} : r[c] = m[c]
  BY <1>1, <1>3, SetBalanceFacts
<1> HIDE DEF r
<1>6. SameAccounts(b, r)
  BY <1>2, <1>5 DEF SameAccounts
<1>7. r[from].bal[GENESIS] = v
  BY <1>3, <1>5
<1>8. \A c \in Ids, s \in Tokens :
         (c = from /\ s = GENESIS) \/ r[c].bal[s] = m[c].bal[s]
  BY <1>5
<1>9. \A c \in Ids \ {from, to} : r[c] = b[c]
  BY <1>2, <1>5
<1>. QED BY <1>4, <1>5, <1>6, <1>7, <1>8, <1>9 DEF m, v

\* A deposit that is refused leaves the bank; one that is accepted keeps the
\* account in range and takes nothing from anyone.
LEMMA DepositFacts ==
    ASSUME NEW b \in Bank, NEW a \in Ids, NEW t \in Tokens, NEW amount \in Nat
    PROVE  LET r == Deposit(b, a, t, amount) IN
           /\ r.bank \in Bank
           /\ SameAccounts(b, r.bank)
           /\ \A c \in Ids \ {a} : r.bank[c] = b[c]
           /\ ~b[a].live => r.bank = b
           /\ \A c \in Ids, s \in Tokens :
                 \/ r.bank[c].bal[s] = b[c].bal[s]
                 \/ /\ c = a /\ s = t
                    /\ r.bank[c].bal[s] = b[c].bal[s] + amount
                    /\ r.bank[c].bal[s] <= MaxInt
           /\ r.ok \in BOOLEAN
           /\ ~r.ok => r.bank = b /\ (b[a].live => b[a].bal[t] > MaxInt - amount)
<1> DEFINE v == b[a].bal[t] + amount
           d == SetBalance(b, a, t, v)
<1>1. v \in Int /\ b[a].bal[t] \in Int /\ b[a].live \in BOOLEAN
  BY BankShape
<1>2. Deposit(b, a, t, amount) =
         IF ~b[a].live \/ b[a].bal[t] > MaxInt - amount THEN Refuse(b) ELSE Accept(d)
  BY DEF Deposit
<1>3. v = b[a].bal[t] + amount
  OBVIOUS
<1> HIDE DEF v
<1>4. /\ d \in Bank
      /\ SameAccounts(b, d)
      /\ \A c \in Ids, s \in Tokens :
            d[c].bal[s] = IF c = a /\ s = t THEN v ELSE b[c].bal[s]
      /\ \A c \in Ids \ {a} : d[c] = b[c]
  BY <1>1, SetBalanceFacts
<1> HIDE DEF d
<1>5. CASE ~b[a].live \/ b[a].bal[t] > MaxInt - amount
  <2>1. Deposit(b, a, t, amount) = Refuse(b)
    BY <1>2, <1>5
  <2>. QED BY <2>1, <1>5 DEF Refuse, SameAccounts
<1>6. CASE ~(~b[a].live \/ b[a].bal[t] > MaxInt - amount)
  <2>1. Deposit(b, a, t, amount) = Accept(d)
    BY <1>2, <1>6
  <2>2. v <= MaxInt
    BY <1>1, <1>3, <1>6, MaxIntAssumption
  <2>. QED BY <2>1, <2>2, <1>3, <1>4, <1>6 DEF Accept
<1>. QED BY <1>5, <1>6

\* A deposit keeps a bank solvent and in range and puts nobody into debt.
LEMMA DepositKeeps ==
    ASSUME NEW b \in Bank, NEW a \in Ids, NEW t \in Tokens, NEW amount \in Nat
    PROVE  LET c == Deposit(b, a, t, amount).bank IN
           /\ Solvent(b) => Solvent(c)
           /\ InRange(b) => InRange(c)
           /\ NoNewDebt(b, c)
<1> DEFINE c == Deposit(b, a, t, amount).bank
<1>1. /\ c \in Bank
      /\ \A x \in Ids, s \in Tokens :
            \/ c[x].bal[s] = b[x].bal[s]
            \/ /\ c[x].bal[s] = b[x].bal[s] + amount
               /\ c[x].bal[s] <= MaxInt
  BY DepositFacts
<1> HIDE DEF c
<1>2. \A x \in Ids, s \in Tokens :
         /\ b[x].bal[s] \in Int /\ c[x].bal[s] \in Int
         /\ c[x].bal[s] >= b[x].bal[s]
         /\ c[x].bal[s] # b[x].bal[s] => c[x].bal[s] <= MaxInt
  BY <1>1, BankShape
<1>3. Solvent(b) => Solvent(c)
  BY <1>2 DEF Solvent
<1>4. InRange(b) => InRange(c)
  BY <1>2, MaxIntAssumption DEF InRange, MinInt
<1>5. NoNewDebt(b, c)
  BY <1>2, SystemIds DEF NoNewDebt
<1>. QED BY <1>3, <1>4, <1>5 DEF c

\* The account map between the debit and the credit of a transfer that passed
\* its checks: solvent and in range already, and nobody new in debt.
LEMMA WritesKeep ==
    ASSUME NEW b \in Bank, NEW from \in Ids, NEW to \in Ids, NEW t \in Tokens,
           NEW amount \in Nat, NEW fee \in Nat,
           CanSpend(b, from, t, amount, fee),
           b[to].bal[t] <= MaxInt - amount,
           NEW m \in {Moved(b, from, to, t, amount),
                      Charged(b, from, to, t, amount, fee)}
    PROVE  /\ Solvent(b) => Solvent(m)
           /\ InRange(b) => InRange(m)
           /\ NoNewDebt(b, m)
<1> DEFINE x == b[from].bal[t] - amount
           y == b[to].bal[t] + amount
           z == IF t = GENESIS THEN b[from].bal[t] - amount - fee
                               ELSE b[from].bal[GENESIS] - fee
<1> HIDE DEF x, y, z
<1>1. \A c \in Ids, s \in Tokens :
         /\ b[c].bal[s] \in Int
         /\ \/ m[c].bal[s] = b[c].bal[s]
            \/ m[c].bal[s] = x /\ c = from /\ s = t
            \/ m[c].bal[s] = y /\ c = to /\ s = t
            \/ m[c].bal[s] = z /\ c = from /\ s = GENESIS
  <2> DEFINE n == Moved(b, from, to, t, amount)
  <2>1. \A c \in Ids, s \in Tokens :
           n[c].bal[s] = IF c = to /\ s = t THEN y
                         ELSE IF c = from /\ s = t THEN x
                         ELSE b[c].bal[s]
    BY MovedFacts DEF x, y
  <2>2. m[from].bal[GENESIS] = z \/ m = n
    BY ChargedFacts DEF z
  <2>3. \A c \in Ids, s \in Tokens :
           (c = from /\ s = GENESIS) \/ m[c].bal[s] = n[c].bal[s]
    <3>1. \A c \in Ids, s \in Tokens :
             \/ c = from /\ s = GENESIS
             \/ Charged(b, from, to, t, amount, fee)[c].bal[s] = n[c].bal[s]
      BY ChargedFacts
    <3>. QED BY <3>1
  <2> HIDE DEF n
  <2>. QED BY <2>1, <2>2, <2>3, BankShape
<1>2. /\ b[from].bal[t] \in Int /\ b[to].bal[t] \in Int
      /\ b[from].bal[GENESIS] \in Int /\ Floor(from, t) \in Int
      /\ Floor(from, t) \in {0, MinInt} /\ MinInt \in Int /\ MinInt < 0
  BY BankShape, SystemIds, MaxIntAssumption DEF Floor, MinInt
<1>3. x >= Floor(from, t) /\ (t = GENESIS => z >= Floor(from, t))
  BY <1>2 DEF CanSpend, x, z
<1>4. t # GENESIS => z >= 0
  BY <1>2 DEF CanSpend, z
<1>5. /\ y <= MaxInt /\ y >= b[to].bal[t] /\ x <= b[from].bal[t]
      /\ z <= b[from].bal[GENESIS] /\ x \in Int /\ y \in Int /\ z \in Int
  BY <1>2, MaxIntAssumption DEF x, y, z
<1>6. ASSUME Solvent(b), NEW c \in Ids, NEW s \in Tokens \ {GENESIS},
             m[c].bal[s] < 0
      PROVE  NegativeAllowed(c, s)
  <2>1. CASE m[c].bal[s] = b[c].bal[s]
    BY <1>6, <2>1 DEF Solvent
  <2>2. CASE m[c].bal[s] = x /\ c = from /\ s = t
    BY <1>2, <1>3, <1>5, <1>6, <2>2 DEF Floor
  <2>3. CASE m[c].bal[s] = y /\ c = to /\ s = t
    BY <1>2, <1>5, <1>6, <2>3 DEF Solvent
  <2>. QED BY <1>1, <2>1, <2>2, <2>3
<1>7. ASSUME InRange(b), NEW c \in Ids \ {RECYCLE}, NEW s \in Tokens
      PROVE  m[c].bal[s] \in MinInt .. MaxInt
  <2>1. /\ b[c].bal[s] \in MinInt .. MaxInt
        /\ b[c].bal[GENESIS] \in MinInt .. MaxInt
    BY <1>7, SystemIds DEF InRange
  <2>2. CASE m[c].bal[s] = x /\ c = from /\ s = t
    BY <1>2, <1>3, <1>5, <2>1, <2>2, MaxIntAssumption
  <2>3. CASE m[c].bal[s] = y /\ c = to /\ s = t
    BY <1>2, <1>5, <2>1, <2>3, MaxIntAssumption
  <2>4. CASE m[c].bal[s] = z /\ c = from /\ s = GENESIS
    BY <1>2, <1>3, <1>4, <1>5, <2>1, <2>4, MaxIntAssumption
  <2>. QED BY <1>1, <2>1, <2>2, <2>3, <2>4
<1>8. ASSUME NEW c \in Ids \ {GENESIS}, b[c].bal[GENESIS] >= 0
      PROVE  m[c].bal[GENESIS] >= 0
  <2>1. c = from /\ t = GENESIS => Floor(from, t) = 0
    BY DEF Floor, NegativeAllowed
  <2>2. CASE m[c].bal[GENESIS] = x /\ c = from /\ GENESIS = t
    BY <1>3, <2>1, <2>2
  <2>3. CASE m[c].bal[GENESIS] = y /\ c = to /\ GENESIS = t
    BY <1>2, <1>5, <1>8, <2>3
  <2>4. CASE m[c].bal[GENESIS] = z /\ c = from
    BY <1>3, <1>4, <2>1, <2>4
  <2>. QED BY <1>1, <1>8, <2>2, <2>3, <2>4, SystemIds
<1>9. Solvent(b) => Solvent(m)
  BY <1>6 DEF Solvent
<1>10. InRange(b) => InRange(m)
  BY <1>7 DEF InRange
<1>11. NoNewDebt(b, m)
  BY <1>8 DEF NoNewDebt
<1>. QED BY <1>9, <1>10, <1>11

\* What a bank has become after an operation: still well formed, solvent and in
\* range if it was, and nobody new in debt.
Kept(b, c) ==
    /\ c \in Bank
    /\ WellFormed(b) => WellFormed(c)
    /\ Solvent(b) => Solvent(c)
    /\ InRange(b) => InRange(c)

\* A refusal that leaves more than the bank it found was for want of room in
\* the fee account.
RefusedForRoom(b, r, fee) ==
    ~r.ok => r.bank = b \/ r.bank[FEE].bal[GENESIS] > MaxInt - fee

\* SameAccounts composes.
LEMMA SameAccountsTransitive ==
    ASSUME NEW b, NEW c, NEW d, SameAccounts(b, c), SameAccounts(c, d)
    PROVE  SameAccounts(b, d)
BY DEF SameAccounts

\* A transfer keeps what a bank must be, moves no date, puts nobody into native
\* debt, and leaves a trace of a refusal only when the fee finds no room.
LEMMA TransferFacts ==
    ASSUME NEW b \in Bank, NEW from \in Ids, NEW to \in Ids, NEW t \in Tokens,
           NEW amount \in Nat, NEW fee \in Nat
    PROVE  LET r == Transfer(b, from, to, t, amount, fee) IN
           /\ Kept(b, r.bank)
           /\ SameAccounts(b, r.bank)
           /\ NoNewDebt(b, r.bank)
           /\ b[FEE].live => RefusedForRoom(b, r, fee)
           /\ (/\ CanSpend(b, from, t, amount, fee)
               /\ b[to].live /\ b[to].bal[t] <= MaxInt - amount
               /\ b[FEE].live /\ ~r.ok)
                => r.bank[FEE].bal[GENESIS] > MaxInt - fee
<1> DEFINE m == Moved(b, from, to, t, amount)
           p == Charged(b, from, to, t, amount, fee)
           q == Deposit(p, FEE, GENESIS, fee)
           r == Transfer(b, from, to, t, amount, fee)
           declined == \/ ~CanSpend(b, from, t, amount, fee)
                       \/ ~b[to].live
                       \/ b[to].bal[t] > MaxInt - amount
<1>1. r = IF declined THEN Refuse(b) ELSE IF fee = 0 THEN Accept(m) ELSE q
  BY DEF Transfer
<1>2. /\ m \in Bank /\ SameAccounts(b, m) /\ p \in Bank /\ SameAccounts(b, p)
      /\ \A c \in Ids \ {from, to} : m[c] = b[c] /\ p[c] = b[c]
  BY MovedFacts, ChargedFacts
<1>3. /\ q.bank \in Bank
      /\ SameAccounts(p, q.bank)
      /\ \A c \in Ids \ {FEE} : q.bank[c] = p[c]
      /\ ~p[FEE].live => q.bank = p
      /\ ~q.ok => q.bank = p /\ (p[FEE].live => p[FEE].bal[GENESIS] > MaxInt - fee)
  BY <1>2, SystemIds, DepositFacts
<1>4. /\ Solvent(p) => Solvent(q.bank)
      /\ InRange(p) => InRange(q.bank)
      /\ NoNewDebt(p, q.bank)
  BY <1>2, SystemIds, DepositKeeps
<1>5. CASE declined
  <2>1. r = Refuse(b)
    BY <1>1, <1>5
  <2>2. ~(/\ CanSpend(b, from, t, amount, fee)
          /\ b[to].live /\ b[to].bal[t] <= MaxInt - amount)
    BY <1>5, BankShape, MaxIntAssumption
  <2> HIDE DEF declined
  <2>. QED BY <2>1, <2>2 DEF Refuse, Kept, SameAccounts, NoNewDebt, RefusedForRoom
<1>6. CASE ~declined
  <2>1. /\ CanSpend(b, from, t, amount, fee) /\ b[to].live /\ b[from].live
        /\ b[to].bal[t] <= MaxInt - amount
    BY <1>6, BankShape, MaxIntAssumption DEF CanSpend
  <2>2. /\ Solvent(b) => Solvent(m) /\ Solvent(p)
        /\ InRange(b) => InRange(m) /\ InRange(p)
        /\ NoNewDebt(b, m) /\ NoNewDebt(b, p)
    BY <2>1, WritesKeep
  <2> HIDE DEF m, p, q, declined
  <2>3. CASE fee = 0
    <3>1. r = Accept(m)
      BY <1>1, <1>6, <2>3
    <3>2. WellFormed(b) => WellFormed(m)
      BY <1>2, <2>1 DEF WellFormed, SameAccounts
    <3>. QED BY <3>1, <3>2, <1>2, <2>1, <2>2 DEF Accept, Kept, RefusedForRoom
  <2>4. CASE fee # 0
    <3>1. r = q
      BY <1>1, <1>6, <2>4
    <3>2. WellFormed(b) => WellFormed(p)
      BY <1>2, <2>1 DEF WellFormed, SameAccounts
    <3>3. WellFormed(p) => WellFormed(q.bank)
      BY <1>3 DEF WellFormed, SameAccounts
    <3>4. SameAccounts(b, q.bank)
      BY <1>2, <1>3, SameAccountsTransitive
    <3>5. NoNewDebt(b, q.bank)
      BY <1>4, <2>2 DEF NoNewDebt
    <3>6. b[FEE].live /\ ~q.ok => q.bank[FEE].bal[GENESIS] > MaxInt - fee
      BY <1>2, <1>3, SystemIds DEF SameAccounts
    <3>7. Kept(b, q.bank)
      BY <3>2, <3>3, <1>3, <1>4, <2>2 DEF Kept
    <3>. QED BY <3>1, <3>4, <3>5, <3>6, <3>7 DEF RefusedForRoom
  <2>. QED BY <2>3, <2>4
<1>. QED BY <1>5, <1>6

\* A replaced account is the new one; the others stay.
LEMMA ReplaceFacts ==
    ASSUME NEW b \in Bank, NEW a \in Ids, NEW blockId \in Nat,
           NEW balances \in [Tokens -> Int]
    PROVE  LET c == Replace(b, a, blockId, balances) IN
           /\ c \in Bank
           /\ c[a] = [live |-> TRUE, blockId |-> blockId, bal |-> balances]
           /\ \A x \in Ids \ {a} : c[x] = b[x]
           /\ WellFormed(b) => WellFormed(c)
BY DEF Replace, Bank, Account, WellFormed

----------------------------------------------------------------------------
(* Handlers.                                                               *)

\* A credited fee reaches the fee account or is refused without a trace.
LEMMA CreditFeeFacts ==
    ASSUME NEW b \in Bank, NEW fee \in Nat
    PROVE  LET r == CreditFee(b, fee) IN
           /\ Kept(b, r.bank)
           /\ SameAccounts(b, r.bank)
           /\ NoNewDebt(b, r.bank)
           /\ ~r.ok => r.bank = b /\ b[FEE].bal[GENESIS] > MaxInt - fee
           /\ r.ok /\ b[FEE].live =>
                 r.bank[FEE].bal[GENESIS] = b[FEE].bal[GENESIS] + fee
<1> DEFINE q == Deposit(b, FEE, GENESIS, fee)
           r == CreditFee(b, fee)
<1>1. /\ q.bank \in Bank /\ SameAccounts(b, q.bank)
      /\ \A c \in Ids \ {FEE} : q.bank[c] = b[c]
      /\ ~q.ok => q.bank = b /\ (b[FEE].live => b[FEE].bal[GENESIS] > MaxInt - fee)
      /\ ~b[FEE].live => q.bank = b
      /\ Solvent(b) => Solvent(q.bank)
      /\ InRange(b) => InRange(q.bank)
      /\ NoNewDebt(b, q.bank)
  BY SystemIds, DepositFacts, DepositKeeps
<1>2. q.ok => q.bank[FEE].bal[GENESIS] = b[FEE].bal[GENESIS] + fee
  <2>1. b[FEE].bal[GENESIS] + fee \in Int
    BY SystemIds, BankShape
  <2>. QED BY <2>1, SystemIds, SetBalanceFacts DEF Deposit, Accept, Refuse
<1>3. CASE fee > 0 /\ b[FEE].live
  <2>1. r = q
    BY <1>3 DEF CreditFee
  <2>2. WellFormed(b) => WellFormed(q.bank)
    BY <1>1, <1>3 DEF WellFormed, SameAccounts
  <2> HIDE DEF q
  <2>. QED BY <1>1, <1>2, <1>3, <2>1, <2>2 DEF Kept
<1>4. CASE ~(fee > 0 /\ b[FEE].live)
  <2>1. r = Accept(b)
    BY <1>4 DEF CreditFee
  <2>2. b[FEE].live => fee = 0 /\ b[FEE].bal[GENESIS] \in Int
    BY <1>4, SystemIds, BankShape
  <2>. QED BY <2>1, <2>2 DEF Accept, Kept, SameAccounts, NoNewDebt
<1>. QED BY <1>3, <1>4

\* A snapshot changes the balances of its account by the fee at most, in the
\* native token, and dates the account; the rest of the bank sees the fee only.
SnapshotEffect(b, blockId, a, balances, r) ==
    /\ \A c \in Ids : r.bank[c].live = b[c].live
    /\ \A c \in Ids : \/ r.bank[c].blockId = b[c].blockId
                      \/ c = a /\ r.bank[c].blockId = blockId
    /\ r.ok => r.bank[a].blockId = blockId
    /\ \A c \in Ids \ {a, GENESIS} :
          b[c].bal[GENESIS] >= 0 => r.bank[c].bal[GENESIS] >= 0
    /\ (a # GENESIS /\ balances[GENESIS] >= 0 /\ b[a].bal[GENESIS] >= 0) =>
          r.bank[a].bal[GENESIS] >= 0
    /\ (a = FEE /\ r.ok /\ b[FEE].live) =>
          r.bank[FEE].bal[GENESIS] = b[FEE].bal[GENESIS]

\* A snapshot keeps what a bank must be when the balances it states are int64s.
LEMMA ApplySnapshotFacts ==
    ASSUME NEW b \in Bank, NEW blockId \in Nat, NEW a \in Ids,
           NEW balances \in [Tokens -> Int], NEW fee \in Nat, NEW f \in Nat
    PROVE  LET r == ApplySnapshot(b, blockId, a, balances, fee, f) IN
           /\ r.bank \in Bank
           /\ WellFormed(b) => WellFormed(r.bank)
           /\ Solvent(b) => Solvent(r.bank)
           /\ (InRange(b) /\ (a # RECYCLE =>
                  \A t \in Tokens : balances[t] \in MinInt .. MaxInt))
                => InRange(r.bank)
           /\ SnapshotEffect(b, blockId, a, balances, r)
           /\ b[FEE].live => RefusedForRoom(b, r, fee)
<1> DEFINE c == Replace(b, a, blockId, balances)
           q == CreditFee(c, fee)
           r == ApplySnapshot(b, blockId, a, balances, fee, f)
           declined == fee < f \/ ~BalanceMatches(b, a, fee, balances)
<1>1. /\ c \in Bank
      /\ c[a] = [live |-> TRUE, blockId |-> blockId, bal |-> balances]
      /\ \A x \in Ids \ {a} : c[x] = b[x]
      /\ WellFormed(b) => WellFormed(c)
  BY ReplaceFacts
<1>2. r = IF declined THEN Refuse(b) ELSE q
  BY DEF ApplySnapshot
<1> HIDE DEF c
<1>3. /\ Kept(c, q.bank) /\ SameAccounts(c, q.bank) /\ NoNewDebt(c, q.bank)
      /\ ~q.ok => q.bank = c /\ c[FEE].bal[GENESIS] > MaxInt - fee
      /\ q.ok /\ c[FEE].live =>
            q.bank[FEE].bal[GENESIS] = c[FEE].bal[GENESIS] + fee
  BY <1>1, CreditFeeFacts
<1> HIDE DEF q
<1>4. CASE declined
  <2>1. r = Refuse(b)
    BY <1>2, <1>4
  <2>. QED BY <2>1 DEF Refuse, RefusedForRoom, SnapshotEffect
<1>5. CASE ~declined
  <2>1. r = q
    BY <1>2, <1>5
  <2>2. /\ b[a].live
        /\ \A t \in Tokens \ {GENESIS} : b[a].bal[t] = balances[t]
        /\ b[a].bal[GENESIS] = balances[GENESIS] + fee
    BY <1>5 DEF BalanceMatches
  <2> HIDE DEF declined
  <2>3. Solvent(b) => Solvent(c)
    BY <1>1, <2>2 DEF Solvent
  <2>4. (InRange(b) /\ (a # RECYCLE =>
           \A t \in Tokens : balances[t] \in MinInt .. MaxInt)) => InRange(c)
    BY <1>1 DEF InRange
  <2>5. \A x \in Ids : /\ q.bank[x].live = b[x].live
                       /\ \/ q.bank[x].blockId = b[x].blockId
                          \/ x = a /\ q.bank[x].blockId = blockId
    BY <1>1, <1>3, <2>2, BankShape DEF SameAccounts
  <2>6. q.bank[a].blockId = blockId
    BY <1>1, <1>3 DEF SameAccounts
  <2>7. \A x \in Ids \ {a, GENESIS} :
           b[x].bal[GENESIS] >= 0 => q.bank[x].bal[GENESIS] >= 0
    BY <1>1, <1>3 DEF NoNewDebt
  <2>8. (a # GENESIS /\ balances[GENESIS] >= 0) => q.bank[a].bal[GENESIS] >= 0
    BY <1>1, <1>3 DEF NoNewDebt
  <2>9. (a = FEE /\ q.ok) => q.bank[FEE].bal[GENESIS] = b[FEE].bal[GENESIS]
    BY <1>1, <1>3, <2>2
  <2>10. RefusedForRoom(b, q, fee)
    BY <1>3 DEF RefusedForRoom
  <2>. QED BY <1>1, <1>3, <2>1, <2>3, <2>4, <2>5, <2>6, <2>7, <2>8, <2>9, <2>10
           DEF Kept, SnapshotEffect
<1>. QED BY <1>4, <1>5

\* Nobody leaves, and whose date changes is dated with this block.
DatesKept(b, blockId, c) ==
    \A a \in Ids : /\ b[a].live => c[a].live
                   /\ \/ c[a].blockId = b[a].blockId /\ c[a].live = b[a].live
                      \/ c[a].blockId = blockId

\* A new account starts empty, dated with the block that makes it; no other
\* account changes its date.
LEMMA ApplyNewUserFacts ==
    ASSUME NEW b \in Bank, NEW blockId \in Nat, NEW from \in Ids, NEW to \in Ids,
           NEW amount \in Nat, NEW fee \in Nat, NEW f \in Nat
    PROVE  LET r == ApplyNewUser(b, blockId, from, to, amount, fee, f) IN
           /\ Kept(b, r.bank)
           /\ DatesKept(b, blockId, r.bank)
           /\ NoNewDebt(b, r.bank)
           /\ b[FEE].live => RefusedForRoom(b, r, fee)
<1> DEFINE c == Replace(b, to, blockId, NoBalance)
           q == Transfer(c, from, to, GENESIS, amount, fee)
           r == ApplyNewUser(b, blockId, from, to, amount, fee, f)
           declined == \/ fee < f
                       \/ b[to].live
                       \/ ~CanSpend(b, from, GENESIS, amount, fee)
                       \/ from # GENESIS /\ to < FirstUser
<1>1. NoBalance \in [Tokens -> Int] /\ \A t \in Tokens : NoBalance[t] = 0
  BY DEF NoBalance
<1>2. /\ c \in Bank
      /\ c[to] = [live |-> TRUE, blockId |-> blockId, bal |-> NoBalance]
      /\ \A x \in Ids \ {to} : c[x] = b[x]
      /\ WellFormed(b) => WellFormed(c)
  BY <1>1, ReplaceFacts
<1>3. r = IF declined THEN Refuse(b) ELSE q
  BY DEF ApplyNewUser
<1> HIDE DEF c
<1>4. /\ Kept(c, q.bank) /\ SameAccounts(c, q.bank) /\ NoNewDebt(c, q.bank)
      /\ (/\ CanSpend(c, from, GENESIS, amount, fee)
          /\ c[to].live /\ c[to].bal[GENESIS] <= MaxInt - amount
          /\ c[FEE].live /\ ~q.ok)
           => q.bank[FEE].bal[GENESIS] > MaxInt - fee
  BY <1>2, SystemIds, TransferFacts
<1> HIDE DEF q
<1>5. CASE declined
  <2>1. r = Refuse(b)
    BY <1>3, <1>5
  <2> HIDE DEF declined
  <2>. QED BY <2>1 DEF Refuse, Kept, DatesKept, NoNewDebt, RefusedForRoom
<1>6. CASE ~declined
  <2>1. r = q
    BY <1>3, <1>6
  <2>2. ~b[to].live /\ CanSpend(b, from, GENESIS, amount, fee)
    BY <1>6
  <2> HIDE DEF declined
  <2>3. /\ amount <= MaxInt /\ from # to
        /\ CanSpend(c, from, GENESIS, amount, fee)
    BY <2>2, <1>2 DEF CanSpend
  <2>4. c[to].live /\ c[to].bal[GENESIS] <= MaxInt - amount
    BY <2>3, <1>1, <1>2, SystemIds, MaxIntAssumption
  <2>5. Solvent(b) => Solvent(c)
    BY <1>1, <1>2 DEF Solvent
  <2>6. InRange(b) => InRange(c)
    BY <1>1, <1>2, MaxIntAssumption DEF InRange, MinInt
  <2>7. NoNewDebt(b, q.bank)
    BY <1>1, <1>2, <1>4, SystemIds DEF NoNewDebt
  <2>8. b[FEE].live => RefusedForRoom(b, q, fee)
    BY <1>2, <1>4, <2>2, <2>3, <2>4, SystemIds DEF RefusedForRoom
  <2>9. DatesKept(b, blockId, q.bank)
    BY <1>2, <1>4, <2>2 DEF SameAccounts, DatesKept
  <2>10. Kept(b, q.bank)
    BY <1>2, <1>4, <2>5, <2>6 DEF Kept
  <2>. QED BY <2>1, <2>7, <2>8, <2>9, <2>10
<1>. QED BY <1>5, <1>6

\* A configuration update dates GENESIS and changes no native balance.
LEMMA ApplyConfigFacts ==
    ASSUME NEW b \in Bank, NEW blockId \in Nat, NEW balances \in [Tokens -> Int]
    PROVE  LET r == ApplyConfig(b, blockId, balances) IN
           /\ Kept(b, r.bank)
           /\ \A c \in Ids : /\ r.bank[c].live = b[c].live
                             /\ \/ r.bank[c].blockId = b[c].blockId
                                \/ r.bank[c].blockId = blockId
           /\ NoNewDebt(b, r.bank)
           /\ ~r.ok => r.bank = b
<1> DEFINE c == Replace(b, GENESIS, blockId, balances)
           r == ApplyConfig(b, blockId, balances)
           accepted == BalanceMatches(b, GENESIS, 0, balances)
<1>1. /\ c \in Bank
      /\ c[GENESIS] = [live |-> TRUE, blockId |-> blockId, bal |-> balances]
      /\ \A x \in Ids \ {GENESIS} : c[x] = b[x]
      /\ WellFormed(b) => WellFormed(c)
  BY ReplaceFacts, SystemIds
<1>2. r = IF accepted THEN Accept(c) ELSE Refuse(b)
  BY DEF ApplyConfig
<1> HIDE DEF c
<1>3. CASE accepted
  <2>1. r = Accept(c)
    BY <1>2, <1>3
  <2>2. b[GENESIS].live /\ \A t \in Tokens : b[GENESIS].bal[t] = balances[t]
    BY <1>3 DEF BalanceMatches
  <2> HIDE DEF accepted
  <2>3. \A x \in Ids : c[x].live = b[x].live /\ c[x].bal[GENESIS] = b[x].bal[GENESIS]
    BY <2>2, <1>1, BankShape, SystemIds
  <2>4. Solvent(b) => Solvent(c)
    BY <2>2, <1>1 DEF Solvent
  <2>5. InRange(b) => InRange(c)
    BY <2>2, <1>1 DEF InRange
  <2>6. \A x \in Ids : c[x].blockId = b[x].blockId \/ c[x].blockId = blockId
    BY <1>1
  <2>. QED BY <1>1, <2>1, <2>3, <2>4, <2>5, <2>6 DEF Accept, Kept, NoNewDebt
<1>4. CASE ~accepted
  <2>1. r = Refuse(b)
    BY <1>2, <1>4
  <2> HIDE DEF accepted
  <2>. QED BY <2>1 DEF Refuse, Kept, NoNewDebt
<1>. QED BY <1>3, <1>4

\* A termination removes its account, and of the others changes what RECYCLE
\* holds, upwards.
LEMMA ApplyEndUserFacts ==
    ASSUME NEW b \in Bank, NEW a \in Ids, NEW f \in Nat
    PROVE  LET r == ApplyEndUser(b, a, f) IN
           /\ Kept(b, r.bank)
           /\ NoNewDebt(b, r.bank)
           /\ \A c \in Ids \ {a} : /\ r.bank[c].live = b[c].live
                                   /\ r.bank[c].blockId = b[c].blockId
           /\ r.ok => ~r.bank[a].live
<1> DEFINE c == [b EXCEPT ![RECYCLE].bal = Recycled(b, a), ![a] = NoAccount]
           r == ApplyEndUser(b, a, f)
<1>1. r = Refuse(b) \/ r = Accept(c)
  BY DEF ApplyEndUser, WriteOff
<1>2. /\ Recycled(b, a) \in [Tokens -> Int]
      /\ \A t \in Tokens : Recycled(b, a)[t] >= b[RECYCLE].bal[t]
  BY BankShape, SystemIds DEF Recycled
<1>3. NoAccount \in Account /\ NoAccount.live = FALSE
      /\ \A t \in Tokens : NoAccount.bal[t] = 0
  BY DEF NoAccount, NoBalance, Account
<1>4. /\ c \in Bank
      /\ c[a] = NoAccount
      /\ a # RECYCLE => /\ c[RECYCLE].bal = Recycled(b, a)
                        /\ c[RECYCLE].live = b[RECYCLE].live
                        /\ c[RECYCLE].blockId = b[RECYCLE].blockId
      /\ \A x \in Ids \ {a, RECYCLE} : c[x] = b[x]
  BY <1>2, <1>3, SystemIds DEF Bank, Account
<1>5. WriteOff(b, a) = Accept(c) => b[RECYCLE].live
  BY SystemIds DEF WriteOff, Accept, Refuse
<1> HIDE DEF c
<1>6. CASE r = Refuse(b)
  BY <1>6 DEF Refuse, Kept, NoNewDebt
<1>7. CASE r = Accept(c)
  <2>1. b[RECYCLE].live
    BY <1>5, <1>7 DEF ApplyEndUser, Accept, Refuse
  <2>2. WellFormed(b) => WellFormed(c)
    BY <1>4, <2>1, SystemIds DEF WellFormed
  <2>3. Solvent(b) => Solvent(c)
    BY <1>2, <1>3, <1>4, BankShape, SystemIds DEF Solvent
  <2>4. InRange(b) => InRange(c)
    BY <1>3, <1>4, MaxIntAssumption DEF InRange, MinInt
  <2>5. NoNewDebt(b, c)
    BY <1>2, <1>3, <1>4, BankShape, SystemIds DEF NoNewDebt
  <2>6. \A x \in Ids \ {a} : c[x].live = b[x].live /\ c[x].blockId = b[x].blockId
    BY <1>4
  <2>. QED BY <1>3, <1>4, <1>7, <2>2, <2>3, <2>4, <2>5, <2>6 DEF Accept, Kept
<1>. QED BY <1>1, <1>6, <1>7

----------------------------------------------------------------------------
(* The records of the state.                                               *)

\* Every record in a batch is one its application cannot turn against the
\* invariants: GENESIS and FEE are renewed, never terminated; whoever else is
\* renewed can pay; a renewal states int64 balances.
DueSound ==
    \A a \in DOMAIN due :
        /\ a \in {GENESIS, FEE} => due[a].kind = "renewal"
        /\ (due[a].kind = "renewal" /\ a \notin {GENESIS, FEE}) =>
              due[a].balances[GENESIS] >= 0
        /\ (due[a].kind = "renewal" /\ a # RECYCLE) =>
              \A t \in Tokens : due[a].balances[t] \in MinInt .. MaxInt

\* What an account holds once a fee is paid.
LEMMA PaidBalancesFacts ==
    ASSUME NEW b \in Bank, NEW a \in Ids, NEW fee \in Nat
    PROVE  /\ PaidBalances(b, a, fee) \in [Tokens -> Int]
           /\ PaidBalances(b, a, fee)[GENESIS] = b[a].bal[GENESIS] - fee
           /\ \A t \in Tokens \ {GENESIS} : PaidBalances(b, a, fee)[t] = b[a].bal[t]
BY BankShape, SystemIds DEF PaidBalances

\* The record createRenewalTx makes for an account that is due is sound.
LEMMA RenewalRecordFacts ==
    ASSUME NEW b \in Bank, NEW a \in Ids, NEW f \in Nat,
           NEW r, r = RenewalRecord(b, a, f), r # NoRecord
    PROVE  /\ r.kind \in {"renewal", "end"}
           /\ r.fee \in Nat
           /\ r.balances \in [Tokens -> Int]
           /\ a \in {GENESIS, FEE} => r.kind = "renewal"
           /\ (r.kind = "renewal" /\ a \notin {GENESIS, FEE}) =>
                 r.balances[GENESIS] >= 0
           /\ (InRange(b) /\ r.kind = "renewal" /\ a # RECYCLE) =>
                 \A t \in Tokens : r.balances[t] \in MinInt .. MaxInt
<1> DEFINE balance == b[a].bal[GENESIS]
           paid == PaidBalances(b, a, f)
<1>1. /\ balance \in Int /\ b[a].bal \in [Tokens -> Int]
      /\ paid \in [Tokens -> Int]
      /\ paid[GENESIS] = balance - f
      /\ \A t \in Tokens \ {GENESIS} : paid[t] = b[a].bal[t]
      /\ NoBalance \in [Tokens -> Int]
  BY BankShape, SystemIds, PaidBalancesFacts DEF NoBalance
<1>2. \/ a = GENESIS /\ r = Renewal(f, paid) /\ balance >= MinInt + f
      \/ a = FEE /\ r = Renewal(f, b[a].bal)
      \/ a \notin {GENESIS, FEE} /\ r = Termination
      \/ a \notin {GENESIS, FEE} /\ r = Renewal(f, paid) /\ balance >= f
  BY <1>1, SystemIds, MaxIntAssumption DEF RenewalRecord, MinInt
<1>3. (InRange(b) /\ a # RECYCLE) =>
         \A t \in Tokens : b[a].bal[t] \in MinInt .. MaxInt
  BY DEF InRange
<1> HIDE DEF paid
<1>4. (InRange(b) /\ a # RECYCLE /\ balance >= MinInt + f) =>
         \A t \in Tokens : paid[t] \in MinInt .. MaxInt
  BY <1>1, <1>3, SystemIds, MaxIntAssumption DEF MinInt
<1>5. balance >= f => balance >= MinInt + f
  BY <1>1, MaxIntAssumption DEF MinInt
<1>. QED BY <1>1, <1>2, <1>3, <1>4, <1>5 DEF Renewal, Termination

----------------------------------------------------------------------------
(* The inductive invariant.  RenewalWindow alone is not inductive: it needs *)
(* the system accounts to stay (a fee credited to a missing account is      *)
(* lost) and the batch to be what OpenBlock made it (DueSound).             *)

Inv ==
    /\ TypeOK
    /\ CustomNonNegative
    /\ BalancesInRange
    /\ SystemAccountsLive
    /\ RenewalWindow
    /\ DueSound

\* The conjuncts of Inv that are about the bank, as the lemmas state them.
LEMMA InvOfBank ==
    /\ TypeOK => WellFormed(bank)
    /\ CustomNonNegative <=> Solvent(bank)
    /\ BalancesInRange <=> InRange(bank)
BY DEF TypeOK, WellFormed, CustomNonNegative, Solvent, BalancesInRange, InRange

\* The same for the bank of the next state.
LEMMA InvOfBankPrime ==
    /\ CustomNonNegative' <=> Solvent(bank')
    /\ BalancesInRange' <=> InRange(bank')
BY DEF CustomNonNegative, Solvent, BalancesInRange, InRange

\* The deadline of a block is not after the block.
LEMMA DeadlineBound ==
    ASSUME NEW h \in Nat
    PROVE  MaxBlockIdForRenewal(h) \in Nat /\ MaxBlockIdForRenewal(h) <= h
BY BankAssumption DEF MaxBlockIdForRenewal

\* Every snapshot an owner may sign states int64 balances.
LEMMA ClaimsFacts ==
    ASSUME TypeOK, NEW a \in Ids, NEW fee \in Nat, NEW c \in Claims(a, fee)
    PROVE  /\ c \in [Tokens -> Int]
           /\ \A t \in Tokens : c[t] \in MinInt .. MaxInt
<1>1. PaidBalances(bank, a, fee) \in [Tokens -> Int]
  BY PaidBalancesFacts DEF TypeOK
<1>. QED BY <1>1 DEF Claims

\* The genesis bank satisfies the invariant.
LEMMA InitInv == Init => Inv
<1> SUFFICES ASSUME Init PROVE Inv
  OBVIOUS
<1> USE DEF Init
<1>1. /\ GenesisFee \in Nat /\ Supply \in Nat /\ 3 * GenesisFee <= Supply
      /\ Supply <= MaxInt /\ MaxInt \in Nat /\ GenesisFee \in Fees
  BY BankAssumption, MaxIntAssumption
<1>2. GenesisHolding \in [Ids -> Int]
      /\ \A a \in Ids : GenesisHolding[a] \in MinInt .. MaxInt
  BY <1>1 DEF GenesisHolding, MinInt, GENESIS, FEE, RESERVE
<1>3. NoBalance \in [Tokens -> Int] /\ \A t \in Tokens : NoBalance[t] = 0
  BY DEF NoBalance
<1>4. \A a \in Ids :
         /\ a <= RECYCLE => /\ bank[a].live /\ bank[a].blockId = 0
                            /\ bank[a].bal = [NoBalance EXCEPT ![GENESIS] = GenesisHolding[a]]
                            /\ bank[a] \in Account
         /\ ~(a <= RECYCLE) => bank[a] = NoAccount
  BY <1>2, <1>3, SystemIds DEF GenesisBank, Account
<1>5. NoAccount \in Account /\ NoAccount.live = FALSE /\ NoAccount.bal = NoBalance
      /\ NoAccount.blockId = 0
  BY <1>3 DEF NoAccount, Account
<1>6. bank \in Bank /\ \A a \in Ids : ~bank[a].live => bank[a] = NoAccount
  <2>1. \A a \in Ids : bank[a] \in Account
    BY <1>4, <1>5
  <2>. QED BY <2>1, <1>4 DEF GenesisBank, Bank
<1>7. TypeOK
  BY <1>1, <1>6, BankAssumption DEF TypeOK
<1>8. \A a \in Ids, t \in Tokens :
         bank[a].bal[t] = 0 \/ (t = GENESIS /\ bank[a].bal[t] = GenesisHolding[a])
  <2> SUFFICES ASSUME NEW a \in Ids, NEW t \in Tokens
      PROVE bank[a].bal[t] = 0 \/ (t = GENESIS /\ bank[a].bal[t] = GenesisHolding[a])
    OBVIOUS
  <2>1. CASE a <= RECYCLE
    BY <2>1, <1>3, <1>4
  <2>2. CASE ~(a <= RECYCLE)
    BY <2>2, <1>3, <1>4, <1>5
  <2>. QED BY <2>1, <2>2
<1>9. CustomNonNegative
  BY <1>8 DEF CustomNonNegative
<1>10. BalancesInRange
  <2>1. 0 \in MinInt .. MaxInt
    BY <1>1 DEF MinInt
  <2>. QED BY <2>1, <1>2, <1>8 DEF BalancesInRange
<1>11. SystemAccountsLive
  <2>1. GENESIS <= RECYCLE /\ FEE <= RECYCLE
    BY DEF GENESIS, FEE, RECYCLE
  <2>. QED BY <2>1, <1>4, SystemIds DEF SystemAccountsLive
<1>12. RenewalWindow
  <2>1. \A a \in Ids : bank[a].blockId = 0
    BY <1>4, <1>5
  <2>2. MaxBlockIdForRenewal(0) = 0
    BY DeadlineBound
  <2>. QED BY <2>1, <2>2 DEF RenewalWindow, AccountIdsBefore, Accounts
<1>13. DueSound
  BY DEF DueSound
<1>. QED BY <1>7, <1>9, <1>10, <1>11, <1>12, <1>13 DEF Inv

\* What every record of a client has in common: the batch is done, and every
\* account it leaves is either dated as before or dated with this block.
LEMMA ClientStep ==
    ASSUME Inv, DOMAIN due = {}, UNCHANGED <<height, due>>,
           WellFormed(bank'), Solvent(bank'), InRange(bank'),
           minFee' \in Fees, records' \in Nat,
           \A c \in Ids : bank[c].live => bank'[c].live,
           \A c \in Ids : \/ bank'[c].live = bank[c].live
                             /\ bank'[c].blockId = bank[c].blockId
                          \/ bank'[c].blockId = height
    PROVE  Inv'
<1>1. TypeOK'
  BY DEF Inv, TypeOK, WellFormed
<1>2. CustomNonNegative' /\ BalancesInRange'
  BY InvOfBankPrime
<1>3. SystemAccountsLive'
  BY SystemIds DEF Inv, SystemAccountsLive
<1>4. RenewalWindow'
  <2>1. height \in Nat
    BY BankAssumption DEF Inv, TypeOK
  <2>2. /\ MaxBlockIdForRenewal(height) \in Nat
        /\ MaxBlockIdForRenewal(height) <= height
    BY <2>1, DeadlineBound
  <2>3. \A c \in Ids : ~(bank[c].live /\ bank[c].blockId < MaxBlockIdForRenewal(height))
    BY DEF Inv, RenewalWindow, AccountIdsBefore, Accounts
  <2>4. \A c \in Ids :
           ~(bank'[c].live /\ bank'[c].blockId < MaxBlockIdForRenewal(height))
    BY <2>1, <2>2, <2>3
  <2>. QED BY <2>4 DEF RenewalWindow, AccountIdsBefore, Accounts, MaxBlockIdForRenewal
<1>5. DueSound'
  BY DEF Inv, DueSound
<1>. QED BY <1>1, <1>2, <1>3, <1>4, <1>5 DEF Inv

\* Opening a block keeps the invariant: its batch covers who is due and is sound.
LEMMA OpenBlockInv == Inv /\ OpenBlock => Inv'
<1> SUFFICES ASSUME Inv, OpenBlock PROVE Inv'
  OBVIOUS
<1> DEFINE h == height + 1
           batch == Renewals(h)
<1>1. /\ due' = batch /\ height' = h /\ records' = 0 /\ bank' = bank
      /\ minFee' = minFee /\ height < MaxHeight
      /\ \A a \in DOMAIN batch : batch[a] # NoRecord
  BY DEF OpenBlock, Collectable
<1>2. /\ DOMAIN batch = DueAt(h) /\ DueAt(h) \subseteq Ids
      /\ \A a \in DOMAIN batch : batch[a] = RenewalRecord(bank, a, minFee)
  BY DEF Renewals, DueAt, AccountIdsBefore, Accounts
<1>3. bank \in Bank /\ minFee \in Nat /\ InRange(bank) /\ height \in Nat
  BY InvOfBank, BankAssumption DEF Inv, TypeOK
<1> HIDE DEF batch
<1>4. \A a \in DOMAIN batch :
         /\ batch[a].kind \in {"renewal", "end"}
         /\ batch[a].fee \in Nat
         /\ batch[a].balances \in [Tokens -> Int]
         /\ a \in {GENESIS, FEE} => batch[a].kind = "renewal"
         /\ (batch[a].kind = "renewal" /\ a \notin {GENESIS, FEE}) =>
               batch[a].balances[GENESIS] >= 0
         /\ (batch[a].kind = "renewal" /\ a # RECYCLE) =>
               \A t \in Tokens : batch[a].balances[t] \in MinInt .. MaxInt
  BY <1>1, <1>2, <1>3, RenewalRecordFacts
<1>5. TypeOK'
  BY <1>1, <1>2, <1>3, <1>4, BankAssumption DEF Inv, TypeOK
<1>6. CustomNonNegative' /\ BalancesInRange' /\ SystemAccountsLive'
  BY <1>1 DEF Inv, CustomNonNegative, BalancesInRange, SystemAccountsLive
<1>7. RenewalWindow'
  BY <1>1, <1>2 DEF RenewalWindow, DueAt, AccountIdsBefore, Accounts,
                    MaxBlockIdForRenewal
<1>8. DueSound'
  BY <1>1, <1>4 DEF DueSound
<1>. QED BY <1>5, <1>6, <1>7, <1>8 DEF Inv

\* A renewal or a termination keeps the invariant: whoever it leaves is dated
\* with this block. It puts nobody into native debt.
LEMMA ApplyRenewalInv ==
    ASSUME Inv, NEW a \in Ids, ApplyRenewal(a)
    PROVE  Inv' /\ NoNewDebt(bank, bank')
<1> DEFINE rec == due[a]
           s == ApplySnapshot(bank, height, a, rec.balances, rec.fee, minFee)
           e == ApplyEndUser(bank, a, minFee)
<1>1. /\ a \in DOMAIN due
      /\ due' = [c \in DOMAIN due \ {a} |-> due[c]]
      /\ records' = records + 1 /\ minFee' = minFee /\ height' = height
      /\ \/ rec.kind = "renewal" /\ s.ok /\ bank' = s.bank
         \/ rec.kind = "end" /\ e.ok /\ bank' = e.bank
  BY DEF ApplyRenewal, IsNextDue, ApplyRecord, Inv, TypeOK
<1>2. /\ bank \in Bank /\ minFee \in Nat /\ height \in Nat
      /\ WellFormed(bank) /\ Solvent(bank) /\ InRange(bank)
      /\ bank[GENESIS].live /\ bank[FEE].live
  BY InvOfBank, BankAssumption DEF Inv, TypeOK, SystemAccountsLive
<1>3. /\ rec.fee \in Nat /\ rec.balances \in [Tokens -> Int]
      /\ a \in {GENESIS, FEE} => rec.kind = "renewal"
      /\ (rec.kind = "renewal" /\ a \notin {GENESIS, FEE}) =>
            rec.balances[GENESIS] >= 0
      /\ (rec.kind = "renewal" /\ a # RECYCLE) =>
            \A t \in Tokens : rec.balances[t] \in MinInt .. MaxInt
  BY <1>1 DEF Inv, TypeOK, DueSound
<1> HIDE DEF rec
<1>4. /\ bank' \in Bank
      /\ WellFormed(bank') /\ Solvent(bank') /\ InRange(bank')
      /\ NoNewDebt(bank, bank')
      /\ \A c \in Ids \ {a} : /\ bank'[c].live = bank[c].live
                              /\ \/ bank'[c].blockId = bank[c].blockId
                                 \/ bank'[c].blockId = height
      /\ bank'[a].live => bank'[a].blockId = height
      /\ a \in {GENESIS, FEE} => bank'[a].live
  <2>1. CASE rec.kind = "renewal" /\ s.ok /\ bank' = s.bank
    <3>1. /\ s.bank \in Bank
          /\ WellFormed(s.bank) /\ Solvent(s.bank) /\ InRange(s.bank)
      BY <1>2, <1>3, <2>1, ApplySnapshotFacts
    <3>2. SnapshotEffect(bank, height, a, rec.balances, s)
      BY <1>2, <1>3, ApplySnapshotFacts
    <3>3. /\ \A c \in Ids \ {a, GENESIS} :
                bank[c].bal[GENESIS] >= 0 => s.bank[c].bal[GENESIS] >= 0
          /\ (a # GENESIS /\ rec.balances[GENESIS] >= 0
                /\ bank[a].bal[GENESIS] >= 0) => s.bank[a].bal[GENESIS] >= 0
          /\ (a = FEE /\ s.ok /\ bank[FEE].live) =>
                s.bank[FEE].bal[GENESIS] = bank[FEE].bal[GENESIS]
      <4> HIDE DEF s
      <4>. QED BY <3>2 DEF SnapshotEffect
    <3> HIDE DEF s
    <3>4. NoNewDebt(bank, bank')
      BY <1>2, <1>3, <2>1, <3>3 DEF NoNewDebt
    <3>. QED BY <2>1, <3>1, <3>2, <3>4, <1>2 DEF SnapshotEffect
  <2>2. CASE rec.kind = "end" /\ e.ok /\ bank' = e.bank
    <3>1. /\ Kept(bank, bank') /\ NoNewDebt(bank, bank')
          /\ \A c \in Ids \ {a} : /\ bank'[c].live = bank[c].live
                                  /\ bank'[c].blockId = bank[c].blockId
          /\ ~bank'[a].live
      BY <1>2, <2>2, ApplyEndUserFacts
    <3>. QED BY <3>1, <1>2, <1>3, <2>2 DEF Kept
  <2>. QED BY <1>1, <2>1, <2>2
<1>5. TypeOK'
  BY <1>1, <1>4 DEF Inv, TypeOK, WellFormed
<1>6. CustomNonNegative' /\ BalancesInRange'
  BY <1>4, InvOfBankPrime
<1>7. SystemAccountsLive'
  BY <1>2, <1>4, SystemIds DEF SystemAccountsLive
<1>8. RenewalWindow'
  <2>1. /\ MaxBlockIdForRenewal(height) \in Nat
        /\ MaxBlockIdForRenewal(height) <= height
    BY <1>2, DeadlineBound
  <2>2. \A c \in Ids :
           (bank[c].live /\ bank[c].blockId < MaxBlockIdForRenewal(height)) =>
              c \in DOMAIN due
    BY DEF Inv, RenewalWindow, AccountIdsBefore, Accounts
  <2>3. \A c \in Ids :
           (bank'[c].live /\ bank'[c].blockId < MaxBlockIdForRenewal(height)) =>
              c # a /\ c \in DOMAIN due
    BY <1>2, <1>4, <2>1, <2>2
  <2>. QED BY <1>1, <2>3 DEF RenewalWindow, AccountIdsBefore, Accounts,
                             MaxBlockIdForRenewal
<1>9. DueSound'
  BY <1>1 DEF Inv, DueSound
<1>. QED BY <1>4, <1>5, <1>6, <1>7, <1>8, <1>9 DEF Inv

\* What a step of a client's record never does: be refused with a trace in the
\* bank while the fee account has room.
Spares == records' = records => bank' = bank \/ FeeAccountFull'

\* From the outcome of a handler to the step that takes it.
LEMMA SparesOfOutcome ==
    ASSUME Inv, NEW r, NEW fee \in Fees, ClientRecord(r), r.ok \in BOOLEAN,
           RefusedForRoom(bank, r, fee)
    PROVE  Spares
<1>1. records \in Nat /\ (r.ok => records' = records + 1) /\ bank' = r.bank
  BY DEF ClientRecord, Inv, TypeOK
<1>2. CASE r.ok
  BY <1>1, <1>2 DEF Spares
<1>3. CASE ~r.ok
  BY <1>1, <1>3 DEF RefusedForRoom, Spares, FeeAccountFull
<1>. QED BY <1>2, <1>3

\* What the handlers of clients' records are given.
LEMMA ClientContext ==
    ASSUME Inv, TakesRecords
    PROVE  /\ bank \in Bank /\ WellFormed(bank) /\ Solvent(bank) /\ InRange(bank)
           /\ height \in Nat /\ minFee \in Nat /\ minFee \in Fees
           /\ records \in Nat /\ records + 1 \in Nat
           /\ DOMAIN due = {} /\ bank[FEE].live
BY InvOfBank, BankAssumption
   DEF Inv, TypeOK, SystemAccountsLive, TakesRecords

\* A transfer of a client keeps the invariant.
LEMMA TransferTxInv ==
    ASSUME Inv, NEW from \in Ids, NEW to \in Ids, NEW t \in Tokens,
           NEW amount \in Amounts, NEW fee \in Fees,
           TransferTx(from, to, t, amount, fee)
    PROVE  Inv' /\ Spares /\ NoNewDebt(bank, bank')
<1> DEFINE r == ApplyDefault(bank, from, to, t, amount, fee, minFee)
           q == Transfer(bank, from, to, t, amount, fee)
<1>1. /\ TakesRecords /\ ClientRecord(r) /\ minFee' = minFee
      /\ bank' = r.bank /\ UNCHANGED <<height, due>>
      /\ records' = records + 1 \/ records' = records
  BY DEF TransferTx, ClientRecord
<1>2. amount \in Nat /\ fee \in Nat
  BY BankAssumption
<1>3. r = Refuse(bank) \/ r = q
  BY DEF ApplyDefault
<1>4. /\ Kept(bank, q.bank) /\ SameAccounts(bank, q.bank)
      /\ NoNewDebt(bank, q.bank) /\ RefusedForRoom(bank, q, fee)
  BY <1>1, <1>2, ClientContext, TransferFacts
<1>5. r.ok \in BOOLEAN
  BY DEF ApplyDefault, Transfer, Deposit, Accept, Refuse
<1> HIDE DEF q
<1>6. /\ Kept(bank, r.bank) /\ SameAccounts(bank, r.bank)
      /\ NoNewDebt(bank, r.bank) /\ RefusedForRoom(bank, r, fee)
  BY <1>1, <1>3, <1>4, ClientContext
     DEF Refuse, Kept, SameAccounts, NoNewDebt, RefusedForRoom
<1> HIDE DEF r
<1>7. Inv'
  BY <1>1, <1>6, ClientContext, ClientStep DEF Kept, SameAccounts
<1>. QED BY <1>1, <1>5, <1>6, <1>7, SparesOfOutcome

\* A new account keeps the invariant.
LEMMA NewUserTxInv ==
    ASSUME Inv, NEW from \in Ids, NEW to \in Ids,
           NEW amount \in Amounts, NEW fee \in Fees,
           NewUserTx(from, to, amount, fee)
    PROVE  Inv' /\ Spares /\ NoNewDebt(bank, bank')
<1> DEFINE r == ApplyNewUser(bank, height, from, to, amount, fee, minFee)
<1>1. /\ TakesRecords /\ ClientRecord(r) /\ minFee' = minFee
      /\ bank' = r.bank /\ UNCHANGED <<height, due>>
      /\ records' = records + 1 \/ records' = records
  BY DEF NewUserTx, ClientRecord
<1>2. /\ amount \in Nat /\ fee \in Nat /\ minFee \in Nat /\ height \in Nat
      /\ bank \in Bank /\ bank[FEE].live
  BY <1>1, BankAssumption, ClientContext
<1>3. /\ Kept(bank, r.bank)
      /\ DatesKept(bank, height, r.bank)
      /\ NoNewDebt(bank, r.bank) /\ RefusedForRoom(bank, r, fee)
  BY <1>2, ApplyNewUserFacts
<1>4. r.ok \in BOOLEAN
  BY DEF ApplyNewUser, Transfer, Deposit, Accept, Refuse
<1> HIDE DEF r
<1>5. Inv'
  BY <1>1, <1>3, ClientContext, ClientStep DEF Kept, DatesKept
<1>. QED BY <1>1, <1>3, <1>4, <1>5, SparesOfOutcome

\* A user update keeps the invariant; only its own account can fall into debt.
LEMMA UserUpdateTxInv ==
    ASSUME Inv, NEW a \in Ids, NEW fee \in Fees, NEW balances \in Claims(a, fee),
           UserUpdateTx(a, fee, balances)
    PROVE  /\ Inv' /\ Spares
           /\ \A c \in Ids \ {a, GENESIS} :
                 bank[c].bal[GENESIS] >= 0 => bank'[c].bal[GENESIS] >= 0
<1> DEFINE r == ApplySnapshot(bank, height, a, balances, fee, minFee)
<1>1. /\ TakesRecords /\ ClientRecord(r) /\ minFee' = minFee
      /\ bank' = r.bank /\ UNCHANGED <<height, due>>
      /\ records' = records + 1 \/ records' = records
  BY DEF UserUpdateTx, ClientRecord
<1>2. /\ fee \in Nat /\ balances \in [Tokens -> Int]
      /\ \A t \in Tokens : balances[t] \in MinInt .. MaxInt
  BY BankAssumption, ClaimsFacts DEF Inv
<1>3. /\ r.bank \in Bank
      /\ WellFormed(bank) => WellFormed(r.bank)
      /\ Solvent(bank) => Solvent(r.bank)
      /\ InRange(bank) => InRange(r.bank)
      /\ SnapshotEffect(bank, height, a, balances, r)
      /\ RefusedForRoom(bank, r, fee)
  BY <1>1, <1>2, ClientContext, ApplySnapshotFacts
<1>4. r.ok \in BOOLEAN
  BY DEF ApplySnapshot, CreditFee, Deposit, Accept, Refuse
<1> HIDE DEF r
<1>5. Inv'
  BY <1>1, <1>3, ClientContext, ClientStep DEF SnapshotEffect
<1>. QED BY <1>1, <1>3, <1>4, <1>5, SparesOfOutcome DEF SnapshotEffect

\* A configuration update keeps the invariant.
LEMMA ConfigTxInv ==
    ASSUME Inv, NEW f \in Fees, NEW balances \in Claims(GENESIS, 0),
           ConfigTx(f, balances)
    PROVE  Inv' /\ Spares /\ NoNewDebt(bank, bank')
<1> DEFINE r == ApplyConfig(bank, height, balances)
<1>1. /\ TakesRecords /\ ClientRecord(r) /\ minFee' \in {f, minFee}
      /\ bank' = r.bank /\ UNCHANGED <<height, due>>
      /\ records' = records + 1 \/ records' = records
  BY DEF ConfigTx, ClientRecord
<1>2. balances \in [Tokens -> Int]
  BY SystemIds, ClaimsFacts DEF Inv
<1>3. /\ Kept(bank, r.bank)
      /\ \A c \in Ids : /\ r.bank[c].live = bank[c].live
                        /\ \/ r.bank[c].blockId = bank[c].blockId
                           \/ r.bank[c].blockId = height
      /\ NoNewDebt(bank, r.bank)
      /\ ~r.ok => r.bank = bank
  BY <1>1, <1>2, ClientContext, ApplyConfigFacts
<1>4. r.ok \in BOOLEAN
  BY DEF ApplyConfig, Accept, Refuse
<1>5. RefusedForRoom(bank, r, f)
  BY <1>3 DEF RefusedForRoom
<1> HIDE DEF r
<1>6. Inv'
  BY <1>1, <1>3, ClientContext, ClientStep DEF Kept
<1>. QED BY <1>1, <1>3, <1>4, <1>5, <1>6, SparesOfOutcome

----------------------------------------------------------------------------
(* Every step.                                                             *)

\* A step of Next keeps the invariant, leaves no trace of what it refuses
\* unless the fee account is full, and puts into native debt at most the
\* account whose own snapshot it applies.
LEMMA NextInv ==
    ASSUME Inv, Next
    PROVE  /\ Inv'
           /\ height' = height => Spares
           /\ \A c \in Ids \ {GENESIS} :
                 \/ bank[c].bal[GENESIS] >= 0 => bank'[c].bal[GENESIS] >= 0
                 \/ \E fee \in Fees : \E balances \in Claims(c, fee) :
                       UserUpdateTx(c, fee, balances)
<1>1. CASE OpenBlock
  <2>1. Inv' /\ bank' = bank
    BY <1>1, OpenBlockInv DEF OpenBlock
  <2>. QED BY <2>1 DEF Spares
<1>2. CASE \E a \in Ids : ApplyRenewal(a)
  <2>1. PICK a \in Ids : ApplyRenewal(a)
    BY <1>2
  <2>2. Inv' /\ NoNewDebt(bank, bank')
    BY <2>1, ApplyRenewalInv
  <2>3. records' = records + 1 /\ records \in Nat
    BY <2>1 DEF ApplyRenewal, Inv, TypeOK
  <2>. QED BY <2>2, <2>3 DEF NoNewDebt, Spares
<1>3. CASE \E r \in Routes, t \in Tokens, amount \in Amounts, fee \in Fees :
              TransferTx(r[1], r[2], t, amount, fee)
  <2>1. PICK r \in Routes, t \in Tokens, amount \in Amounts, fee \in Fees :
           TransferTx(r[1], r[2], t, amount, fee)
    BY <1>3
  <2>2. r[1] \in Ids /\ r[2] \in Ids
    BY BankAssumption
  <2>3. Inv' /\ Spares /\ NoNewDebt(bank, bank')
    BY <2>1, <2>2, TransferTxInv
  <2>. QED BY <2>3 DEF NoNewDebt
<1>4. CASE \E r \in Routes, amount \in Amounts, fee \in Fees :
              NewUserTx(r[1], r[2], amount, fee)
  <2>1. PICK r \in Routes, amount \in Amounts, fee \in Fees :
           NewUserTx(r[1], r[2], amount, fee)
    BY <1>4
  <2>2. r[1] \in Ids /\ r[2] \in Ids
    BY BankAssumption
  <2>3. Inv' /\ Spares /\ NoNewDebt(bank, bank')
    BY <2>1, <2>2, NewUserTxInv
  <2>. QED BY <2>3 DEF NoNewDebt
<1>5. CASE \E a \in Holders, fee \in Fees : \E balances \in Claims(a, fee) :
              UserUpdateTx(a, fee, balances)
  <2>1. PICK a \in Holders, fee \in Fees : \E balances \in Claims(a, fee) :
           UserUpdateTx(a, fee, balances)
    BY <1>5
  <2>2. a \in Ids
    BY BankAssumption
  <2>3. /\ Inv' /\ Spares
        /\ \A c \in Ids \ {a, GENESIS} :
              bank[c].bal[GENESIS] >= 0 => bank'[c].bal[GENESIS] >= 0
    BY <2>1, <2>2, UserUpdateTxInv
  <2>. QED BY <2>1, <2>3
<1>6. CASE \E f \in Fees : \E balances \in Claims(GENESIS, 0) :
              ConfigTx(f, balances)
  <2>1. Inv' /\ Spares /\ NoNewDebt(bank, bank')
    BY <1>6, ConfigTxInv
  <2>. QED BY <2>1 DEF NoNewDebt
<1>. QED BY <1>1, <1>2, <1>3, <1>4, <1>5, <1>6 DEF Next

\* Inv is inductive, stuttering included.
LEMMA StepInv == Inv /\ [Next]_vars => Inv'
<1> SUFFICES ASSUME Inv, [Next]_vars PROVE Inv'
  OBVIOUS
<1>1. CASE Next
  BY <1>1, NextInv
<1>2. CASE UNCHANGED vars
  BY <1>2 DEF vars, Inv, TypeOK, CustomNonNegative, BalancesInRange,
              SystemAccountsLive, RenewalWindow, AccountIdsBefore, Accounts,
              MaxBlockIdForRenewal, DueSound
<1>. QED BY <1>1, <1>2

\* Inv holds in every state of a behaviour.
LEMMA InvHolds == Spec => []Inv
BY InitInv, StepInv, PTL DEF Spec

----------------------------------------------------------------------------
(* The results.                                                            *)

\* Whatever records a chain applies, its bank keeps its shape and an id without
\* an account holds nothing.
THEOREM TypeCorrect == Spec => []TypeOK
<1>1. Inv => TypeOK
  BY DEF Inv
<1>. QED BY <1>1, InvHolds, PTL

\* No account but the issuer of a custom token ever owes it.
THEOREM NoCustomDebt == Spec => []CustomNonNegative
<1>1. Inv => CustomNonNegative
  BY DEF Inv
<1>. QED BY <1>1, InvHolds, PTL

\* No sequence of records overflows a balance, that of RECYCLE apart.
THEOREM NoOverflow == Spec => []BalancesInRange
<1>1. Inv => BalancesInRange
  BY DEF Inv
<1>. QED BY <1>1, InvHolds, PTL

\* Neither GENESIS nor FEE is ever terminated.
THEOREM SystemAccountsStay == Spec => []SystemAccountsLive
<1>1. Inv => SystemAccountsLive
  BY DEF Inv
<1>. QED BY <1>1, InvHolds, PTL

\* Once its renewals are applied, a block leaves no account whose last record
\* is older than the deadline.
THEOREM RenewedInTime == Spec => []RenewalWindow
<1>1. Inv => RenewalWindow
  BY DEF Inv
<1>. QED BY <1>1, InvHolds, PTL

\* A refused record leaves no trace in the bank while the fee account has room.
THEOREM RefusalsSpare == Spec => RefusalSparesBank
<1>1. Inv /\ [Next]_vars =>
         [ RecordRefused => bank' = bank \/ FeeAccountFull' ]_vars
  BY NextInv DEF Spares, RecordRefused
<1>. QED BY <1>1, InvHolds, PTL DEF Spec, RefusalSparesBank

\* An account other than GENESIS falls into native debt only by a snapshot its
\* own keys signed.
THEOREM DebtIsOwn == Spec => OverdraftIsOwn
<1>1. Inv /\ [Next]_vars =>
         [ \A a \in Ids \ {GENESIS} :
             (bank[a].bal[GENESIS] >= 0 /\ bank'[a].bal[GENESIS] < 0) =>
                 \E fee \in Fees : \E balances \in Claims(a, fee) :
                     UserUpdateTx(a, fee, balances) ]_vars
  <2> SUFFICES ASSUME Inv, Next, NEW a \in Ids \ {GENESIS},
                      bank[a].bal[GENESIS] >= 0, bank'[a].bal[GENESIS] < 0
      PROVE \E fee \in Fees : \E balances \in Claims(a, fee) :
                UserUpdateTx(a, fee, balances)
    OBVIOUS
  <2>1. Inv'
    BY NextInv
  <2>2. bank'[a].bal[GENESIS] \in Int
    BY <2>1, BankShape, SystemIds DEF Inv, TypeOK
  <2>. QED BY <2>2, NextInv
<1>. QED BY <1>1, InvHolds, PTL DEF Spec, OverdraftIsOwn

----------------------------------------------------------------------------
(* How much of a token there is: one balance changes a total by what it    *)
(* changes itself (SumChange), and every record but one that ends an       *)
(* account changes balances that make up for each other.                   *)

\* A bank holds finitely many accounts.
LEMMA IdsFinite == IsFiniteSet(Ids)
BY IdsAssumption, FS_Interval DEF Ids

\* Two banks that differ in one balance of the token.
LEMMA TotalChange ==
    ASSUME NEW b \in Bank, NEW c \in Bank, NEW t \in Tokens, NEW a \in Ids,
           \A x \in Ids \ {a} : c[x].bal[t] = b[x].bal[t]
    PROVE  /\ Total(b, t) \in Int /\ Total(c, t) \in Int
           /\ Total(c, t) = Total(b, t) - b[a].bal[t] + c[a].bal[t]
<1> DEFINE f == [x \in Ids |-> b[x].bal[t]]
           h == [x \in Ids |-> c[x].bal[t]]
<1>1. f \in [Ids -> Int] /\ h \in [Ids -> Int]
  BY BankShape
<1>2. \A x \in Ids \ {a} : h[x] = f[x]
  OBVIOUS
<1>3. f[a] = b[a].bal[t] /\ h[a] = c[a].bal[t]
  OBVIOUS
<1>4. Total(b, t) = SumFunction(f) /\ Total(c, t) = SumFunction(h)
  BY DEF Total
<1> HIDE DEF f, h
<1>5. /\ SumFunction(f) \in Int /\ SumFunction(h) \in Int
      /\ SumFunction(h) = SumFunction(f) - f[a] + h[a]
  BY <1>1, <1>2, IdsFinite, SumChange
<1>. QED BY <1>3, <1>4, <1>5

\* Two banks that differ in no balance of the token.
LEMMA TotalSame ==
    ASSUME NEW b \in Bank, NEW c \in Bank, NEW t \in Tokens,
           \A x \in Ids : c[x].bal[t] = b[x].bal[t]
    PROVE  /\ Total(b, t) \in Int
           /\ Total(c, t) = Total(b, t)
<1>1. /\ Total(b, t) \in Int /\ Total(c, t) \in Int
      /\ Total(c, t) = Total(b, t) - b[GENESIS].bal[t] + c[GENESIS].bal[t]
  BY SystemIds, TotalChange
<1>2. b[GENESIS].bal[t] \in Int /\ c[GENESIS].bal[t] = b[GENESIS].bal[t]
  BY SystemIds, BankShape
<1>. QED BY <1>1, <1>2

\* A write of one balance.
LEMMA TotalSetBalance ==
    ASSUME NEW b \in Bank, NEW a \in Ids, NEW t \in Tokens, NEW v \in Int,
           NEW s \in Tokens
    PROVE  /\ Total(SetBalance(b, a, t, v), s) \in Int /\ Total(b, s) \in Int
           /\ Total(SetBalance(b, a, t, v), s) =
                 IF s = t THEN Total(b, s) - b[a].bal[t] + v ELSE Total(b, s)
<1> DEFINE c == SetBalance(b, a, t, v)
<1>1. /\ c \in Bank
      /\ \A x \in Ids, u \in Tokens :
            c[x].bal[u] = IF x = a /\ u = t THEN v ELSE b[x].bal[u]
  BY SetBalanceFacts
<1> HIDE DEF c
<1>2. CASE s = t
  <2>1. \A x \in Ids \ {a} : c[x].bal[s] = b[x].bal[s]
    BY <1>1
  <2>2. c[a].bal[s] = v
    BY <1>1, <1>2
  <2>3. /\ Total(b, s) \in Int /\ Total(c, s) \in Int
        /\ Total(c, s) = Total(b, s) - b[a].bal[s] + c[a].bal[s]
    BY <1>1, <2>1, TotalChange
  <2>. QED BY <1>2, <2>2, <2>3 DEF c
<1>3. CASE s # t
  <2>1. \A x \in Ids : c[x].bal[s] = b[x].bal[s]
    BY <1>1, <1>3
  <2>2. Total(b, s) \in Int /\ Total(c, s) = Total(b, s)
    BY <1>1, <2>1, TotalSame
  <2>. QED BY <1>3, <2>2 DEF c
<1>. QED BY <1>2, <1>3

\* What one account gives another is still there.
LEMMA TotalMoved ==
    ASSUME NEW b \in Bank, NEW from \in Ids, NEW to \in Ids, from # to,
           NEW t \in Tokens, NEW amount \in Nat, NEW s \in Tokens
    PROVE  /\ Total(b, s) \in Int
           /\ Total(Moved(b, from, to, t, amount), s) = Total(b, s)
<1> DEFINE x == b[from].bal[t] - amount
           y == b[to].bal[t] + amount
           d == SetBalance(b, from, t, x)
<1>1. b[from].bal[t] \in Int /\ b[to].bal[t] \in Int /\ x \in Int /\ y \in Int
  BY BankShape
<1>2. Moved(b, from, to, t, amount) = SetBalance(d, to, t, y)
  BY DEF Moved
<1>3. x = b[from].bal[t] - amount /\ y = b[to].bal[t] + amount
  OBVIOUS
<1> HIDE DEF x, y
<1>4. d \in Bank /\ \A c \in Ids \ {from} : d[c] = b[c]
  <2>1. d \in Bank
    BY <1>1, SetBalanceFacts
  <2>2. \A c \in Ids \ {from} : d[c] = b[c]
    BY <1>1, SetBalanceFacts
  <2>. QED BY <2>1, <2>2
<1>5. /\ Total(d, s) \in Int /\ Total(b, s) \in Int
      /\ Total(d, s) = IF s = t THEN Total(b, s) - b[from].bal[t] + x ELSE Total(b, s)
  BY <1>1, TotalSetBalance
<1> HIDE DEF d
<1>6. Total(SetBalance(d, to, t, y), s) =
         IF s = t THEN Total(d, s) - d[to].bal[t] + y ELSE Total(d, s)
  BY <1>1, <1>4, TotalSetBalance
<1>7. d[to].bal[t] = b[to].bal[t]
  BY <1>4
<1>. QED BY <1>1, <1>2, <1>3, <1>5, <1>6, <1>7

\* The debit of the fee takes the fee from the total of the native token.
LEMMA TotalCharged ==
    ASSUME NEW b \in Bank, NEW from \in Ids, NEW to \in Ids, from # to,
           NEW t \in Tokens, NEW amount \in Nat, NEW fee \in Nat, NEW s \in Tokens
    PROVE  /\ Total(b, s) \in Int
           /\ Total(Charged(b, from, to, t, amount, fee), s) =
                 IF s = GENESIS THEN Total(b, s) - fee ELSE Total(b, s)
<1> DEFINE m == Moved(b, from, to, t, amount)
           v == IF t = GENESIS THEN b[from].bal[t] - amount - fee
                               ELSE b[from].bal[GENESIS] - fee
<1>1. b[from].bal[t] \in Int /\ b[from].bal[GENESIS] \in Int /\ v \in Int
  BY BankShape, SystemIds
<1>2. Charged(b, from, to, t, amount, fee) = SetBalance(m, from, GENESIS, v)
  BY DEF Charged
<1>3. m \in Bank
  BY MovedFacts
<1>4. m[from].bal[GENESIS] =
         IF t = GENESIS THEN b[from].bal[t] - amount ELSE b[from].bal[GENESIS]
  <2>1. \A c \in Ids, u \in Tokens :
           m[c].bal[u] = IF c = to /\ u = t THEN b[to].bal[t] + amount
                         ELSE IF c = from /\ u = t THEN b[from].bal[t] - amount
                         ELSE b[c].bal[u]
    BY MovedFacts
  <2> HIDE DEF m
  <2>. QED BY <2>1, SystemIds
<1>5. Total(b, s) \in Int /\ Total(m, s) = Total(b, s)
  BY TotalMoved
<1>6. v = m[from].bal[GENESIS] - fee
  BY <1>1, <1>4
<1> HIDE DEF m, v
<1>7. m[from].bal[GENESIS] \in Int
  BY <1>3, SystemIds, BankShape
<1>8. Total(SetBalance(m, from, GENESIS, v), s) =
         IF s = GENESIS THEN Total(m, s) - m[from].bal[GENESIS] + v ELSE Total(m, s)
  BY <1>1, <1>3, SystemIds, TotalSetBalance
<1>. QED BY <1>2, <1>5, <1>6, <1>7, <1>8

\* A deposit that is accepted adds its amount.
LEMMA TotalDeposit ==
    ASSUME NEW b \in Bank, NEW a \in Ids, NEW t \in Tokens, NEW amount \in Nat,
           NEW s \in Tokens, Deposit(b, a, t, amount).ok
    PROVE  /\ Total(b, s) \in Int
           /\ Total(Deposit(b, a, t, amount).bank, s) =
                 IF s = t THEN Total(b, s) + amount ELSE Total(b, s)
<1> DEFINE v == b[a].bal[t] + amount
<1>1. b[a].bal[t] \in Int /\ v \in Int /\ v = b[a].bal[t] + amount
  BY BankShape
<1>2. Deposit(b, a, t, amount).bank = SetBalance(b, a, t, v)
  BY DEF Deposit, Accept, Refuse
<1> HIDE DEF v
<1>3. /\ Total(b, s) \in Int
      /\ Total(SetBalance(b, a, t, v), s) =
            IF s = t THEN Total(b, s) - b[a].bal[t] + v ELSE Total(b, s)
  BY <1>1, TotalSetBalance
<1>. QED BY <1>1, <1>2, <1>3

\* An accepted outcome has as much of every token as the bank it started from.
Balanced(b, r) == r.ok => \A s \in Tokens : Total(r.bank, s) = Total(b, s)

\* A transfer between two accounts, the fee account there to take the fee.
LEMMA TransferBalanced ==
    ASSUME NEW b \in Bank, NEW from \in Ids, NEW to \in Ids, from # to,
           NEW t \in Tokens, NEW amount \in Nat, NEW fee \in Nat
    PROVE  Balanced(b, Transfer(b, from, to, t, amount, fee))
<1> DEFINE m == Moved(b, from, to, t, amount)
           p == Charged(b, from, to, t, amount, fee)
           q == Deposit(p, FEE, GENESIS, fee)
           r == Transfer(b, from, to, t, amount, fee)
<1>1. SUFFICES ASSUME r.ok, NEW s \in Tokens PROVE Total(r.bank, s) = Total(b, s)
  BY DEF Balanced
<1>2. r = Accept(m) \/ r = q
  BY <1>1 DEF Transfer, Refuse
<1>3. p \in Bank
  BY ChargedFacts
<1>4. Total(m, s) = Total(b, s)
  BY TotalMoved
<1>5. /\ Total(b, s) \in Int
      /\ Total(p, s) = IF s = GENESIS THEN Total(b, s) - fee ELSE Total(b, s)
  BY TotalCharged
<1> HIDE DEF m, p, r
<1>6. q.ok => Total(q.bank, s) = IF s = GENESIS THEN Total(p, s) + fee ELSE Total(p, s)
  BY <1>3, SystemIds, TotalDeposit
<1> HIDE DEF q
<1>. QED BY <1>1, <1>2, <1>4, <1>5, <1>6 DEF Accept

\* A new account starts from nothing, and its funder is another account.
LEMMA NewUserBalanced ==
    ASSUME NEW b \in Bank, WellFormed(b), NEW blockId \in Nat,
           NEW from \in Ids, NEW to \in Ids,
           NEW amount \in Nat, NEW fee \in Nat, NEW f \in Nat
    PROVE  Balanced(b, ApplyNewUser(b, blockId, from, to, amount, fee, f))
<1> DEFINE c == Replace(b, to, blockId, NoBalance)
           q == Transfer(c, from, to, GENESIS, amount, fee)
           r == ApplyNewUser(b, blockId, from, to, amount, fee, f)
<1>1. SUFFICES ASSUME r.ok PROVE \A s \in Tokens : Total(r.bank, s) = Total(b, s)
  BY DEF Balanced
<1>2. r = q /\ ~b[to].live /\ CanSpend(b, from, GENESIS, amount, fee)
  BY <1>1 DEF ApplyNewUser, Refuse
<1>3. from # to /\ b[to] = NoAccount
  BY <1>2 DEF CanSpend, WellFormed
<1>4. NoBalance \in [Tokens -> Int]
  BY DEF NoBalance
<1>5. /\ c \in Bank
      /\ c[to] = [live |-> TRUE, blockId |-> blockId, bal |-> NoBalance]
      /\ \A x \in Ids \ {to} : c[x] = b[x]
  BY <1>4, ReplaceFacts
<1>6. b[to].bal = NoBalance
  BY <1>3 DEF NoAccount
<1> HIDE DEF c, r
<1>7. \A s \in Tokens : Total(c, s) = Total(b, s)
  <2> SUFFICES ASSUME NEW s \in Tokens PROVE Total(c, s) = Total(b, s)
    OBVIOUS
  <2>1. \A x \in Ids : c[x].bal[s] = b[x].bal[s]
    BY <1>5, <1>6
  <2>. QED BY <1>5, <2>1, TotalSame
<1>8. Balanced(c, q)
  BY <1>3, <1>5, SystemIds, TransferBalanced
<1> HIDE DEF q
<1>. QED BY <1>1, <1>2, <1>7, <1>8 DEF Balanced

\* A snapshot states what its account holds but for the fee, which is credited.
LEMMA SnapshotBalanced ==
    ASSUME NEW b \in Bank, b[FEE].live, NEW blockId \in Nat, NEW a \in Ids,
           NEW balances \in [Tokens -> Int], NEW fee \in Nat, NEW f \in Nat
    PROVE  Balanced(b, ApplySnapshot(b, blockId, a, balances, fee, f))
<1> DEFINE c == Replace(b, a, blockId, balances)
           d == Deposit(c, FEE, GENESIS, fee)
           r == ApplySnapshot(b, blockId, a, balances, fee, f)
<1>1. SUFFICES ASSUME r.ok, NEW s \in Tokens PROVE Total(r.bank, s) = Total(b, s)
  BY DEF Balanced
<1>2. r = CreditFee(c, fee) /\ BalanceMatches(b, a, fee, balances)
  BY <1>1 DEF ApplySnapshot, Refuse
<1>3. /\ c \in Bank
      /\ c[a] = [live |-> TRUE, blockId |-> blockId, bal |-> balances]
      /\ \A x \in Ids \ {a} : c[x] = b[x]
  BY ReplaceFacts
<1>4. c[FEE].live
  BY <1>3, SystemIds
<1>5. \/ fee > 0 /\ r = d
      \/ fee = 0 /\ r = Accept(c)
  <2>1. CASE fee > 0
    <3>1. r = CreditFee(c, fee) /\ c[FEE].live
      BY <1>2, <1>4
    <3> HIDE DEF c, r
    <3>. QED BY <2>1, <3>1 DEF CreditFee
  <2>2. CASE fee = 0
    <3>1. ~(fee > 0 /\ c[FEE].live)
      BY <2>2
    <3>. QED BY <1>2, <2>2, <3>1 DEF CreditFee
  <2>. QED BY <2>1, <2>2
<1>6. /\ \A t \in Tokens \ {GENESIS} : b[a].bal[t] = balances[t]
      /\ b[a].bal[GENESIS] = balances[GENESIS] + fee
  BY <1>2 DEF BalanceMatches
<1> HIDE DEF c, r
<1>7. /\ Total(b, s) \in Int
      /\ Total(c, s) = Total(b, s) - b[a].bal[s] + c[a].bal[s]
  <2>1. \A x \in Ids \ {a} : c[x].bal[s] = b[x].bal[s]
    BY <1>3
  <2>. QED BY <1>3, <2>1, TotalChange
<1>8. c[a].bal[s] = balances[s] /\ balances[s] \in Int /\ b[a].bal[s] \in Int
  BY <1>3, BankShape
<1>9. Total(c, s) = IF s = GENESIS THEN Total(b, s) - fee ELSE Total(b, s)
  BY <1>6, <1>7, <1>8, SystemIds
<1>10. d.ok => Total(d.bank, s) = IF s = GENESIS THEN Total(c, s) + fee ELSE Total(c, s)
  BY <1>3, SystemIds, TotalDeposit
<1> HIDE DEF d
<1>. QED BY <1>1, <1>5, <1>7, <1>9, <1>10 DEF Accept

\* A change of configuration states what GENESIS holds.
LEMMA ConfigBalanced ==
    ASSUME NEW b \in Bank, NEW blockId \in Nat, NEW balances \in [Tokens -> Int]
    PROVE  Balanced(b, ApplyConfig(b, blockId, balances))
<1> DEFINE c == Replace(b, GENESIS, blockId, balances)
           r == ApplyConfig(b, blockId, balances)
<1>1. SUFFICES ASSUME r.ok, NEW s \in Tokens PROVE Total(r.bank, s) = Total(b, s)
  BY DEF Balanced
<1>2. r = Accept(c) /\ BalanceMatches(b, GENESIS, 0, balances)
  BY <1>1 DEF ApplyConfig, Refuse
<1>3. /\ c \in Bank
      /\ c[GENESIS] = [live |-> TRUE, blockId |-> blockId, bal |-> balances]
      /\ \A x \in Ids \ {GENESIS} : c[x] = b[x]
  BY SystemIds, ReplaceFacts
<1>4. b[GENESIS].bal[s] = balances[s]
  BY <1>2, SystemIds, BankShape DEF BalanceMatches
<1> HIDE DEF c, r
<1>5. \A x \in Ids : c[x].bal[s] = b[x].bal[s]
  BY <1>3, <1>4
<1>6. Total(c, s) = Total(b, s)
  BY <1>3, <1>5, TotalSame
<1>. QED BY <1>2, <1>6 DEF Accept

\* What an account holds that is ended goes to RECYCLE, unless it owes or is RECYCLE.
LEMMA EndUserBalanced ==
    ASSUME NEW b \in Bank, NEW a \in Ids, NEW f \in Nat, NEW t \in Tokens,
           ApplyEndUser(b, a, f).ok, a # RECYCLE, b[a].bal[t] >= 0
    PROVE  Total(ApplyEndUser(b, a, f).bank, t) = Total(b, t)
<1> DEFINE d == [b EXCEPT ![RECYCLE].bal = Recycled(b, a)]
           c == [b EXCEPT ![RECYCLE].bal = Recycled(b, a), ![a] = NoAccount]
<1>1. ApplyEndUser(b, a, f).bank = c
  BY DEF ApplyEndUser, WriteOff, Accept, Refuse
<1>2. Recycled(b, a) \in [Tokens -> Int]
  BY BankShape, SystemIds DEF Recycled
<1>3. NoAccount \in Account /\ NoAccount.bal[t] = 0
  BY DEF NoAccount, NoBalance, Account
<1>4. /\ d \in Bank
      /\ d[RECYCLE].bal = Recycled(b, a)
      /\ \A x \in Ids \ {RECYCLE} : d[x] = b[x]
  BY <1>2, SystemIds DEF Bank, Account
<1>5. /\ c \in Bank
      /\ c[a] = NoAccount
      /\ \A x \in Ids \ {a} : c[x] = d[x]
  BY <1>2, <1>3, SystemIds DEF Bank, Account
<1>6. /\ b[a].bal[t] \in Int /\ b[RECYCLE].bal[t] \in Int
      /\ Recycled(b, a)[t] = b[RECYCLE].bal[t] + b[a].bal[t]
  BY BankShape, SystemIds DEF Recycled
<1> HIDE DEF c, d
<1>7. /\ Total(b, t) \in Int
      /\ Total(d, t) = Total(b, t) - b[RECYCLE].bal[t] + d[RECYCLE].bal[t]
  <2>1. \A x \in Ids \ {RECYCLE} : d[x].bal[t] = b[x].bal[t]
    BY <1>4
  <2>. QED BY <1>4, <2>1, SystemIds, TotalChange
<1>8. Total(c, t) = Total(d, t) - d[a].bal[t] + c[a].bal[t]
  <2>1. \A x \in Ids \ {a} : c[x].bal[t] = d[x].bal[t]
    BY <1>5
  <2>. QED BY <1>4, <1>5, <2>1, TotalChange
<1>9. d[a].bal[t] = b[a].bal[t] /\ c[a].bal[t] = 0
  BY <1>3, <1>4, <1>5
<1>. QED BY <1>1, <1>4, <1>6, <1>7, <1>8, <1>9

\* An account that pays itself is left with the credit alone (Moved), so that a
\* transfer to oneself makes tokens.
NoSelfRoutes == \A r \in Routes : r[1] # r[2]

\* A step that may change a total.
Lossy(t) ==
    \/ \E a \in Ended : bank[a].bal[t] < 0 \/ a = RECYCLE
    \/ RecordRefused /\ FeeAccountFull'

\* The record of a client: accepted it is balanced, refused it leaves the bank or
\* has met a full fee account.
LEMMA ClientBalanced ==
    ASSUME Inv, NEW r, r.ok \in BOOLEAN, ClientRecord(r), Balanced(bank, r), Spares,
           NEW t \in Tokens
    PROVE  Total(bank', t) = Total(bank, t) \/ Lossy(t)
<1>1. bank' = r.bank /\ height' = height /\ (~r.ok => records' = records)
  BY DEF ClientRecord
<1>2. CASE r.ok
  BY <1>1, <1>2 DEF Balanced
<1>3. CASE ~r.ok
  BY <1>1, <1>3 DEF Spares, Lossy, RecordRefused
<1>. QED BY <1>2, <1>3

\* A renewal is balanced; a termination is, or loses what Lossy says.
LEMMA RenewalBalanced ==
    ASSUME Inv, NEW a \in Ids, ApplyRenewal(a), NEW t \in Tokens
    PROVE  Total(bank', t) = Total(bank, t) \/ Lossy(t)
<1> DEFINE rec == due[a]
           s == ApplySnapshot(bank, height, a, rec.balances, rec.fee, minFee)
           e == ApplyEndUser(bank, a, minFee)
<1>1. /\ a \in DOMAIN due
      /\ \/ rec.kind = "renewal" /\ s.ok /\ bank' = s.bank
         \/ rec.kind = "end" /\ e.ok /\ bank' = e.bank
  BY DEF ApplyRenewal, IsNextDue, ApplyRecord, Inv, TypeOK
<1>2. /\ bank \in Bank /\ minFee \in Nat /\ height \in Nat /\ bank[FEE].live
      /\ rec.fee \in Nat /\ rec.balances \in [Tokens -> Int]
  BY <1>1, BankAssumption DEF Inv, TypeOK, SystemAccountsLive
<1> HIDE DEF rec
<1>3. CASE s.ok /\ bank' = s.bank
  <2>1. Balanced(bank, s)
    BY <1>2, SnapshotBalanced
  <2> HIDE DEF s
  <2>. QED BY <1>3, <2>1 DEF Balanced
<1>4. CASE e.ok /\ bank' = e.bank
  <2>1. ~bank'[a].live
    BY <1>2, <1>4, ApplyEndUserFacts
  <2>2. bank[a].live
    BY <1>4 DEF ApplyEndUser, Refuse
  <2>3. a \in Ended
    BY <2>1, <2>2 DEF Ended
  <2>4. CASE bank[a].bal[t] < 0 \/ a = RECYCLE
    BY <2>3, <2>4 DEF Lossy
  <2>5. CASE ~(bank[a].bal[t] < 0 \/ a = RECYCLE)
    <3>1. bank[a].bal[t] >= 0
      BY <1>2, <2>5, BankShape
    <3>. QED BY <1>2, <1>4, <2>5, <3>1, EndUserBalanced
  <2>. QED BY <2>4, <2>5
<1>. QED BY <1>1, <1>3, <1>4

\* Every step.
LEMMA NextBalanced ==
    ASSUME Inv, Next, NoSelfRoutes, NEW t \in Tokens
    PROVE  Total(bank', t) = Total(bank, t) \/ Lossy(t)
<1>1. CASE OpenBlock
  BY <1>1 DEF OpenBlock
<1>2. CASE \E a \in Ids : ApplyRenewal(a)
  BY <1>2, RenewalBalanced
<1>3. CASE \E r \in Routes, u \in Tokens, amount \in Amounts, fee \in Fees :
              TransferTx(r[1], r[2], u, amount, fee)
  <2>1. PICK r \in Routes, u \in Tokens, amount \in Amounts, fee \in Fees :
           TransferTx(r[1], r[2], u, amount, fee)
    BY <1>3
  <2>2. r[1] \in Ids /\ r[2] \in Ids /\ r[1] # r[2] /\ amount \in Nat /\ fee \in Nat
    BY BankAssumption DEF NoSelfRoutes
  <2> DEFINE q == ApplyDefault(bank, r[1], r[2], u, amount, fee, minFee)
             p == Transfer(bank, r[1], r[2], u, amount, fee)
  <2>3. Spares
    BY <2>1, <2>2, TransferTxInv
  <2>4. ClientRecord(q) /\ bank \in Bank
    BY <2>1, ClientContext DEF TransferTx
  <2>5. q.ok \in BOOLEAN
    BY DEF ApplyDefault, Transfer, Deposit, Accept, Refuse
  <2>6. Balanced(bank, p)
    BY <2>2, <2>4, TransferBalanced
  <2>7. q = Refuse(bank) \/ q = p
    BY DEF ApplyDefault
  <2> HIDE DEF q, p
  <2>8. Balanced(bank, q)
    BY <2>6, <2>7 DEF Balanced, Refuse
  <2>. QED BY <2>3, <2>4, <2>5, <2>8, ClientBalanced
<1>4. CASE \E r \in Routes, amount \in Amounts, fee \in Fees :
              NewUserTx(r[1], r[2], amount, fee)
  <2>1. PICK r \in Routes, amount \in Amounts, fee \in Fees :
           NewUserTx(r[1], r[2], amount, fee)
    BY <1>4
  <2>2. r[1] \in Ids /\ r[2] \in Ids /\ amount \in Nat /\ fee \in Nat
    BY BankAssumption
  <2> DEFINE q == ApplyNewUser(bank, height, r[1], r[2], amount, fee, minFee)
  <2>3. Spares
    BY <2>1, <2>2, NewUserTxInv
  <2>4. ClientRecord(q) /\ bank \in Bank /\ WellFormed(bank) /\ height \in Nat /\ minFee \in Nat
    BY <2>1, ClientContext DEF NewUserTx
  <2>5. q.ok \in BOOLEAN
    BY DEF ApplyNewUser, Transfer, Deposit, Accept, Refuse
  <2>6. Balanced(bank, q)
    BY <2>2, <2>4, NewUserBalanced
  <2> HIDE DEF q
  <2>. QED BY <2>3, <2>4, <2>5, <2>6, ClientBalanced
<1>5. CASE \E a \in Holders, fee \in Fees : \E balances \in Claims(a, fee) :
              UserUpdateTx(a, fee, balances)
  <2>1. PICK a \in Holders, fee \in Fees : \E balances \in Claims(a, fee) :
           UserUpdateTx(a, fee, balances)
    BY <1>5
  <2>2. PICK balances \in Claims(a, fee) : UserUpdateTx(a, fee, balances)
    BY <2>1
  <2>3. a \in Ids /\ fee \in Nat
    BY BankAssumption
  <2>4. balances \in [Tokens -> Int]
    BY <2>3, ClaimsFacts DEF Inv
  <2> DEFINE q == ApplySnapshot(bank, height, a, balances, fee, minFee)
  <2>5. Spares
    BY <2>2, <2>3, UserUpdateTxInv
  <2>6. /\ ClientRecord(q) /\ bank \in Bank /\ bank[FEE].live
        /\ height \in Nat /\ minFee \in Nat
    BY <2>2, ClientContext DEF UserUpdateTx
  <2>7. q.ok \in BOOLEAN
    BY DEF ApplySnapshot, CreditFee, Deposit, Accept, Refuse
  <2>8. Balanced(bank, q)
    BY <2>3, <2>4, <2>6, SnapshotBalanced
  <2> HIDE DEF q
  <2>. QED BY <2>5, <2>6, <2>7, <2>8, ClientBalanced
<1>6. CASE \E f \in Fees : \E balances \in Claims(GENESIS, 0) :
              ConfigTx(f, balances)
  <2>1. PICK f \in Fees, balances \in Claims(GENESIS, 0) : ConfigTx(f, balances)
    BY <1>6
  <2>2. balances \in [Tokens -> Int]
    BY SystemIds, ClaimsFacts DEF Inv
  <2> DEFINE q == ApplyConfig(bank, height, balances)
  <2>3. Spares
    BY <2>1, ConfigTxInv
  <2>4. ClientRecord(q) /\ bank \in Bank /\ height \in Nat
    BY <2>1, ClientContext DEF ConfigTx
  <2>5. q.ok \in BOOLEAN
    BY DEF ApplyConfig, Accept, Refuse
  <2>6. Balanced(bank, q)
    BY <2>2, <2>4, ConfigBalanced
  <2> HIDE DEF q
  <2>. QED BY <2>3, <2>4, <2>5, <2>6, ClientBalanced
<1>. QED BY <1>1, <1>2, <1>3, <1>4, <1>5, <1>6 DEF Next

\* How much of a token there is changes only when an account that owes it is
\* written off, or RECYCLE is, or a refused record finds the fee account full; where
\* nobody pays himself.
THEOREM SupplyKept == ASSUME NoSelfRoutes PROVE Spec => SupplyChangesByWriteOff
<1>1. Inv /\ [Next]_vars =>
         [ \A t \in Tokens :
             Total(bank', t) # Total(bank, t) =>
                 \/ \E a \in Ended : bank[a].bal[t] < 0 \/ a = RECYCLE
                 \/ RecordRefused /\ FeeAccountFull' ]_vars
  BY NextBalanced DEF Lossy
<1>. QED BY <1>1, InvHolds, PTL DEF Spec, SupplyChangesByWriteOff

\* The books balance: what the issuers owe is what the others hold.
BooksBalance == \A t \in Tokens : Total(bank, t) = 0

\* The genesis block issues nothing that is not owed.
LEMMA GenesisBalanced == Init => BooksBalance
<1> SUFFICES ASSUME Init, NEW t \in Tokens PROVE Total(bank, t) = 0
  BY DEF BooksBalance
<1>1. GenesisFee \in Nat /\ Supply \in Nat
  BY BankAssumption
<1>2. bank \in Bank
  BY InitInv DEF Inv, TypeOK
<1>3. NoBalance \in [Tokens -> Int] /\ \A s \in Tokens : NoBalance[s] = 0
  BY DEF NoBalance
<1>4. \A a \in Ids :
         bank[a].bal[t] =
               IF a <= RECYCLE /\ t = GENESIS THEN GenesisHolding[a] ELSE 0
  <2>1. ASSUME NEW a \in Ids
        PROVE  bank[a].bal = IF a <= RECYCLE
                             THEN [NoBalance EXCEPT ![GENESIS] = GenesisHolding[a]]
                             ELSE NoBalance
    BY DEF Init, GenesisBank, NoAccount
  <2>. QED BY <1>3, <2>1, SystemIds
<1>5. /\ GENESIS <= RECYCLE /\ FEE <= RECYCLE /\ RESERVE <= RECYCLE
      /\ RESERVE # GENESIS /\ RESERVE # FEE
      /\ GenesisHolding[GENESIS] = -Supply
      /\ GenesisHolding[FEE] = 3 * GenesisFee
      /\ GenesisHolding[RESERVE] = Supply - 3 * GenesisFee
      /\ \A a \in Ids \ {GENESIS, FEE, RESERVE} : GenesisHolding[a] = 0
  BY SystemIds DEF GenesisHolding, GENESIS, FEE, RESERVE, RECYCLE
<1> DEFINE x == bank[GENESIS].bal[t]
           y == bank[FEE].bal[t]
           z == bank[RESERVE].bal[t]
<1>6. x \in Int /\ y \in Int /\ z \in Int /\ x + y + z = 0
  BY <1>1, <1>4, <1>5, SystemIds
<1>7. \A a \in Ids \ {GENESIS, FEE, RESERVE} : bank[a].bal[t] = 0
  BY <1>4, <1>5
<1> DEFINE b0 == [a \in Ids |-> NoAccount]
           b1 == SetBalance(b0, GENESIS, t, x)
           b2 == SetBalance(b1, FEE, t, y)
           b3 == SetBalance(b2, RESERVE, t, z)
<1>8. b0 \in Bank /\ (\A a \in Ids : b0[a].bal[t] = 0) /\ Total(b0, t) = 0
  <2> DEFINE f == [a \in Ids |-> b0[a].bal[t]]
  <2>1. b0 \in Bank /\ \A a \in Ids : b0[a].bal[t] = 0
    BY <1>3 DEF Bank, Account, NoAccount
  <2>2. f \in [Ids -> Int] /\ \A a \in Ids : f[a] = 0
    BY <2>1
  <2>3. Total(b0, t) = SumFunction(f)
    BY DEF Total
  <2> HIDE DEF f
  <2>. QED BY <2>1, <2>2, <2>3, IdsFinite, SumOfZeros
<1> HIDE DEF x, y, z, b0
<1>9. /\ b1 \in Bank /\ Total(b1, t) = x
      /\ \A a \in Ids : b1[a].bal[t] = IF a = GENESIS THEN x ELSE 0
  <2>1. /\ b1 \in Bank
        /\ \A a \in Ids, s \in Tokens :
              b1[a].bal[s] = IF a = GENESIS /\ s = t THEN x ELSE b0[a].bal[s]
    BY <1>6, <1>8, SystemIds, SetBalanceFacts
  <2>2. Total(b1, t) = Total(b0, t) - b0[GENESIS].bal[t] + x
    <3>1. b0 \in Bank /\ x \in Int /\ GENESIS \in Ids
      BY <1>6, <1>8, SystemIds
    <3>. QED BY <3>1, TotalSetBalance
  <2> HIDE DEF b1
  <2>. QED BY <1>6, <1>8, <2>1, <2>2, SystemIds
<1> HIDE DEF b1
<1>10. /\ b2 \in Bank /\ Total(b2, t) = x + y
       /\ \A a \in Ids : b2[a].bal[t] = IF a = GENESIS THEN x ELSE IF a = FEE THEN y ELSE 0
  <2>1. /\ b2 \in Bank
        /\ \A a \in Ids, s \in Tokens :
              b2[a].bal[s] = IF a = FEE /\ s = t THEN y ELSE b1[a].bal[s]
    <3>1. b1 \in Bank /\ y \in Int /\ FEE \in Ids
      BY <1>6, <1>9, SystemIds
    <3>. QED BY <3>1, SetBalanceFacts
  <2>2. Total(b2, t) = Total(b1, t) - b1[FEE].bal[t] + y
    <3>1. b1 \in Bank /\ y \in Int /\ FEE \in Ids
      BY <1>6, <1>9, SystemIds
    <3>. QED BY <3>1, TotalSetBalance
  <2> HIDE DEF b2
  <2>. QED BY <1>6, <1>9, <2>1, <2>2, SystemIds
<1> HIDE DEF b2
<1>11. /\ b3 \in Bank /\ Total(b3, t) = x + y + z
       /\ \A a \in Ids : b3[a].bal[t] = IF a = GENESIS THEN x ELSE IF a = FEE THEN y
                                        ELSE IF a = RESERVE THEN z ELSE 0
  <2>1. /\ b3 \in Bank
        /\ \A a \in Ids, s \in Tokens :
              b3[a].bal[s] = IF a = RESERVE /\ s = t THEN z ELSE b2[a].bal[s]
    <3>1. b2 \in Bank /\ z \in Int /\ RESERVE \in Ids
      BY <1>6, <1>10, SystemIds
    <3>. QED BY <3>1, SetBalanceFacts
  <2>2. Total(b3, t) = Total(b2, t) - b2[RESERVE].bal[t] + z
    <3>1. b2 \in Bank /\ z \in Int /\ RESERVE \in Ids
      BY <1>6, <1>10, SystemIds
    <3>. QED BY <3>1, TotalSetBalance
  <2> HIDE DEF b3
  <2>. QED BY <1>5, <1>6, <1>10, <2>1, <2>2, SystemIds
<1> HIDE DEF b3
<1>12. \A a \in Ids : bank[a].bal[t] = b3[a].bal[t]
  BY <1>7, <1>11 DEF x, y, z
<1>13. Total(bank, t) = Total(b3, t)
  BY <1>2, <1>11, <1>12, TotalSame
<1>. QED BY <1>6, <1>11, <1>13

\* Where nobody pays himself and nothing Lossy happens, tokens of every kind sum to
\* nothing: what the issuers owe is what the others hold.
THEOREM BooksStayBalanced ==
    ASSUME NoSelfRoutes
    PROVE  Spec /\ [][\A t \in Tokens : ~Lossy(t)]_vars => []BooksBalance
<1>1. Inv /\ BooksBalance /\ [Next]_vars /\ [\A t \in Tokens : ~Lossy(t)]_vars
         => BooksBalance'
  <2> SUFFICES ASSUME Inv, BooksBalance, [Next]_vars,
                      [\A t \in Tokens : ~Lossy(t)]_vars, NEW t \in Tokens
               PROVE  Total(bank', t) = 0
    BY DEF BooksBalance
  <2>1. Total(bank, t) = 0
    BY DEF BooksBalance
  <2>2. CASE UNCHANGED vars
    BY <2>1, <2>2 DEF vars
  <2>3. CASE Next /\ ~UNCHANGED vars
    BY <2>1, <2>3, NextBalanced
  <2>. QED BY <2>2, <2>3
<1>. QED BY <1>1, GenesisBalanced, InvHolds, PTL DEF Spec

----------------------------------------------------------------------------
(* What a record does depends on the accounts it is about and changes no   *)
(* others: two banks that have these alike make the same of it.            *)

Alike(b, c, ids) == \A a \in ids : b[a] = c[a]

\* Outcomes r and q of a record on banks b and c.
LikeOutcomes(b, r, c, q, ids) ==
    /\ r.ok = q.ok
    /\ r.bank \in Bank /\ q.bank \in Bank
    /\ Alike(r.bank, q.bank, ids)
    /\ \A a \in Ids \ ids : r.bank[a] = b[a] /\ q.bank[a] = c[a]

\* Two refusals, and two banks accepted as they are.
LEMMA UntouchedLike ==
    ASSUME NEW ids, NEW b \in Bank, NEW c \in Bank, Alike(b, c, ids)
    PROVE  /\ LikeOutcomes(b, Refuse(b), c, Refuse(c), ids)
           /\ LikeOutcomes(b, Accept(b), c, Accept(c), ids)
BY DEF LikeOutcomes, Refuse, Accept

\* Two banks accepted.
LEMMA AcceptedLike ==
    ASSUME NEW ids, NEW b, NEW c, NEW d \in Bank, NEW e \in Bank, Alike(d, e, ids),
           \A a \in Ids \ ids : d[a] = b[a] /\ e[a] = c[a]
    PROVE  LikeOutcomes(b, Accept(d), c, Accept(e), ids)
<1>1. Accept(d).ok = Accept(e).ok /\ Accept(d).bank = d /\ Accept(e).bank = e
  BY DEF Accept
<1>. QED BY <1>1 DEF LikeOutcomes

\* A balance set on both.
LEMMA SetBalanceLike ==
    ASSUME NEW ids \in SUBSET Ids, NEW b \in Bank, NEW c \in Bank, Alike(b, c, ids),
           NEW a \in ids, NEW t \in Tokens, NEW v \in Int
    PROVE  LikeOutcomes(b, Accept(SetBalance(b, a, t, v)), c, Accept(SetBalance(c, a, t, v)),
                        ids)
<1> DEFINE d == SetBalance(b, a, t, v)
           e == SetBalance(c, a, t, v)
<1>0. a \in Ids
  OBVIOUS
<1>1. d \in Bank /\ e \in Bank
  BY <1>0, SetBalanceFacts
<1>2. \A x \in Ids \ {a} : d[x] = b[x] /\ e[x] = c[x]
  BY <1>0, SetBalanceFacts
<1>3. d[a] = [b[a] EXCEPT !.bal[t] = v] /\ e[a] = [c[a] EXCEPT !.bal[t] = v]
  BY <1>0 DEF SetBalance, Bank
<1>4. b[a] = c[a]
  BY DEF Alike
<1>5. d[a] = e[a]
  BY <1>3, <1>4
<1> HIDE DEF d, e
<1>6. Alike(d, e, ids)
  BY <1>2, <1>5 DEF Alike
<1>7. \A x \in Ids \ ids : d[x] = b[x] /\ e[x] = c[x]
  BY <1>2
<1>8. LikeOutcomes(b, Accept(d), c, Accept(e), ids)
  BY <1>1, <1>6, <1>7, AcceptedLike
<1>. QED BY <1>8 DEF d, e

\* Records one after the other.
LEMMA LikeThen ==
    ASSUME NEW ids \in SUBSET Ids, NEW b, NEW c, NEW r, NEW q, NEW s, NEW u,
           LikeOutcomes(b, r, c, q, ids), LikeOutcomes(r.bank, s, q.bank, u, ids)
    PROVE  LikeOutcomes(b, s, c, u, ids)
BY DEF LikeOutcomes

\* A deposit on both.
LEMMA DepositLike ==
    ASSUME NEW ids \in SUBSET Ids, NEW b \in Bank, NEW c \in Bank, Alike(b, c, ids),
           NEW a \in ids, NEW t \in Tokens, NEW amount \in Nat
    PROVE  LikeOutcomes(b, Deposit(b, a, t, amount), c, Deposit(c, a, t, amount), ids)
<1>1. a \in Ids /\ b[a] = c[a]
  BY DEF Alike
<1> DEFINE v == b[a].bal[t] + amount
<1>2. v \in Int
  BY <1>1, BankShape
<1>3. CASE ~b[a].live \/ b[a].bal[t] > MaxInt - amount
  <2>1. Deposit(b, a, t, amount) = Refuse(b) /\ Deposit(c, a, t, amount) = Refuse(c)
    BY <1>1, <1>3 DEF Deposit
  <2>. QED BY <2>1, UntouchedLike
<1>4. CASE ~(~b[a].live \/ b[a].bal[t] > MaxInt - amount)
  <2>1. /\ Deposit(b, a, t, amount) = Accept(SetBalance(b, a, t, v))
        /\ Deposit(c, a, t, amount) = Accept(SetBalance(c, a, t, v))
    BY <1>1, <1>4 DEF Deposit
  <2> HIDE DEF v
  <2>. QED BY <1>2, <2>1, SetBalanceLike
<1>. QED BY <1>3, <1>4

\* The writes of a transfer.
LEMMA WritesLike ==
    ASSUME NEW ids \in SUBSET Ids, NEW b \in Bank, NEW c \in Bank, Alike(b, c, ids),
           NEW from \in ids, NEW to \in ids, NEW t \in Tokens,
           NEW amount \in Nat, NEW fee \in Nat
    PROVE  /\ LikeOutcomes(b, Accept(Moved(b, from, to, t, amount)),
                           c, Accept(Moved(c, from, to, t, amount)), ids)
           /\ LikeOutcomes(b, Accept(Charged(b, from, to, t, amount, fee)),
                           c, Accept(Charged(c, from, to, t, amount, fee)), ids)
<1> DEFINE x == b[from].bal[t] - amount
           y == b[to].bal[t] + amount
           z == IF t = GENESIS THEN b[from].bal[t] - amount - fee
                               ELSE b[from].bal[GENESIS] - fee
<1>1. /\ from \in Ids /\ to \in Ids /\ b[from] = c[from] /\ b[to] = c[to]
      /\ GENESIS \in Tokens
  BY SystemIds DEF Alike
<1>2. x \in Int /\ y \in Int /\ z \in Int
  <2>1. b[from].bal[t] \in Int /\ b[to].bal[t] \in Int /\ b[from].bal[GENESIS] \in Int
    BY <1>1, BankShape
  <2>. QED BY <2>1
<1>3. /\ Moved(b, from, to, t, amount) = SetBalance(SetBalance(b, from, t, x), to, t, y)
      /\ Moved(c, from, to, t, amount) = SetBalance(SetBalance(c, from, t, x), to, t, y)
  BY <1>1 DEF Moved
<1>4. /\ Charged(b, from, to, t, amount, fee) =
           SetBalance(Moved(b, from, to, t, amount), from, GENESIS, z)
      /\ Charged(c, from, to, t, amount, fee) =
           SetBalance(Moved(c, from, to, t, amount), from, GENESIS, z)
  BY <1>1 DEF Charged
<1> HIDE DEF x, y, z
<1> DEFINE d == SetBalance(b, from, t, x)
           e == SetBalance(c, from, t, x)
           m == SetBalance(d, to, t, y)
           n == SetBalance(e, to, t, y)
<1>5. LikeOutcomes(b, Accept(d), c, Accept(e), ids)
  BY <1>2, SetBalanceLike
<1> HIDE DEF d, e
<1>6. d \in Bank /\ e \in Bank /\ Alike(d, e, ids)
  BY <1>5 DEF LikeOutcomes, Accept
<1>7. LikeOutcomes(d, Accept(m), e, Accept(n), ids)
  BY <1>2, <1>6, SetBalanceLike
<1> HIDE DEF m, n
<1>8. LikeOutcomes(b, Accept(m), c, Accept(n), ids)
  <2>1. Accept(d).bank = d /\ Accept(e).bank = e
    BY DEF Accept
  <2>. QED BY <1>5, <1>7, <2>1, LikeThen
<1>9. m \in Bank /\ n \in Bank /\ Alike(m, n, ids)
  BY <1>7 DEF LikeOutcomes, Accept
<1>10. LikeOutcomes(m, Accept(SetBalance(m, from, GENESIS, z)),
                    n, Accept(SetBalance(n, from, GENESIS, z)), ids)
  BY <1>1, <1>2, <1>9, SetBalanceLike
<1>11. LikeOutcomes(b, Accept(SetBalance(m, from, GENESIS, z)),
                    c, Accept(SetBalance(n, from, GENESIS, z)), ids)
  <2>1. Accept(m).bank = m /\ Accept(n).bank = n
    BY DEF Accept
  <2>. QED BY <1>8, <1>10, <2>1, LikeThen
<1>. QED BY <1>3, <1>4, <1>8, <1>11 DEF m, n, d, e

\* A transfer on both: it reads and writes the payer, the payee and the fee account.
LEMMA TransferLike ==
    ASSUME NEW ids \in SUBSET Ids, NEW b \in Bank, NEW c \in Bank, Alike(b, c, ids),
           NEW from \in ids, NEW to \in ids, NEW t \in Tokens,
           NEW amount \in Nat, NEW fee \in Nat, fee > 0 => FEE \in ids
    PROVE  LikeOutcomes(b, Transfer(b, from, to, t, amount, fee),
                        c, Transfer(c, from, to, t, amount, fee), ids)
<1> DEFINE no == \/ ~CanSpend(b, from, t, amount, fee)
                 \/ ~b[to].live
                 \/ b[to].bal[t] > MaxInt - amount
           m == Moved(b, from, to, t, amount)
           n == Moved(c, from, to, t, amount)
           d == Charged(b, from, to, t, amount, fee)
           e == Charged(c, from, to, t, amount, fee)
<1>1. b[from] = c[from] /\ b[to] = c[to]
  BY DEF Alike
<1>2. no <=> \/ ~CanSpend(c, from, t, amount, fee)
             \/ ~c[to].live
             \/ c[to].bal[t] > MaxInt - amount
  BY <1>1 DEF CanSpend
<1>3. CASE no
  <2>1. /\ Transfer(b, from, to, t, amount, fee) = Refuse(b)
        /\ Transfer(c, from, to, t, amount, fee) = Refuse(c)
    BY <1>2, <1>3 DEF Transfer
  <2>. QED BY <2>1, UntouchedLike
<1>4. CASE ~no /\ fee = 0
  <2>1. /\ Transfer(b, from, to, t, amount, fee) = Accept(m)
        /\ Transfer(c, from, to, t, amount, fee) = Accept(n)
    BY <1>2, <1>4 DEF Transfer
  <2>. QED BY <2>1, WritesLike
<1>5. CASE ~no /\ fee # 0
  <2>1. /\ Transfer(b, from, to, t, amount, fee) = Deposit(d, FEE, GENESIS, fee)
        /\ Transfer(c, from, to, t, amount, fee) = Deposit(e, FEE, GENESIS, fee)
    BY <1>2, <1>5 DEF Transfer
  <2>2. LikeOutcomes(b, Accept(d), c, Accept(e), ids)
    BY WritesLike
  <2> HIDE DEF d, e
  <2>3. d \in Bank /\ e \in Bank /\ Alike(d, e, ids)
    BY <2>2 DEF LikeOutcomes, Accept
  <2>4. LikeOutcomes(d, Deposit(d, FEE, GENESIS, fee), e, Deposit(e, FEE, GENESIS, fee), ids)
    BY <1>5, <2>3, SystemIds, DepositLike
  <2>5. Accept(d).bank = d /\ Accept(e).bank = e
    BY DEF Accept
  <2>. QED BY <2>1, <2>2, <2>4, <2>5, LikeThen
<1>. QED BY <1>3, <1>4, <1>5

\* An account replaced on both.
LEMMA ReplaceLike ==
    ASSUME NEW ids \in SUBSET Ids, NEW b \in Bank, NEW c \in Bank, Alike(b, c, ids),
           NEW a \in ids, NEW blockId \in Nat, NEW balances \in [Tokens -> Int]
    PROVE  LikeOutcomes(b, Accept(Replace(b, a, blockId, balances)),
                        c, Accept(Replace(c, a, blockId, balances)), ids)
<1> DEFINE d == Replace(b, a, blockId, balances)
           e == Replace(c, a, blockId, balances)
<1>0. a \in Ids
  OBVIOUS
<1> DEFINE new == [live |-> TRUE, blockId |-> blockId, bal |-> balances]
<1>1. d \in Bank /\ d[a] = new /\ \A x \in Ids \ {a} : d[x] = b[x]
  BY <1>0, ReplaceFacts
<1>2. e \in Bank /\ e[a] = new /\ \A x \in Ids \ {a} : e[x] = c[x]
  BY <1>0, ReplaceFacts
<1> HIDE DEF d, e, new
<1>3. Alike(d, e, ids)
  BY <1>1, <1>2 DEF Alike
<1>4. \A x \in Ids \ ids : d[x] = b[x] /\ e[x] = c[x]
  BY <1>1, <1>2
<1>5. LikeOutcomes(b, Accept(d), c, Accept(e), ids)
  BY <1>1, <1>2, <1>3, <1>4, AcceptedLike
<1>. QED BY <1>5 DEF d, e

\* A credited fee on both.
LEMMA CreditFeeLike ==
    ASSUME NEW ids \in SUBSET Ids, NEW b \in Bank, NEW c \in Bank, Alike(b, c, ids),
           NEW fee \in Nat, fee > 0 => FEE \in ids
    PROVE  LikeOutcomes(b, CreditFee(b, fee), c, CreditFee(c, fee), ids)
<1>1. fee > 0 => b[FEE] = c[FEE]
  BY DEF Alike
<1>2. CASE fee > 0 /\ b[FEE].live
  <2>1. /\ CreditFee(b, fee) = Deposit(b, FEE, GENESIS, fee)
        /\ CreditFee(c, fee) = Deposit(c, FEE, GENESIS, fee)
    BY <1>1, <1>2 DEF CreditFee
  <2>. QED BY <1>2, <2>1, SystemIds, DepositLike
<1>3. CASE ~(fee > 0 /\ b[FEE].live)
  <2>1. CreditFee(b, fee) = Accept(b) /\ CreditFee(c, fee) = Accept(c)
    BY <1>1, <1>3 DEF CreditFee
  <2>. QED BY <2>1, UntouchedLike
<1>. QED BY <1>2, <1>3

\* A write-off on both: it moves the balances to the recycle account.
LEMMA WriteOffLike ==
    ASSUME NEW ids \in SUBSET Ids, NEW b \in Bank, NEW c \in Bank, Alike(b, c, ids),
           NEW a \in ids, RECYCLE \in ids
    PROVE  LikeOutcomes(b, WriteOff(b, a), c, WriteOff(c, a), ids)
<1> DEFINE d == [b EXCEPT ![RECYCLE].bal = Recycled(b, a), ![a] = NoAccount]
           e == [c EXCEPT ![RECYCLE].bal = Recycled(c, a), ![a] = NoAccount]
<1>1. b[a] = c[a] /\ b[RECYCLE] = c[RECYCLE] /\ a \in Ids /\ RECYCLE \in Ids
  BY DEF Alike
<1>2. CASE ~b[a].live \/ ~b[RECYCLE].live
  <2>1. WriteOff(b, a) = Refuse(b) /\ WriteOff(c, a) = Refuse(c)
    BY <1>1, <1>2 DEF WriteOff
  <2>. QED BY <2>1, UntouchedLike
<1>3. CASE ~(~b[a].live \/ ~b[RECYCLE].live)
  <2>1. WriteOff(b, a) = Accept(d) /\ WriteOff(c, a) = Accept(e)
    BY <1>1, <1>3 DEF WriteOff
  <2>2. Recycled(b, a) = Recycled(c, a) /\ Recycled(b, a) \in [Tokens -> Int]
    BY <1>1, BankShape DEF Recycled
  <2>3. NoAccount \in Account
    BY DEF NoAccount, NoBalance, Account
  <2> DEFINE bal == Recycled(b, a)
  <2>4. /\ d = [b EXCEPT ![RECYCLE].bal = bal, ![a] = NoAccount] /\ bal \in [Tokens -> Int]
        /\ e = [c EXCEPT ![RECYCLE].bal = bal, ![a] = NoAccount]
    BY <2>2
  <2> HIDE DEF d, e, bal
  <2>5. d \in Bank /\ e \in Bank
    BY <1>1, <2>3, <2>4 DEF Bank, Account
  <2>6. /\ d[a] = NoAccount /\ e[a] = NoAccount
        /\ a # RECYCLE => d[RECYCLE] = e[RECYCLE]
        /\ \A x \in Ids \ {a, RECYCLE} : d[x] = b[x] /\ e[x] = c[x]
    BY <1>1, <2>4 DEF Bank
  <2>7. Alike(d, e, ids)
    BY <2>6 DEF Alike
  <2>8. \A x \in Ids \ ids : d[x] = b[x] /\ e[x] = c[x]
    BY <2>6
  <2>. QED BY <2>1, <2>5, <2>7, <2>8 DEF LikeOutcomes, Accept
<1>. QED BY <1>2, <1>3

----------------------------------------------------------------------------
(* The handlers. The fees f and g asked of the record may differ, as long   *)
(* as it offers both.                                                       *)

\* A client's transfer on both.
LEMMA DefaultLike ==
    ASSUME NEW ids \in SUBSET Ids, NEW b \in Bank, NEW c \in Bank, Alike(b, c, ids),
           NEW from \in ids, NEW to \in ids, NEW t \in Tokens,
           NEW amount \in Nat, NEW fee \in Nat, fee > 0 => FEE \in ids,
           NEW f \in Nat, NEW g \in Nat, fee >= f, fee >= g
    PROVE  LikeOutcomes(b, ApplyDefault(b, from, to, t, amount, fee, f),
                        c, ApplyDefault(c, from, to, t, amount, fee, g), ids)
<1>1. /\ ApplyDefault(b, from, to, t, amount, fee, f) = Transfer(b, from, to, t, amount, fee)
      /\ ApplyDefault(c, from, to, t, amount, fee, g) = Transfer(c, from, to, t, amount, fee)
  BY DEF ApplyDefault
<1>. QED BY <1>1, TransferLike

\* A new account on both.
LEMMA NewUserLike ==
    ASSUME NEW ids \in SUBSET Ids, NEW b \in Bank, NEW c \in Bank, Alike(b, c, ids),
           NEW from \in ids, NEW to \in ids, NEW blockId \in Nat,
           NEW amount \in Nat, NEW fee \in Nat, fee > 0 => FEE \in ids,
           NEW f \in Nat, NEW g \in Nat, fee >= f, fee >= g
    PROVE  LikeOutcomes(b, ApplyNewUser(b, blockId, from, to, amount, fee, f),
                        c, ApplyNewUser(c, blockId, from, to, amount, fee, g), ids)
<1> DEFINE no == \/ b[to].live
                 \/ ~CanSpend(b, from, GENESIS, amount, fee)
                 \/ from # GENESIS /\ to < FirstUser
           d == Replace(b, to, blockId, NoBalance)
           e == Replace(c, to, blockId, NoBalance)
           x == Transfer(d, from, to, GENESIS, amount, fee)
           y == Transfer(e, from, to, GENESIS, amount, fee)
<1>1. b[from] = c[from] /\ b[to] = c[to]
  BY DEF Alike
<1>2. no <=> \/ c[to].live
             \/ ~CanSpend(c, from, GENESIS, amount, fee)
             \/ from # GENESIS /\ to < FirstUser
  BY <1>1 DEF CanSpend
<1>3. CASE no
  <2>1. /\ ApplyNewUser(b, blockId, from, to, amount, fee, f) = Refuse(b)
        /\ ApplyNewUser(c, blockId, from, to, amount, fee, g) = Refuse(c)
    BY <1>2, <1>3 DEF ApplyNewUser
  <2>. QED BY <2>1, UntouchedLike
<1>4. CASE ~no
  <2>1. /\ ApplyNewUser(b, blockId, from, to, amount, fee, f) = x
        /\ ApplyNewUser(c, blockId, from, to, amount, fee, g) = y
    BY <1>2, <1>4 DEF ApplyNewUser
  <2>2. NoBalance \in [Tokens -> Int]
    BY DEF NoBalance
  <2>3. LikeOutcomes(b, Accept(d), c, Accept(e), ids)
    BY <2>2, ReplaceLike
  <2> HIDE DEF d, e
  <2>4. d \in Bank /\ e \in Bank /\ Alike(d, e, ids)
    BY <2>3 DEF LikeOutcomes, Accept
  <2>5. LikeOutcomes(d, x, e, y, ids)
    BY <2>4, SystemIds, TransferLike
  <2>6. Accept(d).bank = d /\ Accept(e).bank = e
    BY DEF Accept
  <2>. QED BY <2>1, <2>3, <2>5, <2>6, LikeThen
<1>. QED BY <1>3, <1>4

\* An update or a renewal on both.
LEMMA SnapshotLike ==
    ASSUME NEW ids \in SUBSET Ids, NEW b \in Bank, NEW c \in Bank, Alike(b, c, ids),
           NEW a \in ids, NEW blockId \in Nat, NEW balances \in [Tokens -> Int],
           NEW fee \in Nat, fee > 0 => FEE \in ids,
           NEW f \in Nat, NEW g \in Nat, f = g \/ (fee >= f /\ fee >= g)
    PROVE  LikeOutcomes(b, ApplySnapshot(b, blockId, a, balances, fee, f),
                        c, ApplySnapshot(c, blockId, a, balances, fee, g), ids)
<1> DEFINE no == fee < f \/ ~BalanceMatches(b, a, fee, balances)
           d == Replace(b, a, blockId, balances)
           e == Replace(c, a, blockId, balances)
<1>1. b[a] = c[a]
  BY DEF Alike
<1>2. no <=> fee < g \/ ~BalanceMatches(c, a, fee, balances)
  BY <1>1 DEF BalanceMatches
<1>3. CASE no
  <2>1. /\ ApplySnapshot(b, blockId, a, balances, fee, f) = Refuse(b)
        /\ ApplySnapshot(c, blockId, a, balances, fee, g) = Refuse(c)
    BY <1>2, <1>3 DEF ApplySnapshot
  <2>. QED BY <2>1, UntouchedLike
<1>4. CASE ~no
  <2>1. /\ ApplySnapshot(b, blockId, a, balances, fee, f) = CreditFee(d, fee)
        /\ ApplySnapshot(c, blockId, a, balances, fee, g) = CreditFee(e, fee)
    BY <1>2, <1>4 DEF ApplySnapshot
  <2>2. LikeOutcomes(b, Accept(d), c, Accept(e), ids)
    BY ReplaceLike
  <2> HIDE DEF d, e
  <2>3. d \in Bank /\ e \in Bank /\ Alike(d, e, ids)
    BY <2>2 DEF LikeOutcomes, Accept
  <2>4. LikeOutcomes(d, CreditFee(d, fee), e, CreditFee(e, fee), ids)
    BY <2>3, CreditFeeLike
  <2>5. Accept(d).bank = d /\ Accept(e).bank = e
    BY DEF Accept
  <2>. QED BY <2>1, <2>2, <2>4, <2>5, LikeThen
<1>. QED BY <1>3, <1>4

\* A change of configuration on both.
LEMMA ConfigLike ==
    ASSUME NEW ids \in SUBSET Ids, NEW b \in Bank, NEW c \in Bank, Alike(b, c, ids),
           GENESIS \in ids, NEW blockId \in Nat, NEW balances \in [Tokens -> Int]
    PROVE  LikeOutcomes(b, ApplyConfig(b, blockId, balances),
                        c, ApplyConfig(c, blockId, balances), ids)
<1>1. BalanceMatches(b, GENESIS, 0, balances) <=> BalanceMatches(c, GENESIS, 0, balances)
  BY DEF BalanceMatches, Alike
<1>2. CASE BalanceMatches(b, GENESIS, 0, balances)
  <2>1. /\ ApplyConfig(b, blockId, balances) = Accept(Replace(b, GENESIS, blockId, balances))
        /\ ApplyConfig(c, blockId, balances) = Accept(Replace(c, GENESIS, blockId, balances))
    BY <1>1, <1>2 DEF ApplyConfig
  <2>. QED BY <2>1, ReplaceLike
<1>3. CASE ~BalanceMatches(b, GENESIS, 0, balances)
  <2>1. /\ ApplyConfig(b, blockId, balances) = Refuse(b)
        /\ ApplyConfig(c, blockId, balances) = Refuse(c)
    BY <1>1, <1>3 DEF ApplyConfig
  <2>. QED BY <2>1, UntouchedLike
<1>. QED BY <1>2, <1>3

\* A record of a batch.
LEMMA RecordLike ==
    ASSUME NEW b \in Bank, NEW c \in Bank, NEW a \in Ids, NEW record,
           record.kind \in {"renewal", "end"}, record.fee \in Nat,
           record.balances \in [Tokens -> Int],
           Alike(b, c, BatchSeeds(a, record)), NEW blockId \in Nat, NEW f \in Nat
    PROVE  LikeOutcomes(b, ApplyRecord(b, blockId, a, record, f),
                        c, ApplyRecord(c, blockId, a, record, f), BatchSeeds(a, record))
<1> DEFINE ids == BatchSeeds(a, record)
<1>1. CASE record.kind = "renewal"
  <2>1. /\ ApplyRecord(b, blockId, a, record, f) =
             ApplySnapshot(b, blockId, a, record.balances, record.fee, f)
        /\ ApplyRecord(c, blockId, a, record, f) =
             ApplySnapshot(c, blockId, a, record.balances, record.fee, f)
    BY <1>1 DEF ApplyRecord
  <2>2. ids \in SUBSET Ids /\ a \in ids /\ (record.fee > 0 => FEE \in ids)
    BY <1>1, SystemIds DEF BatchSeeds
  <2> HIDE DEF ids
  <2>3. Alike(b, c, ids)
    BY DEF ids
  <2>4. LikeOutcomes(b, ApplySnapshot(b, blockId, a, record.balances, record.fee, f),
                     c, ApplySnapshot(c, blockId, a, record.balances, record.fee, f), ids)
    BY <2>2, <2>3, SnapshotLike
  <2>. QED BY <2>1, <2>4 DEF ids
<1>2. CASE record.kind = "end"
  <2>1. ids = {a, RECYCLE} /\ ids \in SUBSET Ids /\ a \in ids /\ RECYCLE \in ids
    <3>1. ids = {a, RECYCLE}
      BY <1>2 DEF BatchSeeds
    <3> HIDE DEF ids
    <3>. QED BY <3>1, SystemIds
  <2> HIDE DEF ids
  <2>2. Alike(b, c, ids) /\ b[a] = c[a]
    BY <2>1 DEF ids, Alike
  <2>3. /\ ApplyRecord(b, blockId, a, record, f) = ApplyEndUser(b, a, f)
        /\ ApplyRecord(c, blockId, a, record, f) = ApplyEndUser(c, a, f)
    BY <1>2 DEF ApplyRecord
  <2>4. CASE ~b[a].live \/ b[a].bal[GENESIS] >= f
    <3>1. ApplyEndUser(b, a, f) = Refuse(b) /\ ApplyEndUser(c, a, f) = Refuse(c)
      BY <2>2, <2>4 DEF ApplyEndUser
    <3>. QED BY <2>2, <2>3, <3>1, UntouchedLike DEF ids
  <2>5. CASE ~(~b[a].live \/ b[a].bal[GENESIS] >= f)
    <3>1. ApplyEndUser(b, a, f) = WriteOff(b, a) /\ ApplyEndUser(c, a, f) = WriteOff(c, a)
      BY <2>2, <2>5 DEF ApplyEndUser
    <3>. QED BY <2>1, <2>2, <2>3, <3>1, WriteOffLike DEF ids
  <2>. QED BY <2>4, <2>5
<1>. QED BY <1>1, <1>2

----------------------------------------------------------------------------
(* The trial of a batch.                                                   *)

\* The renewals of block h for bank b.
BatchOf(b, f, h) ==
    [a \in AccountIdsBefore(b, MaxBlockIdForRenewal(h)) |-> RenewalRecord(b, a, f)]

\* What a batch is made of; the fee account is never terminated.
IsBatch(B) ==
    /\ DOMAIN B \subseteq Ids
    /\ \A a \in DOMAIN B :
          /\ B[a].kind \in {"renewal", "end"}
          /\ B[a].fee \in Nat
          /\ B[a].balances \in [Tokens -> Int]
    /\ FEE \in DOMAIN B => B[FEE].kind = "renewal"

\* What a leader collects is a batch.
LEMMA BatchFacts ==
    ASSUME NEW b \in Bank, NEW f \in Nat, NEW h, Collectable(BatchOf(b, f, h))
    PROVE  IsBatch(BatchOf(b, f, h))
<1> DEFINE B == BatchOf(b, f, h)
<1>1. DOMAIN B \subseteq Ids /\ \A a \in DOMAIN B : B[a] = RenewalRecord(b, a, f)
  BY DEF BatchOf, AccountIdsBefore, Accounts
<1>2. \A a \in DOMAIN B : B[a] # NoRecord
  BY DEF Collectable
<1> HIDE DEF B
<1>3. ASSUME NEW a \in DOMAIN B
      PROVE  /\ B[a].kind \in {"renewal", "end"}
             /\ B[a].fee \in Nat
             /\ B[a].balances \in [Tokens -> Int]
             /\ a \in {GENESIS, FEE} => B[a].kind = "renewal"
  BY <1>1, <1>2, RenewalRecordFacts
<1>4. IsBatch(B)
  BY <1>1, <1>3 DEF IsBatch
<1>. QED BY <1>4 DEF B

\* The outcome of trying the record to id n - 1 after outcome r.
Try(com, f, B, h, r, n) ==
    IF n - 1 \in DOMAIN B /\ r.ok
    THEN TryRecord(r.bank, com, h, n - 1, B[n - 1], f)
    ELSE r

Sound == {r \in Outcome : WellFormed(r.bank)}

\* The outcomes after the records to ids below n.
IsRun(run, com, f, B, h) ==
    /\ run[0] = Accept(EmptyBank)
    /\ \A n \in 1 .. MaxId + 1 : run[n] = Try(com, f, B, h, run[n - 1], n)
    /\ \A n \in 0 .. MaxId + 1 : run[n] \in Sound

\* A record leaves a sound outcome.
LEMMA RecordSound ==
    ASSUME NEW b \in Bank, WellFormed(b), NEW h \in Nat, NEW a \in Ids, NEW record,
           record.kind \in {"renewal", "end"}, record.fee \in Nat,
           record.balances \in [Tokens -> Int], NEW f \in Nat
    PROVE  /\ ApplyRecord(b, h, a, record, f) \in Sound
           /\ record.kind = "renewal" =>
                 \A c \in Ids : ApplyRecord(b, h, a, record, f).bank[c].live = b[c].live
           /\ record.kind = "end" =>
                 \A c \in Ids \ {a} :
                    ApplyRecord(b, h, a, record, f).bank[c].live = b[c].live
<1> DEFINE r == ApplyRecord(b, h, a, record, f)
           s == ApplySnapshot(b, h, a, record.balances, record.fee, f)
           e == ApplyEndUser(b, a, f)
<1>1. s.bank \in Bank /\ WellFormed(s.bank) /\ \A c \in Ids : s.bank[c].live = b[c].live
  <2>1. SnapshotEffect(b, h, a, record.balances, s) /\ s.bank \in Bank /\ WellFormed(s.bank)
    BY ApplySnapshotFacts
  <2> HIDE DEF s
  <2>. QED BY <2>1 DEF SnapshotEffect
<1>2. /\ e.bank \in Bank /\ WellFormed(e.bank)
      /\ \A c \in Ids \ {a} : e.bank[c].live = b[c].live
  BY ApplyEndUserFacts DEF Kept
<1>3. s = [ok |-> s.ok, bank |-> s.bank] /\ s.ok \in BOOLEAN
  BY DEF ApplySnapshot, CreditFee, Deposit, Accept, Refuse
<1>4. e = [ok |-> e.ok, bank |-> e.bank] /\ e.ok \in BOOLEAN
  BY DEF ApplyEndUser, WriteOff, Accept, Refuse
<1>5. s \in Sound /\ e \in Sound
  <2> HIDE DEF s, e
  <2>. QED BY <1>1, <1>2, <1>3, <1>4 DEF Sound, Outcome
<1>6. r = IF record.kind = "renewal" THEN s ELSE e
  BY DEF ApplyRecord
<1> HIDE DEF r, s, e
<1>7. r \in Sound
  BY <1>5, <1>6
<1>. QED BY <1>1, <1>2, <1>6, <1>7 DEF r

\* A bank that takes what it misses.
LEMMA SeededFacts ==
    ASSUME NEW t \in Bank, WellFormed(t), NEW com \in Bank, WellFormed(com), NEW ids
    PROVE  /\ Seeded(t, com, ids) \in Bank /\ WellFormed(Seeded(t, com, ids))
           /\ \A a \in Ids : Seeded(t, com, ids)[a] =
                                IF a \in ids /\ ~t[a].live THEN com[a] ELSE t[a]
BY DEF Seeded, Bank, WellFormed

\* A record tried leaves a sound outcome.
LEMMA TrySound ==
    ASSUME NEW com \in Bank, WellFormed(com), NEW f \in Nat, NEW B, IsBatch(B), NEW h \in Nat,
           NEW r \in Sound, NEW n \in 1 .. MaxId + 1
    PROVE  Try(com, f, B, h, r, n) \in Sound
<1>1. r.bank \in Bank /\ WellFormed(r.bank)
  BY DEF Sound, Outcome
<1>2. CASE n - 1 \in DOMAIN B /\ r.ok
  <2> DEFINE a == n - 1
             s == Seeded(r.bank, com, BatchSeeds(a, B[a]))
  <2>1. /\ a \in Ids /\ B[a].kind \in {"renewal", "end"} /\ B[a].fee \in Nat
        /\ B[a].balances \in [Tokens -> Int]
    BY <1>2 DEF IsBatch
  <2>2. s \in Bank /\ WellFormed(s)
    BY <1>1, SeededFacts
  <2>3. Refuse(r.bank) \in Sound
    BY <1>1 DEF Refuse, Sound, Outcome
  <2> DEFINE record == B[a]
  <2> HIDE DEF s, a, record
  <2>4. ApplyRecord(s, h, a, record, f) \in Sound
    <3>1. /\ a \in Ids /\ record.kind \in {"renewal", "end"} /\ record.fee \in Nat
          /\ record.balances \in [Tokens -> Int]
      BY <2>1 DEF record
    <3>. QED BY <2>2, <3>1, RecordSound
  <2>5. TryRecord(r.bank, com, h, a, B[a], f) \in Sound
    BY <2>3, <2>4 DEF TryRecord, s, record
  <2>. QED BY <1>2, <2>5 DEF Try, a
<1>3. CASE ~(n - 1 \in DOMAIN B /\ r.ok)
  BY <1>3 DEF Try
<1>. QED BY <1>2, <1>3

\* What TrialRun computes is a run.
LEMMA TrialRuns ==
    ASSUME bank \in Bank, WellFormed(bank), minFee \in Nat, NEW B, IsBatch(B), NEW h \in Nat
    PROVE  \E run : IsRun(run, bank, minFee, B, h) /\ TrialRun(B, h) = run[MaxId + 1]
<1> DEFINE n == MaxId + 1
           base == Accept(EmptyBank)
           F == [p \in Sound \X (1 .. n) |-> Try(bank, minFee, B, h, p[1], p[2])]
           Solves(run) == run = [k \in 0 .. n |->
                                   IF k = 0 THEN base
                                   ELSE IF k - 1 \in DOMAIN B /\ run[k - 1].ok
                                        THEN TryRecord(run[k - 1].bank, bank, h, k - 1,
                                                       B[k - 1], minFee)
                                        ELSE run[k - 1]]
           run == CHOOSE run : Solves(run)
<1>1. n \in Nat
  BY IdsAssumption
<1>2. base \in Sound
  <2>1. NoAccount \in Account
    BY DEF NoAccount, NoBalance, Account
  <2>2. EmptyBank \in Bank /\ WellFormed(EmptyBank)
    BY <2>1 DEF EmptyBank, Bank, WellFormed
  <2>. QED BY <2>2 DEF Accept, Sound, Outcome
<1>3. F \in [Sound \X (1 .. n) -> Sound]
  BY TrySound
<1> HIDE DEF base, F
<1>4. PICK g : IsFold(g, n, F, base) /\ \A w \in SUBSET (1 .. n) : g[w] \in Sound
  <2> HIDE DEF n
  <2>. QED BY <1>1, <1>2, <1>3, FoldExists
<1> DEFINE f == [k \in 0 .. n |-> g[1 .. k]]
<1>5. f[0] = base
  <2>1. 1 .. 0 = {} /\ {} \in SUBSET (1 .. n)
    OBVIOUS
  <2>2. g[{}] = base
    BY <1>4, <2>1 DEF IsFold
  <2>3. f[0] = g[1 .. 0]
    BY <1>1
  <2>. QED BY <2>1, <2>2, <2>3
<1>6. ASSUME NEW k \in 1 .. n PROVE f[k] = Try(bank, minFee, B, h, f[k - 1], k)
  <2>1. k \in Nat \ {0} /\ k - 1 \in 0 .. n /\ k \in 0 .. n
    BY <1>1
  <2>2. Max(1 .. k) = k /\ (1 .. k) \ {Max(1 .. k)} = 1 .. (k - 1)
    BY <2>1, MaxUpto
  <2>3. 1 .. k \in SUBSET (1 .. n) /\ 1 .. k # {} /\ 1 .. (k - 1) \in SUBSET (1 .. n)
    BY <1>1, <2>1
  <2>4. g[1 .. k] = F[<<g[1 .. (k - 1)], k>>]
    BY <1>4, <2>2, <2>3 DEF IsFold
  <2>5. g[1 .. (k - 1)] \in Sound
    BY <1>4, <2>3
  <2>. QED BY <2>1, <2>4, <2>5 DEF F
<1>7. \A k \in 0 .. n : f[k] \in Sound
  <2>1. \A k \in 0 .. n : 1 .. k \in SUBSET (1 .. n)
    BY <1>1
  <2>. QED BY <1>4, <2>1
<1>8. f = [k \in 0 .. n |-> f[k]]
  OBVIOUS
<1> HIDE DEF f
<1>9. Solves(f)
  <2>1. ASSUME NEW k \in 0 .. n, k # 0
        PROVE  f[k] = IF k - 1 \in DOMAIN B /\ f[k - 1].ok
                      THEN TryRecord(f[k - 1].bank, bank, h, k - 1, B[k - 1], minFee)
                      ELSE f[k - 1]
    <3>1. k \in 1 .. n
      BY <1>1, <2>1
    <3>. QED BY <1>6, <3>1 DEF Try
  <2>. QED BY <1>5, <1>8, <2>1
<1>10. Solves(run)
  <2> HIDE DEF Solves
  <2>. QED BY <1>9
<1>11. TrialRun(B, h) = run[n]
  BY DEF TrialRun, base
<1> HIDE DEF run
<1> DEFINE P == {k \in 0 .. n : run[k] = f[k]}
<1>12. \A k \in 1 .. n : run[k] = Try(bank, minFee, B, h, run[k - 1], k)
  <2>1. \A k \in 1 .. n : k \in 0 .. n /\ k # 0
    BY <1>1
  <2>. QED BY <1>10, <2>1 DEF Try
<1>13. 0 \in P
  BY <1>1, <1>5, <1>10
<1>14. ASSUME NEW k \in 1 .. n, k - 1 \in P PROVE k \in P
  BY <1>1, <1>6, <1>12, <1>14
<1>15. 0 .. n \subseteq P
  <2> HIDE DEF P, n
  <2>. QED BY <1>1, <1>13, <1>14, Upwards
<1>16. IsRun(run, bank, minFee, B, h)
  BY <1>5, <1>7, <1>12, <1>13, <1>15 DEF IsRun, base
<1>. QED BY <1>11, <1>16

\* Where a batch has no record, its run stands still.
LEMMA RunIdle ==
    ASSUME NEW run, NEW com, NEW f, NEW B, NEW h, IsRun(run, com, f, B, h),
           NEW m \in 0 .. MaxId + 1, NEW n \in m .. MaxId + 1,
           \A a \in DOMAIN B : ~(m <= a /\ a < n)
    PROVE  run[n] = run[m]
<1> DEFINE P == {k \in 0 .. n - m : run[m + k] = run[m]}
<1>1. /\ MaxId \in Nat /\ m \in Nat /\ n \in Nat /\ n - m \in Nat /\ m + (n - m) = n
      /\ m + 0 = m
  BY IdsAssumption
<1>2. 0 \in P
  BY <1>1
<1>3. ASSUME NEW k \in 1 .. n - m, k - 1 \in P PROVE k \in P
  <2>1. /\ m + k \in 1 .. MaxId + 1 /\ m + k - 1 = m + (k - 1) /\ k \in 0 .. n - m
        /\ m <= m + k - 1 /\ m + k - 1 < n
    BY <1>1
  <2>2. run[m + k] = Try(com, f, B, h, run[m + k - 1], m + k)
    BY <2>1 DEF IsRun
  <2>3. m + k - 1 \notin DOMAIN B
    BY <2>1
  <2>4. run[m + k] = run[m + k - 1]
    BY <2>2, <2>3 DEF Try
  <2>. QED BY <1>3, <2>1, <2>4
<1>4. n - m \in 0 .. n - m
  BY <1>1
<1>5. n - m \in P
  <2> HIDE DEF P
  <2>. QED BY <1>1, <1>2, <1>3, <1>4, Upwards
<1>. QED BY <1>1, <1>5

\* A run that is accepted was accepted all along.
LEMMA RunOk ==
    ASSUME NEW run, NEW com, NEW f, NEW B, NEW h, IsRun(run, com, f, B, h),
           run[MaxId + 1].ok, NEW m \in 0 .. MaxId + 1
    PROVE  run[m].ok
<1> DEFINE N == MaxId + 1
           P == {k \in 0 .. N - m : run[m].ok \/ ~run[m + k].ok}
<1>1. MaxId \in Nat /\ N \in Nat /\ m \in Nat /\ N - m \in Nat /\ m + (N - m) = N /\ m + 0 = m
  BY IdsAssumption
<1>2. 0 \in P
  BY <1>1
<1>3. ASSUME NEW k \in 1 .. N - m, k - 1 \in P PROVE k \in P
  <2>1. m + k \in 1 .. MaxId + 1 /\ m + k - 1 = m + (k - 1) /\ k \in 0 .. N - m
    BY <1>1
  <2>2. run[m + k] = Try(com, f, B, h, run[m + k - 1], m + k)
    BY <2>1 DEF IsRun
  <2>3. ~run[m + k - 1].ok => run[m + k] = run[m + k - 1]
    BY <2>2 DEF Try
  <2>. QED BY <1>3, <2>1, <2>3
<1>4. N - m \in 0 .. N - m
  BY <1>1
<1>5. N - m \in P
  <2> HIDE DEF P, N
  <2>. QED BY <1>1, <1>2, <1>3, <1>4, Upwards
<1>. QED BY <1>1, <1>5

----------------------------------------------------------------------------
(* A trial bank beside the bank of the chain.                              *)

\* What trial bank t has met is what the chain has, b; of the rest, the chain has
\* what it had when the slot began, com, or has written it off.
Fits(t, com, b, gone) ==
    \A a \in Ids :
        IF t[a].live THEN b[a] = t[a]
        ELSE \/ b[a] = com[a]
             \/ a \in gone /\ com[a].live /\ b[a] = NoAccount

\* The accounts a record is tried over are those the chain has.
LEMMA SeededFits ==
    ASSUME NEW t \in Bank, WellFormed(t), NEW com \in Bank, WellFormed(com), NEW b, NEW gone,
           Fits(t, com, b, gone), NEW ids \in SUBSET Ids,
           \A a \in ids : t[a].live \/ b[a] = com[a]
    PROVE  Alike(Seeded(t, com, ids), b, ids)
<1>1. \A a \in Ids : Seeded(t, com, ids)[a] = IF a \in ids /\ ~t[a].live THEN com[a] ELSE t[a]
  BY SeededFacts
<1>. QED BY <1>1 DEF Alike, Fits

\* A record with the same outcome r on the accounts it was tried over and q on the
\* bank of the chain leaves banks that fit.
LEMMA FitsAfter ==
    ASSUME NEW t \in Bank, WellFormed(t), NEW com \in Bank, WellFormed(com), NEW b,
           NEW gone, NEW more, Fits(t, com, b, gone), gone \subseteq more,
           NEW seeds \in SUBSET Ids, NEW ids \in SUBSET Ids, seeds \subseteq ids,
           NEW r, NEW q, LikeOutcomes(Seeded(t, com, seeds), r, b, q, ids),
           WellFormed(r.bank),
           \A a \in ids : r.bank[a].live \/ a \in more
    PROVE  Fits(r.bank, com, q.bank, more)
<1> DEFINE s == Seeded(t, com, seeds)
<1>1. \A a \in Ids : s[a] = IF a \in seeds /\ ~t[a].live THEN com[a] ELSE t[a]
  BY SeededFacts
<1> HIDE DEF s
<1>2. /\ \A a \in ids : r.bank[a] = q.bank[a]
      /\ \A a \in Ids \ ids : r.bank[a] = s[a] /\ q.bank[a] = b[a]
  BY DEF LikeOutcomes, Alike, s
<1>3. ASSUME NEW a \in Ids
      PROVE  IF r.bank[a].live THEN q.bank[a] = r.bank[a]
             ELSE \/ q.bank[a] = com[a]
                  \/ a \in more /\ com[a].live /\ q.bank[a] = NoAccount
  <2>1. CASE a \in ids
    <3>1. ~r.bank[a].live => q.bank[a] = NoAccount /\ a \in more
      BY <1>2, <2>1 DEF WellFormed
    <3>2. ~com[a].live => com[a] = NoAccount
      BY DEF WellFormed
    <3>. QED BY <1>2, <2>1, <3>1, <3>2
  <2>2. CASE a \notin ids
    <3>1. r.bank[a] = t[a] /\ q.bank[a] = b[a]
      BY <1>1, <1>2, <2>2
    <3>. QED BY <3>1 DEF Fits
  <2>. QED BY <2>1, <2>2
<1>. QED BY <1>3 DEF Fits

\* Banks that fit but for some ids fit but for more.
LEMMA FitsMore ==
    ASSUME NEW t, NEW com, NEW b, NEW gone, NEW more, Fits(t, com, b, gone),
           gone \subseteq more
    PROVE  Fits(t, com, b, more)
BY DEF Fits

----------------------------------------------------------------------------
(* The invariant.                                                          *)

\* Ids below n that batch B terminates.
EndedBelow(B, n) == {a \in DOMAIN B : a < n /\ B[a].kind = "end"}

\* The chain has applied the records of batch B to ids below n: it has what the
\* trial had after them.
Underway(B, n, run, t, d, b, com, f, h) ==
    /\ IsBatch(B) /\ ~RecycleGoesEarly(B)
    /\ n \in 0 .. MaxId + 1
    /\ IsRun(run, com, f, B, h) /\ run[MaxId + 1].ok /\ t = run[MaxId + 1].bank
    /\ d = [a \in {c \in DOMAIN B : c >= n} |-> B[a]]
    /\ Fits(run[n].bank, com, b, EndedBelow(B, n))

Batching ==
    \E run, n, B : Underway(B, n, run, trial, due, bank, committed, slotFee, height)

TrialInv ==
    /\ committed \in Bank /\ WellFormed(committed)
    /\ slotFee \in Fees
    /\ DOMAIN due # {} => minFee = slotFee
    /\ refused => strayed
    /\ ~strayed =>
          /\ trial \in Bank /\ WellFormed(trial)
          /\ DOMAIN due # {} => Batching
          /\ DOMAIN due = {} => Fits(trial, committed, bank, Ids)

\* Once the last record is applied the chain has what the trial has met.
LEMMA BatchDone ==
    ASSUME NEW B, NEW n, NEW run, NEW t, NEW d, NEW b, NEW com, NEW f, NEW h,
           Underway(B, n, run, t, d, b, com, f, h)
    PROVE  /\ t \in Bank /\ WellFormed(t)
           /\ DOMAIN d = {} => Fits(t, com, b, Ids)
<1>0. MaxId \in Nat
  BY IdsAssumption
<1>1. t \in Bank /\ WellFormed(t)
  <2>1. MaxId + 1 \in 0 .. MaxId + 1
    BY <1>0
  <2>. QED BY <2>1 DEF Underway, IsRun, Sound, Outcome
<1>2. ASSUME DOMAIN d = {} PROVE Fits(t, com, b, Ids)
  <2>1. \A a \in DOMAIN B : a \in 0 .. MaxId /\ ~(a >= n)
    BY <1>2 DEF Underway, IsBatch, Ids
  <2>2. /\ n \in 0 .. MaxId + 1 /\ n \in Nat /\ MaxId + 1 \in n .. MaxId + 1
        /\ \A a \in DOMAIN B : ~(n <= a /\ a < MaxId + 1)
    BY <1>0, <2>1 DEF Underway
  <2>3. run[MaxId + 1] = run[n]
    BY <2>2, RunIdle DEF Underway
  <2>4. EndedBelow(B, n) \subseteq Ids
    BY DEF EndedBelow, Underway, IsBatch
  <2>. QED BY <2>3, <2>4, FitsMore DEF Underway
<1>. QED BY <1>1, <1>2

\* The records d that are left once a's is applied.
Without(d, a) == [c \in DOMAIN d \ {a} |-> d[c]]

\* The record that comes next is accepted, as the trial accepted it.
LEMMA BatchNext ==
    ASSUME NEW B, NEW n, NEW run, NEW t, NEW d, NEW b \in Bank, NEW com \in Bank,
           WellFormed(com), NEW f \in Nat, NEW h \in Nat,
           Underway(B, n, run, t, d, b, com, f, h),
           NEW a \in DOMAIN d, \A c \in DOMAIN d : a <= c
    PROVE  /\ ApplyRecord(b, h, a, d[a], f).ok
           /\ Underway(B, a + 1, run, t, Without(d, a),
                       ApplyRecord(b, h, a, d[a], f).bank, com, f, h)
<1> DEFINE record == B[a]
           u == run[a].bank
           seeds == BatchSeeds(a, record)
           s == Seeded(u, com, seeds)
           r == ApplyRecord(s, h, a, record, f)
           q == ApplyRecord(b, h, a, record, f)
<1>1. /\ IsBatch(B) /\ ~RecycleGoesEarly(B) /\ n \in 0 .. MaxId + 1
      /\ IsRun(run, com, f, B, h) /\ run[MaxId + 1].ok /\ t = run[MaxId + 1].bank
      /\ d = [c \in {c \in DOMAIN B : c >= n} |-> B[c]]
      /\ Fits(run[n].bank, com, b, EndedBelow(B, n))
  BY DEF Underway
<1>2. /\ a \in DOMAIN B /\ a >= n /\ d[a] = record /\ a \in Ids /\ MaxId \in Nat
      /\ n \in Nat /\ a \in Nat /\ DOMAIN B \subseteq Ids /\ DOMAIN B \subseteq Nat
      /\ \A c \in DOMAIN B : c >= n => a <= c
  BY <1>1, IdsAssumption DEF IsBatch, Ids
<1>3. /\ record.kind \in {"renewal", "end"} /\ record.fee \in Nat
      /\ record.balances \in [Tokens -> Int]
      /\ a = FEE => record.kind = "renewal"
  BY <1>1, <1>2 DEF IsBatch
<1>4. /\ a \in 0 .. MaxId + 1 /\ a \in n .. MaxId + 1 /\ a + 1 \in 1 .. MaxId + 1
      /\ a + 1 \in 0 .. MaxId + 1 /\ a + 1 - 1 = a
  BY <1>2 DEF Ids
<1>5. run[a] = run[n]
  <2>1. \A c \in DOMAIN B : ~(n <= c /\ c < a)
    BY <1>2
  <2>. QED BY <1>1, <1>4, <2>1, RunIdle
<1>6. u \in Bank /\ WellFormed(u) /\ run[a].ok /\ run[a + 1].ok
  <2>1. run[a] \in Sound
    BY <1>1, <1>4 DEF IsRun
  <2>. QED BY <1>1, <1>4, <2>1, RunOk DEF Sound, Outcome
<1> HIDE DEF record
<1>7. run[a + 1] = TryRecord(u, com, h, a, record, f)
  <2>1. run[a + 1] = Try(com, f, B, h, run[a + 1 - 1], a + 1)
    BY <1>1, <1>4 DEF IsRun
  <2>. QED BY <1>2, <1>4, <1>6, <2>1 DEF Try, record
<1>8. Seedable(u, com, seeds) /\ run[a + 1] = r
  BY <1>6, <1>7 DEF TryRecord, Refuse
<1>9. seeds \in SUBSET Ids /\ a \in seeds
  BY <1>2, SystemIds DEF BatchSeeds
<1>10. \A x \in seeds : x = a \/ (x = FEE /\ record.kind = "renewal")
                              \/ (x = RECYCLE /\ record.kind = "end")
  BY <1>3 DEF BatchSeeds
<1>11. \A x \in seeds : x \notin EndedBelow(B, n)
  <2>1. a \notin EndedBelow(B, n)
    BY <1>2 DEF EndedBelow
  <2>2. FEE \notin EndedBelow(B, n)
    BY <1>1 DEF EndedBelow, IsBatch
  <2>3. ASSUME record.kind = "end", RECYCLE \in EndedBelow(B, n) PROVE FALSE
    <3>1. RECYCLE \in DOMAIN B /\ B[RECYCLE].kind = "end" /\ RECYCLE < n /\ RECYCLE \in Nat
      BY <1>2, <2>3 DEF EndedBelow
    <3>2. a > RECYCLE /\ B[a].kind = "end"
      BY <1>2, <2>3, <3>1 DEF record
    <3>. QED BY <1>1, <1>2, <3>1, <3>2 DEF RecycleGoesEarly
  <2>. QED BY <1>10, <2>1, <2>2, <2>3
<1> HIDE DEF u, seeds
<1>12. \A x \in seeds : u[x].live \/ b[x] = com[x]
  BY <1>1, <1>5, <1>9, <1>11 DEF Fits, u
<1>13. Fits(u, com, b, EndedBelow(B, n))
  BY <1>1, <1>5 DEF u
<1>14. Alike(s, b, seeds)
  BY <1>6, <1>9, <1>12, <1>13, SeededFits
<1>15. s \in Bank /\ WellFormed(s) /\ \A x \in seeds : s[x].live
  <2>1. /\ s \in Bank /\ WellFormed(s)
        /\ \A x \in Ids : s[x] = IF x \in seeds /\ ~u[x].live THEN com[x] ELSE u[x]
    BY <1>6, SeededFacts
  <2>. QED BY <1>8, <1>9, <2>1 DEF Seedable
<1>16. LikeOutcomes(s, r, b, q, seeds)
  <2> HIDE DEF s
  <2>1. Alike(s, b, BatchSeeds(a, record))
    BY <1>14 DEF seeds
  <2>2. LikeOutcomes(s, ApplyRecord(s, h, a, record, f), b, ApplyRecord(b, h, a, record, f),
                     BatchSeeds(a, record))
    BY <1>2, <1>3, <1>15, <2>1, RecordLike
  <2>. QED BY <2>2 DEF seeds
<1>17. q.ok
  BY <1>6, <1>8, <1>16 DEF LikeOutcomes
<1>18. WellFormed(r.bank) /\ \A x \in seeds : r.bank[x].live \/ x \in EndedBelow(B, a + 1)
  <2> HIDE DEF s
  <2>1. /\ ApplyRecord(s, h, a, record, f) \in Sound
        /\ record.kind = "renewal" =>
              \A c \in Ids : ApplyRecord(s, h, a, record, f).bank[c].live = s[c].live
        /\ record.kind = "end" =>
              \A c \in Ids \ {a} : ApplyRecord(s, h, a, record, f).bank[c].live = s[c].live
    <3>1. a \in Ids
      BY <1>2
    <3> HIDE DEF r, q
    <3>. QED BY <1>3, <1>15, <3>1, RecordSound
  <2>2. record.kind = "end" => a \in EndedBelow(B, a + 1)
    BY <1>2 DEF EndedBelow, record
  <2>3. /\ r \in Sound
        /\ record.kind = "renewal" => \A c \in Ids : r.bank[c].live = s[c].live
        /\ record.kind = "end" => \A c \in Ids \ {a} : r.bank[c].live = s[c].live
    <3> DEFINE z == ApplyRecord(s, h, a, record, f)
    <3>1. /\ z \in Sound
          /\ record.kind = "renewal" => \A c \in Ids : z.bank[c].live = s[c].live
          /\ record.kind = "end" => \A c \in Ids \ {a} : z.bank[c].live = s[c].live
      BY <2>1
    <3>. QED BY <3>1
  <2> HIDE DEF r
  <2>4. WellFormed(r.bank)
    BY <2>3 DEF Sound
  <2>. QED BY <1>3, <1>9, <1>15, <2>2, <2>3, <2>4
<1>19. EndedBelow(B, n) \subseteq EndedBelow(B, a + 1)
  BY <1>2 DEF EndedBelow
<1>20. Fits(r.bank, com, q.bank, EndedBelow(B, a + 1))
  <2> HIDE DEF r, q
  <2>. QED BY <1>6, <1>9, <1>13, <1>16, <1>18, <1>19, FitsAfter
<1>21. Without(d, a) = [c \in {c \in DOMAIN B : c >= a + 1} |-> B[c]]
  <2>1. DOMAIN d = {c \in DOMAIN B : c >= n} /\ \A c \in DOMAIN d : d[c] = B[c]
    BY <1>1
  <2>2. DOMAIN d \ {a} = {c \in DOMAIN B : c >= a + 1}
    BY <1>2, <2>1
  <2>. QED BY <2>1, <2>2 DEF Without
<1>22. Underway(B, a + 1, run, t, Without(d, a), q.bank, com, f, h)
  <2> HIDE DEF r, q
  <2>. QED BY <1>1, <1>4, <1>8, <1>20, <1>21 DEF Underway
<1>. QED BY <1>2, <1>17, <1>22

----------------------------------------------------------------------------
(* The steps.                                                              *)

\* The trial bank starts empty and nothing is due.
LEMMA InitTrial == TrialInit => TrialInv
<1> SUFFICES ASSUME TrialInit PROVE TrialInv
  OBVIOUS
<1>1. /\ committed = bank /\ slotFee = minFee /\ trial = EmptyBank
      /\ strayed = FALSE /\ refused = FALSE /\ DOMAIN due = {}
  BY DEF TrialInit, Init
<1>2. bank \in Bank /\ WellFormed(bank) /\ minFee \in Fees
  BY InitInv, InvOfBank DEF TrialInit, Inv, TypeOK
<1>3. EmptyBank \in Bank /\ WellFormed(EmptyBank)
  <2>1. NoAccount \in Account
    BY DEF NoAccount, NoBalance, Account
  <2>. QED BY <2>1 DEF EmptyBank, Bank, WellFormed
<1>4. Fits(EmptyBank, bank, bank, Ids)
  BY DEF Fits, EmptyBank, NoAccount
<1>. QED BY <1>1, <1>2, <1>3, <1>4 DEF TrialInv

\* A leader opens its block (Miner::initSlotCache): its trial of the renewals is a
\* run from the empty bank, and the chain has applied none of them.
LEMMA OpenTried == Inv /\ InitSlotCache => TrialInv'
<1> SUFFICES ASSUME Inv, InitSlotCache PROVE TrialInv'
  OBVIOUS
<1> DEFINE h == height + 1
           B == BatchOf(bank, minFee, h)
<1>1. Renewals(h) = B
  BY DEF Renewals, DueAt, BatchOf
<1>2. /\ refused' = FALSE /\ committed' = bank /\ slotFee' = minFee
      /\ bank' = bank /\ minFee' = minFee /\ height' = h
      /\ Collectable(B) /\ TrialRun(B, h).ok /\ due' = B
      /\ trial' = TrialRun(B, h).bank /\ strayed' = RecycleGoesEarly(B)
  <2>1. /\ ~refused /\ refused' = refused /\ OpenBlock
        /\ committed' = bank /\ slotFee' = minFee
        /\ trial' = TrialBank /\ strayed' = RecycleGoesEarly(due')
    BY DEF InitSlotCache
  <2>2. /\ Collectable(Renewals(h)) /\ TrialRun(Renewals(h), h).ok /\ due' = Renewals(h)
        /\ height' = h /\ bank' = bank /\ minFee' = minFee
    BY <2>1 DEF OpenBlock
  <2>3. TrialBank = TrialRun(Renewals(h), h).bank
    BY DEF TrialBank
  <2>. QED BY <1>1, <2>1, <2>2, <2>3
<1>3. /\ bank \in Bank /\ WellFormed(bank) /\ minFee \in Nat /\ minFee \in Fees
      /\ height \in Nat /\ h \in Nat
  BY InvOfBank, BankAssumption DEF Inv, TypeOK
<1>4. IsBatch(B)
  BY <1>2, <1>3, BatchFacts
<1>5. B = [a \in {c \in DOMAIN B : c >= 0} |-> B[a]]
  <2>1. DOMAIN B = {c \in DOMAIN B : c >= 0}
    BY <1>4 DEF IsBatch, Ids
  <2>2. B = [a \in DOMAIN B |-> B[a]]
    BY DEF BatchOf
  <2> HIDE DEF B
  <2>. QED BY <2>1, <2>2
<1> HIDE DEF B, h
<1>6. PICK run : IsRun(run, bank, minFee, B, h) /\ TrialRun(B, h) = run[MaxId + 1]
  BY <1>3, <1>4, TrialRuns
<1>7. ASSUME ~RecycleGoesEarly(B)
      PROVE  Underway(B, 0, run, TrialRun(B, h).bank, B, bank, bank, minFee, h)
  <2>1. 0 \in 0 .. MaxId + 1
    BY IdsAssumption
  <2>2. Fits(run[0].bank, bank, bank, EndedBelow(B, 0))
    <3>1. run[0].bank = EmptyBank
      BY <1>6 DEF IsRun, Accept
    <3>2. Fits(EmptyBank, bank, bank, EndedBelow(B, 0))
      BY DEF Fits, EmptyBank, NoAccount
    <3>. QED BY <3>1, <3>2
  <2>. QED BY <1>2, <1>4, <1>5, <1>6, <1>7, <2>1, <2>2 DEF Underway
<1>8. ASSUME ~RecycleGoesEarly(B)
      PROVE  /\ trial' \in Bank /\ WellFormed(trial')
             /\ Batching'
             /\ DOMAIN due' = {} => Fits(trial', committed', bank', Ids)
  <2>1. Underway(B, 0, run, trial', due', bank', committed', slotFee', height')
    BY <1>2, <1>7, <1>8
  <2>2. Batching'
    BY <2>1 DEF Batching
  <2>. QED BY <2>1, <2>2, BatchDone
<1>. QED BY <1>2, <1>3, <1>8 DEF TrialInv

\* The chain applies the record that is next (Chain::processNormalBlock).
LEMMA RenewalTried ==
    ASSUME Inv, TrialInv, NEW a \in Ids, RenewalOfBlock(a)
    PROVE  TrialInv'
<1>1. /\ a \in DOMAIN due /\ \A c \in DOMAIN due : a <= c
      /\ bank' = ApplyRecord(bank, height, a, due[a], minFee).bank
      /\ due' = Without(due, a)
      /\ minFee' = minFee /\ height' = height
      /\ committed' = committed /\ slotFee' = slotFee /\ trial' = trial
      /\ strayed' = strayed /\ refused' = refused
  BY DEF RenewalOfBlock, ApplyRenewal, IsNextDue, slotVars, Without
<1>2. /\ bank \in Bank /\ minFee \in Nat /\ height \in Nat
      /\ committed \in Bank /\ WellFormed(committed) /\ slotFee = minFee
  BY <1>1, BankAssumption DEF Inv, TypeOK, TrialInv
<1>3. ASSUME ~strayed
      PROVE  /\ Batching'
             /\ DOMAIN due' = {} => Fits(trial', committed', bank', Ids)
  <2>1. Batching
    BY <1>1, <1>3 DEF TrialInv
  <2>2. PICK run, n, B : Underway(B, n, run, trial, due, bank, committed, slotFee, height)
    BY <2>1 DEF Batching
  <2>3. Underway(B, a + 1, run, trial, Without(due, a),
                 ApplyRecord(bank, height, a, due[a], slotFee).bank, committed, slotFee, height)
    <3>1. /\ slotFee \in Nat /\ WellFormed(committed) /\ a \in DOMAIN due
          /\ \A c \in DOMAIN due : a <= c
          /\ bank \in Bank /\ committed \in Bank /\ height \in Nat
      BY <1>1, <1>2
    <3>. QED BY <2>2, <3>1, BatchNext
  <2>4. Underway(B, a + 1, run, trial', due', bank', committed', slotFee', height')
    BY <1>1, <1>2, <2>3
  <2>5. Batching'
    BY <2>4 DEF Batching
  <2>. QED BY <2>4, <2>5, BatchDone
<1>. QED BY <1>1, <1>3 DEF TrialInv

\* The accounts a client's record is tried over are those the chain has, unless the
\* block has written one off.
LEMMA BaseFits ==
    ASSUME Inv, TrialInv, DOMAIN due = {}, ~strayed,
           NEW seeds \in SUBSET Ids, seeds \cap Closed = {}
    PROVE  /\ Alike(Base(seeds), bank, seeds)
           /\ Base(seeds) \in Bank /\ WellFormed(Base(seeds))
<1>1. /\ trial \in Bank /\ WellFormed(trial) /\ committed \in Bank /\ WellFormed(committed)
      /\ Fits(trial, committed, bank, Ids)
  BY DEF TrialInv
<1>2. \A a \in seeds : trial[a].live \/ bank[a] = committed[a]
  BY <1>1 DEF Fits, Closed, NoAccount
<1>. QED BY <1>1, <1>2, SeededFits, SeededFacts DEF Base

\* What the chain makes of a client's record is what the trial made of it: then the
\* record is accepted and the banks fit.
LEMMA ClientTried ==
    ASSUME Inv, TrialInv, TakesRecords, NEW r, NEW q, ClientRecord(q),
           NEW seeds \in SUBSET Ids, NEW ids \in SUBSET Ids, seeds \subseteq ids,
           NEW fee, Joins(seeds, r, fee),
           (~strayed /\ seeds \cap Closed = {} /\ ~(fee < minFee)) =>
               LikeOutcomes(Base(seeds), r, bank, q, ids) /\ WellFormed(r.bank)
    PROVE  TrialInv'
<1>1. /\ DOMAIN due = {} /\ due' = due /\ bank' = q.bank /\ r.ok /\ trial' = r.bank
      /\ records' = IF q.ok THEN records + 1 ELSE records
      /\ strayed' = (strayed \/ seeds \cap Closed # {} \/ fee < minFee)
      /\ refused' = (records' = records)
      /\ committed' = committed /\ slotFee' = slotFee
  BY DEF TakesRecords, ClientRecord, Joins, slotVars
<1>2. records \in Nat
  BY DEF Inv, TypeOK
<1>3. ASSUME ~strayed'
      PROVE  /\ ~refused' /\ trial' \in Bank /\ WellFormed(trial')
             /\ Fits(trial', committed', bank', Ids)
  <2>1. ~strayed /\ seeds \cap Closed = {} /\ ~(fee < minFee)
    BY <1>1, <1>3
  <2>2. LikeOutcomes(Base(seeds), r, bank, q, ids) /\ WellFormed(r.bank)
    BY <2>1
  <2>3. q.ok /\ r.bank \in Bank
    BY <1>1, <2>2 DEF LikeOutcomes
  <2>4. records' # records
    BY <1>1, <1>2, <2>3
  <2>5. /\ trial \in Bank /\ WellFormed(trial) /\ committed \in Bank /\ WellFormed(committed)
        /\ Fits(trial, committed, bank, Ids)
    BY <1>1, <2>1 DEF TrialInv
  <2>6. LikeOutcomes(Seeded(trial, committed, seeds), r, bank, q, ids)
    BY <2>2 DEF Base
  <2>7. Fits(r.bank, committed, q.bank, Ids)
    BY <2>2, <2>5, <2>6, FitsAfter
  <2>. QED BY <1>1, <2>2, <2>3, <2>4, <2>7
<1>. QED BY <1>1, <1>3 DEF TrialInv

\* A client's transfer.
LEMMA TransferTried ==
    ASSUME Inv, TrialInv, NEW from \in Ids, NEW to \in Ids, NEW t \in Tokens,
           NEW amount \in Amounts, NEW fee \in Fees, AddTransfer(from, to, t, amount, fee)
    PROVE  TrialInv'
<1> DEFINE seeds == WithFee({from, to}, fee)
           r == ApplyDefault(Base(seeds), from, to, t, amount, fee, slotFee)
           q == ApplyDefault(bank, from, to, t, amount, fee, minFee)
<1>1. TakesRecords /\ ClientRecord(q) /\ Joins(seeds, r, fee) /\ r.ok
  BY DEF AddTransfer, TransferTx, Joins
<1>2. /\ amount \in Nat /\ fee \in Nat /\ bank \in Bank /\ minFee \in Nat /\ DOMAIN due = {}
      /\ slotFee \in Nat
  BY <1>1, BankAssumption, ClientContext DEF TrialInv
<1>3. /\ seeds \in SUBSET Ids /\ from \in seeds /\ to \in seeds
      /\ fee > 0 => FEE \in seeds
  BY SystemIds DEF WithFee
<1>4. ~(fee < slotFee)
  BY <1>1 DEF ApplyDefault, Refuse
<1> HIDE DEF seeds
<1>5. ASSUME ~strayed, seeds \cap Closed = {}, ~(fee < minFee)
      PROVE  LikeOutcomes(Base(seeds), r, bank, q, seeds) /\ WellFormed(r.bank)
  <2>1. Alike(Base(seeds), bank, seeds) /\ Base(seeds) \in Bank /\ WellFormed(Base(seeds))
    BY <1>2, <1>3, <1>5, BaseFits
  <2> DEFINE s == Base(seeds)
  <2>2. r = Transfer(s, from, to, t, amount, fee)
    BY <1>2, <1>4 DEF ApplyDefault
  <2>3. Alike(s, bank, seeds) /\ s \in Bank /\ WellFormed(s)
    BY <2>1
  <2> HIDE DEF s
  <2>4. Kept(s, Transfer(s, from, to, t, amount, fee).bank)
    BY <1>2, <2>3, TransferFacts
  <2>5. fee >= slotFee /\ fee >= minFee
    BY <1>2, <1>4, <1>5
  <2>6. LikeOutcomes(s, ApplyDefault(s, from, to, t, amount, fee, slotFee),
                     bank, ApplyDefault(bank, from, to, t, amount, fee, minFee), seeds)
    BY <1>2, <1>3, <2>3, <2>5, DefaultLike
  <2>7. WellFormed(r.bank)
    BY <2>2, <2>3, <2>4 DEF Kept
  <2>. QED BY <2>6, <2>7 DEF s
<1> HIDE DEF r, q
<1>. QED BY <1>1, <1>3, <1>5, ClientTried

\* A client's new account: the chain has none of that id either.
LEMMA NewUserTried ==
    ASSUME Inv, TrialInv, NEW from \in Ids, NEW to \in Ids,
           NEW amount \in Amounts, NEW fee \in Fees, AddNewUser(from, to, amount, fee)
    PROVE  TrialInv'
<1> DEFINE seeds == WithFee({from}, fee)
           ids == seeds \cup {to}
           r == ApplyNewUser(Base(seeds), height, from, to, amount, fee, slotFee)
           q == ApplyNewUser(bank, height, from, to, amount, fee, minFee)
<1>1. /\ TakesRecords /\ ClientRecord(q) /\ Joins(seeds, r, fee) /\ r.ok
      /\ ~committed[to].live
  BY DEF AddNewUser, NewUserTx, Joins
<1>2. /\ amount \in Nat /\ fee \in Nat /\ bank \in Bank /\ minFee \in Nat /\ DOMAIN due = {}
      /\ slotFee \in Nat /\ height \in Nat
  BY <1>1, BankAssumption, ClientContext DEF TrialInv
<1>3. /\ seeds \in SUBSET Ids /\ from \in seeds /\ ids \in SUBSET Ids /\ to \in ids
      /\ seeds \subseteq ids /\ from \in ids
      /\ fee > 0 => FEE \in seeds
  BY SystemIds DEF WithFee
<1>4. ~(fee < slotFee) /\ ~Base(seeds)[to].live
  BY <1>1 DEF ApplyNewUser, Refuse
<1> HIDE DEF seeds
<1>5. ASSUME ~strayed, seeds \cap Closed = {}, ~(fee < minFee)
      PROVE  LikeOutcomes(Base(seeds), r, bank, q, ids) /\ WellFormed(r.bank)
  <2> DEFINE s == Base(seeds)
  <2>1. Alike(s, bank, seeds) /\ s \in Bank /\ WellFormed(s)
    BY <1>2, <1>3, <1>5, BaseFits
  <2>2. s[to] = bank[to]
    <3>1. /\ trial \in Bank /\ WellFormed(trial) /\ committed \in Bank
          /\ WellFormed(committed) /\ Fits(trial, committed, bank, Ids)
      BY <1>2, <1>5 DEF TrialInv
    <3>2. s[to] = IF to \in seeds /\ ~trial[to].live THEN committed[to] ELSE trial[to]
      BY <3>1, SeededFacts DEF Base
    <3>3. ~trial[to].live /\ s[to] = NoAccount
      BY <1>1, <1>4, <2>1, <3>2 DEF WellFormed
    <3>4. bank[to] = committed[to]
      BY <1>1, <3>1, <3>3 DEF Fits
    <3>. QED BY <1>1, <3>1, <3>3, <3>4 DEF WellFormed
  <2>3. Alike(s, bank, ids)
    BY <2>1, <2>2 DEF Alike
  <2>4. s \in Bank /\ WellFormed(s)
    BY <2>1
  <2>5. fee >= slotFee /\ fee >= minFee
    BY <1>2, <1>4, <1>5
  <2> HIDE DEF s, ids
  <2>6. Kept(s, ApplyNewUser(s, height, from, to, amount, fee, slotFee).bank)
    BY <1>2, <2>4, ApplyNewUserFacts
  <2>7. fee > 0 => FEE \in ids
    BY <1>3
  <2>8. LikeOutcomes(s, ApplyNewUser(s, height, from, to, amount, fee, slotFee),
                     bank, ApplyNewUser(bank, height, from, to, amount, fee, minFee), ids)
    BY <1>2, <1>3, <2>3, <2>4, <2>5, <2>7, NewUserLike
  <2>9. WellFormed(ApplyNewUser(s, height, from, to, amount, fee, slotFee).bank)
    BY <2>4, <2>6 DEF Kept
  <2>. QED BY <2>8, <2>9 DEF s
<1> HIDE DEF r, q, ids
<1>. QED BY <1>1, <1>3, <1>5, ClientTried

\* An owner's update.
LEMMA UpdateTried ==
    ASSUME Inv, TrialInv, NEW a \in Ids, NEW fee \in Fees, NEW balances \in Claims(a, fee),
           AddUserUpdate(a, fee, balances)
    PROVE  TrialInv'
<1> DEFINE seeds == WithFee({a}, fee)
           r == ApplySnapshot(Base(seeds), height, a, balances, fee, slotFee)
           q == ApplySnapshot(bank, height, a, balances, fee, minFee)
<1>1. TakesRecords /\ ClientRecord(q) /\ Joins(seeds, r, fee) /\ r.ok
  BY DEF AddUserUpdate, UserUpdateTx, Joins
<1>2. /\ fee \in Nat /\ bank \in Bank /\ minFee \in Nat /\ DOMAIN due = {}
      /\ slotFee \in Nat /\ height \in Nat
  BY <1>1, BankAssumption, ClientContext DEF TrialInv
<1>3. balances \in [Tokens -> Int]
  BY <1>2, ClaimsFacts DEF Inv
<1>4. seeds \in SUBSET Ids /\ a \in seeds /\ (fee > 0 => FEE \in seeds)
  BY SystemIds DEF WithFee
<1>5. ~(fee < slotFee)
  BY <1>1 DEF ApplySnapshot, Refuse
<1> HIDE DEF seeds
<1>6. ASSUME ~strayed, seeds \cap Closed = {}, ~(fee < minFee)
      PROVE  LikeOutcomes(Base(seeds), r, bank, q, seeds) /\ WellFormed(r.bank)
  <2> DEFINE s == Base(seeds)
  <2>1. Alike(s, bank, seeds) /\ s \in Bank /\ WellFormed(s)
    BY <1>2, <1>4, <1>6, BaseFits
  <2>2. fee >= slotFee /\ fee >= minFee
    BY <1>2, <1>5, <1>6
  <2> HIDE DEF s
  <2>3. WellFormed(ApplySnapshot(s, height, a, balances, fee, slotFee).bank)
    BY <1>2, <1>3, <2>1, ApplySnapshotFacts
  <2>4. LikeOutcomes(s, ApplySnapshot(s, height, a, balances, fee, slotFee),
                     bank, ApplySnapshot(bank, height, a, balances, fee, minFee), seeds)
    BY <1>2, <1>3, <1>4, <2>1, <2>2, SnapshotLike
  <2>. QED BY <2>3, <2>4 DEF s
<1> HIDE DEF r, q
<1>. QED BY <1>1, <1>4, <1>6, ClientTried

\* A change of configuration.
LEMMA ConfigTried ==
    ASSUME Inv, TrialInv, NEW f \in Fees, NEW balances \in Claims(GENESIS, 0),
           AddConfig(f, balances)
    PROVE  TrialInv'
<1> DEFINE seeds == {GENESIS}
           r == ApplyConfig(Base(seeds), height, balances)
           q == ApplyConfig(bank, height, balances)
<1>1. TakesRecords /\ ClientRecord(q) /\ Joins(seeds, r, minFee) /\ r.ok
  BY DEF AddConfig, ConfigTx, Joins
<1>2. /\ bank \in Bank /\ DOMAIN due = {} /\ height \in Nat
  BY <1>1, ClientContext
<1>3. balances \in [Tokens -> Int]
  BY SystemIds, ClaimsFacts DEF Inv
<1>4. seeds \in SUBSET Ids /\ GENESIS \in seeds
  BY SystemIds
<1> HIDE DEF seeds
<1>5. ASSUME ~strayed, seeds \cap Closed = {}
      PROVE  LikeOutcomes(Base(seeds), r, bank, q, seeds) /\ WellFormed(r.bank)
  <2> DEFINE s == Base(seeds)
  <2>1. Alike(s, bank, seeds) /\ s \in Bank /\ WellFormed(s)
    BY <1>2, <1>4, <1>5, BaseFits
  <2> HIDE DEF s
  <2>2. Kept(s, ApplyConfig(s, height, balances).bank)
    BY <1>2, <1>3, <2>1, ApplyConfigFacts
  <2>3. LikeOutcomes(s, ApplyConfig(s, height, balances),
                     bank, ApplyConfig(bank, height, balances), seeds)
    BY <1>2, <1>3, <1>4, <2>1, ConfigLike
  <2>4. WellFormed(ApplyConfig(s, height, balances).bank)
    BY <2>1, <2>2 DEF Kept
  <2>. QED BY <2>3, <2>4 DEF s
<1> HIDE DEF r, q
<1>. QED BY <1>1, <1>4, <1>5, ClientTried

\* Every step of a slot leader.
LEMMA TrialStep == Inv /\ TrialInv /\ [TrialNext]_trialVars => TrialInv'
<1> SUFFICES ASSUME Inv, TrialInv, [TrialNext]_trialVars PROVE TrialInv'
  OBVIOUS
<1>1. CASE InitSlotCache
  BY <1>1, OpenTried
<1>2. CASE \E a \in Ids : RenewalOfBlock(a)
  BY <1>2, RenewalTried
<1>3. CASE \E r \in Routes, t \in Tokens, amount \in Amounts, fee \in Fees :
              AddTransfer(r[1], r[2], t, amount, fee)
  <2>1. PICK r \in Routes, t \in Tokens, amount \in Amounts, fee \in Fees :
           AddTransfer(r[1], r[2], t, amount, fee)
    BY <1>3
  <2>2. r[1] \in Ids /\ r[2] \in Ids
    BY BankAssumption
  <2>. QED BY <2>1, <2>2, TransferTried
<1>4. CASE \E r \in Routes, amount \in Amounts, fee \in Fees :
              AddNewUser(r[1], r[2], amount, fee)
  <2>1. PICK r \in Routes, amount \in Amounts, fee \in Fees :
           AddNewUser(r[1], r[2], amount, fee)
    BY <1>4
  <2>2. r[1] \in Ids /\ r[2] \in Ids
    BY BankAssumption
  <2>. QED BY <2>1, <2>2, NewUserTried
<1>5. CASE \E a \in Holders, fee \in Fees : \E balances \in Claims(a, fee) :
              AddUserUpdate(a, fee, balances)
  <2>1. PICK a \in Holders, fee \in Fees : \E balances \in Claims(a, fee) :
           AddUserUpdate(a, fee, balances)
    BY <1>5
  <2>2. a \in Ids
    BY BankAssumption
  <2>. QED BY <2>1, <2>2, UpdateTried
<1>6. CASE \E f \in Fees : \E balances \in Claims(GENESIS, 0) : AddConfig(f, balances)
  BY <1>6, ConfigTried
<1>7. CASE UNCHANGED trialVars
  BY <1>7 DEF trialVars, TrialInv, Batching
<1>. QED BY <1>1, <1>2, <1>3, <1>4, <1>5, <1>6, <1>7 DEF TrialNext

\* A slot leader's chain takes the steps of Bank and no others.
LEMMA TrialNextIsNext == [TrialNext]_trialVars => [Next]_vars
BY DEF TrialNext, Next, InitSlotCache, RenewalOfBlock, AddTransfer, AddNewUser,
       AddUserUpdate, AddConfig, trialVars, vars

----------------------------------------------------------------------------
(* The results.                                                            *)

\* The chain of a slot leader that tries its records first goes through the steps
\* of Bank, so what is proved of Bank holds of it.
THEOREM TrialImplementsBank == TrialSpec => Spec
<1>1. TrialInit => Init
  BY DEF TrialInit
<1>. QED BY <1>1, TrialNextIsNext, PTL DEF TrialSpec, Spec

\* Both invariants hold in every state of a slot leader.
LEMMA TrialInvHolds == TrialSpec => [](Inv /\ TrialInv)
<1>1. TrialSpec => []Inv
  BY TrialImplementsBank, InvHolds, PTL
<1>. QED BY <1>1, InitTrial, TrialStep, PTL DEF TrialSpec

\* Unless a record needs an account the same block writes off, or is below a fee the
\* same block sets, the chain accepts every record of a client that the trial bank
\* accepted (Miner::addTransaction, Chain::addBufferTransaction).
THEOREM TrialsFit == TrialSpec => []TrialFits
<1>1. TrialInv => TrialFits
  BY DEF TrialInv, TrialFits
<1>. QED BY <1>1, TrialInvHolds, PTL

\* Under the same condition the accounts the trial has met are, record after record,
\* those of the chain (Chain::seedFromCommittedIfMissing).
THEOREM TrialsAgree == TrialSpec => []TrialAgrees
<1>1. TrialInv => TrialAgrees
  BY DEF TrialInv, TrialAgrees, Fits, Accounts
<1>. QED BY <1>1, TrialInvHolds, PTL

\* As long as the trial has not strayed the chain accepts whichever renewal or
\* termination is next.
BatchAccepted ==
    ~strayed =>
        \A a \in Ids :
            IsNextDue(a) => ApplyRecord(bank, height, a, due[a], minFee).ok

\* No block of a slot leader gets stuck in its batch (Miner::initSlotCache,
\* Chain::addBufferTransaction).
THEOREM BatchesGoThrough == TrialSpec => []BatchAccepted
<1>1. Inv /\ TrialInv => BatchAccepted
  <2> SUFFICES ASSUME Inv, TrialInv, ~strayed, NEW a \in Ids, IsNextDue(a)
               PROVE  ApplyRecord(bank, height, a, due[a], minFee).ok
    BY DEF BatchAccepted
  <2>1. /\ a \in DOMAIN due /\ \A c \in DOMAIN due : a <= c
        /\ bank \in Bank /\ committed \in Bank /\ WellFormed(committed)
        /\ minFee \in Nat /\ slotFee = minFee /\ height \in Nat
    BY BankAssumption DEF IsNextDue, Inv, TypeOK, TrialInv
  <2>2. Batching
    BY <2>1 DEF TrialInv
  <2>3. PICK run, n, B : Underway(B, n, run, trial, due, bank, committed, minFee, height)
    BY <2>1, <2>2 DEF Batching
  <2>. QED BY <2>1, <2>3, BatchNext
<1>. QED BY <1>1, TrialInvHolds, PTL
=============================================================================
