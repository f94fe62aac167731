------------------------------- MODULE MCBank -------------------------------
(***************************************************************************)
(* Small instances of Bank: the four system accounts, the issuer of one    *)
(* custom token, two users.                                                *)
(***************************************************************************)
EXTENDS Bank

Issuer == 4
Alice  == 5
Bob    == 6

\* Who is paid, renewed and closed: RECYCLE is kept alive and takes what accounts
\* leave that start with too little; the custom token goes on from user to user.
MoneyRoutes == {<<GENESIS, RECYCLE>>, <<GENESIS, Issuer>>, <<Issuer, Alice>>,
                <<Alice, Bob>>}

\* Routes that fill an account and the fee account to the brim, and a user to renew.
LimitRoutes == {<<GENESIS, FEE>>, <<RESERVE, FEE>>, <<GENESIS, Issuer>>,
                <<Issuer, RESERVE>>, <<RESERVE, Alice>>}

\* An account that pays itself: every instance above leaves it out.
SelfRoutes == {<<RESERVE, RESERVE>>}

----------------------------------------------------------------------------

\* The closed form of the genesis bank is what the four records of the genesis
\* block make of the account TxGenesis sets up.
GenesisByRecords ==
    LET fee == GenesisFee
        b0  == Replace([a \in Ids |-> NoAccount], GENESIS, 0, NoBalance)
        r1  == ApplyNewUser(b0, 0, GENESIS, FEE, 0, fee, fee)
        r2  == ApplyNewUser(r1.bank, 0, GENESIS, RESERVE, Supply - 3 * fee, fee, fee)
        r3  == ApplyNewUser(r2.bank, 0, GENESIS, RECYCLE, 0, fee, fee)
    IN  r1.ok /\ r2.ok /\ r3.ok /\ r3.bank = GenesisBank

ASSUME GenesisAssumption == GenesisByRecords

----------------------------------------------------------------------------
(* What the documentation says, and the code does not keep.                *)

\* Chain.cpp:203: an account that cannot pay its renewal is terminated, so the
\* leader of the next block finds a record for everyone who is due.
EveryoneDueGetsRecord == BlockComplete => Collectable(Renewals(height + 1))
=============================================================================
