----------------------------- MODULE MCLateJoin -----------------------------
(***************************************************************************)
(* A small instance of LateJoin: the system accounts, the issuer of a      *)
(* custom token and a user, who pay each other and the reserve.            *)
(***************************************************************************)
EXTENDS LateJoin

Issuer == 4
Alice  == 5

JoinRoutes == {<<RESERVE, Issuer>>, <<Issuer, Alice>>, <<GENESIS, Issuer>>,
               <<Alice, RESERVE>>}
=============================================================================
