---------------------------- MODULE MCCheckpoints ----------------------------
(***************************************************************************)
(* A small instance of Checkpoints: two accounts of the genesis block and  *)
(* one that is registered later.                                           *)
(***************************************************************************)
EXTENDS Checkpoints

Alice == 1
Bob   == 2
Carol == 3

OldAccounts == {Alice, Bob}
Activity    == {{Alice}, {Carol}}
=============================================================================
