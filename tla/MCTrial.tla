------------------------------ MODULE MCTrial ------------------------------
(***************************************************************************)
(* A slot leader's trials on the small instances of MCBank.                *)
(***************************************************************************)
EXTENDS MinerTrial, MCBank
=============================================================================
