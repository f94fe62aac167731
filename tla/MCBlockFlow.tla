----------------------------- MODULE MCBlockFlow -----------------------------
(***************************************************************************)
(* Small instances of BlockFlow.                                           *)
(***************************************************************************)
EXTENDS BlockFlow

CONSTANTS t1, t2  \* two transactions

\* Who leads which slot.
Alone      == <<1, 1, 1>>
AloneLong  == <<1, 1, 1, 1>>
InTurns    == <<1, 2, 1>>
BackToBack == <<1, 2>>

\* The "beacons" lists of a miner's configuration.
ViaRelay  == <<Relay>>
Direct    == <<Beacon>>
BothPeers == <<Relay, Beacon>>
=============================================================================
