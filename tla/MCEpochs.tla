------------------------------ MODULE MCEpochs ------------------------------
(***************************************************************************)
(* Small instances of Epochs.                                              *)
(***************************************************************************)
EXTENDS Epochs

\* One account far ahead, one behind it by little, one without a stake.
Stakes0 == <<2, 1, 0>>

\* One unit that changes the order of the pool, its members, or both.
Pay(a, b) == [from |-> a, to |-> b, amount |-> 1]
OneUnit == {Pay(1, 2), Pay(2, 1), Pay(1, 3)}

\* The first of the pool leads all slots but one in three.
Skewed == [s \in 0 .. MaxSlot + 1 |-> IF s % 3 = 2 THEN 1 ELSE 0]
=============================================================================
