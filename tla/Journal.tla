------------------------------ MODULE Journal -------------------------------
(***************************************************************************)
(* What the journals of the system share: the server numbers the records   *)
(* of a journal 1, 2, 3, ... and never hands out a number twice; a reader's *)
(* position is a number, 0 before the first record.                        *)
(***************************************************************************)
EXTENDS Integers

CONSTANT MaxSeq   \* bound: the numbers a model hands out

ASSUME MaxSeqAssumption == MaxSeq \in Nat \ {0}

Seqs == 1..MaxSeq
Positions == 0..MaxSeq
=============================================================================
