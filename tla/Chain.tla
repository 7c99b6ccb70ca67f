---- MODULE Chain ----
(***************************************************************************)
(* The Ethereum chain as the contracts see it: the number of the block     *)
(* that is being built.  A transaction is atomic and never changes it, so  *)
(* any number of transactions, in any order, share a block.                *)
(***************************************************************************)
EXTENDS Integers

CONSTANT MaxBlock   \* bound: no block beyond this one is mined

ASSUME MaxBlockAssumption == MaxBlock \in Nat \ {0}

VARIABLE block      \* block.number

Blocks == 0..MaxBlock

ChainInit == block = 1

Mine == block < MaxBlock /\ block' = block + 1
====
