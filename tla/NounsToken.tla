---- MODULE NounsToken ----
(***************************************************************************)
(* The Nouns token as the pool uses it: who held how many Nouns, delegated *)
(* to whom, at each block.  History up to a block never changes once the   *)
(* block is mined, so it is a constant; runs choose histories in which     *)
(* delegations move between a proposal's creation and its start.           *)
(***************************************************************************)
EXTENDS Chain, FiniteSets, Functions

CONSTANTS
    Owners,    \* accounts that hold Nouns
    Base,      \* the base wallet's address, a possible delegate
    Holding    \* Holding[b][o]: the balance and the delegate of o at block b

ASSUME HoldingAssumption ==
    /\ IsFiniteSet(Owners)
    /\ \A b \in Blocks, o \in Owners : Holding[b][o].balance \in Nat

\* The owners a storage proof at block b can show as delegating to the base.
Delegators(b) ==
    {o \in Owners : Holding[b][o].delegate = Base /\ Holding[b][o].balance > 0}

\* The part of the votes getPriorVotes reports for the base at block b that the
\* owners in S delegated.
DelegatedBy(S, b) ==
    SumFunctionOnSet([o \in Owners |-> Holding[b][o].balance], S \cap Delegators(b))

\* getPriorVotes(base, b): reverts unless b is already mined (b < block).
PriorVotes(b) == DelegatedBy(Owners, b)
====
