---- MODULE PoolEscrow ----
(***************************************************************************)
(* The pool as an implementation of BidEscrow.                             *)
(***************************************************************************)
EXTENDS NounsPool

Stage(p) ==
    IF bids[p].refunded THEN "closed"
    ELSE IF bids[p].executed THEN "cast" ELSE "offered"

\* What the pool's storage says about the escrow of p, and what history says
\* was paid out of it.
EscrowOf(p) ==
    [stage |-> Stage(p), bidder |-> bids[p].bidder, support |-> bids[p].support,
     amount |-> bids[p].amount, held |-> Owed(p), out |-> paid[p]]

Escrow == INSTANCE BidEscrow WITH
    Proposals <- Props,
    Nobody <- NoBidder,
    escrow <- [p \in Props |-> EscrowOf(p)]

\* The pool keeps one escrow per proposal: bids are only replaced by bids of at
\* least their value while nothing was spent, what is paid was held, the terms
\* of a cast bid stand, a refund returns all that is left and closes the bid
\* for good, batches and reconfiguration included (Nouns.sol:134-190, 206-217,
\* 236-287, 407-421).
KeepsEscrow == Escrow!EscrowSpec
====
