---- MODULE MCNounsPool ----
(***************************************************************************)
(* Instances of NounsPool for TLC.                                         *)
(***************************************************************************)
EXTENDS PoolEscrow, TLC

CONSTANTS b1, b2, o1, o2, o3, base, other, rival, pool, manager

\* Blocks in which o2 has delegated: not yet when the first proposal is made.
MCHolding ==
    [b \in Blocks |->
       o1 :> [balance |-> 2, delegate |-> base]
       @@ o2 :> [balance |-> 1, delegate |-> IF b > 1 THEN base ELSE other]
       @@ o3 :> [balance |-> 1, delegate |-> IF b > 1 THEN other ELSE base]]

Config ==
    [reservePrice |-> 5, timeBuffer |-> 2, minBidIncrementPercentage |-> 20,
     castWindow |-> 1, auctionCloseBlocks |-> 2, tip |-> 1, feeBPS |-> 2000,
     maxProverVersion |-> 1, useStartBlockFromPropId |-> 0,
     migrationPropId |-> 0]

OneConfig == {Config}

\* One block to bid in, one to cast in.
ShortConfig == {[Config EXCEPT !.auctionCloseBlocks = 1]}

\* reservePrice 0 is replaced, the second configuration is refused.
AuctionConfigs ==
    {[Config EXCEPT !.reservePrice = 0], [Config EXCEPT !.castWindow = 3], Config}

\* What the owner may change to in the middle of an auction; the second default
\* end of auctions is refused.
Reconfigurations ==
    {[Config EXCEPT !.reservePrice = 6, !.feeBPS = 3000, !.auctionCloseBlocks = 3],
     [Config EXCEPT !.timeBuffer = 1, !.auctionCloseBlocks = 0]}

ExactFunding == {<<0, 0>>, <<1, 1>>}

\* A caller sends what the prover charges, or nothing, or too much.
AnyFunding == {<<0, 0>>, <<1, 0>>, <<0, 1>>}

Underfunding == {<<0, 0>>, <<1, 0>>}

BidderSymmetry == Permutations({b1, b2})
====
