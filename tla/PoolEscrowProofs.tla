---- MODULE PoolEscrowProofs ----
(***************************************************************************)
(* The pool implements BidEscrow, for every size.                          *)
(***************************************************************************)
EXTENDS PoolEscrow, NounsPoolProofs

\* What happens to the escrow of p, seen as a step of BidEscrow.
Moves(p) == EscrowOf(p)' = EscrowOf(p) \/ Escrow!Move(EscrowOf(p), EscrowOf(p)')

\* Steps that touch neither a bid nor its payments move no escrow.
LEMMA Untouched ==
  ASSUME NEW p \in Props, bids'[p] = bids[p], paid'[p] = paid[p]
  PROVE  Moves(p)
BY DEF Moves, EscrowOf, Stage, Owed

\* Moving each escrow on its own is a step of all of them.
LEMMA AllMove ==
  ASSUME \A p \in Props : Moves(p)
  PROVE  Escrow!EscrowNext
BY DEF Moves, Escrow!EscrowNext

\* The least value of the next bid is not below the standing one
\* (Nouns.sol:451-458).
LEMMA NeverBelow ==
  ASSUME TypeOK, NEW p \in Props
  PROVE  MinBidAmount(p) \in Nat /\ MinBidAmount(p) >= bids[p].amount
<1>1. /\ bids[p].amount \in Nat
      /\ cfg.minBidIncrementPercentage \in Nat
      /\ cfg.reservePrice \in Nat
  BY DEF TypeOK, ConfigTypeOK, ConfigType, Bid
<1>2. bids[p].amount * cfg.minBidIncrementPercentage \in Nat
  BY <1>1, ProductIsNat
<1>3. (bids[p].amount * cfg.minBidIncrementPercentage) \div 100 \in Nat
  BY <1>2, QuotientIsNat
<1>4. QED
  BY <1>1, <1>3 DEF MinBidAmount

\* A bid is a better offer, made before anything was spent.
LEMMA PlaceBidMoves ==
  ASSUME Inv, NEW a \in Bidders, NEW p \in Proposed,
         NEW s \in SupportInputs, NEW v \in BidAmounts,
         PlaceBid(a, p, s, v)
  PROVE  Escrow!EscrowNext
<1>1. TypeOK
  BY DEF Inv
<1>2. p \in Props /\ v \in Nat /\ bids[p] \in Bid
  BY <1>1, DAOAssumption, PoolAssumption DEF TypeOK, DAOTypeOK, Proposed, Props
<1>3. ~bids[p].executed /\ Active(p) /\ v >= MinBidAmount(p)
  BY DEF PlaceBid, BidAllowed
<1>4. ~bids[p].refunded
  BY <1>2, <1>3, RefundableNotActive DEF Inv, RefundedStaysRefundable
<1>5. /\ bids'[p].amount = v /\ bids'[p].remainingAmount = v
      /\ bids'[p].executed = bids[p].executed
      /\ bids'[p].refunded = bids[p].refunded
      /\ paid' = paid
      /\ \A q \in Props : q # p => bids'[q] = bids[q]
  BY <1>1, <1>2 DEF PlaceBid, Bid, TypeOK
<1>6. paid[p] = 0
  BY <1>2, <1>3, <1>4 DEF Inv, UncastIsWhole
<1>7. v >= bids[p].amount
  BY <1>1, <1>2, <1>3, NeverBelow DEF Bid
<1>8. Moves(p)
  BY <1>3, <1>4, <1>5, <1>6, <1>7
  DEF Moves, EscrowOf, Stage, Owed, Escrow!Move, Escrow!Outbid
<1>9. QED
  BY <1>5, <1>8, Untouched, AllMove

\* A refund returns all that is held and closes the escrow.
LEMMA ClaimRefundMoves ==
  ASSUME Inv, NEW a \in Bidders, NEW p \in Proposed, ClaimRefund(a, p)
  PROVE  Escrow!EscrowNext
<1>1. TypeOK
  BY DEF Inv
<1>2. p \in Props /\ bids[p] \in Bid /\ paid[p] \in Nat
  BY <1>1, DAOAssumption DEF TypeOK, DAOTypeOK, Proposed, Props
<1>3. /\ ~bids[p].refunded
      /\ bids'[p].refunded
      /\ bids'[p].amount = bids[p].amount
      /\ bids'[p].bidder = bids[p].bidder
      /\ bids'[p].support = bids[p].support
      /\ paid'[p] = paid[p] + bids[p].remainingAmount
      /\ \A q \in Props : q # p => bids'[q] = bids[q] /\ paid'[q] = paid[q]
  BY <1>1, <1>2 DEF ClaimRefund, NotYetRefunded, Bid, TypeOK
<1>4. Moves(p)
  BY <1>3 DEF Moves, EscrowOf, Stage, Owed, Escrow!Move, Escrow!GiveBack, Escrow!Terms
<1>5. QED
  BY <1>3, <1>4, Untouched, AllMove

\* Casting spends the fee, the gas and the tip, which are held.
LEMMA CastVoteMoves ==
  ASSUME Inv, NEW p \in Proposed, NEW gas \in GasRefunds, CastVote(p, gas)
  PROVE  Escrow!EscrowNext
<1> DEFINE votes  == PriorVotes(VoteSnapshotBlock(p))
           fee    == BpsToUint(cfg.feeBPS, bids[p].amount)
           refund == GasRefundWithTipAndCap(gas, bids[p].remainingAmount - fee)
           new    == CastBid(bids[p], votes, fee, refund)
<1>1. TypeOK
  BY DEF Inv
<1>2. p \in Props /\ bids[p] \in Bid /\ paid[p] \in Nat
  BY <1>1, DAOAssumption DEF TypeOK, DAOTypeOK, Proposed, Props
<1>3. /\ ~bids[p].executed /\ Active(p)
      /\ fee <= bids[p].remainingAmount
      /\ bids' = [bids EXCEPT ![p] = new]
      /\ paid' = [paid EXCEPT ![p] = @ + fee + refund]
  BY DEF CastVote, ExecuteVote, BaseVotes, Active
<1>4. ~bids[p].refunded
  BY <1>2, <1>3, RefundableNotActive DEF Inv, RefundedStaysRefundable
<1>5. /\ fee \in Nat /\ refund \in Nat
      /\ bids[p].remainingAmount - fee - refund \in Nat
  BY <1>1, <1>2, <1>3, CastPayments
<1> HIDE DEF votes, fee, refund
<1>6. /\ bids'[p].executed
      /\ bids'[p].amount = bids[p].amount
      /\ bids'[p].bidder = bids[p].bidder
      /\ bids'[p].support = bids[p].support
      /\ bids'[p].remainingAmount = bids[p].remainingAmount - fee - refund
      /\ bids'[p].refunded = bids[p].refunded
      /\ paid'[p] = paid[p] + fee + refund
      /\ \A q \in Props : q # p => bids'[q] = bids[q] /\ paid'[q] = paid[q]
  BY <1>1, <1>2, <1>3 DEF CastBid, Bid, TypeOK
<1>7. bids[p].remainingAmount \in Nat
  BY <1>2 DEF Bid
<1>8. Moves(p)
  BY <1>2, <1>3, <1>4, <1>5, <1>6, <1>7
  DEF Moves, EscrowOf, Stage, Owed, Escrow!Move, Escrow!Cast, Escrow!Spend,
      Escrow!Terms
<1>9. QED
  BY <1>6, <1>8, Untouched, AllMove

\* A withdrawal pays out of each escrow it names no more than it takes from it,
\* although what it takes accumulates over the batch (Nouns.sol:407-412).
LEMMA WithdrawMoves ==
  ASSUME Inv, NEW o \in Owners, NEW pIds \in Batches,
         NEW n \in ProverVersions, NEW funding \in ProverFunding,
         Withdraw(o, pIds, n, funding)
  PROVE  Escrow!EscrowNext
<1> SUFFICES ASSUME NEW p \in Props PROVE Moves(p)
  BY AllMove
<1>1. CASE p \in Range(pIds)
  <2>1. PICK paidOut \in Nat, taken \in Nat :
          /\ paidOut <= taken /\ taken <= bids[p].remainingAmount
          /\ paid'[p] = paid[p] + paidOut
          /\ bids'[p].remainingAmount = bids[p].remainingAmount - taken
    BY <1>1, WithdrawPass
  <2>2. /\ bids[p].executed /\ ~bids[p].refunded
        /\ bids'[p].executed = bids[p].executed
        /\ bids'[p].refunded = bids[p].refunded
        /\ bids'[p].amount = bids[p].amount
        /\ bids'[p].support = bids[p].support
        /\ bids'[p].bidder = bids[p].bidder
    BY <1>1, WithdrawPass
  <2>3. paid[p] \in Nat /\ bids[p].remainingAmount \in Nat
    BY DEF Inv, TypeOK, Bid
  <2>4. QED
    BY <2>1, <2>2, <2>3
    DEF Moves, EscrowOf, Stage, Owed, Escrow!Move, Escrow!PayOut, Escrow!Spend,
        Escrow!Terms
<1>2. CASE p \notin Range(pIds)
  BY <1>2, Untouched DEF Withdraw
<1>3. QED
  BY <1>1, <1>2

\* Before the first bid the escrows are empty.
LEMMA InitEscrow == Init => Escrow!EscrowInit
BY DEF Init, Escrow!EscrowInit, Escrow!EmptyOffer, EscrowOf, Stage, Owed, EmptyBid

\* Every step of the pool is one of its escrows or leaves them as they are.
LEMMA StepEscrow ==
  ASSUME Inv, [Next]_vars
  PROVE  Escrow!EscrowNext
<1>1. CASE PoolNext
  <2>1. CASE Pause \/ Unpause
    <3>1. bids' = bids /\ paid' = paid
      BY <2>1 DEF Pause, Unpause, SetPaused, historyVars
    <3>2. QED
      BY <3>1, Untouched, AllMove
  <2>2. QED
    BY <1>1, <2>1, PlaceBidMoves, ClaimRefundMoves, CastVoteMoves, WithdrawMoves
    DEF PoolNext
<1>2. CASE EnvNext \/ UNCHANGED vars
  <2>1. bids' = bids /\ paid' = paid
    BY <1>2
    DEF EnvNext, MineBlock, DAOStep, OwnerStep, ConfigStep, vars, poolVars,
        historyVars
  <2>2. QED
    BY <2>1, Untouched, AllMove
<1>3. QED
  BY <1>1, <1>2 DEF Next

\* The pool keeps one escrow per proposal, whatever is bid, proposed, canceled,
\* reconfigured and withdrawn in batches of any size (Nouns.sol:83-425).
THEOREM PoolKeepsEscrow == Spec => KeepsEscrow
<1>1. Inv /\ [Next]_vars => [Escrow!EscrowNext]_([p \in Props |-> EscrowOf(p)])
  BY StepEscrow
<1>2. QED
  BY <1>1, InitEscrow, InvHolds, PTL DEF Spec, KeepsEscrow, Escrow!EscrowSpec
-----------------------------------------------------------------------------
(***************************************************************************)
(* Withdrawals that name one proposal are fair.                            *)
(***************************************************************************)
\* A batch of one proposal takes from its bid what it pays.
LEMMA SingleWithdrawal ==
  ASSUME Inv, MaxBatch = 1, NEW o \in Owners, NEW pIds \in Batches,
         NEW n \in ProverVersions, NEW funding \in ProverFunding,
         Withdraw(o, pIds, n, funding), NEW p \in Range(pIds)
  PROVE  /\ p \in Props /\ bids[p].remainingVotes \in Nat \ {0}
         /\ bids'[p].remainingAmount = bids[p].remainingAmount - OwnerShare(o, p)
         /\ bids'[p].remainingVotes = bids[p].remainingVotes - ProvenBalance(o, p)
<1> DEFINE after == WithdrawAmount(o, pIds)
           share == [j \in DOMAIN pIds |-> OwnerShare(o, pIds[j])]
           i == CHOOSE j \in DOMAIN pIds : pIds[j] = p
<1>1. TypeOK
  BY DEF Inv
<1>2. pIds \in Seq(Proposed) /\ Len(pIds) \in Nat /\ DOMAIN pIds = 1..Len(pIds)
  BY BatchIsSeq, LenProperties
<1>3. Len(pIds) <= 1
  <2>1. PICK m \in 0..1 : pIds \in [1..m -> Proposed]
    BY DEF Batches, SeqOf
  <2>2. DOMAIN pIds = 1..m
    BY <2>1
  <2>3. QED
    BY <1>2, <2>1, <2>2
<1>4. i \in DOMAIN pIds /\ pIds[i] = p
  BY DEF Range
<1>5. i = 1 /\ Len(pIds) = 1
  BY <1>2, <1>3, <1>4
<1>6. p \in Proposed /\ p \in Props /\ bids[p] \in Bid
  BY <1>1, <1>2, <1>4, DAOAssumption DEF TypeOK, DAOTypeOK, Proposed, Props
<1>7. bids[p].remainingVotes \in Nat \ {0}
  BY <1>4, <1>6 DEF Withdraw, Withdrawable, Bid
<1>8. OwnerShare(o, p) \in Nat /\ ProvenBalance(o, p) \in Nat
  BY <1>1, <1>6, <1>7, ShareIsNat
<1>9. bids'[p] = WithdrawnBid(o, p, after[i])
  BY <1>6 DEF Withdraw
<1>10. share[1] = OwnerShare(o, p)
  BY <1>2, <1>4, <1>5
<1>11. share \in Seq(Nat) /\ Len(share) = 1
  <2>1. DOMAIN share = 1..1 /\ \A j \in 1..1 : share[j] \in Nat
    BY <1>2, <1>5, <1>8, <1>10
  <2>2. share \in [1..1 -> Nat]
    BY <2>1
  <2>3. QED
    BY <2>2, <2>1, SeqDef, LenProperties
<1>12. after = RunningTotal(share)
  BY DEF WithdrawAmount
<1> HIDE DEF share, after, i
<1>13. after[0] = 0 /\ after[1] = after[1-1] + share[1]
  BY <1>11, <1>12, RunningTotalIsNat
<1>14. after[i] = OwnerShare(o, p)
  BY <1>5, <1>8, <1>10, <1>13
<1>15. QED
  BY <1>6, <1>7, <1>9, <1>14 DEF WithdrawnBid, Bid

\* Where a batch names one proposal, no delegator lowers what a Noun of the
\* others is worth (Nouns.sol:407-412).  Run batch_share shows the hypothesis
\* is needed.
THEOREM SinglesAreFair == ASSUME MaxBatch = 1 PROVE Spec => SharePriceNeverFalls
<1> DEFINE Fair ==
      \A p \in Props :
        withdrawals'[p] # withdrawals[p] =>
          bids'[p].remainingAmount * bids[p].remainingVotes
            >= bids[p].remainingAmount * bids'[p].remainingVotes
<1>1. ASSUME Inv, Next, NEW p \in Props, withdrawals'[p] # withdrawals[p]
      PROVE  bids'[p].remainingAmount * bids[p].remainingVotes
               >= bids[p].remainingAmount * bids'[p].remainingVotes
  <2>1. PICK o \in Owners, pIds \in Batches, n \in ProverVersions,
             funding \in ProverFunding : Withdraw(o, pIds, n, funding)
    <3>1. \A a, q, s, v : PlaceBid(a, q, s, v) \/ ClaimRefund(a, q) =>
            withdrawals' = withdrawals
      BY DEF PlaceBid, ClaimRefund
    <3>2. \A q, gas : CastVote(q, gas) => withdrawals' = withdrawals
      BY DEF CastVote
    <3>3. Pause \/ Unpause => withdrawals' = withdrawals
      BY DEF Pause, Unpause, SetPaused
    <3>4. EnvNext => withdrawals' = withdrawals
      BY DEF EnvNext, MineBlock, DAOStep, OwnerStep, ConfigStep, poolVars
    <3>5. QED
      BY <1>1, <3>1, <3>2, <3>3, <3>4, Zenon DEF Next, PoolNext
  <2>2. p \in Range(pIds)
    BY <1>1, <2>1 DEF Withdraw
  <2>3. /\ bids[p].remainingVotes \in Nat \ {0}
        /\ bids'[p].remainingAmount = bids[p].remainingAmount - OwnerShare(o, p)
        /\ bids'[p].remainingVotes = bids[p].remainingVotes - ProvenBalance(o, p)
    BY <1>1, <2>1, <2>2, SingleWithdrawal
  <2>4. OwnerShare(o, p) \in Nat /\ ProvenBalance(o, p) \in Nat
    BY <1>1, <2>1, <2>3, ShareIsNat DEF Inv
  <2>5. bids[p].remainingAmount \in Nat
    BY <1>1 DEF Inv, TypeOK, Bid
  <2>6. ProvenBalance(o, p) * bids[p].remainingAmount \in Nat
    BY <2>4, <2>5, ProductIsNat
  <2>7. OwnerShare(o, p) * bids[p].remainingVotes
          <= ProvenBalance(o, p) * bids[p].remainingAmount
    BY <2>3, <2>6, RoundedDown DEF OwnerShare
  <2>8. QED
    BY <2>3, <2>4, <2>5, <2>7, FairShare
<1>2. Inv /\ [Next]_vars => [Fair]_vars
  BY <1>1
<1>3. QED
  BY <1>2, InvHolds, PTL DEF Spec, SharePriceNeverFalls
====
