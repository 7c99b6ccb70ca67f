---- MODULE NounsPoolProofs ----
(***************************************************************************)
(* The pool's invariants, for every number of proposals, bidders, owners,  *)
(* amounts, delegations and configurations.                                *)
(***************************************************************************)
EXTENDS NounsPool, Arithmetic, SequenceTheorems

-----------------------------------------------------------------------------
\* Initially nothing was proposed, bid or locked.
LEMMA InitInv == Init => Inv
<1> SUFFICES ASSUME Init PROVE Inv
  OBVIOUS
<1> USE DEF Init
<1>1. TypeOK
  <2>1. block \in Blocks
    BY MaxBlockAssumption DEF ChainInit, Blocks
  <2>2. DAOTypeOK
    BY MaxBlockAssumption, DAOAssumption
    DEF DAOInit, DAOTypeOK, NoProposal, Proposal, Props, Blocks, Supports
  <2>3. BaseTypeOK
    BY BaseAssumption DEF BaseInit, BaseTypeOK
  <2>4. ConfigTypeOK
    BY ConfigAssumption DEF ConfigInit, ConfigTypeOK, ConfigType, Defaulted
  <2>5. EmptyBid \in Bid
    BY MaxBlockAssumption DEF EmptyBid, Bid, Blocks, Supports
  <2>6. bids \in [Props -> Bid]
    BY <2>5
  <2>7. bidBlock \in [Props -> Blocks]
    BY MaxBlockAssumption DEF Blocks
  <2>8. paused \in BOOLEAN
    OBVIOUS
  <2>9. /\ withdrawals \in [Props -> SUBSET Owners]
        /\ balance \in Nat
        /\ paid \in [Props -> Nat]
        /\ net \in [Bidders -> Int]
        /\ unfunded \in Int
    OBVIOUS
  <2> HIDE DEF Init
  <2>10. QED
    BY <2>1, <2>2, <2>3, <2>4, <2>6, <2>7, <2>8, <2>9 DEF TypeOK
<1>2. LockedModuleEnabled
  BY DEF LockedModuleEnabled, BaseInit
<1>3. QED
  BY <1>1, <1>2
  DEF Inv, EmptyBid, LockCoversBid, CastIsProposed, VoteMatchesBid,
      RefundedStaysRefundable, UncastIsWhole, PaidWithinBid, Owed
-----------------------------------------------------------------------------
\* The state of a proposal depends on the block and on the proposal alone.
LEMMA SameState ==
  ASSUME NEW p \in Props, block' = block, proposals'[p] = proposals[p]
  PROVE  State(p)' = State(p)
BY DEF State

\* What may be refunded is not being voted on, unless its vote was cast.
LEMMA RefundableNotActive ==
  ASSUME NEW p \in Props, NEW voteCast, Active(p)
  PROVE  ~Refundable(p, voteCast)
BY DEF Active, Refundable

\* The end a bid gives an auction is a block.
LEMMA AuctionEndIsBlock ==
  ASSUME TypeOK, NEW p \in Props, ExtendedAuctionEnd(p) >= 0
  PROVE  ExtendedAuctionEnd(p) \in Blocks
<1> DEFINE late == block + cfg.timeBuffer
           cap  == proposals[p].endBlock - cfg.castWindow
<1>1. /\ proposals[p].endBlock \in Blocks /\ bids[p].auctionEndBlock \in Blocks
      /\ block \in Blocks /\ cfg.castWindow \in Nat /\ cfg.timeBuffer \in Nat
      /\ cfg.auctionCloseBlocks \in Nat
  BY DEF TypeOK, DAOTypeOK, ConfigTypeOK, ConfigType, Proposal, Bid
<1>2. AuctionEnd(p) \in Int /\ AuctionEnd(p) <= MaxBlock
  BY <1>1, MaxBlockAssumption DEF AuctionEnd, Blocks
<1>3. late \in Int /\ cap \in Int /\ cap <= MaxBlock
  BY <1>1, MaxBlockAssumption DEF Blocks
<1>4. ExtendedAuctionEnd(p) = Min({late, cap}) \/ ExtendedAuctionEnd(p) = AuctionEnd(p)
  BY DEF ExtendedAuctionEnd
<1> HIDE DEF late, cap
<1>5. Min({late, cap}) \in {late, cap} /\ Min({late, cap}) <= cap
  BY <1>3, MinOfTwo
<1> DEFINE least == Min({late, cap})
<1>6. least \in {late, cap} /\ least <= cap
  BY <1>5
<1>7. ExtendedAuctionEnd(p) = least \/ ExtendedAuctionEnd(p) = AuctionEnd(p)
  BY <1>4
<1> HIDE DEF least
<1>8. QED
  BY <1>2, <1>3, <1>6, <1>7, MaxBlockAssumption DEF Blocks

\* A bid keeps the invariant: it only replaces a bid nothing was paid from, and
\* it extends the pool's lock past the end of the vote.
LEMMA PlaceBidInv ==
  ASSUME Inv,
         NEW a \in Bidders, NEW p \in Proposed,
         NEW s \in SupportInputs, NEW v \in BidAmounts,
         PlaceBid(a, p, s, v)
  PROVE  Inv'
<1> DEFINE new == [bids[p] EXCEPT
                     !.amount = v, !.remainingAmount = v, !.bidder = a,
                     !.support = s,
                     !.creationBlock = proposals[p].creationBlock,
                     !.startBlock = proposals[p].startBlock,
                     !.endBlock = proposals[p].endBlock,
                     !.auctionEndBlock = ExtendedAuctionEnd(p)]
<1>1. TypeOK
  BY DEF Inv
<1>2. p \in Props /\ v \in Nat /\ s \in Supports
  BY <1>1, DAOAssumption, PoolAssumption
  DEF TypeOK, DAOTypeOK, Proposed, Props, PlaceBid, BidAllowed, SupportAllowed,
      Supports
<1>3. ~bids[p].executed /\ Active(p)
  BY DEF PlaceBid, BidAllowed
<1>4. ~bids[p].refunded
  <2>1. ~Refundable(p, bids[p].executed)
    BY <1>2, <1>3, RefundableNotActive
  <2>2. QED
    BY <1>2, <2>1 DEF Inv, RefundedStaysRefundable
<1>5. /\ bids[p] \in Bid
      /\ proposals[p].creationBlock \in Blocks
      /\ proposals[p].startBlock \in Blocks
      /\ proposals[p].endBlock \in Blocks
      /\ block \in Blocks
      /\ lock \in [Modules -> Nat]
      /\ Pool \in Modules
  BY <1>1, <1>2, ConfigAssumption
  DEF TypeOK, DAOTypeOK, BaseTypeOK, Proposal
<1>6. ExtendedAuctionEnd(p) \in Blocks
  BY <1>1, <1>2, AuctionEndIsBlock DEF PlaceBid, BidAllowed
<1>7. bids' = [bids EXCEPT ![p] = new] /\ new \in Bid
  BY <1>2, <1>5, <1>6 DEF PlaceBid, Bid
<1> HIDE DEF new
<1>8. /\ lock' \in [Modules -> Nat]
      /\ \A m \in Modules : lock'[m] >= lock[m]
      /\ lock'[Pool] > proposals[p].endBlock
      /\ \A m \in Modules : m # Pool => lock'[m] = lock[m]
      /\ enabled' = enabled /\ enabled[Pool]
      /\ maxLockDurationBlocks' = maxLockDurationBlocks
  BY <1>5, MaxBlockAssumption
  DEF PlaceBid, RequestLock, LockBlocks, OnlyEnabled, Blocks
<1>9. TypeOK'
  <2>1. bids' \in [Props -> Bid]
    BY <1>1, <1>7 DEF TypeOK
  <2>2. BaseTypeOK'
    BY <1>1, <1>8 DEF TypeOK, BaseTypeOK
  <2>3. DAOTypeOK' /\ ConfigTypeOK'
    BY <1>1 DEF TypeOK, DAOTypeOK, ConfigTypeOK, PlaceBid, daoVars
  <2>4. bidBlock' \in [Props -> Blocks]
    BY <1>1, <1>5 DEF TypeOK, PlaceBid
  <2>5. net' \in [Bidders -> Int] /\ balance' \in Nat /\ unfunded' \in Int
    BY <1>1, <1>2, <1>5 DEF TypeOK, PlaceBid, BidAllowed, LastBidRefund, Bid
  <2>6. /\ block' \in Blocks
        /\ withdrawals' \in [Props -> SUBSET Owners]
        /\ paid' \in [Props -> Nat]
    BY <1>1 DEF TypeOK, PlaceBid
  <2>7. paused' \in BOOLEAN
    BY <1>1 DEF TypeOK, PlaceBid
  <2>8. QED
    BY <2>1, <2>2, <2>3, <2>4, <2>5, <2>6, <2>7 DEF TypeOK
<1>10. /\ new.amount = v /\ new.remainingAmount = v /\ new.support = s
       /\ new.endBlock = proposals[p].endBlock
       /\ ~new.executed /\ ~new.refunded
  BY <1>3, <1>4, <1>5 DEF new, Bid
<1>11. /\ bids'[p] = new
       /\ \A q \in Props : q # p => bids'[q] = bids[q]
  BY <1>1, <1>2, <1>7 DEF TypeOK
<1>12. UNCHANGED <<block, proposals, proposalCount, paid>>
  BY DEF PlaceBid, daoVars
<1>13. LockedModuleEnabled'
  BY <1>5, <1>8, <1>12 DEF Inv, LockedModuleEnabled
<1>14. LockCoversBid'
  BY <1>5, <1>8, <1>10, <1>11, <1>12, <1>1 DEF Inv, LockCoversBid, TypeOK, Bid, Blocks
<1>15. CastIsProposed' /\ VoteMatchesBid'
  BY <1>10, <1>11, <1>12 DEF Inv, CastIsProposed, VoteMatchesBid, Proposed
<1>16. RefundedStaysRefundable'
  BY <1>10, <1>11, <1>12, SameState
  DEF Inv, RefundedStaysRefundable, Refundable, Proposed
<1>17. UncastIsWhole' /\ PaidWithinBid'
  BY <1>1, <1>2, <1>3, <1>4, <1>10, <1>11, <1>12
  DEF Inv, UncastIsWhole, PaidWithinBid, Owed, TypeOK, Bid
<1>18. QED
  BY <1>9, <1>13, <1>14, <1>15, <1>16, <1>17 DEF Inv

\* What refundable means, without the order of the tests in State.
LEMMA RefundableMeans ==
  ASSUME NEW p \in Props, NEW voteCast
  PROVE  Refundable(p, voteCast) <=>
           \/ proposals[p].vetoed \/ proposals[p].canceled
           \/ /\ ~(block <= proposals[p].startBlock)
              /\ ~(block <= proposals[p].endBlock)
              /\ \/ /\ proposals[p].passed /\ ~proposals[p].executed
                    /\ proposals[p].queue = "lapsed"
                 \/ ~voteCast
BY DEF Refundable, State

\* A claim keeps the invariant: what it pays was owed, and nothing is owed
\* afterwards.
LEMMA ClaimRefundInv ==
  ASSUME Inv, NEW a \in Bidders, NEW p \in Proposed, ClaimRefund(a, p)
  PROVE  Inv'
<1> DEFINE new == [bids[p] EXCEPT !.refunded = TRUE]
<1>1. TypeOK
  BY DEF Inv
<1>2. p \in Props /\ bids[p] \in Bid
  BY <1>1, DAOAssumption DEF TypeOK, DAOTypeOK, Proposed, Props
<1>3. ~bids[p].refunded /\ Refundable(p, bids[p].executed)
  BY DEF ClaimRefund, NotYetRefunded
<1>4. bids' = [bids EXCEPT ![p] = new] /\ new \in Bid
  BY <1>1, <1>2 DEF ClaimRefund, TypeOK, Bid
<1>5. /\ new.amount = bids[p].amount /\ new.remainingAmount = bids[p].remainingAmount
      /\ new.support = bids[p].support /\ new.endBlock = bids[p].endBlock
      /\ new.refunded
  BY <1>2 DEF Bid
<1>6. new.executed = bids[p].executed
  BY <1>2 DEF Bid
<1> HIDE DEF new
<1>7. bids'[p] = new /\ \A q \in Props : q # p => bids'[q] = bids[q]
  BY <1>1, <1>2, <1>4 DEF TypeOK
<1>8. /\ UNCHANGED <<block, proposals, proposalCount, lock, enabled>>
      /\ paid' = [paid EXCEPT ![p] = @ + bids[p].remainingAmount]
  BY DEF ClaimRefund, otherVars, daoVars, walletVars
<1>9. TypeOK'
  <2>1. bids' \in [Props -> Bid]
    BY <1>1, <1>4 DEF TypeOK
  <2>2. BaseTypeOK' /\ DAOTypeOK' /\ ConfigTypeOK'
    BY <1>1
    DEF TypeOK, BaseTypeOK, DAOTypeOK, ConfigTypeOK, ClaimRefund, otherVars,
        daoVars, walletVars
  <2>3. /\ net' \in [Bidders -> Int] /\ unfunded' \in Int
        /\ balance' \in Nat /\ paid' \in [Props -> Nat]
    BY <1>1, <1>2 DEF TypeOK, ClaimRefund, Bid
  <2>4. /\ block' \in Blocks
        /\ withdrawals' \in [Props -> SUBSET Owners]
        /\ bidBlock' \in [Props -> Blocks]
    BY <1>1, <1>8 DEF TypeOK, ClaimRefund
  <2>5. paused' \in BOOLEAN
    BY <1>1 DEF TypeOK, ClaimRefund
  <2>6. QED
    BY <2>1, <2>2, <2>3, <2>4, <2>5 DEF TypeOK
<1>10. LockedModuleEnabled'
  BY <1>8 DEF Inv, LockedModuleEnabled
<1>11. LockCoversBid'
  BY <1>5, <1>7, <1>8 DEF Inv, LockCoversBid
<1>12. CastIsProposed' /\ VoteMatchesBid'
  BY <1>5, <1>6, <1>7, <1>8 DEF Inv, CastIsProposed, VoteMatchesBid, Proposed
<1>13. RefundedStaysRefundable'
  BY <1>3, <1>6, <1>7, <1>8, SameState
  DEF Inv, RefundedStaysRefundable, Refundable, Proposed
<1>14. UncastIsWhole'
  BY <1>5, <1>7, <1>8, <1>1 DEF Inv, UncastIsWhole, TypeOK
<1>15. PaidWithinBid'
  BY <1>1, <1>2, <1>3, <1>5, <1>7, <1>8 DEF Inv, PaidWithinBid, Owed, TypeOK, Bid
<1>16. QED
  BY <1>9, <1>10, <1>11, <1>12, <1>13, <1>14, <1>15 DEF Inv

\* Votes counted at a block are a natural number, none if nobody is counted.
LEMMA DelegatedIsNat ==
  ASSUME NEW b \in Blocks, NEW S
  PROVE  DelegatedBy(S, b) \in Nat
<1> DEFINE held == [o \in Owners |-> Holding[b][o].balance]
           R == S \cap Delegators(b)
<1>1. R \in SUBSET Owners /\ IsFiniteSet(Owners)
  BY HoldingAssumption DEF Delegators
<1>2. IsFiniteSet(R)
  BY <1>1, FS_Subset
<1>3. \A o \in R : held[o] \in Nat
  BY <1>1, HoldingAssumption
<1> HIDE DEF held, R
<1>4. SumFunctionOnSet(held, R) \in Nat
  BY <1>2, <1>3, SumIsNat
<1>5. QED
  BY <1>4 DEF DelegatedBy, held, R

\* The snapshot of a proposal is a block, so votes were counted there.
LEMMA SnapshotVotes ==
  ASSUME TypeOK, NEW p \in Props
  PROVE  VoteSnapshotBlock(p) \in Blocks /\ PriorVotes(VoteSnapshotBlock(p)) \in Nat
<1>1. VoteSnapshotBlock(p) \in Blocks
  BY DEF VoteSnapshotBlock, TypeOK, Bid
<1>2. QED
  BY <1>1, DelegatedIsNat DEF PriorVotes

\* The fee of a bid and the refund for casting it together fit in what is left.
LEMMA CastPayments ==
  ASSUME TypeOK, NEW p \in Props, NEW gas \in GasRefunds,
         NEW fee, fee = BpsToUint(cfg.feeBPS, bids[p].amount),
         fee <= bids[p].remainingAmount,
         NEW refund,
         refund = GasRefundWithTipAndCap(gas, bids[p].remainingAmount - fee)
  PROVE  /\ fee \in Nat /\ refund \in Nat
         /\ bids[p].remainingAmount - fee - refund \in Nat
<1> DEFINE cap == bids[p].remainingAmount - fee
           tip == gas + cfg.tip
<1>1. /\ bids[p].amount \in Nat /\ bids[p].remainingAmount \in Nat
      /\ cfg.feeBPS \in Nat /\ cfg.tip \in Nat /\ balance \in Nat /\ gas \in Nat
  BY PoolAssumption DEF TypeOK, Bid, ConfigTypeOK, ConfigType
<1>2. bids[p].amount * cfg.feeBPS \in Nat
  BY <1>1, ProductIsNat
<1>3. fee \in Nat
  <2> DEFINE product == bids[p].amount * cfg.feeBPS
  <2>1. fee = product \div 10000 /\ product \in Nat
    BY <1>2 DEF BpsToUint
  <2> HIDE DEF product
  <2>2. QED
    BY <2>1, QuotientIsNat
<1>4. cap \in Nat /\ tip \in Nat
  BY <1>1, <1>3
<1>5. refund = Min({cap, tip, balance})
  BY DEF GasRefundWithTipAndCap
<1> HIDE DEF cap, tip
<1>6. cap \in Int /\ tip \in Int /\ balance \in Int /\ balance \in Nat
  BY <1>1, <1>4
<1>7. refund \in {cap, tip, balance} /\ refund <= cap
  <2>1. /\ Min({cap, tip, balance}) \in {cap, tip, balance}
        /\ Min({cap, tip, balance}) <= cap
    BY <1>6, MinOfThree, Zenon
  <2>2. QED
    BY <1>5, <2>1, Zenon
<1>8. refund \in Nat
  BY <1>4, <1>6, <1>7
<1>9. QED
  BY <1>1, <1>3, <1>4, <1>7, <1>8 DEF cap

\* A cast keeps the invariant: it records in the DAO the support of the bid,
\* and what it pays comes out of a bid from which nothing was paid before.
LEMMA CastVoteInv ==
  ASSUME Inv, NEW p \in Proposed, NEW gas \in GasRefunds, CastVote(p, gas)
  PROVE  Inv'
<1> DEFINE votes  == PriorVotes(VoteSnapshotBlock(p))
           fee    == BpsToUint(cfg.feeBPS, bids[p].amount)
           refund == GasRefundWithTipAndCap(gas, bids[p].remainingAmount - fee)
           new    == CastBid(bids[p], votes, fee, refund)
           q0     == [proposals[p] EXCEPT !.hasVoted = TRUE, !.support = bids[p].support]
<1>1. TypeOK
  BY DEF Inv
<1>2. p \in Props /\ bids[p] \in Bid /\ proposals[p] \in Proposal
  BY <1>1, DAOAssumption DEF TypeOK, DAOTypeOK, Proposed, Props
<1>3. /\ ~bids[p].executed /\ Active(p)
      /\ fee <= bids[p].remainingAmount /\ fee + refund <= balance
      /\ bids' = [bids EXCEPT ![p] = new]
      /\ balance' = balance - fee - refund
      /\ paid' = [paid EXCEPT ![p] = @ + fee + refund]
      /\ proposals' = [proposals EXCEPT ![p] = q0]
      /\ UNCHANGED <<block, proposalCount, enabled, lock, maxLockDurationBlocks,
                     cfg, withdrawals, paused, bidBlock, net, unfunded>>
  BY DEF CastVote, ExecuteVote, BaseVotes, SetProposal, Active, walletVars
<1>4. ~bids[p].refunded
  <2>1. ~Refundable(p, bids[p].executed)
    BY <1>2, <1>3, RefundableNotActive
  <2>2. QED
    BY <1>2, <2>1 DEF Inv, RefundedStaysRefundable
<1>5. votes \in Nat
  BY <1>1, <1>2, SnapshotVotes
<1>6. /\ fee \in Nat /\ refund \in Nat
      /\ bids[p].remainingAmount - fee - refund \in Nat
  BY <1>1, <1>2, <1>3, CastPayments
<1> HIDE DEF votes, fee, refund
<1>7. /\ new \in Bid
      /\ new.amount = bids[p].amount /\ new.support = bids[p].support
      /\ new.endBlock = bids[p].endBlock /\ new.executed
      /\ new.remainingAmount = bids[p].remainingAmount - fee - refund
  BY <1>2, <1>5, <1>6 DEF CastBid, Bid
<1>8. ~new.refunded
  BY <1>2, <1>4 DEF CastBid, Bid
<1>9. /\ q0 \in Proposal /\ q0.hasVoted /\ q0.support = bids[p].support
  BY <1>2 DEF Proposal, Bid
<1> HIDE DEF new, q0
<1>10. /\ bids'[p] = new /\ \A q \in Props : q # p => bids'[q] = bids[q]
       /\ proposals'[p] = q0 /\ \A q \in Props : q # p => proposals'[q] = proposals[q]
       /\ paid'[p] = paid[p] + fee + refund
       /\ \A q \in Props : q # p => paid'[q] = paid[q]
  BY <1>1, <1>2, <1>3 DEF TypeOK, DAOTypeOK
<1>11. TypeOK'
  <2>1. bids' \in [Props -> Bid]
    BY <1>1, <1>3, <1>7 DEF TypeOK
  <2>2. DAOTypeOK'
    BY <1>1, <1>3, <1>9 DEF TypeOK, DAOTypeOK
  <2>3. BaseTypeOK' /\ ConfigTypeOK'
    BY <1>1, <1>3 DEF TypeOK, BaseTypeOK, ConfigTypeOK
  <2>4. balance' \in Nat
    BY <1>1, <1>3, <1>6 DEF TypeOK
  <2>8. paid' \in [Props -> Nat]
    BY <1>1, <1>2, <1>3, <1>6 DEF TypeOK
  <2>5. /\ block' \in Blocks
        /\ withdrawals' \in [Props -> SUBSET Owners]
        /\ bidBlock' \in [Props -> Blocks]
        /\ net' \in [Bidders -> Int]
        /\ unfunded' \in Int
    BY <1>1, <1>3 DEF TypeOK
  <2>6. paused' \in BOOLEAN
    BY <1>1, <1>3 DEF TypeOK
  <2>7. QED
    BY <2>1, <2>2, <2>3, <2>4, <2>5, <2>6, <2>8 DEF TypeOK
<1>12. LockedModuleEnabled'
  BY <1>3 DEF Inv, LockedModuleEnabled
<1>13. LockCoversBid'
  BY <1>3, <1>7, <1>10 DEF Inv, LockCoversBid
<1>14. CastIsProposed' /\ VoteMatchesBid'
  BY <1>3, <1>7, <1>9, <1>10 DEF Inv, CastIsProposed, VoteMatchesBid, Proposed
<1>15. RefundedStaysRefundable'
  BY <1>3, <1>8, <1>10, SameState
  DEF Inv, RefundedStaysRefundable, Refundable, Proposed
<1>16. UncastIsWhole'
  BY <1>7, <1>10 DEF Inv, UncastIsWhole
<1>17. PaidWithinBid'
  BY <1>1, <1>2, <1>3, <1>4, <1>6, <1>7, <1>8, <1>10
  DEF Inv, UncastIsWhole, PaidWithinBid, Owed, TypeOK, Bid
<1>18. QED
  BY <1>11, <1>12, <1>13, <1>14, <1>15, <1>16, <1>17 DEF Inv
-----------------------------------------------------------------------------
\* What is refundable stays so as long as the proposal keeps its dates and its
\* outcome, is not brought back to life, and blocks only go by.
LEMMA RefundableLasts ==
  ASSUME TypeOK, NEW p \in Props, bids' = bids, block' \in Nat, block <= block',
         UNCHANGED <<proposals[p].startBlock, proposals[p].endBlock,
                     proposals[p].passed>>,
         proposals[p].vetoed => proposals'[p].vetoed,
         proposals[p].canceled => proposals'[p].canceled,
         proposals[p].queue = "lapsed" /\ ~proposals[p].executed =>
           proposals'[p].queue = "lapsed" /\ ~proposals'[p].executed,
         Refundable(p, bids[p].executed)
  PROVE  Refundable(p, bids[p].executed)'
<1>1. /\ block \in Nat
      /\ proposals[p].startBlock \in Nat /\ proposals[p].endBlock \in Nat
  BY DEF TypeOK, DAOTypeOK, Proposal, Blocks
<1>2. \/ proposals[p].vetoed \/ proposals[p].canceled
      \/ /\ ~(block <= proposals[p].startBlock)
         /\ ~(block <= proposals[p].endBlock)
         /\ \/ /\ proposals[p].passed /\ ~proposals[p].executed
               /\ proposals[p].queue = "lapsed"
            \/ ~bids[p].executed
  BY RefundableMeans
<1>3. \/ proposals'[p].vetoed \/ proposals'[p].canceled
      \/ /\ ~(block' <= proposals'[p].startBlock)
         /\ ~(block' <= proposals'[p].endBlock)
         /\ \/ /\ proposals'[p].passed /\ ~proposals'[p].executed
               /\ proposals'[p].queue = "lapsed"
            \/ ~bids'[p].executed
  BY <1>1, <1>2
<1>4. QED
  BY <1>3 DEF Refundable, State

\* A step around the pool keeps its invariant if it keeps the wallet's locks,
\* the receipts of the votes that were cast, and what is refundable.
LEMMA AroundPool ==
  ASSUME Inv, UNCHANGED <<poolVars, historyVars>>,
         block' \in Blocks, DAOTypeOK', BaseTypeOK', ConfigTypeOK',
         LockedModuleEnabled', LockCoversBid',
         \A p \in Proposed :
           /\ p \in Proposed'
           /\ bids[p].executed /\ proposals[p].hasVoted =>
                /\ proposals'[p].hasVoted
                /\ proposals'[p].support = proposals[p].support
           /\ Refundable(p, bids[p].executed) => Refundable(p, bids[p].executed)'
  PROVE  Inv'
<1>1. TypeOK
  BY DEF Inv
<1>2. UNCHANGED <<bids, withdrawals, balance, bidBlock, paid, net, unfunded>>
  BY DEF poolVars, historyVars
<1>3. TypeOK'
  <2>1. paused' \in BOOLEAN
    BY <1>1 DEF TypeOK, poolVars
  <2>2. QED
    BY <1>1, <1>2, <2>1 DEF TypeOK
<1>4. CastIsProposed'
  BY <1>2 DEF Inv, CastIsProposed
<1>5. VoteMatchesBid'
  BY <1>2 DEF Inv, CastIsProposed, VoteMatchesBid
<1>6. RefundedStaysRefundable'
  BY <1>2 DEF Inv, RefundedStaysRefundable
<1>7. UncastIsWhole' /\ PaidWithinBid'
  BY <1>2 DEF Inv, UncastIsWhole, PaidWithinBid, Owed
<1>8. QED
  BY <1>3, <1>4, <1>5, <1>6, <1>7 DEF Inv

\* A new block: locks and votes end, refundable bids stay so.
LEMMA MineBlockInv == Inv /\ MineBlock => Inv'
<1> SUFFICES ASSUME Inv, MineBlock PROVE Inv'
  OBVIOUS
<1>1. TypeOK
  BY DEF Inv
<1>2. /\ block \in Nat /\ block' \in Blocks /\ block' = block + 1
      /\ UNCHANGED <<proposalCount, proposals, enabled, lock,
                     maxLockDurationBlocks, cfg, bids>>
      /\ UNCHANGED <<poolVars, historyVars>>
  BY <1>1, MaxBlockAssumption
  DEF TypeOK, Blocks, MineBlock, Mine, daoVars, walletVars, poolVars
<1>3. DAOTypeOK' /\ BaseTypeOK' /\ ConfigTypeOK'
  BY <1>1, <1>2 DEF TypeOK, DAOTypeOK, BaseTypeOK, ConfigTypeOK
<1>4. LockedModuleEnabled' /\ LockCoversBid'
  BY <1>1, <1>2, ConfigAssumption
  DEF Inv, TypeOK, BaseTypeOK, Bid, Blocks, LockedModuleEnabled, LockCoversBid
<1>5. ASSUME NEW p \in Proposed, Refundable(p, bids[p].executed)
      PROVE  Refundable(p, bids[p].executed)'
  <2>1. p \in Props
    BY <1>1, DAOAssumption DEF TypeOK, DAOTypeOK, Proposed, Props
  <2>2. QED
    BY <1>1, <1>2, <1>5, <2>1, RefundableLasts
<1>6. QED
  BY <1>2, <1>3, <1>4, <1>5, AroundPool DEF Proposed

\* The wallet's owner: no lock is changed, and no locked module disabled.
LEMMA OwnerStepInv == Inv /\ OwnerStep => Inv'
<1> SUFFICES ASSUME Inv, OwnerStep PROVE Inv'
  OBVIOUS
<1>1. TypeOK
  BY DEF Inv
<1>2. /\ UNCHANGED <<block, proposalCount, proposals, cfg, bids>>
      /\ UNCHANGED <<poolVars, historyVars>>
  BY DEF OwnerStep, daoVars, poolVars
<1>3. lock' = lock /\ BaseTypeOK' /\ LockedModuleEnabled'
  <2> USE <1>1, <1>2, BaseAssumption
      DEF Inv, TypeOK, Blocks, BaseTypeOK, LockedModuleEnabled
  <2>1. ASSUME NEW m \in Switchable, NEW enable \in BOOLEAN, SetModule(m, enable)
        PROVE  lock' = lock /\ BaseTypeOK' /\ LockedModuleEnabled'
    BY <2>1 DEF SetModule
  <2>2. ASSUME NEW n \in LockDurations, SetMaxLockDurationBlocks(n)
        PROVE  lock' = lock /\ BaseTypeOK' /\ LockedModuleEnabled'
    BY <2>2 DEF SetMaxLockDurationBlocks
  <2>3. QED
    BY <2>1, <2>2 DEF OwnerStep, BaseOwnerNext
<1>4. LockCoversBid'
  BY <1>1, <1>2, <1>3, ConfigAssumption
  DEF Inv, TypeOK, BaseTypeOK, Bid, Blocks, LockedModuleEnabled, LockCoversBid
<1>5. ASSUME NEW p \in Proposed, Refundable(p, bids[p].executed)
      PROVE  Refundable(p, bids[p].executed)'
  BY <1>2, <1>5 DEF Refundable, State
<1>6. block' \in Blocks /\ DAOTypeOK' /\ ConfigTypeOK'
  BY <1>1, <1>2 DEF TypeOK, DAOTypeOK, ConfigTypeOK
<1>7. QED
  BY <1>2, <1>3, <1>4, <1>5, <1>6, AroundPool DEF Proposed

\* The pool's owner: the numbers of the configuration stay numbers.
LEMMA ConfigStepInv == Inv /\ ConfigStep => Inv'
<1> SUFFICES ASSUME Inv, ConfigStep PROVE Inv'
  OBVIOUS
<1>1. TypeOK
  BY DEF Inv
<1>2. /\ UNCHANGED <<block, proposalCount, proposals, enabled, lock,
                     maxLockDurationBlocks, bids>>
      /\ UNCHANGED <<poolVars, historyVars>>
  BY DEF ConfigStep, daoVars, walletVars, poolVars
<1>3. ConfigTypeOK'
  <2>1. cfg \in ConfigType /\ ConfigInputs \subseteq ConfigType
    BY <1>1, ConfigAssumption DEF TypeOK, ConfigTypeOK
  <2>2. \A c \in ConfigInputs : Defaulted(c) \in ConfigType
    BY <2>1 DEF Defaulted, ConfigType
  <2>3. \A f \in {"tip", "maxProverVersion", "useStartBlockFromPropId", "feeBPS",
                  "reservePrice", "castWindow", "timeBuffer",
                  "auctionCloseBlocks", "migrationPropId"} :
          Offered(f) \subseteq Nat
    BY <2>1 DEF Offered, ConfigType
  <2>4. ASSUME NEW n \in Nat, NEW k \in Nat,
               \/ SetTipAndRefund(n) \/ SetMaxProverVersion(n)
               \/ SetUseStartBlockFromPropId(n) \/ SetFee(n)
               \/ SetReservePrice(n) \/ SetCastWindow(n)
               \/ SetAuctionSettings(n, k) \/ SetMigrationPropId(n)
        PROVE  cfg' \in ConfigType
    BY <2>1, <2>4
    DEF ConfigType, SetTipAndRefund, SetMaxProverVersion,
        SetUseStartBlockFromPropId, SetFee, SetReservePrice, SetCastWindow,
        SetAuctionSettings, SetMigrationPropId
  <2>5. ASSUME NEW c \in ConfigInputs, SetConfig(c) PROVE cfg' \in ConfigType
    BY <2>2, <2>5 DEF SetConfig
  <2>6. QED
    BY <2>3, <2>4, <2>5 DEF ConfigStep, ConfigNext, ConfigTypeOK
<1>4. block' \in Blocks /\ DAOTypeOK' /\ BaseTypeOK'
  BY <1>1, <1>2 DEF TypeOK, DAOTypeOK, BaseTypeOK
<1>5. LockedModuleEnabled' /\ LockCoversBid'
  BY <1>2 DEF Inv, LockedModuleEnabled, LockCoversBid
<1>6. ASSUME NEW p \in Proposed, Refundable(p, bids[p].executed)
      PROVE  Refundable(p, bids[p].executed)'
  BY <1>2, <1>6 DEF Refundable, State
<1>7. QED
  BY <1>2, <1>3, <1>4, <1>5, <1>6, AroundPool DEF Proposed

\* A step that changes one proposal keeps the invariant if it keeps the dates,
\* the outcome and the receipt, and leaves a dead proposal dead.
LEMMA OneProposal ==
  ASSUME Inv, NEW p \in Proposed, NEW q \in Proposal, SetProposal(p, q),
         UNCHANGED <<block, walletVars, cfg, poolVars, historyVars>>,
         /\ q.startBlock = proposals[p].startBlock
         /\ q.endBlock = proposals[p].endBlock,
         q.passed = proposals[p].passed,
         proposals[p].vetoed => q.vetoed,
         proposals[p].canceled => q.canceled,
         proposals[p].queue = "lapsed" /\ ~proposals[p].executed =>
           q.queue = "lapsed" /\ ~q.executed,
         proposals[p].hasVoted => q.hasVoted /\ q.support = proposals[p].support
  PROVE  Inv'
<1>1. TypeOK
  BY DEF Inv
<1>2. p \in Props /\ \A r \in Proposed : r \in Props
  BY <1>1, DAOAssumption DEF TypeOK, DAOTypeOK, Proposed, Props
<1>3. /\ UNCHANGED <<block, enabled, lock, maxLockDurationBlocks, cfg, bids,
                     proposalCount>>
      /\ UNCHANGED <<poolVars, historyVars>>
  BY DEF SetProposal, walletVars, poolVars
<1>4. /\ proposals'[p] = q
      /\ \A r \in Props : r # p => proposals'[r] = proposals[r]
      /\ proposals' \in [Props -> Proposal]
  BY <1>1, <1>2 DEF TypeOK, DAOTypeOK, SetProposal
<1>5. block' \in Blocks /\ DAOTypeOK' /\ BaseTypeOK' /\ ConfigTypeOK'
  BY <1>1, <1>3, <1>4 DEF TypeOK, DAOTypeOK, BaseTypeOK, ConfigTypeOK
<1>6. LockedModuleEnabled' /\ LockCoversBid'
  BY <1>3 DEF Inv, LockedModuleEnabled, LockCoversBid
<1>7. ASSUME NEW r \in Proposed, Refundable(r, bids[r].executed)
      PROVE  Refundable(r, bids[r].executed)'
  <2>1. CASE r = p
    <3>1. block \in Nat /\ block' \in Nat /\ block <= block'
      BY <1>1, <1>3 DEF TypeOK, Blocks
    <3>2. QED
      BY <1>1, <1>2, <1>3, <1>4, <1>7, <2>1, <3>1, RefundableLasts
  <2>2. CASE r # p
    BY <1>2, <1>3, <1>4, <1>7, <2>2 DEF Refundable, State
  <2>3. QED
    BY <2>1, <2>2
<1>8. ASSUME NEW r \in Proposed
      PROVE  /\ r \in Proposed'
             /\ bids[r].executed /\ proposals[r].hasVoted =>
                  /\ proposals'[r].hasVoted
                  /\ proposals'[r].support = proposals[r].support
  BY <1>2, <1>3, <1>4 DEF Proposed
<1>9. QED
  BY <1>3, <1>5, <1>6, <1>7, <1>8, AroundPool

\* A new proposal: nothing was bid or cast on it.
LEMMA ProposeInv ==
  ASSUME Inv, NEW passed \in BOOLEAN, DAOStep(Propose(passed))
  PROVE  Inv'
<1> DEFINE n == proposalCount + 1
           end == block + VotingDelay + VotingPeriod
           q == [NoProposal EXCEPT !.creationBlock = block,
                                   !.startBlock = block + VotingDelay,
                                   !.endBlock = end,
                                   !.passed = passed]
<1>1. TypeOK
  BY DEF Inv
<1>2. /\ proposalCount < MaxProposals /\ end < MaxBlock
      /\ proposalCount' = n /\ proposals' = [proposals EXCEPT ![n] = q]
      /\ UNCHANGED <<block, enabled, lock, maxLockDurationBlocks, cfg, bids>>
      /\ UNCHANGED <<poolVars, historyVars>>
  BY DEF DAOStep, Propose, walletVars, poolVars
<1>3. /\ block \in Nat /\ block + VotingDelay \in Blocks /\ end \in Blocks
      /\ block \in Blocks
  BY <1>1, <1>2, DAOAssumption, MaxBlockAssumption DEF TypeOK, Blocks
<1>4. q \in Proposal
  <2>1. NoProposal \in Proposal
    BY MaxBlockAssumption DEF NoProposal, Proposal, Blocks, Supports
  <2> HIDE DEF end
  <2> DEFINE start == block + VotingDelay
  <2> HIDE DEF start
  <2>2. [NoProposal EXCEPT !.creationBlock = block, !.startBlock = start,
                           !.endBlock = end, !.passed = passed] \in Proposal
    BY <1>3, <2>1, Zenon DEF Proposal, start
  <2>3. QED
    BY <2>2 DEF start
<1>5. n \in Props /\ \A r \in Proposed : r \in Props /\ r # n /\ r \in 1..n
  BY <1>1, <1>2, DAOAssumption DEF TypeOK, DAOTypeOK, Proposed, Props
<1> HIDE DEF q, end
<1>6. /\ proposals' \in [Props -> Proposal] /\ proposalCount' \in 0..MaxProposals
      /\ \A r \in Proposed : proposals'[r] = proposals[r] /\ r \in Proposed'
  BY <1>1, <1>2, <1>4, <1>5, DAOAssumption DEF TypeOK, DAOTypeOK, Proposed
<1>7. block' \in Blocks /\ DAOTypeOK' /\ BaseTypeOK' /\ ConfigTypeOK'
  BY <1>1, <1>2, <1>6 DEF TypeOK, DAOTypeOK, BaseTypeOK, ConfigTypeOK
<1>8. LockedModuleEnabled' /\ LockCoversBid'
  BY <1>2 DEF Inv, LockedModuleEnabled, LockCoversBid
<1>9. ASSUME NEW r \in Proposed, Refundable(r, bids[r].executed)
      PROVE  Refundable(r, bids[r].executed)'
  BY <1>2, <1>6, <1>9 DEF Refundable, State
<1>10. QED
  BY <1>2, <1>6, <1>7, <1>8, <1>9, AroundPool

\* What becomes of a proposal: cancellation and veto are for ever, and queue,
\* execution and expiry start from states in which no cast bid is refundable.
LEMMA DAOProgressInv ==
  ASSUME Inv, NEW p \in Proposed,
         DAOStep(Cancel(p) \/ Veto(p) \/ Queue(p) \/ Execute(p) \/ Lapse(p))
  PROVE  Inv'
<1>1. proposals[p] \in Proposal
  BY DAOAssumption DEF Inv, TypeOK, DAOTypeOK, Proposed, Props
<1>2. UNCHANGED <<block, walletVars, cfg, poolVars, historyVars>>
  BY DEF DAOStep
<1>3. CASE Cancel(p)
  <2> DEFINE q == [proposals[p] EXCEPT !.canceled = TRUE]
  <2>1. SetProposal(p, q)
    BY <1>3 DEF Cancel
  <2>2. q \in Proposal
    BY <1>1 DEF Proposal
  <2>3. QED
    BY <1>1, <1>2, <2>1, <2>2, OneProposal DEF Proposal
<1>4. CASE Veto(p)
  <2> DEFINE q == [proposals[p] EXCEPT !.vetoed = TRUE]
  <2>1. SetProposal(p, q)
    BY <1>4 DEF Veto
  <2>2. q \in Proposal
    BY <1>1 DEF Proposal
  <2>3. QED
    BY <1>1, <1>2, <2>1, <2>2, OneProposal DEF Proposal
<1>5. CASE Queue(p)
  <2> DEFINE q == [proposals[p] EXCEPT !.queue = "queued"]
  <2>1. SetProposal(p, q) /\ proposals[p].queue # "lapsed"
    BY <1>5 DEF Queue, State
  <2>2. q \in Proposal
    BY <1>1 DEF Proposal
  <2>3. QED
    BY <1>1, <1>2, <2>1, <2>2, OneProposal DEF Proposal
<1>6. CASE Execute(p)
  <2> DEFINE q == [proposals[p] EXCEPT !.executed = TRUE]
  <2>1. SetProposal(p, q) /\ proposals[p].queue # "lapsed"
    BY <1>6 DEF Execute, State
  <2>2. q \in Proposal
    BY <1>1 DEF Proposal
  <2>3. QED
    BY <1>1, <1>2, <2>1, <2>2, OneProposal DEF Proposal
<1>7. CASE Lapse(p)
  <2> DEFINE q == [proposals[p] EXCEPT !.queue = "lapsed"]
  <2>1. SetProposal(p, q) /\ proposals[p].queue # "lapsed"
    BY <1>7 DEF Lapse, State
  <2>2. q \in Proposal
    BY <1>1 DEF Proposal
  <2>3. QED
    BY <1>1, <1>2, <2>1, <2>2, OneProposal DEF Proposal
<1>8. QED
  BY <1>3, <1>4, <1>5, <1>6, <1>7 DEF DAOStep

\* Another module's vote changes no vote that was cast.
LEMMA RivalVoteInv ==
  ASSUME Inv, NEW m \in Modules, NEW p \in Proposed, NEW s \in RivalSupports,
         DAOStep(RivalVote(m, p, s))
  PROVE  Inv'
<1> DEFINE q == [proposals[p] EXCEPT !.hasVoted = TRUE, !.support = s]
<1>1. proposals[p] \in Proposal
  BY DAOAssumption DEF Inv, TypeOK, DAOTypeOK, Proposed, Props
<1>2. UNCHANGED <<block, walletVars, cfg, poolVars, historyVars>>
  BY DEF DAOStep
<1>3. SetProposal(p, q) /\ ~proposals[p].hasVoted
  BY DEF DAOStep, RivalVote, BaseVotes
<1>4. q \in Proposal
  BY <1>1, PoolAssumption DEF Proposal
<1>5. QED
  BY <1>1, <1>2, <1>3, <1>4, OneProposal DEF Proposal

\* Pausing touches no bid.
LEMMA PausedInv == ASSUME Inv, NEW on \in BOOLEAN, SetPaused(on) PROVE Inv'
<1>1. TypeOK
  BY DEF Inv
<1>2. /\ UNCHANGED <<block, proposalCount, proposals, enabled, lock, cfg,
                     maxLockDurationBlocks, bids, withdrawals, balance,
                     bidBlock, paid, net, unfunded>>
      /\ paused' = on
  BY DEF SetPaused, otherVars, daoVars, walletVars, historyVars
<1>3. TypeOK'
  <2>1. paused' \in BOOLEAN
    BY <1>2
  <2>2. QED
    BY <1>1, <1>2, <2>1 DEF TypeOK, DAOTypeOK, BaseTypeOK, ConfigTypeOK
<1>4. QED
  BY <1>2, <1>3
  DEF Inv, LockedModuleEnabled, LockCoversBid, CastIsProposed, VoteMatchesBid,
      RefundedStaysRefundable, UncastIsWhole, PaidWithinBid, Owed, Proposed,
      Refundable, State
-----------------------------------------------------------------------------
\* The running total of a sequence of natural numbers consists of such, and is
\* at each pass at least the number that was added last.
LEMMA RunningTotalIsNat ==
  ASSUME NEW share \in Seq(Nat)
  PROVE  /\ RunningTotal(share) \in [0..Len(share) -> Nat]
         /\ RunningTotal(share)[0] = 0
         /\ \A i \in 1..Len(share) :
              /\ share[i] <= RunningTotal(share)[i]
              /\ RunningTotal(share)[i] = RunningTotal(share)[i-1] + share[i]
<1> DEFINE n == Len(share)
           total == RunningTotal(share)
<1>1. n \in Nat /\ share \in [1..n -> Nat]
  BY LenProperties
<1>2. total = [i \in 0..n |-> IF i = 0 THEN 0 ELSE total[i-1] + share[i]]
  <2>1. \E f : f = [i \in 0..n |-> IF i = 0 THEN 0 ELSE f[i-1] + share[i]]
    BY <1>1, LoopDefined
  <2>2. QED
    BY <2>1 DEF RunningTotal
<1> HIDE DEF n, total
<1>3. /\ total \in [0..n -> Nat]
      /\ total[0] = 0
      /\ \A i \in 1..n : total[i] = total[i-1] + share[i]
  <2>1. total = [i \in 0..n |-> total[i]]
    BY <1>2
  <2>2. \A i \in 0..n : total[i] = IF i = 0 THEN 0 ELSE total[i-1] + share[i]
    BY <1>2
  <2>3. QED
    BY <1>1, <2>1, <2>2, TotalsOfLoop
<1>4. ASSUME NEW i \in 1..n PROVE share[i] <= total[i]
  <2>1. i - 1 \in 0..n /\ share[i] \in Nat
    BY <1>1
  <2>2. total[i-1] \in Nat /\ total[i] = total[i-1] + share[i]
    BY <1>3, <2>1
  <2>3. QED
    BY <2>1, <2>2
<1>5. QED
  BY <1>3, <1>4 DEF n, total

\* A batch is a sequence of proposals.
LEMMA BatchIsSeq ==
  ASSUME NEW pIds \in Batches
  PROVE  pIds \in Seq(Proposed)
<1>1. PICK m \in 0..MaxBatch : pIds \in [1..m -> Proposed]
  BY DEF Batches, SeqOf
<1>2. m \in Nat
  BY <1>1, PoolAssumption
<1>3. QED
  BY <1>1, <1>2, SeqDef

\* A share is a number.
LEMMA ShareIsNat ==
  ASSUME TypeOK, NEW o \in Owners, NEW p \in Props, bids[p].remainingVotes # 0
  PROVE  ProvenBalance(o, p) \in Nat /\ OwnerShare(o, p) \in Nat
<1>1. VoteSnapshotBlock(p) \in Blocks
  BY SnapshotVotes
<1>2. ProvenBalance(o, p) \in Nat
  BY <1>1, HoldingAssumption DEF ProvenBalance
<1>3. /\ bids[p].remainingAmount \in Nat
      /\ bids[p].remainingVotes \in Nat \ {0}
  BY DEF TypeOK, Bid
<1>4. ProvenBalance(o, p) * bids[p].remainingAmount \in Nat
  BY <1>2, <1>3, ProductIsNat
<1> DEFINE product == ProvenBalance(o, p) * bids[p].remainingAmount
<1>5. OwnerShare(o, p) = product \div bids[p].remainingVotes /\ product \in Nat
  BY <1>4 DEF OwnerShare
<1> HIDE DEF product
<1>6. QED
  BY <1>2, <1>3, <1>5, QuotientIsNat

\* One pass of withdraw's loop: the share it pays is within what it takes off
\* the bid, which is within what the bid holds (Nouns.sol:337-412).
LEMMA WithdrawTakes ==
  ASSUME Inv, NEW o \in Owners, NEW pIds \in Batches,
         NEW n \in ProverVersions, NEW funding \in ProverFunding,
         Withdraw(o, pIds, n, funding), NEW p \in Range(pIds)
  PROVE  /\ p \in Proposed /\ p \in Props /\ Withdrawable(o, p)
         /\ ProvenBalance(o, p) \in Nat /\ OwnerShare(o, p) \in Nat
         /\ ProvenBalance(o, p) <= bids[p].remainingVotes
         /\ paid'[p] = paid[p] + OwnerShare(o, p)
         /\ withdrawals'[p] = withdrawals[p] \cup {o}
         /\ \E taken \in Nat :
              /\ OwnerShare(o, p) <= taken /\ taken <= bids[p].remainingAmount
              /\ bids'[p] = WithdrawnBid(o, p, taken)
<1> DEFINE after == WithdrawAmount(o, pIds)
           share == [j \in DOMAIN pIds |-> OwnerShare(o, pIds[j])]
           i == CHOOSE j \in DOMAIN pIds : pIds[j] = p
<1>1. TypeOK
  BY DEF Inv
<1>2. /\ pIds \in Seq(Proposed) /\ Len(pIds) \in Nat
      /\ DOMAIN pIds = 1..Len(pIds) /\ pIds \in [1..Len(pIds) -> Proposed]
  BY BatchIsSeq, LenProperties
<1>3. \A q \in Proposed : q \in Props
  BY <1>1, DAOAssumption DEF TypeOK, DAOTypeOK, Proposed, Props
<1>4. i \in 1..Len(pIds) /\ pIds[i] = p
  BY <1>2 DEF Range
<1>5. p \in Proposed /\ p \in Props /\ bids[p] \in Bid
  BY <1>1, <1>2, <1>3, <1>4 DEF TypeOK
<1>6. \A j \in 1..Len(pIds) : Withdrawable(o, pIds[j])
  BY <1>2 DEF Withdraw
<1>7. \A j \in 1..Len(pIds) : share[j] \in Nat
  <2> SUFFICES ASSUME NEW j \in 1..Len(pIds) PROVE OwnerShare(o, pIds[j]) \in Nat
    BY <1>2
  <2>1. pIds[j] \in Props /\ bids[pIds[j]].remainingVotes # 0
    BY <1>2, <1>3, <1>6 DEF Withdrawable
  <2>2. QED
    BY <1>1, <2>1, ShareIsNat
<1>8. share \in Seq(Nat) /\ Len(share) = Len(pIds)
  BY <1>2, <1>7
<1>9. /\ after \in [0..Len(pIds) -> Nat]
      /\ share[i] <= after[i] /\ share[i] = OwnerShare(o, p)
  BY <1>2, <1>4, <1>8, RunningTotalIsNat DEF WithdrawAmount
<1>10. /\ ProvenBalance(o, p) <= bids[p].remainingVotes
       /\ after[i] <= bids[p].remainingAmount
  BY <1>2, <1>4 DEF Withdraw
<1>11. /\ bids'[p] = WithdrawnBid(o, p, after[i])
       /\ paid'[p] = paid[p] + OwnerShare(o, p)
       /\ withdrawals'[p] = withdrawals[p] \cup {o}
  BY <1>5 DEF Withdraw
<1> HIDE DEF i
<1>12. after[i] \in Nat /\ OwnerShare(o, p) \in Nat /\ OwnerShare(o, p) <= after[i]
  BY <1>2, <1>4, <1>7, <1>9
<1> HIDE DEF after, share
<1>13. Withdrawable(o, p)
  BY <1>4, <1>6
<1>14. ProvenBalance(o, p) \in Nat
  BY <1>1, <1>5, <1>13, ShareIsNat DEF Withdrawable
<1>15. QED
  BY <1>5, <1>10, <1>11, <1>12, <1>13, <1>14

\* What a pass leaves of its bid: all but the two amounts it lowers.
LEMMA WithdrawPass ==
  ASSUME Inv, NEW o \in Owners, NEW pIds \in Batches,
         NEW n \in ProverVersions, NEW funding \in ProverFunding,
         Withdraw(o, pIds, n, funding), NEW p \in Range(pIds)
  PROVE  /\ p \in Proposed /\ bids[p].executed /\ ~bids[p].refunded
         /\ \E paidOut \in Nat, taken \in Nat :
              /\ paidOut <= taken /\ taken <= bids[p].remainingAmount
              /\ paid'[p] = paid[p] + paidOut
              /\ bids'[p].remainingAmount = bids[p].remainingAmount - taken
         /\ bids'[p] \in Bid
         /\ bids'[p].amount = bids[p].amount
         /\ bids'[p].support = bids[p].support
         /\ bids'[p].bidder = bids[p].bidder
         /\ bids'[p].endBlock = bids[p].endBlock
         /\ bids'[p].executed = bids[p].executed
         /\ bids'[p].refunded = bids[p].refunded
<1> DEFINE paidOut == OwnerShare(o, p)
           proven == ProvenBalance(o, p)
<1>1. /\ p \in Proposed /\ p \in Props /\ Withdrawable(o, p)
      /\ proven \in Nat /\ paidOut \in Nat
      /\ proven <= bids[p].remainingVotes
      /\ paid'[p] = paid[p] + paidOut
  BY WithdrawTakes
<1>2. PICK taken \in Nat :
        /\ paidOut <= taken /\ taken <= bids[p].remainingAmount
        /\ bids'[p] = WithdrawnBid(o, p, taken)
  BY WithdrawTakes
<1>3. bids'[p] = [bids[p] EXCEPT !.remainingVotes = @ - proven,
                                !.remainingAmount = @ - taken]
  BY <1>2 DEF WithdrawnBid
<1> HIDE DEF paidOut, proven
<1>4. bids[p].executed /\ ~bids[p].refunded
  BY <1>1 DEF Withdrawable, Inv, RefundedStaysRefundable
<1>5. bids[p] \in Bid
  BY <1>1 DEF Inv, TypeOK
<1>6. /\ bids[p].remainingVotes - proven \in Nat
      /\ bids[p].remainingAmount - taken \in Nat
  BY <1>1, <1>2, <1>5 DEF Bid
<1>7. /\ bids'[p] \in Bid
      /\ bids'[p].remainingAmount = bids[p].remainingAmount - taken
      /\ bids'[p].amount = bids[p].amount
      /\ bids'[p].support = bids[p].support
      /\ bids'[p].bidder = bids[p].bidder
      /\ bids'[p].endBlock = bids[p].endBlock
      /\ bids'[p].executed = bids[p].executed
      /\ bids'[p].refunded = bids[p].refunded
  BY <1>3, <1>5, <1>6 DEF Bid
<1>8. QED
  BY <1>1, <1>2, <1>4, <1>7

\* A withdrawal keeps the invariant, batches included: from each bid at least
\* what is paid is taken, and never more than is there.
LEMMA WithdrawInv ==
  ASSUME Inv, NEW o \in Owners, NEW pIds \in Batches,
         NEW n \in ProverVersions, NEW funding \in ProverFunding,
         Withdraw(o, pIds, n, funding)
  PROVE  Inv'
<1> DEFINE total == WithdrawAmount(o, pIds)[Len(pIds)]
           fee == funding[1]
           value == funding[2]
<1>1. TypeOK
  BY DEF Inv
<1>2. /\ fee + total <= balance + value
      /\ balance' = balance + value - fee - total
      /\ UNCHANGED <<block, proposalCount, proposals, enabled, lock,
                     maxLockDurationBlocks, cfg, paused, bidBlock, net>>
  BY DEF Withdraw, otherVars, daoVars, walletVars
<1>3. \A p \in Props : p \notin Range(pIds) =>
        bids'[p] = bids[p] /\ paid'[p] = paid[p] /\ withdrawals'[p] = withdrawals[p]
  BY DEF Withdraw
<1>4. ASSUME NEW p \in Range(pIds)
      PROVE  /\ p \in Proposed /\ bids[p].executed /\ ~bids[p].refunded
             /\ \E paidOut \in Nat, taken \in Nat :
                  /\ paidOut <= taken /\ taken <= bids[p].remainingAmount
                  /\ paid'[p] = paid[p] + paidOut
                  /\ bids'[p].remainingAmount = bids[p].remainingAmount - taken
             /\ bids'[p] \in Bid
             /\ bids'[p].amount = bids[p].amount
             /\ bids'[p].support = bids[p].support
             /\ bids'[p].endBlock = bids[p].endBlock
             /\ bids'[p].executed = bids[p].executed
             /\ bids'[p].refunded = bids[p].refunded
  BY WithdrawPass
<1>5. bids' \in [Props -> Bid]
  <2>1. bids' = [p \in Props |-> bids'[p]]
    BY DEF Withdraw
  <2>2. \A p \in Props : bids'[p] \in Bid
    BY <1>1, <1>3, <1>4 DEF TypeOK
  <2>3. QED
    BY <2>1, <2>2
<1>6. paid' \in [Props -> Nat]
  <2>1. paid' = [p \in Props |-> paid'[p]]
    BY DEF Withdraw
  <2>2. ASSUME NEW p \in Props PROVE paid'[p] \in Nat
    <3>1. CASE p \in Range(pIds)
      <4>1. PICK paidOut \in Nat : paid'[p] = paid[p] + paidOut
        BY <1>4, <3>1
      <4>2. QED
        BY <1>1, <4>1 DEF TypeOK
    <3>2. CASE p \notin Range(pIds)
      BY <1>1, <1>3, <3>2 DEF TypeOK
    <3>3. QED
      BY <3>1, <3>2
  <2>3. QED
    BY <2>1, <2>2
<1>7. withdrawals' \in [Props -> SUBSET Owners]
  BY <1>1 DEF Withdraw, TypeOK
<1>8. balance' \in Nat
  <2>1. fee \in Nat /\ value \in Nat
    BY PoolAssumption
  <2>2. total \in Nat
    <3>1. /\ pIds \in Seq(Proposed) /\ Len(pIds) \in Nat
          /\ DOMAIN pIds = 1..Len(pIds) /\ pIds \in [1..Len(pIds) -> Proposed]
      BY BatchIsSeq, LenProperties
    <3>2. ASSUME NEW j \in 1..Len(pIds) PROVE OwnerShare(o, pIds[j]) \in Nat
      <4>1. Withdrawable(o, pIds[j])
        BY <3>1 DEF Withdraw
      <4>2. pIds[j] \in Props /\ bids[pIds[j]].remainingVotes # 0
        BY <1>1, <3>1, <4>1, DAOAssumption
        DEF Withdrawable, TypeOK, DAOTypeOK, Proposed, Props
      <4>3. QED
        BY <1>1, <4>2, ShareIsNat
    <3> DEFINE share == [j \in DOMAIN pIds |-> OwnerShare(o, pIds[j])]
    <3>3. share \in Seq(Nat) /\ Len(share) = Len(pIds)
      BY <3>1, <3>2
    <3> HIDE DEF share
    <3>4. RunningTotal(share) \in [0..Len(pIds) -> Nat]
      BY <3>3, RunningTotalIsNat
    <3>5. total = RunningTotal(share)[Len(pIds)]
      BY DEF WithdrawAmount, share
    <3> HIDE DEF total
    <3>6. QED
      BY <3>1, <3>4, <3>5
  <2> HIDE DEF total, fee, value
  <2>3. QED
    BY <1>1, <1>2, <2>1, <2>2 DEF TypeOK
<1>9. TypeOK'
  <2>1. paused' \in BOOLEAN
    BY <1>1, <1>2 DEF TypeOK
  <2>2. DAOTypeOK' /\ BaseTypeOK' /\ ConfigTypeOK'
    BY <1>1, <1>2 DEF TypeOK, DAOTypeOK, BaseTypeOK, ConfigTypeOK
  <2>3. block' \in Blocks /\ bidBlock' \in [Props -> Blocks] /\ net' \in [Bidders -> Int]
    BY <1>1, <1>2 DEF TypeOK
  <2>4. unfunded' \in Int
    <3>1. unfunded' = unfunded + funding[1] - funding[2]
      BY DEF Withdraw
    <3>2. funding[1] \in Nat /\ funding[2] \in Nat /\ unfunded \in Int
      BY <1>1, PoolAssumption DEF TypeOK
    <3>3. QED
      BY <3>1, <3>2
  <2>5. QED
    BY <1>5, <1>6, <1>7, <1>8, <2>1, <2>2, <2>3, <2>4 DEF TypeOK
<1>10. \A p \in Props :
         /\ bids'[p].amount = bids[p].amount
         /\ bids'[p].support = bids[p].support
         /\ bids'[p].endBlock = bids[p].endBlock
         /\ bids'[p].executed = bids[p].executed
         /\ bids'[p].refunded = bids[p].refunded
  BY <1>3, <1>4
<1>11. LockedModuleEnabled' /\ LockCoversBid'
  BY <1>2, <1>10 DEF Inv, LockedModuleEnabled, LockCoversBid
<1>12. CastIsProposed' /\ VoteMatchesBid'
  BY <1>2, <1>10 DEF Inv, CastIsProposed, VoteMatchesBid, Proposed
<1>13. RefundedStaysRefundable'
  BY <1>2, <1>10, SameState DEF Inv, RefundedStaysRefundable, Refundable, Proposed
<1>14. UncastIsWhole'
  BY <1>3, <1>4, <1>10 DEF Inv, UncastIsWhole
<1>15. PaidWithinBid'
  <2> SUFFICES ASSUME NEW p \in Props PROVE (paid[p] + Owed(p) <= bids[p].amount)'
    BY DEF PaidWithinBid
  <2>1. paid[p] + Owed(p) <= bids[p].amount
    BY DEF Inv, PaidWithinBid
  <2>2. CASE p \in Range(pIds)
    <3>1. ~bids[p].refunded /\ ~bids'[p].refunded
      BY <1>4, <2>2
    <3>2. PICK paidOut \in Nat, taken \in Nat :
            /\ paidOut <= taken /\ taken <= bids[p].remainingAmount
            /\ paid'[p] = paid[p] + paidOut
            /\ bids'[p].remainingAmount = bids[p].remainingAmount - taken
      BY <1>4, <2>2
    <3>3. /\ paid[p] \in Nat /\ bids[p].remainingAmount \in Nat
          /\ bids[p].amount \in Nat
      BY <1>1 DEF TypeOK, Bid
    <3>4. QED
      BY <1>10, <2>1, <3>1, <3>2, <3>3 DEF Owed
  <2>3. CASE p \notin Range(pIds)
    BY <1>3, <2>1, <2>3 DEF Owed
  <2>4. QED
    BY <2>2, <2>3
<1>16. QED
  BY <1>9, <1>11, <1>12, <1>13, <1>14, <1>15 DEF Inv
-----------------------------------------------------------------------------
\* Every step keeps the invariant.
LEMMA NextInv == Inv /\ [Next]_vars => Inv'
<1> SUFFICES ASSUME Inv, [Next]_vars PROVE Inv'
  OBVIOUS
<1>1. CASE PoolNext
  BY <1>1, PlaceBidInv, ClaimRefundInv, CastVoteInv, WithdrawInv, PausedInv
  DEF PoolNext, Pause, Unpause
<1>2. CASE EnvNext
  <2>1. CASE MineBlock
    BY <2>1, MineBlockInv
  <2>2. CASE DAOStep(DAONext)
    BY <2>2, ProposeInv, DAOProgressInv DEF DAOStep, DAONext
  <2>3. CASE \E m \in Modules \ {Pool}, p \in Proposed, s \in RivalSupports :
               DAOStep(RivalVote(m, p, s))
    BY <2>3, RivalVoteInv
  <2>4. CASE OwnerStep
    BY <2>4, OwnerStepInv
  <2>5. CASE ConfigStep
    BY <2>5, ConfigStepInv
  <2>6. QED
    BY <1>2, <2>1, <2>2, <2>3, <2>4, <2>5 DEF EnvNext
<1>3. CASE UNCHANGED vars
  <2>1. UNCHANGED <<block, proposalCount, proposals, enabled, lock,
                    maxLockDurationBlocks, cfg, bids, withdrawals, balance,
                    bidBlock, paid, net, unfunded>>
    BY <1>3 DEF vars, otherVars, daoVars, walletVars, poolVars, historyVars
  <2>2. TypeOK'
    <3>1. paused' \in BOOLEAN
      BY <1>3 DEF vars, poolVars, Inv, TypeOK
    <3>2. QED
      BY <2>1, <3>1 DEF Inv, TypeOK, DAOTypeOK, BaseTypeOK, ConfigTypeOK
  <2>3. QED
    BY <2>1, <2>2
    DEF Inv, LockedModuleEnabled, LockCoversBid, CastIsProposed, VoteMatchesBid,
        RefundedStaysRefundable, UncastIsWhole, PaidWithinBid, Owed, Proposed,
        Refundable, State
<1>4. QED
  BY <1>1, <1>2, <1>3 DEF Next

\* The invariant holds in every behaviour of the pool and its surroundings.
THEOREM InvHolds == Spec => []Inv
BY InitInv, NextInv, PTL DEF Spec

\* Every variable keeps its type: no amount, balance or vote count of the pool
\* is ever negative, so no subtraction that goes through has underflowed.
THEOREM TypeCorrect == Spec => []TypeOK
<1>1. Inv => TypeOK
  BY DEF Inv
<1>2. QED
  BY <1>1, InvHolds, PTL

\* What a bid pays out and still owes is never more than the bid (Nouns.sol:
\* 207, 265-285, 407-412), however calls, batches and configurations mix.
THEOREM NoBidOverpays == Spec => []PaidWithinBid
<1>1. Inv => PaidWithinBid
  BY DEF Inv
<1>2. QED
  BY <1>1, InvHolds, PTL

\* The wallet's owner cannot remove a pool that has a bid before its vote ends
\* (Nouns.sol:175, Base.sol:77).
THEOREM BidsKeepThePool == Spec => []LockCoversBid
<1>1. Inv => LockCoversBid
  BY DEF Inv
<1>2. QED
  BY <1>1, InvHolds, PTL

\* The vote the DAO recorded is the one the standing bid asked for
\* (Nouns.sol:128-141, 232-254).
THEOREM VoteIsTheBidders == Spec => []VoteMatchesBid
<1>1. Inv => VoteMatchesBid
  BY DEF Inv
<1>2. QED
  BY <1>1, InvHolds, PTL

\* A proposal that was bid on, cast or withdrawn in a step was not refunded.
LEMMA RefundedBidUntouched ==
  ASSUME Inv, Next, NEW p \in Props, bids[p].refunded
  PROVE  bids'[p] = bids[p] /\ withdrawals'[p] = withdrawals[p]
<1>1. /\ TypeOK /\ p \in Proposed /\ Refundable(p, bids[p].executed)
  BY DEF Inv, RefundedStaysRefundable
<1>2. ~Active(p)
  BY <1>1, RefundableNotActive
<1>3. CASE EnvNext \/ Pause \/ Unpause
  BY <1>3
  DEF EnvNext, MineBlock, DAOStep, OwnerStep, ConfigStep, Pause, Unpause,
      SetPaused, poolVars
<1>4. ASSUME NEW a \in Bidders, NEW q \in Proposed,
             NEW s \in SupportInputs, NEW v \in BidAmounts, PlaceBid(a, q, s, v)
      PROVE  bids'[p] = bids[p] /\ withdrawals'[p] = withdrawals[p]
  <2>1. p # q
    BY <1>2, <1>4 DEF PlaceBid, BidAllowed
  <2>2. QED
    BY <1>1, <1>4, <2>1 DEF PlaceBid, TypeOK
<1>5. ASSUME NEW a \in Bidders, NEW q \in Proposed, ClaimRefund(a, q)
      PROVE  bids'[p] = bids[p] /\ withdrawals'[p] = withdrawals[p]
  <2>1. p # q
    BY <1>5 DEF ClaimRefund, NotYetRefunded
  <2>2. QED
    BY <1>1, <1>5, <2>1 DEF ClaimRefund, TypeOK
<1>6. ASSUME NEW q \in Proposed, NEW gas \in GasRefunds, CastVote(q, gas)
      PROVE  bids'[p] = bids[p] /\ withdrawals'[p] = withdrawals[p]
  <2>1. p # q
    BY <1>2, <1>6 DEF CastVote, ExecuteVote, BaseVotes, Active
  <2>2. QED
    BY <1>1, <1>6, <2>1 DEF CastVote, TypeOK
<1>7. ASSUME NEW o \in Owners, NEW pIds \in Batches, NEW n \in ProverVersions,
             NEW funding \in ProverFunding, Withdraw(o, pIds, n, funding)
      PROVE  bids'[p] = bids[p] /\ withdrawals'[p] = withdrawals[p]
  <2>1. p \notin Range(pIds)
    BY <1>7, WithdrawPass
  <2>2. QED
    BY <1>7, <2>1 DEF Withdraw
<1>8. QED
  BY <1>3, <1>4, <1>5, <1>6, <1>7 DEF Next, PoolNext

\* A refund is the end of a bid (Nouns.sol:194-218): the DAO never brings the
\* proposal back to where it could be bid on, cast or withdrawn again.
THEOREM RefundsAreFinal == Spec => RefundIsFinal
<1>1. Inv /\ [Next]_vars =>
        [\A p \in Props : bids[p].refunded =>
           bids'[p] = bids[p] /\ withdrawals'[p] = withdrawals[p]]_vars
  BY RefundedBidUntouched
<1>2. QED
  BY <1>1, InvHolds, PTL DEF Spec, RefundIsFinal

\* Only the owner of the pool changes its configuration.
LEMMA OnlyConfigStepsConfigure ==
  ASSUME [Next]_vars
  PROVE  ConfigStep \/ cfg' = cfg
<1>1. CASE UNCHANGED vars
  BY <1>1 DEF vars, otherVars
<1>2. CASE PoolNext
  <2>1. \A a, p, s, v : PlaceBid(a, p, s, v) \/ ClaimRefund(a, p) => cfg' = cfg
    BY DEF PlaceBid, ClaimRefund, otherVars
  <2>2. \A p, gas : CastVote(p, gas) => cfg' = cfg
    BY DEF CastVote
  <2>3. \A o, pIds, n, funding : Withdraw(o, pIds, n, funding) => cfg' = cfg
    BY DEF Withdraw, otherVars
  <2>4. Pause \/ Unpause => cfg' = cfg
    BY DEF Pause, Unpause, SetPaused, otherVars
  <2>5. QED
    BY <1>2, <2>1, <2>2, <2>3, <2>4, Zenon DEF PoolNext
<1>3. CASE EnvNext
  BY <1>3 DEF EnvNext, MineBlock, DAOStep, OwnerStep
<1>4. QED
  BY <1>1, <1>2, <1>3 DEF Next

\* Between a bid and the end of the vote, while the lock runs, the fee never
\* rises (ModuleConfig.sol:86-107, 158-168).
THEOREM FeesNeverRise == Spec => FeeNeverRaisedUnderLock
<1>1. Inv /\ [Next]_vars =>
        [HasActiveLock(Pool) => cfg'.feeBPS <= cfg.feeBPS]_<<cfg, block, walletVars>>
  <2> SUFFICES ASSUME Inv, [Next]_vars, HasActiveLock(Pool)
               PROVE  cfg'.feeBPS <= cfg.feeBPS
    OBVIOUS
  <2>1. cfg \in ConfigType /\ cfg.feeBPS \in Nat
    BY DEF Inv, TypeOK, ConfigTypeOK, ConfigType
  <2>2. CASE cfg' = cfg
    BY <2>1, <2>2
  <2>3. CASE ConfigStep
    <3>1. ASSUME NEW c \in ConfigInputs, SetConfig(c) PROVE FALSE
      BY <3>1 DEF SetConfig, IsNotLocked
    <3>2. ASSUME NEW bps \in Offered("feeBPS"), SetFee(bps)
          PROVE  cfg'.feeBPS <= cfg.feeBPS
      <4>1. bps \in Nat /\ bps < cfg.feeBPS
        BY <3>2, ConfigAssumption DEF SetFee, Offered, ConfigType
      <4>2. cfg'.feeBPS = bps
        BY <2>1, <3>2 DEF SetFee, ConfigType
      <4>3. QED
        BY <2>1, <4>1, <4>2
    <3>3. ASSUME NEW n,
                 \/ SetTipAndRefund(n) \/ SetMaxProverVersion(n)
                 \/ SetUseStartBlockFromPropId(n) \/ SetReservePrice(n)
                 \/ SetCastWindow(n) \/ SetMigrationPropId(n)
          PROVE  cfg'.feeBPS <= cfg.feeBPS
      BY <2>1, <3>3
      DEF ConfigType, SetTipAndRefund, SetMaxProverVersion,
          SetUseStartBlockFromPropId, SetReservePrice, SetCastWindow,
          SetMigrationPropId
    <3>4. ASSUME NEW n, NEW k, SetAuctionSettings(n, k)
          PROVE  cfg'.feeBPS <= cfg.feeBPS
      BY <2>1, <3>4 DEF ConfigType, SetAuctionSettings
    <3>5. QED
      BY <2>3, <3>1, <3>2, <3>3, <3>4 DEF ConfigStep, ConfigNext
  <2>4. QED
    BY <2>2, <2>3, OnlyConfigStepsConfigure
<1>2. QED
  BY <1>1, InvHolds, PTL DEF Spec, FeeNeverRaisedUnderLock
====
