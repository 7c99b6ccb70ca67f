---- MODULE NounsPool ----
(***************************************************************************)
(* The governance pool (nouns/Nouns.sol): it auctions the votes delegated  *)
(* to the base wallet, casts the winner's vote, and lets the delegators    *)
(* withdraw the proceeds or the bidder take a refund.                      *)
(*                                                                         *)
(* A transaction that reverts changes nothing: an action is enabled exactly*)
(* when the call it models goes through.                                   *)
(***************************************************************************)
EXTENDS NounsDAO, NounsToken, PoolConfig, SequencesExt

CONSTANTS
    Bidders,        \* accounts that bid
    NoBidder,       \* address(0)
    MaxInt,         \* type(uint256).max
    BidAmounts,     \* bound: values sent with a bid
    SupportInputs,  \* support values bids ask for
    GasRefunds,     \* gasPrice * gasUsed after the caps of Motivator.sol
    ProverVersions, \* versions of the provers the reliquary approves
    ProverFunding,  \* <<fee, value>>: a batch's total _fee, its msg.value
    MaxBatch,       \* bound: proposals in one withdrawal
    RivalSupports   \* bound: support values other modules vote with

ASSUME PoolAssumption ==
    /\ IsFiniteSet(Bidders)
    /\ NoBidder \notin Bidders
    /\ MaxInt \in Nat
    /\ BidAmounts \subseteq Nat
    /\ SupportInputs \subseteq Nat
    /\ GasRefunds \subseteq Nat
    /\ ProverVersions \subseteq Nat
    /\ ProverFunding \subseteq Nat \X Nat
    /\ MaxBatch \in Nat
    /\ RivalSupports \subseteq Supports

VARIABLES
    bids,           \* bids[p], struct Bid
    withdrawals,    \* withdrawals[p]: the owners that have withdrawn
    balance,        \* the pool's ETH
    paused

poolVars == <<bids, withdrawals, balance, paused>>

(***************************************************************************)
(* History the properties speak about and no action reads.                 *)
(***************************************************************************)
VARIABLES
    bidBlock,       \* bidBlock[p]: when the standing bid was placed
    paid,           \* paid[p]: ETH paid out of the standing bid
    net,            \* net[a]: what bidder a put in, less what a got back
    unfunded        \* what provers were paid, less what callers sent along

historyVars == <<bidBlock, paid, net, unfunded>>
otherVars == <<block, daoVars, walletVars, cfg>>
vars == <<otherVars, poolVars, historyVars>>

Bid ==
    [amount : Nat, remainingAmount : Nat, remainingVotes : Nat,
     creationBlock : Blocks, startBlock : Blocks, endBlock : Blocks,
     auctionEndBlock : Blocks, support : Supports,
     bidder : Bidders \cup {NoBidder}, executed : BOOLEAN, refunded : BOOLEAN]

EmptyBid ==
    [amount |-> 0, remainingAmount |-> 0, remainingVotes |-> 0,
     creationBlock |-> 0, startBlock |-> 0, endBlock |-> 0,
     auctionEndBlock |-> 0, support |-> 0, bidder |-> NoBidder,
     executed |-> FALSE, refunded |-> FALSE]

TypeOK ==
    /\ block \in Blocks
    /\ DAOTypeOK /\ BaseTypeOK /\ ConfigTypeOK
    /\ bids \in [Props -> Bid]
    /\ withdrawals \in [Props -> SUBSET Owners]
    /\ balance \in Nat
    /\ paused \in BOOLEAN
    /\ bidBlock \in [Props -> Blocks]
    /\ paid \in [Props -> Nat]
    /\ net \in [Bidders -> Int]
    /\ unfunded \in Int

Init ==
    /\ ChainInit /\ DAOInit /\ BaseInit(Modules) /\ ConfigInit
    /\ bids = [p \in Props |-> EmptyBid]
    /\ withdrawals = [p \in Props |-> {}]
    /\ balance = 0
    /\ paused = FALSE
    /\ bidBlock = [p \in Props |-> 0]
    /\ paid = [p \in Props |-> 0]
    /\ net = [a \in Bidders |-> 0]
    /\ unfunded = 0
-----------------------------------------------------------------------------
(***************************************************************************)
(* The views and helpers the handlers call.                                *)
(*                                                                         *)
(* A definition marked `Fault' is wrong on purpose.  It is what a plausible*)
(* slip would make of the definition after it, which never uses it; putting*)
(* it in that definition's place must break a property.                    *)
(***************************************************************************)
MinBidAmount(p) ==
    IF bids[p].amount = 0
    THEN cfg.reservePrice
    ELSE bids[p].amount
           + (bids[p].amount * cfg.minBidIncrementPercentage) \div 100

BpsToUint(bps, number) == (number * bps) \div 10000

Active(p) == State(p) = "Active"

Completed(p) == State(p) \in {"Defeated", "Executed"}

\* Fault: a bid is refundable whenever its vote was not cast.
RefundableWhileActive(p, voteCast) ==
    State(p) \in {"Canceled", "Vetoed", "Expired"} \/ ~voteCast

\* Fault: only a proposal that died is refundable.
RefundableIfDead(p, voteCast) ==
    State(p) \in {"Canceled", "Vetoed", "Expired"}

Refundable(p, voteCast) ==
    \/ State(p) \in {"Canceled", "Vetoed", "Expired"}
    \/ State(p) \notin {"Pending", "Active"} /\ ~voteCast

VoteSnapshotBlock(p) ==
    IF cfg.useStartBlockFromPropId # 0 /\ p >= cfg.useStartBlockFromPropId
    THEN bids[p].startBlock
    ELSE bids[p].creationBlock

\* _gasRefundWithTipAndCap; gas is gasPrice * gasUsed, caps applied.
GasRefundWithTipAndCap(gas, cap) == Min({cap, gas + cfg.tip, balance})

\* Fault: every bid starts from the configured default.
AuctionEndFromConfig(p) == proposals[p].endBlock - cfg.auctionCloseBlocks

\* When the auction of p ends before this bid extends it: the configured
\* default if this is the first one.
AuctionEnd(p) ==
    IF bids[p].auctionEndBlock = 0
    THEN proposals[p].endBlock - cfg.auctionCloseBlocks
    ELSE bids[p].auctionEndBlock

\* A bid within timeBuffer of the end extends the auction up to the cast window.
ExtendedAuctionEnd(p) ==
    IF AuctionEnd(p) - block < cfg.timeBuffer
    THEN Min({block + cfg.timeBuffer, proposals[p].endBlock - cfg.castWindow})
    ELSE AuctionEnd(p)

\* What the pool still owes on account of proposal p.
Owed(p) == IF bids[p].refunded THEN 0 ELSE bids[p].remainingAmount
-----------------------------------------------------------------------------
\* Fault: any support value is accepted.
AnySupport(support) == TRUE

SupportAllowed(support) == support <= 2

\* Fault: the lock ends with the vote instead of after it.
LockUpToEnd(p) == proposals[p].endBlock - block

\* The lock a bid requests: through the last block of voting.
LockBlocks(p) == (proposals[p].endBlock + 1) - block

\* Fault: a bid at the reserve price is not given back.
LastBidAboveReserve(p) ==
    IF bids[p].amount > cfg.reservePrice THEN bids[p].amount ELSE 0

\* What the outbid bidder gets back; nothing when there was none.
LastBidRefund(p) == bids[p].amount

BidAllowed(p, support, value) ==
    /\ p >= cfg.migrationPropId
    /\ SupportAllowed(support)
    /\ value >= cfg.reservePrice
    /\ value < MaxInt \div 10000
    /\ Active(p)
    /\ ~bids[p].executed
    /\ value >= MinBidAmount(p)
    /\ ~(paused /\ bids[p].amount = 0)
    /\ ~(block > bids[p].auctionEndBlock /\ bids[p].amount >= cfg.reservePrice)
    /\ block <= AuctionEnd(p)           \* or BidAuctionEnded, or underflow
    /\ ExtendedAuctionEnd(p) >= 0       \* or underflow
    /\ LastBidRefund(p) <= balance + value

PlaceBid(a, p, support, value) ==
    /\ BidAllowed(p, support, value)
    /\ RequestLock(Pool, LockBlocks(p))
    /\ bids' = [bids EXCEPT ![p] =
                  [@ EXCEPT !.amount = value,
                            !.remainingAmount = value,
                            !.bidder = a,
                            !.support = support,
                            !.creationBlock = proposals[p].creationBlock,
                            !.startBlock = proposals[p].startBlock,
                            !.endBlock = proposals[p].endBlock,
                            !.auctionEndBlock = ExtendedAuctionEnd(p)]]
    /\ balance' = balance + value - LastBidRefund(p)
    /\ bidBlock' = [bidBlock EXCEPT ![p] = block]
    /\ net' = [x \in Bidders |->
                 net[x] + (IF x = a THEN value ELSE 0)
                        - (IF x = bids[p].bidder THEN LastBidRefund(p) ELSE 0)]
    /\ UNCHANGED <<block, daoVars, cfg, withdrawals, paused, paid, unfunded>>

\* Fault: a second claim is not noticed.
AlwaysClaimable(p) == TRUE

NotYetRefunded(p) == ~bids[p].refunded

ClaimRefund(a, p) ==
    /\ a = bids[p].bidder
    /\ NotYetRefunded(p)
    /\ Refundable(p, bids[p].executed)
    /\ bids[p].remainingAmount <= balance
    /\ bids' = [bids EXCEPT ![p].refunded = TRUE]
    /\ balance' = balance - bids[p].remainingAmount
    /\ paid' = [paid EXCEPT ![p] = @ + bids[p].remainingAmount]
    /\ net' = [net EXCEPT ![a] = @ - bids[p].remainingAmount]
    /\ UNCHANGED <<otherVars, withdrawals, paused, bidBlock, unfunded>>

\* Fault: the last block of the auction already counts.
CastFromAuctionEnd(p) == block >= bids[p].auctionEndBlock

InCastWindow(p) == block > bids[p].auctionEndBlock

\* Fault: nobody looks whether the DAO took the vote.
ExecuteUnchecked(p, support) ==
    /\ OnlyEnabled(Pool)
    /\ IF State(p) = "Active" /\ ~proposals[p].hasVoted
       THEN BaseVotes(p, support)
       ELSE UNCHANGED daoVars

\* Base.execute reverts for a disabled pool and whenever the DAO reverts.
ExecuteVote(p, support) == OnlyEnabled(Pool) /\ BaseVotes(p, support)

\* Fault: the fee is paid out and not deducted.
CastWithoutFee(b, votes, fee, refund) ==
    [b EXCEPT !.executed = TRUE, !.remainingVotes = votes,
              !.remainingAmount = @ - refund]

\* Fault: the refund and tip are paid out and not deducted.
CastWithoutRefund(b, votes, fee, refund) ==
    [b EXCEPT !.executed = TRUE, !.remainingVotes = votes,
              !.remainingAmount = @ - fee]

\* The bid b once its vote is cast.
CastBid(b, votes, fee, refund) ==
    [b EXCEPT !.executed = TRUE, !.remainingVotes = votes,
              !.remainingAmount = @ - fee - refund]

CastVote(p, gas) ==
    LET votes  == PriorVotes(VoteSnapshotBlock(p))
        fee    == BpsToUint(cfg.feeBPS, bids[p].amount)
        refund == GasRefundWithTipAndCap(gas, bids[p].remainingAmount - fee)
    IN /\ bids[p].amount # 0
       /\ InCastWindow(p)
       /\ ~bids[p].executed
       /\ VoteSnapshotBlock(p) < block
       /\ votes # 0
       /\ ExecuteVote(p, bids[p].support)
       /\ cfg.feeBPS <= 10000
       /\ fee <= bids[p].remainingAmount
       /\ fee + refund <= balance
       /\ bids' = [bids EXCEPT ![p] = CastBid(@, votes, fee, refund)]
       /\ balance' = balance - fee - refund
       /\ paid' = [paid EXCEPT ![p] = @ + fee + refund]
       /\ UNCHANGED <<block, walletVars, cfg, withdrawals, paused, bidBlock, net,
                      unfunded>>
-----------------------------------------------------------------------------
\* Nouns o can prove it had delegated to the base for p; 0 if none.
ProvenBalance(o, p) ==
    LET b == VoteSnapshotBlock(p)
    IN IF o \in Delegators(b) THEN Holding[b][o].balance ELSE 0

\* Fault: a share of what remains, but by all votes cast.
OwnerShareOfAllVotes(o, p) ==
    (ProvenBalance(o, p) * bids[p].remainingAmount)
      \div PriorVotes(VoteSnapshotBlock(p))

\* Fault: rounded up.
OwnerShareRoundedUp(o, p) ==
    (ProvenBalance(o, p) * bids[p].remainingAmount + bids[p].remainingVotes - 1)
      \div bids[p].remainingVotes

OwnerShare(o, p) ==
    (ProvenBalance(o, p) * bids[p].remainingAmount) \div bids[p].remainingVotes

\* Fault: a second withdrawal is not noticed.
NeverWithdrawn(o, p) == TRUE

NotYetWithdrawn(o, p) == o \notin withdrawals[p]

\* The loop's checks on one proposal, but for its two subtractions.
Withdrawable(o, p) ==
    /\ bids[p].amount # 0
    /\ ~Refundable(p, bids[p].executed)
    /\ bids[p].executed
    /\ NotYetWithdrawn(o, p)
    /\ Completed(p)
    /\ ProvenBalance(o, p) > 0
    /\ bids[p].remainingVotes # 0

\* The running total of a sequence of numbers, from 0 on.
RunningTotal(share) ==
    LET after[i \in 0..Len(share)] ==
          IF i = 0 THEN 0 ELSE after[i - 1] + share[i]
    IN after

\* withdrawAmount after each pass of the loop over pIds.
WithdrawAmount(o, pIds) ==
    RunningTotal([i \in DOMAIN pIds |-> OwnerShare(o, pIds[i])])

\* The bid on p after its pass.  The loop subtracts the amount accumulated so
\* far, not the share of p alone.
WithdrawnBid(o, p, accumulated) ==
    [bids[p] EXCEPT !.remainingVotes = @ - ProvenBalance(o, p),
                    !.remainingAmount = @ - accumulated]

Withdraw(o, pIds, version, funding) ==
    LET after == WithdrawAmount(o, pIds)
        total == after[Len(pIds)]
        fee   == funding[1]
        value == funding[2]
        PassOf(p) == CHOOSE i \in DOMAIN pIds : pIds[i] = p
    IN /\ cfg.maxProverVersion # 0 => version <= cfg.maxProverVersion
       /\ \A i \in DOMAIN pIds : Withdrawable(o, pIds[i])
       /\ \A i \in DOMAIN pIds :
            /\ ProvenBalance(o, pIds[i]) <= bids[pIds[i]].remainingVotes
            /\ after[i] <= bids[pIds[i]].remainingAmount
       /\ fee + total <= balance + value
       /\ bids' = [p \in Props |-> IF p \in Range(pIds)
                                   THEN WithdrawnBid(o, p, after[PassOf(p)])
                                   ELSE bids[p]]
       /\ withdrawals' = [p \in Props |-> IF p \in Range(pIds)
                                          THEN withdrawals[p] \cup {o}
                                          ELSE withdrawals[p]]
       /\ paid' = [p \in Props |-> IF p \in Range(pIds)
                                   THEN paid[p] + OwnerShare(o, p)
                                   ELSE paid[p]]
       /\ balance' = balance + value - fee - total
       /\ unfunded' = unfunded + fee - value
       /\ UNCHANGED <<otherVars, paused, bidBlock, net>>

\* A proposal named twice in a batch reverts it (WithdrawAlreadyClaimed).
Batches == {pIds \in SeqOf(Proposed, MaxBatch) : pIds # <<>> /\ IsInjective(pIds)}

SetPaused(on) ==
    /\ OnlyOwner
    /\ paused # on
    /\ paused' = on
    /\ UNCHANGED <<otherVars, historyVars, bids, withdrawals, balance>>

Pause == SetPaused(TRUE)
Unpause == SetPaused(FALSE)
-----------------------------------------------------------------------------
PoolNext ==
    \/ \E a \in Bidders, p \in Proposed :
         \/ \E s \in SupportInputs, v \in BidAmounts : PlaceBid(a, p, s, v)
         \/ ClaimRefund(a, p)
    \/ \E p \in Proposed, gas \in GasRefunds : CastVote(p, gas)
    \/ \E o \in Owners, pIds \in Batches, n \in ProverVersions,
          funding \in ProverFunding : Withdraw(o, pIds, n, funding)
    \/ Pause \/ Unpause

\* Another module of the wallet votes first: Base.execute asks only that the
\* caller is enabled.
RivalVote(m, p, s) ==
    /\ OnlyEnabled(m)
    /\ BaseVotes(p, s)

\* What happens around the pool, each step leaving the pool alone.
MineBlock == Mine /\ UNCHANGED <<daoVars, walletVars, cfg, poolVars, historyVars>>

DAOStep(A) == A /\ UNCHANGED <<block, walletVars, cfg, poolVars, historyVars>>

OwnerStep ==
    /\ BaseOwnerNext
    /\ UNCHANGED <<block, daoVars, cfg, poolVars, historyVars>>

ConfigStep ==
    /\ ConfigNext
    /\ UNCHANGED <<block, daoVars, walletVars, poolVars, historyVars>>

EnvNext ==
    \/ MineBlock
    \/ DAOStep(DAONext)
    \/ \E m \in Modules \ {Pool}, p \in Proposed, s \in RivalSupports :
         DAOStep(RivalVote(m, p, s))
    \/ OwnerStep
    \/ ConfigStep

Next == PoolNext \/ EnvNext

Spec == Init /\ [][Next]_vars
-----------------------------------------------------------------------------
(***************************************************************************)
(* Money.                                                                  *)
(***************************************************************************)
TotalOwed == SumFunction([p \in Props |-> Owed(p)])

\* What the pool owes - the refund of every live bid and what is left to
\* withdraw of every cast one - is there, but for what provers were paid beyond
\* what callers sent along: withdraw never compares the two (Nouns.sol:366-367).
\* Nothing else ever leaves the pool short (134-137, 179, 207, 278-285, 412-420
\* share one balance).
Solvent == TotalOwed <= balance + unfunded

\* As long as proceeds are withdrawn one proposal at a time, the pool holds what
\* it owes to the wei, but for what provers and callers of withdraw left or took.
ExactlyBacked == TotalOwed = balance + unfunded

\* What one bid pays out - fee, gas refund and tip, shares, refund - together
\* with what it still owes is never more than the bid, however calls
\* interleave: no bid is served from another one's ETH.
PaidWithinBid == \A p \in Props : paid[p] + Owed(p) <= bids[p].amount

\* What stands in the name of the bidder of p: the bid, less its refund.
Spent(p) == bids[p].amount - (IF bids[p].refunded THEN bids[p].remainingAmount ELSE 0)

\* A bidder is out of pocket exactly by the bids that stand in its name: being
\* outbid gives everything back (Nouns.sol:177-180), a refund all that the
\* cast did not spend (207).
BidderMadeWhole ==
    \A a \in Bidders :
      net[a] = SumFunctionOnSet([p \in Props |-> Spent(p)],
                                {p \in Props : bids[p].bidder = a})

\* The votes left to withdraw are those of the delegators who have not
\* withdrawn, counted at the block the vote was weighed at
\* (Nouns.sol:237-240 at the cast, 411 at each withdrawal).
VotesMatchClaims ==
    \A p \in Props : bids[p].executed =>
      bids[p].remainingVotes =
        DelegatedBy(Owners \ withdrawals[p], VoteSnapshotBlock(p))

\* Rounding strands nothing: the last delegator to withdraw empties the bid.
NothingStranded ==
    \A p \in Props :
      bids[p].executed /\ bids[p].remainingVotes = 0 => bids[p].remainingAmount = 0

\* A withdrawal never lowers what a Noun of the remaining delegators is worth:
\* proceeds are shared in proportion, whoever comes first (Nouns.sol:40-42).
SharePriceNeverFalls ==
    [][\A p \in Props :
         withdrawals'[p] # withdrawals[p] =>
           bids'[p].remainingAmount * bids[p].remainingVotes
             >= bids[p].remainingAmount * bids'[p].remainingVotes]_vars

\* A refund is the end of a bid: afterwards nothing is bid, cast or withdrawn
\* on the proposal.  It rests on the DAO never leaving the state that made the
\* bid refundable (Nouns.sol:195-218, 345-347).
RefundIsFinal ==
    [][\A p \in Props : bids[p].refunded =>
         bids'[p] = bids[p] /\ withdrawals'[p] = withdrawals[p]]_vars

\* No bid is refunded to the bidder once delegators have withdrawn from it.
NoRefundAfterWithdrawal ==
    \A p \in Props : bids[p].refunded => withdrawals[p] = {}

(***************************************************************************)
(* The auction and the vote.                                               *)
(***************************************************************************)
\* Until its proposal's last block of voting a bid keeps the pool enabled: the
\* wallet's owner cannot remove it before the vote is cast (Nouns.sol:172-175).
LockCoversBid ==
    \A p \in Props : bids[p].amount # 0 =>
      /\ lock[Pool] > bids[p].endBlock
      /\ block <= bids[p].endBlock => enabled[Pool]

\* The vote the DAO recorded for the base wallet is the one the standing bid
\* paid for; neither a later bid nor another module can change either.
VoteMatchesBid ==
    \A p \in Props : bids[p].executed =>
      proposals[p].hasVoted /\ proposals[p].support = bids[p].support

\* A vote is never cast in the block its bid was placed in: others get a block
\* in which to outbid it (Nouns.sol:227).
NoAtomicBidAndCast ==
    [][\A p \in Props :
         ~bids[p].executed /\ bids'[p].executed => block > bidBlock[p]]_vars

\* Extensions never eat into the cast window (Nouns.sol:167): between the
\* auction's end and the end of the vote castWindow blocks remain.
CastWindowKept ==
    \A p \in Props :
      bids[p].amount # 0 /\ block <= bids[p].endBlock =>
        bids[p].auctionEndBlock + cfg.castWindow <= bids[p].endBlock

\* Once known, the end of an auction only moves to a later block.
AuctionEndNeverEarlier ==
    [][\A p \in Props :
         bids[p].amount # 0 =>
           bids'[p].auctionEndBlock >= bids[p].auctionEndBlock]_vars

(***************************************************************************)
(* What makes the properties above inductive.                              *)
(***************************************************************************)
\* A bid that was refunded is refundable for ever.
RefundedStaysRefundable ==
    \A p \in Props : bids[p].refunded =>
      p \in Proposed /\ Refundable(p, bids[p].executed)

\* Before the cast and the refund nothing has left a bid.
UncastIsWhole ==
    \A p \in Props : ~bids[p].executed /\ ~bids[p].refunded =>
      paid[p] = 0 /\ bids[p].remainingAmount = bids[p].amount

\* A vote that was cast was cast on a proposal that was made.
CastIsProposed == \A p \in Props : bids[p].executed => p \in Proposed

Inv ==
    /\ TypeOK
    /\ LockedModuleEnabled /\ LockCoversBid
    /\ CastIsProposed /\ VoteMatchesBid
    /\ RefundedStaysRefundable /\ UncastIsWhole /\ PaidWithinBid

(***************************************************************************)
(* Progress.  Blocks are mined, a proposal that is queued is executed or   *)
(* lapses, and bidders and delegators collect what they can.               *)
(***************************************************************************)
Fairness ==
    /\ WF_vars(MineBlock)
    /\ WF_vars(DAOStep(\E p \in Proposed : Queue(p) \/ Execute(p) \/ Lapse(p)))
    /\ \A a \in Bidders, p \in Props : WF_vars(p \in Proposed /\ ClaimRefund(a, p))
    /\ \A o \in Owners, p \in Props :
         WF_vars(p \in Proposed /\ \E n \in ProverVersions, f \in ProverFunding :
                   Withdraw(o, <<p>>, n, f))

FairSpec == Spec /\ Fairness

\* No bid is stuck: it is refunded or its proceeds are withdrawn to the last
\* wei, whatever happens to the proposal and whether or not anybody casts,
\* unless provers leave the pool short of what it owes.
EveryBidSettles ==
    \A p \in Props :
      bids[p].amount # 0 ~> Owed(p) = 0 \/ balance < TotalOwed
====
