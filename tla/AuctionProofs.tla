---- MODULE AuctionProofs ----
(***************************************************************************)
(* The end of an auction, for every configuration history in which the     *)
(* owner leaves castWindow alone.  The hypothesis is needed: setCastWindow *)
(* compares nothing with auctionCloseBlocks (ModuleConfig.sol:178), so a   *)
(* bid may then set an auction to end before the block it comes in.        *)
(***************************************************************************)
EXTENDS NounsPoolProofs

WindowFixed(w) == \A c \in InitConfigs \cup ConfigInputs : c.castWindow = w

\* The settings leave room for the cast window.
SettingsFit(w) == cfg.castWindow = w /\ cfg.auctionCloseBlocks >= w

\* An auction that has begun ends no earlier than its standing bid was placed
\* and at least w blocks before the vote does.
AuctionTimely(w) ==
    \A p \in Props : bids[p].amount # 0 \/ bids[p].auctionEndBlock # 0 =>
      /\ p \in Proposed
      /\ bids[p].endBlock = proposals[p].endBlock
      /\ bidBlock[p] <= bids[p].auctionEndBlock
      /\ bids[p].auctionEndBlock + w <= bids[p].endBlock

WindowInv(w) == Inv /\ SettingsFit(w) /\ AuctionTimely(w)

\* What no step but a bid changes.
DatesKept ==
    /\ \A p \in Props :
         /\ bids'[p].amount = bids[p].amount
         /\ bids'[p].auctionEndBlock = bids[p].auctionEndBlock
         /\ bids'[p].endBlock = bids[p].endBlock
         /\ bidBlock'[p] = bidBlock[p]
    /\ \A p \in Proposed : p \in Proposed' /\ proposals'[p].endBlock = proposals[p].endBlock
-----------------------------------------------------------------------------
\* The validated configuration of init fits, and no auction has begun.
LEMMA InitWindow ==
  ASSUME NEW w \in Nat, WindowFixed(w), Init
  PROVE  WindowInv(w)
<1>1. SettingsFit(w)
  <2>1. PICK c \in InitConfigs : Valid(c) /\ cfg = Defaulted(c)
    BY DEF Init, ConfigInit
  <2>2. c \in ConfigType /\ c.castWindow = w /\ c.auctionCloseBlocks >= w
    BY <2>1, ConfigAssumption DEF WindowFixed, Valid
  <2>3. QED
    BY <2>1, <2>2 DEF Defaulted, ConfigType, SettingsFit
<1>2. AuctionTimely(w)
  BY DEF Init, EmptyBid, AuctionTimely
<1>3. QED
  BY <1>1, <1>2, InitInv DEF WindowInv

\* Every setter keeps the two windows in proportion, setCastWindow because it
\* is only called with the value there is.
LEMMA ConfigKeepsWindow ==
  ASSUME NEW w \in Nat, WindowFixed(w), TypeOK, SettingsFit(w), ConfigNext
  PROVE  SettingsFit(w)'
<1>1. /\ cfg \in ConfigType /\ cfg.castWindow = w /\ cfg.auctionCloseBlocks >= w
      /\ ConfigInputs \subseteq ConfigType
  BY ConfigAssumption DEF TypeOK, ConfigTypeOK, SettingsFit
<1>2. ASSUME NEW c \in ConfigInputs, SetConfig(c) PROVE SettingsFit(w)'
  <2>1. /\ c \in ConfigType /\ c.castWindow = w /\ c.auctionCloseBlocks >= w
        /\ cfg' = Defaulted(c)
    BY <1>1, <1>2 DEF SetConfig, Valid, WindowFixed
  <2>2. QED
    BY <2>1 DEF Defaulted, ConfigType, SettingsFit
<1>3. ASSUME NEW n,
             \/ SetTipAndRefund(n) \/ SetMaxProverVersion(n)
             \/ SetUseStartBlockFromPropId(n) \/ SetReservePrice(n)
             \/ SetFee(n) \/ SetMigrationPropId(n)
      PROVE  SettingsFit(w)'
  BY <1>1, <1>3
  DEF ConfigType, SetTipAndRefund, SetMaxProverVersion,
      SetUseStartBlockFromPropId, SetReservePrice, SetFee, SetMigrationPropId,
      SettingsFit
<1>4. ASSUME NEW n \in Offered("castWindow"), SetCastWindow(n)
      PROVE  SettingsFit(w)'
  <2>1. n = w
    BY DEF Offered, WindowFixed
  <2>2. QED
    BY <1>1, <1>4, <2>1 DEF SetCastWindow, ConfigType, SettingsFit
<1>5. ASSUME NEW n, NEW k, SetAuctionSettings(n, k) PROVE SettingsFit(w)'
  BY <1>1, <1>5 DEF SetAuctionSettings, ConfigType, SettingsFit
<1>6. QED
  BY <1>2, <1>3, <1>4, <1>5 DEF ConfigNext

\* Where a bid puts the end of its auction: not before the block it is placed
\* in, not before the end there was, and w blocks before the end of the vote.
LEMMA ExtensionBounds ==
  ASSUME NEW w \in Nat, WindowInv(w), NEW p \in Props, block <= AuctionEnd(p)
  PROVE  /\ block <= ExtendedAuctionEnd(p)
         /\ AuctionEnd(p) <= ExtendedAuctionEnd(p)
         /\ ExtendedAuctionEnd(p) + w <= proposals[p].endBlock
         /\ ExtendedAuctionEnd(p) \in Int /\ AuctionEnd(p) \in Int
<1> DEFINE late == block + cfg.timeBuffer
           cap == proposals[p].endBlock - cfg.castWindow
           least == Min({late, cap})
<1>1. /\ proposals[p].endBlock \in Nat /\ bids[p].auctionEndBlock \in Nat
      /\ block \in Nat /\ cfg.timeBuffer \in Nat /\ cfg.auctionCloseBlocks \in Nat
      /\ cfg.castWindow = w /\ cfg.auctionCloseBlocks >= w
  BY DEF WindowInv, Inv, TypeOK, DAOTypeOK, ConfigTypeOK, ConfigType, Proposal,
         Bid, Blocks, SettingsFit
<1>2. AuctionEnd(p) \in Int /\ AuctionEnd(p) + w <= proposals[p].endBlock
  BY <1>1 DEF WindowInv, AuctionTimely, AuctionEnd
<1>3. late \in Int /\ cap \in Int
  BY <1>1
<1> HIDE DEF late, cap
<1>4. Min({late, cap}) \in {late, cap} /\ Min({late, cap}) <= cap
  BY <1>3, MinOfTwo
<1>5. least \in {late, cap} /\ least <= cap
  BY <1>4
<1>6. ExtendedAuctionEnd(p) =
        IF AuctionEnd(p) - block < cfg.timeBuffer THEN least ELSE AuctionEnd(p)
  BY DEF ExtendedAuctionEnd, late, cap
<1> HIDE DEF least
<1>7. QED
  BY <1>1, <1>2, <1>3, <1>5, <1>6 DEF late, cap

\* A bid begins or extends the auction of its own proposal alone.
LEMMA BidKeepsWindow ==
  ASSUME NEW w \in Nat, WindowInv(w),
         NEW a \in Bidders, NEW p \in Proposed,
         NEW s \in SupportInputs, NEW v \in BidAmounts, PlaceBid(a, p, s, v)
  PROVE  AuctionTimely(w)' /\ SettingsFit(w)'
<1>1. /\ TypeOK /\ p \in Props /\ bids[p] \in Bid /\ bids \in [Props -> Bid]
      /\ bidBlock \in [Props -> Blocks]
  BY DAOAssumption DEF WindowInv, Inv, TypeOK, DAOTypeOK, Proposed, Props
<1>2. /\ block <= ExtendedAuctionEnd(p)
      /\ ExtendedAuctionEnd(p) + w <= proposals[p].endBlock
  BY <1>1, ExtensionBounds DEF PlaceBid, BidAllowed
<1>3. UNCHANGED <<block, proposals, proposalCount, cfg>>
  BY DEF PlaceBid, daoVars
<1>4. /\ bids'[p].auctionEndBlock = ExtendedAuctionEnd(p)
      /\ bids'[p].endBlock = proposals[p].endBlock
      /\ bidBlock'[p] = block
      /\ \A q \in Props : q # p => bids'[q] = bids[q] /\ bidBlock'[q] = bidBlock[q]
  BY <1>1 DEF PlaceBid, Bid
<1>5. AuctionTimely(w)'
  BY <1>2, <1>3, <1>4 DEF WindowInv, AuctionTimely, Proposed
<1>6. SettingsFit(w)'
  BY <1>3 DEF WindowInv, SettingsFit
<1>7. QED
  BY <1>5, <1>6

\* No other step touches an auction.
LEMMA CallsKeepDates ==
  ASSUME Inv, PoolNext,
         ~ \E a \in Bidders, p \in Proposed, s \in SupportInputs, v \in BidAmounts :
             PlaceBid(a, p, s, v)
  PROVE  DatesKept
<1>1. bids \in [Props -> Bid]
  BY DEF Inv, TypeOK
<1>2. ASSUME NEW a \in Bidders, NEW p \in Proposed, ClaimRefund(a, p)
      PROVE  DatesKept
  <2>1. UNCHANGED <<proposals, proposalCount, bidBlock>>
    BY <1>2 DEF ClaimRefund, otherVars, daoVars
  <2>2. \A q \in Props : /\ bids'[q].amount = bids[q].amount
                         /\ bids'[q].auctionEndBlock = bids[q].auctionEndBlock
                         /\ bids'[q].endBlock = bids[q].endBlock
    BY <1>1, <1>2 DEF ClaimRefund, Bid
  <2>3. QED
    BY <2>1, <2>2 DEF DatesKept, Proposed
<1>3. ASSUME NEW p \in Proposed, NEW gas \in GasRefunds, CastVote(p, gas)
      PROVE  DatesKept
  <2>1. bidBlock' = bidBlock /\ proposalCount' = proposalCount
    BY <1>3 DEF CastVote, ExecuteVote, BaseVotes, SetProposal
  <2> DEFINE fee == BpsToUint(cfg.feeBPS, bids[p].amount)
             new == CastBid(bids[p], PriorVotes(VoteSnapshotBlock(p)), fee,
                      GasRefundWithTipAndCap(gas, bids[p].remainingAmount - fee))
  <2>2. bids' = [bids EXCEPT ![p] = new]
    BY <1>3 DEF CastVote
  <2>3. \A q \in Props : /\ bids'[q].amount = bids[q].amount
                         /\ bids'[q].auctionEndBlock = bids[q].auctionEndBlock
                         /\ bids'[q].endBlock = bids[q].endBlock
    BY <1>1, <2>2 DEF CastBid, Bid
  <2>4. \A q \in Proposed : proposals'[q].endBlock = proposals[q].endBlock
    <3>1. /\ proposals' = [proposals EXCEPT ![p] =
                [proposals[p] EXCEPT !.hasVoted = TRUE, !.support = bids[p].support]]
          /\ proposals \in [Props -> Proposal] /\ \A q \in Proposed : q \in Props
      BY <1>3, DAOAssumption
      DEF CastVote, ExecuteVote, BaseVotes, SetProposal, Inv, TypeOK, DAOTypeOK,
          Proposed, Props
    <3>2. QED
      BY <3>1 DEF Proposal
  <2>5. QED
    BY <2>1, <2>3, <2>4 DEF DatesKept, Proposed
<1>4. ASSUME NEW o \in Owners, NEW pIds \in Batches, NEW n \in ProverVersions,
             NEW funding \in ProverFunding, Withdraw(o, pIds, n, funding)
      PROVE  DatesKept
  <2>1. UNCHANGED <<proposals, proposalCount, bidBlock>>
    BY <1>4 DEF Withdraw, otherVars, daoVars
  <2>2. ASSUME NEW q \in Props
        PROVE  bids'[q] = bids[q] \/ \E taken : bids'[q] = WithdrawnBid(o, q, taken)
    BY <1>4 DEF Withdraw
  <2>3. \A q \in Props : /\ bids'[q].amount = bids[q].amount
                         /\ bids'[q].auctionEndBlock = bids[q].auctionEndBlock
                         /\ bids'[q].endBlock = bids[q].endBlock
    BY <1>1, <2>2 DEF WithdrawnBid, Bid
  <2>4. QED
    BY <2>1, <2>3 DEF DatesKept, Proposed
<1>5. CASE Pause \/ Unpause
  BY <1>5
  DEF Pause, Unpause, SetPaused, otherVars, daoVars, historyVars, DatesKept,
      Proposed
<1>6. QED
  BY <1>2, <1>3, <1>4, <1>5 DEF PoolNext

\* Nor does anything around the pool: a proposal keeps its dates.
LEMMA SurroundingsKeepDates ==
  ASSUME Inv, EnvNext
  PROVE  DatesKept
<1>1. UNCHANGED <<bids, bidBlock>>
  BY DEF EnvNext, MineBlock, DAOStep, OwnerStep, ConfigStep, poolVars, historyVars
<1>2. /\ proposals \in [Props -> Proposal] /\ proposalCount \in Nat
      /\ \A p \in Proposed : p \in Props /\ p # proposalCount + 1 /\ p \in 1..(proposalCount + 1)
  BY DAOAssumption DEF Inv, TypeOK, DAOTypeOK, Proposed, Props
<1>3. CASE UNCHANGED daoVars
  BY <1>1, <1>3 DEF daoVars, DatesKept, Proposed
<1>4. ASSUME NEW passed \in BOOLEAN, Propose(passed) PROVE DatesKept
  BY <1>1, <1>2, <1>4 DEF Propose, DatesKept, Proposed
<1>5. ASSUME NEW p \in Proposed,
             Cancel(p) \/ Veto(p) \/ Queue(p) \/ Execute(p) \/ Lapse(p)
      PROVE  DatesKept
  <2>1. PICK q \in Proposal : SetProposal(p, q) /\ q.endBlock = proposals[p].endBlock
    <3>1. proposals[p] \in Proposal
      BY <1>2
    <3>2. /\ [proposals[p] EXCEPT !.canceled = TRUE] \in Proposal
          /\ [proposals[p] EXCEPT !.vetoed = TRUE] \in Proposal
          /\ [proposals[p] EXCEPT !.queue = "queued"] \in Proposal
          /\ [proposals[p] EXCEPT !.executed = TRUE] \in Proposal
          /\ [proposals[p] EXCEPT !.queue = "lapsed"] \in Proposal
      BY <3>1 DEF Proposal
    <3>3. QED
      BY <1>5, <3>1, <3>2 DEF Cancel, Veto, Queue, Execute, Lapse, Proposal
  <2>2. QED
    BY <1>1, <1>2, <2>1 DEF SetProposal, DatesKept, Proposed
<1>6. ASSUME NEW m \in Modules, NEW p \in Proposed, NEW s \in RivalSupports,
             RivalVote(m, p, s)
      PROVE  DatesKept
  <2> DEFINE q == [proposals[p] EXCEPT !.hasVoted = TRUE, !.support = s]
  <2>1. SetProposal(p, q) /\ q.endBlock = proposals[p].endBlock
    BY <1>2, <1>6 DEF RivalVote, BaseVotes, Proposal
  <2>2. QED
    BY <1>1, <1>2, <2>1 DEF SetProposal, DatesKept, Proposed
<1>7. QED
  BY <1>3, <1>4, <1>5, <1>6
  DEF EnvNext, MineBlock, DAOStep, DAONext, OwnerStep, ConfigStep

\* Together: a step that is not a bid keeps every date.
LEMMA OtherStepsKeepDates ==
  ASSUME Inv, [Next]_vars,
         ~ \E a \in Bidders, p \in Proposed, s \in SupportInputs, v \in BidAmounts :
             PlaceBid(a, p, s, v)
  PROVE  DatesKept
<1>1. CASE UNCHANGED vars
  BY <1>1 DEF vars, otherVars, daoVars, poolVars, historyVars, DatesKept, Proposed
<1>2. QED
  BY <1>1, CallsKeepDates, SurroundingsKeepDates DEF Next

\* Every step keeps the auctions timely.
LEMMA NextWindow ==
  ASSUME NEW w \in Nat, WindowFixed(w), WindowInv(w), [Next]_vars
  PROVE  WindowInv(w)'
<1>1. Inv'
  BY NextInv DEF WindowInv
<1>2. SettingsFit(w)'
  <2>1. CASE ConfigStep
    BY <2>1, ConfigKeepsWindow DEF ConfigStep, WindowInv, Inv
  <2>2. CASE cfg' = cfg
    BY <2>2 DEF WindowInv, SettingsFit
  <2>3. QED
    BY <2>1, <2>2, OnlyConfigStepsConfigure DEF WindowInv
<1>3. AuctionTimely(w)'
  <2>1. CASE \E a \in Bidders, p \in Proposed, s \in SupportInputs, v \in BidAmounts :
               PlaceBid(a, p, s, v)
    BY <2>1, BidKeepsWindow
  <2>2. CASE DatesKept
    BY <2>2 DEF DatesKept, WindowInv, AuctionTimely
  <2>3. QED
    BY <2>1, <2>2, OtherStepsKeepDates DEF WindowInv
<1>4. QED
  BY <1>1, <1>2, <1>3 DEF WindowInv

\* Auctions are timely in every behaviour whose cast window is fixed.
LEMMA WindowHolds ==
  ASSUME NEW w \in Nat, WindowFixed(w)
  PROVE  Spec => []WindowInv(w)
<1>1. Init => WindowInv(w)
  BY InitWindow
<1>2. WindowInv(w) /\ [Next]_vars => WindowInv(w)'
  BY NextWindow
<1>3. QED
  BY <1>1, <1>2, PTL DEF Spec
-----------------------------------------------------------------------------
\* Between the end of the auction and the end of the vote castWindow blocks
\* remain to cast in, however often bids extend the auction (Nouns.sol:157-170).
THEOREM TimeToCast ==
  ASSUME NEW w \in Nat, WindowFixed(w)
  PROVE  Spec => []CastWindowKept
<1>1. WindowInv(w) => CastWindowKept
  BY DEF WindowInv, SettingsFit, AuctionTimely, CastWindowKept
<1>2. QED
  BY <1>1, WindowHolds, PTL

\* A bid never moves the end of an auction to an earlier block (Nouns.sol:
\* 148-170): nobody shortens the time others have to outbid.
THEOREM AuctionsNeverShrink ==
  ASSUME NEW w \in Nat, WindowFixed(w)
  PROVE  Spec => AuctionEndNeverEarlier
<1>1. WindowInv(w) /\ [Next]_vars =>
        [\A p \in Props :
           bids[p].amount # 0 =>
             bids'[p].auctionEndBlock >= bids[p].auctionEndBlock]_vars
  <2> SUFFICES ASSUME WindowInv(w), [Next]_vars, NEW p \in Props, bids[p].amount # 0
               PROVE  bids'[p].auctionEndBlock >= bids[p].auctionEndBlock
    OBVIOUS
  <2>1. /\ bids \in [Props -> Bid] /\ bids[p].auctionEndBlock \in Nat
        /\ block \in Nat
    BY DEF WindowInv, Inv, TypeOK, Bid, Blocks
  <2>2. ASSUME NEW a \in Bidders, NEW q \in Proposed,
               NEW s \in SupportInputs, NEW v \in BidAmounts, PlaceBid(a, q, s, v)
        PROVE  bids'[p].auctionEndBlock >= bids[p].auctionEndBlock
    <3>1. CASE p = q
      <4>1. /\ AuctionEnd(p) <= ExtendedAuctionEnd(p) /\ block <= AuctionEnd(p)
            /\ ExtendedAuctionEnd(p) \in Int /\ AuctionEnd(p) \in Int
        BY <2>2, <3>1, ExtensionBounds DEF PlaceBid, BidAllowed
      <4>2. bids'[p].auctionEndBlock = ExtendedAuctionEnd(p)
        BY <2>1, <2>2, <3>1 DEF PlaceBid, Bid
      <4>3. bids[p].auctionEndBlock <= AuctionEnd(p)
        BY <2>1, <4>1 DEF AuctionEnd
      <4>4. QED
        BY <2>1, <4>1, <4>2, <4>3
    <3>2. CASE p # q
      BY <2>1, <2>2, <3>2 DEF PlaceBid
    <3>3. QED
      BY <3>1, <3>2
  <2>3. CASE DatesKept
    BY <2>1, <2>3 DEF DatesKept
  <2>4. QED
    BY <2>2, <2>3, OtherStepsKeepDates DEF WindowInv
<1>2. QED
  BY <1>1, WindowHolds, PTL DEF Spec, AuctionEndNeverEarlier

\* No vote is cast in the block its bid was placed in (Nouns.sol:227), so there
\* is always a block in which to outbid it.
THEOREM NoBidIsCastAtOnce ==
  ASSUME NEW w \in Nat, WindowFixed(w)
  PROVE  Spec => NoAtomicBidAndCast
<1>1. WindowInv(w) /\ [Next]_vars =>
        [\A p \in Props :
           ~bids[p].executed /\ bids'[p].executed => block > bidBlock[p]]_vars
  <2> SUFFICES ASSUME WindowInv(w), Next, NEW p \in Props,
                      ~bids[p].executed, bids'[p].executed
               PROVE  block > bidBlock[p]
    OBVIOUS
  <2>1. /\ bids \in [Props -> Bid] /\ bidBlock[p] \in Nat /\ block \in Nat
        /\ bids[p].auctionEndBlock \in Nat
    BY DEF WindowInv, Inv, TypeOK, Bid, Blocks
  <2>2. ASSUME NEW q \in Proposed, NEW gas \in GasRefunds, CastVote(q, gas)
        PROVE  block > bidBlock[p]
    <3>1. p = q
      BY <2>1, <2>2 DEF CastVote
    <3>2. bids[p].amount # 0 /\ block > bids[p].auctionEndBlock
      BY <2>2, <3>1 DEF CastVote, InCastWindow
    <3>3. bidBlock[p] <= bids[p].auctionEndBlock
      BY <3>2 DEF WindowInv, AuctionTimely
    <3>4. QED
      BY <2>1, <3>2, <3>3
  <2>3. ASSUME NEW a \in Bidders, NEW q \in Proposed, NEW s \in SupportInputs,
               NEW v \in BidAmounts, PlaceBid(a, q, s, v)
        PROVE  FALSE
    BY <2>1, <2>3 DEF PlaceBid, Bid
  <2>4. ASSUME NEW a \in Bidders, NEW q \in Proposed, ClaimRefund(a, q)
        PROVE  FALSE
    BY <2>1, <2>4 DEF ClaimRefund, Bid
  <2>5. ASSUME NEW o \in Owners, NEW pIds \in Batches, NEW n \in ProverVersions,
               NEW funding \in ProverFunding, Withdraw(o, pIds, n, funding)
        PROVE  FALSE
    <3>1. bids'[p] = bids[p] \/ \E taken : bids'[p] = WithdrawnBid(o, p, taken)
      BY <2>5 DEF Withdraw
    <3>2. QED
      BY <2>1, <3>1 DEF WithdrawnBid, Bid
  <2>6. CASE EnvNext \/ Pause \/ Unpause
    BY <2>6
    DEF EnvNext, MineBlock, DAOStep, OwnerStep, ConfigStep, poolVars, Pause,
        Unpause, SetPaused
  <2>7. QED
    BY <2>2, <2>3, <2>4, <2>5, <2>6 DEF Next, PoolNext
<1>2. QED
  BY <1>1, WindowHolds, PTL DEF Spec, NoAtomicBidAndCast
====
