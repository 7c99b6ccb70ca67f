# Federation in TLA+

Federation lets holders of Nouns delegate their votes to a wallet contract. A
*governance pool* attached to that wallet auctions, per DAO proposal, how those
votes are cast; the winning bid is shared among the delegators. This directory
holds the models of that system, the TLC configurations that check them on small
instances, and the proofs that hold for every size.

Source paths are relative to `src/` of the repository; file names without a
directory are those of the table below.

## 1. Inventory

| Component | State | Operations that change it | Talks to |
|---|---|---|---|
| Base wallet, `src/wallet/Base.sol` | `_enabled`, `_lock`, `maxLockDurationBlocks` | `setModule`, `requestLock`, `releaseLock`, `setMaxLockDurationBlocks`, `execute` | called by modules; calls anything |
| Governance pool, `src/module/governance-pool/nouns/Nouns.sol` | `bids`, `withdrawals`, `paused`, its ETH | `bid`, `claimRefund`, `castVote`, `withdraw`, `pause`, `unpause` | base wallet (lock, vote), DAO (state), token (votes), provers and validator, ETH receivers |
| Pool configuration, `ModuleConfig.sol` | `_cfg` | `setConfig` and nine setters | base wallet (`hasActiveLock`) |
| Manager, `src/module/manager/Manager.sol` | none | `execute` | base wallet; the owner of a pool is the wallet, so owner calls are Manager → Base → pool |
| Motivator, `src/incentives/Motivator.sol` | none | computes refund and tip | pool |
| Fact validator, `src/proofs/FactValidator.sol` | none | checks a proof's account, slot and block | pool, relayer |
| Nouns DAO, `lib/nouns-monorepo` (external) | proposals, receipts | propose, cancel, veto, queue, execute, vote | |
| Nouns token, `ERC721Checkpointable.sol`, `ERC721.sol`, `NounsToken.sol` in `lib/nouns-monorepo` (external) | `_owners`, `_delegates`, `checkpoints`, `nonces` | `mint`, transfers, `burn`, `delegate`, `delegateBySig` | read by the pool (`getPriorVotes`) and by storage proofs |
| L2 governor, `src/module/l2-governance/nouns/NounsGovernor.sol`, `Governor.sol` | `proposals` (tallies), `receipts`, `settled`, config, its ETH | `vote` (which syncs the proposal), `settleVotes`, `setConfig`, `setMotivatorConfig`, `withdraw` | provers, zkSync messenger; its owner is an address on L1 |
| L1 relayer, `NounsRelayer.sol`, `Relayer.sol` | `relayed`, config, its ETH | `relayVotes`, `setConfig`, `setMotivatorConfig`, `withdraw`, and the calls it sends to the governor | zkSync mailbox, base wallet, DAO, token (supply) |
| Motivator of L2, `src/incentives/MotivatorV2.sol` | none | refunds and tips from the contract's ETH | governor, relayer |
| Factories | implementation addresses | `clone` | |

**Interaction.** The pool's storage, the wallet's locks and the DAO's receipts
are changed by one transaction each: `bid` overwrites the bid, extends the
wallet's lock and refunds the previous bidder; `castVote` marks the bid
executed, votes in the DAO through the wallet and pays fee, gas and tip. There
is no shared memory and no thread. Concurrency is the order in which bidders,
casters, delegators, the wallet's owner, the DAO's proposer and vetoer and other
wallet modules get their transactions into blocks, several in one block and in
any order.

**What is hard here**: one ETH balance backs every bid; bids, extensions and
casts race for the last blocks of an auction; three clocks (auction end, vote
end, lock end) meet in unsigned subtractions; amounts fixed at one call are
divided at a later one under configuration and DAO states that may have moved;
a batch of withdrawals updates several bids in one loop; the DAO may leave a
state the pool takes for final. On the L2 path no contract sees the other
chain: the governor is shown mined blocks of the caller's choice, messages to L1
arrive late, in any order and again, calls to L2 late or never. `PROJECT.json`
lists each at its line.

**What makes each part correct**

* *wallet*: a locked module is enabled; only the module itself shortens a lock.
* *pool, money*: it can pay what it owes; no bid is served from another's ETH;
  outbid or refunded bidders get everything back; shares are proportional and
  rounding strands nothing; a refund is final.
* *pool, vote*: the DAO's receipt shows the standing bid's support; no bid and
  cast in one block; a bid keeps the pool enabled to the end of the vote; the
  cast window stays; every bid is settled in the end.
* *configuration*: windows stay consistent, fees never rise under a lock.
* *L2*: each voter counts once; nothing is counted after the outcome was sent;
  what is relayed is what was voted; a duplicate, late or reordered message never
  casts a second or a stale vote.
* *token*: the votes reported for a mined block are what the delegates then
  represented, and they cover every Noun that may still move.

## 2. Modules

| Module | Models | Notes |
|---|---|---|
| `Chain` | `block.number` | blocks are mined between transactions |
| `NounsToken` | balances and delegates at each block, `getPriorVotes` | history is a constant: no call of the pool changes it, and history up to a block is fixed once the block is mined |
| `NounsDAO` | life of a proposal, the wallet's receipt | tallies are one choice `passed`, made at creation and read only after voting ends |
| `BaseWallet` | `Base.sol` | also a specification of its own, `BaseSpec`, with modules that lock and release as they like |
| `PoolConfig` | `ModuleConfig.sol` on top of `BaseWallet` | owner calls need an enabled manager |
| `NounsPool` | `Nouns.sol` composed with all of the above | the core |
| `BidEscrow` | the abstract promise about the money of one bid | offered, cast, paying out, given back; never more out than in |
| `PoolEscrow` | `NounsPool` as an implementation of `BidEscrow` | the mapping is `EscrowOf` |
| `NounsGovernor` | `NounsGovernor.sol`, `Governor.sol`, `MotivatorV2.sol` | `synced` is `proposals`; what the DAO and the members did on L1 is read through proofs |
| `NounsRelayer` | `NounsRelayer.sol`, `Relayer.sol` | a module of the wallet, `requests` is the mailbox to L2 |
| `Ballots` | the abstract promise of a federated vote | one ballot per proposal: counted while open, its outcome cast once |
| `L2Governance` | governor, relayer, wallet, DAO and both mailboxes composed | implements `Ballots` (`KeepsPromise`) |
| `Delegation` | the token's checkpoints and `getPriorVotes` | what `NounsToken` takes as given |
| `MCBaseWallet`, `MCNounsPool`, `MCL2Governance`, `MCDelegation` | instances for TLC | |
| `Arithmetic` | lemmas: products, quotients, minima; the accumulator of the loop in `withdraw`; sums over finite sets | |
| `BaseWalletProofs`, `NounsPoolProofs`, `AuctionProofs`, `PoolEscrowProofs`, `PoolMoneyProofs`, `L2GovernanceProofs`, `DelegationProofs` | theorems | each extends the one before it of the same component |

**Correspondence, pool.** `bids[p]` is `struct Bid` (`GovernancePool.sol:48-71`),
`withdrawals[p]` the set of owners with `withdrawals[p][owner]`, `balance`
`address(this).balance`, `cfg` the numbers of `_cfg`. Each external function is
one action: `PlaceBid` (`bid`), `ClaimRefund`, `CastVote`, `Withdraw`, `Pause`,
`Unpause`, the setters in `PoolConfig`. `ConfigNext` and `OwnerStep` are the
wallet owner's calls, `RivalVote` the vote of another enabled module through
`Base.execute`, `DAONext` what others do in the DAO, `MineBlock` time.

`withdraw` pays `_fee[i]` to a prover out of the pool's balance and never compares
it with `msg.value` (`Nouns.sol:366-367`). `Withdraw` takes both from
`ProverFunding`, in any relation, and `unfunded` sums up the differences.

A reverting call changes nothing, so an action is enabled exactly when the call
succeeds. Reverts include the arithmetic ones: Solidity 0.8 subtractions
underflow to a revert, so `b.auctionEndBlock - block.number` appears as the
guard `block <= AuctionEnd(p)`. Actions are atomic because transactions are;
re-entrance is no further behaviour of `claimRefund`, `castVote` and `bid`,
whose writes all precede the ETH transfers (forced ones: the receiver cannot
make them fail). In `withdraw` the external calls inside the loop go to the
DAO, the validator and an approved prover.

`bidBlock`, `paid`, `net` and `unfunded` are history: written by the actions,
read only by properties.

**Correspondence, L2.** `Vote` is `vote` with every proof it asks for: the log
if the key is not synced yet, a mined block, and one pair of facts per account.
`Fees` is `msg.value`, which is handed to each of the provers in turn
(`Forwarded`). `SettleVotes` sends a message, `Finalize` executes on L1 the batch
that holds it, `Relay` is `relayVotes`, which may be tried with any provable
message again and again. The owner's calls on the governor are put into
`requests` by the relayer; `Deliver` executes the next one or drops it, as a
call that runs out of gas does. `govTips` and `relTips` are history.

**Correspondence, token.** `Give` is `_beforeTokenTransfer` and the change of
owner behind it, shared by `Mint`, `Transfer` and `Burn`; `checkpoints[a]` is the
sequence of the `numCheckpoints[a]` checkpoints of `a`. `watched` is one block,
chosen at the start, and `past` what everybody held and had stored as delegate
when it ended: what storage proofs of that block show.

Definitions marked `Fault` stand before the definition they distort. Nothing
uses them; they record which slip each property is there to catch, and putting
one in its neighbour's place breaks that property (`PROJECT.json`, `mutants`).

**Assumptions of the models**

* ETH reaches the pool only through `bid` and `withdraw`.
* The base wallet owns no Nouns itself in the instances of the pool. When it
  does, `getPriorVotes` counts them and nobody can prove them:
  `UnclaimableIsBasesOwn` of `Delegation` says exactly how many votes that is, and
  that it is none otherwise.
* A valid proof shows the token's storage at the asked block, or for the L2
  governor at the mined block the caller chose.
* Provers of the L2 governor take what they are handed.
* zkSync delivers a message only if it was sent, and executes calls in the order
  they were requested.

## 3. Runs

| Run | Asks | Bounds and why they are enough |
|---|---|---|
| `wallet` | locks on their own | 2 modules, 5 blocks, requests 0..3 under maxima 1, 2, 3: shorter and longer, overlapping and refused requests all occur. Modules are symmetric |
| `auction` | one auction, two bidders | 8 blocks, a vote of 4 blocks; 4 values (below the reserve, the reserve, its increment exactly, more); the owner switches the pool and lowers the longest lock below what a bid needs; a rival votes; three initial configurations, one refused, one with `reservePrice = 0`. Bidders are symmetric: no constant tells them apart |
| `withdrawals` | two bids on one balance | 3 owners with 2, 1 and 1 Nouns; in block 1 the delegators are {o1, o3}, later {o1, o2}, so the snapshot of the first possible proposal differs from the others. Bid 11 with fee 20 %, tip 1, gas 0 or 2 leaves remainders that do not divide by 3. Callers send provers what they charge, 1 less or 1 more |
| `settles` | money of two bids at once: withdrawals that name both in either order, solvency, the refinement of `BidEscrow`, liveness | 2 proposals, 1-block auctions, 6 blocks: canceled, vetoed, defeated, expired, executed, uncast and rival-voted bids all end; with a batch of 2 the accumulated amount leaks from the first into the second; callers send provers what they charge or leave it to the pool |
| `ballots` | L2 end to end, the refinement of `Ballots`, liveness of casting | 1 proposal, 7 blocks of which 3 are of voting; 2 voters, 3 members with 2, 2 and 1 Nouns, one of whom changes delegates after block 2 and one who leaves a stranger for a voter then; proofs of 1 or 2 accounts in any order; a rival votes first, the relayer is switched off, the quorum goes to 100 % |
| `mixed_keys` | callers who name the wrong proposal | 2 proposals, every pair of key and log; 5 blocks, 1-block votes |
| `remote_owner` | calls that cross from L1, tips and balances | 1 voter, 2 calls on their way out of 4 kinds, one addressed elsewhere; one of them sets a cast window longer than the number of an early ballot's last block and as long as a late one's allows; ETH enough for one tip and less than everything; liveness of settling |
| `delegation` | the token | 2 accounts, 2 Nouns, 4 blocks, one signature that may expire: enough for four checkpoints of one account, two changes in a block, blocks without a checkpoint on either side of the search, and a base wallet that holds Nouns, delegated or not |
| `batch_share`, `late_cancel`, `wrong_key`, `counted_twice` | divergences | see section 5 |

Deadlock is checked everywhere: the pool's owner can always pause or unpause it,
the wallet's owner can always set the longest lock, and anybody can delegate
again.

The bounds are `MaxBlock`, `MaxProposals` (no proposal is made whose voting
would not end before `MaxBlock`), `BidAmounts`, `GasRefunds`, `MaxBatch`,
`LockDurations`, `LockRequests`, `ConfigInputs`, `Switchable`, `RivalSupports`, on
the L2 path `ProofBatches`, `Syncs`, `Fees`, `GasCosts`, `Quorums`, `Tips`, `Calls`,
`MaxRequests`, `RelayGas`, `Withdrawals`, `Results`, `Undone`, and for the token
`MaxNouns` and `Signatures`.
All interesting races are between one bid and at most one competitor for the
same proposal, or between two proposals over one balance; a third bidder or
proposal repeats one of these.

**Fairness** (`Fairness` in `NounsPool`). Blocks are mined. A proposal that
succeeded is queued, and a queued one is executed or its grace period passes
(`NounsDAOLogicV2.state`): anybody may queue and execute, and time does the
rest. A bidder claims a refund that stays claimable and a delegator withdraws
what stays withdrawable, one proposal at a time: it is their money. All weak;
nobody is assumed to bid, to cast, to cancel or to refrain from it. In
particular nobody has to cast a vote: an uncast bid is refunded. A transfer the
pool cannot pay reverts, so `EveryBidSettles` has one way out: that provers whose
callers sent too little left the pool short.

In `L2Governance` the batches of L2 are executed on L1 and somebody settles what
can be settled and relays what can be relayed: both are tipped. Blocks need not
be mined and calls from L1 need not arrive. Voting is nobody's duty either:
`EveryBallotSettles` is about ballots that were opened, and leaves open that the
owner sets a window that makes `settleVotes` underflow; `FullTurnoutIsCast` is about
those in which everybody voted, and the latter leaves open that the relayer is
switched off, another module was faster or the vote is over by then.

## 4. What is proved

For every set of proposals, bidders, owners, voters, modules and amounts, every
history of delegations, every configuration the owner may choose at any moment,
batches of any size and any number of messages and calls on their way:

| Theorem | Says |
|---|---|
| `LocksHold`, `LocksAreKept` (`BaseWalletProofs`) | `LockedModuleEnabled`, `LockNeverShortened` of the wallet on its own |
| `InvHolds` (`NounsPoolProofs`) | `Spec => []Inv`, the inductive invariant below |
| `TypeCorrect` | `TypeOK`: no amount or vote count goes below zero |
| `NoBidOverpays` | `PaidWithinBid`: no bid is served from another one's ETH |
| `BidsKeepThePool` | `LockCoversBid` |
| `VoteIsTheBidders` | `VoteMatchesBid` |
| `RefundsAreFinal` | `RefundIsFinal`, an action property |
| `FeesNeverRise` | `FeeNeverRaisedUnderLock`, an action property |
| `TimeToCast`, `AuctionsNeverShrink`, `NoBidIsCastAtOnce` (`AuctionProofs`) | `CastWindowKept`, `AuctionEndNeverEarlier`, `NoAtomicBidAndCast`, provided the owner leaves `castWindow` alone |
| `PoolKeepsEscrow` (`PoolEscrowProofs`) | `KeepsEscrow`: the pool implements `BidEscrow` |
| `SinglesAreFair` | `SharePriceNeverFalls`, provided withdrawals name one proposal each (`MaxBatch = 1`) |
| `PoolIsSolvent` (`PoolMoneyProofs`) | `Solvent`: what is owed on all bids together is there, for batches of any size, but for what provers were paid beyond what callers sent (`unfunded`) |
| `NothingIsLost` | `ExactlyBacked`: no other ETH is missing or owed to nobody, provided `MaxBatch = 1` |
| `BiddersAreMadeWhole` | `BidderMadeWhole`: bidders are out of pocket by their standing bids and nothing else |
| `NothingIsStranded` | `NothingStranded`: the last votes take the last wei, for batches of any size |
| `VotesAreClaims` | `VotesMatchClaims`, provided the owner leaves the snapshot rule alone (`SnapshotFixed`) |
| `InvHolds`, `TypeCorrect` (`L2GovernanceProofs`) | the inductive invariant and `TypeOK` of the two chains |
| `RelayedVotesAreOutcomes`, `OutcomesAgree`, `TipsArePaidOnce` | `RelayedVoteIsTheOutcome`, `OneOutcome`, `OneTipEach` |
| `SettledTalliesStand`, `NeverSettledEarly` | `SettledStands`, `NotSettledEarly`, action properties, for any keys callers name and any calls from L1 |
| `TalliesMatchReceipts` | `TallyMatchesReceipts`: over all keys, a tally is the sum of the receipts behind it, for any keys callers name |
| `VotesAreWithinStake` | `ReceiptsWithinStake`: nobody votes with more than it represents, provided no account is named twice in one vote (`NoAccountTwice`) |
| `TwoChainsAreOneBallot` | `KeepsPromise`: the composition implements `Ballots`, provided callers name the proposal whose log they prove (`OwnSyncs`) |
| `InvHolds`, `HoldersCanMove` (`DelegationProofs`) | the last checkpoint of everybody counts the Nouns they represent, hence `NobodyIsStuck`, provided nobody signs a delegation to address(0) (`SignedForAccounts`) |
| `TypeCorrect` | `TypeOK` of the token under the same hypothesis: no count of votes goes below zero |
| `PriorVotesAreRight` | `PriorVotesAreHoldings`: `getPriorVotes`, binary search included, returns what was represented, under the same hypothesis |
| `OnlyBasesOwnIsUnclaimable` | `UnclaimableIsBasesOwn`, under the same hypothesis |

**Assumptions**: the named `ASSUME`s of the modules, which TLC evaluates on
every run. They type the constants and say that the sets summed over (owners,
members, voters, accounts) are finite; nothing else is assumed. What a theorem
needs beyond them is a hypothesis in its statement, named in the table. Section 5
shows what happens without: `batch_share` is the reason for `MaxBatch = 1`,
`counted_twice` for `NoAccountTwice`, `wrong_key` for `OwnSyncs`, three of the
divergences without a run for `WindowFixed`, `SnapshotFixed` and `SignedForAccounts`.

**Sums.** `TotalOwed`, `HeldBy`, the tallies and the stakes are folds of the
community modules. `Arithmetic` proves that a sum over a finite set is the
function its recursion describes, though no rule of induction can be instantiated
here: a function with that recursion exists (a smallest set without one would
get one from a smaller set) and two of them agree (on the smallest set where they
might not). From there come the facts the modules cite: taking an element out
(`SumTakeOut`), changing one summand (`SumOfChanged`), parts and unions
(`SumOfPart`, `SumOfUnion`), comparison (`SumMonotone`), summands of the chosen
only (`SumOfSelected`) and sums over an image (`SumOfImage`). Where a property
sums over a set that depends on the state - the bids in a name, the keys synced
to a proposal, the voters of one support - the proof first rewrites it as a sum
over all proposals or voters with zeros (`Standing`, `Tallied`, `Received`), so that a
step changes summands and not the set.

**Argument, pool.** `Inv` is a conjunction of

* `TypeOK`, `LockedModuleEnabled` and the three properties to be shown;
* `RefundedStaysRefundable`: the pool remembers a refund (`refunded`) but tests
  it in `claimRefund` only. `bid`, `castVote` and `withdraw` are stopped by the
  state of the proposal instead, so the invariant must say that a refunded bid's
  proposal is still in a refundable state. Its preservation is where the DAO's
  life cycle enters: cancel and veto are for ever, `queue` and `execute` start
  from states that are not `Expired`, time never leads back to voting
  (`RefundableLasts`, `OneProposal`);
* `UncastIsWhole`: until its cast or refund nothing was paid from a bid; without
  it nothing bounds `paid` when a bid is replaced or cast;
* `CastIsProposed`: keeps a new proposal from erasing the receipt of a cast one.

`LockCoversBid` needs `LockedModuleEnabled` and that `requestLock` never shortens
a lock. `NextInv` has one lemma per action; steps that leave the pool alone share
`AroundPool`. For `withdraw`, `WithdrawPass` describes what one pass of the loop
does to its proposal: what is taken off the bid is at least the share paid from
it, because the accumulated amount is at least the last share
(`RunningTotalIsNat`). That the recursive definition of the accumulated amounts
denotes a function at all is proved in `Arithmetic` (`LoopExists`) from the
least-element principle. Thus
the accumulation that makes batches unfair (section 5) provably never makes them
overdraw a bid.

The three theorems of `AuctionProofs` have the hypothesis `WindowFixed(w)`: every
configuration offered to `init` and to the setters has the same `castWindow`. It
is needed (section 5). Their invariant adds to `Inv` that
`auctionCloseBlocks >= castWindow` (what `_validateConfig` and
`setAuctionSettings` preserve) and, for every auction that has begun, that
`bidBlock <= auctionEndBlock <= endBlock - castWindow`; `ExtensionBounds` shows
that an extension stays between the old end and the cast window.

Sharper than the runs in one respect: `NoBidOverpays` and `RefundsAreFinal` also
hold when the configuration, the snapshot rule included, moves between calls.

For the refinement of `BidEscrow` each call of the pool is shown to be a move of
every escrow, or to leave it alone: a bid is never below the standing one
(`NeverBelow`, which is about the rounded increment), casts and withdrawals pay
no more than they take off, a refund returns all that is left. `Inv` supplies
that a refunded proposal is no longer active and that an uncast bid is whole.
For `SharePriceNeverFalls` the inequality of two quotients is cross-multiplied;
`Arithmetic` has the facts about products and rounding the SMT solver needs.

For the money of all bids together (`PoolMoneyProofs`) `Backing` is the pool's ETH
with the differences between fees and what callers sent put back, and `BooksBalance`
says of a step that it changes by what the pool owes. `bid`, `claimRefund`,
`castVote` and withdrawals of one proposal keep it, with `Inv` supplying that the
replaced bid was owed in full. A batch does not: the pool takes the accumulated
amounts off several bids and pays the last of them. That last amount is taken off
the bid named last (`LastPays`) and nothing is put on any other, so the backing
falls by no more than the debts do and `Solvent` is kept (`WithdrawCovered`). Fee
and value cancel out of the backing, so nothing is assumed of either.
For `BidderMadeWhole` each step keeps, for every bidder, the difference between
`net` and the sum of `Standing` (`AccountFollows`). `NothingStranded` rests on
`LastTakesAll`: who proves all the votes left is owed all the money left, to the
wei. `VotesMatchClaims` is strengthened to `ClaimsMatch`, which adds that nothing is
withdrawn before the cast, so that at the cast everybody's claim is still open.

**Argument, L2.** `Inv` of `L2Governance` relates the storage of the two chains:
a ballot is of a proposal that was made (`SyncedIsProposed`); what is provable was
sent, and by a key that is settled (`SentWasSettled`); while a proposal is counted
under its own number alone, the messages about it show the present tally
(`OwnOutcome`) - this is what makes late and repeated messages harmless, and it
is inductive only because `vote` refuses what is settled; tips were paid exactly
for what is settled or relayed (`TipsAreCounted`). `RelayedVoteIsTheOutcome`
itself is needed because a rival's vote leaves the same receipt. The refinement
adds `OwnKeys`: a key is not synced or synced to its own number.

`TallyMatchesReceipts` needs no more than `Inv`: a vote adds the same number to one
key and to one receipt that was not there (`VoteTallies`), and syncing a second key
adds a ballot of zeros. `ReceiptsWithinStake` compares the receipts with the stake at
the start of the vote on L1, so `StakeInv` adds that ballots show that start
(`BallotsStartOnTime`) and that receipts are of proposals made
(`ReceiptsOfProposals`): the start of a proposal not yet made could still move.
`ProvenWithinStake` sums over the list of accounts and over the set of those who
delegated, which agree only when the list names nobody twice.

**Argument, token.** `TrailsShowThem`: the last checkpoint of a delegate is the
number of Nouns it represents. A transfer moves one Noun, a delegation all that
the delegator owns, and both keep it (`TrailsFollow`); the guard of `sub96` then
never fails, since what leaves is a subset of what is represented.

`TrailInv` adds the past: trails ascend strictly and are written at the present
block only (`TrailsAscend`), and once `watched` is mined, the last checkpoint up to
it shows what was represented then (`PastIsShown`). A later change is appended
after it, or overwrites a checkpoint of the present block, and cannot be seen from
`watched` (`WrittenLater`). That the binary search finds that checkpoint is
`SearchIs`: on an ascending trail the function `Found` satisfies the equation of the
search, and of all spans on which another solution differs from it, a shortest one
would contradict one step of the loop (`StepIsRight`).

**Only model-checked**: liveness (`EveryBidSettles`, `EveryBallotSettles`,
`FullTurnoutIsCast`), because neither `ENABLED` nor the leads-to rules under fairness
are within reach of the installed provers, and the four properties the code breaks
(section 5). Every other property of a run is stated by a theorem above.

## 5. Where code and documentation part

The first four are runs that TLC finds violated.

* `batch_share`: `Nouns.sol:412` subtracts the amount accumulated over the batch
  from each proposal's remaining amount. A delegator who withdraws two proposals
  at once takes from the later delegators' share of the second ("in proportion
  to their share of the pool for each prop", `Nouns.sol:41`). The surplus stays
  in the pool; `Solvent` and `PaidWithinBid` still hold.
* `late_cancel`: the DAO lets a proposer cancel, and the vetoer veto, a defeated
  proposal. Withdrawals have begun by then, and the bidder is refunded the rest
  ("completed non-refundable state", `Nouns.sol:357`).
* `wrong_key`: `vote` stores the ballot a log shows under whatever number the
  caller gives (`NounsGovernor.sol:77`). `settleVotes` marks that number settled,
  `vote` asks for the id in the log: one proposal counts as settled though no
  outcome of it was sent, and its votes revert ("Proposals that have been
  settled", `NounsGovernor.sol:26`). A ballot that was also counted under its own
  number is unharmed: `SettledStands`.
* `counted_twice`: `_proveVoter` does not compare the accounts it is given
  (`NounsGovernor.sol:258`), so an account named twice counts twice ("the number
  of votes the account has", `NounsGovernor.sol:233`).

Six more were met while modelling. They have no run of their own: each is the
reason for a hypothesis, an instance or an exception above, and removing that
shows it.

* `withdraw` pays provers `_fee[i]` out of the balance behind all bids, whatever
  `msg.value` was (`Nouns.sol:366-367`). After a call that sends less the pool is
  short, and the last claim fails where a bidder "can claim a full refund"
  (`README.md:22` of the repository). Hence `unfunded` in `Solvent` and
  `ExactlyBacked`, and the way out in `EveryBidSettles`: without them the runs
  `withdrawals` and `settles` fail.
* `setCastWindow` does not compare with `auctionCloseBlocks`
  (`ModuleConfig.sol:49,178`). A late bid may then set an auction end before its
  own block and be cast in that block ("no atomic bid + casts", `Nouns.sol:227`).
  Hence `WindowFixed` in `AuctionProofs`, and one accepted `castWindow` in `auction`.
* `setUseStartBlockFromPropId` between a cast and its withdrawals makes
  `remainingVotes` count other Nouns than the proofs show
  (`GovernancePool.sol:52`). Hence `SnapshotFixed` in `PoolMoneyProofs`, and no such
  setting in `withdrawals`.
* `settleVotes` has no upper end: an outcome may be settled after the vote in the
  DAO is over (`NounsGovernor.sol:148`), where `Governor.sol:45` has "too early or
  too late". Hence `block > endBlock` on the left of `EveryBallotSettles`.
* `vote` hands the whole `msg.value` to each prover it calls
  (`NounsGovernor.sol:215,242,322`), so a caller who sends the sum
  of the fees, as `deploy/testL2Governance.js:381` does, spends the governor's own
  ETH as well. Hence `Forwarded`, and the guard of `Vote` on the balance.
* `delegateBySig` to address(0) takes the votes from the signer's delegate and
  gives them to nobody, while `delegates` then names the signer
  (`ERC721Checkpointable.sol:90,143`): until the signer's own trail has votes
  again, its Nouns cannot move. `delegate` replaces address(0). Hence
  `SignedForAccounts`.

## 6. Not modelled

* `setAddresses`, `setSlots`, `setReason`, the addresses inside `setConfig`:
  which contracts, storage slots and strings are used is fixed.
* `maxBaseFeeRefund` and the arithmetic of gas prices: the refund before the
  caps by tip, bid and balance is an input (`GasRefunds`).
* Tallies, quorum and treasury of the DAO; encoding of proofs; delegate.cash
  (the money goes to the owner of the Nouns whoever calls); events and reasons.
* The factories (`NounsFactory`, `NounsRelayerFactory`, `ManagerFactory`): they
  clone a contract and call `init`, in one transaction, with defaults that stay
  constants; `init` itself is in the models.
* On the L2 path: fees of L2 transactions, reasons and metadata, prover versions,
  and the addresses and slots in the configurations other than the governor's.
* In the token: approvals, seeds and artwork, the roles of minter and owner, the
  reverts at 2^32 blocks and 2^96 votes.
* Mocks for the test network (`MockNounsGovernor`, `MockNounsRelayer`) and ABIs.
* JavaScript and TypeScript. The protocol is Solidity. `deploy/` holds scripts that
  send single transactions to test networks and wait for them
  (`testL2Governance.js` ends at a `throw new Error("STOP")`), `etc/ffi` turns the
  output of a node into proof arguments, and what is under
  `lib/nouns-monorepo/packages` besides the contracts is the vendored web
  application, SDK, subgraph and bots of the Nouns DAO, which no contract here
  depends on. None of it keeps state that the protocol reads, so no definition is
  mapped to it.
* Re-execution of a transaction that ran out of gas (it is a revert).

## 7. Plan

Order: what protects the bidders' and delegators' ETH first, then the L2 path,
then what both rest on.

1. *(done)* `Chain`, `NounsToken`, `NounsDAO`, `BaseWallet`, `PoolConfig`,
   `NounsPool`, their runs and proofs.
2. *(done)* `BidEscrow` and `PoolEscrow`, the refinement checked and proved.
3. *(done)* `NounsGovernor`, `NounsRelayer`, `Ballots`, `L2Governance`, checked and
   proved.
4. *(done)* `Delegation`. Left: `NounsToken` as a refinement of it, which needs a
   history of all blocks instead of one.
5. Left: several configurations of addresses in `PoolConfig` (`setConfig` to
   another DAO after a cast), the ETH the wallet sends on its own.
6. *(done)* The sums: `Solvent`, `ExactlyBacked`, `BidderMadeWhole`,
   `TallyMatchesReceipts` and what else ranges over all bids, voters or Nouns, and
   the binary search of `getPriorVotes`.
7. Left to prove: that `NounsToken` shows what a run of `Delegation` shows (with 4).
