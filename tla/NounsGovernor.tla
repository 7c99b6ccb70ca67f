---- MODULE NounsGovernor ----
(***************************************************************************)
(* The governor on L2 (l2-governance/nouns/NounsGovernor.sol, Governor.sol,*)
(* incentives/MotivatorV2.sol).  Members of a DAO vote on proposals of the *)
(* external DAO; what they have decided is sent to L1 in a message.        *)
(*                                                                         *)
(* The governor never sees L1.  Callers prove to it what has happened      *)
(* there: that a proposal was created, that a block was mined, what a      *)
(* member held and to whom it was delegated.  A valid proof shows the      *)
(* truth about a mined block of the caller's choice, possibly an old one.  *)
(***************************************************************************)
EXTENDS NounsDAO, SequencesExt

CONSTANTS
    Governor,         \* the governor's address
    Members,          \* accounts that hold the governor's token
    Voters,           \* accounts that vote
    Stake,            \* Stake[b][o]: balance and delegate slot of o at block b
    ProofBatches,     \* bound: sequences of accounts a vote brings proofs for
    Syncs,            \* bound: <<_proposal, id shown by the log>> of a first vote
    InitGovConfig,    \* config and motivatorConfig of the constructor
    Fees,             \* bound: msg.value of a call
    GasCosts,         \* what refundGas would pay back, before the cap by balance
    InitGovBalance    \* ETH the governor was funded with

GovConfigType == [castWindow : Nat, finalityBlocks : Nat, tipAmount : Nat]

ASSUME GovernorAssumption ==
    /\ IsFiniteSet(Voters) /\ IsFiniteSet(Members)
    /\ \A b \in Blocks, o \in Members : Stake[b][o].balance \in Nat
    /\ ProofBatches \subseteq Seq(Members)
    /\ Syncs \subseteq Props \X Props
    /\ InitGovConfig \in GovConfigType
    /\ Fees \subseteq Nat
    /\ GasCosts \subseteq Nat
    /\ InitGovBalance \in Nat

VARIABLES
    synced,       \* proposals[_proposal]: the proposals synced from the DAO
    receipts,     \* receipts[id][voter]
    settled,      \* settled[_proposal]
    govConfig,    \* the numbers of config and motivatorConfig
    govBalance,   \* address(this).balance
    sent,         \* messages handed to the zkSync messenger
    govTips       \* history: govTips[_proposal], how often settling it was tipped

govVars == <<synced, receipts, settled, govConfig, govBalance, sent, govTips>>

\* votes[s] is againstVotes, forVotes, abstainVotes for s = 0, 1, 2.
Ballot ==
    [id : Props \cup {0}, startBlock : Blocks, endBlock : Blocks,
     votes : [Supports -> Nat]]

Receipt == [hasVoted : BOOLEAN, support : Supports, votes : Nat]

Message == [sender : {Governor}, proposal : Props, votes : [Supports -> Nat]]

NoVotes == [s \in Supports |-> 0]
NoBallot == [id |-> 0, startBlock |-> 0, endBlock |-> 0, votes |-> NoVotes]
NoReceipt == [hasVoted |-> FALSE, support |-> 0, votes |-> 0]

GovTypeOK ==
    /\ synced \in [Props -> Ballot]
    /\ receipts \in [Props -> [Voters -> Receipt]]
    /\ settled \in [Props -> BOOLEAN]
    /\ govConfig \in GovConfigType
    /\ govBalance \in Nat
    /\ sent \subseteq Message
    /\ govTips \in [Props -> Nat]

GovInit ==
    /\ synced = [k \in Props |-> NoBallot]
    /\ receipts = [p \in Props |-> [v \in Voters |-> NoReceipt]]
    /\ settled = [k \in Props |-> FALSE]
    /\ govConfig = InitGovConfig
    /\ govBalance = InitGovBalance
    /\ sent = {}
    /\ govTips = [k \in Props |-> 0]
-----------------------------------------------------------------------------
(***************************************************************************)
(* MotivatorV2.  Both pay from what the contract holds and never fail for  *)
(* lack of it.                                                             *)
(***************************************************************************)
\* Fault: the refund is not capped.
AfterFullRefund(balance, gas) == balance - gas

AfterRefund(balance, gas) == balance - Min({gas, balance})

TipPaid(balance, amount) == Min({amount, balance})

\* Every prover call forwards the whole msg.value: with several of them the
\* governor's own ETH has to make up for the later ones.
Forwarded(value, calls) == value * calls
-----------------------------------------------------------------------------
Mined == 0..(block - 1)

\* Created log entries of the DAO that can be proven for a vote on key k.
Logs(k) ==
    {p \in Proposed : <<k, p>> \in Syncs /\ proposals[p].creationBlock \in Mined}

\* The ballot a vote on k is counted on: the one synced before or else the one
\* the log of p describes.  Nothing compares p with k.
BallotFor(k, p) ==
    IF synced[k].id # 0
    THEN synced[k]
    ELSE [NoBallot EXCEPT !.id = p, !.startBlock = proposals[p].startBlock,
                          !.endBlock = proposals[p].endBlock]

\* A key not yet synced needs the log, a proposal not settled, and proof of a
\* block from the start of voting on.
SyncAllowed(k, p, b) ==
    synced[k].id = 0 => ~settled[p] /\ b >= proposals[p].startBlock

\* Fault: anybody may bring the proofs of any account.
AnyDelegate(v, accounts, b) == TRUE

\* Each account had delegated to v, by its own transaction, at block b.
DelegatedTo(v, accounts, b) ==
    \A i \in DOMAIN accounts : Stake[b][accounts[i]].delegate = v

\* One balance is added per pair of facts, whichever accounts they name.
ProvenVotes(accounts, b) ==
    SumFunction([i \in DOMAIN accounts |-> Stake[b][accounts[i]].balance])

\* Fault: votes are taken until the vote in the DAO ends.
StillOpen(id) == TRUE

NotSettled(id) == ~settled[id]

\* Fault: the receipt is looked up by the number the caller gave.
ReceiptOfKey(k, ballot) == k

\* The proposal whose receipt a vote on k leaves.
ReceiptOf(k, ballot) == ballot.id

Vote(v, k, support, accounts, p, b, value, gas) ==
    LET ballot == BallotFor(k, p)
        votes  == ProvenVotes(accounts, ballot.startBlock)
        r      == ReceiptOf(k, ballot)
        spent  == Forwarded(value, IF synced[k].id = 0 THEN 3 ELSE 1)
    IN /\ SyncAllowed(k, p, b)
       /\ ballot.startBlock \in Mined
       /\ DelegatedTo(v, accounts, ballot.startBlock)
       /\ votes > 0
       /\ NotSettled(ballot.id)
       /\ ~receipts[r][v].hasVoted
       /\ support <= 2
       /\ spent <= govBalance + value
       /\ synced' = [synced EXCEPT ![k] =
                       [ballot EXCEPT !.votes[support] = @ + votes]]
       /\ receipts' = [receipts EXCEPT ![r][v] =
                         [hasVoted |-> TRUE, support |-> support, votes |-> votes]]
       /\ govBalance' = AfterRefund(govBalance + value - spent, gas)
       /\ UNCHANGED <<settled, govConfig, sent, govTips>>
-----------------------------------------------------------------------------
\* Fault: counted from the start of voting.
SettlesFromStart(ballot) ==
    ballot.startBlock - govConfig.finalityBlocks - govConfig.castWindow

\* Fault: finality and the cast window come after the end of voting.
SettlesAfterEnd(ballot) ==
    ballot.endBlock + govConfig.finalityBlocks + govConfig.castWindow

\* The first block whose proof settles the ballot; settling reverts by
\* underflow when it would be negative.
SettlesFrom(ballot) ==
    ballot.endBlock - govConfig.finalityBlocks - govConfig.castWindow

OutcomeMessage(ballot) ==
    [sender |-> Governor, proposal |-> ballot.id, votes |-> ballot.votes]

\* Fault: every settlement is tipped.
TipAlways(k) == TRUE

TipDue(k) == ~settled[k]

\* What the call attaches is spent on the one prover it asks.
SettleVotes(k, b, gas) ==
    LET tip == IF TipDue(k) THEN TipPaid(govBalance, govConfig.tipAmount) ELSE 0
    IN /\ synced[k].id # 0
       /\ SettlesFrom(synced[k]) >= 0
       /\ b >= SettlesFrom(synced[k])
       /\ sent' = sent \cup {OutcomeMessage(synced[k])}
       /\ settled' = [settled EXCEPT ![k] = TRUE]
       /\ govBalance' = AfterRefund(govBalance - tip, gas)
       /\ govTips' = [govTips EXCEPT ![k] = IF TipDue(k) THEN @ + 1 ELSE @]
       /\ UNCHANGED <<synced, receipts, govConfig>>
-----------------------------------------------------------------------------
(***************************************************************************)
(* onlyMainnetOwner: calls the relayer on L1 asked for (see NounsRelayer). *)
(***************************************************************************)
GovSetConfig(castWindow, finalityBlocks) ==
    /\ govConfig' = [govConfig EXCEPT !.castWindow = castWindow,
                                      !.finalityBlocks = finalityBlocks]
    /\ UNCHANGED <<synced, receipts, settled, govBalance, sent, govTips>>

GovSetMotivatorConfig(tip) ==
    /\ govConfig' = [govConfig EXCEPT !.tipAmount = tip]
    /\ UNCHANGED <<synced, receipts, settled, govBalance, sent, govTips>>

GovWithdraw(amount) ==
    /\ amount <= govBalance
    /\ govBalance' = govBalance - amount
    /\ UNCHANGED <<synced, receipts, settled, govConfig, sent, govTips>>
-----------------------------------------------------------------------------
GovNext ==
    \/ \E v \in Voters, k \in Props, s \in Supports, accounts \in ProofBatches,
          value \in Fees, gas \in GasCosts :
         \E p \in IF synced[k].id = 0 THEN Logs(k) ELSE {synced[k].id},
            b \in Mined : Vote(v, k, s, accounts, p, b, value, gas)
    \/ \E k \in Props, b \in Mined, gas \in GasCosts : SettleVotes(k, b, gas)
====
