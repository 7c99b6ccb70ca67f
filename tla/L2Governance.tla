---- MODULE L2Governance ----
(***************************************************************************)
(* Voting on L2, end to end: the governor on L2, the relayer on L1, the    *)
(* wallet it acts through, the DAO it votes in, and the two directions of  *)
(* zkSync's mailbox between the chains.                                    *)
(*                                                                         *)
(* Messages from L2 become provable late, in any order, and then may be    *)
(* relayed any number of times.  Calls from L1 are executed in the order   *)
(* they were requested, each of them late or, for want of gas, never.      *)
(***************************************************************************)
EXTENDS NounsGovernor, NounsRelayer

CONSTANTS
    None,             \* no vote was relayed
    RivalSupports,    \* bound: support values other modules vote with
    Results,          \* bound: whether votes in the DAO pass
    Undone            \* bound: proposals that may be canceled or vetoed

ASSUME CompositionAssumption ==
    /\ Governor \in Governors
    /\ RivalSupports \subseteq Supports
    /\ None \notin Supports
    /\ Results \subseteq BOOLEAN
    /\ Undone \subseteq Nat
    /\ \A c \in Calls :
         /\ c.op = "setConfig" => c.castWindow \in Nat /\ c.finalityBlocks \in Nat
         /\ c.op = "setMotivatorConfig" => c.tip \in Nat
         /\ c.op = "withdraw" => c.amount \in Nat

otherVars == <<block, daoVars, walletVars>>
vars == <<otherVars, govVars, relVars>>

TypeOK ==
    /\ block \in Blocks
    /\ DAOTypeOK /\ BaseTypeOK /\ GovTypeOK /\ RelTypeOK

Init == ChainInit /\ DAOInit /\ BaseInit(Modules) /\ GovInit /\ RelInit
-----------------------------------------------------------------------------
GovernorStep == GovNext /\ UNCHANGED <<otherVars, relVars>>

Relay(m, gas) == RelayVotes(m, gas) /\ UNCHANGED <<block, walletVars, govVars>>

RelayerOwnerStep == RelOwnerNext /\ UNCHANGED <<otherVars, govVars>>

\* The batch that holds m is executed on L1.  Batches come in order, but whoever
\* relays chooses among the messages of all of them.
Finalize(m) ==
    /\ m \in sent \ provable
    /\ provable' = provable \cup {m}
    /\ UNCHANGED <<otherVars, govVars, relayed, relConfig, relBalance, requests,
                   relTips>>

\* What a call does when it reaches the governor.
RunCall(call) ==
    \/ call.op = "setConfig" /\ GovSetConfig(call.castWindow, call.finalityBlocks)
    \/ call.op = "setMotivatorConfig" /\ GovSetMotivatorConfig(call.tip)
    \/ call.op = "withdraw" /\ GovWithdraw(call.amount)

\* The next call from L1 is executed, or fails and is dropped.
Deliver ==
    /\ requests # <<>>
    /\ requests' = Tail(requests)
    /\ \/ Head(requests).target = Governor /\ RunCall(Head(requests).call)
       \/ UNCHANGED govVars
    /\ UNCHANGED <<otherVars, relayed, relConfig, relBalance, provable, relTips>>
-----------------------------------------------------------------------------
MineBlock == Mine /\ UNCHANGED <<daoVars, walletVars, govVars, relVars>>

\* What others do in the DAO.
DAOMoves ==
    \/ \E passed \in Results : Propose(passed)
    \/ \E p \in Proposed : Queue(p) \/ Execute(p) \/ Lapse(p)
    \/ \E p \in Proposed \cap Undone : Cancel(p) \/ Veto(p)

DAOStep(A) == A /\ UNCHANGED <<block, walletVars, govVars, relVars>>

\* Another module of the wallet votes: Base.execute asks only that the caller
\* is enabled.
RivalVote(m, p, s) == OnlyEnabled(m) /\ BaseVotes(p, s)

OwnerStep == BaseOwnerNext /\ UNCHANGED <<block, daoVars, govVars, relVars>>

EnvNext ==
    \/ MineBlock
    \/ DAOStep(DAOMoves)
    \/ \E m \in Modules \ {Relayer}, p \in Proposed, s \in RivalSupports :
         DAOStep(RivalVote(m, p, s))
    \/ OwnerStep

Next ==
    \/ GovernorStep
    \/ \E m \in provable, gas \in RelayGas : Relay(m, gas)
    \/ RelayerOwnerStep
    \/ \E m \in sent : Finalize(m)
    \/ Deliver
    \/ EnvNext

Spec == Init /\ [][Next]_vars
-----------------------------------------------------------------------------
(***************************************************************************)
(* The promise of one ballot per proposal.                                 *)
(***************************************************************************)
RelayedVote == [p \in Props |-> IF relayed[p] THEN proposals[p].support ELSE None]

Promise == INSTANCE Ballots WITH
    Proposals <- Props,
    tally <- [p \in Props |-> synced[p].votes],
    closed <- settled,
    cast <- RelayedVote

\* As long as callers name the proposal whose log they prove (Syncs), the two
\* chains together are one ballot per proposal: nothing is counted after the
\* outcome was sent, and what the wallet votes is what that outcome says,
\* through late, reordered and repeated messages (NounsGovernor.sol:96-121,
\* 146-165, NounsRelayer.sol:73-112).
KeepsPromise == Promise!BallotsSpec

\* The keys under which votes on proposal p are counted.
KeysOf(p) == {k \in Props : synced[k].id = p}

\* p is counted under its own number and nothing else is.
OwnKeyOnly(p) == \A k \in Props : synced[k].id = p <=> k = p

\* All messages about a proposal that is counted under its own number say the
\* same, however often and whenever it is settled: whichever of them reaches
\* the relayer first (NounsGovernor.sol:100,154-165).
OneOutcome ==
    \A m, n \in sent :
      m.proposal = n.proposal /\ OwnKeyOnly(m.proposal) => m = n

\* A vote the relayer cast is what some proven message says: a choice with the
\* most votes, ties falling to for and then to against.  No vote of another
\* module is mistaken for it (NounsRelayer.sol:86-112).
RelayedVoteIsTheOutcome ==
    \A p \in Props : relayed[p] =>
      /\ proposals[p].hasVoted
      /\ \E m \in provable :
           m.proposal = p /\ Promise!Wins(m.votes, proposals[p].support)

\* The voters whose receipt on proposal p shows support s.
VotersFor(p, s) ==
    {v \in Voters : receipts[p][v].hasVoted /\ receipts[p][v].support = s}

\* Whatever keys its votes are counted under, the tallies of a proposal are
\* the sum of its receipts, so each voter is counted once
\* (NounsGovernor.sol:98-121).
TallyMatchesReceipts ==
    \A p \in Props, s \in Supports :
      SumFunctionOnSet([k \in Props |-> synced[k].votes[s]], KeysOf(p)) =
        SumFunctionOnSet([v \in Voters |-> receipts[p][v].votes], VotersFor(p, s))

\* What o's delegates had at the start of voting on p.
StakeOf(v, p) ==
    LET b == proposals[p].startBlock
    IN SumFunctionOnSet([o \in Members |-> Stake[b][o].balance],
                        {o \in Members : Stake[b][o].delegate = v})

\* A receipt shows no more votes than its voter had when voting started in the
\* DAO (NounsGovernor.sol:228-308).
ReceiptsWithinStake ==
    \A p \in Props, v \in Voters :
      receipts[p][v].hasVoted => receipts[p][v].votes <= StakeOf(v, p)

\* The keys and tallies of what is settled under its number stay as they are.
TalliesStand ==
    \A p \in Props : settled[p] =>
      /\ KeysOf(p)' = KeysOf(p)
      /\ \A k \in KeysOf(p) : synced'[k].votes = synced[k].votes

\* Once a proposal is settled under its number no tally of it changes, nor is
\* another key synced to it (NounsGovernor.sol:79,100).
SettledStands == [][TalliesStand]_vars

\* A proposal that counts as settled has had an outcome sent.
SettledWasSent ==
    \A p \in Props : settled[p] => \E m \in sent : m.proposal = p

\* However old the blocks callers prove and whenever a new configuration
\* arrives, no ballot is settled before L1 has passed the block that leaves
\* finality and the cast window, as configured then, to the vote
\* (NounsGovernor.sol:146-150).
NotSettledEarly ==
    [][\A k \in Props : settled'[k] /\ ~settled[k] =>
         block > synced[k].endBlock
                   - (govConfig.finalityBlocks + govConfig.castWindow)]_vars

\* Settling and relaying earn one tip per proposal, repeat them who may
\* (NounsGovernor.sol:163, NounsRelayer.sol:73,114).
OneTipEach == \A p \in Props : govTips[p] <= 1 /\ relTips[p] <= 1

(***************************************************************************)
(* What makes the properties above inductive.                              *)
(***************************************************************************)
\* Ballots are of proposals that were made; a key not synced has no votes.
SyncedIsProposed ==
    \A k \in Props :
      /\ synced[k].id \in Proposed \cup {0}
      /\ synced[k].id = 0 => synced[k].votes = NoVotes /\ ~settled[k]

\* What can be proven on L1 was sent, and what was sent was settled by a key.
SentWasSettled ==
    /\ provable \subseteq sent
    /\ \A m \in sent : \E k \in Props : synced[k].id = m.proposal /\ settled[k]

\* The messages about a proposal counted under its own number show its tally.
OwnOutcome ==
    \A m \in sent : OwnKeyOnly(m.proposal) =>
      m = OutcomeMessage(synced[m.proposal]) /\ settled[m.proposal]

\* A tip was paid exactly for what was settled or relayed.
TipsAreCounted ==
    \A p \in Props :
      /\ govTips[p] = IF settled[p] THEN 1 ELSE 0
      /\ relTips[p] = IF relayed[p] THEN 1 ELSE 0

\* Only votes on proposals that were made are relayed.
RelayedIsProposed == \A p \in Props : relayed[p] => p \in Proposed

Inv ==
    /\ TypeOK
    /\ SyncedIsProposed /\ SentWasSettled /\ OwnOutcome
    /\ TipsAreCounted /\ RelayedIsProposed /\ RelayedVoteIsTheOutcome

(***************************************************************************)
(* Progress.  zkSync executes the batches of L2 on L1; settling and        *)
(* relaying are tipped, so somebody does them.  Nothing is assumed about   *)
(* how fast blocks are mined: it is not the end of voting that makes the   *)
(* properties below true.                                                  *)
(***************************************************************************)
Fairness ==
    /\ WF_vars(\E m \in sent : Finalize(m))
    /\ \A k \in Props :
         WF_vars(/\ \E b \in Mined, gas \in GasCosts : SettleVotes(k, b, gas)
                 /\ UNCHANGED <<otherVars, relVars>>)
    /\ \A p \in Props :
         WF_vars(\E m \in provable, gas \in RelayGas :
                   m.proposal = p /\ Relay(m, gas))

FairSpec == Spec /\ Fairness

\* A ballot that was opened is settled once voting in the DAO is over, if not
\* before, unless the owner sets a window longer than the number of its last
\* block: the subtraction then reverts (NounsGovernor.sol:139-173, 148).
EveryBallotSettles ==
    \A k \in Props :
      synced[k].id # 0 /\ block > synced[k].endBlock
        ~> settled[k] \/ SettlesFrom(synced[k]) < 0

\* A settled ballot in which everybody voted meets any quorum, so the wallet
\* votes while it can: unless the relayer was disabled, another module was
\* faster or voting is over (NounsRelayer.sol:81-112).
FullTurnoutIsCast ==
    \A p \in Props :
      (/\ settled[p] /\ synced[p].id = p
       /\ VotesCast(synced[p].votes) >= TotalSupply[block])
      ~> proposals[p].hasVoted \/ State(p) # "Active" \/ ~enabled[Relayer]
====
