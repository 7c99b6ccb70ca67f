---- MODULE NounsRelayer ----
(***************************************************************************)
(* The relayer on L1 (l2-governance/nouns/NounsRelayer.sol, Relayer.sol),  *)
(* a module of the base wallet.  It turns a message of the governor that   *)
(* has been proven to L1 into the base wallet's vote in the external DAO,  *)
(* and sends the owner's calls on the governor to L2.                      *)
(***************************************************************************)
EXTENDS NounsDAO, BaseWallet, SequencesExt

CONSTANTS
    Relayer,          \* the relayer module's address
    Manager,          \* the module through which the wallet's owner calls it
    Governors,        \* addresses config.governor is ever set to
    TotalSupply,      \* TotalSupply[b]: totalSupply() of nativeToken in block b
    InitRelConfig,    \* config and motivatorConfig init is called with
    Quorums,          \* bound: values of quorumVotesBPS the owner changes to
    Tips,             \* bound: values of tipAmount the owner changes to
    Calls,            \* bound: calls on the governor the owner sends to L2
    MaxRequests,      \* bound: calls on their way to L2
    RelayGas,         \* what refundGas would pay back, before the cap by balance
    Withdrawals,      \* bound: amounts the owner withdraws
    InitRelBalance    \* ETH the relayer was funded with

RelConfigType ==
    [governor : Governors, quorumVotesBPS : Nat, tipAmount : Nat]

ASSUME RelayerAssumption ==
    /\ Relayer \in Modules /\ Manager \in Modules
    /\ \A b \in Blocks : TotalSupply[b] \in Nat
    /\ InitRelConfig \in RelConfigType
    /\ Quorums \subseteq Nat
    /\ Tips \subseteq Nat
    /\ MaxRequests \in Nat
    /\ RelayGas \subseteq Nat
    /\ Withdrawals \subseteq Nat
    /\ InitRelBalance \in Nat

VARIABLES
    relayed,      \* relayed[p]
    relConfig,    \* config and the tip of motivatorConfig
    relBalance,   \* address(this).balance
    provable,     \* messages whose inclusion can be proven to zkSync on L1
    requests,     \* requestL2Transaction: calls not yet executed on L2
    relTips       \* history: relTips[p], how often relaying p was tipped

relVars == <<relayed, relConfig, relBalance, provable, requests, relTips>>

RelTypeOK ==
    /\ relayed \in [Props -> BOOLEAN]
    /\ relConfig \in RelConfigType
    /\ relBalance \in Nat
    /\ requests \in Seq([target : Governors, call : Calls])
    /\ relTips \in [Props -> Nat]

RelInit ==
    /\ relayed = [p \in Props |-> FALSE]
    /\ relConfig = InitRelConfig
    /\ relBalance = InitRelBalance
    /\ provable = {}
    /\ requests = <<>>
    /\ relTips = [p \in Props |-> 0]
-----------------------------------------------------------------------------
VotesCast(votes) == votes[0] + votes[1] + votes[2]

\* Fault: the turnout has to exceed the quorum.
QuorumExceeded(votes) ==
    VotesCast(votes) > (TotalSupply[block] * relConfig.quorumVotesBPS) \div 10000

\* The turnout is measured by the supply and the quorum of the block in which
\* the message is relayed.
QuorumMet(votes) ==
    VotesCast(votes) >= (TotalSupply[block] * relConfig.quorumVotesBPS) \div 10000

\* Fault: a side wins only outright.
StrictSupport(votes) ==
    LET against == votes[0] > votes[1] /\ votes[0] > votes[2]
        for     == votes[1] > votes[0] /\ votes[1] > votes[2]
    IN IF for THEN 1 ELSE IF against THEN 0 ELSE 2

\* Abstain unless one of two tests, of which the second overrules the first.
Support(votes) ==
    LET against == votes[0] >= votes[1] /\ votes[0] >= votes[2]
        for     == votes[1] >= votes[0] /\ votes[1] >= votes[2]
    IN IF for THEN 1 ELSE IF against THEN 0 ELSE 2

\* Fault: nobody looks whether the DAO took the vote.
ExecuteUnchecked(p, support) ==
    /\ OnlyEnabled(Relayer)
    /\ IF State(p) = "Active" /\ ~proposals[p].hasVoted
       THEN BaseVotes(p, support)
       ELSE UNCHANGED daoVars

\* Base.execute reverts for a disabled relayer and whenever the DAO reverts.
ExecuteVote(p, support) == OnlyEnabled(Relayer) /\ BaseVotes(p, support)

NotYetRelayed(p) == ~relayed[p]

RelayVotes(m, gas) ==
    LET p   == m.proposal
        tip == Min({relConfig.tipAmount, relBalance})
    IN /\ m \in provable
       /\ m.sender = relConfig.governor
       /\ NotYetRelayed(p)
       /\ QuorumMet(m.votes)
       /\ ExecuteVote(p, Support(m.votes))
       /\ relayed' = [relayed EXCEPT ![p] = TRUE]
       /\ relBalance' = relBalance - tip - Min({gas, relBalance - tip})
       /\ relTips' = [relTips EXCEPT ![p] = @ + 1]
       /\ UNCHANGED <<relConfig, provable, requests>>
-----------------------------------------------------------------------------
(***************************************************************************)
(* onlyOwner: the owner is the base wallet, the call comes through it.     *)
(***************************************************************************)
OwnerReaches == OnlyEnabled(Manager)

RelSetConfig(governor, bps) ==
    /\ relConfig' = [relConfig EXCEPT !.governor = governor,
                                      !.quorumVotesBPS = bps]
    /\ UNCHANGED <<relayed, relBalance, provable, requests, relTips>>

RelSetMotivatorConfig(tip) ==
    /\ relConfig' = [relConfig EXCEPT !.tipAmount = tip]
    /\ UNCHANGED <<relayed, relBalance, provable, requests, relTips>>

RelWithdraw(amount) ==
    /\ amount <= relBalance
    /\ relBalance' = relBalance - amount
    /\ UNCHANGED <<relayed, relConfig, provable, requests, relTips>>

\* setGovernorConfig, setGovernorMotivatorConfig, withdrawFromGovenor: the call
\* joins the queue of L1 to L2 transactions, addressed to today's governor.
Request(call) ==
    /\ Len(requests) < MaxRequests
    /\ requests' = Append(requests, [target |-> relConfig.governor, call |-> call])
    /\ UNCHANGED <<relayed, relConfig, relBalance, provable, relTips>>

RelOwnerNext ==
    /\ OwnerReaches
    /\ \/ \E g \in Governors, bps \in Quorums : RelSetConfig(g, bps)
       \/ \E tip \in Tips : RelSetMotivatorConfig(tip)
       \/ \E amount \in Withdrawals : RelWithdraw(amount)
       \/ \E call \in Calls : Request(call)
====
