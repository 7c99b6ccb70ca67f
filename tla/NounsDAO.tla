---- MODULE NounsDAO ----
(***************************************************************************)
(* The external DAO (NounsDAOLogicV2, vendored under src/lib): the life of *)
(* a proposal and the one receipt the base wallet has on it.  How the      *)
(* other voters vote is abstracted into `passed', a value fixed when the   *)
(* proposal is made that nothing reads before voting ends.                 *)
(***************************************************************************)
EXTENDS Chain

CONSTANTS
    MaxProposals,   \* bound: proposals made
    VotingDelay,    \* blocks between creation and start of voting
    VotingPeriod    \* blocks during which votes are accepted

ASSUME DAOAssumption ==
    /\ MaxProposals \in Nat
    /\ VotingDelay \in Nat
    /\ VotingPeriod \in Nat

VARIABLES
    proposalCount,  \* proposals made so far
    proposals       \* proposals[p]: what the DAO stores of proposal p

daoVars == <<proposalCount, proposals>>

Props == 1..MaxProposals
Supports == 0..2      \* against, for, abstain

\* `queue' is proposal.eta with the grace period folded in: eta is 0, eta is
\* set, or eta plus the grace period lies in the past.
Proposal ==
    [creationBlock : Blocks, startBlock : Blocks, endBlock : Blocks,
     passed : BOOLEAN, canceled : BOOLEAN, vetoed : BOOLEAN,
     executed : BOOLEAN, queue : {"none", "queued", "lapsed"},
     hasVoted : BOOLEAN, support : Supports]

NoProposal ==
    [creationBlock |-> 0, startBlock |-> 0, endBlock |-> 0,
     passed |-> FALSE, canceled |-> FALSE, vetoed |-> FALSE,
     executed |-> FALSE, queue |-> "none", hasVoted |-> FALSE, support |-> 0]

DAOTypeOK ==
    /\ proposalCount \in 0..MaxProposals
    /\ proposals \in [Props -> Proposal]

Proposed == 1..proposalCount

State(p) ==
    LET q == proposals[p] IN
    IF q.vetoed THEN "Vetoed"
    ELSE IF q.canceled THEN "Canceled"
    ELSE IF block <= q.startBlock THEN "Pending"
    ELSE IF block <= q.endBlock THEN "Active"
    ELSE IF ~q.passed THEN "Defeated"
    ELSE IF q.queue = "none" THEN "Succeeded"
    ELSE IF q.executed THEN "Executed"
    ELSE IF q.queue = "lapsed" THEN "Expired"
    ELSE "Queued"

DAOInit ==
    /\ proposalCount = 0
    /\ proposals = [p \in Props |-> NoProposal]

\* Proposals whose voting would not end within MaxBlock are not made.
Propose(passed) ==
    LET start == block + VotingDelay
        end   == start + VotingPeriod
    IN /\ proposalCount < MaxProposals
       /\ end < MaxBlock
       /\ proposalCount' = proposalCount + 1
       /\ proposals' = [proposals EXCEPT ![proposalCount + 1] =
                          [NoProposal EXCEPT !.creationBlock = block,
                                             !.startBlock = start,
                                             !.endBlock = end,
                                             !.passed = passed]]

SetProposal(p, q) ==
    /\ proposals' = [proposals EXCEPT ![p] = q]
    /\ UNCHANGED proposalCount

\* The proposer may cancel in every state but Executed, a Defeated one included.
Cancel(p) ==
    /\ State(p) # "Executed"
    /\ SetProposal(p, [proposals[p] EXCEPT !.canceled = TRUE])

Veto(p) ==
    /\ State(p) # "Executed"
    /\ SetProposal(p, [proposals[p] EXCEPT !.vetoed = TRUE])

Queue(p) ==
    /\ State(p) = "Succeeded"
    /\ SetProposal(p, [proposals[p] EXCEPT !.queue = "queued"])

Execute(p) ==
    /\ State(p) = "Queued"
    /\ SetProposal(p, [proposals[p] EXCEPT !.executed = TRUE])

\* The grace period of a queued proposal runs out.
Lapse(p) ==
    /\ State(p) = "Queued"
    /\ SetProposal(p, [proposals[p] EXCEPT !.queue = "lapsed"])

\* castRefundableVoteWithReason called by the base wallet.
BaseVotes(p, s) ==
    /\ State(p) = "Active"
    /\ ~proposals[p].hasVoted
    /\ SetProposal(p, [proposals[p] EXCEPT !.hasVoted = TRUE, !.support = s])

DAONext ==
    \/ \E passed \in BOOLEAN : Propose(passed)
    \/ \E p \in Proposed :
         Cancel(p) \/ Veto(p) \/ Queue(p) \/ Execute(p) \/ Lapse(p)
====
