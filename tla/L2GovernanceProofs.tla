---- MODULE L2GovernanceProofs ----
(***************************************************************************)
(* Voting on L2, for every number of proposals, voters, members, messages  *)
(* and calls on their way, and every configuration.                        *)
(***************************************************************************)
EXTENDS L2Governance, Arithmetic, SequenceTheorems

-----------------------------------------------------------------------------
\* The support the relayer votes with has the most votes, ties falling to for
\* and then to against (NounsRelayer.sol:86-100).
LEMMA SupportWins ==
  ASSUME NEW votes \in [Supports -> Nat]
  PROVE  Support(votes) \in Supports /\ Promise!Wins(votes, Support(votes))
<1>1. votes[0] \in Nat /\ votes[1] \in Nat /\ votes[2] \in Nat
  BY DEF Supports
<1>2. QED
  BY <1>1 DEF Support, Supports, Promise!Wins, Promise!Choices, Promise!Rank

\* What is left after a refund or a tip is a number.
LEMMA MotivatorLeaves ==
  ASSUME NEW balance \in Nat, NEW amount \in Nat
  PROVE  /\ TipPaid(balance, amount) \in Nat
         /\ balance - TipPaid(balance, amount) \in Nat
         /\ AfterRefund(balance, amount) \in Nat
<1> DEFINE least == Min({amount, balance})
<1>1. least \in {amount, balance} /\ least <= balance
  BY MinOfTwo
<1>2. TipPaid(balance, amount) = least /\ AfterRefund(balance, amount) = balance - least
  BY DEF TipPaid, AfterRefund
<1> HIDE DEF least
<1>3. QED
  BY <1>1, <1>2

\* Initially nothing was proposed, synced, settled or sent.
LEMMA InitInv == Init => Inv
<1> SUFFICES ASSUME Init PROVE Inv
  OBVIOUS
<1> USE DEF Init
<1>1. block \in Blocks /\ DAOTypeOK /\ BaseTypeOK
  BY MaxBlockAssumption, DAOAssumption, BaseAssumption
  DEF ChainInit, DAOInit, DAOTypeOK, NoProposal, Proposal, Props, Blocks,
      Supports, BaseInit, BaseTypeOK
<1>2. NoBallot \in Ballot /\ NoReceipt \in Receipt
  BY MaxBlockAssumption
  DEF NoBallot, Ballot, NoVotes, NoReceipt, Receipt, Blocks, Supports
<1>3. GovTypeOK
  BY <1>2, GovernorAssumption DEF GovInit, GovTypeOK, Message
<1>4. RelTypeOK
  BY RelayerAssumption, EmptySeq DEF RelInit, RelTypeOK
<1>5. SyncedIsProposed
  BY DEF SyncedIsProposed, GovInit, NoBallot
<1>6. SentWasSettled /\ OwnOutcome
  BY DEF SentWasSettled, OwnOutcome, GovInit, RelInit
<1>7. TipsAreCounted
  BY DEF TipsAreCounted, GovInit, RelInit
<1>8. RelayedIsProposed /\ RelayedVoteIsTheOutcome
  BY DEF RelayedIsProposed, RelayedVoteIsTheOutcome, RelInit
<1>9. QED
  BY <1>1, <1>3, <1>4, <1>5, <1>6, <1>7, <1>8 DEF Inv, TypeOK
-----------------------------------------------------------------------------
\* The ballot a vote is counted on: of a proposal that was made, unsettled, and
\* the one synced before if there was one; and what is counted, the votes the
\* voter has shown and not yet used (NounsGovernor.sol:72-121).
Counted(v, k, s, accounts, ballot, n) ==
    /\ ballot.id \in Proposed /\ ballot.id \in Props
    /\ synced[k].id # 0 => ballot = synced[k]
    /\ synced[k].id = 0 =>
         /\ <<k, ballot.id>> \in Syncs
         /\ ballot.startBlock = proposals[ballot.id].startBlock
    /\ ballot.votes = synced[k].votes
    /\ ~settled[ballot.id]
    /\ ~receipts[ballot.id][v].hasVoted
    /\ DelegatedTo(v, accounts, ballot.startBlock)
    /\ n = ProvenVotes(accounts, ballot.startBlock) /\ n > 0
    /\ synced' = [synced EXCEPT ![k] = [ballot EXCEPT !.votes[s] = @ + n]]
    /\ receipts' = [receipts EXCEPT ![ballot.id][v] =
                     [hasVoted |-> TRUE, support |-> s, votes |-> n]]
    /\ govBalance' \in Nat
    /\ UNCHANGED <<settled, govConfig, sent, govTips>>

\* What proofs of any accounts are counted for is a number.
LEMMA ProvenVotesIsNat ==
  ASSUME NEW accounts \in ProofBatches, NEW b \in Blocks
  PROVE  ProvenVotes(accounts, b) \in Nat
<1> DEFINE shown == [i \in DOMAIN accounts |-> Stake[b][accounts[i]].balance]
<1>1. accounts \in Seq(Members)
  BY GovernorAssumption
<1>2. /\ DOMAIN accounts = 1..Len(accounts) /\ Len(accounts) \in Nat
      /\ \A i \in DOMAIN accounts : accounts[i] \in Members
  BY <1>1
<1>3. IsFiniteSet(DOMAIN accounts)
  BY <1>2, FS_Interval
<1>4. \A i \in DOMAIN accounts : shown[i] \in Nat
  BY <1>2, GovernorAssumption
<1>5. ProvenVotes(accounts, b) = SumFunctionOnSet(shown, DOMAIN accounts)
  BY DEF ProvenVotes, SumFunction
<1> HIDE DEF shown
<1>6. QED
  BY <1>3, <1>4, <1>5, SumIsNat

\* A vote that succeeds is counted so.
LEMMA VoteEffect ==
  ASSUME Inv, NEW v \in Voters, NEW k \in Props, NEW s \in Supports,
         NEW accounts \in ProofBatches, NEW value \in Fees, NEW gas \in GasCosts,
         NEW p \in (IF synced[k].id = 0 THEN Logs(k) ELSE {synced[k].id}),
         NEW b \in Mined, Vote(v, k, s, accounts, p, b, value, gas)
  PROVE  \E ballot \in Ballot, n \in Nat :
           Counted(v, k, s, accounts, ballot, n)
<1> DEFINE ballot == BallotFor(k, p)
           n == ProvenVotes(accounts, ballot.startBlock)
           spent == Forwarded(value, IF synced[k].id = 0 THEN 3 ELSE 1)
<1>1. TypeOK /\ SyncedIsProposed
  BY DEF Inv
<1>2. p \in Proposed /\ p \in Props
  <2>1. p \in Proposed
    BY <1>1 DEF SyncedIsProposed, Logs
  <2>2. QED
    BY <1>1, <2>1, DAOAssumption DEF TypeOK, DAOTypeOK, Proposed, Props
<1>3. /\ synced[k] \in Ballot /\ proposals[p] \in Proposal
      /\ NoBallot \in Ballot
  BY <1>1, <1>2, MaxBlockAssumption
  DEF TypeOK, GovTypeOK, DAOTypeOK, NoBallot, Ballot, NoVotes, Blocks
<1>4. ballot \in Ballot /\ ballot.id = p
  BY <1>2, <1>3 DEF BallotFor, Ballot, Proposal
<1>5. ballot.votes = synced[k].votes
  BY <1>1, <1>3 DEF BallotFor, SyncedIsProposed, NoBallot
<1>6. synced[k].id # 0 => ballot = synced[k]
  BY DEF BallotFor
<1>7. synced[k].id = 0 =>
         /\ <<k, ballot.id>> \in Syncs
         /\ ballot.startBlock = proposals[ballot.id].startBlock
  BY <1>3, <1>4 DEF Logs, BallotFor, NoBallot
<1>8. n \in Nat
  BY <1>4, ProvenVotesIsNat DEF Ballot
<1>9. spent \in Nat
  <2>1. value \in Nat
    BY GovernorAssumption
  <2>2. QED
    BY <2>1 DEF Forwarded
<1>10. /\ n > 0 /\ ~settled[ballot.id] /\ ~receipts[ballot.id][v].hasVoted
       /\ n = ProvenVotes(accounts, ballot.startBlock)
       /\ DelegatedTo(v, accounts, ballot.startBlock)
       /\ spent <= govBalance + value
       /\ synced' = [synced EXCEPT ![k] = [ballot EXCEPT !.votes[s] = @ + n]]
       /\ receipts' = [receipts EXCEPT ![ballot.id][v] =
                        [hasVoted |-> TRUE, support |-> s, votes |-> n]]
       /\ govBalance' = AfterRefund(govBalance + value - spent, gas)
       /\ UNCHANGED <<settled, govConfig, sent, govTips>>
  BY DEF Vote, ReceiptOf, NotSettled
<1> HIDE DEF ballot, n, spent
<1>11. govBalance' \in Nat
  <2>1. govBalance \in Nat /\ value \in Nat /\ gas \in Nat
    BY <1>1, GovernorAssumption DEF TypeOK, GovTypeOK
  <2>2. govBalance + value - spent \in Nat
    BY <1>9, <1>10, <2>1
  <2>3. QED
    BY <1>10, <2>1, <2>2, MotivatorLeaves
<1>12. QED
  BY <1>2, <1>4, <1>5, <1>6, <1>7, <1>8, <1>10, <1>11 DEF Counted

\* A vote keeps the invariant: no ballot whose outcome was sent is touched, nor
\* does another key take its number.
LEMMA VoteInv ==
  ASSUME Inv, NEW v \in Voters, NEW k \in Props, NEW s \in Supports,
         NEW accounts \in ProofBatches, NEW value \in Fees, NEW gas \in GasCosts,
         NEW p \in (IF synced[k].id = 0 THEN Logs(k) ELSE {synced[k].id}),
         NEW b \in Mined, Vote(v, k, s, accounts, p, b, value, gas),
         UNCHANGED <<otherVars, relVars>>
  PROVE  Inv'
<1>1. /\ TypeOK /\ SyncedIsProposed /\ SentWasSettled /\ OwnOutcome
      /\ TipsAreCounted /\ RelayedIsProposed /\ RelayedVoteIsTheOutcome
  BY DEF Inv
<1>2. PICK ballot \in Ballot, n \in Nat : Counted(v, k, s, accounts, ballot, n)
  BY VoteEffect
<1> USE DEF Counted
<1> DEFINE new == [ballot EXCEPT !.votes[s] = @ + n]
<1>3. new \in Ballot /\ new.id = ballot.id
  BY DEF Ballot
<1>4. /\ synced' \in [Props -> Ballot]
      /\ synced'[k].id = ballot.id
      /\ \A q \in Props : q # k => synced'[q] = synced[q]
  BY <1>1, <1>2, <1>3 DEF TypeOK, GovTypeOK
<1>5. UNCHANGED <<block, proposalCount, proposals, enabled, lock,
                  maxLockDurationBlocks, relayed, relConfig, relBalance,
                  provable, requests, relTips>>
  BY DEF otherVars, daoVars, walletVars, relVars
<1> HIDE DEF new
<1>6. TypeOK'
  <2>1. receipts' \in [Props -> [Voters -> Receipt]]
    BY <1>1, <1>2 DEF TypeOK, GovTypeOK, Receipt
  <2>2. GovTypeOK'
    BY <1>1, <1>2, <1>4, <2>1 DEF TypeOK, GovTypeOK
  <2>3. QED
    BY <1>1, <1>5, <2>2 DEF TypeOK, DAOTypeOK, BaseTypeOK, RelTypeOK
<1>7. SyncedIsProposed'
  <2>1. ballot.id # 0
    BY <1>2 DEF Props
  <2>2. QED
    BY <1>1, <1>2, <1>4, <1>5, <2>1 DEF SyncedIsProposed, Proposed
<1>8. \A q \in Props : synced[q].id # 0 => synced'[q].id = synced[q].id
  BY <1>2, <1>4
<1>9. SentWasSettled'
  <2>1. ASSUME NEW m \in sent
        PROVE  \E q \in Props : synced'[q].id = m.proposal /\ settled[q]
    <3>1. PICK q \in Props : synced[q].id = m.proposal /\ settled[q]
      BY <1>1 DEF SentWasSettled
    <3>2. synced[q].id # 0
      BY <1>1, <3>1 DEF SyncedIsProposed
    <3>3. QED
      BY <1>8, <3>1, <3>2
  <2>2. QED
    BY <1>1, <1>2, <1>5, <2>1 DEF SentWasSettled
<1>10. OwnOutcome'
  <2> SUFFICES ASSUME NEW m \in sent, OwnKeyOnly(m.proposal)'
               PROVE  /\ m = OutcomeMessage(synced'[m.proposal])
                      /\ settled[m.proposal]
    BY <1>2 DEF OwnOutcome, OutcomeMessage
  <2> DEFINE j == m.proposal
  <2>1. j \in Props
    BY <1>1 DEF TypeOK, GovTypeOK, Message
  <2>2. PICK q \in Props : synced[q].id = j /\ settled[q]
    BY <1>1 DEF SentWasSettled
  <2>3. \A x \in Props : synced'[x].id = j <=> x = j
    BY DEF OwnKeyOnly
  <2>4. j # 0 /\ q = j
    BY <1>8, <2>1, <2>2, <2>3 DEF Props
  <2>5. ballot.id # j
    BY <1>2, <2>2, <2>4
  <2>6. k # j
    BY <1>4, <2>1, <2>3, <2>5
  <2>7. OwnKeyOnly(j)
    BY <1>2, <1>4, <2>2, <2>3, <2>4, <2>5, <2>6 DEF OwnKeyOnly
  <2>8. synced'[j] = synced[j]
    BY <1>4, <2>1, <2>6
  <2>9. QED
    BY <1>1, <2>7, <2>8 DEF OwnOutcome
<1>11. TipsAreCounted' /\ RelayedIsProposed' /\ RelayedVoteIsTheOutcome'
  BY <1>1, <1>2, <1>5
  DEF TipsAreCounted, RelayedIsProposed, RelayedVoteIsTheOutcome, Proposed
<1>12. QED
  BY <1>6, <1>7, <1>9, <1>10, <1>11 DEF Inv

\* Settling sends what the ballot says now and, from then on, says for ever.
LEMMA SettleVotesInv ==
  ASSUME Inv, NEW k \in Props, NEW b \in Mined, NEW gas \in GasCosts,
         SettleVotes(k, b, gas), UNCHANGED <<otherVars, relVars>>
  PROVE  Inv'
<1> DEFINE m0 == OutcomeMessage(synced[k])
<1>1. /\ TypeOK /\ SyncedIsProposed /\ SentWasSettled /\ OwnOutcome
      /\ TipsAreCounted /\ RelayedIsProposed /\ RelayedVoteIsTheOutcome
  BY DEF Inv
<1>2. /\ synced[k].id # 0
      /\ sent' = sent \cup {m0}
      /\ settled' = [settled EXCEPT ![k] = TRUE]
      /\ govTips' = [govTips EXCEPT ![k] = IF settled[k] THEN @ ELSE @ + 1]
      /\ UNCHANGED <<synced, receipts, govConfig>>
  BY DEF SettleVotes, TipDue
<1>3. UNCHANGED <<block, proposalCount, proposals, enabled, lock,
                  maxLockDurationBlocks, relayed, relConfig, relBalance,
                  provable, requests, relTips>>
  BY DEF otherVars, daoVars, walletVars, relVars
<1>4. m0 \in Message /\ m0.proposal = synced[k].id
  BY <1>1, <1>2 DEF OutcomeMessage, Message, TypeOK, GovTypeOK, Ballot
<1>5. govBalance' \in Nat
  <2> DEFINE tip == IF TipDue(k) THEN TipPaid(govBalance, govConfig.tipAmount) ELSE 0
  <2>1. govBalance \in Nat /\ govConfig.tipAmount \in Nat /\ gas \in Nat
    BY <1>1, GovernorAssumption DEF TypeOK, GovTypeOK, GovConfigType
  <2>2. govBalance - tip \in Nat
    <3>1. CASE TipDue(k)
      BY <2>1, <3>1, MotivatorLeaves
    <3>2. CASE ~TipDue(k)
      BY <2>1, <3>2
    <3>3. QED
      BY <3>1, <3>2
  <2>3. govBalance' = AfterRefund(govBalance - tip, gas)
    BY DEF SettleVotes
  <2> HIDE DEF tip
  <2>4. QED
    BY <2>1, <2>2, <2>3, MotivatorLeaves
<1> HIDE DEF m0
<1>6. TypeOK'
  <2>1. /\ settled' \in [Props -> BOOLEAN] /\ govTips' \in [Props -> Nat]
        /\ sent' \subseteq Message
    BY <1>1, <1>2, <1>4 DEF TypeOK, GovTypeOK
  <2>2. GovTypeOK'
    BY <1>1, <1>2, <1>5, <2>1 DEF TypeOK, GovTypeOK
  <2>3. QED
    BY <1>1, <1>3, <2>2 DEF TypeOK, DAOTypeOK, BaseTypeOK, RelTypeOK
<1>7. /\ settled'[k] /\ \A q \in Props : settled[q] => settled'[q]
      /\ \A q \in Props : q # k => settled'[q] = settled[q]
  BY <1>1, <1>2 DEF TypeOK, GovTypeOK
<1>8. SyncedIsProposed'
  BY <1>1, <1>2, <1>3, <1>7 DEF SyncedIsProposed, Proposed
<1>9. SentWasSettled'
  BY <1>1, <1>2, <1>3, <1>4, <1>7 DEF SentWasSettled
<1>10. OwnOutcome'
  <2> SUFFICES ASSUME NEW m \in sent', OwnKeyOnly(m.proposal)'
               PROVE  /\ m = OutcomeMessage(synced[m.proposal])
                      /\ settled'[m.proposal]
    BY <1>2 DEF OwnOutcome, OutcomeMessage
  <2>1. m.proposal \in Props /\ OwnKeyOnly(m.proposal)
    BY <1>2, <1>6 DEF OwnKeyOnly, TypeOK, GovTypeOK, Message
  <2>2. CASE m \in sent
    BY <1>1, <1>7, <2>1, <2>2 DEF OwnOutcome
  <2>3. CASE m = m0
    <3>1. k = m.proposal
      BY <1>4, <2>1, <2>3 DEF OwnKeyOnly
    <3>2. QED
      BY <1>7, <2>3, <3>1 DEF m0
  <2>4. QED
    BY <1>2, <2>2, <2>3
<1>11. TipsAreCounted'
  BY <1>1, <1>2, <1>3, <1>7 DEF TipsAreCounted, TypeOK, GovTypeOK
<1>12. RelayedIsProposed' /\ RelayedVoteIsTheOutcome'
  BY <1>1, <1>3 DEF RelayedIsProposed, RelayedVoteIsTheOutcome, Proposed
<1>13. QED
  BY <1>6, <1>8, <1>9, <1>10, <1>11, <1>12 DEF Inv
-----------------------------------------------------------------------------
\* A vote that is relayed is one some proven message asks for, ties and all.
LEMMA RelayInv ==
  ASSUME Inv, NEW m \in provable, NEW gas \in RelayGas, Relay(m, gas)
  PROVE  Inv'
<1> DEFINE p == m.proposal
           s == Support(m.votes)
           q == [proposals[p] EXCEPT !.hasVoted = TRUE, !.support = s]
           tip == Min({relConfig.tipAmount, relBalance})
<1>1. /\ TypeOK /\ SyncedIsProposed /\ SentWasSettled /\ OwnOutcome
      /\ TipsAreCounted /\ RelayedIsProposed /\ RelayedVoteIsTheOutcome
  BY DEF Inv
<1>2. /\ ~relayed[p]
      /\ proposals' = [proposals EXCEPT ![p] = q]
      /\ relayed' = [relayed EXCEPT ![p] = TRUE]
      /\ relTips' = [relTips EXCEPT ![p] = @ + 1]
      /\ relBalance' = relBalance - tip - Min({gas, relBalance - tip})
      /\ UNCHANGED <<proposalCount, relConfig, provable, requests>>
  BY DEF Relay, RelayVotes, NotYetRelayed, ExecuteVote, BaseVotes, SetProposal
<1>3. UNCHANGED <<block, enabled, lock, maxLockDurationBlocks, synced, receipts,
                  settled, govConfig, govBalance, sent, govTips>>
  BY DEF Relay, walletVars, govVars
<1>4. m \in Message /\ p \in Props /\ m.votes \in [Supports -> Nat]
  BY <1>1 DEF TypeOK, GovTypeOK, SentWasSettled, Message
<1>5. s \in Supports /\ Promise!Wins(m.votes, s)
  BY <1>4, SupportWins
<1>6. p \in Proposed
  <2>1. PICK k \in Props : synced[k].id = p
    BY <1>1 DEF SentWasSettled
  <2>2. QED
    BY <1>1, <1>4, <2>1 DEF SyncedIsProposed, Props
<1>7. q \in Proposal /\ q.hasVoted /\ q.support = s
  BY <1>1, <1>4, <1>5 DEF TypeOK, DAOTypeOK, Proposal
<1>8. relBalance' \in Nat
  <2>1. relConfig.tipAmount \in Nat /\ relBalance \in Nat /\ gas \in Nat
    BY <1>1, RelayerAssumption DEF TypeOK, RelTypeOK, RelConfigType
  <2>2. relBalance - tip \in Nat
    BY <2>1, MotivatorLeaves DEF TipPaid
  <2> HIDE DEF tip
  <2>3. (relBalance - tip) - Min({gas, relBalance - tip}) \in Nat
    BY <2>1, <2>2, MotivatorLeaves DEF AfterRefund
  <2>4. QED
    BY <1>2, <2>3
<1> HIDE DEF s, q, tip
<1>9. /\ proposals' \in [Props -> Proposal] /\ proposals'[p] = q
      /\ \A r \in Props : r # p => proposals'[r] = proposals[r]
      /\ relayed' \in [Props -> BOOLEAN] /\ relayed'[p]
      /\ \A r \in Props : r # p => relayed'[r] = relayed[r]
      /\ relTips' \in [Props -> Nat]
  BY <1>1, <1>2, <1>4, <1>7 DEF TypeOK, DAOTypeOK, RelTypeOK
<1>10. TypeOK'
  <2>1. DAOTypeOK'
    BY <1>1, <1>2, <1>9 DEF TypeOK, DAOTypeOK
  <2>2. RelTypeOK'
    BY <1>1, <1>2, <1>8, <1>9 DEF TypeOK, RelTypeOK
  <2>3. QED
    BY <1>1, <1>3, <2>1, <2>2 DEF TypeOK, BaseTypeOK, GovTypeOK
<1>11. SyncedIsProposed' /\ SentWasSettled' /\ OwnOutcome'
  BY <1>1, <1>2, <1>3
  DEF SyncedIsProposed, SentWasSettled, OwnOutcome, OwnKeyOnly, OutcomeMessage,
      Proposed
<1>12. TipsAreCounted'
  BY <1>1, <1>2, <1>3, <1>4, <1>9 DEF TipsAreCounted, TypeOK, RelTypeOK
<1>13. RelayedIsProposed'
  BY <1>1, <1>2, <1>6, <1>9 DEF RelayedIsProposed, Proposed
<1>14. RelayedVoteIsTheOutcome'
  <2> SUFFICES ASSUME NEW r \in Props, relayed'[r]
               PROVE  /\ proposals'[r].hasVoted
                      /\ \E n \in provable :
                           /\ n.proposal = r
                           /\ Promise!Wins(n.votes, proposals'[r].support)
    BY <1>2 DEF RelayedVoteIsTheOutcome
  <2>1. CASE r = p
    BY <1>5, <1>7, <1>9, <2>1
  <2>2. CASE r # p
    BY <1>1, <1>9, <2>2 DEF RelayedVoteIsTheOutcome
  <2>3. QED
    BY <2>1, <2>2
<1>15. QED
  BY <1>10, <1>11, <1>12, <1>13, <1>14 DEF Inv
-----------------------------------------------------------------------------
\* What is left of the invariant when a step touches neither ballots nor what
\* was sent, relayed or tipped: the types, and the votes the wallet has cast.
LEMMA AroundBallots ==
  ASSUME Inv, TypeOK',
         UNCHANGED <<synced, settled, sent, govTips, relayed, relTips>>,
         provable \subseteq provable', provable' \subseteq sent,
         Proposed \subseteq Proposed',
         \A p \in Proposed : proposals[p].hasVoted =>
           /\ proposals'[p].hasVoted
           /\ proposals'[p].support = proposals[p].support
  PROVE  Inv'
<1>1. /\ TypeOK /\ SyncedIsProposed /\ SentWasSettled /\ OwnOutcome
      /\ TipsAreCounted /\ RelayedIsProposed /\ RelayedVoteIsTheOutcome
  BY DEF Inv
<1>2. SyncedIsProposed' /\ RelayedIsProposed'
  BY <1>1 DEF SyncedIsProposed, RelayedIsProposed
<1>3. SentWasSettled' /\ OwnOutcome'
  BY <1>1 DEF SentWasSettled, OwnOutcome, OwnKeyOnly, OutcomeMessage
<1>4. TipsAreCounted'
  BY <1>1 DEF TipsAreCounted
<1>5. RelayedVoteIsTheOutcome'
  <2> SUFFICES ASSUME NEW p \in Props, relayed[p]
               PROVE  /\ proposals'[p].hasVoted
                      /\ \E m \in provable' :
                           /\ m.proposal = p
                           /\ Promise!Wins(m.votes, proposals'[p].support)
    BY DEF RelayedVoteIsTheOutcome
  <2>1. p \in Proposed
    BY <1>1 DEF RelayedIsProposed
  <2>2. PICK m \in provable :
          m.proposal = p /\ Promise!Wins(m.votes, proposals[p].support)
    BY <1>1 DEF RelayedVoteIsTheOutcome
  <2>3. /\ proposals'[p].hasVoted
        /\ proposals'[p].support = proposals[p].support
    BY <1>1, <2>1 DEF RelayedVoteIsTheOutcome
  <2>4. QED
    BY <2>2, <2>3
<1>6. QED
  BY <1>2, <1>3, <1>4, <1>5 DEF Inv

\* A batch that is executed on L1 makes provable what was sent.
LEMMA FinalizeInv == ASSUME Inv, NEW m \in sent, Finalize(m) PROVE Inv'
<1>1. TypeOK /\ SentWasSettled
  BY DEF Inv
<1>2. /\ UNCHANGED <<block, proposalCount, proposals, enabled, lock,
                     maxLockDurationBlocks, synced, receipts, settled, govConfig,
                     govBalance, sent, govTips, relayed, relConfig, relBalance,
                     requests, relTips>>
      /\ provable' = provable \cup {m}
  BY DEF Finalize, otherVars, daoVars, walletVars, govVars
<1>3. TypeOK'
  BY <1>1, <1>2
  DEF TypeOK, DAOTypeOK, BaseTypeOK, GovTypeOK, RelTypeOK
<1>4. QED
  BY <1>1, <1>2, <1>3, AroundBallots DEF SentWasSettled, Proposed

\* The owner of the wallet reconfigures the relayer or asks for a call on L2.
LEMMA RelOwnerInv == ASSUME Inv, RelayerOwnerStep PROVE Inv'
<1>1. TypeOK /\ SentWasSettled
  BY DEF Inv
<1>2. UNCHANGED <<block, proposalCount, proposals, enabled, lock,
                  maxLockDurationBlocks, synced, receipts, settled, govConfig,
                  govBalance, sent, govTips>>
  BY DEF RelayerOwnerStep, otherVars, daoVars, walletVars, govVars
<1>3. UNCHANGED <<relayed, provable, relTips>> /\ RelTypeOK'
  <2>1. /\ relayed \in [Props -> BOOLEAN] /\ relConfig \in RelConfigType
        /\ relBalance \in Nat /\ relTips \in [Props -> Nat]
        /\ requests \in Seq([target : Governors, call : Calls])
    BY <1>1 DEF TypeOK, RelTypeOK
  <2>2. ASSUME NEW g \in Governors, NEW bps \in Quorums, RelSetConfig(g, bps)
        PROVE  UNCHANGED <<relayed, provable, relTips>> /\ RelTypeOK'
    <3>1. relConfig' \in RelConfigType
      BY <2>1, <2>2, RelayerAssumption DEF RelSetConfig, RelConfigType
    <3>2. QED
      BY <2>1, <2>2, <3>1 DEF RelSetConfig, RelTypeOK
  <2>3. ASSUME NEW tip \in Tips, RelSetMotivatorConfig(tip)
        PROVE  UNCHANGED <<relayed, provable, relTips>> /\ RelTypeOK'
    <3>1. relConfig' \in RelConfigType
      BY <2>1, <2>3, RelayerAssumption DEF RelSetMotivatorConfig, RelConfigType
    <3>2. QED
      BY <2>1, <2>3, <3>1 DEF RelSetMotivatorConfig, RelTypeOK
  <2>4. ASSUME NEW amount \in Withdrawals, RelWithdraw(amount)
        PROVE  UNCHANGED <<relayed, provable, relTips>> /\ RelTypeOK'
    <3>1. relBalance' \in Nat
      BY <2>1, <2>4, RelayerAssumption DEF RelWithdraw
    <3>2. QED
      BY <2>1, <2>4, <3>1 DEF RelWithdraw, RelTypeOK
  <2>5. ASSUME NEW call \in Calls, Request(call)
        PROVE  UNCHANGED <<relayed, provable, relTips>> /\ RelTypeOK'
    <3>1. [target |-> relConfig.governor, call |-> call]
            \in [target : Governors, call : Calls]
      BY <2>1 DEF RelConfigType
    <3>2. requests' \in Seq([target : Governors, call : Calls])
      BY <2>1, <2>5, <3>1, AppendProperties DEF Request
    <3>3. QED
      BY <2>1, <2>5, <3>2 DEF Request, RelTypeOK
  <2>6. QED
    BY <2>2, <2>3, <2>4, <2>5 DEF RelayerOwnerStep, RelOwnerNext
<1>4. TypeOK'
  BY <1>1, <1>2, <1>3 DEF TypeOK, DAOTypeOK, BaseTypeOK, GovTypeOK
<1>5. QED
  BY <1>1, <1>2, <1>3, <1>4, AroundBallots DEF SentWasSettled, Proposed

\* A call from L1 changes the governor's configuration or its ETH, no ballot.
LEMMA DeliverInv == ASSUME Inv, Deliver PROVE Inv'
<1>1. TypeOK /\ SentWasSettled
  BY DEF Inv
<1>2. /\ UNCHANGED <<block, proposalCount, proposals, enabled, lock,
                     maxLockDurationBlocks, relayed, relConfig, relBalance,
                     provable, relTips>>
      /\ requests # <<>> /\ requests' = Tail(requests)
  BY DEF Deliver, otherVars, daoVars, walletVars
<1>3. requests \in Seq([target : Governors, call : Calls])
  BY <1>1 DEF TypeOK, RelTypeOK
<1>4. Head(requests).call \in Calls
  <2>1. Head(requests) \in [target : Governors, call : Calls]
    BY <1>2, <1>3, HeadTailProperties
  <2> DEFINE first == Head(requests)
  <2> HIDE DEF first
  <2>2. first \in [target : Governors, call : Calls]
    BY <2>1 DEF first
  <2>3. first.call \in Calls
    BY <2>2
  <2>4. QED
    BY <2>3 DEF first
<1>5. requests' \in Seq([target : Governors, call : Calls])
  BY <1>2, <1>3, HeadTailProperties
<1> DEFINE call == Head(requests).call
<1>6. /\ UNCHANGED <<synced, receipts, settled, sent, govTips>>
      /\ govConfig' \in GovConfigType /\ govBalance' \in Nat
  <2>1. govConfig \in GovConfigType /\ govBalance \in Nat
    BY <1>1 DEF TypeOK, GovTypeOK
  <2>2. CASE /\ call.op = "setConfig"
             /\ GovSetConfig(call.castWindow, call.finalityBlocks)
    <3>1. call.castWindow \in Nat /\ call.finalityBlocks \in Nat
      BY <1>4, <2>2, CompositionAssumption
    <3> HIDE DEF call
    <3>2. QED
      BY <2>1, <2>2, <3>1 DEF GovSetConfig, GovConfigType
  <2>3. CASE call.op = "setMotivatorConfig" /\ GovSetMotivatorConfig(call.tip)
    <3>1. call.tip \in Nat
      BY <1>4, <2>3, CompositionAssumption
    <3> HIDE DEF call
    <3>2. QED
      BY <2>1, <2>3, <3>1 DEF GovSetMotivatorConfig, GovConfigType
  <2>4. CASE call.op = "withdraw" /\ GovWithdraw(call.amount)
    <3>1. call.amount \in Nat
      BY <1>4, <2>4, CompositionAssumption
    <3> HIDE DEF call
    <3>2. QED
      BY <2>1, <2>4, <3>1 DEF GovWithdraw
  <2>5. CASE UNCHANGED govVars
    BY <2>1, <2>5 DEF govVars
  <2>6. QED
    BY <2>2, <2>3, <2>4, <2>5 DEF Deliver, RunCall
<1> HIDE DEF call
<1>7. TypeOK'
  BY <1>1, <1>2, <1>5, <1>6
  DEF TypeOK, DAOTypeOK, BaseTypeOK, GovTypeOK, RelTypeOK
<1>8. QED
  BY <1>1, <1>2, <1>6, <1>7, AroundBallots DEF SentWasSettled, Proposed
-----------------------------------------------------------------------------
\* One proposal of the DAO changes, but not the vote the wallet cast on it.
LEMMA OneProposal ==
  ASSUME Inv, NEW p \in Proposed, NEW q \in Proposal, SetProposal(p, q),
         UNCHANGED <<block, walletVars, govVars, relVars>>,
         proposals[p].hasVoted => q.hasVoted /\ q.support = proposals[p].support
  PROVE  Inv'
<1>1. TypeOK /\ SentWasSettled
  BY DEF Inv
<1>2. p \in Props /\ \A r \in Proposed : r \in Props
  BY <1>1, DAOAssumption DEF TypeOK, DAOTypeOK, Proposed, Props
<1>3. /\ UNCHANGED <<block, enabled, lock, maxLockDurationBlocks, proposalCount>>
      /\ UNCHANGED <<synced, receipts, settled, govConfig, govBalance, sent,
                     govTips>>
      /\ UNCHANGED <<relayed, relConfig, relBalance, provable, requests, relTips>>
  BY DEF SetProposal, walletVars, govVars, relVars
<1>4. /\ proposals' \in [Props -> Proposal] /\ proposals'[p] = q
      /\ \A r \in Props : r # p => proposals'[r] = proposals[r]
  BY <1>1, <1>2 DEF TypeOK, DAOTypeOK, SetProposal
<1>5. TypeOK'
  BY <1>1, <1>3, <1>4
  DEF TypeOK, DAOTypeOK, BaseTypeOK, GovTypeOK, RelTypeOK
<1>6. \A r \in Proposed : proposals[r].hasVoted =>
        /\ proposals'[r].hasVoted
        /\ proposals'[r].support = proposals[r].support
  BY <1>2, <1>4
<1>7. QED
  BY <1>1, <1>3, <1>5, <1>6, AroundBallots DEF SentWasSettled, Proposed

\* A new proposal: the wallet has not voted on it.
LEMMA ProposeInv ==
  ASSUME Inv, NEW passed \in BOOLEAN, DAOStep(Propose(passed))
  PROVE  Inv'
<1> DEFINE n == proposalCount + 1
           end == block + VotingDelay + VotingPeriod
           q == [NoProposal EXCEPT !.creationBlock = block,
                                   !.startBlock = block + VotingDelay,
                                   !.endBlock = end,
                                   !.passed = passed]
<1>1. TypeOK /\ SentWasSettled
  BY DEF Inv
<1>2. /\ proposalCount < MaxProposals /\ end < MaxBlock
      /\ proposalCount' = n /\ proposals' = [proposals EXCEPT ![n] = q]
      /\ UNCHANGED <<block, enabled, lock, maxLockDurationBlocks>>
      /\ UNCHANGED <<synced, receipts, settled, govConfig, govBalance, sent,
                     govTips>>
      /\ UNCHANGED <<relayed, relConfig, relBalance, provable, requests, relTips>>
  BY DEF DAOStep, Propose, walletVars, govVars, relVars
<1>3. /\ block + VotingDelay \in Blocks /\ end \in Blocks /\ block \in Blocks
  BY <1>1, <1>2, DAOAssumption, MaxBlockAssumption DEF TypeOK, Blocks
<1>4. q \in Proposal
  <2>1. NoProposal \in Proposal
    BY MaxBlockAssumption DEF NoProposal, Proposal, Blocks, Supports
  <2> HIDE DEF end
  <2> DEFINE start == block + VotingDelay
  <2> HIDE DEF start
  <2>2. [NoProposal EXCEPT !.creationBlock = block, !.startBlock = start,
                           !.endBlock = end, !.passed = passed] \in Proposal
    BY <1>3, <2>1, Zenon DEF Proposal, start
  <2>3. QED
    BY <2>2 DEF start
<1>5. n \in Props /\ \A r \in Proposed : r \in Props /\ r # n /\ r \in 1..n
  BY <1>1, <1>2, DAOAssumption DEF TypeOK, DAOTypeOK, Proposed, Props
<1> HIDE DEF q, end
<1>6. /\ proposals' \in [Props -> Proposal] /\ proposalCount' \in 0..MaxProposals
      /\ \A r \in Proposed : proposals'[r] = proposals[r] /\ r \in Proposed'
  BY <1>1, <1>2, <1>4, <1>5, DAOAssumption DEF TypeOK, DAOTypeOK, Proposed
<1>7. TypeOK'
  BY <1>1, <1>2, <1>6 DEF TypeOK, DAOTypeOK, BaseTypeOK, GovTypeOK, RelTypeOK
<1>8. QED
  BY <1>1, <1>2, <1>6, <1>7, AroundBallots DEF SentWasSettled

\* Cancellation, veto, queueing, execution and expiry leave receipts alone.
LEMMA DAOProgressInv ==
  ASSUME Inv, NEW p \in Proposed,
         DAOStep(Cancel(p) \/ Veto(p) \/ Queue(p) \/ Execute(p) \/ Lapse(p))
  PROVE  Inv'
<1>1. proposals[p] \in Proposal
  BY DAOAssumption DEF Inv, TypeOK, DAOTypeOK, Proposed, Props
<1>2. UNCHANGED <<block, walletVars, govVars, relVars>>
  BY DEF DAOStep
<1>3. PICK q \in {[proposals[p] EXCEPT !.canceled = TRUE],
                  [proposals[p] EXCEPT !.vetoed = TRUE],
                  [proposals[p] EXCEPT !.queue = "queued"],
                  [proposals[p] EXCEPT !.executed = TRUE],
                  [proposals[p] EXCEPT !.queue = "lapsed"]} : SetProposal(p, q)
  BY DEF DAOStep, Cancel, Veto, Queue, Execute, Lapse
<1>4. /\ q \in Proposal
      /\ q.hasVoted = proposals[p].hasVoted /\ q.support = proposals[p].support
  BY <1>1, <1>3 DEF Proposal
<1>5. QED
  BY <1>2, <1>3, <1>4, OneProposal

\* Another module votes only where the wallet has not voted yet.
LEMMA RivalVoteInv ==
  ASSUME Inv, NEW m \in Modules, NEW p \in Proposed, NEW s \in RivalSupports,
         DAOStep(RivalVote(m, p, s))
  PROVE  Inv'
<1> DEFINE q == [proposals[p] EXCEPT !.hasVoted = TRUE, !.support = s]
<1>1. proposals[p] \in Proposal
  BY DAOAssumption DEF Inv, TypeOK, DAOTypeOK, Proposed, Props
<1>2. UNCHANGED <<block, walletVars, govVars, relVars>>
  BY DEF DAOStep
<1>3. SetProposal(p, q) /\ ~proposals[p].hasVoted
  BY DEF DAOStep, RivalVote, BaseVotes
<1>4. q \in Proposal
  BY <1>1, CompositionAssumption DEF Proposal
<1>5. QED
  BY <1>1, <1>2, <1>3, <1>4, OneProposal DEF Proposal

\* Time passes, the DAO moves on, the owner switches modules.
LEMMA EnvInv == ASSUME Inv, EnvNext PROVE Inv'
<1>1. TypeOK /\ SentWasSettled
  BY DEF Inv
<1>2. CASE MineBlock
  <2>1. /\ UNCHANGED <<proposalCount, proposals, enabled, lock,
                       maxLockDurationBlocks>>
        /\ UNCHANGED <<synced, receipts, settled, govConfig, govBalance, sent,
                       govTips>>
        /\ UNCHANGED <<relayed, relConfig, relBalance, provable, requests,
                       relTips>>
    BY <1>2 DEF MineBlock, daoVars, walletVars, govVars, relVars
  <2>2. block' \in Blocks
    BY <1>1, <1>2, MaxBlockAssumption DEF MineBlock, Mine, TypeOK, Blocks
  <2>3. TypeOK'
    BY <1>1, <2>1, <2>2
    DEF TypeOK, DAOTypeOK, BaseTypeOK, GovTypeOK, RelTypeOK
  <2>4. QED
    BY <1>1, <2>1, <2>3, AroundBallots DEF SentWasSettled, Proposed
<1>3. CASE DAOStep(DAOMoves)
  <2>1. CASE \E passed \in Results : DAOStep(Propose(passed))
    BY <2>1, ProposeInv, CompositionAssumption
  <2>2. CASE \E p \in Proposed :
               DAOStep(Cancel(p) \/ Veto(p) \/ Queue(p) \/ Execute(p) \/ Lapse(p))
    BY <2>2, DAOProgressInv
  <2>3. QED
    BY <1>3, <2>1, <2>2 DEF DAOStep, DAOMoves
<1>4. CASE \E m \in Modules \ {Relayer}, p \in Proposed, s \in RivalSupports :
             DAOStep(RivalVote(m, p, s))
  BY <1>4, RivalVoteInv
<1>5. CASE OwnerStep
  <2>1. /\ UNCHANGED <<block, proposalCount, proposals>>
        /\ UNCHANGED <<synced, receipts, settled, govConfig, govBalance, sent,
                       govTips>>
        /\ UNCHANGED <<relayed, relConfig, relBalance, provable, requests,
                       relTips>>
    BY <1>5 DEF OwnerStep, daoVars, govVars, relVars
  <2>2. BaseTypeOK'
    BY <1>1, <1>5, BaseAssumption
    DEF OwnerStep, BaseOwnerNext, SetModule, SetMaxLockDurationBlocks,
        BaseTypeOK, TypeOK
  <2>3. TypeOK'
    BY <1>1, <2>1, <2>2 DEF TypeOK, DAOTypeOK, GovTypeOK, RelTypeOK
  <2>4. QED
    BY <1>1, <2>1, <2>3, AroundBallots DEF SentWasSettled, Proposed
<1>6. QED
  BY <1>2, <1>3, <1>4, <1>5 DEF EnvNext

\* No step breaks the invariant.
LEMMA NextInv == Inv /\ [Next]_vars => Inv'
<1> SUFFICES ASSUME Inv, [Next]_vars PROVE Inv'
  OBVIOUS
<1>1. CASE GovernorStep
  BY <1>1, VoteInv, SettleVotesInv DEF GovernorStep, GovNext
<1>2. CASE \E m \in provable, gas \in RelayGas : Relay(m, gas)
  BY <1>2, RelayInv
<1>3. CASE RelayerOwnerStep
  BY <1>3, RelOwnerInv
<1>4. CASE \E m \in sent : Finalize(m)
  BY <1>4, FinalizeInv
<1>5. CASE Deliver
  BY <1>5, DeliverInv
<1>6. CASE EnvNext
  BY <1>6, EnvInv
<1>7. CASE UNCHANGED vars
  <2>1. /\ UNCHANGED <<block, proposalCount, proposals, enabled, lock,
                       maxLockDurationBlocks>>
        /\ UNCHANGED <<synced, receipts, settled, govConfig, govBalance, sent,
                       govTips>>
        /\ UNCHANGED <<relayed, relConfig, relBalance, provable, requests,
                       relTips>>
    BY <1>7 DEF vars, otherVars, daoVars, walletVars, govVars, relVars
  <2>2. TypeOK /\ SentWasSettled
    BY DEF Inv
  <2>3. TypeOK'
    BY <2>1, <2>2 DEF TypeOK, DAOTypeOK, BaseTypeOK, GovTypeOK, RelTypeOK
  <2>4. QED
    BY <2>1, <2>2, <2>3, AroundBallots DEF SentWasSettled, Proposed
<1>8. QED
  BY <1>1, <1>2, <1>3, <1>4, <1>5, <1>6, <1>7 DEF Next
-----------------------------------------------------------------------------
\* The inductive invariant holds in every reachable state.
THEOREM InvHolds == Spec => []Inv
<1>1. QED
  BY InitInv, NextInv, PTL DEF Spec

\* Every variable keeps its type, and no balance becomes negative.
THEOREM TypeCorrect == Spec => []TypeOK
<1>1. Inv => TypeOK
  BY DEF Inv
<1>2. QED
  BY <1>1, InvHolds, PTL

\* A vote the relayer cast follows a proven message (NounsRelayer.sol:73-112).
THEOREM RelayedVotesAreOutcomes == Spec => []RelayedVoteIsTheOutcome
<1>1. Inv => RelayedVoteIsTheOutcome
  BY DEF Inv
<1>2. QED
  BY <1>1, InvHolds, PTL

\* A proposal counted under its own number has one outcome, however often it
\* is settled (NounsGovernor.sol:100,146-165).
THEOREM OutcomesAgree == Spec => []OneOutcome
<1>1. Inv => OneOutcome
  BY DEF Inv, OwnOutcome, OneOutcome
<1>2. QED
  BY <1>1, InvHolds, PTL

\* Settling and relaying a proposal are tipped at most once
\* (NounsGovernor.sol:163, NounsRelayer.sol:73,114).
THEOREM TipsArePaidOnce == Spec => []OneTipEach
<1>1. Inv => OneTipEach
  BY DEF Inv, TipsAreCounted, OneTipEach
<1>2. QED
  BY <1>1, InvHolds, PTL
-----------------------------------------------------------------------------
(***************************************************************************)
(* What a step may never do.                                               *)
(***************************************************************************)
\* Ballots and receipts change by votes only, and SettleVotes alone settles.
LEMMA OnlyTheGovernorCounts ==
  ASSUME [Next]_vars
  PROVE  UNCHANGED <<synced, receipts, settled>> \/ GovernorStep
BY DEF Next, vars, Relay, RelayerOwnerStep, Finalize, Deliver, RunCall,
       GovSetConfig, GovSetMotivatorConfig, GovWithdraw, EnvNext, MineBlock,
       DAOStep, OwnerStep, govVars

\* What a vote that is counted leaves alone (NounsGovernor.sol:79,100).
LEMMA VoteStands ==
  ASSUME Inv, NEW v \in Voters, NEW k \in Props, NEW s \in Supports,
         NEW accounts \in ProofBatches, NEW value \in Fees, NEW gas \in GasCosts,
         NEW p \in (IF synced[k].id = 0 THEN Logs(k) ELSE {synced[k].id}),
         NEW b \in Mined, Vote(v, k, s, accounts, p, b, value, gas),
         NEW q \in Props, settled[q]
  PROVE  /\ KeysOf(q)' = KeysOf(q)
         /\ \A x \in KeysOf(q) : synced'[x].votes = synced[x].votes
<1>1. PICK ballot \in Ballot, n \in Nat : Counted(v, k, s, accounts, ballot, n)
  BY VoteEffect
<1> USE DEF Counted
<1>2. synced \in [Props -> Ballot]
  BY DEF Inv, TypeOK, GovTypeOK
<1>3. /\ synced'[k].id = ballot.id
      /\ \A x \in Props : x # k => synced'[x] = synced[x]
  BY <1>1, <1>2 DEF Ballot
<1>4. ballot.id # q /\ q # 0
  BY <1>1 DEF Props
<1>5. synced[k].id # q
  BY <1>1, <1>4
<1>6. QED
  BY <1>3, <1>4, <1>5 DEF KeysOf

\* Once a proposal is settled under its number its tallies stand
\* (NounsGovernor.sol:79,100).
THEOREM SettledTalliesStand == Spec => SettledStands
<1>1. ASSUME Inv, [Next]_vars PROVE TalliesStand
  <2>1. CASE UNCHANGED <<synced, receipts, settled>>
    BY <2>1 DEF TalliesStand, KeysOf
  <2>2. CASE GovernorStep
    <3>1. CASE \E k \in Props, b \in Mined, gas \in GasCosts :
                 SettleVotes(k, b, gas)
      BY <3>1 DEF SettleVotes, TalliesStand, KeysOf
    <3>2. QED
      BY <1>1, <2>2, <3>1, VoteStands
      DEF GovernorStep, GovNext, TalliesStand
  <2>3. QED
    BY <1>1, <2>1, <2>2, OnlyTheGovernorCounts
<1>2. Inv /\ [Next]_vars => [TalliesStand]_vars
  BY <1>1
<1>3. QED
  BY <1>2, InvHolds, PTL DEF Spec, SettledStands

\* No ballot is settled before the block its configuration, as it is then,
\* leaves to finality and the cast window (NounsGovernor.sol:146-150).
THEOREM NeverSettledEarly == Spec => NotSettledEarly
<1> DEFINE Late ==
      \A k \in Props : settled'[k] /\ ~settled[k] =>
        block > synced[k].endBlock
                  - (govConfig.finalityBlocks + govConfig.castWindow)
<1>1. ASSUME Inv, [Next]_vars PROVE Late
  <2>1. CASE UNCHANGED <<synced, receipts, settled>>
    BY <2>1
  <2>2. CASE GovernorStep
    <3>1. ASSUME NEW k \in Props, NEW b \in Mined, NEW gas \in GasCosts,
                 SettleVotes(k, b, gas)
          PROVE  Late
      <4>1. /\ block \in Nat /\ synced[k].endBlock \in Int
            /\ govConfig.finalityBlocks \in Nat /\ govConfig.castWindow \in Nat
            /\ settled \in [Props -> BOOLEAN]
        BY <1>1 DEF Inv, TypeOK, GovTypeOK, Blocks, Ballot, GovConfigType
      <4>2. b \in Int /\ b < block
        BY <4>1 DEF Mined
      <4>3. block > synced[k].endBlock
                      - (govConfig.finalityBlocks + govConfig.castWindow)
        BY <3>1, <4>1, <4>2 DEF SettleVotes, SettlesFrom
      <4>4. settled' = [settled EXCEPT ![k] = TRUE]
        BY <3>1 DEF SettleVotes
      <4>5. QED
        BY <4>1, <4>3, <4>4
    <3>2. CASE \E v \in Voters, k \in Props, s \in Supports,
                  accounts \in ProofBatches, value \in Fees, gas \in GasCosts :
                 \E p \in IF synced[k].id = 0 THEN Logs(k) ELSE {synced[k].id},
                    b \in Mined : Vote(v, k, s, accounts, p, b, value, gas)
      BY <3>2 DEF Vote
    <3>3. QED
      BY <2>2, <3>1, <3>2 DEF GovernorStep, GovNext
  <2>3. QED
    BY <1>1, <2>1, <2>2, OnlyTheGovernorCounts
<1>2. Inv /\ [Next]_vars => [Late]_vars
  BY <1>1
<1>3. QED
  BY <1>2, InvHolds, PTL DEF Spec, NotSettledEarly
-----------------------------------------------------------------------------
(***************************************************************************)
(* Tallies and receipts.  Each of the two sums TallyMatchesReceipts        *)
(* compares is one over a fixed set, in which a vote changes one summand.  *)
(***************************************************************************)
\* What each key adds to the tally of side s of proposal p, and each voter.
Tallied(y, p, s) ==
    [k \in Props |-> IF y[k].id = p THEN y[k].votes[s] ELSE 0]

Received(r, p, s) ==
    [v \in Voters |->
       IF r[p][v].hasVoted /\ r[p][v].support = s THEN r[p][v].votes ELSE 0]

\* There are finitely many proposals.
LEMMA PropsAreFinite == IsFiniteSet(Props)
<1>1. 1 \in Int /\ MaxProposals \in Int
  BY DAOAssumption
<1>2. QED
  BY <1>1, FS_Interval DEF Props

\* A tally is a sum over all keys.
LEMMA SumOfTallied ==
  ASSUME NEW y \in [Props -> Ballot], NEW p \in Props, NEW s \in Supports
  PROVE  /\ \A k \in Props : Tallied(y, p, s)[k] \in Int
         /\ SumFunctionOnSet([k \in Props |-> y[k].votes[s]],
                             {k \in Props : y[k].id = p})
              = SumFunctionOnSet(Tallied(y, p, s), Props)
<1> DEFINE votes == [k \in Props |-> y[k].votes[s]]
           keys == {k \in Props : y[k].id = p}
           tallied == Tallied(y, p, s)
<1>1. /\ \A k \in Props : votes[k] \in Int
      /\ \A k \in Props : tallied[k] = IF k \in keys THEN votes[k] ELSE 0
  BY DEF Tallied, Ballot
<1>2. keys \in SUBSET Props
  OBVIOUS
<1>3. IsFiniteSet(Props)
  BY PropsAreFinite
<1> HIDE DEF votes, keys, tallied
<1>4. SumFunctionOnSet(votes, keys) = SumFunctionOnSet(tallied, Props)
  <2>1. \A k \in keys : votes[k] \in Int
    BY <1>1, <1>2
  <2>2. QED
    BY <1>1, <1>2, <1>3, <2>1, SumOfSelected
<1>5. \A k \in Props : tallied[k] \in Int
  BY <1>1
<1>6. QED
  BY <1>4, <1>5 DEF votes, keys, tallied

\* What the receipts show is a sum over all voters.
LEMMA SumOfReceived ==
  ASSUME NEW r \in [Props -> [Voters -> Receipt]], NEW p \in Props,
         NEW s \in Supports
  PROVE  /\ \A v \in Voters : Received(r, p, s)[v] \in Int
         /\ SumFunctionOnSet([v \in Voters |-> r[p][v].votes],
                             {v \in Voters : r[p][v].hasVoted /\ r[p][v].support = s})
              = SumFunctionOnSet(Received(r, p, s), Voters)
<1> DEFINE votes == [v \in Voters |-> r[p][v].votes]
           them == {v \in Voters : r[p][v].hasVoted /\ r[p][v].support = s}
           received == Received(r, p, s)
<1>1. /\ \A v \in Voters : votes[v] \in Int
      /\ \A v \in Voters : received[v] = IF v \in them THEN votes[v] ELSE 0
  BY DEF Received, Receipt
<1>2. them \in SUBSET Voters
  OBVIOUS
<1>3. IsFiniteSet(Voters)
  BY GovernorAssumption
<1> HIDE DEF votes, them, received
<1>4. SumFunctionOnSet(votes, them) = SumFunctionOnSet(received, Voters)
  <2>1. \A v \in them : votes[v] \in Int
    BY <1>1, <1>2
  <2>2. QED
    BY <1>1, <1>2, <1>3, <2>1, SumOfSelected
<1>5. \A v \in Voters : received[v] \in Int
  BY <1>1
<1>6. QED
  BY <1>4, <1>5 DEF votes, them, received

\* What a tally shows and what the receipts show, before a step and after it.
LEMMA TallyMeans ==
  ASSUME TypeOK, TypeOK'
  PROVE  /\ TallyMatchesReceipts <=>
              \A p \in Props, s \in Supports :
                SumFunctionOnSet(Tallied(synced, p, s), Props)
                  = SumFunctionOnSet(Received(receipts, p, s), Voters)
         /\ TallyMatchesReceipts' <=>
              \A p \in Props, s \in Supports :
                SumFunctionOnSet(Tallied(synced', p, s), Props)
                  = SumFunctionOnSet(Received(receipts', p, s), Voters)
<1>1. /\ synced \in [Props -> Ballot] /\ receipts \in [Props -> [Voters -> Receipt]]
      /\ synced' \in [Props -> Ballot] /\ receipts' \in [Props -> [Voters -> Receipt]]
  BY DEF TypeOK, GovTypeOK
<1>2. \A p \in Props, s \in Supports :
        /\ SumFunctionOnSet([k \in Props |-> synced[k].votes[s]], KeysOf(p))
             = SumFunctionOnSet(Tallied(synced, p, s), Props)
        /\ SumFunctionOnSet([v \in Voters |-> receipts[p][v].votes], VotersFor(p, s))
             = SumFunctionOnSet(Received(receipts, p, s), Voters)
  <2> TAKE p \in Props, s \in Supports
  <2>1. SumFunctionOnSet([k \in Props |-> synced[k].votes[s]],
                         {k \in Props : synced[k].id = p})
          = SumFunctionOnSet(Tallied(synced, p, s), Props)
    BY <1>1, SumOfTallied
  <2>2. SumFunctionOnSet(
          [v \in Voters |-> receipts[p][v].votes],
          {v \in Voters : receipts[p][v].hasVoted /\ receipts[p][v].support = s})
          = SumFunctionOnSet(Received(receipts, p, s), Voters)
    BY <1>1, SumOfReceived
  <2>3. QED
    BY <2>1, <2>2 DEF KeysOf, VotersFor
<1>3. \A p \in Props, s \in Supports :
        /\ SumFunctionOnSet([k \in Props |-> synced'[k].votes[s]], KeysOf(p)')
             = SumFunctionOnSet(Tallied(synced', p, s), Props)
        /\ SumFunctionOnSet([v \in Voters |-> receipts'[p][v].votes],
                            VotersFor(p, s)')
             = SumFunctionOnSet(Received(receipts', p, s), Voters)
  BY <1>1, SumOfTallied, SumOfReceived DEF KeysOf, VotersFor
<1>4. QED
  BY <1>2, <1>3 DEF TallyMatchesReceipts

\* A vote adds as much to one tally as to the voter's receipt: the key it names
\* was synced to that proposal before, or had no votes; the voter had no receipt.
LEMMA VoteTallies ==
  ASSUME Inv, TypeOK', TallyMatchesReceipts,
         NEW v \in Voters, NEW k \in Props, NEW s \in Supports,
         NEW accounts \in ProofBatches, NEW ballot \in Ballot, NEW n \in Nat,
         Counted(v, k, s, accounts, ballot, n)
  PROVE  TallyMatchesReceipts'
<1> SUFFICES ASSUME NEW p \in Props, NEW t \in Supports
             PROVE  SumFunctionOnSet(Tallied(synced', p, t), Props)
                      = SumFunctionOnSet(Received(receipts', p, t), Voters)
  BY TallyMeans DEF Inv
<1> DEFINE old == Tallied(synced, p, t)
           new == Tallied(synced', p, t)
           had == Received(receipts, p, t)
           has == Received(receipts', p, t)
           more == IF p = ballot.id /\ t = s THEN n ELSE 0
<1>1. /\ TypeOK /\ SyncedIsProposed
      /\ synced \in [Props -> Ballot] /\ synced' \in [Props -> Ballot]
      /\ receipts \in [Props -> [Voters -> Receipt]]
      /\ receipts' \in [Props -> [Voters -> Receipt]]
  BY DEF Inv, TypeOK, GovTypeOK
<1>2. /\ synced'[k].id = ballot.id
      /\ synced'[k].votes = [synced[k].votes EXCEPT ![s] = @ + n]
      /\ \A q \in Props : q # k => synced'[q] = synced[q]
  BY <1>1 DEF Counted, Ballot
<1>3. /\ synced[k].votes \in [Supports -> Nat]
      /\ synced[k].id \in {0, ballot.id} /\ p # 0
      /\ synced[k].id = 0 => synced[k].votes[t] = 0
  BY <1>1 DEF Counted, Ballot, SyncedIsProposed, NoVotes, Props
<1>4. new[k] = old[k] + more
  <2>1. /\ old[k] = IF synced[k].id = p THEN synced[k].votes[t] ELSE 0
        /\ new[k] = IF ballot.id = p
                    THEN synced[k].votes[t] + (IF t = s THEN n ELSE 0) ELSE 0
    BY <1>2, <1>3 DEF Tallied
  <2>2. synced[k].votes[t] \in Nat
    BY <1>3
  <2> HIDE DEF old, new
  <2>3. QED
    BY <1>3, <2>1, <2>2
<1>5. has[v] = had[v] + more
  <2>1. /\ receipts'[p][v] = IF p = ballot.id
                             THEN [hasVoted |-> TRUE, support |-> s, votes |-> n]
                             ELSE receipts[p][v]
        /\ p = ballot.id => ~receipts[p][v].hasVoted
    BY <1>1 DEF Counted
  <2>2. CASE p = ballot.id
    BY <2>1, <2>2 DEF Received
  <2>3. CASE p # ballot.id
    <3>1. has[v] = had[v] /\ had[v] \in Int
      BY <1>1, <2>1, <2>3, SumOfReceived DEF Received
    <3> HIDE DEF has, had
    <3>2. QED
      BY <2>3, <3>1
  <2>4. QED
    BY <2>2, <2>3
<1>6. \A q \in Props : q # k => new[q] = old[q]
  BY <1>2 DEF Tallied
<1>7. \A w \in Voters : w # v => has[w] = had[w]
  BY <1>1 DEF Received, Counted
<1>8. /\ \A q \in Props : old[q] \in Int /\ new[q] \in Int
      /\ \A w \in Voters : had[w] \in Int /\ has[w] \in Int
  BY <1>1, SumOfTallied, SumOfReceived
<1>9. SumFunctionOnSet(old, Props) = SumFunctionOnSet(had, Voters)
  BY <1>1, TallyMeans
<1>10. IsFiniteSet(Props) /\ IsFiniteSet(Voters)
  BY PropsAreFinite, GovernorAssumption
<1> HIDE DEF old, new, had, has, more
<1>11. /\ SumFunctionOnSet(new, Props)
            = SumFunctionOnSet(old, Props) + (new[k] - old[k])
       /\ SumFunctionOnSet(has, Voters)
            = SumFunctionOnSet(had, Voters) + (has[v] - had[v])
  BY <1>6, <1>7, <1>8, <1>10, SumOfChanged
<1>12. new[k] - old[k] = has[v] - had[v]
  <2>1. more \in Int /\ old[k] \in Int /\ had[v] \in Int
    BY <1>8 DEF more
  <2>2. QED
    BY <1>4, <1>5, <2>1
<1>13. SumFunctionOnSet(new, Props) = SumFunctionOnSet(has, Voters)
  BY <1>9, <1>11, <1>12
<1>14. QED
  BY <1>13 DEF new, has

\* Whatever keys its votes are counted under, the tallies of a proposal are the
\* sum of its receipts, so each voter is counted once
\* (NounsGovernor.sol:98-121).
THEOREM TalliesMatchReceipts == Spec => []TallyMatchesReceipts
<1>1. Init => TallyMatchesReceipts
  <2> SUFFICES ASSUME Init PROVE TallyMatchesReceipts
    OBVIOUS
  <2>1. TypeOK
    BY InitInv DEF Inv
  <2>2. /\ \A k \in Props : synced[k].id = 0
        /\ \A p \in Props, v \in Voters : ~receipts[p][v].hasVoted
    BY DEF Init, GovInit, NoBallot, NoReceipt
  <2>3. \A p \in Props, s \in Supports : KeysOf(p) = {} /\ VotersFor(p, s) = {}
    BY <2>2 DEF KeysOf, VotersFor, Props
  <2>4. QED
    BY <2>3, SumOfNone DEF TallyMatchesReceipts
<1>2. ASSUME Inv, TallyMatchesReceipts, [Next]_vars
      PROVE  TallyMatchesReceipts'
  <2>1. Inv' /\ TypeOK'
    BY <1>2, NextInv DEF Inv
  <2>2. CASE UNCHANGED <<synced, receipts, settled>>
    BY <1>2, <2>2 DEF TallyMatchesReceipts, KeysOf, VotersFor
  <2>3. CASE GovernorStep
    <3>1. CASE \E k \in Props, b \in Mined, gas \in GasCosts :
                 SettleVotes(k, b, gas)
      BY <1>2, <3>1 DEF SettleVotes, TallyMatchesReceipts, KeysOf, VotersFor
    <3>2. QED
      BY <1>2, <2>1, <2>3, <3>1, VoteEffect, VoteTallies
      DEF GovernorStep, GovNext
  <2>4. QED
    BY <1>2, <2>2, <2>3, OnlyTheGovernorCounts
<1>3. QED
  BY <1>1, <1>2, InvHolds, PTL DEF Spec
-----------------------------------------------------------------------------
(***************************************************************************)
(* Receipts and stake.  The governor adds up what it is shown, whichever   *)
(* accounts that is about: the theorem needs that no account is shown to   *)
(* it twice in one vote, and the run counted_twice shows that it does.     *)
(***************************************************************************)
NoAccountTwice == \A accounts \in ProofBatches : IsInjective(accounts)

\* What is shown of accounts that delegate to v is part of what v's delegates
\* hold (NounsGovernor.sol:228-308).
LEMMA ProvenWithinStake ==
  ASSUME NoAccountTwice, NEW accounts \in ProofBatches, NEW b \in Blocks,
         NEW v, DelegatedTo(v, accounts, b)
  PROVE  ProvenVotes(accounts, b)
           <= SumFunctionOnSet([o \in Members |-> Stake[b][o].balance],
                               {o \in Members : Stake[b][o].delegate = v})
<1> DEFINE shown == [i \in DOMAIN accounts |-> Stake[b][accounts[i]].balance]
           held == [o \in Members |-> Stake[b][o].balance]
           I == DOMAIN accounts
           named == {accounts[i] : i \in I}
           mine == {o \in Members : Stake[b][o].delegate = v}
<1>1. accounts \in Seq(Members) /\ IsInjective(accounts)
  BY GovernorAssumption DEF NoAccountTwice
<1>2. /\ I = 1..Len(accounts) /\ Len(accounts) \in Nat
      /\ \A i \in I : accounts[i] \in Members
  BY <1>1
<1>3. IsFiniteSet(I)
  BY <1>2, FS_Interval
<1>4. \A o \in Members : held[o] \in Nat
  BY GovernorAssumption
<1>5. \A i \in I : shown[i] \in Int /\ held[accounts[i]] = shown[i]
  BY <1>2, <1>4
<1>6. \A i, j \in I : accounts[i] = accounts[j] => i = j
  BY <1>1 DEF IsInjective
<1>7. named \in SUBSET mine
  BY <1>2 DEF DelegatedTo
<1>8. IsFiniteSet(mine) /\ \A o \in mine : held[o] \in Nat
  BY <1>4, GovernorAssumption, FS_Subset
<1>9. ProvenVotes(accounts, b) = SumFunctionOnSet(shown, I)
  BY DEF ProvenVotes, SumFunction
<1> HIDE DEF shown, held, I, mine
<1>10. SumFunctionOnSet(held, named) = SumFunctionOnSet(shown, I)
  BY <1>3, <1>5, <1>6, SumOfImage
<1> HIDE DEF named
<1>11. SumFunctionOnSet(held, named) <= SumFunctionOnSet(held, mine)
  BY <1>7, <1>8, SumOfPart
<1>12. QED
  BY <1>9, <1>10, <1>11 DEF held, mine

\* A proposal that was made keeps the block in which voting on it starts.
LEMMA StartsStay ==
  ASSUME Inv, [Next]_vars, NEW p \in Proposed
  PROVE  p \in Proposed' /\ proposals'[p].startBlock = proposals[p].startBlock
<1>1. /\ proposals \in [Props -> Proposal] /\ proposalCount \in Nat
      /\ \A r \in Proposed : r \in Props
  BY DAOAssumption DEF Inv, TypeOK, DAOTypeOK, Proposed, Props
<1>2. ASSUME NEW r \in Proposed, NEW q,
             SetProposal(r, q), q.startBlock = proposals[r].startBlock
      PROVE  p \in Proposed' /\ proposals'[p].startBlock = proposals[p].startBlock
  BY <1>1, <1>2 DEF SetProposal, Proposed
<1>3. ASSUME NEW r \in Proposed, NEW s \in Supports, BaseVotes(r, s)
      PROVE  p \in Proposed' /\ proposals'[p].startBlock = proposals[p].startBlock
  <2>1. SetProposal(r, [proposals[r] EXCEPT !.hasVoted = TRUE, !.support = s])
    BY <1>3 DEF BaseVotes
  <2>2. [proposals[r] EXCEPT !.hasVoted = TRUE, !.support = s].startBlock
          = proposals[r].startBlock
    BY <1>1 DEF Proposal
  <2>3. QED
    BY <1>2, <2>1, <2>2
<1>4. CASE \E passed \in Results : Propose(passed)
  <2>1. p # proposalCount + 1 /\ p \in 1..(proposalCount + 1)
    BY <1>1 DEF Proposed
  <2>2. QED
    BY <1>1, <1>4, <2>1 DEF Propose, Proposed
<1>5. ASSUME NEW r \in Proposed,
             Queue(r) \/ Execute(r) \/ Lapse(r) \/ Cancel(r) \/ Veto(r)
      PROVE  p \in Proposed' /\ proposals'[p].startBlock = proposals[p].startBlock
  <2>1. PICK q \in {[proposals[r] EXCEPT !.canceled = TRUE],
                    [proposals[r] EXCEPT !.vetoed = TRUE],
                    [proposals[r] EXCEPT !.queue = "queued"],
                    [proposals[r] EXCEPT !.executed = TRUE],
                    [proposals[r] EXCEPT !.queue = "lapsed"]} : SetProposal(r, q)
    BY <1>5 DEF Cancel, Veto, Queue, Execute, Lapse
  <2>2. q.startBlock = proposals[r].startBlock
    BY <1>1, <2>1 DEF Proposal
  <2>3. QED
    BY <1>2, <2>1, <2>2
<1>6. CASE DAOStep(DAOMoves)
  BY <1>4, <1>5, <1>6 DEF DAOStep, DAOMoves
<1>7. CASE \E m \in Modules \ {Relayer}, r \in Proposed, s \in RivalSupports :
             DAOStep(RivalVote(m, r, s))
  BY <1>3, <1>7, CompositionAssumption DEF DAOStep, RivalVote
<1>8. CASE \E m \in provable, gas \in RelayGas : Relay(m, gas)
  <2>1. PICK m \in provable, gas \in RelayGas : Relay(m, gas)
    BY <1>8
  <2>2. m.votes \in [Supports -> Nat] /\ BaseVotes(m.proposal, Support(m.votes))
    BY <2>1 DEF Relay, RelayVotes, ExecuteVote, Inv, SentWasSettled, TypeOK,
                GovTypeOK, Message
  <2>3. m.proposal \in Proposed
    <3>1. PICK k \in Props : synced[k].id = m.proposal
      BY DEF Inv, SentWasSettled
    <3>2. m.proposal \in Props
      BY DEF Inv, SentWasSettled, TypeOK, GovTypeOK, Message
    <3>3. QED
      BY <3>1, <3>2 DEF Inv, SyncedIsProposed, Props
  <2>4. QED
    BY <1>3, <2>2, <2>3, SupportWins
<1>9. CASE UNCHANGED daoVars
  BY <1>9 DEF daoVars, Proposed
<1>10. QED
  BY <1>6, <1>7, <1>8, <1>9
  DEF Next, vars, otherVars, GovernorStep, RelayerOwnerStep, Finalize, Deliver,
      EnvNext, MineBlock, OwnerStep

\* Ballots start when voting on their proposals starts.
BallotsStartOnTime ==
    \A k \in Props : synced[k].id # 0 =>
      synced[k].startBlock = proposals[synced[k].id].startBlock

\* There are receipts only on proposals that were made.
ReceiptsOfProposals ==
    \A p \in Props, v \in Voters : receipts[p][v].hasVoted => p \in Proposed

StakeInv == BallotsStartOnTime /\ ReceiptsOfProposals /\ ReceiptsWithinStake

\* Steps that take no vote leave ballots and receipts as they are.
LEMMA StakesStand ==
  ASSUME Inv, [Next]_vars, StakeInv, UNCHANGED <<synced, receipts>>
  PROVE  StakeInv'
<1>1. \A p \in Proposed : /\ p \in Proposed'
                          /\ proposals'[p].startBlock = proposals[p].startBlock
  BY StartsStay
<1>2. BallotsStartOnTime'
  BY <1>1 DEF StakeInv, BallotsStartOnTime, Inv, SyncedIsProposed
<1>3. ReceiptsOfProposals'
  BY <1>1 DEF StakeInv, ReceiptsOfProposals
<1>4. ReceiptsWithinStake'
  <2> SUFFICES ASSUME NEW p \in Props, NEW v \in Voters, receipts'[p][v].hasVoted
               PROVE  receipts'[p][v].votes <= StakeOf(v, p)'
    BY DEF ReceiptsWithinStake
  <2>1. proposals'[p].startBlock = proposals[p].startBlock
    BY <1>1 DEF StakeInv, ReceiptsOfProposals
  <2>2. StakeOf(v, p)' = StakeOf(v, p)
    BY <2>1 DEF StakeOf
  <2>3. QED
    BY <2>2 DEF StakeInv, ReceiptsWithinStake
<1>5. QED
  BY <1>2, <1>3, <1>4 DEF StakeInv

\* A vote leaves a receipt within the stake of its voter.
LEMMA VoteWithinStake ==
  ASSUME NoAccountTwice, Inv, [Next]_vars, StakeInv, UNCHANGED proposals,
         NEW v \in Voters, NEW k \in Props, NEW s \in Supports,
         NEW accounts \in ProofBatches, NEW ballot \in Ballot, NEW n \in Nat,
         Counted(v, k, s, accounts, ballot, n)
  PROVE  StakeInv'
<1>1. /\ \A p \in Proposed : p \in Proposed'
      /\ ballot.id \in Proposed /\ ballot.id \in Props
  BY StartsStay DEF Counted
<1>2. /\ synced \in [Props -> Ballot]
      /\ receipts \in [Props -> [Voters -> Receipt]]
  BY DEF Inv, TypeOK, GovTypeOK
<1>3. ballot.startBlock \in Blocks
      /\ ballot.startBlock = proposals[ballot.id].startBlock
  <2>1. ballot.startBlock \in Blocks
    BY DEF Ballot
  <2>2. synced[k].id # 0 => ballot.startBlock = proposals[ballot.id].startBlock
    BY DEF Counted, StakeInv, BallotsStartOnTime
  <2>3. QED
    BY <2>1, <2>2 DEF Counted
<1>4. /\ synced'[k].id = ballot.id /\ synced'[k].startBlock = ballot.startBlock
      /\ \A q \in Props : q # k => synced'[q] = synced[q]
  BY <1>2 DEF Counted, Ballot
<1>5. BallotsStartOnTime'
  BY <1>3, <1>4 DEF StakeInv, BallotsStartOnTime
<1>6. \A p \in Props, w \in Voters :
        receipts'[p][w] = IF p = ballot.id /\ w = v
                          THEN [hasVoted |-> TRUE, support |-> s, votes |-> n]
                          ELSE receipts[p][w]
  BY <1>2 DEF Counted
<1>7. ReceiptsOfProposals'
  BY <1>1, <1>6 DEF StakeInv, ReceiptsOfProposals
<1>8. n <= StakeOf(v, ballot.id)
  BY <1>3, ProvenWithinStake DEF Counted, StakeOf
<1>9. \A p \in Props, w \in Voters : StakeOf(w, p)' = StakeOf(w, p)
  BY DEF StakeOf
<1>10. ReceiptsWithinStake'
  <2> SUFFICES ASSUME NEW p \in Props, NEW w \in Voters, receipts'[p][w].hasVoted
               PROVE  receipts'[p][w].votes <= StakeOf(w, p)
    BY <1>9 DEF ReceiptsWithinStake
  <2>1. CASE p = ballot.id /\ w = v
    BY <1>6, <1>8, <2>1
  <2>2. CASE ~(p = ballot.id /\ w = v)
    BY <1>6, <2>2 DEF StakeInv, ReceiptsWithinStake
  <2>3. QED
    BY <2>1, <2>2
<1>11. QED
  BY <1>5, <1>7, <1>10 DEF StakeInv

\* As long as no account is shown twice in one vote, no receipt shows more votes
\* than its voter had when voting started in the DAO (NounsGovernor.sol:228-308).
THEOREM VotesAreWithinStake ==
  ASSUME NoAccountTwice PROVE Spec => []ReceiptsWithinStake
<1>1. Init => StakeInv
  <2> SUFFICES ASSUME Init PROVE StakeInv
    OBVIOUS
  <2>1. /\ \A k \in Props : synced[k].id = 0
        /\ \A p \in Props, v \in Voters : ~receipts[p][v].hasVoted
    BY DEF Init, GovInit, NoBallot, NoReceipt
  <2>2. QED
    BY <2>1 DEF StakeInv, BallotsStartOnTime, ReceiptsOfProposals,
                ReceiptsWithinStake
<1>2. ASSUME Inv, StakeInv, [Next]_vars
      PROVE  StakeInv'
  <2>1. CASE UNCHANGED <<synced, receipts, settled>>
    BY <1>2, <2>1, StakesStand
  <2>2. CASE GovernorStep
    <3>1. CASE \E k \in Props, b \in Mined, gas \in GasCosts :
                 SettleVotes(k, b, gas)
      BY <1>2, <3>1, StakesStand DEF SettleVotes
    <3>2. UNCHANGED proposals
      BY <2>2 DEF GovernorStep, otherVars, daoVars
    <3>3. QED
      BY <1>2, <2>2, <3>1, <3>2, VoteEffect, VoteWithinStake
      DEF GovernorStep, GovNext
  <2>3. QED
    BY <1>2, <2>1, <2>2, OnlyTheGovernorCounts
<1>3. StakeInv => ReceiptsWithinStake
  BY DEF StakeInv
<1>4. QED
  BY <1>1, <1>2, <1>3, InvHolds, PTL DEF Spec
-----------------------------------------------------------------------------
(***************************************************************************)
(* Two chains keep the promise of one ballot per proposal, as long as      *)
(* callers name the proposal whose log they prove.                         *)
(***************************************************************************)
OwnSyncs == Syncs \subseteq {<<p, p>> : p \in Props}

\* Every proposal is then counted under its own number.
OwnKeys == \A k \in Props : synced[k].id \in {0, k}

\* A vote is counted on the open ballot of the key it names.
LEMMA VoteCounts ==
  ASSUME Inv, OwnSyncs, OwnKeys, NEW v \in Voters, NEW k \in Props,
         NEW s \in Supports, NEW accounts \in ProofBatches, NEW value \in Fees,
         NEW gas \in GasCosts,
         NEW p \in (IF synced[k].id = 0 THEN Logs(k) ELSE {synced[k].id}),
         NEW b \in Mined, Vote(v, k, s, accounts, p, b, value, gas),
         UNCHANGED <<otherVars, relVars>>
  PROVE  Promise!BallotsNext /\ OwnKeys'
<1>1. PICK ballot \in Ballot, n \in Nat : Counted(v, k, s, accounts, ballot, n)
  BY VoteEffect
<1> USE DEF Counted
<1>2. synced \in [Props -> Ballot]
  BY DEF Inv, TypeOK, GovTypeOK
<1>3. ballot.id = k
  BY <1>1 DEF OwnSyncs, OwnKeys
<1> DEFINE new == [ballot EXCEPT !.votes[s] = @ + n]
           before == [q \in Props |-> synced[q].votes]
           after == [q \in Props |-> synced'[q].votes]
<1>4. /\ new.id = k /\ new.votes = [synced[k].votes EXCEPT ![s] = @ + n]
  BY <1>1, <1>3 DEF Ballot
<1>5. /\ synced'[k].id = k
      /\ synced'[k].votes = [synced[k].votes EXCEPT ![s] = @ + n]
      /\ \A q \in Props : q # k => synced'[q] = synced[q]
  BY <1>1, <1>2, <1>4
<1> HIDE DEF new
<1>6. OwnKeys'
  BY <1>5 DEF OwnKeys
<1>7. synced[k].votes \in [Supports -> Nat]
  BY <1>2 DEF Ballot
<1>8. after[k][s] = before[k][s] + n
  BY <1>5, <1>7
<1>9. after = [before EXCEPT ![k][s] = @ + n]
  BY <1>5
<1>10. before[k][s] \in Nat
  BY <1>7
<1>11. after[k][s] > before[k][s] /\ after[k][s] - before[k][s] = n
  BY <1>1, <1>8, <1>10
<1> HIDE DEF before, after
<1>12. after = [before EXCEPT ![k][s] = @ + (after[k][s] - before[k][s])]
  BY <1>9, <1>11
<1>13. ~settled[k] /\ UNCHANGED settled /\ UNCHANGED RelayedVote
  BY <1>1, <1>3 DEF otherVars, daoVars, relVars, RelayedVote
<1>14. Promise!CountSome(k, s)
  BY <1>11, <1>12, <1>13 DEF Promise!CountSome, Promise!Count, before, after
<1>15. QED
  BY <1>6, <1>14 DEF Promise!BallotsNext, Supports, Promise!Choices

\* Settling closes the ballot, or says once more what it said.
LEMMA SettleCloses ==
  ASSUME Inv, NEW k \in Props, NEW b \in Mined, NEW gas \in GasCosts,
         SettleVotes(k, b, gas), UNCHANGED <<otherVars, relVars>>
  PROVE  Promise!BallotsNext \/ UNCHANGED Promise!ballotVars
<1>1. /\ UNCHANGED synced /\ settled' = [settled EXCEPT ![k] = TRUE]
      /\ UNCHANGED RelayedVote
  BY DEF SettleVotes, otherVars, daoVars, relVars, RelayedVote
<1>2. settled \in [Props -> BOOLEAN]
  BY DEF Inv, TypeOK, GovTypeOK
<1>3. CASE settled[k]
  <2>1. settled' = settled
    BY <1>1, <1>2, <1>3
  <2>2. QED
    BY <1>1, <2>1 DEF Promise!ballotVars
<1>4. CASE ~settled[k]
  <2>1. Promise!Close(k)
    BY <1>1, <1>4 DEF Promise!Close
  <2>2. 0 \in Promise!Choices
    BY DEF Promise!Choices
  <2>3. QED
    BY <2>1, <2>2 DEF Promise!BallotsNext
<1>5. QED
  BY <1>3, <1>4

\* The message that is relayed shows the closed ballot of its proposal.
LEMMA RelayCasts ==
  ASSUME Inv, OwnKeys, NEW m \in provable, NEW gas \in RelayGas, Relay(m, gas)
  PROVE  Promise!BallotsNext
<1> DEFINE p == m.proposal
           s == Support(m.votes)
<1>1. /\ ~relayed[p]
      /\ proposals' = [proposals EXCEPT ![p] =
                         [proposals[p] EXCEPT !.hasVoted = TRUE, !.support = s]]
      /\ relayed' = [relayed EXCEPT ![p] = TRUE]
      /\ UNCHANGED <<synced, settled>>
  BY DEF Relay, RelayVotes, NotYetRelayed, ExecuteVote, BaseVotes, SetProposal,
         govVars
<1>2. m \in sent /\ m \in Message /\ p \in Props /\ m.votes \in [Supports -> Nat]
  BY DEF Inv, TypeOK, GovTypeOK, SentWasSettled, Message
<1>3. s \in Supports /\ Promise!Wins(m.votes, s)
  BY <1>2, SupportWins
<1>4. OwnKeyOnly(p)
  <2>1. PICK k \in Props : synced[k].id = p
    BY <1>2 DEF Inv, SentWasSettled
  <2>2. QED
    BY <1>2, <2>1 DEF OwnKeys, OwnKeyOnly, Props
<1>5. m.votes = synced[p].votes /\ settled[p]
  BY <1>2, <1>4 DEF Inv, OwnOutcome, OutcomeMessage
<1>6. /\ proposals \in [Props -> Proposal] /\ relayed \in [Props -> BOOLEAN]
  BY DEF Inv, TypeOK, DAOTypeOK, RelTypeOK
<1> HIDE DEF s
<1>7. proposals'[p].support = s
  BY <1>1, <1>2, <1>6 DEF Proposal
<1>8. RelayedVote' = [RelayedVote EXCEPT ![p] = s]
  BY <1>1, <1>2, <1>6, <1>7 DEF RelayedVote
<1>9. Promise!Cast(p, s)
  BY <1>1, <1>2, <1>3, <1>5, <1>8 DEF Promise!Cast, RelayedVote
<1>10. QED
  BY <1>2, <1>3, <1>9 DEF Promise!BallotsNext, Supports, Promise!Choices

\* No step takes back or changes a vote the wallet has cast.
LEMMA VotesStay ==
  ASSUME Inv, EnvNext, NEW p \in Proposed, proposals[p].hasVoted
  PROVE  proposals'[p].support = proposals[p].support
<1>1. /\ proposals \in [Props -> Proposal]
      /\ p \in Props /\ proposalCount \in Nat
      /\ \A r \in Proposed : r \in Props
  BY DAOAssumption DEF Inv, TypeOK, DAOTypeOK, Proposed, Props
<1>2. CASE MineBlock \/ OwnerStep
  BY <1>2 DEF MineBlock, OwnerStep, daoVars
<1>3. CASE \E passed \in Results : Propose(passed)
  <2>1. p # proposalCount + 1
    BY <1>1 DEF Proposed
  <2>2. QED
    BY <1>1, <1>3, <2>1 DEF Propose
<1>4. ASSUME NEW r \in Proposed,
             Queue(r) \/ Execute(r) \/ Lapse(r) \/ Cancel(r) \/ Veto(r)
      PROVE  proposals'[p].support = proposals[p].support
  <2>1. PICK q \in {[proposals[r] EXCEPT !.canceled = TRUE],
                    [proposals[r] EXCEPT !.vetoed = TRUE],
                    [proposals[r] EXCEPT !.queue = "queued"],
                    [proposals[r] EXCEPT !.executed = TRUE],
                    [proposals[r] EXCEPT !.queue = "lapsed"]} : SetProposal(r, q)
    BY <1>4 DEF Cancel, Veto, Queue, Execute, Lapse
  <2>2. q.support = proposals[r].support
    BY <1>1, <2>1 DEF Proposal
  <2>3. proposals' = [proposals EXCEPT ![r] = q]
    BY <2>1 DEF SetProposal
  <2>4. QED
    BY <1>1, <2>2, <2>3
<1>5. CASE \E m \in Modules \ {Relayer}, r \in Proposed, s \in RivalSupports :
             DAOStep(RivalVote(m, r, s))
  <2>1. PICK r \in Proposed, s \in RivalSupports : BaseVotes(r, s)
    BY <1>5 DEF DAOStep, RivalVote
  <2>2. p # r
    BY <2>1 DEF BaseVotes
  <2>3. QED
    BY <1>1, <2>1, <2>2 DEF BaseVotes, SetProposal
<1>6. QED
  BY <1>2, <1>3, <1>4, <1>5 DEF EnvNext, DAOStep, DAOMoves

\* Every other step leaves the ballots as they are.
LEMMA OthersStutter ==
  ASSUME Inv,
         RelayerOwnerStep \/ (\E m \in sent : Finalize(m)) \/ Deliver
           \/ EnvNext \/ UNCHANGED vars
  PROVE  UNCHANGED synced /\ UNCHANGED Promise!ballotVars
<1>1. UNCHANGED <<synced, settled, relayed>>
  <2>1. CASE RelayerOwnerStep
    BY <2>1 DEF RelayerOwnerStep, RelOwnerNext, RelSetConfig,
                RelSetMotivatorConfig, RelWithdraw, Request, govVars
  <2>2. CASE (\E m \in sent : Finalize(m)) \/ UNCHANGED vars
    BY <2>2 DEF Finalize, vars, govVars, relVars
  <2>3. CASE Deliver
    BY <2>3 DEF Deliver, RunCall, GovSetConfig, GovSetMotivatorConfig,
                GovWithdraw, govVars
  <2>4. CASE EnvNext
    BY <2>4 DEF EnvNext, MineBlock, DAOStep, OwnerStep, govVars, relVars
  <2>5. QED
    BY <2>1, <2>2, <2>3, <2>4
<1>2. ASSUME NEW p \in Props, relayed[p]
      PROVE  proposals'[p].support = proposals[p].support
  <2>1. p \in Proposed /\ proposals[p].hasVoted
    BY <1>2 DEF Inv, RelayedIsProposed, RelayedVoteIsTheOutcome
  <2>2. CASE EnvNext
    BY <2>1, <2>2, VotesStay
  <2>3. CASE ~EnvNext
    BY <2>3 DEF RelayerOwnerStep, Finalize, Deliver, vars, otherVars, daoVars
  <2>4. QED
    BY <2>2, <2>3
<1>3. UNCHANGED RelayedVote
  BY <1>1, <1>2 DEF RelayedVote
<1>4. QED
  BY <1>1, <1>3 DEF Promise!ballotVars

\* If callers name the proposals whose logs they prove, the two chains together
\* hold one ballot per proposal and cast what it says, once
\* (NounsGovernor.sol:72-165, NounsRelayer.sol:73-112).
THEOREM TwoChainsAreOneBallot == ASSUME OwnSyncs PROVE Spec => KeepsPromise
<1>1. Init => OwnKeys /\ Promise!BallotsInit
  BY DEF Init, GovInit, RelInit, OwnKeys, NoBallot, NoVotes, RelayedVote,
         Promise!BallotsInit, Promise!Choices, Supports
<1>2. ASSUME Inv, OwnKeys, [Next]_vars
      PROVE  OwnKeys' /\ (Promise!BallotsNext \/ UNCHANGED Promise!ballotVars)
  <2>1. CASE GovernorStep
    <3>1. CASE \E k \in Props, b \in Mined, gas \in GasCosts :
                 SettleVotes(k, b, gas)
      BY <1>2, <2>1, <3>1, SettleCloses DEF GovernorStep, SettleVotes, OwnKeys
    <3>2. QED
      BY <1>2, <2>1, <3>1, VoteCounts DEF GovernorStep, GovNext
  <2>2. CASE \E m \in provable, gas \in RelayGas : Relay(m, gas)
    BY <1>2, <2>2, RelayCasts DEF Relay, govVars, OwnKeys
  <2>3. CASE RelayerOwnerStep \/ (\E m \in sent : Finalize(m)) \/ Deliver
               \/ EnvNext \/ UNCHANGED vars
    BY <1>2, <2>3, OthersStutter DEF OwnKeys
  <2>4. QED
    BY <1>2, <2>1, <2>2, <2>3 DEF Next
<1>3. QED
  BY <1>1, <1>2, InvHolds, PTL DEF Spec, KeepsPromise, Promise!BallotsSpec
====
