---- MODULE MCL2Governance ----
(***************************************************************************)
(* Instances of L2Governance for TLC.                                      *)
(***************************************************************************)
EXTENDS L2Governance, TLC

CONSTANTS v1, v2, nobody, o1, o2, o3, governor, relayer, manager, rival

\* o2 moves from v2 to v1 after block 2; o3 never delegates to a voter.
MCStake ==
    [b \in Blocks |->
       o1 :> [balance |-> 2, delegate |-> v1]
       @@ o2 :> [balance |-> 2, delegate |-> IF b > 2 THEN v1 ELSE v2]
       @@ o3 :> [balance |-> 1, delegate |-> IF b > 2 THEN v2 ELSE nobody]]

MCTotalSupply == [b \in Blocks |-> 5]

\* Proofs of one account or of two different ones.
DistinctAccounts == {s \in SeqOf(Members, 2) : s # <<>> /\ IsInjective(s)}

\* Proofs of one account.
OneAccount == {<<o>> : o \in Members}

\* Any one or two accounts.
AnyAccounts == SeqOf(Members, 2) \ {<<>>}

OwnNumbers == {<<p, p>> : p \in Props}

AnyNumbers == Props \X Props

GovConfig == [castWindow |-> 1, finalityBlocks |-> 1, tipAmount |-> 2]

RelConfig == [governor |-> governor, quorumVotesBPS |-> 5000, tipAmount |-> 2]

FullQuorum == [RelConfig EXCEPT !.quorumVotesBPS = 10000]

\* The long window leaves an early ballot no block from which it can be settled,
\* and a late one the first.
OwnersCalls ==
    {[op |-> "setConfig", castWindow |-> 0, finalityBlocks |-> 0],
     [op |-> "setConfig", castWindow |-> 4, finalityBlocks |-> 1],
     [op |-> "setMotivatorConfig", tip |-> 0],
     [op |-> "withdraw", amount |-> 2]}
====
