---- MODULE Delegation ----
(***************************************************************************)
(* Where votes come from: the Nouns token (ERC721Checkpointable over       *)
(* ERC721, vendored under src/lib).  Holders delegate what they hold, the  *)
(* token keeps a trail of checkpoints for each delegate, and the pool asks *)
(* it how many votes the base wallet had in a block that is mined.         *)
(*                                                                         *)
(* The pool, however, pays those whose slot of _delegates, proven from     *)
(* storage, names the base wallet: the two views are related here.         *)
(***************************************************************************)
EXTENDS Chain, SequencesExt

CONSTANTS
    Accounts,
    Zero,           \* address(0)
    Base,           \* the base wallet, one of the accounts
    MaxNouns,       \* bound: Nouns minted
    Signatures      \* bound: delegations signed for delegateBySig

ASSUME DelegationAssumption ==
    /\ IsFiniteSet(Accounts)
    /\ Zero \notin Accounts
    /\ Base \in Accounts
    /\ MaxNouns \in Nat
    /\ Signatures \subseteq [by : Accounts, to : Accounts \cup {Zero},
                             nonce : Nat, expiry : Blocks]

Nouns == 1..MaxNouns
Holder == Accounts \cup {Zero}

VARIABLES
    minted,         \* _currentNounId, counted from 1
    owner,          \* _owners[n], Zero if n does not exist
    slot,           \* _delegates[a] as it lies in storage
    checkpoints,    \* checkpoints[a], as many as numCheckpoints[a]
    nonces,
    watched,        \* history: a block transactions go into, to be mined
    past            \* history: past[a], balance and slot of a when it ended

tokenVars == <<minted, owner, slot, checkpoints, nonces>>
history == <<watched, past>>
vars == <<block, tokenVars, history>>

Checkpoint == [fromBlock : Blocks, votes : 0..MaxNouns]
Holding == [balance : 0..MaxNouns, delegate : Holder]

TypeOK ==
    /\ block \in Blocks
    /\ minted \in 0..MaxNouns
    /\ owner \in [Nouns -> Holder]
    /\ slot \in [Accounts -> Holder]
    /\ checkpoints \in [Accounts -> Seq(Checkpoint)]
    /\ nonces \in [Accounts -> Nat]
    /\ watched \in Blocks
    /\ past \in [Accounts -> Holding]

NoHolding == [balance |-> 0, delegate |-> Zero]

Init ==
    /\ ChainInit
    /\ minted = 0
    /\ owner = [n \in Nouns |-> Zero]
    /\ slot = [a \in Accounts |-> Zero]
    /\ checkpoints = [a \in Accounts |-> <<>>]
    /\ nonces = [a \in Accounts |-> 0]
    /\ watched \in Blocks \ {0, MaxBlock}
    /\ past = [a \in Accounts |-> NoHolding]
-----------------------------------------------------------------------------
\* balanceOf, votesToDelegate
Balance(a) == Cardinality({n \in Nouns : owner[n] = a})

\* Fault: as in Comp.sol, who never delegated has no delegate.
StoredDelegate(a) == IF a = Zero THEN a ELSE slot[a]

\* Who never delegated, and address(0), is its own delegate.
Delegates(a) == IF a = Zero \/ slot[a] = Zero THEN a ELSE slot[a]

\* The votes of the last checkpoint.
CurrentVotes(cps) == IF cps = <<>> THEN 0 ELSE Last(cps).votes

\* Fault: every change is a checkpoint of its own.
CheckpointAppended(cps, votes) == Append(cps, [fromBlock |-> block, votes |-> votes])

\* A second change in a block replaces the checkpoint of the first.
WriteCheckpoint(cps, votes) ==
    LET new == [fromBlock |-> block, votes |-> votes]
    IN IF cps # <<>> /\ Last(cps).fromBlock = block
       THEN [cps EXCEPT ![Len(cps)] = new]
       ELSE Append(cps, new)

\* sub96 reverts on underflow.
CanMove(src, dst, amount) ==
    src # dst /\ src # Zero => amount <= CurrentVotes(checkpoints[src])

\* Fault: what src loses nobody gains.
VotesDropped(src, dst, amount) ==
    [a \in Accounts |->
       IF src = dst \/ amount = 0 \/ a # src THEN checkpoints[a]
       ELSE WriteCheckpoint(checkpoints[a], CurrentVotes(checkpoints[a]) - amount)]

\* Fault: what dst gains nobody loses.
VotesCreated(src, dst, amount) ==
    [a \in Accounts |->
       IF src = dst \/ amount = 0 \/ a # dst THEN checkpoints[a]
       ELSE WriteCheckpoint(checkpoints[a], CurrentVotes(checkpoints[a]) + amount)]

\* The trails after amount votes moved from one delegate to another.
VotesMoved(src, dst, amount) ==
    [a \in Accounts |->
       IF src = dst \/ amount = 0 \/ a \notin {src, dst}
       THEN checkpoints[a]
       ELSE WriteCheckpoint(checkpoints[a],
              CurrentVotes(checkpoints[a]) + (IF a = src THEN -amount ELSE amount))]

MoveDelegates(src, dst, amount) ==
    /\ CanMove(src, dst, amount)
    /\ checkpoints' = VotesMoved(src, dst, amount)
-----------------------------------------------------------------------------
\* _beforeTokenTransfer, then the owner changes.
Give(n, to) ==
    /\ MoveDelegates(Delegates(owner[n]), Delegates(to), 1)
    /\ owner' = [owner EXCEPT ![n] = to]
    /\ UNCHANGED <<block, slot, nonces, history>>

\* The new Noun goes to the minter or to the Nounders' DAO.
Mint(to) ==
    /\ minted < MaxNouns
    /\ minted' = minted + 1
    /\ Give(minted + 1, to)

Transfer(n, to) ==
    /\ owner[n] # Zero
    /\ Give(n, to)
    /\ UNCHANGED minted

Burn(n) ==
    /\ owner[n] # Zero
    /\ Give(n, Zero)
    /\ UNCHANGED minted

\* _delegate: the votes leave the delegate there was before.
SetDelegate(a, d) ==
    /\ slot' = [slot EXCEPT ![a] = d]
    /\ MoveDelegates(Delegates(a), d, Balance(a))
    /\ UNCHANGED <<block, minted, owner, history>>

\* To delegate to address(0) is to delegate to oneself.
Delegate(a, d) ==
    /\ SetDelegate(a, IF d = Zero THEN a ELSE d)
    /\ UNCHANGED nonces

\* Anybody may submit what `by' signed, once, in time; the block stands for
\* the timestamp.
DelegateBySig(sig) ==
    /\ sig.nonce = nonces[sig.by]
    /\ nonces' = [nonces EXCEPT ![sig.by] = @ + 1]
    /\ block <= sig.expiry
    /\ SetDelegate(sig.by, sig.to)

\* What storage proofs at the block that ends can show.
MineBlock ==
    /\ Mine
    /\ past' = IF block # watched THEN past
               ELSE [a \in Accounts |->
                       [balance |-> Balance(a), delegate |-> slot[a]]]
    /\ UNCHANGED <<tokenVars, watched>>

Next ==
    \/ \E to \in Accounts :
         \/ Mint(to)
         \/ \E n \in Nouns : Transfer(n, to)
    \/ \E n \in Nouns : Burn(n)
    \/ \E a \in Accounts, d \in Holder : Delegate(a, d)
    \/ \E sig \in Signatures : DelegateBySig(sig)
    \/ MineBlock

Spec == Init /\ [][Next]_vars
-----------------------------------------------------------------------------
\* Rounded up, so that a search that goes on from here is shorter.
Center(lower, upper) == upper - (upper - lower) \div 2

\* The binary search of getPriorVotes.
SearchVotes(cps, b) ==
    LET search[span \in (DOMAIN cps) \X (DOMAIN cps)] ==
          LET lower  == span[1]
              upper  == span[2]
              center == Center(lower, upper)
              cp     == cps[center]
          IN IF upper <= lower THEN cps[lower].votes
             ELSE IF cp.fromBlock = b THEN cp.votes
             ELSE IF cp.fromBlock < b THEN search[<<center, upper>>]
             ELSE search[<<lower, center - 1>>]
    IN search[<<1, Len(cps)>>]

\* getPriorVotes(a, b), which reverts unless b < block.
PriorVotes(a, b) ==
    LET cps == checkpoints[a] IN
    IF cps = <<>> THEN 0
    ELSE IF Last(cps).fromBlock <= b THEN Last(cps).votes
    ELSE IF Head(cps).fromBlock > b THEN 0
    ELSE SearchVotes(cps, b)

\* What the accounts in S held when the watched block ended.
HeldBy(S) == SumFunctionOnSet([a \in Accounts |-> past[a].balance], S)

\* Whose votes a had then.
RepresentedBy(a) ==
    {o \in Accounts : past[o].delegate = a \/ (o = a /\ past[o].delegate = Zero)}

\* The votes the token reports for a mined block are the Nouns that, when it
\* ended, were held by those a represented, however often they moved within
\* it and since (ERC721Checkpointable.sol:97-106, 163-251).
PriorVotesAreHoldings ==
    watched < block =>
      \A a \in Accounts : PriorVotes(a, watched) = HeldBy(RepresentedBy(a))

\* What the pool votes with and sells is claimed by those whose slot names the
\* base wallet, but for the Nouns of a base wallet that never delegated: their
\* share of every bid can be proven by nobody (Nouns.sol:237, 381-399).
UnclaimableIsBasesOwn ==
    LET provers == {o \in Accounts : past[o].delegate = Base}
        own     == IF past[Base].delegate = Zero THEN past[Base].balance ELSE 0
    IN watched < block => PriorVotes(Base, watched) - HeldBy(provers) = own

\* Votes never run short: whoever holds a Noun can pass it on or delegate it,
\* as long as nobody signs a delegation to address(0), which takes votes away
\* and gives them to nobody (ERC721Checkpointable.sol:143, 217-220, 273-280).
NobodyIsStuck ==
    \A a \in Accounts :
      Balance(a) <= CurrentVotes(checkpoints[Delegates(a)])

(***************************************************************************)
(* What makes the last property inductive.                                 *)
(***************************************************************************)
\* The Nouns d votes with.
Represented(d) == {n \in Nouns : owner[n] # Zero /\ Delegates(owner[n]) = d}

\* The last checkpoint of every trail counts them.
TrailsShowThem ==
    \A d \in Accounts :
      CurrentVotes(checkpoints[d]) = Cardinality(Represented(d))

Inv == TypeOK /\ TrailsShowThem
====
