---- MODULE DelegationProofs ----
(***************************************************************************)
(* The trails of checkpoints count what delegates represent, and the       *)
(* search of getPriorVotes finds what they counted in a block that is      *)
(* mined, for every number of accounts, Nouns, blocks and signatures.      *)
(***************************************************************************)
EXTENDS Delegation, Arithmetic, SequenceTheorems

\* Nobody signs a delegation to address(0).
SignedForAccounts == \A sig \in Signatures : sig.to \in Accounts

\* Any set of Nouns is finite and no larger than all of them.
LEMMA NounsAreFinite ==
  ASSUME NEW S \in SUBSET Nouns
  PROVE  IsFiniteSet(S) /\ Cardinality(S) \in 0..MaxNouns
<1>1. IsFiniteSet(Nouns) /\ Cardinality(Nouns) <= MaxNouns
  <2>1. MaxNouns \in Nat
    BY DelegationAssumption
  <2>2. /\ IsFiniteSet(1..MaxNouns)
        /\ Cardinality(1..MaxNouns) = IF 1 > MaxNouns THEN 0 ELSE MaxNouns - 1 + 1
    BY <2>1, FS_Interval
  <2>3. QED
    BY <2>1, <2>2 DEF Nouns
<1>2. IsFiniteSet(S) /\ Cardinality(S) <= Cardinality(Nouns)
  BY <1>1, FS_Subset
<1>3. Cardinality(S) \in Nat /\ Cardinality(Nouns) \in Nat
  BY <1>1, <1>2, FS_CardinalityType
<1>4. QED
  BY <1>1, <1>2, <1>3, DelegationAssumption

\* A trail shows what was last written to it, in a checkpoint of its own or in
\* place of one of the same block (ERC721Checkpointable.sol:243-248).
LEMMA Written ==
  ASSUME block \in Blocks, NEW cps \in Seq(Checkpoint), NEW votes \in 0..MaxNouns
  PROVE  /\ WriteCheckpoint(cps, votes) \in Seq(Checkpoint)
         /\ CurrentVotes(WriteCheckpoint(cps, votes)) = votes
<1> DEFINE new == [fromBlock |-> block, votes |-> votes]
<1>1. new \in Checkpoint /\ new.votes = votes
  BY DEF Checkpoint
<1>2. Len(cps) \in Nat
  BY LenProperties
<1> HIDE DEF new
<1>3. CASE cps # <<>> /\ Last(cps).fromBlock = block
  <2>1. Len(cps) \in 1..Len(cps)
    BY <1>2, <1>3, EmptySeq
  <2> DEFINE w == [cps EXCEPT ![Len(cps)] = new]
  <2>2. w \in Seq(Checkpoint) /\ Len(w) = Len(cps) /\ w[Len(cps)] = new
    BY <1>1, <2>1, ExceptSeq
  <2>3. w # <<>>
    BY <2>1, <2>2
  <2>4. WriteCheckpoint(cps, votes) = w
    BY <1>3 DEF WriteCheckpoint, new
  <2> HIDE DEF w
  <2>5. QED
    BY <1>1, <2>2, <2>3, <2>4 DEF CurrentVotes, Last
<1>4. CASE ~(cps # <<>> /\ Last(cps).fromBlock = block)
  <2> DEFINE w == Append(cps, new)
  <2>1. /\ w \in Seq(Checkpoint) /\ Len(w) = Len(cps) + 1
        /\ w[Len(cps) + 1] = new
    BY <1>1, AppendProperties
  <2>2. w # <<>>
    BY <1>2, <2>1
  <2>3. WriteCheckpoint(cps, votes) = w
    BY <1>4 DEF WriteCheckpoint, new
  <2> HIDE DEF w
  <2>4. QED
    BY <1>1, <2>1, <2>2, <2>3 DEF CurrentVotes, Last
<1>5. QED
  BY <1>3, <1>4

\* When the Nouns in S leave src for dst, their votes do.
LEMMA TrailsFollow ==
  ASSUME Inv, NEW src \in Holder, NEW dst \in Holder, NEW S \in SUBSET Nouns,
         checkpoints' = VotesMoved(src, dst, Cardinality(S)),
         src = dst => \A d \in Accounts : Represented(d)' = Represented(d),
         src # dst =>
           \A d \in Accounts :
             /\ d = src => S \subseteq Represented(d)
                           /\ Represented(d)' = Represented(d) \ S
             /\ d = dst => S \cap Represented(d) = {}
                           /\ Represented(d)' = Represented(d) \cup S
             /\ d \notin {src, dst} => Represented(d)' = Represented(d)
  PROVE  checkpoints' \in [Accounts -> Seq(Checkpoint)] /\ TrailsShowThem'
<1> SUFFICES ASSUME NEW d \in Accounts
             PROVE  /\ checkpoints'[d] \in Seq(Checkpoint)
                    /\ CurrentVotes(checkpoints'[d]) = Cardinality(Represented(d)')
  BY DEF TrailsShowThem, VotesMoved
<1> DEFINE amount == Cardinality(S)
           old == Represented(d)
           new == Represented(d)'
<1>1. /\ checkpoints[d] \in Seq(Checkpoint) /\ block \in Blocks
      /\ CurrentVotes(checkpoints[d]) = Cardinality(old)
  BY DEF Inv, TypeOK, TrailsShowThem
<1>2. old \in SUBSET Nouns /\ new \in SUBSET Nouns
  BY DEF Represented
<1>3. /\ IsFiniteSet(S) /\ amount \in Nat /\ (amount = 0 => S = {})
      /\ IsFiniteSet(old) /\ Cardinality(old) \in Nat
      /\ Cardinality(new) \in 0..MaxNouns
  BY <1>2, NounsAreFinite, FS_EmptySet
<1>4. CASE src = dst \/ amount = 0 \/ d \notin {src, dst}
  <2>1. checkpoints'[d] = checkpoints[d]
    BY <1>4 DEF VotesMoved
  <2>2. new = old
    BY <1>3, <1>4
  <2>3. QED
    BY <1>1, <2>1, <2>2
<1>5. CASE src # dst /\ amount # 0 /\ d = src
  <2>1. checkpoints'[d] = WriteCheckpoint(checkpoints[d],
                            CurrentVotes(checkpoints[d]) + (-amount))
    BY <1>5 DEF VotesMoved
  <2>2. new = old \ S /\ old \cap S = S
    BY <1>5
  <2>3. Cardinality(new) = Cardinality(old) - amount
    BY <1>3, <2>2, FS_Difference
  <2>4. CurrentVotes(checkpoints[d]) + (-amount) = Cardinality(new)
    BY <1>1, <1>3, <2>3
  <2>5. QED
    BY <1>1, <1>3, <2>1, <2>4, Written
<1>6. CASE src # dst /\ amount # 0 /\ d = dst
  <2>1. checkpoints'[d] = WriteCheckpoint(checkpoints[d],
                            CurrentVotes(checkpoints[d]) + amount)
    BY <1>6 DEF VotesMoved
  <2>2. new = old \cup S /\ old \cap S = {}
    BY <1>6
  <2>3. Cardinality(new) = Cardinality(old) + amount
    <3>1. Cardinality(old \cup S)
            = Cardinality(old) + amount - Cardinality(old \cap S)
      BY <1>3, FS_Union
    <3>2. Cardinality(old \cap S) = 0
      BY <2>2, FS_EmptySet
    <3>3. QED
      BY <1>3, <2>2, <3>1, <3>2
  <2>4. CurrentVotes(checkpoints[d]) + amount = Cardinality(new)
    BY <1>1, <2>3
  <2>5. QED
    BY <1>1, <1>3, <2>1, <2>4, Written
<1>7. QED
  BY <1>4, <1>5, <1>6

\* Initially nothing is minted and nothing written.
LEMMA InitInv == Init => Inv
<1> SUFFICES ASSUME Init PROVE Inv
  OBVIOUS
<1>1. NoHolding \in Holding
  BY DelegationAssumption DEF NoHolding, Holding, Holder
<1>2. TypeOK
  BY <1>1, DelegationAssumption, MaxBlockAssumption, EmptySeq
  DEF Init, ChainInit, TypeOK, Holder, Blocks
<1>3. \A d \in Accounts : Represented(d) = {}
  BY DEF Init, Represented
<1>4. TrailsShowThem
  BY <1>3, FS_EmptySet DEF TrailsShowThem, CurrentVotes, Init
<1>5. QED
  BY <1>2, <1>4 DEF Inv

\* A Noun that is minted, passed on or burned takes one vote along
\* (ERC721Checkpointable.sol:97-106).
LEMMA GiveInv ==
  ASSUME Inv, NEW n \in Nouns, NEW to \in Holder, Give(n, to),
         minted' \in 0..MaxNouns
  PROVE  Inv'
<1> DEFINE src == Delegates(owner[n])
           dst == Delegates(to)
           S == {n}
<1>1. TypeOK
  BY DEF Inv
<1>2. /\ checkpoints' = VotesMoved(src, dst, 1)
      /\ owner' = [owner EXCEPT ![n] = to]
      /\ UNCHANGED <<block, slot, nonces, watched, past>>
  BY DEF Give, MoveDelegates, history
<1>3. /\ owner[n] \in Holder
      /\ owner' \in [Nouns -> Holder] /\ owner'[n] = to
      /\ \A x \in Nouns : x # n => owner'[x] = owner[x]
  BY <1>1, <1>2 DEF TypeOK
<1>4. \A a \in Holder : /\ Delegates(a) \in Holder /\ Delegates(a)' = Delegates(a)
                        /\ Delegates(a) = Zero <=> a = Zero
  BY <1>1, <1>2, DelegationAssumption DEF TypeOK, Delegates, Holder
<1>5. S \in SUBSET Nouns /\ Cardinality(S) = 1
  BY FS_Singleton
<1>6. ASSUME NEW d \in Accounts
      PROVE  /\ \A x \in Nouns : x \in Represented(d) <=>
                  owner[x] # Zero /\ Delegates(owner[x]) = d
             /\ \A x \in Nouns : x \in Represented(d)' <=>
                  owner'[x] # Zero /\ Delegates(owner'[x]) = d
             /\ d # Zero
  <2>1. \A x \in Nouns : owner'[x] \in Holder
    BY <1>3
  <2>2. \A x \in Nouns : Delegates(owner[x])' = Delegates(owner'[x])
    BY <1>2, <2>1 DEF Delegates
  <2>3. QED
    BY <2>2, DelegationAssumption DEF Represented
<1>7. ASSUME NEW d \in Accounts
      PROVE  /\ n \in Represented(d) <=> src = d
             /\ n \in Represented(d)' <=> dst = d
             /\ \A x \in Nouns : x # n =>
                  (x \in Represented(d)' <=> x \in Represented(d))
  BY <1>3, <1>4, <1>6
<1>8. \A d \in Accounts : Represented(d) \subseteq Nouns
                          /\ Represented(d)' \subseteq Nouns
  BY DEF Represented
<1> HIDE DEF src, dst
<1>9. src \in Holder /\ dst \in Holder
  BY <1>3, <1>4 DEF src, dst
<1>10. src = dst => \A d \in Accounts : Represented(d)' = Represented(d)
  BY <1>7, <1>8
<1>11. src # dst =>
         \A d \in Accounts :
           /\ d = src => S \subseteq Represented(d)
                         /\ Represented(d)' = Represented(d) \ S
           /\ d = dst => S \cap Represented(d) = {}
                         /\ Represented(d)' = Represented(d) \cup S
           /\ d \notin {src, dst} => Represented(d)' = Represented(d)
  <2> SUFFICES ASSUME src # dst, NEW d \in Accounts
               PROVE  /\ d = src => S \subseteq Represented(d)
                                    /\ Represented(d)' = Represented(d) \ S
                      /\ d = dst => S \cap Represented(d) = {}
                                    /\ Represented(d)' = Represented(d) \cup S
                      /\ d \notin {src, dst} => Represented(d)' = Represented(d)
    OBVIOUS
  <2> DEFINE old == Represented(d)
             new == Represented(d)'
  <2>1. /\ n \in old <=> src = d
        /\ n \in new <=> dst = d
        /\ \A x \in Nouns : x # n => (x \in new <=> x \in old)
        /\ old \subseteq Nouns /\ new \subseteq Nouns
    BY <1>7, <1>8
  <2> HIDE DEF old, new
  <2>2. d = src => S \subseteq old /\ new = old \ S
    BY <2>1
  <2>3. d = dst => S \cap old = {} /\ new = old \cup S
    BY <2>1
  <2>4. d \notin {src, dst} => new = old
    BY <2>1
  <2>5. QED
    BY <2>2, <2>3, <2>4 DEF old, new
<1>12. checkpoints' = VotesMoved(src, dst, Cardinality(S))
  BY <1>2, <1>5 DEF src, dst
<1> HIDE DEF S
<1>13. checkpoints' \in [Accounts -> Seq(Checkpoint)] /\ TrailsShowThem'
  BY <1>5, <1>9, <1>10, <1>11, <1>12, TrailsFollow
<1>14. TypeOK'
  BY <1>1, <1>2, <1>3, <1>13 DEF TypeOK
<1>15. QED
  BY <1>13, <1>14 DEF Inv

\* Who delegates takes all the votes of what it holds along
\* (ERC721Checkpointable.sol:197-208).
LEMMA SetDelegateInv ==
  ASSUME Inv, NEW a \in Accounts, NEW d \in Accounts, SetDelegate(a, d),
         nonces' \in [Accounts -> Nat]
  PROVE  Inv'
<1> DEFINE src == Delegates(a)
           S == {n \in Nouns : owner[n] = a}
<1>1. TypeOK
  BY DEF Inv
<1>2. /\ checkpoints' = VotesMoved(src, d, Cardinality(S))
      /\ slot' = [slot EXCEPT ![a] = d]
      /\ UNCHANGED <<block, minted, owner, watched, past>>
  BY DEF SetDelegate, MoveDelegates, Balance, history
<1>3. /\ slot' \in [Accounts -> Holder] /\ slot'[a] = d
      /\ \A x \in Accounts : x # a => slot'[x] = slot[x]
      /\ a # Zero /\ d # Zero /\ d \in Holder
  BY <1>1, <1>2, DelegationAssumption DEF TypeOK, Holder
<1>4. S \in SUBSET Nouns
  OBVIOUS
<1>5. src \in Holder
  BY <1>1 DEF Delegates, TypeOK, Holder
<1>6. ASSUME NEW e \in Accounts, NEW n \in Nouns
      PROVE  /\ owner[n] = a => /\ n \in Represented(e) <=> src = e
                                /\ n \in Represented(e)' <=> d = e
             /\ owner[n] # a => (n \in Represented(e)' <=> n \in Represented(e))
  <2>1. owner[n] \in Holder /\ owner'[n] = owner[n]
    BY <1>1, <1>2 DEF TypeOK
  <2>2. owner[n] # a => Delegates(owner[n])' = Delegates(owner[n])
    BY <1>3, <2>1, <1>2 DEF Delegates, Holder
  <2>3. owner[n] = a => Delegates(owner[n])' = d
    BY <1>2, <1>3 DEF Delegates
  <2>4. QED
    BY <1>3, <2>1, <2>2, <2>3 DEF Represented
<1>7. \A e \in Accounts : Represented(e) \subseteq Nouns
                          /\ Represented(e)' \subseteq Nouns
  BY DEF Represented
<1> HIDE DEF src
<1>8. src = d => \A e \in Accounts : Represented(e)' = Represented(e)
  BY <1>6, <1>7
<1>9. src # d =>
         \A e \in Accounts :
           /\ e = src => S \subseteq Represented(e)
                         /\ Represented(e)' = Represented(e) \ S
           /\ e = d => S \cap Represented(e) = {}
                       /\ Represented(e)' = Represented(e) \cup S
           /\ e \notin {src, d} => Represented(e)' = Represented(e)
  BY <1>6, <1>7
<1> HIDE DEF S
<1>10. checkpoints' \in [Accounts -> Seq(Checkpoint)] /\ TrailsShowThem'
  BY <1>2, <1>3, <1>4, <1>5, <1>8, <1>9, TrailsFollow
<1>11. TypeOK'
  BY <1>1, <1>2, <1>3, <1>10 DEF TypeOK
<1>12. QED
  BY <1>10, <1>11 DEF Inv

\* Blocks change no trail.
LEMMA MineInv == ASSUME Inv, MineBlock \/ UNCHANGED vars PROVE Inv'
<1>1. TypeOK /\ TrailsShowThem
  BY DEF Inv
<1>2. UNCHANGED <<minted, owner, slot, checkpoints, nonces, watched>>
  BY DEF MineBlock, vars, tokenVars, history
<1>3. block' \in Blocks
  BY <1>1, MaxBlockAssumption DEF TypeOK, MineBlock, Mine, Blocks, vars
<1>4. past' \in [Accounts -> Holding]
  <2>1. ASSUME NEW a \in Accounts
        PROVE  [balance |-> Balance(a), delegate |-> slot[a]] \in Holding
    <3>1. Balance(a) \in 0..MaxNouns
      BY NounsAreFinite DEF Balance
    <3>2. QED
      BY <1>1, <3>1 DEF TypeOK, Holding
  <2>2. QED
    BY <1>1, <2>1 DEF TypeOK, MineBlock, vars, history
<1>5. TrailsShowThem'
  BY <1>1, <1>2 DEF TrailsShowThem, Represented, Delegates
<1>6. QED
  BY <1>1, <1>2, <1>3, <1>4, <1>5 DEF Inv, TypeOK

\* The inductive invariant holds in every reachable state.
THEOREM InvHolds == ASSUME SignedForAccounts PROVE Spec => []Inv
<1>1. ASSUME Inv, [Next]_vars PROVE Inv'
  <2>1. minted \in 0..MaxNouns /\ nonces \in [Accounts -> Nat]
    BY <1>1 DEF Inv, TypeOK
  <2>2. ASSUME NEW to \in Accounts, Mint(to) PROVE Inv'
    <3>1. minted + 1 \in Nouns /\ minted' \in 0..MaxNouns /\ to \in Holder
      BY <2>1, <2>2, DelegationAssumption DEF Mint, Nouns, Holder
    <3>2. QED
      BY <1>1, <2>2, <3>1, GiveInv DEF Mint
  <2>3. ASSUME NEW n \in Nouns, NEW to \in Accounts, Transfer(n, to) PROVE Inv'
    BY <1>1, <2>1, <2>3, GiveInv DEF Transfer, Holder
  <2>4. ASSUME NEW n \in Nouns, Burn(n) PROVE Inv'
    BY <1>1, <2>1, <2>4, GiveInv DEF Burn, Holder
  <2>5. ASSUME NEW a \in Accounts, NEW d \in Holder, Delegate(a, d) PROVE Inv'
    BY <1>1, <2>1, <2>5, SetDelegateInv DEF Delegate, Holder
  <2>6. ASSUME NEW sig \in Signatures, DelegateBySig(sig) PROVE Inv'
    <3>1. sig.by \in Accounts /\ sig.to \in Accounts
      BY DelegationAssumption DEF SignedForAccounts
    <3>2. nonces' \in [Accounts -> Nat]
      BY <2>1, <2>6, <3>1 DEF DelegateBySig
    <3>3. QED
      BY <1>1, <2>6, <3>1, <3>2, SetDelegateInv DEF DelegateBySig
  <2>7. QED
    BY <1>1, <2>2, <2>3, <2>4, <2>5, <2>6, MineInv DEF Next
<1>2. QED
  BY <1>1, InitInv, PTL DEF Spec

\* Votes never run short: whoever holds Nouns can pass them on and delegate
\* them (ERC721Checkpointable.sol:217-220, 273-280).
THEOREM HoldersCanMove == ASSUME SignedForAccounts PROVE Spec => []NobodyIsStuck
<1>1. ASSUME Inv PROVE NobodyIsStuck
  <2> SUFFICES ASSUME NEW a \in Accounts
               PROVE  Balance(a) <= CurrentVotes(checkpoints[Delegates(a)])
    BY DEF NobodyIsStuck
  <2> DEFINE held == {n \in Nouns : owner[n] = a}
             d == Delegates(a)
  <2>1. d \in Accounts /\ a # Zero
    BY <1>1, DelegationAssumption DEF Inv, TypeOK, Delegates, Holder
  <2>2. held \in SUBSET Represented(d)
    BY <2>1 DEF Represented
  <2>3. IsFiniteSet(Represented(d))
    BY NounsAreFinite DEF Represented
  <2>4. Cardinality(held) <= Cardinality(Represented(d))
    BY <2>2, <2>3, FS_Subset
  <2>5. QED
    BY <1>1, <2>1, <2>4 DEF Inv, TrailsShowThem, Balance
<1>2. QED
  BY <1>1, InvHolds, PTL
-----------------------------------------------------------------------------
(***************************************************************************)
(* The binary search.  In a trail that ascends, the checkpoints up to some *)
(* block come first; if there are j of them, every span the search looks   *)
(* at is one whose answer is known, so the search is found to be the       *)
(* function that gives these answers: there is such a function (the        *)
(* witness), and no other, or there would be a shortest span on which two  *)
(* differ.                                                                 *)
(***************************************************************************)
Ascending(cps) ==
    \A i, k \in 1..Len(cps) : i < k => cps[i].fromBlock < cps[k].fromBlock

\* The first j checkpoints are the ones written in block b or before.
UpTo(cps, b, j) ==
    /\ j \in 0..Len(cps)
    /\ \A i \in 1..Len(cps) : cps[i].fromBlock <= b <=> i <= j

\* What the first j checkpoints come to.
VotesAt(cps, j) == IF j = 0 THEN 0 ELSE cps[j].votes

\* The checkpoint at which a search from lower to upper ends.
Found(j, lower, upper) ==
    IF upper <= lower \/ j < lower THEN lower ELSE IF j > upper THEN upper ELSE j

\* A step of the search, whatever f says of shorter spans.
SearchStep(f, cps, b, lower, upper) ==
    LET center == Center(lower, upper)
        cp     == cps[center]
    IN IF upper <= lower THEN cps[lower].votes
       ELSE IF cp.fromBlock = b THEN cp.votes
       ELSE IF cp.fromBlock < b THEN f[<<center, upper>>]
       ELSE f[<<lower, center - 1>>]

Searches(f, cps, b) ==
    f = [span \in (DOMAIN cps) \X (DOMAIN cps) |->
           SearchStep(f, cps, b, span[1], span[2])]

\* The checkpoints of a trail, and the blocks they are from.
LEMMA TrailFacts ==
  ASSUME NEW cps \in Seq(Checkpoint)
  PROVE  /\ Len(cps) \in Nat /\ DOMAIN cps = 1..Len(cps)
         /\ \A i \in 1..Len(cps) : cps[i] \in Checkpoint
                                  /\ cps[i].fromBlock \in Int
         /\ \A b \in Blocks : b \in Int
<1>1. \A b \in Blocks : b \in Int
  BY MaxBlockAssumption DEF Blocks
<1>2. /\ Len(cps) \in Nat /\ DOMAIN cps = 1..Len(cps)
      /\ \A i \in 1..Len(cps) : cps[i] \in Checkpoint
  OBVIOUS
<1>3. \A c \in Checkpoint : c.fromBlock \in Int
  BY <1>1 DEF Checkpoint
<1>4. QED
  BY <1>1, <1>2, <1>3

\* A step goes on in a shorter span that has the same answer
\* (ERC721Checkpointable.sol:182-194).
LEMMA StepIsRight ==
  ASSUME NEW cps \in Seq(Checkpoint), Ascending(cps), NEW b \in Blocks,
         NEW j, UpTo(cps, b, j), NEW lower \in 1..Len(cps),
         NEW upper \in 1..Len(cps), lower < upper
  PROVE  /\ Center(lower, upper) \in (lower + 1)..upper
         /\ cps[Center(lower, upper)].fromBlock = b =>
              Found(j, lower, upper) = Center(lower, upper)
         /\ cps[Center(lower, upper)].fromBlock < b =>
              Found(j, Center(lower, upper), upper) = Found(j, lower, upper)
         /\ cps[Center(lower, upper)].fromBlock > b =>
              Found(j, lower, Center(lower, upper) - 1) = Found(j, lower, upper)
<1> DEFINE c == Center(lower, upper)
<1>1. /\ Len(cps) \in Nat /\ b \in Int
      /\ \A i \in 1..Len(cps) : cps[i].fromBlock \in Int
  BY TrailFacts
<1>2. c \in (lower + 1)..upper
  BY <1>1 DEF Center
<1> HIDE DEF c
<1>3. /\ c \in 1..Len(cps) /\ c \in Int /\ j \in Int /\ b \in Int
      /\ lower \in Int /\ upper \in Int
      /\ lower < c /\ c <= upper
      /\ cps[c].fromBlock \in Int
      /\ cps[c].fromBlock <= b <=> c <= j
  BY <1>1, <1>2 DEF UpTo
<1>4. cps[c].fromBlock = b => j = c
  <2> SUFFICES ASSUME cps[c].fromBlock = b, j # c PROVE FALSE
    OBVIOUS
  <2>1. c < j /\ j \in 1..Len(cps)
    BY <1>1, <1>3 DEF UpTo
  <2>2. cps[c].fromBlock < cps[j].fromBlock /\ cps[j].fromBlock <= b
    BY <1>3, <2>1 DEF Ascending, UpTo
  <2>3. QED
    BY <1>1, <1>3, <2>1, <2>2
<1>5. cps[c].fromBlock = b => Found(j, lower, upper) = c
  BY <1>3, <1>4 DEF Found
<1>6. cps[c].fromBlock < b => Found(j, c, upper) = Found(j, lower, upper)
  BY <1>3 DEF Found
<1>7. cps[c].fromBlock > b => Found(j, lower, c - 1) = Found(j, lower, upper)
  BY <1>3 DEF Found
<1>8. QED
  BY <1>2, <1>5, <1>6, <1>7 DEF c

\* The answers make a function that searches.
LEMMA SearchExists ==
  ASSUME NEW cps \in Seq(Checkpoint), Ascending(cps), NEW b \in Blocks,
         NEW j, UpTo(cps, b, j)
  PROVE  \E f : Searches(f, cps, b)
<1> DEFINE I == 1..Len(cps)
           f == [span \in I \X I |-> cps[Found(j, span[1], span[2])].votes]
<1>1. DOMAIN cps = I /\ Len(cps) \in Nat
  OBVIOUS
<1>2. ASSUME NEW lower \in I, NEW upper \in I
      PROVE  cps[Found(j, lower, upper)].votes
               = SearchStep(f, cps, b, lower, upper)
  <2>1. CASE upper <= lower
    BY <1>1, <2>1 DEF Found, SearchStep
  <2>2. CASE lower < upper
    <3> DEFINE c == Center(lower, upper)
    <3>1. /\ c \in (lower + 1)..upper
          /\ cps[c].fromBlock = b => Found(j, lower, upper) = c
          /\ cps[c].fromBlock < b => Found(j, c, upper) = Found(j, lower, upper)
          /\ cps[c].fromBlock > b => Found(j, lower, c - 1) = Found(j, lower, upper)
      BY <2>2, StepIsRight
    <3>2. /\ ~(upper <= lower)
          /\ SearchStep(f, cps, b, lower, upper) =
               IF cps[c].fromBlock = b THEN cps[c].votes
               ELSE IF cps[c].fromBlock < b THEN f[<<c, upper>>]
               ELSE f[<<lower, c - 1>>]
      BY <1>1, <2>2 DEF SearchStep
    <3> HIDE DEF c
    <3>3. c \in I /\ c - 1 \in I
      BY <1>1, <3>1
    <3>4. /\ f[<<c, upper>>] = cps[Found(j, c, upper)].votes
          /\ f[<<lower, c - 1>>] = cps[Found(j, lower, c - 1)].votes
      BY <3>3
    <3>5. cps[c].fromBlock \in Int /\ b \in Int
      BY <3>3, TrailFacts
    <3> HIDE DEF f
    <3>6. QED
      BY <3>1, <3>2, <3>4, <3>5
  <2>3. QED
    BY <1>1, <2>1, <2>2
<1>3. f = [span \in I \X I |-> SearchStep(f, cps, b, span[1], span[2])]
  <2>1. ASSUME NEW span \in I \X I
        PROVE  cps[Found(j, span[1], span[2])].votes
                 = SearchStep(f, cps, b, span[1], span[2])
    <3>1. span[1] \in I /\ span[2] \in I
      OBVIOUS
    <3> HIDE DEF f
    <3>2. QED
      BY <1>2, <3>1
  <2> DEFINE g == f
  <2>2. g = [span \in I \X I |-> cps[Found(j, span[1], span[2])].votes]
    OBVIOUS
  <2> HIDE DEF f
  <2>3. QED
    BY <2>1, <2>2
<1>4. QED
  BY <1>1, <1>3 DEF Searches

\* A function that searches gives these answers and no others.
LEMMA SearchIs ==
  ASSUME NEW cps \in Seq(Checkpoint), Ascending(cps), NEW b \in Blocks,
         NEW j, UpTo(cps, b, j), NEW f, Searches(f, cps, b)
  PROVE  \A lower, upper \in 1..Len(cps) :
           f[<<lower, upper>>] = cps[Found(j, lower, upper)].votes
<1> DEFINE I == 1..Len(cps)
           Right(lower, upper) ==
             f[<<lower, upper>>] = cps[Found(j, lower, upper)].votes
           Wrong == {m \in Nat : \E lower, upper \in I :
                                   m = upper - lower /\ ~Right(lower, upper)}
<1>1. DOMAIN cps = I /\ Len(cps) \in Nat
  OBVIOUS
<1>2. \A lower, upper \in I :
        f[<<lower, upper>>] = SearchStep(f, cps, b, lower, upper)
  BY <1>1 DEF Searches
<1>3. \A lower, upper \in I : upper <= lower => Right(lower, upper)
  BY <1>1, <1>2 DEF SearchStep, Found
<1>4. Wrong = {}
  <2> SUFFICES ASSUME Wrong # {} PROVE FALSE
    OBVIOUS
  <2>1. PICK m \in Wrong : \A k \in Wrong : m <= k
    <3>1. Wrong \subseteq Nat
      OBVIOUS
    <3> HIDE DEF Wrong
    <3>2. QED
      BY <3>1, LeastElement
  <2>2. PICK lower \in I, upper \in I :
             m = upper - lower /\ ~Right(lower, upper)
    OBVIOUS
  <2>3. lower < upper
    BY <1>1, <1>3, <2>2
  <2> DEFINE c == Center(lower, upper)
  <2>4. /\ c \in (lower + 1)..upper
        /\ cps[c].fromBlock = b => Found(j, lower, upper) = c
        /\ cps[c].fromBlock < b => Found(j, c, upper) = Found(j, lower, upper)
        /\ cps[c].fromBlock > b => Found(j, lower, c - 1) = Found(j, lower, upper)
    BY <2>3, StepIsRight
  <2>5. f[<<lower, upper>>] =
             IF cps[c].fromBlock = b THEN cps[c].votes
             ELSE IF cps[c].fromBlock < b THEN f[<<c, upper>>]
             ELSE f[<<lower, c - 1>>]
    BY <1>1, <1>2, <2>3 DEF SearchStep
  <2> HIDE DEF c
  <2>6. c \in I /\ c - 1 \in I /\ cps[c].fromBlock \in Int /\ b \in Int
    BY <1>1, <2>4, TrailFacts
  <2>7. \A l, u \in I : u - l < upper - lower => Right(l, u)
    <3> SUFFICES ASSUME NEW l \in I, NEW u \in I, u - l < upper - lower,
                        ~Right(l, u)
                 PROVE  FALSE
      OBVIOUS
    <3>1. l < u
      BY <1>1, <1>3
    <3>2. u - l \in Nat
      BY <1>1, <3>1
    <3>3. u - l \in Wrong
      BY <3>2
    <3>4. m <= u - l /\ m = upper - lower
      BY <2>1, <2>2, <3>3
    <3> HIDE DEF Wrong
    <3>5. QED
      BY <1>1, <3>4
  <2>8. upper - c < upper - lower /\ (c - 1) - lower < upper - lower
    BY <1>1, <2>4
  <2>9. Right(c, upper) /\ Right(lower, c - 1)
    BY <2>6, <2>7, <2>8
  <2>10. QED
    BY <2>2, <2>4, <2>5, <2>6, <2>9
<1>5. ASSUME NEW lower \in I, NEW upper \in I
      PROVE  Right(lower, upper)
  <2>1. CASE lower < upper
    <3>1. upper - lower \in Nat
      BY <1>1, <2>1
    <3>2. QED
      BY <1>4, <3>1
  <2>2. QED
    BY <1>1, <1>3, <2>1
<1>6. QED
  BY <1>5

\* getPriorVotes returns the votes of the last checkpoint up to the block, by
\* one of its shortcuts or by the search (ERC721Checkpointable.sol:163-195).
LEMMA PriorVotesAre ==
  ASSUME NEW a \in Accounts, checkpoints[a] \in Seq(Checkpoint),
         Ascending(checkpoints[a]), NEW b \in Blocks,
         NEW j, UpTo(checkpoints[a], b, j)
  PROVE  PriorVotes(a, b) = VotesAt(checkpoints[a], j)
<1> DEFINE cps == checkpoints[a]
           n == Len(cps)
<1>1. /\ n \in Nat /\ j \in 0..n /\ (cps = <<>> <=> n = 0)
      /\ \A i \in 1..n : /\ cps[i].fromBlock \in Int
                         /\ cps[i].fromBlock <= b <=> i <= j
      /\ b \in Int /\ Last(cps) = cps[n] /\ (n # 0 => Head(cps) = cps[1])
  <2>1. /\ Len(cps) \in Nat /\ b \in Int
        /\ \A i \in 1..n : cps[i].fromBlock \in Int
    BY TrailFacts
  <2>2. (cps = <<>> <=> n = 0) /\ (n # 0 => Head(cps) = cps[1])
    BY EmptySeq
  <2>3. QED
    BY <2>1, <2>2 DEF UpTo, Last
<1> HIDE DEF n
<1>0. n # 0 =>
        /\ cps[n].fromBlock <= b <=> n <= j
        /\ cps[1].fromBlock <= b <=> 1 <= j
        /\ cps[1].fromBlock \in Int
  <2>1. n # 0 => n \in 1..n /\ 1 \in 1..n
    BY <1>1
  <2>2. QED
    BY <1>1, <2>1
<1>2. CASE n = 0
  BY <1>1, <1>2 DEF PriorVotes, VotesAt
<1>3. CASE n # 0 /\ cps[n].fromBlock <= b
  <2>1. j = n
    BY <1>0, <1>1, <1>3
  <2>2. QED
    BY <1>1, <1>3, <2>1 DEF PriorVotes, VotesAt
<1>4. CASE n # 0 /\ ~(cps[n].fromBlock <= b) /\ cps[1].fromBlock > b
  <2>1. j = 0
    BY <1>0, <1>1, <1>4
  <2>2. QED
    BY <1>1, <1>4, <2>1 DEF PriorVotes, VotesAt
<1>5. CASE n # 0 /\ ~(cps[n].fromBlock <= b) /\ ~(cps[1].fromBlock > b)
  <2>1. 1 <= j /\ j < n
    BY <1>0, <1>1, <1>5
  <2> DEFINE search == CHOOSE f : Searches(f, cps, b)
  <2>2. SearchVotes(cps, b) = search[<<1, n>>]
    BY DEF SearchVotes, Searches, SearchStep, n
  <2>3. Searches(search, cps, b)
    BY SearchExists
  <2> HIDE DEF search
  <2>4. search[<<1, n>>] = cps[Found(j, 1, n)].votes
    BY <1>1, <2>1, <2>3, SearchIs DEF n
  <2>5. Found(j, 1, n) = j
    BY <1>1, <2>1 DEF Found
  <2>6. PriorVotes(a, b) = SearchVotes(cps, b)
    BY <1>1, <1>5 DEF PriorVotes
  <2>7. QED
    BY <2>1, <2>2, <2>4, <2>5, <2>6 DEF VotesAt
<1>6. QED
  BY <1>2, <1>3, <1>4, <1>5
-----------------------------------------------------------------------------
(***************************************************************************)
(* What the token says of a mined block.  Trails ascend and are written at *)
(* the present block only, so the checkpoints up to a block that was mined *)
(* stay, and when it was mined they counted what delegates represented.    *)
(***************************************************************************)
\* A checkpoint is written after all others, or in place of one of its block:
\* what earlier blocks are told stays (ERC721Checkpointable.sol:243-248).
LEMMA WrittenLater ==
  ASSUME block \in Blocks, NEW cps \in Seq(Checkpoint), NEW votes,
         Ascending(cps), \A i \in 1..Len(cps) : cps[i].fromBlock <= block
  PROVE  /\ Ascending(WriteCheckpoint(cps, votes))
         /\ \A i \in 1..Len(WriteCheckpoint(cps, votes)) :
              WriteCheckpoint(cps, votes)[i].fromBlock <= block
         /\ \A b \in Blocks, j \in Nat :
              b < block /\ UpTo(cps, b, j) =>
                /\ UpTo(WriteCheckpoint(cps, votes), b, j)
                /\ VotesAt(WriteCheckpoint(cps, votes), j) = VotesAt(cps, j)
<1> DEFINE new == [fromBlock |-> block, votes |-> votes]
           w == WriteCheckpoint(cps, votes)
           n == Len(cps)
           C == Checkpoint \cup {new}
<1>1. /\ n \in Nat /\ block \in Int /\ (cps = <<>> <=> n = 0)
      /\ \A i \in 1..n : cps[i].fromBlock \in Int
      /\ \A b \in Blocks : b \in Int
      /\ cps \in Seq(C) /\ new \in C /\ new.fromBlock = block
      /\ Last(cps) = cps[n]
  BY TrailFacts, EmptySeq DEF Last
<1>2. PICK k \in Nat :
        /\ k \in {n, n + 1} /\ Len(w) = k /\ k # 0
        /\ w[k] = new
        /\ \A i \in 1..n : i # k => w[i] = cps[i]
        /\ k = n => cps[n].fromBlock = block
        /\ k # n => ~(n # 0 /\ cps[n].fromBlock = block)
  <2>1. CASE cps # <<>> /\ Last(cps).fromBlock = block
    <3>1. w = [cps EXCEPT ![n] = new]
      BY <2>1 DEF WriteCheckpoint
    <3>2. n \in 1..n
      BY <1>1, <2>1
    <3> HIDE DEF w, C, new
    <3>3. Len(w) = n /\ w[n] = new /\ \A i \in 1..n : i # n => w[i] = cps[i]
      BY <1>1, <3>1, <3>2, ExceptSeq
    <3>4. n \in Nat /\ n # 0 /\ cps[n].fromBlock = block
      BY <1>1, <2>1
    <3> HIDE DEF n
    <3>5. QED
      BY <3>3, <3>4
  <2>2. CASE ~(cps # <<>> /\ Last(cps).fromBlock = block)
    <3>1. w = Append(cps, new)
      BY <2>2 DEF WriteCheckpoint
    <3> HIDE DEF w, C, new
    <3>2. Len(w) = n + 1 /\ w[n + 1] = new /\ \A i \in 1..n : w[i] = cps[i]
      BY <1>1, <3>1, AppendProperties
    <3>3. n + 1 \in Nat /\ n + 1 # n /\ n + 1 # 0
      BY <1>1
    <3>4. ~(n # 0 /\ cps[n].fromBlock = block)
      BY <1>1, <2>2
    <3> HIDE DEF n
    <3>5. QED
      BY <3>2, <3>3, <3>4
  <2>3. QED
    BY <2>1, <2>2
<1> HIDE DEF w, new, C
<1>3. \A i \in 1..n : i # k => i < k
  BY <1>1, <1>2
<1>4. \A i \in 1..n : i # k => cps[i].fromBlock < block
  <2> SUFFICES ASSUME NEW i \in 1..n, i # k PROVE cps[i].fromBlock < block
    OBVIOUS
  <2>1. cps[i].fromBlock <= block /\ cps[i].fromBlock \in Int
    BY <1>1
  <2>2. CASE i = n
    BY <1>1, <1>2, <2>1, <2>2
  <2>3. CASE i # n
    <3>1. i < n /\ n \in 1..n
      BY <1>1, <2>3
    <3>2. cps[i].fromBlock < cps[n].fromBlock /\ cps[n].fromBlock <= block
          /\ cps[n].fromBlock \in Int
      BY <1>1, <3>1 DEF Ascending
    <3>3. QED
      BY <1>1, <2>1, <3>2
  <2>4. QED
    BY <2>2, <2>3
<1>5. \A i \in 1..k : i # k => i \in 1..n /\ w[i] = cps[i]
  BY <1>1, <1>2
<1>6. Ascending(w)
  <2> SUFFICES ASSUME NEW i \in 1..k, NEW m \in 1..k, i < m
               PROVE  w[i].fromBlock < w[m].fromBlock
    BY <1>2 DEF Ascending
  <2>1. i # k /\ i \in 1..n
    BY <1>2, <1>5
  <2>2. CASE m = k
    BY <1>1, <1>2, <1>4, <1>5, <2>1, <2>2
  <2>3. CASE m # k
    BY <1>5, <2>1, <2>3 DEF Ascending
  <2>4. QED
    BY <2>2, <2>3
<1>7. \A i \in 1..Len(w) : w[i].fromBlock <= block
  <2> SUFFICES ASSUME NEW i \in 1..k PROVE w[i].fromBlock <= block
    BY <1>2
  <2>1. CASE i = k
    BY <1>1, <1>2, <2>1
  <2>2. CASE i # k
    BY <1>5, <2>2
  <2>3. QED
    BY <2>1, <2>2
<1>8. ASSUME NEW b \in Blocks, NEW j \in Nat, b < block, UpTo(cps, b, j)
      PROVE  UpTo(w, b, j) /\ VotesAt(w, j) = VotesAt(cps, j)
  <2>1. /\ j \in 0..n /\ b \in Int
        /\ \A i \in 1..n : cps[i].fromBlock <= b <=> i <= j
    BY <1>1, <1>8 DEF UpTo
  <2>2. j < k
    <3>1. CASE k = n
      <4>1. n \in 1..n /\ ~(cps[n].fromBlock <= b)
        BY <1>1, <1>2, <1>8, <2>1, <3>1
      <4>2. ~(n <= j)
        BY <2>1, <4>1
      <4>3. QED
        BY <1>1, <2>1, <3>1, <4>2
    <3>2. CASE k = n + 1
      BY <1>1, <2>1, <3>2
    <3>3. QED
      BY <1>2, <3>1, <3>2
  <2>3. ASSUME NEW i \in 1..k
        PROVE  w[i].fromBlock <= b <=> i <= j
    <3>1. CASE i = k
      <4>1. w[i].fromBlock = block
        BY <1>1, <1>2, <3>1
      <4>2. QED
        BY <1>1, <1>8, <2>1, <2>2, <3>1, <4>1
    <3>2. CASE i # k
      BY <1>5, <2>1, <3>2
    <3>3. QED
      BY <3>1, <3>2
  <2>4. UpTo(w, b, j)
    BY <1>1, <1>2, <2>1, <2>2, <2>3 DEF UpTo
  <2>5. j # 0 => w[j] = cps[j]
    <3>1. j # 0 => j \in 1..k /\ j # k
      BY <1>2, <2>1, <2>2
    <3>2. QED
      BY <1>5, <3>1
  <2>6. QED
    BY <2>4, <2>5 DEF VotesAt
<1>9. QED
  BY <1>6, <1>7, <1>8 DEF w

\* Trails ascend and end no later than now.
TrailsAscend ==
    \A a \in Accounts :
      /\ Ascending(checkpoints[a])
      /\ \A i \in 1..Len(checkpoints[a]) : checkpoints[a][i].fromBlock <= block

\* Their checkpoints up to the watched block show what was represented then.
PastIsShown ==
    watched < block =>
      \A a \in Accounts :
        \E j \in Nat : /\ UpTo(checkpoints[a], watched, j)
                       /\ VotesAt(checkpoints[a], j) = HeldBy(RepresentedBy(a))

TrailInv == TrailsAscend /\ PastIsShown

\* Moving votes writes nothing into the past.
LEMMA MovedLater ==
  ASSUME Inv, TrailInv, NEW src, NEW dst, NEW amount,
         checkpoints' = VotesMoved(src, dst, amount),
         UNCHANGED <<block, watched, past>>
  PROVE  TrailInv'
<1>1. /\ block \in Blocks /\ watched \in Blocks
      /\ checkpoints \in [Accounts -> Seq(Checkpoint)]
  BY DEF Inv, TypeOK
<1>2. ASSUME NEW a \in Accounts
      PROVE  /\ Ascending(checkpoints'[a])
             /\ \A i \in 1..Len(checkpoints'[a]) :
                  checkpoints'[a][i].fromBlock <= block
             /\ \A b \in Blocks, j \in Nat :
                  b < block /\ UpTo(checkpoints[a], b, j) =>
                    /\ UpTo(checkpoints'[a], b, j)
                    /\ VotesAt(checkpoints'[a], j) = VotesAt(checkpoints[a], j)
  <2>1. /\ checkpoints[a] \in Seq(Checkpoint) /\ Ascending(checkpoints[a])
        /\ \A i \in 1..Len(checkpoints[a]) : checkpoints[a][i].fromBlock <= block
    BY <1>1 DEF TrailInv, TrailsAscend
  <2>2. CASE checkpoints'[a] = checkpoints[a]
    BY <2>1, <2>2
  <2>3. CASE \E votes : checkpoints'[a] = WriteCheckpoint(checkpoints[a], votes)
    BY <1>1, <2>1, <2>3, WrittenLater
  <2>4. QED
    BY <2>2, <2>3 DEF VotesMoved
<1>3. TrailsAscend'
  BY <1>2 DEF TrailsAscend
<1>4. \A a \in Accounts : HeldBy(RepresentedBy(a))' = HeldBy(RepresentedBy(a))
  BY DEF HeldBy, RepresentedBy
<1>5. PastIsShown'
  BY <1>1, <1>2, <1>4 DEF TrailInv, PastIsShown
<1>6. QED
  BY <1>3, <1>5 DEF TrailInv

\* The Nouns of some accounts are as many as all their balances.
LEMMA BalancesCount ==
  ASSUME NEW f, NEW S \in SUBSET Accounts, \A a \in S : f[a] = Balance(a)
  PROVE  SumFunctionOnSet(f, S) = Cardinality({n \in Nouns : owner[n] \in S})
<1> DEFINE Owned(T) == {n \in Nouns : owner[n] \in T}
           F(T) == SumFunctionOnSet(f, T)
           Bad == {T \in SUBSET S : F(T) # Cardinality(Owned(T))}
<1>1. IsFiniteSet(S) /\ \A T \in SUBSET S : IsFiniteSet(T)
  BY DelegationAssumption, FS_Subset
<1>2. \A T \in SUBSET S : IsFiniteSet(Owned(T)) /\ Cardinality(Owned(T)) \in Nat
  BY NounsAreFinite
<1>3. \A a \in S : f[a] = Cardinality(Owned({a})) /\ f[a] \in Int
  <2> TAKE a \in S
  <2>1. Owned({a}) = {n \in Nouns : owner[n] = a} /\ {a} \in SUBSET S
    OBVIOUS
  <2>2. f[a] = Cardinality(Owned({a}))
    BY <2>1 DEF Balance
  <2> HIDE DEF Owned
  <2>3. Cardinality(Owned({a})) \in Int
    BY <1>2, <2>1
  <2>4. QED
    BY <2>2, <2>3
<1>4. \A T \in SUBSET S : \A a \in T : F(T) = f[a] + F(T \ {a})
  BY <1>1, <1>3, SumTakeOut
<1>5. F({}) = 0 /\ Cardinality(Owned({})) = 0
  <2>1. Owned({}) = {}
    OBVIOUS
  <2>2. QED
    BY <2>1, SumOfNone, FS_EmptySet
<1>6. \A T \in SUBSET S : \A a \in T :
        Cardinality(Owned(T)) = Cardinality(Owned({a})) + Cardinality(Owned(T \ {a}))
  <2> TAKE T \in SUBSET S
  <2> TAKE a \in T
  <2>1. /\ Owned(T) = Owned({a}) \cup Owned(T \ {a})
        /\ Owned({a}) \cap Owned(T \ {a}) = {}
    OBVIOUS
  <2>2. {a} \in SUBSET S /\ T \ {a} \in SUBSET S
    OBVIOUS
  <2>3. /\ IsFiniteSet(Owned({a})) /\ IsFiniteSet(Owned(T \ {a}))
        /\ Cardinality(Owned({a})) \in Nat /\ Cardinality(Owned(T \ {a})) \in Nat
    BY <1>2, <2>2
  <2> HIDE DEF Owned
  <2>4. Cardinality(Owned({a}) \cup Owned(T \ {a}))
          = Cardinality(Owned({a})) + Cardinality(Owned(T \ {a}))
              - Cardinality(Owned({a}) \cap Owned(T \ {a}))
    BY <2>3, FS_Union
  <2>5. Cardinality(Owned({a}) \cap Owned(T \ {a})) = 0
    BY <2>1, FS_EmptySet
  <2> DEFINE whole == Cardinality(Owned(T))
             one == Cardinality(Owned({a}))
             rest == Cardinality(Owned(T \ {a}))
  <2>6. whole = one + rest - 0 /\ one \in Nat /\ rest \in Nat
    BY <2>1, <2>3, <2>4, <2>5
  <2> HIDE DEF whole, one, rest
  <2>7. whole = one + rest
    BY <2>6
  <2>8. QED
    BY <2>7 DEF whole, one, rest
<1> HIDE DEF F, Owned
<1>7. ASSUME Bad # {} PROVE FALSE
  <2>1. PICK T \in Bad : \A U \in SUBSET T : U # T => U \notin Bad
    <3>1. Bad \in SUBSET SUBSET S
      OBVIOUS
    <3> HIDE DEF Bad
    <3>2. QED
      BY <1>1, <1>7, <3>1, SmallestSet
  <2>2. T \in SUBSET S /\ F(T) # Cardinality(Owned(T))
    OBVIOUS
  <2>3. PICK a \in T : TRUE
    BY <1>5, <2>2
  <2>4. T \ {a} \in SUBSET T /\ T \ {a} # T /\ T \ {a} \in SUBSET S
    BY <2>2, <2>3
  <2>5. F(T \ {a}) = Cardinality(Owned(T \ {a}))
    BY <2>1, <2>4
  <2>6. QED
    BY <1>3, <1>4, <1>6, <2>2, <2>3, <2>5
<1>8. S \in SUBSET S
  OBVIOUS
<1>9. F(S) = Cardinality(Owned(S))
  BY <1>7, <1>8
<1>10. QED
  BY <1>9 DEF F, Owned

\* When the watched block ends, all checkpoints are from it or before, and show
\* what delegates represent.
LEMMA MinedIsShown ==
  ASSUME Inv, TrailInv, MineBlock
  PROVE  TrailInv'
<1>1. TypeOK /\ TrailsShowThem /\ TrailsAscend
  BY DEF Inv, TrailInv
<1>2. /\ UNCHANGED <<owner, slot, checkpoints, watched>>
      /\ block' = block + 1 /\ block \in Int /\ watched \in Int
      /\ watched \in Blocks /\ checkpoints \in [Accounts -> Seq(Checkpoint)]
  BY <1>1, MaxBlockAssumption DEF MineBlock, Mine, tokenVars, TypeOK, Blocks
<1>3. TrailsAscend'
  <2> SUFFICES ASSUME NEW a \in Accounts, NEW i \in 1..Len(checkpoints[a])
               PROVE  checkpoints[a][i].fromBlock <= block + 1
    BY <1>1, <1>2 DEF TrailsAscend
  <2>1. checkpoints[a] \in Seq(Checkpoint)
    BY <1>2
  <2>2. checkpoints[a][i].fromBlock \in Int
    BY <2>1, TrailFacts
  <2>3. checkpoints[a][i].fromBlock <= block
    BY <1>1 DEF TrailsAscend
  <2>4. QED
    BY <1>2, <2>2, <2>3
<1>4. CASE block # watched
  <2>1. past' = past
    BY <1>4 DEF MineBlock
  <2>2. \A a \in Accounts : HeldBy(RepresentedBy(a))' = HeldBy(RepresentedBy(a))
    BY <2>1 DEF HeldBy, RepresentedBy
  <2>3. watched < block' => watched < block
    BY <1>2, <1>4
  <2>4. PastIsShown'
    BY <1>2, <2>2, <2>3 DEF TrailInv, PastIsShown
  <2>5. QED
    BY <1>3, <2>4 DEF TrailInv
<1>5. CASE block = watched
  <2> DEFINE held == [a \in Accounts |-> past'[a].balance]
  <2>1. past' = [a \in Accounts |-> [balance |-> Balance(a), delegate |-> slot[a]]]
    BY <1>5 DEF MineBlock
  <2>2. \A a \in Accounts : held[a] = Balance(a) /\ past'[a].delegate = slot[a]
    BY <2>1
  <2>3. ASSUME NEW d \in Accounts
        PROVE  \E j \in Nat :
                 /\ UpTo(checkpoints'[d], watched', j)
                 /\ VotesAt(checkpoints'[d], j) = HeldBy(RepresentedBy(d))'
    <3> DEFINE cps == checkpoints[d]
               n == Len(cps)
               them == RepresentedBy(d)'
    <3>1. cps \in Seq(Checkpoint)
      BY <1>2
    <3>2. /\ n \in Nat /\ (cps = <<>> <=> n = 0)
          /\ \A i \in 1..n : cps[i].fromBlock <= watched
      BY <1>1, <1>5, <3>1, EmptySeq DEF TrailsAscend
    <3>3. UpTo(cps, watched, n)
      BY <3>2 DEF UpTo
    <3>4. VotesAt(cps, n) = CurrentVotes(cps)
      BY <3>2 DEF VotesAt, CurrentVotes, Last
    <3>5. CurrentVotes(cps) = Cardinality(Represented(d))
      BY <1>1 DEF TrailsShowThem
    <3>6. them = {a \in Accounts : Delegates(a) = d}
      BY <2>2, DelegationAssumption DEF RepresentedBy, Delegates
    <3>7. Represented(d) = {n1 \in Nouns : owner[n1] \in them}
      <4>1. \A n1 \in Nouns : owner[n1] # Zero <=> owner[n1] \in Accounts
        BY <1>1, DelegationAssumption DEF TypeOK, Holder
      <4>2. QED
        BY <3>6, <4>1 DEF Represented
    <3>8. HeldBy(RepresentedBy(d))' = SumFunctionOnSet(held, them)
      BY DEF HeldBy
    <3>9. them \in SUBSET Accounts /\ \A a \in them : held[a] = Balance(a)
      BY <2>2, <3>6
    <3> HIDE DEF held, them
    <3>10. SumFunctionOnSet(held, them)
             = Cardinality({n1 \in Nouns : owner[n1] \in them})
      BY <3>9, BalancesCount
    <3>11. QED
      BY <1>2, <3>2, <3>3, <3>4, <3>5, <3>7, <3>8, <3>10
  <2>4. PastIsShown'
    BY <2>3 DEF PastIsShown
  <2>5. QED
    BY <1>3, <2>4 DEF TrailInv
<1>6. QED
  BY <1>4, <1>5

\* Trails keep showing the past in every reachable state.
LEMMA TrailInvHolds == ASSUME SignedForAccounts PROVE Spec => []TrailInv
<1>1. Init => TrailInv
  <2> SUFFICES ASSUME Init PROVE TrailInv
    OBVIOUS
  <2>1. \A a \in Accounts : checkpoints[a] = <<>> /\ Len(checkpoints[a]) = 0
    BY EmptySeq DEF Init
  <2>2. TrailsAscend
    BY <2>1 DEF TrailsAscend, Ascending
  <2>3. ~(watched < block)
    BY MaxBlockAssumption DEF Init, ChainInit, Blocks
  <2>4. QED
    BY <2>2, <2>3 DEF TrailInv, PastIsShown
<1>2. ASSUME Inv, TrailInv, [Next]_vars PROVE TrailInv'
  <2>1. ASSUME NEW n, NEW to, Give(n, to) PROVE TrailInv'
    BY <1>2, <2>1, MovedLater DEF Give, MoveDelegates, history
  <2>2. ASSUME NEW a, NEW d, SetDelegate(a, d) PROVE TrailInv'
    BY <1>2, <2>2, MovedLater DEF SetDelegate, MoveDelegates, history
  <2>3. CASE MineBlock
    BY <1>2, <2>3, MinedIsShown
  <2>4. CASE UNCHANGED vars
    BY <1>2, <2>4
    DEF vars, tokenVars, history, TrailInv, TrailsAscend, PastIsShown, HeldBy,
        RepresentedBy
  <2>5. QED
    BY <1>2, <2>1, <2>2, <2>3, <2>4
    DEF Next, Mint, Transfer, Burn, Delegate, DelegateBySig
<1>3. QED
  BY <1>1, <1>2, InvHolds, PTL DEF Spec

\* Every variable of the token keeps its type; no trail shows more votes than
\* there are Nouns (ERC721Checkpointable.sol:210-251).
THEOREM TypeCorrect == ASSUME SignedForAccounts PROVE Spec => []TypeOK
<1>1. Inv => TypeOK
  BY DEF Inv
<1>2. QED
  BY <1>1, InvHolds, PTL

\* The votes the token reports for a mined block are the Nouns held when it
\* ended by those the delegate represented, however often they moved within it
\* and since (ERC721Checkpointable.sol:97-106, 163-251).
THEOREM PriorVotesAreRight ==
  ASSUME SignedForAccounts PROVE Spec => []PriorVotesAreHoldings
<1>1. ASSUME Inv, TrailInv PROVE PriorVotesAreHoldings
  <2> SUFFICES ASSUME watched < block, NEW a \in Accounts
               PROVE  PriorVotes(a, watched) = HeldBy(RepresentedBy(a))
    BY DEF PriorVotesAreHoldings
  <2>1. PICK j \in Nat : /\ UpTo(checkpoints[a], watched, j)
                         /\ VotesAt(checkpoints[a], j) = HeldBy(RepresentedBy(a))
    BY <1>1 DEF TrailInv, PastIsShown
  <2>2. /\ checkpoints[a] \in Seq(Checkpoint) /\ watched \in Blocks
        /\ Ascending(checkpoints[a])
    BY <1>1 DEF Inv, TypeOK, TrailInv, TrailsAscend
  <2>3. QED
    BY <2>1, <2>2, PriorVotesAre
<1>2. QED
  BY <1>1, InvHolds, TrailInvHolds, PTL

\* What the pool votes with and sells can be claimed by those whose slot names
\* the base wallet, but for the Nouns of a base wallet that never delegated
\* (Nouns.sol:237, 381-399).
THEOREM OnlyBasesOwnIsUnclaimable ==
  ASSUME SignedForAccounts PROVE Spec => []UnclaimableIsBasesOwn
<1>1. ASSUME TypeOK, PriorVotesAreHoldings PROVE UnclaimableIsBasesOwn
  <2> DEFINE provers == {o \in Accounts : past[o].delegate = Base}
             own == IF past[Base].delegate = Zero THEN past[Base].balance ELSE 0
             held == [a \in Accounts |-> past[a].balance]
  <2> SUFFICES ASSUME watched < block
               PROVE  PriorVotes(Base, watched) - HeldBy(provers) = own
    BY DEF UnclaimableIsBasesOwn
  <2>1. Base \in Accounts /\ Base # Zero /\ IsFiniteSet(provers)
    BY DelegationAssumption, FS_Subset
  <2>2. \A a \in Accounts : held[a] \in Int
    BY <1>1, DelegationAssumption DEF TypeOK, Holding
  <2>3. PriorVotes(Base, watched) = SumFunctionOnSet(held, RepresentedBy(Base))
    BY <1>1, <2>1 DEF PriorVotesAreHoldings, HeldBy
  <2>4. HeldBy(provers) = SumFunctionOnSet(held, provers)
    BY DEF HeldBy
  <2>5. \A o \in provers : held[o] \in Int
    BY <2>2
  <2>6. CASE past[Base].delegate = Zero
    <3>1. RepresentedBy(Base) = provers \cup {Base} /\ Base \notin provers
      BY <2>1, <2>6 DEF RepresentedBy
    <3>2. own = held[Base] /\ held[Base] \in Int
      BY <2>1, <2>2, <2>6
    <3> HIDE DEF held, provers, own
    <3>3. SumFunctionOnSet(held, provers \cup {Base})
            = held[Base] + SumFunctionOnSet(held, provers)
      BY <2>1, <2>5, <3>1, <3>2, SumAdd
    <3>4. SumFunctionOnSet(held, provers) \in Int
      BY <2>1, <2>5, SumIsInt
    <3>5. QED
      BY <2>3, <2>4, <3>1, <3>2, <3>3, <3>4
  <2>7. CASE past[Base].delegate # Zero
    <3>1. RepresentedBy(Base) = provers /\ own = 0
      BY <2>7 DEF RepresentedBy
    <3> HIDE DEF held, provers, own
    <3>2. SumFunctionOnSet(held, provers) \in Int
      BY <2>1, <2>5, SumIsInt
    <3>3. QED
      BY <2>3, <2>4, <3>1, <3>2
  <2>8. QED
    BY <2>6, <2>7
<1>2. QED
  BY <1>1, TypeCorrect, PriorVotesAreRight, PTL
====
