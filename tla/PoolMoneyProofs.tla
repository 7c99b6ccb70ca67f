---- MODULE PoolMoneyProofs ----
(***************************************************************************)
(* The pool's books, for every size: what it owes in total is covered by   *)
(* what it holds, no bidder loses more than its bids, and the votes and    *)
(* the proceeds left to withdraw run out together.                         *)
(***************************************************************************)
EXTENDS PoolEscrowProofs

\* What is owed on each proposal, by the bids stored in b.
Debts(b) ==
    [p \in Props |-> IF b[p].refunded THEN 0 ELSE b[p].remainingAmount]

\* There are finitely many proposals.
LEMMA PropsAreFinite == IsFiniteSet(Props)
BY DAOAssumption, FS_Interval DEF Props

\* The total owed is the sum of the debts, before a step and after it.
LEMMA TotalOfDebts ==
  ASSUME TypeOK, TypeOK'
  PROVE  /\ TotalOwed = SumFunctionOnSet(Debts(bids), Props)
         /\ TotalOwed' = SumFunctionOnSet(Debts(bids'), Props)
         /\ TotalOwed \in Nat /\ TotalOwed' \in Nat
         /\ \A p \in Props :
              /\ Debts(bids)[p] = Owed(p) /\ Debts(bids')[p] = Owed(p)'
              /\ Owed(p) \in Nat /\ Owed(p)' \in Nat
<1>1. TotalOwed = SumFunctionOnSet(Debts(bids), Props)
  BY DEF TotalOwed, SumFunction, Debts, Owed
<1>2. TotalOwed' = SumFunctionOnSet(Debts(bids'), Props)
  BY DEF TotalOwed, SumFunction, Debts, Owed
<1>3. \A p \in Props :
        /\ Debts(bids)[p] = Owed(p) /\ Debts(bids')[p] = Owed(p)'
        /\ Owed(p) \in Nat /\ Owed(p)' \in Nat
  BY DEF Debts, Owed, TypeOK, Bid
<1>4. TotalOwed \in Nat /\ TotalOwed' \in Nat
  BY <1>1, <1>2, <1>3, PropsAreFinite, SumIsNat
<1>5. QED
  BY <1>1, <1>2, <1>3, <1>4

\* When one bid changes, the total changes by as much.
LEMMA TotalFollows ==
  ASSUME TypeOK, TypeOK', NEW p \in Props,
         \A q \in Props : q # p => bids'[q] = bids[q]
  PROVE  TotalOwed' = TotalOwed + (Owed(p)' - Owed(p))
<1>1. \A q \in Props : q # p => Owed(q)' = Owed(q)
  BY DEF Owed
<1>2. QED
  BY <1>1, TotalOfDebts, PropsAreFinite, SumOfChanged

\* The pool's ETH, had provers been paid what callers sent along.
Backing == balance + unfunded

\* The pool's books balance in a step when its backing changes by what it owes.
BooksBalance == TotalOwed' - TotalOwed = Backing' - Backing

\* A bid is owed in full; the one it replaces was, and is returned.
LEMMA PlaceBidBalances ==
  ASSUME Inv, Inv', NEW a \in Bidders, NEW p \in Proposed,
         NEW s \in SupportInputs, NEW v \in BidAmounts,
         PlaceBid(a, p, s, v)
  PROVE  BooksBalance
<1>1. TypeOK /\ TypeOK'
  BY DEF Inv
<1>2. p \in Props /\ v \in Nat /\ bids[p] \in Bid /\ balance \in Nat
  BY <1>1, DAOAssumption, PoolAssumption DEF TypeOK, DAOTypeOK, Proposed, Props
<1>3. /\ ~bids[p].executed /\ Active(p) /\ unfunded' = unfunded
      /\ balance' = balance + v - bids[p].amount
  BY DEF PlaceBid, BidAllowed, LastBidRefund
<1>4. ~bids[p].refunded
  BY <1>2, <1>3, RefundableNotActive DEF Inv, RefundedStaysRefundable
<1>5. /\ bids'[p].remainingAmount = v /\ ~bids'[p].refunded
      /\ \A q \in Props : q # p => bids'[q] = bids[q]
  BY <1>1, <1>2, <1>4 DEF PlaceBid, Bid, TypeOK
<1>6. bids[p].remainingAmount = bids[p].amount
  BY <1>2, <1>3, <1>4 DEF Inv, UncastIsWhole
<1>7. Owed(p) = bids[p].amount /\ Owed(p)' = v
  BY <1>4, <1>5, <1>6 DEF Owed
<1>8. TotalOwed' = TotalOwed + (v - bids[p].amount)
  BY <1>1, <1>2, <1>5, <1>7, TotalFollows
<1>9. TotalOwed \in Nat /\ bids[p].amount \in Nat /\ unfunded \in Int
  BY <1>1, <1>2, TotalOfDebts DEF Bid, TypeOK
<1>10. QED
  BY <1>2, <1>3, <1>8, <1>9 DEF BooksBalance, Backing

\* A claim pays what was owed.
LEMMA ClaimRefundBalances ==
  ASSUME Inv, Inv', NEW a \in Bidders, NEW p \in Proposed, ClaimRefund(a, p)
  PROVE  BooksBalance
<1>1. TypeOK /\ TypeOK'
  BY DEF Inv
<1>2. p \in Props /\ bids[p] \in Bid /\ balance \in Nat
  BY <1>1, DAOAssumption DEF TypeOK, DAOTypeOK, Proposed, Props
<1>3. /\ ~bids[p].refunded /\ bids'[p].refunded
      /\ balance' = balance - bids[p].remainingAmount /\ unfunded' = unfunded
      /\ \A q \in Props : q # p => bids'[q] = bids[q]
  BY <1>1, <1>2 DEF ClaimRefund, NotYetRefunded, Bid, TypeOK
<1>4. Owed(p) = bids[p].remainingAmount /\ Owed(p)' = 0
  BY <1>3 DEF Owed
<1>5. TotalOwed' = TotalOwed - bids[p].remainingAmount
  BY <1>1, <1>2, <1>3, <1>4, TotalFollows, TotalOfDebts
<1>6. TotalOwed \in Nat /\ bids[p].remainingAmount \in Nat /\ unfunded \in Int
  BY <1>1, <1>2, TotalOfDebts DEF Bid, TypeOK
<1>7. QED
  BY <1>2, <1>3, <1>5, <1>6 DEF BooksBalance, Backing

\* A cast pays the fee, the gas and the tip out of what was owed.
LEMMA CastVoteBalances ==
  ASSUME Inv, Inv', NEW p \in Proposed, NEW gas \in GasRefunds, CastVote(p, gas)
  PROVE  BooksBalance
<1> DEFINE votes  == PriorVotes(VoteSnapshotBlock(p))
           fee    == BpsToUint(cfg.feeBPS, bids[p].amount)
           refund == GasRefundWithTipAndCap(gas, bids[p].remainingAmount - fee)
           new    == CastBid(bids[p], votes, fee, refund)
<1>1. TypeOK /\ TypeOK'
  BY DEF Inv
<1>2. p \in Props /\ bids[p] \in Bid /\ balance \in Nat
  BY <1>1, DAOAssumption DEF TypeOK, DAOTypeOK, Proposed, Props
<1>3. /\ ~bids[p].executed /\ Active(p)
      /\ fee <= bids[p].remainingAmount
      /\ bids' = [bids EXCEPT ![p] = new]
      /\ balance' = balance - fee - refund /\ unfunded' = unfunded
  BY DEF CastVote, ExecuteVote, BaseVotes, Active
<1>4. ~bids[p].refunded
  BY <1>2, <1>3, RefundableNotActive DEF Inv, RefundedStaysRefundable
<1>5. fee \in Nat /\ refund \in Nat
  BY <1>1, <1>2, <1>3, CastPayments
<1> HIDE DEF votes, fee, refund
<1>6. /\ bids'[p].remainingAmount = bids[p].remainingAmount - fee - refund
      /\ ~bids'[p].refunded
      /\ \A q \in Props : q # p => bids'[q] = bids[q]
  BY <1>1, <1>2, <1>3, <1>4 DEF CastBid, Bid, TypeOK
<1>7. Owed(p) = bids[p].remainingAmount
      /\ Owed(p)' = bids[p].remainingAmount - fee - refund
  BY <1>4, <1>6 DEF Owed
<1>8. TotalOwed' = TotalOwed + (Owed(p)' - Owed(p))
  BY <1>1, <1>2, <1>6, TotalFollows
<1>9. TotalOwed \in Nat /\ bids[p].remainingAmount \in Nat /\ unfunded \in Int
  BY <1>1, <1>2, TotalOfDebts DEF Bid, TypeOK
<1>10. QED
  BY <1>2, <1>3, <1>5, <1>7, <1>8, <1>9 DEF BooksBalance, Backing

\* The batch's last proposal pays for all of them: what is taken off its bid is
\* what the whole batch pays out (Nouns.sol:407-421).
LEMMA LastPays ==
  ASSUME Inv, NEW o \in Owners, NEW pIds \in Batches,
         NEW n \in ProverVersions, NEW funding \in ProverFunding,
         Withdraw(o, pIds, n, funding)
  PROVE  \E p \in Range(pIds), total \in Nat :
           /\ total = WithdrawAmount(o, pIds)[Len(pIds)]
           /\ p \in Props /\ bids'[p].remainingAmount = bids[p].remainingAmount - total
<1> DEFINE after == WithdrawAmount(o, pIds)
           share == [j \in DOMAIN pIds |-> OwnerShare(o, pIds[j])]
           last == Len(pIds)
           p == pIds[last]
           i == CHOOSE j \in DOMAIN pIds : pIds[j] = p
<1>1. TypeOK
  BY DEF Inv
<1>2. /\ pIds \in Seq(Proposed) /\ last \in Nat /\ DOMAIN pIds = 1..last
      /\ pIds \in [1..last -> Proposed] /\ pIds # <<>> /\ IsInjective(pIds)
  BY BatchIsSeq, LenProperties DEF Batches
<1>3. last \in 1..last
  BY <1>2, EmptySeq
<1>4. i = last
  <2>1. \E j \in DOMAIN pIds : pIds[j] = p
    BY <1>2, <1>3
  <2>2. i \in DOMAIN pIds /\ pIds[i] = p
    BY <2>1
  <2> HIDE DEF i
  <2>3. QED
    BY <1>2, <1>3, <2>2 DEF IsInjective
<1>5. \A q \in Proposed : q \in Props
  BY <1>1, DAOAssumption DEF TypeOK, DAOTypeOK, Proposed, Props
<1>6. p \in Range(pIds) /\ p \in Props /\ bids[p] \in Bid
  BY <1>1, <1>2, <1>3, <1>5 DEF Range, TypeOK
<1>7. \A j \in 1..last : share[j] \in Nat
  <2> SUFFICES ASSUME NEW j \in 1..last PROVE OwnerShare(o, pIds[j]) \in Nat
    BY <1>2
  <2>1. pIds[j] \in Props /\ bids[pIds[j]].remainingVotes # 0
    BY <1>2, <1>5 DEF Withdraw, Withdrawable
  <2>2. QED
    BY <1>1, <2>1, ShareIsNat
<1>8. share \in Seq(Nat) /\ Len(share) = last
  BY <1>2, <1>7
<1>9. after \in [0..last -> Nat]
  BY <1>2, <1>8, RunningTotalIsNat DEF WithdrawAmount
<1>10. bids'[p] = WithdrawnBid(o, p, after[i])
  BY <1>6 DEF Withdraw
<1> HIDE DEF after, share, i
<1>11. after[last] \in Nat
  BY <1>2, <1>9
<1>12. bids'[p].remainingAmount = bids[p].remainingAmount - after[last]
  BY <1>4, <1>6, <1>10 DEF WithdrawnBid, Bid
<1>13. QED
  BY <1>6, <1>11, <1>12 DEF after

\* A withdrawal takes off the bids at least what it pays out.
LEMMA WithdrawCovered ==
  ASSUME Inv, Inv', NEW o \in Owners, NEW pIds \in Batches,
         NEW n \in ProverVersions, NEW funding \in ProverFunding,
         Withdraw(o, pIds, n, funding), Solvent
  PROVE  Solvent'
<1>1. TypeOK /\ TypeOK'
  BY DEF Inv
<1>2. PICK p \in Range(pIds), total \in Nat :
        /\ total = WithdrawAmount(o, pIds)[Len(pIds)]
        /\ p \in Props /\ bids'[p].remainingAmount = bids[p].remainingAmount - total
  BY LastPays
<1>3. Backing' = Backing - total
  <2>1. /\ balance' = balance + funding[2] - funding[1] - total
        /\ unfunded' = unfunded + funding[1] - funding[2]
    BY <1>2 DEF Withdraw
  <2>2. /\ funding[1] \in Nat /\ funding[2] \in Nat
        /\ balance \in Nat /\ unfunded \in Int
    BY <1>1, PoolAssumption DEF TypeOK
  <2>3. QED
    BY <2>1, <2>2 DEF Backing
<1>4. Backing \in Int
  BY <1>1 DEF Backing, TypeOK
<1>5. \A q \in Range(pIds) :
        /\ ~bids[q].refunded /\ ~bids'[q].refunded
        /\ bids'[q].remainingAmount <= bids[q].remainingAmount
  <2> SUFFICES ASSUME NEW q \in Range(pIds)
               PROVE  /\ ~bids[q].refunded /\ ~bids'[q].refunded
                      /\ bids'[q].remainingAmount <= bids[q].remainingAmount
    OBVIOUS
  <2>1. /\ q \in Proposed /\ ~bids[q].refunded /\ ~bids'[q].refunded
        /\ \E taken \in Nat : bids'[q].remainingAmount = bids[q].remainingAmount - taken
    BY WithdrawPass
  <2>2. bids[q].remainingAmount \in Nat
    BY <1>1, <2>1, DAOAssumption DEF TypeOK, DAOTypeOK, Proposed, Props, Bid
  <2>3. QED
    BY <2>1, <2>2
<1>6. \A q \in Props : Owed(q)' <= Owed(q)
  <2> SUFFICES ASSUME NEW q \in Props PROVE Owed(q)' <= Owed(q)
    OBVIOUS
  <2>1. CASE q \in Range(pIds)
    BY <1>5, <2>1 DEF Owed
  <2>2. CASE q \notin Range(pIds)
    <3>1. bids'[q] = bids[q]
      BY <2>2 DEF Withdraw
    <3>2. Owed(q)' = Owed(q) /\ Owed(q) \in Nat
      BY <1>1, <3>1, TotalOfDebts DEF Owed
    <3>3. QED
      BY <3>2
  <2>3. QED
    BY <2>1, <2>2
<1>7. Owed(p)' = Owed(p) - total
  BY <1>2, <1>5 DEF Owed
<1> DEFINE old == Debts(bids)
           new == Debts(bids')
           mid == [q \in Props |-> IF q = p THEN Owed(p) - total ELSE Owed(q)]
<1>8. \A q \in Props : /\ old[q] = Owed(q) /\ old[q] \in Int
                       /\ new[q] = Owed(q)' /\ new[q] \in Int
                       /\ mid[q] \in Int /\ new[q] <= mid[q]
                       /\ q # p => mid[q] = old[q]
  BY <1>1, <1>2, <1>6, <1>7, TotalOfDebts
<1>9. mid[p] - old[p] = -total
  <2>1. mid[p] = old[p] - total /\ old[p] \in Int
    BY <1>2, <1>8
  <2>2. QED
    BY <1>2, <2>1
<1> HIDE DEF old, new, mid
<1>10. SumFunctionOnSet(mid, Props) = SumFunctionOnSet(old, Props) + (mid[p] - old[p])
  <2>1. \A q \in Props : old[q] \in Int /\ mid[q] \in Int
    BY <1>8
  <2>2. \A q \in Props : q # p => mid[q] = old[q]
    BY <1>8
  <2>3. p \in Props /\ IsFiniteSet(Props)
    BY <1>2, PropsAreFinite
  <2>4. QED
    BY <2>1, <2>2, <2>3, SumOfChanged
<1>11. SumFunctionOnSet(new, Props) <= SumFunctionOnSet(mid, Props)
  BY <1>8, PropsAreFinite, SumMonotone
<1>12. /\ TotalOwed = SumFunctionOnSet(old, Props)
       /\ TotalOwed' = SumFunctionOnSet(new, Props)
       /\ TotalOwed \in Nat /\ TotalOwed' \in Nat
  BY <1>1, TotalOfDebts DEF old, new
<1>13. TotalOwed' <= TotalOwed + (-total)
  BY <1>9, <1>10, <1>11, <1>12
<1>14. TotalOwed <= Backing
  BY DEF Solvent, Backing
<1>15. TotalOwed' <= Backing'
  BY <1>2, <1>3, <1>4, <1>12, <1>13, <1>14
<1>16. QED
  BY <1>15 DEF Solvent, Backing

\* A withdrawal of one proposal takes off its bid exactly what it pays out.
LEMMA SingleBalances ==
  ASSUME Inv, Inv', MaxBatch = 1,
         NEW o \in Owners, NEW pIds \in Batches,
         NEW n \in ProverVersions, NEW funding \in ProverFunding,
         Withdraw(o, pIds, n, funding)
  PROVE  BooksBalance
<1>1. TypeOK /\ TypeOK'
  BY DEF Inv
<1>2. PICK p \in Range(pIds), total \in Nat :
        /\ total = WithdrawAmount(o, pIds)[Len(pIds)]
        /\ p \in Props /\ bids'[p].remainingAmount = bids[p].remainingAmount - total
  BY LastPays
<1>3. Backing' = Backing - total
  <2>1. /\ balance' = balance + funding[2] - funding[1] - total
        /\ unfunded' = unfunded + funding[1] - funding[2]
    BY <1>2 DEF Withdraw
  <2>2. /\ funding[1] \in Nat /\ funding[2] \in Nat
        /\ balance \in Nat /\ unfunded \in Int
    BY <1>1, PoolAssumption DEF TypeOK
  <2>3. QED
    BY <2>1, <2>2 DEF Backing
<1>4. Backing \in Int
  BY <1>1 DEF Backing, TypeOK
<1>5. \A q \in Props : q # p => bids'[q] = bids[q]
  <2>1. PICK m \in 0..1 : pIds \in [1..m -> Proposed]
    BY DEF Batches, SeqOf
  <2>2. \A q \in Range(pIds) : q = pIds[1]
    BY <2>1 DEF Range
  <2>3. \A q \in Props : q # p => q \notin Range(pIds)
    BY <1>2, <2>2
  <2>4. QED
    BY <2>3 DEF Withdraw
<1>6. ~bids[p].refunded /\ ~bids'[p].refunded
  BY WithdrawPass
<1>7. Owed(p)' = Owed(p) - total
  BY <1>2, <1>6 DEF Owed
<1>8. TotalOwed' = TotalOwed + (Owed(p)' - Owed(p))
  BY <1>1, <1>2, <1>5, TotalFollows
<1>9. TotalOwed \in Nat /\ Owed(p) \in Nat
  BY <1>1, <1>2, TotalOfDebts
<1>10. TotalOwed' = TotalOwed - total
  BY <1>7, <1>8, <1>9
<1>11. QED
  BY <1>3, <1>4, <1>9, <1>10 DEF BooksBalance

\* A step is one of the four calls that touch a bid, or touches none.
LEMMA WhoTouchesBids ==
  ASSUME [Next]_vars
  PROVE  \/ \E a \in Bidders, p \in Proposed, s \in SupportInputs, v \in BidAmounts :
              PlaceBid(a, p, s, v)
         \/ \E a \in Bidders, p \in Proposed : ClaimRefund(a, p)
         \/ \E p \in Proposed, gas \in GasRefunds : CastVote(p, gas)
         \/ \E o \in Owners, pIds \in Batches, n \in ProverVersions,
              funding \in ProverFunding : Withdraw(o, pIds, n, funding)
         \/ UNCHANGED <<bids, withdrawals, balance, historyVars>>
<1>1. CASE PoolNext
  <2>1. Pause \/ Unpause => UNCHANGED <<bids, withdrawals, balance, historyVars>>
    BY DEF Pause, Unpause, SetPaused
  <2>2. QED
    BY <1>1, <2>1, Zenon DEF PoolNext
<1>2. CASE EnvNext \/ UNCHANGED vars
  BY <1>2
  DEF EnvNext, MineBlock, DAOStep, OwnerStep, ConfigStep, vars, poolVars
<1>3. QED
  BY <1>1, <1>2 DEF Next

\* Only withdrawals may change the backing by anything else than what is owed.
LEMMA StepBalances ==
  ASSUME Inv, Inv', [Next]_vars
  PROVE  \/ BooksBalance
         \/ \E o \in Owners, pIds \in Batches, n \in ProverVersions,
              funding \in ProverFunding : Withdraw(o, pIds, n, funding)
<1>1. UNCHANGED <<bids, withdrawals, balance, historyVars>> => BooksBalance
  <2> SUFFICES ASSUME UNCHANGED <<bids, balance, unfunded>> PROVE BooksBalance
    BY DEF historyVars
  <2>1. /\ TotalOwed' = TotalOwed /\ TotalOwed \in Nat
        /\ Backing' = Backing /\ Backing \in Int
    BY TotalOfDebts DEF Inv, TypeOK, Backing
  <2>2. QED
    BY <2>1 DEF BooksBalance
<1>2. QED
  BY <1>1, WhoTouchesBids, PlaceBidBalances, ClaimRefundBalances, CastVoteBalances

\* Before the first bid nothing is owed and nothing held.
LEMMA InitBacked == Init => ExactlyBacked
<1>0. Init => balance + unfunded = 0
  BY DEF Init
<1> SUFFICES ASSUME Init PROVE TotalOwed = 0
  BY <1>0 DEF ExactlyBacked
<1> DEFINE owed == [p \in Props |-> Owed(p)]
<1>1. \A p \in Props : owed[p] = 0 /\ owed[p] \in Int
  BY DEF Init, Owed, EmptyBid
<1>2. TotalOwed = SumFunctionOnSet(owed, Props)
  BY DEF TotalOwed, SumFunction
<1> HIDE DEF owed
<1>3. {} \in SUBSET Props /\ \A p \in Props \ {} : owed[p] = 0
  BY <1>1
<1>4. SumFunctionOnSet(owed, Props) = SumFunctionOnSet(owed, {})
  BY <1>1, <1>3, PropsAreFinite, SumWithoutZeros
<1>5. QED
  BY <1>2, <1>4, SumOfNone DEF Init

\* The pool has what it owes, whatever is bid, refunded, cast and withdrawn, in
\* batches of any size, whatever the configuration becomes and whatever provers
\* charge: it is short at most of what they were paid beyond what callers of
\* withdraw sent along (Nouns.sol:134-190, 206-217, 278-285, 366-367, 407-421).
THEOREM PoolIsSolvent == Spec => []Solvent
<1>1. Init => Inv /\ Solvent
  <2>1. ASSUME Init PROVE Inv /\ Solvent
    <3>1. Inv /\ TotalOwed = Backing
      BY <2>1, InitInv, InitBacked DEF ExactlyBacked, Backing
    <3>2. Backing \in Int
      BY <3>1 DEF Inv, TypeOK, Backing
    <3>3. QED
      BY <3>1, <3>2 DEF Solvent, Backing
  <2>2. QED
    BY <2>1
<1>2. Inv /\ Solvent /\ [Next]_vars => Inv' /\ Solvent'
  <2> SUFFICES ASSUME Inv, Solvent, [Next]_vars PROVE Inv' /\ Solvent'
    OBVIOUS
  <2>1. Inv'
    BY NextInv
  <2>2. CASE BooksBalance
    <3>1. /\ TotalOwed \in Nat /\ TotalOwed' \in Nat
          /\ Backing \in Int /\ Backing' \in Int
      BY <2>1, TotalOfDebts DEF Inv, TypeOK, Backing
    <3>2. TotalOwed <= Backing /\ TotalOwed' - TotalOwed = Backing' - Backing
      BY <2>2 DEF Solvent, BooksBalance, Backing
    <3>3. TotalOwed' <= Backing'
      BY <3>1, <3>2
    <3>4. QED
      BY <2>1, <3>3 DEF Solvent, Backing
  <2>3. QED
    BY <2>1, <2>2, StepBalances, WithdrawCovered
<1>3. QED
  BY <1>1, <1>2, PTL DEF Spec

\* To the wei the pool holds what it owes, but for what provers and callers of
\* withdraw left or took, as long as proceeds are withdrawn one proposal at a
\* time.  In a batch the pool takes more off a bid than it pays (run batch_share).
THEOREM NothingIsLost ==
  ASSUME MaxBatch = 1
  PROVE  Spec => []ExactlyBacked
<1>1. Inv /\ ExactlyBacked /\ [Next]_vars => Inv' /\ ExactlyBacked'
  <2> SUFFICES ASSUME Inv, ExactlyBacked, [Next]_vars PROVE Inv' /\ ExactlyBacked'
    OBVIOUS
  <2>1. Inv'
    BY NextInv
  <2>2. BooksBalance
    BY <2>1, StepBalances, SingleBalances
  <2>3. /\ TotalOwed \in Nat /\ TotalOwed' \in Nat
        /\ Backing \in Int /\ Backing' \in Int
    BY <2>1, TotalOfDebts DEF Inv, TypeOK, Backing
  <2>4. TotalOwed = Backing /\ TotalOwed' - TotalOwed = Backing' - Backing
    BY <2>2 DEF ExactlyBacked, BooksBalance, Backing
  <2>5. TotalOwed' = Backing'
    BY <2>3, <2>4
  <2>6. QED
    BY <2>1, <2>5 DEF ExactlyBacked, Backing
<1>2. QED
  BY <1>1, InitInv, InitBacked, PTL DEF Spec
-----------------------------------------------------------------------------
(***************************************************************************)
(* Bidders.                                                                *)
(***************************************************************************)
\* What each bid stored in b costs bidder a.
Standing(b, a) ==
    [p \in Props |->
       IF b[p].bidder = a
       THEN b[p].amount - (IF b[p].refunded THEN b[p].remainingAmount ELSE 0)
       ELSE 0]

\* The sum over a bidder's bids is one over all proposals.
LEMMA SumOfStanding ==
  ASSUME NEW b \in [Props -> Bid], NEW a
  PROVE  /\ \A p \in Props : Standing(b, a)[p] \in Int
         /\ SumFunctionOnSet(Standing(b, a), Props) \in Int
         /\ SumFunctionOnSet(
              [p \in Props |->
                 b[p].amount - (IF b[p].refunded THEN b[p].remainingAmount ELSE 0)],
              {p \in Props : b[p].bidder = a})
              = SumFunctionOnSet(Standing(b, a), Props)
<1> DEFINE spent == [p \in Props |->
             b[p].amount - (IF b[p].refunded THEN b[p].remainingAmount ELSE 0)]
           mine == {p \in Props : b[p].bidder = a}
           standing == Standing(b, a)
<1>1. \A p \in Props : /\ spent[p] \in Int
                       /\ standing[p] = IF p \in mine THEN spent[p] ELSE 0
  BY DEF Standing, Bid
<1>2. mine \in SUBSET Props /\ IsFiniteSet(mine)
  BY PropsAreFinite, FS_Subset
<1> HIDE DEF spent, mine, standing
<1>3. SumFunctionOnSet(spent, mine) = SumFunctionOnSet(standing, Props)
  <2>1. \A p \in mine : spent[p] \in Int
    BY <1>1, <1>2
  <2>2. \A p \in Props : standing[p] = IF p \in mine THEN spent[p] ELSE 0
    BY <1>1
  <2>3. QED
    BY <1>2, <2>1, <2>2, PropsAreFinite, SumOfSelected
<1>4. SumFunctionOnSet(standing, Props) \in Int
  <2>1. \A p \in Props : standing[p] \in Int
    BY <1>1
  <2>2. QED
    BY <2>1, PropsAreFinite, SumIsInt
<1>5. QED
  BY <1>1, <1>3, <1>4 DEF spent, mine, standing

\* A bidder's account, before a step and after it.
LEMMA MadeWholeMeans ==
  ASSUME TypeOK, TypeOK'
  PROVE  /\ BidderMadeWhole <=>
              \A a \in Bidders : net[a] = SumFunctionOnSet(Standing(bids, a), Props)
         /\ BidderMadeWhole' <=>
              \A a \in Bidders : net'[a] = SumFunctionOnSet(Standing(bids', a), Props)
<1>1. bids \in [Props -> Bid] /\ bids' \in [Props -> Bid]
  BY DEF TypeOK
<1>2. BidderMadeWhole <=>
        \A a \in Bidders : net[a] = SumFunctionOnSet(Standing(bids, a), Props)
  BY <1>1, SumOfStanding DEF BidderMadeWhole, Spent
<1>3. BidderMadeWhole' <=>
        \A a \in Bidders : net'[a] = SumFunctionOnSet(Standing(bids', a), Props)
  BY <1>1, SumOfStanding DEF BidderMadeWhole, Spent
<1>4. QED
  BY <1>2, <1>3

\* An account follows the one bid that changes.
LEMMA AccountFollows ==
  ASSUME TypeOK, TypeOK', BidderMadeWhole, NEW p \in Props,
         \A q \in Props : q # p => bids'[q] = bids[q],
         \A a \in Bidders :
           net'[a] = net[a] + (Standing(bids', a)[p] - Standing(bids, a)[p])
  PROVE  BidderMadeWhole'
<1> SUFFICES ASSUME NEW a \in Bidders
             PROVE  net'[a] = SumFunctionOnSet(Standing(bids', a), Props)
  BY MadeWholeMeans
<1> DEFINE old == Standing(bids, a)
           new == Standing(bids', a)
<1>1. \A q \in Props : q # p => new[q] = old[q]
  BY DEF Standing
<1>2. \A q \in Props : old[q] \in Int /\ new[q] \in Int
  BY SumOfStanding DEF TypeOK
<1>3. net[a] = SumFunctionOnSet(old, Props)
  BY MadeWholeMeans
<1>4. net'[a] = net[a] + (new[p] - old[p])
  OBVIOUS
<1> HIDE DEF old, new
<1>5. SumFunctionOnSet(new, Props) = SumFunctionOnSet(old, Props) + (new[p] - old[p])
  BY <1>1, <1>2, PropsAreFinite, SumOfChanged
<1>6. QED
  BY <1>3, <1>4, <1>5 DEF new

\* As long as no bid changes hands, its amount or its refund, nor do accounts.
LEMMA AccountsStand ==
  ASSUME TypeOK, TypeOK', BidderMadeWhole, net' = net,
         \A p \in Props :
           /\ bids'[p].bidder = bids[p].bidder /\ bids'[p].amount = bids[p].amount
           /\ bids'[p].refunded = bids[p].refunded
           /\ bids[p].refunded => bids'[p].remainingAmount = bids[p].remainingAmount
  PROVE  BidderMadeWhole'
<1> SUFFICES ASSUME NEW a \in Bidders
             PROVE  net'[a] = SumFunctionOnSet(Standing(bids', a), Props)
  BY MadeWholeMeans
<1>1. Standing(bids', a) = Standing(bids, a)
  BY DEF Standing
<1>2. QED
  BY <1>1, MadeWholeMeans

\* Being outbid returns the bid that stood, to whom it stood for.
LEMMA PlaceBidAccounts ==
  ASSUME Inv, Inv', BidderMadeWhole, NEW a \in Bidders, NEW p \in Proposed,
         NEW s \in SupportInputs, NEW v \in BidAmounts,
         PlaceBid(a, p, s, v)
  PROVE  BidderMadeWhole'
<1>1. TypeOK /\ TypeOK'
  BY DEF Inv
<1>2. p \in Props /\ v \in Nat /\ bids[p] \in Bid
  BY <1>1, DAOAssumption, PoolAssumption DEF TypeOK, DAOTypeOK, Proposed, Props
<1>3. ~bids[p].executed /\ Active(p)
  BY DEF PlaceBid, BidAllowed
<1>4. ~bids[p].refunded
  BY <1>2, <1>3, RefundableNotActive DEF Inv, RefundedStaysRefundable
<1>5. /\ bids'[p].amount = v /\ bids'[p].bidder = a /\ ~bids'[p].refunded
      /\ \A q \in Props : q # p => bids'[q] = bids[q]
  BY <1>1, <1>2, <1>4 DEF PlaceBid, Bid, TypeOK
<1>6. ASSUME NEW x \in Bidders
      PROVE  net'[x] = net[x] + (Standing(bids', x)[p] - Standing(bids, x)[p])
  <2>1. /\ Standing(bids', x)[p] = IF x = a THEN v ELSE 0
        /\ Standing(bids, x)[p] = IF x = bids[p].bidder THEN bids[p].amount ELSE 0
    BY <1>2, <1>4, <1>5 DEF Standing, Bid
  <2>2. net'[x] = net[x] + (IF x = a THEN v ELSE 0)
                         - (IF x = bids[p].bidder THEN bids[p].amount ELSE 0)
    BY DEF PlaceBid, LastBidRefund
  <2>3. net[x] \in Int /\ bids[p].amount \in Nat
    BY <1>1, <1>2 DEF TypeOK, Bid
  <2>4. QED
    BY <1>2, <2>1, <2>2, <2>3
<1>7. QED
  BY <1>1, <1>2, <1>5, <1>6, AccountFollows

\* A refund returns what is left of the bid to its bidder.
LEMMA ClaimRefundAccounts ==
  ASSUME Inv, Inv', BidderMadeWhole, NEW a \in Bidders, NEW p \in Proposed,
         ClaimRefund(a, p)
  PROVE  BidderMadeWhole'
<1>1. TypeOK /\ TypeOK'
  BY DEF Inv
<1>2. p \in Props /\ bids[p] \in Bid
  BY <1>1, DAOAssumption DEF TypeOK, DAOTypeOK, Proposed, Props
<1>3. /\ bids[p].bidder = a /\ bids'[p].bidder = a
      /\ ~bids[p].refunded /\ bids'[p].refunded
      /\ bids'[p].amount = bids[p].amount
      /\ bids'[p].remainingAmount = bids[p].remainingAmount
      /\ \A q \in Props : q # p => bids'[q] = bids[q]
  BY <1>1, <1>2 DEF ClaimRefund, NotYetRefunded, Bid, TypeOK
<1>4. ASSUME NEW x \in Bidders
      PROVE  net'[x] = net[x] + (Standing(bids', x)[p] - Standing(bids, x)[p])
  <2>1. /\ Standing(bids', x)[p] = IF x = a THEN bids[p].amount - bids[p].remainingAmount
                                  ELSE 0
        /\ Standing(bids, x)[p] = IF x = a THEN bids[p].amount ELSE 0
    BY <1>2, <1>3 DEF Standing, Bid
  <2>2. net'[x] = IF x = a THEN net[x] - bids[p].remainingAmount ELSE net[x]
    BY <1>1 DEF ClaimRefund, TypeOK
  <2>3. net[x] \in Int /\ bids[p].amount \in Nat /\ bids[p].remainingAmount \in Nat
    BY <1>1, <1>2 DEF TypeOK, Bid
  <2>4. QED
    BY <2>1, <2>2, <2>3
<1>5. QED
  BY <1>1, <1>2, <1>3, <1>4, AccountFollows

\* Bidders are out of pocket exactly by the bids in their names, whoever outbids
\* whom, whatever is cast, refunded and withdrawn (Nouns.sol:177-180, 207).
THEOREM BiddersAreMadeWhole == Spec => []BidderMadeWhole
<1>1. Init => BidderMadeWhole
  <2> SUFFICES ASSUME Init, NEW a \in Bidders
               PROVE  net[a] = SumFunctionOnSet([p \in Props |-> Spent(p)],
                                                {p \in Props : bids[p].bidder = a})
    BY DEF BidderMadeWhole
  <2>1. {p \in Props : bids[p].bidder = a} = {}
    BY PoolAssumption DEF Init, EmptyBid
  <2>2. QED
    BY <2>1, SumOfNone DEF Init
<1>2. Inv /\ BidderMadeWhole /\ [Next]_vars => Inv' /\ BidderMadeWhole'
  <2> SUFFICES ASSUME Inv, BidderMadeWhole, [Next]_vars PROVE Inv' /\ BidderMadeWhole'
    OBVIOUS
  <2>1. Inv'
    BY NextInv
  <2>2. TypeOK /\ TypeOK'
    BY <2>1 DEF Inv
  <2>3. ASSUME NEW p \in Proposed, NEW gas \in GasRefunds, CastVote(p, gas)
        PROVE  BidderMadeWhole'
    <3>1. p \in Props /\ bids[p] \in Bid
      BY <2>2, DAOAssumption DEF TypeOK, DAOTypeOK, Proposed, Props
    <3>2. ~bids[p].refunded
      BY <2>3, <3>1, RefundableNotActive
      DEF CastVote, ExecuteVote, BaseVotes, Active, Inv, RefundedStaysRefundable
    <3>3. /\ bids'[p].bidder = bids[p].bidder /\ bids'[p].amount = bids[p].amount
          /\ bids'[p].refunded = bids[p].refunded
          /\ \A q \in Props : q # p => bids'[q] = bids[q]
          /\ net' = net
      BY <2>2, <2>3, <3>1 DEF CastVote, CastBid, Bid, TypeOK
    <3>4. QED
      BY <2>2, <3>2, <3>3, AccountsStand
  <2>4. ASSUME NEW o \in Owners, NEW pIds \in Batches, NEW n \in ProverVersions,
               NEW funding \in ProverFunding, Withdraw(o, pIds, n, funding)
        PROVE  BidderMadeWhole'
    <3>1. \A p \in Props : p \notin Range(pIds) => bids'[p] = bids[p]
      BY <2>4 DEF Withdraw
    <3>2. \A p \in Range(pIds) :
            /\ bids'[p].bidder = bids[p].bidder /\ bids'[p].amount = bids[p].amount
            /\ bids'[p].refunded = bids[p].refunded /\ ~bids[p].refunded
      BY <2>4, WithdrawPass
    <3>3. net' = net
      BY <2>4 DEF Withdraw
    <3>4. QED
      BY <2>2, <3>1, <3>2, <3>3, AccountsStand
  <2>5. CASE UNCHANGED <<bids, withdrawals, balance, historyVars>>
    BY <2>1, <2>2, <2>5, AccountsStand DEF historyVars
  <2>6. ASSUME NEW a \in Bidders, NEW p \in Proposed, ClaimRefund(a, p)
        PROVE  BidderMadeWhole'
    BY <2>1, <2>6, ClaimRefundAccounts
  <2>7. ASSUME NEW a \in Bidders, NEW p \in Proposed, NEW s \in SupportInputs,
               NEW v \in BidAmounts, PlaceBid(a, p, s, v)
        PROVE  BidderMadeWhole'
    BY <2>1, <2>7, PlaceBidAccounts
  <2>8. QED
    BY <2>1, <2>3, <2>4, <2>5, <2>6, <2>7, WhoTouchesBids
<1>3. QED
  BY <1>1, <1>2, InitInv, PTL DEF Spec
-----------------------------------------------------------------------------
(***************************************************************************)
(* Delegators.                                                             *)
(***************************************************************************)
\* Who withdraws the last votes takes, in any batch, all that is left
\* (Nouns.sol:407-412): the shares are of what remains, not of the bid.
LEMMA LastTakesAll ==
  ASSUME Inv, NEW o \in Owners, NEW pIds \in Batches,
         NEW n \in ProverVersions, NEW funding \in ProverFunding,
         Withdraw(o, pIds, n, funding), NEW p \in Range(pIds),
         bids'[p].remainingVotes = 0
  PROVE  bids'[p].remainingAmount = 0
<1> DEFINE a == bids[p].remainingAmount
           v == bids[p].remainingVotes
           proven == ProvenBalance(o, p)
<1>1. p \in Props /\ v # 0 /\ proven \in Nat
  BY WithdrawTakes DEF Withdrawable
<1>2. PICK taken \in Nat :
        /\ OwnerShare(o, p) <= taken /\ taken <= a
        /\ bids'[p] = WithdrawnBid(o, p, taken)
  BY WithdrawTakes
<1>3. bids[p] \in Bid /\ a \in Nat /\ v \in Nat \ {0}
  BY <1>1 DEF Inv, TypeOK, Bid
<1>4. bids'[p].remainingVotes = v - proven /\ bids'[p].remainingAmount = a - taken
  BY <1>2, <1>3 DEF WithdrawnBid, Bid
<1>5. OwnerShare(o, p) = (proven * a) \div v
  BY DEF OwnerShare
<1> HIDE DEF a, v, proven
<1>6. proven = v
  BY <1>1, <1>3, <1>4
<1>7. OwnerShare(o, p) = a
  BY <1>3, <1>5, <1>6, WholeShare
<1>8. QED
  BY <1>2, <1>3, <1>4, <1>7

\* No proceeds are left without votes to withdraw them, in batches of any size
\* (Nouns.sol:400-412).
THEOREM NothingIsStranded == Spec => []NothingStranded
<1>1. Init => NothingStranded
  BY DEF Init, EmptyBid, NothingStranded
<1>2. Inv /\ NothingStranded /\ [Next]_vars => Inv' /\ NothingStranded'
  <2> SUFFICES ASSUME Inv, NothingStranded, [Next]_vars,
                      NEW p \in Props, bids'[p].executed, bids'[p].remainingVotes = 0
               PROVE  bids'[p].remainingAmount = 0
    BY NextInv DEF NothingStranded
  <2>1. /\ bids \in [Props -> Bid]
        /\ bids[p].executed /\ bids[p].remainingVotes = 0 => bids[p].remainingAmount = 0
    BY DEF Inv, TypeOK, NothingStranded
  <2>2. ASSUME NEW a \in Bidders, NEW q \in Proposed, NEW s \in SupportInputs,
               NEW v \in BidAmounts, PlaceBid(a, q, s, v)
        PROVE  bids'[p] = bids[p]
    <3>1. ~bids[q].executed
      BY <2>2 DEF PlaceBid, BidAllowed
    <3>2. p # q
      BY <2>1, <2>2, <3>1 DEF PlaceBid, Bid
    <3>3. QED
      BY <2>1, <2>2, <3>2 DEF PlaceBid
  <2>3. ASSUME NEW a \in Bidders, NEW q \in Proposed, ClaimRefund(a, q)
        PROVE  /\ bids'[p].executed = bids[p].executed
               /\ bids'[p].remainingVotes = bids[p].remainingVotes
               /\ bids'[p].remainingAmount = bids[p].remainingAmount
    BY <2>1, <2>3 DEF ClaimRefund, Bid
  <2>4. ASSUME NEW q \in Proposed, NEW gas \in GasRefunds, CastVote(q, gas)
        PROVE  bids'[p] = bids[p]
    <3>1. PriorVotes(VoteSnapshotBlock(q)) # 0
      BY <2>4 DEF CastVote
    <3>2. p # q
      BY <2>1, <2>4, <3>1 DEF CastVote, CastBid, Bid
    <3>3. QED
      BY <2>1, <2>4, <3>2 DEF CastVote
  <2>5. ASSUME NEW o \in Owners, NEW pIds \in Batches, NEW n \in ProverVersions,
               NEW funding \in ProverFunding, Withdraw(o, pIds, n, funding)
        PROVE  bids'[p].remainingAmount = 0
    <3>1. CASE p \in Range(pIds)
      BY <2>5, <3>1, LastTakesAll
    <3>2. CASE p \notin Range(pIds)
      <4>1. bids'[p] = bids[p]
        BY <2>5, <3>2 DEF Withdraw
      <4>2. QED
        BY <2>1, <4>1
    <3>3. QED
      BY <3>1, <3>2
  <2>6. CASE UNCHANGED <<bids, withdrawals, balance, historyVars>>
    BY <2>1, <2>6
  <2>7. QED
    BY <2>1, <2>2, <2>3, <2>4, <2>5, <2>6, WhoTouchesBids
<1>3. QED
  BY <1>1, <1>2, InitInv, PTL DEF Spec

\* The owner leaves the rule that chooses a proposal's snapshot alone.
SnapshotFixed(from) ==
    \A c \in InitConfigs \cup ConfigInputs : c.useStartBlockFromPropId = from

\* Every setter keeps the rule, its own because it is only called with the
\* value there is.
LEMMA ConfigKeepsSnapshot ==
  ASSUME NEW from, SnapshotFixed(from), TypeOK, ConfigNext,
         cfg.useStartBlockFromPropId = from
  PROVE  cfg'.useStartBlockFromPropId = from
<1>1. cfg \in ConfigType /\ ConfigInputs \subseteq ConfigType
  BY ConfigAssumption DEF TypeOK, ConfigTypeOK
<1>2. ASSUME NEW c \in ConfigInputs, SetConfig(c)
      PROVE  cfg'.useStartBlockFromPropId = from
  <2>1. /\ c \in ConfigType /\ c.useStartBlockFromPropId = from
        /\ cfg' = Defaulted(c)
    BY <1>1, <1>2 DEF SetConfig, SnapshotFixed
  <2>2. QED
    BY <2>1 DEF Defaulted, ConfigType
<1>3. ASSUME NEW n,
             \/ SetTipAndRefund(n) \/ SetMaxProverVersion(n)
             \/ SetReservePrice(n) \/ SetFee(n) \/ SetMigrationPropId(n)
             \/ SetCastWindow(n)
      PROVE  cfg'.useStartBlockFromPropId = from
  BY <1>1, <1>3
  DEF ConfigType, SetTipAndRefund, SetMaxProverVersion, SetReservePrice, SetFee,
      SetMigrationPropId, SetCastWindow
<1>4. ASSUME NEW n \in Offered("useStartBlockFromPropId"),
             SetUseStartBlockFromPropId(n)
      PROVE  cfg'.useStartBlockFromPropId = from
  <2>1. n = from
    BY DEF Offered, SnapshotFixed
  <2>2. QED
    BY <1>1, <1>4, <2>1 DEF SetUseStartBlockFromPropId, ConfigType
<1>5. ASSUME NEW n, NEW k, SetAuctionSettings(n, k)
      PROVE  cfg'.useStartBlockFromPropId = from
  BY <1>1, <1>5 DEF SetAuctionSettings, ConfigType
<1>6. QED
  BY <1>2, <1>3, <1>4, <1>5 DEF ConfigNext

\* Of the votes counted at a block, one owner's leave the others'.
LEMMA OneOwnerLess ==
  ASSUME NEW b \in Blocks, NEW S \in SUBSET Owners, NEW o \in S \cap Delegators(b)
  PROVE  DelegatedBy(S \ {o}, b) = DelegatedBy(S, b) - Holding[b][o].balance
<1> DEFINE held == [x \in Owners |-> Holding[b][x].balance]
           R == S \cap Delegators(b)
<1>1. R \in SUBSET Owners /\ IsFiniteSet(Owners) /\ o \in R
  BY HoldingAssumption DEF Delegators
<1>2. IsFiniteSet(R)
  BY <1>1, FS_Subset
<1>3. \A x \in R : held[x] \in Nat /\ held[x] \in Int
  BY <1>1, HoldingAssumption
<1>4. held[o] = Holding[b][o].balance /\ (S \ {o}) \cap Delegators(b) = R \ {o}
  BY <1>1
<1>5. DelegatedBy(S, b) = SumFunctionOnSet(held, R)
  BY DEF DelegatedBy
<1>6. DelegatedBy(S \ {o}, b) = SumFunctionOnSet(held, R \ {o})
  BY <1>4 DEF DelegatedBy
<1> HIDE DEF held, R
<1>7. SumFunctionOnSet(held, R) = held[o] + SumFunctionOnSet(held, R \ {o})
  BY <1>1, <1>2, <1>3, SumTakeOut
<1>8. DelegatedBy(S \ {o}, b) \in Nat /\ held[o] \in Nat
  BY <1>1, <1>3, DelegatedIsNat
<1>9. QED
  BY <1>4, <1>5, <1>6, <1>7, <1>8

\* The snapshot of a bid is what it was while the rule and its dates stand.
LEMMA SameSnapshot ==
  ASSUME NEW p \in Props,
         cfg'.useStartBlockFromPropId = cfg.useStartBlockFromPropId,
         bids'[p].startBlock = bids[p].startBlock,
         bids'[p].creationBlock = bids[p].creationBlock
  PROVE  VoteSnapshotBlock(p)' = VoteSnapshotBlock(p)
BY DEF VoteSnapshotBlock

\* A bid's claims: nothing is withdrawn before the cast, and then the votes left
\* are those of the owners who have not withdrawn.
ClaimsMatch(p) ==
    /\ withdrawals[p] # {} => bids[p].executed
    /\ bids[p].executed =>
         bids[p].remainingVotes =
           DelegatedBy(Owners \ withdrawals[p], VoteSnapshotBlock(p))

\* A bid whose votes, withdrawals and dates stand has the claims it had.
LEMMA ClaimsStand ==
  ASSUME NEW p \in Props, ClaimsMatch(p),
         cfg'.useStartBlockFromPropId = cfg.useStartBlockFromPropId,
         withdrawals'[p] = withdrawals[p],
         bids'[p].executed = bids[p].executed,
         bids[p].executed =>
           /\ bids'[p].remainingVotes = bids[p].remainingVotes
           /\ bids'[p].startBlock = bids[p].startBlock
           /\ bids'[p].creationBlock = bids[p].creationBlock
  PROVE  ClaimsMatch(p)'
<1>1. CASE bids[p].executed
  <2>1. VoteSnapshotBlock(p)' = VoteSnapshotBlock(p)
    BY <1>1, SameSnapshot
  <2>2. QED
    BY <1>1, <2>1 DEF ClaimsMatch, DelegatedBy
<1>2. CASE ~bids[p].executed
  BY <1>2 DEF ClaimsMatch
<1>3. QED
  BY <1>1, <1>2

\* The cast counts every owner's votes, and nobody has withdrawn.
LEMMA CastVoteClaims ==
  ASSUME Inv, NEW p \in Proposed, NEW gas \in GasRefunds, CastVote(p, gas),
         NEW q \in Props, ClaimsMatch(q)
  PROVE  ClaimsMatch(q)'
<1>1. /\ bids \in [Props -> Bid] /\ cfg' = cfg /\ withdrawals' = withdrawals
      /\ ~bids[p].executed
  BY DEF Inv, TypeOK, CastVote
<1>2. CASE q # p
  BY <1>1, <1>2, ClaimsStand DEF CastVote
<1>3. CASE q = p
  <2>1. /\ bids'[p].executed /\ bids'[p].startBlock = bids[p].startBlock
        /\ bids'[p].creationBlock = bids[p].creationBlock
        /\ bids'[p].remainingVotes = PriorVotes(VoteSnapshotBlock(p))
    BY <1>1, <1>3 DEF CastVote, CastBid, Bid
  <2>2. VoteSnapshotBlock(p)' = VoteSnapshotBlock(p)
    BY <1>1, <1>3, <2>1, SameSnapshot
  <2>3. withdrawals'[p] = {} /\ Owners \ withdrawals'[p] = Owners
    BY <1>1, <1>3 DEF ClaimsMatch
  <2>4. QED
    BY <1>3, <2>1, <2>2, <2>3 DEF ClaimsMatch, PriorVotes, DelegatedBy
<1>4. QED
  BY <1>2, <1>3

\* A withdrawal takes the votes its owner proved, and marks it as withdrawn.
LEMMA WithdrawClaims ==
  ASSUME Inv, NEW o \in Owners, NEW pIds \in Batches, NEW n \in ProverVersions,
         NEW funding \in ProverFunding, Withdraw(o, pIds, n, funding),
         NEW q \in Props, ClaimsMatch(q)
  PROVE  ClaimsMatch(q)'
<1>1. cfg' = cfg
  BY DEF Withdraw, otherVars
<1>2. CASE q \notin Range(pIds)
  <2>1. bids'[q] = bids[q] /\ withdrawals'[q] = withdrawals[q]
    BY <1>2 DEF Withdraw
  <2>2. QED
    BY <1>1, <2>1, ClaimsStand
<1>3. CASE q \in Range(pIds)
  <2> DEFINE b == VoteSnapshotBlock(q)
             left == Owners \ withdrawals[q]
  <2>1. /\ Withdrawable(o, q) /\ withdrawals'[q] = withdrawals[q] \cup {o}
        /\ \E taken : bids'[q] = WithdrawnBid(o, q, taken)
    BY <1>3, WithdrawTakes
  <2>2. bids[q] \in Bid /\ b \in Blocks /\ withdrawals[q] \in SUBSET Owners
    BY SnapshotVotes DEF Inv, TypeOK
  <2>3. /\ bids'[q].executed /\ bids[q].executed
        /\ bids'[q].startBlock = bids[q].startBlock
        /\ bids'[q].creationBlock = bids[q].creationBlock
        /\ bids'[q].remainingVotes = bids[q].remainingVotes - ProvenBalance(o, q)
    BY <2>1, <2>2 DEF WithdrawnBid, Withdrawable, Bid
  <2>4. VoteSnapshotBlock(q)' = b
    BY <1>1, <2>3, SameSnapshot
  <2>5. o \in left \cap Delegators(b) /\ ProvenBalance(o, q) = Holding[b][o].balance
    BY <2>1 DEF Withdrawable, NotYetWithdrawn, ProvenBalance
  <2>6. Owners \ withdrawals'[q] = left \ {o} /\ left \in SUBSET Owners
    BY <2>1
  <2>7. bids[q].remainingVotes = DelegatedBy(left, b)
    BY <2>3 DEF ClaimsMatch
  <2> HIDE DEF b, left
  <2>8. DelegatedBy(left \ {o}, b) = DelegatedBy(left, b) - Holding[b][o].balance
    BY <2>2, <2>5, <2>6, OneOwnerLess
  <2>9. bids'[q].remainingVotes = DelegatedBy(left \ {o}, b)
    BY <2>3, <2>5, <2>7, <2>8
  <2>10. DelegatedBy(Owners \ withdrawals'[q], VoteSnapshotBlock(q)')
           = DelegatedBy(left \ {o}, b)
    BY <2>4, <2>6
  <2>11. QED
    BY <2>3, <2>9, <2>10 DEF ClaimsMatch, DelegatedBy
<1>4. QED
  BY <1>2, <1>3

\* What is left to withdraw belongs to those who have not withdrawn, as long as
\* the owner does not move the snapshots of cast bids (Nouns.sol:237-240, 411;
\* ModuleConfig.sol, setUseStartBlockFromPropId).
THEOREM VotesAreClaims ==
  ASSUME NEW from, SnapshotFixed(from)
  PROVE  Spec => []VotesMatchClaims
<1> DEFINE RuleStands == cfg.useStartBlockFromPropId = from
           AllMatch == \A p \in Props : ClaimsMatch(p)
<1>1. Init => Inv /\ RuleStands /\ AllMatch
  <2> SUFFICES ASSUME Init PROVE RuleStands /\ AllMatch
    BY InitInv
  <2>1. PICK c \in InitConfigs : cfg = Defaulted(c)
    BY DEF Init, ConfigInit
  <2>2. c \in ConfigType /\ c.useStartBlockFromPropId = from
    BY ConfigAssumption DEF SnapshotFixed
  <2>3. RuleStands
    BY <2>1, <2>2 DEF Defaulted, ConfigType
  <2>4. AllMatch
    BY DEF Init, EmptyBid, ClaimsMatch
  <2>5. QED
    BY <2>3, <2>4
<1>2. Inv /\ RuleStands /\ AllMatch /\ [Next]_vars => Inv' /\ RuleStands' /\ AllMatch'
  <2> SUFFICES ASSUME Inv, RuleStands, AllMatch, [Next]_vars
               PROVE  Inv' /\ RuleStands' /\ AllMatch'
    OBVIOUS
  <2>1. Inv' /\ bids \in [Props -> Bid]
    BY NextInv DEF Inv, TypeOK
  <2>2. RuleStands'
    BY OnlyConfigStepsConfigure, ConfigKeepsSnapshot DEF ConfigStep, Inv
  <2>3. cfg'.useStartBlockFromPropId = cfg.useStartBlockFromPropId
    BY <2>2
  <2>4. ASSUME NEW q \in Props PROVE ClaimsMatch(q)'
    <3>1. ClaimsMatch(q)
      OBVIOUS
    <3>2. ASSUME NEW a \in Bidders, NEW p \in Proposed, NEW s \in SupportInputs,
                 NEW v \in BidAmounts, PlaceBid(a, p, s, v)
          PROVE  ClaimsMatch(q)'
      <4>1. withdrawals' = withdrawals /\ ~bids[p].executed
        BY <3>2 DEF PlaceBid, BidAllowed
      <4>2. bids'[q].executed = bids[q].executed /\ (q # p => bids'[q] = bids[q])
        BY <2>1, <3>2 DEF PlaceBid, Bid
      <4>3. QED
        BY <2>3, <3>1, <4>1, <4>2, ClaimsStand
    <3>3. ASSUME NEW a \in Bidders, NEW p \in Proposed, ClaimRefund(a, p)
          PROVE  ClaimsMatch(q)'
      <4>1. withdrawals' = withdrawals
        BY <3>3 DEF ClaimRefund
      <4>2. /\ bids'[q].executed = bids[q].executed
            /\ bids'[q].remainingVotes = bids[q].remainingVotes
            /\ bids'[q].startBlock = bids[q].startBlock
            /\ bids'[q].creationBlock = bids[q].creationBlock
        BY <2>1, <3>3 DEF ClaimRefund, Bid
      <4>3. QED
        BY <2>3, <3>1, <4>1, <4>2, ClaimsStand
    <3>4. CASE UNCHANGED <<bids, withdrawals, balance, historyVars>>
      BY <2>3, <3>1, <3>4, ClaimsStand
    <3>5. ASSUME NEW p \in Proposed, NEW gas \in GasRefunds, CastVote(p, gas)
          PROVE  ClaimsMatch(q)'
      BY <3>1, <3>5, CastVoteClaims
    <3>6. ASSUME NEW o \in Owners, NEW pIds \in Batches, NEW n \in ProverVersions,
                 NEW funding \in ProverFunding, Withdraw(o, pIds, n, funding)
          PROVE  ClaimsMatch(q)'
      BY <3>1, <3>6, WithdrawClaims
    <3>7. QED
      BY <3>2, <3>3, <3>4, <3>5, <3>6, WhoTouchesBids
  <2>5. QED
    BY <2>1, <2>2, <2>4
<1>3. AllMatch => VotesMatchClaims
  BY DEF ClaimsMatch, VotesMatchClaims
<1>4. QED
  BY <1>1, <1>2, <1>3, PTL DEF Spec
====
