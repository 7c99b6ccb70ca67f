---- MODULE BidEscrow ----
(***************************************************************************)
(* What the pool promises about the money of a bid, whatever the auction,  *)
(* the DAO, the configuration and the order of calls: one escrow per       *)
(* proposal.  It holds the best offer until the vote is cast, then pays    *)
(* out of it, or gives back what it still holds and is closed.             *)
(***************************************************************************)
EXTENDS Integers

CONSTANTS
    Proposals,
    Nobody          \* in whose name the empty offer stands

VARIABLE escrow     \* escrow[p]

Stages == {"offered", "cast", "closed"}

EmptyOffer ==
    [stage |-> "offered", bidder |-> Nobody, support |-> 0,
     amount |-> 0, held |-> 0, out |-> 0]

EscrowInit == escrow = [p \in Proposals |-> EmptyOffer]

\* Who offered how much for which vote.
Terms(e) == <<e.bidder, e.support, e.amount>>

\* A better or an equal offer, of which nothing is spent, replaces the last.
Outbid(e, f) ==
    /\ e.stage = "offered" /\ f.stage = "offered"
    /\ f.amount >= e.amount
    /\ f.held = f.amount /\ f.out = 0

\* All that goes out was held; some may stay behind for good.
Spend(e, f) ==
    /\ Terms(f) = Terms(e)
    /\ f.held >= 0
    /\ f.out >= e.out
    /\ f.out - e.out <= e.held - f.held

Cast(e, f) == e.stage = "offered" /\ f.stage = "cast" /\ Spend(e, f)

PayOut(e, f) == e.stage = "cast" /\ f.stage = "cast" /\ Spend(e, f)

GiveBack(e, f) ==
    /\ e.stage # "closed" /\ f.stage = "closed"
    /\ Terms(f) = Terms(e)
    /\ f.held = 0
    /\ f.out = e.out + e.held

Move(e, f) == Outbid(e, f) \/ Cast(e, f) \/ PayOut(e, f) \/ GiveBack(e, f)

\* One call may pay out of several escrows.
EscrowNext ==
    /\ DOMAIN escrow' = Proposals
    /\ \A p \in Proposals : escrow'[p] = escrow[p] \/ Move(escrow[p], escrow'[p])

EscrowSpec == EscrowInit /\ [][EscrowNext]_escrow
====
