---- MODULE Ballots ----
(***************************************************************************)
(* What federating a vote promises, with neither chains nor messages: each *)
(* proposal has one ballot.  Votes are counted while it is open; once it is*)
(* closed its tally stands, and what it says may be cast, once.            *)
(***************************************************************************)
EXTENDS Integers

CONSTANTS
    Proposals,
    None            \* nothing has been cast

Choices == 0..2     \* against, for, abstain

VARIABLES
    tally,          \* tally[p][s]: votes counted for choice s
    closed,
    cast            \* cast[p]: the choice cast, or None

ballotVars == <<tally, closed, cast>>

BallotsInit ==
    /\ tally = [p \in Proposals |-> [s \in Choices |-> 0]]
    /\ closed = [p \in Proposals |-> FALSE]
    /\ cast = [p \in Proposals |-> None]

\* Between choices with equally many votes the lower rank wins: for, against,
\* abstain.
Rank(s) == IF s = 1 THEN 0 ELSE IF s = 0 THEN 1 ELSE 2

Wins(votes, s) ==
    \A r \in Choices :
      votes[r] < votes[s] \/ (votes[r] = votes[s] /\ Rank(s) <= Rank(r))

Count(p, s, n) ==
    /\ ~closed[p]
    /\ tally' = [tally EXCEPT ![p][s] = @ + n]
    /\ UNCHANGED <<closed, cast>>

\* The number of votes counted is any positive one.
CountSome(p, s) ==
    /\ tally'[p][s] > tally[p][s]
    /\ Count(p, s, tally'[p][s] - tally[p][s])

Close(p) ==
    /\ ~closed[p]
    /\ closed' = [closed EXCEPT ![p] = TRUE]
    /\ UNCHANGED <<tally, cast>>

Cast(p, s) ==
    /\ closed[p]
    /\ cast[p] = None
    /\ Wins(tally[p], s)
    /\ cast' = [cast EXCEPT ![p] = s]
    /\ UNCHANGED <<tally, closed>>

BallotsNext ==
    \E p \in Proposals, s \in Choices : CountSome(p, s) \/ Close(p) \/ Cast(p, s)

BallotsSpec == BallotsInit /\ [][BallotsNext]_ballotVars
====
