---- MODULE MCDelegation ----
(***************************************************************************)
(* Instances of Delegation for TLC.                                        *)
(***************************************************************************)
EXTENDS Delegation

CONSTANTS base, o1

\* o1 signs once for the base wallet, in time or too late.
MCSignatures == {[by |-> o1, to |-> base, nonce |-> 0, expiry |-> 2]}
====
