---- MODULE MCBaseWallet ----
(***************************************************************************)
(* The base wallet by itself, with two modules, for TLC.                   *)
(***************************************************************************)
EXTENDS BaseWallet, TLC

CONSTANTS pool, other

ModuleSymmetry == Permutations({pool, other})
====
