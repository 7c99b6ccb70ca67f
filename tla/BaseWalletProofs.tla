---- MODULE BaseWalletProofs ----
(***************************************************************************)
(* What the base wallet guarantees its modules, for every set of modules   *)
(* and every duration they and the owner may choose.                       *)
(***************************************************************************)
EXTENDS BaseWallet, TLAPS

walletSpecVars == <<block, walletVars>>

WalletInv ==
    /\ block \in Blocks
    /\ BaseTypeOK
    /\ LockedModuleEnabled

\* Every call keeps the wallet's types, and an enabled module with a running
\* lock is never disabled (Base.sol:72-84).
LEMMA WalletInvInductive ==
    BaseSpec => []WalletInv
<1>1. BaseSpecInit => WalletInv
  BY MaxBlockAssumption, BaseAssumption
  DEF BaseSpecInit, ChainInit, BaseInit, WalletInv, BaseTypeOK, LockedModuleEnabled, Blocks
<1>2. WalletInv /\ [BaseNext]_walletSpecVars => WalletInv'
  <2> SUFFICES ASSUME WalletInv, [BaseNext]_walletSpecVars
               PROVE  WalletInv'
    OBVIOUS
  <2> USE MaxBlockAssumption, BaseAssumption
      DEF WalletInv, BaseTypeOK, LockedModuleEnabled, Blocks
  <2>1. CASE Mine /\ UNCHANGED walletVars
    BY <2>1 DEF Mine, walletVars
  <2>2. ASSUME NEW m \in Switchable, NEW enable \in BOOLEAN,
               SetModule(m, enable), UNCHANGED block
        PROVE  WalletInv'
    BY <2>2 DEF SetModule
  <2>3. ASSUME NEW n \in LockDurations, SetMaxLockDurationBlocks(n),
               UNCHANGED block
        PROVE  WalletInv'
    BY <2>3 DEF SetMaxLockDurationBlocks
  <2>4. ASSUME NEW m \in Modules, NEW n \in LockRequests, RequestLock(m, n),
               UNCHANGED block
        PROVE  WalletInv'
    BY <2>4 DEF RequestLock, OnlyEnabled
  <2>5. ASSUME NEW m \in Modules, ReleaseLock(m), UNCHANGED block
        PROVE  WalletInv'
    BY <2>5 DEF ReleaseLock, OnlyEnabled
  <2>6. CASE UNCHANGED walletSpecVars
    BY <2>6 DEF walletSpecVars, walletVars
  <2>7. QED
    BY <2>1, <2>2, <2>3, <2>4, <2>5, <2>6 DEF BaseNext, BaseOwnerNext
<1>3. QED
  BY <1>1, <1>2, PTL DEF BaseSpec, walletSpecVars

\* A module that holds a lock is enabled, in every behaviour of the wallet.
THEOREM LocksHold == BaseSpec => []LockedModuleEnabled
<1>1. WalletInv => LockedModuleEnabled
  BY DEF WalletInv
<1>2. QED
  BY <1>1, WalletInvInductive, PTL

\* No step but the module's own releaseLock ends a running lock early: neither
\* the owner nor a shorter request does (Base.sol:96-101).
THEOREM LocksAreKept == BaseSpec => LockNeverShortened
<1>1. WalletInv /\ [BaseNext]_<<block, walletVars>> =>
        [\A m \in Modules :
           lock[m] > block => \/ lock'[m] >= lock[m]
                              \/ ReleaseLock(m)]_<<block, walletVars>>
  <2> SUFFICES ASSUME WalletInv, BaseNext, NEW k \in Modules, lock[k] > block,
                      ~ReleaseLock(k)
               PROVE  lock'[k] >= lock[k]
    OBVIOUS
  <2> USE MaxBlockAssumption, BaseAssumption DEF WalletInv, BaseTypeOK, Blocks
  <2>1. CASE UNCHANGED lock
    BY <2>1
  <2>2. ASSUME NEW m \in Modules, NEW n \in LockRequests, RequestLock(m, n)
        PROVE  lock'[k] >= lock[k]
    BY <2>2 DEF RequestLock
  <2>3. ASSUME NEW m \in Modules, ReleaseLock(m)
        PROVE  lock'[k] >= lock[k]
    <3>1. m # k
      BY <2>3
    <3>2. QED
      BY <2>3, <3>1 DEF ReleaseLock
  <2>4. BaseOwnerNext \/ (Mine /\ UNCHANGED walletVars) => UNCHANGED lock
    BY DEF BaseOwnerNext, SetModule, SetMaxLockDurationBlocks, walletVars
  <2>5. QED
    BY <2>1, <2>2, <2>3, <2>4 DEF BaseNext
<1>2. QED
  BY <1>1, WalletInvInductive, PTL DEF BaseSpec, LockNeverShortened
====
