---- MODULE BaseWallet ----
(***************************************************************************)
(* The base wallet (src/src/wallet/Base.sol): the account the Nouns are    *)
(* delegated to.  Enabled modules act through it (execute) and may lock    *)
(* themselves in, so that its owner cannot disable them for a while.       *)
(* The module also is a specification of its own, BaseSpec.                *)
(***************************************************************************)
EXTENDS Chain

CONSTANTS
    Modules,          \* modules the wallet knows
    Switchable,       \* bound: modules the owner ever enables or disables
    LockDurations,    \* values setMaxLockDurationBlocks is called with
    InitMaxLock,      \* maxLockDurationBlocks set by initialize
    LockRequests      \* durations modules request (BaseSpec only)

ASSUME BaseAssumption ==
    /\ Switchable \subseteq Modules
    /\ LockDurations \subseteq Nat
    /\ InitMaxLock \in Nat
    /\ LockRequests \subseteq Nat

VARIABLES
    enabled,                \* _enabled
    lock,                   \* _lock: the block until which a module is locked
    maxLockDurationBlocks

walletVars == <<enabled, lock, maxLockDurationBlocks>>

BaseTypeOK ==
    /\ enabled \in [Modules -> BOOLEAN]
    /\ lock \in [Modules -> Nat]
    /\ maxLockDurationBlocks \in Nat

\* initialize enables nothing: the owner enables modules afterwards.
BaseInit(on) ==
    /\ enabled = [m \in Modules |-> m \in on]
    /\ lock = [m \in Modules |-> 0]
    /\ maxLockDurationBlocks = InitMaxLock

\* onlyEnabled
OnlyEnabled(m) == enabled[m]

\* Fault: the lock is not looked at.  (A definition marked `Fault' is wrong on
\* purpose: what a slip would make of the one after it, which never uses it.)
SetModuleIgnoringLock(m, enable) ==
    /\ enabled[m] # enable
    /\ enabled' = [enabled EXCEPT ![m] = enable]
    /\ UNCHANGED <<lock, maxLockDurationBlocks>>

\* A call that changes nothing returns early and is a stuttering step.
SetModule(m, enable) ==
    /\ enabled[m] # enable
    /\ ~enable => lock[m] <= block
    /\ enabled' = [enabled EXCEPT ![m] = enable]
    /\ UNCHANGED <<lock, maxLockDurationBlocks>>

\* Fault: a later request replaces an earlier one.
RequestLockReplacing(m, blocks) ==
    /\ OnlyEnabled(m)
    /\ blocks <= maxLockDurationBlocks
    /\ lock' = [lock EXCEPT ![m] = block + blocks]
    /\ UNCHANGED <<enabled, maxLockDurationBlocks>>

RequestLock(m, blocks) ==
    /\ OnlyEnabled(m)
    /\ blocks <= maxLockDurationBlocks
    /\ lock' = [lock EXCEPT ![m] = IF @ > block + blocks THEN @ ELSE block + blocks]
    /\ UNCHANGED <<enabled, maxLockDurationBlocks>>

ReleaseLock(m) ==
    /\ OnlyEnabled(m)
    /\ lock' = [lock EXCEPT ![m] = 0]
    /\ UNCHANGED <<enabled, maxLockDurationBlocks>>

\* What hasActiveLock returns to an enabled module.
HasActiveLock(m) == lock[m] >= block

SetMaxLockDurationBlocks(n) ==
    /\ maxLockDurationBlocks' = n
    /\ UNCHANGED <<enabled, lock>>

\* What the wallet's owner does.
BaseOwnerNext ==
    \/ \E m \in Switchable, enable \in BOOLEAN : SetModule(m, enable)
    \/ \E n \in LockDurations : SetMaxLockDurationBlocks(n)

\* The wallet on its own, with modules that lock and release as they like.
BaseNext ==
    \/ Mine /\ UNCHANGED walletVars
    \/ /\ UNCHANGED block
       /\ \/ BaseOwnerNext
          \/ \E m \in Modules :
               \/ \E n \in LockRequests : RequestLock(m, n)
               \/ ReleaseLock(m)

BaseSpecInit == ChainInit /\ BaseInit({})

BaseSpec ==
    /\ BaseSpecInit
    /\ [][BaseNext]_<<block, walletVars>>
-----------------------------------------------------------------------------
\* A module that holds a lock is enabled: the owner can neither disable it nor
\* has disabled it before (setModule, Base.sol:77).
LockedModuleEnabled ==
    \A m \in Modules : lock[m] > block => enabled[m]

\* A lock that is still running is shortened by nothing but the module's own
\* releaseLock; a later, shorter request leaves it alone (Base.sol:96-101).
LockNeverShortened ==
    [][\A m \in Modules :
         lock[m] > block => \/ lock'[m] >= lock[m]
                            \/ ReleaseLock(m)]_<<block, walletVars>>
====
