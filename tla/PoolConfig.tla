---- MODULE PoolConfig ----
(***************************************************************************)
(* The configuration of a governance pool (ModuleConfig.sol) and the calls *)
(* its owner makes to change it.  The owner of a pool is the base wallet,  *)
(* so every such call travels Manager -> Base.execute -> pool.             *)
(*                                                                         *)
(* Left out of the record: addresses, the vote reason, the storage slots   *)
(* and maxBaseFeeRefund (the gas refund of a cast is an input, see         *)
(* NounsPool).                                                             *)
(***************************************************************************)
EXTENDS BaseWallet

CONSTANTS
    Pool,           \* the pool module's address
    Manager,        \* the manager module's address
    InitConfigs,    \* configurations init is called with
    ConfigInputs    \* bound: configurations the owner's inputs are taken from

ConfigType ==
    [reservePrice : Nat, timeBuffer : Nat, minBidIncrementPercentage : Nat,
     castWindow : Nat, auctionCloseBlocks : Nat, tip : Nat, feeBPS : Nat,
     maxProverVersion : Nat, useStartBlockFromPropId : Nat,
     migrationPropId : Nat]

ASSUME ConfigAssumption ==
    /\ Pool \in Modules /\ Manager \in Modules
    /\ InitConfigs \subseteq ConfigType
    /\ ConfigInputs \subseteq ConfigType

VARIABLE cfg        \* _cfg

ConfigTypeOK == cfg \in ConfigType

\* The checks of _validateConfig and the default it fills in.
Valid(c) ==
    /\ c.castWindow # 0
    /\ c.auctionCloseBlocks # 0
    /\ c.auctionCloseBlocks >= c.castWindow

Defaulted(c) ==
    IF c.reservePrice = 0 THEN [c EXCEPT !.reservePrice = 1] ELSE c

ConfigInit == \E c \in InitConfigs : Valid(c) /\ cfg = Defaulted(c)

\* The values of a field the owner may pass to its setter.
Offered(field) == {c[field] : c \in ConfigInputs}

\* onlyOwner: the call reaches the pool only through an enabled manager.
OnlyOwner == OnlyEnabled(Manager)

\* Fault: the lock is not looked at.  (A definition marked `Fault' is wrong on
\* purpose: what a slip would make of the one after it, which never uses it.)
LockIgnored == OnlyEnabled(Pool)

\* isNotLocked: hasActiveLock itself reverts for a module that is not enabled.
IsNotLocked == OnlyEnabled(Pool) /\ ~HasActiveLock(Pool)

SetConfig(c) ==
    /\ IsNotLocked
    /\ Valid(c)
    /\ cfg' = Defaulted(c)

SetTipAndRefund(n) == cfg' = [cfg EXCEPT !.tip = n]

SetMaxProverVersion(n) == cfg' = [cfg EXCEPT !.maxProverVersion = n]

SetUseStartBlockFromPropId(p) ==
    cfg' = [cfg EXCEPT !.useStartBlockFromPropId = p]

\* Fees only ever go down.
SetFee(bps) ==
    /\ bps < cfg.feeBPS
    /\ cfg' = [cfg EXCEPT !.feeBPS = bps]

SetReservePrice(n) ==
    /\ n > 0
    /\ cfg' = [cfg EXCEPT !.reservePrice = n]

\* Unlike the other setters, compares nothing with auctionCloseBlocks.
SetCastWindow(n) ==
    /\ n > 0
    /\ cfg' = [cfg EXCEPT !.castWindow = n]

\* Fault: the two windows are not compared.
SetAnyAuctionSettings(buffer, close) ==
    cfg' = [cfg EXCEPT !.timeBuffer = buffer, !.auctionCloseBlocks = close]

SetAuctionSettings(buffer, close) ==
    /\ close >= cfg.castWindow
    /\ cfg' = [cfg EXCEPT !.timeBuffer = buffer, !.auctionCloseBlocks = close]

SetMigrationPropId(p) == cfg' = [cfg EXCEPT !.migrationPropId = p]

ConfigNext ==
    /\ OnlyOwner
    /\ \/ \E c \in ConfigInputs : SetConfig(c)
       \/ \E n \in Offered("tip") : SetTipAndRefund(n)
       \/ \E n \in Offered("maxProverVersion") : SetMaxProverVersion(n)
       \/ \E p \in Offered("useStartBlockFromPropId") :
            SetUseStartBlockFromPropId(p)
       \/ \E bps \in Offered("feeBPS") : SetFee(bps)
       \/ \E n \in Offered("reservePrice") : SetReservePrice(n)
       \/ \E n \in Offered("castWindow") : SetCastWindow(n)
       \/ \E buffer \in Offered("timeBuffer"),
            close \in Offered("auctionCloseBlocks") :
            SetAuctionSettings(buffer, close)
       \/ \E p \in Offered("migrationPropId") : SetMigrationPropId(p)
-----------------------------------------------------------------------------
\* While the pool holds a lock, that is from the first bid to the end of the
\* vote, its fee never rises: setConfig is barred by isNotLocked and setFee
\* only lowers it (ModuleConfig.sol:104,163).
FeeNeverRaisedUnderLock ==
    [][HasActiveLock(Pool) => cfg'.feeBPS <= cfg.feeBPS]_<<cfg, block, walletVars>>
====
