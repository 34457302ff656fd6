------------------------------ MODULE RelayGas ------------------------------
(***************************************************************************)
(* The gas a relayed transaction is signed for, clob/relayer.go.  The      *)
(* calldata is abstracted to its numbers of zero and of other bytes.  An   *)
(* estimate is what a node returns, far below 2^64: the sums do not wrap.  *)
(***************************************************************************)
EXTENDS Integers

CONSTANTS
    MarginMin,      \* relayerGasMarginMin
    MarginBps,      \* relayerGasMarginBps
    GuardReserve,   \* relayHubGuardReserveGas
    PreGuard,       \* relayHubPreGuardGas
    TxBase,         \* txBaseGas
    ZeroGas,        \* txDataZeroGas
    NonZeroGas,     \* txDataNonZeroGas
    DefaultOuter,   \* defaultRelayerOuterGasLimit
    ConfiguredOuter \* OnChainConfig.RelayerOuterGasLimit, 0 when not given

ASSUME GasAssumption ==
    {MarginMin, MarginBps, GuardReserve, PreGuard, TxBase, ZeroGas, NonZeroGas,
     DefaultOuter, ConfiguredOuter} \subseteq Nat

Calldata == [zero : Nat, other : Nat]

\* effectiveRelayerOuterGasLimit
Outer == IF ConfiguredOuter # 0 THEN ConfiguredOuter ELSE DefaultOuter

\* relayCallIntrinsicGas
Intrinsic(data) == TxBase + ZeroGas * data.zero + NonZeroGas * data.other

Percentage(est) == (est * MarginBps) \div 10000

\* relayerGasMargin
Margin(est) == IF Percentage(est) < MarginMin THEN MarginMin ELSE Percentage(est)

Signed(est) == est + Margin(est)

BeforeUserCall(data) == Intrinsic(data) + GuardReserve + PreGuard

\* maxGuardRelayGasLimit, where it is defined.
MaxSigned(data) == Outer - BeforeUserCall(data)

\* Mutant: the reserve of the guard is forgotten.
TooLargeNoReserve(est, data) == Intrinsic(data) + Signed(est) > Outer

\* The two refusals of preflightProxyTxBatch.
TooLarge(est, data) ==
    \/ BeforeUserCall(data) >= Outer
    \/ Signed(est) > MaxSigned(data)

\* What RelayHub's guard asks of a call, in the words of onchain.go:42-44.
PassesGuard(signed, data) == signed + GuardReserve + Intrinsic(data) + PreGuard <= Outer
=============================================================================
