----------------------------- MODULE OrderBuild -----------------------------
(***************************************************************************)
(* BuildOrder and computeOrderAmounts of clob/client.go: the validations   *)
(* in their order, the fee adjustment of a BUY and the token amounts of    *)
(* the order.                                                              *)
(*                                                                         *)
(* Sizes are given in thousandths of a share and prices in ticks.  The     *)
(* code works on float64; what a float64 does to a size is modelled bit    *)
(* for bit (BelowGrid).  A price only meets math.Round, which finds the    *)
(* tick it came from.  From 2^23 hundredths on (83886 shares) the spacing   *)
(* of float64 exceeds the tolerance of the alignment check, which may then *)
(* reject a size that is on the grid: the model builds such orders, the    *)
(* code builds fewer.                                                      *)
(***************************************************************************)
EXTENDS Integers

CONSTANTS
    Sizes,          \* sizes asked for, in thousandths of a share
    Prices,         \* limit prices, in ticks
    Ticks,          \* tick sizes given with WithMarket
    Rates,          \* fee rates given with WithFeeAdjustment, in thousandths
    RefPrices,      \* reference prices given with it, in ticks
    FeeTicks        \* tick sizes given with it

ASSUME SizesAssumption == Sizes \subseteq Nat \ {0}
ASSUME PricesAssumption == Prices \subseteq Nat \ {0} /\ RefPrices \subseteq Int
ASSUME RatesAssumption == Rates \subseteq Int

\* RoundingConfigs: the decimals of a price for each tick size.
PriceDigits ==
    [tick \in {"0.1", "0.01", "0.001", "0.0001"} |->
        CASE tick = "0.1" -> 1 [] tick = "0.01" -> 2 [] tick = "0.001" -> 3 [] OTHER -> 4]
pow10Int == [n \in 0..6 |-> 10^n]

MinBuyShares == 5

-----------------------------------------------------------------------------
(* size * 100 in float64 *)

Precision == 53
Pow2 == [n \in 0..30 |-> 2^n]
\* From 2^2 on, the last two digits come back every 20 powers.
Pow2Mod100(n) == Pow2[IF n < 22 THEN n ELSE 2 + ((n - 2) % 20)] % 100
Log2(k) == CHOOSE n \in 0..30 : Pow2[n] <= k /\ k < 2 * Pow2[n]

\* floor(log2(k / 100)), the exponent of the float64 nearest to k hundredths.
SizeExponent(k) ==
    IF k >= 100 THEN Log2(k \div 100)
    ELSE -(CHOOSE n \in 1..7 : k * Pow2[n] >= 100 /\ k * Pow2[n - 1] < 100)

\* 100 * m - k * 2^e, where m * 2^-e is the float64 nearest to k hundredths.
Residue(k) ==
    LET r == (k * Pow2Mod100(Precision - 1 - SizeExponent(k))) % 100
    IN  IF r <= 50 THEN -r ELSE 100 - r

\* The product of that float64 with 100 is rounded to a float64 below k: the
\* residue exceeds half the distance from k to its lower neighbour, which is
\* half as large when k is a power of two.
BelowGrid(k) ==
    LET shift == Log2(k) - SizeExponent(k)
        half  == Pow2[IF k = Pow2[Log2(k)] THEN shift - 2 ELSE shift - 1]
    IN  Residue(k) < -half

\* Mutant: whole shares are cut off before the scaling.
WholeShares(k) == (k \div 100) * 100
\* math.Floor(size * 100) of a size of k hundredths.  The float64 is at most half of
\* 2^(SizeExponent(k) - 52) away from k / 100, so up to 2^52 the product is less than
\* one away from k, and the floor is k, or k - 1 when the product is below k.
FloorCents(k) == IF BelowGrid(k) THEN k - 1 ELSE k

-----------------------------------------------------------------------------
(* Amounts in 6-decimal units *)

Collateral(units, p, digits) == units * p * pow10Int[4 - digits]
Shares(units) == units * pow10Int[4]

\* What an order of units hundredths of a share at p ticks hands over.
Amounts(side, units, p, digits) ==
    IF side = "BUY"
    THEN [makerAmount |-> Collateral(units, p, digits), takerAmount |-> Shares(units)]
    ELSE [makerAmount |-> Shares(units), takerAmount |-> Collateral(units, p, digits)]

computeOrderAmounts(side, k, p, digits) == Amounts(side, FloorCents(k), p, digits)

-----------------------------------------------------------------------------
(* The fee adjustment *)

\* Rates come in thousandths and prices in ticks: what a whole is in their product.
Whole(digits) == pow10Int[3] * pow10Int[digits]

\* BuyFeeRate for a price of p ticks, as a part of that whole.
BuyFeeRate(rate, p, digits) ==
    IF rate <= 0 \/ p <= 0 \/ p >= pow10Int[digits] THEN 0
    ELSE rate * (pow10Int[digits] - p)

\* The rate an order is adjusted with: at the reference price if it is one,
\* and none when it would leave nothing.
AdjustRate(r) ==
    LET digits == PriceDigits[r.tick]
        ref == IF r.ref <= 0 \/ r.ref >= pow10Int[digits] THEN r.price ELSE r.ref
        fr == BuyFeeRate(r.rate, ref, digits)
    IN  IF fr >= Whole(digits) THEN 0 ELSE fr

\* Mutant: the fee is added to the net size instead of divided out.
GrossAdded(size, fr, digits) ==
    {(size * ((Whole(digits) + fr) \div 100)) \div pow10Int[digits + 2] + 1}
\* math.Ceil(size / (1 - fr) * 100): a quotient that is a whole number may
\* come out of float64 a little above it, and is then rounded to the next.
GrossCents(size, fr, digits) ==
    LET n == size * pow10Int[digits + 2]
        d == Whole(digits) - fr
    IN  IF n % d = 0 THEN {n \div d, n \div d + 1} ELSE {n \div d + 1}

-----------------------------------------------------------------------------
VARIABLES
    req,            \* the call: token, price, size and options
    result,         \* "none", the error returned, or "built"
    order           \* the amounts of the order

buildVars == <<req, result, order>>

NoOrder == [makerAmount |-> 0, takerAmount |-> 0]

BuildRequests ==
    [side : {"BUY", "SELL", ""}, orderType : {"GTC", ""}, tick : Ticks, price : Prices,
     size : Sizes, tokenOK : BOOLEAN, feeAdjust : {FALSE}, rate : {0}, ref : {0}, feeTick : {""}]
    \cup
    [side : {"BUY", "SELL"}, orderType : {"GTC"}, tick : Ticks, price : Prices,
     size : Sizes, tokenOK : {TRUE}, feeAdjust : {TRUE}, rate : Rates, ref : RefPrices,
     feeTick : FeeTicks]

BuildInit == req \in BuildRequests /\ result = "none" /\ order = NoOrder

Adjusts(r) == r.feeAdjust /\ r.side = "BUY"

\* Mutant: the minimum is asked of the wrong side.
TooSmallToSell(r, k) == r.side = "SELL" /\ k < 100 * MinBuyShares
TooSmall(r, k) == r.side = "BUY" /\ k < 100 * MinBuyShares

\* The validations that come before the size is looked at, in their order.
OptionChecks(r) ==
    <<[bad |-> r.side \notin {"BUY", "SELL"}, error |-> "side"],
      [bad |-> r.orderType = "", error |-> "orderType"],
      [bad |-> r.tick \notin DOMAIN PriceDigits, error |-> "tickSize"],
      [bad |-> Adjusts(r) /\ r.feeTick \notin DOMAIN PriceDigits, error |-> "feeTickSize"]>>

OptionsOK(r) == \A i \in DOMAIN OptionChecks(r) : ~OptionChecks(r)[i].bad

Returns(error) == result' = error /\ UNCHANGED <<req, order>>

RejectOptions ==
    /\ result = "none"
    /\ \E i \in DOMAIN OptionChecks(req) :
        /\ OptionChecks(req)[i].bad
        /\ \A j \in 1..(i - 1) : ~OptionChecks(req)[j].bad
        /\ Returns(OptionChecks(req)[i].error)

\* A size that is asked for is off the grid of hundredths.
RejectSize ==
    /\ result = "none"
    /\ OptionsOK(req) /\ ~Adjusts(req)
    /\ req.size % 10 # 0
    /\ Returns("alignment")

\* The sizes, in hundredths, that the order may be built for.
OrderCents(r) ==
    IF Adjusts(r) THEN GrossCents(r.size, AdjustRate(r), PriceDigits[r.tick])
    ELSE {k \in {r.size \div 10} : 10 * k = r.size}

RejectMinimum ==
    /\ result = "none"
    /\ OptionsOK(req)
    /\ \E k \in OrderCents(req) : TooSmall(req, k)
    /\ Returns("minimum")

\* The amounts are computed before the token is parsed, and dropped.
RejectToken ==
    /\ result = "none"
    /\ OptionsOK(req) /\ ~req.tokenOK
    /\ \E k \in OrderCents(req) : ~TooSmall(req, k)
    /\ Returns("tokenID")

BuildOk ==
    /\ result = "none"
    /\ OptionsOK(req) /\ req.tokenOK
    /\ \E k \in OrderCents(req) :
        /\ ~TooSmall(req, k)
        /\ order' = computeOrderAmounts(req.side, k, req.price, PriceDigits[req.tick])
    /\ result' = "built"
    /\ UNCHANGED req

BuildNext == RejectOptions \/ RejectSize \/ RejectMinimum \/ RejectToken \/ BuildOk

BuildSpec == BuildInit /\ [][BuildNext]_buildVars

-----------------------------------------------------------------------------
(* Properties *)

Built == result = "built"
SharesOut == IF req.side = "BUY" THEN order.takerAmount ELSE order.makerAmount
CollateralOut == IF req.side = "BUY" THEN order.makerAmount ELSE order.takerAmount

\* "bit-exact result vs. the decimal reference path": the amounts are those of
\* computeOrderAmountsDecimal, which floors the decimal number the caller wrote.
FastPathParity ==
    Built /\ ~Adjusts(req) =>
        order = Amounts(req.side, req.size \div 10, req.price, PriceDigits[req.tick])

\* The disagreement with the decimal path is one of sizes that are no float64: for
\* a multiple of a quarter of a share, up to 2^31 hundredths, the amounts are exact.
QuartersParity ==
    (req.size \div 10) % 25 = 0 /\ req.size \div 20 < Pow2[30] => FastPathParity

\* The minimum survives the conversion: no BUY leaves with less than
\* MinBuyShares shares, whatever its fee adjustment and its rounding.
MinimumKept == Built /\ req.side = "BUY" => SharesOut >= MinBuyShares * pow10Int[6]

\* After the fee at the reference price, a fee-adjusted BUY leaves the net size
\* asked for, up to the hundredth of a share that float64 may cost.
NetKept ==
    Built /\ Adjusts(req) =>
        LET digits == PriceDigits[req.tick]
        IN  (SharesOut \div pow10Int[4] + 1) * (Whole(digits) - AdjustRate(req))
                >= req.size * pow10Int[digits + 2]
=============================================================================
