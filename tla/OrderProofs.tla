---------------------------- MODULE OrderProofs ----------------------------
(***************************************************************************)
(* An order when it is built (OrderBuild), for every size, price and fee   *)
(* rate, and in its life at the exchange (OrderLifecycle), for any number  *)
(* of replicas, orders and batches.                                        *)
(*                                                                         *)
(* Of the first, what float64 makes of a size is reduced to the table of   *)
(* powers of two that BelowGrid reads.  Of the second, an answer on its    *)
(* way says what was so when the exchange gave it; the proofs rest on what *)
(* of that stays so until the replica reads it.                            *)
(***************************************************************************)
EXTENDS OrderBuild, OrderLifecycle, FiniteSetTheorems, TLAPS

-----------------------------------------------------------------------------
(* What float64 makes of a size *)

\* The table of powers that BelowGrid reads.
LEMMA Pow2Table ==
    /\ Pow2[0] = 1 /\ Pow2[1] = 2 /\ Pow2[2] = 4 /\ Pow2[3] = 8
    /\ Pow2[4] = 16 /\ Pow2[5] = 32 /\ Pow2[6] = 64 /\ Pow2[7] = 128
    /\ Pow2[8] = 256 /\ Pow2[9] = 512 /\ Pow2[10] = 1024 /\ Pow2[11] = 2048
    /\ Pow2[12] = 4096 /\ Pow2[13] = 8192 /\ Pow2[14] = 16384 /\ Pow2[15] = 32768
    /\ Pow2[16] = 65536 /\ Pow2[17] = 131072 /\ Pow2[18] = 262144 /\ Pow2[19] = 524288
    /\ Pow2[20] = 1048576 /\ Pow2[21] = 2097152 /\ Pow2[22] = 4194304 /\ Pow2[23] = 8388608
    /\ Pow2[24] = 16777216 /\ Pow2[25] = 33554432 /\ Pow2[26] = 67108864 /\ Pow2[27] = 134217728
    /\ Pow2[28] = 268435456 /\ Pow2[29] = 536870912 /\ Pow2[30] = 1073741824
BY DEF Pow2

\* An index of that table is one of its 31 places.
LEMMA Exponents ==
    ASSUME NEW n \in 0..30
    PROVE  \/ n = 0 \/ n = 1 \/ n = 2 \/ n = 3 \/ n = 4 \/ n = 5 \/ n = 6 \/ n = 7
           \/ n = 8 \/ n = 9 \/ n = 10 \/ n = 11 \/ n = 12 \/ n = 13 \/ n = 14 \/ n = 15
           \/ n = 16 \/ n = 17 \/ n = 18 \/ n = 19 \/ n = 20 \/ n = 21 \/ n = 22 \/ n = 23
           \/ n = 24 \/ n = 25 \/ n = 26 \/ n = 27 \/ n = 28 \/ n = 29 \/ n = 30
OBVIOUS

\* A power of two is positive, and doubles with its exponent.
LEMMA Pow2Doubles ==
    ASSUME NEW n \in 0..30
    PROVE  Pow2[n] \in Nat \ {0} /\ (n < 30 => Pow2[n + 1] = 2 * Pow2[n])
BY Pow2Table, Exponents

\* Of two exponents that lie at most one apart, the powers differ by at most a factor.
LEMMA Pow2Close ==
    ASSUME NEW a \in 0..30, NEW b \in 0..30, b <= a + 1
    PROVE  Pow2[b] <= 2 * Pow2[a]
BY Pow2Table, Exponents

\* The sizes for which every exponent is in the table, in hundredths of a share.
Tabled == {k \in Nat \ {0} : k < 2 * Pow2[30]}

\* Log2 is the exponent of the largest power of two that is not above k.
LEMMA Log2Is ==
    ASSUME NEW k \in Tabled
    PROVE  /\ Log2(k) \in 0..30
           /\ Pow2[Log2(k)] <= k /\ k < 2 * Pow2[Log2(k)]
<1>1. \E n \in 0..30 : Pow2[n] <= k /\ k < 2 * Pow2[n]
    <2>. SUFFICES ASSUME \A n \in 0..30 : ~(Pow2[n] <= k /\ k < 2 * Pow2[n]) PROVE FALSE
        OBVIOUS
    <2>1. \A n \in 0..30 : Pow2[n] \in Nat /\ (Pow2[n] <= k => 2 * Pow2[n] <= k)
        BY Pow2Doubles DEF Tabled
    <2>2. k >= Pow2[8]
        BY <2>1, Pow2Table DEF Tabled
    <2>3. k >= Pow2[16]
        BY <2>1, <2>2, Pow2Table
    <2>4. k >= Pow2[24]
        BY <2>1, <2>3, Pow2Table
    <2>5. k >= 2 * Pow2[30]
        BY <2>1, <2>4, Pow2Table
    <2>. QED BY <2>5, Pow2Table DEF Tabled
<1>. QED BY <1>1 DEF Log2

\* Below a share the exponent is negative, and at least -7.
LEMMA SmallExponent ==
    ASSUME NEW k \in 1..99
    PROVE  \E n \in 1..7 : /\ SizeExponent(k) = -n
                           /\ k * Pow2[n] >= 100 /\ k * Pow2[n - 1] < 100
<1>1. \E n \in 1..7 : k * Pow2[n] >= 100 /\ k * Pow2[n - 1] < 100
    <2>. SUFFICES ASSUME \A n \in 1..7 : ~(k * Pow2[n] >= 100 /\ k * Pow2[n - 1] < 100)
                  PROVE FALSE
        OBVIOUS
    <2>1. \A n \in 1..7 : Pow2[n] \in Nat /\ Pow2[n - 1] \in Nat
                          /\ (k * Pow2[n - 1] < 100 => k * Pow2[n] < 100)
        BY Pow2Doubles
    <2>2. k * Pow2[0] < 100 => k * Pow2[1] < 100
        BY <2>1, Pow2Table
    <2>. QED BY <2>1, Pow2Table
<1>. QED BY <1>1 DEF SizeExponent

\* A size is between 64 and 256 times the power of two of its number of shares, so
\* the shift in BelowGrid has both of its powers in the table.
LEMMA ShiftInTable ==
    ASSUME NEW k \in Tabled
    PROVE  /\ SizeExponent(k) \in -7..30
           /\ Log2(k) - SizeExponent(k) \in 2..31
<1>1. CASE k < 100
    <2>1. PICK n \in 1..7 : SizeExponent(k) = -n /\ k * Pow2[n] >= 100
        <3>1. k \in 1..99
            BY <1>1 DEF Tabled
        <3>. QED BY <3>1, SmallExponent
    <2>2. Log2(k) \in 0..30 /\ Pow2[Log2(k)] \in Nat /\ Pow2[Log2(k)] <= k /\ k < 2 * Pow2[Log2(k)]
        BY Log2Is, Pow2Doubles
    <2>3. Log2(k) < 7
        <3>. SUFFICES ASSUME Log2(k) >= 7 PROVE FALSE
            BY <2>2
        <3>1. Pow2[8] <= 2 * Pow2[Log2(k)]
            BY <2>2, Pow2Close
        <3>. QED BY <1>1, <2>2, <3>1, Pow2Table DEF Tabled
    <2>4. Log2(k) + n >= 2
        <3>. SUFFICES ASSUME Log2(k) = 0, n = 1 PROVE FALSE
            BY <2>2
        <3>. QED BY <1>1, <2>1, <2>2, Pow2Table DEF Tabled
    <2>. QED BY <2>1, <2>2, <2>3, <2>4
<1>2. CASE k >= 100
    <2>. DEFINE j == k \div 100
    <2>1. j \in Tabled /\ 100 * j <= k
        BY <1>2, Pow2Table DEF Tabled
    <2>2. SizeExponent(k) = Log2(j)
        BY <1>2 DEF SizeExponent, Tabled
    <2>. HIDE DEF j
    <2>3. Log2(j) \in 0..30 /\ Pow2[Log2(j)] \in Nat /\ Pow2[Log2(j)] <= j
        BY <2>1, Log2Is, Pow2Doubles
    <2>4. Log2(k) \in 0..30 /\ Pow2[Log2(k)] \in Nat /\ k < 2 * Pow2[Log2(k)]
        BY Log2Is, Pow2Doubles
    <2>5. Log2(k) >= Log2(j) + 2
        <3>1. Pow2[Log2(k)] > 50 * Pow2[Log2(j)]
            BY <2>1, <2>3, <2>4 DEF Tabled
        <3>2. ASSUME Log2(k) <= Log2(j) + 1 PROVE FALSE
            <4>1. Pow2[Log2(k)] <= 2 * Pow2[Log2(j)]
                BY <3>2, <2>3, <2>4, Pow2Close
            <4>2. Pow2[Log2(j)] > 0
                BY <2>3, Pow2Doubles
            <4>. QED BY <3>1, <4>1, <4>2, <2>3, <2>4
        <3>. QED BY <3>2, <2>3, <2>4
    <2>. QED BY <2>2, <2>3, <2>4, <2>5
<1>. QED BY <1>1, <1>2 DEF Tabled

\* A power of two from the second on is a multiple of 4, and so are its last two digits.
LEMMA LastDigits ==
    ASSUME NEW n \in 2..70
    PROVE  Pow2Mod100(n) \in Nat /\ Pow2Mod100(n) % 4 = 0
<1>. DEFINE i == IF n < 22 THEN n ELSE 2 + ((n - 2) % 20)
<1>1. i \in 2..21
    OBVIOUS
<1>. HIDE DEF i
<1>2. \A e \in 2..21 : Pow2[e] % 100 \in Nat /\ (Pow2[e] % 100) % 4 = 0
    BY Pow2Table, Exponents
<1>. QED BY <1>1, <1>2 DEF Pow2Mod100, i

\* A quarter of a share, and every multiple of it, is a float64: no residue.
LEMMA QuartersExact ==
    ASSUME NEW k \in Tabled, k % 25 = 0
    PROVE  Residue(k) = 0
<1>. DEFINE m == Pow2Mod100(Precision - 1 - SizeExponent(k))
<1>1. m \in Nat /\ m % 4 = 0
    BY ShiftInTable, LastDigits DEF Precision
<1>. HIDE DEF m
<1>2. PICK a \in Nat : k = 25 * a
    BY DEF Tabled
<1>3. PICK b \in Nat : m = 4 * b
    BY <1>1
<1>4. k * m = 100 * (a * b)
    BY <1>2, <1>3
<1>5. (k * m) % 100 = 0
    BY <1>4
<1>. QED BY <1>5 DEF Residue, m

\* So it is not below the grid, and the floor keeps it.
LEMMA QuartersKept ==
    ASSUME NEW k \in Tabled, k % 25 = 0
    PROVE  FloorCents(k) = k
<1>. DEFINE shift == Log2(k) - SizeExponent(k)
            half == Pow2[IF k = Pow2[Log2(k)] THEN shift - 2 ELSE shift - 1]
<1>1. half \in Nat
    BY ShiftInTable, Pow2Doubles
<1>2. Residue(k) = 0
    BY QuartersExact
<1>. HIDE DEF half
<1>3. ~(Residue(k) < -half)
    BY <1>1, <1>2
<1>. QED BY <1>3 DEF FloorCents, BelowGrid, half

\* Whatever float64 does, the floor takes off a hundredth at most.
LEMMA FloorTakesOne ==
    ASSUME NEW k \in Nat \ {0}
    PROVE  FloorCents(k) \in {k - 1, k} /\ FloorCents(k) \in Nat
BY DEF FloorCents

\* The minimum of a BUY is whole shares, which the floor keeps.
LEMMA MinimumSurvives ==
    ASSUME NEW k \in Nat, k >= 100 * MinBuyShares
    PROVE  FloorCents(k) \in Nat /\ FloorCents(k) >= 100 * MinBuyShares
<1>. USE DEF MinBuyShares
<1>1. CASE k = 500
    <2>1. 500 \in Tabled /\ 500 % 25 = 0
        BY Pow2Table DEF Tabled
    <2>. QED BY <1>1, <2>1, QuartersKept
<1>2. CASE k > 500
    BY <1>2, FloorTakesOne
<1>. QED BY <1>1, <1>2

-----------------------------------------------------------------------------
(* The amounts and the fee *)

\* The table pow10Int of the code.
LEMMA Pow10Table ==
    /\ pow10Int[0] = 1 /\ pow10Int[1] = 10 /\ pow10Int[2] = 100 /\ pow10Int[3] = 1000
    /\ pow10Int[4] = 10000 /\ pow10Int[5] = 100000 /\ pow10Int[6] = 1000000
BY DEF pow10Int

\* What a whole is, for each number of decimals.
LEMMA WholeTable ==
    ASSUME NEW digits \in 1..4
    PROVE  /\ pow10Int[digits] \in Nat \ {0} /\ pow10Int[digits + 2] \in Nat \ {0}
           /\ Whole(digits) \in Nat \ {0}
<1>1. digits = 1 \/ digits = 2 \/ digits = 3 \/ digits = 4
    OBVIOUS
<1>. QED BY <1>1, Pow10Table DEF Whole

\* The quotient that is rounded up covers the net size, exact or a little above.
LEMMA GrossCovers ==
    ASSUME NEW size \in Nat \ {0}, NEW fr \in Int, NEW digits \in 1..4, fr < Whole(digits),
           NEW k \in GrossCents(size, fr, digits)
    PROVE  k \in Nat \ {0} /\ k * (Whole(digits) - fr) >= size * pow10Int[digits + 2]
<1>. DEFINE n == size * pow10Int[digits + 2]
            d == Whole(digits) - fr
<1>1. n \in Nat \ {0} /\ d \in Nat \ {0}
    <2>1. Whole(digits) \in Nat /\ pow10Int[digits + 2] \in Nat \ {0}
        BY WholeTable
    <2>. HIDE DEF Whole
    <2>2. n \in Nat \ {0}
        BY <2>1
    <2>. QED BY <2>1, <2>2
<1>2. k \in {n \div d, n \div d + 1} /\ (n % d = 0 \/ k = n \div d + 1)
    BY DEF GrossCents
<1>. HIDE DEF n, d
<1>3. n \div d \in Nat /\ ((n \div d) + 1) * d > n
    BY <1>1
<1>4. ASSUME n % d = 0 PROVE (n \div d) * d = n
    BY <1>1, <1>4
<1>5. k * d >= n
    BY <1>1, <1>2, <1>3, <1>4
<1>6. k \in Nat /\ k # 0
    BY <1>1, <1>2, <1>3, <1>5
<1>. QED BY <1>5, <1>6 DEF n, d

\* An order's rate leaves something: a rate that does not is not applied.
LEMMA RateBelowOne ==
    ASSUME NEW r \in BuildRequests, r.tick \in DOMAIN PriceDigits
    PROVE  AdjustRate(r) \in Int /\ AdjustRate(r) < Whole(PriceDigits[r.tick])
<1>. DEFINE digits == PriceDigits[r.tick]
            ref == IF r.ref <= 0 \/ r.ref >= pow10Int[digits] THEN r.price ELSE r.ref
            fr == BuyFeeRate(r.rate, ref, digits)
<1>1. digits \in 1..4
    BY DEF PriceDigits
<1>2. r.ref \in Int /\ r.price \in Int /\ r.rate \in Int
    <2>1. r.price \in Prices /\ r.ref \in RefPrices \cup {0} /\ r.rate \in Rates \cup {0}
        BY DEF BuildRequests
    <2>2. Prices \subseteq Int /\ RefPrices \cup {0} \subseteq Int /\ Rates \cup {0} \subseteq Int
        BY PricesAssumption, RatesAssumption
    <2>. QED BY <2>1, <2>2
<1>3. pow10Int[digits] \in Int /\ Whole(digits) \in Nat \ {0}
    BY <1>1, WholeTable
<1>. HIDE DEF digits
<1>4. ref \in Int
    BY <1>2, <1>3
<1>. HIDE DEF ref
<1>5. fr \in Int
    BY <1>2, <1>3, <1>4 DEF BuyFeeRate
<1>. HIDE DEF fr
<1>6. LET rate == IF fr >= Whole(digits) THEN 0 ELSE fr
      IN  rate \in Int /\ rate < Whole(digits)
    BY <1>3, <1>5
<1>. QED BY <1>6 DEF AdjustRate, fr, ref, digits

\* The sizes an order may be built for are positive.
LEMMA CentsPositive ==
    ASSUME NEW r \in BuildRequests, r.tick \in DOMAIN PriceDigits, NEW k \in OrderCents(r)
    PROVE  k \in Nat \ {0}
<1>1. r.size \in Nat \ {0}
    BY SizesAssumption DEF BuildRequests
<1>2. CASE Adjusts(r)
    <2>1. PriceDigits[r.tick] \in 1..4
        BY DEF PriceDigits
    <2>. QED BY <1>1, <1>2, <2>1, RateBelowOne, GrossCovers DEF OrderCents
<1>3. CASE ~Adjusts(r)
    BY <1>1, <1>3 DEF OrderCents
<1>. QED BY <1>2, <1>3

-----------------------------------------------------------------------------
(* BuildOrder *)

\* What BuildOrder has built is one of the orders that the request allows.
BuiltFrom(k) ==
    /\ OptionsOK(req)
    /\ k \in OrderCents(req)
    /\ ~TooSmall(req, k)
    /\ order = computeOrderAmounts(req.side, k, req.price, PriceDigits[req.tick])

BuildInv ==
    /\ req \in BuildRequests
    /\ Built => \E k \in OrderCents(req) : BuiltFrom(k)

\* A build that succeeds has gone through every validation of BuildOrder.
THEOREM BuildInvariant == BuildSpec => []BuildInv
<1>1. BuildInit => BuildInv
    BY DEF BuildInit, BuildInv, Built
<1>2. BuildInv /\ [BuildNext]_buildVars => BuildInv'
    <2>. SUFFICES ASSUME BuildInv, [BuildNext]_buildVars PROVE BuildInv'
        OBVIOUS
    <2>. USE DEF BuildInv, Built, BuiltFrom
    <2>1. CASE RejectOptions
        <3>1. PICK i \in DOMAIN OptionChecks(req) : Returns(OptionChecks(req)[i].error)
            BY <2>1 DEF RejectOptions
        <3>2. i = 1 \/ i = 2 \/ i = 3 \/ i = 4
            BY DEF OptionChecks
        <3>3. /\ OptionChecks(req)[1].error = "side" /\ OptionChecks(req)[2].error = "orderType"
              /\ OptionChecks(req)[3].error = "tickSize"
              /\ OptionChecks(req)[4].error = "feeTickSize"
            BY DEF OptionChecks
        <3>. QED BY <3>1, <3>2, <3>3 DEF Returns
    <2>2. CASE RejectSize \/ RejectMinimum \/ RejectToken
        BY <2>2 DEF RejectSize, RejectMinimum, RejectToken, Returns
    <2>3. CASE BuildOk
        BY <2>3 DEF BuildOk
    <2>4. CASE UNCHANGED buildVars
        BY <2>4 DEF buildVars
    <2>. QED BY <2>1, <2>2, <2>3, <2>4 DEF BuildNext
<1>. QED BY <1>1, <1>2, PTL DEF BuildSpec

\* The validations leave a side and a tick size of the table.
LEMMA OptionsMean ==
    ASSUME OptionsOK(req)
    PROVE  req.side \in {"BUY", "SELL"} /\ req.tick \in DOMAIN PriceDigits
<1>1. DOMAIN OptionChecks(req) = 1..4
    BY DEF OptionChecks
<1>2. ~OptionChecks(req)[1].bad /\ ~OptionChecks(req)[3].bad
    BY <1>1 DEF OptionsOK
<1>. QED BY <1>2 DEF OptionChecks

\* An order of k hundredths hands over the shares that are left of them.
LEMMA SharesOfBuilt ==
    ASSUME NEW k, BuiltFrom(k), BuildInv
    PROVE  /\ k \in Nat \ {0} /\ FloorCents(k) \in {k - 1, k}
           /\ SharesOut = FloorCents(k) * pow10Int[4]
<1>1. k \in Nat \ {0}
    BY OptionsMean, CentsPositive DEF BuiltFrom, BuildInv
<1>. QED BY <1>1, OptionsMean, FloorTakesOne
        DEF BuiltFrom, computeOrderAmounts, Amounts, SharesOut, Shares

\* BuildOrder: no BUY leaves with less than MinBuyShares shares: what float64
\* takes off, it does not take off the minimum itself.
THEOREM BuyMinimumKept == BuildSpec => []MinimumKept
<1>1. ASSUME BuildInv PROVE MinimumKept
    <2>. SUFFICES ASSUME Built, req.side = "BUY" PROVE SharesOut >= MinBuyShares * pow10Int[6]
        BY DEF MinimumKept
    <2>1. PICK k : BuiltFrom(k)
        BY <1>1 DEF BuildInv
    <2>2. k \in Nat /\ k >= 100 * MinBuyShares
        BY <1>1, <2>1, SharesOfBuilt DEF BuiltFrom, TooSmall, MinBuyShares
    <2>3. FloorCents(k) \in Nat /\ FloorCents(k) >= 100 * MinBuyShares
        BY <2>2, MinimumSurvives
    <2>. QED BY <1>1, <2>1, <2>3, SharesOfBuilt, Pow10Table DEF MinBuyShares
<1>. QED BY <1>1, BuildInvariant, PTL

\* WithFeeAdjustment: after the fee at the reference price the net size is left,
\* up to a hundredth of a share, for every size, price and rate.
THEOREM NetSizeKept == BuildSpec => []NetKept
<1>1. ASSUME BuildInv PROVE NetKept
    <2>. DEFINE digits == PriceDigits[req.tick]
                d == Whole(digits) - AdjustRate(req)
    <2>. SUFFICES ASSUME Built, Adjusts(req)
                  PROVE  (SharesOut \div pow10Int[4] + 1) * d >= req.size * pow10Int[digits + 2]
        BY DEF NetKept
    <2>1. PICK k : BuiltFrom(k)
        BY <1>1 DEF BuildInv
    <2>2. req.size \in Nat \ {0}
        BY <1>1, SizesAssumption DEF BuildInv, BuildRequests
    <2>3. AdjustRate(req) \in Int /\ AdjustRate(req) < Whole(digits) /\ digits \in 1..4
        <3>1. req.tick \in DOMAIN PriceDigits
            BY <2>1, OptionsMean DEF BuiltFrom
        <3>. QED BY <1>1, <3>1, RateBelowOne DEF BuildInv, PriceDigits
    <2>4. k * d >= req.size * pow10Int[digits + 2]
        BY <2>1, <2>2, <2>3, GrossCovers DEF BuiltFrom, OrderCents
    <2>5. d \in Nat /\ req.size * pow10Int[digits + 2] \in Nat
        <3>1. Whole(digits) \in Nat /\ pow10Int[digits + 2] \in Nat
            BY <2>3, WholeTable
        <3>. QED BY <2>2, <2>3, <3>1
    <2>. HIDE DEF d
    <2>6. k \in Nat /\ FloorCents(k) \in Nat /\ FloorCents(k) + 1 >= k
        BY <1>1, <2>1, SharesOfBuilt
    <2>7. SharesOut \div pow10Int[4] = FloorCents(k)
        BY <1>1, <2>1, <2>6, SharesOfBuilt, Pow10Table
    <2>8. (FloorCents(k) + 1) * d >= k * d
        BY <2>5, <2>6
    <2>. QED BY <2>4, <2>5, <2>6, <2>7, <2>8
<1>. QED BY <1>1, BuildInvariant, PTL

\* computeOrderAmounts agrees with computeOrderAmountsDecimal on every multiple of a
\* quarter of a share, at every price: a float64 has no residue there, whatever its
\* exponent, and the product is not below its hundredth.
THEOREM QuartersAgree == BuildSpec => []QuartersParity
<1>1. ASSUME BuildInv PROVE QuartersParity
    <2>. SUFFICES ASSUME Built, ~Adjusts(req), (req.size \div 10) % 25 = 0,
                         req.size \div 20 < Pow2[30]
                  PROVE  order = Amounts(req.side, req.size \div 10, req.price, PriceDigits[req.tick])
        BY DEF QuartersParity, FastPathParity
    <2>1. PICK k : BuiltFrom(k)
        BY <1>1 DEF BuildInv
    <2>2. k = req.size \div 10
        BY <2>1 DEF BuiltFrom, OrderCents
    <2>3. k \in Tabled
        <3>1. k \in Nat \ {0} /\ req.size \in Nat
            BY <1>1, <2>1, SharesOfBuilt, SizesAssumption DEF BuildInv, BuildRequests
        <3>. QED BY <2>2, <3>1, Pow2Table DEF Tabled
    <2>. QED BY <2>1, <2>2, <2>3, QuartersKept DEF BuiltFrom, computeOrderAmounts
<1>. QED BY <1>1, BuildInvariant, PTL

-----------------------------------------------------------------------------
(* The life of an order *)

USE IntentsAssumption, NoneAssumption DEF NoAnswer

Taken == {o \in Orders : book[o] # "none"}
Signable == {o \in Orders : o.stamp \in Stamps(o.intent)}

\* What may be taken was built by BuildOrder.
BuiltOnly ==
    /\ Taken \subseteq Signable
    /\ \A r \in Replicas :
        /\ held[r] \subseteq Signable
        /\ Waiting(r, "post") => request[r].orders \subseteq Signable
    /\ late # NoRequest => late.orders \subseteq Signable

\* A post carries the flags of its orders, or is PostOrder's.
Shaped(msg) ==
    \/ msg.postOnly = {o \in msg.orders : o.intent \in PostOnly}
    \/ \E o \in Orders : msg = OfPostOrder(o)

PostsShaped ==
    /\ \A r \in Replicas : Waiting(r, "post") => Shaped(request[r])
    /\ late # NoRequest => late.kind = "post" /\ Shaped(late)

\* What a replica believes to rest was taken.
LiveTaken == \A r \in Replicas : live[r] \subseteq Taken

\* An answer on its way is still right where it matters.
AnswersHold ==
    \A r \in Replicas : answer[r] # NoAnswer =>
        /\ request[r] # NoRequest
        /\ answer[r].orders \subseteq Taken
        /\ Waiting(r, "cancel") => \A o \in answer[r].orders : book[o] = "canceled"

\* A listing begins at cursor 0 with nothing read, and reads taken orders only.
Fresh ==
    \A r \in Replicas :
        /\ all[r] \subseteq Taken
        /\ ~Waiting(r, "list") => all[r] = {} /\ cursor[r] = 0

\* The orders of the pages that GetOrders has got, and the places they go up to.
Seen(r) == all[r] \cup IF answer[r] = NoAnswer THEN {} ELSE answer[r].orders

Reached(r, o) ==
    IF answer[r] = NoAnswer THEN Ahead(o) < cursor[r]
    ELSE answer[r].more => Ahead(o) < cursor[r] + ServerPage

\* As long as no order has left the list between two pages, the pages hold what
\* the replica knows to rest, up to the place they have reached.
ListsHold ==
    \A r \in Replicas : Waiting(r, "list") /\ ~shifted[r] =>
        \A o \in live[r] \cap Resting : Reached(r, o) => o \in Seen(r)

IInv == TypeOK /\ BuiltOnly /\ PostsShaped /\ LiveTaken /\ AnswersHold /\ Fresh /\ ListsHold

-----------------------------------------------------------------------------
(* What the exchange may do to its book *)

Moves(o) ==
    \/ book'[o] = book[o]
    \/ book[o] = "none" /\ book'[o] \in {"resting", "filled"}
    \/ book[o] = "resting" /\ book'[o] \in {"filled", "canceled"}

BookMoves == book' \in [Orders -> Fates] /\ \A o \in Orders : Moves(o)

\* A post takes new orders of its own only, and none of them at once that has
\* the flag.
Posts(msg) ==
    \A o \in Orders : book'[o] # book[o] =>
        /\ o \in msg.orders
        /\ book[o] = "none" /\ book'[o] \in {"resting", "filled"}
        /\ o \in msg.postOnly => book'[o] = "resting"

\* A cancel ends orders that rest.
Cancels(msg) ==
    \A o \in Orders : book'[o] # book[o] =>
        o \in msg.orders /\ book[o] = "resting" /\ book'[o] = "canceled"

\* The answer to a post.
LEMMA PostedBook ==
    ASSUME TypeOK, NEW msg \in Requests, Posted(msg) PROVE BookMoves /\ Posts(msg)
<1>. DEFINE fresh == {o \in msg.orders : book[o] = "none"}
<1>1. PICK fate \in [fresh -> {"none", "resting", "filled"}] :
        /\ \A o \in fresh \cap msg.postOnly : fate[o] # "filled"
        /\ book' = [o \in Orders |-> IF o \in fresh THEN fate[o] ELSE book[o]]
    BY DEF Posted
<1>2. fresh \subseteq Orders /\ \A o \in fresh : o \in msg.orders /\ book[o] = "none"
    BY DEF Requests
<1>. HIDE DEF fresh
<1>3. book' \in [Orders -> Fates]
    BY <1>1, <1>2 DEF TypeOK, Fates
<1>4. Posts(msg)
    <2>. SUFFICES ASSUME NEW o \in Orders, book'[o] # book[o]
                  PROVE  /\ o \in msg.orders
                         /\ book[o] = "none" /\ book'[o] \in {"resting", "filled"}
                         /\ o \in msg.postOnly => book'[o] = "resting"
        BY DEF Posts
    <2>1. o \in fresh /\ book'[o] = fate[o]
        BY <1>1
    <2>. QED BY <1>1, <1>2, <2>1
<1>. QED BY <1>3, <1>4 DEF BookMoves, Moves, Posts

\* The answer to a cancel.
LEMMA CanceledBook ==
    ASSUME TypeOK, NEW msg \in Requests, Canceled(msg) PROVE BookMoves /\ Cancels(msg)
<1>1. PICK ids \in SUBSET (msg.orders \cap Resting) :
        book' = [o \in Orders |-> IF o \in ids THEN "canceled" ELSE book[o]]
    BY DEF Canceled
<1>2. book' \in [Orders -> Fates]
    BY <1>1 DEF TypeOK, Fates
<1>3. Cancels(msg)
    BY <1>1 DEF Cancels, Resting
<1>. QED BY <1>2, <1>3 DEF BookMoves, Moves, Cancels

\* Whatever the request.
LEMMA HandledBook ==
    ASSUME TypeOK, NEW msg \in Requests, Handled(msg)
    PROVE  /\ BookMoves
           /\ msg.kind = "post" => Posts(msg)
           /\ msg.kind = "cancel" => Cancels(msg)
           /\ msg.kind = "list" => book' = book
<1>0. msg.kind \in {"post", "cancel", "list"}
    BY DEF Requests, Kinds
<1>1. CASE msg.kind = "post"
    <2>1. Posted(msg)
        BY <1>1 DEF Handled
    <2>. QED BY <1>1, <2>1, PostedBook
<1>2. CASE msg.kind = "cancel"
    <2>1. Canceled(msg)
        BY <1>2 DEF Handled
    <2>. QED BY <1>2, <2>1, CanceledBook
<1>3. CASE msg.kind = "list"
    <2>1. book' = book
        BY <1>3 DEF Handled
    <2>. QED BY <1>3, <2>1 DEF TypeOK, BookMoves, Moves
<1>. QED BY <1>0, <1>1, <1>2, <1>3

\* An order ends by itself.
LEMMA EndsBook ==
    ASSUME TypeOK, NEW o \in Orders, OrderEnds(o) PROVE BookMoves /\ Taken' = Taken
BY DEF OrderEnds, TypeOK, Fates, BookMoves, Moves, Taken

\* What is taken or canceled stays so.
LEMMA BookKeeps ==
    ASSUME BookMoves
    PROVE  /\ Taken \subseteq Taken'
           /\ \A o \in Orders : book[o] = "canceled" => book'[o] = "canceled"
BY DEF BookMoves, Moves, Taken

-----------------------------------------------------------------------------
(* The exchange's list *)

Before(S, o) == {p \in S : Place[p] < Place[o]}

\* Any list of orders has a length, and each of them a place in it.
LEMMA Places ==
    ASSUME NEW S \in SUBSET Orders
    PROVE  /\ Cardinality(S) \in Nat
           /\ \A o \in Orders : Cardinality(Before(S, o)) \in Nat
           /\ \A o \in S : Cardinality(Before(S, o)) < Cardinality(S)
<1>1. IsFiniteSet(S) /\ Cardinality(S) \in Nat
    <2>1. IsFiniteSet(Orders)
        BY PageAssumption
    <2>. QED BY <2>1, FS_Subset, FS_CardinalityType
<1>2. ASSUME NEW o \in Orders PROVE Cardinality(Before(S, o)) \in Nat
    <2>1. Before(S, o) \in SUBSET S
        BY DEF Before
    <2>2. IsFiniteSet(Before(S, o))
        BY <1>1, <2>1, FS_Subset
    <2>. QED BY <2>2, FS_CardinalityType
<1>3. ASSUME NEW o \in S PROVE Cardinality(Before(S, o)) < Cardinality(S)
    <2>. DEFINE others == S \ {o}
    <2>1. Place[o] \in Nat
        BY PageAssumption
    <2>2. Before(S, o) \in SUBSET others
        BY <2>1 DEF Before
    <2>3. IsFiniteSet(others) /\ Cardinality(others) = Cardinality(S) - 1
        BY <1>1, FS_RemoveElement
    <2>. HIDE DEF others
    <2>4. Cardinality(Before(S, o)) <= Cardinality(others)
        BY <2>2, <2>3, FS_Subset
    <2>. QED BY <1>1, <1>2, <2>3, <2>4
<1>. QED BY <1>1, <1>2, <1>3

\* The places of the exchange's list, before a step and after it.
LEMMA AheadBelow ==
    /\ \A o \in Orders : Ahead(o) \in Nat /\ Ahead(o)' \in Nat
    /\ Cardinality(Resting) \in Nat
    /\ \A o \in Resting : Ahead(o) < Cardinality(Resting)
<1>1. Resting \in SUBSET Orders /\ Resting' \in SUBSET Orders
    BY DEF Resting
<1>2. \A o \in Orders : Ahead(o) = Cardinality(Before(Resting, o))
                        /\ Ahead(o)' = Cardinality(Before(Resting', o))
    BY DEF Ahead, Before
<1>. QED BY <1>1, <1>2, Places

\* Orders that come do not move an order up.
LEMMA AheadGrows ==
    ASSUME Resting \subseteq Resting', NEW o \in Orders PROVE Ahead(o) <= Ahead(o)'
<1>. DEFINE after == Before(Resting', o)
<1>1. /\ Before(Resting, o) \in SUBSET after /\ after \in SUBSET Orders
      /\ IsFiniteSet(Orders)
    BY PageAssumption DEF Resting, Before
<1>2. Ahead(o) = Cardinality(Before(Resting, o)) /\ Ahead(o)' = Cardinality(after)
    BY DEF Ahead, Before
<1>. HIDE DEF after
<1>3. IsFiniteSet(after)
    BY <1>1, FS_Subset
<1>. QED BY <1>1, <1>2, <1>3, FS_Subset

\* What is on a page that is asked for at a cursor: the orders from there on, a
\* page's length of them if more are to come.
LEMMA PageHolds ==
    ASSUME NEW r \in Replicas, cursor[r] \in Nat,
           NEW reply \in {Page(cursor[r]), BareArray(cursor[r])}
    PROVE  /\ reply \in Answers
           /\ reply.orders \subseteq Resting
           /\ \A o \in Resting : /\ cursor[r] <= Ahead(o)
                                 /\ reply.more => Ahead(o) < cursor[r] + ServerPage
                                 => o \in reply.orders
<1>. USE AheadBelow
<1>0. ServerPage \in Nat /\ ServerPage > 0 /\ Resting \subseteq Orders
    BY PageAssumption DEF Resting
<1>1. CASE reply = Page(cursor[r])
    <2>1. /\ reply.orders = {o \in Resting : Ahead(o) \in cursor[r]..(cursor[r] + ServerPage - 1)}
          /\ reply.more = (cursor[r] + ServerPage < Cardinality(Resting))
          /\ reply \in Answers
        BY <1>0, <1>1 DEF Page, Answers
    <2>2. ASSUME NEW o \in Resting, cursor[r] <= Ahead(o),
                 reply.more => Ahead(o) < cursor[r] + ServerPage
          PROVE  o \in reply.orders
        <3>1. Ahead(o) \in Nat /\ Ahead(o) < Cardinality(Resting)
            BY <1>0
        <3>2. Ahead(o) < cursor[r] + ServerPage
            <4>1. CASE reply.more
                BY <2>2, <4>1
            <4>2. CASE ~(cursor[r] + ServerPage < Cardinality(Resting))
                <5>1. Cardinality(Resting) \in Nat
                    BY AheadBelow
                <5>. QED BY <1>0, <3>1, <4>2, <5>1
            <4>. QED BY <2>1, <4>1, <4>2
        <3>. QED BY <1>0, <2>1, <2>2, <3>1, <3>2
    <2>. QED BY <2>1, <2>2
<1>2. CASE reply = BareArray(cursor[r])
    <2>1. /\ reply.orders = {o \in Resting : Ahead(o) >= cursor[r]}
          /\ reply \in Answers
        BY <1>0, <1>2 DEF BareArray, Answers
    <2>2. ASSUME NEW o \in Resting, cursor[r] <= Ahead(o) PROVE o \in reply.orders
        <3>1. Ahead(o) \in Nat
            BY <1>0
        <3>. QED BY <2>1, <2>2, <3>1
    <2>. QED BY <2>1, <2>2
<1>. QED BY <1>1, <1>2

-----------------------------------------------------------------------------
(* The invariant *)

\* No order, request or answer is there at first.
LEMMA InitIInv == Init => IInv
BY DEF Init, IInv, TypeOK, Fates, BuiltOnly, PostsShaped, LiveTaken, AnswersHold, Fresh, ListsHold,
    Taken, Waiting, Idle

\* A replica builds an order.
LEMMA BuildKeeps ==
    ASSUME IInv, NEW r \in Replicas, NEW i \in Intents, BuildOrder(r, i) PROVE IInv'
<1>. USE DEF BuildOrder, IInv, network, pages
<1>1. PICK stamp \in Stamps(i) :
        held' = [held EXCEPT ![r] = @ \cup {[intent |-> i, stamp |-> stamp]}]
    OBVIOUS
<1>2. [intent |-> i, stamp |-> stamp] \in Orders
    BY DEF Orders, Stamps
<1>3. [intent |-> i, stamp |-> stamp] \in Signable
    BY <1>2 DEF Signable
<1>4. TypeOK'
    BY <1>1, <1>2 DEF TypeOK
<1>5. BuiltOnly'
    BY <1>1, <1>3 DEF TypeOK, BuiltOnly, Waiting, Idle, Taken, Signable
<1>6. (PostsShaped /\ LiveTaken /\ AnswersHold)'
    BY DEF PostsShaped, LiveTaken, AnswersHold, Waiting, Idle, Taken, Shaped
<1>7. Fresh'
    BY DEF Fresh, Waiting, Idle, Taken
<1>8. ListsHold'
    BY DEF ListsHold, Reached, Seen, Ahead, Resting, Waiting, Idle
<1>. QED BY <1>4, <1>5, <1>6, <1>7, <1>8

\* A call makes its request.
LEMMA SendKeeps ==
    ASSUME IInv, NEW r \in Replicas, NEW kind \in Kinds, NEW orders \in SUBSET Orders,
           NEW postOnly \in SUBSET Orders, Sends(r, kind, orders, postOnly),
           kind = "post" => orders \subseteq Signable /\ Shaped(request'[r])
    PROVE  IInv'
<1>. USE DEF Sends, IInv, local, pages
<1>. DEFINE msg == [kind |-> kind, orders |-> orders, postOnly |-> postOnly]
<1>1. msg \in Requests /\ request' = [request EXCEPT ![r] = msg]
    BY DEF Requests
<1>2. TypeOK'
    BY <1>1 DEF TypeOK
<1>3. answer[r] = NoAnswer
    BY DEF AnswersHold, Idle, TypeOK
<1>4. BuiltOnly'
    BY <1>1 DEF TypeOK, BuiltOnly, Waiting, Idle, Taken, Signable
<1>5. PostsShaped'
    <2>1. ASSUME NEW q \in Replicas, Waiting(q, "post")' PROVE Shaped(request[q])'
        BY <1>1, <2>1 DEF TypeOK, PostsShaped, Waiting, Idle, Shaped
    <2>. QED BY <2>1 DEF PostsShaped, Shaped
<1>6. LiveTaken'
    BY DEF LiveTaken, Taken
<1>7. AnswersHold'
    BY <1>1, <1>3 DEF TypeOK, AnswersHold, Waiting, Idle, Taken
<1>8. ~Waiting(r, "list") /\ \A q \in Replicas \ {r} : Waiting(q, "list")' <=> Waiting(q, "list")
    BY <1>1 DEF TypeOK, Waiting, Idle
<1>9. Fresh'
    BY <1>8 DEF Fresh, Taken
<1>10. ListsHold'
    <2>1. ASSUME NEW o \in Orders, Reached(r, o)' PROVE FALSE
        <3>1. cursor[r] = 0
            BY <1>8 DEF Fresh
        <3>2. Ahead(o)' = Ahead(o) /\ Ahead(o) \in Nat
            BY AheadBelow DEF Ahead, Resting
        <3>. QED BY <1>3, <2>1, <3>1, <3>2 DEF Reached
    <2>2. ASSUME NEW q \in Replicas \ {r}, Waiting(q, "list")', ~shifted'[q],
                 NEW o \in (live[q] \cap Resting)', Reached(q, o)'
          PROVE  o \in Seen(q)'
        BY <1>8, <2>2 DEF ListsHold, Reached, Seen, Ahead, Resting
    <2>. QED BY <2>1, <2>2 DEF ListsHold, Resting
<1>. QED BY <1>2, <1>4, <1>5, <1>6, <1>7, <1>9, <1>10

LEMMA CallKeeps ==
    ASSUME IInv, NEW r \in Replicas, Call(r) PROVE IInv'
<1>0. /\ held[r] \subseteq Signable /\ held[r] \subseteq Orders /\ live[r] \subseteq Orders
      /\ {"post", "cancel", "list"} \subseteq Kinds
    BY DEF IInv, BuiltOnly, TypeOK, Kinds
<1>1. ASSUME NEW batch \in SUBSET held[r], PostOrders(r, batch) PROVE IInv'
    <2>. DEFINE flagged == {o \in batch : o.intent \in PostOnly}
    <2>1. batch \in SUBSET Orders /\ flagged \in SUBSET Orders /\ batch \subseteq Signable
        BY <1>0
    <2>2. Sends(r, "post", batch, flagged)
        BY <1>1 DEF PostOrders
    <2>3. Shaped(request'[r])
        BY <2>2 DEF Sends, Shaped, IInv, TypeOK
    <2>. HIDE DEF flagged
    <2>. QED BY <1>0, <2>1, <2>2, <2>3, SendKeeps
<1>2. ASSUME NEW o \in held[r], PostOrder(r, o) PROVE IInv'
    <2>1. {o} \in SUBSET Orders /\ {o} \subseteq Signable
        BY <1>0
    <2>2. Sends(r, "post", {o}, {})
        BY <1>2 DEF PostOrder
    <2>3. Shaped(request'[r])
        BY <2>1, <2>2 DEF Sends, Shaped, OfPostOrder, IInv, TypeOK
    <2>. QED BY <1>0, <2>1, <2>2, <2>3, SendKeeps
<1>3. ASSUME NEW kind \in {"cancel", "list"}, NEW ids \in SUBSET Orders, Sends(r, kind, ids, {})
      PROVE  IInv'
    BY <1>0, <1>3, SendKeeps
<1>4. ASSUME NEW ids \in SUBSET live[r], CancelOrders(r, ids) PROVE IInv'
    BY <1>0, <1>3, <1>4 DEF CancelOrders
<1>5. CASE CancelAll(r) \/ GetOrders(r)
    BY <1>3, <1>5 DEF CancelAll, GetOrders
<1>. QED BY <1>1, <1>2, <1>4, <1>5 DEF Call

\* The book moves under a listing.  An order that the replica knows and that rests
\* has rested before; if none has left the list it is not nearer to its beginning.
LEMMA ListKept ==
    ASSUME IInv, BookMoves, NEW q \in Replicas,
           request'[q] = request[q], answer'[q] = answer[q], live'[q] = live[q],
           all'[q] = all[q], cursor'[q] = cursor[q],
           shifted[q] \/ (BetweenPages(q) /\ ~(Resting \subseteq Resting')) => shifted'[q],
           Waiting(q, "list")', ~shifted'[q],
           NEW o \in (live[q] \cap Resting)', Reached(q, o)'
    PROVE  o \in Seen(q)'
<1>. USE DEF IInv
<1>1. Waiting(q, "list") /\ ~shifted[q] /\ Seen(q)' = Seen(q) /\ o \in Orders
    BY DEF Waiting, Idle, Seen, Resting
<1>2. o \in live[q] \cap Resting
    <2>1. o \in live[q] /\ book[o] # "none" /\ book'[o] = "resting"
        BY DEF LiveTaken, Taken, Resting
    <2>2. book[o] = "resting"
        BY <1>1, <2>1 DEF BookMoves, Moves
    <2>. QED BY <1>1, <2>1, <2>2 DEF Resting
<1>3. Ahead(o) \in Nat /\ Ahead(o)' \in Nat
    BY <1>1, AheadBelow
<1>4. cursor[q] \in Nat /\ ServerPage \in Nat
    BY PageAssumption DEF TypeOK
<1>5. Reached(q, o)
    <2>1. CASE BetweenPages(q)
        <3>1. Ahead(o) <= Ahead(o)'
            BY <1>1, <2>1, AheadGrows
        <3>. QED BY <1>3, <1>4, <3>1 DEF Reached
    <2>2. CASE ~BetweenPages(q) /\ answer[q] = NoAnswer
        <3>1. cursor[q] = 0
            BY <1>1, <1>4, <2>2 DEF BetweenPages
        <3>. QED BY <1>3, <2>2, <3>1 DEF Reached
    <2>3. CASE ~BetweenPages(q) /\ answer[q] # NoAnswer
        BY <1>1, <2>3 DEF BetweenPages, Reached
    <2>. QED BY <2>1, <2>2, <2>3
<1>. QED BY <1>1, <1>2, <1>5 DEF ListsHold

\* What the exchange answers is right for the request of the call.
LEMMA RepliesAre ==
    ASSUME IInv, NEW r \in Replicas, RequestArrives(r), NEW reply \in Replies(r)
    PROVE  /\ reply \in Answers
           /\ reply.orders \subseteq Taken'
           /\ request[r].kind = "cancel" => \A o \in reply.orders : book'[o] = "canceled"
<1>. DEFINE msg == request[r]
<1>1. msg \in Requests /\ msg.orders \subseteq Orders /\ msg.kind \in Kinds /\ Handled(msg)
    <2>1. msg \in Requests
        BY DEF IInv, TypeOK, Idle, RequestArrives
    <2>. QED BY <2>1 DEF Requests, RequestArrives
<1>2. /\ msg.kind = "post" => Posts(msg)
      /\ msg.kind = "cancel" => Cancels(msg)
      /\ msg.kind = "list" => book' = book
    BY <1>1, HandledBook DEF IInv
<1>3. CASE msg.kind = "list"
    <2>1. reply \in {Page(cursor[r]), BareArray(cursor[r])} /\ cursor[r] \in Nat
        BY <1>3 DEF Replies, IInv, TypeOK
    <2>2. reply \in Answers /\ reply.orders \subseteq Resting
        BY <2>1, PageHolds
    <2>3. Resting \subseteq Taken'
        BY <1>2, <1>3 DEF Resting, Taken
    <2>. QED BY <1>3, <2>2, <2>3
<1>4. CASE msg.kind # "list"
    <2>. DEFINE moved == {o \in msg.orders : book'[o] # book[o]}
    <2>1. reply = [orders |-> moved, more |-> FALSE] /\ moved \subseteq Orders
        BY <1>1, <1>4 DEF Replies
    <2>2. moved \subseteq Taken'
        BY <1>1, <1>2, <1>4 DEF Taken, Posts, Cancels, Kinds
    <2>3. msg.kind = "cancel" => \A o \in moved : book'[o] = "canceled"
        BY <1>1, <1>2 DEF Cancels
    <2>. HIDE DEF moved
    <2>4. reply.orders = moved /\ reply \in Answers
        BY <2>1 DEF Answers
    <2>. QED BY <2>2, <2>3, <2>4
<1>. QED BY <1>3, <1>4

\* The exchange handles the request of a call that waits.
LEMMA ArrivalKeeps ==
    ASSUME IInv, NEW r \in Replicas, RequestArrives(r) PROVE IInv'
<1>. USE DEF RequestArrives, IInv, local
<1>. DEFINE msg == request[r]
<1>1. msg \in Requests
    BY DEF TypeOK, Idle
<1>2. /\ BookMoves
      /\ msg.kind = "post" => Posts(msg)
      /\ msg.kind = "cancel" => Cancels(msg)
      /\ msg.kind = "list" => book' = book
    BY <1>1, HandledBook
<1>3. PICK reply \in Replies(r) : answer' = [answer EXCEPT ![r] = reply]
    OBVIOUS
<1>4. /\ reply \in Answers /\ reply.orders \subseteq Taken'
      /\ msg.kind = "cancel" => \A o \in reply.orders : book'[o] = "canceled"
    BY RepliesAre
<1>5. TypeOK'
    BY <1>2, <1>3, <1>4 DEF TypeOK, BookMoves, Shifts
<1>6. BuiltOnly'
    <2>1. Taken' \subseteq Signable
        BY <1>1, <1>2 DEF BuiltOnly, Taken, Posts, Cancels, Waiting, Idle, Requests, Kinds, TypeOK
    <2>. QED BY <2>1 DEF BuiltOnly, Waiting, Idle, Signable
<1>7. PostsShaped'
    BY DEF PostsShaped, Waiting, Idle, Shaped
<1>8. LiveTaken' /\ Fresh'
    BY <1>2, BookKeeps DEF LiveTaken, Fresh, Waiting, Idle
<1>9. AnswersHold'
    <2>1. ASSUME NEW q \in Replicas, q # r, answer'[q] # NoAnswer
          PROVE  /\ request'[q] # NoRequest
                 /\ answer'[q].orders \subseteq Taken'
                 /\ Waiting(q, "cancel")' => \A o \in answer'[q].orders : book'[o] = "canceled"
        <3>1. answer'[q] = answer[q]
            BY <1>3, <2>1 DEF TypeOK
        <3>2. answer[q].orders \subseteq Orders
            BY <2>1, <3>1 DEF TypeOK, Answers
        <3>. QED BY <1>2, <2>1, <3>1, <3>2, BookKeeps DEF AnswersHold, Waiting, Idle
    <2>2. answer'[r] = reply
        BY <1>3 DEF TypeOK
    <2>. QED BY <1>4, <2>1, <2>2 DEF AnswersHold, Waiting, Idle
<1>10. ListsHold'
    <2>1. ASSUME NEW q \in Replicas \ {r}, Waiting(q, "list")', ~shifted'[q],
                 NEW o \in (live[q] \cap Resting)', Reached(q, o)'
          PROVE  o \in Seen(q)'
        <3>1. answer'[q] = answer[q]
            BY <1>3, <2>1 DEF TypeOK
        <3>2. shifted[q] \/ (BetweenPages(q) /\ ~(Resting \subseteq Resting')) => shifted'[q]
            BY DEF Shifts
        <3>. QED BY <1>2, <2>1, <3>1, <3>2, ListKept
    <2>2. ASSUME Waiting(r, "list")', ~shifted'[r], NEW o \in (live[r] \cap Resting)',
                 Reached(r, o)'
          PROVE  o \in Seen(r)'
        <3>1. Waiting(r, "list") /\ msg.kind = "list" /\ book' = book /\ ~shifted[r]
            BY <1>2, <2>2 DEF Waiting, Idle, Shifts
        <3>2. o \in live[r] \cap Resting /\ Ahead(o)' = Ahead(o) /\ o \in Orders
            BY <2>2, <3>1 DEF Resting, Ahead
        <3>3. reply \in {Page(cursor[r]), BareArray(cursor[r])} /\ cursor[r] \in Nat
            BY <3>1 DEF Replies, TypeOK
        <3>4. reply # NoAnswer /\ answer'[r] = reply
            BY <1>3, <1>4 DEF TypeOK
        <3>5. reply.more => Ahead(o) < cursor[r] + ServerPage
            BY <2>2, <3>2, <3>4 DEF Reached
        <3>6. Seen(r)' = all[r] \cup reply.orders /\ Seen(r) = all[r]
            BY <3>4 DEF Seen
        <3>7. CASE Ahead(o) < cursor[r]
            <4>1. Reached(r, o)
                BY <3>7 DEF Reached
            <4>. QED BY <3>1, <3>2, <3>6, <4>1 DEF ListsHold
        <3>8. CASE cursor[r] <= Ahead(o)
            BY <3>2, <3>3, <3>5, <3>6, <3>8, PageHolds
        <3>9. Ahead(o) \in Nat
            BY <3>2, AheadBelow
        <3>. QED BY <3>3, <3>7, <3>8, <3>9
    <2>. QED BY <2>1, <2>2 DEF ListsHold
<1>. QED BY <1>5, <1>6, <1>7, <1>8, <1>9, <1>10

\* The book moves, and no answer or local state with it.
LEMMA BookMovesKeeps ==
    ASSUME IInv, BookMoves, Taken' \subseteq Signable,
           UNCHANGED <<local, request, answer, all, cursor>>,
           late' \in {late, NoRequest},
           Shifts \/ (shifted' = shifted /\ Resting \subseteq Resting')
    PROVE  IInv'
<1>. USE DEF IInv, local
<1>1. TypeOK'
    BY DEF TypeOK, BookMoves, Shifts
<1>2. BuiltOnly'
    BY DEF BuiltOnly, Waiting, Idle, Signable
<1>3. PostsShaped'
    BY DEF PostsShaped, Waiting, Idle, Shaped
<1>4. LiveTaken' /\ Fresh'
    BY BookKeeps DEF LiveTaken, Fresh, Waiting, Idle
<1>5. AnswersHold'
    <2>1. \A q \in Replicas : answer[q] # NoAnswer => answer[q].orders \subseteq Orders
        BY DEF TypeOK, Answers
    <2>. QED BY <2>1, BookKeeps DEF AnswersHold, Waiting, Idle
<1>6. ListsHold'
    <2>1. \A q \in Replicas :
            shifted[q] \/ (BetweenPages(q) /\ ~(Resting \subseteq Resting')) => shifted'[q]
        BY DEF Shifts
    <2>. QED BY <2>1, ListKept DEF ListsHold
<1>. QED BY <1>1, <1>2, <1>3, <1>4, <1>5, <1>6

LEMMA LateKeeps ==
    ASSUME IInv, LateArrives PROVE IInv'
<1>1. late \in Requests
    BY DEF IInv, TypeOK, LateArrives
<1>2. BookMoves /\ Posts(late)
    BY <1>1, PostedBook DEF IInv, LateArrives
<1>3. Taken' \subseteq Signable
    BY <1>2 DEF IInv, BuiltOnly, Taken, Posts, LateArrives
<1>4. Resting \subseteq Resting'
    BY <1>2 DEF Resting, Posts
<1>. QED BY <1>2, <1>3, <1>4, BookMovesKeeps DEF LateArrives, pages

LEMMA EndKeeps ==
    ASSUME IInv, NEW o \in Orders, OrderEnds(o) PROVE IInv'
<1>1. BookMoves /\ Taken' \subseteq Signable
    BY EndsBook DEF IInv, BuiltOnly
<1>. QED BY <1>1, BookMovesKeeps DEF OrderEnds

-----------------------------------------------------------------------------
(* The end of a call *)

\* A call ends; what its replica knows stays within what was taken and built.
LEMMA CallEndKeeps ==
    ASSUME IInv, NEW r \in Replicas, CallEnds(r), book' = book,
           held' \in [Replicas -> SUBSET Orders], live' \in [Replicas -> SUBSET Orders],
           \A q \in Replicas : held'[q] \subseteq Signable /\ live'[q] \subseteq Taken,
           \A q \in Replicas : q # r => live'[q] = live[q],
           late' = late \/ (Waiting(r, "post") /\ late' = request[r])
    PROVE  IInv'
<1>. USE DEF IInv, CallEnds
<1>1. TypeOK'
    BY DEF TypeOK, Waiting, Idle
<1>2. BuiltOnly'
    BY DEF TypeOK, BuiltOnly, Waiting, Idle, Signable, Taken
<1>3. PostsShaped'
    <2>1. late' # NoRequest => late'.kind = "post" /\ Shaped(late)'
        BY DEF PostsShaped, Waiting, Idle, Shaped
    <2>. QED BY <2>1 DEF TypeOK, PostsShaped, Waiting, Idle, Shaped
<1>4. LiveTaken'
    BY DEF LiveTaken, Taken
<1>5. AnswersHold'
    BY DEF TypeOK, AnswersHold, Waiting, Idle, Taken
<1>6. ~Waiting(r, "list")' /\ \A q \in Replicas \ {r} : Waiting(q, "list")' <=> Waiting(q, "list")
    BY DEF TypeOK, Waiting, Idle
<1>7. Fresh'
    BY <1>6 DEF TypeOK, Fresh, Taken
<1>8. ListsHold'
    <2>1. ASSUME NEW q \in Replicas \ {r}
          PROVE  /\ answer'[q] = answer[q] /\ all'[q] = all[q] /\ cursor'[q] = cursor[q]
                 /\ shifted'[q] = shifted[q] /\ live'[q] = live[q]
        BY DEF TypeOK
    <2>2. ASSUME NEW q \in Replicas \ {r}, Waiting(q, "list")', ~shifted'[q],
                 NEW o \in (live[q] \cap Resting)', Reached(q, o)'
          PROVE  o \in Seen(q)'
        BY <1>6, <2>1, <2>2 DEF ListsHold, Reached, Seen, Ahead, Resting
    <2>. QED BY <1>6, <2>2 DEF ListsHold
<1>. QED BY <1>1, <1>2, <1>3, <1>4, <1>5, <1>7, <1>8

\* GetOrders takes a page and asks for the next one.
LEMMA PageKeeps ==
    ASSUME IInv, NEW r \in Replicas, PageAnswered(r) PROVE IInv'
<1>. USE DEF PageAnswered, IInv, local
<1>0. answer[r].orders \subseteq Taken /\ answer[r].orders \subseteq Orders /\ ServerPage \in Nat
    BY PageAssumption DEF AnswersHold, TypeOK, Answers
<1>1. TypeOK'
    BY <1>0 DEF TypeOK
<1>2. (BuiltOnly /\ PostsShaped /\ LiveTaken)'
    BY DEF BuiltOnly, PostsShaped, LiveTaken, Shaped, Waiting, Idle, Taken, Signable
<1>3. AnswersHold'
    BY DEF TypeOK, AnswersHold, Waiting, Idle, Taken
<1>4. Fresh'
    BY <1>0 DEF TypeOK, Fresh, Waiting, Idle, Taken
<1>5. ListsHold'
    <2>1. \A q \in Replicas : (Waiting(q, "list")' <=> Waiting(q, "list")) /\ shifted'[q] = shifted[q]
        BY DEF Waiting, Idle
    <2>2. ASSUME NEW o \in live[r] \cap Resting
          PROVE  (Reached(r, o)' <=> Reached(r, o)) /\ Seen(r)' = Seen(r)
        BY DEF TypeOK, Reached, Seen, Ahead, Resting
    <2>3. ASSUME NEW q \in Replicas \ {r}, NEW o \in live[q] \cap Resting
          PROVE  (Reached(q, o)' <=> Reached(q, o)) /\ Seen(q)' = Seen(q)
        BY DEF TypeOK, Reached, Seen, Ahead, Resting
    <2>4. \A q \in Replicas : (live[q] \cap Resting)' = live[q] \cap Resting
        BY DEF Resting
    <2>. QED BY <2>1, <2>2, <2>3, <2>4 DEF ListsHold
<1>. QED BY <1>1, <1>2, <1>3, <1>4, <1>5

LEMMA EndOfCallKeeps ==
    ASSUME IInv, NEW r \in Replicas,
           PostAnswered(r) \/ CancelAnswered(r) \/ ListAnswered(r) \/ Fails(r) \/ Crash(r)
    PROVE  IInv'
<1>0. /\ held \in [Replicas -> SUBSET Orders] /\ live \in [Replicas -> SUBSET Orders]
      /\ \A q \in Replicas : held[q] \subseteq Signable /\ live[q] \subseteq Taken
      /\ answer[r] # NoAnswer => answer[r].orders \subseteq Taken /\ answer[r].orders \subseteq Orders
      /\ all[r] \subseteq Taken /\ all[r] \subseteq Orders
    BY DEF IInv, TypeOK, BuiltOnly, LiveTaken, AnswersHold, Answers, Fresh
<1>1. CASE PostAnswered(r)
    BY <1>0, <1>1, CallEndKeeps DEF PostAnswered, Answered
<1>2. CASE CancelAnswered(r)
    BY <1>0, <1>2, CallEndKeeps DEF CancelAnswered, Answered
<1>3. CASE ListAnswered(r)
    BY <1>0, <1>3, CallEndKeeps DEF ListAnswered, Answered
<1>4. CASE Fails(r)
    BY <1>0, <1>4, CallEndKeeps DEF Fails, Abandoned, local
<1>5. CASE Crash(r)
    <2>1. CallEnds(r)
        BY <1>5 DEF Crash, CallEnds
    <2>. QED BY <1>0, <1>5, <2>1, CallEndKeeps DEF Crash, Abandoned
<1>. QED BY <1>1, <1>2, <1>3, <1>4, <1>5

\* Every step keeps the invariant.
LEMMA NextIInv == IInv /\ [Next]_vars => IInv'
<1>. SUFFICES ASSUME IInv, [Next]_vars PROVE IInv'
    OBVIOUS
<1>1. CASE UNCHANGED vars
    BY <1>1 DEF vars, local, network, pages, IInv, TypeOK, BuiltOnly, PostsShaped, Shaped,
        LiveTaken, AnswersHold, Fresh, ListsHold, Reached, Seen, Ahead, Resting, Waiting, Idle,
        Taken, Signable
<1>2. CASE Next
    BY <1>2, BuildKeeps, CallKeeps, ArrivalKeeps, LateKeeps, EndKeeps, PageKeeps, EndOfCallKeeps
        DEF Next
<1>. QED BY <1>1, <1>2

LEMMA Invariant == Spec => []IInv
BY InitIInv, NextIInv, PTL DEF Spec

-----------------------------------------------------------------------------
(* The theorems *)

\* Every variable keeps its type.
THEOREM TypeCorrect == Spec => []TypeOK
<1>1. IInv => TypeOK
    BY DEF IInv
<1>. QED BY <1>1, Invariant, PTL

\* WithDeterministicID makes one order of an id, for any number of replicas that
\* build, post and repost it, and whatever becomes of the answers.
THEOREM OneOrderPerId == Spec => []OncePerId
<1>1. IInv => OncePerId
    <2>. SUFFICES ASSUME IInv, NEW o \in Orders, NEW p \in Orders,
                         o.intent = p.intent, o.intent \in Deterministic,
                         book[o] # "none", book[p] # "none"
                  PROVE  o = p
        BY DEF OncePerId
    <2>1. o.stamp = "id" /\ p.stamp = "id"
        BY DEF IInv, BuiltOnly, Taken, Signable, Stamps
    <2>. QED BY <2>1 DEF Orders
<1>. QED BY <1>1, Invariant, PTL

-----------------------------------------------------------------------------
(* What a step may not do *)

\* The steps that make a replica forget orders, and nothing else does.
LEMMA WhoForgets ==
    ASSUME TypeOK, Next, NEW r \in Replicas, held'[r] # held[r] \/ live'[r] # live[r]
    PROVE  \/ \E i \in Intents : BuildOrder(r, i)
           \/ PostAnswered(r) \/ CancelAnswered(r) \/ ListAnswered(r) \/ Crash(r)
<1>. SUFFICES ASSUME NEW q \in Replicas,
                     \/ \E i \in Intents : BuildOrder(q, i)
                     \/ PostAnswered(q) \/ CancelAnswered(q) \/ ListAnswered(q) \/ Crash(q)
              PROVE  q = r \/ (held'[r] = held[r] /\ live'[r] = live[r])
    <2>1. \/ UNCHANGED local
          \/ \E q \in Replicas :
                \/ \E i \in Intents : BuildOrder(q, i)
                \/ PostAnswered(q) \/ CancelAnswered(q) \/ ListAnswered(q) \/ Crash(q)
        BY DEF Next, Call, PostOrders, PostOrder, CancelOrders, CancelAll, GetOrders, Sends,
            RequestArrives, PageAnswered, Fails, LateArrives, OrderEnds, local
    <2>. QED BY <2>1 DEF local
<1>. QED BY DEF BuildOrder, PostAnswered, CancelAnswered, ListAnswered, Crash, TypeOK

\* The steps after which a replica may forget an order that rests.
Excused(r) == Crash(r) \/ (Waiting(r, "list") /\ shifted[r])

\* A call that is answered forgets ended orders only, if no order has left the
\* list between its pages.
LEMMA AnswersForgetEnded ==
    ASSUME IInv, NEW r \in Replicas, NEW o \in Known(r), o \notin Known(r)',
           PostAnswered(r) \/ CancelAnswered(r) \/ ListAnswered(r)
    PROVE  book[o] \in {"filled", "canceled"} \/ Excused(r)
<1>1. CASE PostAnswered(r)
    BY <1>1 DEF PostAnswered, Known, IInv, TypeOK
<1>2. CASE CancelAnswered(r)
    <2>1. o \in answer[r].orders /\ answer[r] # NoAnswer /\ Waiting(r, "cancel")
        BY <1>2 DEF CancelAnswered, Answered, Known, IInv, TypeOK
    <2>. QED BY <2>1 DEF IInv, AnswersHold
<1>3. CASE ListAnswered(r) /\ ~shifted[r]
    <2>1. /\ o \in live[r] /\ o \notin all[r] \cup answer[r].orders
          /\ answer[r] # NoAnswer /\ ~answer[r].more /\ Waiting(r, "list")
        BY <1>3 DEF ListAnswered, Answered, Known, IInv, TypeOK
    <2>2. Reached(r, o) /\ o \notin Seen(r)
        BY <2>1 DEF Reached, Seen
    <2>3. o \notin Resting
        BY <1>3, <2>1, <2>2 DEF IInv, ListsHold
    <2>4. o \in Taken /\ o \in Orders
        BY <2>1 DEF IInv, LiveTaken, Taken
    <2>. QED BY <2>3, <2>4 DEF Resting, Taken, IInv, TypeOK, Fates
<1>4. CASE ListAnswered(r) /\ shifted[r]
    BY <1>4 DEF Excused, ListAnswered, Answered
<1>. QED BY <1>1, <1>2, <1>3, <1>4

\* Nothing but a crash, or an order that leaves the list between two pages of a
\* listing, makes a replica forget an order that may still rest, for any number of
\* replicas, pages of any length, and whatever the network does to the requests.
THEOREM NoneForgotten == Spec => ForgetsOnlyEnded
<1>1. ASSUME IInv, Next, NEW r \in Replicas, NEW o \in Known(r) \ Known(r)'
      PROVE  book[o] \in {"filled", "canceled"} \/ Excused(r)
    <2>1. held'[r] # held[r] \/ live'[r] # live[r]
        BY <1>1 DEF Known
    <2>2. CASE \E i \in Intents : BuildOrder(r, i)
        BY <1>1, <2>2 DEF BuildOrder, Known, IInv, TypeOK
    <2>3. CASE PostAnswered(r) \/ CancelAnswered(r) \/ ListAnswered(r)
        BY <1>1, <2>3, AnswersForgetEnded
    <2>4. CASE Crash(r)
        BY <2>4 DEF Excused
    <2>. QED BY <1>1, <2>1, <2>2, <2>3, <2>4, WhoForgets DEF IInv
<1>2. IInv /\ [Next]_vars =>
        [\A r \in Replicas : \A o \in Known(r) \ Known(r)' :
            \/ book[o] \in {"filled", "canceled"}
            \/ Crash(r)
            \/ Waiting(r, "list") /\ shifted[r]]_vars
    BY <1>1 DEF Excused
<1>. QED BY <1>2, Invariant, PTL DEF Spec, ForgetsOnlyEnded

\* What a replica drops while it waits for a cancel is canceled.
THEOREM CanceledDropped == Spec => DropsOnlyCanceled
<1>1. ASSUME IInv, Next, NEW r \in Replicas, Waiting(r, "cancel"), NEW o \in live[r] \ live'[r]
      PROVE  book[o] = "canceled" \/ Crash(r)
    <2>1. held'[r] # held[r] \/ live'[r] # live[r]
        BY <1>1
    <2>2. CASE CancelAnswered(r)
        <3>1. o \in answer[r].orders /\ answer[r] # NoAnswer
            BY <1>1, <2>2 DEF CancelAnswered, Answered, IInv, TypeOK
        <3>. QED BY <1>1, <3>1 DEF IInv, AnswersHold
    <2>3. CASE PostAnswered(r) \/ ListAnswered(r)
        BY <1>1, <2>3 DEF PostAnswered, ListAnswered, Answered, Waiting
    <2>4. CASE \E i \in Intents : BuildOrder(r, i)
        BY <1>1, <2>4 DEF BuildOrder
    <2>. QED BY <1>1, <2>1, <2>2, <2>3, <2>4, WhoForgets DEF IInv
<1>2. IInv /\ [Next]_vars =>
        [\A r \in Replicas : Waiting(r, "cancel") =>
            \A o \in live[r] \ live'[r] : book[o] = "canceled" \/ Crash(r)]_vars
    BY <1>1
<1>. QED BY <1>2, Invariant, PTL DEF Spec, DropsOnlyCanceled

\* A post that keeps the shape of its orders does not let a flagged one match.
LEMMA ShapedPosts ==
    ASSUME NEW msg \in Requests, Posts(msg), Shaped(msg),
           NEW o \in Orders, o.intent \in PostOnly, book[o] = "none", book'[o] = "filled"
    PROVE  msg = OfPostOrder(o)
BY DEF Posts, Shaped, OfPostOrder

\* PostOrders, whatever batch it is given and however late it arrives, keeps the
\* post-only flag of every order in it.
THEOREM FlagKept == Spec => PostOnlyKept
<1>1. ASSUME IInv, Next, NEW o \in Orders, o.intent \in PostOnly, book[o] = "none",
             book'[o] = "filled"
      PROVE  PlainlySent(o)
    <2>1. \/ LateArrives
          \/ \E r \in Replicas : RequestArrives(r)
          \/ \E p \in Orders : OrderEnds(p)
        BY <1>1 DEF Next, BuildOrder, Call, PostOrders, PostOrder, CancelOrders, CancelAll, GetOrders,
            Sends, PostAnswered, CancelAnswered, PageAnswered, ListAnswered, Fails, Crash
    <2>2. CASE LateArrives
        <3>1. late \in Requests /\ Shaped(late)
            BY <1>1, <2>2 DEF LateArrives, IInv, TypeOK, PostsShaped
        <3>2. Posts(late)
            BY <1>1, <2>2, <3>1, PostedBook DEF LateArrives, IInv
        <3>. QED BY <1>1, <3>1, <3>2, ShapedPosts DEF PlainlySent
    <2>3. ASSUME NEW r \in Replicas, RequestArrives(r) PROVE PlainlySent(o)
        <3>1. request[r] \in Requests
            BY <1>1, <2>3 DEF RequestArrives, Idle, IInv, TypeOK
        <3>2. /\ request[r].kind = "post" => Posts(request[r])
              /\ request[r].kind = "cancel" => Cancels(request[r])
              /\ request[r].kind = "list" => book' = book
            BY <1>1, <2>3, <3>1, HandledBook DEF RequestArrives, IInv
        <3>3. request[r].kind = "post"
            BY <1>1, <3>1, <3>2 DEF Cancels, Requests, Kinds
        <3>4. Shaped(request[r])
            BY <1>1, <2>3, <3>3 DEF IInv, PostsShaped, RequestArrives, Waiting
        <3>. QED BY <1>1, <3>1, <3>2, <3>3, <3>4, ShapedPosts DEF PlainlySent
    <2>4. ASSUME NEW p \in Orders, OrderEnds(p) PROVE FALSE
        BY <1>1, <2>4 DEF OrderEnds, IInv, TypeOK
    <2>. QED BY <2>1, <2>2, <2>3, <2>4
<1>2. IInv /\ [Next]_vars =>
        [\A o \in Orders : o.intent \in PostOnly /\ book[o] = "none" /\ book'[o] = "filled" =>
            PlainlySent(o)]_vars
    BY <1>1
<1>. QED BY <1>2, Invariant, PTL DEF Spec, PostOnlyKept
=============================================================================
