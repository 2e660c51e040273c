-------------------------------- MODULE Pricing ---------------------------------
(***************************************************************************)
(* What a payment costs: common/fx.py, AFMRevenueEngine and RevenueEngine  *)
(* of revenue_engine, PaymentService._calculate_afm_fee and the totals of  *)
(* the FrontierPay simulations (api_gateway/main.py).                      *)
(*                                                                         *)
(* Amounts are whole cents, the fees a caller names tenths of a cent;      *)
(* rates are per 100000, the commission and the shares per 100.  Each      *)
(* action prices one input; priced keeps what was asked and answered.      *)
(***************************************************************************)
EXTENDS Integers

CONSTANTS
    Amounts,   \* amounts asked for, in cents
    PartFees,  \* kaybic_fee, aza_payin_fee, aza_payout_fee, afm_fee, in tenths of a cent
    MinAmount, \* amount >= 100000 in a simulation, in cents
    Percent,   \* afm_commission_bps / 100
    MinFee,    \* afm_min_fee_usd, in cents
    MaxFee,    \* afm_max_fee_usd, in cents
    Volumes,   \* transactions of a month
    Sizes      \* their average, in cents of a USD

\* ads_share, creator_share, platform_share, per 100.
Share == [ads |-> 35, creator |-> 50, platform |-> 15]

ASSUME PricingAssumption ==
    /\ Amounts \subseteq Nat /\ PartFees \subseteq Nat /\ Volumes \subseteq Nat
    /\ Sizes \subseteq Nat
    /\ MinAmount \in Nat /\ Percent \in Nat
    /\ MinFee \in Nat /\ MaxFee \in Nat /\ MinFee <= MaxFee

VARIABLE priced  \* the last pricing: its kind, its input, its answer

\* FX_RATES_TO_USD; another currency has none.
Rate == [XOF |-> 165, XAF |-> 165, NGN |-> 64, KES |-> 770, GHS |-> 6600,
         ZAR |-> 5500, USD |-> 100000, EUR |-> 108000, GBP |-> 127000]
Currency == DOMAIN Rate \cup {"JPY"}

Larger(m, n) == IF m < n THEN n ELSE m
Smaller(m, n) == IF m < n THEN m ELSE n

\* quantize: n / d to the nearest integer; ties go up, or to the even one.
HalfUp(n, d) == (2 * n + d) \div (2 * d)
HalfEven(n, d) ==
    IF (2 * n) % (2 * d) = d THEN 2 * ((n \div d + 1) \div 2) ELSE HalfUp(n, d)

-------------------------------------------------------------------------------
(* Fees.                                                                     *)

\* convert_usd_bounds: a bound in USD cents, in cents of the currency.
LocalBound(usd, c) ==
    IF c = "USD" \/ c \notin DOMAIN Rate THEN usd ELSE HalfUp(usd * 100000, Rate[c])

\* max with the lower bound, then min with the upper, then quantize.
Bounded(amount, low, high) ==
    HalfUp(Smaller(Larger(amount * Percent, low * 100), high * 100), 100)

\* PaymentService._calculate_afm_fee: fee and net.
ServiceFee(amount, c) ==
    LET fee == Bounded(amount, LocalBound(MinFee, c), LocalBound(MaxFee, c))
    IN [fee |-> fee, net |-> amount - fee]

\* Mutant: the bounds in USD are applied to any currency.
EngineFee_UsdBounds(amount, c) ==
    LET fee == Bounded(amount, MinFee, MaxFee) IN [fee |-> fee, net |-> amount - fee]

\* AFMRevenueEngine.calculate_fee: fee and net.
EngineFee(amount, c) ==
    LET fee == Bounded(amount, LocalBound(MinFee, c), LocalBound(MaxFee, c))
    IN [fee |-> fee, net |-> amount - fee]

\* calculate_monthly_revenue, in cents of a USD: the cap first, then the floor.
MonthlyRevenue(volume, size) ==
    HalfEven(Larger(Smaller(volume * size * Percent, volume * MaxFee * 100),
                    volume * MinFee * 100), 100)

PriceFee ==
    \E a \in Amounts, c \in Currency :
        priced' = [kind |-> "fee", amount |-> a, currency |-> c,
                   service |-> ServiceFee(a, c), engine |-> EngineFee(a, c)]

EstimateMonth ==
    \E v \in Volumes, a \in Sizes :
        priced' = [kind |-> "month", volume |-> v, size |-> a,
                   revenue |-> MonthlyRevenue(v, a)]

-------------------------------------------------------------------------------
(* Splits.                                                                   *)

Rounded(gross) == [r \in DOMAIN Share |-> HalfUp(gross * Share[r], 100)]
Total(s) == s.ads + s.creator + s.platform

\* RevenueEngine.calculate_split: the largest share takes the rounding error.
Taker(s) ==
    IF s.creator >= s.ads /\ s.creator >= s.platform THEN "creator"
    ELSE IF s.ads >= s.platform THEN "ads" ELSE "platform"
Split(gross) ==
    LET s == Rounded(gross) IN [s EXCEPT ![Taker(s)] = @ + gross - Total(s)]

SplitRevenue ==
    \E a \in Amounts : priced' = [kind |-> "split", gross |-> a, shares |-> Split(a)]

-------------------------------------------------------------------------------
(* Simulations.                                                              *)

\* The payout fee counts for a payout only; the sum is rounded, not its parts.
TotalFees(f, payout) ==
    HalfEven(f.kaybic + f.payin + f.afm + (IF payout THEN f.payout ELSE 0), 10)

\* public_frontierpay_simulate: 422 unless something is left.
Preview(amount, f, payout) ==
    LET net == Larger(0, amount - TotalFees(f, payout))
    IN [ok |-> net > 0, fees |-> TotalFees(f, payout), net |-> net]

\* simulate_payment: 422 if the fees exceed the amount.
Intent(amount, f, payout) ==
    LET net == amount - TotalFees(f, payout)
    IN [ok |-> net >= 0, fees |-> TotalFees(f, payout), net |-> net]

Simulate ==
    \E a \in {a \in Amounts : a >= MinAmount}, payout \in BOOLEAN,
       f \in [kaybic: PartFees, payin: PartFees, payout: PartFees, afm: PartFees] :
        priced' = [kind |-> "simulation", amount |-> a, parts |-> f, payout |-> payout,
                   preview |-> Preview(a, f, payout), intent |-> Intent(a, f, payout)]

PricingInit == priced = [kind |-> "none"]
PricingNext ==
    /\ priced.kind = "none"
    /\ PriceFee \/ EstimateMonth \/ SplitRevenue \/ Simulate
PricingSpec == PricingInit /\ [][PricingNext]_priced

-------------------------------------------------------------------------------
(* Properties.                                                               *)

Within(m, n, distance) == m - n <= distance /\ n - m <= distance

\* What is computed in two places agrees, and nothing is lost by rounding: the
\* payment service and the revenue engine charge the same fee in every currency
\* and it stays between the bounds; the monthly estimate is that fee for each
\* payment up to half a cent; the shares of a split add up to the gross, each a
\* cent from its rate at most; preview and intent of one instruction name the
\* same fees, which add up with the net to the amount.
QuoteAddsUp ==
    LET p == priced IN
    /\ p.kind = "fee" =>
         /\ p.service = p.engine
         /\ p.service.fee \in LocalBound(MinFee, p.currency) .. LocalBound(MaxFee, p.currency)
         /\ p.service.fee + p.service.net = p.amount
    /\ p.kind = "month" =>
         Within(2 * p.revenue, 2 * p.volume * EngineFee(p.size, "USD").fee, p.volume + 1)
    /\ p.kind = "split" =>
         /\ Total(p.shares) = p.gross
         /\ \A r \in DOMAIN Share : Within(100 * p.shares[r], p.gross * Share[r], 100)
    /\ p.kind = "simulation" =>
         /\ p.preview.fees = p.intent.fees
         /\ p.preview.ok => p.intent.ok /\ p.preview.net = p.intent.net
         /\ p.intent.ok => p.intent.fees + p.intent.net = p.amount
===============================================================================
