------------------------------- MODULE PspRouting -------------------------------
(***************************************************************************)
(* PSPRouter.select_psp and _has_credentials (payment_hub/psp_router.py):  *)
(* which provider a payment goes to, by currency, method, region and the   *)
(* credentials that are configured when it is asked.                       *)
(***************************************************************************)
EXTENDS Naturals, Sequences, SequencesExt

CONSTANT NoPsp

VARIABLES
    secrets,  \* the credentials configured now
    routed    \* the last request: its input, the credentials then, the answer

routingVars == <<secrets, routed>>

Mobile == <<"fincra", "flutterwave", "mtn", "orange">>
Western == <<"fincra", "stripe">>

\* CURRENCY_PSP_MAP.
CurrencyPsps ==
    [XOF |-> Mobile, XAF |-> Mobile, NGN |-> <<"fincra", "flutterwave">>,
     KES |-> <<"mtn", "fincra">>, GHS |-> <<"mtn", "fincra", "flutterwave">>,
     ZAR |-> Western, USD |-> Western, EUR |-> Western, GBP |-> Western]

\* METHOD_PSP_MAP; another method restricts nothing.
MethodPsps ==
    [mobile_money |-> {"mtn", "orange", "flutterwave"},
     card |-> {"flutterwave", "stripe", "fincra"},
     bank_transfer |-> {"fincra", "stripe"},
     ussd |-> {"flutterwave"}]

\* REGION_PSP_PRIORITY; another region counts as international.
RegionPsps ==
    [west_africa |-> Mobile, east_africa |-> <<"fincra", "mtn">>, south_africa |-> Western,
     central_africa |-> <<"mtn", "orange">>, international |-> <<"stripe", "fincra">>]

\* The settings a provider needs; the mobile rails go through Flutterwave.
Needed == [fincra |-> {"fincra"}, flutterwave |-> {"flw_public", "flw_secret"},
           stripe |-> {"stripe"}, mtn |-> {"flw_secret"}, orange |-> {"flw_secret"}]
Secrets == {"fincra", "flw_public", "flw_secret", "stripe"}
HasCredentials(psp) == Needed[psp] \subseteq secrets

-------------------------------------------------------------------------------
Supports(method, psp) == method \in DOMAIN MethodPsps => psp \in MethodPsps[method]
Priority(region) ==
    RegionPsps[IF region \in DOMAIN RegionPsps THEN region ELSE "international"]

\* The providers of the currency that take the method, in the region's order.
Candidates(c, method, region) ==
    LET available == SelectSeq(CurrencyPsps[c], LAMBDA psp : Supports(method, psp))
    IN SelectSeq(Priority(region), LAMBDA psp : Contains(available, psp))

\* Mutant: the first candidate is taken for a working one.
Choice_First(seq) == IF seq = <<>> THEN NoPsp ELSE Head(seq)

\* The first candidate with credentials.
Choice(seq) ==
    LET i == SelectInSeq(seq, HasCredentials) IN IF i = 0 THEN NoPsp ELSE seq[i]

\* PaymentError and CurrencyNotSupportedError are NoPsp.
Route(c, method, region) ==
    routed' = [currency |-> c, method |-> method, region |-> region, secrets |-> secrets,
               psp |-> IF c \in DOMAIN CurrencyPsps
                       THEN Choice(Candidates(c, method, region)) ELSE NoPsp]

Currencies == DOMAIN CurrencyPsps \cup {"JPY"}
Methods == DOMAIN MethodPsps \cup {"cheque"}
Regions == DOMAIN RegionPsps \cup {"elsewhere"}
NotRouted == [currency |-> "none", method |-> "none", region |-> "none",
              secrets |-> {}, psp |-> NoPsp]

RoutingInit == secrets \in SUBSET Secrets /\ routed = NotRouted

RoutingNext ==
    /\ routed = NotRouted
    /\ \E c \in Currencies, method \in Methods, region \in Regions : Route(c, method, region)
    /\ UNCHANGED secrets

RoutingSpec == RoutingInit /\ [][RoutingNext]_routingVars

-------------------------------------------------------------------------------
(* Properties.                                                               *)

\* The providers a request may go to, whatever their order.
Usable(r) ==
    {psp \in DOMAIN Needed : /\ Contains(CurrencyPsps[r.currency], psp)
                             /\ Supports(r.method, psp)
                             /\ Contains(Priority(r.region), psp)
                             /\ Needed[psp] \subseteq r.secrets}
Earlier(p, q, seq) ==
    \E i, j \in DOMAIN seq : i < j /\ seq[i] = p /\ seq[j] = q

\* A payment goes to a provider that handles its currency and method and whose
\* every secret is configured, the first such of its region; it is refused only
\* if there is none; and with everything configured a card payment in a
\* supported currency finds one in every region but central Africa (select_psp).
RoutedIsUsable ==
    routed.currency \in DOMAIN CurrencyPsps =>
        LET U == Usable(routed) IN
        /\ routed.psp = NoPsp => U = {}
        /\ routed.psp # NoPsp =>
             /\ routed.psp \in U
             /\ \A psp \in U : ~Earlier(psp, routed.psp, Priority(routed.region))
        /\ routed.secrets = Secrets /\ routed.method = "card"
             /\ routed.region # "central_africa" => routed.psp # NoPsp
===============================================================================
