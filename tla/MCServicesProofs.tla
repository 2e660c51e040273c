---------------------------- MODULE MCServicesProofs ----------------------------
(***************************************************************************)
(* The services together.  No service reads a variable of another, so the  *)
(* composed specification implements each of theirs, with a stutter where  *)
(* another service has the step; what was proved of each then holds of     *)
(* all of them at once, for every value of every constant.                 *)
(***************************************************************************)
EXTENDS MCServices, ServiceProofs

ServicesSafety == ServicesInit /\ [][ServicesNext]_<<focus, allVars>>

\* A step of the composition is a step, or a stutter, of every service.
LEMMA StepOfEach ==
    ASSUME [ServicesNext]_<<focus, allVars>>
    PROVE  /\ [BusNext]_busVars /\ [LimiterNext]_limiterVars /\ [KeyNext]_keyVars
           /\ [MarketNext]_marketVars /\ [AccountNext]_accountVars /\ [ViewNext]_viewVars
           /\ [IncidentNext]_incidentVars /\ [ScriptNext]_scriptVars /\ [PricingNext]_priced
           /\ [SessionNext]_sessionVars
<1>1. CASE ServicesNext
  BY <1>1 DEF ServicesNext
<1>2. CASE UNCHANGED <<focus, allVars>>
  BY <1>2 DEF allVars
<1> QED BY <1>1, <1>2

\* Each service of the composition behaves as its own specification says.
LEMMA BusIsImplemented == ServicesSafety => BusInit /\ [][BusNext]_busVars
<1>1. ServicesInit => BusInit
  BY DEF ServicesInit
<1> QED BY <1>1, StepOfEach, PTL DEF ServicesSafety

LEMMA LimiterIsImplemented == ServicesSafety => LimiterSpec
<1>1. ServicesInit => LimiterInit
  BY DEF ServicesInit
<1> QED BY <1>1, StepOfEach, PTL DEF ServicesSafety, LimiterSpec

LEMMA KeysAreImplemented == ServicesSafety => KeySpec
<1>1. ServicesInit => KeyInit
  BY DEF ServicesInit
<1> QED BY <1>1, StepOfEach, PTL DEF ServicesSafety, KeySpec

LEMMA MarketIsImplemented == ServicesSafety => MarketSpec
<1>1. ServicesInit => MarketInit
  BY DEF ServicesInit
<1> QED BY <1>1, StepOfEach, PTL DEF ServicesSafety, MarketSpec

LEMMA AccountsAreImplemented == ServicesSafety => AccountSpec
<1>1. ServicesInit => AccountInit
  BY DEF ServicesInit
<1> QED BY <1>1, StepOfEach, PTL DEF ServicesSafety, AccountSpec

LEMMA ViewsAreImplemented == ServicesSafety => ViewSpec
<1>1. ServicesInit => ViewInit
  BY DEF ServicesInit
<1> QED BY <1>1, StepOfEach, PTL DEF ServicesSafety, ViewSpec

LEMMA IncidentsAreImplemented == ServicesSafety => IncidentSpec
<1>1. ServicesInit => IncidentInit
  BY DEF ServicesInit
<1> QED BY <1>1, StepOfEach, PTL DEF ServicesSafety, IncidentSpec

LEMMA ScriptIsImplemented == ServicesSafety => ScriptSpec
<1>1. ServicesInit => ScriptInit
  BY DEF ServicesInit
<1> QED BY <1>1, StepOfEach, PTL DEF ServicesSafety, ScriptSpec

LEMMA PricingIsImplemented == ServicesSafety => PricingSpec
<1>1. ServicesInit => PricingInit
  BY DEF ServicesInit
<1> QED BY <1>1, StepOfEach, PTL DEF ServicesSafety, PricingSpec

LEMMA SessionsAreImplemented == ServicesSafety => SessionSpec
<1>1. ServicesInit => SessionInit
  BY DEF ServicesInit
<1> QED BY <1>1, StepOfEach, PTL DEF ServicesSafety, SessionSpec

LEMMA BusHolds == ServicesSafety => []BusInv
BY BusIsImplemented, BusInitInv, BusNextInv, PTL

-------------------------------------------------------------------------------
\* Every table, cache, queue and request of the services keeps its type while any
\* of them runs (event_bus, rate_limit, platform keys, market data, accounts,
\* listings, failure alerts, the sandbox script and sessions).
THEOREM ServicesTypeCorrect == ServicesSpec => []ServicesTypeOK
<1>1. /\ BusInv => BusTypeOK
      /\ LimiterInv => LimiterTypeOK
      /\ KeyInv => KeyTypeOK
      /\ MarketInv => MarketTypeOK
      /\ WalkInv => ViewTypeOK
      /\ IncidentInv => IncidentTypeOK
      /\ ScriptInv => ScriptTypeOK
      /\ SessionInv => SessionTypeOK
  BY DEF BusInv, LimiterInv, KeyInv, MarketInv, WalkInv, IncidentInv, ScriptInv, SessionInv
<1>2. AccountInv => AccountTypeOK
  BY DEF AccountInv, AccountTypeOK, ErrandRow
<1>3. ServicesTypeOK <=>
          /\ BusTypeOK /\ LimiterTypeOK /\ KeyTypeOK /\ MarketTypeOK /\ AccountTypeOK
          /\ ViewTypeOK /\ IncidentTypeOK /\ ScriptTypeOK /\ SessionTypeOK
  BY DEF ServicesTypeOK
<1> QED
  BY <1>1, <1>2, <1>3, BusHolds, LimiterIsImplemented, LimiterInvariance, KeysAreImplemented,
     KeyInvariance, MarketIsImplemented, MarketInvariance, AccountsAreImplemented,
     AccountInvariance, ViewsAreImplemented, WalkInvariance, IncidentsAreImplemented,
     IncidentInvariance, ScriptIsImplemented, ScriptInvariance, SessionsAreImplemented,
     SessionInvariance, PTL DEF ServicesSpec, ServicesSafety

\* What each service promises, it promises beside the others.
ServicesSafe ==
    /\ Accounted /\ LimitHolds /\ KeysRotated /\ CallsAreTimely /\ OneAccountEach
    /\ WalkIsComplete /\ AlertRaised /\ RefundOnlyOfPaid /\ QuoteAddsUp /\ AccessEnds

\* The safety properties of all the services hold of their composition: events are
\* accounted for, limits, keys, tokens, accounts and listings are kept, failures are
\* alerted, refunds are of paid charges, prices add up and access ends.
THEOREM ServicesAreSafe == ServicesSpec => []ServicesSafe
<1>1. BusInv => Accounted
  BY DEF BusInv
<1>2. ServicesSafe <=>
          /\ Accounted /\ LimitHolds /\ KeysRotated /\ CallsAreTimely /\ OneAccountEach
          /\ WalkIsComplete /\ AlertRaised /\ RefundOnlyOfPaid /\ QuoteAddsUp /\ AccessEnds
  BY DEF ServicesSafe
<1> QED
  BY <1>1, <1>2, BusHolds, LimiterIsImplemented, LimitHoldsAlways, KeysAreImplemented,
     KeysRotatedAlways, MarketIsImplemented, CallsAreTimelyAlways, AccountsAreImplemented,
     OneAccountEachAlways, ViewsAreImplemented, WalkIsCompleteAlways, IncidentsAreImplemented,
     AlertRaisedAlways, ScriptIsImplemented, RefundOnlyOfPaidAlways, PricingIsImplemented,
     QuoteAddsUpAlways, SessionsAreImplemented, AccessEndsAlways, PTL
  DEF ServicesSpec, ServicesSafety
===============================================================================
