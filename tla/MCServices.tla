------------------------------- MODULE MCServices -------------------------------
(***************************************************************************)
(* The instance of the components that share no table with one another:    *)
(* the webhook endpoint with one request at a time, and the modules of the *)
(* services around it.  None reads a variable of another, so it is enough  *)
(* to let one of them run: focus says which.  The state space is the sum   *)
(* of theirs, where the product would add nothing but interleavings.       *)
(***************************************************************************)
EXTENDS KoraWebhook, EventBus, RateLimiter, PlatformKeys, MarketAccess, UserAccounts,
        LedgerViews, Incidents, SandboxRefund, Pricing, PspRouting, Sessions

VARIABLE focus

Services == {"webhook", "bus", "limiter", "keys", "market", "accounts", "views",
             "incidents", "script", "pricing", "routing", "sessions"}

allVars == <<vars, busVars, limiterVars, keyVars, marketVars, accountVars, viewVars,
             incidentVars, scriptVars, priced, routingVars, sessionVars>>

\* Several of the initial predicates have more than one state: only one counts
\* for a component that does not run.
ServicesInit ==
    /\ focus \in Services
    /\ Init /\ BusInit /\ LimiterInit /\ KeyInit /\ MarketInit /\ AccountInit /\ ViewInit
    /\ IncidentInit /\ ScriptInit /\ PricingInit /\ RoutingInit /\ SessionInit
    /\ focus # "webhook" => /\ \A t \in Txns : status[t] = "processing"
                            /\ \A k \in RefundKeys : refund[k] = NoRefund
    /\ focus # "script" => found = {}
    /\ focus # "routing" => secrets = {}

\* Only the component in focus steps; everything else stays as it is.
Runs(service, step) == focus = service /\ step

ServicesNext ==
    /\ UNCHANGED focus
    /\ IF focus = "webhook" THEN RunNext ELSE UNCHANGED vars
    /\ IF focus = "bus" THEN BusNext ELSE UNCHANGED busVars
    /\ IF focus = "limiter" THEN LimiterNext ELSE UNCHANGED limiterVars
    /\ IF focus = "keys" THEN KeyNext ELSE UNCHANGED keyVars
    /\ IF focus = "market" THEN MarketNext ELSE UNCHANGED marketVars
    /\ IF focus = "accounts" THEN AccountNext ELSE UNCHANGED accountVars
    /\ IF focus = "views" THEN ViewNext ELSE UNCHANGED viewVars
    /\ IF focus = "incidents" THEN IncidentNext ELSE UNCHANGED incidentVars
    /\ IF focus = "script" THEN ScriptNext ELSE UNCHANGED scriptVars
    /\ IF focus = "pricing" THEN PricingNext ELSE UNCHANGED priced
    /\ IF focus = "routing" THEN RoutingNext ELSE UNCHANGED routingVars
    /\ IF focus = "sessions" THEN SessionNext ELSE UNCHANGED sessionVars

\* The fairness of FairSpec and of BusSpec, each for its component.
ServicesSpec ==
    /\ ServicesInit
    /\ [][ServicesNext]_<<focus, allVars>>
    /\ \A h \in Handlers : WF_vars(Runs("webhook", HandlerStep(h)))
    /\ \A w \in Consumers : WF_busVars(Runs("bus", WorkerStep(w)))

-------------------------------------------------------------------------------
\* Every variable of every service stays in its domain.
ServicesTypeOK ==
    /\ BusTypeOK /\ LimiterTypeOK /\ KeyTypeOK /\ MarketTypeOK /\ AccountTypeOK
    /\ ViewTypeOK /\ IncidentTypeOK /\ ScriptTypeOK /\ SessionTypeOK
===============================================================================
