------------------------------- MODULE KoraPayout -------------------------------
(***************************************************************************)
(* POST /api/v1/payouts/kora (api_gateway/main.py, create_kora_payout),    *)
(* composed with the webhook endpoint that later settles the payout.       *)
(*                                                                         *)
(* A payout p is one request: its reference afm-payout-<uuid4> is fresh.   *)
(* The row is flushed before Kora is called but committed only after Kora  *)
(* has answered, so nobody else can see it in between.  All payouts are    *)
(* of one user, in XAF/XOF, in the production environment.                 *)
(***************************************************************************)
EXTENDS KoraAmounts, FiniteSetsExt

CONSTANTS
    Limit,     \* kyc1_monthly_limit_xaf
    InFlight   \* bound: payout requests of the user running at one time

ASSUME PayoutAssumption ==
    /\ IsFiniteSet(Txns) /\ Payouts # {}
    /\ Limit \in Nat
    /\ InFlight \in Nat \ {0}

VARIABLES
    step,       \* where the request for each payout stands
    koraPayout  \* the provider's own record of the payout

payoutVars == <<vars, step, koraPayout>>

Running == {"allowed", "sent", "answered", "error"}
Ended == {"denied", "validated", "created", "badGateway", "dead"}

-------------------------------------------------------------------------------
(* The request.                                                              *)

Move(p, from, to) == step[p] = from /\ step' = [step EXCEPT ![p] = to]
PayoutsOnly == UNCHANGED <<inbox, pc, work, applied, acked, refund, ledger, task>>

\* Committed amounts of the month; failed and refunded transactions do not count.
MonthTotal ==
    MapThenSumSet(LAMBDA t : Amount[t],
                  {t \in Txns : status[t] \notin {"none", "failed", "refunded"}})

\* Mutant: the proposed amount itself is forgotten.
WithinLimit_Before(p) == MonthTotal <= Limit

\* enforce_kyc1_monthly_limit.
WithinLimit(p) == MonthTotal + Amount[p] <= Limit

\* Confirmed execution: the limit is read, then the row is flushed.
AllowPayout(p) ==
    /\ Cardinality({q \in Payouts : step[q] \in Running}) < InFlight
    /\ WithinLimit(p)
    /\ Move(p, "new", "allowed")
    /\ UNCHANGED <<status, pspRef, koraPayout>> /\ PayoutsOnly

DenyPayout(p) ==
    /\ ~WithinLimit(p)
    /\ Move(p, "new", "denied")
    /\ UNCHANGED <<status, pspRef, koraPayout>> /\ PayoutsOnly

\* execute = false: no limit is checked, the PROCESSING row is committed.
ValidateOnly(p) ==
    /\ Move(p, "new", "validated")
    /\ status' = [status EXCEPT ![p] = "processing"]
    /\ UNCHANGED <<pspRef, koraPayout>> /\ PayoutsOnly

\* KoraClient.create_payout: the request reaches Kora, or does not.
SendPayout(p) ==
    /\ \/ Move(p, "allowed", "sent") /\ koraPayout' = [koraPayout EXCEPT ![p] = "accepted"]
       \/ Move(p, "allowed", "error") /\ UNCHANGED koraPayout
    /\ UNCHANGED <<status, pspRef>> /\ PayoutsOnly

\* The answer arrives, or it is lost: a timeout is a KoraClientError too.
AnswerPayout(p) ==
    /\ \E place \in {"answered", "error"} : Move(p, "sent", place)
    /\ UNCHANGED <<status, pspRef, koraPayout>> /\ PayoutsOnly

CommitCreated(p) ==
    /\ Move(p, "answered", "created")
    /\ status' = [status EXCEPT ![p] = "processing"]
    /\ pspRef' = pspRef \cup {p}
    /\ UNCHANGED koraPayout /\ PayoutsOnly

\* Mutant: the row of a refused call is rolled back.
FailPayout_RolledBack(p) ==
    /\ Move(p, "error", "badGateway")
    /\ UNCHANGED <<status, pspRef, koraPayout>> /\ PayoutsOnly

\* A KoraClientError, be it a refusal or a lost answer: the row is "failed".
FailPayout(p) ==
    /\ Move(p, "error", "badGateway")
    /\ status' = [status EXCEPT ![p] = "failed"]
    /\ UNCHANGED <<pspRef, koraPayout>> /\ PayoutsOnly

\* The process dies: the uncommitted row is gone.
CrashPayout(p) ==
    /\ \E place \in Running : Move(p, place, "dead")
    /\ UNCHANGED <<status, pspRef, koraPayout>> /\ PayoutsOnly

PayoutStep(p) == \/ AllowPayout(p) \/ DenyPayout(p) \/ ValidateOnly(p) \/ SendPayout(p)
                 \/ AnswerPayout(p) \/ CommitCreated(p) \/ FailPayout(p)

-------------------------------------------------------------------------------
(* Kora: it settles what it accepted and reports it truthfully.              *)

SettlePayout(p) ==
    /\ koraPayout[p] = "accepted"
    /\ \E s \in {"paid", "failed"} : koraPayout' = [koraPayout EXCEPT ![p] = s]
    /\ UNCHANGED <<vars, step>>

TruthfulPayout(m) ==
    /\ m.kind = "payout"
    /\ koraPayout[m.ref[1]] = CASE m.outcome = "success" -> "paid"
                          [] m.outcome = "failed"  -> "failed"
                          [] OTHER                 -> "accepted"

Deliver(h) == \E e \in Events :
                 \/ Duplicate(h, e)
                 \/ \E m \in Message : TruthfulPayout(m) /\ Receive(h, e, m)

-------------------------------------------------------------------------------
PayoutInit ==
    /\ WebhookInit
    /\ status = [t \in Txns |-> IF t \in Payins THEN "completed" ELSE "none"]
    /\ pspRef = Payins
    /\ refund = [k \in RefundKeys |-> NoRefund]
    /\ step = [p \in Payouts |-> "new"]
    /\ koraPayout = [p \in Payouts |-> "none"]

PayoutEndpoint(h) == (Deliver(h) \/ HandlerStep(h)) /\ UNCHANGED <<step, koraPayout>>

PayoutNext ==
    \/ \E p \in Payouts : PayoutStep(p) \/ CrashPayout(p) \/ SettlePayout(p)
    \/ \E h \in Handlers : PayoutEndpoint(h) \/ (Crash(h) /\ UNCHANGED <<step, koraPayout>>)

PayoutSpec == PayoutInit /\ [][PayoutNext]_payoutVars

\* A good day: no crash and no failing statement; the event id is a function of
\* the payload (type:reference:hash), so Kora announces a message once, and
\* announces what it paid.  Requests and handlers run to their ends.
Announce(h, m) ==
    /\ \A f \in Events : Fresh(f) \/ inbox[f].msg # m
    /\ TruthfulPayout(m)
    /\ \E e \in Events : Receive(h, e, m)
    /\ UNCHANGED <<step, koraPayout>>
Quiet(h) == QuietStep(h) /\ UNCHANGED <<step, koraPayout>>
CalmNext ==
    \/ \E p \in Payouts : PayoutStep(p) \/ SettlePayout(p)
    \/ \E h \in Handlers : Quiet(h) \/ \E m \in Message : Announce(h, m)
CalmSpec ==
    /\ PayoutInit /\ [][CalmNext]_payoutVars
    /\ \A p \in Payouts : WF_payoutVars(PayoutStep(p))
    /\ \A h \in Handlers : WF_payoutVars(Quiet(h))
    /\ \A p \in Payouts :
          WF_payoutVars(\E h \in Handlers, m \in Message :
             m.ref[1] = p /\ m.outcome = "success" /\ Announce(h, m))

-------------------------------------------------------------------------------
(* Properties.                                                               *)

PayoutTypeOK ==
    /\ TypeOK
    /\ step \in [Payouts -> {"new"} \cup Running \cup Ended]
    /\ koraPayout \in [Payouts -> {"none", "accepted", "paid", "failed"}]

\* The virtual account is debited, and the payout shown as completed, only for
\* money that Kora moved -- not for a validation-only row, a refused call or an
\* event about something else.
SettledIsPaid ==
    \A p \in Payouts :
        status[p] = "completed" \/ (\E d \in ledger : d.txn = p) => koraPayout[p] = "paid"

\* A payout that Kora has without AFM having a row is one whose request still
\* runs or died: a refusal, a timeout and a commit all leave a row.
RecordedUnlessDead ==
    \A p \in Payouts :
        koraPayout[p] # "none" /\ status[p] = "none" => step[p] \in Running \cup {"dead"}

\* The monthly cap: what Kora pays or may pay stays within the limit, but for
\* the requests that run at the same time as another (one amount each) and for
\* the payouts whose answer or whose process was lost.
Lost == {"error", "badGateway", "dead"}
CapBound ==
    MapThenSumSet(LAMBDA p : Amount[p],
                  {p \in Payouts : koraPayout[p] \in {"accepted", "paid"} /\ step[p] \notin Lost})
        <= Limit + (InFlight - 1) * Max({Amount[p] : p \in Payouts})

\* A paid payout whose request is over is debited once Kora announces it, even
\* if the request was answered 502 and the row says "failed".
Announced(p) == \E e \in Events : inbox[e].msg.outcome = "success" /\ inbox[e].msg.ref[1] = p
LateEventSettles ==
    \A p \in Payouts :
        koraPayout[p] = "paid" /\ step[p] \in {"created", "badGateway"} /\ ~Announced(p)
            ~> \E d \in ledger : d.txn = p
===============================================================================
