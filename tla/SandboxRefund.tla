----------------------------- MODULE SandboxRefund ------------------------------
(***************************************************************************)
(* The operators' end-to-end script scripts/kora_sandbox_refund_e2e.py:    *)
(* one pay-in at Kora, polled until it is decided, then one refund, polled *)
(* in the same way, and an exit code.                                      *)
(*                                                                         *)
(* Kora is external: it settles a charge or a refund at any moment, finds  *)
(* a charge under some of its references only, and any call may fail.      *)
(***************************************************************************)
EXTENDS Naturals

CONSTANTS
    PollAttempts,  \* KORA_REFUND_POLL_ATTEMPTS
    References     \* number of references poll_charge tries in turn

ASSUME ScriptAssumption == PollAttempts \in Nat \ {0} /\ References \in Nat \ {0}

VARIABLES
    charge,  \* Kora: the charge
    payback, \* Kora: the refund
    found,   \* Kora: the references under which it finds the charge
    script,  \* where the script stands: place, attempt, reference tried, latest status
    asked,   \* history: calls to initiate_refund
    exit     \* the exit code; 99 while the script runs

scriptVars == <<charge, payback, found, script, asked, exit>>

Decision == {"none", "pending", "success", "failed"}
ScriptPlaces == {"quote", "charge", "otp", "poll", "refund", "pollRefund", "end"}
Poll(place) == [at |-> place, attempt |-> 1, ref |-> 1, latest |-> "none"]

At(place) == exit = 99 /\ script.at = place
Exit(code) == exit' = code /\ script' = [script EXCEPT !.at = "end"]
Go(place) == script' = Poll(place) /\ UNCHANGED exit

-------------------------------------------------------------------------------
\* KoraClientError or RuntimeError in a call whose answer the script needs.
CallFails ==
    /\ \E place \in {"quote", "charge", "otp", "refund"} : At(place)
    /\ Exit(2)
    /\ \/ UNCHANGED <<charge, payback, asked>>
       \/ /\ At("charge")   \* the charge was made, its answer is lost
          /\ charge' = "pending" /\ UNCHANGED <<payback, asked>>
       \/ /\ At("refund")
          /\ asked' = asked + 1
          /\ payback' \in {payback, "pending"} /\ UNCHANGED charge
    /\ UNCHANGED found

GetQuote == At("quote") /\ Go("charge") /\ UNCHANGED <<charge, payback, found, asked>>

\* The answer names the authorisation: OTP, or the prompt on the handset.
ChargeWallet ==
    /\ At("charge")
    /\ charge' = "pending"
    /\ Go("otp") \/ Go("poll")
    /\ UNCHANGED <<payback, found, asked>>

SendOtp == At("otp") /\ Go("poll") /\ UNCHANGED <<charge, payback, found, asked>>

Decided(status) == status \in {"success", "failed"}

\* Mutant: what is not a failure is taken for a success.
Refundable_Undecided(status) == status # "failed"

\* status in SUCCESS_STATUSES.
Refundable(status) == status = "success"

\* The poll is over: with a decision, or out of attempts.
EndPoll(status) ==
    IF script.at = "pollRefund" THEN Exit(IF Refundable(status) THEN 0 ELSE 2)
    ELSE IF Refundable(status)
         THEN script' = [script EXCEPT !.at = "refund", !.latest = status] /\ UNCHANGED exit
         ELSE Exit(2)

\* The next attempt starts with the first reference and keeps the latest status.
NextAttempt(status) ==
    IF script.attempt < PollAttempts
    THEN /\ script' = [script EXCEPT !.attempt = @ + 1, !.ref = 1, !.latest = status]
         /\ UNCHANGED exit
    ELSE EndPoll(status)

Seen(status) == IF Decided(status) THEN EndPoll(status) ELSE NextAttempt(status)

\* poll_charge: a 404 is followed by the next reference, another error is not.
PollCharge ==
    /\ At("poll")
    /\ \/ script.ref \in found /\ Seen(charge)
       \/ /\ script.ref \notin found /\ script.ref < References
          /\ script' = [script EXCEPT !.ref = @ + 1] /\ UNCHANGED exit
       \/ /\ script.ref \notin found /\ script.ref = References
          /\ NextAttempt(script.latest)
       \/ NextAttempt(script.latest)
    /\ UNCHANGED <<charge, payback, found, asked>>

InitiateRefund ==
    /\ At("refund")
    /\ asked' = asked + 1
    /\ payback' = "pending"
    /\ Go("pollRefund")
    /\ UNCHANGED <<charge, found>>

PollRefund ==
    /\ At("pollRefund")
    /\ Seen(payback) \/ NextAttempt(script.latest)
    /\ UNCHANGED <<charge, payback, found, asked>>

\* External: Kora settles the charge, and the refund.
SettleCharge ==
    /\ charge = "pending" /\ charge' \in {"success", "failed"}
    /\ UNCHANGED <<payback, found, script, asked, exit>>
SettleRefund ==
    /\ payback = "pending" /\ payback' \in {"success", "failed"}
    /\ UNCHANGED <<charge, found, script, asked, exit>>

ScriptInit ==
    /\ charge = "none" /\ payback = "none" /\ asked = 0 /\ exit = 99
    /\ found \in SUBSET (1 .. References)
    /\ script = Poll("quote")

ScriptNext ==
    \/ CallFails \/ GetQuote \/ ChargeWallet \/ SendOtp \/ PollCharge
    \/ InitiateRefund \/ PollRefund \/ SettleCharge \/ SettleRefund

ScriptSpec == ScriptInit /\ [][ScriptNext]_scriptVars

-------------------------------------------------------------------------------
(* Properties.                                                               *)

ScriptTypeOK ==
    /\ charge \in Decision /\ payback \in Decision
    /\ found \subseteq 1 .. References
    /\ script \in [at: ScriptPlaces, attempt: 1 .. PollAttempts, ref: 1 .. References,
                   latest: Decision]
    /\ asked \in Nat
    /\ exit \in {0, 2, 99}

\* A refund is asked for at most once, and only of a charge that Kora has settled,
\* whichever reference finds it and whatever calls and polls fail; Kora pays back
\* nothing else, and exit code 0 means that it has paid back (run).
RefundOnlyOfPaid ==
    /\ asked <= 1
    /\ asked = 1 \/ script.at = "refund" => charge = "success"
    /\ payback # "none" => charge = "success"
    /\ exit = 0 => payback = "success"
===============================================================================
