------------------------------- MODULE Incidents --------------------------------
(***************************************************************************)
(* What follows a failed webhook event: the error path of kora_webhook     *)
(* (api_gateway/main.py) counts the recent failures of the event's type    *)
(* and notify_kora_failure (api_gateway/kora_alerts.py) raises an alert    *)
(* from the configured number on.  Requests count at the same time, each   *)
(* in a transaction of its own, and may die before they do.                *)
(***************************************************************************)
EXTENDS Naturals, FiniteSets

CONSTANTS
    Failures,   \* events whose processing fails
    Kinds,      \* values of event_type
    Threshold,  \* kora_webhook_alert_threshold
    Recent      \* 5 minutes, in clock units

ASSUME IncidentAssumption == Threshold \in Nat \ {0} /\ Recent \in Nat

VARIABLES
    row,    \* the event's row: status, event_type, time since received_at
    errors  \* where the error path of its request stands

incidentVars == <<row, errors>>

NoRow == [status |-> "none", kind |-> "none", age |-> 0]
ErrorPlaces == {"idle", "running", "failed", "alerted", "quiet", "dead"}

Proceed(e, from, to) == errors[e] = from /\ errors' = [errors EXCEPT ![e] = to]

-------------------------------------------------------------------------------
\* The event is stored; received_at is now.
StoreEvent(e, k) ==
    /\ Proceed(e, "idle", "running")
    /\ row' = [row EXCEPT ![e] = [status |-> "received", kind |-> k, age |-> 0]]

\* Rollback, status = "failed", COMMIT.
MarkFailed(e) ==
    /\ Proceed(e, "running", "failed")
    /\ row' = [row EXCEPT ![e].status = "failed"]

\* Mutant: the count was taken before the failure itself was committed.
RecentFailures_Others(e) ==
    {f \in Failures \ {e} : /\ row[f].status = "failed" /\ row[f].kind = row[e].kind
                            /\ row[f].age <= Recent}

\* Rows that failed, of this type, received within the window.
RecentFailures(e) ==
    {f \in Failures : /\ row[f].status = "failed" /\ row[f].kind = row[e].kind
                      /\ row[f].age <= Recent}

\* SELECT count(*), and notify_kora_failure: no alert below the threshold, else
\* it is sent, or logged if that fails.  What the request has counted is its own:
\* nothing that happens between the two changes it.
CountAndNotify(e) ==
    /\ Proceed(e, "failed",
               IF Cardinality(RecentFailures(e)) < Threshold THEN "quiet" ELSE "alerted")
    /\ UNCHANGED row

\* The process dies: before the failure is committed, or before the alert.
RequestDies(e) ==
    /\ \E place \in {"running", "failed"} : Proceed(e, place, "dead")
    /\ UNCHANGED row

AgeTick ==
    /\ row' = [e \in Failures |->
                 IF row[e].status = "none" \/ row[e].age > Recent THEN row[e]
                 ELSE [row[e] EXCEPT !.age = @ + 1]]
    /\ UNCHANGED errors

IncidentInit ==
    /\ row = [e \in Failures |-> NoRow]
    /\ errors = [e \in Failures |-> "idle"]

IncidentNext ==
    \/ AgeTick
    \/ \E e \in Failures : \/ \E k \in Kinds : StoreEvent(e, k)
                           \/ MarkFailed(e) \/ CountAndNotify(e) \/ RequestDies(e)

IncidentSpec == IncidentInit /\ [][IncidentNext]_incidentVars

-------------------------------------------------------------------------------
(* Properties.                                                               *)

IncidentTypeOK ==
    /\ row \in [Failures -> [status: {"none", "received", "failed"},
                             kind: Kinds \cup {"none"}, age: 0 .. Recent + 1]]
    /\ errors \in [Failures -> ErrorPlaces]

\* Failures cannot reach the threshold unnoticed: of any so many of one type
\* within the window, whose requests have all got past the alert, at least one
\* raised it, in whatever order they committed, counted and reported
\* (kora_webhook, notify_kora_failure).
AlertRaised ==
    \A k \in Kinds :
        LET past == {e \in Failures : /\ row[e].kind = k /\ row[e].age <= Recent
                                      /\ errors[e] \in {"quiet", "alerted"}}
        IN Cardinality(past) >= Threshold => \E e \in past : errors[e] = "alerted"
===============================================================================
