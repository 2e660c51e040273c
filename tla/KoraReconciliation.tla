--------------------------- MODULE KoraReconciliation ---------------------------
(***************************************************************************)
(* payment_hub/reconciliation.py: the workers that ask Kora about the      *)
(* transactions a webhook left in processing, composed with the webhook    *)
(* endpoint that schedules them.  Every server process runs one worker.    *)
(*                                                                         *)
(* Time is counted in units of FirstDelay (15 s).  Due times are relative  *)
(* to now; Tick lets one unit pass for every row and for every value that  *)
(* a handler or worker has computed and not committed yet.                 *)
(***************************************************************************)
EXTENDS KoraWebhook

CONSTANTS
    Workers,
    Lease,       \* 5 min: a claim older than this is taken over
    MaxBackoff,  \* 300 s
    MaxAttempts  \* bound: attempt_count is counted up to here

ASSUME TimeAssumption ==
    /\ Lease \in Nat \ {0}
    /\ MaxBackoff \in Nat
    /\ MaxAttempts \in Nat

VARIABLES
    worker,     \* what each worker is doing
    koraCharge  \* the provider's own record of each collection

reconVars == <<vars, worker, koraCharge>>

Normalized == {"completed", "failed", "processing"}
WorkerRow == [at: {"idle", "claimed", "verified", "read", "planned"},
              txn: Txns \cup {None}, norm: Normalized, was: TaskState, dated: BOOLEAN,
              tries: Nat, status: PaymentStatus, to: TaskState, next: Nat \cup {None}]
Resting == [at |-> "idle", txn |-> None, norm |-> "processing", was |-> "none",
            dated |-> FALSE, tries |-> 0, status |-> "none", to |-> "none", next |-> None]

Smaller(a, b) == IF a < b THEN a ELSE b
Earlier(n) == IF n \in {0, None} THEN n ELSE n - 1

\* next_backoff: 15, 30, 60, 120, 240 s, then 300 s.
Backoff(attempt) ==
    IF attempt >= 6 THEN MaxBackoff
    ELSE Smaller(MaxBackoff,
                 FirstDelay * (CASE attempt <= 1 -> 1 [] attempt = 2 -> 2
                                 [] attempt = 3 -> 4 [] attempt = 4 -> 8 [] OTHER -> 16))

-------------------------------------------------------------------------------
(* The worker: reconcile_due_once.                                           *)

Stay == UNCHANGED <<pspRef, refund, ledger, inbox, pc, work, applied, acked, koraCharge>>

\* Mutants: a claim is never taken over; a claim does not protect.
Due_NoReclaim(t) == task[t].state = "scheduled" /\ task[t].next = 0
Due_NoLease(t) == task[t].state \in {"scheduled", "processing"} /\ task[t].next = 0

\* Scheduled and due, or claimed a lease ago.
Due(t) == \/ task[t].state = "scheduled" /\ task[t].next = 0
          \/ task[t].state = "processing" /\ task[t].since >= Lease

\* SELECT ... FOR UPDATE SKIP LOCKED, take the claim, COMMIT.
Claim(w, t) ==
    /\ worker[w].at = "idle" /\ Due(t)
    /\ task' = [task EXCEPT ![t] =
         [@ EXCEPT !.state = "processing", !.since = 0,
                   !.attempts = Smaller(MaxAttempts, task[t].attempts + 1)]]
    /\ worker' = [worker EXCEPT ![w] = [Resting EXCEPT !.at = "claimed", !.txn = t]]
    /\ UNCHANGED status /\ Stay

\* Mutant: an unreachable provider counts as a failed collection.
VerifyError_IsFailure == "failed"

\* A KoraClientError leaves the collection in processing.
VerifyError == "processing"

\* normalize_kora_status of the answer.
Answered(t) == CASE koraCharge[t] = "success" -> "completed"
                 [] koraCharge[t] = "failed"  -> "failed"
                 [] OTHER                     -> "processing"

\* verify_charge answers, or fails with a KoraClientError; the reference of a
\* payout is no charge of Kora's.
Verify(w) ==
    /\ worker[w].at = "claimed"
    /\ \E norm \in {VerifyError} \cup {Answered(t) : t \in Payins \cap {worker[w].txn}} :
          worker' = [worker EXCEPT ![w] = [@ EXCEPT !.at = "verified", !.norm = norm]]
    /\ UNCHANGED <<status, task>> /\ Stay

\* SELECT the task again by id; nobody asks whether the claim still holds.
ReadTask(w) ==
    /\ worker[w].at = "verified"
    /\ worker' = [worker EXCEPT ![w] =
         [@ EXCEPT !.at = "read", !.was = task[worker[w].txn].state,
                   !.dated = task[worker[w].txn].next # None,
                   !.tries = task[worker[w].txn].attempts]]
    /\ UNCHANGED <<status, task>> /\ Stay

\* What becomes of the task.
Verdict(w) == CASE worker[w].norm # "processing"         -> worker[w].norm
                [] task[worker[w].txn].expires = 0        -> "expired"
                [] OTHER                                  -> "scheduled"

\* GET the transaction and decide.
ReadTransaction(w) ==
    /\ worker[w].at = "read"
    /\ worker' = [worker EXCEPT ![w] =
         [@ EXCEPT !.at = "planned", !.status = status[worker[w].txn], !.to = Verdict(w),
                   !.next = IF Verdict(w) = "scheduled" THEN Backoff(worker[w].tries) ELSE None]]
    /\ UNCHANGED <<status, task>> /\ Stay

\* The columns that differ from what was read, in one COMMIT: NULL over a due time
\* that was NULL when it was read is no change, and leaves one set since.
Finish(w) ==
    LET r == worker[w] IN
    /\ r.at = "planned"
    /\ status' = IF r.norm # "processing" /\ r.status \notin {r.norm, "completed", "refunded"}
                 THEN [status EXCEPT ![r.txn] = r.norm] ELSE status
    /\ task' = [task EXCEPT ![r.txn] =
         [@ EXCEPT !.state = IF r.to # r.was THEN r.to ELSE task[r.txn].state,
                   !.next = IF r.dated \/ r.next # None THEN r.next
                           ELSE task[r.txn].next]]
    /\ worker' = [worker EXCEPT ![w] = Resting]
    /\ Stay

\* The process dies, or anything but a KoraClientError is raised: the worker
\* starts over and the task stays claimed.
Abandon(w) ==
    /\ worker[w].at # "idle"
    /\ worker' = [worker EXCEPT ![w] = Resting]
    /\ UNCHANGED <<status, task>> /\ Stay

WorkerStep(w) == \/ \E t \in Txns : Claim(w, t)
                 \/ Verify(w) \/ ReadTask(w) \/ ReadTransaction(w) \/ Finish(w)

-------------------------------------------------------------------------------
(* Kora and the clock.                                                       *)

SettleCharge(t) ==
    /\ koraCharge[t] = "pending"
    /\ \E s \in {"success", "failed"} : koraCharge' = [koraCharge EXCEPT ![t] = s]
    /\ UNCHANGED <<vars, worker>>

\* Events tell the truth, but a "pending" one may arrive late.  What is refunded
\* was collected, and an event about a refund names its own pay-in.  What Kora
\* says of payouts is no matter of this record.
TruthfulCharge(m) ==
    /\ m.kind = "refund" => koraCharge[m.ref[1]] = "success" /\ refund[m.refund].txn = m.ref[1]
    /\ m.kind = "charge" /\ m.outcome # "pending" => koraCharge[m.ref[1]] = m.outcome

\* (A second delivery changes nothing here, so Duplicate is left out.)
ReconEndpoint(h) ==
    /\ \/ \E e \in Events, m \in Message : TruthfulCharge(m) /\ Receive(h, e, m)
       \/ HandlerStep(h)
       \/ Crash(h)
    /\ UNCHANGED <<worker, koraCharge>>

Tick ==
    /\ task' = [t \in Txns |->
         [task[t] EXCEPT !.next = Earlier(@), !.expires = Earlier(@),
                         !.since = IF task[t].state = "processing"
                                   THEN Smaller(Lease, @ + 1) ELSE @]]
    /\ work' = [h \in Handlers |-> [work[h] EXCEPT !.next = Earlier(@)]]
    /\ worker' = [w \in Workers |-> [worker[w] EXCEPT !.next = Earlier(@)]]
    /\ UNCHANGED <<status, pspRef, refund, ledger, inbox, pc, applied, acked, koraCharge>>

-------------------------------------------------------------------------------
\* Legacy pay-ins under way, each with the refund rows of RefundKeys to come.
ReconInit ==
    /\ WebhookInit
    /\ status = [t \in Txns |-> "processing"]
    /\ pspRef = Txns
    /\ refund \in [RefundKeys -> [txn: Payins, amount: {1}, status: {"processing"}, at: {1}]]
    /\ worker = [w \in Workers |-> Resting]
    /\ koraCharge = [t \in Payins |-> "pending"]

Others == \/ \E h \in Handlers : ReconEndpoint(h)
          \/ \E t \in Payins : SettleCharge(t)

ReconNext == Others \/ Tick \/ \E w \in Workers : WorkerStep(w) \/ Abandon(w)

ReconSpec == ReconInit /\ [][ReconNext]_reconVars

\* A worker that is not interrupted is done before its claim is a lease old: the
\* HTTP client gives up after seconds.  A worker that is, holds nothing any more.
Busy(w) == worker[w].at # "idle"
PromptTick == /\ \A w \in Workers : Busy(w) => task[worker[w].txn].since < Lease - 1
              /\ Tick
PromptNext == Others \/ PromptTick \/ \E w \in Workers : WorkerStep(w) \/ Abandon(w)

\* Time passes, running code is resumed, and verification is not interrupted for
\* ever: a worker that keeps coming back to it gets through it again and again.
FairRecon ==
    /\ ReconInit /\ [][PromptNext]_reconVars
    /\ WF_reconVars(PromptTick)
    /\ \A h \in Handlers : WF_reconVars(HandlerStep(h) /\ UNCHANGED <<worker, koraCharge>>)
    /\ \A w \in Workers : /\ WF_reconVars(WorkerStep(w))
                          /\ SF_reconVars(Verify(w)) /\ SF_reconVars(ReadTask(w))
                          /\ SF_reconVars(ReadTransaction(w)) /\ SF_reconVars(Finish(w))

-------------------------------------------------------------------------------
(* Properties.                                                               *)

ReconTypeOK ==
    /\ TypeOK
    /\ worker \in [Workers -> WorkerRow]
    /\ koraCharge \in [Payins -> {"pending", "success", "failed"}]

\* Whatever workers and events race, a verdict is Kora's verdict: no collection is
\* completed, or failed, that Kora did not complete, or fail, and no task either,
\* that of a payout, which is no collection, in particular.  Errors, timeouts and
\* expiry never fail a collection.
VerdictIsTrue ==
    /\ \A t \in Payins : /\ status[t] \in {"completed", "refunded"} => koraCharge[t] = "success"
                         /\ status[t] = "failed" => koraCharge[t] = "failed"
    /\ \A t \in Txns :
          /\ task[t].state = "completed" => t \in Payins /\ koraCharge[t] = "success"
          /\ task[t].state = "failed" => t \in Payins /\ koraCharge[t] = "failed"

\* With prompt workers a task is in one worker's hands at a time, crashes and
\* take-overs included.  (It is not when a webhook schedules a task again that a
\* worker has claimed.)
SingleOwner ==
    \A v, w \in Workers : Busy(v) /\ Busy(w) /\ worker[v].txn = worker[w].txn => v = w

\* A scheduled task has a due time, without which no worker ever claims it.  (It
\* loses it when a webhook that has read the task schedules it again after its
\* worker has ended it.)
ScheduledIsDue == \A t \in Txns : task[t].state = "scheduled" => task[t].next # None

\* Every scheduled task ends: verified or expired, worker crashes included, if no
\* webhook schedules it again meanwhile.
TaskEnds ==
    \A t \in Txns :
        task[t].state \in {"scheduled", "processing"}
            ~> task[t].state \in {"completed", "failed", "expired"}

\* A collection that remains in processing is reconciled durably: once Kora has
\* completed it, AFM says so in the end.
ProcessingIsReconciled ==
    \A t \in Payins :
        koraCharge[t] = "success" /\ task[t].state # "none" ~> status[t] # "processing"
===============================================================================
