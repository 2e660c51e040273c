------------------------------ MODULE KoraWebhook ------------------------------
(***************************************************************************)
(* The Kora webhook endpoint: POST /webhooks/kora (api_gateway/main.py),   *)
(* the idempotency store kora_webhook_events and the business processing   *)
(* of a verified event on transactions, kora_refunds,                      *)
(* virtual_ledger_entries and kora_payment_reconciliations.                *)
(*                                                                         *)
(* A handler is one running request.  Every SELECT and every COMMIT of the *)
(* request is one action: between two of them any other request or worker  *)
(* may commit (PostgreSQL READ COMMITTED, no row lock is taken here).  What *)
(* a handler has read is kept in work[h]; a COMMIT writes only the columns *)
(* whose new value differs from the value read, as the SQLAlchemy unit of  *)
(* work does.  The other writers of the same tables (payout route, refund  *)
(* route, reconciliation worker) extend this module.                       *)
(***************************************************************************)
EXTENDS Naturals, FiniteSets

CONSTANTS
    Payins,       \* transactions collected through Kora
    Payouts,      \* transactions whose metadata says operation = payout
    WithAccount,  \* the transactions that carry a virtual_account_id
    RefundKeys,   \* X-Idempotency-Key values; one kora_refunds row each
    Spellings,    \* the columns whose value the provider echoes as reference
    Events,       \* values of kora_webhook_events.event_id
    Handlers,     \* concurrent requests to the endpoint
    FirstDelay,   \* 15 s, in clock units: delay before the first verification
    Expiry,       \* 24 h, in clock units: life of a reconciliation task
    None          \* NULL

Txns == Payins \cup Payouts

ASSUME RowsAssumption ==
    /\ Payins \cap Payouts = {}
    /\ WithAccount \subseteq Txns
    /\ Spellings \subseteq {"own", "psp"}
    /\ None \notin Nat
    /\ None \notin Txns \cup RefundKeys \cup Events \cup (Txns \X {"own", "psp"})
    /\ FirstDelay \in Nat
    /\ Expiry \in Nat

VARIABLES
    status,   \* transactions.status; "none": no committed row
    pspRef,   \* rows whose psp_transaction_id is stored
    refund,   \* kora_refunds
    ledger,   \* the virtual_ledger_entries of type kora_payout / kora_refund
    task,     \* kora_payment_reconciliations, one row per transaction at most
    inbox,    \* kora_webhook_events
    pc,       \* where each handler stands
    work,     \* what each handler has read and decided
    applied,  \* history: how often an event's business effect was committed
    acked     \* history: events the provider got a 2xx answer for

database == <<status, pspRef, refund, ledger, task>>
vars == <<database, inbox, pc, work, applied, acked>>

PaymentStatus ==
    {"none", "pending", "processing", "completed", "failed", "refunded", "held"}
Outcome == {"success", "failed", "pending"}
TxnRef == Txns \X {"own", "psp"}

\* A verified payload, reduced to what the handler branches on.
Message ==
    [kind: {"charge"}, ref: Payins \X Spellings, refund: {None}, outcome: Outcome]
    \cup
    [kind: {"payout"}, ref: Payouts \X Spellings, refund: {None}, outcome: Outcome]
    \cup
    [kind: {"refund"}, ref: Payins \X {"psp"}, refund: RefundKeys, outcome: Outcome]

RefundStatus == {"none", "requested", "processing", "success", "failed"}
RefundRow == [txn: Payins \cup {None}, amount: Nat, status: RefundStatus, at: Nat]
NoRefund == [txn |-> None, amount |-> 0, status |-> "none", at |-> 0]

\* Due times are kept relative to now, so that a Tick only has to count down;
\* next = None is next_attempt_at IS NULL, which is never due.
TaskState == {"none", "scheduled", "processing", "completed", "failed", "expired"}
TaskRow == [state: TaskState, next: Nat \cup {None}, expires: Nat, since: Nat, attempts: Nat]
NoTask == [state |-> "none", next |-> None, expires |-> 0, since |-> 0, attempts |-> 0]

Debit == [kind: {"payout", "refund"}, ref: TxnRef \cup {None},
          refund: RefundKeys \cup {None}, txn: Txns, event: Events]

EventStatus == {"none", "received", "processed", "failed"}
NoMessage == [kind |-> "none", ref |-> None, refund |-> None, outcome |-> "none"]
InboxRow == [status: EventStatus, msg: Message \cup {NoMessage}]

Work == [event: Events \cup {None}, txn: Txns \cup {None}, status: PaymentStatus,
         refund: RefundKeys \cup {None}, rstatus: RefundStatus, debit: BOOLEAN,
         plan: SUBSET {"insert", "state", "next"}, next: Nat]
Blank == [event |-> None, txn |-> None, status |-> "none", refund |-> None,
          rstatus |-> "none", debit |-> FALSE, plan |-> {}, next |-> 0]

Places == {"idle", "match", "parent", "check", "enqueue", "commit", "fail"}

Msg(h) == inbox[work[h].event].msg

-------------------------------------------------------------------------------
(* Reads of the tables.                                                      *)

\* Mutant: a transaction that was given up is not looked for any more.
Matches_Live(t, ref) == status[t] \notin {"none", "failed"} /\ t = ref[1]

\* The transaction a reference finds by idempotency_key or psp_transaction_id.
Matches(t, ref) == /\ status[t] # "none"
                   /\ t = ref[1]
                   /\ ref[2] = "own" \/ t \in pspRef

\* The refunds found by refund_reference OR payment_reference.
RefundMatches(m) ==
    {k \in RefundKeys : /\ refund[k].status # "none"
                        /\ k = m.refund \/ refund[k].txn = m.ref[1]}

\* ORDER BY created_at DESC, first(): any of those created last.
Newest(K) == {k \in K : \A j \in K : refund[j].at <= refund[k].at}

\* Mutant: the outcome is not looked at before the ledger is written.
NeedsDebit_AnyOutcome(m, t) == m.kind # "charge" /\ t \in WithAccount

\* A settled payout or refund of a transaction with a virtual account is debited.
NeedsDebit(m, t) == m.kind # "charge" /\ m.outcome = "success" /\ t \in WithAccount

\* Mutants: look for an entry of this type only; of this event only.
EntriesOf_AnyReference(h) == {d \in ledger : d.kind = Msg(h).kind}
EntriesOf_SameEvent(h) == {d \in ledger : d.event = work[h].event}

\* The ledger entries with the reference_type and reference_id of this event.
EntriesOf(h) ==
    {d \in ledger : /\ d.kind = Msg(h).kind
                    /\ IF d.kind = "payout" THEN d.ref = Msg(h).ref
                                            ELSE d.refund = work[h].refund}

\* Mutants: the provider's word is stored as it is; whatever is not a failure
\* counts as settled.
SettledStatus_Raw(outcome) == outcome
SettledStatus_Lenient(outcome) == IF outcome = "failed" THEN "failed" ELSE "completed"

\* The status the event asks for.
SettledStatus(outcome) == CASE outcome = "success" -> "completed"
                            [] outcome = "failed"  -> "failed"
                            [] OTHER               -> "processing"
RefundedStatus(outcome) == CASE outcome = "success" -> "success"
                             [] outcome = "failed"  -> "failed"
                             [] OTHER               -> "processing"

NewStatus(h) ==
    IF Msg(h).kind # "refund" THEN SettledStatus(Msg(h).outcome)
    ELSE IF Msg(h).outcome = "success" THEN "refunded" ELSE work[h].status

-------------------------------------------------------------------------------
(* Reconciliation tasks: enqueue_reconciliation of payment_hub.              *)

\* The columns it decides to write after reading the task row of t, min(next_attempt_at or
\* now, now + 15 s) replacing next_attempt_at.
EnqueuePlan(row) ==
    CASE row.state = "none"                  -> {"insert"}
      [] row.state \in {"completed", "failed"} -> {}
      [] OTHER -> (IF row.state = "scheduled" THEN {} ELSE {"state"})
                  \cup (IF row.next = None \/ row.next > FirstDelay
                        THEN {"next"} ELSE {})

\* Mutant: the stored due time is kept, be it NULL.
EnqueueDue_Kept(row) == row.next

\* now + 15 s, or now for a NULL due time.
EnqueueDue(row) == IF row.state # "none" /\ row.next = None THEN 0 ELSE FirstDelay

\* The row the commit leaves: column by column over the row as it is by then.
EnqueuedTask(row, w) ==
    IF "insert" \in w.plan
    THEN [NoTask EXCEPT !.state = "scheduled", !.next = w.next, !.expires = Expiry]
    ELSE [row EXCEPT !.state = IF "state" \in w.plan THEN "scheduled" ELSE @,
                     !.next = IF "next" \in w.plan THEN w.next ELSE @]

\* UNIQUE(transaction_id): another request inserted the task first.
InsertConflict(h) ==
    "insert" \in work[h].plan /\ task[work[h].txn].state # "none"

-------------------------------------------------------------------------------
(* The handler.                                                              *)

Goto(h, place, w) == pc' = [pc EXCEPT ![h] = place] /\ work' = [work EXCEPT ![h] = w]

\* Mutants: an event in flight, or a failed one, may be received again.
Fresh_Unprocessed(e) == inbox[e].status \in {"none", "received"}
Fresh_RetryFailed(e) == inbox[e].status \in {"none", "failed"}

\* No row has this event_id yet.
Fresh(e) == inbox[e].status = "none"

\* INSERT the event as "received" and COMMIT.
Receive(h, e, m) ==
    /\ pc[h] = "idle" /\ Fresh(e)
    /\ inbox' = [inbox EXCEPT ![e] = [status |-> "received", msg |-> m]]
    /\ Goto(h, "match", [Blank EXCEPT !.event = e])
    /\ UNCHANGED <<database, applied, acked>>

\* The INSERT hits UNIQUE(event_id): 200 already_<status>, whatever the status,
\* and the payload of the second delivery is not looked at.
Duplicate(h, e) ==
    /\ pc[h] = "idle" /\ ~Fresh(e)
    /\ acked' = acked \cup {e}
    /\ UNCHANGED <<database, inbox, pc, work, applied>>

\* SELECT the transaction of a charge or payout event.
MatchTransaction(h) ==
    LET m == Msg(h)
        found == {t \in Txns : Matches(t, m.ref)}
    IN /\ pc[h] = "match" /\ m.kind # "refund"
       /\ \/ /\ found = {}
             /\ Goto(h, IF m.kind = "payout" THEN "fail" ELSE "commit", work[h])
          \/ \E t \in found :
               Goto(h, CASE m.outcome = "pending" -> "enqueue"
                         [] NeedsDebit(m, t)       -> "check"
                         [] OTHER                  -> "commit",
                    [work[h] EXCEPT !.txn = t, !.status = status[t]])
       /\ UNCHANGED <<database, inbox, applied, acked>>

\* SELECT the refund of a refund event; none found is an error.
MatchRefund(h) ==
    LET found == RefundMatches(Msg(h)) IN
    /\ pc[h] = "match" /\ Msg(h).kind = "refund"
    /\ \/ found = {} /\ Goto(h, "fail", work[h])
       \/ \E k \in Newest(found) :
             Goto(h, "parent",
                  [work[h] EXCEPT !.refund = k, !.rstatus = refund[k].status])
    /\ UNCHANGED <<database, inbox, applied, acked>>

\* GET the parent transaction of the refund.
LoadParent(h) ==
    LET t == refund[work[h].refund].txn IN
    /\ pc[h] = "parent"
    /\ Goto(h, IF NeedsDebit(Msg(h), t) THEN "check" ELSE "commit",
            [work[h] EXCEPT !.txn = t, !.status = status[t]])
    /\ UNCHANGED <<database, inbox, applied, acked>>

\* SELECT the ledger entry: one_or_none() raises when there are several.
CheckEntry(h) ==
    LET n == Cardinality(EntriesOf(h)) IN
    /\ pc[h] = "check"
    /\ Goto(h, IF n > 1 THEN "fail" ELSE "commit",
            [work[h] EXCEPT !.debit = (n = 0)])
    /\ UNCHANGED <<database, inbox, applied, acked>>

\* SELECT the reconciliation task of a still pending transaction.
EnqueueRead(h) ==
    LET row == task[work[h].txn] IN
    /\ pc[h] = "enqueue"
    /\ Goto(h, "commit",
            [work[h] EXCEPT !.plan = EnqueuePlan(row), !.next = EnqueueDue(row)])
    /\ UNCHANGED <<database, inbox, applied, acked>>

NewDebit(h) == [kind |-> Msg(h).kind,
                ref |-> IF Msg(h).kind = "payout" THEN Msg(h).ref ELSE None,
                refund |-> work[h].refund,
                txn |-> work[h].txn,
                event |-> work[h].event]

\* The business effect and "processed", in one COMMIT.
Commit(h) ==
    LET w == work[h] IN
    /\ pc[h] = "commit" /\ ~InsertConflict(h)
    /\ status' = IF w.txn # None /\ NewStatus(h) # w.status
                 THEN [status EXCEPT ![w.txn] = NewStatus(h)] ELSE status
    /\ refund' = IF w.refund # None /\ RefundedStatus(Msg(h).outcome) # w.rstatus
                 THEN [refund EXCEPT ![w.refund].status = RefundedStatus(Msg(h).outcome)]
                 ELSE refund
    /\ ledger' = IF w.debit THEN ledger \cup {NewDebit(h)} ELSE ledger
    /\ task' = IF w.plan # {} THEN [task EXCEPT ![w.txn] = EnqueuedTask(@, w)] ELSE task
    /\ inbox' = [inbox EXCEPT ![w.event].status = "processed"]
    /\ applied' = [applied EXCEPT ![w.event] = @ + 1]
    /\ acked' = acked \cup {w.event}
    /\ Goto(h, "idle", Blank)
    /\ UNCHANGED pspRef

\* The INSERT of the task hits UNIQUE(transaction_id).
Conflict(h) ==
    /\ pc[h] = "commit" /\ InsertConflict(h)
    /\ Goto(h, "fail", work[h])
    /\ UNCHANGED <<database, inbox, applied, acked>>

\* Any statement of the try block may raise: the session is rolled back.
Raise(h) ==
    /\ pc[h] \in {"match", "parent", "check", "enqueue", "commit"}
    /\ Goto(h, "fail", work[h])
    /\ UNCHANGED <<database, inbox, applied, acked>>

\* Mutant: the rolled back session is not committed again.
Fail_Uncommitted(h) ==
    /\ pc[h] = "fail"
    /\ Goto(h, "idle", Blank)
    /\ UNCHANGED <<database, inbox, applied, acked>>

\* The event is committed as "failed", the answer is a 500.
Fail(h) ==
    /\ pc[h] = "fail"
    /\ inbox' = [inbox EXCEPT ![work[h].event].status = "failed"]
    /\ Goto(h, "idle", Blank)
    /\ UNCHANGED <<database, applied, acked>>

\* The server process dies, or the COMMIT of "failed" raises too.
Crash(h) ==
    /\ pc[h] # "idle"
    /\ Goto(h, "idle", Blank)
    /\ UNCHANGED <<database, inbox, applied, acked>>

\* The steps of a request none of whose statements fails by itself.
QuietStep(h) == \/ MatchTransaction(h) \/ MatchRefund(h) \/ LoadParent(h)
                \/ CheckEntry(h) \/ EnqueueRead(h) \/ Commit(h) \/ Conflict(h) \/ Fail(h)
HandlerStep(h) == QuietStep(h) \/ Raise(h)

-------------------------------------------------------------------------------
(* The endpoint over tables that already hold the rows the events are about. *)

WebhookInit ==
    /\ ledger = {}
    /\ task = [t \in Txns |-> NoTask]
    /\ inbox = [e \in Events |-> [status |-> "none", msg |-> NoMessage]]
    /\ pc = [h \in Handlers |-> "idle"]
    /\ work = [h \in Handlers |-> Blank]
    /\ applied = [e \in Events |-> 0]
    /\ acked = {}

\* Executed payouts and pay-ins under way or settled, refunds requested in turn.
Init ==
    /\ WebhookInit
    /\ status \in [Txns -> {"processing", "completed"}]
    /\ \A t \in Payouts : status[t] = "processing"
    /\ pspRef = Txns
    /\ refund \in [RefundKeys -> {NoRefund} \cup
                     [txn: Payins, amount: {1}, status: {"processing"},
                      at: 1 .. Cardinality(RefundKeys)]]
    /\ \A k \in RefundKeys :
          refund[k].status # "none" => status[refund[k].txn] = "completed"
    /\ \A j, k \in RefundKeys :
          refund[j].status # "none" /\ refund[j].at = refund[k].at => j = k

Next == \E h \in Handlers :
          \/ \E e \in Events : Duplicate(h, e) \/ \E m \in Message : Receive(h, e, m)
          \/ HandlerStep(h)
          \/ Crash(h)

Spec == Init /\ [][Next]_vars

\* Without crashes, every started handler runs to its end: the event loop
\* resumes it after each await.
RunNext == \E h \in Handlers :
             \/ \E e \in Events : Duplicate(h, e) \/ \E m \in Message : Receive(h, e, m)
             \/ HandlerStep(h)
FairSpec == Init /\ [][RunNext]_vars /\ \A h \in Handlers : WF_vars(HandlerStep(h))

-------------------------------------------------------------------------------
(* Properties.                                                               *)

\* Every variable stays in its table's domain.
TypeOK ==
    /\ status \in [Txns -> PaymentStatus]
    /\ pspRef \subseteq Txns
    /\ refund \in [RefundKeys -> RefundRow]
    /\ ledger \subseteq Debit
    /\ task \in [Txns -> TaskRow]
    /\ inbox \in [Events -> InboxRow]
    /\ pc \in [Handlers -> Places]
    /\ work \in [Handlers -> Work]
    /\ applied \in [Events -> Nat]
    /\ acked \subseteq Events

\* At most once: however often and however concurrently an event is delivered,
\* and wherever a request dies, its business effect is committed once if the
\* event is "processed" and not at all otherwise.
AppliedOnce ==
    \A e \in Events :
        applied[e] = IF inbox[e].status = "processed" THEN 1 ELSE 0

\* No debit without cause: a ledger entry stems from a processed success event
\* about the entry's own transaction, and no event leaves two entries.
Backed(d) ==
    LET row == inbox[d.event] IN
    /\ row.status = "processed"
    /\ row.msg.kind = d.kind
    /\ row.msg.outcome = "success"
    /\ IF d.kind = "payout" THEN d.ref = row.msg.ref /\ d.txn = d.ref[1]
                            ELSE d.txn = refund[d.refund].txn
DebitsBacked ==
    /\ \A d \in ledger : Backed(d)
    /\ \A c, d \in ledger : c.event = d.event => c = d

\* The ledger keeps up with the transactions: in this endpoint a payout becomes
\* "completed", and a pay-in "refunded", only together with (or after) its debit.
SettledIsDebited ==
    \A t \in WithAccount :
        /\ t \in Payouts /\ status[t] = "completed"
              => \E d \in ledger : d.kind = "payout" /\ d.txn = t
        /\ t \in Payins /\ status[t] = "refunded"
              => \E d \in ledger : d.kind = "refund" /\ d.txn = t

\* One entry at most for a payout and for a refund.
DebitOnce ==
    \A c, d \in ledger :
        /\ c.kind = d.kind
        /\ IF c.kind = "payout" THEN c.txn = d.txn ELSE c.refund = d.refund
        => c = d

\* The provider is told 2xx, and so stops retrying, only for what was applied.
AckedIsProcessed == \A e \in acked : inbox[e].status = "processed"

\* No status without evidence: the endpoint changes the status of a transaction
\* only in the commit of a received event, to what that event says of that
\* transaction, however stale the row was that the handler had read.
SaysSo(m, t) ==
    IF m.kind = "refund"
    THEN /\ m.outcome = "success" /\ status'[t] = "refunded"
         /\ \E k \in RefundMatches(m) : refund[k].txn = t
    ELSE /\ m.ref[1] = t
         /\ status'[t] = "completed" <=> m.outcome = "success"
         /\ status'[t] = "failed" <=> m.outcome = "failed"
         /\ status'[t] # "refunded"
StatusCaused ==
    \A t \in Txns : status'[t] # status[t] =>
        \E e \in Events : /\ inbox[e].status = "received"
                          /\ inbox'[e].status = "processed"
                          /\ SaysSo(inbox[e].msg, t)
StatusHasCause == [][StatusCaused]_<<status, refund, inbox>>

\* A received event is decided: processed, or failed and alerted.
ReceivedIsDecided ==
    \A e \in Events :
        inbox[e].status = "received" ~> inbox[e].status \in {"processed", "failed"}

\* What the endpoint promises (module EventInbox): it applies events atomically.
Inbox == INSTANCE EventInbox WITH
            verdict <- [e \in Events |-> inbox[e].status],
            book <- ledger,
            rows <- <<status, pspRef, refund, task>>
AtomicInbox == Inbox!Spec
===============================================================================
