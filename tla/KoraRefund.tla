------------------------------- MODULE KoraRefund -------------------------------
(***************************************************************************)
(* POST /api/v1/payments/{id}/refund (api_gateway/main.py,                 *)
(* create_kora_refund), composed with the webhook endpoint.                *)
(*                                                                         *)
(* The kora_refunds row is committed as "requested" before Kora is called  *)
(* and written again after the answer.  A request is one confirmed,        *)
(* executed call (a preview changes nothing); several may carry the same   *)
(* X-Idempotency-Key.  The refund reference is a hash of the key, so the   *)
(* key stands for both.                                                    *)
(***************************************************************************)
EXTENDS KoraAmounts

CONSTANT Requests  \* concurrent or repeated calls of the route

ASSUME KeysAssumption == IsFiniteSet(RefundKeys)

VARIABLES
    req,        \* where each request stands, and what it asks for
    calls,      \* history: initiate_refund calls that reached Kora, per key
    koraRefund  \* the provider's own record of the refund

refundVars == <<vars, req, calls, koraRefund>>

RefundRequest == [at: {"new", "lookup", "insert", "call", "sent", "answered", "error",
                       "done", "replayed", "conflict", "badGateway", "dead"},
                  key: RefundKeys \cup {None}, txn: Payins \cup {None}, amount: Nat,
                  answer: RefundStatus]
NoRequest == [at |-> "new", key |-> None, txn |-> None, amount |-> 0, answer |-> "none"]

-------------------------------------------------------------------------------
(* The request.                                                              *)

At(r, place) == req[r].at = place
Go(r, place) == req' = [req EXCEPT ![r].at = place]
SetRefund(k, row) == refund' = [refund EXCEPT ![k] = row]
RefundsOnly == UNCHANGED <<status, pspRef, ledger, task, inbox, pc, work, applied, acked>>

\* Mutant: the status of the pay-in is not looked at.
Refundable_AnyStatus(t, a) == t \in pspRef /\ a <= Amount[t]

\* A settled pay-in with a Kora reference, for at most its amount.
Refundable(t, a) ==
    /\ status[t] \in {"completed", "refunded"}
    /\ t \in pspRef
    /\ a <= Amount[t]

\* GET the transaction; a request that is not Refundable is answered 4xx.
Open(r, k, t, a) ==
    /\ At(r, "new") /\ Refundable(t, a)
    /\ req' = [req EXCEPT ![r] =
                 [@ EXCEPT !.at = "lookup", !.key = k, !.txn = t, !.amount = a]]
    /\ UNCHANGED <<refund, calls, koraRefund>> /\ RefundsOnly

\* SELECT by idempotency_key: an existing refund is answered as a replay.
Lookup(r) ==
    /\ At(r, "lookup")
    /\ Go(r, IF refund[req[r].key].status # "none" THEN "replayed" ELSE "insert")
    /\ UNCHANGED <<refund, calls, koraRefund>> /\ RefundsOnly

\* Mutant: kora_refunds.idempotency_key without its unique constraint.
KeyTaken_NoConstraint(k) == FALSE

\* UNIQUE(idempotency_key), UNIQUE(refund_reference).
KeyTaken(k) == refund[k].status # "none"

\* INSERT as "requested" and COMMIT; a concurrent request with the same key
\* makes it raise an IntegrityError (500).
Insert(r) ==
    LET k == req[r].key IN
    /\ At(r, "insert")
    /\ IF KeyTaken(k) THEN Go(r, "conflict") /\ UNCHANGED refund
       ELSE /\ Go(r, "call")
            /\ SetRefund(k, [txn |-> req[r].txn, amount |-> req[r].amount,
                             status |-> "requested",
                             at |-> Cardinality({j \in RefundKeys :
                                                    refund[j].status # "none"}) + 1])
    /\ UNCHANGED <<calls, koraRefund>> /\ RefundsOnly

\* KoraClient.initiate_refund: the request reaches Kora, or does not.
Call(r) ==
    /\ At(r, "call")
    /\ \/ /\ Go(r, "sent")
          /\ calls' = [calls EXCEPT ![req[r].key] = @ + 1]
          /\ koraRefund' = [koraRefund EXCEPT ![req[r].key] = "accepted"]
       \/ Go(r, "error") /\ UNCHANGED <<calls, koraRefund>>
    /\ UNCHANGED refund /\ RefundsOnly

\* Kora's answer names the status of that moment; it may be lost.
AnswerRefund(r) ==
    LET now == koraRefund[req[r].key] IN
    /\ At(r, "sent")
    /\ \/ req' = [req EXCEPT ![r] = [@ EXCEPT !.at = "answered",
                    !.answer = IF now = "accepted" THEN "processing" ELSE now]]
       \/ Go(r, "error")
    /\ UNCHANGED <<refund, calls, koraRefund>> /\ RefundsOnly

\* The status of the answer is written over whatever the row says by then.
CommitAnswer(r) ==
    /\ At(r, "answered") /\ Go(r, "done")
    /\ SetRefund(req[r].key, [refund[req[r].key] EXCEPT !.status = req[r].answer])
    /\ UNCHANGED <<calls, koraRefund>> /\ RefundsOnly

FailRefund(r) ==
    /\ At(r, "error") /\ Go(r, "badGateway")
    /\ SetRefund(req[r].key, [refund[req[r].key] EXCEPT !.status = "failed"])
    /\ UNCHANGED <<calls, koraRefund>> /\ RefundsOnly

CrashRefund(r) ==
    /\ req[r].at \in {"lookup", "insert", "call", "sent", "answered", "error"}
    /\ Go(r, "dead")
    /\ UNCHANGED <<refund, calls, koraRefund>> /\ RefundsOnly

RefundStep(r) == \/ \E k \in RefundKeys, t \in Payins : \E a \in 1 .. Amount[t] : Open(r, k, t, a)
                  \/ Lookup(r) \/ Insert(r) \/ Call(r) \/ AnswerRefund(r)
                  \/ CommitAnswer(r) \/ FailRefund(r)

-------------------------------------------------------------------------------
(* Kora: it settles what it accepted and reports it truthfully.              *)

SettleRefund(k) ==
    /\ koraRefund[k] = "accepted"
    /\ \E s \in {"success", "failed"} : koraRefund' = [koraRefund EXCEPT ![k] = s]
    /\ UNCHANGED <<vars, req, calls>>

TruthfulRefund(m) ==
    /\ m.kind = "refund"
    /\ m.ref[1] = refund[m.refund].txn
    /\ koraRefund[m.refund] = IF m.outcome = "pending" THEN "accepted" ELSE m.outcome

RefundEndpoint(h) ==
    /\ \/ \E e \in Events : \/ Duplicate(h, e)
                            \/ \E m \in Message : TruthfulRefund(m) /\ Receive(h, e, m)
       \/ HandlerStep(h)
       \/ Crash(h)
    /\ UNCHANGED <<req, calls, koraRefund>>

-------------------------------------------------------------------------------
RefundInit ==
    /\ WebhookInit
    /\ status = [t \in Txns |-> "completed"]
    /\ pspRef = Txns
    /\ refund = [k \in RefundKeys |-> NoRefund]
    /\ req = [r \in Requests |-> NoRequest]
    /\ calls = [k \in RefundKeys |-> 0]
    /\ koraRefund = [k \in RefundKeys |-> "none"]

RefundNext ==
    \/ \E r \in Requests : RefundStep(r) \/ CrashRefund(r)
    \/ \E k \in RefundKeys : SettleRefund(k)
    \/ \E h \in Handlers : RefundEndpoint(h)

RefundSpec == RefundInit /\ [][RefundNext]_refundVars

-------------------------------------------------------------------------------
(* Properties.                                                               *)

RefundTypeOK ==
    /\ TypeOK
    /\ req \in [Requests -> RefundRequest]
    /\ calls \in [RefundKeys -> Nat]
    /\ koraRefund \in [RefundKeys -> {"none", "accepted", "success", "failed"}]

\* However many requests carry a key, however they interleave and wherever they
\* die, Kora is called at most once for it.
OneCallPerKey == \A k \in RefundKeys : calls[k] <= 1

\* Kora is asked for what the row says: a request on its way to Kora, or back, is
\* the one that wrote the row of its key, whatever other requests with that key
\* ask for.
CallMatchesRow ==
    \A r \in Requests :
        req[r].at \in {"call", "sent", "answered", "error"} =>
            /\ refund[req[r].key].status # "none"
            /\ refund[req[r].key].txn = req[r].txn
            /\ refund[req[r].key].amount = req[r].amount

\* A pay-in is shown as refunded, and its account debited, only if Kora did
\* refund that pay-in, and only for a refund that AFM requested.
RefundedIsPaidBack ==
    \A t \in Payins :
        status[t] = "refunded" \/ (\E d \in ledger : d.txn = t)
            => \E k \in RefundKeys : refund[k].txn = t /\ koraRefund[k] = "success"

\* The reversal of a refund has the amount of what Kora paid back: the refund
\* whose entry an event writes is the refund the event is about.
ReversalIsOwn ==
    \A d \in ledger : d.kind = "refund" => d.refund = inbox[d.event].msg.refund
===============================================================================
