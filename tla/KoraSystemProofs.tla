---------------------------- MODULE KoraSystemProofs ----------------------------
(***************************************************************************)
(* Proofs about KoraSystem: what each route, the workers and the endpoint  *)
(* promise alone holds of all of them together, for every set of payouts,  *)
(* refunds, pay-ins, events, requests and workers.                         *)
(*                                                                         *)
(* The inductive invariant is the conjunction of the invariants of the     *)
(* four parts and of what only the whole system knows: a request that the  *)
(* refund route let in is about a pay-in that Kora has collected.  Each    *)
(* part keeps its own invariant by the lemmas of its module, and those of  *)
(* the others because it leaves alone what they speak of; the endpoint,    *)
(* which writes what all of them read, keeps every one of them because all *)
(* it stores is what Kora said.                                            *)
(***************************************************************************)
EXTENDS KoraSystem, KoraPayoutProofs, KoraRefundProofs, KoraReconciliationProofs

\* A request that was let in is about a pay-in that Kora has collected.
OpenIsCollected ==
    \A r \in Requests : req[r].at # "new" => koraCharge[req[r].txn] = "success"

Collected == OpenIsCollected /\ RefundOfCollected

SystemInv == CapInv /\ BInv /\ VInv /\ LedgerInv /\ Collected

\* The parts share what they know of the endpoint and of the types.
LEMMA SystemParts ==
    ASSUME SystemInv
    PROVE  /\ CapInv /\ PInv /\ BInv /\ RInv /\ VInv /\ LedgerInv /\ Collected
           /\ FoundInv /\ IInv /\ TypeOK
           /\ PayoutTypeOK /\ RefundTypeOK /\ ReconTypeOK
  BY DEF SystemInv, CapInv, PInv, BInv, RInv, VInv, FoundInv, IInv

\* What was collected stays so, if no request is let in and no row is inserted.
LEMMA CollectedKept ==
    ASSUME SystemInv, UNCHANGED req,
           \A k \in RefundKeys : Exists(k)' => Exists(k) /\ refund'[k].txn = refund[k].txn,
           \A t \in Payins : koraCharge[t] = "success" => koraCharge'[t] = "success"
    PROVE  Collected'
<1>1. \A r \in Requests : req[r].at # "new" => req[r].txn \in Payins
  BY DEF SystemInv, BInv, RInv, RequestOK
<1>2. \A k \in RefundKeys : Exists(k) => refund[k].txn \in Payins
  BY SystemParts DEF IInv, RefundOK, Exists
<1> QED BY <1>1, <1>2 DEF SystemInv, Collected, OpenIsCollected, RefundOfCollected, Exists

-------------------------------------------------------------------------------
(* The payout route.                                                         *)

\* The route, and Kora that settles a payout, write nothing that others speak of.
LEMMA PayoutRouteFrame ==
    ASSUME PayoutTypeOK, NEW p \in Payouts, PayoutStep(p) \/ CrashPayout(p) \/ SettlePayout(p)
    PROVE  /\ UNCHANGED <<inbox, pc, work, applied, acked, refund, ledger, task>>
           /\ \A t \in Txns \ {p} : status'[t] = status[t]
           /\ status'[p] # status[p] => step'[p] # step[p]
           /\ status'[p] = "completed" => status[p] = "completed"
<1> USE DEF PayoutTypeOK, TypeOK
<1>1. CASE AllowPayout(p) \/ DenyPayout(p) \/ SendPayout(p) \/ AnswerPayout(p) \/ CrashPayout(p)
  BY <1>1 DEF AllowPayout, DenyPayout, SendPayout, AnswerPayout, CrashPayout, PayoutsOnly
<1>2. CASE SettlePayout(p)
  BY <1>2 DEF SettlePayout, vars, database
<1>3. ASSUME NEW from, NEW to, from # to, Move(p, from, to),
             NEW s, s # "completed", status' = [status EXCEPT ![p] = s], PayoutsOnly
      PROVE  /\ UNCHANGED <<inbox, pc, work, applied, acked, refund, ledger, task>>
             /\ \A t \in Txns \ {p} : status'[t] = status[t]
             /\ status'[p] # status[p] => step'[p] # step[p]
             /\ status'[p] = "completed" => status[p] = "completed"
  BY <1>3 DEF PayoutsOnly, Move, Txns
<1>4. CASE ValidateOnly(p)
  BY <1>3, <1>4 DEF ValidateOnly
<1>5. CASE CommitCreated(p)
  BY <1>3, <1>5 DEF CommitCreated
<1>6. CASE FailPayout(p)
  BY <1>3, <1>6 DEF FailPayout
<1> QED BY <1>1, <1>2, <1>4, <1>5, <1>6 DEF PayoutStep

LEMMA PayoutRouteInv ==
    ASSUME SystemInv, PayoutRoute, UNCHANGED <<refundRoute, reconciler>>
    PROVE  SystemInv'
<1>1. PICK p \in Payouts : PayoutStep(p) \/ CrashPayout(p) \/ SettlePayout(p)
  BY DEF PayoutRoute
<1>2. UNCHANGED <<req, calls, koraRefund, worker, koraCharge>>
  BY DEF refundRoute, reconciler
<1>3. /\ UNCHANGED <<inbox, pc, work, applied, acked, refund, ledger, task>>
      /\ \A t \in Txns \ {p} : status'[t] = status[t]
      /\ status'[p] = "completed" => status[p] = "completed"
  BY <1>1, SystemParts, PayoutRouteFrame
<1>4. PInv'
  BY <1>1, SystemParts, RouteStepPInv, SettlePInv
<1>5. CapInv'
  BY <1>1, <1>4, SystemParts, RouteStepCapInv, SettleCapInv
<1>6. FoundInv'
  BY <1>4 DEF PInv
<1>7. \A t \in Payins : status'[t] = status[t]
  BY <1>3, RowsAssumption DEF Txns
<1>8. BInv'
  BY <1>2, <1>3, <1>6, <1>7, SystemParts, RefundKept
<1>9. VInv'
  BY <1>2, <1>3, <1>6, <1>7, SystemParts, ReconKept
<1>10. \A t \in Payouts : status'[t] = "completed" => status[t] = "completed"
  BY <1>3 DEF Txns
<1>11. LedgerInv'
  BY <1>3, <1>6, <1>7, <1>10, SystemParts, LedgerKept
<1>12. Collected'
  BY <1>2, <1>3, CollectedKept DEF Exists
<1> QED BY <1>5, <1>8, <1>9, <1>11, <1>12 DEF SystemInv

-------------------------------------------------------------------------------
(* The refund route.                                                         *)

\* The route writes kora_refunds only, and keeps the pay-in of every row it has.
LEMMA RefundRouteFrame ==
    ASSUME RInv, NEW r \in Requests, RefundStep(r) \/ CrashRefund(r)
    PROVE  /\ RefundsOnly
           /\ \A k \in RefundKeys : Exists(k) => refund'[k].txn = refund[k].txn
<1> USE DEF RInv, RefundTypeOK, TypeOK
<1>1. CASE \E k \in RefundKeys, t \in Payins : \E a \in 1 .. Amount[t] : Open(r, k, t, a)
  BY <1>1 DEF Open, RefundsOnly
<1>2. CASE Lookup(r) \/ Call(r) \/ AnswerRefund(r) \/ CrashRefund(r)
  BY <1>2 DEF Lookup, Call, AnswerRefund, CrashRefund, RefundsOnly
<1>3. CASE Insert(r)
  BY <1>3 DEF Insert, KeyTaken, SetRefund, Exists
<1>4. ASSUME NEW s, req[r].key \in RefundKeys,
             SetRefund(req[r].key, [refund[req[r].key] EXCEPT !.status = s])
      PROVE  \A k \in RefundKeys : refund'[k].txn = refund[k].txn
  BY <1>4 DEF SetRefund, RefundRow
<1>5. CASE CommitAnswer(r)
  BY <1>4, <1>5 DEF CommitAnswer, At, RequestOK
<1>6. CASE FailRefund(r)
  BY <1>4, <1>6 DEF FailRefund, At, RequestOK
<1> QED BY <1>1, <1>2, <1>3, <1>5, <1>6 DEF RefundStep

\* A request is let in only for a pay-in that Kora has collected, for that is what
\* its status says; the row it inserts is about that pay-in.
LEMMA RequestCollects ==
    ASSUME SystemInv, RInv', NEW r \in Requests, RefundStep(r) \/ CrashRefund(r),
           UNCHANGED koraCharge
    PROVE  Collected'
<1>0. /\ RInv /\ VerdictIsTrue /\ OpenIsCollected /\ RefundOfCollected
      /\ req \in [Requests -> RefundRequest] /\ refund \in [RefundKeys -> RefundRow]
      /\ RequestOK(r)
  BY SystemParts DEF RInv, RefundTypeOK, TypeOK, VInv, Collected
<1> DEFINE Opens == \E k \in RefundKeys, t \in Payins : \E a \in 1 .. Amount[t] : Open(r, k, t, a)
           Moves == \/ Lookup(r) \/ Insert(r) \/ Call(r) \/ AnswerRefund(r)
                    \/ CommitAnswer(r) \/ FailRefund(r) \/ CrashRefund(r)
<1>1. Opens \/ Moves
  BY DEF RefundStep
<1>2. ASSUME req'[r].at # "new" PROVE koraCharge[req'[r].txn] = "success"
  <2>1. CASE Opens
    <3>1. PICK k \in RefundKeys, t \in Payins, a \in Nat : Open(r, k, t, a)
      BY <2>1
    <3>2. req'[r].txn = t
      BY <1>0, <3>1 DEF Open, RefundRequest
    <3> QED BY <1>0, <3>1, <3>2 DEF Open, Refundable, VerdictIsTrue
  <2>2. CASE Moves
    <3>1. req[r].at # "new"
      BY <2>2 DEF CrashRefund, Lookup, Insert, Call, AnswerRefund, CommitAnswer, FailRefund, At
    <3>2. ASSUME NEW place, Go(r, place) PROVE req'[r].txn = req[r].txn
      BY <1>0, <3>2 DEF Go, RefundRequest
    <3>3. req'[r].txn = req[r].txn
      <4>1. CASE AnswerRefund(r)
        BY <1>0, <3>2, <4>1 DEF AnswerRefund, RefundRequest
      <4>2. CASE Lookup(r) \/ Insert(r) \/ Call(r)
        BY <3>2, <4>2 DEF Lookup, Insert, Call
      <4>3. CASE CommitAnswer(r) \/ FailRefund(r) \/ CrashRefund(r)
        BY <3>2, <4>3 DEF CommitAnswer, FailRefund, CrashRefund
      <4> QED BY <2>2, <4>1, <4>2, <4>3
    <3> QED BY <1>0, <3>1, <3>3 DEF OpenIsCollected
  <2> QED BY <1>1, <2>1, <2>2
<1>3. ASSUME NEW s \in Requests, s # r PROVE req'[s] = req[s]
  BY <1>0, <1>3 DEF RefundStep, CrashRefund, Open, Lookup, Insert, Call, AnswerRefund,
                    CommitAnswer, FailRefund, Go
<1>4. OpenIsCollected'
  BY <1>0, <1>2, <1>3 DEF OpenIsCollected
<1>5. ASSUME NEW k \in RefundKeys, refund'[k].status # "none"
      PROVE  koraCharge[refund'[k].txn] = "success"
  <2>1. CASE Exists(k)
    BY <1>0, <2>1, RefundRouteFrame DEF RefundOfCollected, Exists
  <2>2. CASE ~Exists(k)
    <3>1. refund' # refund
      BY <1>5, <2>2 DEF Exists
    <3>2. Insert(r) \/ CommitAnswer(r) \/ FailRefund(r)
      BY <3>1 DEF RefundStep, CrashRefund, Open, Lookup, Call, AnswerRefund
    <3>3. ~(CommitAnswer(r) \/ FailRefund(r))
      BY <1>0, <1>5, <2>2 DEF CommitAnswer, FailRefund, SetRefund, At, RequestOK, Exists
    <3>4. /\ k = req[r].key /\ refund'[k].txn = req[r].txn
          /\ req[r].at # "new"
      BY <1>0, <1>5, <2>2, <3>2, <3>3 DEF Insert, SetRefund, At, Exists
    <3> QED BY <1>0, <3>4 DEF OpenIsCollected
  <2> QED BY <2>1, <2>2
<1>6. RefundOfCollected'
  BY <1>5 DEF RefundOfCollected
<1> QED BY <1>4, <1>6 DEF Collected

LEMMA RefundRouteInv ==
    ASSUME SystemInv, RefundRoute, UNCHANGED <<payoutRoute, reconciler>>
    PROVE  SystemInv'
<1>1. UNCHANGED <<step, koraPayout, worker, koraCharge>>
  BY DEF payoutRoute, reconciler
<1>2. CASE \E k \in RefundKeys : SettleRefund(k)
  <2>1. PICK k \in RefundKeys : SettleRefund(k)
    BY <1>2
  <2>2. UNCHANGED vars /\ UNCHANGED <<req, calls>>
    BY <2>1 DEF SettleRefund
  <2>3. BInv'
    BY <2>1, SystemParts, SettleRInv, SettleBInv
  <2>4. FoundInv'
    BY <2>3 DEF BInv, RInv
  <2>5. CapInv'
    BY <1>1, <2>2, <2>4, SystemParts, PayoutKept, CapKept DEF vars, database
  <2>6. VInv'
    BY <1>1, <2>2, <2>4, SystemParts, ReconKept DEF vars, database
  <2>7. LedgerInv'
    BY <2>2, <2>4, SystemParts, LedgerKept DEF vars, database
  <2>8. Collected'
    BY <1>1, <2>2, CollectedKept DEF vars, database, Exists
  <2> QED BY <2>3, <2>5, <2>6, <2>7, <2>8 DEF SystemInv
<1>3. CASE \E r \in Requests : RefundStep(r) \/ CrashRefund(r)
  <2>1. PICK r \in Requests : RefundStep(r) \/ CrashRefund(r)
    BY <1>3
  <2>2. /\ UNCHANGED <<status, pspRef, ledger, task, inbox, pc, work, applied, acked>>
        /\ \A k \in RefundKeys : Exists(k) => refund'[k].txn = refund[k].txn
    BY <2>1, SystemParts, RefundRouteFrame DEF RefundsOnly
  <2>3. RInv' /\ BInv'
    BY <2>1, SystemParts, RequestRInv, RouteBInv
  <2>4. FoundInv'
    BY <2>3 DEF RInv
  <2>5. CapInv'
    BY <1>1, <2>2, <2>4, SystemParts, PayoutKept, CapKept
  <2>6. \A e \in Events : inbox[e].status # "none" /\ inbox[e].msg.kind = "refund"
           => refund'[inbox[e].msg.refund].txn = refund[inbox[e].msg.refund].txn
    BY <2>2, SystemParts DEF BInv, RefundEventsTrue, OwnRefund
  <2>7. VInv'
    BY <1>1, <2>2, <2>4, <2>6, SystemParts, ReconKept
  <2>8. LedgerInv'
    BY <2>2, <2>4, SystemParts, LedgerKept
  <2>9. Collected'
    BY <1>1, <2>1, <2>3, RequestCollects
  <2> QED BY <2>3, <2>5, <2>7, <2>8, <2>9 DEF SystemInv
<1> QED BY <1>2, <1>3 DEF RefundRoute

-------------------------------------------------------------------------------
(* The reconciliation workers, the clock and Kora's collections.             *)

\* What a worker writes into a status is what Kora says of that collection.
LEMMA WorkerFrame ==
    ASSUME VInv, NEW w \in Workers, WorkerStep(w) \/ Abandon(w)
    PROVE  /\ Stay
           /\ \A t \in Txns : status'[t] # status[t] =>
                 /\ t \in Payins /\ koraCharge[t] # "pending" /\ status'[t] = Answered(t)
                 /\ status'[t] \in {"completed", "failed"}
                 /\ worker[w].txn = t /\ ~(Busy(w)')
<1>1. CASE \E t \in Txns : Claim(w, t)
  BY <1>1 DEF Claim
<1>2. CASE Verify(w) \/ ReadTask(w) \/ ReadTransaction(w) \/ Abandon(w)
  BY <1>2 DEF Verify, ReadTask, ReadTransaction, Abandon
<1>3. CASE Finish(w)
  <2>1. /\ status \in [Txns -> PaymentStatus] /\ worker \in [Workers -> WorkerRow]
        /\ WorkerOK(worker[w]) /\ worker[w].norm \in Normalized
        /\ koraCharge \in [Payins -> {"pending", "success", "failed"}]
    BY DEF VInv, ReconTypeOK, TypeOK, WorkerRow
  <2>2. Stay /\ worker'[w] = Resting
    BY <1>3, <2>1 DEF Finish
  <2>3. ASSUME NEW t \in Txns, status'[t] # status[t]
        PROVE  /\ t \in Payins /\ koraCharge[t] # "pending" /\ status'[t] = Answered(t)
               /\ status'[t] \in {"completed", "failed"}
               /\ worker[w].txn = t
    <3>1. /\ worker[w].txn = t /\ worker[w].norm \in {"completed", "failed"}
          /\ status'[t] = worker[w].norm
      BY <1>3, <2>1, <2>3 DEF Finish, Normalized
    <3>2. TrueOf(t, worker[w].norm)
      BY <2>1, <3>1 DEF WorkerOK
    <3> QED BY <3>1, <3>2 DEF TrueOf, Answered
  <2> QED BY <2>2, <2>3 DEF Busy, Resting
<1> QED BY <1>1, <1>2, <1>3 DEF WorkerStep

\* Time that passes changes the due time in a request's hands and nothing else of it.
LEMMA TickFrame ==
    ASSUME TypeOK, Tick
    PROVE  /\ UNCHANGED <<status, pspRef, refund, ledger, inbox, pc, applied, acked, koraCharge>>
           /\ \A h \in Handlers : /\ work'[h].event = work[h].event /\ work'[h].txn = work[h].txn
                                  /\ work'[h].refund = work[h].refund
                                  /\ work'[h].debit = work[h].debit
<1>1. ASSUME NEW h \in Handlers
      PROVE  /\ work'[h].event = work[h].event /\ work'[h].txn = work[h].txn
             /\ work'[h].refund = work[h].refund /\ work'[h].debit = work[h].debit
  <2> DEFINE r == work[h]
             n == Earlier(r.next)
  <2>1. r \in Work
    BY DEF TypeOK
  <2>2. work'[h] = [r EXCEPT !.next = n]
    BY DEF Tick
  <2> HIDE DEF r, n
  <2>3. /\ work'[h].event = r.event /\ work'[h].txn = r.txn
        /\ work'[h].refund = r.refund /\ work'[h].debit = r.debit
    BY <2>1, <2>2 DEF Work
  <2> QED BY <2>3 DEF r
<1> QED BY <1>1 DEF Tick

\* What a step of the reconciler leaves to the others.
LEMMA OthersKept ==
    ASSUME SystemInv, FoundInv', UNCHANGED <<payoutRoute, refundRoute>>,
           UNCHANGED <<refund, ledger, inbox, pc>>,
           \A h \in Handlers : /\ work'[h].event = work[h].event /\ work'[h].txn = work[h].txn
                               /\ work'[h].refund = work[h].refund
                               /\ work'[h].debit = work[h].debit,
           \A t \in Txns : status'[t] # status[t]
                             => t \in Payins /\ status'[t] \in {"completed", "failed"},
           \A t \in Payins : koraCharge[t] = "success" => koraCharge'[t] = "success"
    PROVE  CapInv' /\ BInv' /\ LedgerInv' /\ Collected'
<1>1. UNCHANGED <<step, koraPayout, req, calls, koraRefund>>
  BY DEF payoutRoute, refundRoute
<1>2. /\ \A t \in Payouts : status'[t] = status[t]
      /\ \A t \in Payins : status'[t] = "refunded" => status[t] = "refunded"
  BY RowsAssumption DEF Txns
<1>3. CapInv'
  BY <1>1, <1>2, SystemParts, PayoutKept, CapKept
<1>4. BInv'
  BY <1>1, <1>2, SystemParts, RefundKept
<1>5. LedgerInv'
  BY <1>2, SystemParts, LedgerKept
<1>6. Collected'
  BY <1>1, CollectedKept DEF Exists
<1> QED BY <1>3, <1>4, <1>5, <1>6

LEMMA ReconcilerInv ==
    ASSUME SystemInv, Reconciler, UNCHANGED <<payoutRoute, refundRoute>>
    PROVE  SystemInv'
<1>1. CASE \E w \in Workers : WorkerStep(w) \/ Abandon(w)
  <2>1. PICK w \in Workers : WorkerStep(w) \/ Abandon(w)
    BY <1>1
  <2>2. VInv'
    BY <2>1, SystemParts, WorkerStepVInv
  <2>3. /\ UNCHANGED <<pspRef, refund, ledger, inbox, pc, work, applied, acked, koraCharge>>
        /\ \A t \in Txns : status'[t] # status[t]
                             => t \in Payins /\ status'[t] \in {"completed", "failed"}
    BY <2>1, SystemParts, WorkerFrame DEF Stay
  <2>4. CapInv' /\ BInv' /\ LedgerInv' /\ Collected'
    BY <2>2, <2>3, OthersKept DEF VInv
  <2> QED BY <2>2, <2>4 DEF SystemInv
<1>2. CASE \E t \in Payins : SettleCharge(t)
  <2>1. PICK t \in Payins : SettleCharge(t)
    BY <1>2
  <2>2. VInv'
    BY <2>1, SystemParts, SettleVInv
  <2>3. UNCHANGED <<status, refund, ledger, inbox, pc, work>>
    BY <2>1 DEF SettleCharge, vars, database
  <2>4. \A s \in Payins : koraCharge[s] = "success" => koraCharge'[s] = "success"
    BY <2>1, SystemParts DEF SettleCharge, ReconTypeOK
  <2>5. CapInv' /\ BInv' /\ LedgerInv' /\ Collected'
    BY <2>2, <2>3, <2>4, OthersKept DEF VInv
  <2> QED BY <2>2, <2>5 DEF SystemInv
<1>3. CASE Tick
  <2>1. VInv'
    BY <1>3, SystemParts, TickVInv
  <2>2. CapInv' /\ BInv' /\ LedgerInv' /\ Collected'
    BY <1>3, <2>1, SystemParts, TickFrame, OthersKept DEF VInv
  <2> QED BY <2>1, <2>2 DEF SystemInv
<1> QED BY <1>1, <1>2, <1>3 DEF Reconciler

-------------------------------------------------------------------------------
(* The endpoint.                                                             *)

\* A delivery stores what Kora says, and what it says of a refund is about a pay-in
\* that Kora has collected, for the refund has its row.
LEMMA DeliveryIsTrue ==
    ASSUME SystemInv, NEW h \in Handlers, Endpoint(h), NEW e \in Events, NewEvent(e)
    PROVE  /\ inbox'[e].msg \in Message /\ TruthfulKora(inbox'[e].msg)
           /\ TruthfulCharge(inbox'[e].msg)
<1>1. PICK f \in Events, m \in Message : TruthfulKora(m) /\ Receive(h, f, m)
  BY SystemParts, StepStoresNothing DEF Endpoint
<1>2. inbox'[e].msg = m
  BY <1>1, SystemParts, NewIsDelivered
<1>3. TruthfulCharge(m)
  <2>1. m.kind \in {"charge", "payout", "refund"}
    BY MessageType
  <2>2. CASE m.kind = "refund"
    <3>1. TruthfulRefund(m)
      BY <1>1, <2>2 DEF TruthfulKora
    <3>2. OwnRefund(m)
      BY <3>1, SystemParts, TruthIsOwn
    <3> QED BY <2>2, <3>2, SystemParts
            DEF OwnRefund, Exists, Collected, RefundOfCollected, TruthfulCharge
  <2>3. CASE m.kind = "payout"
    BY <2>3 DEF TruthfulCharge
  <2>4. CASE m.kind = "charge"
    BY <1>1, <2>4 DEF TruthfulKora
  <2> QED BY <2>1, <2>2, <2>3, <2>4
<1> QED BY <1>1, <1>2, <1>3

LEMMA EndpointIsHandler ==
    ASSUME NEW h \in Handlers, Endpoint(h) PROVE HandlerNext(h)
  BY DEF Endpoint, HandlerNext

\* The endpoint inserts no refund.
LEMMA EndpointInsertsNone ==
    ASSUME FoundInv, NEW h \in Handlers, HandlerNext(h), NEW k \in RefundKeys, Exists(k)'
    PROVE  Exists(k)
<1>1. CASE ~Commit(h)
  BY <1>1, OnlyCommits DEF database, Exists
<1>2. CASE Commit(h)
  <2>1. refund \in [RefundKeys -> RefundRow] /\ FoundOK(h) /\ pc[h] # "idle"
    BY <1>2 DEF FoundInv, IInv, TypeOK, Commit
  <2>2. work[h].refund # None => work[h].refund \in RefundKeys /\ Exists(work[h].refund)
    BY <2>1 DEF FoundOK, RefundMatches, Exists
  <2> QED BY <1>2, <2>1, <2>2 DEF Commit, Exists
<1> QED BY <1>1, <1>2

LEMMA SystemEndpointInv ==
    ASSUME SystemInv, NEW h \in Handlers, Endpoint(h),
           UNCHANGED <<payoutRoute, refundRoute, reconciler>>
    PROVE  SystemInv'
<1>1. HandlerNext(h)
  BY EndpointIsHandler
<1>2. UNCHANGED <<step, koraPayout, req, calls, koraRefund, worker, koraCharge>>
  BY DEF payoutRoute, refundRoute, reconciler
<1>3. \A e \in Events : NewEvent(e) /\ inbox'[e].msg.kind = "payout"
                           => TruthfulPayout(inbox'[e].msg)
  BY DeliveryIsTrue DEF TruthfulKora
<1>4. \A e \in Events : NewEvent(e) /\ inbox'[e].msg.kind = "refund"
                           => inbox'[e].msg \in Message /\ TruthfulRefund(inbox'[e].msg)
  BY DeliveryIsTrue DEF TruthfulKora
<1>5. \A e \in Events : NewEvent(e) => inbox'[e].msg \in Message /\ TruthfulCharge(inbox'[e].msg)
  BY DeliveryIsTrue
<1>6. CapInv'
  BY <1>1, <1>2, <1>3, SystemParts, EndpointPInv, CapKept
<1>7. RInv'
  BY <1>1, <1>2, SystemParts, EndpointRInv
<1>8. BInv'
  BY <1>1, <1>2, <1>4, <1>7, SystemParts, EndpointBInv
<1>9. VInv'
  BY <1>1, <1>2, <1>5, SystemParts, EndpointVInv
<1>10. LedgerInv'
  BY <1>1, SystemParts, HandlerIsNext, NextLedgerInv
<1>11. \A k \in RefundKeys : Exists(k)' => Exists(k) /\ refund'[k].txn = refund[k].txn
  BY <1>1, SystemParts, EndpointInsertsNone, RefundsKept
<1>12. Collected'
  BY <1>2, <1>11, CollectedKept
<1> QED BY <1>6, <1>8, <1>9, <1>10, <1>12 DEF SystemInv

-------------------------------------------------------------------------------
(* The invariant of the system.                                              *)

LEMMA InitSystemInv == SystemInit => SystemInv
<1> SUFFICES ASSUME SystemInit PROVE SystemInv
  OBVIOUS
<1> USE DEF SystemInit, WebhookInit
<1>1. TypeOK
  BY BlankType DEF TypeOK, PaymentStatus, RefundRow, RefundStatus, NoRefund, TaskRow, TaskState,
                   NoTask, InboxRow, EventStatus, Places, Txns
<1>2. FoundInv
  BY <1>1 DEF FoundInv, IInv, InboxOK, RefundOK, NoRefund, HandlersOK, HandlerOK, Blank,
              Exclusive, RefundsRead, AppliedOnce, DebitsBacked, LedgerRows, FoundOK
<1>3. PayoutTypeOK /\ ReconTypeOK
  BY <1>1, RestingOK DEF PayoutTypeOK, ReconTypeOK
<1>4. RefundTypeOK
  BY <1>1 DEF RefundTypeOK, RefundRequest, NoRequest, RefundStatus
<1>5. PayoutEventsTrue /\ CompletedIsPaid /\ \A p \in Payouts : StepOK(p)
  BY RowsAssumption DEF PayoutEventsTrue, CompletedIsPaid, StepOK, Txns
<1>6. CapInv
  BY <1>2, <1>3, <1>5, NothingHeld DEF CapInv, PInv
<1>7. (\A r \in Requests : RequestOK(r)) /\ OneCaller /\ CalledExists
  BY DEF RequestOK, NoRequest, OneCaller, CalledExists
<1>8. BInv
  BY <1>2, <1>4, <1>7
     DEF BInv, RInv, KnownIsCalled, RefundEventsTrue, EntriesTrue, StatusTrue, Txns
<1>9. VInv
  BY <1>2, <1>3, RestingOK DEF VInv, ChargeEventsTrue, VerdictIsTrue, NoTask, Txns
<1>10. LedgerInv
  <2>1. \A h \in Handlers : EntryOK(h)
    BY DEF EntryOK
  <2>2. SettledIsDebited
    BY RowsAssumption DEF SettledIsDebited, Txns
  <2> QED BY <1>2, <2>1, <2>2 DEF LedgerInv
<1>11. Collected
  BY DEF Collected, OpenIsCollected, RefundOfCollected, NoRequest, NoRefund
<1> QED BY <1>6, <1>8, <1>9, <1>10, <1>11 DEF SystemInv

LEMMA NextSystemInv == SystemInv /\ [SystemNext]_systemVars => SystemInv'
<1> SUFFICES ASSUME SystemInv, [SystemNext]_systemVars PROVE SystemInv'
  OBVIOUS
<1>1. CASE UNCHANGED systemVars
  <2>1. UNCHANGED <<vars, step, koraPayout, req, calls, koraRefund, worker, koraCharge>>
    BY <1>1 DEF systemVars, payoutRoute, refundRoute, reconciler
  <2>2. CapInv'
    BY <2>1, SystemParts, NextCapInv DEF payoutVars
  <2>3. BInv'
    BY <2>1, SystemParts, NextBInv DEF refundVars
  <2>4. VInv'
    BY <2>1, SystemParts, NextVInv DEF reconVars
  <2>5. LedgerInv'
    BY <2>1, SystemParts, NextLedgerInv
  <2>6. Collected'
    BY <2>1, CollectedKept DEF Exists, vars, database
  <2> QED BY <2>2, <2>3, <2>4, <2>5, <2>6 DEF SystemInv
<1>2. CASE SystemNext
  BY <1>2, PayoutRouteInv, RefundRouteInv, ReconcilerInv, SystemEndpointInv DEF SystemNext
<1> QED BY <1>1, <1>2

-------------------------------------------------------------------------------
(* The theorems.                                                             *)

\* The inductive invariant of the whole holds: what each part relies on, the others
\* leave it (create_kora_payout, create_kora_refund, reconcile_due_once, kora_webhook).
THEOREM SystemInvariance == SystemSpec => []SystemInv
  BY InitSystemInv, NextSystemInv, PTL DEF SystemSpec

\* All four parts together keep every table, request and worker well typed.
THEOREM SystemTypeCorrect == SystemSpec => []SystemTypeOK
<1>1. SystemInv => SystemTypeOK
  BY SystemParts DEF SystemTypeOK
<1> QED BY <1>1, SystemInvariance, PTL

\* AFM asks Kora to pay back only what Kora has collected: create_kora_refund relies
\* on a status that an event, or a worker with an old answer, has written.
THEOREM SystemRefundsCollected == SystemSpec => []RefundOfCollected
<1>1. SystemInv => RefundOfCollected
  BY SystemParts DEF Collected
<1> QED BY <1>1, SystemInvariance, PTL

\* In the whole system too, only money that Kora moved is booked as paid out
\* (create_kora_payout, kora_webhook, reconcile_due_once).
THEOREM SystemSettledIsPaid == SystemSpec => []SettledIsPaid
<1>1. SystemInv => SettledIsPaid
  BY SystemParts, BookedIsPaid
<1> QED BY <1>1, SystemInvariance, PTL

\* Nobody takes away the row that create_kora_payout leaves of a payout Kora has.
THEOREM SystemPayoutRecorded == SystemSpec => []RecordedUnlessDead
<1>1. SystemInv => RecordedUnlessDead
  BY SystemParts, HasARow
<1> QED BY <1>1, SystemInvariance, PTL

\* The monthly cap of create_kora_payout holds while pay-ins of the month complete,
\* fail and are refunded, which moves the total that enforce_kyc1_monthly_limit reads.
THEOREM SystemCapBound == SystemSpec => []CapBound
<1>1. SystemInv => CapBound
  BY SystemParts, HeldIsBound
<1> QED BY <1>1, SystemInvariance, PTL

\* One call of Kora per X-Idempotency-Key, for what the committed row says
\* (create_kora_refund), whatever else runs.
THEOREM SystemOneCallPerKey == SystemSpec => [](OneCallPerKey /\ CallMatchesRow)
<1>1. SystemInv => OneCallPerKey /\ CallMatchesRow
  BY SystemParts, CalledOnce, CallsMatch
<1> QED BY <1>1, SystemInvariance, PTL

\* What is shown as refunded was paid back (create_kora_refund, kora_webhook), and
\* no payout event and no worker shows it so.
THEOREM SystemRefundedIsPaidBack == SystemSpec => []RefundedIsPaidBack
<1>1. SystemInv => RefundedIsPaidBack
  BY SystemParts, BackIsPaid
<1> QED BY <1>1, SystemInvariance, PTL

\* Verdicts are Kora's (reconcile_due_once, kora_webhook), also those that refunds
\* of the pay-in follow.
THEOREM SystemVerdictIsTrue == SystemSpec => []VerdictIsTrue
<1>1. SystemInv => VerdictIsTrue
  BY SystemParts DEF VInv
<1> QED BY <1>1, SystemInvariance, PTL

\* Whoever writes a status, no payout is completed and no pay-in refunded without
\* its entry in the ledger (process_kora_webhook_business_event).
THEOREM SystemSettledIsDebited == SystemSpec => []SettledIsDebited
<1>1. SystemInv => SettledIsDebited
  BY SystemParts DEF LedgerInv
<1> QED BY <1>1, SystemInvariance, PTL

\* An event has its effect once, and every entry its event, beside three other
\* writers (kora_webhook).
THEOREM SystemAtMostOnce == SystemSpec => [](AppliedOnce /\ DebitsBacked)
<1>1. SystemInv => AppliedOnce /\ DebitsBacked
  BY SystemParts DEF IInv
<1> QED BY <1>1, SystemInvariance, PTL

\* Each writer of a status keeps to what is its own: create_kora_payout to its
\* payout, reconcile_due_once to what Kora says of the pay-in, and kora_webhook to
\* what its event says.
THEOREM SystemStatusHasWriter == SystemSpec => StatusHasWriter
<1> DEFINE Written(t) ==
      \/ t \in Payouts /\ step'[t] # step[t]
      \/ t \in Payins /\ koraCharge[t] # "pending" /\ status'[t] = Answered(t)
            /\ \E w \in Workers : worker[w].txn = t /\ ~Busy(w)'
      \/ \E h \in Handlers : Commit(h) /\ work[h].txn = t /\ status'[t] = NewStatus(h)
<1>1. ASSUME SystemInv, SystemNext, NEW t \in Txns, status'[t] # status[t]
      PROVE  Written(t)
  <2> USE <1>1
  <2>1. CASE PayoutRoute
    BY <2>1, SystemParts, PayoutRouteFrame DEF PayoutRoute
  <2>2. CASE RefundRoute
    <3>1. CASE \E r \in Requests : RefundStep(r) \/ CrashRefund(r)
      BY <3>1, SystemParts, RefundRouteFrame DEF RefundsOnly
    <3>2. CASE \E k \in RefundKeys : SettleRefund(k)
      BY <3>2 DEF SettleRefund, vars, database
    <3> QED BY <2>2, <3>1, <3>2 DEF RefundRoute
  <2>3. CASE Reconciler
    <3>1. CASE \E w \in Workers : WorkerStep(w) \/ Abandon(w)
      BY <3>1, SystemParts, WorkerFrame
    <3>2. CASE (\E s \in Payins : SettleCharge(s)) \/ Tick
      BY <3>2 DEF SettleCharge, Tick, vars, database
    <3> QED BY <2>3, <3>1, <3>2 DEF Reconciler
  <2>4. ASSUME NEW h \in Handlers, Endpoint(h) PROVE Written(t)
    <3>1. Commit(h)
      BY <2>4, EndpointIsHandler, OnlyCommits DEF database
    <3>2. work[h].txn = t /\ status'[t] = NewStatus(h)
      BY <3>1, SystemParts DEF Commit, TypeOK
    <3> QED BY <3>1, <3>2
  <2> QED BY <2>1, <2>2, <2>3, <2>4 DEF SystemNext
<1>2. SystemInv /\ [SystemNext]_systemVars
        => [\A t \in Txns : status'[t] # status[t] => Written(t)]_systemVars
  BY <1>1
<1> QED BY <1>2, SystemInvariance, PTL DEF SystemSpec, StatusHasWriter

\* Beside the other writers, the endpoint still accepts every event once, decides it
\* once, and enters into the ledger only in that step (kora_webhook, EventInbox).
THEOREM SystemImplements == SystemSpec => AtomicLedger
<1>1. SystemInit => Book!Init
  BY DEF SystemInit, WebhookInit, Book!Init, NoMessage
<1>2. ASSUME IInv, [Next]_vars
      PROVE  [Book!Next]_<<verdict, ledger, ledger>>
  <2>1. [Inbox!Next]_<<verdict, ledger, rows>>
    BY <1>2, StepImplements
  <2>2. Inbox!Next => Book!Next
    BY DEF Inbox!Next, Inbox!Accept, Inbox!Apply, Inbox!Refuse,
           Book!Next, Book!Accept, Book!Apply, Book!Refuse, verdict
  <2> QED BY <2>1, <2>2
<1>3. ASSUME SystemInv, [SystemNext]_systemVars
      PROVE  [Book!Next]_<<verdict, ledger, ledger>>
  <2>1. CASE UNCHANGED <<inbox, ledger>>
    BY <2>1 DEF verdict
  <2>2. CASE PayoutRoute
    BY <2>1, <2>2, <1>3, SystemParts, PayoutRouteFrame DEF PayoutRoute
  <2>3. CASE RefundRoute
    <3>1. CASE \E r \in Requests : RefundStep(r) \/ CrashRefund(r)
      BY <1>3, <2>1, <3>1, SystemParts, RefundRouteFrame DEF RefundsOnly
    <3>2. CASE \E k \in RefundKeys : SettleRefund(k)
      BY <2>1, <3>2 DEF SettleRefund, vars, database
    <3> QED BY <2>3, <3>1, <3>2 DEF RefundRoute
  <2>4. CASE Reconciler
    <3>1. CASE \E w \in Workers : WorkerStep(w) \/ Abandon(w)
      BY <1>3, <2>1, <3>1, SystemParts, WorkerFrame DEF Stay
    <3>2. CASE (\E s \in Payins : SettleCharge(s)) \/ Tick
      BY <2>1, <3>2 DEF SettleCharge, Tick, vars, database
    <3> QED BY <2>4, <3>1, <3>2 DEF Reconciler
  <2>5. ASSUME NEW h \in Handlers, Endpoint(h)
        PROVE  [Book!Next]_<<verdict, ledger, ledger>>
    BY <1>2, <1>3, <2>5, SystemParts, EndpointIsHandler, HandlerIsNext
  <2>6. CASE UNCHANGED systemVars
    BY <2>1, <2>6 DEF systemVars, vars, database
  <2> QED BY <1>3, <2>2, <2>3, <2>4, <2>5, <2>6 DEF SystemNext
<1> QED BY <1>1, <1>3, SystemInvariance, PTL DEF SystemSpec, AtomicLedger, Book!Spec, verdict
===============================================================================
