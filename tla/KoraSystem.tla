------------------------------- MODULE KoraSystem -------------------------------
(***************************************************************************)
(* The Kora side of the payment hub as one system: the payout route, the   *)
(* refund route, the reconciliation workers and the webhook endpoint over  *)
(* one database, and Kora, which collects, pays out and pays back.         *)
(*                                                                         *)
(* In KoraPayout, KoraRefund and KoraReconciliation each of them meets the *)
(* endpoint alone.  Here they meet each other: all four write status, the  *)
(* endpoint serves events about all three kinds of movement, and a pay-in  *)
(* is refunded only after an event or a worker has completed it.           *)
(***************************************************************************)
EXTENDS KoraPayout, KoraRefund, KoraReconciliation

payoutRoute == <<step, koraPayout>>
refundRoute == <<req, calls, koraRefund>>
reconciler == <<worker, koraCharge>>
systemVars == <<vars, payoutRoute, refundRoute, reconciler>>

\* What Kora says of a movement is what its record of the movement says.
TruthfulKora(m) == CASE m.kind = "payout" -> TruthfulPayout(m)
                     [] m.kind = "refund" -> TruthfulRefund(m)
                     [] OTHER             -> TruthfulCharge(m)

Endpoint(h) == \/ \E e \in Events : \/ Duplicate(h, e)
                                    \/ \E m \in Message : TruthfulKora(m) /\ Receive(h, e, m)
               \/ HandlerStep(h)
               \/ Crash(h)

PayoutRoute == \E p \in Payouts : PayoutStep(p) \/ CrashPayout(p) \/ SettlePayout(p)
RefundRoute == \/ \E r \in Requests : RefundStep(r) \/ CrashRefund(r)
               \/ \E k \in RefundKeys : SettleRefund(k)
Reconciler == \/ \E w \in Workers : WorkerStep(w) \/ Abandon(w)
              \/ \E t \in Payins : SettleCharge(t)
              \/ Tick

\* Pay-ins under way, no payout and no refund yet.
SystemInit ==
    /\ WebhookInit
    /\ status = [t \in Txns |-> IF t \in Payins THEN "processing" ELSE "none"]
    /\ pspRef = Payins
    /\ refund = [k \in RefundKeys |-> NoRefund]
    /\ step = [p \in Payouts |-> "new"]
    /\ koraPayout = [p \in Payouts |-> "none"]
    /\ req = [r \in Requests |-> NoRequest]
    /\ calls = [k \in RefundKeys |-> 0]
    /\ koraRefund = [k \in RefundKeys |-> "none"]
    /\ worker = [w \in Workers |-> Resting]
    /\ koraCharge = [t \in Payins |-> "pending"]

SystemNext ==
    \/ PayoutRoute /\ UNCHANGED <<refundRoute, reconciler>>
    \/ RefundRoute /\ UNCHANGED <<payoutRoute, reconciler>>
    \/ Reconciler /\ UNCHANGED <<payoutRoute, refundRoute>>
    \/ \E h \in Handlers : Endpoint(h) /\ UNCHANGED <<payoutRoute, refundRoute, reconciler>>

SystemSpec == SystemInit /\ [][SystemNext]_systemVars

-------------------------------------------------------------------------------
(* Properties.                                                               *)

SystemTypeOK == PayoutTypeOK /\ RefundTypeOK /\ ReconTypeOK

\* AFM asks Kora to pay back only what Kora has collected: whoever completed the
\* pay-in that the refund route found, an event or a worker with an old answer.
RefundOfCollected ==
    \A k \in RefundKeys :
        refund[k].status # "none" => koraCharge[refund[k].txn] = "success"

\* Each writer of a status keeps to what is its own: the route writes its payout's,
\* a worker writes what Kora still says of the collection, and every other change
\* is the commit of an event that says so.
StatusHasWriter ==
    [][ \A t \in Txns : status'[t] # status[t] =>
          \/ t \in Payouts /\ step'[t] # step[t]
          \/ t \in Payins /\ koraCharge[t] # "pending" /\ status'[t] = Answered(t)
                /\ \E w \in Workers : worker[w].txn = t /\ ~Busy(w)'
          \/ \E h \in Handlers : Commit(h) /\ work[h].txn = t /\ status'[t] = NewStatus(h)
      ]_systemVars

\* Beside the other writers, the endpoint still implements EventInbox for the one
\* table that nobody else writes, the ledger.
Book == INSTANCE EventInbox WITH
           verdict <- [e \in Events |-> inbox[e].status],
           book <- ledger,
           rows <- ledger
AtomicLedger == Book!Spec
===============================================================================
