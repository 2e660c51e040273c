------------------------ MODULE KoraReconciliationProofs ------------------------
(***************************************************************************)
(* Proofs about KoraReconciliation: a verdict is Kora's verdict, for any   *)
(* number of workers, events, requests and collections, whether claims     *)
(* outlive their leases or not.                                            *)
(*                                                                         *)
(* Workers take no lock while they ask Kora and overwrite what others have *)
(* written.  The invariant says why this does no harm here: whatever is    *)
(* under way, in an event or in a worker's hands, is something that Kora   *)
(* has decided, and Kora decides once.                                     *)
(***************************************************************************)
EXTENDS KoraReconciliation, KoraWebhookProofs

\* A verdict, in a status, a task or a worker's hands, is Kora's of a collection.
TrueOf(t, word) == /\ word = "completed" => t \in Payins /\ koraCharge[t] = "success"
                   /\ word = "failed" => t \in Payins /\ koraCharge[t] = "failed"

\* A stored event is still what Kora would say.
ChargeEventsTrue == \A e \in Events : inbox[e].status # "none" => TruthfulCharge(inbox[e].msg)

WorkerOK(r) == /\ r.txn \in Txns \/ (r.at = "idle" /\ r.norm = "processing" /\ r.to = "none")
               /\ TrueOf(r.txn, r.norm) /\ TrueOf(r.txn, r.to)

VInv == /\ FoundInv /\ ReconTypeOK /\ ChargeEventsTrue /\ VerdictIsTrue
        /\ \A w \in Workers : WorkerOK(worker[w])

-------------------------------------------------------------------------------
(* The steps of workers and of the clock.                                    *)

\* The invariant of the endpoint does not depend on statuses, tasks and due times.
LEMMA EndpointKept ==
    ASSUME FoundInv, status' \in [Txns -> PaymentStatus], task' \in [Txns -> TaskRow],
           work' \in [Handlers -> Work],
           \A h \in Handlers : /\ work'[h].event = work[h].event /\ work'[h].txn = work[h].txn
                               /\ work'[h].refund = work[h].refund
                               /\ work'[h].debit = work[h].debit /\ work'[h].plan = work[h].plan,
           UNCHANGED <<pspRef, refund, ledger, inbox, pc, applied, acked>>
    PROVE  FoundInv'
<1> USE DEF FoundInv, IInv
<1>1. TypeOK' /\ InboxOK' /\ RefundOK' /\ AppliedOnce'
  BY DEF TypeOK, InboxOK, RefundOK, AppliedOnce
<1>2. DebitsBacked' /\ Exclusive' /\ RefundsRead' /\ LedgerRows'
  BY DEF DebitsBacked, Backed, Exclusive, RefundsRead, LedgerRows, Exists
<1>3. ASSUME NEW h \in Handlers PROVE HandlerOK(h)' /\ FoundOK(h)'
  <2>1. Msg(h)' = Msg(h)
    BY DEF Msg
  <2> QED BY <2>1 DEF HandlersOK, HandlerOK, Owns, Found, NeedsDebit, FoundOK, RefundMatches
<1> QED BY <1>1, <1>2, <1>3 DEF HandlersOK

\* A step of one worker writes what it knows to be true.
LEMMA WorkerVInv ==
    ASSUME VInv, NEW w \in Workers, NEW r \in WorkerRow, WorkerOK(r),
           worker' = [worker EXCEPT ![w] = r],
           status' \in [Txns -> PaymentStatus], task' \in [Txns -> TaskRow],
           VerdictIsTrue', Stay
    PROVE  VInv'
<1> USE DEF VInv, Stay
<1>1. work' \in [Handlers -> Work]
  BY DEF FoundInv, IInv, TypeOK
<1>2. FoundInv'
  BY <1>1, EndpointKept
<1>3. ReconTypeOK'
  BY <1>2 DEF ReconTypeOK, FoundInv, IInv
<1>4. ChargeEventsTrue'
  BY DEF ChargeEventsTrue, TruthfulCharge
<1>5. \A v \in Workers : WorkerOK(worker[v])'
  BY DEF ReconTypeOK, WorkerOK, TrueOf
<1> QED BY <1>2, <1>3, <1>4, <1>5

\* A step that moves a worker on and writes nothing.
LEMMA ThinkVInv ==
    ASSUME VInv, NEW w \in Workers, NEW r \in WorkerRow, WorkerOK(r),
           worker' = [worker EXCEPT ![w] = r], UNCHANGED <<status, task>>, Stay
    PROVE  VInv'
<1>1. status' \in [Txns -> PaymentStatus] /\ task' \in [Txns -> TaskRow]
  BY DEF VInv, ReconTypeOK, TypeOK
<1>2. VerdictIsTrue'
  BY DEF VInv, VerdictIsTrue, Stay
<1> QED BY <1>1, <1>2, WorkerVInv

LEMMA BackoffType == ASSUME NEW n \in Nat PROVE Backoff(n) \in Nat
BY RowsAssumption, TimeAssumption DEF Backoff, Smaller

LEMMA RestingOK == Resting \in WorkerRow /\ WorkerOK(Resting)
BY DEF Resting, WorkerRow, WorkerOK, TrueOf, Normalized, TaskState, PaymentStatus

LEMMA ClaimVInv ==
    ASSUME VInv, NEW w \in Workers, NEW t \in Txns, Claim(w, t)
    PROVE  VInv'
<1> DEFINE r == [Resting EXCEPT !.at = "claimed", !.txn = t]
           n == Smaller(MaxAttempts, task[t].attempts + 1)
           row == [task[t] EXCEPT !.state = "processing", !.since = 0, !.attempts = n]
<1>1. r \in WorkerRow /\ r.txn = t /\ r.norm = "processing" /\ r.to = "none"
  BY RestingOK DEF WorkerRow, Resting
<1>2. WorkerOK(r)
  BY <1>1 DEF WorkerOK, TrueOf
<1>3. n \in Nat
  BY TimeAssumption DEF Smaller, VInv, ReconTypeOK, TypeOK, TaskRow
<1>4. task[t] \in TaskRow /\ task \in [Txns -> TaskRow]
  BY DEF VInv, ReconTypeOK, TypeOK
<1>6. /\ worker' = [worker EXCEPT ![w] = r] /\ task' = [task EXCEPT ![t] = row]
      /\ status' = status /\ Stay
  BY DEF Claim
<1> HIDE DEF n
<1>5. row \in TaskRow /\ row.state = "processing"
  BY <1>3, <1>4 DEF TaskRow, TaskState
<1> HIDE DEF r, row
<1>7. status' \in [Txns -> PaymentStatus] /\ task' \in [Txns -> TaskRow]
  BY <1>4, <1>5, <1>6 DEF VInv, ReconTypeOK, TypeOK
<1>8. VerdictIsTrue'
  BY <1>4, <1>5, <1>6 DEF VInv, VerdictIsTrue, Stay
<1> QED BY <1>1, <1>2, <1>6, <1>7, <1>8, WorkerVInv

LEMMA VerifyVInv ==
    ASSUME VInv, NEW w \in Workers, Verify(w)
    PROVE  VInv'
<1>1. worker[w] \in WorkerRow /\ WorkerOK(worker[w]) /\ worker[w].txn \in Txns
  BY DEF VInv, ReconTypeOK, Verify, WorkerOK
<1>2. PICK norm \in {VerifyError} \cup {Answered(t) : t \in Payins \cap {worker[w].txn}} :
         worker' = [worker EXCEPT ![w] = [worker[w] EXCEPT !.at = "verified", !.norm = norm]]
  BY DEF Verify
<1>3. norm \in Normalized /\ TrueOf(worker[w].txn, norm)
  <2>1. CASE norm = VerifyError
    BY <2>1 DEF VerifyError, Normalized, TrueOf
  <2>2. CASE worker[w].txn \in Payins /\ norm = Answered(worker[w].txn)
    BY <2>2 DEF Answered, Normalized, TrueOf
  <2> QED BY <2>1, <2>2
<1> DEFINE r == [worker[w] EXCEPT !.at = "verified", !.norm = norm]
<1>4. /\ r \in WorkerRow /\ r.txn = worker[w].txn /\ r.norm = norm /\ r.to = worker[w].to
  BY <1>1, <1>3 DEF WorkerRow
<1>5. UNCHANGED <<status, task>> /\ Stay
  BY DEF Verify
<1>6. worker' = [worker EXCEPT ![w] = r]
  BY <1>2
<1> HIDE DEF r
<1>7. WorkerOK(r)
  BY <1>1, <1>3, <1>4 DEF WorkerOK
<1> QED BY <1>4, <1>5, <1>6, <1>7, ThinkVInv

LEMMA ReadTaskVInv ==
    ASSUME VInv, NEW w \in Workers, ReadTask(w)
    PROVE  VInv'
<1> DEFINE s == task[worker[w].txn].state
           d == task[worker[w].txn].next # None
           n == task[worker[w].txn].attempts
           r == [worker[w] EXCEPT !.at = "read", !.was = s, !.dated = d, !.tries = n]
<1>1. worker[w] \in WorkerRow /\ WorkerOK(worker[w]) /\ worker[w].txn \in Txns
  BY DEF VInv, ReconTypeOK, ReadTask, WorkerOK
<1>2. s \in TaskState /\ d \in BOOLEAN /\ n \in Nat
  BY <1>1 DEF VInv, ReconTypeOK, TypeOK, TaskRow
<1>3. worker' = [worker EXCEPT ![w] = r] /\ UNCHANGED <<status, task>> /\ Stay
  BY DEF ReadTask
<1> HIDE DEF s, d, n
<1>4. r \in WorkerRow /\ r.txn = worker[w].txn /\ r.norm = worker[w].norm /\ r.to = worker[w].to
  BY <1>1, <1>2 DEF WorkerRow
<1> HIDE DEF r
<1>5. WorkerOK(r)
  BY <1>1, <1>4 DEF WorkerOK
<1> QED BY <1>3, <1>4, <1>5, ThinkVInv

LEMMA ReadTransactionVInv ==
    ASSUME VInv, NEW w \in Workers, ReadTransaction(w)
    PROVE  VInv'
<1> DEFINE s == status[worker[w].txn]
           v == Verdict(w)
           n == IF v = "scheduled" THEN Backoff(worker[w].tries) ELSE None
           r == [worker[w] EXCEPT !.at = "planned", !.status = s, !.to = v, !.next = n]
<1>1. worker[w] \in WorkerRow /\ WorkerOK(worker[w]) /\ worker[w].txn \in Txns
  BY DEF VInv, ReconTypeOK, ReadTransaction, WorkerOK
<1>2. s \in PaymentStatus /\ worker[w].tries \in Nat /\ worker[w].norm \in Normalized
  BY <1>1 DEF VInv, ReconTypeOK, TypeOK, WorkerRow
<1>3. v \in TaskState /\ TrueOf(worker[w].txn, v)
  BY <1>1, <1>2 DEF Verdict, TaskState, Normalized, WorkerOK, TrueOf
<1>4. n \in Nat \cup {None}
  BY <1>2, BackoffType
<1>5. worker' = [worker EXCEPT ![w] = r] /\ UNCHANGED <<status, task>> /\ Stay
  BY DEF ReadTransaction
<1> HIDE DEF s, v, n
<1>6. r \in WorkerRow /\ r.txn = worker[w].txn /\ r.norm = worker[w].norm /\ r.to = v
  BY <1>1, <1>2, <1>3, <1>4 DEF WorkerRow
<1> HIDE DEF r
<1>7. WorkerOK(r)
  BY <1>1, <1>3, <1>6 DEF WorkerOK
<1> QED BY <1>5, <1>6, <1>7, ThinkVInv

LEMMA FinishVInv ==
    ASSUME VInv, NEW w \in Workers, Finish(w)
    PROVE  VInv'
<1> DEFINE r == worker[w]
           s == IF r.to # r.was THEN r.to ELSE task[r.txn].state
           n == IF r.dated \/ r.next # None THEN r.next ELSE task[r.txn].next
           row == [task[r.txn] EXCEPT !.state = s, !.next = n]
<1>1. r \in WorkerRow /\ WorkerOK(r) /\ r.txn \in Txns
  BY DEF VInv, ReconTypeOK, Finish, WorkerOK
<1>2. /\ task \in [Txns -> TaskRow] /\ task[r.txn] \in TaskRow
      /\ status \in [Txns -> PaymentStatus]
  BY <1>1 DEF VInv, ReconTypeOK, TypeOK
<1>3. s \in TaskState /\ TrueOf(r.txn, s)
  BY <1>1, <1>2 DEF WorkerRow, TaskRow, WorkerOK, TrueOf, VInv, VerdictIsTrue
<1>4. /\ task' = [task EXCEPT ![r.txn] = row]
      /\ worker' = [worker EXCEPT ![w] = Resting] /\ Stay
  BY DEF Finish
<1>9. \/ status' = status
      \/ r.norm # "processing" /\ status' = [status EXCEPT ![r.txn] = r.norm]
  BY DEF Finish
<1>10. n \in Nat \cup {None}
  BY <1>1, <1>2 DEF TaskRow, WorkerRow
<1> HIDE DEF s, n
<1>5. row \in TaskRow /\ row.state = s
  BY <1>2, <1>3, <1>10 DEF TaskRow
<1>6. r.norm # "processing" => r.norm \in {"completed", "failed"}
  BY <1>1 DEF WorkerRow, Normalized
<1> HIDE DEF row, r
<1>7. status' \in [Txns -> PaymentStatus] /\ task' \in [Txns -> TaskRow]
  BY <1>1, <1>2, <1>4, <1>5, <1>6, <1>9 DEF PaymentStatus
<1>8. VerdictIsTrue'
  <2>1. ASSUME NEW t \in Txns PROVE TrueOf(t, task'[t].state)
    BY <1>1, <1>2, <1>3, <1>4, <1>5 DEF VInv, VerdictIsTrue, TrueOf
  <2>2. ASSUME NEW t \in Payins
        PROVE  /\ status'[t] \in {"completed", "refunded"} => koraCharge[t] = "success"
               /\ status'[t] = "failed" => koraCharge[t] = "failed"
    <3>1. t \in Txns
      BY DEF Txns
    <3>2. status'[t] = status[t] \/ (t = r.txn /\ status'[t] = r.norm /\ r.norm # "processing")
      BY <1>1, <1>2, <1>9, <3>1
    <3> QED BY <1>1, <1>6, <3>2 DEF VInv, VerdictIsTrue, TrueOf, WorkerOK
  <2> QED BY <1>4, <2>1, <2>2 DEF VerdictIsTrue, TrueOf, Stay
<1> QED BY <1>4, <1>7, <1>8, RestingOK, WorkerVInv

LEMMA AbandonVInv ==
    ASSUME VInv, NEW w \in Workers, Abandon(w)
    PROVE  VInv'
<1>1. worker' = [worker EXCEPT ![w] = Resting] /\ UNCHANGED <<status, task>> /\ Stay
  BY DEF Abandon
<1> QED BY <1>1, RestingOK, ThinkVInv

LEMMA WorkerStepVInv ==
    ASSUME VInv, NEW w \in Workers, WorkerStep(w) \/ Abandon(w)
    PROVE  VInv'
BY ClaimVInv, VerifyVInv, ReadTaskVInv, ReadTransactionVInv, FinishVInv, AbandonVInv
   DEF WorkerStep

\* One unit passes for a due time, a life time or the age of a claim.
LEMMA EarlierType ==
    ASSUME NEW n \in Nat \cup {None}
    PROVE  /\ Earlier(n) \in Nat \cup {None}
           /\ n \in Nat => Earlier(n) \in Nat
BY RowsAssumption DEF Earlier

LEMMA TickVInv == ASSUME VInv, Tick PROVE VInv'
<1> USE DEF VInv
<1>1. /\ task \in [Txns -> TaskRow] /\ work \in [Handlers -> Work]
      /\ worker \in [Workers -> WorkerRow] /\ status \in [Txns -> PaymentStatus]
  BY DEF ReconTypeOK, TypeOK
<1>2. ASSUME NEW t \in Txns
      PROVE  task'[t] \in TaskRow /\ task'[t].state = task[t].state
  <2> DEFINE row == task[t]
             n == Earlier(row.next)
             x == Earlier(row.expires)
             a == IF row.state = "processing" THEN Smaller(Lease, row.since + 1) ELSE row.since
  <2>1. row \in TaskRow
    BY <1>1
  <2>2. n \in Nat \cup {None} /\ x \in Nat
    BY <2>1, EarlierType DEF TaskRow
  <2>3. a \in Nat
    BY <2>1, TimeAssumption DEF TaskRow, Smaller
  <2>4. task'[t] = [row EXCEPT !.next = n, !.expires = x, !.since = a]
    BY DEF Tick
  <2> HIDE DEF row, n, x, a
  <2>5. task'[t] \in TaskRow /\ task'[t].state = row.state
    BY <2>1, <2>2, <2>3, <2>4 DEF TaskRow
  <2> QED BY <2>5 DEF row
<1>3. task' \in [Txns -> TaskRow]
  <2>1. task' = [t \in Txns |-> task'[t]]
    BY DEF Tick
  <2> QED BY <1>2, <2>1
<1>4. ASSUME NEW h \in Handlers
      PROVE  /\ work'[h] \in Work /\ work'[h].event = work[h].event
             /\ work'[h].txn = work[h].txn /\ work'[h].refund = work[h].refund
             /\ work'[h].debit = work[h].debit /\ work'[h].plan = work[h].plan
  <2> DEFINE r == work[h]
             n == Earlier(r.next)
  <2>1. r \in Work
    BY <1>1
  <2>2. n \in Nat
    BY <2>1, EarlierType DEF Work
  <2>3. work'[h] = [r EXCEPT !.next = n]
    BY DEF Tick
  <2> HIDE DEF r, n
  <2>4. /\ work'[h] \in Work /\ work'[h].event = r.event
        /\ work'[h].txn = r.txn /\ work'[h].refund = r.refund
        /\ work'[h].debit = r.debit /\ work'[h].plan = r.plan
    BY <2>1, <2>2, <2>3 DEF Work
  <2> QED BY <2>4 DEF r
<1>5. work' \in [Handlers -> Work]
  <2>1. work' = [h \in Handlers |-> work'[h]]
    BY DEF Tick
  <2> QED BY <1>4, <2>1
<1>6. ASSUME NEW w \in Workers
      PROVE  /\ worker'[w] \in WorkerRow /\ worker'[w].at = worker[w].at
             /\ worker'[w].txn = worker[w].txn /\ worker'[w].norm = worker[w].norm
             /\ worker'[w].to = worker[w].to
  <2> DEFINE r == worker[w]
             n == Earlier(r.next)
  <2>1. r \in WorkerRow
    BY <1>1
  <2>2. n \in Nat \cup {None}
    BY <2>1, EarlierType DEF WorkerRow
  <2>3. worker'[w] = [r EXCEPT !.next = n]
    BY DEF Tick
  <2> HIDE DEF r, n
  <2>4. /\ worker'[w] \in WorkerRow /\ worker'[w].at = r.at
        /\ worker'[w].txn = r.txn /\ worker'[w].norm = r.norm /\ worker'[w].to = r.to
    BY <2>1, <2>2, <2>3 DEF WorkerRow
  <2> QED BY <2>4 DEF r
<1>7. worker' \in [Workers -> WorkerRow]
  <2>1. worker' = [w \in Workers |-> worker'[w]]
    BY DEF Tick
  <2> QED BY <1>6, <2>1
<1>8. FoundInv'
  <2>1. status' \in [Txns -> PaymentStatus]
        /\ UNCHANGED <<pspRef, refund, ledger, inbox, pc, applied, acked>>
    BY <1>1 DEF Tick
  <2> QED BY <1>3, <1>4, <1>5, <2>1, EndpointKept
<1>9. ReconTypeOK'
  BY <1>7, <1>8 DEF ReconTypeOK, FoundInv, IInv, Tick
<1>10. ChargeEventsTrue'
  BY DEF ChargeEventsTrue, TruthfulCharge, Tick
<1>11. VerdictIsTrue'
  BY <1>2 DEF VerdictIsTrue, Tick
<1>12. ASSUME NEW w \in Workers PROVE WorkerOK(worker[w])'
  <2>1. WorkerOK(worker[w]) /\ koraCharge' = koraCharge
    BY DEF Tick
  <2> QED BY <1>6, <2>1 DEF WorkerOK, TrueOf
<1> QED BY <1>8, <1>9, <1>10, <1>11, <1>12

\* Kora decides once.
LEMMA SettleVInv ==
    ASSUME VInv, NEW t \in Payins, SettleCharge(t)
    PROVE  VInv'
<1> USE DEF VInv
<1>1. UNCHANGED vars /\ worker' = worker
  BY DEF SettleCharge
<1>2. /\ koraCharge' \in [Payins -> {"pending", "success", "failed"}]
      /\ \A s \in Payins : koraCharge[s] \in {"success", "failed"} => koraCharge'[s] = koraCharge[s]
  BY DEF SettleCharge, ReconTypeOK
<1>3. FoundInv'
  BY <1>1, NextFoundInv
<1>4. ReconTypeOK'
  BY <1>1, <1>2, <1>3 DEF ReconTypeOK, FoundInv, IInv
<1>5. ChargeEventsTrue'
  <2> SUFFICES ASSUME NEW e \in Events, inbox[e].status # "none"
               PROVE  TruthfulCharge(inbox[e].msg)'
    BY <1>1 DEF ChargeEventsTrue, vars
  <2>1. inbox[e].msg \in Message /\ TruthfulCharge(inbox[e].msg)
    BY DEF FoundInv, IInv, InboxOK, ChargeEventsTrue
  <2>2. /\ inbox[e].msg.outcome \in Outcome
        /\ inbox[e].msg.kind \in {"charge", "refund"} => inbox[e].msg.ref[1] \in Payins
    BY <2>1, MessageType
  <2> QED BY <1>1, <1>2, <2>1, <2>2 DEF TruthfulCharge, Outcome, vars, database
<1>6. VerdictIsTrue'
  BY <1>1, <1>2 DEF VerdictIsTrue, vars, database
<1>7. ASSUME NEW w \in Workers PROVE WorkerOK(worker[w])'
  <2> DEFINE r == worker[w]
  <2>1. r \in WorkerRow /\ WorkerOK(r)
    BY DEF ReconTypeOK
  <2> QED BY <1>1, <1>2, <2>1 DEF WorkerOK, TrueOf
<1> QED BY <1>3, <1>4, <1>5, <1>6, <1>7

-------------------------------------------------------------------------------
(* The steps of the endpoint.                                                *)

\* What is stored stays true if what is delivered is what Kora says.
LEMMA ChargeEventsStay ==
    ASSUME VInv, NEW h \in Handlers, HandlerNext(h), UNCHANGED koraCharge,
           \A e \in Events :
              NewEvent(e) => inbox'[e].msg \in Message /\ TruthfulCharge(inbox'[e].msg)
    PROVE  ChargeEventsTrue'
<1> SUFFICES ASSUME NEW e \in Events, inbox'[e].status # "none"
             PROVE  TruthfulCharge(inbox[e].msg)'
  BY DEF ChargeEventsTrue
<1> USE DEF VInv
<1>1. inbox'[e].msg \in Message /\ TruthfulCharge(inbox'[e].msg)
  <2>1. CASE ~NewEvent(e)
    <3>1. inbox[e].status # "none" /\ inbox'[e].msg = inbox[e].msg
      BY <2>1, EventsKept DEF NewEvent, FoundInv
    <3> QED BY <3>1 DEF ChargeEventsTrue, FoundInv, IInv, InboxOK
  <2> QED BY <2>1
<1>2. \A k \in RefundKeys : refund'[k].txn = refund[k].txn
  BY RefundsKept DEF FoundInv
<1> QED BY <1>1, <1>2, MessageType DEF TruthfulCharge

\* What the endpoint writes into a status is what Kora says of the collection.
LEMMA ChargeCommitTells ==
    ASSUME VInv, NEW h \in Handlers, Commit(h), NEW t \in Payins, status'[t] # status[t]
    PROVE  /\ status'[t] \in {"completed", "refunded"} => koraCharge[t] = "success"
           /\ status'[t] = "failed" => koraCharge[t] = "failed"
<1> USE DEF VInv
<1>1. PICK e \in Events : inbox[e].status = "received" /\ SaysSo(inbox[e].msg, t)
  BY CommitCaused DEF Txns
<1> DEFINE m == inbox[e].msg
<1>2. m \in Message /\ TruthfulCharge(m)
  BY <1>1 DEF FoundInv, IInv, InboxOK, ChargeEventsTrue
<1>3. CASE m.kind = "refund"
  <2>1. status'[t] = "refunded"
    BY <1>1, <1>3 DEF SaysSo
  <2>2. koraCharge[m.ref[1]] = "success" /\ refund[m.refund].txn = m.ref[1]
    BY <1>2, <1>3 DEF TruthfulCharge
  <2>3. PICK k \in RefundMatches(m) : refund[k].txn = t
    BY <1>1, <1>3 DEF SaysSo
  <2>4. refund[k].txn = m.ref[1]
    BY <2>2, <2>3 DEF RefundMatches
  <2> QED BY <2>1, <2>2, <2>3, <2>4
<1>4. CASE m.kind # "refund"
  <2>1. m.ref[1] = t
    BY <1>1, <1>4 DEF SaysSo
  <2>2. m.kind = "charge"
    BY <1>2, <1>4, <2>1, MessageType, RowsAssumption
  <2> QED BY <1>1, <1>2, <1>4, <2>1, <2>2 DEF SaysSo, TruthfulCharge
<1> QED BY <1>3, <1>4

\* The endpoint never gives a task a verdict.
LEMMA CommitSchedules ==
    ASSUME TypeOK, NEW h \in Handlers, Commit(h), NEW t \in Txns
    PROVE  task'[t].state \in {task[t].state, "scheduled"}
<1>1. CASE task'[t] = task[t]
  BY <1>1
<1>2. CASE task'[t] # task[t]
  <2>1. task'[t] = EnqueuedTask(task[t], work[h])
    BY <1>2 DEF Commit, TypeOK
  <2>2. task[t] \in TaskRow
    BY DEF TypeOK
  <2> QED BY <2>1, <2>2 DEF EnqueuedTask, TaskRow, NoTask
<1> QED BY <1>1, <1>2

LEMMA EndpointVInv ==
    ASSUME VInv, NEW h \in Handlers, HandlerNext(h), UNCHANGED <<worker, koraCharge>>,
           \A e \in Events :
              NewEvent(e) => inbox'[e].msg \in Message /\ TruthfulCharge(inbox'[e].msg)
    PROVE  VInv'
<1> USE DEF VInv
<1>1. FoundInv'
  BY HandlerIsNext, NextFoundInv
<1>2. ReconTypeOK'
  BY <1>1 DEF ReconTypeOK, FoundInv, IInv
<1>3. ChargeEventsTrue'
  BY ChargeEventsStay
<1>4. \A w \in Workers : WorkerOK(worker[w])'
  BY DEF WorkerOK, TrueOf
<1>5. CASE Commit(h)
  <2>1. \A t \in Txns : task'[t].state \in {task[t].state, "scheduled"}
    BY <1>5, CommitSchedules DEF ReconTypeOK
  <2>2. ASSUME NEW t \in Payins
        PROVE  /\ status'[t] \in {"completed", "refunded"} => koraCharge[t] = "success"
               /\ status'[t] = "failed" => koraCharge[t] = "failed"
    BY <1>5, ChargeCommitTells DEF VerdictIsTrue
  <2>3. VerdictIsTrue'
    BY <2>1, <2>2 DEF VerdictIsTrue
  <2> QED BY <1>1, <1>2, <1>3, <1>4, <2>3
<1>6. CASE ~Commit(h)
  <2>1. UNCHANGED <<status, task>>
    BY <1>6, OnlyCommits DEF database
  <2> QED BY <1>1, <1>2, <1>3, <1>4, <2>1 DEF VerdictIsTrue
<1> QED BY <1>5, <1>6

\* Steps of others, which write neither pay-ins nor tasks, keep the invariant.
LEMMA ReconKept ==
    ASSUME VInv, FoundInv', UNCHANGED <<worker, koraCharge, task, inbox>>,
           \A t \in Payins : status'[t] = status[t],
           \A e \in Events : inbox[e].status # "none" /\ inbox[e].msg.kind = "refund" =>
               refund'[inbox[e].msg.refund].txn = refund[inbox[e].msg.refund].txn
    PROVE  VInv'
<1> USE DEF VInv
<1>1. ReconTypeOK'
  BY DEF ReconTypeOK, FoundInv, IInv
<1>2. ChargeEventsTrue'
  BY DEF ChargeEventsTrue, TruthfulCharge
<1>3. VerdictIsTrue' /\ \A w \in Workers : WorkerOK(worker[w])'
  BY DEF VerdictIsTrue, WorkerOK, TrueOf
<1> QED BY <1>1, <1>2, <1>3

\* The endpoint of KoraReconciliation stores what Kora says.
LEMMA ReconEndpointVInv ==
    ASSUME VInv, NEW h \in Handlers, ReconEndpoint(h)
    PROVE  VInv'
<1>1. HandlerNext(h) /\ UNCHANGED <<worker, koraCharge>> /\ IInv
  BY DEF ReconEndpoint, HandlerNext, VInv, FoundInv
<1>2. ASSUME NEW e \in Events, NewEvent(e)
      PROVE  inbox'[e].msg \in Message /\ TruthfulCharge(inbox'[e].msg)
  <2>1. PICK f \in Events, m \in Message : TruthfulCharge(m) /\ Receive(h, f, m)
    BY <1>1, <1>2, StepStoresNothing DEF ReconEndpoint
  <2> QED BY <1>1, <1>2, <2>1, NewIsDelivered
<1> QED BY <1>1, <1>2, EndpointVInv

-------------------------------------------------------------------------------
(* The theorems.                                                             *)

LEMMA InitVInv == ReconInit => VInv
<1> SUFFICES ASSUME ReconInit PROVE VInv
  OBVIOUS
<1> USE DEF ReconInit, WebhookInit
<1>1. TypeOK
  <2>1. refund \in [RefundKeys -> RefundRow]
    BY DEF RefundRow, RefundStatus
  <2>2. task \in [Txns -> TaskRow]
    BY DEF TaskRow, NoTask, TaskState
  <2>3. inbox \in [Events -> InboxRow]
    BY DEF InboxRow, EventStatus
  <2> QED BY <2>1, <2>2, <2>3, BlankType DEF TypeOK, PaymentStatus, Places
<1>2. FoundInv
  BY <1>1 DEF FoundInv, IInv, InboxOK, RefundOK, HandlersOK, HandlerOK, Blank,
              Exclusive, RefundsRead, AppliedOnce, DebitsBacked, LedgerRows, FoundOK
<1>3. ReconTypeOK
  BY <1>1, RestingOK DEF ReconTypeOK
<1>4. ChargeEventsTrue /\ VerdictIsTrue
  BY DEF ChargeEventsTrue, VerdictIsTrue, NoTask, Txns
<1>5. \A w \in Workers : WorkerOK(worker[w])
  BY RestingOK
<1> QED BY <1>2, <1>3, <1>4, <1>5 DEF VInv

LEMMA NextVInv == VInv /\ [ReconNext]_reconVars => VInv'
<1> SUFFICES ASSUME VInv, [ReconNext]_reconVars PROVE VInv'
  OBVIOUS
<1>1. CASE UNCHANGED reconVars
  <2>1. UNCHANGED vars /\ UNCHANGED <<worker, koraCharge>>
    BY <1>1 DEF reconVars
  <2>2. FoundInv'
    BY <2>1, NextFoundInv DEF VInv
  <2> QED BY <2>1, <2>2, ReconKept DEF vars, database
<1>2. CASE Others
  BY <1>2, ReconEndpointVInv, SettleVInv DEF Others
<1>3. CASE Tick
  BY <1>3, TickVInv
<1>4. ASSUME NEW w \in Workers, WorkerStep(w) \/ Abandon(w) PROVE VInv'
  BY <1>4, WorkerStepVInv
<1> QED BY <1>1, <1>2, <1>3, <1>4 DEF ReconNext

\* The inductive invariant holds: what events, workers, statuses and tasks say is
\* what Kora has decided (kora_webhook, reconcile_due_once).
THEOREM ReconInvariance == ReconSpec => []VInv
BY InitVInv, NextVInv, PTL DEF ReconSpec

\* Workers, endpoint and clock keep every row and every worker well typed.
THEOREM ReconTypeCorrect == ReconSpec => []ReconTypeOK
<1>1. VInv => ReconTypeOK
  BY DEF VInv
<1> QED BY <1>1, ReconInvariance, PTL

\* A verdict is Kora's verdict: whatever workers and events race, and however late
\* a worker comes back with what it read, reconcile_due_once and kora_webhook
\* complete, or fail, no collection that Kora did not complete, or fail.
THEOREM VerdictIsTrueAlways == ReconSpec => []VerdictIsTrue
<1>1. VInv => VerdictIsTrue
  BY DEF VInv
<1> QED BY <1>1, ReconInvariance, PTL
-------------------------------------------------------------------------------
(***************************************************************************)
(* Prompt workers.  Nothing but the lease keeps two workers off one task:  *)
(* a worker that is done before its claim is a lease old is alone with it. *)
(* This needs that no webhook schedules the task again meanwhile, which    *)
(* only an event about a transaction that is still pending does; so the    *)
(* theorems are about runs with one pending event for each transaction.    *)
(***************************************************************************)

\* A stored event says that t is pending.
PendingOf(e, t) ==
    /\ inbox[e].status # "none"
    /\ inbox[e].msg.kind # "refund" /\ inbox[e].msg.outcome = "pending"
    /\ inbox[e].msg.ref[1] = t

OnePending ==
    \A t \in Txns : \A e, f \in Events : PendingOf(e, t) /\ PendingOf(f, t) => e = f

\* A task stems from an event; a request about to write one has read that there is none.
Asked ==
    \A t \in Txns : task[t].state # "none" =>
        \E e \in Events : inbox[e].status = "processed" /\ PendingOf(e, t)
PlannedBy(h) ==
    pc[h] = "enqueue" \/ work[h].plan # {} =>
        PendingOf(work[h].event, work[h].txn) /\ work[h].plan \subseteq {"insert"}

\* What a busy worker holds and knows.
OwnedBy(w) ==
    LET r == worker[w] IN
    /\ task[r.txn].state = "processing" /\ task[r.txn].since < Lease
    /\ r.at \in {"read", "planned"} => r.was = "processing"
    /\ r.at = "planned" => /\ r.to \notin {"none", "processing"}
                           /\ r.to = "scheduled" => r.next # None

EndpointInv == VInv /\ Asked /\ \A h \in Handlers : PlannedBy(h)
PromptInv ==
    /\ EndpointInv /\ SingleOwner /\ ScheduledIsDue
    /\ \A w \in Workers : Busy(w) => OwnedBy(w)

\* What is said of an event stays, and so does what was read of it.
LEMMA PendingStays ==
    ASSUME VInv, NEW h \in Handlers, ReconEndpoint(h), NEW e \in Events, NEW t
    PROVE  /\ PendingOf(e, t) => PendingOf(e, t)'
           /\ inbox[e].status = "processed" => inbox'[e].status = "processed"
<1> USE DEF VInv, FoundInv, IInv
<1>1. inbox \in [Events -> InboxRow] /\ HandlerOK(h)
  BY DEF TypeOK, HandlersOK
<1>2. CASE \E f \in Events, m \in Message : TruthfulCharge(m) /\ Receive(h, f, m)
  <2>1. PICK f \in Events, m \in Message : Receive(h, f, m)
    BY <1>2
  <2>2. inbox[f].status = "none" /\ \A g \in Events \ {f} : inbox'[g] = inbox[g]
    BY <1>1, <2>1 DEF Receive, Fresh
  <2> QED BY <2>2 DEF PendingOf
<1>3. CASE Commit(h) \/ Fail(h)
  <2>1. pc[h] # "idle" /\ inbox[work[h].event].status = "received" /\ work[h].event \in Events
    BY <1>1, <1>3 DEF Commit, Fail, HandlerOK, Owns
  <2>2. \/ inbox' = [inbox EXCEPT ![work[h].event].status = "processed"]
        \/ inbox' = [inbox EXCEPT ![work[h].event].status = "failed"]
    BY <1>3 DEF Commit, Fail
  <2>3. /\ inbox'[e].msg = inbox[e].msg
        /\ inbox'[e].status \in {inbox[e].status, "processed", "failed"}
        /\ inbox[e].status = "processed" => inbox'[e].status = "processed"
    BY <1>1, <2>1, <2>2 DEF InboxRow
  <2> QED BY <2>3 DEF PendingOf
<1>4. CASE inbox' = inbox
  BY <1>4 DEF PendingOf
<1>5. \/ \E f \in Events, m \in Message : TruthfulCharge(m) /\ Receive(h, f, m)
      \/ Commit(h) \/ Fail(h) \/ inbox' = inbox
  BY DEF ReconEndpoint, HandlerStep, QuietStep, MatchTransaction, MatchRefund, LoadParent,
         CheckEntry, EnqueueRead, Conflict, Raise, Crash
<1> QED BY <1>2, <1>3, <1>4, <1>5

\* A step that leaves the tasks alone keeps what they stem from.
LEMMA AskedStays ==
    ASSUME EndpointInv, NEW h \in Handlers, ReconEndpoint(h), NEW t \in Txns,
           task[t].state # "none"
    PROVE  \E e \in Events : inbox'[e].status = "processed" /\ PendingOf(e, t)'
<1>1. PICK e \in Events : inbox[e].status = "processed" /\ PendingOf(e, t)
  BY DEF EndpointInv, Asked
<1> QED BY <1>1, PendingStays DEF EndpointInv

\* Requests other than h have their plans as before.
LEMMA OtherPlans ==
    ASSUME EndpointInv, NEW h \in Handlers, ReconEndpoint(h), NEW g \in Handlers,
           pc'[g] = pc[g] \/ pc'[g] = "fail", work'[g] = work[g]
    PROVE  PlannedBy(g)'
<1>1. CASE pc'[g] # "enqueue" /\ work[g].plan = {}
  BY <1>1 DEF PlannedBy
<1>2. CASE pc[g] = "enqueue" \/ work[g].plan # {}
  <2>1. PendingOf(work[g].event, work[g].txn) /\ work[g].plan \subseteq {"insert"}
    BY <1>2 DEF EndpointInv, PlannedBy
  <2>2. work[g].event \in Events
    <3>1. HandlerOK(g)
      BY DEF EndpointInv, VInv, FoundInv, IInv, HandlersOK
    <3> QED BY <1>2, <3>1 DEF HandlerOK, Owns
  <2>3. PendingOf(work[g].event, work[g].txn)'
    <3>1. PendingOf(work[g].event, work[g].txn)
             => (\A e, t : e = work[g].event /\ t = work[g].txn => PendingOf(e, t)')
      BY <2>2, PendingStays DEF EndpointInv
    <3> QED BY <2>1, <3>1 DEF PendingOf
  <2> QED BY <2>1, <2>3 DEF PlannedBy
<1> QED BY <1>1, <1>2
\* A request that has no plan and is not about to make one needs no event.
LEMMA NoPlan ==
    ASSUME NEW h \in Handlers, pc'[h] # "enqueue", work'[h].plan = {}
    PROVE  PlannedBy(h)'
BY DEF PlannedBy

\* The plan of the request that takes the step.
LEMMA OwnPlan ==
    ASSUME EndpointInv, OnePending, NEW h \in Handlers, ReconEndpoint(h)
    PROVE  PlannedBy(h)'
<1> USE DEF EndpointInv, VInv, FoundInv, IInv
<1>1. /\ pc \in [Handlers -> Places] /\ work \in [Handlers -> Work] /\ HandlerOK(h)
      /\ task \in [Txns -> TaskRow] /\ work[h] \in Work
  BY DEF TypeOK, HandlersOK
<1>2. CASE \/ \E f \in Events, m \in Message : TruthfulCharge(m) /\ Receive(h, f, m)
           \/ Commit(h) \/ Fail(h) \/ Crash(h)
  BY <1>1, <1>2, NoPlan DEF Receive, Commit, Fail, Crash, Goto, Blank
<1>3. CASE Conflict(h) \/ Raise(h)
  BY <1>1, <1>3, OtherPlans DEF Conflict, Raise, Goto
<1>4. CASE MatchRefund(h) \/ LoadParent(h) \/ CheckEntry(h)
  <2>1. work[h].plan = {}
    BY <1>1, <1>4 DEF MatchRefund, LoadParent, CheckEntry, HandlerOK
  <2>2. work'[h].plan = work[h].plan /\ pc'[h] # "enqueue"
    <3>1. CASE MatchRefund(h)
      <4>1. PICK w \in Work : /\ w.plan = work[h].plan
                              /\ work' = [work EXCEPT ![h] = w]
        <5>1. work' = [work EXCEPT ![h] = work[h]]
              \/ \E k \in RefundKeys :
                    work' = [work EXCEPT ![h] = [work[h] EXCEPT !.refund = k,
                                                                !.rstatus = refund[k].status]]
          BY <3>1 DEF MatchRefund, Goto, Newest, RefundMatches
        <5>2. \A k \in RefundKeys : refund[k].status \in RefundStatus
          BY DEF TypeOK, RefundRow
        <5> QED BY <1>1, <5>1, <5>2 DEF Work
      <4>2. pc'[h] \in {"fail", "parent"}
        BY <1>1, <3>1 DEF MatchRefund, Goto
      <4> QED BY <1>1, <4>1, <4>2
    <3>2. CASE LoadParent(h)
      BY <1>1, <3>2 DEF LoadParent, Goto, Work
    <3>3. CASE CheckEntry(h)
      BY <1>1, <3>3 DEF CheckEntry, Goto, Work
    <3> QED BY <1>4, <3>1, <3>2, <3>3
  <2> QED BY <2>1, <2>2, NoPlan
<1>5. CASE MatchTransaction(h)
  <2>1. work[h].plan = {} /\ Owns(h) /\ inbox' = inbox /\ Msg(h).kind # "refund"
    BY <1>1, <1>5 DEF MatchTransaction, HandlerOK
  <2>2. CASE pc'[h] # "enqueue"
    <3>1. work'[h].plan = {}
      <4>1. work' = [work EXCEPT ![h] = work[h]]
            \/ \E t \in Txns :
                  work' = [work EXCEPT ![h] = [work[h] EXCEPT !.txn = t, !.status = status[t]]]
        BY <1>5 DEF MatchTransaction, Goto
      <4> QED BY <1>1, <2>1, <4>1 DEF Work
    <3> QED BY <2>2, <3>1, NoPlan
  <2>3. CASE pc'[h] = "enqueue"
    <3>1. PICK t \in {t \in Txns : Matches(t, Msg(h).ref)} :
             /\ Msg(h).outcome = "pending"
             /\ work' = [work EXCEPT ![h] = [work[h] EXCEPT !.txn = t, !.status = status[t]]]
      <4>1. Msg(h).outcome = "pending" \/ pc'[h] # "enqueue"
        BY <1>1, <1>5 DEF MatchTransaction, Goto
      <4> QED BY <1>1, <1>5, <2>3, <4>1 DEF MatchTransaction, Goto
    <3>2. work'[h].txn = t /\ work'[h].event = work[h].event /\ work'[h].plan = {}
      BY <1>1, <2>1, <3>1 DEF Work
    <3>3. t = Msg(h).ref[1]
      BY <3>1 DEF Matches
    <3>4. PendingOf(work[h].event, t)
      BY <2>1, <3>1, <3>3 DEF PendingOf, Owns, Msg
    <3> QED BY <2>1, <3>2, <3>4 DEF PlannedBy, PendingOf
  <2> QED BY <2>2, <2>3
<1>6. CASE EnqueueRead(h)
  <2> DEFINE t == work[h].txn
             row == task[work[h].txn]
  <2>1. /\ Found(h) /\ Owns(h) /\ inbox' = inbox /\ t \in Txns
        /\ PendingOf(work[h].event, t)
    BY <1>1, <1>6 DEF EnqueueRead, HandlerOK, Found, PlannedBy
  <2>2. row.state = "none"
    <3> SUFFICES ASSUME row.state # "none" PROVE FALSE
      OBVIOUS
    <3>1. PICK e \in Events : inbox[e].status = "processed" /\ PendingOf(e, t)
      BY <2>1 DEF Asked
    <3>2. e = work[h].event
      BY <2>1, <3>1 DEF OnePending, Owns
    <3> QED BY <2>1, <3>1, <3>2 DEF Owns
  <2>3. EnqueuePlan(row) = {"insert"}
    BY <2>2 DEF EnqueuePlan
  <2>4. /\ work'[h].plan = {"insert"} /\ work'[h].txn = t /\ work'[h].event = work[h].event
    BY <1>1, <1>6, <2>3 DEF EnqueueRead, Goto, Work
  <2> QED BY <2>1, <2>4 DEF PlannedBy, PendingOf
<1> QED
  BY <1>2, <1>3, <1>4, <1>5, <1>6 DEF ReconEndpoint, HandlerStep, QuietStep

\* The endpoint leaves the tasks alone, or inserts one where there is none.
LEMMA CommitInserts ==
    ASSUME EndpointInv, NEW h \in Handlers, Commit(h)
    PROVE  \/ task' = task
           \/ \E row \in TaskRow :
                /\ work[h].txn \in Txns /\ task[work[h].txn].state = "none"
                /\ PendingOf(work[h].event, work[h].txn)
                /\ task' = [task EXCEPT ![work[h].txn] = row]
                /\ row.state = "scheduled" /\ row.next \in Nat
<1> USE DEF EndpointInv, VInv, FoundInv, IInv
<1>1. CASE work[h].plan = {}
  BY <1>1 DEF Commit
<1>2. CASE work[h].plan # {}
  <2>1. work[h] \in Work /\ work[h].txn \in Txns /\ work[h].plan = {"insert"}
        /\ PendingOf(work[h].event, work[h].txn)
    BY <1>2 DEF TypeOK, HandlersOK, HandlerOK, PlannedBy
  <2>2. task[work[h].txn].state = "none" /\ task[work[h].txn] \in TaskRow
    BY <2>1 DEF Commit, InsertConflict, TypeOK
  <2> DEFINE row == EnqueuedTask(task[work[h].txn], work[h])
  <2>3. row \in TaskRow
    BY <2>1, <2>2, EnqueuedType
  <2>4. row.state = "scheduled" /\ row.next \in Nat
    BY <2>1 DEF EnqueuedTask, NoTask, Work
  <2>5. task' = [task EXCEPT ![work[h].txn] = row]
    BY <1>2 DEF Commit
  <2> QED BY <2>1, <2>2, <2>3, <2>4, <2>5
<1> QED BY <1>1, <1>2
LEMMA EndpointInvKept ==
    ASSUME EndpointInv, OnePending, NEW h \in Handlers, ReconEndpoint(h)
    PROVE  /\ EndpointInv'
           /\ \/ task' = task
              \/ \E t \in Txns, row \in TaskRow :
                    /\ task[t].state = "none" /\ task' = [task EXCEPT ![t] = row]
                    /\ row.state = "scheduled" /\ row.next \in Nat
<1> USE DEF EndpointInv
<1>1. VInv'
  BY ReconEndpointVInv
<1>2. ASSUME NEW g \in Handlers PROVE PlannedBy(g)'
  <2>1. CASE g = h
    BY <2>1, OwnPlan
  <2>2. CASE g # h
    <3>1. pc'[g] = pc[g] /\ work'[g] = work[g]
      BY <2>2 DEF ReconEndpoint, HandlerStep, QuietStep, Receive, MatchTransaction, MatchRefund,
                  LoadParent, CheckEntry, EnqueueRead, Commit, Conflict, Fail, Raise, Crash,
                  Goto, VInv, FoundInv, IInv, TypeOK
    <3> QED BY <3>1, OtherPlans
  <2> QED BY <2>1, <2>2
<1>3. CASE task' = task
  <2>1. Asked'
    BY <1>3, AskedStays DEF Asked
  <2> QED BY <1>1, <1>2, <1>3, <2>1
<1>4. CASE task' # task
  <2>1. Commit(h)
    BY <1>4 DEF ReconEndpoint, HandlerStep, QuietStep, Receive, MatchTransaction, MatchRefund,
                LoadParent, CheckEntry, EnqueueRead, Conflict, Fail, Raise, Crash, database
  <2>2. PICK row \in TaskRow :
           /\ work[h].txn \in Txns /\ task[work[h].txn].state = "none"
           /\ PendingOf(work[h].event, work[h].txn)
           /\ task' = [task EXCEPT ![work[h].txn] = row]
           /\ row.state = "scheduled" /\ row.next \in Nat
    BY <1>4, <2>1, CommitInserts
  <2>3. ASSUME NEW t \in Txns, task'[t].state # "none"
        PROVE  \E e \in Events : inbox'[e].status = "processed" /\ PendingOf(e, t)'
    <3>1. CASE t # work[h].txn
      <4>1. task[t].state # "none"
        BY <2>2, <2>3, <3>1 DEF VInv, FoundInv, IInv, TypeOK
      <4> QED BY <4>1, AskedStays
    <3>2. CASE t = work[h].txn
      <4>1. PICK e \in Events : e = work[h].event
        BY <2>1 DEF Commit, VInv, FoundInv, IInv, HandlersOK, HandlerOK, Owns
      <4>2. inbox'[e].status = "processed"
        BY <2>1, <4>1 DEF Commit, VInv, FoundInv, IInv, TypeOK, InboxRow
      <4>3. PendingOf(e, t)'
        BY <2>2, <3>2, <4>1, PendingStays
      <4> QED BY <4>2, <4>3
    <3> QED BY <3>1, <3>2
  <2>4. Asked'
    BY <2>3 DEF Asked
  <2> QED BY <1>1, <1>2, <2>2, <2>4
<1> QED BY <1>3, <1>4

\* A step that keeps requests and events, and from which tasks no task begins.
LEMMA EndpointQuiet ==
    ASSUME EndpointInv, VInv', UNCHANGED <<inbox, pc>>,
           \A h \in Handlers : /\ work'[h].event = work[h].event /\ work'[h].txn = work[h].txn
                               /\ work'[h].plan = work[h].plan,
           \A t \in Txns : task'[t].state # "none" => task[t].state # "none"
    PROVE  EndpointInv'
<1>1. Asked'
  BY DEF EndpointInv, Asked, PendingOf
<1>2. \A h \in Handlers : PlannedBy(h)'
  BY DEF EndpointInv, PlannedBy, PendingOf
<1> QED BY <1>1, <1>2 DEF EndpointInv
\* A worker's step, as the others see it.
LEMMA PromptWorker ==
    ASSUME PromptInv, NEW w \in Workers, EndpointInv', ScheduledIsDue',
           \A v \in Workers \ {w} : worker'[v] = worker[v],
           \A v \in Workers \ {w} : Busy(v) =>
               task'[worker[v].txn] = task[worker[v].txn],
           Busy(w)' => OwnedBy(w)',
           Busy(w)' => \A v \in Workers \ {w} : Busy(v) => worker[v].txn # worker'[w].txn
    PROVE  PromptInv'
<1>1. ASSUME NEW v \in Workers, Busy(v)' PROVE OwnedBy(v)'
  <2>1. CASE v = w
    BY <1>1, <2>1
  <2>2. CASE v # w
    BY <1>1, <2>2 DEF PromptInv, OwnedBy, Busy
  <2> QED BY <2>1, <2>2
<1>2. SingleOwner'
  <2> SUFFICES ASSUME NEW u \in Workers, NEW v \in Workers, Busy(u)', Busy(v)',
                      worker'[u].txn = worker'[v].txn, u # v
               PROVE  FALSE
    BY DEF SingleOwner, Busy
  <2>1. CASE u = w
    BY <2>1 DEF Busy
  <2>2. CASE v = w
    BY <2>2 DEF Busy
  <2>3. CASE u # w /\ v # w
    BY <2>3 DEF Busy, PromptInv, SingleOwner
  <2> QED BY <2>1, <2>2, <2>3
<1> QED BY <1>1, <1>2 DEF PromptInv

\* What the invariants say of types, in one place.
LEMMA PromptTypes ==
    ASSUME PromptInv
    PROVE  /\ task \in [Txns -> TaskRow] /\ worker \in [Workers -> WorkerRow]
           /\ \A t \in Txns : task[t].since \in Nat
           /\ \A w \in Workers : Busy(w) => worker[w].txn \in Txns
<1>1. task \in [Txns -> TaskRow] /\ worker \in [Workers -> WorkerRow]
  BY DEF PromptInv, EndpointInv, VInv, ReconTypeOK, TypeOK
<1>2. ASSUME NEW t \in Txns PROVE task[t].since \in Nat
  BY <1>1 DEF TaskRow
<1>3. ASSUME NEW w \in Workers, Busy(w) PROVE worker[w].txn \in Txns
  BY <1>3 DEF PromptInv, EndpointInv, VInv, WorkerOK, Busy
<1> QED BY <1>1, <1>2, <1>3

\* Steps of workers keep what the endpoint knows.
LEMMA WorkerQuiet ==
    ASSUME PromptInv, NEW w \in Workers, WorkerStep(w) \/ Abandon(w),
           \A t \in Txns : task'[t].state # "none" => task[t].state # "none"
    PROVE  EndpointInv'
<1>1. VInv'
  BY WorkerStepVInv DEF PromptInv, EndpointInv
<1>2. UNCHANGED <<inbox, pc, work>>
  BY DEF WorkerStep, Abandon, Claim, Verify, ReadTask, ReadTransaction, Finish, Stay
<1> QED BY <1>1, <1>2, EndpointQuiet DEF PromptInv

LEMMA PromptClaim ==
    ASSUME PromptInv, NEW w \in Workers, NEW t \in Txns, Claim(w, t)
    PROVE  PromptInv'
<1> DEFINE n == Smaller(MaxAttempts, task[t].attempts + 1)
           row == [task[t] EXCEPT !.state = "processing", !.since = 0, !.attempts = n]
           r == [Resting EXCEPT !.at = "claimed", !.txn = t]
<1>1. /\ task \in [Txns -> TaskRow] /\ worker \in [Workers -> WorkerRow]
      /\ \A s \in Txns : task[s].since \in Nat
      /\ \A v \in Workers : Busy(v) => worker[v].txn \in Txns
  BY PromptTypes
<1>2. Due(t) /\ task' = [task EXCEPT ![t] = row] /\ worker' = [worker EXCEPT ![w] = r]
  BY DEF Claim
<1> HIDE DEF n
<1>3. row.state = "processing" /\ row.since = 0 /\ r.txn = t /\ r.at = "claimed"
  BY <1>1 DEF TaskRow, Resting
<1> HIDE DEF row, r
<1>4. ASSUME NEW v \in Workers, Busy(v) PROVE worker[v].txn # t
  <2>1. task[worker[v].txn].state = "processing" /\ task[worker[v].txn].since < Lease
    BY <1>4 DEF PromptInv, OwnedBy
  <2>2. Lease \in Nat /\ task[worker[v].txn].since \in Nat
    BY <1>1, <1>4, TimeAssumption
  <2> QED BY <1>2, <2>1, <2>2 DEF Due
<1>5. task[t].state # "none"
  BY <1>2 DEF Due
<1>6. EndpointInv'
  <2>1. \A s \in Txns : task'[s].state # "none" => task[s].state # "none"
    BY <1>1, <1>2, <1>5
  <2> QED BY <2>1, WorkerQuiet DEF WorkerStep
<1>7. ScheduledIsDue'
  BY <1>1, <1>2, <1>3 DEF PromptInv, ScheduledIsDue
<1>8. OwnedBy(w)' /\ worker'[w].txn = t
  BY <1>1, <1>2, <1>3, TimeAssumption DEF OwnedBy
<1>9. \A v \in Workers \ {w} : Busy(v) => task'[worker[v].txn] = task[worker[v].txn]
  BY <1>1, <1>2, <1>4
<1>10. \A v \in Workers \ {w} : worker'[v] = worker[v]
  BY <1>1, <1>2
<1> QED BY <1>4, <1>6, <1>7, <1>8, <1>9, <1>10, PromptWorker

\* A worker that moves on and writes nothing.
LEMMA PromptThink ==
    ASSUME PromptInv, NEW w \in Workers, WorkerStep(w) \/ Abandon(w), Busy(w),
           UNCHANGED task, NEW r, worker' = [worker EXCEPT ![w] = r],
           r.at # "idle" => r.txn = worker[w].txn,
           r.at \in {"read", "planned"} => r.was = "processing",
           r.at = "planned" => /\ r.to \notin {"none", "processing"}
                               /\ r.to = "scheduled" => r.next # None
    PROVE  PromptInv'
<1>1. worker \in [Workers -> WorkerRow] /\ worker[w].txn \in Txns
  BY PromptTypes
<1>2. EndpointInv'
  BY WorkerQuiet
<1>3. ScheduledIsDue'
  BY DEF PromptInv, ScheduledIsDue
<1>4. worker'[w] = r /\ \A v \in Workers \ {w} : worker'[v] = worker[v]
  BY <1>1
<1>5. OwnedBy(w)
  BY DEF PromptInv
<1>6. Busy(w)' => OwnedBy(w)'
  BY <1>4, <1>5 DEF OwnedBy, Busy
<1>7. Busy(w)' => \A v \in Workers \ {w} : Busy(v) => worker[v].txn # worker'[w].txn
  BY <1>4 DEF PromptInv, SingleOwner, Busy
<1> QED BY <1>2, <1>3, <1>4, <1>6, <1>7, PromptWorker

LEMMA PromptVerify ==
    ASSUME PromptInv, NEW w \in Workers, Verify(w) PROVE PromptInv'
<1>1. worker \in [Workers -> WorkerRow] /\ Busy(w)
  BY PromptTypes DEF Verify, Busy
<1>2. PICK norm : worker' = [worker EXCEPT ![w] =
                       [worker[w] EXCEPT !.at = "verified", !.norm = norm]]
  BY DEF Verify
<1> DEFINE r == [worker[w] EXCEPT !.at = "verified", !.norm = norm]
<1>3. r.at = "verified" /\ r.txn = worker[w].txn
  BY <1>1 DEF WorkerRow
<1>4. worker' = [worker EXCEPT ![w] = r] /\ WorkerStep(w) /\ UNCHANGED task
  BY <1>2 DEF WorkerStep, Verify
<1> HIDE DEF r
<1> QED BY <1>1, <1>3, <1>4, PromptThink

LEMMA PromptReadTask ==
    ASSUME PromptInv, NEW w \in Workers, ReadTask(w) PROVE PromptInv'
<1>1. worker \in [Workers -> WorkerRow] /\ Busy(w)
  BY PromptTypes DEF ReadTask, Busy
<1> DEFINE s == task[worker[w].txn].state
           d == task[worker[w].txn].next # None
           n == task[worker[w].txn].attempts
           r == [worker[w] EXCEPT !.at = "read", !.was = s, !.dated = d, !.tries = n]
<1>2. s = "processing"
  BY <1>1 DEF PromptInv, OwnedBy
<1>3. worker' = [worker EXCEPT ![w] = r] /\ WorkerStep(w) /\ UNCHANGED task
  BY DEF WorkerStep, ReadTask
<1> HIDE DEF s, d, n
<1>4. r.at = "read" /\ r.txn = worker[w].txn /\ r.was = "processing"
  BY <1>1, <1>2 DEF WorkerRow
<1> HIDE DEF r
<1> QED BY <1>1, <1>3, <1>4, PromptThink

LEMMA PromptReadTransaction ==
    ASSUME PromptInv, NEW w \in Workers, ReadTransaction(w) PROVE PromptInv'
<1>1. /\ worker \in [Workers -> WorkerRow] /\ Busy(w) /\ worker[w] \in WorkerRow
      /\ worker[w].was = "processing"
  BY PromptTypes DEF ReadTransaction, Busy, PromptInv, OwnedBy
<1> DEFINE s == status[worker[w].txn]
           v == Verdict(w)
           n == IF v = "scheduled" THEN Backoff(worker[w].tries) ELSE None
           r == [worker[w] EXCEPT !.at = "planned", !.status = s, !.to = v, !.next = n]
<1>2. worker[w].norm \in Normalized /\ worker[w].tries \in Nat
  BY <1>1 DEF WorkerRow
<1>3. v \notin {"none", "processing"}
  BY <1>2 DEF Verdict, Normalized
<1>4. v = "scheduled" => n # None
  BY <1>2, BackoffType, RowsAssumption
<1>5. worker' = [worker EXCEPT ![w] = r] /\ WorkerStep(w) /\ UNCHANGED task
  BY DEF WorkerStep, ReadTransaction
<1> HIDE DEF s, v, n
<1>6. /\ r.at = "planned" /\ r.txn = worker[w].txn /\ r.was = "processing"
      /\ r.to = v /\ r.next = n
  BY <1>1 DEF WorkerRow
<1> HIDE DEF r
<1> QED BY <1>1, <1>3, <1>4, <1>5, <1>6, PromptThink

LEMMA PromptAbandon ==
    ASSUME PromptInv, NEW w \in Workers, Abandon(w) PROVE PromptInv'
<1>1. Busy(w) /\ worker' = [worker EXCEPT ![w] = Resting] /\ UNCHANGED task
  BY DEF Abandon, Busy
<1>2. Resting.at = "idle"
  BY DEF Resting
<1> QED BY <1>1, <1>2, PromptThink

\* The worker that ends a claim still has it.
LEMMA PromptFinish ==
    ASSUME PromptInv, NEW w \in Workers, Finish(w) PROVE PromptInv'
<1> DEFINE r == worker[w]
           t == worker[w].txn
           n == IF r.dated \/ r.next # None THEN r.next ELSE task[t].next
           row == [task[t] EXCEPT !.state = r.to, !.next = n]
<1>1. /\ task \in [Txns -> TaskRow] /\ worker \in [Workers -> WorkerRow]
      /\ \A v \in Workers : Busy(v) => worker[v].txn \in Txns
  BY PromptTypes
<1>2. /\ Busy(w) /\ r.was = "processing" /\ r.to \notin {"none", "processing"}
      /\ r.to = "scheduled" => r.next # None
      /\ task[t].state = "processing" /\ t \in Txns
  BY <1>1 DEF PromptInv, OwnedBy, Finish, Busy
<1>3. task' = [task EXCEPT ![t] = row] /\ worker' = [worker EXCEPT ![w] = Resting]
  BY <1>2 DEF Finish
<1>4. row.state = r.to /\ (r.to = "scheduled" => row.next # None)
  BY <1>1, <1>2 DEF TaskRow
<1> HIDE DEF row
<1>5. EndpointInv'
  <2>1. \A s \in Txns : task'[s].state # "none" => task[s].state # "none"
    BY <1>1, <1>2, <1>3
  <2> QED BY <2>1, WorkerQuiet DEF WorkerStep
<1>6. ScheduledIsDue'
  BY <1>1, <1>2, <1>3, <1>4 DEF PromptInv, ScheduledIsDue
<1>7. \A v \in Workers \ {w} : worker'[v] = worker[v]
  BY <1>1, <1>3
<1>8. \A v \in Workers \ {w} : Busy(v) => task'[worker[v].txn] = task[worker[v].txn]
  BY <1>1, <1>2, <1>3 DEF PromptInv, SingleOwner
<1>9. ~Busy(w)'
  BY <1>1, <1>3 DEF Busy, Resting
<1> QED BY <1>5, <1>6, <1>7, <1>8, <1>9, PromptWorker

\* The endpoint schedules a task only where there is none, and no worker has none.
LEMMA PromptEndpoint ==
    ASSUME PromptInv, OnePending, NEW h \in Handlers, ReconEndpoint(h)
    PROVE  PromptInv'
<1>1. worker' = worker /\ EndpointInv'
  BY EndpointInvKept DEF PromptInv, ReconEndpoint
<1>2. CASE task' = task
  BY <1>1, <1>2 DEF PromptInv, SingleOwner, ScheduledIsDue, Busy, OwnedBy
<1>3. CASE task' # task
  <2>1. PICK t \in Txns, row \in TaskRow :
           /\ task[t].state = "none" /\ task' = [task EXCEPT ![t] = row]
           /\ row.state = "scheduled" /\ row.next \in Nat
    BY <1>3, EndpointInvKept DEF PromptInv
  <2>2. task \in [Txns -> TaskRow]
    BY PromptTypes
  <2>3. ScheduledIsDue'
    BY <2>1, <2>2, RowsAssumption DEF PromptInv, ScheduledIsDue
  <2>4. ASSUME NEW w \in Workers, Busy(w)' PROVE OwnedBy(w)'
    <3>1. OwnedBy(w) /\ worker[w].txn # t
      BY <1>1, <2>1, <2>4 DEF PromptInv, OwnedBy, Busy
    <3>2. task'[worker[w].txn] = task[worker[w].txn]
      BY <2>1, <2>2, <3>1
    <3> QED BY <1>1, <3>1, <3>2 DEF OwnedBy
  <2>5. SingleOwner'
    BY <1>1 DEF PromptInv, SingleOwner, Busy
  <2> QED BY <1>1, <2>3, <2>4, <2>5 DEF PromptInv
<1> QED BY <1>2, <1>3

LEMMA PromptSettle ==
    ASSUME PromptInv, NEW t \in Payins, SettleCharge(t) PROVE PromptInv'
<1>1. UNCHANGED <<inbox, pc, work, task, worker>>
  BY DEF SettleCharge, vars, database
<1>2. EndpointInv'
  BY <1>1, SettleVInv, EndpointQuiet DEF PromptInv, EndpointInv
<1> QED BY <1>1, <1>2 DEF PromptInv, SingleOwner, ScheduledIsDue, Busy, OwnedBy

\* Time that passes leaves every prompt worker its lease, and every due time its row.
LEMMA PromptTicks ==
    ASSUME PromptInv, PromptTick PROVE PromptInv'
<1>1. /\ task \in [Txns -> TaskRow] /\ worker \in [Workers -> WorkerRow]
      /\ \A w \in Workers : Busy(w) => worker[w].txn \in Txns
  BY PromptTypes
<1>2. work \in [Handlers -> Work]
  BY DEF PromptInv, EndpointInv, VInv, ReconTypeOK, TypeOK
<1>3. ASSUME NEW n \in Nat \cup {None} PROVE n # None => Earlier(n) # None
  BY <1>3, RowsAssumption DEF Earlier
<1>4. ASSUME NEW t \in Txns
      PROVE  /\ task'[t].state = task[t].state
             /\ task[t].next # None => task'[t].next # None
             /\ task[t].state = "processing" => task'[t].since = Smaller(Lease, task[t].since + 1)
  <2> DEFINE row == task[t]
             n == Earlier(row.next)
             x == Earlier(row.expires)
             a == IF row.state = "processing" THEN Smaller(Lease, row.since + 1) ELSE row.since
  <2>1. row \in TaskRow
    BY <1>1
  <2>2. row.next # None => n # None
    BY <1>3, <2>1 DEF TaskRow
  <2>3. task'[t] = [row EXCEPT !.next = n, !.expires = x, !.since = a]
    BY DEF PromptTick, Tick
  <2>4. row.state = "processing" => a = Smaller(Lease, row.since + 1)
    OBVIOUS
  <2> HIDE DEF row, n, x, a
  <2>5. task'[t].state = row.state /\ task'[t].next = n /\ task'[t].since = a
    BY <2>1, <2>3 DEF TaskRow
  <2> QED BY <2>2, <2>4, <2>5 DEF row
<1>5. ASSUME NEW w \in Workers
      PROVE  /\ worker'[w].at = worker[w].at /\ worker'[w].txn = worker[w].txn
             /\ worker'[w].was = worker[w].was /\ worker'[w].to = worker[w].to
             /\ worker[w].next # None => worker'[w].next # None
  <2> DEFINE r == worker[w]
             n == Earlier(r.next)
  <2>1. r \in WorkerRow
    BY <1>1
  <2>2. r.next # None => n # None
    BY <1>3, <2>1 DEF WorkerRow
  <2>3. worker'[w] = [r EXCEPT !.next = n]
    BY DEF PromptTick, Tick
  <2> HIDE DEF r, n
  <2>4. /\ worker'[w].at = r.at /\ worker'[w].txn = r.txn /\ worker'[w].was = r.was
        /\ worker'[w].to = r.to /\ worker'[w].next = n
    BY <2>1, <2>3 DEF WorkerRow
  <2> QED BY <2>2, <2>4 DEF r
<1>6. ASSUME NEW h \in Handlers
      PROVE  /\ work'[h].event = work[h].event /\ work'[h].txn = work[h].txn
             /\ work'[h].plan = work[h].plan
  <2> DEFINE r == work[h]
             n == Earlier(r.next)
  <2>1. r \in Work
    BY <1>2
  <2>2. work'[h] = [r EXCEPT !.next = n]
    BY DEF PromptTick, Tick
  <2> HIDE DEF r, n
  <2>3. work'[h].event = r.event /\ work'[h].txn = r.txn /\ work'[h].plan = r.plan
    BY <2>1, <2>2 DEF Work
  <2> QED BY <2>3 DEF r
<1>7. EndpointInv'
  <2>1. VInv' /\ UNCHANGED <<inbox, pc>>
    BY TickVInv DEF PromptInv, EndpointInv, PromptTick, Tick
  <2> QED BY <1>4, <1>6, <2>1, EndpointQuiet DEF PromptInv
<1>8. SingleOwner'
  BY <1>5 DEF PromptInv, SingleOwner, Busy
<1>9. ScheduledIsDue'
  BY <1>4 DEF PromptInv, ScheduledIsDue
<1>10. ASSUME NEW w \in Workers, Busy(w)' PROVE OwnedBy(w)'
  <2>1. Busy(w) /\ OwnedBy(w) /\ worker[w].txn \in Txns
    BY <1>1, <1>5, <1>10 DEF PromptInv, Busy
  <2>2. task'[worker[w].txn].since < Lease
    <3>1. task[worker[w].txn].since \in Nat /\ task[worker[w].txn].since < Lease - 1
      BY <2>1, PromptTypes DEF PromptTick
    <3> QED BY <1>4, <2>1, <3>1, TimeAssumption DEF OwnedBy, Smaller
  <2> QED BY <1>4, <1>5, <2>1, <2>2 DEF OwnedBy
<1> QED BY <1>7, <1>8, <1>9, <1>10 DEF PromptInv

LEMMA InitPromptInv == ReconInit => PromptInv
<1> SUFFICES ASSUME ReconInit PROVE PromptInv
  OBVIOUS
<1>1. VInv
  BY InitVInv
<1>2. /\ \A t \in Txns : task[t].state = "none"
      /\ \A h \in Handlers : pc[h] = "idle" /\ work[h].plan = {}
      /\ \A w \in Workers : ~Busy(w)
  BY DEF ReconInit, WebhookInit, NoTask, Blank, Resting, Busy
<1> QED BY <1>1, <1>2 DEF PromptInv, EndpointInv, Asked, PlannedBy, SingleOwner, ScheduledIsDue

LEMMA NextPromptInv == PromptInv /\ OnePending /\ [PromptNext]_reconVars => PromptInv'
<1> SUFFICES ASSUME PromptInv, OnePending, [PromptNext]_reconVars PROVE PromptInv'
  OBVIOUS
<1>1. CASE UNCHANGED reconVars
  <2>1. UNCHANGED <<inbox, pc, work, task, worker>>
    BY <1>1 DEF reconVars, vars, database
  <2>2. VInv'
    BY <1>1, NextVInv DEF PromptInv, EndpointInv
  <2>3. EndpointInv'
    BY <2>1, <2>2, EndpointQuiet DEF PromptInv
  <2> QED BY <2>1, <2>3 DEF PromptInv, SingleOwner, ScheduledIsDue, Busy, OwnedBy
<1>2. CASE Others
  BY <1>2, PromptEndpoint, PromptSettle DEF Others
<1>3. CASE PromptTick
  BY <1>3, PromptTicks
<1>4. ASSUME NEW w \in Workers, WorkerStep(w) \/ Abandon(w) PROVE PromptInv'
  BY <1>4, PromptClaim, PromptVerify, PromptReadTask, PromptReadTransaction, PromptFinish,
     PromptAbandon DEF WorkerStep
<1> QED BY <1>1, <1>2, <1>3, <1>4 DEF PromptNext

\* The inductive invariant of prompt workers holds as long as no two stored events
\* say of one transaction that it is pending (reconcile_due_once, kora_webhook).
THEOREM PromptInvariance ==
    ReconInit /\ [][PromptNext]_reconVars /\ []OnePending => []PromptInv
BY InitPromptInv, NextPromptInv, PTL

\* The lease suffices: whatever workers die in between and whoever takes over,
\* reconcile_due_once never has two workers on one task.
THEOREM SingleOwnerAlways ==
    ReconInit /\ [][PromptNext]_reconVars /\ []OnePending => []SingleOwner
<1>1. PromptInv => SingleOwner
  BY DEF PromptInv
<1> QED BY <1>1, PromptInvariance, PTL

\* No scheduled task is lost: whatever reconcile_due_once and enqueue_reconciliation
\* write, a scheduled task has the due time by which the next worker finds it.
THEOREM ScheduledIsDueAlways ==
    ReconInit /\ [][PromptNext]_reconVars /\ []OnePending => []ScheduledIsDue
<1>1. PromptInv => ScheduledIsDue
  BY DEF PromptInv
<1> QED BY <1>1, PromptInvariance, PTL

=================================================================================
