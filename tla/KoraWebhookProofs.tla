--------------------------- MODULE KoraWebhookProofs ---------------------------
(***************************************************************************)
(* Proofs about KoraWebhook, for every set of transactions, refunds,       *)
(* events and concurrent requests.                                         *)
(*                                                                         *)
(* The inductive invariant says what a running request knows: the event it *)
(* owns is still "received" and nobody else's, and what it has read and    *)
(* decided fits the event and the rows.  That is all the exclusion the     *)
(* endpoint has: it takes no lock, only UNIQUE(event_id) keeps two         *)
(* requests from working on one event.                                     *)
(***************************************************************************)
EXTENDS KoraWebhook, FiniteSetTheorems, TLAPS

\* A stored event has a payload the endpoint understands.
InboxOK == \A e \in Events : inbox[e].status # "none" => inbox[e].msg \in Message

\* A refund row names its pay-in.
RefundOK == \A k \in RefundKeys : refund[k].status # "none" => refund[k].txn \in Payins

\* The transaction (and refund) a request has found is the one of its event.
Found(h) ==
    LET w == work[h] IN
    /\ w.txn \in Txns
    /\ Msg(h).kind = "refund" => w.refund \in RefundKeys /\ w.txn = refund[w.refund].txn
    /\ Msg(h).kind # "refund" => w.refund = None /\ w.txn = Msg(h).ref[1]

\* A request owns the event it works on.
Owns(h) == work[h].event \in Events /\ inbox[work[h].event].status = "received"

HandlerOK(h) ==
    LET w == work[h] IN
    /\ pc[h] # "idle" => Owns(h)
    /\ pc[h] = "match" => w.refund = None
    /\ pc[h] = "parent" => Msg(h).kind = "refund" /\ w.refund # None
    /\ pc[h] \in {"check", "enqueue"} => Found(h)
    /\ pc[h] = "check" => NeedsDebit(Msg(h), w.txn)
    /\ w.debit => pc[h] \in {"commit", "fail"} /\ Found(h) /\ NeedsDebit(Msg(h), w.txn)
    /\ w.plan # {} => pc[h] \in {"commit", "fail"} /\ w.txn \in Txns

Exclusive ==
    \A g, h \in Handlers :
        pc[g] # "idle" /\ pc[h] # "idle" /\ work[g].event = work[h].event => g = h

\* A refund that a request has read is a row with a pay-in.
RefundsRead ==
    \A h \in Handlers : work[h].refund # None => refund[work[h].refund].txn \in Payins

HandlersOK == \A h \in Handlers : HandlerOK(h)

IInv == /\ TypeOK /\ InboxOK /\ RefundOK /\ HandlersOK /\ Exclusive /\ RefundsRead
        /\ AppliedOnce /\ DebitsBacked
-------------------------------------------------------------------------------
(* Lemmas about the operators of the model.                                  *)

\* What a handler reads of a verified payload is well typed.
LEMMA MessageType ==
    ASSUME NEW m \in Message
    PROVE  /\ m.kind \in {"charge", "payout", "refund"}
           /\ m.outcome \in Outcome
           /\ m.kind = "charge" => m.ref \in Payins \X Spellings
           /\ m.kind = "payout" => m.ref \in Payouts \X Spellings
           /\ m.kind = "refund" => m.refund \in RefundKeys /\ m.ref \in Payins \X {"psp"}
           /\ m.ref \in TxnRef /\ m.ref[1] \in Txns
BY RowsAssumption DEF Message, TxnRef, Txns

\* The status an event asks for is a status of its table.
LEMMA StatusType ==
    ASSUME NEW outcome \in Outcome
    PROVE  /\ SettledStatus(outcome) \in PaymentStatus
           /\ RefundedStatus(outcome) \in RefundStatus \ {"none"}
BY DEF Outcome, SettledStatus, RefundedStatus, PaymentStatus, RefundStatus

\* What enqueue_reconciliation decides, and what its commit leaves, is well typed.
LEMMA PlanType ==
    ASSUME NEW row \in TaskRow
    PROVE  /\ EnqueuePlan(row) \subseteq {"insert", "state", "next"}
           /\ EnqueueDue(row) \in Nat
BY RowsAssumption DEF EnqueuePlan, EnqueueDue

LEMMA EnqueuedType ==
    ASSUME NEW row \in TaskRow, NEW w \in Work
    PROVE  EnqueuedTask(row, w) \in TaskRow
BY RowsAssumption DEF EnqueuedTask, TaskRow, TaskState, NoTask, Work

\* An idle request has well-typed, empty work.
LEMMA BlankType == Blank \in Work
BY RowsAssumption DEF Blank, Work, PaymentStatus, RefundStatus

-------------------------------------------------------------------------------
(* The steps of one request leave the others alone.                          *)

\* A request whose own event and work did not change knows what it knew.
LEMMA OtherKeeps ==
    ASSUME NEW g \in Handlers, HandlerOK(g),
           pc'[g] = pc[g], work'[g] = work[g],
           pc[g] # "idle" => inbox'[work[g].event] = inbox[work[g].event],
           \A k \in RefundKeys : refund'[k].txn = refund[k].txn
    PROVE  HandlerOK(g)'
BY DEF HandlerOK, Owns, Found, Msg, NeedsDebit

LEMMA TypeOfWork ==
    ASSUME TypeOK, NEW h \in Handlers
    PROVE  /\ work[h] \in Work
           /\ pc[h] \in Places
BY DEF TypeOK

\* A request moves on without touching a table: what it has found must fit.
LEMMA ReadStep ==
    ASSUME IInv, NEW h \in Handlers, pc[h] # "idle",
           NEW place \in Places \ {"idle"}, NEW w \in Work,
           Goto(h, place, w), w.event = work[h].event,
           UNCHANGED <<database, inbox, applied, acked>>,
           w.refund \in {None, work[h].refund} \/ refund[w.refund].txn \in Payins,
           HandlerOK(h)'
    PROVE  IInv'
<1> USE DEF IInv, database
<1>1. TypeOK'
  BY DEF TypeOK, Goto
<1>2. InboxOK' /\ RefundOK' /\ AppliedOnce' /\ DebitsBacked'
  BY DEF InboxOK, RefundOK, AppliedOnce, DebitsBacked, Backed
<1>3. HandlersOK'
  <2> SUFFICES ASSUME NEW g \in Handlers PROVE HandlerOK(g)'
    BY DEF HandlersOK
  <2>1. CASE g = h
    BY <2>1
  <2>2. CASE g # h
    BY <2>2, OtherKeeps DEF HandlersOK, Goto, TypeOK
  <2> QED BY <2>1, <2>2
<1>4. Exclusive' /\ RefundsRead'
  BY BlankType DEF Exclusive, RefundsRead, Goto, TypeOK, Blank
<1> QED BY <1>1, <1>2, <1>3, <1>4

\* A request that dies, or ends without an effect, forgets everything.
LEMMA IdleStep ==
    ASSUME IInv, NEW h \in Handlers,
           Goto(h, "idle", Blank),
           UNCHANGED <<database, inbox, applied, acked>>
    PROVE  IInv'
<1> USE DEF IInv, database
<1>1. TypeOK'
  BY BlankType DEF TypeOK, Goto, Places
<1>2. InboxOK' /\ RefundOK' /\ AppliedOnce' /\ DebitsBacked'
  BY DEF InboxOK, RefundOK, AppliedOnce, DebitsBacked, Backed
<1>3. HandlersOK'
  <2> SUFFICES ASSUME NEW g \in Handlers PROVE HandlerOK(g)'
    BY DEF HandlersOK
  <2>1. CASE g = h
    BY <2>1 DEF HandlerOK, Goto, TypeOK, Blank
  <2>2. CASE g # h
    BY <2>2, OtherKeeps DEF HandlersOK, Goto, TypeOK
  <2> QED BY <2>1, <2>2
<1>4. Exclusive' /\ RefundsRead'
  BY BlankType DEF Exclusive, RefundsRead, Goto, TypeOK, Blank
<1> QED BY <1>1, <1>2, <1>3, <1>4

-------------------------------------------------------------------------------
(* Every step preserves the invariant.                                       *)

LEMMA InitIInv == Init => IInv
<1> SUFFICES ASSUME Init PROVE IInv
  OBVIOUS
<1> USE DEF Init, WebhookInit
<1>1. TypeOK
  <2>1. refund \in [RefundKeys -> RefundRow]
    BY RowsAssumption DEF RefundRow, NoRefund, RefundStatus
  <2>2. task \in [Txns -> TaskRow]
    BY DEF TaskRow, NoTask, TaskState
  <2>3. inbox \in [Events -> InboxRow]
    BY DEF InboxRow, EventStatus
  <2> QED BY <2>1, <2>2, <2>3, BlankType DEF TypeOK, PaymentStatus, Places
<1>2. InboxOK /\ RefundOK /\ AppliedOnce /\ DebitsBacked
  BY DEF InboxOK, RefundOK, AppliedOnce, DebitsBacked, NoRefund
<1>3. HandlersOK /\ Exclusive /\ RefundsRead
  BY DEF HandlersOK, HandlerOK, Exclusive, RefundsRead, Blank
<1> QED BY <1>1, <1>2, <1>3 DEF IInv

LEMMA ReceiveIInv ==
    ASSUME IInv, NEW h \in Handlers, NEW e \in Events, NEW m \in Message,
           Receive(h, e, m)
    PROVE  IInv'
<1> USE DEF IInv, Receive, Fresh, Goto, database
<1> DEFINE w == [Blank EXCEPT !.event = e]
<1>0. w \in Work /\ w.event = e /\ ~w.debit /\ w.plan = {} /\ w.refund = None
  BY BlankType DEF Blank, Work
<1>1. TypeOK'
  BY <1>0 DEF TypeOK, Places, InboxRow, EventStatus
<1>2. InboxOK' /\ RefundOK'
  BY DEF InboxOK, RefundOK, TypeOK
<1>3. AppliedOnce'
  BY DEF AppliedOnce, TypeOK
<1>4. DebitsBacked'
  BY DEF DebitsBacked, Backed, TypeOK, Debit
<1>5. HandlersOK'
  <2> SUFFICES ASSUME NEW g \in Handlers PROVE HandlerOK(g)'
    BY DEF HandlersOK
  <2>1. CASE g = h
    BY <1>0, <2>1 DEF HandlerOK, Owns, TypeOK, Blank
  <2>2. CASE g # h
    <3>1. pc[g] # "idle" => inbox[work[g].event].status = "received"
      BY DEF HandlersOK, HandlerOK, Owns
    <3> QED BY <2>2, <3>1, OtherKeeps DEF HandlersOK, TypeOK
  <2> QED BY <2>1, <2>2
<1>6. Exclusive' /\ RefundsRead'
  BY <1>0 DEF Exclusive, RefundsRead, HandlersOK, HandlerOK, Owns, TypeOK
<1> QED BY <1>1, <1>2, <1>3, <1>4, <1>5, <1>6

LEMMA DuplicateIInv ==
    ASSUME IInv, NEW h \in Handlers, NEW e \in Events, Duplicate(h, e)
    PROVE  IInv'
<1> USE DEF IInv, Duplicate, database
<1>1. TypeOK'
  BY DEF TypeOK
<1>2. InboxOK' /\ RefundOK' /\ AppliedOnce' /\ DebitsBacked' /\ Exclusive' /\ RefundsRead'
  BY DEF InboxOK, RefundOK, AppliedOnce, DebitsBacked, Backed, Exclusive, RefundsRead
<1>3. HandlersOK'
  BY OtherKeeps DEF HandlersOK
<1> QED BY <1>1, <1>2, <1>3

LEMMA MatchTransactionIInv ==
    ASSUME IInv, NEW h \in Handlers, MatchTransaction(h)
    PROVE  IInv'
<1> USE DEF IInv
<1>1. /\ Owns(h) /\ Msg(h) \in Message /\ ~work[h].debit /\ work[h].plan = {}
      /\ work[h] \in Work
  BY TypeOfWork DEF MatchTransaction, HandlersOK, HandlerOK, Owns, InboxOK, Msg
<1>2. CASE \E place \in {"fail", "commit"} : Goto(h, place, work[h])
  <2>1. PICK place \in {"fail", "commit"} : Goto(h, place, work[h])
    BY <1>2
  <2>2. HandlerOK(h)'
    BY <1>1, <2>1 DEF HandlerOK, Owns, Goto, TypeOK, MatchTransaction
  <2> QED BY <1>1, <2>1, <2>2, ReadStep DEF MatchTransaction, Places
<1>3. ASSUME NEW t \in Txns, Matches(t, Msg(h).ref),
             Goto(h, CASE Msg(h).outcome = "pending" -> "enqueue"
                       [] NeedsDebit(Msg(h), t)       -> "check"
                       [] OTHER                       -> "commit",
                  [work[h] EXCEPT !.txn = t, !.status = status[t]])
      PROVE  IInv'
  <2> DEFINE w == [work[h] EXCEPT !.txn = t, !.status = status[t]]
             place == CASE Msg(h).outcome = "pending" -> "enqueue"
                        [] NeedsDebit(Msg(h), t)       -> "check"
                        [] OTHER                       -> "commit"
  <2>1. w \in Work /\ w.event = work[h].event /\ w.refund = work[h].refund
    BY <1>1 DEF Work, TypeOK
  <2>2. place \in {"enqueue", "check", "commit"} /\ (place = "check" => NeedsDebit(Msg(h), t))
    OBVIOUS
  <2>3. HandlerOK(h)'
    <3>1. /\ pc'[h] = place /\ work'[h] = w /\ Msg(h)' = Msg(h)
          /\ w.txn = t /\ w.refund = work[h].refund /\ w.debit = FALSE /\ w.plan = {}
      BY <1>1, <1>3 DEF Goto, TypeOK, Msg, MatchTransaction, Work
    <3>2. work[h].refund = None
      BY DEF HandlersOK, HandlerOK, MatchTransaction
    <3>3. Found(h)'
      BY <1>3, <3>1, <3>2 DEF Found, Matches, MatchTransaction
    <3> HIDE DEF w, place
    <3> QED BY <1>1, <2>1, <2>2, <3>1, <3>3 DEF HandlerOK, Owns, MatchTransaction
  <2> QED BY <1>3, <2>1, <2>2, <2>3, ReadStep DEF MatchTransaction, Places
<1> QED BY <1>2, <1>3 DEF MatchTransaction

LEMMA MatchRefundIInv ==
    ASSUME IInv, NEW h \in Handlers, MatchRefund(h)
    PROVE  IInv'
<1> USE DEF IInv
<1>1. /\ Owns(h) /\ ~work[h].debit /\ work[h].plan = {} /\ work[h] \in Work
      /\ Msg(h).kind = "refund"
  BY TypeOfWork DEF MatchRefund, HandlersOK, HandlerOK
<1>2. CASE Goto(h, "fail", work[h])
  <2>1. HandlerOK(h)'
    BY <1>1, <1>2 DEF HandlerOK, Owns, Goto, TypeOK, MatchRefund
  <2> QED BY <1>1, <1>2, <2>1, ReadStep DEF MatchRefund, Places
<1>3. ASSUME NEW k \in Newest(RefundMatches(Msg(h))),
             Goto(h, "parent", [work[h] EXCEPT !.refund = k, !.rstatus = refund[k].status])
      PROVE  IInv'
  <2> DEFINE w == [work[h] EXCEPT !.refund = k, !.rstatus = refund[k].status]
  <2>1. k \in RefundKeys /\ k # None /\ refund[k].status # "none"
    BY RowsAssumption DEF Newest, RefundMatches
  <2>2. w \in Work /\ w.event = work[h].event /\ w.refund = k /\ refund[k].txn \in Payins
    BY <1>1, <2>1 DEF Work, TypeOK, RefundRow, RefundOK
  <2>3. HandlerOK(h)'
    <3>1. /\ pc'[h] = "parent" /\ work'[h] = w /\ Msg(h)' = Msg(h)
          /\ w.debit = FALSE /\ w.plan = {}
      BY <1>1, <1>3 DEF Goto, TypeOK, Msg, MatchRefund, Work
    <3> QED BY <1>1, <2>1, <2>2, <3>1 DEF HandlerOK, Owns, RefundOK, MatchRefund, database
  <2> QED BY <1>3, <2>2, <2>3, ReadStep DEF MatchRefund, Places
<1> QED BY <1>2, <1>3 DEF MatchRefund

LEMMA LoadParentIInv ==
    ASSUME IInv, NEW h \in Handlers, LoadParent(h)
    PROVE  IInv'
<1> USE DEF IInv
<1> DEFINE t == refund[work[h].refund].txn
           w == [work[h] EXCEPT !.txn = t, !.status = status[t]]
           place == IF NeedsDebit(Msg(h), t) THEN "check" ELSE "commit"
<1>1. /\ Owns(h) /\ ~work[h].debit /\ work[h].plan = {} /\ work[h] \in Work
      /\ Msg(h).kind = "refund" /\ work[h].refund \in RefundKeys /\ t \in Txns
  BY TypeOfWork DEF LoadParent, HandlersOK, HandlerOK, RefundsRead, Txns, Work
<1>2. w \in Work /\ w.event = work[h].event /\ w.refund = work[h].refund /\ Goto(h, place, w)
  BY <1>1 DEF Work, TypeOK, LoadParent
<1>3. HandlerOK(h)'
  <2>1. /\ pc'[h] = place /\ work'[h] = w /\ Msg(h)' = Msg(h)
        /\ w.txn = t /\ w.refund = work[h].refund /\ w.debit = FALSE /\ w.plan = {}
    BY <1>1, <1>2 DEF Goto, TypeOK, Msg, LoadParent, Work
  <2> HIDE DEF w
  <2> QED BY <1>1, <1>2, <2>1 DEF HandlerOK, Owns, Found, LoadParent, database
<1> QED BY <1>2, <1>3, ReadStep DEF LoadParent, Places

LEMMA CheckEntryIInv ==
    ASSUME IInv, NEW h \in Handlers, CheckEntry(h)
    PROVE  IInv'
<1> USE DEF IInv
<1> DEFINE n == Cardinality(EntriesOf(h))
           w == [work[h] EXCEPT !.debit = (n = 0)]
           place == IF n > 1 THEN "fail" ELSE "commit"
<1>1. /\ Owns(h) /\ work[h].plan = {} /\ work[h] \in Work
      /\ Found(h) /\ NeedsDebit(Msg(h), work[h].txn)
  BY TypeOfWork DEF CheckEntry, HandlersOK, HandlerOK
<1>2. w \in Work /\ w.event = work[h].event /\ w.txn = work[h].txn
      /\ w.refund = work[h].refund /\ w.plan = {} /\ Goto(h, place, w)
  BY <1>1 DEF Work, CheckEntry
<1>3. HandlerOK(h)'
  <2>1. pc'[h] = place /\ work'[h] = w /\ Msg(h)' = Msg(h)
    BY <1>1, <1>2 DEF Goto, TypeOK, Msg, CheckEntry
  <2>2. place \in {"fail", "commit"}
    OBVIOUS
  <2> HIDE DEF w, place
  <2> QED BY <1>1, <1>2, <2>1, <2>2 DEF HandlerOK, Owns, Found, CheckEntry, database
<1> QED BY <1>2, <1>3, ReadStep DEF CheckEntry, Places

LEMMA EnqueueReadIInv ==
    ASSUME IInv, NEW h \in Handlers, EnqueueRead(h)
    PROVE  IInv'
<1> USE DEF IInv
<1> DEFINE row == task[work[h].txn]
           w == [work[h] EXCEPT !.plan = EnqueuePlan(row), !.next = EnqueueDue(row)]
<1>1. Owns(h) /\ ~work[h].debit /\ work[h] \in Work /\ work[h].txn \in Txns
  BY TypeOfWork DEF EnqueueRead, HandlersOK, HandlerOK, Found
<1>2. row \in TaskRow
  BY <1>1 DEF TypeOK
<1>3. EnqueuePlan(row) \subseteq {"insert", "state", "next"} /\ EnqueueDue(row) \in Nat
  BY <1>2, PlanType
<1>4. w \in Work /\ w.event = work[h].event /\ w.txn = work[h].txn /\ ~w.debit
      /\ w.refund = work[h].refund
  BY <1>1, <1>3 DEF Work
<1>5. HandlerOK(h)'
  <2>1. pc'[h] = "commit" /\ work'[h] = w
    BY DEF Goto, TypeOK, EnqueueRead
  <2> HIDE DEF w
  <2> QED BY <1>1, <1>4, <2>1 DEF HandlerOK, Owns, EnqueueRead
<1> QED BY <1>4, <1>5, ReadStep DEF EnqueueRead, Places

\* A statement that raises, the conflicting INSERT included.
LEMMA RaiseIInv ==
    ASSUME IInv, NEW h \in Handlers, Raise(h) \/ Conflict(h)
    PROVE  IInv'
<1> USE DEF IInv
<1>1. /\ pc[h] # "idle" /\ Goto(h, "fail", work[h])
      /\ UNCHANGED <<database, inbox, applied, acked>>
  BY DEF Raise, Conflict
<1>2. HandlerOK(h)'
  BY <1>1 DEF HandlersOK, HandlerOK, Owns, Found, Msg, NeedsDebit, Goto, TypeOK, database
<1> QED BY <1>1, <1>2, ReadStep, TypeOfWork DEF Places

LEMMA CrashIInv ==
    ASSUME IInv, NEW h \in Handlers, Crash(h)
    PROVE  IInv'
BY IdleStep DEF Crash

\* A request that gives its own event another verdict leaves the others alone.
LEMMA VerdictStep ==
    ASSUME IInv, NEW h \in Handlers, pc[h] # "idle", NEW s \in EventStatus \ {"none"},
           inbox' = [inbox EXCEPT ![work[h].event].status = s],
           Goto(h, "idle", Blank),
           \A k \in RefundKeys : refund'[k].txn = refund[k].txn
    PROVE  /\ inbox' \in [Events -> InboxRow]
           /\ pc' \in [Handlers -> Places] /\ work' \in [Handlers -> Work]
           /\ \A e \in Events : inbox'[e].msg = inbox[e].msg
           /\ InboxOK' /\ HandlersOK' /\ Exclusive' /\ RefundsRead'
<1> USE DEF IInv, Goto
<1>1. Owns(h)
  BY DEF HandlersOK, HandlerOK
<1>2. inbox' \in [Events -> InboxRow] /\ \A e \in Events : inbox'[e].msg = inbox[e].msg
  BY <1>1 DEF TypeOK, InboxRow, Owns
<1>3. pc' \in [Handlers -> Places] /\ work' \in [Handlers -> Work]
  BY BlankType DEF TypeOK, Places
<1>4. InboxOK'
  BY <1>1 DEF InboxOK, Owns, TypeOK
<1>5. HandlersOK'
  <2> SUFFICES ASSUME NEW g \in Handlers PROVE HandlerOK(g)'
    BY DEF HandlersOK
  <2>1. CASE g = h
    BY <2>1 DEF HandlerOK, TypeOK, Blank
  <2>2. CASE g # h
    <3>1. pc[g] # "idle" => work[g].event \in Events /\ work[g].event # work[h].event
      BY <2>2 DEF HandlersOK, HandlerOK, Owns, Exclusive
    <3>2. pc[g] # "idle" => inbox'[work[g].event] = inbox[work[g].event]
      BY <3>1 DEF TypeOK
    <3> QED BY <2>2, <3>2, OtherKeeps DEF HandlersOK, TypeOK
  <2> QED BY <2>1, <2>2
<1>6. Exclusive' /\ RefundsRead'
  BY DEF Exclusive, RefundsRead, TypeOK, Blank, Work
<1> QED BY <1>2, <1>3, <1>4, <1>5, <1>6

LEMMA FailIInv ==
    ASSUME IInv, NEW h \in Handlers, Fail(h)
    PROVE  IInv'
<1> USE DEF IInv, Fail, database
<1>1. Owns(h)
  BY DEF HandlersOK, HandlerOK
<1>2. /\ inbox' \in [Events -> InboxRow]
      /\ pc' \in [Handlers -> Places] /\ work' \in [Handlers -> Work]
      /\ \A e \in Events : inbox'[e].msg = inbox[e].msg
      /\ InboxOK' /\ HandlersOK' /\ Exclusive' /\ RefundsRead'
  <2>1. /\ pc[h] # "idle" /\ Goto(h, "idle", Blank)
        /\ inbox' = [inbox EXCEPT ![work[h].event].status = "failed"]
        /\ \A k \in RefundKeys : refund'[k].txn = refund[k].txn
    OBVIOUS
  <2>2. "failed" \in EventStatus \ {"none"}
    BY DEF EventStatus
  <2> QED BY <2>1, <2>2, VerdictStep
<1>3. TypeOK'
  BY <1>2 DEF TypeOK
<1>4. AppliedOnce'
  BY <1>1 DEF AppliedOnce, TypeOK, Owns
<1>5. DebitsBacked'
  BY <1>1 DEF DebitsBacked, Backed, TypeOK, Owns, Debit
<1> QED BY <1>2, <1>3, <1>4, <1>5 DEF RefundOK

\* The entry a request is about to write is well typed and backed by its event.
LEMMA NewDebitBacked ==
    ASSUME IInv, NEW h \in Handlers, pc[h] # "idle", work[h].debit
    PROVE  LET d == NewDebit(h) IN
           /\ d \in Debit
           /\ d.event = work[h].event
           /\ Msg(h).kind = d.kind /\ Msg(h).outcome = "success"
           /\ IF d.kind = "payout" THEN d.ref = Msg(h).ref /\ d.txn = d.ref[1]
              ELSE d.refund \in RefundKeys /\ d.txn = refund[d.refund].txn
<1> USE DEF IInv
<1>1. Owns(h) /\ Found(h) /\ NeedsDebit(Msg(h), work[h].txn) /\ Msg(h) \in Message
  BY DEF HandlersOK, HandlerOK, Owns, InboxOK, Msg
<1>2. Msg(h).kind \in {"payout", "refund"} /\ Msg(h).ref \in TxnRef
  BY <1>1, MessageType DEF NeedsDebit
<1> QED BY <1>1, <1>2 DEF NewDebit, Debit, Owns, Found, NeedsDebit

LEMMA CommitIInv ==
    ASSUME IInv, NEW h \in Handlers, Commit(h)
    PROVE  IInv'
<1> DEFINE w == work[h]
<1>1. Owns(h) /\ Msg(h) \in Message /\ w \in Work
  BY TypeOfWork DEF IInv, HandlersOK, HandlerOK, Commit, Owns, InboxOK, Msg
<1>2. \A k \in RefundKeys : refund'[k].txn = refund[k].txn
  BY DEF Commit, IInv, TypeOK, RefundRow
<1>3. /\ inbox' \in [Events -> InboxRow]
      /\ pc' \in [Handlers -> Places] /\ work' \in [Handlers -> Work]
      /\ \A e \in Events : inbox'[e].msg = inbox[e].msg
      /\ InboxOK' /\ HandlersOK' /\ Exclusive' /\ RefundsRead'
  <2>1. /\ pc[h] # "idle" /\ Goto(h, "idle", Blank)
        /\ inbox' = [inbox EXCEPT ![work[h].event].status = "processed"]
    BY DEF Commit
  <2>2. "processed" \in EventStatus \ {"none"}
    BY DEF EventStatus
  <2> QED BY <1>2, <2>1, <2>2, VerdictStep
<1>4. /\ NewStatus(h) \in PaymentStatus
      /\ RefundedStatus(Msg(h).outcome) \in RefundStatus \ {"none"}
  BY <1>1, MessageType, StatusType DEF NewStatus, Work, PaymentStatus
<1>5. refund' \in [RefundKeys -> RefundRow] /\ RefundOK'
  <2> DEFINE s == RefundedStatus(Msg(h).outcome)
  <2>1. refund' = refund \/ (w.refund # None /\ refund' = [refund EXCEPT ![w.refund].status = s])
    BY DEF Commit
  <2>2. refund \in [RefundKeys -> RefundRow] /\ RefundOK
    BY DEF IInv, TypeOK
  <2>3. w.refund # None => w.refund \in RefundKeys
    BY <1>1 DEF Work
  <2> HIDE DEF s, w
  <2>4. CASE refund' = refund
    BY <2>2, <2>4 DEF RefundOK
  <2>5. CASE w.refund # None /\ refund' = [refund EXCEPT ![w.refund].status = s]
    <3>1. refund' \in [RefundKeys -> RefundRow]
      BY <1>4, <2>2, <2>3, <2>5 DEF RefundRow, s
    <3>2. s # "none"
      BY <1>4 DEF s
    <3>3. w.refund # None => refund[w.refund].txn \in Payins
      BY DEF IInv, RefundsRead, w
    <3> QED BY <3>1, <3>2, <3>3, <1>2, <2>2, <2>3, <2>5 DEF RefundRow, RefundOK
  <2> QED BY <2>1, <2>4, <2>5
<1>6. TypeOK'
  <2>1. status' \in [Txns -> PaymentStatus]
    BY <1>4 DEF Commit, IInv, TypeOK
  <2>2. ledger' \subseteq Debit
    BY NewDebitBacked DEF Commit, IInv, TypeOK
  <2>3. task' \in [Txns -> TaskRow]
    BY <1>1, EnqueuedType DEF Commit, IInv, TypeOK
  <2>4. applied' \in [Events -> Nat] /\ acked' \subseteq Events
    BY <1>1 DEF Commit, IInv, TypeOK, Owns
  <2> QED BY <1>3, <1>5, <2>1, <2>2, <2>3, <2>4 DEF TypeOK, Commit, IInv
<1>7. AppliedOnce'
  BY <1>1 DEF AppliedOnce, Commit, IInv, TypeOK, Owns
<1>8. DebitsBacked'
  <2>1. ledger \subseteq ledger' /\ \A d \in ledger' \ ledger : w.debit /\ d = NewDebit(h)
    BY DEF Commit
  <2>2. \A d \in ledger : d.event # w.event /\ Backed(d)'
    <3> SUFFICES ASSUME NEW d \in ledger PROVE d.event # w.event /\ Backed(d)'
      OBVIOUS
    <3>0. d \in Debit /\ Backed(d)
      BY DEF IInv, TypeOK, DebitsBacked
    <3>1. d \in Debit /\ Backed(d) /\ d.event # w.event
      BY <1>1, <3>0 DEF Backed, Owns
    <3>2. inbox'[d.event] = inbox[d.event]
      BY <3>1 DEF Commit, Debit, IInv, TypeOK
    <3>3. d.kind = "refund" => refund'[d.refund].txn = refund[d.refund].txn
      BY <3>1, <1>2 DEF Debit, Commit, IInv, TypeOK
    <3> QED BY <3>1, <3>2, <3>3 DEF Debit, Backed
  <2>3. \A d \in ledger' \ ledger : d.event = w.event /\ Backed(d)'
    <3> SUFFICES ASSUME NEW d \in ledger' \ ledger PROVE d.event = w.event /\ Backed(d)'
      OBVIOUS
    <3>0. w.debit /\ d = NewDebit(h)
      BY <2>1
    <3>1. /\ d.event = w.event /\ Msg(h).kind = d.kind /\ Msg(h).outcome = "success"
          /\ IF d.kind = "payout" THEN d.ref = Msg(h).ref /\ d.txn = d.ref[1]
             ELSE d.refund \in RefundKeys /\ d.txn = refund[d.refund].txn
      BY <3>0, NewDebitBacked DEF Commit
    <3>2. inbox'[w.event].status = "processed" /\ inbox'[w.event].msg = Msg(h)
      BY <1>1, <1>3 DEF Commit, Owns, IInv, TypeOK, Msg
    <3> HIDE DEF w
    <3> QED BY <1>2, <3>1, <3>2 DEF Backed
  <2> HIDE DEF w
  <2>4. \A d \in ledger' : Backed(d)'
    BY <2>2, <2>3
  <2>5. \A c, d \in ledger' : c.event = d.event => c = d
    <3> SUFFICES ASSUME NEW c \in ledger', NEW d \in ledger', c.event = d.event PROVE c = d
      OBVIOUS
    <3>1. CASE c \in ledger /\ d \in ledger
      BY <3>1 DEF IInv, DebitsBacked
    <3>2. CASE c \notin ledger /\ d \notin ledger
      BY <3>2, <2>1
    <3> QED BY <3>1, <3>2, <2>2, <2>3
  <2> QED BY <2>4, <2>5 DEF DebitsBacked
<1> QED BY <1>3, <1>5, <1>6, <1>7, <1>8 DEF IInv

\* The invariant is inductive.
LEMMA NextIInv == IInv /\ [Next]_vars => IInv'
<1> SUFFICES ASSUME IInv, [Next]_vars PROVE IInv'
  OBVIOUS
<1>1. CASE UNCHANGED vars
  <2> USE <1>1 DEF vars, database
  <2>1. TypeOK' /\ InboxOK' /\ RefundOK'
    BY DEF IInv, TypeOK, InboxOK, RefundOK
  <2>2. AppliedOnce' /\ DebitsBacked' /\ Exclusive' /\ RefundsRead'
    BY DEF IInv, AppliedOnce, DebitsBacked, Backed, Exclusive, RefundsRead
  <2>3. HandlersOK'
    BY OtherKeeps DEF IInv, HandlersOK
  <2> QED BY <2>1, <2>2, <2>3 DEF IInv
<1>2. ASSUME NEW h \in Handlers, NEW e \in Events, Duplicate(h, e)
      PROVE  IInv'
  BY <1>2, DuplicateIInv
<1>3. ASSUME NEW h \in Handlers, NEW e \in Events, NEW m \in Message, Receive(h, e, m)
      PROVE  IInv'
  BY <1>3, ReceiveIInv
<1>4. ASSUME NEW h \in Handlers, HandlerStep(h)
      PROVE  IInv'
  BY <1>4, MatchTransactionIInv, MatchRefundIInv, LoadParentIInv, CheckEntryIInv,
     EnqueueReadIInv, CommitIInv, RaiseIInv, FailIInv
     DEF HandlerStep, QuietStep
<1>5. ASSUME NEW h \in Handlers, Crash(h)
      PROVE  IInv'
  BY <1>5, CrashIInv
<1> QED BY <1>1, <1>2, <1>3, <1>4, <1>5 DEF Next

-------------------------------------------------------------------------------
(* Theorems.                                                                 *)

\* The inductive invariant holds: what the other theorems rest on.
THEOREM Invariance == Spec => []IInv
BY InitIInv, NextIInv, PTL DEF Spec

\* Every table and every request stays in its domain.
THEOREM TypeCorrect == Spec => []TypeOK
<1>1. IInv => TypeOK
  BY DEF IInv
<1> QED BY <1>1, Invariance, PTL

\* However many requests process however many deliveries of an event, and
\* wherever they die, its business effect is committed once or not at all.
THEOREM AtMostOnce == Spec => []AppliedOnce
<1>1. IInv => AppliedOnce
  BY DEF IInv
<1> QED BY <1>1, Invariance, PTL

\* Every ledger entry has its own processed success event about its transaction.
THEOREM NoDebitWithoutCause == Spec => []DebitsBacked
<1>1. IInv => DebitsBacked
  BY DEF IInv
<1> QED BY <1>1, Invariance, PTL

-------------------------------------------------------------------------------
(* The endpoint implements EventInbox.                                       *)

verdict == [e \in Events |-> inbox[e].status]
rows == <<status, pspRef, refund, task>>

\* Every step of the endpoint accepts, applies or refuses one event, or is
\* invisible in the inbox and the business tables.
LEMMA StepImplements ==
    ASSUME IInv, [Next]_vars
    PROVE  [Inbox!Next]_<<verdict, ledger, rows>>
<1> DEFINE Stutter == UNCHANGED <<database, inbox>>
<1>1. ASSUME Stutter PROVE UNCHANGED <<verdict, ledger, rows>>
  BY <1>1 DEF database, verdict, rows
<1>2. CASE UNCHANGED vars
  BY <1>1, <1>2 DEF vars
<1>3. ASSUME NEW h \in Handlers, NEW e \in Events, Duplicate(h, e)
      PROVE  Stutter
  BY <1>3 DEF Duplicate
<1>4. ASSUME NEW h \in Handlers, NEW e \in Events, NEW m \in Message, Receive(h, e, m)
      PROVE  Inbox!Accept(e)
  BY <1>4 DEF Receive, Fresh, Inbox!Accept, IInv, TypeOK, database
<1>5. ASSUME NEW h \in Handlers, Commit(h), NEW e \in Events, e = work[h].event
      PROVE  Inbox!Apply(e)
  <2>1. Owns(h)
    BY <1>5 DEF IInv, HandlersOK, HandlerOK, Commit
  <2>2. verdict[e] = "received" /\ verdict' = [verdict EXCEPT ![e] = "processed"]
    BY <1>5, <2>1 DEF verdict, Commit, Owns, IInv, TypeOK
  <2>3. \A d \in ledger' \ ledger : d = NewDebit(h) /\ d.event = e
    BY <1>5 DEF Commit, NewDebit
  <2>4. ledger \subseteq ledger'
    BY <1>5 DEF Commit
  <2> QED BY <2>2, <2>3, <2>4 DEF Inbox!Apply, verdict
<1>6. ASSUME NEW h \in Handlers, Fail(h), NEW e \in Events, e = work[h].event
      PROVE  Inbox!Refuse(e)
  BY <1>6 DEF Fail, Inbox!Refuse, IInv, HandlersOK, HandlerOK, Owns, TypeOK, database
<1>7. ASSUME NEW h \in Handlers, Crash(h) \/ (HandlerStep(h) /\ ~Commit(h) /\ ~Fail(h))
      PROVE  Stutter
  BY <1>7 DEF Crash, HandlerStep, QuietStep, MatchTransaction, MatchRefund, LoadParent,
              CheckEntry, EnqueueRead, Conflict, Raise
<1>8. \A h \in Handlers : Commit(h) \/ Fail(h) => work[h].event \in Events
  BY DEF IInv, HandlersOK, HandlerOK, Owns, Commit, Fail
<1>9. CASE Next
  <2>1. PICK h \in Handlers :
          \/ \E e \in Events : Duplicate(h, e) \/ \E m \in Message : Receive(h, e, m)
          \/ HandlerStep(h)
          \/ Crash(h)
    BY <1>9 DEF Next
  <2>2. CASE \E e \in Events, m \in Message : Receive(h, e, m)
    BY <1>4, <2>2 DEF Inbox!Next
  <2>3. CASE Commit(h)
    BY <1>5, <1>8, <2>3 DEF Inbox!Next
  <2>4. CASE Fail(h)
    BY <1>6, <1>8, <2>4 DEF Inbox!Next
  <2>5. CASE \E e \in Events : Duplicate(h, e)
    BY <1>1, <1>3, <2>5
  <2>6. CASE Crash(h) \/ (HandlerStep(h) /\ ~Commit(h) /\ ~Fail(h))
    BY <1>1, <1>7, <2>6
  <2> QED BY <2>1, <2>2, <2>3, <2>4, <2>5, <2>6
<1> QED BY <1>1, <1>2, <1>9

\* The endpoint implements its promise: every event is accepted once, then
\* decided once, and the tables change only in the step that applies it.
THEOREM Implementation == Spec => AtomicInbox
<1>1. Init => Inbox!Init
  BY DEF Init, WebhookInit, Inbox!Init, NoMessage
<1>2. IInv /\ [Next]_vars => [Inbox!Next]_<<verdict, ledger, rows>>
  BY StepImplements
<1> QED BY <1>1, <1>2, Invariance, PTL DEF Spec, AtomicInbox, Inbox!Spec, verdict, rows

-------------------------------------------------------------------------------
(* A status has a cause: the transaction a request is about to change is the *)
(* one its event names.                                                      *)

FoundOK(h) ==
    /\ pc[h] = "match" => work[h].txn = None
    /\ pc[h] # "idle" /\ work[h].refund # None => work[h].refund \in RefundMatches(Msg(h))
    /\ pc[h] \in {"check", "enqueue", "commit"} /\ work[h].txn # None => Found(h)

\* A refund has its row, and an entry of a refund names one that does.
Exists(k) == refund[k].status # "none"
LedgerRows == \A d \in ledger : d.kind = "refund" => d.refund \in RefundKeys /\ Exists(d.refund)

FoundInv == IInv /\ LedgerRows /\ \A h \in Handlers : FoundOK(h)

\* A refund row keeps its pay-in, and stays.
RefundsStay ==
    \A k \in RefundKeys : /\ refund'[k].txn = refund[k].txn
                          /\ refund[k].status # "none" => refund'[k].status # "none"

\* A request whose own event and work did not change still has found its own.
LEMMA OtherFinds ==
    ASSUME NEW g \in Handlers, FoundOK(g),
           pc'[g] = pc[g], work'[g] = work[g],
           pc[g] # "idle" => inbox'[work[g].event] = inbox[work[g].event],
           RefundsStay
    PROVE  FoundOK(g)'
BY DEF FoundOK, Found, Msg, RefundMatches, RefundsStay

\* A step of one request leaves the work of the others, the payload of every
\* event they own, and the pay-in of every refund, as they are.
LEMMA StepKeeps ==
    ASSUME IInv, NEW h \in Handlers, HandlerStep(h) \/ Crash(h)
    PROVE  /\ \A g \in Handlers \ {h} :
                 /\ pc'[g] = pc[g] /\ work'[g] = work[g]
                 /\ pc[g] # "idle" => inbox'[work[g].event] = inbox[work[g].event]
           /\ RefundsStay
<1>1. RefundsStay
  <2>1. CASE Commit(h)
    <3>1. work[h].event \in Events /\ Msg(h).outcome \in Outcome
      BY <2>1, MessageType DEF Commit, IInv, InboxOK, HandlersOK, HandlerOK, Owns, Msg
    <3>2. RefundedStatus(Msg(h).outcome) # "none"
      BY <3>1, StatusType
    <3> QED BY <2>1, <3>2 DEF RefundsStay, Commit, IInv, TypeOK, RefundRow
  <2>2. CASE ~Commit(h)
    BY <2>2 DEF RefundsStay, HandlerStep, QuietStep, MatchTransaction, MatchRefund, LoadParent,
                CheckEntry, EnqueueRead, Conflict, Fail, Raise, Crash, database
  <2> QED BY <2>1, <2>2
<1>2. \A g \in Handlers \ {h} : pc'[g] = pc[g] /\ work'[g] = work[g]
  <2> USE DEF Goto, IInv, TypeOK
  <2>1. CASE MatchTransaction(h) \/ MatchRefund(h)
    BY <2>1 DEF MatchTransaction, MatchRefund
  <2>2. CASE LoadParent(h) \/ CheckEntry(h) \/ EnqueueRead(h)
    BY <2>2 DEF LoadParent, CheckEntry, EnqueueRead
  <2>3. CASE Commit(h) \/ Conflict(h) \/ Fail(h) \/ Raise(h) \/ Crash(h)
    BY <2>3 DEF Commit, Conflict, Fail, Raise, Crash
  <2> QED BY <2>1, <2>2, <2>3 DEF HandlerStep, QuietStep
<1>3. ASSUME NEW g \in Handlers \ {h}, pc[g] # "idle"
      PROVE  inbox'[work[g].event] = inbox[work[g].event]
  <2>1. CASE Commit(h) \/ Fail(h)
    <3>1. pc[h] # "idle" /\ work[h].event \in Events
      BY <2>1 DEF Commit, Fail, IInv, HandlersOK, HandlerOK, Owns
    <3>2. work[g].event \in Events \ {work[h].event}
      BY <1>3, <3>1 DEF IInv, Exclusive, HandlersOK, HandlerOK, Owns
    <3>3. \A e \in Events \ {work[h].event} : inbox'[e] = inbox[e]
      BY <2>1 DEF Commit, Fail, IInv, TypeOK
    <3> QED BY <3>2, <3>3
  <2>2. CASE ~Commit(h) /\ ~Fail(h)
    BY <2>2 DEF HandlerStep, QuietStep, MatchTransaction, MatchRefund, LoadParent,
                CheckEntry, EnqueueRead, Conflict, Raise, Crash
  <2> QED BY <2>1, <2>2
<1> QED BY <1>1, <1>2, <1>3

\* A request that reads finds what its event names.
LEMMA ReadFinds ==
    ASSUME NEW h \in Handlers, work'[h] \in Work,
           work'[h].event = work[h].event, inbox' = inbox, refund' = refund,
           pc'[h] # "match",
           work'[h].refund # None => work'[h].refund \in RefundMatches(Msg(h)),
           work'[h].txn # None /\ pc'[h] # "fail" =>
              /\ work'[h].txn \in Txns
              /\ Msg(h).kind = "refund" => /\ work'[h].refund \in RefundKeys
                                           /\ work'[h].txn = refund[work'[h].refund].txn
              /\ Msg(h).kind # "refund" => /\ work'[h].refund = None
                                           /\ work'[h].txn = Msg(h).ref[1]
    PROVE  FoundOK(h)'
BY DEF FoundOK, Found, Msg, RefundMatches

\* What a step of a request does to what that request has found.
LEMMA OwnFinds ==
    ASSUME FoundInv, NEW h \in Handlers, HandlerStep(h) \/ Crash(h)
    PROVE  FoundOK(h)'
<1> USE DEF FoundInv, IInv
<1>0. /\ work[h] \in Work /\ FoundOK(h) /\ HandlerOK(h)
      /\ pc[h] # "idle" => Msg(h) \in Message
  BY TypeOfWork DEF HandlersOK, HandlerOK, Owns, InboxOK, Msg
<1>1. CASE MatchTransaction(h)
  <2> DEFINE m == Msg(h)
  <2>1. /\ m \in Message /\ m.kind # "refund" /\ inbox' = inbox /\ refund' = refund
        /\ work[h].refund = None /\ work[h].txn = None
    BY <1>0, <1>1 DEF MatchTransaction, HandlerOK, FoundOK, database
  <2>2. CASE \E place \in {"fail", "commit"} : Goto(h, place, work[h])
    BY <1>0, <2>1, <2>2, ReadFinds DEF Goto, TypeOK
  <2>3. ASSUME NEW t \in Txns, t = m.ref[1], NEW place \in {"enqueue", "check", "commit"},
               Goto(h, place, [work[h] EXCEPT !.txn = t, !.status = status[t]])
        PROVE  FoundOK(h)'
    <3> DEFINE w == [work[h] EXCEPT !.txn = t, !.status = status[t]]
    <3>1. pc'[h] = place /\ work'[h] = w
      BY <2>3 DEF Goto, TypeOK
    <3>2. /\ w \in Work /\ w.event = work[h].event /\ w.txn = t /\ w.refund = None
      BY <1>0, <2>1 DEF Work, TypeOK
    <3> HIDE DEF w
    <3> QED BY <2>1, <2>3, <3>1, <3>2, ReadFinds
  <2> QED BY <1>1, <2>1, <2>2, <2>3 DEF MatchTransaction, Matches
<1>2. CASE MatchRefund(h)
  <2>1. CASE Goto(h, "fail", work[h])
    BY <1>0, <1>2, <2>1, ReadFinds DEF Goto, TypeOK, MatchRefund, HandlerOK, database
  <2>2. ASSUME NEW k \in RefundMatches(Msg(h)),
               Goto(h, "parent", [work[h] EXCEPT !.refund = k, !.rstatus = refund[k].status])
        PROVE  FoundOK(h)'
    <3> DEFINE w == [work[h] EXCEPT !.refund = k, !.rstatus = refund[k].status]
    <3>1. pc'[h] = "parent" /\ work'[h] = w
      BY <2>2 DEF Goto, TypeOK
    <3>2. w.event = work[h].event /\ w.refund = k
      BY <1>0 DEF Work
    <3> HIDE DEF w
    <3> QED BY <1>2, <2>2, <3>1, <3>2 DEF FoundOK, MatchRefund, Msg, RefundMatches, database
  <2> QED BY <1>2, <2>1, <2>2 DEF MatchRefund, Newest
<1>3. CASE LoadParent(h)
  <2> DEFINE t == refund[work[h].refund].txn
             w == [work[h] EXCEPT !.txn = t, !.status = status[t]]
  <2>1. /\ Msg(h).kind = "refund" /\ work[h].refund \in RefundMatches(Msg(h))
        /\ work[h].refund \in RefundKeys /\ t \in Txns
    BY <1>0, <1>3 DEF LoadParent, HandlerOK, FoundOK, RefundsRead, Work, Txns
  <2>2. w \in Work /\ w.event = work[h].event /\ w.txn = t /\ w.refund = work[h].refund
    BY <1>0, <2>1 DEF Work, TypeOK
  <2>3. work'[h] = w /\ pc'[h] \in {"check", "commit"} /\ inbox' = inbox /\ refund' = refund
    BY <1>3 DEF LoadParent, Goto, TypeOK, database
  <2> HIDE DEF w
  <2> QED BY <2>1, <2>2, <2>3, ReadFinds
<1>4. CASE CheckEntry(h) \/ EnqueueRead(h)
  <2>1. Found(h) /\ (work[h].refund # None => work[h].refund \in RefundMatches(Msg(h)))
    BY <1>0, <1>4 DEF CheckEntry, EnqueueRead, HandlerOK, FoundOK
  <2>2. /\ inbox' = inbox /\ refund' = refund /\ pc'[h] \in {"fail", "commit"}
        /\ \/ \E b \in BOOLEAN : work'[h] = [work[h] EXCEPT !.debit = b]
           \/ \E p, n : work'[h] = [work[h] EXCEPT !.plan = p, !.next = n]
    <3>1. CASE CheckEntry(h)
      BY <3>1 DEF CheckEntry, Goto, TypeOK, database
    <3>2. CASE EnqueueRead(h)
      BY <3>2 DEF EnqueueRead, Goto, TypeOK, database
    <3> QED BY <1>4, <3>1, <3>2
  <2>3. /\ work'[h].txn = work[h].txn /\ work'[h].refund = work[h].refund
        /\ work'[h].event = work[h].event
    BY <1>0, <2>2 DEF Work
  <2> QED BY <2>1, <2>2, <2>3 DEF FoundOK, Found, Msg, RefundMatches
<1>5. CASE Conflict(h) \/ Raise(h)
  <2>1. /\ work'[h] = work[h] /\ pc'[h] = "fail" /\ pc[h] # "idle"
        /\ inbox' = inbox /\ refund' = refund
    BY <1>5 DEF Conflict, Raise, Goto, TypeOK, database
  <2> QED BY <1>0, <2>1 DEF FoundOK, Msg, RefundMatches
<1>6. CASE Commit(h) \/ Fail(h) \/ Crash(h)
  <2>1. pc'[h] = "idle"
    BY <1>6 DEF Commit, Fail, Crash, Goto, TypeOK
  <2> QED BY <2>1 DEF FoundOK
<1> QED BY <1>1, <1>2, <1>3, <1>4, <1>5, <1>6 DEF HandlerStep, QuietStep

\* A commit writes an entry of a refund for the row that its event has found.
LEMMA CommitRows ==
    ASSUME FoundInv, NEW h \in Handlers, Commit(h)
    PROVE  LedgerRows'
<1> USE DEF FoundInv, IInv
<1>1. RefundsStay
  BY StepKeeps DEF HandlerStep, QuietStep
<1>2. ASSUME NEW d \in ledger', d.kind = "refund"
      PROVE  d.refund \in RefundKeys /\ Exists(d.refund)
  <2>1. CASE d \in ledger
    BY <1>2, <2>1 DEF LedgerRows
  <2>2. CASE d \notin ledger
    <3>1. work[h].debit /\ d = NewDebit(h)
      BY <2>2 DEF Commit
    <3>2. Msg(h).kind = "refund" /\ d.refund = work[h].refund
      BY <1>2, <3>1 DEF NewDebit
    <3>3. work[h].refund \in RefundMatches(Msg(h))
      BY <3>1, <3>2, RowsAssumption DEF HandlersOK, HandlerOK, Found, FoundOK, Commit
    <3> QED BY <3>2, <3>3 DEF RefundMatches, Exists
  <2> QED BY <2>1, <2>2
<1> QED BY <1>1, <1>2 DEF LedgerRows, RefundsStay, Exists

LEMMA NextFoundInv == FoundInv /\ [Next]_vars => FoundInv'
<1> SUFFICES ASSUME FoundInv, [Next]_vars
             PROVE  LedgerRows' /\ \A h \in Handlers : FoundOK(h)'
  BY NextIInv DEF FoundInv
<1> USE DEF FoundInv
<1>5. LedgerRows'
  <2>1. ASSUME NEW h \in Handlers, Commit(h) PROVE LedgerRows'
    BY <2>1, CommitRows
  <2>2. CASE UNCHANGED <<refund, ledger>>
    BY <2>2 DEF LedgerRows, Exists
  <2>3. (\E h \in Handlers : Commit(h)) \/ UNCHANGED <<refund, ledger>>
    BY DEF Next, vars, database, Duplicate, Receive, HandlerStep, QuietStep, MatchTransaction,
           MatchRefund, LoadParent, CheckEntry, EnqueueRead, Conflict, Fail, Raise, Crash
  <2> QED BY <2>1, <2>2, <2>3
<1>1. CASE UNCHANGED vars
  BY <1>1, <1>5, OtherFinds DEF vars, database, RefundsStay
<1>2. ASSUME NEW h \in Handlers, NEW e \in Events, Duplicate(h, e)
      PROVE  \A g \in Handlers : FoundOK(g)'
  BY <1>2, OtherFinds DEF Duplicate, database, RefundsStay
<1>3. ASSUME NEW h \in Handlers, NEW e \in Events, NEW m \in Message, Receive(h, e, m),
             NEW g \in Handlers
      PROVE  FoundOK(g)'
  <2>1. CASE g = h
    BY <1>3, <2>1 DEF Receive, Goto, FoundOK, Blank, IInv, TypeOK, database
  <2>2. CASE g # h
    <3>1. pc'[g] = pc[g] /\ work'[g] = work[g] /\ refund' = refund
      BY <1>3, <2>2 DEF Receive, Goto, IInv, TypeOK, database
    <3>2. pc[g] # "idle" => inbox'[work[g].event] = inbox[work[g].event]
      BY <1>3 DEF Receive, Fresh, IInv, TypeOK, HandlersOK, HandlerOK, Owns
    <3> QED BY <3>1, <3>2, OtherFinds DEF RefundsStay
  <2> QED BY <2>1, <2>2
<1>4. ASSUME NEW h \in Handlers, HandlerStep(h) \/ Crash(h), NEW g \in Handlers
      PROVE  FoundOK(g)'
  <2>1. CASE g = h
    BY <1>4, <2>1, OwnFinds
  <2>2. CASE g # h
    BY <1>4, <2>2, StepKeeps, OtherFinds
  <2> QED BY <2>1, <2>2
<1> QED BY <1>1, <1>2, <1>3, <1>4, <1>5 DEF Next

-------------------------------------------------------------------------------
(* What other parts of the hub need to know of the endpoint's steps.         *)

HandlerNext(h) == \/ \E e \in Events : Duplicate(h, e) \/ \E m \in Message : Receive(h, e, m)
                  \/ HandlerStep(h)
                  \/ Crash(h)

NewEvent(e) == inbox[e].status = "none" /\ inbox'[e].status # "none"

\* The payload of a stored event stays, and only a delivery stores one.
LEMMA EventsKept ==
    ASSUME IInv, NEW h \in Handlers, HandlerNext(h), NEW e \in Events
    PROVE  /\ inbox[e].status # "none" => inbox'[e].status # "none" /\ inbox'[e].msg = inbox[e].msg
           /\ NewEvent(e) => \E f \in Events, m \in Message : Receive(h, f, m)
<1>1. ASSUME NEW f \in Events, NEW m \in Message, Receive(h, f, m)
      PROVE  inbox[e].status # "none" => inbox'[e].status # "none" /\ inbox'[e].msg = inbox[e].msg
  <2>1. inbox[f].status = "none" /\ (e # f => inbox'[e] = inbox[e])
    BY <1>1 DEF Receive, Fresh, IInv, TypeOK
  <2> QED BY <2>1
<1>2. CASE Commit(h) \/ Fail(h)
  <2>1. inbox[e] \in InboxRow /\ inbox[work[h].event].status = "received"
    BY <1>2 DEF Commit, Fail, IInv, TypeOK, HandlersOK, HandlerOK, Owns
  <2>2. \E s \in {"processed", "failed"} : inbox' = [inbox EXCEPT ![work[h].event].status = s]
    BY <1>2 DEF Commit, Fail
  <2>3. inbox'[e].msg = inbox[e].msg /\ (inbox'[e].status = "none" <=> inbox[e].status = "none")
    BY <2>1, <2>2 DEF InboxRow, IInv, TypeOK
  <2> QED BY <2>3 DEF NewEvent
<1>3. CASE inbox' = inbox
  BY <1>3 DEF NewEvent
<1> QED
  BY <1>1, <1>2, <1>3 DEF HandlerNext, HandlerStep, QuietStep, Duplicate, MatchTransaction,
         MatchRefund, LoadParent, CheckEntry, EnqueueRead, Conflict, Raise, Crash

\* What a delivery stores is what was delivered.
LEMMA NewIsDelivered ==
    ASSUME IInv, NEW h \in Handlers, NEW f \in Events, NEW m \in Message, Receive(h, f, m),
           NEW e \in Events, NewEvent(e)
    PROVE  inbox'[e].msg = m
BY DEF Receive, NewEvent, IInv, TypeOK

LEMMA StepStoresNothing ==
    ASSUME IInv, NEW h \in Handlers,
           (\E e \in Events : Duplicate(h, e)) \/ HandlerStep(h) \/ Crash(h),
           NEW e \in Events
    PROVE  ~NewEvent(e)
<1>1. CASE Commit(h) \/ Fail(h)
  BY <1>1 DEF NewEvent, Commit, Fail, IInv, TypeOK, InboxRow, HandlersOK, HandlerOK, Owns
<1>2. CASE inbox' = inbox
  BY <1>2 DEF NewEvent
<1> QED
  BY <1>1, <1>2 DEF HandlerStep, QuietStep, Duplicate, MatchTransaction, MatchRefund, LoadParent,
         CheckEntry, EnqueueRead, Conflict, Raise, Crash

\* But for its commits, a request changes no business table.
LEMMA OnlyCommits ==
    ASSUME NEW h \in Handlers, HandlerNext(h), ~Commit(h)
    PROVE  UNCHANGED database
BY DEF HandlerNext, HandlerStep, QuietStep, Duplicate, Receive, MatchTransaction, MatchRefund,
       LoadParent, CheckEntry, EnqueueRead, Conflict, Fail, Raise, Crash, database

\* It keeps every refund, its pay-in and its amount.
LEMMA RefundsKept ==
    ASSUME IInv, NEW h \in Handlers, HandlerNext(h), NEW k \in RefundKeys
    PROVE  /\ Exists(k) => Exists(k)'
           /\ refund'[k].txn = refund[k].txn /\ refund'[k].amount = refund[k].amount
<1>1. CASE Commit(h)
  <2>1. RefundsStay
    BY <1>1, StepKeeps DEF HandlerStep, QuietStep
  <2>2. refund'[k].amount = refund[k].amount
    BY <1>1 DEF Commit, IInv, TypeOK, RefundRow
  <2> QED BY <2>1, <2>2 DEF RefundsStay, Exists
<1>2. CASE ~Commit(h)
  BY <1>2, OnlyCommits DEF database, Exists
<1> QED BY <1>1, <1>2

\* A step of the endpoint is a step of KoraWebhook.
LEMMA HandlerIsNext == ASSUME NEW h \in Handlers, HandlerNext(h) PROVE Next
BY DEF HandlerNext, Next

\* Only a commit changes a status, and it is the one its event asks for.
LEMMA CommitCaused ==
    ASSUME FoundInv, NEW h \in Handlers, Commit(h), NEW t \in Txns,
           status'[t] # status[t]
    PROVE  \E e \in Events : /\ inbox[e].status = "received"
                             /\ inbox'[e].status = "processed"
                             /\ SaysSo(inbox[e].msg, t)
<1> DEFINE e == work[h].event
           m == inbox[e].msg
           k == work[h].refund
<1> USE DEF FoundInv, IInv, TypeOK
<1>1. /\ e \in Events /\ inbox[e].status = "received" /\ m \in Message
  BY DEF Commit, HandlersOK, HandlerOK, Owns, InboxOK
<1>2. inbox'[e].status = "processed"
  BY <1>1 DEF Commit
<1>3. /\ work[h].txn = t /\ NewStatus(h) # work[h].status
      /\ status'[t] = NewStatus(h)
  BY DEF Commit
<1>4. Found(h) /\ (k # None => k \in RefundMatches(m))
  BY <1>3, RowsAssumption DEF FoundOK, Commit, Msg
<1>5. CASE m.kind = "refund"
  <2>1. m.outcome = "success" /\ status'[t] = "refunded"
    BY <1>3, <1>5 DEF NewStatus, Msg
  <2>2. k \in RefundMatches(m) /\ refund[k].txn = t
    BY <1>3, <1>4, <1>5, RowsAssumption DEF Found, Msg
  <2> QED BY <1>1, <1>2, <1>5, <2>1, <2>2 DEF SaysSo
<1>6. CASE m.kind # "refund"
  <2>1. m.ref[1] = t
    BY <1>3, <1>4, <1>6 DEF Found, Msg
  <2>2. status'[t] = SettledStatus(m.outcome) /\ m.outcome \in Outcome
    BY <1>1, <1>3, <1>6, MessageType DEF NewStatus, Msg
  <2>3. /\ status'[t] = "completed" <=> m.outcome = "success"
        /\ status'[t] = "failed" <=> m.outcome = "failed"
        /\ status'[t] # "refunded"
    BY <2>2 DEF SettledStatus, Outcome
  <2> QED BY <1>1, <1>2, <1>6, <2>1, <2>3 DEF SaysSo
<1> QED BY <1>5, <1>6

\* No status without evidence: whatever number of requests work at a time and
\* wherever they die, the status of a transaction changes only in the commit of
\* a received event, to what that event says of that very transaction.
THEOREM StatusFromEvent == Spec => StatusHasCause
<1>1. Init => FoundInv
  <2> SUFFICES ASSUME Init, NEW h \in Handlers PROVE FoundOK(h)
    BY InitIInv DEF FoundInv, LedgerRows, Init, WebhookInit
  <2>1. pc[h] = "idle"
    BY DEF Init, WebhookInit
  <2> QED BY <2>1 DEF FoundOK
<1>2. FoundInv /\ [Next]_vars => [StatusCaused]_<<status, refund, inbox>>
  <2> SUFFICES ASSUME FoundInv, [Next]_vars PROVE StatusCaused \/ status' = status
    BY DEF StatusCaused
  <2>1. ASSUME NEW h \in Handlers, Commit(h) PROVE StatusCaused
    BY <2>1, CommitCaused DEF StatusCaused
  <2>2. CASE ~\E h \in Handlers : Commit(h)
    BY <2>2 DEF Next, vars, database, Duplicate, Receive, HandlerStep, QuietStep,
                MatchTransaction, MatchRefund, LoadParent, CheckEntry, EnqueueRead, Conflict,
                Fail, Raise, Crash
  <2> QED BY <2>1, <2>2
<1> QED BY <1>1, <1>2, NextFoundInv, PTL DEF Spec, StatusHasCause

-------------------------------------------------------------------------------
(* No two requests about one transaction at a time, one spelling of the      *)
(* reference: then the check for an existing entry, which no constraint of   *)
(* the ledger backs, is enough, whatever else runs meanwhile.                *)

Apart == \A g, h \in Handlers : work[g].txn # None /\ work[g].txn = work[h].txn => g = h
OneSpelling == \A r, s \in Spellings : r = s

\* A request that decided to write an entry still finds none.
NothingFound == \A h \in Handlers : work[h].debit => EntriesOf(h) = {}

SerialInv == IInv /\ IsFiniteSet(ledger) /\ NothingFound /\ DebitOnce

\* Entries of one payout carry one reference.
LEMMA SameReference ==
    ASSUME IInv, OneSpelling, NEW c \in ledger, c.kind = "payout",
           NEW r \in Payouts \X Spellings, c.txn = r[1]
    PROVE  c.ref = r
<1>1. c \in Debit /\ Backed(c)
  BY DEF IInv, TypeOK, DebitsBacked
<1>2. inbox[c.event].msg \in Message /\ inbox[c.event].msg.kind = "payout"
  BY <1>1 DEF IInv, InboxOK, Backed, Debit
<1>3. c.ref \in Payouts \X Spellings /\ c.ref[1] = r[1]
  BY <1>1, <1>2, MessageType DEF Backed
<1> QED BY <1>3 DEF OneSpelling

LEMMA SerialStep ==
    ASSUME OneSpelling, Apart, SerialInv, [Next]_vars
    PROVE  SerialInv'
<1>1. IInv'
  BY NextIInv DEF SerialInv
<1>2. IInv /\ DebitOnce /\ NothingFound /\ IsFiniteSet(ledger)
  BY DEF SerialInv
<1>3. ASSUME NEW h \in Handlers, Commit(h)
      PROVE  IsFiniteSet(ledger)' /\ NothingFound' /\ DebitOnce'
  <2>1. ~work'[h].debit
    BY <1>2, <1>3 DEF Commit, Goto, Blank, IInv, TypeOK
  <2>2. NothingFound'
    <3> SUFFICES ASSUME NEW g \in Handlers, work'[g].debit PROVE EntriesOf(g)' = {}
      BY DEF NothingFound
    <3>1. g # h /\ work'[g] = work[g] /\ work[g].debit
      BY <1>2, <1>3, <2>1 DEF Commit, Goto, IInv, TypeOK
    <3>2. Msg(g)' = Msg(g) /\ EntriesOf(g) = {} /\ Found(g)
      BY <1>2, <1>3, <3>1 DEF Commit, Msg, NothingFound, IInv, TypeOK, InboxRow,
                              HandlersOK, HandlerOK, Owns
    <3>3. ASSUME work[h].debit, NewDebit(h).kind = Msg(g).kind,
                 IF Msg(g).kind = "payout" THEN NewDebit(h).ref = Msg(g).ref
                                           ELSE NewDebit(h).refund = work[g].refund
          PROVE  FALSE
      <4>1. /\ Found(h) /\ NeedsDebit(Msg(h), work[h].txn)
            /\ Msg(h) \in Message /\ Msg(h).kind = Msg(g).kind
        BY <1>2, <3>3 DEF NewDebit, IInv, HandlersOK, HandlerOK, InboxOK, Owns, Msg
      <4>2. Msg(h).kind \in {"payout", "refund"}
        BY <4>1, MessageType DEF NeedsDebit
      <4>3. work[g].txn = work[h].txn
        BY <3>2, <3>3, <4>1, <4>2 DEF NewDebit, Found
      <4>4. work[g].txn # None
        BY <3>2, RowsAssumption DEF Found
      <4> QED BY <3>1, <4>3, <4>4 DEF Apart
    <3> QED BY <1>3, <3>1, <3>2, <3>3 DEF Commit, EntriesOf
  <2>3. IsFiniteSet(ledger)'
    BY <1>2, <1>3, FS_AddElement DEF Commit
  <2>4. DebitOnce'
    <3>1. CASE ~work[h].debit
      BY <1>2, <1>3, <3>1 DEF DebitOnce, Commit
    <3>2. CASE work[h].debit
      <4> DEFINE new == NewDebit(h)
      <4>1. ledger' = ledger \cup {new} /\ EntriesOf(h) = {}
        BY <1>2, <1>3, <3>2 DEF Commit, NothingFound
      <4>2. /\ new.kind = Msg(h).kind /\ new.refund = work[h].refund /\ new.txn = work[h].txn
            /\ Found(h) /\ NeedsDebit(Msg(h), work[h].txn) /\ Msg(h) \in Message
        BY <1>2, <3>2 DEF NewDebit, IInv, HandlersOK, HandlerOK, InboxOK, Owns, Msg
      <4>3. new.kind \in {"payout", "refund"}
        BY <4>2, MessageType DEF NeedsDebit
      <4>4. ASSUME NEW c \in ledger, c.kind = new.kind,
                   IF c.kind = "payout" THEN c.txn = new.txn ELSE c.refund = new.refund
            PROVE  FALSE
        <5>1. CASE new.kind = "payout"
          <6>1. Msg(h).ref \in Payouts \X Spellings /\ new.txn = Msg(h).ref[1]
            BY <4>2, <5>1, MessageType DEF Found
          <6>2. c.ref = Msg(h).ref
            BY <1>2, <4>4, <5>1, <6>1, SameReference
          <6> QED BY <4>1, <4>2, <4>4, <5>1, <6>2 DEF EntriesOf
        <5>2. CASE new.kind = "refund"
          BY <4>1, <4>2, <4>4, <5>2 DEF EntriesOf
        <5> QED BY <4>3, <5>1, <5>2
      <4> HIDE DEF new
      <4> QED BY <1>2, <4>1, <4>4 DEF DebitOnce
    <3> QED BY <3>1, <3>2
  <2> QED BY <2>2, <2>3, <2>4
<1>4. ASSUME ledger' = ledger, NothingFound'
      PROVE  IsFiniteSet(ledger)' /\ NothingFound' /\ DebitOnce'
  BY <1>2, <1>4 DEF DebitOnce
<1>5. ASSUME NEW h \in Handlers, ledger' = ledger, work'[h].debit => EntriesOf(h)' = {},
             \A g \in Handlers \ {h} : work'[g] = work[g],
             \A e \in Events : inbox[e].status = "received" => inbox'[e].msg = inbox[e].msg
      PROVE  IsFiniteSet(ledger)' /\ NothingFound' /\ DebitOnce'
  <2> SUFFICES ASSUME NEW g \in Handlers, work'[g].debit PROVE EntriesOf(g)' = {}
    BY <1>4, <1>5 DEF NothingFound
  <2>1. CASE g = h
    BY <1>5, <2>1
  <2>2. CASE g # h
    <3>1. work'[g] = work[g] /\ work[g].debit
      BY <1>5, <2>2
    <3>2. Owns(g) /\ EntriesOf(g) = {}
      BY <1>2, <3>1 DEF NothingFound, IInv, HandlersOK, HandlerOK
    <3>3. Msg(g)' = Msg(g)
      BY <1>5, <3>1, <3>2 DEF Msg, Owns
    <3> QED BY <1>5, <3>1, <3>2, <3>3 DEF EntriesOf
  <2> QED BY <2>1, <2>2
<1>5a. ASSUME NEW h \in Handlers,
              \/ MatchTransaction(h) \/ MatchRefund(h) \/ LoadParent(h) \/ CheckEntry(h)
              \/ EnqueueRead(h) \/ Conflict(h) \/ Fail(h) \/ Raise(h) \/ Crash(h)
              \/ \E e \in Events, m \in Message : Receive(h, e, m)
       PROVE  /\ \A g \in Handlers \ {h} : work'[g] = work[g]
              /\ \A e \in Events : inbox[e].status = "received" => inbox'[e].msg = inbox[e].msg
  <2>1. \A g \in Handlers \ {h} : work'[g] = work[g]
    BY <1>2, <1>5a DEF MatchTransaction, MatchRefund, LoadParent, CheckEntry, EnqueueRead,
                       Conflict, Fail, Raise, Crash, Receive, Goto, IInv, TypeOK
  <2>2. CASE inbox' = inbox
    BY <2>1, <2>2
  <2>3. CASE Fail(h) \/ \E e \in Events, m \in Message : Receive(h, e, m)
    <3>1. inbox \in [Events -> InboxRow]
      BY <1>2 DEF IInv, TypeOK
    <3>2. CASE Fail(h)
      BY <2>1, <3>1, <3>2 DEF Fail, InboxRow
    <3>3. ASSUME NEW e \in Events, NEW m \in Message, Receive(h, e, m)
          PROVE  \A d \in Events : inbox[d].status = "received" => inbox'[d] = inbox[d]
      BY <3>1, <3>3 DEF Receive, Fresh
    <3> QED BY <2>1, <2>3, <3>2, <3>3
  <2>4. CASE \/ MatchTransaction(h) \/ MatchRefund(h) \/ LoadParent(h) \/ CheckEntry(h)
             \/ EnqueueRead(h) \/ Conflict(h) \/ Raise(h) \/ Crash(h)
    <3>1. inbox' = inbox
      BY <2>4 DEF MatchTransaction, MatchRefund, LoadParent, CheckEntry,
                  EnqueueRead, Conflict, Raise, Crash
    <3> QED BY <2>2, <3>1
  <2> QED BY <1>5a, <2>3, <2>4
<1>6. ASSUME NEW h \in Handlers, CheckEntry(h)
      PROVE  IsFiniteSet(ledger)' /\ NothingFound' /\ DebitOnce'
  <2>1. EntriesOf(h)' = EntriesOf(h) /\ ledger' = ledger
    BY <1>2, <1>6 DEF CheckEntry, Goto, EntriesOf, Msg, IInv, TypeOK, Work, database
  <2>2. IsFiniteSet(EntriesOf(h))
    BY <1>2, FS_Subset DEF EntriesOf
  <2>3. work'[h].debit => Cardinality(EntriesOf(h)) = 0
    BY <1>2, <1>6 DEF CheckEntry, Goto, IInv, TypeOK, Work
  <2> QED BY <1>5, <1>5a, <1>6, <2>1, <2>2, <2>3, FS_EmptySet
<1>7. ASSUME NEW h \in Handlers,
             MatchTransaction(h) \/ MatchRefund(h) \/ LoadParent(h) \/ EnqueueRead(h)
      PROVE  IsFiniteSet(ledger)' /\ NothingFound' /\ DebitOnce'
  <2>1. ~work[h].debit /\ work[h] \in Work
    BY <1>2, <1>7 DEF IInv, TypeOK, HandlersOK, HandlerOK,
                      MatchTransaction, MatchRefund, LoadParent, EnqueueRead
  <2>2. ~work'[h].debit
    <3>1. CASE MatchTransaction(h)
      <4>1. CASE work' = [work EXCEPT ![h] = work[h]]
        BY <1>2, <2>1, <4>1 DEF IInv, TypeOK
      <4>2. ASSUME NEW t, work' = [work EXCEPT ![h] =
                                     [work[h] EXCEPT !.txn = t, !.status = status[t]]]
            PROVE  ~work'[h].debit
        BY <2>1, <4>2 DEF Work
      <4> QED BY <3>1, <4>1, <4>2 DEF MatchTransaction, Goto
    <3>2. CASE MatchRefund(h)
      <4>1. CASE work' = [work EXCEPT ![h] = work[h]]
        BY <1>2, <2>1, <4>1 DEF IInv, TypeOK
      <4>2. ASSUME NEW k, work' = [work EXCEPT ![h] =
                                     [work[h] EXCEPT !.refund = k, !.rstatus = refund[k].status]]
            PROVE  ~work'[h].debit
        BY <2>1, <4>2 DEF Work
      <4> QED BY <3>2, <4>1, <4>2 DEF MatchRefund, Goto
    <3>3. CASE LoadParent(h)
      BY <2>1, <3>3 DEF LoadParent, Goto, Work
    <3>4. CASE EnqueueRead(h)
      BY <2>1, <3>4 DEF EnqueueRead, Goto, Work
    <3> QED BY <1>7, <3>1, <3>2, <3>3, <3>4
  <2>3. ledger' = ledger
    BY <1>7 DEF MatchTransaction, MatchRefund, LoadParent, EnqueueRead, database
  <2> QED BY <1>5, <1>5a, <1>7, <2>2, <2>3
<1>8. ASSUME NEW h \in Handlers, Raise(h) \/ Conflict(h)
      PROVE  IsFiniteSet(ledger)' /\ NothingFound' /\ DebitOnce'
  <2>1. ledger' = ledger /\ work'[h] = work[h] /\ EntriesOf(h)' = EntriesOf(h)
    BY <1>2, <1>8 DEF Raise, Conflict, Goto, EntriesOf, Msg, IInv, TypeOK, database
  <2> QED BY <1>2, <1>5, <1>5a, <1>8, <2>1 DEF NothingFound
<1>9. ASSUME NEW h \in Handlers,
             Fail(h) \/ Crash(h) \/ \E e \in Events, m \in Message : Receive(h, e, m)
      PROVE  IsFiniteSet(ledger)' /\ NothingFound' /\ DebitOnce'
  <2>1. ledger' = ledger /\ ~work'[h].debit
    BY <1>2, <1>9 DEF Fail, Crash, Receive, Goto, Blank, IInv, TypeOK, database
  <2> QED BY <1>5, <1>5a, <1>9, <2>1
<1>10. ASSUME UNCHANGED <<database, inbox, work>>
       PROVE  IsFiniteSet(ledger)' /\ NothingFound' /\ DebitOnce'
  <2>1. ledger' = ledger /\ NothingFound'
    BY <1>2, <1>10 DEF NothingFound, EntriesOf, Msg, database
  <2> QED BY <1>4, <2>1
<1>11. CASE \E h \in Handlers, e \in Events : Duplicate(h, e)
  BY <1>1, <1>10, <1>11 DEF SerialInv, Duplicate
<1>12. CASE UNCHANGED vars
  BY <1>1, <1>10, <1>12 DEF SerialInv, vars
<1> QED BY <1>1, <1>3, <1>6, <1>7, <1>8, <1>9, <1>11, <1>12
        DEF SerialInv, Next, HandlerStep, QuietStep

\* If no two requests about one transaction run at once and Kora always names a
\* payout by the same reference, no payout and no refund has two entries, whatever
\* other requests run meanwhile, fail or die (_kora_process_webhook).
THEOREM DebitOnceApart ==
    ASSUME OneSpelling
    PROVE  Spec /\ []Apart => []DebitOnce
<1>1. Init => SerialInv
  <2>1. Init => IInv
    BY InitIInv
  <2>2. Init => IsFiniteSet(ledger) /\ NothingFound /\ DebitOnce
    BY FS_EmptySet DEF Init, WebhookInit, NothingFound, DebitOnce, Blank
  <2> QED BY <2>1, <2>2 DEF SerialInv
<1>2. Apart /\ SerialInv /\ [Next]_vars => SerialInv'
  BY SerialStep
<1>3. SerialInv => DebitOnce
  BY DEF SerialInv
<1> QED BY <1>1, <1>2, <1>3, PTL DEF Spec

\* In particular where the endpoint serves one request at a time.
THEOREM DebitOnceAlone ==
    ASSUME OneSpelling, \A g, h \in Handlers : g = h
    PROVE  Spec => []DebitOnce
<1>1. Apart
  BY DEF Apart
<1> QED BY <1>1, DebitOnceApart, PTL

-------------------------------------------------------------------------------
(* The ledger keeps up with the transactions: the endpoint never commits a   *)
(* payout as completed, or a pay-in as refunded, without an entry.  What     *)
(* makes it true although nothing is locked between the check for an entry   *)
(* and the commit is that entries are never removed: a request that is about *)
(* to commit a success either writes an entry or has seen one, and the one   *)
(* it has seen is still there.                                               *)

\* A request about to commit a success writes the entry or has seen it.
EntryOK(h) ==
    /\ pc[h] = "enqueue" => Msg(h).outcome = "pending"
    /\ pc[h] = "commit" /\ work[h].txn # None /\ NeedsDebit(Msg(h), work[h].txn)
          => work[h].debit \/ EntriesOf(h) # {}

LedgerInv == FoundInv /\ (\A h \in Handlers : EntryOK(h)) /\ SettledIsDebited

\* Entries are never removed, and a refund keeps its pay-in.
LEMMA LedgerGrows ==
    ASSUME IInv, [Next]_vars
    PROVE  ledger \subseteq ledger'
BY DEF Next, vars, database, Duplicate, Receive, HandlerStep, QuietStep, MatchTransaction,
       MatchRefund, LoadParent, CheckEntry, EnqueueRead, Commit, Conflict, Fail, Raise, Crash

\* A request whose own event and work did not change still sees its entry.
LEMMA OtherSees ==
    ASSUME NEW g \in Handlers, EntryOK(g),
           pc'[g] = pc[g], work'[g] = work[g],
           pc[g] # "idle" => inbox'[work[g].event] = inbox[work[g].event],
           ledger \subseteq ledger'
    PROVE  EntryOK(g)'
<1>1. SUFFICES ASSUME pc[g] # "idle"
               PROVE  EntryOK(g)'
  BY DEF EntryOK
<1>2. Msg(g)' = Msg(g)
  BY <1>1 DEF Msg
<1>3. EntriesOf(g) \subseteq EntriesOf(g)'
  BY <1>2 DEF EntriesOf
<1> QED BY <1>2, <1>3 DEF EntryOK, NeedsDebit

\* What a step of a request does to what that request knows of the ledger.
LEMMA OwnSees ==
    ASSUME FoundInv, NEW h \in Handlers, EntryOK(h), HandlerStep(h) \/ Crash(h)
    PROVE  EntryOK(h)'
<1> USE DEF FoundInv, IInv
<1>0. /\ work[h] \in Work /\ FoundOK(h) /\ HandlerOK(h)
  BY TypeOfWork DEF HandlersOK, HandlerOK
<1>1. CASE MatchTransaction(h)
  <2> DEFINE m == Msg(h)
  <2>1. inbox' = inbox /\ work[h].txn = None
    BY <1>0, <1>1 DEF MatchTransaction, FoundOK
  <2>2. CASE \E place \in {"fail", "commit"} : Goto(h, place, work[h])
    BY <2>1, <2>2 DEF Goto, TypeOK, EntryOK
  <2>3. ASSUME NEW t \in Txns,
               Goto(h, CASE m.outcome = "pending" -> "enqueue"
                         [] NeedsDebit(m, t)       -> "check"
                         [] OTHER                  -> "commit",
                    [work[h] EXCEPT !.txn = t, !.status = status[t]])
        PROVE  EntryOK(h)'
    <3>1. /\ pc'[h] = "commit" => ~NeedsDebit(m, t)
          /\ pc'[h] = "enqueue" => m.outcome = "pending"
      BY <2>3 DEF Goto, TypeOK
    <3>2. work'[h].txn = t /\ work'[h].event = work[h].event
      BY <1>0, <2>3 DEF Goto, TypeOK, Work
    <3>3. Msg(h)' = m
      BY <2>1, <3>2 DEF Msg
    <3> QED BY <3>1, <3>2, <3>3 DEF EntryOK, NeedsDebit
  <2> QED BY <1>1, <2>2, <2>3 DEF MatchTransaction
<1>2. CASE LoadParent(h)
  <2> DEFINE t == refund[work[h].refund].txn
  <2>1. pc'[h] \in {"check", "commit"} /\ (pc'[h] = "commit" => ~NeedsDebit(Msg(h), t))
    BY <1>2 DEF LoadParent, Goto, TypeOK
  <2>2. work'[h].txn = t /\ work'[h].event = work[h].event /\ inbox' = inbox
    BY <1>0, <1>2 DEF LoadParent, Goto, TypeOK, Work
  <2>3. Msg(h)' = Msg(h)
    BY <2>2 DEF Msg
  <2> QED BY <2>1, <2>2, <2>3 DEF EntryOK, NeedsDebit
<1>3. CASE CheckEntry(h)
  <2> DEFINE n == Cardinality(EntriesOf(h))
  <2>1. /\ work'[h] = [work[h] EXCEPT !.debit = (n = 0)]
        /\ inbox' = inbox /\ ledger' = ledger
    BY <1>3 DEF CheckEntry, Goto, TypeOK, database
  <2>2. /\ work'[h].debit = (n = 0) /\ work'[h].event = work[h].event
        /\ work'[h].refund = work[h].refund
    BY <1>0, <2>1 DEF Work
  <2>3. EntriesOf(h) = {} => n = 0
    BY FS_EmptySet
  <2>4. Msg(h)' = Msg(h)
    BY <2>1, <2>2 DEF Msg
  <2>5. EntriesOf(h)' = EntriesOf(h)
    BY <2>1, <2>2, <2>4 DEF EntriesOf
  <2>6. pc'[h] # "enqueue"
    BY <1>3 DEF CheckEntry, Goto, TypeOK
  <2> QED BY <2>2, <2>3, <2>5, <2>6 DEF EntryOK
<1>4. CASE EnqueueRead(h)
  <2>1. pc[h] = "enqueue" /\ pc'[h] = "commit" /\ inbox' = inbox
        /\ work'[h].event = work[h].event
    BY <1>0, <1>4 DEF EnqueueRead, Goto, TypeOK, Work
  <2>2. Msg(h).outcome = "pending"
    BY <2>1 DEF EntryOK
  <2>3. Msg(h)' = Msg(h)
    BY <2>1 DEF Msg
  <2> QED BY <2>1, <2>2, <2>3 DEF EntryOK, NeedsDebit
<1>5. CASE MatchRefund(h) \/ Commit(h) \/ Conflict(h) \/ Fail(h) \/ Raise(h) \/ Crash(h)
  <2>1. pc'[h] \notin {"enqueue", "commit"}
    BY <1>5 DEF MatchRefund, Commit, Conflict, Fail, Raise, Crash, Goto, TypeOK
  <2> QED BY <2>1 DEF EntryOK
<1> QED BY <1>1, <1>2, <1>3, <1>4, <1>5 DEF HandlerStep, QuietStep

\* A commit that settles a transaction with an account leaves an entry for it.
LEMMA CommitDebits ==
    ASSUME LedgerInv, NEW h \in Handlers, Commit(h), NEW t \in WithAccount,
           status'[t] # status[t]
    PROVE  /\ t \in Payouts /\ status'[t] = "completed"
                 => \E d \in ledger' : d.kind = "payout" /\ d.txn = t
           /\ t \in Payins /\ status'[t] = "refunded"
                 => \E d \in ledger' : d.kind = "refund" /\ d.txn = t
<1> DEFINE m == Msg(h)
           w == work[h]
<1> USE DEF LedgerInv, FoundInv, IInv, TypeOK
<1>1. /\ t \in Txns /\ w.txn = t /\ status'[t] = NewStatus(h)
      /\ m \in Message /\ w \in Work /\ Found(h) /\ NewStatus(h) # w.status
  BY RowsAssumption, TypeOfWork DEF Commit, FoundOK, HandlersOK, HandlerOK, Owns, InboxOK, Msg
<1>2. ASSUME m.kind \in {"payout", "refund"}, NeedsDebit(m, t)
      PROVE  \E d \in ledger' : d.kind = m.kind /\ d.txn = t
  <2>1. CASE w.debit
    <3>1. NewDebit(h) \in ledger' /\ NewDebit(h).kind = m.kind /\ NewDebit(h).txn = t
      BY <1>1, <2>1 DEF Commit, NewDebit
    <3> QED BY <3>1
  <2>2. CASE ~w.debit
    <3>1. PICK d \in ledger : d \in EntriesOf(h)
      BY <1>1, <1>2, <2>2, RowsAssumption DEF EntryOK, Commit, EntriesOf
    <3>2. d.kind = m.kind /\ Backed(d) /\ d \in ledger'
      BY <3>1, <2>2 DEF EntriesOf, DebitsBacked, Commit
    <3>3. d.txn = t
      BY <1>1, <1>2, <3>1, <3>2 DEF EntriesOf, Backed, Found
    <3> QED BY <3>2, <3>3
  <2> QED BY <2>1, <2>2
<1>3. ASSUME t \in Payouts, status'[t] = "completed"
      PROVE  m.kind = "payout" /\ NeedsDebit(m, t)
  <2>1. m.kind # "refund"
    BY <1>1, <1>3, RowsAssumption DEF Found, NewStatus, RefundsRead
  <2>2. m.kind = "payout" /\ m.outcome = "success"
    BY <1>1, <1>3, <2>1, MessageType, RowsAssumption DEF Found, NewStatus, SettledStatus, Outcome
  <2> QED BY <2>2 DEF NeedsDebit
<1>4. ASSUME t \in Payins, status'[t] = "refunded"
      PROVE  m.kind = "refund" /\ NeedsDebit(m, t)
  <2>1. m.kind = "refund" /\ m.outcome = "success"
    BY <1>1, <1>4, MessageType DEF NewStatus, SettledStatus, Outcome
  <2> QED BY <2>1 DEF NeedsDebit
<1> QED BY <1>2, <1>3, <1>4

LEMMA NextLedgerInv == LedgerInv /\ [Next]_vars => LedgerInv'
<1> SUFFICES ASSUME LedgerInv, [Next]_vars PROVE LedgerInv'
  OBVIOUS
<1> USE DEF LedgerInv
<1>1. FoundInv' /\ IInv /\ ledger \subseteq ledger'
  BY NextFoundInv, LedgerGrows DEF FoundInv
<1>2. ASSUME NEW g \in Handlers PROVE EntryOK(g)'
  <2>1. CASE UNCHANGED vars
    BY <2>1, OtherSees DEF vars, database
  <2>2. ASSUME NEW h \in Handlers, NEW e \in Events, Duplicate(h, e) PROVE EntryOK(g)'
    BY <1>1, <2>2, OtherSees DEF Duplicate
  <2>3. ASSUME NEW h \in Handlers, NEW e \in Events, NEW m \in Message, Receive(h, e, m)
        PROVE  EntryOK(g)'
    <3>1. CASE g = h
      BY <2>3, <3>1 DEF Receive, Goto, EntryOK, FoundInv, IInv, TypeOK
    <3>2. CASE g # h
      <4>1. pc'[g] = pc[g] /\ work'[g] = work[g]
        BY <2>3, <3>2 DEF Receive, Goto, FoundInv, IInv, TypeOK
      <4>2. pc[g] # "idle" => inbox'[work[g].event] = inbox[work[g].event]
        BY <2>3 DEF Receive, Fresh, FoundInv, IInv, TypeOK, HandlersOK, HandlerOK, Owns
      <4> QED BY <1>1, <4>1, <4>2, OtherSees
    <3> QED BY <3>1, <3>2
  <2>4. ASSUME NEW h \in Handlers, HandlerStep(h) \/ Crash(h) PROVE EntryOK(g)'
    <3>1. CASE g = h
      BY <2>4, <3>1, OwnSees
    <3>2. CASE g # h
      BY <1>1, <2>4, <3>2, StepKeeps, OtherSees
    <3> QED BY <3>1, <3>2
  <2> QED BY <2>1, <2>2, <2>3, <2>4 DEF Next
<1>3. SettledIsDebited'
  <2> SUFFICES ASSUME NEW t \in WithAccount
               PROVE  /\ t \in Payouts /\ status'[t] = "completed"
                            => \E d \in ledger' : d.kind = "payout" /\ d.txn = t
                      /\ t \in Payins /\ status'[t] = "refunded"
                            => \E d \in ledger' : d.kind = "refund" /\ d.txn = t
    BY DEF SettledIsDebited
  <2>1. CASE status'[t] = status[t]
    BY <1>1, <2>1 DEF SettledIsDebited
  <2>2. CASE status'[t] # status[t]
    <3>1. PICK h \in Handlers : Commit(h)
      BY <2>2 DEF Next, vars, database, Duplicate, Receive, HandlerStep, QuietStep,
                  MatchTransaction, MatchRefund, LoadParent, CheckEntry, EnqueueRead, Conflict,
                  Fail, Raise, Crash
    <3> QED BY <2>2, <3>1, CommitDebits
  <2> QED BY <2>1, <2>2
<1> QED BY <1>1, <1>2, <1>3

\* Nor does any step that leaves the endpoint and its ledger alone and settles no
\* payout and refunds no pay-in.
LEMMA LedgerKept ==
    ASSUME LedgerInv, FoundInv', UNCHANGED <<ledger, inbox, pc>>,
           \A h \in Handlers : /\ work'[h].event = work[h].event /\ work'[h].txn = work[h].txn
                               /\ work'[h].refund = work[h].refund
                               /\ work'[h].debit = work[h].debit,
           \A t \in Payouts : status'[t] = "completed" => status[t] = "completed",
           \A t \in Payins : status'[t] = "refunded" => status[t] = "refunded"
    PROVE  LedgerInv'
<1> USE DEF LedgerInv
<1>1. ASSUME NEW h \in Handlers PROVE EntryOK(h)'
  <2>1. Msg(h)' = Msg(h)
    BY DEF Msg
  <2>2. EntriesOf(h)' = EntriesOf(h)
    BY <2>1 DEF EntriesOf
  <2> QED BY <2>1, <2>2 DEF EntryOK, NeedsDebit
<1>2. SettledIsDebited'
  BY DEF SettledIsDebited
<1> QED BY <1>1, <1>2

\* The ledger keeps up with the transactions: whatever number of requests work at
\* a time and wherever they die, no payout of an account is completed and no pay-in
\* of an account refunded without an entry in the ledger.
THEOREM SettledHasEntry == Spec => []SettledIsDebited
<1>1. Init => LedgerInv
  <2> SUFFICES ASSUME Init PROVE LedgerInv
    OBVIOUS
  <2>1. \A h \in Handlers : pc[h] = "idle"
    BY DEF Init, WebhookInit
  <2>2. SettledIsDebited
    BY RowsAssumption DEF Init, SettledIsDebited, Txns
  <2>3. LedgerRows
    BY DEF Init, WebhookInit, LedgerRows
  <2> QED BY <2>1, <2>2, <2>3, InitIInv DEF LedgerInv, FoundInv, FoundOK, EntryOK
<1>2. LedgerInv => SettledIsDebited
  BY DEF LedgerInv
<1> QED BY <1>1, <1>2, NextLedgerInv, PTL DEF Spec
===============================================================================
