---------------------------- MODULE KoraPayoutProofs ----------------------------
(***************************************************************************)
(* Proofs about KoraPayout: what is booked was paid, and what Kora has AFM *)
(* has a row for, for every set of payouts, events and requests, crashes   *)
(* included.                                                               *)
(*                                                                         *)
(* The route and the endpoint both write the status of a payout.  They are *)
(* tied together by what Kora has said: a stored success event is about a  *)
(* payout Kora has paid, and what is paid is never asked for again because *)
(* the request for it has left "allowed" for good.                         *)
(***************************************************************************)
EXTENDS KoraPayout, KoraWebhookProofs, WellFoundedInduction

\* The verdict of a stored event about a payout is Kora's.
VerdictOf(m) == /\ m.outcome = "success" => koraPayout[m.ref[1]] = "paid"
                /\ m.outcome = "failed" => koraPayout[m.ref[1]] = "failed"
PayoutEventsTrue ==
    \A e \in Events :
        inbox[e].status # "none" /\ inbox[e].msg.kind = "payout" => VerdictOf(inbox[e].msg)

\* Where a request stands, Kora has the payout or AFM has the row.
StepOK(p) ==
    /\ step[p] \in {"new", "denied", "allowed", "validated"} => koraPayout[p] = "none"
    /\ step[p] \in {"validated", "created", "badGateway"} => status[p] # "none"
    /\ step[p] = "created" /\ koraPayout[p] \in {"accepted", "paid"}
          => status[p] \in {"processing", "completed"}

CompletedIsPaid == \A p \in Payouts : status[p] = "completed" => koraPayout[p] = "paid"

PInv == /\ FoundInv /\ PayoutTypeOK /\ PayoutEventsTrue /\ CompletedIsPaid
        /\ \A p \in Payouts : StepOK(p)

-------------------------------------------------------------------------------
(* The steps of the route.                                                   *)

\* The invariant of the endpoint does not depend on the columns the route writes.
LEMMA PayoutKeepsEndpoint ==
    ASSUME FoundInv, status' \in [Txns -> PaymentStatus], pspRef' \subseteq Txns, PayoutsOnly
    PROVE  FoundInv'
<1> USE DEF FoundInv, IInv, PayoutsOnly
<1>1. /\ TypeOK' /\ InboxOK' /\ RefundOK' /\ AppliedOnce' /\ Exclusive' /\ RefundsRead'
      /\ LedgerRows'
  BY DEF TypeOK, InboxOK, RefundOK, AppliedOnce, Exclusive, RefundsRead, LedgerRows, Exists
<1>2. DebitsBacked'
  BY DEF DebitsBacked, Backed
<1>3. ASSUME NEW h \in Handlers PROVE HandlerOK(h)' /\ FoundOK(h)'
  BY DEF HandlersOK, HandlerOK, Owns, Found, Msg, NeedsDebit, FoundOK, RefundMatches
<1> QED BY <1>1, <1>2, <1>3 DEF HandlersOK

\* A request moves on: it writes at most its own row, and Kora hears of its own
\* payout only.
LEMMA RequestPInv ==
    ASSUME PInv, NEW p \in Payouts, NEW place \in Running \cup Ended,
           step' = [step EXCEPT ![p] = place],
           NEW s \in PaymentStatus, status' = [status EXCEPT ![p] = s],
           s = "completed" => status[p] = "completed",
           pspRef' \subseteq Txns, PayoutsOnly,
           NEW k \in {"none", "accepted"},
           \/ koraPayout' = koraPayout
           \/ koraPayout[p] = "none" /\ koraPayout' = [koraPayout EXCEPT ![p] = k],
           place \in {"denied", "allowed", "validated"} => koraPayout'[p] = "none",
           place \in {"validated", "created", "badGateway"} => s # "none",
           place = "created" => s = "processing"
    PROVE  PInv'
<1> USE DEF PInv
<1>1. status' \in [Txns -> PaymentStatus] /\ p \in Txns
  BY DEF PayoutTypeOK, TypeOK, Txns
<1>2. FoundInv'
  BY <1>1, PayoutKeepsEndpoint
<1>3. PayoutTypeOK'
  BY <1>2 DEF PayoutTypeOK, FoundInv, IInv
<1>4. \A q \in Payouts : \A v \in {"paid", "failed"} : koraPayout[q] = v => koraPayout'[q] = v
  BY DEF PayoutTypeOK
<1>5. PayoutEventsTrue'
  <2> SUFFICES ASSUME NEW e \in Events, inbox[e].status # "none",
                      inbox[e].msg.kind = "payout"
               PROVE  VerdictOf(inbox[e].msg)'
    BY DEF PayoutEventsTrue, PayoutsOnly
  <2>1. inbox[e].msg \in Message
    BY DEF FoundInv, IInv, InboxOK
  <2>2. inbox[e].msg.ref[1] \in Payouts
    BY <2>1, MessageType
  <2> QED BY <2>1, <2>2, <1>4 DEF PayoutEventsTrue, VerdictOf, PayoutsOnly
<1>6. CompletedIsPaid'
  BY <1>1, <1>4 DEF CompletedIsPaid, PayoutTypeOK, TypeOK, Txns
<1>7. ASSUME NEW q \in Payouts PROVE StepOK(q)'
  <2>1. CASE q = p
    BY <1>1, <2>1 DEF StepOK, PayoutTypeOK, TypeOK, Running, Ended
  <2>2. CASE q # p
    <3>1. step'[q] = step[q] /\ koraPayout'[q] = koraPayout[q] /\ status'[q] = status[q]
      BY <1>1, <2>2 DEF PayoutTypeOK, TypeOK, Txns
    <3> QED BY <3>1 DEF StepOK
  <2> QED BY <2>1, <2>2
<1> QED BY <1>2, <1>3, <1>5, <1>6, <1>7

LEMMA RouteStepPInv ==
    ASSUME PInv, NEW p \in Payouts, PayoutStep(p) \/ CrashPayout(p)
    PROVE  PInv'
<1>0. /\ status \in [Txns -> PaymentStatus] /\ p \in Txns /\ pspRef \subseteq Txns
      /\ koraPayout[p] \in {"none", "accepted", "paid", "failed"} /\ StepOK(p)
  BY DEF PInv, PayoutTypeOK, TypeOK, Txns
<1>a. status[p] \in PaymentStatus /\ status = [status EXCEPT ![p] = status[p]]
  BY <1>0
\* The request moves on and writes nothing.
<1>1. ASSUME NEW place \in Running \cup Ended, step' = [step EXCEPT ![p] = place],
             UNCHANGED <<status, pspRef, koraPayout>>, PayoutsOnly,
             place \in {"denied", "allowed"} => step[p] = "new",
             place \notin {"validated", "created", "badGateway"}
      PROVE  PInv'
  <2>1. status' = [status EXCEPT ![p] = status[p]]
    BY <1>1, <1>a
  <2>2. place \in {"denied", "allowed", "validated"} => koraPayout'[p] = "none"
    BY <1>0, <1>1 DEF StepOK
  <2> QED BY <1>0, <1>1, <1>a, <2>1, <2>2, RequestPInv
\* The request writes its row.
<1>2. ASSUME NEW place \in {"validated", "created", "badGateway"},
             step' = [step EXCEPT ![p] = place],
             NEW s \in {"processing", "failed"}, status' = [status EXCEPT ![p] = s],
             place = "validated" => step[p] = "new", place = "created" => s = "processing",
             pspRef' \subseteq Txns, UNCHANGED koraPayout, PayoutsOnly
      PROVE  PInv'
  <2>1. place \in Running \cup Ended /\ s \in PaymentStatus
    BY DEF Ended, PaymentStatus
  <2>2. place = "validated" => koraPayout'[p] = "none"
    BY <1>0, <1>2 DEF StepOK
  <2> QED BY <1>2, <2>1, <2>2, RequestPInv
<1>3. CASE AllowPayout(p)
  BY <1>1, <1>3 DEF AllowPayout, Move, Running
<1>4. CASE DenyPayout(p)
  BY <1>1, <1>4 DEF DenyPayout, Move, Ended
<1>5. CASE ValidateOnly(p)
  BY <1>0, <1>2, <1>5 DEF ValidateOnly, Move
<1>6. CASE SendPayout(p)
  <2>1. CASE Move(p, "allowed", "error") /\ UNCHANGED koraPayout
    BY <1>1, <1>6, <2>1 DEF SendPayout, Move, Running
  <2>2. CASE Move(p, "allowed", "sent") /\ koraPayout' = [koraPayout EXCEPT ![p] = "accepted"]
    <3>1. /\ koraPayout[p] = "none" /\ step' = [step EXCEPT ![p] = "sent"]
          /\ "sent" \in Running \cup Ended
      BY <1>0, <2>2 DEF Move, StepOK, Running
    <3>2. status' = [status EXCEPT ![p] = status[p]] /\ pspRef' \subseteq Txns /\ PayoutsOnly
      BY <1>0, <1>a, <1>6 DEF SendPayout
    <3> QED BY <1>a, <2>2, <3>1, <3>2, RequestPInv
  <2> QED BY <1>6, <2>1, <2>2 DEF SendPayout
<1>7. CASE AnswerPayout(p)
  BY <1>1, <1>7 DEF AnswerPayout, Move, Running
<1>8. CASE CommitCreated(p)
  BY <1>0, <1>2, <1>8 DEF CommitCreated, Move
<1>9. CASE FailPayout(p)
  BY <1>0, <1>2, <1>9 DEF FailPayout, Move
<1>10. CASE CrashPayout(p)
  BY <1>1, <1>10 DEF CrashPayout, Move, Ended
<1> QED
  BY <1>3, <1>4, <1>5, <1>6, <1>7, <1>8, <1>9, <1>10 DEF PayoutStep

-------------------------------------------------------------------------------
(* The steps of the endpoint and of Kora.                                    *)

\* What is stored stays true if what is delivered is what Kora says.
LEMMA PayoutEventsStay ==
    ASSUME PInv, NEW h \in Handlers, HandlerNext(h), UNCHANGED koraPayout,
           \A e \in Events : NewEvent(e) /\ inbox'[e].msg.kind = "payout"
                               => TruthfulPayout(inbox'[e].msg)
    PROVE  PayoutEventsTrue'
<1> SUFFICES ASSUME NEW e \in Events, inbox'[e].status # "none", inbox'[e].msg.kind = "payout"
             PROVE  VerdictOf(inbox'[e].msg)
  BY DEF PayoutEventsTrue, VerdictOf
<1>1. CASE NewEvent(e)
  BY <1>1 DEF TruthfulPayout, VerdictOf
<1>2. CASE ~NewEvent(e)
  <2>1. inbox[e].status # "none" /\ inbox'[e].msg = inbox[e].msg
    BY <1>2, EventsKept DEF NewEvent, PInv, FoundInv
  <2> QED BY <2>1 DEF PInv, PayoutEventsTrue, VerdictOf
<1> QED BY <1>1, <1>2

\* What the endpoint writes into the status of a payout is what Kora says of it.
LEMMA PayoutCommitTells ==
    ASSUME PInv, NEW h \in Handlers, Commit(h), NEW p \in Payouts, status'[p] # status[p]
    PROVE  /\ status'[p] \in {"processing", "completed", "failed"}
           /\ status'[p] = "completed" => koraPayout[p] = "paid"
           /\ status'[p] = "failed" => koraPayout[p] = "failed"
<1> DEFINE m == inbox[work[h].event].msg
<1> USE DEF PInv, FoundInv, IInv, TypeOK
<1>1. work[h].event \in Events /\ inbox[work[h].event].status = "received" /\ m \in Message
  BY DEF Commit, HandlersOK, HandlerOK, Owns, InboxOK
<1>2. p \in Txns /\ work[h].txn = p /\ status'[p] = NewStatus(h)
  BY DEF Commit, Txns
<1>a. Found(h) /\ Msg(h) = m
  BY <1>2, RowsAssumption DEF FoundOK, Commit, Msg
<1>b. m.kind # "refund"
  BY <1>2, <1>a, RowsAssumption DEF Found, RefundsRead
<1>3. m.ref[1] = p /\ m.kind = "payout"
  BY <1>1, <1>2, <1>a, <1>b, MessageType, RowsAssumption DEF Found
<1>4. status'[p] = SettledStatus(m.outcome)
  BY <1>1, <1>2, <1>b DEF NewStatus, Msg
<1>5. /\ status'[p] \in {"processing", "completed", "failed"}
      /\ status'[p] = "completed" => m.outcome = "success"
      /\ status'[p] = "failed" => m.outcome = "failed"
  BY <1>1, <1>4, MessageType DEF SettledStatus, Outcome
<1> QED
  BY <1>1, <1>3, <1>5 DEF PayoutEventsTrue, VerdictOf

LEMMA EndpointPInv ==
    ASSUME PInv, NEW h \in Handlers, HandlerNext(h), UNCHANGED <<step, koraPayout>>,
           \A e \in Events : NewEvent(e) /\ inbox'[e].msg.kind = "payout"
                               => TruthfulPayout(inbox'[e].msg)
    PROVE  PInv'
<1> USE DEF PInv
<1>2. FoundInv'
  BY HandlerIsNext, NextFoundInv
<1>3. PayoutTypeOK'
  BY <1>2 DEF PayoutTypeOK, FoundInv, IInv
<1>4. PayoutEventsTrue'
  BY PayoutEventsStay
<1>5. ASSUME NEW p \in Payouts, status'[p] # status[p]
      PROVE  /\ status'[p] \in {"processing", "completed", "failed"}
             /\ status'[p] = "completed" => koraPayout[p] = "paid"
             /\ status'[p] = "failed" => koraPayout[p] = "failed"
  <2>1. Commit(h)
    BY <1>5, OnlyCommits DEF database
  <2> QED BY <1>5, <2>1, PayoutCommitTells
<1>6. CompletedIsPaid' /\ \A p \in Payouts : StepOK(p)'
  BY <1>5 DEF CompletedIsPaid, StepOK
<1> QED BY <1>2, <1>3, <1>4, <1>6

\* A delivery of KoraPayout stores what Kora says.
LEMMA DeliveryTruthful ==
    ASSUME IInv, NEW h \in Handlers, Deliver(h) \/ HandlerStep(h) \/ Crash(h),
           NEW e \in Events, NewEvent(e)
    PROVE  TruthfulPayout(inbox'[e].msg)
<1>1. PICK f \in Events, m \in Message : TruthfulPayout(m) /\ Receive(h, f, m)
  BY StepStoresNothing DEF Deliver
<1> QED BY <1>1, NewIsDelivered

\* Steps of others, which write neither payouts nor events, keep the invariant.
LEMMA PayoutKept ==
    ASSUME PInv, FoundInv', UNCHANGED <<step, koraPayout, inbox>>,
           \A p \in Payouts : status'[p] = status[p]
    PROVE  PInv'
<1> USE DEF PInv
<1>1. PayoutTypeOK'
  BY DEF PayoutTypeOK, FoundInv, IInv
<1>2. PayoutEventsTrue' /\ CompletedIsPaid' /\ \A p \in Payouts : StepOK(p)'
  BY DEF PayoutEventsTrue, VerdictOf, CompletedIsPaid, StepOK
<1> QED BY <1>1, <1>2

LEMMA SettlePInv ==
    ASSUME PInv, NEW p \in Payouts, SettlePayout(p)
    PROVE  PInv'
<1> USE DEF PInv, SettlePayout
<1>1. UNCHANGED vars
  OBVIOUS
<1>2. FoundInv'
  BY <1>1, NextFoundInv
<1>3. koraPayout' \in [Payouts -> {"none", "accepted", "paid", "failed"}]
      /\ \A q \in Payouts : /\ koraPayout[q] = "paid" => koraPayout'[q] = "paid"
                            /\ koraPayout[q] = "failed" => koraPayout'[q] = "failed"
                            /\ koraPayout[q] = "none" => koraPayout'[q] = "none"
                            /\ koraPayout'[q] \in {"accepted", "paid"}
                                   => koraPayout[q] \in {"accepted", "paid"}
  BY DEF PayoutTypeOK
<1>4. PayoutTypeOK'
  BY <1>2, <1>3 DEF PayoutTypeOK, FoundInv, IInv
<1>5. PayoutEventsTrue'
  <2> SUFFICES ASSUME NEW e \in Events, inbox[e].status # "none",
                      inbox[e].msg.kind = "payout"
               PROVE  VerdictOf(inbox[e].msg)'
    BY <1>1 DEF PayoutEventsTrue, vars
  <2>1. inbox[e].msg \in Message
    BY DEF FoundInv, IInv, InboxOK
  <2>2. inbox[e].msg.ref[1] \in Payouts
    BY <2>1, MessageType
  <2> QED BY <1>1, <2>1, <2>2, <1>3 DEF PayoutEventsTrue, VerdictOf, vars
<1>6. CompletedIsPaid' /\ \A q \in Payouts : StepOK(q)'
  BY <1>1, <1>3 DEF CompletedIsPaid, StepOK, vars, database
<1> QED BY <1>2, <1>4, <1>5, <1>6

-------------------------------------------------------------------------------
(* The theorems.                                                             *)

LEMMA InitPInv == PayoutInit => PInv
<1> SUFFICES ASSUME PayoutInit PROVE PInv
  OBVIOUS
<1> USE DEF PayoutInit, WebhookInit
<1>1. TypeOK
  BY BlankType DEF TypeOK, PaymentStatus, RefundRow, RefundStatus, NoRefund, TaskRow, TaskState,
                   NoTask, InboxRow, EventStatus, Places, Txns
<1>2. FoundInv
  BY <1>1 DEF FoundInv, IInv, InboxOK, RefundOK, NoRefund, HandlersOK, HandlerOK, Blank,
              Exclusive, RefundsRead, AppliedOnce, DebitsBacked, LedgerRows, FoundOK
<1>3. PayoutTypeOK
  BY <1>1 DEF PayoutTypeOK
<1>4. PayoutEventsTrue /\ CompletedIsPaid /\ \A p \in Payouts : StepOK(p)
  BY RowsAssumption DEF PayoutEventsTrue, VerdictOf, CompletedIsPaid, StepOK, Txns
<1> QED BY <1>2, <1>3, <1>4 DEF PInv

LEMMA NextPInv == PInv /\ [PayoutNext]_payoutVars => PInv'
<1> SUFFICES ASSUME PInv, [PayoutNext]_payoutVars PROVE PInv'
  OBVIOUS
<1>1. CASE UNCHANGED payoutVars
  <2>1. UNCHANGED vars /\ UNCHANGED <<step, koraPayout>>
    BY <1>1 DEF payoutVars
  <2>2. FoundInv'
    BY <2>1, NextFoundInv DEF PInv
  <2> QED BY <2>1, <2>2, PayoutKept DEF vars, database
<1>2. ASSUME NEW p \in Payouts, PayoutStep(p) \/ CrashPayout(p) PROVE PInv'
  BY <1>2, RouteStepPInv
<1>3. ASSUME NEW p \in Payouts, SettlePayout(p) PROVE PInv'
  BY <1>3, SettlePInv
<1>4. ASSUME NEW h \in Handlers, PayoutEndpoint(h) \/ (Crash(h) /\ UNCHANGED <<step, koraPayout>>)
      PROVE  PInv'
  <2>1. Deliver(h) \/ HandlerStep(h) \/ Crash(h)
    BY <1>4 DEF PayoutEndpoint
  <2>2. HandlerNext(h) /\ UNCHANGED <<step, koraPayout>>
    BY <1>4, <2>1 DEF PayoutEndpoint, Deliver, HandlerNext
  <2>3. \A e \in Events : NewEvent(e) => TruthfulPayout(inbox'[e].msg)
    BY <2>1, DeliveryTruthful DEF PInv, FoundInv
  <2> QED BY <2>2, <2>3, EndpointPInv
<1> QED BY <1>1, <1>2, <1>3, <1>4 DEF PayoutNext

\* The inductive invariant holds: stored events are Kora's, and a request has
\* asked Kora, or written its row, as far as it has come.
THEOREM PayoutInvariance == PayoutSpec => []PInv
BY InitPInv, NextPInv, PTL DEF PayoutSpec

\* The route and the endpoint together keep every table and request well typed.
THEOREM PayoutTypeCorrect == PayoutSpec => []PayoutTypeOK
<1>1. PInv => PayoutTypeOK
  BY DEF PInv
<1> QED BY <1>1, PayoutInvariance, PTL

LEMMA BookedIsPaid == PInv => SettledIsPaid
<1> SUFFICES ASSUME PInv, NEW p \in Payouts,
                    status[p] = "completed" \/ (\E d \in ledger : d.txn = p)
             PROVE  koraPayout[p] = "paid"
  BY DEF SettledIsPaid
<1> USE DEF PInv
<1>1. CASE status[p] = "completed"
  BY <1>1 DEF CompletedIsPaid
<1>2. CASE \E d \in ledger : d.txn = p
  <2>1. PICK d \in ledger : d.txn = p
    BY <1>2
  <2>2. d \in Debit /\ Backed(d)
    BY DEF FoundInv, IInv, TypeOK, DebitsBacked
  <2>3. /\ d.event \in Events /\ inbox[d.event].status = "processed"
        /\ inbox[d.event].msg.kind = d.kind /\ inbox[d.event].msg.outcome = "success"
    BY <2>2 DEF Backed, Debit
  <2>4. d.kind = "payout"
    <3> SUFFICES ASSUME d.kind = "refund" PROVE FALSE
      BY <2>2 DEF Debit
    <3>1. d.txn \in Payins
      BY <2>2 DEF Backed, FoundInv, IInv, LedgerRows, RefundOK, Exists
    <3> QED BY <2>1, <3>1, RowsAssumption
  <2>5. koraPayout[inbox[d.event].msg.ref[1]] = "paid"
    BY <2>3, <2>4 DEF PayoutEventsTrue, VerdictOf
  <2> QED BY <2>1, <2>2, <2>4, <2>5 DEF Backed
<1> QED BY <1>1, <1>2

LEMMA HasARow == PInv => RecordedUnlessDead
<1> SUFFICES ASSUME PInv, NEW p \in Payouts, koraPayout[p] # "none", status[p] = "none"
             PROVE  step[p] \in Running \cup {"dead"}
  BY DEF RecordedUnlessDead
<1> QED BY DEF PInv, PayoutTypeOK, StepOK, Running, Ended

\* Only money that Kora moved is booked: a payout is completed, or debited, only
\* if Kora paid it (create_kora_payout, kora_webhook).
THEOREM PayoutSettledIsPaid == PayoutSpec => []SettledIsPaid
BY BookedIsPaid, PayoutInvariance, PTL

\* A payout that Kora has, AFM has a row for, unless the request is still running
\* or its process died (create_kora_payout).
THEOREM PayoutRecorded == PayoutSpec => []RecordedUnlessDead
BY HasARow, PayoutInvariance, PTL

-------------------------------------------------------------------------------
(***************************************************************************)
(* Sums.  MapThenSumSet adds up in the order of CHOOSE; that it yields one *)
(* sum, whatever the order, is shown here, by taking a smallest set of     *)
(* transactions for which it would not.                                    *)
(***************************************************************************)

\* The amounts of a set of transactions, added up.
Total(S) == MapThenSumSet(LAMBDA t : Amount[t], S)

\* f adds up, in the order of CHOOSE, the amounts of every subset of S.
Some(s) == CHOOSE x \in s : TRUE
Term(f, s) == IF s = {} THEN 0 ELSE Amount[Some(s)] + f[s \ {Some(s)}]
AddsUp(f, S) == f = [s \in SUBSET S |-> Term(f, s)]

LEMMA TotalIs ==
    ASSUME NEW S, \E f : AddsUp(f, S)
    PROVE  \E f : AddsUp(f, S) /\ Total(S) = f[S]
<1> DEFINE g == CHOOSE f : AddsUp(f, S)
<1>1. AddsUp(g, S)
  OBVIOUS
<1>2. Total(S) = g[S]
  BY DEF Total, MapThenSumSet, MapThenFoldSet, AddsUp, Term, Some
<1> QED BY <1>1, <1>2

\* Of a set of naturals that is not empty one is the least.
LEMMA LeastNat ==
    ASSUME NEW N, N \subseteq Nat, N # {}
    PROVE  \E n \in N : \A m \in N : n <= m
<1>1. PICK n \in N : \A m \in N : ~(<<m, n>> \in OpToRel(<, Nat))
  BY NatLessThanWellFounded, WFMin
<1>2. \A m \in N : m \in Nat
  OBVIOUS
<1>3. ASSUME NEW m \in N PROVE n <= m
  <2>1. m \in Nat /\ n \in Nat
    BY <1>2
  <2>2. ~(m < n)
    BY <1>1, <2>1 DEF OpToRel
  <2> QED BY <2>1, <2>2
<1> QED BY <1>1, <1>3

\* Of a set of finite sets one has the fewest elements.
LEMMA SmallestSet ==
    ASSUME NEW S, IsFiniteSet(S), NEW B, B \subseteq SUBSET S, B # {}
    PROVE  \E b \in B : \A c \in B : Cardinality(b) <= Cardinality(c)
<1>1. \A b \in B : Cardinality(b) \in Nat
  BY FS_Subset, FS_CardinalityType
<1> DEFINE N == {Cardinality(b) : b \in B}
<1>2. N # {} /\ N \subseteq Nat
  BY <1>1
<1> HIDE DEF N
<1>3. PICK n \in N : \A m \in N : n <= m
  BY <1>2, LeastNat
<1> QED BY <1>3 DEF N

LEMMA SomeIn == ASSUME NEW s, s # {} PROVE Some(s) \in s
BY DEF Some

\* Such an f exists: for ever larger subsets one is found.
LEMMA AdderExists ==
    ASSUME NEW S, IsFiniteSet(S)
    PROVE  \E f : AddsUp(f, S)
<1> DEFINE Upto(f, n) == f = [s \in SUBSET S |-> f[s]]
                         /\ \A s \in SUBSET S : Cardinality(s) < n => f[s] = Term(f, s)
           bad == {n \in Nat : ~ \E f : Upto(f, n)}
<1>0. \A s \in SUBSET S : IsFiniteSet(s) /\ Cardinality(s) \in Nat
                          /\ Cardinality(s) <= Cardinality(S)
  BY FS_Subset, FS_CardinalityType
<1>1. bad = {}
  <2> SUFFICES ASSUME bad # {} PROVE FALSE
    OBVIOUS
  <2>1. PICK n \in bad : \A m \in bad : n <= m
    BY LeastNat
  <2>2. n # 0
    <3>1. Upto([s \in SUBSET S |-> 0], 0)
      BY <1>0
    <3> QED BY <2>1, <3>1
  <2>3. \E f : Upto(f, n - 1)
    <3> HIDE DEF Upto
    <3>1. n \in Nat /\ n - 1 \in Nat
      BY <2>1, <2>2
    <3>2. n - 1 \notin bad
      <4> HIDE DEF bad
      <4> QED BY <2>1, <3>1
    <3> QED BY <3>1, <3>2
  <2>4. PICK f : Upto(f, n - 1)
    BY <2>3
  <2> DEFINE g == [s \in SUBSET S |-> Term(f, s)]
  <2>5. ASSUME NEW s \in SUBSET S, Cardinality(s) < n PROVE g[s] = Term(g, s)
    <3>1. CASE s = {}
      BY <3>1 DEF Term
    <3>2. CASE s # {}
      <4>1. Some(s) \in s /\ s \ {Some(s)} \in SUBSET S
        BY <3>2, SomeIn
      <4>2. Cardinality(s \ {Some(s)}) < n - 1
        BY <1>0, <2>1, <2>5, <4>1, FS_RemoveElement
      <4>3. g[s \ {Some(s)}] = f[s \ {Some(s)}]
        BY <2>4, <4>1, <4>2
      <4> QED BY <3>2, <4>1, <4>3 DEF Term
    <3> QED BY <3>1, <3>2
  <2>6. Upto(g, n)
    BY <2>5
  <2> QED BY <2>1, <2>6
<1>2. Cardinality(S) + 1 \in Nat
  BY <1>0
<1>3. PICK f : Upto(f, Cardinality(S) + 1)
  BY <1>1, <1>2
<1>4. ASSUME NEW s \in SUBSET S PROVE f[s] = Term(f, s)
  <2>1. Cardinality(s) < Cardinality(S) + 1
    BY <1>0, <1>2
  <2> QED BY <1>3, <2>1
<1> QED BY <1>3, <1>4 DEF AddsUp

\* Two of them agree on what they both add up.
LEMMA AddersAgree ==
    ASSUME NEW S, IsFiniteSet(S), NEW T \in SUBSET S, NEW f, NEW g, AddsUp(f, S), AddsUp(g, T)
    PROVE  \A s \in SUBSET T : f[s] = g[s]
<1> DEFINE bad == {s \in SUBSET T : f[s] # g[s]}
<1> SUFFICES ASSUME bad # {} PROVE FALSE
  OBVIOUS
<1>1. PICK s \in bad : \A r \in bad : Cardinality(s) <= Cardinality(r)
  <2>1. bad \subseteq SUBSET S
    OBVIOUS
  <2> QED BY <2>1, SmallestSet
<1>2. f[s] = Term(f, s) /\ g[s] = Term(g, s)
  BY <1>1 DEF AddsUp
<1>3. s # {}
  BY <1>1, <1>2 DEF Term
<1> DEFINE r == s \ {Some(s)}
<1>4. Some(s) \in s /\ r \in SUBSET T
  BY <1>1, <1>3, SomeIn
<1>5. Cardinality(r) < Cardinality(s)
  <2>1. IsFiniteSet(s) /\ Cardinality(s) \in Nat
    BY <1>1, FS_Subset, FS_CardinalityType
  <2>2. Cardinality(r) = Cardinality(s) - 1
    BY <1>4, <2>1, FS_RemoveElement
  <2> QED BY <2>1, <2>2
<1>6. f[r] = g[r]
  <2>1. IsFiniteSet(s) /\ Cardinality(s) \in Nat /\ Cardinality(r) \in Nat
    BY <1>1, <1>4, FS_Subset, FS_CardinalityType
  <2> QED BY <1>1, <1>4, <1>5, <2>1
<1> QED BY <1>1, <1>2, <1>3, <1>6 DEF Term

LEMMA TotalStep ==
    ASSUME NEW s \in SUBSET Txns
    PROVE  Total(s) = IF s = {} THEN 0 ELSE Amount[Some(s)] + Total(s \ {Some(s)})
<1>1. IsFiniteSet(Txns)
  BY PayoutAssumption, AmountAssumption
<1>2. PICK f : AddsUp(f, Txns)
  BY <1>1, AdderExists
<1>3. ASSUME NEW r \in SUBSET Txns PROVE Total(r) = f[r]
  <2>1. IsFiniteSet(r)
    BY <1>1, FS_Subset
  <2>2. PICK g : AddsUp(g, r) /\ Total(r) = g[r]
    BY <2>1, AdderExists, TotalIs
  <2> QED BY <1>1, <1>2, <2>2, AddersAgree
<1>4. f[s] = Term(f, s)
  BY <1>2 DEF AddsUp
<1>5. s # {} => s \ {Some(s)} \in SUBSET Txns
  OBVIOUS
<1> QED BY <1>3, <1>4, <1>5 DEF Term

\* What fails for one set of transactions fails for one of the smallest.
LEMMA SmallestTxns ==
    ASSUME NEW B, B \subseteq SUBSET Txns, B # {}
    PROVE  \E s \in B : \A r \in SUBSET Txns : \A x \in s : r = s \ {x} => r \notin B
<1>1. PICK s \in B : \A r \in B : Cardinality(s) <= Cardinality(r)
  BY SmallestSet, PayoutAssumption, AmountAssumption
<1>2. ASSUME NEW x \in s, s \ {x} \in B PROVE FALSE
  <2>1. IsFiniteSet(s) /\ Cardinality(s) \in Nat
    BY PayoutAssumption, AmountAssumption, FS_Subset, FS_CardinalityType
  <2>2. Cardinality(s \ {x}) = Cardinality(s) - 1
    BY <2>1, FS_RemoveElement
  <2> QED BY <1>1, <1>2, <2>1, <2>2
<1> QED BY <1>2

LEMMA TotalType == ASSUME NEW s \in SUBSET Txns PROVE Total(s) \in Nat
<1> DEFINE bad == {r \in SUBSET Txns : Total(r) \notin Nat}
<1> SUFFICES ASSUME bad # {} PROVE FALSE
  OBVIOUS
<1>1. PICK r \in bad : \A q \in SUBSET Txns : \A x \in r : q = r \ {x} => q \notin bad
  BY SmallestTxns
<1>2. r # {}
  <2>1. Total({}) = 0
    BY TotalStep
  <2> QED BY <1>1, <2>1
<1>3. Some(r) \in r /\ Amount[Some(r)] \in Nat /\ r \ {Some(r)} \in SUBSET Txns
  BY <1>1, <1>2, SomeIn, PayoutAssumption, AmountAssumption
<1>4. Total(r \ {Some(r)}) \in Nat
  BY <1>1, <1>3
<1>5. Total(r) = Amount[Some(r)] + Total(r \ {Some(r)})
  BY <1>1, <1>2, TotalStep
<1> QED BY <1>1, <1>3, <1>4, <1>5

\* In whatever order: every member adds its amount.
LEMMA TotalWithout ==
    ASSUME NEW s \in SUBSET Txns, NEW x \in s
    PROVE  Total(s) = Amount[x] + Total(s \ {x})
<1> DEFINE bad == {r \in SUBSET Txns : \E y \in r : Total(r) # Amount[y] + Total(r \ {y})}
<1> SUFFICES ASSUME bad # {} PROVE FALSE
  OBVIOUS
<1>1. PICK r \in bad : \A q \in SUBSET Txns : \A y \in r : q = r \ {y} => q \notin bad
  BY SmallestTxns
<1>2. PICK y \in r : Total(r) # Amount[y] + Total(r \ {y})
  BY <1>1
<1> DEFINE c == Some(r)
<1>3. c \in r /\ Total(r) = Amount[c] + Total(r \ {c})
  BY <1>1, <1>2, SomeIn, TotalStep
<1>4. c # y
  BY <1>2, <1>3
<1> HIDE DEF c
<1>5. r \ {c} \notin bad /\ r \ {y} \notin bad /\ r \ {c} \in SUBSET Txns
      /\ r \ {y} \in SUBSET Txns
  BY <1>1, <1>2, <1>3
<1> DEFINE m == (r \ {c}) \ {y}
<1>6. Total(r \ {c}) = Amount[y] + Total(m)
  BY <1>2, <1>4, <1>5
<1>7. Total(r \ {y}) = Amount[c] + Total(m)
  <2>1. m = (r \ {y}) \ {c}
    OBVIOUS
  <2> QED BY <1>3, <1>4, <1>5, <2>1
<1>8. Amount[c] \in Nat /\ Amount[y] \in Nat /\ Total(m) \in Nat
  BY <1>1, <1>3, <1>5, TotalType, PayoutAssumption, AmountAssumption
<1> QED BY <1>2, <1>3, <1>6, <1>7, <1>8

LEMMA TotalGrows ==
    ASSUME NEW s \in SUBSET Txns, NEW a \in SUBSET s
    PROVE  Total(a) <= Total(s)
<1> DEFINE bad == {r \in SUBSET Txns : \E b \in SUBSET r : ~(Total(b) <= Total(r))}
<1> SUFFICES ASSUME bad # {} PROVE FALSE
  OBVIOUS
<1>1. PICK r \in bad : \A q \in SUBSET Txns : \A x \in r : q = r \ {x} => q \notin bad
  BY SmallestTxns
<1>2. PICK b \in SUBSET r : ~(Total(b) <= Total(r))
  BY <1>1
<1>3. Total(b) \in Nat /\ Total(r) \in Nat /\ b # r
  BY <1>1, <1>2, TotalType
<1>4. PICK x \in r : x \notin b
  BY <1>2, <1>3
<1>5. r \ {x} \in SUBSET Txns /\ r \ {x} \notin bad /\ b \in SUBSET (r \ {x})
  BY <1>1, <1>4
<1>6. Total(b) <= Total(r \ {x})
  BY <1>5
<1>7. Total(r) = Amount[x] + Total(r \ {x}) /\ Amount[x] \in Nat /\ Total(r \ {x}) \in Nat
  BY <1>1, <1>5, TotalWithout, TotalType, PayoutAssumption, AmountAssumption
<1> QED BY <1>2, <1>3, <1>6, <1>7

LEMMA TotalOfUnion ==
    ASSUME NEW s \in SUBSET Txns, NEW a \in SUBSET Txns
    PROVE  Total(a \cup s) <= Total(a) + Total(s)
<1> DEFINE bad == {r \in SUBSET Txns : ~(Total(a \cup r) <= Total(a) + Total(r))}
<1> SUFFICES ASSUME bad # {} PROVE FALSE
  OBVIOUS
<1>1. PICK r \in bad : \A q \in SUBSET Txns : \A x \in r : q = r \ {x} => q \notin bad
  BY SmallestTxns
<1>2. Total(a) \in Nat /\ Total(r) \in Nat /\ Total(a \cup r) \in Nat
  BY <1>1, TotalType
<1>3. r # {}
  <2> SUFFICES ASSUME r = {} PROVE FALSE
    OBVIOUS
  <2>1. a \cup r = a
    OBVIOUS
  <2> QED BY <1>1, <1>2, <2>1
<1>4. PICK x \in r : TRUE
  BY <1>3
<1>5. r \ {x} \in SUBSET Txns /\ r \ {x} \notin bad
  BY <1>1, <1>4
<1>6. Total(a \cup (r \ {x})) <= Total(a) + Total(r \ {x})
  BY <1>5
<1>7. Total(r) = Amount[x] + Total(r \ {x}) /\ Amount[x] \in Nat /\ Total(r \ {x}) \in Nat
  BY <1>1, <1>4, <1>5, TotalWithout, TotalType, PayoutAssumption, AmountAssumption
<1>8. Total(a \cup r) <= Amount[x] + Total(a \cup (r \ {x}))
  <2>1. CASE x \in a
    <3>1. a \cup r = a \cup (r \ {x})
      BY <2>1
    <3>2. Total(a \cup r) = Total(a \cup (r \ {x}))
      BY ONLY <3>1
    <3> QED BY <1>2, <1>7, <3>2
  <2>2. CASE x \notin a
    <3>1. (a \cup r) \ {x} = a \cup (r \ {x})
      BY <2>2
    <3>2. Total(a \cup r) = Amount[x] + Total((a \cup r) \ {x})
      BY <1>1, <1>4, TotalWithout
    <3>3. Total((a \cup r) \ {x}) = Total(a \cup (r \ {x}))
      BY ONLY <3>1
    <3> QED BY <1>2, <1>7, <3>2, <3>3
  <2> QED BY <2>1, <2>2
<1>9. Total(a \cup (r \ {x})) \in Nat
  BY <1>5, TotalType
<1> QED BY <1>1, <1>2, <1>6, <1>7, <1>8, <1>9

\* At most so many amounts, none above m.
LEMMA TotalBounded ==
    ASSUME NEW s \in SUBSET Txns, NEW m \in Nat, \A t \in s : Amount[t] <= m
    PROVE  Total(s) <= Cardinality(s) * m
<1> DEFINE bad == {r \in SUBSET Txns : /\ r \in SUBSET s
                                       /\ ~(Total(r) <= Cardinality(r) * m)}
<1> SUFFICES ASSUME bad # {} PROVE FALSE
  OBVIOUS
<1>1. PICK r \in bad : \A q \in SUBSET Txns : \A x \in r : q = r \ {x} => q \notin bad
  BY SmallestTxns
<1>2. IsFiniteSet(r) /\ Cardinality(r) \in Nat
  BY <1>1, PayoutAssumption, AmountAssumption, FS_Subset, FS_CardinalityType
<1>3. r # {}
  <2> SUFFICES ASSUME r = {} PROVE FALSE
    OBVIOUS
  <2>1. Cardinality(r) = 0 /\ Total(r) = 0
    BY FS_EmptySet, TotalStep
  <2> QED BY <1>1, <2>1
<1>4. PICK x \in r : TRUE
  BY <1>3
<1> DEFINE n == Cardinality(r \ {x})
<1>5. n \in Nat /\ Cardinality(r) = n + 1
  <2>1. IsFiniteSet(r \ {x}) /\ n = Cardinality(r) - 1
    BY <1>2, <1>4, FS_RemoveElement
  <2>2. n \in Nat
    BY <2>1, FS_CardinalityType
  <2> QED BY <1>2, <2>1, <2>2
<1>6. r \ {x} \in SUBSET Txns /\ Total(r \ {x}) <= n * m /\ Amount[x] <= m
  BY <1>1, <1>4
<1>7. Total(r) = Amount[x] + Total(r \ {x}) /\ Amount[x] \in Nat /\ Total(r \ {x}) \in Nat
  BY <1>1, <1>4, <1>6, TotalWithout, TotalType, PayoutAssumption, AmountAssumption
<1> HIDE DEF n
<1>8. n * m \in Nat /\ (n + 1) * m = n * m + m
  BY <1>5
<1>9. Total(r) <= (n + 1) * m
  BY <1>5, <1>6, <1>7, <1>8
<1> QED BY <1>1, <1>5, <1>9

\* The largest amount of a payout.
LEMMA LargestAmount ==
    /\ Max({Amount[p] : p \in Payouts}) \in Nat
    /\ \A q \in Payouts : Amount[q] <= Max({Amount[p] : p \in Payouts})
<1> DEFINE V == {Amount[p] : p \in Payouts}
           above == {n \in Nat : \A v \in V : v <= n}
<1>1. V # {} /\ \A v \in V : v \in Nat
  BY PayoutAssumption, AmountAssumption DEF Txns
<1>2. Total(Payouts) \in above
  <2>1. Payouts \in SUBSET Txns
    BY DEF Txns
  <2>2. Total(Payouts) \in Nat
    BY <2>1, TotalType
  <2>3. ASSUME NEW q \in Payouts PROVE Amount[q] <= Total(Payouts)
    <3>1. Total(Payouts) = Amount[q] + Total(Payouts \ {q}) /\ Total(Payouts \ {q}) \in Nat
          /\ Amount[q] \in Nat
      BY <2>1, TotalWithout, TotalType, PayoutAssumption, AmountAssumption
    <3> QED BY <3>1
  <2> QED BY <2>2, <2>3
<1> HIDE DEF V
<1>3. PICK n \in above : \A m \in above : n <= m
  BY <1>2, LeastNat
<1>4. n \in V
  <2> SUFFICES ASSUME n \notin V PROVE FALSE
    OBVIOUS
  <2>1. PICK v \in V : TRUE
    BY <1>1
  <2>2. n # 0 /\ n \in Nat
    BY <1>1, <1>3, <2>1
  <2>3. ASSUME NEW u \in V PROVE u <= n - 1
    BY <1>1, <1>3, <2>2
  <2>4. n - 1 \in above
    BY <2>2, <2>3
  <2> QED BY <1>3, <2>2, <2>4
<1>5. \E x \in V : \A y \in V : x >= y
  BY <1>1, <1>3, <1>4
<1>6. Max(V) \in V /\ \A y \in V : Max(V) >= y
  BY <1>5 DEF Max
<1>7. Max(V) \in Nat /\ \A y \in V : y <= Max(V)
  BY <1>1, <1>6
<1> QED BY <1>7 DEF V

-------------------------------------------------------------------------------
(***************************************************************************)
(* The monthly cap.  What is held of the limit are the payouts Kora has    *)
(* and may pay, and the amounts that running requests may still send.  At  *)
(* the moment the limit is read they fit, but for the requests that run    *)
(* already, which the total does not show; afterwards less is held.        *)
(***************************************************************************)

Held == {p \in Payouts : \/ step[p] \in {"allowed", "sent", "answered"}
                         \/ step[p] = "created" /\ koraPayout[p] \in {"accepted", "paid"}}
Largest == Max({Amount[p] : p \in Payouts})

CapInv == PInv /\ Total(Held) <= Limit + (InFlight - 1) * Largest

LEMMA LargestType == Largest \in Nat /\ \A q \in Payouts : Amount[q] <= Largest
BY LargestAmount DEF Largest

\* Whatever takes nothing new leaves the bound.
LEMMA HeldShrinks ==
    ASSUME CapInv, PInv', Held' \subseteq Held
    PROVE  CapInv'
<1>1. Held \in SUBSET Txns /\ Held' \in SUBSET Held
  BY DEF Held, Txns
<1>2. Total(Held') <= Total(Held) /\ Total(Held) \in Nat /\ Total(Held') \in Nat
  BY <1>1, TotalGrows, TotalType
<1>3. Limit + (InFlight - 1) * Largest \in Nat
  BY LargestType, PayoutAssumption, AmountAssumption
<1>4. Total(Held') <= Limit + (InFlight - 1) * Largest
  BY <1>2, <1>3 DEF CapInv
<1> QED BY <1>4 DEF CapInv

\* Requests that run when the limit is read are one fewer than may run at a time.
LEMMA AllowBounds ==
    ASSUME CapInv, NEW p \in Payouts, AllowPayout(p)
    PROVE  Total(Held') <= Limit + (InFlight - 1) * Largest
<1> USE DEF CapInv, PInv
<1> DEFINE run == {q \in Payouts : step[q] \in {"allowed", "sent", "answered"}}
           booked == {q \in Payouts : step[q] = "created" /\ koraPayout[q] \in {"accepted", "paid"}}
           month == {t \in Txns : status[t] \notin {"none", "failed", "refunded"}}
<1>1. run \in SUBSET Txns /\ booked \in SUBSET month /\ month \in SUBSET Txns
      /\ run \cup booked \in SUBSET Txns /\ p \in Txns
  BY DEF Txns, StepOK
<1>2. Cardinality(run) <= InFlight - 1 /\ Cardinality(run) \in Nat
  <2> DEFINE all == {q \in Payouts : step[q] \in Running}
  <2>1. run \in SUBSET all /\ all \in SUBSET Txns
    BY DEF Running, Txns
  <2>2. IsFiniteSet(all)
    BY <2>1, PayoutAssumption, AmountAssumption, FS_Subset
  <2>3. Cardinality(run) <= Cardinality(all) /\ IsFiniteSet(run)
    BY <2>1, <2>2, FS_Subset
  <2>4. Cardinality(all) < InFlight
    BY DEF AllowPayout
  <2>5. Cardinality(all) \in Nat /\ Cardinality(run) \in Nat
    BY <2>2, <2>3, FS_CardinalityType
  <2> QED BY <2>3, <2>4, <2>5, PayoutAssumption, AmountAssumption
<1>3. Held' \subseteq run \cup booked \cup {p}
  BY DEF Held, AllowPayout, Move, PayoutTypeOK
<1> HIDE DEF run, booked
<1>4. Total(booked) + Amount[p] <= Limit
  <2>1. MonthTotal = Total(month)
    BY DEF MonthTotal, Total
  <2>2. MonthTotal + Amount[p] <= Limit
    BY DEF AllowPayout, WithinLimit
  <2> HIDE DEF month
  <2>3. Total(booked) <= Total(month) /\ Total(booked) \in Nat /\ Total(month) \in Nat
    BY <1>1, TotalGrows, TotalType
  <2> QED BY <1>1, <2>1, <2>2, <2>3, PayoutAssumption, AmountAssumption
<1>5. Total(run) <= (InFlight - 1) * Largest
  <2>1. Total(run) <= Cardinality(run) * Largest
    <3>1. \A t \in run : Amount[t] <= Largest
      BY LargestType DEF run
    <3> QED BY <1>1, <3>1, TotalBounded, LargestType
  <2>2. PICK d \in Nat : InFlight - 1 = Cardinality(run) + d
    <3>1. InFlight - 1 - Cardinality(run) \in Nat
      BY <1>2, PayoutAssumption, AmountAssumption
    <3> QED BY <1>2, <3>1, PayoutAssumption, AmountAssumption
  <2>3. (InFlight - 1) * Largest = Cardinality(run) * Largest + d * Largest
    BY <1>2, <2>2, LargestType
  <2>4. d * Largest \in Nat /\ Cardinality(run) * Largest \in Nat /\ Total(run) \in Nat
    BY <1>1, <1>2, LargestType, TotalType
  <2> QED BY <2>1, <2>3, <2>4
<1>6. Total(Held') <= Total(run) + Total(booked) + Amount[p]
  <2>1. Total(run \cup booked) <= Total(run) + Total(booked)
    BY <1>1, TotalOfUnion
  <2>2. Total(run \cup booked \cup {p}) <= Total(run \cup booked) + Total({p})
    BY <1>1, TotalOfUnion
  <2>3. Total({p}) = Amount[p] + Total({})
    <3>1. {p} \ {p} = {}
      OBVIOUS
    <3>2. Total({p}) = Amount[p] + Total({p} \ {p})
      BY <1>1, TotalWithout
    <3>3. Total({p} \ {p}) = Total({})
      BY ONLY <3>1
    <3> QED BY <3>2, <3>3
  <2>4. Total({}) = 0
    BY TotalStep
  <2>5. run \cup booked \cup {p} \in SUBSET Txns
    BY <1>1
  <2>6. Total(Held') <= Total(run \cup booked \cup {p})
    BY <1>3, <2>5, TotalGrows
  <2>7. /\ Total(run) \in Nat /\ Total(booked) \in Nat /\ Total(run \cup booked) \in Nat
        /\ Total(run \cup booked \cup {p}) \in Nat /\ Total(Held') \in Nat /\ Amount[p] \in Nat
    BY <1>1, <1>3, <2>5, TotalType, PayoutAssumption, AmountAssumption
  <2> QED BY <2>1, <2>2, <2>3, <2>4, <2>6, <2>7
<1>7. /\ Total(run) \in Nat /\ Total(booked) \in Nat /\ Amount[p] \in Nat /\ Total(Held') \in Nat
      /\ (InFlight - 1) * Largest \in Nat
  <2>1. Held' \in SUBSET Txns
    BY <1>1, <1>3
  <2> QED BY <1>1, <2>1, TotalType, LargestType, PayoutAssumption, AmountAssumption
<1> QED BY <1>4, <1>5, <1>6, <1>7, PayoutAssumption, AmountAssumption

\* A step of the route allows one more, or holds nothing new.
LEMMA RouteStepCapInv ==
    ASSUME CapInv, PInv', NEW p \in Payouts, PayoutStep(p) \/ CrashPayout(p)
    PROVE  CapInv'
<1>1. CASE AllowPayout(p)
  BY <1>1, AllowBounds DEF CapInv
<1>2. CASE ~AllowPayout(p)
  <2>1. /\ step \in [Payouts -> {"new"} \cup Running \cup Ended]
        /\ koraPayout \in [Payouts -> {"none", "accepted", "paid", "failed"}]
    BY DEF CapInv, PInv, PayoutTypeOK
  <2>2. \A q \in Payouts \ {p} : step'[q] = step[q] /\ koraPayout'[q] = koraPayout[q]
    BY <1>2, <2>1 DEF PayoutStep, DenyPayout, ValidateOnly, SendPayout, AnswerPayout, CommitCreated,
                      FailPayout, CrashPayout, Move
  <2>3. p \in Held' => p \in Held
    BY <1>2, <2>1 DEF Held, PayoutStep, DenyPayout, ValidateOnly, SendPayout, AnswerPayout,
                      CommitCreated, FailPayout, CrashPayout, Move
  <2>4. Held' \subseteq Held
    BY <2>2, <2>3 DEF Held
  <2> QED BY <2>4, HeldShrinks
<1> QED BY <1>1, <1>2

LEMMA SettleCapInv ==
    ASSUME CapInv, PInv', NEW p \in Payouts, SettlePayout(p)
    PROVE  CapInv'
<1>1. Held' \subseteq Held
  BY DEF CapInv, PInv, PayoutTypeOK, SettlePayout, Held
<1> QED BY <1>1, HeldShrinks

\* The steps of others hold nothing.
LEMMA CapKept == CapInv /\ PInv' /\ UNCHANGED <<step, koraPayout>> => CapInv'
BY HeldShrinks DEF Held

LEMMA NextCapInv == CapInv /\ [PayoutNext]_payoutVars => CapInv'
<1> SUFFICES ASSUME CapInv, [PayoutNext]_payoutVars PROVE CapInv'
  OBVIOUS
<1>0. PInv'
  BY NextPInv DEF CapInv
<1>1. CASE UNCHANGED <<step, koraPayout>>
  BY <1>0, <1>1, CapKept
<1>2. ASSUME NEW p \in Payouts, PayoutStep(p) \/ CrashPayout(p) PROVE CapInv'
  BY <1>0, <1>2, RouteStepCapInv
<1>3. ASSUME NEW p \in Payouts, SettlePayout(p) PROVE CapInv'
  BY <1>0, <1>3, SettleCapInv
<1> QED
  BY <1>1, <1>2, <1>3 DEF PayoutNext, PayoutEndpoint, payoutVars

LEMMA NothingHeld ==
    (\A p \in Payouts : step[p] = "new") => Total(Held) <= Limit + (InFlight - 1) * Largest
<1> SUFFICES ASSUME \A p \in Payouts : step[p] = "new"
             PROVE  Total(Held) <= Limit + (InFlight - 1) * Largest
  OBVIOUS
<1>1. Held = {}
  BY DEF Held
<1>2. Total({}) = 0
  BY TotalStep
<1>3. Limit + (InFlight - 1) * Largest \in Nat
  BY LargestType, PayoutAssumption, AmountAssumption
<1>4. Total(Held) = 0
  BY ONLY <1>1, <1>2
<1> QED BY <1>3, <1>4

LEMMA HeldIsBound == CapInv => CapBound
<1> SUFFICES ASSUME CapInv PROVE CapBound
  OBVIOUS
<1> DEFINE due == {p \in Payouts : koraPayout[p] \in {"accepted", "paid"} /\ step[p] \notin Lost}
<1>1. due \in SUBSET Held
  BY DEF CapInv, PInv, PayoutTypeOK, StepOK, Held, Lost, Running, Ended
<1>2. Held \in SUBSET Txns
  BY DEF Held, Txns
<1>3. CapBound <=> Total(due) <= Limit + (InFlight - 1) * Largest
  BY DEF CapBound, Total, Largest
<1> HIDE DEF due
<1>4. Total(due) <= Total(Held) /\ Total(due) \in Nat /\ Total(Held) \in Nat
  BY <1>1, <1>2, TotalGrows, TotalType
<1>5. Limit + (InFlight - 1) * Largest \in Nat
  BY LargestType, PayoutAssumption, AmountAssumption
<1> QED BY <1>3, <1>4, <1>5 DEF CapInv

\* The monthly cap of create_kora_payout: what Kora pays or may pay stays within
\* the limit, but for one amount for each other request that runs at the same time
\* (enforce_kyc1_monthly_limit), for all amounts and limits.
THEOREM CapBoundAlways == PayoutSpec => []CapBound
<1>1. PayoutInit => CapInv
  BY InitPInv, NothingHeld DEF CapInv, PayoutInit
<1> QED BY <1>1, HeldIsBound, NextCapInv, PTL DEF PayoutSpec
=================================================================================
