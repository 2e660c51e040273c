---------------------------- MODULE KoraRefundProofs ----------------------------
(***************************************************************************)
(* Proofs about KoraRefund: one call of Kora per idempotency key, for      *)
(* every set of keys, requests, pay-ins and events.                        *)
(*                                                                         *)
(* What excludes a second call is the unique constraint of the committed   *)
(* "requested" row and that rows stay: the request that inserted the row   *)
(* of a key is the only one that ever gets to the call for it, and the     *)
(* webhook endpoint, whose steps keep the invariant of KoraWebhookProofs,  *)
(* neither removes a row nor changes what it asks for.                     *)
(*                                                                         *)
(* RefundedIsPaidBack needs the provider's side as well: a stored success  *)
(* event names a refund that Kora paid back, and whatever refund of the    *)
(* same pay-in the endpoint picks, the pay-in is the event's.              *)
(***************************************************************************)
EXTENDS KoraRefund, KoraWebhookProofs

\* A request that has written its row is the one its row was written for.
RequestOK(r) ==
    /\ req[r].at # "new" => req[r].key \in RefundKeys /\ req[r].txn \in Payins
    /\ req[r].at \in {"call", "sent", "answered", "error"} =>
          /\ Exists(req[r].key)
          /\ refund[req[r].key].txn = req[r].txn
          /\ refund[req[r].key].amount = req[r].amount
    /\ req[r].at = "call" => calls[req[r].key] = 0
    /\ req[r].at \in {"sent", "answered"} => koraRefund[req[r].key] # "none"
    /\ req[r].at = "answered" => req[r].answer # "none"

\* Only one request gets to the call for a key.
OneCaller ==
    \A r, s \in Requests :
        req[r].at = "call" /\ req[s].at = "call" /\ req[r].key = req[s].key => r = s

\* A key that was called has its row.
CalledExists == \A k \in RefundKeys : calls[k] # 0 => calls[k] = 1 /\ Exists(k)

RInv == /\ FoundInv /\ RefundTypeOK
        /\ \A r \in Requests : RequestOK(r)
        /\ OneCaller /\ CalledExists

-------------------------------------------------------------------------------
(* The steps of the route on the invariant of the endpoint.                  *)

\* How the route may change kora_refunds: rows that exist keep their pay-in.
RowsKept ==
    /\ refund' \in [RefundKeys -> RefundRow]
    /\ \A k \in RefundKeys :
          /\ Exists(k) => Exists(k)' /\ refund'[k].txn = refund[k].txn
          /\ refund[k].txn \in Payins => refund'[k].txn \in Payins
          /\ Exists(k)' => refund'[k].txn \in Payins

LEMMA RefundKeepsEndpoint ==
    ASSUME FoundInv, RowsKept, RefundsOnly
    PROVE  FoundInv'
<1> USE DEF FoundInv, IInv, RefundsOnly
<1>1. TypeOK' /\ InboxOK' /\ RefundOK' /\ AppliedOnce' /\ Exclusive'
  BY DEF TypeOK, InboxOK, RefundOK, AppliedOnce, Exclusive, RowsKept, Exists
<1>2. LedgerRows'
  BY DEF LedgerRows, RowsKept, Exists
<1>3. DebitsBacked'
  BY DEF DebitsBacked, Backed, LedgerRows, RowsKept, Exists, TypeOK, Debit
<1>4. ASSUME NEW h \in Handlers
      PROVE  HandlerOK(h)' /\ FoundOK(h)'
  <2>1. Msg(h)' = Msg(h)
    BY DEF Msg
  <2>2. /\ pc[h] # "idle" /\ work[h].refund # None =>
             /\ work[h].refund \in RefundKeys
             /\ Exists(work[h].refund)
    BY DEF FoundOK, RefundMatches, Exists
  <2>3. pc[h] # "idle" /\ Found(h) => Found(h)'
    BY <2>1, <2>2, RowsAssumption DEF Found, RowsKept
  <2>4. HandlerOK(h)'
    BY <2>1, <2>3 DEF HandlersOK, HandlerOK, Owns, NeedsDebit
  <2>5. FoundOK(h)'
    BY <2>1, <2>2, <2>3 DEF FoundOK, RefundMatches, RowsKept, Exists
  <2> QED BY <2>4, <2>5
<1>5. RefundsRead'
  BY DEF RefundsRead, RowsKept, TypeOK, Work
<1> QED BY <1>1, <1>2, <1>3, <1>4, <1>5 DEF HandlersOK

-------------------------------------------------------------------------------
(* The steps of the endpoint, and of others, on the rows of the route.       *)

\* The endpoint keeps every row, its pay-in and its amount.
LEMMA EndpointRInv ==
    ASSUME RInv, NEW h \in Handlers, HandlerNext(h), UNCHANGED <<req, calls, koraRefund>>
    PROVE  RInv'
<1> USE DEF RInv
<1>1. FoundInv'
  BY HandlerIsNext, NextFoundInv
<1>2. \A k \in RefundKeys : /\ Exists(k) => Exists(k)'
                            /\ refund'[k].txn = refund[k].txn
                            /\ refund'[k].amount = refund[k].amount
  BY RefundsKept DEF FoundInv
<1>3. RefundTypeOK'
  BY <1>1 DEF RefundTypeOK, FoundInv, IInv
<1>4. \A r \in Requests : RequestOK(r)'
  BY <1>2 DEF RequestOK, Exists
<1>5. OneCaller' /\ CalledExists'
  BY <1>2 DEF OneCaller, CalledExists, Exists
<1> QED BY <1>1, <1>3, <1>4, <1>5

\* Steps that do not touch kora_refunds keep what is known of it.
LEMMA RefundRInv ==
    ASSUME RInv, FoundInv', UNCHANGED <<refund, req, calls, koraRefund>>
    PROVE  RInv'
<1> USE DEF RInv
<1>1. RefundTypeOK'
  BY DEF RefundTypeOK, FoundInv, IInv
<1>2. OneCaller' /\ CalledExists' /\ \A r \in Requests : RequestOK(r)'
  BY DEF OneCaller, CalledExists, RequestOK, Exists
<1> QED BY <1>1, <1>2

-------------------------------------------------------------------------------
(* The steps of the route.                                                   *)

\* What a step of one request leaves alone in the others.
LEMMA OtherRequest ==
    ASSUME NEW s \in Requests, RequestOK(s), req'[s] = req[s],
           req[s].at # "new" =>
             /\ req[s].at \in {"call", "sent", "answered", "error"} =>
                   /\ Exists(req[s].key)'
                   /\ refund'[req[s].key].txn = refund[req[s].key].txn
                   /\ refund'[req[s].key].amount = refund[req[s].key].amount
             /\ req[s].at = "call" => calls'[req[s].key] = calls[req[s].key]
             /\ koraRefund[req[s].key] # "none" => koraRefund'[req[s].key] # "none"
    PROVE  RequestOK(s)'
BY DEF RequestOK, Exists

\* A request that only moves on, or dies.
LEMMA QuietRequest ==
    ASSUME RInv, NEW r \in Requests, NEW row \in RefundRequest,
           req' = [req EXCEPT ![r] = row],
           row.at # "new" => row.key \in RefundKeys /\ row.txn \in Payins,
           row.at # "call",
           row.at \in {"sent", "answered", "error"} =>
             /\ req[r].at \in {"call", "sent"}
             /\ row.key = req[r].key /\ row.txn = req[r].txn /\ row.amount = req[r].amount,
           row.at \in {"sent", "answered"} => koraRefund[row.key] # "none",
           row.at = "answered" => row.answer # "none",
           UNCHANGED <<refund, calls, koraRefund>>, RefundsOnly
    PROVE  RInv'
<1> USE DEF RInv
<1>1. RowsKept
  BY DEF RowsKept, Exists, FoundInv, IInv, TypeOK, RefundOK
<1>2. FoundInv'
  BY <1>1, RefundKeepsEndpoint
<1>3. RefundTypeOK'
  BY <1>2 DEF RefundTypeOK, FoundInv, IInv
<1>4. req'[r] = row
  BY DEF RefundTypeOK
<1>5. ASSUME NEW s \in Requests PROVE RequestOK(s)'
  <2>1. CASE s = r
    BY <1>4, <2>1 DEF RequestOK, Exists
  <2>2. CASE s # r
    BY <2>2, OtherRequest DEF RefundTypeOK, RequestOK, Exists
  <2> QED BY <2>1, <2>2
<1>6. OneCaller' /\ CalledExists'
  BY <1>4 DEF OneCaller, CalledExists, Exists, RefundTypeOK
<1> QED BY <1>2, <1>3, <1>5, <1>6

\* Open, Lookup, AnswerRefund, the conflicting Insert, the call that does not reach
\* Kora and the death of the process write no table.
LEMMA QuietStepRInv ==
    ASSUME RInv, NEW r \in Requests,
           \/ \E k \in RefundKeys, t \in Payins : \E a \in 1 .. Amount[t] : Open(r, k, t, a)
           \/ Lookup(r) \/ AnswerRefund(r) \/ CrashRefund(r)
           \/ Insert(r) /\ KeyTaken(req[r].key)
           \/ Call(r) /\ Go(r, "error") /\ UNCHANGED <<calls, koraRefund>>
    PROVE  RInv'
<1>1. req[r] \in RefundRequest /\ RequestOK(r)
  BY DEF RInv, RefundTypeOK
<1>2. ASSUME NEW k \in RefundKeys, NEW t \in Payins, NEW a \in 1 .. Amount[t], Open(r, k, t, a)
      PROVE  RInv'
  <2> DEFINE row == [req[r] EXCEPT !.at = "lookup", !.key = k, !.txn = t, !.amount = a]
  <2>1. a \in Nat
    BY AmountAssumption DEF Txns
  <2>2. row \in RefundRequest /\ row.at = "lookup" /\ row.key = k /\ row.txn = t
    BY <1>1, <2>1 DEF RefundRequest
  <2>3. req' = [req EXCEPT ![r] = row] /\ UNCHANGED <<refund, calls, koraRefund>> /\ RefundsOnly
    BY <1>2 DEF Open
  <2> HIDE DEF row
  <2> QED BY <2>2, <2>3, QuietRequest
<1>3. ASSUME NEW place \in {"replayed", "insert", "conflict", "error", "dead"}, Go(r, place),
             UNCHANGED <<refund, calls, koraRefund>>, RefundsOnly,
             req[r].at # "new", place = "error" => req[r].at \in {"call", "sent"}
      PROVE  RInv'
  <2> DEFINE row == [req[r] EXCEPT !.at = place]
  <2>1. /\ row \in RefundRequest /\ row.at = place /\ row.key = req[r].key /\ row.txn = req[r].txn
        /\ row.amount = req[r].amount
    BY <1>1 DEF RefundRequest
  <2>2. req' = [req EXCEPT ![r] = row]
    BY <1>3 DEF Go
  <2>3. req[r].key \in RefundKeys /\ req[r].txn \in Payins
    BY <1>1, <1>3 DEF RequestOK
  <2> HIDE DEF row
  <2> QED BY <1>3, <2>1, <2>2, <2>3, QuietRequest
<1>4. ASSUME AnswerRefund(r), ~Go(r, "error")
      PROVE  RInv'
  <2> DEFINE now == koraRefund[req[r].key]
             answer == IF now = "accepted" THEN "processing" ELSE now
             row == [req[r] EXCEPT !.at = "answered", !.answer = answer]
  <2>1. req[r].at = "sent" /\ req[r].key \in RefundKeys /\ req[r].txn \in Payins /\ now # "none"
    BY <1>1, <1>4 DEF AnswerRefund, At, RequestOK
  <2>2. answer \in RefundStatus \ {"none"}
    BY <2>1 DEF RInv, RefundTypeOK, RefundStatus
  <2>3. /\ row \in RefundRequest /\ row.at = "answered" /\ row.key = req[r].key
        /\ row.txn = req[r].txn /\ row.amount = req[r].amount /\ row.answer = answer
    BY <1>1, <2>2 DEF RefundRequest
  <2>4. req' = [req EXCEPT ![r] = row] /\ UNCHANGED <<refund, calls, koraRefund>> /\ RefundsOnly
    BY <1>4 DEF AnswerRefund
  <2> HIDE DEF row, answer
  <2> QED BY <2>1, <2>2, <2>3, <2>4, QuietRequest
<1>5. CASE Lookup(r)
  BY <1>3, <1>5 DEF Lookup, At
<1>6. CASE AnswerRefund(r)
  BY <1>3, <1>4, <1>6 DEF AnswerRefund, At
<1>7. CASE CrashRefund(r)
  BY <1>3, <1>7 DEF CrashRefund
<1>8. CASE Insert(r) /\ KeyTaken(req[r].key)
  BY <1>3, <1>8 DEF Insert, At
<1>9. CASE Call(r) /\ Go(r, "error") /\ UNCHANGED <<calls, koraRefund>>
  BY <1>3, <1>9 DEF Call, At
<1> QED BY <1>2, <1>5, <1>6, <1>7, <1>8, <1>9

\* The INSERT that takes the key: no other request is on its way to the call.
LEMMA InsertRInv ==
    ASSUME RInv, NEW r \in Requests, Insert(r), ~KeyTaken(req[r].key)
    PROVE  RInv'
<1> DEFINE k == req[r].key
           n == Cardinality({j \in RefundKeys : refund[j].status # "none"}) + 1
           row == [txn |-> req[r].txn, amount |-> req[r].amount, status |-> "requested", at |-> n]
           asked == [req[r] EXCEPT !.at = "call"]
<1> USE DEF RInv
<1>1. /\ req[r] \in RefundRequest /\ RequestOK(r) /\ req[r].at = "insert"
      /\ k \in RefundKeys /\ req[r].txn \in Payins /\ refund[k].status = "none"
  BY DEF RefundTypeOK, Insert, At, RequestOK, KeyTaken
<1>2. /\ refund' = [refund EXCEPT ![k] = row] /\ req' = [req EXCEPT ![r] = asked]
      /\ UNCHANGED <<calls, koraRefund>> /\ RefundsOnly
  BY DEF Insert, KeyTaken, Go, SetRefund
<1>3. row \in RefundRow
  <2>1. IsFiniteSet({j \in RefundKeys : refund[j].status # "none"})
    BY KeysAssumption, FS_Subset
  <2>2. n \in Nat
    BY <2>1, FS_CardinalityType
  <2> QED BY <1>1, <2>2 DEF RefundRow, RefundStatus, RefundRequest
<1>4. /\ asked \in RefundRequest /\ asked.at = "call" /\ asked.key = k /\ asked.txn = row.txn
      /\ asked.amount = row.amount /\ row.status = "requested" /\ row.txn \in Payins
  BY <1>1 DEF RefundRequest
<1> HIDE DEF row, asked
<1>5. refund' \in [RefundKeys -> RefundRow] /\ refund'[k] = row
      /\ \A j \in RefundKeys \ {k} : refund'[j] = refund[j]
  BY <1>1, <1>2, <1>3 DEF RefundTypeOK, TypeOK
<1>6. RowsKept
  BY <1>1, <1>4, <1>5 DEF RowsKept, Exists, FoundInv, IInv, RefundOK
<1>7. FoundInv'
  BY <1>2, <1>6, RefundKeepsEndpoint
<1>8. RefundTypeOK'
  BY <1>2, <1>4, <1>7 DEF RefundTypeOK, FoundInv, IInv
<1>9. req'[r] = asked /\ \A s \in Requests \ {r} : req'[s] = req[s]
  BY <1>2 DEF RefundTypeOK
<1>10. calls[k] = 0
  BY <1>1 DEF CalledExists, Exists
<1>11. ASSUME NEW s \in Requests PROVE RequestOK(s)'
  <2>1. CASE s = r
    BY <1>1, <1>2, <1>4, <1>5, <1>9, <1>10, <2>1 DEF RequestOK, Exists
  <2>2. CASE s # r
    <3>1. req[s].at \in {"call", "sent", "answered", "error"} =>
             req[s].key \in RefundKeys /\ Exists(req[s].key) /\ req[s].key # k
      BY <1>1 DEF RequestOK, Exists
    <3> QED BY <1>2, <1>5, <1>9, <2>2, <3>1, OtherRequest DEF Exists
  <2> QED BY <2>1, <2>2
<1>12. OneCaller'
  <2>1. ASSUME NEW s \in Requests \ {r}, req[s].at = "call" PROVE req[s].key # k
    BY <1>1, <2>1 DEF RequestOK, Exists
  <2> QED BY <1>4, <1>9, <2>1 DEF OneCaller
<1>13. CalledExists'
  BY <1>2, <1>5, <1>4 DEF CalledExists, Exists
<1> QED BY <1>7, <1>8, <1>11, <1>12, <1>13

\* The call that reaches Kora, the only one of its key.
LEMMA CallRInv ==
    ASSUME RInv, NEW r \in Requests, Call(r), ~(Go(r, "error") /\ UNCHANGED <<calls, koraRefund>>)
    PROVE  RInv'
<1> DEFINE k == req[r].key
           asked == [req[r] EXCEPT !.at = "sent"]
<1> USE DEF RInv
<1>1. /\ req[r] \in RefundRequest /\ RequestOK(r) /\ req[r].at = "call"
      /\ k \in RefundKeys /\ calls[k] = 0 /\ Exists(k)
  BY DEF RefundTypeOK, Call, At, RequestOK
<1>2. /\ req' = [req EXCEPT ![r] = asked] /\ calls' = [calls EXCEPT ![k] = @ + 1]
      /\ koraRefund' = [koraRefund EXCEPT ![k] = "accepted"] /\ UNCHANGED refund /\ RefundsOnly
  BY DEF Call, Go
<1>3. /\ asked \in RefundRequest /\ asked.at = "sent" /\ asked.key = k
      /\ asked.txn = req[r].txn /\ asked.amount = req[r].amount
  BY <1>1 DEF RefundRequest
<1> HIDE DEF asked
<1>4. /\ req'[r] = asked /\ \A s \in Requests \ {r} : req'[s] = req[s]
      /\ calls'[k] = 1 /\ \A j \in RefundKeys \ {k} : calls'[j] = calls[j]
      /\ koraRefund'[k] = "accepted" /\ \A j \in RefundKeys \ {k} : koraRefund'[j] = koraRefund[j]
  BY <1>1, <1>2 DEF RefundTypeOK
<1>5. RowsKept
  BY <1>2 DEF RowsKept, Exists, FoundInv, IInv, TypeOK, RefundOK
<1>6. FoundInv'
  BY <1>2, <1>5, RefundKeepsEndpoint
<1>7. RefundTypeOK'
  BY <1>1, <1>2, <1>3, <1>6 DEF RefundTypeOK, FoundInv, IInv
<1>8. ASSUME NEW s \in Requests PROVE RequestOK(s)'
  <2>1. CASE s = r
    BY <1>1, <1>2, <1>3, <1>4, <2>1 DEF RequestOK, Exists
  <2>2. CASE s # r
    <3>1. /\ req[s].at # "new" => req[s].key \in RefundKeys
          /\ req[s].at = "call" => req[s].key # k
      BY <1>1, <2>2 DEF OneCaller, RequestOK
    <3> QED BY <1>2, <1>4, <2>2, <3>1, OtherRequest DEF RequestOK, Exists
  <2> QED BY <2>1, <2>2
<1>9. OneCaller'
  BY <1>3, <1>4 DEF OneCaller
<1>10. CalledExists'
  BY <1>1, <1>2, <1>4 DEF CalledExists, Exists
<1> QED BY <1>6, <1>7, <1>8, <1>9, <1>10

\* The answer, or the error, is committed: only the status of the row changes.
LEMMA WriteBackRInv ==
    ASSUME RInv, NEW r \in Requests, CommitAnswer(r) \/ FailRefund(r)
    PROVE  RInv'
<1> DEFINE k == req[r].key
<1> USE DEF RInv
<1>1. /\ req[r] \in RefundRequest /\ RequestOK(r) /\ req[r].at \in {"answered", "error"}
      /\ k \in RefundKeys /\ Exists(k)
  BY DEF RefundTypeOK, CommitAnswer, FailRefund, At, RequestOK
<1>2. PICK place \in {"done", "badGateway"}, st \in RefundStatus \ {"none"} :
        /\ req' = [req EXCEPT ![r] = [req[r] EXCEPT !.at = place]]
        /\ refund' = [refund EXCEPT ![k] = [refund[k] EXCEPT !.status = st]]
        /\ UNCHANGED <<calls, koraRefund>> /\ RefundsOnly
  <2>1. CASE CommitAnswer(r)
    <3>1. req[r].answer \in RefundStatus \ {"none"}
      BY <1>1, <2>1 DEF CommitAnswer, At, RequestOK, RefundRequest
    <3> QED BY <2>1, <3>1 DEF CommitAnswer, Go, SetRefund
  <2>2. CASE FailRefund(r)
    <3>1. "failed" \in RefundStatus \ {"none"}
      BY DEF RefundStatus
    <3> QED BY <2>2, <3>1 DEF FailRefund, Go, SetRefund
  <2> QED BY <2>1, <2>2
<1>3. /\ [req[r] EXCEPT !.at = place] \in RefundRequest
      /\ req'[r].at = place /\ req'[r].key = k /\ req'[r].txn = req[r].txn
      /\ \A s \in Requests \ {r} : req'[s] = req[s]
  BY <1>1, <1>2 DEF RefundRequest, RefundTypeOK
<1>4. /\ refund' \in [RefundKeys -> RefundRow]
      /\ \A j \in RefundKeys : /\ Exists(j) <=> Exists(j)'
                               /\ refund'[j].txn = refund[j].txn
                               /\ refund'[j].amount = refund[j].amount
  BY <1>1, <1>2 DEF RefundTypeOK, TypeOK, RefundRow, Exists
<1>5. RowsKept
  BY <1>4 DEF RowsKept, FoundInv, IInv, RefundOK, Exists
<1>6. FoundInv'
  BY <1>2, <1>5, RefundKeepsEndpoint
<1>7. RefundTypeOK'
  BY <1>2, <1>3, <1>6 DEF RefundTypeOK, FoundInv, IInv
<1>8. ASSUME NEW s \in Requests PROVE RequestOK(s)'
  <2>1. CASE s = r
    BY <1>1, <1>3, <2>1 DEF RequestOK
  <2>2. CASE s # r
    BY <1>2, <1>3, <1>4, <2>2, OtherRequest DEF RequestOK
  <2> QED BY <2>1, <2>2
<1>9. OneCaller' /\ CalledExists'
  BY <1>2, <1>3, <1>4 DEF OneCaller, CalledExists
<1> QED BY <1>6, <1>7, <1>8, <1>9

LEMMA RequestRInv ==
    ASSUME RInv, NEW r \in Requests, RefundStep(r) \/ CrashRefund(r)
    PROVE  RInv'
<1>1. CASE Insert(r)
  BY <1>1, QuietStepRInv, InsertRInv
<1>2. CASE Call(r)
  BY <1>2, QuietStepRInv, CallRInv
<1>3. CASE CommitAnswer(r) \/ FailRefund(r)
  BY <1>3, WriteBackRInv
<1>4. CASE \/ \E k \in RefundKeys, t \in Payins : \E a \in 1 .. Amount[t] : Open(r, k, t, a)
           \/ Lookup(r) \/ AnswerRefund(r) \/ CrashRefund(r)
  BY <1>4, QuietStepRInv
<1> QED BY <1>1, <1>2, <1>3, <1>4 DEF RefundStep

\* Kora settles a refund.
LEMMA SettleRInv ==
    ASSUME RInv, NEW k \in RefundKeys, SettleRefund(k)
    PROVE  RInv'
<1> USE DEF RInv, SettleRefund
<1>1. RowsKept /\ RefundsOnly
  BY DEF RowsKept, RefundsOnly, vars, database, Exists, FoundInv, IInv, TypeOK, RefundOK
<1>2. FoundInv'
  BY <1>1, RefundKeepsEndpoint
<1>3. \A j \in RefundKeys : koraRefund[j] # "none" => koraRefund'[j] # "none"
  BY DEF RefundTypeOK
<1>4. \A r \in Requests : RequestOK(r)'
  BY <1>3, OtherRequest DEF RequestOK, vars, database, Exists
<1>5. RefundTypeOK' /\ OneCaller' /\ CalledExists'
  BY <1>2 DEF RefundTypeOK, FoundInv, IInv, OneCaller, CalledExists, vars, database, Exists
<1> QED BY <1>2, <1>4, <1>5

-------------------------------------------------------------------------------
(* The theorems.                                                             *)

LEMMA InitRInv == RefundInit => RInv
<1> SUFFICES ASSUME RefundInit PROVE RInv
  OBVIOUS
<1> USE DEF RefundInit, WebhookInit
<1>1. TypeOK
  BY BlankType DEF TypeOK, PaymentStatus, RefundRow, RefundStatus, NoRefund, TaskRow, TaskState,
                   NoTask, InboxRow, EventStatus, Places
<1>2. FoundInv
  BY <1>1 DEF FoundInv, IInv, InboxOK, RefundOK, NoRefund, HandlersOK, HandlerOK, Blank,
              Exclusive, RefundsRead, AppliedOnce, DebitsBacked, LedgerRows, FoundOK
<1>3. RefundTypeOK
  BY <1>1 DEF RefundTypeOK, RefundRequest, NoRequest, RefundStatus
<1>4. (\A r \in Requests : RequestOK(r)) /\ OneCaller /\ CalledExists
  BY DEF RequestOK, NoRequest, OneCaller, CalledExists
<1> QED BY <1>2, <1>3, <1>4 DEF RInv

LEMMA NextRInv == RInv /\ [RefundNext]_refundVars => RInv'
<1> SUFFICES ASSUME RInv, [RefundNext]_refundVars PROVE RInv'
  OBVIOUS
<1>1. CASE UNCHANGED refundVars
  <2>1. UNCHANGED vars /\ [Next]_vars
    BY <1>1 DEF refundVars
  <2>2. FoundInv'
    BY <2>1, NextFoundInv DEF RInv
  <2> QED BY <1>1, <2>2, RefundRInv DEF refundVars, vars, database
<1>2. ASSUME NEW r \in Requests, RefundStep(r) \/ CrashRefund(r) PROVE RInv'
  BY <1>2, RequestRInv
<1>3. ASSUME NEW k \in RefundKeys, SettleRefund(k) PROVE RInv'
  BY <1>3, SettleRInv
<1>4. ASSUME NEW h \in Handlers, RefundEndpoint(h) PROVE RInv'
  BY <1>4, EndpointRInv DEF RefundEndpoint, HandlerNext
<1> QED BY <1>1, <1>2, <1>3, <1>4 DEF RefundNext

\* The inductive invariant holds: rows are kept, and each belongs to the request
\* that inserted it.
THEOREM RefundInvariance == RefundSpec => []RInv
BY InitRInv, NextRInv, PTL DEF RefundSpec

\* The route and the endpoint together keep every table and request well typed.
THEOREM RefundTypeCorrect == RefundSpec => []RefundTypeOK
<1>1. RInv => RefundTypeOK
  BY DEF RInv
<1> QED BY <1>1, RefundInvariance, PTL

LEMMA CalledOnce == RInv => OneCallPerKey
<1> SUFFICES ASSUME RInv, NEW k \in RefundKeys PROVE calls[k] <= 1
  BY DEF OneCallPerKey
<1>1. calls[k] = 0 \/ calls[k] = 1
  BY DEF RInv, CalledExists
<1> QED BY <1>1

LEMMA CallsMatch == RInv => CallMatchesRow
BY DEF RInv, CallMatchesRow, RequestOK, Exists

\* An X-Idempotency-Key moves money once: however many requests carry it and
\* wherever they or the endpoint die, initiate_refund reaches Kora at most once.
THEOREM RefundCalledOnce == RefundSpec => []OneCallPerKey
BY CalledOnce, RefundInvariance, PTL

\* Kora is asked for the pay-in and the amount of the committed row, although
\* requests under one key may ask for different things.
THEOREM RefundCallMatchesRow == RefundSpec => []CallMatchesRow
BY CallsMatch, RefundInvariance, PTL

-------------------------------------------------------------------------------
(* What is shown as refunded was paid back.                                  *)

KnownIsCalled == \A k \in RefundKeys : koraRefund[k] # "none" => calls[k] # 0

\* A stored event about a refund is about one that has its row, and names its pay-in.
OwnRefund(m) == /\ m.refund \in RefundKeys /\ Exists(m.refund)
                /\ refund[m.refund].txn = m.ref[1]
                /\ m.outcome = "success" => koraRefund[m.refund] = "success"
RefundEventsTrue ==
    \A e \in Events :
        inbox[e].status # "none" /\ inbox[e].msg.kind = "refund" => OwnRefund(inbox[e].msg)

\* Its entry is about the pay-in it names, whichever refund the entry names.
EntriesTrue == \A d \in ledger : d.kind = "refund" => d.txn = inbox[d.event].msg.ref[1]

PaidBack(t) == \E k \in RefundKeys : refund[k].txn = t /\ koraRefund[k] = "success"
StatusTrue == \A t \in Payins : status[t] = "refunded" => PaidBack(t)

BInv == RInv /\ KnownIsCalled /\ RefundEventsTrue /\ EntriesTrue /\ StatusTrue

\* A success of Kora stays, and so does the row it is about.
KeptByKora ==
    \A k \in RefundKeys :
        /\ Exists(k) => Exists(k)' /\ refund'[k].txn = refund[k].txn
        /\ koraRefund[k] = "success" => koraRefund'[k] = "success"

\* The routes, the workers and Kora refund no pay-in and leave ledger and inbox alone.
LEMMA KeptBInv ==
    ASSUME BInv, RInv', KeptByKora, KnownIsCalled', UNCHANGED <<ledger, inbox>>,
           \A t \in Payins : status'[t] = "refunded" => status[t] = "refunded"
    PROVE  BInv'
<1> USE DEF BInv
<1>1. RefundEventsTrue'
  BY DEF RefundEventsTrue, OwnRefund, KeptByKora
<1>2. \A k \in RefundKeys : koraRefund[k] = "success" => Exists(k)
  BY DEF KnownIsCalled, RInv, CalledExists
<1>3. StatusTrue'
  <2> SUFFICES ASSUME NEW t \in Payins, status[t] = "refunded" PROVE PaidBack(t)'
    BY DEF StatusTrue
  <2>1. PICK k \in RefundKeys : refund[k].txn = t /\ koraRefund[k] = "success"
    BY DEF StatusTrue, PaidBack
  <2>2. refund'[k].txn = t /\ koraRefund'[k] = "success"
    BY <2>1, <1>2 DEF KeptByKora
  <2> QED BY <2>2 DEF PaidBack
<1>4. EntriesTrue'
  BY DEF EntriesTrue
<1> QED BY <1>1, <1>3, <1>4

LEMMA RouteBInv ==
    ASSUME BInv, RInv', NEW r \in Requests, RefundStep(r) \/ CrashRefund(r)
    PROVE  BInv'
<1> USE DEF BInv
<1>0. /\ RequestOK(r) /\ req[r] \in RefundRequest
      /\ refund \in [RefundKeys -> RefundRow] /\ calls \in [RefundKeys -> Nat]
      /\ koraRefund \in [RefundKeys -> {"none", "accepted", "success", "failed"}]
  BY DEF RInv, RefundTypeOK, TypeOK
<1>1. UNCHANGED <<status, ledger, inbox>>
  BY DEF RefundStep, CrashRefund, Open, Lookup, Insert, Call, AnswerRefund, CommitAnswer,
         FailRefund, RefundsOnly
<1>2. CASE Insert(r)
  <2>1. UNCHANGED <<calls, koraRefund>>
    BY <1>2 DEF Insert
  <2>2. \A k \in RefundKeys : Exists(k) => refund'[k] = refund[k]
    BY <1>0, <1>2 DEF Insert, KeyTaken, SetRefund, Exists
  <2> QED BY <2>1, <2>2, <1>1, KeptBInv DEF KeptByKora, KnownIsCalled, Exists
<1>3. CASE Call(r)
  <2> DEFINE j == req[r].key
  <2>1. refund' = refund /\ j \in RefundKeys /\ calls[j] = 0 /\ koraRefund[j] = "none"
    BY <1>0, <1>3 DEF Call, At, RequestOK, KnownIsCalled
  <2>2. \/ UNCHANGED <<calls, koraRefund>>
        \/ /\ calls' = [calls EXCEPT ![j] = @ + 1]
           /\ koraRefund' = [koraRefund EXCEPT ![j] = "accepted"]
    BY <1>3 DEF Call
  <2> HIDE DEF j
  <2>3. KnownIsCalled'
    BY <1>0, <2>1, <2>2 DEF KnownIsCalled
  <2>4. KeptByKora
    BY <1>0, <2>1, <2>2 DEF KeptByKora, Exists
  <2> QED BY <2>3, <2>4, <1>1, KeptBInv
<1>4. CASE CommitAnswer(r) \/ FailRefund(r)
  <2> DEFINE j == req[r].key
  <2>1. UNCHANGED <<calls, koraRefund>> /\ j \in RefundKeys
    BY <1>0, <1>4 DEF CommitAnswer, FailRefund, At, RequestOK
  <2>2. PICK s : s # "none" /\ refund' = [refund EXCEPT ![j] = [refund[j] EXCEPT !.status = s]]
    BY <1>0, <1>4 DEF CommitAnswer, FailRefund, At, RequestOK, SetRefund
  <2> HIDE DEF j
  <2>3. \A k \in RefundKeys : /\ refund'[k].txn = refund[k].txn
                              /\ refund[k].status # "none" => refund'[k].status # "none"
    BY <1>0, <2>1, <2>2 DEF RefundRow
  <2> QED BY <2>1, <2>3, <1>1, KeptBInv DEF KeptByKora, KnownIsCalled, Exists
<1>5. CASE ~(Insert(r) \/ Call(r) \/ CommitAnswer(r) \/ FailRefund(r))
  <2>1. UNCHANGED <<refund, calls, koraRefund>>
    BY <1>5 DEF RefundStep, CrashRefund, Open, Lookup, AnswerRefund
  <2> QED BY <2>1, <1>1, KeptBInv DEF KeptByKora, KnownIsCalled, Exists
<1> QED BY <1>2, <1>3, <1>4, <1>5

\* Steps that touch neither kora_refunds nor the endpoint's tables.
LEMMA RefundKept ==
    ASSUME BInv, FoundInv', UNCHANGED <<refund, ledger, inbox, req, calls, koraRefund>>,
           \A t \in Payins : status'[t] = "refunded" => status[t] = "refunded"
    PROVE  BInv'
<1>1. RInv'
  BY RefundRInv DEF BInv
<1>2. KeptByKora /\ KnownIsCalled'
  BY DEF BInv, KeptByKora, KnownIsCalled, Exists
<1> QED BY <1>1, <1>2, KeptBInv

LEMMA SettleBInv ==
    ASSUME BInv, RInv', NEW k \in RefundKeys, SettleRefund(k)
    PROVE  BInv'
<1>1. UNCHANGED <<status, ledger, inbox>> /\ refund' = refund /\ calls' = calls
  BY DEF SettleRefund, vars, database
<1>2. KeptByKora /\ KnownIsCalled'
  BY <1>1 DEF SettleRefund, KeptByKora, KnownIsCalled, Exists, BInv, RInv, RefundTypeOK
<1> QED BY <1>1, <1>2, KeptBInv

\* What Kora says of a refund, it says of one that AFM has asked for.
LEMMA TruthIsOwn ==
    ASSUME BInv, NEW m \in Message, TruthfulRefund(m)
    PROVE  OwnRefund(m)
<1>1. /\ m.refund \in RefundKeys /\ refund[m.refund].txn = m.ref[1]
      /\ koraRefund[m.refund] # "none"
      /\ m.outcome = "success" => koraRefund[m.refund] = "success"
  BY MessageType DEF TruthfulRefund, Outcome
<1>2. Exists(m.refund)
  BY <1>1 DEF BInv, KnownIsCalled, RInv, CalledExists
<1> QED BY <1>1, <1>2 DEF OwnRefund

\* What is stored stays true if what is delivered is what Kora says.
LEMMA RefundEventsStay ==
    ASSUME BInv, NEW h \in Handlers, HandlerNext(h), UNCHANGED <<req, calls, koraRefund>>,
           \A e \in Events : NewEvent(e) /\ inbox'[e].msg.kind = "refund"
                               => inbox'[e].msg \in Message /\ TruthfulRefund(inbox'[e].msg)
    PROVE  RefundEventsTrue'
<1> SUFFICES ASSUME NEW e \in Events, inbox'[e].status # "none", inbox'[e].msg.kind = "refund"
             PROVE  OwnRefund(inbox[e].msg)'
  BY DEF RefundEventsTrue
<1>1. OwnRefund(inbox'[e].msg)
  <2>1. CASE NewEvent(e)
    BY <2>1, TruthIsOwn
  <2>2. CASE ~NewEvent(e)
    <3>1. inbox[e].status # "none" /\ inbox'[e].msg = inbox[e].msg
      BY <2>2, EventsKept DEF NewEvent, BInv, RInv, FoundInv
    <3> QED BY <3>1 DEF BInv, RefundEventsTrue
  <2> QED BY <2>1, <2>2
<1>2. \A k \in RefundKeys : (Exists(k) => Exists(k)') /\ refund'[k].txn = refund[k].txn
  BY RefundsKept DEF BInv, RInv, FoundInv
<1> QED BY <1>1, <1>2 DEF OwnRefund

\* A commit writes into the status, and the ledger, of the pay-in its event names.
LEMMA CommitBInv ==
    ASSUME BInv, RInv', NEW h \in Handlers, Commit(h), UNCHANGED <<req, calls, koraRefund>>
    PROVE  EntriesTrue' /\ StatusTrue'
<1> USE DEF BInv, RInv, FoundInv, IInv
<1>1. \A k \in RefundKeys : refund'[k].txn = refund[k].txn
  BY RefundsKept DEF HandlerNext, HandlerStep, QuietStep
<1>2. \A f \in Events : inbox'[f].msg = inbox[f].msg
  BY DEF Commit, TypeOK, InboxRow
<1>3. ASSUME NEW m \in Message, NEW k \in RefundMatches(m), refund[m.refund].txn = m.ref[1]
      PROVE  refund[k].txn = m.ref[1]
  BY <1>3 DEF RefundMatches
<1>4. EntriesTrue'
  <2> SUFFICES ASSUME NEW d \in ledger', d.kind = "refund" PROVE d.txn = inbox'[d.event].msg.ref[1]
    BY DEF EntriesTrue
  <2>1. CASE d \in ledger
    <3>1. d.event \in Events /\ d.txn = inbox[d.event].msg.ref[1]
      BY <2>1 DEF EntriesTrue, TypeOK, Debit
    <3> QED BY <3>1, <1>2
  <2>2. CASE d \notin ledger
    <3>1. work[h].debit /\ d = NewDebit(h)
      BY <2>2 DEF Commit
    <3>2. /\ work[h].event \in Events /\ inbox[work[h].event].status = "received"
          /\ Msg(h) \in Message /\ Msg(h).kind = "refund"
      BY <3>1 DEF Commit, HandlersOK, HandlerOK, Owns, InboxOK, Msg, NewDebit
    <3>3. refund[Msg(h).refund].txn = Msg(h).ref[1]
      BY <3>2 DEF RefundEventsTrue, OwnRefund, Msg
    <3>4. work[h].refund \in RefundMatches(Msg(h)) /\ work[h].txn = refund[work[h].refund].txn
      BY <3>1, <3>2, RowsAssumption DEF HandlersOK, HandlerOK, Found, FoundOK, Commit
    <3>5. work[h].txn = Msg(h).ref[1]
      BY <3>2, <3>3, <3>4, <1>3
    <3> QED BY <3>1, <3>2, <3>5, <1>2 DEF NewDebit, Msg
  <2> QED BY <2>1, <2>2
<1>5. StatusTrue'
  <2> SUFFICES ASSUME NEW t \in Payins, status'[t] = "refunded"
               PROVE  \E k \in RefundKeys : refund[k].txn = t /\ koraRefund[k] = "success"
    BY <1>1 DEF StatusTrue, PaidBack
  <2>1. CASE status[t] = "refunded"
    BY <2>1 DEF StatusTrue, PaidBack
  <2>2. CASE status[t] # "refunded"
    <3>1. t \in Txns
      BY DEF Txns
    <3>2. PICK e \in Events : inbox[e].status = "received" /\ SaysSo(inbox[e].msg, t)
      BY <2>2, <3>1, CommitCaused
    <3> DEFINE m == inbox[e].msg
    <3>3. m \in Message /\ m.kind = "refund"
      BY <2>2, <3>2 DEF SaysSo, InboxOK
    <3>4. /\ m.refund \in RefundKeys /\ refund[m.refund].txn = m.ref[1]
          /\ m.outcome = "success" => koraRefund[m.refund] = "success"
      BY <3>2, <3>3 DEF RefundEventsTrue, OwnRefund
    <3>5. m.outcome = "success" /\ \E k \in RefundMatches(m) : refund[k].txn = t
      BY <3>2, <3>3 DEF SaysSo
    <3>6. m.ref[1] = t
      BY <3>3, <3>4, <3>5, <1>3
    <3> QED BY <3>4, <3>5, <3>6
  <2> QED BY <2>1, <2>2
<1> QED BY <1>4, <1>5

LEMMA EndpointBInv ==
    ASSUME BInv, RInv', NEW h \in Handlers, HandlerNext(h), UNCHANGED <<req, calls, koraRefund>>,
           \A e \in Events : NewEvent(e) /\ inbox'[e].msg.kind = "refund"
                               => inbox'[e].msg \in Message /\ TruthfulRefund(inbox'[e].msg)
    PROVE  BInv'
<1> USE DEF BInv
<1>1. RefundEventsTrue'
  BY RefundEventsStay
<1>2. KnownIsCalled'
  BY DEF KnownIsCalled
<1>3. CASE Commit(h)
  BY <1>1, <1>2, <1>3, CommitBInv
<1>4. CASE ~Commit(h)
  <2>1. status' = status /\ ledger' = ledger /\ refund' = refund
    BY <1>4, OnlyCommits DEF database
  <2>2. StatusTrue'
    BY <2>1 DEF StatusTrue, PaidBack
  <2>3. ASSUME NEW d \in ledger PROVE inbox'[d.event].msg = inbox[d.event].msg
    <3>1. d.event \in Events /\ inbox[d.event].status = "processed"
      BY DEF RInv, FoundInv, IInv, TypeOK, Debit, DebitsBacked, Backed
    <3> QED BY <3>1, EventsKept DEF RInv, FoundInv
  <2>4. EntriesTrue'
    BY <2>1, <2>3 DEF EntriesTrue
  <2> QED BY <1>1, <1>2, <2>2, <2>4
<1> QED BY <1>3, <1>4

LEMMA NextBInv == BInv /\ [RefundNext]_refundVars => BInv'
<1> SUFFICES ASSUME BInv, [RefundNext]_refundVars PROVE BInv'
  OBVIOUS
<1>1. RInv'
  BY NextRInv DEF BInv
<1>2. CASE UNCHANGED refundVars
  BY <1>1, <1>2, RefundKept DEF refundVars, vars, database, RInv
<1>3. ASSUME NEW r \in Requests, RefundStep(r) \/ CrashRefund(r) PROVE BInv'
  BY <1>1, <1>3, RouteBInv
<1>4. ASSUME NEW k \in RefundKeys, SettleRefund(k) PROVE BInv'
  BY <1>1, <1>4, SettleBInv
<1>5. ASSUME NEW h \in Handlers, RefundEndpoint(h) PROVE BInv'
  <2>1. HandlerNext(h) /\ UNCHANGED <<req, calls, koraRefund>> /\ IInv
    BY <1>5 DEF RefundEndpoint, HandlerNext, BInv, RInv, FoundInv
  <2>2. ASSUME NEW e \in Events, NewEvent(e)
        PROVE  inbox'[e].msg \in Message /\ TruthfulRefund(inbox'[e].msg)
    <3>1. PICK f \in Events, m \in Message : TruthfulRefund(m) /\ Receive(h, f, m)
      BY <1>5, <2>1, <2>2, StepStoresNothing DEF RefundEndpoint
    <3> QED BY <2>1, <2>2, <3>1, NewIsDelivered
  <2> QED BY <1>1, <2>1, <2>2, EndpointBInv
<1> QED BY <1>2, <1>3, <1>4, <1>5 DEF RefundNext

LEMMA BackIsPaid == BInv => RefundedIsPaidBack
<1> SUFFICES ASSUME BInv, NEW t \in Payins,
                    status[t] = "refunded" \/ (\E d \in ledger : d.txn = t)
             PROVE  \E k \in RefundKeys : refund[k].txn = t /\ koraRefund[k] = "success"
  BY DEF RefundedIsPaidBack
<1>1. CASE status[t] = "refunded"
  BY <1>1 DEF BInv, StatusTrue, PaidBack
<1>2. CASE \E d \in ledger : d.txn = t
  <2>1. PICK d \in ledger : d.txn = t
    BY <1>2
  <2> DEFINE m == inbox[d.event].msg
  <2>2. /\ d.event \in Events /\ inbox[d.event].status = "processed" /\ m \in Message
        /\ m.outcome = "success" /\ m.kind = d.kind /\ d \in Debit /\ Backed(d)
    BY DEF BInv, RInv, FoundInv, IInv, TypeOK, Debit, DebitsBacked, Backed, InboxOK
  <2>3. d.kind = "refund"
    <3> SUFFICES ASSUME d.kind = "payout" PROVE FALSE
      BY <2>2 DEF Debit
    <3>1. d.txn \in Payouts
      BY <2>2, MessageType DEF Backed
    <3> QED BY <2>1, <3>1, RowsAssumption
  <2>4. m.ref[1] = t
    BY <2>1, <2>3 DEF BInv, EntriesTrue
  <2> QED BY <2>2, <2>3, <2>4 DEF BInv, RefundEventsTrue, OwnRefund
<1> QED BY <1>1, <1>2

\* A pay-in is shown as refunded, and debited, only if Kora paid a refund of it
\* that AFM had asked for (create_kora_refund, kora_webhook).
THEOREM RefundIsPaidBack == RefundSpec => []RefundedIsPaidBack
<1>1. RefundInit => BInv
  <2>1. RefundInit => KnownIsCalled /\ RefundEventsTrue /\ EntriesTrue /\ StatusTrue
    BY DEF RefundInit, WebhookInit, KnownIsCalled, RefundEventsTrue, EntriesTrue, StatusTrue, Txns
  <2> QED BY <2>1, InitRInv DEF BInv
<1> QED BY <1>1, BackIsPaid, NextBInv, PTL DEF RefundSpec
===============================================================================
