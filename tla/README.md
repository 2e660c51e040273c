# A TLA+ model of the AFM payment hub

Africa Frontier Markets (AFM) is a FastAPI service over PostgreSQL and Redis that moves money through a payment
provider (Kora) and keeps a virtual ledger of what it moved. This directory holds TLA+ modules translated from
that code, TLC configurations that check them, and TLAPS proofs. Paths are relative to `src/`.

## 1. The system

Several server processes run `api_gateway/main.py`; each also runs one reconciliation worker as a background task
(`lifespan`, main.py:84-108). They share one PostgreSQL database (READ COMMITTED, sessions with
`expire_on_commit=False, autoflush=False`, `config/database.py:30-35`), so between two awaits of a request any
other request or worker may commit. Kora is called over HTTP with a 30 s timeout and calls back by webhook.

| Component | State | Operations | Interacts with |
|---|---|---|---|
| Webhook endpoint, main.py:1737-2015 | `kora_webhook_events`, `transactions`, `kora_refunds`, `virtual_ledger_entries` | store event, match row, write status, write ledger entry, mark processed / failed | Kora (caller), reconciliation (schedules tasks), alerts |
| Payout route, main.py:1495-1591 | `transactions` | limit check, flush row, call Kora, commit | Kora; the webhook settles the payout |
| Refund route, main.py:1594-1709 | `kora_refunds` | preview, replay by key, insert, call Kora, write answer | Kora; the webhook settles the refund |
| Reconciliation, payment_hub/reconciliation.py | `kora_payment_reconciliations`, `transactions` | enqueue, claim (`FOR UPDATE SKIP LOCKED`, 5 min lease), verify, decide, back off, expire | Kora (`verify_charge`); scheduled by the webhook |
| Kora client, payment_hub/kora_client.py | none | create_payout, initiate_refund, verify_charge, look-ups | routes and worker |
| Onboarding, api_gateway/auth.py | `users`, `user_otp_challenges` | register, login, e-mail and phone codes, KYC profile, OAuth exchange | e-mail, WhatsApp; gates the routes |
| Sessions, config/security.py, auth.py, main.py:123-139 | none: tokens are stateless | issue, refresh, check of `is_active` | reads `users`; gates the routes |
| User accounts, main.py:730-747, 956-983 | `virtual_accounts`, `broker_account_links` | get or create, link | payout route, broker |
| Ledger views, main.py:830-922, 1391-1426 | none: read `virtual_ledger_entries`, `transactions` | listing by page token, listing by page number | clients |
| Payment service, payment_hub/payment_service.py | `transactions` | process_payment (dead, section 6) | event bus, revenue engine |
| PSP router, payment_hub/psp_router.py | none | select_psp | payment service |
| Event bus, event_bus/ | Redis stream `afm:events` | XADD, XREADGROUP, XACK | pay-in route, worker process |
| Rate limiter, config/rate_limit.py | Redis sorted sets | is_allowed | two routes |
| Platform keys, platform_manager/ | `platforms`, `api_keys` | onboard, rotate, validate | |
| Broker and market data, market_gateway/ and the caches of main.py | token, instrument and history caches | token, request, cached reads | Alpaca |
| Failure alerts, main.py:1978-2010, api_gateway/kora_alerts.py | none: counts `kora_webhook_events` | count, alert | webhook endpoint |
| Fees, splits, simulations, revenue_engine/, common/fx.py, main.py:1265-1345 | none kept | fee, split, estimate, preview | payment service |
| Sandbox script, scripts/kora_sandbox_refund_e2e.py | none kept | pay in, poll, refund, poll | Kora |
| Wallets and copy trading, easymarkets/ | `wallets` | deposit, withdraw, transfer | no route |
| Support AI, payment_hub/support_ai.py | none | classify an error text | webhook endpoint (a log line) |

What is hard here: check-then-write sequences split by awaits; results of slow calls written over rows that
changed meanwhile; webhooks that come twice, late, early or in the wrong order; answers lost after the provider
has acted; processes that die between two commits; claims that outlive their lease. What makes each part correct:

* **Webhook endpoint**: an event takes effect at most once and all or nothing; every ledger entry has a cause and
  every settled transaction its entry, once; what is acknowledged was applied; settled states do not move back.
* **Payout**: money is asked for only for a recorded intention, within the monthly limit, once per transfer; only
  what Kora paid is debited and all of it eventually is.
* **Refund**: one call per idempotency key, never more than the payment, reversal of the refund that Kora names.
* **Reconciliation**: a verdict is Kora's verdict; one worker per task; every task ends; a collection that stays
  in processing is looked at again.
* **Onboarding and sessions**: attempts and cooldown of one-time codes hold under concurrency; access ends when the
  account does.
* **Services**: one virtual account and one broker account per user; a rotation ends the older keys; an event that
  the group has passed is accounted for; the rate limit holds; no call carries a dead token; a walk through a
  listing misses nothing; repeated failures are reported; prices agree wherever they are computed.

## 2. The modules

| Module | What it models |
|---|---|
| `EventInbox` | abstract specification: an event is accepted once, then applied or refused atomically |
| `KoraWebhook` | the webhook endpoint step by step, `enqueue_reconciliation`, and the shared tables |
| `KoraAmounts` | EXTENDS KoraWebhook: the amounts of the transactions, which the routes compare |
| `KoraPayout` | EXTENDS KoraAmounts: payout route, monthly limit, Kora's record of payouts |
| `KoraRefund` | EXTENDS KoraAmounts: refund route, idempotency keys, Kora's record of refunds |
| `KoraReconciliation` | EXTENDS KoraWebhook: workers, leases, a clock, Kora's record of collections |
| `KoraSystem` | EXTENDS the last three: both routes, the workers, the endpoint and Kora over one database |
| `Onboarding` | one-time codes, profile and OAuth link of one account, on its own |
| `Sessions` | access and refresh tokens of one account, an operator who disables it, requests under way |
| `EventBus` | the stream, the consumer group, workers with their batches, lost calls and deaths |
| `RateLimiter` | one sorted set: clock reading, pipeline, removal after a refusal, expiry of the key |
| `PlatformKeys` | the keys of one platform: rotation row by row under READ COMMITTED, validation, age |
| `MarketAccess` | the shared broker token and one read cache, by age |
| `UserAccounts` | first use of a virtual account and the link to a broker account, under their constraints |
| `LedgerViews` | a client that pages through a growing listing, by token or by number |
| `Incidents` | requests that fail, count each other and alert |
| `SandboxRefund` | the operators' script against a Kora that settles at any moment |
| `Pricing` | both fee calculations, bounds by currency, split, monthly estimate, simulations, in integers |
| `PspRouting` | the choice of a provider, by the loops of the code and by its definition in sets |
| `KoraWebhookProofs`, `KoraRefundProofs`, `KoraPayoutProofs`, `KoraReconciliationProofs` | the theorems about the Kora modules, each with its inductive invariant |
| `KoraSystemProofs` | what each part promises alone, all of them promise together |
| `OnboardingProofs` | the theorems about `Onboarding` |
| `ServiceProofs` | those about `PlatformKeys`, `MarketAccess`, `EventBus`, `Sessions`, `UserAccounts`, `Incidents`, `SandboxRefund`, `Pricing`, `RateLimiter` and `LedgerViews` |
| `MCServicesProofs` | the composition of `MCServices` implements each service, and keeps what each promises |
| `MC*` | instances for TLC: amounts and symmetry sets; `MCServices` puts the services side by side |

**Database steps.** A SELECT or a COMMIT is one action of a handler `h`; `pc[h]` says where it stands and
`work[h]` keeps what it has read or decided. A COMMIT writes only columns whose new value differs from the one that
was read (SQLAlchemy emits an UPDATE for changed columns only), which is why a stale read can both overwrite and
fail to overwrite. The worker's NULL due time is such a case: over a NULL it has read it is not written (`dated`). Unique constraints are guards: `Fresh` (event_id), `InsertConflict` (one task per transaction),
`KeyTaken` (idempotency_key). The unlocked check of the ledger (main.py:1865-1873) is `CheckEntry`, the insert is
part of `Commit`. `Raise` is any failing statement of the `try` block, `Fail` the rollback and the "failed" mark,
`Crash` the death of the process or a failing error path.

**Variables.** `status`, `pspRef` are columns of `transactions`; `refund`, `ledger`, `task`, `inbox` are the tables
`kora_refunds`, `virtual_ledger_entries`, `kora_payment_reconciliations`, `kora_webhook_events`; `applied`,
`acked` and `calls` are history variables that only properties read.

**Data.** A message is a kind (charge, payout, refund), a reference, and an outcome (success, failed, anything
else). A reference is the transaction it belongs to and its spelling: "own" is AFM's idempotency key, "psp" the
provider's identifier; the code accepts any of them (main.py:1842-1851). A row without
`virtual_account_id` writes no entry (`WithAccount`). Several transactions matching one reference cannot happen
with generated references and are not modelled. Signature verification precedes every action; an invalid one is
acknowledged and changes nothing (main.py:1931-1937).

**Payouts.** The row is flushed but invisible until the commit at main.py:1581, so `status[p] = "none"` during the
call. `SendPayout` and `AnswerPayout` separate "Kora has it" from "AFM knows". The limit is checked in production only
and for XAF/XOF; all payouts of the model are of one user in that case.

**Refunds.** A preview changes nothing and is left out. The refund reference is a hash of the key, so `RefundKeys`
stands for both. `at` orders the rows by created_at; two may carry the same time.

**Reconciliation.** Time is counted in 15 s units. `next` and `expires` count down, `since` counts the age of a
claim up to the lease; next = None is a NULL due time, which no worker ever selects. A worker reads the task and the
transaction again after the call without asking whether its claim still holds (reconciliation.py:152-159).
Pay-ins start as rows under way: at this commit `POST /payments` cannot create one (process_payment raises before
the provider is called), so collections are rows that earlier versions or operators created, which is what the
worker is there for.

**Kora** (the actions `SettlePayout`, `SettleRefund` and `SettleCharge`, the conditions `TruthfulPayout`,
`TruthfulRefund` and `TruthfulCharge`, and `Deliver` and `Announce`) is external: it settles what it accepted, once,
reports truthfully, may repeat, delay and reorder its events. Each of the three modules has the record that concerns
it: `koraPayout`, `koraRefund`, `koraCharge`. In `KoraReconciliation` a "pending" event may come late.

**The composition.** In `KoraPayout`, `KoraRefund` and `KoraReconciliation` the route or the workers meet the endpoint
alone, which keeps their runs small. `KoraSystem` puts all of them over one database: a step is one of a route, of a
worker, of the endpoint, or of Kora, and leaves the local state of the others alone. They meet in `status`, `task`
and `refund`: a payout commits its row while an event about a pay-in is under way, a worker completes a pay-in that the
refund route then accepts, an event refunds it while another worker still holds an older answer. Every transaction
starts as `SystemInit` says: pay-ins under way, no payout, no refund. An event may be about any movement, as far as
Kora's record of that movement allows (`TruthfulKora`).

**Onboarding** follows the production flow (password registration answers 410 there). A challenge is an e-mail code
when its `phone` is None. Its age counts in units of the 60 s cooldown up to the expiry of the code. A user row stands
for an account whose e-mail is verified, which is how both ways of creating one leave it; addresses are taken in lower
case. Only a received code (`delivered`) can be the right one. `shared` remembers the challenges that two requests
had read and not yet written at the same moment, which is the exact condition under which the unlocked
read-modify-write of `attempts` and `consumed_at` (auth.py:275-301) may lose one of them.

**Services.** The eleven modules from `Sessions` to `PspRouting` share no variable with each other or with the Kora
modules: in the code they share no table, key or cache entry. `MCServices` therefore lets one of them run at a time
(`focus`); its states are the sum of theirs, and each is explored completely within its bounds. The webhook endpoint
takes part with one request at a time, the instance whose liveness and `DebitOnce` hold. `Pricing` and `PspRouting`
have one variable, the last answer, and no type invariant of their own.

* `EventBus`: a worker asks for new entries (">") in batches and acknowledges one by one. A handler that raises or a
  lost XACK leaves the entry pending with that worker; a lost XREADGROUP answer, or a worker that dies, leaves the
  batch. `faults` counts them up to `MaxFaults`. The stream is not trimmed within the bound (MAXLEN is approximate).
* `RateLimiter`: the clock is read before the pipeline runs, so `stamp` and the moment of the pipeline differ. The
  member of the sorted set is the reading itself. A refused request removes its member in a second call, which may
  be lost; when Redis fails, is_allowed raises and the caller lets nothing through.
* `PlatformKeys`: an UPDATE sees the rows active when it starts, locks them in any order, waits for a row that another
  rotation holds and then tests it again. `since` is the number of keys there were when a rotation began.
* `MarketAccess`: `left` is how long a token remains good at the broker, `due` how long the cache serves it. A call
  (connect, write, read) takes at most `Timeout`: httpx applies its timeout to each phase and not to their sum, so
  this is an assumption about a broker that answers in one piece.
* `LedgerViews`: a row's place in the order is (time, id); it may become visible anywhere in it, because times are
  taken before the commit and ids are random. Rows are not deleted, and no filter is set. The client is external: it
  asks for the next page as long as a page is full.
* `Sessions`: one account; `Lag` bounds how long a request that has read `is_active` runs on. The other conditions of
  require_verified_user, the allow-list of the backoffice and signatures are left out.
* `Incidents`: the count is taken by the request's own session after its commit of "failed".
* `Pricing`: amounts are cents, fees named by callers tenths of a cent; `HalfUp` and `HalfEven` are the two roundings
  that the code uses.

## 3. The runs

Passing runs (`MC<Component>*.cfg`):

| Run | Instance | Shows |
|---|---|---|
| MCKoraWebhook | 2 events, 2 requests, 1 pay-in with a refund, 2 payouts, both spellings, crashes | `AppliedOnce`, `DebitsBacked`, `SettledIsDebited`, `StatusHasCause`; the endpoint implements `EventInbox` (`AtomicInbox`) |
| MCServices | one component at a time, see below | `DebitOnce`, `ReceivedIsDecided` for requests that do not overlap; `Accounted`, `EventIsTaken`, `LimitHolds`, `KeysRotated`, `CallsAreTimely`, `OneAccountEach`, `WalkIsComplete`, `AlertRaised`, `RefundOnlyOfPaid`, `QuoteAddsUp`, `RoutedIsUsable`, `AccessEnds` |
| MCKoraPayout | 3 payouts, 2 at a time, limit 1, 2 events, crashes | `SettledIsPaid`, `RecordedUnlessDead`, `CapBound` |
| MCKoraPayoutCalm | 1 payout, no crash | `LateEventSettles` |
| MCKoraRefund | 2 requests, 2 keys, 2 pay-ins of two units, 1 event, crashes | `OneCallPerKey`, `CallMatchesRow`, `RefundedIsPaidBack` |
| MCKoraReconciliationLive | 2 prompt workers that crash and return, 1 event | `SingleOwner`, `ScheduledIsDue`, `TaskEnds` |
| MCKoraSystem | 1 pay-in, 1 payout, 1 refund, 2 workers, 1 endpoint request, 2 events, crashes, claims outlive leases | `RefundOfCollected`, `VerdictIsTrue`, `StatusHasWriter` with all writers of a status; the ledger still implements `EventInbox` (`AtomicLedger`) |
| MCOnboarding | 2 requests at a time, 1 address, 1 number, 2 codes, 2 identities, 2 attempts, crashes | `VerifiedHasProof`, `OnceUnlessShared`, `CooldownBound`, `LinksBounded` |

Runs that find a disagreement between the code and what its docs or comments say (listed under "findings" in
PROJECT.json with the quoted lines):

| Run | Property | The code does |
|---|---|---|
| KoraWebhookRace | `DebitOnce` | two events of a payout processed at once leave two debits |
| KoraWebhookAck | `AckedIsProcessed` | a failed event is acknowledged when redelivered, and lost |
| KoraRefundOther | `ReversalIsOwn` | the event of one refund reverses another refund of the same payment |
| KoraReconciliationStuck | `ProcessingIsReconciled` | a late pending event reopens the transaction but not its task |

Bounds. Every race in this code is between two parties over one row (two requests, request and webhook, worker and
webhook, two workers), so each instance has two of the parties that race and one or two rows of each kind.
MCKoraWebhook has two events: enough for every overlap of two requests and for a redelivery next to a failure; what
longer sequences of events do is what the theorems of section 4 add, which hold for any number. MCKoraPayout has one
payout more than may run together, so that one starts after others have committed, failed or died; with `InFlight` = 2
the total may pass the limit by one amount, and does. MCKoraRefund has amounts 1 and 2, so that two requests under one
key can ask for different things. MCKoraSystem has two workers, which race for the one task, and otherwise one party
of each kind, because its question is what different parties do to each other; what two requests or two handlers do to
each other is the question of the runs before it. Two events are the least with which a pay-in is completed by one and
refunded, or put back to processing, by the other, while a worker still has an older answer. `FirstDelay` = 0 and its
other times = 1 let a task be claimed, rescheduled, taken over and expired in every order. Its type invariant contains
those of `KoraWebhook`, `KoraPayout`, `KoraRefund` and `KoraReconciliation`, which the component runs therefore leave
out. In MCKoraReconciliationLive `FirstDelay` = 1, `Lease` = 3, `Expiry` = 4, `MaxBackoff` = 2 keep the order of the
real values (15 s < 300 s back-off = 5 min lease < 24 h) with the back-off below the lease, so that a rescheduled and
a taken-over task differ; `MaxAttempts` caps the counter that only the back-off reads; `InFlight` caps the requests of
one user that run together. Symmetry is used in safety runs only. Payout, refund and system runs turn deadlock
checking off: there, requests are not repeated for ever, and all may be done.

The single event of MCKoraReconciliationLive is a hypothesis, not only a bound: it schedules the task and nothing
schedules it again. With a second one the three properties fail, as the code does (section 5).

MCServices: two workers, batches of two, three entries and two faults (an entry behind a dropped one, a batch cut in
its middle); three requests against a limit of one in a window of two; two rotations over up to four keys (two that
overlap, and a later one); two broker calls with a margin of exactly two timeouts, the smallest that
`MarketAssumption` allows; three requests of two users over two broker accounts; six places of a listing and pages of
two; three failures against a threshold of two; three polls over three references; amounts and fees chosen around the
bounds of the fee, its rounding ties, and the edges of a share; two requests, an access token of two units and a
refresh token of five. `LimitHolds` speaks of clock readings that are distinct, reach Redis in order and are at most
a second old, the second by which EXPIRE outlives the window (rate_limit.py:35); without one of these conditions TLC
shows more than `limit` requests in a window. The run checks no deadlock: a script ends, and a price is asked once.

Fairness. `FairSpec` and `CalmSpec` assume that the event loop resumes a suspended request (weak fairness per
handler) in a process that does not die; `CalmSpec` also that Kora announces what it paid. `FairRecon` adds that
time passes and that a worker which gets to a step of its loop again and again completes it sometimes (strong
fairness of verify, read and finish): workers may crash in every step, but not every time for ever. Its workers are
prompt: a round that is not interrupted ends within its lease (the HTTP timeout is 30 s, the lease 5 min).
`ServicesSpec` is fair to the steps of requests as `FairSpec` is, and to those of bus workers: the platform starts the
worker process again when it ends (`type: worker` in render.yaml), and its loop has no other way to stop.

## 4. The proofs

`KoraWebhookProofs` proves, for every set of transactions, refunds, events and requests (assumption:
`RowsAssumption`, the sets are disjoint and NULL is none of their values), crashes included:

* `TypeCorrect`: `[]TypeOK`
* `AtMostOnce`: `[]AppliedOnce`
* `NoDebitWithoutCause`: `[]DebitsBacked`
* `Implementation`: the endpoint implements `EventInbox`
* `StatusFromEvent`: `StatusHasCause`, an action property: a status changes only in the commit of a received event,
  to what that event says of that transaction
* `DebitOnceApart`: `[]DebitOnce`, under the two further hypotheses `[]Apart` (no two running requests have found
  the same transaction; any number of requests about others may overlap) and `OneSpelling` (a payout is always
  announced under the same reference). Run KoraWebhookRace takes away the first; section 5 tells what happens
  without the second. `DebitOnceAlone` is its case of a single request at a time, which MCServices runs.

None of the properties is inductive. The invariant `IInv` adds: `InboxOK` (an event has a message of its kind once it
is received), `RefundOK` (a refund row names its pay-in), `HandlersOK` (what a handler has read belongs to the message
it processes, place by place), `Exclusive` (two running handlers process different events, and the event of a running
handler is still "received", which is what makes an effect happen once) and `RefundsRead` (a handler that found a
refund also loaded that refund's own pay-in). `TypeOK`, `AppliedOnce` and `DebitsBacked` complete it. `Invariance`
proves `Spec => []IInv` with one step per action. `FoundInv` strengthens it for `StatusFromEvent`: a refund that a
request has found is one its event matches, and a transaction it is about to change is the one of its event or of that
refund. `DebitOnceApart` adds that a request which decided to write an entry still finds none: a commit can only add
the entry it would find if the two requests are about one transaction, which `Apart` excludes.

`SettledHasEntry`, in the same module, is `[]SettledIsDebited`. Nothing is locked between the check for an entry and
the commit; `LedgerInv` says why it holds nevertheless: a request about to commit a success of a transaction with an
account writes an entry or has seen one (`EntryOK`), and entries are never removed.

`KoraRefundProofs` proves about the refund route composed with the endpoint (`RefundSpec`), for every set of keys,
requests, pay-ins and events, under `RowsAssumption`, `AmountAssumption` (amounts are natural numbers) and
`KeysAssumption` (finitely many keys): `RefundTypeCorrect` (`RefundTypeOK`), `RefundCalledOnce` (`OneCallPerKey`),
`RefundCallMatchesRow` (`CallMatchesRow`) and `RefundIsPaidBack` (`RefundedIsPaidBack`). Its invariant `RInv` contains
that of the endpoint (`RefundKeepsEndpoint`: the route only adds rows or changes their status, which no running event
handler notices) and says that a request between insert and answer has its row (`RequestOK`), that only one request
gets to the call for a key (`OneCaller`, from the unique constraint and because rows stay) and that a key is called
after its row is committed (`CalledExists`). `BInv` adds for the last theorem that Kora knows only refunds it was
called for (`KnownIsCalled`), that stored events say what Kora decided (`RefundEventsTrue`), and that entries and the status
"refunded" go back to such an event (`EntriesTrue`, `StatusTrue`): although an event may be applied to another refund
of its payment (section 5), that refund is of the same pay-in.

`KoraPayoutProofs` proves about the payout route composed with the endpoint (`PayoutSpec`), under `PayoutAssumption`
(finitely many transactions, at least one of them a payout): `PayoutTypeCorrect` (`PayoutTypeOK`),
`PayoutSettledIsPaid` (`SettledIsPaid`), `PayoutRecorded` (`RecordedUnlessDead`) and `CapBoundAlways` (`CapBound`). Its
invariant `PInv` ties route and endpoint together by Kora's record: a stored verdict is Kora's, a request that has not
left "allowed" is unknown to Kora, one that has committed has its row, and a created payout that Kora has counts in
the monthly total (`StepOK`). `CapInv` adds the amounts that running requests may still send to what Kora has and may
pay (`Held`): when the limit is read, the committed part fits together with the new amount, and at most
`InFlight` - 1 other requests run, which the total does not show; every later step only takes something away.
The sum is the fold `MapThenSumSet` over sets in the order of CHOOSE. What it needs (`TotalWithout`, every member adds
its amount, whatever the order; `TotalGrows`, `TotalOfUnion`, `TotalBounded`) is proved from the definition of the fold:
first that a function adding up all subsets exists (`AdderExists`) and that two agree (`AddersAgree`), then each fact by
taking a smallest set for which it would fail (`SmallestTxns`), which replaces the induction.

`KoraReconciliationProofs` proves about workers, endpoint and clock (`ReconSpec`, where claims outlive leases and
workers die at any step): `ReconTypeCorrect` (`ReconTypeOK`) and `VerdictIsTrueAlways` (`VerdictIsTrue`). Workers
write late and over what others wrote; `VInv` says why that is harmless for verdicts: whatever is under way, in a
stored event (`ChargeEventsTrue`) or in a worker's hands (`WorkerOK`), is something Kora has decided, and Kora decides once.

`SingleOwnerAlways` (`SingleOwner`) and `ScheduledIsDueAlways` (`ScheduledIsDue`) are about prompt workers, the
`PromptNext` of run MCKoraReconciliationLive, and have one more hypothesis, `[]OnePending`: no two stored events say of
one transaction that it is pending. It is what the run's single event stands for, and what the comments of both
properties name as the exception; any number of other events, transactions and workers may take part. `PromptInv`
says that the task of a busy worker is in processing under a claim younger than the lease (`OwnedBy`), so that nobody
else finds it due, and that a request about to schedule a task has an event of its own that no other task comes from
(`Asked`, `PlannedBy`), so that it only inserts and never reschedules.

These three modules rest on what is assumed of Kora (`TruthfulPayout`, `TruthfulRefund`, `TruthfulCharge`): an event
is sent for what Kora decided, and an event about a refund names the refund's own pay-in. `RowsAssumption` and
`TimeAssumption` are all that is assumed of the constants.

`KoraSystemProofs` proves about all of them together (`SystemSpec`), for every set of pay-ins, payouts, refunds, events,
requests and workers and under the same assumptions on the constants, the promises of the parts and three of its own:

* `SystemRefundsCollected`: `[]RefundOfCollected`. The refund route reads a status, which an event or a worker with
  an old answer has written, and acts on it three steps later; still, Kora is only asked to pay back what it collected.
* `SystemStatusHasWriter`: `StatusHasWriter`, an action property over all steps of all parts: a status changes only by
  its own route, by a worker that ends its round with what Kora says of the collection now, or by the commit of an
  event that says so. No verdict is lost into another transaction or made from an error.
* `SystemImplements`: `AtomicLedger`. `verdict` and the ledger still implement `EventInbox`; the statuses do not
  (three others write them), which is why the abstract `book` is mapped to the ledger alone here.
* `SystemTypeCorrect`, `SystemSettledIsPaid`, `SystemPayoutRecorded`, `SystemCapBound` (pay-ins of the month count in
  the total too, and now move), `SystemOneCallPerKey`, `SystemRefundedIsPaidBack`, `SystemVerdictIsTrue`,
  `SystemSettledIsDebited`, `SystemAtMostOnce`.

The invariant `SystemInv` is the conjunction of the parts' invariants (`CapInv`, which contains `PInv`; `BInv`, which
contains `RInv`; `VInv`; `LedgerInv`) and of `Collected`. The last is needed because `RefundOfCollected` is not
inductive: a request that was let in inserts its row later, so `OpenIsCollected` says that its pay-in was collected,
which stays true whatever happens to the status meanwhile. The argument has two directions. What a route or a worker
does is known by its own module's lemmas to keep its own invariant (`RouteStepPInv`, `RouteStepCapInv`, `RequestRInv`,
`RouteBInv`, `WorkerStepVInv`, ...), and to touch little of what the others speak of (`PayoutRouteFrame`,
`RefundRouteFrame`, `WorkerFrame`, `TickFrame`), which keeps theirs by one lemma per part that says what it depends on
(`PayoutKept`, `CapKept`, `RefundKept`, `ReconKept`, `LedgerKept`, `CollectedKept`). What the endpoint does may matter
to all of them: `EndpointPInv`, `EndpointRInv`, `EndpointBInv` and `EndpointVInv` ask of its steps only that a new
event says what Kora's record of that movement says, which `DeliveryIsTrue` shows of the events of all kinds.
So the four modules' own theorems and those of the composition rest on the same lemmas.

`OnboardingProofs` proves about `OnboardingSpec`, for any number of requests and codes (`OnboardingAssumption`; the set of
requests is finite): `OnboardingTypeCorrect` (`OnboardingTypeOK`), `VerifiedHasProofAlways` (`VerifiedHasProof`),
`OnceUnlessSharedAlways` (`OnceUnlessShared`), `CooldownBoundAlways` (`CooldownBound`) and `LinksBoundedAlways`
(`LinksBounded`). Each has an invariant about what requests hold while others write:
`ProofInv`: what a request has read of a verified account or compared with a delivered code goes back to an accepted
proof; `OnceInv`: unless a challenge is in `shared`, the request that has read it is alone and its copy of the counters
is the row; `CooldownInv`: the recent codes for one target and the requests about to create another are together no more
than there are requests, since a request gets there only when it has found none recent; `LinkInv`: likewise for the
writes of the identity and the requests about to write another. The last two count requests, which is why
`OnboardingAssumption` takes them to be finitely many.

The services, each with its own assumption on the constants only (`ServiceProofs`):

* Sessions: `AccessEndsAlways` (`AccessEnds`). Not inductive, since an admitted request issues a token at any
  later moment; `AdmittedBefore` says that such a request is older than the end of the account.
* User accounts: `OneAccountEachAlways` (`OneAccountEach`): accounts are one per user and stay (`OneRow`, `OneLink`), so
  what a request read before, that there is a row after a conflict, or which row, is still so when it uses it (`ErrandOK`).
* Platform keys: `KeysRotatedAlways` (`KeysRotated`). `RotationCovers`: a key that is active and older than an
  open rotation is still ahead of its UPDATE or locked by it; inactive keys stay so (`OldKeysAreOff`).
* Broker client: `CallsAreTimelyAlways` (`CallsAreTimely`). The token in the cache is recorded at most one
  timeout too long (`CacheTimely`), what a request holds has aged at most as long as it waits (`CallTimely`), and the
  margin covers both. This holds for calls that end within `Timeout` as a whole, as section 2 assumes (`MarketTick`).
* Event bus: `AccountedAlways` (`Accounted`). The entries of a batch under way are pending with its worker, not
  beyond the cursor, and not handled except the one to acknowledge (`BatchOK`).
* Failure alerts: `AlertRaisedAlways` (`AlertRaised`). `IncidentInv`: the recent failures of one type whose requests
  stayed quiet are fewer than the threshold, because the last of them to count saw all of them.
* Sandbox script: `RefundOnlyOfPaidAlways` (`RefundOnlyOfPaid`), from what each place of the script implies (`ScriptInv`).
* Prices: `QuoteAddsUpAlways` (`QuoteAddsUp`). Every divisor is a number of the code, so what a rounding is worth is
  linear (`HalfUpOfHundred`); bounds keep their order in every currency (`LocalBoundsOrdered`); the one product of two
  inputs, a month's commission, is taken apart first (`MonthIsClamped`, `MultipleOff`).
* Rate limiter: `LimitHoldsAlways` (`LimitHolds`). `LimiterInv`: as long as the key lives, the sorted set holds the
  reading of every request granted in the window (`Kept`); once it is gone, so is the window of whoever comes in time.
* Listings: `WalkIsCompleteAlways` (`WalkIsComplete`). `WalkInv`: by token, what is missing lies after the token; by
  number, its rank is past the pages read, and ranks only grow. `RanksHaveNoGap` and `PageIsFull` say why a page that is
  not full is the last.

`MCServicesProofs` proves that `ServicesSpec` implements the specification of each of these ten (a step of another
service is a stutter), and from that `ServicesTypeCorrect` (`ServicesTypeOK`) and `ServicesAreSafe`: what was proved of each
service holds of the specification that run MCServices checks, for all values of its constants.

Only model-checked: liveness (`ReceivedIsDecided`, `LateEventSettles`, `TaskEnds`, `EventIsTaken`), which is out of
the prover's reach, and `RoutedIsUsable`, which has no parameter (the tables are constants of the code) and whose
cases TLC goes through completely; its loops over sequences would need induction over data.

## 5. Where the code and its documents disagree

Some hazards of PROJECT.json are bounded and not excluded. `CapBound`, `CooldownBound` and `LinksBounded` say how far
concurrent requests can pass the monthly limit and the cooldown, and how often a link is replaced; `StatusHasCause`,
`StatusHasWriter` and `VerdictIsTrue` permit the moves back and the overwritten refund below. Others are met only under
the condition a property names: `DebitOnce` is about requests that do not overlap and one spelling, `SingleOwner` and
`ScheduledIsDue` about a task that nothing schedules again, `OnceUnlessShared` about verifications one after the other.

The four violation runs show one disagreement each. The same models exhibit more, which are the reason for the
conditions in the properties above and for properties that are not stated:

* An entry is looked up by the reference as the event spells it (main.py:1865-1869), the transaction by any of three
  columns: two events that spell one payout differently leave two debits, even one after the other, although
  main.py:1824 says "Every payout or refund ledger entry is idempotent."
* The status an event asks for is written whatever the status is (main.py:1862): a late pending event takes
  completed back to processing. `docs_webhooks_refunds_corridors.md:15` lists the allowed moves and sends all others
  to `held`, a status no code sets. `StatusHasCause` states what is left: every change has its event.
* `charge.success` writes no ledger entry (main.py:1864); `docs_mobile_money_corridor_protocol.md:46` credits it once.
* Kora is asked for a payout before its row is committed (main.py:1538-1581), where
  `docs_mobile_money_corridor_protocol.md:5` wants a `pending` intention first. A process that dies in between leaves
  no row (`RecordedUnlessDead` says that nothing else does), and an event that comes before the commit fails and is
  then lost like that of KoraWebhookAck; `LateEventSettles` is about events that come after it.
* The monthly limit counts committed rows that are not failed (main.py:142-165). Concurrent requests do not see each
  other, and a payout whose answer was lost counts as failed: `CapBound` says by how much the limit may be passed.
* A payout request draws a fresh reference (main.py:1515), so a client that repeats one after a 502 pays again.
* Refunds of one payment under different keys are each compared with the payment, not with each other
  (main.py:1627), so together they may exceed it.
* The answer of `initiate_refund` is written over the status a webhook has set meanwhile (main.py:1686).
* A worker that read the transaction before it was refunded writes completed over refunded (reconciliation.py:174).
* `enqueue_reconciliation` puts a claimed task back to scheduled (reconciliation.py:92), so that two workers have it;
  when it read the task before a worker ended it and commits afterwards, the task is scheduled with no due time and
  is never claimed again.
* Signing up again sets `kyc_status` to pending and keeps `phone_verified_at` (auth.py:339), and so `GET /me/kyc`,
  which computes the status (auth.py:427), says verified while the column says pending; a new number in the profile
  keeps the verification of the old one (auth.py:446-454). `ONBOARDING_DATA_MINIMIZATION.md:5` calls an account verified
  when both e-mail and phone are confirmed. `VerifiedHasProof` therefore asks for a proof of some number.
* Two verifications of one code at the same moment are both accepted; `ONBOARDING_DATA_MINIMIZATION.md:23` says that
  it is invalidated after use. `OnceUnlessShared` names the condition.

* An event whose handler raised stays pending with its worker: workers read new entries only
  (redis_consumer.py:60) and none claims pending ones, so it is never handled again. `Accounted` and `EventIsTaken` say
  what is left: it is not lost silently from the group, and it is owed by one consumer.
* Two rotations that overlap leave two active keys, since neither sees the key the other inserts
  (platform_service.py:44-58); the next rotation ends both. `KeysRotated` speaks of keys issued before a rotation began.
* A listing by page number repeats rows that were pushed down by new ones. A client that stops at `total_pages`, which
  is counted in an earlier statement (main.py:1419-1425), or filters by a status that changes meanwhile, misses rows.
* `simulate_payment` stores `ledger_reference_id` as the text "None": the journal's id is read before its flush
  (main.py:1370-1382).
* The fee parts of a simulation are rounded one by one for display (main.py:1360-1364) and their sum is rounded as a
  whole: the parts shown need not add up to the total. `QuoteAddsUp` is about total and net.
* A payment below the minimum fee has a negative net amount: `_calculate_afm_fee` and `calculate_fee` subtract the
  bounded fee without a check (payment_service.py:174-203).
* `support_ai.py:6-7` says "policy actions remain allow-listed and require an explicit operational approval."; two of
  its categories need none (support_ai.py:79, 91), and a database error whose text contains "pending" or "processing" is
  one of them, because these words are looked for first (support_ai.py:71).

## 6. Not modelled

* Payment service and pay-in route. `POST /api/v1/payments` calls `process_payment`, which calls `self._acquire_lock`
  (payment_service.py:237); only the unused class `_LegacyPaymentLockService` has it (payment_service.py:21-53), so
  the route raises before any effect. The statements after the first `close()` (payment_service.py:289) belong to it
  by their indentation and are never reached (a raise precedes them). Its fee is in `Pricing`.
* Nexus and AZA clients, and the HTTP part of the Kora client: they build and parse requests and keep nothing. What a
  call may do (succeed, be refused, be lost after it took effect) is in the modules of the callers.
* Wallets, copy trading and the dashboard of easymarkets/: no route calls them, and they change objects that no
  session holds, so no behaviour of the running system goes through them.
* Visa and Fincra callbacks verify a signature and acknowledge; support_ai classifies a text for a log line.
* The portfolio, the backoffice summary and the broker's read routes are single reads.
* Configuration, logging, telemetry, migrations and web pages have no behaviour of their own.
* Parts left out of modelled components: password registration (410 in production), several accounts in Onboarding and
  Sessions, connection pool limits, transaction rows that share one reference, the phone-ownership timestamp a worker
  copies (reconciliation.py:163-170).

## 7. Plan

Done: the modules of section 2 and the proofs of section 4. Left, most important first:

1. `SingleOwner` without `OnePending`, with the exact moment at which a second webhook takes a task from its worker.
2. The payment service, once `process_payment` reaches a provider: lock, row, call, event and cleanup.
3. Wallets, once a route uses them.
