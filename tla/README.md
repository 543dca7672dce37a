# PayFlow customer erasure: a verification project

PayFlow is a set of TypeScript services on PostgreSQL, Redis, OpenSearch, MinIO,
Kafka and a captured-mail archive (Mailpit). A merchant can ask for a customer to
be erased; `privacy-service` then removes the customer from every store while the
other services go on taking payments, sending mail and replaying events. This
directory holds TLA+ models of that system, the TLC configurations that check
them and TLAPS proofs about them.

Two generations of the application are in the repository. The first,
`reference_solution/source` (**R** below), has the erasure workflow and is what
most modules here model. The second, `codebase` (**C**), has no privacy-service
but gives its tables of work a lease; `LeasedQueue` models those, next to the
ones of R that have none. The other directories are copies of these two, recorded
runs, or the tooling around them.

## Inventory

| component | state | operations | interacts with | what makes it correct |
|---|---|---|---|---|
| workflow (`privacy-service/worker.ts`, `workflow.ts`) | `privacy.erasure_requests` (status, attempts, lease, backoff, sensitive values), `erasure_steps` | claim, run a participant, checkpoint, renew, complete, fail | all stores, through its participants; the API, through the row | the tombstone first; checkpoints and completion stand on erased stores; one owner; it ends |
| API (`routes.ts`, `repository.ts`) | the same rows; advisory and row locks | POST (create, find, resume), GET | worker, customer row | one saved request per customer; never lost, never reset under the worker |
| handlers (`handlers/*.ts`) | the customer's data in PostgreSQL, Redis, OpenSearch, MinIO, Mailpit | quiesce, six cleanups, verify | consumers that write the same stores | idempotent; nothing of the customer left |
| notification-worker, Mailpit | `inbox_events`, `email_deliveries`, mailbox | record, claim, send, record outcome | Kafka, Mailpit, eraser through the advisory lock | no mail after the tombstone; no address left in a row |
| projection-worker | inbox, search index, cache, analytics | project an event | Kafka | a replay restores nothing; an event is projected once |
| document-worker | job rows, receipts, manifests | claim, store, complete, fail | MinIO, outbox | receipts of the erased are redacted; no job lost |
| payment-service, webhook-worker | payments, refunds, captures, ledger, idempotency keys, webhook rows | create, refund, process provider event | processor, outbox, job queue | one capture per payment, refunds within the capture, terminal states stay |
| outbox publisher, Kafka | `outbox_events` | claim, publish, mark | all consumers | every event at least once |
| customer-service, gateway, auth, invoices, reconciliation | rows | CRUD, comparisons | | single statements, or read-only |
| lease packages of C | job, webhook, e-mail and outbox rows with leases | recover, claim, complete, fail | whoever inserts rows | acknowledged means done; a late owner does not undo its successor; every row ends |

What is hard: every `await` of a worker is a point where another process, a crash
or the clock comes in; the tombstone is read under a lock by some writers and
without one by others; answers of PostgreSQL, Mailpit and the processor can be
lost after they took effect; leases run on wall-clock time and are renewed only
between participants; the reply to a COMMIT can be lost. `PROJECT.json` lists
each such hazard at its line.

## Modules

| module | models |
|---|---|
| `ErasurePromise` | the abstract promise: suppress, then erase stores in any order, then finish; after that nothing |
| `ErasureWorkflow` | the durable workflow, one action per `pool.query` and per `participant.run` |
| `AtomicErasureApi` | what a caller may rely on: each `POST` takes place at one instant |
| `ErasureApi` | `POST .../erasure-requests`, one action per SQL statement, with overlapping calls |
| `MailSuppression` | e-mail to a customer being erased: recording, claiming, sending, the advisory lock with the pool clients it occupies, Mailpit and its search |
| `PersonalData` | which row of which store holds the customer's id or data: the writers that copy it on, statement by statement, against the participants that look for it |
| `LedgerPromise` | what the ledger of a payment promises its readers: a record that grows in the order of what happened |
| `PaymentLifecycle` | one payment: overlapping calls under one idempotency key, refunds, the processor, its webhooks, the ledger |
| `AtLeastOnce` | the abstract promise of a table of work |
| `LeasedQueue` | the eight tables of work: jobs, webhooks, e-mail and outbox of C, jobs and outbox of R, the projection-worker's inbox of either |
| `PaymentSums` | lemmas about the sum of a set of refunds |
| `*Proofs` | theorems about the module named |
| `MC*` | the instances TLC checks |

The models meet at rows they share. `ErasureWorkflow` has one request, the
tombstone and abstract stores. `ErasureApi` has the rows of several requests,
with the worker reduced to what a call sees of it, without its timing: every step
`ErasureWorkflow` allows is allowed there, those of an overtaken worker included.
`MailSuppression` opens one participant (`notification-provider`), quiescence and
verification, and puts the notification-worker next to them. `PersonalData` opens
the stores of all participants, runs them once in their order, and puts every
writer next to them; sending one e-mail is one action there. `PaymentLifecycle`
has the same requests as `PersonalData` but follows money and status instead of
the customer's data. `LeasedQueue` has the tables that the workers of all of
these claim from.

### ErasureWorkflow

`status`, `attempts`, `lease`, `due` and `context` are the columns `status`,
`attempts`, `lease_until` (none, ahead, passed), `next_attempt_at <= now()` and
"`subject_context` still has its sensitive values". `step` is `erasure_steps`.
A worker's `pc` names the statement it is at, `at` its participant, `snapshot`
whether the claimed row carried the sensitive values. The participants are a
chain of `NumSteps`: the first is quiescence, the last is verification, those
between are cleanups. A cleanup's store is `raw` or `erased`; how a handler
rewrites rows is abstracted. `NeedsContext` are the stores whose handlers search
by the sensitive values, `Verified` those that verification reads (it does not
read them all), `LateWritable` those that a consumer writes after an unlocked
look at the tombstone.

Each statement can fail without effect (`Throw`) or take effect and lose its
reply (`Replied`); `OnThrow` is where the exception goes: inside the `try` of
`runParticipant` the step is marked failed, outside it the request fails, and a
rejection of `claimRequest` or `failRequest` leaves `runErasureWorker` for good.
A process may crash anywhere and is started again.

### ErasureApi

A call's `pc` is its statement. READ COMMITTED is modelled by its effects: a
SELECT sees committed rows, `FOR UPDATE` waits for the holder, an INSERT waits
for an uncommitted row with the same unique key and then either inserts or
raises the unique violation. The transaction's locks go at its end. The id of a
request is the call that inserted it. One merchant: every statement has the
merchant in its WHERE clause and in both unique keys. The keys and customers of
a call are arbitrary from the start, which stands for any arrival order.

`AtomicErasureApi` has no statements, transactions or locks. A customer that has a
request is told that one (`Repost`), one that has none gets one if the key is free
(`Create`) or is unknown, and an error needs a taken key or trouble. `CallsAreAtomic`
maps `ErasureApi` to it: only committed rows are `saved`, and a call is answered when
it is `done`. A call takes place with its `COMMIT` or, if it changes nothing, with
the end of its transaction, so what it read statements earlier must still hold then.
The abstract module concedes one thing to the code: a `Repost` does not look at the
key, which another customer's call may have taken since `SelectByKey`; a call alone
would have been answered 409. `ResumesOnlyFailed` is implied, and proved by itself.

### MailSuppression

One customer, whose events each make one e-mail. `recordDelivery` is one
transaction with the tombstone check at its start (`RecordCheck`) and its rows
visible at its end (`RecordCommit`). `deliverOne` claims a row (one
transaction), takes a pool client, waits for the advisory lock, checks the
tombstone, sends, records. A message is the pair of event and attempt. `raw` is
the set of delivery rows that still hold the customer's id and address.
`indexed` is what Mailpit's search finds; `lagging`, chosen at the start, says
whether it follows the mailbox at once. A crash of the notification-worker ends
all its senders and sessions. The mail request of a sender that dies has either
arrived at that moment or never does.

### PersonalData

A row is the set of what it still holds of the customer: `uuid` (the original id)
and `pii` (any other value). Nothing else decides what a handler selects or
verification sees: some statements look for the original id, some for the
surrogate, and a replacement of the id takes a row out of the reach of the first
kind. Rows are named after the event that goes with them; `held[t][r]` is row *r*
of table *t*. `copy[w]` is what a writer has read and not yet written, `pc[w]`
where it is between its statements. The tombstone lookups are `Suppressed`
(`erasedSubjectSurrogate`, original id only) and `SuppressedByAnyId`.

The participants are atomic, as an attempt of theirs is one transaction or works
on stores of its own, except where statements of READ COMMITTED see different
states: `operational-records` is three actions, `derived-projections` two. Their
failures and repetitions are in `ErasureWorkflow`. `Publish` only makes an event
available; consumers take events in any order, as often as they are delivered.
`escaped` and `carried` are histories of the two ways round the participants: a
writer that had looked before the tombstone stood and had still to write, and one
that had the original id in memory when the events were sanitized.

### PaymentLifecycle

`key` is the row of the idempotency key, `status`, `attempt`, `refund` and `hook`
the status columns, `posted` the number of postings of a ledger entry, which the
unique index and `ON CONFLICT` are to keep at one. A request is a statement or
transaction per action with the call of the processor in between, and a webhook
may be applied between any two. A `Fault` is an answer that is lost, a
transaction that fails although it committed, or an event that has to be tried
again; a `FatalFault` (`lost`) one that nothing repeats. The processor sandbox
runs in the process of payment-service: `ServiceDies` ends the requests under way
*and* makes it forget payments and timers. `Cases` gives what the test token of
the payment method makes of the payment.

`LedgerPromise` sees of all this only what the processor has settled, the refunds it
has taken, and how often each entry is posted. Entries are made once, one at a time,
none is changed, and each follows its cause; the processor is asked to take a refund
only of a payment whose capture is already in the ledger. `LedgerTellsTruth`, what a
single state of it shows, is implied; the proofs use it as part of `PayInv`.

### LeasedQueue and AtLeastOnce

`kind` chooses the table. They differ in five things: whether there is a lease;
whether the effect is part of the transaction that marks the row
(`Transactional`); whether a batch is claimed (`Publishing`); whether the mark
looks at `locked_by` (`Mine`: only the outbox of C); and who claims again. A row of
an inbox is an event: not yet there or failed is `queued`. The projection-worker of C
(`inbox`) claims whatever Kafka redelivers before it is processed (`Redeliver`), that
of R (`inbox once`) nothing it has a row of, whatever became of it. An inbox has no
attempts column; `tries` counts deliveries. That Kafka gives an event to a second
worker while the first still has it counts as a fault. A lease ends by itself when
its owner is gone (`LeaseEnds`); that it ends while the owner is at work
(`SlowWorker`) is counted as a fault, like errors, lost replies and crashes.
`AtLeastOnce` is what whoever inserts a row may rely on; `firm` says that an
acknowledged or dropped row stays so, which only the fenced outbox fulfils: in the
others a worker that lost its lease can open a finished row again.

## Runs

Runs that pass:

| run | bounds | shows |
|---|---|---|
| `workflow_overlap` | 2 workers, 4 participants, 3 attempts, 2 faults, workers may outlive the lease | whatever overlaps, the tombstone precedes every erasure, a completed step has erased its store, completion means erased stores; the workflow implements `ErasurePromise` |
| `workflow_lease` | the same with prompt workers, 4 attempts, 3 faults, late writes into a store that is not verified, fairness | one owner at a time; a pending or failed request is nobody's; no participant runs under a completed request; nothing is repeated after completion, even if the completing update's reply is lost; and the request is completed for good unless every worker loop has ended in an exception |
| `api_calls` | 3 calls, 2 customers, 2 keys, 2 attempts, 1 fault | each 202 names a saved request of the customer asked for; all calls for a customer get the same one; no 404 once one is saved; a 500 without a fault needs another customer's key; the calls implement `AtomicErasureApi`, so that a repost never resets a claimed or completed request; calls never wait in a circle |
| `mail_delivery` | 2 events, 2 senders, 3 pool clients, 2 attempts, 1 fault, search in time or lagging, fairness | no message after the tombstone; after completion the mailbox is empty (search in time), or empty if nothing failed (search lagging); rows recorded late are redacted in the end; no sender stays in the lock |
| `personal_data` | one payment of one customer; a payment, a refund, a receipt, an invoice or none of them, with the publisher, both consumers and the whole erasure; 2 attempts of a job | what is left after completion comes from writers that escaped or carried the id, and from nobody else; no address travels without the id by which consumers recognise the erased; no letter after quiescence; verification is blocked for good only by a late writer or an invoice |
| `payments` | 2 calls with one key and equal or different bodies, 2 refunds (half and half, half and all), every test token, 2 attempts of an event, 2 faults, fairness | the payment implements `LedgerPromise`: one entry per capture and refund, only after what the processor did; without faults status and ledger agree, in any order of webhooks, answers and refunds; only refunds that overlap exceed the capture; when a second receipt appears; same key, same answer; everything settles unless something fatal happened |
| `leased_queue` | 2 rows of each of the 8 tables in turn, 2 workers, 2 attempts, 4 faults, fairness | every table implements `AtLeastOnce`, the fenced outbox the firm one; each further effect costs a fault; what a dead letter says; every row ends but for the exceptions it names |

Two workers and two senders suffice for every pairwise race: the code relates a
worker only to the current row, never to a third. Four participants have a
cleanup that is verified and one that is not, or one that is found by values and
one that is not; more repeat these. Three calls are one that inserts, one that
waits for it and one that finds it. Operations of one customer write rows of their
own, so `personal_data` runs one at a time (two at a time exceed what TLC finishes in
minutes; the theorems about `PersonalData` hold for any combination). Two refunds
have every way to overlap; the amount is 2, so that two halves fit and a half and
the whole do not. Two rows make a batch, two workers an owner and a successor; four
faults allow a slow owner, its successor's failure, and the same again. Faults are
bounded by a counter; the theorems hold for any bound.

Runs that show a disagreement between the code and what it or its documents say
(each is a finding in `PROJECT.json`):

| run | shows |
|---|---|
| `workflow_slow_worker` | a participant that outlives the 30 second lease still runs when another worker reports `completed` |
| `workflow_never_converges` | a late write after its participant's checkpoint makes verification fail in every attempt; retries skip the checkpoint and never repair it |
| `mail_pool` | as many senders as pool clients: the lock holder waits for a client, the clients wait for the lock |
| `personal_data_id` | a receipt job that saw the tombstone still writes the original customer id, into its event or its dead letter, behind the participant that sanitizes them |
| `payments_overlap` | two refunds that each summed up before the other's row was there exceed the captured amount, without any fault |

Differences between code and documents that the models contain and a property
names as its exception, without a run of their own: one database error in
`claimRequest` or `failRequest` ends the only worker loop while requests go on being
accepted (`CompletedUnlessLoopsEnd`); a consumer that found no tombstone writes the
customer's data after completion (`escaped` in `CompletedMeansClean`); an invoice
looks neither at tombstone nor status, and one whose transaction fails leaves a
document without a manifest (the same); a `payment.succeeded` applied again after a
refund or after the `catch` of `create` makes a second receipt
(`SecondReceiptExplained`); a refund whose answer is lost is marked failed although
the processor took it, and a call whose process died keeps its key at 409 for ever
(the `faults = 0` of `EverythingSettles` and `AnswersAgree`); an e-mail of C whose
last attempt ends with its lease is neither sent nor given a dead letter, and in R a
row whose worker died stays in its hands, as does an event whose projection failed,
which C repaired (`EveryRowEnds`). Others need no
interleaving: with its attempts used up a `failed`
request can neither be claimed nor resumed (`repository.ts:138`; the API document
calls it safe to retry); an error in the lease renewal turns the checkpoint
written before it back into `failed` (`worker.ts:40-49`), so that the cleanup is
repeated; two calls that use one new key for two customers at once get a 202 and
a 500, not the 409 (`NoErrorWithinCustomer` states this exact exception); a
message whose id was lost stays in the mailbox when the search lags at deletion
and at verification (the two hypotheses of `MailboxErased` and
`KnownMailErased`); a delivery claimed by a notification-worker that died stays
`processing` and is never sent.

`CHECK_DEADLOCK FALSE` is set everywhere because these systems may really stop:
a completed request, answered calls and delivered mail leave nothing to do, as
do exhausted attempts. Waiting in a circle is stated by `NoDeadlock` and
`SendersReturn` instead, and rows that wait for ever by `EverythingSettles` and
`EveryRowEnds`. Symmetry is used only where no liveness is checked.

## Fairness

- *Worker steps* (weak): Node runs every promise that has settled; statements
  end, with a result or an error. A *dead process* is started again (weak):
  this is the operator's part, the compose files have no restart policy. A loop
  that ended by an exception is **not** restarted: `main.ts` only logs it.
- *Lease and backoff* (weak): they are times that pass.
- *Reposts* are fair only in `workflow_never_converges`: the request is not
  repaired although the merchant keeps posting.
- *Senders* (strong): the 250 ms timer starts them again and again, and
  PostgreSQL grants a contended lock in the order of its queue, so a sender that
  can enter again and again does. *Eraser* and *open transactions* (weak): the
  participant and the transaction go on.
- *Payments* (weak, of their union): while a request, a webhook or a settlement is
  under way, one of them goes on; each step uses itself up, so none is starved.
  Nobody has to ask for a payment or a refund.
- *Queues* (weak, of the union): while a row can be claimed, recovered or finished,
  some worker goes on. A crashed worker is replaced: several services run the
  publisher, and the others are started again by the operator. Leases that nobody
  holds end, and Kafka delivers an event again whose offset was not committed.
- Nothing is assumed of crashes, faults, late consumers or the search index.

## Proofs

Each holds for every value of the constants under the named ASSUME of its
module: natural bounds, names that differ, and for `PaymentLifecycle` that the
refunds are a finite set, as their amounts are summed. Nothing bounds the number of
workers, calls, rows, customers, events or participants.

- *Workflow.* `DataInv` is about effects (`Done(k)`: the tombstone exists, or
  store *k* is erased): the tombstone precedes every erasure, and the effect is in
  place for every step recorded as completed, for every participant that a worker
  has behind it, for a completed request, and for a worker that claimed a row
  without sensitive values. The last is why a handler that finds nothing to
  search by loses nothing: the values go only with completion. `SuppressionFirst`,
  `CheckpointsHold` and `CompletedMeansErased` are not inductive alone, because a
  worker that lost its lease still completes steps and request on what it saw.
  `DataInv` assumes nothing about time. `WorkflowImplementsPromise`, for
  `LateWritable = {}`, follows from it step by step: each action is a step of
  `ErasurePromise` or a stutter. `LeaseInv`, for `PromptWorkers = TRUE`, says that
  a working worker is alone and has a `processing` row with a live lease, or a
  `completed` one whose reply it lost, and that its checkpoints are recorded
  behind it; the four lease theorems follow.
- *API.* `IInv` is the conjunction of `Serialised` (from the advisory lock to the
  end of its transaction a call is alone with its customer), `LocksAreHeld`,
  `StillUnknown` (what a call has not seen does not appear meanwhile),
  `NoClash` (the unique indexes), `FoundIsMine` (a request found or inserted stays
  what it was until the call ends: the row lock) and `ErrorsExplained`. The
  invariants alone are not inductive: that a 202 names a saved row depends on
  who held which lock statements earlier. `NoDeadlock` follows from
  `LocksAreHeld`: holders of rows wait for nobody, holders of the advisory lock
  only for those. `CallsTakePlaceAtOnce` is the refinement. `Decided` is what it adds
  to `IInv`: at the end of its transaction everything a call has decided is still so.
  A row it is to reset is failed with attempts left, a row it leaves alone may not be
  reset, the customer of a row it inserted is there, a taken key is taken. Locks,
  indexes and `IInv` give the rest. `Unseen`, `CommitIsCall`, `EndIsCall` and
  `WorkerIsSeen` then map the statements, two of them to a call and the others to
  stutters, or to `Trouble` if they fail.
- *Mail.* `MailInv`: an attempt in progress was counted, whoever is past the wait
  holds the lock, a sender about to send had no tombstone *and there still is
  none*, and after verification the mailbox is empty if the search is in time.

  For the search that lags, `KnownInv` adds that every message has its id on
  record, or a sender in the lock that is about to record it, as long as nothing
  failed; `KnownMailErased` follows.
- *Personal data.* `DataInv` goes along the participants: behind each of them its
  stores stay empty (`BehindFinancial`, `BehindObjects`, ... `BehindCustomerIds`), as
  long as no writer escaped. Two facts carry it. `NothingPastLook`: a writer that
  looks after the tombstone has nothing in its hands; and `WholeRows`, `WholeCopies`:
  whatever has an address has the original id, without which that look would find
  nothing. Refunds are the exception, because a participant finds them by their
  payment (`RefundsHavePayment`). `Documented` says that a document has a manifest or
  is in the hands of its writer, `Blocked` that an invoice inserted too late stops
  verification. The stores that an id can be carried to stay empty under `OnTime`
  only. The theorems hold for any set of operations that overlap, beyond the run's
  single ones. `CompletionIsClean` and `OnlyLateRowsBlock` read the result off at
  completion and at verification.
- *Payments.* `PayInv`: one call alone reaches the processor (`OneCaller`), so that
  what it settled stays settled; a status that allows a refund, a refund request past
  its first read and a refund the processor took each rest on the posted capture
  (`Backed`); an event of a refund exists only if the processor took it (`Hooked`).
  `LedgerTellsTruth` needs all of these, as a refund is posted many steps after the
  capture was seen. `Keyed` adds that without faults one call is between the first
  transaction and its answer and alone decides what the key says; `Told` that a
  capture is the work of an event which without faults was the last to be applied, and
  that its status is taken away by a refund or an answered `catch` only.
  `AnswersAgree` and `SecondReceiptExplained` follow. `LedgerStaysRecord`, the
  refinement of `LedgerPromise`, follows from `PayInv`: a posting is an entry that was
  not there (`EntryRecorded`), and `Backed` has the capture in place when a refund is
  taken.

  `OnlyOverlapsExceed` and `StatusTellsLedger` are about sums over sets of refunds.
  The sum is a fold, a recursive function whose value on every finite set is an
  induction over data. `PaymentSums` gets by with one: `SumIsCount` says that the sum
  is the number of *units* of money, the pairs of a refund and one unit of its size,
  and takes a minimal set on which the two differ. Everything else is a fact about
  cardinalities. `RefundInv` then says that any refunds of which of every two one was
  summed up with the row of the other there fit into the amount (`Fits`), as the one
  inserted last had room next to those it saw (`Room`). Hence refunds in excess have
  a pair that did not see each other. `StatusInv` adds that without faults and timeout
  tokens no call reaches its `catch`, and `Exact` that a refund is posted exactly when
  its row says succeeded; then the total that decides between partly and wholly
  refunded is the ledger's.
- *Queues.* `QueueInv` ties a claim to the attempts of its row, a mark to an effect
  that has taken place, and an owner to a row that is held: a finished row of the
  outbox has no owner, so nobody passes the fence. `TablesKeepPromise` maps every
  action of every table to a step of `AtLeastOnce` or to a stutter.
  `DuplicatesAlwaysCostFaults` rests on a sum that never exceeds the faults by more
  than one (`Chance`): the effects a row has had, the workers that have theirs still
  before them, and one more if the row is open to another claim. A claim turns the
  last into a worker and an effect the worker into an effect; whatever makes a row
  open or a worker try again besides is a fault. `Leases` says when a row is open: a
  lease expires only while it is held.

Every safety property of a passing run, invariant, action property or refinement, is
a theorem. Only model-checked are the liveness properties (`CompletedUnlessLoopsEnd`,
`LateDeliveriesRedacted`, `SendersReturn`, `EverythingSettles`, `EveryRowEnds`): they
rest on fairness, and so on ENABLED, which the prover does not cover.

## Plan

1. *(done)* `ErasureWorkflow`, `ErasurePromise`; `ErasureApi`; `MailSuppression`; proofs.
2. *(done)* `PersonalData`: the late writers statement by statement; proofs.
3. *(done)* `PaymentLifecycle`; proofs about the ledger.
4. *(done)* `LeasedQueue`, `AtLeastOnce`, the refinement and its proof.
5. *(done)* Every safety property as a theorem: sums of refunds, the price of a
   duplicate, and the refinements of `AtomicErasureApi` and `LedgerPromise`.
6. The order of events, which needs the version of the customer that a projection
   shows; the same would let `ErasureApi` say which values the request recorded
   (`repository.ts:91`).

## Not modelled

- The rewriting of JSON and strings in `packages/privacy/src/redact.ts`, and the text
  of the handlers' SQL: data without control, recursive over arbitrary JSON. What is
  selected, and by what, is in `PersonalData`.
- Reconciliation, which compares and reports; the GET routes; updates of a customer.
- Gateway, keys, configuration, schemas, logging: no state. Migrations: deployment.
- Payments and sandbox of C: the statements of `PaymentLifecycle` once more, in other
  files, with a sandbox that remembers.
- Everything around the two applications. Most of the repository's lines are
  tests and fixtures (`verifier/hidden-tests`), scripts that build, run and
  score containers (`scripts`, `astra_harness`, `readiness_checks`,
  `harness_checks`, `docker`), dashboards with recorded runs, and literal copies of R
  (`verifier/reference-solution`) and of C (`tasks/public/codebase`). The share of the
  repository's lines that the models stand for is therefore small although they cover
  the state changes of R: a copy is not mapped a second time, and a linear script
  keeps no state across which an invariant could be stated.
