# Verification of the praja API

praja-api is a NestJS service over PostgreSQL for a marketplace of services. A
provider offers a job; a client asks for a visit (a schedule); the provider
accepts it; the client pays the visit fee; the provider sends a budget; the
client accepts and pays it, by PIX or by card, through Mercado Pago. This
directory models that flow in TLA+, checks it with TLC and proves with TLAPS
what can be proved of it. Paths below are relative to `src/`, unless they name a module.

## 1. Inventory

| Component | Code | State | Operations |
|---|---|---|---|
| Database tables | `prisma/schema.prisma`, `prisma/migrations/` | schedules, budgets, payments, jobs, users | foreign keys: a budget RESTRICTs the deletion of its schedule, a schedule that of its job; deleting a schedule SETs its payments' target to NULL |
| Payments | `src/payments/payments.service.ts` and its controllers | the requests in progress (locals across awaits) | createCheckout, createVisitCheckout, findById (poll), handleWebhook; inside: assertNotAlreadyPaid, createPixPayment, createCardPayment, refreshIfPending, applyStatus, markBudgetPaid |
| Payment gateway | `src/payments/mercado-pago.gateway.ts` | none; the provider keeps the charges | createPixCharge, chargeCard, getPaymentStatus, mapStatus, verifyWebhookSignature |
| Budgets | `src/budgets/budgets.service.ts` | requests in progress | create, respond; findById, findBySchedule read |
| Schedules | `src/schedules/schedules.service.ts` | requests in progress | create, update, remove; the reads derive visitPaid and the latest budget |
| Jobs | `src/jobs/jobs.service.ts` | requests in progress | create, update, remove; findAll with the women filter |
| Users, Storage | `src/users/`, `src/common/storage/` | avatarUrl; stored objects | uploadAvatar: store the object, then save its URL |
| Auth | `src/auth/` | users; the tokens in the users' hands | register, login, token check |
| Error contract | `src/common/errors/`, `src/common/filters/` | none | exceptions to answers |
| Serializers, bootstrap | `*.serializer.ts`, `src/main.ts`, `src/app.*` | none | layout, start-up |

How they interact: only through the tables, and with the provider through HTTP.
There is no transaction and no lock in the code: every handler is a sequence of
single statements, and Node interleaves the requests at each `await`. That is
where everything hard about this program is:

* **Check, then write.** Every guard is a query of its own, awaits before the
  write it protects (already paid, reusable PIX, active budget, still SENT,
  schedule there), and every write is on the id alone.
* **Two writes.** A payment becomes PAID and its budget becomes PAID in two
  statements, and a charge is made before its row exists.
* **The provider** moves charges on its own, delivers webhooks late, twice, or
  before the row is there, may not answer, or may have done what it did not
  answer; POSTs carry a fresh idempotency key each.
* **Deletions** of schedules and jobs go on under the other handlers.

What makes each component correct:

* *Payments*: no status that has not been true of the charge, but for the PENDING
  a PIX is inserted with; a budget PAID only for its own money; money and rows in
  step; a terminal payment left alone; one charge per target at a time; an approval
  and a refund that arrive in the end.
* *Budgets*: no budget before the fee; one active budget, and it is the one the
  app shows; answers stand; totals are exact.
* *Error contract*: an answer that blames the client follows no effect.
* *All of them together*: fee, offer, answer, price and settlement go the way the
  two parties were promised (`Deal`).
* *Schedules and jobs*: children keep their parents; visitPaid tells the truth.
* *Users and Auth*: a token says what its user's row says; an avatar, whatever URL
  the user registered with, changes only to a stored upload of the user's own;
  whoever has a row can get in.

`PROJECT.json` lists the hazards line by line with the properties aimed at each.

## 2. Modules

| Module | Models | In terms of the code |
|---|---|---|
| `Schema` | the three shared tables and their enums | a row is its status plus what some guard reads; ids of budgets and schedules are constants, `payments` is a sequence because ids and `createdAt` grow together |
| `Gateway` | the provider, and what the gateway class makes of its answers | `charges` holds each charge's status, its target and every status it has had; the last two are history that only properties read. `Means` says what each status of a payment claims of its charge, in the provider's terms and not through `MapStatus`, so that a wrong mapping is not its own judge. `notices` is the set of outstanding webhook deliveries |
| `Payments` | the payment service | one action per stretch of code between two awaits; `handlers[h]` holds a request's place and the locals it still needs |
| `Settlement` | what the payment flow promises | budgets money was collected for; budgets settled |
| `PaymentsProofs`, `OneRequestProofs` | theorems about `Payments`, for any number of handlers and for one | section 5 |
| `Budgets` | create and respond | `requests`, with the same convention |
| `Schedules` | schedules and jobs | `visits`, with the same convention |
| `Marketplace` | those three over one database | extends `Payments`, instances `B` of `Budgets` and `S` of `Schedules`, interleaved by `MarketNext` |
| `Deal` | what the two parties of a visit are promised | fees collected, the status of the budget shown, prices collected; `Marketplace` derives each from its tables (`D`) |
| `MarketplaceProofs`, `OneDealProofs` | theorems about `Marketplace`, for any number of requests and for one at a time | section 5 |
| `Accounts` | register, login, uploadAvatar | users and objects numbered as they are made, avatars by their object, 0 for any other URL or none; a registration brings any of these; `tokens` are the payloads signed so far |
| `AccountsProofs` | theorems about `Accounts` | section 5 |
| `BudgetTotals` | what `BudgetsService.create` computes | operators: doubles, and the 32-bit columns that refuse a nested write as a whole |
| `TotalsProofs` | lemmas about those operators, for any numbers | section 5 |
| `Contract` | one request from body to answer: the card DTO, tokenization and charge, a new budget through `BudgetTotals`, `ERROR_STATUS`, `codeForStatus` and the exception filter | a field of the body is one of six forms; `done` is what the request did for good, `answer` its status and code |
| `ContractProofs` | theorems about `Contract` | section 5 |
| `MCPayments`, `MCMarketplace` | constants for TLC | users, lifecycles of a charge, card and PIX outcomes |

A request in `Payments` goes

    createCheckout:  checkPaid -> findPix -> postPix -> insert -> done
                     checkPaid -> postCard -> insert -> settle -> done
    poll, webhook:   getStatus -> update -> settle -> done

where the name is what it is waiting for. A poll remembers the status it read
(`read`), because `applyStatus` judges by that and not by the row. A webhook
remembers its notice: one that ends without a 200 is delivered again
(`CutOff`), one for an unknown payment is answered 200 and forgotten
(`UnknownPayment`).

Conventions:

* **Budget ids** are numbers in `Marketplace`, issued in order (`IsNextId`), as
  payments are: "the latest by `createdAt`" is the largest.
* **Guards that throw.** A synchronous guard that throws before anything was
  written leaves the state alone, so the action is not enabled there. A guard
  after an await ends the request.
* **Failures.** `GatewayFails` is a GatewayError without effect at the
  provider. `Abort` is everything else that ends a request half way: a database
  error, a crash, and at `insert` a POST that took effect but was not answered.
  `CrashPoints` says where a run allows it. A crash of the process is one
  `Abort` per request: nothing is in memory that outlives requests. In
  `Budgets` and `Schedules` nothing is written before the single write, so one
  `GiveUp` does.
* **The answer to a PIX.** `createPixCharge` drops the provider's status and
  `createPixPayment` writes PENDING. `CreatePixCharge` therefore makes a charge of
  any of `PixOutcomes`, and the row is PENDING all the same. `NoInventedStatus`
  has to except it: the row of a PIX that was rejected or approved at once says
  PENDING until a poll or a webhook.
* **Left out.** Amounts and texts; the webhook signature and its `type` (a
  notice is one that has passed both); `card` missing from the body (refused
  like the other guards). A POST by the provider is one step with its answer: a
  late answer is the wait at `insert`. A GET reads the status when its answer
  arrives; the wait at `update` is as good as a later arrival.

## 3. Runs

Constants shared by the runs: one visit `s1` and one budget unless said
otherwise; one client, one provider. The bounds:

* `MaxCharges = 2`, `MaxPayments = 2`: two charges are what a double charge, a
  reused PIX, a card next to a PIX and "the latest payment" need. A third adds
  no new pair, and every property below speaks of at most two rows.
  `PaymentsLive` has one charge, which is what its properties speak of.
  `MaxPayments` only keeps a checkout from a POST while there are so many rows,
  so concurrent requests may go over it.
* `Handlers`: one where the question is about requests that do not overlap,
  two where it is about overlap. Every race of this code is between two: each
  property is violated, where it is, by a pair. The handlers are
  interchangeable, and safety runs with two use symmetry.
* `CrashPoints` in `PaymentsRaces` leaves out the two places where a cut is
  known to lose something, so that `ChargeIsTracked` and `PaidRowsSettled` can
  hold. The other properties of that run need no such care: they are proved
  (section 5) whatever `CrashPoints` is.
* `OpenVisits` (`Payments` alone): the schedules that are ACCEPTED.
* `Lifecycle`, `CardOutcomes`, `PixOutcomes`: how a charge may begin and move. They
  cover approval, authorization, rejection, refund, charge back and its reversal,
  and a status the code does not know, in the combinations the properties tell
  apart. A PIX is pending, approved or rejected when it is made in
  `PaymentsOneRequest`; pending or rejected in `PaymentsRaces` and
  `MarketplaceFlow`, where the row then says what was never true; pending or
  approved in `PaymentsLive`, where it must settle all the same. `PaymentsRaces`
  also has cards that are authorized and captured later: taking the one for the
  other is the mutant of `NoInventedStatus`.

| Run | Shows | Expected |
|---|---|---|
| `PaymentsOneRequest` | requests one after the other, cut off anywhere: types, one reusable PIX, terminal payments final, no charge once settled | pass |
| `PaymentsRaces` | two requests in any order, cut off anywhere but at `insert` and `settle`: nothing invented, settled only for money, one row per charge, every charge has its row, every PAID row its settled budget, and `Settlement` implemented | pass |
| `PaymentsLive` | two requests under fairness, not cut off at `settle`, the webhook before, during and after the insert: an approval settles the budget, an announced refund reaches the row | pass |
| `MarketplaceFlow` | the whole flow with two budgets, one request of each component at a time: fee before budget, no orphans, charged only if answered, answers that stand, one active budget and that the one shown, the payment properties with visits deleted under them, and `Deal` implemented | pass |
| `Accounts` | two users, two requests in any order, cut off anywhere: true tokens, avatars that change only to own uploads, nobody locked out | pass |
| `Contract` | every form of card, every budget of up to three items, every failure on the way: only validated card data is tokenized, a 4xx follows no effect, stored amounts and totals are exact | pass |
| `PaymentsStaleRead` | a poll and a webhook overlap: a settled payment goes back | violation |
| `PaymentsDoubleCharge` | two checkouts overlap: a settled target is charged | violation |
| `PaymentsUnsettled` | cut off at `settle`: the budget is never settled | violation |
| `MarketplaceTwoBudgets` | two creations overlap: two active budgets | violation |
| `MarketplaceLateFee` | the fee behind a budget is refunded: the next visit checkout charges it again, with the budget there | violation |
| `MarketplaceVisitPaid` | a later payment hides the PAID one | violation |

The violations are disagreements between the code and its own comments; each is
a finding in `PROJECT.json` with the line of both. The passing runs say how far
the same properties do hold: one request at a time, or without a cut between
two writes. Two more properties hold for one request at a time and are lost to an
overlap, without a run of their own: two PIX checkouts that both look for a charge
to reuse before either inserts make two (`OneReusablePix`), and of two answers to
one SENT budget the later overwrites the earlier (`AnswerStands`). Both are the
pattern of `PaymentsDoubleCharge` and `MarketplaceTwoBudgets`: a query, an await,
a write on the id alone. TLC finds either trace once the run's instance gets a
second handler or a second budget request.

The Marketplace runs turn deadlock checking off, since a run ends once the finite
ids of jobs, visits, budgets and charges are used up; the Payments runs keep it,
because a notice can always be repeated.

### Fairness

`FairSpec` in `Payments` assumes, and nothing more:

* weak fairness of each handler's own steps: Node runs a request on;
* strong fairness of polling a payment that is open: the app polls while it
  shows the payment (`findById` exists for that), but other requests may take
  the handler in between;
* strong fairness of delivering a notice: the provider repeats it until it gets
  a 200;
* strong fairness of the provider's answer about a charge, and of the write of
  a payment's status: attempts may fail, again and again, but not for ever.
  The code retries neither itself; polling and redelivery do.

Nothing is assumed of the provider moving a charge, of the user starting a
checkout, or of the write to the budget happening after a cut.
`ApprovedSettles` therefore ends either in a PAID budget or in the provider
taking the approval back. `RefundReachesRow` starts from a notice that is
outstanding: one that came while no row carried the charge was answered 200 and
is not repeated, and a PAID payment is not polled.

In `Accounts`, two e-mails and two requests let registrations collide; `MaxUsers`
is 2, what "the other's row" needs, and `MaxObjects` is 2, so that two uploads of
a user may overtake each other, or one user's upload be the URL the other
registers with. One password that users have and one (`Wrong`) that nobody has are
the two answers `bcrypt.compare` can give. Its `FairSpec` assumes

* weak fairness of each request ending in some way, `Abort` included: Node runs
  it on;
* strong fairness of a user logging in with the right password, and of each of
  the two steps that a login must pass (`bcrypt.compare`, `signAsync`): logins
  may be cut off again and again, but not for ever. The user retries, the code
  does not.

Nothing is assumed of registrations: one cut off before its token may never be
repeated, and is refused as taken when it is. The
login is then the only way in: with the arguments of `bcrypt.compare` swapped (the
mutant) such a user stays out.

In `Contract`, the items of a budget stay within `MaxItems = 3`, and `Int4Max` and
`SafeInteger` are small numbers in the order of the real ones, 2^31 - 1 and 2^53,
with factors whose products pass both, so that rounding does happen before the
columns refuse: without their refusal (the mutant) 3 times 7 is stored as 20.
A card has a token, a brand, one field that stands for the raw fields with a
minimal length and one for those without; each takes every form the code tells
apart, so the run has all the combinations the pipe and the gateway can disagree on.

`MarketplaceFlow` uses a lifecycle without refunds (`PaidLifecycle`), for its size.
What refunds add for the fee is `MarketplaceLateFee`. The comment of
`createVisitCheckout` says that a visit checkout is allowed "only after the schedule
is ACCEPTED and before any budget", and `FeeChargedBeforeBudget` says that much and no
less. No guard asks for budgets. While the fee of the budget has a PAID row, a
checkout is refused as already paid; once that row is REFUNDED, nothing refuses
it, though the budget, and perhaps its price, is still there. A checkout that has
passed the guard when another one is paid and a budget is made does the same
without a refund. `LateFeeOnlyIfTakenBack` says that for requests that do not
overlap the refund is the only way, and is proved (section 5).

`KeepsDeal`, `ShownIsActive` and `AnswerStands` hold only while budget requests do
not overlap; `MarketplaceTwoBudgets` says what two of them do.

## 4. Model-checked only

* `ApprovedSettles`, `RefundReachesRow` and `RegisteredGetsIn`: liveness under
  fairness and `ENABLED` are out of the prover's reach. Every other property of a
  passing run is proved.
* The six properties of the violation runs. `TerminalIsFinal`, `NoChargeOnceSettled`
  and `OneActiveBudget` are proved under the hypothesis with which they hold,
  `ApprovedSettles` is checked under its own. `FeeChargedBeforeBudget` and
  `VisitPaidAgrees` hold under none of ours; what is proved in place of the first is
  `LateFeeOnlyIfTakenBack`.

## 5. Proved

The theorems hold for any sets of users, visits, budgets, jobs and requests, any
bounds, lifecycles, card and PIX outcomes. They rest on the `ASSUME`s of the modules,
which say what the constants are and which TLC evaluates on every run, and on
the hypotheses each theorem states:

| Hypothesis | Says | Why it is needed |
|---|---|---|
| `OneRequest` | payment requests do not overlap | `PaymentsStaleRead`, `PaymentsDoubleCharge` |
| `OneBudgetRequest` | budget requests do not overlap | `MarketplaceTwoBudgets` |
| `"settle" \notin CrashPoints` | no cut between a payment's write and its budget's | `PaymentsUnsettled` |
| `"insert" \notin CrashPoints` | no cut between the POST and `payment.create` | the charge is made, the row is not |
| `PendingIsFirst` | the provider takes no charge back to `pending` | see `OneReusablePixCorrect` |

Each inductive invariant below was checked with TLC, as an invariant of the runs'
instances, before it was proved.

### `PaymentsProofs`: any number of requests, overlapping in any way

* `TypeCorrect`. `TypeOK` is inductive with its last conjunct, that a request
  names payments that exist.
* `NothingInvented` and `SettledOnlyIfApprovedCorrect`. That what the code reports
  is true of the charge is a fact about `MapStatus` and its fallback (`MappedMeans`):
  each status is mapped to one that `Means` it. The PENDING of a PIX is carried to
  the insert without such a fact, by its method. Neither property is
  inductive: a request writes later what it has decided before. `IInv`
  adds what makes them so, `ChargesSeen` (a charge's status is in its history)
  and `RequestsBacked` (what a request carries to its write is backed by the
  provider already: the row at `insert`, the charge at `getStatus`, the status at
  `update`, the approval at `settle`). It survives other requests because
  histories only grow and a row's charge and target never change, the lemmas
  the proof is built from. It is why stale reads can lose an update, as
  `PaymentsStaleRead` shows, but cannot make one up.
* `KeepsPromiseCorrect`: `Payments` implements `Settlement` with the approved
  budgets as collected and the PAID ones as settled. A POST or a move of the
  provider is a `Collect` or a stutter, `MarkBudgetPaid` is a `Settle` by
  `RequestsBacked`, all else stutters.
* `OneRowPerChargeCorrect` needs `FreshInserts`, that the charge a request is
  about to insert is on no row and with no other request; and that needs `IInv`,
  by which every number in use is that of an existing charge, so that the next
  one is unclaimed. The provider numbering each POST afresh is behind it.
* `PaidRowsSettledCorrect`, without a cut at `settle`: a PAID row has its
  budget PAID or a request at `settle`. No other step moves a request away from
  there, and `MarkBudgetPaid` serves every row that waits for its budget.
* `ChargeIsTrackedCorrect`, without a cut at `insert`: by `RowBacked` a
  row refused at the insert is one whose charge is for the deleted visit.

### `OneRequestProofs`: payment requests one after the other, cut off anywhere

What these properties lose to a second request is the truth of something read.
Each invariant says that it is still true when it is used:

* `TerminalIsFinalCorrect`: `ReadIsCurrent`. At `getStatus` a request's `read` is
  its row's status, and at `update` the status it carries is forward of that.
* `NoChargeOnceSettledCorrect`: `UnpaidTarget`. From `assertNotAlreadyPaid` to the
  POST the target has no PAID row.
* `OneReusablePixCorrect`: `PixInv`. From the search to the insert there is no PIX
  to reuse (`PixClaims`), and a PIX that has left PENDING stays out of it
  (`PixDecided`). The second part is why `PendingIsFirst` is there: `IsForward`
  lets PROCESSING go to PENDING, so a provider that took a charge back to
  `pending` would give a target two reusable PIX charges with no two requests
  overlapping. The lifecycles of the runs take none back.

### `MarketplaceProofs`: the composed system, any number of requests of each kind

`Marketplace` extends `Payments`, so a payment step is the same formula as in
`PaymentsProofs` and its lemmas are cited. What is new is what the other
components do to it: `OthersStep` sums it up for the payment proofs (no budget
becomes PAID, a deleted visit takes its payments' target away, no payment changes
otherwise), and the invariants `MarketIInv == IInv /\ MarketTypeOK` survive it.

* `MarketTypeCorrect`, `MarketNothingInvented`, `MarketSettledCorrect`,
  `MarketTrackedCorrect` (without a cut at `insert`) and `MarketOneRowPerCharge`
  (with `FreshInserts`, as in `Payments`) follow.
* `ChargedOnlyIfAnsweredCorrect`: `AnsweredFirst`, by which a request on its way to
  a charge has its budget answered too. It is `MoneyFor(AnsweredBudgets)`, and the
  lemma about `MoneyFor(G)` needs of `G` only that it loses no budget; `DealInv`
  uses it again with the accepted ones.
* `VisitFeeFirstCorrect`: `FeeCollected`, by which a request past `CheckVisitFee` has
  its fee approved. A refund, a rejection or a deletion after that does not undo
  an approval, and so the check may be stale without harm.
* `NoOrphansCorrect`: `HasParents`, by which a request's visit has at least been
  there: an id once deleted never returns, and the foreign keys do the rest.

### `OneDealProofs`: requests of one component do not overlap

* `OneActiveBudgetCorrect`, `ShownIsActiveCorrect`, `AnswerStandsCorrect` and
  `KeepsDealCorrect`, under `OneBudgetRequest`: `DealInv` adds to the two
  invariants that the checks of the one budget request hold when it writes
  (`ChecksHold`), that ids are issued in order, so that there is a latest budget
  (`IdsInOrder`, `LatestExists`), and that money is only on its way to accepted or
  paid budgets (`MoneyFor(WantedBudgets)`), so that `markBudgetPaid`, which writes
  unconditionally, cannot make a rejected budget active. `KeepsDealCorrect` is the
  refinement: with it, `MarketIInv`, `AnsweredFirst` and `FeeCollected`, each step of
  the four components is a step of `Deal` or a stutter.
* `MarketKeepsPromise` and `MarketPaidRowsSettled` (without a cut at `settle`), under
  `OneBudgetRequest`: what `Payments` alone promises for any number of requests
  needs it here, because an answer is written on the id alone. `ChecksHold` says
  that the budget is still SENT then, so none goes back from PAID (`PaidStays`).
  With two budget requests TLC finds both properties violated: the first answer
  accepts, the budget is paid, the second one rejects it.
* `MarketTerminalIsFinal`, `MarketNoChargeOnceSettled` and `MarketOneReusablePix`
  (with `PendingIsFirst`), under `OneRequest`, any number of requests of the other
  components in between: these change no payment but its target, and that only
  to none (`OthersStep`), so `ReadIsCurrent`, `UnpaidTarget` and `PixInv` survive
  them. A visit deleted while its PIX is made leaves that PIX to no target.
* `LateFeeOnlyIfTakenBackCorrect`, under `OneRequest` and with any number of budget
  requests: `FeeStands`, that a visit with a budget, or with a request past
  `CheckVisitFee`, has a PAID row or its fee was taken back. With `UnpaidTarget`,
  no checkout of that visit gets to a POST unless the fee was taken back.

### `AccountsProofs`

`TypeCorrect`, `TokensAreTrue` and `AvatarsChangeToOwn`, from nothing but the module.
Their invariant adds that what a request carries across an await (the payload it
will sign, the object it will save) is true of the tables already. It survives
because rows and objects are only added and of a row nothing but the avatar
changes (`Grows`); an operation that edits a user's e-mail or type would break it,
and the tokens with it.

### `TotalsProofs` and `ContractProofs`

* `TokenizedIsValidCorrect` and `RetryIsSafeCorrect`: `ContractInv` adds that a
  request waiting for a token carries a card the pipe let through, that one at
  its start has done nothing and that only the end has an answer.
* `ExactAmountsCorrect`, for any quantities and prices, unbounded ones too: up to
  `SafeInteger` a double is the number (`DoubleIsExact`); a greater number never
  rounds to one below `SafeInteger` (`DoubleIsLarge`), so the column refuses it, as
  it is narrower (`FitsIsExact`).
* `ExactTotalCorrect`, for any number of items: each partial sum is exact or has
  reached `SafeInteger`, and there it stays, since amounts are not negative; the
  column refuses such a total (`SubtotalFitsIsExact`).

`Spacing`, `SubtotalCents` and `ExactSubtotal` are recursive functions. That they
exist and satisfy their equations (`DistancesExist`, `LoopExists`), and what they
compute, is proved by taking the least argument at which it fails (`LeastNat`,
from `WFMin` and `NatLessThanWellFounded`, which take sets and not operators), so
no induction principle with an operator parameter is needed.

## 6. Not modelled

* Hashing and signing (library calls), the expiry of tokens, and the loss of
  local files on redeploy that `local-storage.service.ts` announces.
* The amount of a payment: it is the total of the budget, which no code
  changes, or the fixed visit fee.
* A 2xx answer of the provider without a readable body.
* Serializers, bootstrap and the messages of errors: layout. The DTOs other than the
  card's and the budget items': they refuse a body before anything is done.
* The HMAC of `verifyWebhookSignature`.
* An avatar that is too large: the interceptor's limit equals the service's, so
  its 413 (INTERNAL_ERROR in the contract) comes in place of UPLOAD_INVALID_FILE.
* The filter of `JobsService.findAll`, and the other queries that only read. DRAFT and CANCELED of a budget, and CANCELED by the API of a
  payment: no code writes them; they are in the types, and in the guards that
  name them.
* The order of two rows created in the same millisecond, and a
  `providerPaymentId` shared by two providers: there is one.

## 7. Plan

1. Done: the modules of section 2, their runs, and the theorems of section 5:
   every invariant and every action property of a passing run and both
   refinements, and in the composed system every safety property of the payment
   runs.
2. What would come next: the liveness properties, once the prover can state
   fairness; and a transaction around `applyStatus`, `respond` and `create`
   in the code, with which `OneRequest` and `OneBudgetRequest` could be dropped from
   the theorems that need them.
