# Verification of the insurance platform

TLA+ models of the parts of the platform where money, certificates and
quotations change hands, of the accounts and the portal people reach them
through, TLC configurations that check them on small instances, and TLAPS proofs
of their invariants for every instance.

The program is an ASP.NET Core API (`src/src/InsurancePlatform.*`) over a MySQL
database whose stored procedures (`src/*.sql`) hold nearly all the business
rules. An admin portal and a public website call the API; M-Pesa, NTSA/DMVIC and
the insurers call it back.

## 1. Inventory

| Component | State it keeps | Operations | Interacts with |
| --- | --- | --- | --- |
| Payment resolution | `Payments`, `Purchases.payment_status`, the payment entries of `AuditLog` | create payment, STK push with retries, store gateway reference, STK callback, Paybill confirmation, status update by staff | gateway (calls and callbacks), certificates (a SUCCESS completes one) |
| Purchase creation | `Purchases` | `usp_Purchase_Create` | consumes an offer, accrues a commission, yields the account number payments quote |
| Certificates | `Purchases.certificate_status`, `ntsa_certificate_no`, `UnderwriterCertificateRequests` | complete, choose a route, open and post a request, mint at NTSA, record, insurer callback, worker poll | payments (trigger), NTSA and insurers, administrators (policy status) |
| Commissions | `AgentCommissions`, `CommissionWithdrawals`, the named locks and row locks | accrue, request a withdrawal, approve, pay, reject | purchase creation |
| Commission rates | `AgentCommissionRates` | set a rate | amount of an accrual |
| Quotations | `QuoteRequests`, `QuoteOffers` | create, assign and expire a request; create, edit, delete, reject, expire and select an offer | purchase creation (converts a request) |
| Authentication and OTP | `Users.status`, `failed_login_attempts`, `locked_until`, `OtpVerifications` | create and self-register an account, log in, lock, unlock after the cooldown, create and verify a code, activate, reset a password | everything behind a login |
| Clients and vehicles | `Clients`, `Vehicles` with their unique keys | resolve by identity number, look up by registration number, create, update, delete (softly); attach a login, merge duplicates | purchases, quotations, registration |
| Catalogue and pricing | `ComprehensiveRateBand`, third-party prices, benefits, limits | insert, update and delete a band, compare underwriters, validate coverage | offers, purchases |
| Menus, roles, permissions | administration tables | maintain | portal |
| Executor and repositories | none (one connection per call) | call a procedure | every component |
| Gateway clients | none | HTTP calls | M-Pesa, NTSA, insurers |
| Portal and website | the wizard's draft (a cookie), and per page an overlay, a dialog and disabled buttons | the wizard's steps, submit, confirm, search, follow a link | API: clients, vehicles, purchases |

### What is hard here

*Check, then act.* Nearly every procedure reads the row it will change in a
plain `SELECT`, decides on it, and only then says `START TRANSACTION`. Between
the two any other call may run. This is the program's main source of hazards, and the
models therefore split such procedures into a `Begin...` action and an action for
the transaction. The executor opens one connection per call and does not retry,
so each call is a session of its own.

*Write skew.* MySQL's REPEATABLE READ lets two sessions each count what the other
is about to take away. Retiring an offer is therefore three steps: the update, which
takes the row lock and which nobody else sees; the count of what others have
committed by then; and the commit.

*Free text as a key.* A Paybill confirmation is matched by `transaction_reference`, and
that is whatever the caller that created the payment, or the member of staff that set its
status, has written. It may be another purchase's account, or a receipt.

*Delivery.* The gateway redelivers a callback until it is answered, in any order,
concurrently, or before the reference it needs is stored. Insurers may answer
before their acceptance of the request has been recorded.

*Partial failure.* The push may fail, or succeed with its answer lost; storing the
reference may fail; a trigger may die between the internal certificate and the
official one; a withdrawal request may fail holding locks.

*The browser is an actor.* The wizard's draft travels with each request and comes
back with its response, so that of two requests under way the last response wins
and what the other has written is on file but not in the draft. On a page,
listeners of several scripts share one overlay, and keys reach what the overlay
covers.

*Boundaries.* Rate bands meet at whole shillings while values have cents; bands may
overlap their next-but-one neighbour, begin alike, or share a limit.

*Liveness.* A callback must settle its payment, a withdrawal request must come
back from the locks it waits for, a paid policy must get its certificate, a locked
account must open again.

### What makes each component correct

- **Payments.** A webhook says only what happened: a payment is credited only with its own
  prompt or with a transfer that quoted a reference written on it, and none is failed
  whose own prompt was not declined; a terminal
  status has an author in the audit log; `payment_status` follows grounds and
  never returns to PENDING; an announced result settles the payment whose reference is
  stored.
- **Certificates.** Only what was paid for is certified; the internal certificate
  precedes any request for an official one; a request marked ISSUED has a
  certificate on its purchase, and that certificate is the purchase's own, as long as
  the insurers' policy numbers tell purchases apart; nobody is left behind by the worker.
- **Commissions.** A withdrawal is worth exactly the rows it reserves; rows follow
  the fate of their withdrawal; a decision is final; nobody is overpaid; locks are
  always given back.
- **Quotations.** What is bought was picked; what is converted was bought; offers
  come only after assignment.
- **Authentication.** Failed logins stop at the limit and those under way; a code
  is given up after its tries; one code of a purpose is valid; nobody gets in before
  registration is verified, and no password changes without a code for it.
- **Clients and vehicles.** One client per identity number, one vehicle per
  registration number; nobody insures somebody else's car.
- **Pricing.** What the validator reports is what the comparison does: two quotes
  of one insurer, or none.
- **Portal.** The wizard buys for the person on the form; its draft stays
  consistent; a form that asks is posted after a Yes only; a plain form is posted once.

`PROJECT.json` lists every hazard at the line where it bites with the properties
that would catch it, or why none does.

## 2. The modules

| Module | Role | Code |
| --- | --- | --- |
| `Settlement` | abstract: what may become of `payment_status` | (specification) |
| `Payouts` | abstract: what paying out commissions promises | (specification) |
| `Payments` | payments, push, gateway, callbacks, staff | `Insurance_API_StoredProcs_PurchasesPayments.sql`, `PaymentsController`, `MpesaCallbackController`, `MpesaStkPushService` |
| `Certification` | internal and official certificates, worker, insurers | `purchase_certificate_output.sql`, `underwriter_integrations_migration.sql`, `dmvic_certificate_integration.sql`, the certificate services, the worker, the callbacks controller |
| `Commissions` | accrual and withdrawals | `Insurance_API_StoredProcs_Commissions.sql` |
| `Quotes` | requests, offers, conversion | `Insurance_API_StoredProcs_Quotes.sql`, `offer_status_migrations.sql`, `usp_Purchase_Create` |
| `Authentication` | one account, its counter, lock and codes | `Insurance_API_StoredProcs_Auth.sql`, `AuthService`, `RegistrationService` |
| `Wizard` | the portal's wizard and the client, vehicle and purchase it writes, beside the API's other callers | `PurchaseWizardController`, `PurchaseWizardModels`, `Insurance_API_StoredProcs_ClientsVehicles.sql`, `usp_Purchase_Create` |
| `RateBands` | bands, comparison and validator | `RateBandCoverageValidator`, `comprehensive_benefits_limits_migration.sql`, `motor_rates_2026_batch3.sql` |
| `Portal` | one page of the portal | `site.js`, `Step2.cshtml` |
| `MC*` | instances for TLC | |
| `*Proofs` | theorems | |

`PROJECT.json` "map" gives the lines each definition stands for. Definitions
introduced by a comment "Mutant:" are not part of the specification: each is a
plausible mistake in the definition it precedes, and the property named for it in
`PROJECT.json` must fail when it takes that definition's place.

### Payments and Settlement

`payments[i]` is a row: its purchase, its status and the two references callbacks
are matched by. A purchase stands for the account number it was given, a checkout for its
CheckoutRequestID and for the receipt of the money it moved, a transfer for the
TransID of a Paybill payment. `transaction_reference` is free text: `CreatePayment` and
`UpdateStatus` store any member of `Texts` (accounts of any purchase, receipts), as the
endpoints do, and `carried` is a history variable that remembers all a payment ever had there.
Amounts are left out: no condition in the resolvers depends on them.

`InitiateStkPush` inserts the row; `PushAccepted`, `PushAnswerLost`,
`PushUnanswered` and `PushRejected` are the outcomes of one attempt of
`MpesaStkPushService` (an attempt whose answer was lost may have put a prompt on
the phone, and the retry puts another); `StoreReference`/`LoseReference` are the best-effort
`usp_Payment_SetGatewayReference`. `CustomerAnswers` and `PayByPaybill` are the outside
world; a Paybill payment without a reference is looked up by its TransID. `IgnoreCallback`, `BeginResolve` and `Resolve` are the callback endpoints with
`usp_Payment_ResolveByGatewayReference` and `usp_Payment_ResolveByTransactionReference`:
the resolvers read the status before their transaction, hence two actions. `HandlerDies`
is a transaction that fails or a process that ends; the gateway then sends another copy.
`UpdateStatus` is the status endpoint.

`ImplementsSettlement` is a refinement: `Settlement`'s variable `grounds` is
mapped to what the gateway's and the audit log's state justifies (`Grounds`): a decision of staff,
an answer to an own prompt, a transfer that quotes a reference the payment has carried. Every step
of Payments lets grounds appear (`Learn`) and moves at most one status to a verdict that has
them (`Decide`). That a reference may be another purchase's is part of what the code promises
and so of the grounds; `QuotedAccountCredited` says what it costs.

### Certification

`paid`, `active`, `confirmed` are the three facts the certificate procedures ask of
the other components; they change under the running triggers by `PaymentSucceeds`,
`PaymentFails`, `UpdateStatus`. A trigger (a webhook, a staff retry, or the worker)
is a job that moves through `BeginComplete`, `Complete` (the two autocommitted
statements of `usp_Purchase_CompleteCert`), `ChooseRoute`, and then either
`Mint`/`Save` (NTSA) or `CheckOpen`/`OpenRequest`/`Post`/`RecordPost`
(insurers). `InsurerAnswers` and the callback actions are
`CompleteFromCallbackAsync`: `Finds` takes the request of our reference, where the answer
`Echoes` one, or else the newest request of the same integration that is `Named` by the answer's
policy number: ours, which the purchase stands for, or the one an earlier answer has left in
the request (`MarkIssued`). What an insurer may call a purchase is the constant `Quoted`, and
`NumbersAgree` that these numbers tell apart the purchases one insurer may be asked for. `Route` is the set of
integrations a purchase may be routed to over time. The worker differs in that it works through a list it
read once (`Poll`), in the order of the identifiers. `Die` is an exception or a
restart: of the worker, it loses the rest of the list. Payments that fail, policies that
are cancelled and deaths share one bound, `MaxSetbacks`.

### Commissions

`rowLock[a]` and `lock[a]` are InnoDB's row locks on an agent's rows (which keep
insertions into the scanned range out) and the named lock `cw_agent_<a>`. A request
waits for the named lock (with its timeout), sums the balance under `FOR UPDATE`, inserts
and reserves, commits, and gives the named lock back; the exit handler gives it
back *before* the rollback, which is modelled as it stands (`Fail`, `Rollback`). When
`GET_LOCK` itself fails it returns NULL, `NULL <> 1` is not true, and the procedure goes on
without the named lock (`GetLockError`); from there the row locks alone protect it, and
`Unlocked` leaves the lock of another session alone, as `RELEASE_LOCK` does. `RowLockTimeout` is
InnoDB giving up the wait for them.
`Disconnect` is a lost connection, at which MySQL frees everything. An
administrator's `FOR UPDATE` and the update under it are two actions, with
`AbandonStatus` for the failures between them.

`ImplementsPayouts` is a refinement: what is accrued and unreserved is mapped to `Payouts`'
`free`, a withdrawal with its rows to a claim, and `Claimable` to the balances the procedure
does not refuse. The locks, the sum and the session's copy of it are not in `Payouts`:
`Reserve` is its `Claim`, of all that is free *at that moment*, although the floor was tested on
what was free at the `SUM`.

### Quotes

Every procedure is a `Begin` action (its checks) and a transaction. The retirements
(delete, reject, expire) have three more steps: `MarkOffer` is their update, which holds the
row and is seen by nobody; `CountRemaining` is the consistent read of what others have committed
as ACTIVE; `RetireOffer` updates the request by that count and commits. Between any two
of them other sessions may count, commit or pick. The five
product types share one protocol and are one model.

### Authentication

One account and its codes; the rows of two accounts never meet. A call is a sequence
of procedures on connections of their own, and what it has read it carries along:
`Begin` and `Unlock` are the two statements of `usp_User_GetByIdNoForLogin`,
`ReadForLogin` is the comparison with the row it returned, `RecordFailedLogin` and
`RecordSuccessfulLogin` are the calls that follow. `CreateCode` invalidates and
inserts; `FindCode`, `Mismatch` and `Match` split `usp_Otp_Verify` at its
transaction; `Activate` and `UpdatePassword` are what a verified code is for. Whether a
password or a code is right is the caller's choice; a time is kept as "ahead" or "passed".

### Wizard

`call[c]` is a request with the copy of the draft it came with; `Answer` puts the copy
into the browser's cookie, `Abandon` loses it. `Step2Next` runs `Resolve` or
`NotResolved`/`CreateClient`, then `FindVehicle` or
`NoVehicle`/`BeginVehicleCreate`/`CreateVehicle`, then
`BeginPurchaseCreate`/`CreatePurchase`, in that order and with the procedures' tests apart
from their transactions. A failed look-up counts as "not found", as in the code, and a
creation may succeed without its answer arriving. The channels and the mobile application
reach the same three procedures through `Api...`, without a draft. Rows are deleted softly and
keep their numbers, which the unique keys see and the procedures' looks do not.
`PurchaseId` is left out of the draft, because it opens later pages only.

### RateBands

The table is rows at places of a list; `Options` is the comparison's `WHERE` with its join:
`enabled` are the underwriters with `is_active`, which `SetActiveStatus` changes and which does
not touch the bands. The validator is given bands and knows nothing of it, so the
properties speak of underwriters that are switched on. Administrators submit `Ranges`,
pairs of limits, of which the procedure refuses those that are not increasing.
`FindGaps` and `FindOverlaps` are the validator's loops over neighbours in a stable order by
minimum, as sets of neighbouring pairs. The properties compare a report with
`QuotesOf`, what the comparison returns, and so need no other reference. A step
is a fraction of a shilling.

### Portal

Two kinds of forms, with and without `data-confirm`; the listeners are `Ask` (capture
phase), `Submit` and `FollowLink`, `Proceed` and `Dismiss` close the dialog, `Search` and
`SearchEnds` are the wizard's look-up. The overlay stops the mouse but not the keyboard, so no
guard asks for it; the dialog holds the focus and a disabled button stops Enter.
`Proceed` posts past the listeners and disables nothing, as `proceed()` does.

## 3. What the runs show

| Run | Instance | Shows |
| --- | --- | --- |
| `payments` | 2 purchases, 2 payments, 1 prompt, 1 transfer, references that are an account or a receipt, 2 handlers, 2 deliveries, 1 decision; with fairness | invariants, refinement of Settlement, liveness of callbacks, only a repeated confirmation credits twice |
| `commissions` | 2 agents, 3 commissions of 20, 10 and 30 with a floor of 30, 2 withdrawals, 2 requests and 2 administrators at once; with fairness | no double payout, refinement of Payouts, finality, every request answered |
| `quotes` | 1 request, 3 offers, 2 purchases, 2 calls at once; symmetric | picked, bought and converted agree |
| `certification` | 2 purchases (one NTSA or AMACO, one DirectLine or AMACO under a number of its own), 2 requests, 2 certificates, 1 session and the worker, 1 setback; with fairness | genuine, paid for, in order, none left behind |
| `authentication` | 1 account, 2 calls at once, locked after 2 failures, codes given up after 2 tries, 2 codes; symmetric | counters stop, one valid code, no way in before registration is verified, no reset without a code |
| `wizard` | 1 browser, 2 requests at once, 2 people, 2 cars, 2 clients, 2 vehicles, 1 purchase, 1 quote, 1 deletion; symmetric | no duplicates, one's own car, the person on the form, a consistent draft |
| `rate_bands` | 3 rows of 2 underwriters switched on and off, 10 ranges in halves of a shilling (2 of them refused), 2 days, 7 seeds; symmetric | reports of the validator against the comparison |
| `portal` | 2 forms that ask, 2 that do not, a link, a search; symmetric | nothing unasked, a plain form once, frozen for a reason |
| `payments_twice` | 1 transfer delivered twice, 2 payments | **violated:** both are credited |
| `quotes_stale` | 1 request, 3 offers, 2 calls at once | **violated:** two retirements count each other's offer; QUOTED with nothing to show |
| `certification_twice` | 1 purchase, a retry and the worker | **violated:** posted twice |
| `lockout` | 1 account, 2 calls at once, locked after 1 failure; with fairness | **violated:** a lock that is never lifted |

### Bounds, and why they are enough

The hazards are races of two: two handlers, two calls, two administrators, a
session and the worker, over one contested row. Each instance has a second row,
purchase or agent, so that a mix-up can be seen. The result of a
prompt or transfer is delivered once or twice (`MaxCopies`), and a handler dies only
while another delivery is due, as the gateway repeats what was not answered. The two texts
are the account of one of the two purchases, so that the other may carry it wrongly, and the
receipt of the transfer, so that it may be noted before or after it is credited. One
setback (a death, a failing payment or a cancelled policy) is enough to leave every
intermediate state of a trigger behind, since a dead job leaves nothing but rows. AMACO has
both purchases in reach, so that an answer matched by number has another request to be mixed up
with, and calls one of them by a number of its own. The commissions' amounts are chosen so that the 20 + 10 of one
agent reach the floor only together and 30 does alone. Three offers let two be
retired at once beside a third. Two wrong passwords to a lock leave a counter
that is neither empty nor at its limit, and two codes a valid one and its predecessor.
In `wizard` a second person and a second car are what can be mixed up, and the constraint
`OneDeletion` (one client or vehicle is deleted) keeps the instance within minutes; a
second deletion can only repeat the first on the other row. Three bands are the least for
which a band can reach over its neighbour to the next but one, the ranges include
neighbours that touch, share a value, leave half a shilling, a shilling and more. Where the proofs of section 4 apply, the bounds do not matter.

`CHECK_DEADLOCK FALSE` stands where the bounded identifiers, deliveries and
decisions run out and the instance legitimately stops: payments and
commissions. All others always have a step to take, and there TLC looks for deadlock.

### Fairness

- `Payments`: delivery of an announced result, and each running resolver. The
  gateway repeats a callback until it is answered, and a request once
  received runs. Nobody has to pay, push or decide.
- `Commissions`: each running request. The server goes on with a procedure; the
  waits for the named lock and for row locks have timeouts (`GET_LOCK`'s ten seconds,
  `innodb_lock_wait_timeout`). Nobody has to request, and an administrator may hold
  a row for ever as far as the specification goes.
- `Certification`: the worker. It is a hosted service that polls
  after every interval (section `PurchaseCompletionWorker` of the
  configuration, when enabled), and all its calls return or throw. No session and no insurer is
  owed a step. Deaths are bounded, as a worker that dies in every poll serves nobody.
- `Authentication` (`lockout` only): the cooldown passes, and every call ends. For each
  call there can be, strong fairness of beginning a login and of its unlocking `UPDATE`:
  somebody keeps trying and reaches the database now and then. It is what the schema's
  comment supposes ("the moment someone tries to log in again"), and without it the
  counterexample would be an account nobody uses.

## 4. What is proved

All theorems hold for every value of the constants that satisfies the named
assumptions of the module: numeric identifiers where the code compares them, bounds
that are natural numbers, and SQL `NULL` and the kinds of identifiers being
distinct. Nothing is assumed about how many there are of anything, except that the calls of
`Authentication` at a time are finitely many, since they are counted, and that the
bands of `RateBands` are numbered from 1 to any number.

Each proof module defines an inductive invariant `IInv`, proves that `Init` implies
it, one lemma per action that the action preserves it, and draws the theorems
from `Spec => []IInv`.

- **`PaymentsProofs`** (`Typing`, `WebhookTruth`, `AuditTrail`). That a webhook is true is
  not inductive: it needs `Links`, that every reference leads back to the payment
  it was made for, in the rows, the pushes, the prompts on phones, the results in
  transit and the handlers at work; of a transfer, that the payment a handler holds
  has carried the reference it quoted. A status that a handler has read may be old; the
  link between its result and its payment is not, because what a payment has carried is never
  taken back (`WarrantsStay`).
  `QuotedAccountCredited` is about the behaviours in which nobody writes the account of another
  purchase on a payment (`OwnAccountsOnly`): there a transfer credits payments of the purchase
  whose account it quotes, and of no other. The unchecked reference is the only way round it.
  `Refinement`: grounds are monotone (`GroundsGrow`), what a webhook or staff has just said is a ground of the
  purchase it concerns (`SaidIsGround`), so each action is a `Learn` in which at most one status
  takes a verdict with grounds (`StepDecides`).
  `CreditBound` says for every n that a confirmation delivered at most n times is credited to at most n
  payments: the payments credited, the requests in flight with it and the deliveries still to come
  never exceed n (`Counts`). The entry names the delivery it came from, so it does not matter whose
  receipt is noted on which row. That a new transfer starts from zero needs `Links` again: nothing can be credited to, or be in
  flight for, a transfer that has not been made. `CreditOnceUnrepeated` is the case of one delivery,
  in which the comment that `payments_twice` refutes is true; the run `payments` checks that case.
- **`CommissionsProofs`** (`Typing`, `LockOwnership`, `NoDoublePayout`, `LedgerAgrees`,
  `Finality`). The heart is `SeenIsAvailable`: from SUM to COMMIT a session owns the row locks,
  and the set it summed is still the set it will reserve. `OneDecision`, that an
  administrator's locked withdrawal is undecided and nobody else's, carries finality.
  `NoOverpayment` is about sums over sets of any size. `Total` folds a set by a function that is
  recursive over its subsets; its laws (it splits over disjoint sets, it grows with the set) are proved
  by taking a smallest subset that violates them (`LeastSubset`), not by the library's induction. That the
  books are finite is proved (`FiniteBooks`), not assumed: every step enters one row at most. The rest is
  disjointness: the rows of live withdrawals are disjoint parts of what was accrued (`PartsFit`).
  `PayoutsRefinement`: only `Accrue`, `Reserve` and a final `SetStatus` are steps of `Payouts`. That the
  claim is worth the floor when it is made needs `SeenIsClaimable` beside `SeenIsAvailable`: the
  floor was tested on the set that is reserved.
- **`QuotesProofs`** (`Typing`, `BoughtWasPicked`, `ConvertedIsBought`, `AssignedFirst`). `Checked` says
  what remains true of a check made before a transaction: an offer never changes its
  request, a picked offer remains picked, a request taken up is never PENDING
  again. `NoVainClaimAlone` is about the behaviours in which retirements of one request's offers never
  overlap (`OneRetirementAtATime`): what a retirement has counted is then still there when it commits,
  unless an offer was picked meanwhile (`CountHolds`), and a request with a picked offer is not what the
  comment is about. Picks, edits, creations, purchases, expiries of the request and retirements on other
  requests still interleave with it: the write skew is the finding's only cause.
- **`CertificationProofs`** (`Typing`, `OnlyPaidIsCertified`, `FallbackExists`, `IssuedMeansRecorded`,
  `Genuine`). `JobKnows` says the same of triggers and callbacks: confirmed money stays in the audit
  log, a generated certificate stays generated, a request never changes its purchase. `Genuine` needs two more facts under the
  hypothesis `NumbersAgree`: a request belongs to an integration its purchase may be routed to and keeps no
  number its own purchase is not called by (`RowsKnow`), so the request an answer finds by number is one of
  the purchase the answer is about (`Matching`). `Route`, `Echoes` and `Quoted` are
  arbitrary, so the theorems cover Definite's unsolicited certificates too, which the TLC
  instance does not route to. `AskedOnceAlone` and `OnePostAlone` are about
  the behaviours in which no two triggers complete one purchase at once (`OneTriggerAtATime`): a trigger that has passed the internal certificate and not yet opened its request finds none
  (`StillTrue`), because nobody else can be that far. Deaths, callbacks, failing payments and the worker's old list
  still interleave, so the race is the only cause of a double post; and what is proved is stronger, one request
  whatever became of it, which is also why a failed one is never repeated.
- **`AuthenticationProofs`** (`LockoutHolds`, `CodesAreSpent`, `LastCodeOnly`, `RegistrationComesFirst`,
  `CodesKeepTheirPurpose`, `Typing`). For both bounds, a counter plus the calls about to raise it
  never exceeds the limit less one plus the number of calls; for failed logins, times the
  activations, which set the status without looking at the counter. `Known` is what a call still
  knows of the code it found, and `Untouched` that an account whose REGISTER code was not
  verified is INACTIVE still.
- **`WizardProofs`** (`Unique`, `OwnVehicle`, `NamedBuyer`, `Consistent`, `Typing`). `Sound` says what a
  request may rely on at each of its steps, whatever the others do: rows are never removed, an
  identity number and the owner of a vehicle never change (`Grown`), so what it
  has read stays true in what matters (`TablesKeep`). Deletions and changed registration
  numbers disturb none of it.
- **`RateBandsProofs`** (`OverlapsAreFound`, `NoFalseOverlaps`, `GapsAreFound`, `GapReportIsExact`). Correctness
  of the validator for tables of any length, in any state, for every underwriter that is switched on, whose
  bands in effect are what the comparison draws on (`QuotesAreBands`): if any two bands meet, so do two
  neighbours, because the least band after the first lies between them; if a value is
  not covered, the last band that begins before it and its successor leave a gap around it.
- **`PortalProofs`** (`Consent`, `NoRepeats`, `NoThirdPost`, `NoIdleFreeze`). How often a form was posted is told by the two marks
  the scripts leave on it (`Posts`): `dataset.confirmed`, which only a Yes sets, and the disabled controls, which
  only the loader's listener sets. A plain form has the second mark only and is posted once; a form that asks
  can get both, one after the other, and is posted twice at most. The overlay, which every script shows and hides, plays no part in it.

Only model-checked: the liveness properties (`CallbackSettles`, `RequestIsAnswered`, `PaidGetsCertified`), which
rest on fairness and ENABLED. Every invariant, action property and refinement of a passing run is also a theorem.
The other way round, `AuditTrail`, `LedgerAgrees`, `CreditBound`, `QuotedAccountCredited`, `NoThirdPost` and the three
theorems named `...Alone` are proved and no run repeats them; the hypotheses of the last three are conditions on a behaviour, which
the races of findings 2 and 3 break and every behaviour without those overlaps satisfies. That of `QuotedAccountCredited` is one on
what people write.

## 5. Findings

1. **One confirmation, two credits** (`payments_twice`). Resolving replaces
   `transaction_reference`, the key confirmations are matched by, with the receipt. A redelivery
   matches the next older PENDING payment that quotes the account. The comment
   calls the resolver idempotent.
2. **QUOTED with no offer** (`quotes_stale`). Write skew between two retirements: each counts after its own
   update and before the other commits, finds the other's offer, and leaves the request as it is.
3. **A purchase is posted twice** (`certification_twice`). The check for an open request
   precedes the transaction, and no key enforces it.
4. **A lock nobody lifts** (`lockout`). A login that read the account as ACTIVE and succeeds after
   another call has locked it clears `locked_until` and leaves the status LOCKED; the cooldown's
   condition then never holds. The schema's comment promises that no administrator is needed.

The hazards of `PROJECT.json` name disagreements that the models reproduce and no run is spent on,
because one call or a sequence without a race shows them: the second of two resolvers overwrites a terminal
payment; after a failed push the Paybill payment the message invites to finds no row; account
numbers past 999 are truncated; an edit lands on an offer that was picked meanwhile; a
deleted identity or registration number can never be registered again; a form that asks can
be sent a second time with Enter while its request is under way, although `site.js` (379-382, 446-449) says that
nobody can fire a duplicate request; a payment may carry the account of another purchase, which a Paybill
confirmation then credits, although `MpesaCallbackController.cs` (20-22) says that nothing client-supplied is trusted for the
lookup; the resolvers look at the newest payment of a reference whatever its status, although the comment above
them (817) speaks of the newest PENDING one; every insurer's answers, and not AMACO's only as the comment above
`usp_UnderwriterCert_FindForCallback` has it, fall back on the policy number; a request the insurer refused is never
repeated, although `usp_UnderwriterCert_CreateRequest` lets a FAILED one be replaced and its comment says it may
be retried: every trigger stops at "Certificate already generated" before it gets there.

## 6. Not modelled, and why

- The development-only auto-confirmation in `PaymentsController`; the direct Daraja transport,
  which is the push with one attempt.
- Amounts, except commission sums; documents, downloaded files, e-mails, notifications, wording.
- `AuditLog` beyond what the procedures' properties read of it. COMPLETE entries
  are not read by anything modelled.
- That an official certificate is ever issued: insurers need not answer, and issuance is best-effort.
- How policy and account numbers are made, periods, vehicle snapshots, riders, product detail tables: data that no
  modelled decision reads.
- Channel service accounts and the contents of tokens. The deletion of users (`StaffController.DeleteSupportAgent`,
  `usp_User_Delete`): a deleted account is gone from every look-up the modelled calls start from, and nothing brings it back.
- Names and addresses of clients, chassis numbers (a second key, which leads to the same refusal) and
  vehicles without a registration number; `usp_Client_AttachLogin`, `FlagDuplicate`,
  `MergeDuplicate` and the other procedures of these two flows,
  which neither the portal nor the channels call.
- Rates and premiums, the third-party price tables, benefits and limits: they decide on a price, not on
  what may happen.
- The comprehensive wizard, whose draft is in the server's session and whose calls are those of
  `Wizard` in the same order; the notification bell; the table script of `site.js`, which no view switches
  on. Nearly all lines of JavaScript in the repository are vendored libraries (DataTables, Bootstrap, moment,
  Font Awesome and others), which are not this program's.
- Commission rates (only the resulting amount enters), menus, roles, gateway clients, the public website:
  no protocol between their operations.

## 7. Plan

The order followed the money: payments, what a payment sets off (certificates), what is paid out
(commissions), what leads to a purchase (quotations); then who may act (authentication), how a purchase
comes about (clients, vehicles, the wizard), what it is priced by (rate bands) and the pages it is
made on. What is left, most useful first:

1. **Composition of Payments and Certification**: `confirmed` and `paid` of `Certification` as
   mappings of the payments' rows, so that `CertifiedWasPaid` becomes a statement about M-Pesa's money.
2. **Amounts and `PurchaseId` in the wizard**, to follow a quote that is changed after the purchase to the
   prompt of step 3.
3. **An abstract specification** of quotations (what `CONVERTED` and `QUOTED` promise) with its refinement checked, then
   proved.
4. **Client merging** with the foreign keys it moves, once something calls it.
5. **Proofs**: a lock that has an end as long as one call at a time is under way (`Authentication`), so that finding 4
   too is shown to have no other cause.
