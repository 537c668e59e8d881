# CapitalForge: TLA+ models of the deal desk, its billing, its files and its outreach

CapitalForge is a multi-tenant back office that applies for business credit
cards on behalf of its clients. It is an Express/Prisma/PostgreSQL server
(`src/src/backend`), a Next.js front end and a mobile app. Nearly every handler
has the same form: read rows, check what was read, await something else, update
by primary key. There is no optimistic locking and almost no transaction spans
a check and its write, so the interesting behaviour lies between two awaits.
This project models that: what requests on one record do to each other, what a
crash or a refusal between two statements leaves behind, and what the caches and
in-memory queues of a process do while other processes change the rows.

## 1. Inventory

State below means database rows unless said otherwise. Paths are relative to
`src/src/backend`.

| Component | State | Operations | Hard because | Correct when |
|---|---|---|---|---|
| Application pipeline (`services/application-pipeline`, `application-gates`, `api/routes/application*.routes`, `rewards.routes` cancel, `decline-recovery.routes`) | `CardApplication` (status, timestamps, maker, metadata Json), `DeclineRecovery`, audit rows, ledger | create (2 routes), edit, capture consent, status change, submit, cancel, open / advance / resolve a recovery | six gate reads in parallel, then an unconditional update; status writers with no transition check; a Json column written back whole; events after the commit | a submission keeps what it needed; maker and approver differ; the status follows its table; the ledger is not ahead of the row |
| Compliance records (`consent`, `product-acknowledgment`, `suitability`, `kyb-kyc`, `compliance`, `onboarding`) | consent records, acknowledgments, suitability checks, compliance checks, owners | sign, grant, revoke, assess, override, verify KYB / KYC, check, add owner | check, external call, write; latest-row-wins reads | no owner is verified before a KYB check; a gate answers for what is on file |
| Consent vault and SMS outreach (`consent`, `consent-gate`, `sms-dispatch`, `sms-webhooks.routes`, `integrations/twilio`) | consent records, do-not-call list, `SmsMessage` | grant, revoke, dispatch, STOP, delivery callback | STOP against a dispatch in flight; lost answers; redelivery; callbacks in any order | no text without consent or after STOP; rows tell the truth |
| Event bus and ledger (`events`) | `ledger_events`; in-memory subscribers | `publishAndPersist` | persisted after the write it reports, may fail | never ahead of the state |
| Tenant admission (`tenant-status`, `tenant.middleware`, `auth`, `multi-tenant`) | `Tenant.isActive`, a per-process cache with a 30 s TTL, access tokens, two-factor challenges | login, challenge, refresh, request, suspend, reinstate, update of a tenant | a read in flight across an invalidation; writers that invalidate nothing; a challenge that outlives the answer it was given on | a cached answer was true less than the TTL ago; a suspended tenant's users all lose their sessions; a reinstated one is served again |
| Outbound webhooks (`webhook-delivery`, `jobs/webhook-retry`) | in-memory subscriptions and deliveries | dispatch, test, post, retry scan | lost answers; a list taken before the record changed; a restart | bounded duplicates; a settled delivery stays settled; a failed one settles |
| Deal committee (`deal-committee`) | a review with its votes in one Json column | create, update, vote, sign off | votes merged by read and write; quorum of 3 | the stored status is the outcome of the stored votes; only an overlap loses a vote |
| Funding rounds and APR expiry (`funding-round`, its routes, `jobs/apr-expiry-checker`) | rounds, three alert flags | update, complete, put, daily scan | flag before alert; a job that carries an old date; a completion during a scan | no window announced twice per reset, none early |
| Invoices (`billing.routes`, `revenue-ops`, `offboarding`) | invoices and credit notes in one table with unique numbers | generate, pay, unpay, void, refund | notes summed before another refund is written; a number counted before the insert; a payment that asks only whether it is paid already | refunded means credited in full; a void invoice is not paid; a count that still stands is a free number |
| Commissions (`billing.routes`, `revenue-ops`, `platform.routes`) | status, paid date, audit entries | create, approve, pay, claw back, resolve | a transition decided on an older copy of the row | no payment without approval; forward only but for overlaps |
| Disclosure templates (`disclosure-cms`) | status, activity and approval of the templates of a state and category | create, edit, submit, approve, seed | an approval in two statements; tests long before the write | one disclosure in force, reviewed and signed |
| Document vault (`document-vault`, `regulator-response`) | documents, legal holds and their notes, inquiries | upload, hold, release, delete, hold of an inquiry | a deletion tested on an older row; notes merged by read and write | a document on hold is not deleted, the note of a hold not lost |
| ACH controls (`ach-controls`) | authorizations, debits, ledger events | authorize, revoke, record a debit | a debit judged by an authorization read before its revocation; publication after the write | one revocation notice; a debit after it is flagged |
| Offboarding (`offboarding`, `admin.routes`; `kyb-kyc`, `two-factor` as writers) | workflows; personal data of owners and users | initiate, delete, verify an owner, enrol a second factor | rows scrubbed one by one between two marks of the workflow; crashes, repetition, overlap; rows entered meanwhile; a verification that writes an owner long after it read it | a workflow that says its deletion is completed has scrubbed what there was when it began |
| Sessions, circuit breaker, retry, graceful shutdown (`session-management`, `utils`) | in memory | | nothing outside their tests calls them | |
| Two-factor, statements, repayment and hardship, e-signature, complaints, workflow rules, partners, training, voice, scoring and optimisation, credit data, middleware, dashboards, clients, infrastructure | see section 6 and `PROJECT.json` | | single rows with a status, pure arithmetic, adapters or reads | |

Interactions: the submission gates read the rows of the compliance services;
the pipeline writes the ledger through the event bus; a recovery writes the
application's status directly; the SMS dispatcher and the provider's client both
read the consent vault, and the STOP webhook writes it. No component shares
memory with another; they meet in the database. A review, a round, an invoice, a
commission, a template, a document, an authorization and an offboarding do not meet at
all once they exist: no handler reads one of them to decide about another (a commission copies an
amount of its invoice when it is created, an offboarding adds an invoice row, an
inquiry holds documents; each is an action of the module it changes).

The hazards of this code, with the line where each bites and the properties that
cover it, are in `PROJECT.json`; one that no property covers has a note saying why.

## 2. Modules

```
ComplianceRecords            what the gates read; every writer of it
  ApplicationPipeline        rows, requests in flight, ledger   --implements-->  ApplicationLifecycle
    SubmissionWindow         + history: gates that held since a request began
    MCApplicationPipeline, MCSubmissionWindow                   (instances for TLC)
    ApplicationPipelineProofs                                   (invariants, refinement)
      SubmissionWindowProofs                                    (gates, KYB before KYC)
SmsOutreach                  consent (channel sms), DNC list, one dispatch, STOP webhook
  SmsConsentHistory          + history: STOPs handled before, consent seen since
    MCSmsConsentHistory                                         (instance for TLC)
    SmsConsentProofs                                            (invariants)
TenantAdmission              row, caches, reads in flight, sessions, a clock
WebhookDelivery              subscriptions, deliveries, posts, the retry worker
  Platform                   one of the two per behaviour; runs as it is
    PlatformProofs                                              (invariants, settled deliveries)
DealCommittee                a review and its requests          --implements-->  DealBallot
FundingRounds                a round, its requests, the scan
Invoices                     an invoice, its notes and numbers  --implements-->  InvoiceBook
Commissions                  a commission and its audit trail
DisclosureTemplates          the templates of a category        --implements-->  DisclosureShelf
DocumentVault                a document and an inquiry          --implements-->  DocumentHold
AchControls                  an authorization and its debits    --implements-->  AchMandate
Offboarding                  workflows, rows with personal data
  BackOffice                 one of the eight per behaviour
    MCBackOffice                                                (instance for TLC)
    DealProofs               DealCommittee, FundingRounds       (invariants, refinement)
    BillingProofs            Invoices, Commissions              (invariants, refinement)
    FileProofs               templates, document, authorization, offboarding
                                                                (invariants, refinement)
      BackOfficeProofs       the three together                 (what the run checks)
```

Every `--implements-->` is an `INSTANCE ... WITH` in the detailed module and a
`PROPERTY` of a run. The pipeline implements its lifecycle outright when requests
come one at a time. The five others are checked with requests that overlap, and
implement their abstract specification *except* in the writes of requests that read
before another request wrote: `[][Overlapping \/ Abstract!Next]_vars`. That form
says two things at once. Whatever goes wrong in these handlers is the work of an
overlap, not of a missing guard, a wrong order or a crash; and the exception names
the writes a lock or a condition in the `where` would have to protect. The invoice is
the one that needs a second exception, `RevivingPay`: the pay route asks only whether
the invoice is paid, and so pays a void or a refunded one with no overlap at all
(the run `void_payable`). Which slots
have been overtaken is kept in a history variable (`stale`, `outdated`,
`outpaced`, `outrun`, `overrun`, and `overtaken` of the commissions) that no guard
reads.

**ComplianceRecords.** One variable per thing a gate looks at: `acked`, the
channels with application consent (`appConsent`), the latest suitability and KYB
result, the owners and their KYC status (`"minority"` for an owner the gate does not
read, `isBeneficialOwner` being false). `VerifyKyb`, `RunComplianceCheck` /
`ResolveClearedFindings` and `StartKyc` / `FinishKyc` are split where the code
awaits. The constant `OnFile` names the records an instance starts with, `Ops`
the endpoints it uses; both only select what a business does, never how a handler
behaves. The proofs hold for every choice of them except where stated.

**ApplicationPipeline.** A CardApplication row is spread over functions from
`App`: `status`, `consentAt`, `creator`, `approver`, `submittedAt`, `decidedAt`,
`granted`, `creditUnion`. A request in flight is a record in `req[r]` holding what
it read (`saw`), the gate reads it waits for (`pending`) and the await it resumes
from (`next`). `ReadFor...` is the handler up to its gates, `ReadGate` one
answer of `Promise.all`, `Write...` the update, `AppendRecord` one audit row or
ledger event after it, `Abort` the process dying or the database refusing at any
await. `Permitted` is the CHECK constraint `approved_limit_requires_approval` of
the migrations, which no TypeScript file mentions. Dead fields of a request hold
a fixed value, to keep equal states equal.

**ApplicationLifecycle.** The abstract specification: one application, every
request one step, the table of `VALID_TRANSITIONS`, the direct submission from
draft, the cancellation.

**SubmissionWindow.** With six reads at six moments, "all gates hold when the row
is submitted" is false of the code, and so is "all gates held at one moment". What
remains is that each gate held at some moment since the request began; the
history variable `held` records that.

**SmsOutreach.** `issued` and `active` are the consent records of each business,
`dnc` the do-not-call list, `msg` the place of each dispatch between its awaits,
`row` its SmsMessage row, `out` what the provider really did, `due` the callbacks
it owes, `stop` the handler of each inbound STOP. The provider may accept and fail
to answer, creating a row may fail after the send, callbacks come in any order and
before the row exists, and a process death in the STOP handler leads to a
redelivery while an error is acknowledged and dropped.

**SmsConsentHistory.** Adds, for each message, the STOPs handled before its
dispatch began and whether consent was active at some moment since.

**TenantAdmission.** One tenant. `isActive` is the column, `cache[p]` the entry of
the map in process `p`, `check[r]` an `isTenantActive` call between its miss and its
answer, `changing` the processes that have written the row in `suspend` or
`unsuspend` and not yet dropped their entry, `signedIn` and `challenged` the live
tokens. Times are ages that `Tick` advances up to the TTL: the code compares one
difference with one constant, so an age beyond it makes no difference. `last` and
`current` are history: how long ago the row last held each value, and the instance
that handled the latest change. `ChangeUninvalidated` is every other writer of the
column: PUT of the admin routes (`updateTenant`), PATCH of the platform routes, the
end of an offboarding. None of them drops a cache entry. `CompleteMfaChallenge`
grants tokens without asking about the tenant.

**WebhookDelivery.** `delivery` and `subscription` are the service's maps,
`posting` a post under way (with whether the receiver took it), `due` and
`scanning` the worker's list and scan, `received` history. A post ends accepted,
refused, or refused to us although taken; a record appears with the first answer.
`Restart` empties the maps. Three things about the deployment matter here. Nothing in
the repository starts the worker; started with its defaults it builds a service of
its own whose maps are empty (`webhook-retry.ts:237`), so the model is of a worker
that is handed the service it is meant to serve. `dispatchEvent` has no caller
outside the tests; the routes create, delete, list and test. The delay between
attempts is a due time that comes (`FallDue`), not a number.

**Platform** puts the two together: `inUse` says which one a behaviour exercises.

**DealCommittee.** `review` is the row with its votes, `deskReq[s]` what a vote or
an update has read and will write, `signoffs` the two sign-off columns. `castVote`
and `updateDealReview` are a read and a write each; `recordSignoff` is one
statement. `InitialStatus` is computed from the suitability score and the
compliance risk as `determineRiskTier` does, at its boundary scores. The ledger
events are left out: nothing reads them back. **DealBallot**: a member votes once, the
quorum decides, a closed ballot takes no more votes, only an officer reopens it.

**FundingRounds.** `round` is the row with its alert flags, `scan` the job with the
date it carries and the row it read, `unpublished` the window flagged and not yet
announced, `roundReq` a request between its read and its write. `JobDates` has
every day up to today: a scheduled job carries the date of its template, which is
the day the scheduler was set up. `PutRound` is the two routes that bypass the
service. Nothing in the repository starts the checker either; and the scanner among
the Inngest functions is registered with no server. Round numbers are left out, as
a unique index guards them.

**Invoices.** `invoice`, the total of its credit notes (`refunded`), and the
tenant's `numbers`, each the count of rows plus one behind a prefix (year and tenant
are constant in a behaviour, so the model drops them). What `$transaction` groups
is one step, everything else a step of its own. **InvoiceBook**: pay, unpay, void and
refund as they follow each other one at a time, and only what is owed is paid. That
guard is the one `payInvoice` of `revenue-ops.service` and the comment on the void route
speak of; the pay route does not have it (`BeginPay`).

**Commissions.** `commission`, the audit `trail` and the number of `payments`.
`Allowed` and `Target` are the transitions of `revenue-ops.service` plus the
resolution of a dispute, which decides nothing.

**DisclosureTemplates.** `template` has, per row, status, activity and whether it
carries an approval; `cmsReq` the statement a request is at. An approval retires
the others and activates its own in two statements, an edit of an active template
withdraws and rewrites in two; `AbandonCms` is a crash or a refusal between any two.
**DisclosureShelf**: room is made, then one template comes into force.

**DocumentVault.** `document` is one row with its place (a row may exist before its
bytes), its hold and the note of who placed and lifted it; `inquiry` the regulator
inquiry whose status puts the business's documents on hold in three statements.
**DocumentHold**: a document on hold is kept, and a note outlives a release.

**AchControls.** `auth`, `debit`, `ledger` and `achReq`. Each operation reads, writes
one row and persists an event, in that order, and may stop between any two.
**AchMandate**: revoked once with one notice, and every debit recorded afterwards
is flagged.

**Offboarding.** `workflow` has, per row, status, deletion status and whether it names a
business; `personal` what each owner and user row holds; `offReq` the statement an
initiation or a deletion is at, and for a deletion the rows of its latest list it has
still to scrub. A deletion marks the workflow, lists the owners, scrubs them one by one,
lists the users, scrubs them, and completes the workflow in one write; `AbandonOff` is
the death or refusal between any two of these, after which the deletion may be asked for
again. Two requests write such data without a look at any workflow: `verifyKyc` reads an
owner, screens, and writes `ssn`, `dateOfBirth` and `address` by id
(`BeginVerification`, `WriteVerification`), and a user enrols a second factor
(`BeginEnrolment`). `due` is history: the rows there were when a deletion was first
begun and that none has scrubbed since. No abstract specification: the promise is one
sentence about what happened between two moments.

**BackOffice** puts the eight together: `desk` says which one a behaviour works on.

What is abstracted: amounts, names, texts, scores, dates and clocks (the contact
window is a refusal that may always happen); authentication and roles; reads that
change nothing. The Json metadata of an application is reduced to its approver, the issuer's name to
whether it names a credit union, audit rows and ledger events to the set of their
kinds.

## 3. Runs

| Run | Specification | Instance | Question |
|---|---|---|---|
| `pipeline_concurrent` | `Spec` | 1 application, 2 requests, 2 users, 1 owner; KYB, owners and suitability settled | which facts survive two requests interleaved at every await, with aborts |
| `pipeline_serial` | `Spec` | 1 request at a time, every endpoint but resolve, suitability changing | does the pipeline implement the lifecycle |
| `submission_window` | `WindowSpec` | 1 request at a time, the business vetted from a suitability check only, KYB and KYC run again | was each gate satisfied during the request |
| `sms_consent` | `HistorySpec` | 2 businesses of 2 tenants under 1 number, a second number nobody has, 1 message, 1 STOP, 1 revocation, 2 grants per business, 1 crash | consent, do-not-call, truthful rows, settling |
| `cancelled_terminal` | `Spec` | 1 request at a time | violated: a won recovery revives a cancelled application |
| `decisions_ledgered` | `Spec` | 1 request at a time | violated: a won recovery leaves no ledger record |
| `cancellation_accepted` | `Spec` | 1 request at a time | violated: the database refuses to cancel a card that has a granted limit |
| `stop_honoured` | `HistorySpec` | as `sms_consent` | violated: STOP reaches one tenant of two |
| `platform` | `PlatformSpec` | 2 server processes of which 1 takes requests, 2 reads in flight, 1 user, TTL of 2; 1 event to 2 subscriptions, 3 attempts | which answers admission can give, who is locked out and let in; what a receiver gets and how deliveries end |
| `back_office` | `OfficeSpec` | per record 2 or 3 requests at once, see below | what each record keeps under overlapping requests and crashes, and what only an overlap can break |
| `void_payable` | `InvoiceSpec` | 1 request at a time | violated: a void invoice is paid |
| `alert_fired` | `RoundSpec` | the round of `back_office` | violated: a window marked as alerted that was never announced |

Properties of the passing runs:

* `SubmittedWithPrerequisites`: whatever runs between the gate reads and the
  update, a row that was ever submitted has a signed acknowledgment, a captured
  consent and a maker. It holds because no handler takes any of the three back.
  It does not say the consent is unrevoked: the code does not promise that.
* `FourEyes`: a transition writes back the metadata it read before another
  request changed it; the approver it restores is still not the maker.
* `LedgerSound`: the ledger may fall behind a row (a crash after the commit), but
  never runs ahead of it, and the decline event follows its trigger.
* `FollowsLifecycle`: refinement of `ApplicationLifecycle`, by the identity
  mapping of four variables. It fails with two requests in flight (two writers of
  the status, last one wins) or with a recovery resolved, which is why the run
  and the theorem exclude both; the concurrent run checks what is left then.
* `EveryGateHeldInWindow`, `VerifiedOwnersHadKyb`: see SubmissionWindow.
* `RowsTruthful`: `blocked` means not sent, and `queued`, `sent`, `delivered` mean
  accepted by the provider. `failed` means nothing: the answer may have been lost.
* `StopRevokesWhatItRead`: a finished STOP leaves none of the records it read
  active. A consent granted while it ran survives it; the do-not-call entry
  is what then protects the consumer.
* `NoTextAfterStop`: a dispatch that begins after a STOP was handled does not
  reach that number from that tenant, also when consent was granted again.
* `TextConsented`: each message that went out had consent at some moment since its
  dispatch began.
* `StopSettles`: an arriving STOP is handled or dropped with a logged error, across
  a crash and its redelivery.
* `NoAnswerOlderThanTtl`: an answer a process gives from its cache is one the row would
  have given less than the TTL ago, however slow the read behind the entry was and
  whoever wrote the row. It holds because an entry is dated when the call began, and
  fails if it is dated when the answer came.
* `ServingInstanceCurrent`: the instance that handled the latest suspension or
  reinstatement answers by it at once, unless a read was in flight there when it
  dropped its entry, or a writer that drops none followed. The comment in `tenant-status.service.ts:43` claims it
  without the exception; the exception is real, and is also a hazard in the list.
* `EventuallyLockedOut`: the users of a tenant that stays suspended all end up
  without a session; no cached answer, refresh or pending challenge keeps one alive.
* `EventuallyReinstated`: a tenant that stays in good standing is, from some moment
  on, never refused, although refusals are cached too.
* `DuplicatesBounded`, `SettledIsFinal`, `EveryFailureSettles`: a receiver takes an
  event at most three times, whatever answers are lost; a delivery recorded as
  delivered or dead is never posted again, though the worker's list is old; every
  failed one is in the end delivered or dead, or its subscription is gone, or the
  process forgot it.
* `StatusMatchesVotes`: votes may be lost, but unless an officer ruled, the stored
  status is the outcome of the very votes stored with it.
* `BothSignoffsNoticed`: when counsel and accountant have both signed, one of the two
  responses said so, however close together they came.
* `AlertsAtMostOncePerReset`: no window is announced more often than its flag was
  clear, across scans with old dates, completions, crashes and failed publications.
* `RefundedInFull`: an invoice that stands as refunded has been credited in full.
* `CompletedHasScrubbed`: once a workflow says its deletion, or itself, is completed,
  each owner and user on record when that deletion was first begun has been scrubbed
  since. It holds because a repeated deletion starts over whatever the mark says;
  resuming where the mark stands would break it. It does not say that the rows are still
  empty: a verification or an enrolment may have written them again, begun before the
  scrub or after it, and the model lets both. Nor does a scrub take everything: names and
  `ssnLast4` stay.
* `PaidOnAuthority`: no payment without an approval, no clawback without a payment, no
  paid date erased by an older copy of the row; with `CommissionMovesForward`: the
  steps of a commission are those of the table, paid at most once, each in the trail,
  but for overlaps, which can pay twice.
* `OnlyOverlapsBreakBallot`, `...Shelf`, `...Hold`, `...Mandate`, and
  `OnlyOverlapsAndRevivalsBreakBook`: the refinements of section 2.
* `PlatformTypeOK`, `OfficeTypeOK`: the type invariants of the parts.

**Bounds, and why they suffice.** Applications do not interact (every handler
touches one row, the gates one business), so one application is enough. Two
requests already give every pair of stale read and conflicting write; the
invariants relate one row to one request, and the proofs cover any number. Two
users make a maker and another. In the SMS instance two businesses of two
tenants share one number, the only case in which tenants meet; `MaxGrants = 2`
lets consent be granted again after a revocation and lets a revocation meet two
records; one crash gives every point of redelivery. `MaxGrants` and `MaxCrashes`
are the only counters with a bound in the SMS modules.

In `platform`, of two processes one takes requests and either may handle a
suspension, which gives "this instance" and "elsewhere"; two reads in flight let
one be older than the other; a TTL of two makes an age short of it that is not
zero. Two subscriptions let a scan wait on one delivery while the other changes;
three attempts are the code's.

In `back_office`: three members with a quorum of two,
one less than the members, so that a vote can be under way when another decides; days
in units of fifteen, which makes the windows 4, 2 and 1 and the look-ahead 4, with
two expiry dates so that a round can move between windows; an invoice of two units
which two refunds can fill or overfill; three requests on a commission and on a
document, so that a transition and its successor, or a hold and its release, fit into
one older request; two templates and two debits with two requests each;
one workflow with two requests, an owner and two users, so that one deletion can stop with
a list half scrubbed while another overtakes it, and a verification of the owner span one. The bounds
`LastDay`, `MaxCompletions` (one reset), `MaxRows` and `MaxPayments` cap what would
otherwise grow for ever; they are guards or part of a guard, and the proofs hold for
every value. Three templates, and two workflows with an owner and a user (287,497 states, two
initiations at once among them), were checked once apart from the run and gave nothing
new.

A behaviour of `Platform` or `BackOffice` exercises one part while the others stay
in an initial state. Interleaving parts that share no variable could show nothing
more: each property here speaks of the variables of one part, and holds of a
behaviour of the interleaving exactly if it holds of its projection. The proofs are
of the parts, and `OfficeRunsDesks` and `PlatformRunsServices` carry them over to the
compositions.

TLC stops at a state with no successor unless told otherwise. The SMS runs turn this
off because messages and STOPs of the instance are used once and run out;
`back_office`, `void_payable` and `alert_fired` because the last day passes and the
bounds are reached.

**Symmetry** of users, and of request slots, is used in `pipeline_concurrent`; of
users in `submission_window`; of committee members in `back_office`. None of these
runs checks a liveness property.

**Fairness.** `SmsSpec` and `HistorySpec` assume weak fairness of `HandleStop`
alone: once a webhook is received, the event loop runs its continuations. Nothing
is assumed of people, of the provider, of crashes or of failures. The pipeline has
no liveness property, because nothing in it retries: a request that dies is gone.
The same is true of every record of the back office.

`AdmissionFairness`: the clock advances, a read in flight reaches the database and its
answer comes back (the client has a timeout), and access tokens and challenges expire.
Nothing obliges anyone to sign in, to send a request, to suspend or to reinstate; that a
process drops its entry after writing the row is not assumed either.
`WebhookFairness`: a post is answered or runs into its timeout of ten seconds; a
retry's time comes; and the worker, which is scheduled every minute, keeps taking
lists and going through them. No receiver is assumed ever to accept. A part at
rest satisfies its fairness by doing nothing, because in its initial state none of
these actions can change a variable of it.

## 4. Proofs

`ApplicationPipelineProofs` proves, for every set of applications, request slots,
users, owners, channels and gates allowed by the assumptions, and any number of
requests in flight:

* `TypeCorrect`: `Spec => []TypeOK`;
* `InductiveInvariant`: `Spec => []IInv`;
* `SubmissionPrerequisites`, `MakerIsNeverApprover`, `LedgerNeverAhead`: the three
  invariants of the concurrent run;
* `NothingTakenBack`: `Spec => [][Grows]_vars`.

None of the three invariants is inductive, because a request's write depends on
what it read many steps before. `IInv` adds what must be true of a request in
flight: `SoundSubmission` (a request heading for a submission has a maker who is
not its approver, and for each gate it no longer waits for, the lasting half of
the gate's answer holds), `SoundRecord` (a request about to append a record has
already written the timestamp the record stands for) and `saw` never the maker.
That these survive other requests' steps follows from one lemma, `Grows`:
no step takes back an acknowledgment, a consent timestamp, a maker, a timestamp
or a record. So the proof of a step has two halves: what the step keeps
(`RowsKept`, `RequestsKept`) and what its own request has to show (`NextSound`,
one step per action).

Of the implementation of the lifecycle: `SerialPipelineFollowsLifecycle`, that if any
two request slots are the same slot (`OneAtATime`) and `"resolve"` is not among the
operations, then `Spec => FollowsLifecycle`. The invariant is `FreshRequests`: a
request that is about to write still sees the row it read (its target is a successor
of the present status), which is true because no other request can run in between and
the actions that need no slot do not change the status of an existing row.
`LifecycleKeeps` proves of the lifecycle what it is there for (a consent behind every
submission, terms frozen on it, nothing after a cancellation), and
`SerialCancelledIsTerminal` and `SerialSubmissionStands` follow for the pipeline.

Two theorems hold of every overlap. `GrantedStaysApproved`: a row with a granted limit
stays approved and keeps the limit. It is the general form of what the run
`cancellation_accepted` finds. `DecisionsLedgeredUnlessLost`: with no recovery resolved
and no request dying before its event (`RecordsSurvive`), each decision is on the
ledger once nothing runs; the invariant, `DecisionsAccounted`, says that the event is
there or some request owes it.

`SubmissionWindowProofs` proves both properties of the submission window.
`GatesHeldInWindow` rests on `SubmissionStep`: a slot heading for a submission has
just begun and waits for every gate, stays as it is, or waits for one gate less,
which holds at that moment. So a gate no longer pending is in `held`
(`WindowSound`), in whatever order the reads answer. `OwnersVerifiedAfterKyb` rests
on `KybFirst`: while there is no KYB check, no owner is verified and no `verifyKyc`
is past its test; no service takes the last KYB check away.

`SmsConsentProofs` proves every safety property of the SMS run, for any tenants,
businesses, numbers, messages, STOPs, grants and crashes:

* `SmsTypeCorrect`, `RowsNeverLie`, `StopRevokes`, over `SmsIInv`. Its parts say
  what a place means: `PlacesSound` (a refused or unfinished dispatch has sent
  nothing, an answered one has, a row exists only after the dispatch) and
  `ReadsSound` (consent records are numbered in the order of their grants, so one a
  STOP read earlier is never granted anew).
* `StopSilencesTenant`, `TextsAreConsented`, over `HistoryIInv`, which adds that
  the tenant and number of a handled STOP are on the do-not-call list for good
  (`StopsListed`), that a dispatch which began after one is refused at its list read,
  and that a dispatch past its consent read has seen consent (`HistorySound`).
* `StopHonouredUnlessShared`: if no two tenants have a number in common
  (`NumbersOfOneTenant`), a STOP is honoured by every tenant, because the one its sender
  is matched to is the only one there is to match (`SendersMatched`).

`PlatformProofs` proves the safety properties of admission and of webhooks for any
number of processes, reads, users, events, subscriptions and attempts and any TTL:

* `AnswersAreRecent` over `Dated`: what a call found, and what an entry says, was
  true of the row within the age of the call or entry. `NoAnswerOlderThanTtl` alone
  is not inductive, because it says nothing of the reads in flight that become entries.
* `ServingInstanceIsCurrent` over `Settling`: no process is between its write and its
  invalidation, and a read in flight at the current instance has found the present
  value.
* `ReceiverIsSpared` and `SettledStays` over `Accounted`: every post a receiver took is
  a recorded attempt or the one under way; a record under retry has fewer attempts
  than the limit; and what is on the worker's list or being posted again is under retry.
* `AdmissionTypeCorrect`, `WebhookTypeCorrect`, and of the composition
  `PlatformTypeCorrect`, `PlatformRunsServices` (`PlatformSpec` implies `AdmissionSpec`
  and `WebhookSpec`, fairness included) and `PlatformSafety`.

`DealProofs`, for any members, quorum, slots, windows, days and statuses:
`OneStory` (`StatusMatchesVotes`), `SignoffsNoticed`, `ReviewFollowsBallot` over
`CommitteeInv`, which says that what a slot nobody overtook has read and tested still
holds of the row (`Fresh`); `AlertsBounded` and `AlertsNeverEarly` over `Matched` and
`ScanSound`: the number of alerts of a window, with the one flagged and not yet
published, is bounded by the resets and by whether its flag is set. `AlertsNeverEarly`
is proved and not the subject of a run: an alert may be late, since a job may carry an
old date, but never before its window. `MarkedWindowsFiredUnlessLost`: if no scan dies
between a flag and its event and no publication fails (`AlertsSurvive`), every window
marked has been announced.

`BillingProofs`, for any amount and bounds: `RefundsComplete`, `NumbersFree`
(`CurrentCountIsFree`: the unique index refuses a number only to a request that counted
before another row was written; proved and not the subject of a run) and
`InvoiceFollowsBook` (`OnlyOverlapsAndRevivalsBreakBook`) over `InvoiceInv` (what a request summed is at most what is on
record, and equal to it, with its test still true, if nothing overtook the request;
every number is at most the count of rows); `BookKeepsBalance`, that the abstract book
never credits more than was billed, so only overlaps and payments of what was refunded can; `PaymentsAuthorised` and `CommissionsMoveForward` over
`RowGrounded` (each status has its entry in the trail) and `PaidWas`.

`FileProofs`, for any templates, documents' requests and debits: `TemplatesFollowShelf`
over `InTime` and `Blank` (what a request nobody outpaced has read still holds; a template
that does not exist carries nothing), `DocumentFollowsHold` over `Abreast`,
`AuthorizationFollowsMandate` over `Truthful` (what a request will publish has
happened) and `Onward`; and of the abstract specifications `ShelfKeepsOne` (one
disclosure in force, and signed), `HoldKeeps` and `MandateKeeps`. `CompletedHaveScrubbed`
of the offboarding rests on `OnItsWay`: a row that is still due is on a list of the request
under way, or the statement that lists it is still to come, whatever a verification or an
enrolment writes into it; and on `Begun`: a workflow whose deletion is pending is not
completed, and what is due exists.
Three more need no abstract specification. `LedgerTruthful`: whatever overlaps, the
ledger tells of nothing that did not happen, and a revocation is never undone.
`LedgerCompleteUnlessLost`: if no publication is lost, it tells of everything
(`ToldOrComing`: an event is persisted or some request is about to). `UnreportedForGood`: one
that is lost is never made up for. And `SerialCompletedIsFinal`: offboarding requests one
at a time never take a completed workflow back.

**What the exceptions come to.** Each refinement above allows writes by requests that
another has overtaken. Two families of theorems say what that means.

* `Checked...`: if such a write never happens (`[][~StaleWrite]_vars` and the like, what a
  version column or a condition in the `where` would enforce), the component implements
  its abstract specification without exception and keeps what that promises:
  `CheckedReviewIsBallot`, `CheckedInvoiceIsBook`, `CheckedTemplatesAreShelf`,
  `CheckedDocumentIsHeld`, `CheckedAuthorizationIsMandate`, and for commissions, which have
  no abstract specification, `CheckedCommissionPaidOnce`. The hypothesis excludes no
  behaviour in which requests overlap and only the late ones fail or die. That of the
  invoice has a second part, that nothing void or refunded is paid, and the theorem then
  also gives `VoidIsNotPaid`.
* `Serial...`: if any two request slots of the component are the same slot, the code as
  it stands never makes such a write: `SerialReviewIsBallot`, `SerialInvoiceIsBook`,
  `SerialDocumentIsHeld`, `SerialAuthorizationIsMandate`. That of the invoice keeps the
  hypothesis that nothing void or refunded is paid: it is the one guard missing, and the
  only one. Two have an argument of their own,
  since something runs beside the one request. `SerialTemplatesKeepOne`: templates are
  created all the while, and still one is in force at most, because an approval retires
  the others before it activates its own (`Poised`) and a new one is a draft.
  `SerialNumbersNeverTaken`: an offboarding inserts its final invoice between a count and
  its row, and still no number is taken, because that invoice has a number of its own
  (`CountedAll`).

`RetiredForGood` is the other side of the shelf: without any overlap, a template that was
approved or superseded and is out of force stays so, so the re-approval that an edit asks
for is out of reach.

`BackOfficeProofs` is about the composition that the run `back_office` checks.
`OfficeRunsDesks` proves that `OfficeSpec` implies the specification of each of the eight
components; with it the theorems above give `OfficeTypeCorrect`, `OfficeInvariants` and
`OfficeRefinements`: every property of that run, for all values of the constants.

**What the violated statements need.** Each of the six has a theorem of what is true in
its place. In five it gives a condition under which the statement holds, so every
violation of it, the run's counterexample among them, breaks that condition:

| Violated | holds, for all constants, | by |
|---|---|---|
| `CancelledIsTerminal` | one request at a time, no recovery resolved | `SerialCancelledIsTerminal` |
| `DecisionsLedgered` | no request dies before its event, no recovery resolved | `DecisionsLedgeredUnlessLost` |
| `StopHonouredEverywhere` | no number belongs to clients of two tenants | `StopHonouredUnlessShared` |
| `MarkedWindowsFired` | no alert is lost between flag and event | `MarkedWindowsFiredUnlessLost` |
| `VoidIsNotPaid` | one request at a time, nothing void or refunded paid | `SerialInvoiceIsBook` |
| `CancellationAccepted` | never, of a row with a limit: it stays approved | `GrantedStaysApproved` |

For `VoidIsNotPaid` the condition contains the missing guard itself. What the theorem adds
is that the guard suffices: with it, no refund, reversal or void pays a void invoice
either, unless it was overtaken (`CheckedInvoiceIsBook`).

Assumptions used: of the pipeline `NoUserAssumption`, `IdleAssumption`, `GateAssumption`,
`OnFileAssumption`; of SMS `NumbersAssumption` (who owns which number; the bounds are
naturals); of the rest, that values standing for "nothing" differ from what they are
compared with (`NoEntryAssumption`, `NoneAssumption`, `NoScanAssumption`,
`NoCommissionAssumption`, `NoAchAssumption`, `DebitAssumption`), that inputs are of their kind
(`FrontAssumption`, `ChoiceAssumption`, `RulingAssumption`, `InputAssumption`), that
bounds are numbers (`TtlAssumption`, `AttemptsAssumption`, `AmountAssumption`,
`MaxRowsAssumption`, `PaymentsAssumption`) and that the alert windows are ordered
(`WindowAssumption`). TLC evaluates them in the runs of the instances that extend these
modules.

Only model-checked: `StopSettles`, `EventuallyLockedOut`, `EventuallyReinstated` and
`EveryFailureSettles`, because liveness under fairness is beyond the prover. The six
violated statements are counterexamples, found on the instances above.

## 5. What the violated runs show

1. `cancelled_terminal`: resolving a recovery as won updates the application by id
   alone, so a cancelled card comes back as approved. The comment on
   `VALID_TRANSITIONS` calls `cancelled` terminal.
2. `decisions_ledgered`: the same write publishes no event, while
   `docs/security.md` calls each application decision a ledger record.
3. `cancellation_accepted`: a card approved with a granted limit can never be
   cancelled, because the migration's CHECK constraint refuses the new status and
   the handler does not clear the limit.
4. `stop_honoured`: the STOP webhook matches the sender to the first business of
   any tenant and never uses the number the message was sent to, so another tenant
   keeps texting a consumer who opted out.
5. `void_payable`: the pay route (`billing.routes.ts:611`) refuses an invoice that is
   paid and no other, so a void one becomes paid with nothing beside it, and a refunded
   one likewise. `payInvoice` of the service says of a void invoice that it "is void and
   cannot be paid" (`revenue-ops.service.ts:419`), and the comment on the void route
   (`billing.routes.ts:1147`) counts "payable" among what a void must end.
6. `alert_fired`: `apr-expiry-checker.ts:9` says that the flags make each window
   fire exactly once per round. The flag is stored before the event is published, and
   the error of a failed publication is logged, so at most once is what holds
   (`AlertsAtMostOncePerReset`): a window can stay silent for good.

Met while modelling, with no run of their own:

* The KYB gate refuses only an unresolved check of risk level `critical`
  (`application-gates.ts:322`), so a KYB check that failed (`high`, not resolved) passes
  it, against the comment at line 291 ("no open (unresolved) findings").
* An edit of an approved or superseded template takes the approval away and leaves the
  status (`disclosure-cms.service.ts:504`), and only what is a draft can be submitted
  (`:511` and the route's note that re-approval is required): it can never come
  into force again (`RetiredForGood` proves it). A crash between the two statements of an approval leaves no
  disclosure in force.
* `product-acknowledgment.service.ts:211` says that an acknowledgment can never be
  purged; the PATCH of the legal hold releases it, and the deletion then accepts it.
  A document filed after `activateLegalHold` took its list is not held, and the
  e-signature callback replaces all metadata of a document
  (`docusign.service.ts:385`), the note of its hold included.
* A revocation of an ACH authorization whose event fails to publish is never reported
  again: the second attempt is refused as already revoked (`UnreportedForGood`).
* Three writers of `Tenant.isActive` drop no cached answer (`ChangeUninvalidated`).
  The TTL still bounds what follows, which the run and the proof show; that the
  serving instance is correct at once holds of `suspend` and `unsuspend` only.
* The deletion of a client's offboarding scrubs all owners and users of the tenant,
  not those of the client (`offboarding.service.ts:696`, `910`).
* Two initiations at once each find no active workflow and create one. An initiation
  whose refund is computed slowly sets a workflow that was deleted meanwhile back to
  `in_progress` (`offboarding.service.ts:375`), and the mark of a second deletion sets
  one that a first has completed back likewise (`:689`); a repetition is harmless. A
  process that dies right after the completion leaves no audit row, and the repetition
  that could write it is refused (`:678`).
* `verifyKyc` asks about no offboarding: begun before a deletion scrubs the owner, or
  called after it, it writes `ssn`, `dateOfBirth` and `address` into the row again
  (`kyb-kyc.service.ts:570`), and the workflow goes on saying that the data is deleted. A
  user who was scrubbed may, until the access token expires, begin two-factor enrolment,
  which writes a new secret into the row (`two-factor.service.ts:207`). And what a scrub
  takes is the fields listed in the code: names and `ssnLast4` are kept
  (`offboarding.service.ts:910`).
* A change of plan writes the tenant, supersedes the old plan row and creates the new
  one in three statements; a crash before the last leaves no active plan, and a
  retry does nothing because the tenant already has the plan
  (`multi-tenant.service.ts:345`-`360`). The PATCH of the platform routes changes
  the plan with no plan row at all.

## 6. Not modelled, and what would come next

Candidates, in the order in which they would be worth modelling:

1. The plan rows of a tenant (`multi-tenant.service`: change of plan and feature flags,
   the last item of section 5). Small, and no service but the flags reads them.
2. The versions of workflow rules (`rules-versioning.service`), in memory and on one
   process.
3. The rest of the pipeline's neighbours: the list and detail reads, soft deletes and
   decline letters; the acknowledgment and KYB services beyond what a gate reads.

Left out for good, by reason:

* **Nothing calls it**: circuit breaker, retry and graceful shutdown helpers,
  session-management, debit-monitor, the Inngest functions, `registerDeclineAutoTrigger`,
  soft-delete helpers. They have no environment to be modelled in. Nothing suspends an
  ACH authorization, so that status does not occur.
* **A protocol of one row and one user**: two-factor enrolment and codes,
  registration and logout, complaints, referrals, training, hardship plans. A status
  field that one request at a time moves has the same overlap as the records modelled
  here and no other.
* **No state**: scoring, optimisation, simulation, statement reconciliation and the fee
  arithmetic are functions of real-valued inputs with unit tests; dashboards and
  reports are reads; middleware filters a request.
* **The state is elsewhere**: credit data, e-signature, voice and document analysis
  store what an external service tells them.
* **Clients and data**: the web pages, the mobile app and the seeds. They are the
  larger part of the repository's lines, and keep no state the server relies on.

That last point is why `map` covers a small share (some 3.8%) of the repository's
lines: most of them are pages, seeds, adapters, reads and arithmetic. Of the services
and routes modelled, the map covers the handlers that change state.
