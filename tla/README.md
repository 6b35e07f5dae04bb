# POFT in TLA+

POFT tracks purchase orders (POs), the money that project managers request
against PO lines, the contracts behind those lines and the admins' decisions.
The backend is a NestJS application (`src/backend`) over PostgreSQL (Prisma)
and Redis (BullMQ queues, an authentication cache); the frontend is a React
single-page application (`src/frontend`).

This directory holds TLA+ models of that program, TLC runs on small instances
of them, and TLAPS proofs for instances of every size. All source paths below
are relative to `src/backend/src/` unless they start with `src/`.

1. [Inventory](#1-inventory)
2. [Plan](#2-plan)
3. [Modules and the code they model](#3-modules-and-the-code-they-model)
4. [Assumptions and abstractions](#4-assumptions-and-abstractions)
5. [Runs](#5-runs)
6. [Fairness](#6-fairness)
7. [Proofs](#7-proofs)
8. [Findings](#8-findings)
9. [Not modelled](#9-not-modelled)

## 1. Inventory

| Component | State it keeps | Operations |
| --- | --- | --- |
| Fund requests `fund-requests/` | `fund_request` rows (status, amount, decider); cached totals, balance and contract of `purchase_order_line` | create (manager), approve / reject / set up the contract (admin) |
| Contract amendments `contract-amendments/` | `contract_amendment` rows, the contract and the totals of a line | amend, list |
| Line reconciliation `common/financial/` | none; rewrites the cached totals | reconcile one line in a transaction, reconcile many outside of any |
| PO import worker `purchase-orders/import/po-import.processor.ts` | PO and line rows, `po_import_history.status` | process a job, handle the failed event |
| PO import upload `purchase-orders/import/po-import.service.ts` | history row by file hash, BullMQ job | upload, status, history, flush failed jobs on start |
| Notifications `notifications/` | notification rows (`sentAt`, `readAt`), BullMQ job | notify, process (mail), mark read |
| PO aging `po-analytics/` | `agingFlag`, `lastAgingNotifiedFlag` of a line | evaluate, dashboards with background sync; a daily cron class that no module provides |
| Sessions `auth/` | refresh session per user and device, `tokenVersion`, Redis auth context | login, refresh with rotation and a 30 s grace period, logout, password reset |
| Cleanup `cleanup/` | – | delete expired sessions daily |
| Token refresh in the browser `src/frontend/src/api/auth/axios.ts` | `isRefreshing`, `failedQueue`, access token | single-flight refresh, retry of queued requests |
| Staff accounts `user/`, PO types `purchase-orders/po-type.service.ts` | users, staff profiles, staff-id sequence; PO types | create, deactivate |
| PO workspace `po-workspace/` | `poLineStatus` of a line | say that a line was invoiced or was not, list lines |
| Metadata | – | queries |

How they interact. The browser calls the controllers; a controller runs one
service method, which runs one interactive PostgreSQL transaction and, after
the commit, calls `notify`. `notify` stores a row and adds a job to a queue
whose worker sends mail. An upload stores a history row and adds a job to a
second queue whose worker upserts lines and reconciles their totals. The
ledger columns of `purchase_order_line` are therefore written by four
operations of two services, each in a transaction, and by the import worker
outside of any. Every dashboard request evaluates the aging of the same lines
and notifies about them in the background, while the workspace says which of them
are invoiced; `PoAgingCronService` would do so
daily but is in no module's providers, so it never runs.

What is hard, and what makes each component correct:

* **Fund ledger** (requests, amendments, reconciliation). Interleaved
  transactions of two isolation levels; checks on rows read earlier; a
  compare-and-set on a cached value; row locks. Correct when approved money
  never exceeds the contract, a decision is final, a contract changes only
  with an audit row, the cached totals equal the data, and no two transactions
  wait for each other for ever.
* **Import.** Holds the locks of a whole file; then writes totals computed
  from earlier, unprotected reads; retried three times from the start; a
  FAILED history row although a retry is pending; two uploads of one file.
  Correct when it disturbs none of the ledger's rules, every job ends, the
  totals of a touched line are those of the data, and the history row tells
  the outcome of the last attempt.
* **Notifications.** The row is stored before the job, whose addition may
  fail unseen; mail is sent before `sentAt` is stored. Correct when every
  stored notification is mailed at most once per attempt that did not die
  between the two writes and, if the queue accepted it, eventually.
* **Aging.** The evaluator is a pure function with thresholds at 70 % and
  100 % that stops at `INVOICED`, which the workspace may store at any time; the flag of a line is read, then notified about, then written, by every
  dashboard request on its own. Its alerts go through a queue client that
  `PoAgingDaysModule` registers without job options, so they get a single
  attempt. Correct when a line that is red is announced, no more often than the
  dashboards in progress and the failures account for, and never again once it
  is marked; when the stored flags of lines that people look at come to follow the dates
  and the status; and when the cards
  agree with the lines they are folded from.
* **Sessions.** Rotation, the grace period, logout and reset interleave over
  one row, and a refresh is four statements in no transaction. (The Redis auth
  context is written and never read.) Correct when a client that follows the
  protocol is never logged out by its own refreshes, a revoked session is never
  revived, and an access token that is accepted belongs to a session.
* **Browser refresh.** Single flight per tab, but a cookie shared by tabs;
  every queued request must be answered.
* **Staff accounts, PO types.** A lookup before an insert with a unique index
  behind it.

`PROJECT.json` lists the hazards at their lines.

## 2. Plan

The ledger carries the money and is the core: it is modelled, checked and
proved first. In order:

| Module | What | State |
| --- | --- | --- |
| `PoLedger` | committed rows, arithmetic and rules of the ledger | done |
| `FundApproval` | abstract specification: each operation is atomic | done |
| `FundLedger` | the services, statement by statement; refines `FundApproval` with one admin | done |
| `FundLedgerImport` | `FundLedger` composed with the import worker | done |
| `SumLemmas`, `FundLedgerProofs`, `ApprovalProofs`, `FundLedgerImportProofs` | proofs | done |
| `NotificationDelivery` | row, queue, worker and mail; lost job, stalled job, crash between mail and `sentAt` | done |
| `NotificationDeliveryProofs` | its safety properties | done |
| `PoImport` | upload, queue with its attempts, failed event, history status, two uploads of one file | done |
| `PoImportProofs` | its safety properties | done |
| `SessionLifecycle` | abstract specification of sessions: each operation is atomic | done |
| `AuthSession` | login, refresh, grace period, logout, recovery, cleanup over the sessions of a user | done |
| `BrowserSession` | `AuthSession` composed with the single-flight client of one and of two tabs; refines `SessionLifecycle` | done |
| `SessionProofs` | type invariant, the refinement, and a browser with one tab in step with its session | done |
| `PoDashboard` | the evaluator and the fold of the dashboard, against a reference | done |
| `PoAging` | dashboards in progress, notifications and stored flags; extends `PoDashboard` | done |
| `PoAgingProofs` | its safety properties, and those of the dashboard's answers | done |
| order and line upsert of `createFundRequest` in `FundLedger` | manual requests under `TEMP-PO` | open |

What composes what: `FundLedgerImport` extends `FundLedger`, which with
`FundApproval` extends `PoLedger`; `BrowserSession` extends `AuthSession`, which
instantiates `SessionLifecycle`; `PoAging` extends `PoDashboard`. `PoImport` and
`FundLedgerImport` are two views of the import worker: the first follows the
job, its attempts and the history row and takes "the lines are reconciled" for
one fact, the second follows what the worker does to the ledger's columns and
takes a job that fails for one that starts again. A call of `notify` in
`PoAging` is an `Announce`; what becomes of it is `NotificationDelivery`.

Still wanted: the upsert above.

## 3. Modules and the code they model

**`PoLedger`** (no actions) has the committed tables as variables:

| Variable | Code |
| --- | --- |
| `fundRequest[r]` | `fund_request`: `status`, `requestedAmount`, `purchaseOrderLineId`, the approver or rejecter; `"NONE"` before the insert |
| `contractAmount[l]` | `purchase_order_line.contractAmount`, 0 for NULL |
| `totals[l]` | `totalApprovedAmount`, `totalRequestedAmount`, `totalRejectedAmount`, `remainingBalance` |
| `amendments[l]` | `contract_amendment` rows of the line; their number is the version |

`computeFinancials` is the formula both reconciliations share. The properties
of the ledger are stated here, because the abstract and the detailed
specification and the composition with the import are all held to them.

**`FundApproval`** is the promise: `CreateRequest`, `ApproveRequest`,
`RejectRequest`, `SetUpContract` and `AmendContract` each check and act on one
state and end with a reconciled line.

**`FundLedger`** adds one open transaction per session (`tx`) and the row locks
(`requestLock`, `lineLock`). Only `Commit` changes the ledger. One action per
statement:

| Actions in order | Operation |
| --- | --- |
| `ReadRequest` `ReadLine` `CheckApproval` `WriteRequest` `WriteLineApproved` `ReadContract` `ReadSums` `Commit` | approve (`fund-requests.service.ts` `handleApproval`) |
| `ReadRequest` `ReadLine` `WriteRequest` `WriteLineRejected` `ReadContract` `ReadSums` `Commit` | reject (`handleRejection`) |
| `ReadRequest` `ReadLine` `WriteLineContract` `ReadContract` `ReadSums` `Commit` | set up the contract (`handleContractSetup`) |
| `BeginCreate` `WriteLineCreated` `Commit` | `createFundRequest`, Serializable |
| `BeginAmend` `WriteLineAmended` `Commit` | `createAmendment`, Serializable |
| `Throw` | a check fails, the compare-and-set matches no row, or PostgreSQL reports a serialization failure |
| `Abort` | timeout, lost connection, restart of the process |

A Serializable transaction reads one snapshot, so all its reads and the
reconciliation computed from them belong to `Begin...`; what remains is the
update of the line row, which waits for the lock and fails when the row has a
newer version (`stale`, set by `Outdate`). A Read Committed transaction reads
anew in every statement, so its reads are actions of their own.

**`FundLedgerImport`** adds `job`, the BullMQ job of the worker: `UpsertLine`
and `CommitStructure` are the structural transaction (it changes no ledger
column but holds the locks and makes new row versions), `ReadContracts`,
`GroupSums` and `WriteTotals` are `reconcileManyPoLines`, `FailJob` is a failed
statement or a dead worker. The updates of all lines are sent at once (`Promise.all`): when
one of them fails (`FailTotals`) the others are carried out nevertheless, perhaps
beside the retry, which is another job of `Importers`.

**`NotificationDelivery`** has the three systems a notification passes through
and the processes between them:

| Variable | Code |
| --- | --- |
| `row[n]` | the `notification` row: none, stored, or stored with `sentAt` |
| `adding[n]` | the process whose un-awaited `queue.add` has not been answered |
| `job[n]` | the BullMQ job: its state, the worker that holds its lock, its failed attempts, its stalls |
| `worker[i]` | where `process` of one backend process is, and on which notification |
| `mails[n]` | how many mails the recipient has been sent |

| Actions | Code |
| --- | --- |
| `Notify` `AddJob` `AddFails` | `notify` in `notifications.service.ts` and its `.catch` |
| `Take` `Fetch` `SendMail` `StoreSent` `Complete` | `process` in `notifications.processor.ts`, one action per answer it waits for |
| `FetchError` `MailError` `StoreError` | the same answers going wrong; a mail may have gone out although its answer is an error |
| `Retry` `Stall` | BullMQ: the backoff is over; a lock was not renewed (external) |
| `Crash` | a process dies: its run and its unanswered `queue.add` are gone |

The three systems fail one at a time, which is where the hazards are: a row whose
job was never added, a mail whose `sentAt` was never stored, a slow worker
that sends after its job was given to another.

**`PoImport`** follows a spreadsheet from the upload to the status that the page
polls:

| Variable | Code |
| --- | --- |
| `history[f]` | `po_import_history.status`, one row per hash of a file's content |
| `lines[f]` | whether the lines of the file are untouched, written (and perhaps some of them reconciled), or all reconciled |
| `upload[u]` | where `importFromExcel` of one request is, and in which process |
| `job[u]` | the BullMQ job: state, lock, failed attempts, stalls |
| `worker[i]` | where `process` of one backend process is |
| `event` | "failed" events whose handlers have not written yet; and, as `<<None, u>>`, that such an event was lost which was to end the PENDING of a job that is not run again |
| `faults` | how many calls have failed or processes died (a bound) |

| Actions | Code |
| --- | --- |
| `Check` `Store` `Enqueue` `Refuse` | `importFromExcel` in `po-import.service.ts`: duplicate check, upsert by hash, `queue.add`, and its `catch` |
| `StoreError` `EnqueueError` `RefuseError` | the same calls failing, or applied with the answer lost |
| `Take` `Refute` `Commit` `Reconcile` `StoreSuccess` `Complete` | `process` in `po-import.processor.ts` |
| `CommitError` `ReconcileError` `StoreSuccessError` | a call of it fails or its answer is lost |
| `StoreFailed` `StoreFailedError` `FailRun` | its `catch` (line 190) and the end of a failed attempt |
| `MarkFailed` `MarkError` | `handleJobFailure`, the handler of the failed event that nobody waits for |
| `Retry` `Stall` | BullMQ: the backoff is over; a lock was not renewed (external) |
| `Crash` | a process dies; on start `onModuleInit` clears the failed jobs |

**`AuthSession`** has the sessions of one user on the server:

| Variable | Code |
| --- | --- |
| `version` | `user.tokenVersion`, which every access token is compared with |
| `link` | an unexpired `password_reset_token` |
| `session[d]` | the `refresh_session` row of a device: hash of the current and of the previous refresh token |
| `call[c]` | the statement each request's handler has come to, with what it has read |

| Actions in order | Operation (`auth.service.ts`) |
| --- | --- |
| `BeginRefresh` `FindSession` `ReadVersion`, then `RepeatRefresh`, or `AcceptRefresh` `Rotate`, or `RefuseRefresh` `EndSession` | `refresh`: "CASE 1" (previous token within 30 s), "CASE 3" (current token, rotation), "CASE 2" or a changed version |
| `BeginLogin` `Login` | `login` |
| `BeginLogout` `Logout`, `LogoutElsewhere` | `logout` of this device; `LogoutElsewhere(FALSE)` is another device's `logout`, `LogoutElsewhere(TRUE)` a `logoutAllDevices` |
| `ForgotPassword` `LinkExpires` `BeginReset` `Reset` | `forgotPassword`, `resetForgottenPassword` (the forced `resetPassword` ends in the same transaction) |
| `GraceEnds` `Expire` | the 30 s are over; a session has expired (`findValidSession`) or is deleted by `cleanup.service.ts` |

A session row that has expired is found by no query, so it is the same as a
deleted one; a `previous` token whose 30 s are over matches no more, so it is
None from then on. A cookie says whether it carries a token or the hash of
one.

**`BrowserSession`** adds the browsers: `jar` (cookies) and `access` (access token in
`localStorage`) shared by the tabs of a browser, `slot` (requests in progress of each tab with
`_retry` and the `failedQueue`), `lost` (history: an answer was lost to a reload).
`Send`, `Serve`, `Unauthorized`, `Refreshed`, `RefreshFailed`, `LoggedOut` and `LoggedIn` are
the interceptors of `axios.ts` and the calls of `auth.api.ts`; `Serve` decides with
`JwtAuthGuard` and `JwtStrategy` whether a token is accepted. `Reload` and `Unheard` are a
reload while a refresh is under way: the backend finishes, and nobody takes the
cookies. `AccessExpires` and `SessionExpires` are time. **`SessionLifecycle`** is the
promise: `AskForSession`, `OpenSession`, `RenewSession`, `CloseSessions`, `RevokeSessions` on
one state each.

**`PoDashboard`** (no actions) has `Evaluate` (`po-aging-evaluator.service.ts`) and
`Aggregate` (`po-aging-aggregator.ts`): a left fold over the rows in the order of the
database, then a sort by age that leaves ties as they are (`Array.prototype.sort` is stable; it is
written by the rank of each site, since the `SortSeq` of the library leaves open what
becomes of ties). `Agrees` is the reference: what the cards should say of a *set* of
lines.

**`PoAging`** has `today`, the columns of a line that age (`row`: date, allowance,
`poLineStatus`, manager, `agingFlag`, `lastAgingNotifiedFlag`), what each dashboard's background sync is
doing for each line (`sync`), how often each line's manager was told (`announced`) and
for which lines the database has answered a notification with an error (`refused`).

| Actions | Code (`po-analytics.service.ts`) |
| --- | --- |
| `Read` | `getDashboardAnalytics`: the rows of the dashboard's scope are read and the sync started |
| `StartChunk` | `runBackgroundSync` evaluates the next `Limit` lines when the last ones are done |
| `Lookup` `Announce` `AnnounceError` | the manager is looked up and `notify` called, which answers null when it cannot store |
| `Mark` `StoreFlag` `LineError` | `markAgingNotified`, the update of the flag, the `catch` of a line (whose update may have been applied) |
| `SetStatus` | `updatePoLineStatus` of `po-workspace.service.ts`: a line is invoiced, or it is not |
| `NextDay` `Reimport` `Crash` | the clock; the columns an import changes; a process dies with its syncs |

**`MCFundLedger`, `MCFundLedgerImport`, `MCNotificationDelivery`, `MCPoImport`,
`MCBrowserSession`, `MCPoAging`** define which session may perform which
operations, how many attempts a notification has, which upload is of which file,
which tabs and requests there are and which lines a dashboard sees; the
constants are in the `.cfg` files.

An operator that a comment introduces with "Fault:" is a variant of the
definition below it with a plausible bug. It takes no part in any
specification. It documents what a property is sensitive to: with the variant in
place of the original, TLC reports a property violated (`PROJECT.json`,
"mutants").

## 4. Assumptions and abstractions

About PostgreSQL and Prisma:

* Read Committed is the default and no service changes it for
  `approveOrRejectFundRequest`. Each statement sees the latest commit and its
  transaction's own writes; an `UPDATE` waits for the row lock and evaluates
  its `WHERE` on the row as it is then. This is why the compare-and-set of
  `updatePOLineBalances` is one action.
* Serializable is modelled by what both Serializable operations depend on: a
  snapshot, and failure when updating a row changed since. Their read-write
  conflicts are always on the line they both update. PostgreSQL may cancel more
  transactions than that; `Abort` covers it, at every step.
* Prisma loads an `include` with a second query, hence `ReadLine` apart from
  `ReadRequest`.
* `requestedAmount` of a new row is visible to its own transaction only
  (`RowsSeenBy`); `BeginCreate` takes the lock that a concurrent user of the same
  new identity would need.

About the code:

* Contract 0 is NULL: set-up and amendment both refuse amounts that are not
  positive.
* A line exists from the start, with no contract and no requests. The upserts of
  the order and line in `createFundRequest` have empty or descriptive updates.
* Totals written by `approve`, `reject`, `set up`, `create` and `amend` before
  the final reconciliation of the same transaction are overwritten by it and are
  visible to nobody, so only the lock they take is modelled. For the same reason
  the first write of `createAmendment` and its safety check are one action.
* Other writers of a line's descriptive columns (its status, the aging columns)
  change no column of the model. They can make a Serializable update fail,
  which `Abort` includes.
* An approver may pass another amount (`Overrides`), 0 included, as the code
  accepts it.
* Roles and ownership checks that read data no transaction changes
  concurrently select the operations a session has (`Operations`).
* Money is a natural number: sums of `Decimal(15,2)` are exact.

About notifications:

* BullMQ gives a job to one worker at a time under a lock that the worker
  renews. A job whose lock lapsed is given out again, `MaxStalled` times (once
  by default), then it fails. A worker that lost its lock goes on with its
  run but can neither complete nor fail the job.
* Redis and PostgreSQL keep what they have acknowledged.
* Each process runs one job at a time, the default concurrency.
* The mail service is the configured one (the production branch of
  `email.service.ts`); every type has a template and every user an address, so
  a run ends in a mail or an error.
* `Attempts` is a number per notification, since `NotificationsModule` asks for
  several and `PoAgingDaysModule` for none, which is one.
* `readAt` plays no part in delivery and is left out.
* A notification of the model is one call of `notify`. That two calls may be
  made for one event is a matter of their callers.

About imports:

* Whether the rows of a file are acceptable is open in every attempt
  (`Refute` or `Commit`): the worker reads the types of orders and the staff anew
  each time.
* Every call to PostgreSQL or Redis may fail, or be applied and have its
  answer lost. Each such failure, each death of a process and each lock lost by
  a worker that is alive is a fault; `MaxFaults` bounds their number.
* Reconciling a file is one step, because the history is about whether *all* its
  lines are reconciled; a death or an error before that leaves `"written"`, with any
  number of totals stored. What the single updates do to the ledger is
  `FundLedgerImport`'s.
* A file stands for its hash: equal contents have one history row.

About sessions:

* One user. Sessions of different users share no row.
* A login that reaches `login()` had the right password. No page sends a device
  id, so each login is a new device; a device of the model may be used again
  when nothing mentions it any more, which bounds the sessions that exist at a time
  (`Devices`) and not the logins. The same holds for `Tokens`, values of `randomBytes`.
* `MaxVersion` bounds logouts and recoveries; a reload while refreshing happens once
  for each login.
* An access token outlives every request, and a session all access tokens
  issued with it (15 minutes against 8 hours): tokens expire between requests.
* `mustChangePassword`, roles and `isActive` (never set false) change none of it.

About aging:

* The lines a dashboard sees are fixed (`Scope`); filters of the query choose
  among them. Amounts on the cards are folded like the number of lines.
* A line of an import is not invoiced; `SetStatus` may change that at any moment, also
  between the read and the steps of a sync, which goes on with what it has read.
* A dashboard's lines are read at one moment. The key figures beside the cards
  (`totalPOLines`, `invoicedPOs`, `notInvoicedPOs`, the rate) come from queries of their own in
  `getDashboardAnalytics`, in no transaction with that read, and are left out.
* The flag that a page filters by is the stored one; a sync stores flags only of the
  lines its page has read. What follows is stated for dashboards that show the line.
* `Reimport` may give a line a manager's number that is nobody's, because the
  validator looks it up without blanks and the row keeps them.
* `today` runs from `FirstDay` to `MaxDay`; a line is not issued in the future.

Bounds. `MaxAmendments` (amendments per line) bounds the only sequence of the
ledger. Requests, sessions, lines and amounts are finite sets in TLC; in the
proofs only `Requests` is assumed finite, because a sum ranges over it, and
amounts are natural numbers (`LedgerAssumption`). `MaxFaults`, `MaxVersion`,
`MaxDay` and `MaxEdits` bound what the environment does; `Attempts` and
`MaxStalled` are limits of the code and of BullMQ. The proofs hold for every
value of all of them.

## 5. Runs

In the ledger's runs sessions are `pm` (creates), `admin` and `other`.
`CHECK_DEADLOCK FALSE` everywhere but in `aging`: when every request is decided
and every amendment made, every notification delivered, every file imported or
every bound of the sessions used up, nothing is left to do. A dashboard can
always be opened again, so `aging` checks for deadlock.

| Run | Instance | Question and answer |
| --- | --- | --- |
| `one_admin` | 2 lines, 2 requests, amounts 1–2, overrides 0 and 2, contracts 1 and 3, 2 amendments; 420 055 states | With one admin session beside a manager, do the interleaved statements implement the atomic operations? Yes: `ImplementsFundApproval`, `ApprovedWithinContract`, `DecisionsFinal`, `ContractAudited`. |
| `two_admins` | 1 line, 2 requests, two admins with every operation and two managers, 1 amendment; 881 556 states | What holds whatever two admins do at once? `TypeOK`, `TotalsAgree`, `CreateWithinContract`, `AmendmentCoversApproved`. |
| `two_approvers` | 1 line, 3 requests, amounts 1–2, a contract of 2, two admins approving; 57 641 states, `FairSpec` | Does the compare-and-set stop two approvals that fit alone but not together, if nobody amends or takes an approval back? Yes (`ApprovedWithinContract`); and no transaction waits for ever (`EveryTransactionEnds`). |
| `import` | 1 line, 2 requests, manager and one admin without rejections, one job; 51 652 states, `FairImportSpec` | Does an import that fails and restarts at any point break a rule? No: `ApprovedWithinContract`, `CreateWithinContract`, `OperationsReconcile`, `ImportTypeOK`; and both sides finish: `EveryImportEnds`, `EveryTransactionEnds`. |
| `delivery` | 2 notifications, one with 2 attempts and one with 1; 2 processes; 1 stall; 46 326 states, `FairSpec` | What does a recipient get when processes, Redis, PostgreSQL and the mail service fail at any point? No row claims a mail that was not sent (`SentWasMailed`), no job is done without `sentAt` (`CompletedWasSent`), every further mail is owed to a failure or a stall and their number is bounded (`DuplicatesAreRetries`), none follows once `sentAt` is stored and no run is about to send (`SentIsFinal`), and every queued job ends (`EveryJobEnds`). |
| `uploads` | 1 file uploaded twice, 2 processes, 2 attempts, 1 stall, 2 faults; 885 019 states, `FairSpec` | Does the history row tell the truth whatever fails? It says SUCCESS only of reconciled lines (`SuccessWasReconciled`), it says SUCCESS when all uploads ended well and nobody's worker was taken for dead (`CompletedMeansSuccess`), what is imported with nothing left to write stays imported (`ImportedIsFinal`), and a job ends with a row that is not PENDING, unless an upload of the file was cut short or the job's last event was lost (`EveryJobSettles`). |
| `sessions` | 1 tab with 2 requests at a time, 2 devices, 6 tokens, 1 logout or recovery, reloads; 288 590 states, `FairSpec` | Do statements that interleave keep the sessions of `SessionLifecycle` (`ImplementsLifecycle`)? Yes. A tab that has had all its answers holds the current token of its session (`SoleTabInSync`), a token that is accepted has a session (`AcceptedHasSession`), and no request waits for ever for a refresh (`EveryRequestEnds`). |
| `aging` | 2 lines (allowance 4 days and none), 2 dashboards of one and of both lines, chunks of one line, days 3 to 5, 1 import or status change, 1 fault; 307 892 states, `FairSpec` | What do managers and dashboards see when several syncs, days, imports and failures interleave? `MarkedWasTold`, `ToldOncePerDashboard`, `MarkedIsFinal`; the stored flag of a line that is looked at comes to follow its dates and status (`FlagsFollow`), such a line is marked when it is red (`RedIsMarked`), and the cards agree with the lines (`AnswersAgree`), whichever sites and orders they belong to. |
| `double_approval` | 1 request, two approvers | `DecisionsFinal` is violated (finding 1). |
| `amend_while_approving` | 1 request, an approver and an amender | `ApprovedWithinContract` is violated (finding 2). |
| `import_stale_totals` | 1 request, one admin, one job | `TotalsSynced` is violated (finding 3). |
| `two_tabs` | 1 browser with 2 tabs, one request each, no logout elsewhere | `CookieInSync` is violated (finding 4). |

Why the bounds are enough to be interesting. Two requests on one line are what
an aggregate check needs to go wrong (each fits, both do not). A cached total
needs a third to be brought back to a value it had, which is what a
compare-and-set may miss; `two_approvers` has three. Two contract amounts, one below and one above a pair of
requests, exercise both answers of each check. Two lines (`one_admin`) show that
an operation on one leaves the other alone; elsewhere one line suffices, since
an operation locks at most one line and the worker treats each line
independently. Two admins are what every interleaving found here needs. One
amendment gives an amendment racing with an approval; two give an amendment
over an amendment. The proofs remove the bounds for what they cover.

For `delivery`, two processes are what a stalled job and its slow former owner
need; two attempts and one stall give each kind of repetition once and their
combination. Two notifications compete for the workers, so that liveness is not
that of a single job. The runs are allowed to stop because nobody has to notify.
That every *row* leads to a mail is not claimed: `AddFails` and `Crash` lose
the job, and nothing in the code looks for rows without one.

For `uploads`, two uploads of one file are what the shared history row needs to
go wrong, two workers are a stalled job and its former owner, two attempts are a
failed one and its retry with the event of the first still on its way, and two
faults allow one failure while another is being dealt with. Some promises one
might expect do not hold and are not stated: a worker that is slow and not dead
may store FAILED over the SUCCESS of the worker that took its job; an upload
that was checked before the first one succeeded resets SUCCESS to PENDING and
imports again; a process that dies between the upsert and `queue.add` leaves
PENDING for ever; the page stops polling at FAILED although a retry may
succeed. `CompletedMeansSuccess` and `EveryJobSettles` say where they stop: the first
excepts stalled jobs, the second is about jobs that are in the queue.
`EveryJobSettles` has two more exceptions. An upload of the same file may reset the row
and be cut short. And a job may use up its stalls (two crashes, say, of which `onModuleInit`
clears the remains) or its attempts without any run being able to store FAILED, and then its last
"failed" event is lost as well, by a crash or because `handleJobFailure` cannot
write. With one stall and two attempts that takes three faults, so in this run the
second exception does not occur and the property holds without it. `event`
remembers such a loss, so that the exception is this one and not any fault; with one
upload and three faults, or with two uploads, two faults and `MaxStalled = 0`, it does occur, and TLC
finds the property satisfied there too.

For `sessions`, two requests of one tab are a refresh with a request that waits
for it, or with a logout that ends it; six tokens are two devices with
a current and a previous one and the values on their way; a single revocation
before, during or after the statements of a refresh is what its reads can be
torn by. With a lost answer or a second tab, a logout of all devices between
the two reads of a refresh lets "CASE 1" sign an access token for a session that
is gone, which is why `AcceptedHasSession` is about `SoleTab`. A logout on
another device between the two reads of the version ends this device's session
as well; the refusal is safe and the user logs in again.

For `aging`, days 3 to 5 of an allowance of 4 take a line issued on day 0 from
`WARNING` to `RED` (day 4), and one issued on day 1 as well (day 5); an import may turn it back
or remove its manager, and a status change may do so by invoicing it, before, between
and after the reads; two dashboards that share a line read it before
either has marked it. `AnswersAgree` is asked in every state without a sync, for every
assignment of the lines to two sites and two orders and every order of the rows.

`EveryTransactionEnds` is about deadlock between row locks: an approval locks
its request and then its line, the others a line, the worker all lines of its
file. `Abort` is never assumed to happen, so progress does not rest on a
timeout.

Which properties the model cannot satisfy by its shape: `TotalsAgree` needs
every writer to hold the line's lock from before its sums are read until the
commit, and needs the snapshot operations to fail on newer rows;
`CreateWithinContract` and `AmendmentCoversApproved` compare a check made at
`Begin...` with the state at `Commit`, with arbitrary commits of others in
between; the refinement needs, for every commit, the abstract guard in the state
of the commit.

## 6. Fairness

`Fairness` (and `ImportFairness`) assumes, per session or job:

* weak fairness of reads, commits and throws: a continuation in the Node
  event loop whose statement can be answered is run;
* strong fairness of the steps that take a row lock: PostgreSQL queues the
  waiters of a row, so a lock that is freed again and again is granted. Weak
  fairness would not do, since another transaction may hold the lock at every
  moment the waiter could be served.

`NotificationDelivery` assumes weak fairness of each run (`Run`: its next call is
answered in one way or another), of `Retry` and of `Stall` for a job that its
owner no longer works on (BullMQ's periodic check), and strong fairness of
taking a job: the queue is served in order, so a waiting job is taken although
each worker may be busy again and again. None of `Notify`, `AddJob` and `Crash` is
fair; attempts and stalls are bounded by the code, so crashes cannot go on for
ever with one job.

`PoImport` assumes weak fairness of `Work`: what the processes and BullMQ do of
themselves (answers, ends of delays, the stalled check for orphaned jobs,
workers taking jobs) does not stop while there is any. Uploads, attempts,
stalls and faults are finitely many, so this is fairness towards each part.
Nobody has to upload (`Check`), no process has to die (`Crash`) and no live worker
has to lose its lock.

`BrowserSession` assumes weak fairness, per request, of `Work(s) \/ React(s)`: the
handler's next statement is answered and the browser reacts to the answer. No
user action, no reload and no passing of time is fair.

`PoAging` assumes weak fairness, per dashboard, of the steps of a sync that has
started, and none of `Read`: nothing in the code makes anybody open a dashboard, and
the daily cron, which would need no user, is in no module's providers. `FlagsFollow` and
`RedIsMarked` have that as their premise: they are about lines that some dashboard
shows which is opened again and again (`KeepsBeingOpened`), and promise nothing of
others. Days, edits and faults are not fair and are bounded; the two
properties are about what follows when they have come to an end, or the line changes.

No fairness is assumed of beginning an operation, of `Abort` or of `FailJob`: nobody
has to ask for anything and nothing has to fail.

## 7. Proofs

All theorems hold for every value of the constants that satisfies the named
assumptions of the module they are about (`LedgerAssumption`,
`OperationsAssumption` and `ImportersAssumption`; `DeliveryAssumption`; `ImportAssumption`;
`SessionAssumption` and `BrowserAssumption`; `DashboardAssumption`,
`AgingAssumption` and `NothingAssumption`). TLC evaluates these on every run.

| Theorem | Says |
| --- | --- |
| `TypeCorrect` | `Spec => []TypeOK`; no cached total is negative |
| `TotalsAlwaysAgree` | `Spec => []TotalsAgree`, whatever any number of admins do |
| `CreatesFitContract` | `Spec => CreateWithinContract` |
| `AmendmentsCoverApproved` | `Spec => AmendmentCoversApproved` |
| `SoleAdminWithinContract`, `SoleAdminDecisionsFinal`, `SoleAdminContractAudited` | the three rules of the ledger that two admins can break, when at most one session has admin operations (`SoleAdmin`) |
| `SoleAdminImplements` | under `SoleAdmin` every behaviour of `FundLedger` implements `FundApproval` |
| `ApproversWithinContract` | `Spec => []ApprovedWithinContract` for any number of sessions that approve, if nobody amends or rejects, amounts are the requested ones (`NothingTakenBack`) and one session gives the contracts (`FirstContractsOnly`) |
| `StandingApprovalsWithinContract`, `FinalDecisionsWithinContract` | under `FirstContractsOnly`, with any operations: a behaviour of `Spec` in which no approval is taken back or changed (`ApprovalsStand`), or decisions are final (`DecisionsFinal`), satisfies `[]ApprovedWithinContract`. An approval beyond a contract that nobody amends is thus always a consequence of finding 1 |
| `ImportTypeCorrect`, `ImportsLeaveReconciling`, `ImportsLeaveCreates`, `ImportsLeaveAmendments` | `FundLedgerImport`, any number of jobs beside any number of sessions: its type invariant, `OperationsReconcile`, `CreateWithinContract` and `AmendmentCoversApproved` |
| `SoleAdminWithinContractBesideImports`, `SoleAdminDecisionsFinalBesideImports`, `SoleAdminContractAuditedBesideImports` | under `SoleAdmin` the three rules hold of `ImportSpec` as well |
| `DeliveryTypeCorrect`, `SentIsMailed`, `CompletedIsSent` | type invariant, `SentWasMailed` and `CompletedWasSent` |
| `OnlyRetriesRepeat` | `Spec => []DuplicatesAreRetries`, for any number of processes, attempts and stalls |
| `SentStaysFinal` | `Spec => SentIsFinal` |
| `UploadTypeCorrect`, `SuccessReconciled`, `CompletedSucceeds`, `ImportedStays` | type invariant and safety properties of `PoImport`, for any number of uploads, files, workers, attempts, stalls and faults |
| `SessionTypeCorrect`, `SessionsImplement` | type invariant of `BrowserSession`, and every behaviour of it implements `SessionLifecycle`, for any number of browsers, tabs, requests and devices |
| `SoleTabsInSync`, `AcceptedHaveSessions` | `Spec => []SoleTabInSync` and `Spec => []AcceptedHasSession`: for every browser with one tab, however many other browsers with however many tabs the user has |
| `AnswersAlwaysAgree` | `Spec => []AnswersAgree`: for any lines on any sites and orders, returned by the database in any order, the fold, the sort and the selection of the most critical sites give what the dates and the status of the lines say |
| `AgingTypeCorrect`, `ToldBounded`, `MarkedWasToldAlways`, `MarkedStaysFinal` | type invariant and safety properties of `PoAging`, for any lines, dashboards, days, imports, status changes and faults. `MarkedWasTold` excuses a mark only by a notification of the same line that the database refused |

The argument.

* **Sums.** `SumFunction` is a fold, and induction over it is out of reach of
  the provers, since the library's induction theorems take an operator as a
  parameter. `SumLemmas` proves the three facts the ledger's proofs need of it
  (naturals sum to a natural, zeros to 0, and a change of one summand changes the sum by as much) by a minimal counterexample instead: over the
  subsets on which a fact fails, one of least cardinality is taken, and removing
  one element contradicts it.
* **`FundLedgerProofs`.** `TotalsAgree` is not inductive: it says nothing about
  a transaction half-way. The invariant adds `Shape` (which session holds which
  lock at which step, and that a transaction works on the line of its request)
  and `Consistent` (a result that is about to be committed is the one
  `computeFinancials` gives for the committed rows with the transaction's own
  change). `Consistent` is kept because the session holds the lock of the line,
  so no other commit changes that line's requests or contract; a
  snapshot is covered by it unless it is marked stale, and then it can no longer
  write. `Consistent` does not mention the cached totals: a commit writes them from
  the rows it commits (`CommitReconcilesLine`), so that `TotalsAgree` is preserved
  beside it (`CommitAgrees`), and nothing else relies on it. `Shape` leaves
  open who locks a line that no session has locked.
* **`ApprovalProofs`.** With one admin session the row an admin has read cannot
  be decided by another, and the contract it has read cannot be replaced.
  `AdminKnows` states this of each step: the request is still pending, the
  contract is the one seen, and after the check the approval fits. `Sole`
  adds it to `Shape` and `Consistent`.
  For the refinement: only `Commit` changes the ledger. `Serial` adds
  that the inputs of a transaction are among those the abstract `Next`
  offers; one lemma per kind of operation shows that its commit is the abstract
  operation, and every other step is a stutter.
  With several approvers none of this is true of what an approver has read: requests
  are approved between its check and its write. `ApproverKnows` says what is: since the
  read the line's approved total has not fallen, and *if it is still the one
  read*, nothing but approvals for 0 has happened and the check holds. The
  compare-and-set asks exactly that, because the cached total is the
  approved one (`TotalsAgree`); after it the line is locked. `StandingTotals` is
  the lemma behind it: a write that only adds to a sum and leaves it equal leaves
  every part of it equal.
* **`FundLedgerImportProofs`.** A step of the worker is `Beside` the sessions: it
  leaves requests, contracts, amendments and the locks of the sessions alone, writes any
  naturals as totals and at most outdates snapshots. As neither `Consistent` nor `Sole`
  mentions totals, both survive it, and with them every rule that is decided on the
  rows. What does not survive is `TotalsAgree`, which is finding 3: with one
  admin the harm of an import is confined to the cached columns, until the next
  operation on the line corrects them. `ApproverKnows` is about the cached total and
  does not survive: see below.
* **`NotificationDeliveryProofs`.** `DuplicatesAreRetries` is not inductive: a
  run that is about to send has not been counted yet. `Paid` is the account that
  closes it: mails sent plus runs that may still send (`Senders`) are at most
  failures plus stalls plus the run that holds the lock. Taking a job adds a
  sender and a start; sending turns a sender into a mail; a failure or a
  stall keeps the sum when the lock goes; a run that has lost its lock was paid
  for by its stall. `Budgeted` bounds failures and stalls by the queue's limits,
  `RunTruthful` and `JobAfterRow` say what a run past the mail has done and that
  a row has at most one job. `SentIsFinal` needs none of this: what it says is
  kept by every step (`SettledStays`).
* **`PoImportProofs`.** `CompletedMeansSuccess` is a statement about the end; what
  holds on the way is `LastWord`: while every upload of a file is `Undisturbed` (not
  failed, its job neither given up nor stalled), a row that says PENDING or FAILED
  has an upload that is `Unfinished`, one that still has to store SUCCESS. It
  rests on `RunsHold` (a run has the lock of its job unless the job has stalled, so that
  an undisturbed job has one run), on `JobAfterUpload` and on `HistoryBegun`. A late event
  cannot spoil it because `MarkFailed` writes a PENDING row only. `SuccessWasReconciled`
  needs `RunsReconciled`, which says it of the runs that are about to store SUCCESS.
  `ImportedIsFinal` follows from the invariant and one step.
* **`SessionProofs`.** `SessionInv` is `TypeOK` with `CallsBegun` (a call has the
  device, and the row, that its next statement is about) and `LoginsApart` (the
  device of a login in progress is nobody else's). Almost every step changes one
  call to one that is no login, so one lemma (`StepKeepsCalls`) keeps the invariant
  for all of them, and another (`StepKeepsAsked`) the abstract `asked`. What remains are the
  steps that change a session or the version: `Rotate` renews only a row that is there, because the
  update of a deleted row is an error.
  `SoleTabInSync` speaks of a tab at rest and `AcceptedHasSession` of the session
  alone; `TabInv` says what is true while a refresh is on its way. A device is one
  browser's (`BrowsersApart`), so that a step of one browser can do no more to
  another than delete its session, and then it raises the version
  (`LocalElsewhere`, `UndisturbedKept`). The interceptor sends one refresh at a time
  (`OneRefresh`). While a browser with one tab is `Engaged` (logged in, or with requests
  it sent while it was), that refresh is about its own session and carries
  the current token up to `Rotate` (`InRefresh`); from then on, until the answer
  has arrived, the cookie is behind and the answer has what it lacks (`Good`, `Rotated`).
  A refresh deletes the session only after it has seen the version change,
  and then the access token is refused already (`VersionsSeen`, `InRefresh`). A lost answer or a
  second tab breaks the first of these steps, which is where `SoleTab` is needed.
* **`PoAgingProofs`.** `ToldOncePerDashboard` is not inductive: it does not count
  the syncs that are about to announce. `ToldFor` does, in two phases: while the line
  is unmarked, announcements are paid for by the dashboards that are now
  marking it and by faults; once it is marked, the dashboards that read it before
  (`Waiters`) are all that can still announce, and no sync joins them.
  `MarkedWasTold` needs that every sync on its way to the mark has announced the line or
  has been refused.
  `AnswersAlwaysAgree` is about a fold again, over the positions of the lines.
  Its cards are restated as a table on the sets of positions (`SitesByPrefix`), and the
  first prefix at which the cards would not match the lines so far (`SitesMatch`)
  contradicts `SiteAdded`: that lines come once each is needed there, as `CardGrows`
  counts them. The sort is a bijection because ranks grow (`RankGrows`)
  and there are as many as positions; the sites on the list are counted through
  their ids, of which no two are equal (`DistinctSites`).

The hypotheses are real ones, not conveniences.

* `SoleAdmin`: runs `double_approval` and `amend_while_approving` show two of the
  three rules failing without it, and two admins who both set up an unset contract
  break the third, `ContractAudited`: both pass the check on the row as read, and
  the second overwrites the first.
* `ApprovalsStand`: with rejections (`TwoDeciders` of `MCFundLedger` in place of
  `TwoApprovers`, three requests, amounts 1, a contract of 1) TLC finds
  `ApprovedWithinContract` violated: while one approver is between its read and its
  compare-and-set, a rejection overwrites an approval and another approval
  brings the total back to the value read. With overrides the same follows from a
  second approval with a smaller amount.
* No imports: with `TwoApprovers` of `MCFundLedgerImport` (one line, two requests, amounts
  1, a contract of 1) the worker writes back a total it has read before an approval, the
  compare-and-set of another approver matches it, and `ApprovedWithinContract` is
  violated.

Every invariant, action property and refinement of the passing runs is a theorem, those of
the ledger that two admins or an import can break under the hypotheses above.
Model-checked only: liveness (`EveryTransactionEnds`, `EveryImportEnds`, `EveryJobEnds`,
`EveryJobSettles`, `EveryRequestEnds`, `FlagsFollow`, `RedIsMarked`: outside the
prover's reach).

## 8. Findings

1. **A decision is not final** (`double_approval`). Two admins who both read the
   request as pending both decide it, because `approveFundRequest` and
   `rejectFundRequest` update by id alone. `src/README.md:43` says "Prevents
   double-approval and race conditions", line 44 "Enforces one-way irreversible
   state transitions". The consequence is worse than a wrong decider: with three
   requests it lets more be approved than contracted although nobody amends
   (section 7, `ApprovalsStand`).
2. **More is approved than contracted** (`amend_while_approving`). The contract
   an approval was checked against may be lowered before the approval writes;
   the compare-and-set guards the approved total only, and an amendment leaves
   that unchanged.
3. **An import leaves stale totals** (`import_stale_totals`).
   `reconcileManyPoLines` writes what it computed from reads made before a
   ledger operation committed. The next operation on the line repairs it. The
   check of an approval reads the requests, not the cached total, so that with one admin
   the rules of the ledger hold all the same (`import`,
   `SoleAdminWithinContractBesideImports`). With two it does not: the
   compare-and-set is on the cached total, and a stale one lets it match
   (section 7).
4. **A refresh within the grace period breaks the next one** (`two_tabs`).
   "CASE 1" sets the cookie to `session.refreshToken`, which is the stored hash. The
   browser's next refresh sends the hash; its hash is neither column, the answer is
   "Security breach detected" and the session is deleted. The comment at
   `auth.service.ts:212` calls the same line re-syncing the cookie with the current
   valid refresh token.

## 9. Not modelled

Of the ledger: the upsert of order and line in `createFundRequest`, which decides
to which row a request belongs and touches no amount (a line here is one row,
however it came to be: a manual request without numbers is looked up under
`TEMP-PO` but stored with an empty number, `fund-requests.service.ts:161`, so that each
such request has an order and a line of its own); the
call of `notify` after the commit (what becomes of it is
`NotificationDelivery`), and queries. Of notifications: `readAt`, the lists, the
templates and the development mode of the mail service. Of the import: reading
and validating the spreadsheet (whether it is acceptable is open), the counts
and error texts of a history row. Of the sessions: passwords and their hashes,
roles, `mustChangePassword`, the Redis auth context. Of aging: the cron class
that no module provides, the filters of the query, the sums of money, the key figures
with queries of their own and the
paginated cards. Of the workspace: the list of lines with its sums.

Not modelled at all: staff accounts and PO types (one transaction or one lookup
before an insert, with a unique index behind it: a lost race is an error
and leaves nothing), metadata (queries), configuration, logging, filters and module wiring,
generated Prisma code, the seed data, and the pages and components of the
frontend (presentation of what the backend returns; more than half of the
repository's lines).
