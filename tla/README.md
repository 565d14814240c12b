# Formal models of the financial-advisor backend

TLA+ specifications of the Django/Celery backend in `src/`, the TLC
configurations that model-check them on small instances, and TLAPS proofs of
what matters most for every value of the constants. Paths below are relative to
the repository.

Tools: `tlc -config <cfg> <module>` for a run, `tlapm <module>.tla` for proofs.
`PROJECT.json` lists the runs, the mutants (for every property a plausible bug of
the code that it catches), the map from definitions to source lines, the hazards
and the theorems.

## 1. The system

The backend is a REST API (gunicorn, 2 processes x 4 threads), a Celery worker
(`--concurrency=2`, messages acknowledged when taken, Redis as broker),
PostgreSQL at READ COMMITTED, an external AI service and an external bank.
`ATOMIC_REQUESTS` is off: every ORM call outside an explicit
`transaction.atomic()` commits by itself. This one fact creates most of
the interleavings below: a view or task reads a row, decides, and writes
later, and anything may happen in between.

| Component | State | Operations | Talks to |
|---|---|---|---|
| Statement pipeline (`core/tasks/statements.py`, `core/views/statements.py`) | `statement_files` (status, is_processing, failure, account), `StatementOcrResult`, `StatementNormalized` | upload, PATCH (advance), delete, bulk delete, approval; the task `process_statement_pipeline`, which re-enqueues itself to poll | AI service jobs, broker, ledger (approval), live events |
| Ledger (`core/views/aggregations.py`, `core/models/aggregations/transaction.py`) | `transactions`, with a unique constraint over (account, date, amount, merchant_raw, type) that NULLs escape | manual entry, edit, delete, bulk delete; approval of a statement; ingestion | bank accounts |
| Bank sync (`core/tasks/bank_sync.py`, `core/views/webhooks.py`, `services/bank_connectors/sync.py`) | none of its own | webhook (accounts, transactions), `apply_synced_accounts`, `ingest_synced_transactions`, backfill whenever accounts are applied | bank, ledger, bank connections |
| Bank linking and login (`core/views/bank_connections.py`, `core/views/auth.py`) | `bank_connections` (status, state, external_customer_id), OAuth states in Redis | initiate, callback, `_mark_failed`, login with a bank | bank OAuth, account registry, users |
| Bank accounts (`core/views/profile.py`, `core/models/profile/bank_account.py`) | `bank_accounts` (link_type manual or synced) | create, rename, delete, resolution by a statement's normalization, `apply_synced_accounts` | ledger, statements |
| Sessions (`core/views/auth.py`, `core/authentication.py`, tickets) | refresh tokens and their blacklist, reset and verification tokens, one-use tickets | register, login, refresh (rotation), logout of one or all devices, password reset | e-mail, Redis |
| Budgets and goals (`core/views/budgets.py`) | budget, allocations, history snapshots, goals | post, patch (snapshot, apply), delete, apply a proposal | chat (proposals) |
| Chat (`core/views/conversations.py`, `core/tasks/conversations.py`) | conversations, messages, widgets | post a message, stream and save the reply, delete | AI service, live events, consent |
| Consent and profile (`core/permissions.py`, `core/views/profile.py`, `core/tasks/data_export.py`) | append-only consent log, export jobs | grant, revoke, check, export | chat, AI analysis |
| Live events (`services/event_bus.py`, `core/views/events.py`) | Redis pub/sub, nothing durable | publish, stream | every task |
| AI service client (`services/ai_service/`) | none (jobs live in the service) | submit, query, stream | pipeline, chat |
| Investment planning (`core/views/investment_scenarios.py`, `investment_holdings.py`, `core/serializers/investment_scenarios.py`, `services/market_data.py`) | saved plans, records of purchases, holdings; quotes in Redis | save a plan from a message, rename, edit, remove an item, purchase, delete; enter, correct and remove a holding; valuation | chat (widgets), catalogue, market data provider |
| Administration (`core/views/administration.py`) | admin tokens, starter templates in object storage, products and problem statements, the curated catalogue | login, refresh, logout; CRUD, with embeddings from the AI service | onboarding, AI service, investment planning |
| Feedback, categories | single rows | one request each | |
| Mock bank (`mock-bank-oauth/`, `mock-bank-sync/`) | challenges, one-time passwords, codes, tokens in memory; customers, accounts and transactions in a database | login, one-time password, code and token exchange, simulated customers and transactions, pushes | bank linking and login, webhook |

What is hard about it, and what makes each part correct:

* **Pipeline.** One statement is worked on by web threads and by tasks that hold
  copies of its row across polls. `is_processing` is the only lock, taken by a
  read followed by a save. Correct means: no status without its artifacts; no two
  tasks at work on a statement; the status only advances; the flag goes down
  again; a failure names the phase to retry; a task ends although the AI
  service never answers; the client hears how it ended.
* **Ledger and sync.** Four kinds of writer look for a duplicate and then
  insert. Correct means: one row per identity; a bank's rows are neither lost,
  doubled nor touched by anybody else; approvals that wait for each other do
  not hang.
* **Linking, accounts.** Check and creation are separate statements on both
  sides of "this bank is synced"; the callback writes a connection it read
  several calls to the bank earlier. Correct means: one linked connection per
  user and provider, no manual account beside a synced one of the same bank,
  a linked connection is not marked failed.
* **Sessions.** A refresh or login that is under way while a password reset looks for
  the tokens to blacklist; PATCH /me saves a row it read earlier. Correct means: no
  session of an old password outlives a reset, and no request takes back what another has
  answered.
* **Budgets.** Snapshot, row and allocations in separate transactions. Correct means: the
  allocations are those of one request, and what they replace is in the history.
* **Chat, consent.** A reply that is saved after its conversation has gone;
  consent that is revoked between the check and the use. Correct means: an event says what
  a refetch shows, no new message is sent without consent, every message is answered.
* **Investment planning.** Purchases lock, two PATCHes do not, and a widget may be saved
  again at any time. Correct means: an allocation is bought once, the units held are what
  the user confirmed, a plan can be edited in spite of its roundings.
* **Figures.** Balances, dashboard, progress, summaries and scores are computed anew from
  the same rows, each page with filters of its own; statements are approved in any order;
  quotes are cached. Correct means: pages agree, and what is shown is what was recorded.
* **Administration.** Objects in a bucket without a lock; a product is stored before its
  statements are embedded; tokens are rotated by look and insertion.
* **Mock bank.** A login form may be sent again while a handler holds its challenge; an event
  is pushed once, while the account is being linked. Correct means: one token per login, for
  whoever was mailed; no event falls between backfill and push.

`PROJECT.json` lists every such hazard at its line, with the property that would
catch it, or why there is none.

## 2. Modules

| Module | What it is |
|---|---|
| `StatementPipeline` | one uploaded statement: the calls of `advance_statement_to`, the tasks they start, approvals, deletion, the AI service's jobs, events |
| `StatementLifecycle` | abstract: what the owner of a statement is promised; implemented by `StatementPipeline` (a refinement mapping over status, flag and failure) |
| `StatementPipelineProofs` | theorems about it |
| `SyncedLedger` | one user's ledger: ingestion tasks, approvals, entries, edits, deletions, removal of accounts |
| `SyncedLedgerProofs` | theorems about it |
| `BankLink` | one bank's customers becoming users: linking, callbacks, bank login, pushes, the bank's codes |
| `BankLinkProofs` | theorems about it |
| `ChatReply` | one user's messages from the POST to the event, with consent and deletion of conversations |
| `InvestmentPlan` | saved plans, their purchases and the holdings |
| `PlanFigures` | the arithmetic of a plan: recalculation after edits, and the contract it must pass |
| `HoldingQuotes` | quotes of the provider, their cache and the valuation |
| `InvestmentProofs` | theorems about `InvestmentPlan` and `HoldingQuotes` |
| `BudgetPlan` | the budget, its allocations and history; the goal |
| `SpendingFigures` | dashboard, progress, summaries, breakdown, stability: pure functions of the transactions |
| `LedgerFigures` | an account's balance against the bank's own record |
| `FiguresProofs` | theorems about `PlanFigures`, `SpendingFigures` and `LedgerFigures` |
| `Sessions` | one user's row, refresh tokens and tickets |
| `AccountRegistry` | one user's bank accounts and everybody who creates them |
| `AdminDesk` | administrators: tokens, templates, products |
| `UserDeskProofs` | theorems about `BudgetPlan`, `Sessions`, `AccountRegistry`, `AdminDesk` and `ChatReply` |
| `BankLogin` | the mock bank's login page, from challenge to token |
| `BankFeed` | the mock bank's ledger, pushes, and the backfill |
| `MockBankProofs` | theorems about `BankLogin` and `BankFeed` |
| `MCStatementPipeline`, `MCSyncedLedger`, `MCBankLink` | instances for TLC (symmetry, batches) |
| `MCUserDesk` | one instance for the eleven smaller components, a scene each |
| `DeskProofs` | theorems about `MCUserDesk`: what holds of each component holds at the desk |

Three modules refine what another takes for granted. `BankLogin` is what
`BankLink` calls the browser at the bank: that a code names the customer who answered the mail.
`BankFeed` says which batches reach the ledger, `SyncedLedger` how a batch is written. `PlanFigures`
and `HoldingQuotes` are the numbers in the rows of `InvestmentPlan`. They are joined in words, not
by a composition, since the states they share is what either abstracts from.

### StatementPipeline

A *call* is one use of `advance_statement_to()` with the Celery task it hands over
to. `pc` follows it: `validated` (the handler has passed `validate_advance` on the
row it read), `marked` (is_processing saved), `queued` (in the broker), then in a
worker `running` (top of the while loop), `succeeded` (the poll says so),
`recorded` (artifact row created), `failing` (about to call `_fail_phase`),
`raised` / `refreshed` (the `except Exception` block before and after
`refresh_from_db`), `finishing` (about to enter the finally block), `done`.
`copy` is the row as the task's Python object holds it; it is what finalizers
save, and what other calls make stale. `job`, `poll`, `retries` are `job_id`,
`poll_attempt` and Celery's `request.retries`; `silent` is `retry_pending`; `told` is
the last `statement_status` event. Each ORM call is an action. The columns
`status`, `is_processing`, `failed_phase` are kept as they are; `failure_reason` and
`account_id` as whether they are set; OCR text, transactions and amounts are
left out, since no property tells them apart.

The AI service is external: a job that was submitted runs, ends with either
outcome, or never ends; a submission for the same phase and OCR run while one is
in flight returns the same job. A submission or query may be refused at any time.

`Client` says how disciplined the clients are. `"any"`: requests overlap freely.
`"serial"`: a client waits for each response. `"patient"`: it waits until the task it
started has ended. `SinglePhase` restricts it to asking for the next status
only. Nothing in the code enforces either; the two parameters are how we say
under which use `is_processing` is the lock its comments claim.

### SyncedLedger

A *writer* is a task, an approval, an entry or an edit. Its identity check and its
insertion are separate actions, in the order of the code. A row is known by its
account, its key (the columns of the constraint) and its source; keys in
`NullKeys` have `merchant_raw` or `transaction_type` NULL, which `is_duplicate` compares
as equal and the constraint does not. An approval's rows stay in `pending` until its
atomic block commits; whoever inserts a pending key waits (PostgreSQL's unique
index), and PostgreSQL ends one of several approvals that wait for each other.
`Lost` is a worker killed after it acknowledged its message.

`EditSave` writes what `serializer.save()` writes: all columns of the row as read,
which Django turns into an INSERT when the row has been deleted in between
(`edited[d].there`). One restriction: two edits do not overlap on rows that look
the same in the model, since it counts equal rows rather than naming them.

### BankLink

A *request* is a `POST` to one of five endpoints, each identified by what it leaves
behind: `Links` are initiations and the `oauth_state` they store, `Callbacks` bring one
of these back, `Logins` are a bank login from the state it mints to the callback
that redeems it, `Pushes` are webhooks. `pc` names what a request is about to do:

| `pc` | about to |
|---|---|
| `checked` | of an initiation: `update_or_create()`; of a callback: exchange the code |
| `creating` | create the row, since `update_or_create()` found none |
| `sent` | the browser is at the bank (and the request answered) |
| `exchanged` | of a callback: save the connection as linked; of a login: look for one |
| `failing` | `_mark_failed()` |
| `known` / `unknown` / `new` / `raced` | of a login: save the token / look for the e-mail address / provision the user / look for the connection of whoever was faster |
| `applying` | `apply_synced_accounts()` |
| `done`, `refused`, `lost` | nothing: answered, refused with 404 or an e-mail conflict, killed |

`conn` is the table `bank_connections` (a row whose `user` is `None` has not been
created); `accounts` the synced accounts that hang on each row; `code` the
authorization codes of the mock bank (`consume_authorization_code()` marks a code used
under a lock). `at`, `who`, `got` are the local variables of a request: the connection
it read, its user, and the customer whose token the bank gave it. Only what the
request saves by `update_fields` is written to the row, so a stale copy matters for
what was decided on it, not for the other columns. The unique constraints are `Taken` and
`SecondLink`; a violated one ends a callback (500) and sends a login to `raced`.

`Careful` says that a user waits for each response before the next request. The
comment in `BankConnectionListCreateView.post()` asks for it ("acceptable for a
single-user-driven linking flow"); `link_overlap` shows what follows without.
Restrictions: one bank and one account of each customer; a browser returns with at most
one code for a state, and a login state is redeemed once (`GETDEL`); addresses of
users do not change (`Shared` says which customers share one). Tokens do not expire.

### ChatReply

A message moves through `chatAt`: in the POST `checked` (conversation found, consent
active), `stored`, `bumped` (`conversation.save()`), in the worker `queued`, `streaming`, `replied` (the
assistant message stored), `referenced`, `saved`, and then `told` or `failed` (an event was
published), `dropped` (the task raised), `lost` (its worker was killed) or `refused`. `consent` is the
newest row of each type in the log. `HasConsent` is what `core/permissions.py` asks.
`heard` is the event of each message, if a stream was open. `carried` (on their way at a revocation),
`sentWithout` and `erased` are history. `conversation.save()` writes every column of a
row read earlier, so it *inserts* a conversation deleted in between: `PostBump` and `ReplyBump`
say `open` whatever was there. The stream of the AI service is one step with two outcomes.

### InvestmentPlan, PlanFigures, HoldingQuotes

`InvestmentPlan`: `planReq` is what each web thread is in the middle of. `PurchaseLock` (the plan's
row locked, the item found pending), `PurchaseRead` (user and holding locked) and
`PurchaseCommit` or `PurchaseRollback` are one transaction; the locks are the predicates `PlanLocked`,
`UserLocked`, `HoldingLocked`. `RenameRead`/`RenameSave` and `HoldingRead`/`HoldingSave` are the two PATCHes
without a lock, which save all columns. `SaveWidget` puts a message's plan in place, or again.
`confirmed` and `stated` are history. A quantity counts units, at most `MaxQuantity`, the column's width.

`PlanFigures` takes over where quantities, prices and percentages matter. Money is in cents, percentages in
hundredths of a percent, and the two ways the code rounds are `RoundHalfUp` and `RoundHalfEven`. `Recalculated`
and `Accepted` are `_recalculate_saved_payload` and its validation, `EditItem` and `RemoveItem` the
requests, `Curate` the administrator's.

`HoldingQuotes`: a request reads the holdings (`ReadHoldings`), finds the provider's answer in Redis
(`FromCache`) or asks (`AskProvider`, `ProviderAnswers`, `ProviderFails`), stores it and shows it
(`CacheAndShow`). Quotes are how long ago they were observed; `TimePasses` ages everything and lets cache
entries expire. Answers are validated on use against the terms the catalogue has then (`Validated`).

### BudgetPlan, SpendingFigures, LedgerFigures

`BudgetPlan`: `PatchRead`, `PatchRecord` (history), `PatchSave` (the row), `PatchClear` (allocations deleted)
and `Allocate` (one each) are the statements of a PATCH, each a transaction; `CreateCheck` and `CreateRow` the
look and insertion of a POST, which then allocates too. A list that names a category twice passes
the serializer, and the unique constraint ends its application half-way. `GoalUpsert`, `GoalCheck`,
`GoalCreate`, `GoalRead`, `GoalSave`, `GoalDelete` are the goal's two endpoints.

`SpendingFigures` has transactions, a goal and a day as state, a calendar with leap years, and one
operator per figure: `Window` and `Preceding` (dashboard), `EnvelopeStatus`, `Summary`, `Breakdown`, `StabilityLabel`,
`SavedSoFar`, `MonthsElapsed`, `OnTrack`. Its properties compare them with each other.

`LedgerFigures` has the bank's own sequence of movements (`Movements`) as reference. Rows are created by
statements (`ApproveStatement`, a stretch of it in either order, duplicates skipped, with the bank's
running balance) and by hand or push (`RecordMovement`, without). `CurrentBalance` is
`BankAccount.current_balance`.

### Sessions, AccountRegistry, AdminDesk

`Sessions`: a refresh token is live between its rows in `outstanding_tokens` and
`blacklisted_tokens`. `LoginCheck` / `Mint`, `RefreshCheck` / `RefreshBlacklist` / `Mint`, `ConfirmCheck` / `ResetSave` /
`ResetLook` / `Sweep`, `ConfirmCheck` / `VerifySave`, `ProfileRead` / `ProfileSave` are requests in the steps of their ORM
calls. `MintTicket`, `OpenStream` are the tickets, redeemed once (`GETDEL`). A token remembers the password it descends
from (`born`) and whether a login or refresh it descends from overlapped a reset (`late`).

`AccountRegistry`: manual accounts entered (`EnterCheck`, `EnterSave`) or changed (`ChangeCheck`, `ChangeRead`, `ChangeSave`),
a bank linked (`Link`: manual accounts of the bank go, the synced one lands), statements resolved
(`Resolve`, `ResolveCreate`, `ResolveSave`: `get_or_create`) or overridden at approval (`Override`: saved, and
only then refused for a synced account).

`AdminDesk`: `AdminRedeem` inserts the token's `jti` (unique), `AdminIssue` its successor;
`TemplateCheck` / `TemplatePut`, `TemplateRead` / `TemplateReplace`, `TemplateFound` / `TemplateRemove` are look and write of an
object; `ProductCreate`, `ProductEmbed`, `ProductStore` the row, the embedding call and each
statement.

### BankLogin, BankFeed

`BankLogin`: each function of the store runs under its lock and is a step; a handler calls several, and
holds a reference to a challenge that others may change. `StartLookup`, `StartAttach` (a new password,
the customer), `StartMail`; `VerifyCheck`, `VerifyIssue` (a code), `VerifyPop` (the challenge); `TokenConsume`,
`TokenIssue`. `ChallengeExpires`, `PasswordExpires`, `CodeExpires` and `BankRestarts` may happen at any
time. `shown` is the password each code was issued for.

`BankFeed`: the bank commits an event (`SimulateTransaction`), then pushes it once (`PushArrives`, `PushFails`); the
webhook enqueues it (`PushEnqueues`) or, for an unknown account of a linked customer, discovers
the account first (`Discover`). Linking (`LinkConnection`) and each
login with the bank (`LoginAgain`) persist the account (`Persist`) and list its
transactions (`Backfill`). `Ingest` lands a batch. `RequestDies`, `WorkerDies`, `BackfillFails` are the faults;
`lost` says what they and failed pushes took.

## 3. Runs

| Run (cfg) | Instance | What it shows |
|---|---|---|
| `pipeline_any_client` (`PipelineAnyClient`) | 2 calls, 1 approval, 2 worker slots, 2 polls, 1 fault, any client | status implies artifacts and the poll budget holds in every interleaving, with a killed worker or a refused message |
| `pipeline_one_phase` (`PipelineOnePhase`) | 3 calls, 1 approval, 2 slots, 2 polls, serial client, one phase per request | the flag is a lock: one call at work, flag up exactly meanwhile, jobs and diagnoses fit the phase, the status only advances, `StatementLifecycle` is implemented with its liveness |
| `pipeline_patient` (`PipelinePatient`) | 3 calls, 1 approval, 1 slot, 2 polls, patient client, cascades | two-phase cascades are safe if the client waits for their end; every task ends; every success is published |
| `pipeline_overlap` (`PipelineOverlap`) | 2 calls, 2 slots, serial client, cascades | **violated**: two tasks at work on one statement |
| `pipeline_silent_end` (`PipelineSilentEnd`) | 1 call, 1 poll | **violated**: a task ends in failure without an event |
| `ledger_bank` (`LedgerBank`) | 2 tasks on one slot, 1 approval, 1 killed worker, 1 synced and 1 manual account, keys with and without NULL, overlapping batches | what the bank pushes is in the ledger, once, and nobody else writes or removes it |
| `ledger_manual` (`LedgerManual`) | 2 approvals with the same keys in opposite orders, 1 entry, 1 edit, deletions, removal of accounts | no identity twice, no write into an account that has gone, nobody waits for ever |
| `ledger_two_workers` (`LedgerTwoWorkers`) | 2 tasks on 2 slots | **violated**: a task ends without its event |
| `link_careful` (`LinkCareful`) | 2 users who wait, 2 customers (one with the address of a user), 3 rows, 2 initiations, 2 callbacks, 2 logins, 1 push, 1 killed request | a customer stays one user's, so do sessions, tokens, accounts and pushes; a linked connection stays linked and gets its accounts |
| `link_overlap` (`LinkOverlap`) | 1 user who does not wait, 2 customers, 2 of each request | **violated**: two logins of one customer end in sessions of two users |
| `user_desk` (`UserDesk`) | eleven modules, a scene each (`BudgetPlan` has two): 2 threads and 2 (sometimes 1 or 3) things of each kind | what requests have answered stays so, and what pages show agrees with what was recorded (below) |
| `chat_answered` (`ChatAnswered`) | 1 conversation, 2 messages, 2 types of consent, killed workers, streams that break | what events and consent say is so, and each message ends in an event |

**`user_desk`.** `MCUserDesk` is the union of its modules, not their product: in the initial
state a behaviour chooses a `scene`, and only that component moves. The modules share no
variables, so that a property of one holds in the union if it holds of
the module alone (theorem `DeskPlaysComponents`). One run then says what eleven would, in about a minute. `BudgetPlan` plays two scenes, the
budget and the goal, whose rows no request shares; that requests of the two may overlap
as well is covered by the theorem `BudgetKept`, which is about the whole module.

| Property | Module | It says |
|---|---|---|
| `OwnedAsStated` | `InvestmentPlan` | an allocation is added to a holding at most once, what was bought stays in its plan, the units held are what was answered |
| `EditsOfSmallPlansPass` | `PlanFigures` | a plan of up to 200.00 never gets stuck in its own roundings, whatever edits led to it |
| `ShownAsRecorded` | `LedgerFigures`, `HoldingQuotes` | a balance is the bank's after the last movement recorded; a price is one of the instrument's terms, and behind the market by less than cache life and timeout |
| `BudgetAsStated` | `BudgetPlan` | the allocations are those of one request, what was in force is in the history, the goal is what was answered |
| `PagesAgree` | `SpendingFigures` | dashboard, progress, summaries, breakdown, goal and score agree wherever their filters say they must, across years and leap days |
| `AccountAsStated` | `Sessions` | no session of an older password outlives a reset, except of logins and refreshes in flight; no column of the user's row is taken back |
| `OnlyStatementsShadow` | `AccountRegistry` | no manual account that a user entered stands beside a synced one of its bank |
| `AdminAsStated` | `AdminDesk` | a token is honoured once, a template is what was answered, a product answered with 201 is complete |
| `LoginAsMailed` | `BankLogin` | a login of the bank ends with one token at most, of the customer who was mailed |
| `FeedAsRecorded` | `BankFeed` | no event of the bank falls between backfill and pushes |
| `DeskTypeOK` | all | types, the width of the quantity column among them |

Figures agree only under conditions, and the properties state them: windows that end today leave out
transactions dated ahead (`NoneAhead`), a balance needs the rows of a day in the bank's
order and none missing after the last stated one.

**Discipline.** Six constants say where an interleaving is kept out because the
code does not handle it. They restrict requests of *one* owner that overlap on one row.
Nothing in the code enforces them. Without them:

| Constant | Keeps out | What happens otherwise |
|---|---|---|
| `CarefulOwner` | the two PATCHes without a lock beside a change of their row | a rename puts a deleted plan back, without its records of purchase, or takes back items; a holding loses what a purchase added |
| `CarefulBudgeter` | two changes of the budget, or of the goal, at once | allocations of two requests are mixed, a PATCH takes a field back |
| `CarefulProfile` | PATCH /me beside another change of the user's row | an old password, or a deleted account, comes back |
| `CarefulLinker` | an entry or change of an account while its bank is linked | a manual account passes the look and stands beside the synced one |
| `CarefulAdmin` | two changes of one template or product | a template's fields are taken back, a product that was deleted comes back without statements |
| `CarefulCustomer` | two forms of one login at the mock bank | a handler goes by a password or customer that the other has replaced |

**Why these bounds.** Every hazard of the pipeline is a matter of two calls (one
holds a copy, the other writes) and at most one more that retries after both; two
polls distinguish the first from the last and let the first phase use up what the
second needs; one fault is enough because a fault ends a call for good. In the
ledger a duplicate takes two writers and one key, a deadlock two approvals and two
keys, a NULL duplicate one batch that repeats a key. Synced and manual accounts
share no rows and no writers, except through the guards that
`ledger_bank` checks (an approval and the deletions run beside the tasks), so the
busy manual side has a run of its own. Linking needs two of everything that
can race (two initiations of one user, two callbacks, a login against a login or a link), a second
customer to take the first one's place, and a third row so that both users
and a provisioned one can have theirs. At the desk every hazard is one of two requests, or of
one request and a deletion, over one row and its neighbour: two threads and two things
meet each pair, and where an order of three matters there are three (administrators' tokens,
items of a plan, five movements over two days). One paper and one holder are enough where all that is said is
said of each alone; the theorems of §4 are about any number of all of these. Numbers are chosen where the code's
roundings, widths and dates bite: amounts on either side of the plan's tolerance, a column of two
units, days around the turn of the year, the end of a month and 29 February. `MaxPolls`, `MaxFaults`, `MaxLost` are the
only numeric bounds; `MaxPolls` is a constant of the code
(`MAX_POLL_ATTEMPTS`), the other two bound faults. A call or task is made and
delivered at most once: Celery acknowledges early here, and never redelivers.

**Fairness.** `WF(WebStep(c))`, `WF(WorkerStep(c))`, and the like for the ledger's writers:
a thread or task that has begun goes on, and a worker keeps taking messages.
Clients owe no request, so nothing is fair about uploads, PATCHes, approvals and
deletions. The AI service owes no answer: `JobEnds` has no fairness, so
`CallsEnd` rests on the poll budget alone. `ApprovalVictim` is part of the fair
step of an approval: PostgreSQL looks for deadlocks after `deadlock_timeout`. `ChatFairSpec` has `WF(PostStep(m))` and `WF(ReplyStep(m))`: a thread that has
begun goes on, a worker takes the task, and its stream ends, since every read of it has a timeout.
Users owe nothing; a killed worker and the deletion of the conversation may end a message silently,
which is what `EachMessageAnswered` says. The modules of `user_desk` state no liveness: their requests are
straight-line code, and nobody waits for anybody but for row locks held to the end of one transaction.

**Deadlock checking** is off in all runs: requests and tasks are finite in number
and made once, so the modelled system stops when they are done. Waiting for ever
is covered by `CallsEnd` and `WritersEnd` instead. `BankLink` states no liveness: its
requests are straight-line code with no loop or lock to wait for.

**Findings** (each is a violated run; `PROJECT.json` quotes the lines).

1. *Overlapping cascades.* `_finalize_extraction_phase` lowers `is_processing` between
   the phases of a cascade (`core/tasks/statements.py:61`) and the loop raises it again
   on its next turn. A PATCH in that moment passes `validate_advance`, and two tasks
   normalize the same statement, which is what the flag is documented to prevent.
2. *Silent end.* Celery's retry count runs over both phases and `poll_attempt`
   over one. When the second phase needs a retry that the first has used up,
   `self.retry()` raises after `retry_pending = True`, and no event is published.
3. *Ingestion stops half-way.* With two workers a row inserted by another task
   between look and insertion raises an IntegrityError that nothing handles: the
   rest of the batch is not ingested and the promised event is not published.
4. *A binding replaced.* A callback decides on the row it read before it called the bank.
   A second initiation, and its callback, in the meantime make the row link one customer
   and then another; the first customer's id is overwritten, which no constraint sees,
   and that customer's next login provisions a second user.

`SyncedOnce` and `PushLands` therefore hold for `WorkerSlots = 1`; the deployment
runs two (`deploy/docker-compose.prod.yml:217`).

**Observations** the models led to, each visible in the definitions named; some the properties
exclude by a stated condition, others no document of the repository speaks of:

* `PATCH` of a plan's title (`core/views/investment_scenarios.py:92`) and of a holding
  (`core/views/investment_holdings.py:92`) save a whole row read earlier, and insert it when it was deleted
  (`RenameSave`, `HoldingSave`). So does `conversation.save()`: a reply may resurrect a conversation.
* A statement's account is found by exact bank and number, the guard against manual accounts of a
  synced bank ignores case and is not asked at all: statements may create accounts beside synced
  ones (`ResolveCreate`, hence `OnlyStatementsShadow`), and two equal ones make the normalization
  raise for ever (`Resolve`).
* An override of a statement's account is saved before the approval is refused (`Override`).
* Statements listed newest first, or of one day split over uploads out of order, give a wrong
  balance: rows of one day are ordered by creation (`DaysInOrder`).
* Plans above 200.00 can be refused an edit by the roundings of percentages (`Small`).
* The category breakdown counts credits and untyped rows, although it is described as what was
  spent (`EnvelopesAgree` compares it only without them).
* A dashboard window ends today, progress and summaries take whole months (`NoneAhead`).
* The goal's two pages count calendar months and 30-day months: a goal of two months set on 1 July and
  reached on 31 August is not on track there. The two counts drift: for goals of up to five years they
  are less than two months apart, from 68 months on they may be two, and `target_months` has no
  maximum. `SavingsFitSummaries` says where the pages agree, and its proof found the bound.
* The mock bank pushes an event once, and the application lists transactions only when a bank is
  linked, an account discovered, or a user logs in with the bank: what a push or a killed worker
  loses (`lost`) stays lost until then.

## 4. Proofs

All proofs are for arbitrary sets of calls, tasks, approvals, accounts and keys, and
arbitrary bounds.

* **`StatementPipelineProofs`**: `Typing`, `Artifacts`, `PollBudget`, for `Spec` with any
  client and any number of faults. Type correctness needs one fact that is not
  typing: a task in the middle of a phase holds a copy whose status has a phase
  (`InPhase`), or `PhaseFor` would not name one. `ArtifactsMatchStatus` is
  not inductive, since a finalizer saves the status of a *copy*, which another
  call may have made stale. `ArtifactInv` adds that every copy, every status about to
  be saved and every approval under way is backed by the artifacts of its phases. Rows
  of artifacts are only ever removed with the statement.
  In the same module, under a discipline: `Exclusive`, `FlagCovers`, `Advances`, `JobsOfThePhase`, `DiagnosisTrue`,
  `FlagComesDown`, `LifecycleSafe`, assuming `Client # "any"` and `SinglePhase`. `LockInv` is: at most one call is engaged
  (`OneHolder`); the flag is up while one is (`FlagWhileEngaged`); the engaged call's
  copy and target fit the row (`Fits`); an approval under way finds the
  row normalized, or approved by another (`ReviewsFit`). The assumptions cannot be dropped:
  `pipeline_overlap` is the counterexample. On top of it `WorkInv` says what the one engaged call
  knows: before it works it aims one phase past the row (`Exact`), its job is one of the phase it is
  in (`JobsFit`), the failure it is about to save is that of the row (`DiagnosisFits`), a call that has
  ended has lowered the flag (`FlagEnds`, with `MaxFaults = 0`), and a statement that
  is uploaded starts idle and undiagnosed (`Unborn`). `LifecycleSafe` is the safety half of `LifecycleImplemented`, again with
  `MaxFaults = 0`: every step of the pipeline is a step or a stutter of `StatementLifecycle`.
  `SuccessIsTold` assumes `Client = "patient"` and `MaxFaults = 0`, but not `SinglePhase`: a cascade is followed over
  both phases. `ToldInv`: one call is under way at a time; before it publishes, the statement still has a phase to
  do, and the copy it will publish from is the row, or the row was approved meanwhile (`InStep`); only
  a task that fails can end silently (`SilentFails`), which is the silent end of finding 2.
* **`SyncedLedgerProofs`**: `LedgerTyping`, `RowsUnique`, `RowsFromBank`, `HistoryKept`,
  for any number of worker slots. `LedgerInv` adds to the properties that
  writers other than tasks work on manual accounts and tasks on synced ones
  (`AtHome`), and that the row an edit has read and nobody has deleted is in the
  ledger, with no second reader (`RowsRead`), without which its UPDATE could take
  the count of rows below zero.
  `PushedOnce` and `PushesLand` assume `WorkerSlots = 1`: with one task at a
  time, what the task saw when it looked (`Held` is false) still holds when it
  inserts, and only tasks write to synced accounts (`SerialInv`). It covers the NULL identities, which
  the constraint does not. For `PushesLand`, a batch is at all times what its task has seen, which is in
  the ledger, followed by what it has still to look at (`Covered`); since no insertion violates the
  constraint, no task fails, and one that is done has seen everything.
* **`BankLinkProofs`**: `Typing` and `HasAccounts` for every client; `StaysLinked`,
  `Bound`, `OneUser`, `OneCustomer`, `PushedHome` assuming `Careful`. `LinkInv` says that a row is
  free, waiting or linked, with one customer's token and accounts and no state left
  (`RowsWhole`); users and customers have one row each, and a user provisioned for a customer is
  known as one (`RowsApart`); a user's requests take turns, and the row of one under way is
  not linked (`InTurn`); what a request has found to be bound still is (`Found`). The heart is
  the lemma `LinkedUntouched`: no step changes a linked row. Even the repeat login
  saves the token that is there, tokens being named by their customers. That is
  where `Careful` is needed, and `link_overlap` is what happens without it.

* **`InvestmentProofs`**: `OwnedTyping`, and `OwnedOnce` (`OwnedAsStated`, assuming `CarefulOwner`), for any plans, instruments, threads and
  width of the column. `OwnedInv`: purchases take turns by their locks, and with the two PATCHes by the owner's care
  (`RequestsTakeTurns`); an item that is being bought is pending in a saved plan (`PurchasesPending`); what a purchase has seen
  of a holding stands, or one was entered by hand where there was none, which the insertion will meet (`SeenStillHeld`);
  the copies of the PATCHes are the rows (`CopiesFresh`); a confirmed purchase is recorded while its
  plan exists (`PurchasesRemembered`), without which a second confirmation could not be excluded.
  `QuotesTyping`, `QuotesFresh`, for any instruments, requests, ages and times, with
  `Horizon > Ttl + Patience`, so that the model can tell apart the ages it speaks of. A quote *lags* by what
  has passed since a newer one was there. An answer lags by no more than its request has waited
  (`AnswersFresh`), a cached one by no more than the patience and what is gone of its life
  (`CacheFresh`), hence the bound of the page. A cache entry renewed on a hit, or a validation
  that is cached with the answer, would break it.
* **`UserDeskProofs`**: `SessionTyping` and `AccountKept` (`AccountAsStated`, assuming `CarefulProfile` and finitely many
  tickets, since the model counts them). `SessionInv`: an older session that is open and was not overlapped is one
  that a reset is about to close (`OldSessionsDoomed`: the reset has saved the password and not looked yet, or
  has the token among those left to sweep); what is about to be issued stands for the present password, or is
  marked as overlapped (`IssuesFresh`); a profile's copy is the row (`ProfileFresh`).
  `RegistryTyping` and `NoShadows` (`OnlyStatementsShadow`, assuming `CarefulLinker`): a bank the user is
  entering an account of, or renaming one to, is free until the request ends (`BanksStillFree`).
  `BudgetTyping` and `BudgetKept` (`BudgetAsStated`, assuming `CarefulBudgeter`), for lists of any length: the
  allocations are `Written(list, n)`, the first n places of the list being applied, which name different categories;
  lemma `WrittenNext` says that the next place is refused by the unique constraint exactly if its category has been
  named before. While a list is applied, all that was ever in force is in the history (`HalfApplied`).
  `ChatTyping`, and `ToldTruly` (`ChatAsTold`), for any number of conversations,
  messages and types of consent. `ChatInv`: a reply past `replied` is stored, or its
  conversation was erased (`ReplyKept`); before that there is none (`NoneStored`); an event
  is the last thing that happens to a message (`EventsLast`); a message in the broker or a task
  was posted with consent, or was on its way when consent was revoked (`OnTheWay`).
  `AdminTyping` and `AdminKeepsWord` (`AdminAsStated`, assuming `CarefulAdmin`), `TokensHonouredOnce` (its part about tokens,
  without that assumption), for any tokens, wordings and statements.
  `AdminInv`: a token that is being exchanged is voided, by one request and without a successor yet
  (`ExchangesApart`); one request at a time changes the template, and one the
  product (`AdminsInTurn`); what was read of the template still stands, field by field for a PATCH (`TemplateStillRead`);
  the statements stored and those still to store are all there are (`StatementsCounted`).
* **`MockBankProofs`**: `LoginTyping`, `TokenPerCode` for every customer, `LoginEndsAsMailed` assuming
  `CarefulCustomer`. `CodeTokensInv`: a code that was exchanged, or is being, is marked used, and one
  thread at most is at it. `PasswordInv` follows a password from drawing to code: nothing undrawn is anywhere
  (`Bounded`), a password belongs to one challenge (`MailsDistinct`) and is mailed to its customer
  (`MailFits`), a handler goes by what its challenge says (`FormFits`, which rests on `OneForm`), and a
  password that was shown has lost its challenge, or is about to (`Spent`).
  `FeedTyping` and `NothingFallsBetween` (`FeedAsRecorded`), with no discipline assumed of anybody, and faults at any time. `FeedInv`: a push
  is about an event of its holder, and works on what is linked and known as far as it has come (`RequestsFit`); a
  push that discovers an account began before the account was known, so that a backfill which was done since has
  listed its event (`DiscoveredListed`). This is the window between backfill and push.
* **`FiguresProofs`**: figures are folds over rows, and what they come to needs induction. The induction theorems
  of the library take an operator, which the provers cannot instantiate; here a *set* takes its
  place, and the least number outside it (`NatLeast`, from `WFMin`) is the induction. `SubsetSteps` carries
  it to finite sets, an element at a time; `FoldExists` and `FoldAnyFirst` show that the folds of the community modules exist and
  that the order of elements is of no account, and `SumAdd`, `SumUnion`, `SumByKeys`, `SumReindexed` and `FoldLeftSums` say of sums what one
  expects. Three theorems rest on it, each with the typing of its module:
  * `BalanceStated` (`BalanceAsStated`), for any record of the bank. The anchor of `current_balance`, the last stated row of
    the newest day, is the last stated movement (`AnchorFacts`); the rows it adds are the movements after it
    (`CountedFacts`); so their sum is the bank's running balance.
  * `SmallPlansEditable` (`EditsOfSmallPlansPass`), for any targets, prices, increments and catalogues, and plans of one to three items, which
    is what the code takes (`core/serializers/investment_scenarios.py`, lines 88-89). What an item can afford exceeds its target by
    no money; each percentage is half a hundredth off its share at most, the last one whatever the others leave;
    below 200.00 such an error is worth less than the tolerance (`SharesFit`, `SmallAccepted`). What an edit stores is
    a plan that recalculating leaves as it is (`RecalculatedTwice`), hence typed like the first.
  * `PagesAlwaysAgree` (`PagesAgree`), for any transactions, envelopes, goals and days of 1901 to 2099 (where each fourth year is a leap
    year). The numbers of days are in the calendar's order (`NumbersInOrder`), windows are unions of months
    (`WindowIsMonths`, `WindowsApart`), sums over them are those of the summaries (`SummariesAddUp`), and the first of a month is as near
    the average of 1461/48 days to a month as `DaysApart` says, which bounds how far calendar months and months of 30 days
    drift apart (`GoalsInTime`).
* **`DeskProofs`**: `DeskPlaysComponents`: `DeskSpec` implies the specification of each of its components
  (`PlanFigures` apart, which begins elsewhere without a plan; `FiguresStayTyped` carries its invariant to the
  desk). From it and the theorems above, `DeskTyping` (`DeskTypeOK`), `DeskShowsRecords` (`ShownAsRecorded`) and
  `DeskKeepsWord`, every other invariant of `user_desk` at once: what the run checks on one
  instance is so for all.

The disciplines (`Client`, `SinglePhase`, `WorkerSlots = 1` and the constants named `Careful...`) are hypotheses of the theorems that
need them, and each has a state that satisfies it: the runs are instances. §3 says what happens without.

Every invariant that a passing run checks is thus stated by a theorem. Model-checked only is what is out of the
prover's reach, liveness and `ENABLED`: `CallsEnd`, `WritersEnd`, `EachMessageAnswered`, and the fairness half of
`LifecycleImplemented`.

## 5. Not modelled, and what could come next

Not modelled, since nothing is decided there or nobody else takes part:

* the data export (`core/tasks/data_export.py`): reads the user's rows one table after the other into a
  file and mails a link; a snapshot that is not consistent is visible in the code and promised nowhere;
* feedback and issue triage, categories, lists and statistics: one row, written by one request;
* listing and search, the recommendation and catalogue pages, renaming of conversations: read-only, or
  a single column that no other code reads;
* the AI analysis that follows an ingestion, the HTTP clients, the mock AI client, file storage, e-mail, pages: I/O
  without decisions of their own. Where their failure matters it is an outcome of a step
  (`JobEnds`, `ReplyFails`, `ProviderFails`, `BackfillFails`, `ProductEmbed`);
* the Redis connection of the event stream, heartbeats: beyond the last event told, nothing of it is kept;
* migrations, seeding, configuration, deployment: the settings fix the interleavings (worker concurrency,
  early acknowledgement, no `ATOMIC_REQUESTS`).

Restrictions within modelled parts are in the header comment of each module. Next in line: a common instance of `BankFeed` and `SyncedLedger` in which a pushed batch is ingested row by row; a
second user in `Sessions`; a run with redelivery, should Celery's acknowledgement be changed.
