# A TLA+ model of budg

budg is a personal-finance application: a React client, a Go API
(`backend/`), and a PostgreSQL database whose schema is in
`backend/migrations/`. Users keep accounts and transactions; on top of those
the API keeps credit-card statements, savings goals, yields, instalment plans
(MSI), loans and recurring rules, and a chat agent that proposes changes and
makes them after a confirmation.

All paths below are relative to the repository; `store/` stands for
`backend/internal/store/`.

## 1. Inventory

Every repository method of `store/` runs inside one PostgreSQL transaction
(`RunScoped`, `store/postgres.go:27`) at READ COMMITTED and takes row locks
with `SELECT ... FOR UPDATE`. The API is stateless: all state that outlives a
request is in the database, and all coordination between requests is done by
row locks, unique indexes and foreign keys. Row-level security makes each user
a world of their own, so the models are of one user.

| Component | State | Operations | Makes it correct |
|---|---|---|---|
| Ledger: accounts, transactions, balance entries, statements (`accounts.go`, `transactions.go`, `balance_automation.go`, `credit_card_statements.go`) | account rows with a materialised value, transaction rows, one entry per transaction and tracked account, opening and reconciliation entries, statement links | create, edit, delete a transaction; create, patch, track, reconcile, delete an account; confirm a statement | the value of an account is explained by its entries; an entry is the effect of the current shape of a live transaction; a statement payment is backed by both accounts |
| Idempotent creates (`create_idempotency.go`, migrations 00013 and 00019) | a receipt per key and resource; a key on the transaction row | claim, complete, replay | one key, one transaction, for ever |
| Sessions (`postgres.go`, `lockTransactionAccounts`) | open transactions, the row locks they hold, what they have read | lock, read, validate, write, commit, roll back | commits are operations of the ledger; waits end |
| Savings goals (`savings_goals.go`, `savings_allocations.go`) | goals with a running amount, allocations per goal and account | create, edit, save, allocate, release, reallocate, delete | a goal's amount is the sum of its allocations; allocations share a currency; replays do nothing |
| Yields (`yields.go`) | reconciliations, their transaction, entry and goal shares | reconcile, undo | undo restores what reconcile changed; shares never exceed the yield |
| MSI purchases (`msi_purchases.go`) | purchases, instalment rows, the purchase's entry | create, edit, delete | instalments add up; the card is charged once |
| Loans (`loans.go`, `loans/engine.go`) | loans, their schedule rows | create, pay, pay extra, reconcile, undo, delete | one pending row at a time is paid, in order; undo of the latest event restores the schedule |
| Recurring rules (`recurring_transactions.go`) | rules with a start, a cadence, the next date | create, edit, process, delete | each due occurrence is materialised exactly once |
| Agent loop, tools, confirmations (`agent/`) | the rounds of one chat, stateless HMAC tokens | run tools, propose, verify, execute | nothing is changed without a confirmation; a confirmed create happens once; the loop ends |
| Statement matching (`statements/`) | none (pure) | parse, match | a transaction is matched to at most one movement |
| HTTP handlers (`httpapi/`), auth, config | none | decode, validate, call a repository | only validated requests reach the store |
| Client stores (`frontend/src/stores/`) | the chat, its active run, the pending confirmation | send, confirm, cancel, stream events | events of a superseded run change nothing |
| Client projections (`frontend/src/lib/`) | none (pure) | forecasts, periods, cycles | agree with their definitions |
| Pages and components | presentation | | |

How they interact: savings, yields, MSI purchases, loans and recurring rules
all write transactions, entries and balances through the functions of
`transactions.go` (`createTransactionWithLockedAccounts`,
`applyTransactionEffects`, `updateMaterializedBalance`), after locking the same
account rows; they mark the transactions they own by referring to them, and
`Update` and `Delete` of `transactions.go` refuse transactions so referred to.
The agent's tools call the same repositories as the HTTP handlers. The hard
behaviours are therefore (a) the order in which concurrent methods take row
locks and what they have read before, (b) retries of creates, (c) long
sequences of edits whose effects must be reversed exactly, (d) the removal of
rows others refer to, and (e) the edges of the integers.

`PROJECT.json` lists every component with its status, and every hazard at the
line where it bites, with the properties that cover it.

## 2. Plan

In order, the most important first:

1. `Ledger`: the ledger with one committed database transaction per action. *Done.*
2. `LedgerProofs`: its inductive invariant and theorems. *Done.*
3. `LedgerSessions`: the same operations lock by lock, implementing `Ledger`. *Done.*
4. `Savings`: goals and allocations over the ledger. *Done.*
5. `Confirmations`, `AgentChat`: what the assistant promises about writes, and
   the chat from the button to the tools, shown to keep it. *Done.*
6. `Submissions` over the modules of the forms: every panel of the client with
   requests and answers late or lost. *Done.*
7. `Schedules` (recurring expenses and instalment purchases) and, over it,
   `Projections`: what the client computes from the movements. *Done.*
8. `Loans` over `LoanSchedule`: payments and undos in every order, dated by the
   time their transaction began. *Done.*
9. `TotalProofs`: sums over finite sets and sequences, and with them
   `LedgerExplainsValue`, the sum of an account's entries. *Done.*
10. `SessionsProofs`: the invariant of the sessions (locks exclude each other,
   what a session read under a lock is still so) and the proof that
   `LedgerSessions` implements `Ledger`. *Done.*
11. `AgentProofs` (the invariant of the chat, and the refinement step by step)
    and `SavingsProofs`. *Done.*
12. `LoanProofs`: `DebtAccounted`, with sums that `Total` states and a schedule
    that is a recursive function; what undos restore and the calculator
    announces. *Done.*
13. `SubmissionProofs`: what holds of any form, and of each of the 47 what that
    needs. *Done.*
14. `ScheduleProofs`: the calendar, `SchedulesKept`, and `TotalsAgree`, with the
    sums of the client. *Done.*
15. `YieldLedger`: the writes of yield reconciliations, undo as an action
    property. `SavingsSessions`: goals and accounts locked in both orders
    (`UpdateGoal` against `Save`, `Allocate` and account removals), and the
    advisory lock of the currency trigger.
16. Statement matching against a reference definition.

## 3. The modules

### Ledger

One action per repository method that succeeds; a method that returns an error
is rolled back and is a stuttering step.

| State | Code |
|---|---|
| `accounts` | `accounts` rows: currency, `balance_tracking_enabled`, `credit_limit_cents`, and as `value` the column the type uses, `balance_cents` or `available_credit_cents` |
| `transactions` | `transactions` rows: the fields that decide effects (`shape`), `idempotency_key`, and whether another component owns the row |
| `entries` | `account_balance_entries` of kind `transaction`; zero stands for no row |
| `audit` | those of kind `opening` and `reconciliation`, per account, in order |
| `statements` | the account of each `credit_card_statements` row |
| `receipts` | `create_idempotency_receipts` of resource `transaction`; the hash of a request is the request |
| `openingLimit` | history: the credit limit when tracking started |

`Fresh` and `Deleted` are rows that do not exist yet or any more; ids never
come back (`gen_random_uuid`).

Abstractions: names, categories, dates, merchants, `is_active` and the yield
settings are left out; a patch that changes none of the modelled fields is a
stuttering step. An untracked account's value is any number, where the database
also allows NULL: no operation but enabling reads it. `owner = "managed"`
rows exist only as legacy rows here: how they come about belongs to the
modules of their components. A currency patch on an account with savings
allocations is refused by the code and possible here (`Savings` adds the
guard); deleting an account first
deletes its MSI purchases in the code.

The doc-comment of each property says what in the code it is about. Definitions
headed "Fault" are not part of the model: they are the mistakes each property
is shown to catch (the `mutants` of `PROJECT.json`).

### LedgerSessions

`LedgerSessions` extends `Ledger` with database sessions. A session takes a
request through the statements of its method: claim the key, lock the
transaction row, read its entries, lock the accounts one by one in id order,
then check, write and commit. It keeps what it read (`existing`, `booked`,
`rows`) and validates and computes effects from that, not from the tables:
`Seen(p)` is `Ledger` with the account rows the session has locked. `Locked`,
`LockedRow` and `claim` are the locks; a session waits for their holders.

From the last lock to `COMMIT` a session touches only rows it has locked, and
nobody sees its writes before, so these statements are one step. A rollback may
come at any point (lost connection, cancelled context, crash of the API:
`Rollback`), and PostgreSQL ends one session of a wait cycle
(`AbortDeadlocked`). Operations that lock a single row, or none, are the step
`Ledger` has for them, taken while nobody holds the row.

Not modelled: the `FOR KEY SHARE` lock on a statement row (the account locks
already exclude the only operation that removes statements), the size of the
connection pool.

### Savings

`Savings` extends `Ledger` with the goals. One action per method of
`SavingsGoalRepository` that a route reaches, one committed database
transaction each.

| State | Code |
|---|---|
| `goals` | `savings_goals` rows: `current_amount`, `target_amount`, the linked account, `is_completed` |
| `allocations` | `savings_goal_allocations` rows by id (`AllocationIds`; `Fresh`: no row has the id): goal, account, amount, key, transaction |
| `effects` | history: how often each keyed request took effect |

`Save` posts a transfer through the functions of `Ledger` and marks it
`managed` while an allocation refers to it; `DeleteGoal` gives it back to the
user. `PatchAccount` and `RemoveAccount` are the account operations with what
savings add to them: no new currency for an account with allocations
(`store/accounts.go:335`), and the foreign keys that are set to NULL. All other
operations of `Ledger` are steps of `Savings` as they are (`OtherLedgerStep`).

`Contribute` (`store/savings_goals.go:176`) is not an action: no route reaches
it any more (`httpapi/router.go:158`, and
`TestLegacySavingsGoalContributionsAreNotRouted`). The rows it made in earlier
versions are in the initial states (`LegacyAllocations`): an opening row from
the backfill of migration 00017, then perhaps a contribution, also a negative
one, booked on whatever account was linked by then. Such a goal may have a
negative share in one account, and is the reason `applySavingsGoalDelta` has to
look at the total again.

Left out: the kind and date of an allocation, the operation id that pairs the
rows of a reallocation (one action inserts both), names, sort order,
target dates, and the receipts of created goals, which work as those of
transactions.

### Confirmations and AgentChat

`Confirmations` is what `docs/agentic/phase-2-backend-agent.md` promises: an
action is offered with a token, takes effect only through a token the user
confirmed and that has not expired, and a create takes effect once per token.
`AgentChat` models one conversation and implements it (`KeepsPromise`).

| State | Code |
|---|---|
| `turns`, `toolActivity`, `loading`, `confirmationInFlight`, `pendingConfirmation`, `activeController` | the fields of `frontend/src/stores/agent.ts`; an exchange is the user's turn with its answer |
| `reader`, `wire`, `linked` | per run: the `for await` over the stream (`lib/agent/client.ts`), the frames under way, the connection |
| `server` | per run: the request in `httpapi/agent.go` and `agent/loop.go`: the calls made, the call being handled, the proposal to announce |
| `tokens`, `expired`, `confirmed`, `taken` | the HMAC tokens of `agent/confirmation.go`, which the server does not store: what was issued, what has expired, and what was done under each |
| `unnoticed` | history: runs that changed data since a query refetched it |

`Send`, `Stop`, `Reset`, `Deliver`, `Aborted` and `Finally` are the store's
code between two awaits; `Serve` is the loop, one emitted frame or tool call at
a time; `Cut` is the network. What the model asks for is any choice. A tool's
effect is one step, since it is one repository call, and a keyed create that
finds its row changes nothing (`Replayed`). Not modelled: texts, images,
prompts, several tool calls in one answer of the model, which the loop runs one
after the other as here.

### The forms and Submissions

`Forms` has what the panels share: the amounts typed and what each reader makes
of them (`toCents`, `Number`, the stricter patterns), and the cached lists with
the tables behind them. `AccountForms`, `EntryForms`, `PlanForms`, `LoanForms`,
`CardForms`, `CatalogForms` (with `Yields` for the estimate of a yield)
describe each form by a record, derived from operators that say what the panel
lets through, what the server takes of it, and what it stores. The fields of
the record are how its code handles a request: what closes the panel, whether
it waits for the answer, which lists it invalidates, where its idempotency key
comes from.

Drafts are of a panel whose lists are up to date, and carry, besides what is
typed, what the server knows and the panel does not check: whether two accounts
have one currency, what of a balance is unallocated, what a goal holds, what of
a loan is owed, whether a card is in use or has a limit. Not among them: a row
that another session removed meanwhile (of the forms of kind "once" a repeated
request is), amounts beyond the safe integers of JavaScript or the width of a
balance, and years of more than four digits.

`Submissions` lets a person use any one form.

| State | Code |
|---|---|
| `panel` | the component's `useState` and `useRef`: whether it is open, its draft and key, the mutation it follows, the result it shows |
| `attempts` | the requests sent with that form: at the client (`answer`) and at the server (`at`) |
| `list` | one query of TanStack Query: whether it has data, is stale, is being fetched, and which of the form's writes it shows |
| `form`, `terms`, `watched` | which form, its record, and the list watched |

Requests are served and answered in any order, also after the panel is closed;
an answer may be lost on either way. The sets `Unkeyed`, `RenewsKey`,
`Intruders`, `Forgotten`, `Unchecked` and `Lenient` are the exceptions to the
properties: each names forms, and the property says that no other form is one.
They are findings about the client, listed in section 7. `SubmissionProofs`
proves the properties (section 6).

### Calendar, Schedules, Windows, Forecast, Projections

`Calendar` has civil dates as day numbers and the clamping of a day to the end
of a month, and the days of 23 and 25 hours of the browser's zone.

`Schedules` is the server's side: recurring expenses (create, update, delete,
process) and instalment purchases, over movements and balances, under two
clocks (`utc`, the server's; `local`, the browser's).

| State | Code |
|---|---|
| `moves`, `value` | `transactions` rows and the balances they leave; an instalment affects no balance, the purchase charges its card once |
| `rules` | `recurring_transactions`: content, `next_date`, and the number of the occurrence it stands for |
| `purchases` | `msi_purchases` and their instalment rows |

`Windows` has the cycles of cards and budgets and the ranges of the statistics,
`Forecast` the cash-flow forecast, as operators. `Projections` extends both and
relates what each page computes to the others and to the server, over the steps
of `Schedules`: the clients' inputs are the movements as they are (how lists go
stale is in `Submissions`). The compounding of the yield estimate is the
parameter `EstimateYield`.

The calendar is finite, so `CalendarReaches` says that nothing the program does
here leaves it: it goes on for a year after the last day of the clock, for as long
as the longest purchase, and starts two months before the clock
(`ProjectionsConstants`). The other assumptions are checks of the code: the two
accounts of a transfer differ and only a transfer has a second one or pays a
statement (`transactions_transfer_shape`, migration 00004:36, and
`store/transactions.go:577`); a purchase has at least a cent per instalment; a
budget has a category, a positive limit and an id of its own.

### LoanSchedule and Loans

`LoanSchedule` is `loans/engine.go`: the interest of a month, the schedule that
repays a balance with its closing payment (a recursive function of the number of
payments, `WithPayment` being one turn of the loop), and the simulation of an
extra payment. `Loans` is one loan and the methods of `store/loans.go`.

| State | Code |
|---|---|
| `loan` | the `loans` row: terms, paying account, status |
| `settled` | `loan_payments` that are `paid` or `adjustment`, in the order of `created_at`: monthly payments are numbered, extra payments 0, adjustments -1 |
| `pending` | `loan_payments` that are `pending`, by sequence |
| `receipts`, `spent` | keys of extra payments; what the expenses of the loan took from each account |
| `late` | where in `settled` an event of a request will be dated that began, and waits for the row |

`was` and `since` of an event are history: what was pending when it took
effect, and how many events there were. Every event rebuilds the pending rows
(`Regenerate`). Because a rebuilt row has a new id, a payment cannot be the
request that waited. `CalendarReaches` says of the calendar of the model, which is
finite, that it goes on for a schedule and an event a month after every start and
every day an event may have. Left out: names, categories, loans of other users, and the
replays of keyed creates, extra payments and payments already made.

### MC modules

`MCLedger`, `MCSavings`, `MCSessions`, `MCAgent`, `MCSubmissions`,
`MCProjections` and `MCLoans` give the constants small values, and
`MCSessions` the requests each run interleaves.

## 4. The runs

| Run | Asks | Instance |
|---|---|---|
| `ledger_core` | do values, entries, transactions and links stay consistent under every operation, also at the edges of the integers | an untracked legacy debit account and a card with limits 1 and 2, 2 transactions, 1 statement, bigint -3..2, counts -3 and 1: additions fail, and the delta 1 - (-3) of a reconciliation wraps |
| `ledger_limit_claim`, `ledger_history_claim` | two sentences of the documents the code does not keep | see section 7 |
| `savings_goals` | do a goal's completion and what was saved agree with the rows behind them | 1 goal, possibly a legacy one; a tracked and a legacy account, 1 transaction, up to 3 allocation rows, portions -1 and 1, targets 1 and 2 |
| `savings_retries` | does a keyed request happen once, is a goal's amount the sum of its allocations, and do all allocations share a currency | 2 goals, one possibly a legacy one, 2 accounts, 2 currencies, 2 keys, up to 3 rows |
| `sessions_transfers` | is every commit an operation of `Ledger`; can transactions deadlock | 2 sessions, 3 requests out of a statement payment, an expense, edits that turn a transaction round or link it, a delete, both removals; single-row operations in between |
| `sessions_replays` | what do retries of a key get, may they create anything twice, and does every request end | 2 sessions, 3 requests: creates of three shapes under one key, an edit and a delete of what it made, both removals; accounts counted, and once reconciled, at the largest bigint, so that a delete may be refused; no symmetry, since fairness is checked |
| `agent_chat` | are writes made only as promised, and does the chat say what happened | 3 messages, 1 tool call each, a create, a change and a lookup, 2 tokens of which 1 expires, 1 connection broken |
| `client_submissions` | which drafts are stored twice, misread or refused, which lists stay wrong, which late answers intrude | each of the 47 forms, 2 openings, 2 requests, 1 edit; or 1 opening with one of the lists it affects |
| `projections` | do the pages, the forecast and the server agree | from 31 January to 1 February and from 28 February to 1 March of a leap year; a tracked account, a card, an untracked account; 1 rule and 1 purchase with 2 contents each, 4 movements of which 1 is recorded; cards cut on 15, 28, 30 or 31 and due on 10 or 31; 4 budgets; a year of windows |
| `loans` | is the debt accounted for, and are undos and simulations exact | a loan of 591.50 at 12 % from 31 January, 3 payments of 300 at most; up to 3 events out of payments as scheduled, with insurance, or badly split, extra payments of 100 or of all that is left, a reconciliation that raises the debt; on 20 January or 10 February; 2 accounts that can pay and one that cannot; one request that waits |
| `loans_due_claim` | a comment the code does not keep | see section 7 |

Why the bounds are enough: an entry links one transaction to one account and a
transaction touches at most two accounts, so two transactions over two accounts
show every overlap; a reallocation relates two goals and one account, and a
release after one leaves a third row; two sessions are enough for a lost
update, for a lock inversion, and for a retry that waits for one that is rolled
back. `HalfRange` is small on purpose: with 4 to 8 values of bigint the refused
additions and the wrapped delta happen within a few steps. Three messages show
a proposal, its confirmation and its retry, with one of them overtaken. Two
openings and two requests show every late answer and every retry: a form keeps
nothing of the opening before the last. The dates are those on which days are
clamped and the clocks differ. Three events of a loan are the least with a
payment, something that changes the debt after it, and an undo of either while
another stands; the second payment of the instance closes within the 100 cents
that the last payment takes in, and terms of one month do not amortize.

`MaxReconciliations`, `MaxRequests`, `MaxSends`, `MaxTokens`,
`MaxExpired`, `MaxInFlight`, `MaxBroken`, `MaxOpenings`, `MaxAttempts`,
`MaxEdits`, `MaxRecorded` and `MaxEvents` bound what would otherwise grow for
ever; `Periods` shortens the 600 months of a rebuilt schedule, which the
instance never reaches; the allocation ids of an instance bound its rows; `MaxMessages` and `MaxToolCalls` are limits of the
code, here small. Transaction and allocation ids, sessions, accounts and
keys are interchangeable in the runs that declare symmetry; the runs with liveness
declare none. `CHECK_DEADLOCK FALSE` everywhere: when every bound is used up
and every account is deleted, nothing is left to do.

## 5. Fairness

`LedgerSessions` assumes weak fairness of each session's next statement and of
PostgreSQL's deadlock detector. The first is what a running API and database
give a request that waits for nobody: a goroutine and a backend process that
are scheduled. The second is PostgreSQL's `deadlock_timeout`. Nothing is
assumed of clients (no request need ever start) nor of failures. Weak fairness
of `Proceed` is enough because requests are bounded in the run: a session
cannot be overtaken for ever. Without it a row lock that is never free when a
session looks would need PostgreSQL's queueing of waiters.

`AgentChat` assumes weak fairness of each run's server and of each run's
reader, never of the user or the network. The endpoint has a deadline
(`httpapi/agent.go`), so a request it has taken ends by an answer, an error or
by noticing that the client is gone; the browser runs the continuation of a
read that has something to return. A connection that stays up and delivers
nothing is ended by that deadline. `ComposerReopens` follows: whenever the chat
is waiting for an answer, it stops waiting.

`Submissions`, `Schedules`, `Projections` and `Loans` state no fairness: they
have no liveness property, since everything in them waits for a person.

## 6. Proofs

Proved for all values of the constants that satisfy the named assumptions
(`LedgerConstants`, `SessionConstants`, `SavingsConstants`, `ChatConstants`,
`CreatesAreActions`, `SubmissionsConstants`, `LoansConstants`,
`CalendarConstants`, `SchedulesConstants`, `CalendarReaches`,
`ProjectionsConstants`): any accounts, keys, goals, sessions, messages, openings
and requests, any width of bigint, any terms of a loan, any years, rules,
purchases and budgets, histories of any length. Eight modules hold the proofs;
every safety invariant the runs check is a theorem, and so are both refinements
and every action property. Three theorems about the projections have hypotheses
of their own, which their rows name.

| Theorem | States |
|---|---|
| **`LedgerProofs`** | |
| `Invariance` | `Spec => []IInv` |
| `TypeCorrect` | `Spec => []TypeOK` |
| `EntriesFollow` | `Spec => []EntriesFollowTransactions` |
| `PaymentsBacked` | `Spec => []StatementPaymentsBacked` |
| `LedgerExplained` | `Spec => []LedgerExplainsValue` |
| `ReceiptsName` | `Spec => []ReceiptNamesItsTransaction` |
| `ReplaysCreateNothing` | `Spec => RetriesCreateNothing` |
| `EffectsStay` | `Spec => EffectsStayRecorded` |
| **`SessionsProofs`** | |
| `SessionsInvariance` | `SessionsSpec => []SInv` |
| `SessionsTypeCorrect` | `SessionsSpec => []SessionsTypeOK` |
| `LedgerImplemented` | `SessionsSpec => ImplementsLedger` (the steps of `Ledger!Spec`) |
| `NoDeadlockWithoutRemoval` | `SessionsSpec => []OnlyRemovalsDeadlock` |
| `SameAnswer` | `SessionsSpec => []SameKeySameAnswer` |
| `ReceiptsNameUnderSessions`, `RetriesCreateNothingUnderSessions`, `LedgerExplainedUnderSessions` | the theorems of `Ledger`, of concurrent requests |
| **`SavingsProofs`** | |
| `SavingsInvariance` | `SavingsSpec => []SavingsInv` |
| `SavingsTypeCorrect`, `CompletionIsDerived`, `GoalsSum`, `CurrencyShared`, `SavedBacked`, `RequestsOnce` | `SavingsTypeOK`, `CompletionDerived`, `GoalsSumAllocations`, `AllocationsShareCurrency`, `SavedTransfersBacked`, `OncePerRequest` |
| `LedgerExplainedUnderSavings`, `EntriesFollowUnderSavings` | the theorems of `Ledger`, with the transfers of savings |
| **`AgentProofs`** | |
| `Invariance` | `AgentSpec => []IInv` |
| `AgentTypeCorrect`, `ComposerBlocked`, `HeadingTrue`, `PendingIsLatest`, `OversizedSticks` | `AgentTypeOK`, `BlockedWhileAnswering`, `HeadingTellsTruth`, `PendingIsLatestProposal`, `OversizedHistorySticks` |
| `ChangesNoticed` | `AgentSpec => CompletedChangesAreNoticed` |
| `PromiseKept` | `AgentSpec => KeepsPromise` (the specification of `Confirmations`) |
| `OnlyConfirmed`, `AssistantKeepsToConfirmed` | what that specification promises of actions and creates, of itself and of the assistant |
| **`SubmissionProofs`** | |
| `FormsKnown` | of each of the 47 forms, how its panel, key, lists and outcomes are |
| `SubmissionsInvariant` | `Spec => []SubmissionsInv` |
| `SubmissionsTyped`, `DraftsStoredOnce`, `ErrorsOfThisOpening`, `ListsAreTrue`, `SubmittedStored` | `SubmissionsTypeOK`, `DraftStoredOnce`, `ErrorsAreOfThisOpening`, `FreshListsAreTrue`, `SubmittedIsStored` |
| `LateAnswersKept` | `Spec => LateAnswersKeepOut` |
| **`LoanProofs`** | |
| `LoansInvariant` | `Spec => []LoanInv` |
| `LoansAccounted` | `Spec => []DebtAccounted` |
| `PlansKept` | `Spec => []PlanInv` |
| `LoansTyped` | `Spec => []LoansTypeOK` |
| `UndoesTakeBack`, `UndoesRestore`, `ExtrasDoAsSimulated` | `UndoTakesBack`, `UndoRestores`, `ExtrasAsSimulated` |
| `StepsDoAsAnnounced` | `Spec => StepsAsAnnounced` (the three together) |
| `ScheduleRows` | of any debt and any terms, the rows `BuildSchedule` makes are numbered from 1, of amounts that are not negative, and only a debt has rows |
| **`ScheduleProofs`** | |
| `SchedulesInvariant` | `Spec => []ScheduleInv` |
| `ProjectionsTyped`, `SchedulesAreKept` | `ProjectionsTypeOK`, `SchedulesKept` |
| `TotalsAlwaysAgree` | `Spec => []TotalsAgree`, if `WholeYields`: every yield `EstimateYield` promises is in whole cents, as `estimateYieldCents` rounds it (`frontend/src/lib/yield.ts:20`) |
| `CurveAlwaysStands` | `Spec => CurveStandsStill`, if `WholeYields` |
| `WindowsAlwaysTile` | `Spec => WindowsTile`, if `WindowsReach` (the calendar spans eleven months before the clock starts and twenty-six after it stops) and `TwoOffsets` (the browser's zone has at most two offsets, an hour apart) |

### Sums

`Totals` defines the sum of a function over a finite set by the recursive
function of its partial sums. That it exists and does not depend on the order
is an induction over finite sets, for which the provers here have no rule.
`TotalProofs` does without: of the sets for which a statement fails it takes a
minimal one (`SmallestSubset`, from the well-ordering of cardinalities), takes
an element out, and contradicts. From this follow what the other proofs cite:
`TotalSplit`, `TotalMoved` (one value changed moves the sum by the difference),
`TotalZero`, `TotalAppend`, `TotalInserted` (a sequence with one element more,
in whatever place, has a sum larger by that element), and the rules of remainders. `GreatestNumber` is
the same argument for the greatest of a finite set of numbers.

### The ledger

The invariants are not inductive on their own. `EntriesFollowTransactions` does
not say that a deleted or fresh row has no entries of its own accord: it needs
that every shape stored is valid (`ShapesValid`), so that a transfer's two
accounts differ and an amount is not zero. `StatementPaymentsBacked` needs the
same and `EntriesFollowTransactions`. `ReceiptNamesItsTransaction` needs that
no two live rows share a key (`KeysUnique`, the unique index) and that a
receipt's resource is not a row still to be made. `IInv` is the conjunction;
there is one lemma per action and conjunct that the action can disturb, and a
lemma each on the operators: what `Posted` puts in the ledger, which rows
`Replace` keeps, that `Wrap` stays in range.

`LedgerExplainsValue` compares an account's value with the sum of its entries.
All additions but one refuse an overflow; `reconciliation_delta` wraps. So the
proof carries the sum in two steps: an exact one, by `TotalMoved` and
`TotalAppend` on the change an action makes, and one of remainders, that what
is equal modulo the width stays so when both sides move by amounts that are
equal modulo the width. The audit rows of an account are a sequence, its
transaction rows a table over `Ids`, which is why `LedgerConstants` asks for a
finite `Ids`: at any time finitely many rows were ever made.

### The sessions

`LedgerSessions` reads at one step and writes at a later one. `SInv` says what
must still be so in between: every session is where the statements of its
request put it (`RequestsFollowed`), what it read under a lock is what the
tables hold (`ReadsStayTrue`), no row or key is locked twice (`LocksExclude`),
no session waits for an account below one it holds (`LocksOrdered`), and an
answer under a key is what the key's receipt names (`AnswersReceipted`).

From `ReadsStayTrue` a commit computes from its reads what it would compute
from the tables; then every commit is the action of `Ledger` of the same name,
and `IInv` and the properties of `Ledger` follow for the sessions.
`NoDeadlockWithoutRemoval` takes a wait cycle, a set of sessions that block each
other and no part of which does, without a removal. By `LocksOrdered` whoever
holds the account one of them waits for waits for a higher one, so those that
wait above it block each other; they are the whole cycle, the first session
included, which cannot wait above itself. No induction along the cycle is
needed. A removal locks one account and then what refers to it, in no
order: those cycles are real (`deadlock` among the hazards), and the theorem is
that there are no others.

### The goals

`SavingsInv` adds four parts to what the runs check. `ReferencesExist`: the
foreign keys of an allocation. `SavedTransfersOwned`: a saved row's transfer is
`managed`, pays no statement, is in the ledger of both accounts, and no second
row refers to it; so neither an edit nor the removal of a statement can take it
away. `GoalsSumAllocations` needs `SavingsTypeOK`, so that an addition that is
refused leaves the sum alone. `EffectsClaimed`: `OncePerRequest` counts effects,
which no operation reads; what stops a second one is the key on the row, on the
allocation for a release or reallocation and on the transfer for a saving, as
long as the goal is there, and the goal's absence afterwards (`Claimed`).

The allocation rows are a table over `AllocationIds`, not a list: an insertion
then touches one value (`TotalMoved`), and a deletion removes those of the goal
that is deleted, so that the sums of all the others stay.

### The assistant

What is on screen and what the loop at the server did are apart by a stream. The
invariant relates them frame by frame (`StreamInOrder`): the tools of a run come
started and answered in turn, so the steps on screen and the frames still under
way add up to the position of the loop. With it a step that is answered on
screen is the last one and was running (`StepsSettled`); a token named anywhere
was issued (`TokensNamed`); the run the store holds is the one the last turn
waits for (`RunsMatchTurns`), so the frames of an abandoned run find no reader;
and a conversation that has outgrown the endpoint gets no `completed`
(`OversizedUnanswered`).

`PromiseKept` takes the actions of `AgentChat` one by one: `SendConfirmation`,
`TokenExpires`, `Proposes` and `Executes` are steps of `Confirmations`, every
other action leaves its variables alone. That an executed token was confirmed
needs `TokensNamed`.

### The forms

The properties name the forms that are exceptions, so the proof has two parts.
The first goes through the forms (`FormsKnown`, by `AccountFormsKnown` and so on)
and proves of each record what the second needs: that nothing is forgotten
between the tables it writes and the lists it refetches (`ListsAffected`,
`ListsCovered`), that a form which creates carries a key, that whatever its panel
lets through is taken by the server and is stored as typed
(`DraftsTaken`, `DraftsShown`, over the texts and amounts of `Forms`), and that
its panel forgets the last request when it opens or when it closes; or the form
is in the set that says otherwise.

The second takes any form of which that is known. `SubmissionsInv` has what the
properties take for granted:

- `FollowsItsOwn`: the request a panel follows was sent from its opening. It
  holds because a panel that does not reset when it opens has reset when it
  closed.
- `StaysForAnswer`: where neither closing nor a second submission is possible
  before the answer, the request under way is the one followed. With it an answer
  that closes whatever is open, closes the panel it was sent from
  (`LateAnswersKeepOut`).
- `DraftsKeepKey` and `KeysStoreOnce`: one key per draft, one row per key. The
  key changes where the draft does, except where a mode is chosen, which is why
  `ManageGoal` is an exception.
- `ToldIsShown`: a fetch that has read, or the data of a fresh list, has every
  success the client was told of. A fetch under way when a success arrives is
  dropped, unless it is the first (`raced`).

### The loans

What is pending is thrown away and rebuilt by every event, so `DebtAccounted` is
about the schedule on the one side and about the settled events on the other.

Of the schedule, `BuildSchedule` is a recursive function, and that it exists is
once more an induction: `SchedulesExist` takes the least number of payments for
which there is no such function, and extends the one before it. `ScheduleRows`
then takes the least number of payments whose rows are not what it says. A row
never takes more than is still owed, nor a negative amount, because the interest
of a month shrinks with the debt (`InterestGrows`, over the rounding of a
quotient, `QuotientsGrow`) and the payment exceeds the interest of the first
month (`Amortizes`, the check in `Validate`).

Of the events, a request that waited puts its event before others that were
committed while it waited. `Inserts(u, s, k)` says that u is s with one element
more at place k, and the lemmas about sums, numbers and order are stated of it;
an event at the end is the case of `Pay`, one removed from the end that of
`Undo`. `LoanInv` has, besides the types:

- `InOrder`: the numbers of the monthly payments are those from 1 on, each once.
  `DebtAccounted` counts them; what keeps them so is that the last number is that
  of the greatest, and the first pending row is numbered one more (`Follow`).
- `PendingRepay`: the pending rows add up to the debt, and none is pending
  exactly when the loan is paid off. It comes from the refusal of a schedule that
  does not close (`Closes`).
- `NeverBelow`: of every beginning of the events that is dated as it took effect,
  what is owed after it is not negative. `DebtAccounted` says it of all events
  only, which an undo would not preserve.
- `ExpensesBooked`: an account lost what the events that name it paid.

What undos and simulations promise compares two schedules, built at different
times, row by row. `PlanInv` says what each is:

- What is pending is `BuildSchedule` of what is owed, from some month on, numbered
  after the payments made (`IsPlan`). The month is not the one the terms give:
  an undo or a payment after the loan was paid off may move it.
- An event that took effect right after those before it (`FoundPlan`) found the
  schedule of what these left; one that had waited found another, and that is
  why `UndoRestores` speaks of the newest only. When an event is undone and others
  are recorded, those before it are the same list still.
- Since someone began to wait for the loan, each event took effect after those
  before it (`SinceWaiting`): the one that waited goes before them, and none of
  them is `Newest` any more.
- The month a plan starts in leaves the calendar the months of a whole schedule,
  and one more for each payment that may come (`Ahead`); it is why
  `CalendarReaches` of `Loans` is assumed. A date that falls into a month too
  short for it moves one month on at most (`LaterMonths`), and a numbered payment
  is due in a month that leaves room from its number on (`PlannedEvent`), which is
  where its undo starts again.

The rest is about the schedule. Two of the same debt and terms have the same
amounts whenever they start (`SameSchedule`). One that repays the debt is the
same for any longer number of months (`ScheduleSettles`), and for as many as it
has rows (`ScheduleLength`). A smaller debt is repaid in the months of a larger
one (`LessIsRepaid`), since a payment leaves no more of it (`LessIsLeft`: less
interest, and the closing payment of a residue does not turn the order round).
The calculator asks for as many months as are pending and the payment for 600:
by these lemmas it makes no difference (`SmallerSchedule`). Each takes a least
counterexample, of `ScheduleUnfolds`.

### The schedules

That the calendar is a function, that each of its dates is in one month, and that
dates and months have the same order is proved first (`FirstDaysExist`,
`MonthsInOrder`, `DatesHaveMonths`, `DatesInOrder`): `FirstDays` is recursive, and
once more a least counterexample stands in for an induction.

`SchedulesKept` is about the movements, which other actions add to. `ScheduleInv`
says of them:

- `ClockInv`, `RowsInv`: the clocks are at most a day apart and within their
  bounds; the types.
- `RulesInv`: what is charged for a rule is dated once (`OnceIn`), and of a stored
  rule (`Covers`) `next` is an occurrence of its schedule, the dates charged from
  the schedule's first occurrence on are just the occurrences before that one,
  and no date charged, by this schedule or an earlier one, is `next` or later.
  Without the last part an edit that moves a rule back could charge a day again;
  it cannot, because an edit aligns the rule after today, and whatever was charged
  is past (`RowKept`).
- `PurchasesInv`: the movements of a stored purchase are its instalments, in
  order, and of any other purchase there are none.
- `BalancesInv`: a balance is its opening with the effects of the movements and
  the purchases that stand.

`Process` charges what every rule is due in one step. `DueIs` counts the
occurrences before the next day, and `AlignedIs` finds the first occurrence
on or after a date, both by the order of occurrences; `FlattenSeq` joins what the
rules add, and `DatesFlattened` takes the shortest list of rules for which
the dates in the whole are not those of its parts. Balances move by
`EffectOfJoined`, the sum over a sequence put together from two.

### The totals

Each part of `TotalsAgree` says that two sums over different sets, computed by
different pages, are equal or bound each other. The proofs bring both to sums
over the same index and compare element by element: `TotalPlus` adds two sums,
`TotalWithin` takes one from a set to a larger one where the rest is zero,
`TotalSwapped` exchanges the order of summation, `TotalOne` has one element that
counts.

- `CyclesExplained`, `FlowsExplained`: what a movement changes of a card's debt,
  or of net worth (`ValueChange`, `WorthChange`), is what the cycle, or the
  month, counts of it, by its type and its accounts. For net worth the movements are
  summed over the accounts and the accounts over the movements.
- `MonthsSaySame`: dashboard, statistics and calendar split the same movements by
  type (`TypeTotalSplit`).
- `SpendingExplained`: one movement may be counted for several budgets of its
  category; the rule that applies on a day is unique since ids are
  (`LatestIs`, `ApplicableAre`).
- `AnticipationExplained`: a rule's occurrences to come are the dates its schedule
  charges next, which needs `RulesInv`.
- `SpendingOnce`: over the horizon the forecast takes the larger of the bills and
  the usual spending, to half a cent a day, by the rounding of a quotient
  (`SpreadOut`).

### The curve

`CurveAlwaysStands` is the one theorem about what two computations, one in the
browser and one in the server, say of the same day at two times.

- The past: `PastIs` writes the value of a day as a balance less the effects of
  the later movements. A step that posts movements adds their effects to the
  balance and those of the later ones to what is taken off, so the difference is
  that of the earlier ones (`PastKept`, by `TotalJoined`, the sum over a list put
  together from two).
- The future: `Upcoming` says of a rule and a date that the date is an occurrence
  of the schedule that was not charged. `FirstFromIs` shows that the
  fast-forward of the forecast finds the first of them, `OccurrencesAre` that its
  steps, from month to month, find them all; both read `next`, which `RulesInv`
  ties to the schedule. So the payments announced are the upcoming dates and the
  instalments (`PaymentsListed`).
- The server's side: when `Process` runs, the upcoming dates of a rule are those
  that stay upcoming and those it charged, disjoint (`NoLongerUpcoming`,
  `UpcomingSplit`); each was posted once (`PostedAre`, from `OnceIn`). So the
  forecast drops exactly the payments that were posted for the coming days
  (`PaymentsMade`), and the cash it starts from falls by those charged to a
  tracked account that holds cash (`CashSpent`). `ProcessKeepsLine` adds the two;
  `MidnightKeepsLine` leaves out the day that passed (`DayForgotten`).

### The windows

`WindowsAlwaysTile` is about dates alone, and its proof about how the months are
laid out: `MonthFollows` (one starts the day after the other ends), `ClampsInOrder`
(a clamped day is in the order of its month, and two that are clamped alike are
past the end of February).

- Cards: the client looks for the cut in the month of today and in the next.
  `OpenEndIs` shows that it finds the one today is before, `CyclesFollow` that the
  next day is in the same cycle or, after the cut, in the next, and `DuesInOrder`
  that payments fall due in the order of the cuts.
- Budgets: `WeeklyCount` and `YearlyCount` show that the period counted has today
  in it; dates that increase are followed in order (`CountsFollow`).
- Statistics: `PreviousRange` takes days off as 24 hours each and then asks for
  the date of the instant. With two offsets midnights are in order
  (`MidnightsInOrder`), an instant has one date (`DateAtIs`), and rounding recovers
  the length of a range (`LengthIs`); where the clock does not spring forward
  the instant falls on the day meant (`PreviousTiles`). That hypothesis of the
  property is needed: the run has a spring change, and the comparison is a day off
  across it. Snapshots a week apart fall on midnights while the clock stands
  (`WeeksCover`).

The hypotheses only say that the finite calendar of the model is long enough
(`WindowsReach`; dates in the program have no end) and that no zone changes its
standard time for good within it (`TwoOffsets`). The constants of the run satisfy
both.

### Model-checked only

Liveness (`ComposerReopens`, `EveryRequestEnds`): fairness and `ENABLED` are out
of the prover's reach. The bounds of `MCSavings`, `MCSessions` and the others bound the
runs alone, except where they are guards (`MaxReconciliations`, `MaxRequests`,
`MaxSends`, `MaxTokens`, `MaxExpired`, `MaxInFlight`, `MaxBroken`, `MaxOpenings`,
`MaxAttempts`, `MaxEdits`): there the theorems hold for any number. What a person
types in a form is one of the few texts of `Forms`, in the proofs as in the runs.

## 7. Where the documents and the code part

- `docs/account-balance-automation-spec.md:175`: "Opening plus subsequent
  deltas equals the materialized account value." A change of the credit limit
  of a tracked card moves `available_credit_cents` (`store/accounts.go:352`)
  and writes no entry. `LedgerExplainsValue` states what does hold: the value
  is explained by the entries and by how far the limit moved.
- `backend/migrations/00011_balance_automation_rollout_safety.sql:3`: rows
  without entries are marked historical "so later edits cannot apply or
  reverse a balance effect that never happened." A transaction created on an
  untracked account also has no entry, but stays `affects_balance`; the first
  edit of its shape after tracking starts posts the whole amount
  (`store/transactions.go:311`).
- `docs/api-contract.md:120`: cross-currency transfers are rejected. The
  currency of an account may still be patched when transfers refer to it
  (`store/accounts.go:335`), so an existing transfer may come to connect two.
- `docs/api-contract.md:539` and `docs/backend/03-api-roadmap.md:257` describe
  contributions to goals, with an `Idempotency-Key`. Their route is gone, and
  the repository method that is left takes no key
  (`store/savings_goals.go:176`).

The first two are the runs `ledger_limit_claim` and `ledger_history_claim`; the
next two can be read off the code.

### The server

- `store/loans.go:744`: pending rows are rebuilt "while preserving the next due
  date". When an extra payment or a reconciliation leaves no debt, no pending
  row is left to take the date from. Undoing it starts the schedule in the month
  of the event (`fallback`, line 770): run `loans_due_claim` pays January on
  the 20th, prepays the rest and undoes it, and the payment of February is due
  in January. Without a fallback (a reconciliation that brings the debt back)
  the date is `StartDate.AddDate(0, n, 0)` (line 767), which for a day the
  month lacks is in the month after it: a month is skipped.
- `store/loans.go:874`: events are ordered by `created_at = now()`, the time
  the transaction began. An extra payment that began before a reconciliation
  and waited for the row is dated before it. Undo then takes back the
  reconciliation that raised the debt, and the extra payment may be more than
  what was owed before: the remaining debt is negative and the loan is paid
  off. `DebtAccounted` therefore promises a debt that is not negative only to
  events dated as they were committed (`Chronological`).
- `store/categories.go`: deleting a category that any transaction, instalment
  purchase or rule uses always fails. The foreign keys of migrations 00004:28,
  00008:31 and 00009:26 are composite with a bare `ON DELETE SET NULL`, which
  would null `user_id`; migration 00020:17 repairs the one of goals only.
- `PATCH /transactions/{id}` cannot turn a transfer into an expense or income:
  the blank `transferTo` the client sends counts as absent, and the old one is
  kept and refused. Clearing the merchant is dropped in the same way, silently.
- Nothing advances `installments_paid`, the next instalment's date, or the
  status of an instalment purchase.
- `Process` posts every past occurrence of a rule at once; selects by the
  database's date while the client announces by its own; and runs only when a
  session starts. Its success refetches neither goals nor the overview.
- A keyed `Save` shares the unique index of the transactions' keys without
  their receipts: a key used for both would leave a row whose key has a receipt
  that names another. The client draws each key afresh.

### The client

Each item is an exception that a property of `client_submissions`,
`agent_chat` or `projections` has to name; with it removed, the run fails.

- Creates without a key (`Unkeyed`) are stored twice when an answer is lost and
  the draft sent again, and a rule toggled twice is back where it was;
  choosing a savings mode renews the key of the same draft (`RenewsKey`).
- The handlers of five panels (`Intruders`) are set on the mutation hook and
  close, or fill, whatever the panel shows when an answer comes late.
  `ActivateTracking` shows no error.
- Lists not refetched (`Forgotten`): the savings overview after most movements;
  instalments, rules, goals and yields after an account is removed; budgets and
  rules after a category is; and any list whose first load was under way.
  `hooks/useTransactionMutations.ts:6` says "Invalidate every query that depends
  on transactions."; the key `dashboard` it invalidates has no query, and the
  overview is left out. `app/providers.tsx:14` makes data fresh for five minutes,
  with no retry and no refetch on focus, so nothing repairs it soon.
- Amounts read by `toCents` turn "1,5" into 15 and "1e3" into 13; a patch leaves
  out what was cleared; the panels of a goal and of a loan start from an account
  they need not list, and send it (`Lenient`).
- Of the 47 forms, 27 let through what the server refuses (`Unchecked`), by
  checks the panel does not make: what is unallocated or
  a goal's share (`ManageGoal`), currencies (`SaveToGoal` and the transfers), the
  debt and the account of a loan, a card's limit (`ActivateTracking`) or whether
  it is in use, the order of a statement's dates, what became of a yield
  (`UndoYield`), and the rules on texts, limits, instalments and dates. The other
  20 submit nothing the server refuses, of the drafts described in section 3.
- A history past the endpoint's limits makes every later message of the chat
  fail until it is reset. Changes executed in an exchange that then fails are
  not refetched.
- `lib/cash-flow-forecast.ts:227`: "Starting liquid cash: active debit accounts
  in MXN"; there is no filter on the currency. The forecast announces payments
  charged to a card as cash, and forgets overdue occurrences that the server
  will still post.
- `lib/net-worth-timeline.ts` undoes movements of untracked accounts, which
  never moved their value; leaves an account out on the day its tracking
  starts (line 99); and is shifted by the principal of instalment purchases,
  which reaches the card without a movement.
- The dashboard cuts past months at today's day of the month, the statistics do
  not, the calendar includes movements dated ahead, and so does the dashboard's
  net worth.
- `lib/stats-range.ts` measures days of 24 hours: around a change of the clock
  the previous range is a day off, although line 82 says "same length in days";
  line 124, "Always starts at range.start", does not hold for ranges of more than
  70 days.
- Two consecutive statements of a card with a cut on 28 or later and a later due
  day may fall due on the same day (at the end of February).

## 8. Not modelled

The components with status `not_modelled` in `PROJECT.json`, each with its
reason there; among them token verification, configuration, the provider's
client, the extraction of statement text and, so far, the matching of
statements. In the modelled ones: status codes and messages, listing and
ordering of results, names and wording, whether an account is active, the
connection pool, and row-level security (each model is one user's world).

Of the server: the writes of yield reconciliations (`YieldLedger` is planned;
what their requests are refused for is in `Yields` and `CardForms`); the
replays of keyed instalment purchases, rules and loans; purchases older than
the balance entries; how the locks of `Savings`, `Schedules` and `Loans`
interleave with each other, beyond one request that waits in `Loans`.

Of the client: what survives a sign-out, `stores/auth.ts`, the theme, filters,
sorting, charts, navigation, the settings page and the loan calculator's panel;
and the compounding inside the yield estimate, which is a parameter.
