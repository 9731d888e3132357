# LaPince backend: TLA+ models, checks and proofs

LaPince is an Express / Prisma / PostgreSQL API for shared expenses: a user keeps
projects, a project has participants, expenses ("operations") with the share of each
participant, at most one budget, and alerts raised when the expenses reach a percentage
of it. This directory holds TLA+ modules that model what the program does to its state,
the TLC configurations that check them on small instances, and TLAPS proofs about seven
of the models for every value of their constants.

Paths below are relative to the repository (`src/services/...`, `prisma/seed.ts`).

## 1. The system

One Node process (or several: nothing depends on there being one) serves HTTP requests.
Node runs one callback at a time, so the code between two `await`s is atomic; every
`await` of a database call lets other requests run. Four kinds of state exist:

| state | where | written by |
|---|---|---|
| rows and sequences | PostgreSQL | services, through Prisma, and the seeding script |
| the refresh cookie | each browser | answers of register, login, refresh, logout |
| the projects shown and the cursor | each client | the pages of the dashboard |
| locals of a handler between two awaits | memory | the handler |

### Components

| component | code | state | operations that change it | what is hard | what makes it correct |
|---|---|---|---|---|---|
| Sessions | `src/services/token.service.ts`, `src/controllers/auth.controller.ts` | rows of `refresh_token`, the cookie | open, rotate, clean up, revoke; set and clear the cookie | refreshes and logouts of several tabs, check-then-act on the expiry date, lost or reordered answers | a token is used once, one valid token per session, the cookie never goes back, failures close nothing |
| Accounts | `src/services/auth.service.ts`, `src/controllers/auth.controller.ts` | `app_user` and a whole demo project | register, log in | two registrations with one email; the session is opened after the commit; ids taken by transactions that fail | an account is whole, and belongs to whoever was told so |
| Seed data | `prisma/seed.ts` | all tables, the sequences | upsert after upsert, then `setval` | looks for rows by ids it does not create them with; dies and is run again; runs beside registrations | every name means its own row, and the sequences it leaves are beyond all ids |
| Budget alerts | `src/services/alert.service.ts`, `src/services/operations.service.ts`, budget half of `src/services/projects.service.ts` | rows of `operation`, `budget`, `alert` | create, update, delete an expense; create, change, delete the budget; mark an alert | sums and existence checks under READ COMMITTED, a read outside the transaction, foreign keys, deadlocks | an alert exists when and only when the threshold is reached, each belongs to the current budget, duplicates are bounded |
| Ledger | `src/services/participants.service.ts`, shares in `src/services/operations.service.ts` | rows of `participant`, `project_participant`, `operation`, `operation_participant` | record, change, delete an expense; replace the participants | the list of participants is read before the transaction; count-then-delete; cascades and restrictions; payers and sharers of another project | whom an expense refers to stays, balances sum to zero |
| Balances and reimbursements | `src/services/balance.service.ts`, `src/lib/greedy.ts`, balances of the dashboard in `src/services/projects.service.ts` | locals of a handler | none | several SELECTs without a transaction; a loop that nothing interrupts; two computations of one figure | what is shown is what the ledger says; the loop ends, overpays nobody, makes at most n-1 payments |
| Projects and their dashboard | `src/services/projects.service.ts` | rows of `project`, the client's cursor | create, update, delete a project; ask for a page | pages ordered by a date that moves, continued from an id that may be gone | no project is skipped or repeated without a cause, the scroll ends |
| Ownership, error handler, schemas | `src/lib/projectOwner.ts`, `src/middlewares/errorHandler.middleware.ts`, `src/schemas/` | none | none | the ownership check is a query before the write | |
| Budget figures, categories, access tokens, rate limiter, routers, configuration | see `PROJECT.json` | none, or a library's | none | | |

They interact through the tables: operations call `checkAndCreateAlert` and
`resolveAlertIfNeeded` inside their own transaction; project updates call
`resolveAlertIfNeeded`; deleting a budget deletes its alerts by cascade; deleting a
participant is refused by the foreign key of the payer (`Restrict`) and takes its shares
away by that of the share (`Cascade`); balances are read from operations and shares and
handed to the greedy loop; registrations need the categories the script creates, and take
ids from the sequences it sets.

`PROJECT.json` lists every component, and under `hazards` each place where this code can
go wrong in a way that a test would hardly reach.

### What is assumed of Prisma and PostgreSQL

The modules model these from how the code uses them:

- Interactive transactions run at READ COMMITTED: a statement sees what is committed when
  it runs, and the transaction's own writes. Rows a transaction has written stay locked
  until it ends; an INSERT that meets a unique value of an open transaction waits for it.
- The array form of `$transaction` is atomic.
- A relation is loaded by a SELECT of its own (`relationJoins` is not enabled), in the
  order the code names the relations.
- `upsert` with an empty `update` is a SELECT followed, if needed, by an INSERT.
- A sequence moves when an id is taken and does not come back on rollback; `setval` takes
  effect at once; an explicit id does not move it.
- `cursor` and `skip: 1` mean the rows after the place the cursor row has when the query
  runs; when that row is gone the result is empty.
- `@updatedAt` is computed by the client when it builds the statement.

## 2. The modules

| module | models | composed of | proofs |
|---|---|---|---|
| `SessionLifecycle` | what the token store promises: open, renew, close | | |
| `Sessions` | the token store, the handlers and the cookies | refines `SessionLifecycle` | `SessionsProofs` |
| `Tables` | the rows and sequences registrations and the script share | | |
| `Accounts` | registration and login | `Tables` | |
| `SeedData` | the thirteen projects of the script | | |
| `Seed` | the script | `Tables` | |
| `Deployment` | a database from its first day | `Accounts`, `Seed` | `DeploymentProofs` |
| `AlertLifecycle` | what the alerts of a project promise: raised once, for one budget, gone with it | | |
| `SerialAlerts` | what each handler does to expenses, budget and alerts when it runs alone: one step per request | | |
| `BudgetAlerts` | expenses, the budget and the alerts of one project | refines `AlertLifecycle`, and `SerialAlerts` where requests run alone | `BudgetAlertsProofs` |
| `Ledger` | participants, expenses and shares of one project | | `LedgerProofs` |
| `Greedy` | the reimbursement loop | | `GreedyProofs` |
| `Settlement` | the reading of balances while expenses change | `Greedy` | `SettlementProofs` |
| `Dashboard` | pages of projects while projects change | | `DashboardProofs` |
| `SumTheorems` | no code: lemmas on sums over finite sets, for the proofs of alerts, ledger, loop and balances | | |
| `MC...` | the instances TLC checks | | |

In the models a definition whose comment begins "Faulty variant" is not part of any
behaviour. Each is what a plausible slip in the code would be, and exists so that every
property can be shown to fail when it is put in place of the definition after it.

### Sessions

`live` and `expiresAt` are the table, `jar` the cookie of each browser, `req` the handlers
in progress; `pc` names the database call or answer a handler waits for.

| action | code |
|---|---|
| `StartSession`, `CreateRefreshToken` | register and login up to and including `createRefreshToken` |
| `StartRefresh`, `FindToken`, `DeleteExpired`, `SwapTokens` | `refresh`, the SELECT, the cleanup and the transaction of `rotateRefreshToken` |
| `StartLogout`, `RevokeToken` | `logout`, `revokeRefreshToken` |
| `SetRefreshCookie`, `ClearRefreshCookie` | the answer reaches the browser, in any order |
| `Abort` | a database error, a crash, or a lost answer |
| `Tick` | the clock |

`root`, `exchangedFor` and `revoked` record history. The array transaction of
`rotateRefreshToken` is one step: neither statement is visible before the commit, and a
second DELETE of the row waits for the commit and then fails. A browser still sends a
cookie whose date has passed in the model, which only adds behaviours (a clock of the
browser that is late); the server's own check is what the properties rely on. Two tokens
never collide, as they carry 384 random bits.

### Tables, Accounts, Seed and Deployment

`Accounts` takes a registration statement by statement: `FindUser`, `CreateUser` (where
the unique index makes it wait for another open transaction or refuses it),
`CreateParticipants`, `CreateProject`, `CreateAlert`, `CreateOperations`, `Commit`, and
after the commit `OpenSession`. Statements on one table are one step. Its ids are taken
from `sequence` at once and are gone if it fails; its rows appear with `Commit`. An id
that another open transaction has inserted (`Held`) makes it wait, one that is in the table
makes it fail, and so does a category that the script has not created. `Login` and
`CheckCredentials` are a login. `Abort` fails a request anywhere, also between the commit
and the session.

`Seed` runs the script as a list of upserts, `Script`, that follows `seed.ts` project
after project; each is committed by itself. `Upserted` is what the script really does: it
looks for a row by a fixed id, and creates one with the next id of the sequence. `Crash`
ends the script between two upserts and `Start` runs it again. `ResetSequences` are the
`setval`s at its end, one statement and one commit each, so that a crash or a registration
may come between two of them; of the six, those of the users and of the budgets are left
out, as no module gives these ids.

`Deployment` lets both write the same tables. `order` is history: whether the script ran
before any registration took an id ("seeding"), was through before the first one ("open"),
or was overtaken ("mixed").

### BudgetAlerts

One project and the requests of its owner. `ops`, `budget`, `alert` are the committed
rows. A transaction keeps its writes in its own `req` record and `Commit` (or
`CheckCreate`, whose INSERT is its last statement) applies them; `OpsSeenBy`,
`BudgetSeenBy` and `ActiveSeenBy` are what its statements see. Row locks are derived from
what a transaction has written (`Locked`) and what its next statement must lock
(`Wanted`); `BreakDeadlock` is PostgreSQL's detector. One action per statement of
`resolveAlertIfNeeded` and `checkAndCreateAlert`; `WriteOperation` stands for the writes
to `operation` and its shares, which alerts do not depend on. `lastId` plays the
sequence of budget ids, which moves even when a transaction rolls back.

`silenced`, `reopened`, `overlapped` and `company` are history: the owner resolved an
alert or changed the budget since the last created or updated expense; which alerts a
client set back to active; whether two requests were ever in flight together; which of
those in flight something has run beside, another request or a marking.

`AlertLifecycle` says what is left of all this when expenses, requests and statements are
forgotten: `current` is the id of the budget, `owner` the budget an alert was raised for,
`status` its status. `Open` is the upsert of `updateProjectById` that finds no budget,
`Close` its deletion with the cascade, `Resolve` and `Raise` are the commits of
`resolveAlertIfNeeded` and `checkAndCreateAlert`, `Mark` is `markAlertAsRead`. In
`BudgetAlerts` only the commits and `MarkAlert` are visible steps of it. It shows that an
alert that is gone stays gone, although a transaction may hold it resolved when its budget
is deleted, and that a budget created later starts without alerts.

`SerialAlerts` keeps everything but the statements: `Create`, `Update`, `Delete`,
`SetBudget` and `DropBudget` are whole handlers, with `checkAndCreateAlert` and
`resolveAlertIfNeeded` applied to what the request leaves, and `Mark` is
`markAlertAsRead`. A request that is not in `company` must be one step of it, at its
commit (`LoneRequestsAreAtomic`). It may start from anything that overlapping requests
have left, doubled or missing alerts included, so this is more than what
`SerialAlertsFollowTotal` says of a history without overlap.

### Ledger

Same reading of transactions. `members` is `project_participant` with `participant`;
`created` the ids given so far. Who pays and who has a share is what the client sends:
`operations.service.ts` checks that the project is the user's, and the foreign keys that
whoever is named has a row of `participant`, in this project or in another one.
`Strangers` are rows of other projects; they stay, and `Balance`, like
`computeProjectBalances`, lists the project's own participants only. An operation of
another project that refers to a member only has its removal refused, that is `Abort`. A
transaction that refers to a participant holds a KEY
SHARE lock on it until its commit (`Referred`), which a DELETE waits for, and a DELETE is
seen by a later reference as a failure. `updateProjectParticipants` is
`StartParticipants` (the read before the transaction), `UpdateParticipants` (renames and
inserts), then for each removed participant `CountShares` and `RemoveParticipant`, then
`CommitParticipants`. The renames and inserts are one step: the locks they take are all
taken there, which shows fewer lock waits than the code has but no fewer outcomes, as any
wait between two of them ends in the same rows or in a deadlock, that is in `Abort`.

### Greedy and Settlement

`Greedy` is one step per iteration of the loop, integers in cents. The code rounds to
cents after every operation, so its values are cents too as long as the balances it is
given are, which `computeProjectBalances` ensures by rounding. Ties in the sort are left
open.

`Settlement` puts the loop into its handler. `FindPeople`, `FindPaid`, and
`FindOwedAndSettle` or `FindOwedAndAdd` are the three SELECTs of
`computeProjectBalances`; the loop is an instance of `Greedy` and, being synchronous, lets
nothing else run. `AskProject` is `getProjectBalance`, `AskAll` with `FindProjects` is
`getUserGlobalBalance`, which reads one project after the other; `AskDashboard` with
`FindLinks`, `FindMyPaid`, `FindMyShares` and `FindMyOps` is the other computation, that of
`getProjectsDashboard`. Its last two SELECTs are the user's shares and the operations they
belong to: when an operation was deleted in between, the required relation is missing and
the request fails (`MissMyOps`). Expenses change between the SELECTs, one commit at a
time, and participants come (`Join`) and go (`Leave`: only who has neither paid nor a
share, in any project; the statements and their races are in `Ledger`). `torn` is history:
something the read in progress depends on has changed since it began.

As in `Ledger`, the payer and the sharers of an expense may be `Strangers`: a share of zero
stands for no row, and whoever pays or has a share has a row of `participant`
(`Refs(e) \subseteq Participants`). `OwnPeople(j)` says that project `j` has no expense
that refers to anybody else than its participants, `Misled` that the loop was given
balances that were torn or of a project without `OwnPeople`.

### Dashboard

`AskPage`, `FindProjects`, `CountProjects` and `ReceivePage` are a page: the list and the
total are queries that run side by side. Writers create, update and delete projects;
`StartUpdate` and `AskCreate` fix the date, `CommitUpdate` and `CommitCreate` make it
visible, so that dates can appear in another order than they were computed; `CheckOwner`
is `assertProjectOwner`. `atStart`, `written`, `sunk`, `lost` and `rewound` are history:
what was there when the scroll began, what was written since, whose date went back, and
whether a cursor was deleted or went back, or went to the front.

`Ordered` says what `orderBy` gives by the place of each project: as many come before it
as were updated after it (`Before`). The clock of the model gives no date twice. In the
code two writes of the same millisecond share one, and which of them comes first is then
for PostgreSQL to choose, query by query; the properties claim nothing for such dates.

## 3. What TLC checks

| run | question | bounds |
|---|---|---|
| `sessions` | tokens single-use, one row per session, expiry, logout, cookie order, refinement of `SessionLifecycle` | 1 browser, 3 tabs, 3 tokens, lifetime 1 tick, clock up to 2; 667 509 states |
| `sessions_logout` | does a logout kill the session? No | 2 tabs, 2 tokens |
| `deployment` | whole accounts, their owners, the script's names and ids, no deadlock | 1 email, 2 requests, the script with 3 people, 1 project and 2 expenses, run twice; 3.8 million states |
| `budget_alerts` | alerts against the total, duplicates, refinement of `AlertLifecycle`; is a request that runs alone one step of `SerialAlerts`? | 2 requests at a time, 2 expenses of 1 or 2, thresholds 1 and 2, 3 alerts, 2 budget rows; 1.8 million states |
| `budget_alerts_live` | does every request end? | 2 requests, 1 expense, 2 alerts, 2 budget rows |
| `alerts_missed` | is a reached threshold always announced? No | 2 requests, 2 expenses of 1, a budget of 3 at 50 % |
| `ledger` | balances, references, shares, payers who may not leave | 2 requests at a time, 3 participants of whom 2 founders, 1 stranger, 2 expenses; 1.9 million states |
| `ledger_race` | do balances sum to zero under concurrency? No | 1 expense, 2 requests, no stranger |
| `greedy` | payments, termination, fewest payments up to four people, the counts the seed announces | all zero-sum vectors of 5 balances in -5..5, and the balances of the 13 seeded projects |
| `settlement` | are payments, totals and dashboard those of the ledger; does every read end, each step bringing it nearer? | 3 people of whom 2 are the user's, 1 stranger, 2 projects, 2 expenses, 3 changes; 110 000 states |
| `settlement_hang` | at most n-1 payments, whatever is read? No | 2 people, 1 project, 2 expenses, 3 changes |
| `dashboard` | what a scroll skips or repeats, and that it ends | pages of 2, 4 projects, 2 writers, 3 writes; 727 000 states |

Why these bounds are enough for the cases of interest.

- *Sessions*: three tabs let two refreshes race while a third request logs in, logs out or
  expires a row; three tokens allow a session of three generations or two sessions side by
  side; a clock of 2 with a lifetime of 1 lets a row expire between check and swap.
- *Deployment*: one email and two requests are what a race for the email needs, or a
  registration and a login with its password; two runs let the script die anywhere and be
  run again, or run once more after registrations; one project with its alert and two
  expenses has every kind of upsert, and a registration finds or misses each category.
- *Alerts*: two transactions are what a lost check, a duplicate or a lock cycle needs;
  three alerts let two be active while a third is raised. `AlertRoom` and `BudgetRoom`
  keep one unused id per request in flight, so that no transaction ever lacks an id; with
  two budget rows that lets a budget be deleted under a running check, and be replaced
  between two requests, but not be replaced under a running check. That case needs a third
  row and triples the run; the theorem `AlertsImplementLifecycle` covers it.
- *Ledger*: the races are between one expense and one removal; the third participant is
  the newcomer, and one stranger pays, or has a share, or both.
- *Greedy*: five participants are the fewest with two independent groups that the greedy
  choice can mix.
- *Settlement*: three SELECTs leave two gaps, so that three changes are one before the
  read and one in each gap; two participants of one user let debts and claims of one
  person meet in a project, two projects in the totals; one of the expenses is shared with
  a stranger, the others may be there without it.
- *Dashboard*: four projects are two full pages, so that there is a cursor to lose and a
  last page that is exactly full; three writes let a project be created, moved and
  deleted, or two updates of one project overlap a third.

Symmetry is used only in runs without liveness properties, on sets the model treats alike.
Deadlock checking is off where the system really stops: when the loop is done (`greedy`)
and when the bounded attempts, runs, changes or writes are used up (`deployment`,
`settlement`, `settlement_hang`, `dashboard`). That no lock wait blocks registrations or
the script is checked by an invariant of its own, `SomebodyCanGoOn`. It is stated by the
conditions under which an INSERT waits (`Waits`, `ScriptWaits`), so that it can be proved
as well; a request in flight that does not wait has a step.

### Fairness

`budget_alerts_live` assumes strong fairness of the statements of each request and weak
fairness of the deadlock detector. The event loop runs every callback that is ready, and
PostgreSQL grants a row lock to its waiters in the order they came, so a statement that
is again and again able to run does run; the detector runs after `deadlock_timeout`.
`greedy` assumes weak fairness of the loop: it is synchronous code. `settlement` assumes
it of the read, whose queries take no lock and wait for nobody. `dashboard` assumes it of
the scroll, queries included; that is a client that goes on to the end of the list, and
the property says that such a client gets there. Nothing is assumed of `Abort`, of
commit orders, of writers, or of the other clients, and no fairness at all in `sessions`,
`deployment` and `ledger`.

### What the violations show

Each is recorded under `findings` with the line of the code and the sentence it
contradicts.

1. `sessions_logout`: a refresh that commits just before a logout's `deleteMany` leaves
   the session alive. `LogoutSurvivedOnlyByRefresh`, which holds, says it is the only way.
2. `alerts_missed`: with a budget of 3 and a threshold of 50 %, two expenses of 1 created at
   the same time each see their own amount only, and pass the threshold unannounced.
   `SerialAlertsFollowTotal` holds: without overlap alerts follow the total.
3. `ledger_race`: an expense recorded between the count of a participant's shares and its
   DELETE loses the share by cascade, and the balances do not sum to zero any more.
4. `settlement_hang`: one person has paid 3 for another, who has paid 1 for the first. The
   expense of 3 is deleted between the SELECT of what people paid and that of what they
   owe, and the loop is given the balances 2 and 1. It stops when fewer than two people are
   left, and two creditors pay each other for ever, in synchronous code: the process
   answers nobody any more. It takes no overlap to get there: see the first of the gaps
   below. `ReadsAreAnswered` holds: as long as the shares of each expense add up to its
   amount, the loop ends unless its balances were torn or its project has an expense for a
   participant of another one.

### Other gaps between code and documents

Met while modelling, without a run of their own:

- Payers and sharers are not compared with the participants of the project
  (`src/services/operations.service.ts:56-149`). One request whose payer or sharer is a
  participant of another project is recorded, with no overlap and with shares that add up,
  and as `computeProjectBalances` lists the project's own participants only, their balances
  do not sum to zero, against
  `docs/s0.conception/conception/algorithme.glouton/algorithme.repartition.depenses.md:97`,
  and the reimbursements need not settle them. The loop need not end either: two people who
  have paid 2 and 1 for such a participant, and nothing else, have the balances 2 and 1.
  The instances of `ledger` and `settlement` reach such states. `SerialBalancesComplete`
  says that the part of such participants is all that is missing from the sum, and
  `Misled` keeps such projects out of what `ShownPaymentsSettle`, `ReadsAreAnswered` and
  `ReadsRunOut` promise; without that exception TLC finds each of the three violated, with
  an expense of 4 of which 3 are for a stranger.
- Shares that do not add up to the amount are accepted, as
  `src/schemas/operation.schema.ts` (lines 8-18 and 34) does not compare the two, nor asks
  for any share; balances such as 2, 1, 0 make the loop of `src/lib/greedy.ts` endless
  without any race then, too. `Settlement` assumes shares that add up
  (`LedgerAssumption`), and so leaves out what `ledger_race` does to them.
- The greedy choice is not minimal, as `src/lib/greedy.ts:17` says it is: 3, 2, 2, -3, -4
  takes 4 payments where 3 are enough. `MinimalUpToFour` holds.
- A limit of 100, which means that alerts are disabled, still raises one when the whole
  budget is spent (`src/services/alert.service.ts:122`).
- An active alert can be doubled, by overlap or when a client reopens a resolved one;
  `DuplicatesBounded` gives the bound.
- A budget created or lowered below what is spent raises no alert until the next expense
  (`silenced`).
- A second run of the seeding script records expenses twice: their keys jump from 15 to
  20, the ids do not, so from the second project on it finds other rows or none.
- A registration that fails before the script has run (it does, as the categories are
  missing) leaves the sequences moved. The script then creates its people with ids other
  than its keys and, looking for key 4, finds the row it has just created for another one.
  `PeopleStayApart` claims nothing from there on.
- Comments of the seed that its data does not bear out: project 4 is said to have zero
  balances; the message of alert 2 names 2503.66 where the expenses are 2501.66; alert 3
  is resolved although its expenses are above the threshold; Milan is said to cost 594 and
  costs 819.
- The dashboard keeps one participant of the user per project where the global balance
  adds them all up; `DashboardAgrees` claims nothing for such a user.
- Participants of one project may share a name, and reimbursements name people by name
  only. An archived project accepts expenses. A second cleanup of the same expired
  refresh token answers 500 instead of 401.

## 4. What is proved

Every invariant and every action property that a run checks is also a theorem, except
`SeedCountsHold`, and so are the three refinements; liveness is not (see the end of this
section). Four theorems state what no run checks by itself: `AlertsBelongToTheBudget` and
`NoPayerLeaves` follow from `ImplementsLifecycle` and `ReferencesStand`, which runs do
check; `LoopClosesIn` and `RequestsComeToAnEnd` are the parts of `SettlesEverything` and
`RequestsFinish` that need no fairness. The theorems hold for every value of the
constants under the assumptions of the modules and the hypotheses in the last column.

| theorem | statement | module | argument | hypothesis |
|---|---|---|---|---|
| `TypeCorrect` | `Spec => []TypeOK` | `SessionsProofs` | one case per action | |
| `TokensAreSingleUse` | `Spec => []SingleUse` | `SessionsProofs` | `SessionInv` | |
| `OneRowPerSession` | `Spec => []OneLivePerSession` | `SessionsProofs` | `SessionInv` | |
| `StoreImplementsLifecycle` | `Spec => ImplementsLifecycle` | `SessionsProofs` | `SessionInv`, kinds of step | |
| `RefreshesSlideByOneLifetime` | `Spec => []SlidingExpiry` | `SessionsProofs` | `CookieInv` | |
| `LogoutLosesOnlyToRefresh` | `Spec => []LogoutSurvivedOnlyByRefresh` | `SessionsProofs` | `CookieInv` | |
| `RowsAreNotLost` | `Spec => NoSilentLoss` | `SessionsProofs` | `CookieInv`, one case per DELETE | |
| `CookiesMoveForward` | `Spec => CookieMovesForward` | `SessionsProofs` | `BrowserInv` | |
| `WinnersOwnTheirAccounts` | `Spec => []WinnerOwnsAccount` | `DeploymentProofs` | `WinnerInv` | |
| `RowsReferToRows` | `Spec => []TypeOK` | `DeploymentProofs` | `TypeInv` | |
| `NamesMeanTheirRows` | `Spec => []PeopleStayApart` | `DeploymentProofs` | `FreshInv` | |
| `InsertsMeetNoRow` | `Spec => []IdsAreFresh` | `DeploymentProofs` | `FreshInv` | |
| `AccountsAreWhole` | `Spec => []AccountIsWhole` | `DeploymentProofs` | `WholeInv` | `EmailsApart` |
| `NobodyWaitsInACircle` | `Spec => []SomebodyCanGoOn` | `DeploymentProofs` | `TypeInv`, the order of tables | |
| `TypeCorrect` | `Spec => []TypeOK` | `BudgetAlertsProofs` | `AlertInv` | |
| `AlertsBelongToTheBudget` | `Spec => []AlertsOfCurrentBudget` | `BudgetAlertsProofs` | `AlertInv` | |
| `AlertsImplementLifecycle` | `Spec => ImplementsLifecycle` | `BudgetAlertsProofs` | `AlertInv`, `FreshInv`, kinds of step | |
| `AlertsAreBounded` | `Spec => []DuplicatesBounded` | `BudgetAlertsProofs` | `AlertInv`, `DuplicateInv` | |
| `SerialAlertsAreExact` | `Spec => []SerialAlertsFollowTotal` | `BudgetAlertsProofs` | `AlertInv`, `SerialInv`, sums | |
| `LoneRequestsTakeOneStep` | `Spec => LoneRequestsAreAtomic` | `BudgetAlertsProofs` | `AlertInv`, `LoneInv`, sums | |
| `RequestsComeToAnEnd` | `Spec => RequestsRunOut` | `BudgetAlertsProofs` | `AlertInv`, statements left | |
| `TypeCorrect` | `Spec => []TypeOK` | `LedgerProofs` | `LedgerInv` | |
| `NoReferenceDangles` | `Spec => []ReferencesStand` | `LedgerProofs` | `LedgerInv` | |
| `NoPayerLeaves` | `Spec => PayersStay` | `LedgerProofs` | `LedgerInv` | |
| `SharesNeverOutgrow` | `Spec => []SharesWithinAmount` | `LedgerProofs` | `WithinInv`, sums | `SharesFit` |
| `SerialBalancesEvenOut` | `Spec => []SerialBalancesComplete` | `LedgerProofs` | `SerialInv`, sums | `SharesAddUp` |
| `NobodyIsOverpaid` | `Spec => []NeverOverpaid` | `GreedyProofs` | `LoopInv`, sums | `InputsSumToZero` |
| `FewerPaymentsThanPeople` | `Spec => []AtMostNMinusOne` | `GreedyProofs` | `CountInv` | `InputsSumToZero` |
| `MinimalForFour` | `Spec => []MinimalUpToFour` | `GreedyProofs` | `MirrorInv` | `InputsSumToZero` |
| `LoopClosesIn` | it stops only when all is settled, and each iteration settles somebody | `GreedyProofs` | `LoopInv` | `InputsSumToZero` |
| `TypeCorrect` | `Spec => []TypeOK` | `SettlementProofs` | `TypeInv` | |
| `DashboardIsTheLedger` | `Spec => []DashboardAgrees` | `SettlementProofs` | `DashboardInv`, sums | |
| `TotalsAreRight` | `Spec => []TotalsAreTheLedger` | `SettlementProofs` | `TotalsInv`, sums | |
| `ShownPaymentsAreRight` | `Spec => []ShownPaymentsSettle` | `SettlementProofs` | `PaymentsInv`, sums | `RoomForPayments` |
| `ReadsComeToAnEnd` | `Spec => ReadsRunOut` | `SettlementProofs` | `SumsInv`, queries left | |
| `TypeCorrect` | `Spec => []TypeOK` | `DashboardProofs` | `PageInv` | |
| `UntouchedProjectsAreShown` | `Spec => []UntouchedAreShown` | `DashboardProofs` | `UntouchedInv` | |
| `RepeatsAreExplained` | `Spec => []RepeatsHaveACause` | `DashboardProofs` | `RepeatsInv`, `FreshInv` | |
| `QuietScrollIsComplete` | `Spec => []QuietScrollIsTheList` | `DashboardProofs` | `QuietInv`, `RestOfTheList` | |

What the hypotheses ask, and what becomes of the code without them:

- `EmailsApart`: nobody registers with an email of the seeding script's users. Their
  projects are the script's and not demo projects, so the property is not about them.
- `SharesFit`, `SharesAddUp`: the shares of an expense a client sends do not exceed its
  amount, or add up to it. The server checks neither (section 3): it leaves it to clients.
- `InputsSumToZero`: balances that sum to zero. `SerialBalancesComplete` says when the
  ledger gives such balances, `settlement_hang` and the first of the gaps in section 3
  show when it does not.
- `RoomForPayments`: `MaxPayments`, a bound of the model, is at least the number of people.
  It leaves no payment out, since there are fewer than people.

Each proof first sorts the steps into a few kinds by what they do to the state the
invariant is about (`StepKinds`, `BrowserSteps`, `AccountSteps`, `LedgerSteps`,
`AlertSteps`, one case per action), and proves that the invariant is kept for these.

**Sessions** (assuming `NoTokenAssumption`, the absence of a cookie is not a token, and
`ClockAssumption`, lifetime and clock bound are naturals). `SingleUse` is not inductive: a
swap adds a successor to the token it consumes, so one must know that a token with a row
has none yet (`LiveUnexchanged`). `OneLivePerSession` is not either: a login takes a fresh
token as the root of a session, so one must know that no older session is named by a
token never issued (`RootIssued`, with `LiveIssued`, `SuccessorIssued` and
`ExchangedIssued` to keep fresh tokens apart). `SessionInv` is their conjunction, and also
gives the refinement. The expiry and logout properties depend on what requests remember
across an `await`: `CookieInv` adds `RequestsSound` (the token a request presents was
issued; the date it is about to insert fits the token it replaces; the row it is about to
clean up is past its date), `CookiesIssued`, `LastToken` (while a session has a row, it is
that of its one unexchanged token) and `RevokedClosed`. The key fact is `IssuedSteady`:
an issued token keeps its date and session, and the clock does not go back, so what was
checked before an `await` is still good after it.

That a cookie never goes back is about answers under way. `BrowserInv` says that a session
belongs to one browser, that a new token on its way was seen by nobody and so was not
exchanged (`PendingLast`), that no two of one session are on their way (`PendingAlone`),
that while a token some request presents has its row the browser has not moved on
(`PresentedIsKept`), and that what is on its way replaces what the browser has
(`PendingIsNext`).

**Deployment**. Two registrations may both find the email free. `WinnerInv` says that one
open transaction at a time has written an email (`Alone`), that nobody has won an email an
open transaction has written (`Unclaimed`), and that whoever has committed keeps the
account until told so (`WinnersKeep`); the script adds accounts and changes none.

For the rest, `TypeInv` joins three more parts. `ScriptInv` says of the script what its
plan (`Script`, for any people and projects) promises: a step that names a project, a
person or an expense comes after the one that made it, and the rows it has found are
there; its `RowsInv` says that what is committed refers to rows. `RequestInv` says what a
registration has taken at each of its statements (`Filled`) and that nobody else has it
(`HeldApart`): ids come from sequences, and an id that an open transaction has written
makes the script wait. `FreshInv` goes with the history variable `order`: until a
registration takes an id, the ids of a table are exactly those up to its sequence and the
n-th person has id n (`Untouched`), although the script looks for other keys; alerts, which
come with ids of their own, are behind their sequence once it is reset (`AlertReset`), the
first of the four steps the script ends with; once the script is through, no id is above its sequence (`AllBelow`, `HeldBelow`), so that `setval`
to the largest id is enough. `WholeInv` describes the demo project of an account
(`Thirds`) and says that the email of an open transaction has no account yet, so that a
commit makes the first one.

No circle of waits is possible because all registrations write the tables in one order
(`Place`): what makes one of them wait, an email or an id of its own table, was inserted
by one that has come further (`WaitsForFurther`), and whoever has come furthest waits for
nobody (`FurthestGoesOn`). The script holds nothing between two upserts.

**Ledger** (assuming `InputsAssumption`, expenses of people, with natural amounts and
shares, and strangers who are no founders). A reference is checked before the transaction
that makes it ends. `ReferredStay` says that whom an open transaction refers to has a row
and that nobody else is deleting it, which the locks of foreign keys give; `GonePaidNothing` that whoever a transaction has
deleted has paid nothing since, as recording a payment would need the lock.

Shares stay within the amount (`WithinInv`) because an update puts all new shares in the
place of all old ones, whatever has been removed meanwhile. For requests that do not
overlap, `SerialInv` adds that whoever is being removed has no share (`Counted`): it was
counted, and nobody recorded one since. So no cascade takes a share, shares add up to
amounts (`AddsUp`), and the sum over all people of what they paid less what they owe is,
after an exchange of sums, the sum over expenses of the amount less its shares, that is
zero. As everybody an expense refers to is a member or a stranger (`ReferencesStand`), what
the balances leave out of this sum is the part of the strangers (`Missed`).

**Greedy** (assuming `InputsAssumption`: finitely many people, integer balances).
`LoopInv` says that those left to settle are those not at zero and that the balances
still sum to zero: then the largest is above zero and the smallest below, the payment
moves both towards zero and settles one. `CountInv` counts: payments and people left to
settle never outnumber those unsettled at the beginning, and the payments are fewer when
all is settled, since the last two settle each other. With at most four people, one
payment less than that is possible only if they fall into two groups with sum zero, that
is into pairs of opposite balances; `MirrorInv` says that then every payment settles a
pair, because the largest and the smallest balance are opposite, whoever is chosen among
equals.

**Settlement** (assuming `LedgerAssumption`: finite sets, positive amounts that are the
sums of their shares). The invariants say what a read knows at each of its queries, unless
something changed under it (`torn`): `ProjectInv` for the sums of the project it is
reading, `TotalsInv` that what is summed up and what is left to read make the whole,
`DashboardInv` for the sums over the user's own rows, which come apart by project.
`PaymentsInv` follows the loop: what somebody has received, or paid, is by how much what
they are due, or owe, has come down. A project's balances sum to zero for the same reason
as the ledger's (`BalancesEvenOut`), provided that its expenses refer to its own
participants only (`OwnPeople`). That sum is also why reads run out: `SumsInv` keeps it
during the loop, where it makes every payment settle somebody (`PaymentSettles`), so that
the people still open count the iterations. The queries before it are counted by the
projects left to read. Torn reads and those of projects with foreign payers or sharers are
not excused before the loop: only their loop may go on for ever (section 3). The dashboard and the totals need no such condition.

**Dashboard** (assuming `BoundsAssumption`). Sorting is a lemma: as dates differ
(`DatesInv`, `WriterInv`: each is a reading of the clock of its own), the list is the only
sequence of the projects that is sorted (`SortedIsOrdered`), and what comes after a
project in it is the list of those that are older (`RestOfTheList`). The invariants
compare with the mark, the date the cursor had when its page was read: what is not shown
and not coming is older (`UntouchedInv`), what is shown or coming is not, unless its date
went back (`RepeatsInv`), and as long as nothing is written the shown part is the beginning
of the list (`QuietInv`). For the second, a new project must not be one already shown:
its id is one that nobody has seen (`FreshInv`). A step of another request is, for these
invariants, one project that appears, disappears or changes its date (`WriterEffects`).

**Budget alerts** (assuming `InputsAssumption`: amounts and limits in their ranges, finite
sets of alerts and requests). That alerts belong to the current budget rests on locks.
The row of the project makes updates of the budget exclude each other (`OneWriter`), so
the row a transaction is writing is still the one there is (`SameRow`). A deletion of the
budget locks its alerts, so nobody else has resolved one (`NoneResolved`), and what a
transaction has resolved is not deleted before it commits (`ResolvedStay`): otherwise its
commit would bring an alert of a deleted budget back.

The same kinds of step, with what they do to the sequence of budget ids, give the
refinement: a commit maps to `Resolve`, `Raise`, `Open` or `Close`, marking to `Mark`, all
else to a stutter. `Open` asks for a budget that no alert was ever raised for, which
`FreshInv` provides: ids in use are behind the sequence (`IdsInUse`), and an upsert that
found no budget carries an id no alert refers to until it commits (`NewIsNew`).

The bound on duplicates counts: the active alerts that no client has reopened, and the
transactions that have found none and are about to add one, together never outnumber the
requests (`RoomForAll`). A transaction that comes to this point has seen no active alert
but those it has resolved itself, so either there are none at all, or its alert replaces
one. For that, two transactions must not have resolved the same alert (`ResolvedOnce`).

When requests come one after the other, `SerialInv` says what the only one under way has
read and written at each of its statements (`Knows`): the budget and the sum it compares
are those that its commit leaves, its own writes included, and the alert it is about to
add or to resolve is the one missing or not justified any more.

The same knowledge, taken request by request, gives the second refinement. `LoneInv` says
that a request nothing has run beside is the only one in flight and is `Sound`: it knows
what its commit leaves, it intends what its handler would, and the alerts it has still to
resolve are the active ones. This holds when the request arrives, in whatever state
earlier overlaps left the tables (`SoundArrivals`), and is kept by each of its statements
(`SoundStays`), since nobody else writes. Then its commit is the step of `SerialAlerts`
(`LoneCommits`, `LoneCreates`), every other statement a stutter.

That requests run out needs no lock argument: `StepsLeft` counts what is left of a
handler, with one step for each alert still to be resolved, and no statement goes back.

**Sums.** `SumTheorems` proves that the community modules' `SumFunctionOnSet`, defined by
a recursion over finite sets, is additive, monotone, independent of order and exchangeable
with another sum. The library's induction theorems cannot be used, as they take an
operator; induction is done by hand, by a smallest number, or the cardinality of a
smallest set, for which the claim fails (`SmallestNumber`).

### What is model-checked only

- Liveness (`RequestsFinish`, `SettlesEverything`, `ReadsAreAnswered`, `ScrollEnds`) is out
  of reach of the installed provers. What each owes to the code and not to fairness is
  proved for the first three: every step leaves fewer (`RequestsRunOut`, `LoopClosesIn`,
  `ReadsRunOut`). What stays with TLC is that a step is taken as long as there is one.
- `SeedCountsHold` is about the data of the thirteen projects of the script, which TLC
  evaluates; there is nothing in it to prove for every value.

## 5. What is not modelled

Listing handlers, `getMe`, budget figures and categories change no state, and read no two
things whose agreement matters. Access tokens, schemas and middlewares are stateless; the
rate limiter's counter belongs to a library. `prisma/seed-old.ts` and
`prisma/seed-newold.ts` are earlier versions of the script that nothing runs. The modules
follow the projects of one owner, so no request is refused with a 403. In `BudgetAlerts`
and `Ledger` the project itself is not deleted (it is in `Dashboard`): the cascade that
would end it takes everything these modules follow. The status and text of answers are
left out, except where a client acts on them. Amounts are integers: the floating-point
sums of `alert.service.ts` and `balance.service.ts` are rounded to cents before they are
compared or shown, except in the two threshold comparisons, where a sum that is off by a
rounding error matters only when total and threshold coincide. In the script, names,
dates, categories, descriptions and budgets are left out, and in the instance checked
its second and later projects.

## 6. Plan

Done: every component with state is modelled and checked, and every invariant and action
property is proved but for `SeedCountsHold`.

Left, most important first:

1. What a read that is torn may show at most: a bound on how far its totals are off.
2. `Ledger` and `BudgetAlerts` composed, with the deletion of the project.
3. `Ledger` against a serial specification of its own, as `SerialAlerts` is for alerts.
