# portfolio-dashboard: TLA+ models and proofs

The backend (Go, MongoDB, one optional PostgreSQL database) keeps the ledger of
each holding, the position derived from it, one snapshot row per user and day,
the gold of each user, and the accounts with their sessions. The specifications
below model these parts call by call, where a call is one operation on a
database: the database makes each of them atomic, and the handlers tie no two of
them together, except the two imports and "delete all dividends", which run in a
MongoDB transaction, and the schema migrations, one PostgreSQL transaction per
file. So a call is an action, and whatever may run between two calls of a
request, another request included, runs between two actions.

## The system

| Component | State it keeps | Operations | What makes it correct |
|---|---|---|---|
| Ledger replay (`services/ledger.go`) | none | `RecomputePosition`, `asOfLedger` | order of entry and time of day do not matter where the comments say so; cost is conserved; oversell is a property of days |
| Transactions service (`services/transactions.go`, `position.go`) | `transactions`, four derived fields of `holdings` | Create, Update, Delete, each with a compensation and a heal | the position is the replay of the ledger; a refused request changes nothing |
| Holdings service (`services/holdings.go`) | `holdings` | Create with an opening, Update (opening date), Delete with its cascade | a holding and its ledger live and die together |
| Snapshot heal (`services/snapshot_recompute.go`) | rows of `portfolio_snapshots` | RecomputeFrom | stored rows agree with the ledger as of their day; no row is invented |
| Snapshot store, history page (`persistence/snapshots.go`, `services/history.go`) | one row per (user, day): buckets, lines | Upsert, Add, Paste, PatchRegions, Delete, ForceDelete, List | an override survives the job, its anchor is the job's first value, rows of the job are not deleted; reports say what is stored; a page does not change what a row shows |
| Snapshot job (`services/snapshot.go`, `cmd/snapshot.go`) | none | Run, BuildSnapshot | a repeated run converges; a user's failure stops nobody else's row |
| Trade and dividend import (`services/trade_import.go`, `dividend_import.go`, `dividends.go`, `dividend_match.go`) | ledger events with references, aliases, new holdings | preview, Import, DeleteAll | a repeated import adds nothing; everything of one import is stored together |
| Ledger pages (`transactions.go`, `dividend_view.go`, `dividend_history.go`, `investment_delta.go`) | none | List, ListAll, dividends tab, overlay, monthly chart | the pages show the same money |
| Prices, portfolio page (`services/price.go`, `portfolio.go`) | an in-memory price cache | GetPrice, summary, prices page, daily change | a quote is not older than its TTL and a fetch; headline, rows and snapshot agree |
| Gold (`services/gold*.go`, `persistence/gold.go`) | purchases and daily prices in PostgreSQL | CRUD, backfill, overlay, metrics, missing days | every row is overlaid as of its day, from one ledger |
| Accounts, sessions (`controllers/auth.go`, `httpserver/auth.go`) | `users`, `sessions` | signup, login, logout, recovery, password change, onboarding, profile | a session of a disabled or changed account is refused; lockout counts |
| Administration, bootstrap (`controllers/admin.go`, `auth/bootstrap.go`) | `users` | hide, reactivate, delete, reset, promote, demote, region, lists | one owner, always; nobody writes out of scope; a deletion leaves nothing |
| Schema migrations (`db/postgres.go`) | the gold schema, `schema_migrations` | boot | each migration is applied once, whoever boots |
| Data migrations (`cmd/migrate.go`, `cmd/copyholdings.go`) | `holdings`, `transactions` | one-off passes | a command that succeeds has done what it says, whatever was left half done before |

They meet in these places. Every ledger write calls `recomputeAndPersist`
(ledger into holding) and then the heal (ledger into past rows); the imports
write the same documents from inside a transaction. The job reads the derived
fields, not the ledger, prices them through the cache and writes rows. The
history page reads and writes the same rows and lays gold and dividends over
them. Nothing locks but the schema migrations; all hard behaviour is in requests
that overlap, in a failure or a stop between two calls, in compensations that run
on values read earlier, and in transactions that defend only what they write.
`PROJECT.json` lists these hazards one by one.

## Modules

| Module | Models |
|---|---|
| `Rationals` | exact fractions, standing in for `float64` |
| `Ledger` | `RecomputePosition` and `asOfLedger`, as operators on a ledger |
| `LedgerReplay` | every bounded ledger, and what the replay promises of each |
| `LedgerProofs` | theorems about `Ledger` and `LedgerReplay` |
| `TransactionsService` | the three ledger requests, the three holding requests that touch the ledger, the heal; clients, failing calls, abandoned requests |
| `AtomicLedger` | what that service promises a single writer: one event and its position change together or not at all; the replay is a parameter |
| `TransactionsServiceProofs` | theorems about `TransactionsService` |
| `ImportPlan` | what a sheet would do to the portfolio it is read against |
| `Imports` | imports, "delete all" and the deletion of a holding as overlapping transactions and calls |
| `MergedLedger` | what an owner is promised of imports: each ledger merges with the sheet in one step, "delete all" takes the dividends of a currency out of each |
| `ImportsProofs` | theorems about `Imports` |
| `LedgerPages` | the pages computed from the ledgers |
| `SnapshotBuckets` | the buckets of a row and how writers merge them |
| `SnapshotRow` | what the store promises of one row |
| `SnapshotStore` | one row under its six kinds of writers, each read and write a step |
| `SnapshotStoreProofs` | theorems about `SnapshotStore` |
| `Gold`, `GoldService` | what the gold pages derive; the two tables, their edits, and pages that read the one and then the other |
| `HistoryPage` | the rows of several users over several days: the job, the page, paste, add, override, delete, on three clocks; extends `GoldService` and `SnapshotBuckets` |
| `PriceCache` | `GetPrice` under concurrent callers |
| `Valuation` | totals, rows, daily change and the snapshot, at given prices |
| `PortfolioService` | the two pages of the portfolio, built over the cache; extends `PriceCache` and `Valuation` |
| `PagesProofs` | theorems about `HistoryPage` and `PortfolioService` |
| `Accounts` | one account, its sessions and its data, under its owner's requests, the administrators' and the gate |
| `AccountsProofs` | theorems about `Accounts` |
| `Administration` | all the rows of `users`: booting replicas, signups, roles, scopes |
| `AdministrationProofs` | theorems about `Administration` |
| `SchemaMigrations`, `DataMigrations` | booting instances against the gold schema; the operator's commands over the document database |
| `Rollout` | both of them, for one run |
| `RolloutProofs` | theorems about `SchemaMigrations` and `DataMigrations`, as `Rollout` runs them |
| `MC*` | instances for TLC |

Definitions whose name ends in `_Something` after an existing name, under the
comment "Faulty variant", are mutated forms of the code. No specification uses
them; each shows that some property notices such a mistake.

### Ledger

A ledger is a function from event ids to events or `NoEvent`. Ids are given in
the order of creation, so they also stand for `created_at`. A date is an
instant and two instants make a day, which separates a bare day (`2026-01-05`)
from a timed event later that day. `Ordered` is the sort with openings first, given place by place
(`AtPlace` is the event that so many others precede);
`ReplayEvent` is one pass of the loop with the `waiting` slice and the day
break; `Settle` is the closure of that name. `Sell`, `Acquire`, `Effect` are the
closures and the switch. Money and shares are fractions: the tolerance the
code needs for rounding is therefore not modelled, and neither is drift.
Everything is written with functions and folds and without recursive operators.

### TransactionsService

One holding. `txns` is its ledger, `status` says whether the holding document
exists, `position` holds the four derived fields, `lines` the quantity and cost
of the holding's line in each stored row. `req[c]` is the request of client `c`:
its operation, the event read at its start (`prev`), the one of the form
(`input`), the ledger listed for a recompute or a heal (`list`), and `pc`, the
call it makes next:

    write -> list -> persist -> heal -> rewrite ...      accepted
    write -> list -> persist -> undo [-> relist -> repersist]   refused

`derivedFrom` is the ledger `position` was last computed from, a history
variable. `taint` names what a failure may have left out of step: it is written
by no code, and only conditions the claims that a failure defeats. `Fail` has
four disjuncts: `CallFails` takes the error path of the code, `AnswerLost` takes it
after the position has been stored, `RollbackFails` loses a compensation, `Abandon`
stops the request between two calls (the process stops, or the request's context
ends). The store of the position is the one call whose answer decides whether what
went before is taken back; any other call that took effect and whose answer was lost
leaves what the call and then `Abandon`, or the failure of the call after it, leave.

The heal reads rows, holdings and events in three calls; they are one step here,
so a heal whose three reads straddle another request's write is not covered.
A line's close price is left out: the heal keeps it.

### ImportPlan, Imports and MergedLedger

`ImportPlan` is the evaluation that the preview and the confirm share, as
operators on a portfolio: which holding a name resolves to, which holdings are
born, which rows an opening already covers, which saved rows a sheet replaces,
and how often an equal row occurs. A name stands for the key it is compared by
(`exactKey`, `baseSymbol`), so the cases of names are names that do or do not
match; suggestions only fill the popup and are left out.

`Imports` runs that evaluation inside transactions. `Begin` takes the snapshot and
leaves the writes in `plan[c]`; nobody sees them before `Commit`. `missed[c]` are
the documents others have written since the snapshot. `Commit` needs none of its
own writes among them; otherwise `Retry` runs the whole callback again on a new
snapshot, until `late[c]` (the driver's 120 seconds), after which `GiveUp` rolls
back. `Refuse` is the answer to an invalid or overselling sheet, `Abort` any
failure, stop or caller that goes away. `HoldingsService.Delete` has no
transaction: `DropStart` and `Cascade` are two calls.

`MergedLedger` has no transactions, no retries and no calls: an upload merges each
ledger with its part of the sheet in one step, so that each event ends up as often
as the fuller of the two has it. It grants one thing that an owner would not
expect and the code does: a holding the import found nothing to do for, and that
another request changed meanwhile, may be left as it stands (`LeftAlone`), because
a transaction only defends the documents it writes.

### LedgerPages

The ledger page, the dividends tab, the dividends on History rows and the monthly
chart, each by the walk of its own that its code makes. They are checked in every
quiet state of `Imports`: a page only reads, and any request may be abandoned
where it is, so states with nobody at work show every stored portfolio.

### SnapshotRow and SnapshotStore

A row has a bucket per key (`SnapshotBuckets`): source, amount (one value for
invested and current, which the code always moves together) and anchor. `backed`
says whether the row stores per-stock lines: an empty list counts, an absent one
does not. `Legacy` keys (USD) occur only in rows of earlier versions: the job drops
its own bucket of one and keeps an override of one. `Upsert` is `UpsertFinds` then
`UpsertWrites`; `PatchRegions`, `Add` and `Delete` have their read and their
write likewise. A write that finds its premise gone does what MongoDB does:
`UpdateOne` matches nothing, `InsertOne` violates the unique index.

Any operations overlap and any of them stops anywhere. `behind[c]`, a history
variable, notes the kinds of write the request of `c` has missed since it read the
row. A request is `Undisturbed` as long as these are harmless to it: a job may miss
jobs, an override or a deletion may miss overrides and deletions, an add nothing; and
what was written by a request that was itself disturbed (`stale`) is harmless to
nobody. The properties say with it which overlaps hurt, and that no others do.

### HistoryPage and GoldService

`snaps` holds the rows of several users over several days; `req[c]` is a request or
a run of the job, one call a step. A paste looks at each row, refuses it or goes
through the two calls of the upsert, and goes on; `written` and `refused` are its
report. `left` are the users a run has still to take, in the order of their ids; a
failing user is noted and the run goes on. `touched`, a history variable, are the rows
others wrote since the request looked at them; a row it has already reported on stays
touched, since a paste may name a day twice. `--date` may name any day up to the trading
day: the command checks nothing, and that no later day is named is the operator's part.
`hour` and `today` are three clocks: the Indian day of the gold pages, the server's
UTC day, five and a half hours behind, and the trading day of the job, which ends
at eight in the morning.

`GoldService` has the two tables, `txns` and `prices`, one action per statement,
and a `page` that reads the one and then the other. `Gold` computes from what it
read: the overlay with its two pointers, the metrics, the days that owe a price.

Gold and rows live in two databases and no handler writes both. `edited`, chosen at
the start, says which side a behaviour edits. When gold is edited, the overlay is read
at any set of days, which stands for whatever rows there are; when rows are edited, gold
is one of the initial tables.

### PriceCache, Valuation and PortfolioService

`cache` maps a symbol to the instant its quote was given and the instant it was
stored; `call[c]` is the `GetPrice` of a goroutine: a hit, or a fetch outside the lock
with its answer or failure. A page of `PortfolioService` asks for the rate, then
starts one call per ticker and waits for all of them, then goes through the holdings
and asks again. `Valuation` is what it computes from the prices it was told,
together with the daily change and the snapshot of the job at the same prices. A
row's columns are in the base currency, but for the realized gains, which it sends in
the holding's own (`realizedPnl`) and in EUR (`realizedPnlEur`), as the code does.
Amounts are whole, so that rounding to cents changes nothing.

### Accounts

`account` is the row of `users` (present or not, disabled, locked, failed
recoveries), `sessions` the stored sessions, `data` the collections that hold rows
of the account, and `req[c]` the request client `c` has in flight with the call it
makes next:

    signup: insert -> issue            login: issue
    recover: register                  recover: reset -> purge
    hide: purge                        delete: gold -> holdings -> transactions -> sessions -> account
    gate: session -> user -> refresh -> work [-> others]

A login is judged on the row it reads and stores its session in a later call; a
recovery is judged on the count it reads and counts in a later call; the password
is written in one call and the sessions are deleted in the next. The observation
needs four things the code does not store. `epoch` counts the password changes and
hides, and a session carries the epoch its owner proved the password in. A session
is `late` when it was stored after a purge that should have met it, `strays` are the
collections written after the deletion had emptied them, `lapsed` says that a
request was given up before its purge, `guesses` counts wrong recoveries since the
count was last cleared. No guard reads them but the bounds.

Passwords and answers are right or wrong, and a wrong password changes nothing
anyone reads. There is no clock: a session may expire at any look and be removed by
the index at any time, so every claim holds for every expiry. Administrators are
other accounts and not modelled themselves. `StoreRow` stands for any handler
behind the gate that stores a row: what matters to a deletion is only that the gate
was passed earlier. Creating the account again under its old name makes another
document with another id, so a deleted account stays deleted.

### Administration

All the rows of `users`, without passwords and sessions. A replica boots in three
calls (index, count, insert), each of which may fail and is then only logged. A
request carries the caller's role and region as the gate has read them; the target
is read in a later call, checked, and written in a third. `overtaken` says that
another request has changed what the scope of this one was judged on. `lapses`
records what went wrong in a boot. Both are history variables.

### SchemaMigrations, DataMigrations and Rollout

An instance pings the gold database, takes the advisory lock, reads the recorded
versions and applies the others its image embeds, one transaction per file. The lock
belongs to a connection, so it goes with an unlock, with the process, with a
closed pool, or, when the context of the boot has expired before the unlock, only
when the pool recycles the connection. Images differ in how many migrations they
embed.

The commands `migrate users`, `currencies`, `transactions` and `copy-holdings` run
call by call over holdings that have a position and no ledger, may stop anywhere,
run again and at once, beside a user's trade. `copied`, `crossed` and `doubled` are
history variables for what an overlap or a copy has put out of the claims' reach.
`Rollout` chooses at the start which of the two is followed: they share nothing.

## Runs

| Run | Question | Distinct states |
|---|---|---|
| `ledger_replay` | is the replay what its comments say, on every ledger of up to four events? | 70 thousand |
| `single_writer` | with one writer and one failure or lost answer anywhere, is a request atomic, and do position and rows agree with the ledger? | 860 thousand |
| `two_writers` | what still holds when two writers overlap? | 1.3 million |
| `imports` | do overlapping imports, clears and deletions merge, commit everything together and end? do the pages agree? | 62 thousand |
| `snapshot_jobs` | which overlaps of two writers of a row hurt, and is the store the atomic one in all others? | 3.3 million |
| `lost_override` | does an override survive a job that overlaps it? | violation |
| `history_page` | are reports true, rows of the right day, and pages independent of where they start? | 840 thousand |
| `portfolio` | do headline, rows and snapshot agree on fresh quotes, and is every page answered? | 400 thousand |
| `accounts` | what holds of recoveries, sessions and a deletion when two requests overlap and one is given up? | 1.5 million |
| `deleted_account` | does a deletion reach the snapshots? | violation |
| `administration` | is there one owner, present, visible and in the role, and does every write stay in scope? | 1.8 million |
| `rollout` | do booting instances and repeated commands leave what they promise? | 290 thousand |

What they show:

- Oversell is exactly a day-end shortfall (`OversellIsDayEndShortfall`), waiting
  never changes a ledger that would not oversell (`WaitingOnlyHelps`), money only
  moves between basis and realized gain (`CostIsConserved`), and redating an
  opening cannot change a position, which matters because `setOpeningDate` has
  no compensation (`RedatingAnOpeningIsNeutral`).
- `AsOfNeverOversells` has a premise: no sell dated before a declared opening.
  Without it the replay as of a day between the two oversells and the heal only
  warns.
- A single writer sees atomic requests (`ImplementsAtomicLedger`) but for two kinds of
  failure. One takes the compensation with it and leaves another ledger (`Damage`).
  The other loses the answer of the stored position (`LoseAnswer`): the request is
  compensated, and the position is that of a change taken back. Update and Delete
  repair it at once, because they derive the position again
  (`SoloCompensationIsExact`); a Create deletes its event and leaves the position
  wrong until the next accepted request (`ProjectionIsExact` names this exception to
  what `docs/portfolio-model.md:20-22` says).
- Healing from the earlier of the old and the new day suffices
  (`HistoryMatchesLedger`), given that an opening's date and declared day agree.
  `setOpeningDate` calls no heal although the docs say the correct date keeps the
  history right; the rows it leaves are those between the two days and no other
  (`RedatesMissOnlyRowsBetween`).
- Two writers can leave a stale position (known to the code, `position.go:23-27`),
  a ledger the replay refuses, and events without a holding. The last two need an
  overlap or a failure (`DamageComesFromOverlap`). A request nothing overlapped repairs
  the position, whether it succeeds (`SoloSuccessIsExact`) or, an Update or Delete, is
  refused or fails and is compensated (`SoloCompensationIsExact`).
- An import is what an owner is promised (`ImplementsMergedLedger`), whatever it
  overlaps, however often the driver runs it again, and wherever it ends: nothing is
  added twice. Position, ledger and rows commit together
  (`PositionsCommitWithTheLedger`, `HistoryCommitsWithTheLedger`). What the
  transaction cannot defend is what nobody writes: two uploads that meet an unknown
  symbol can create a holding each, and an interrupted cascade leaves events without a
  holding. A second holding for a name comes from such an overlap or from a name that
  two holdings of the currency have already, which resolves to neither
  (`TwinsComeFromOverlap`; candidates are the holdings of the sheet's currency only).
- `PagesAgree` has three parts. The dividends tab, the positions and the History
  rows show the same dividends; the monthly chart is the difference of what the
  history shows (and today of what the positions hold, unless a held event is dated
  ahead, which only the positions count); the ledger page lists each event once and
  adds up to both.
- Overrides and deletions that overlap one another are harmless, and so are a job
  and a heal: every write is one step of `SnapshotRow` on the row as it is
  (`ImplementsSnapshotRow`). The others hurt, and the property lets them: a job puts
  back an override it has missed (`lost_override`) or brings back a row deleted
  meanwhile, an override remembers a value older than that of the job it has missed, an
  add merges over a row that has come. A heal writes a row without lines only after a
  deletion or an add it has missed, and an unforced delete takes a bucket of the job only
  after a job it has missed (`GuardedRowsStay`): the code allows both, since each decides
  on a call before, and nothing else leads there. Whatever overlaps, no writer leaves
  lines that do not explain the row (`LinesStayExplained`).
- What a paste and a run report is so, unless another request wrote the row since
  (`ReportsAreTrue`); no clock lets a row be dated where its user could not edit it
  (`RowsAreNeverAhead`); a month shows of a row what the whole history shows
  (`PagingIsInvisible`); a page of gold is of one ledger, as of each day, although
  it reads in two calls (`OverlayIsAsOf`), and when nothing is asked for, nothing is
  missing (`GaplessMeansWhole`).
- A quote served is younger than the TTL and a fetch together, although a slow
  fetch may store an older quote over a younger one (`QuotesAreFresh`). The totals
  are the sums of the rows and of the job's buckets at the same prices
  (`HeadlineIsItsRows`, `HeadlineIsTheSnapshot`). Of the realized gains this is so of the
  EUR column only: what a row of a EUR holding sends as `realizedPnl` is in EUR, beside
  amounts in INR, although `mapper.go:102` says that all are normalised.
- Overlapping recoveries are judged on one count, so more than three can be judged;
  how many more is bounded by the requests in flight and those given up
  (`GuessesAreCapped`), and the lock itself may never be set although the count
  closes the recovery.
- After a change of password, a recovery or a hide the only sessions of before are
  those about to be deleted, those of a login that overlapped, and those of a
  request given up between its two calls (`SignedOutUnlessLate`). The sliding expiry
  never brings a session back (`EndedStaysEnded`).
- The order of a deletion does what its comment says: whatever is interrupted and
  retried, an account that is gone leaves nothing behind (`DeletedLeavesOnlyStrays`),
  except what a request already past the gate stores after the deletion went by,
  gold rows included, and except the snapshots, which no call deletes.
- A second owner needs a boot that slept, between its count and its insert, through
  the insert of the first (`OneOwner`); and it is held back by the index even then,
  unless that could not be built or the first owner has been renamed;
  no order of administrators' requests deletes, hides or demotes the owner
  (`OwnerStands`; whether the owner can sign in also depends on the lockout, which is the
  matter of `Accounts`); every write is within the scope of its author, on the rows
  as they are, unless one of them was changed since it was judged, and every target
  is one the author's roster lists (`WritesStayInScope`).
- However releases boot, fail and stop, the schema is the recorded migrations in
  order, each once (`SchemaIsWhole`). A command that reports success has done what it
  says whatever earlier ones left half done (`SuccessfulCommandsAreDone`), and the
  positions stay the replay of their ledgers (`PositionsAreExplained`).

### Bounds

- `LedgerReplay`: four events, two days of two instants. A sell can wait behind
  another waiting sell, be covered by a later buy of the day or not, and cross a
  split; a fourth event leaves room for a day break after that.
- `SingleWriter`: two event ids, days 0..2 with today = 2, rows at 0 and 1, one
  failure. Two events suffice for a refused write (a sell and the buy it needs),
  and two past rows for a range with an untouched row on either side.
- `TwoWriters`: two clients, two event ids, starting from no event or one, so that
  both can be creating or one edit what the other creates; no rows (lines play no
  part in its properties), one failure. Each client can be overtaken at any call.
- `Imports`: two clients, four days of which the last is today, four holdings of
  which two are still to come, five requests: a sheet that repeats a saved row and
  has two equal ones, one that sells what only the first can have bought and creates
  a holding, dividends under an alias that moves to another holding, "delete all",
  and the deletion of a holding. Aborts and retries are not bounded. No splits: the
  replay of splits is the matter of `LedgerReplay`.
- `SnapshotJobs`, `LostOverride`: two clients, each with any number of requests one
  after the other, two tracked currencies and two amounts, so that an anchor can differ
  from what is shown and a form can name one bucket of two. `SnapshotJobs` starts from
  no row or from one of an earlier version, without lines and with a bucket of the
  legacy key, and has no bound on requests or stops; while one client is between its
  calls the other may complete any sequence of requests.
- `HistoryPage`: two users of whom one edits, three days of which two are the
  month's, two requests or runs, two gold rows. Two requests are what every claim
  about an overlap needs; a paste has two rows, so that one can be refused, or
  conflict, between the other's calls.
- `Portfolio`: two pages, one ticker and the rate, a TTL and a timeout of one
  instant each and three instants, enough for a fetch that starts before another
  and stores after it, and for the entry it leaves to expire. Quotes differ at every
  instant and the ticker once quotes zero.
- `Accounts`: two clients, two sessions, one password change or hide
  (`MaxEpoch`; two recoveries under way together can both pass), one request given
  up, the limit of three recoveries of the code. Two sessions are what a change of
  password tells apart, its own and the other's. Rows are stored in one collection
  only, which the deletion empties first, so that every later call can be overtaken.
- `Administration`: two replicas, three accounts in all, two requests: one client
  administers, the other changes who may. The feature flag and the lockout reset
  are judged like the requests offered and are not offered themselves. `Followed`
  stops one state after a boot without its index or a second owner, since the
  claims say nothing of what follows; after a failed bootstrap it goes on until
  some boot has made the owner.
- `Rollout`: three instances, three files, two failures or stops; two commands at
  once, three in all, one of them stopped, one trade, three legacy holdings and two
  in the source. A third command is the one that comes after two that overlapped.
- `MaxFaults`, `MaxEpoch`, `MaxRequests`, `MaxClock`, `MaxFailures`,
  `MaxBegins`, `MaxStops`, `MaxTrades`, `LastDay`, `Ids` bound otherwise endless
  behaviour. Where one of them runs out the model stops although the system would
  not, so `LedgerReplay`, the runs of `TransactionsService`, `Accounts`,
  `Administration`, `HistoryPage`, `Portfolio` and `Rollout` switch the deadlock
  check off; `Imports` and the runs of `SnapshotStore` keep it on.

Symmetry is used where clients, ids, sessions, names or amounts are interchangeable, and only in runs
without liveness.

### Fairness

Two runs have liveness, each under what the code's scheduling gives.

- `Imports!FairSpec`: per client, weak fairness of `Answer` (a handler whose
  request can be answered answers it) and of `Expire` (the driver's clock of 120
  seconds runs). Nothing is assumed of retries: an import may meet others in every
  attempt, and still every request is answered (`EveryRequestIsAnswered`), because the
  driver stops retrying and a contended transaction then gives up.
- `PortfolioService!FairSpec`: per page, weak fairness of `Serve`, its own steps and
  its fetches. The server runs the goroutines it starts, and the HTTP client's
  timeout ends every fetch. `EveryPageIsAnswered` holds although fetches fail and
  a page waits for all of its group.

Elsewhere none is assumed and no liveness is claimed: no call waits for another
request, so nothing can block, and a retry is the user's decision.

## Proofs

`TransactionsServiceProofs`, for any set of clients, ids, inputs, rows and any
number of failures:

- `TypeCorrectness`. The invariant adds `RequestsOK`: what a request must carry at
  each call, such as an id from the moment it starts and a non-empty set of rows
  while it rewrites.
- `SoloSuccessAlwaysExact`. Strengthened to say that a request still alone has,
  from its list on, the stored ledger in `list`, and from its acceptance on the
  position of that list: no other client has moved since, or `alone` were false; and
  that no list but an accepted one is ever stored (`PositionIsAlwaysAccepted`).
- `SoloCompensationIsExactHolds`, from the same invariant: the list a compensation alone
  derives the position from is the ledger it has just put back, and only the step that
  ends the request is in question (`OnlyItsOwnStepMoves`).
- `DamageComesFromOverlapHolds`. A request alone finds, when it compensates, the ledger
  its own write left (`Undisturbed`, `AloneInv`), so a compensation restores the ledger
  it started from.
- `RequestsImplementAtomicLedger` and `ProjectionIsExactHolds`, for one client
  (`SingleClient`). `LoneInv` says how far the request is: what the stored ledger is at
  each call in terms of the one the request found, which is the abstract ledger until
  the call that accepts it (`CommittedOf`). The refinement has a lemma per action: the
  accepting `Persist` is the step of the abstract specification, a failure that takes
  the compensation its damage, `AnswerLost` its lost answer (`LostAnswerMaps`), every
  other call a stutter. `Agreement` is
  what the mapping gives in return: when nothing is in flight the position is the
  replay of the ledger.
- `RedatesMissOnlyRowsBetweenHolds` rests on the same invariant.
- `HistoryMatchesLedgerHolds`, for one client. `HistoryInv` adds which rows are still
  to be rewritten (`Pending`), and that every other row shows the ledger as of its day.
  An event only shows from its day on (`LaterEventsDoNotShow`), so an edit puts out of
  step only the rows from the earlier of its two days on, which is where the heal
  starts.

What they need of the replay they take from `LedgerProofs`: a lone opening never
oversells, and redating one changes neither position nor verdict; a dividend moves
neither the quantity nor the cost of a line. One hypothesis is left to
`HistoryMatchesLedgerHolds`: `RowsArePast` says that the heals of the claim are of rows
before today, the dates of which events may not pass; today's row is still the job's to
write.

`LedgerProofs`, for ledgers of any length, any quantities, amounts and instants: all
that the run `ledger_replay` checks. The replay is a fold over the events in order, and
a fold is a function on the naturals, so induction is done on sets of natural numbers
(`Induction`, from the well-founded order of the naturals): a set that holds zero and
with each number the next is all of them.

- The order comes first: `AtPlace` is a bijection between the places of a ledger and its
  events, since instants and then ids order them, and openings come before the rest.
- `RedatingAnOpeningIsNeutralHolds`: openings keep their places whatever their day, and
  no part of the replay reads the day of an opening but the end of a day, where nothing
  waits yet.
- `AsOfNeverOversellsHolds`: the ledger as of a day is a prefix of the ledger in order,
  and a prefix that ends with a day settles its waiting sells as the whole one does. The
  exception in its statement is the opening declared after a sell.
- `WaitingOnlyHelpsHolds`: without an oversell nothing ever waits.
- `CostIsConservedHolds`: at each place, what the replay holds in cost and has realised,
  together with the sells that wait, balances against what the events so far paid and
  brought in (`InBalance`); a clamped sell keeps the balance too.
- `OversellIsDayEndShortfallHolds`: without splits, the shares held less the sells that
  wait are the running sum of what was traded as long as nothing was oversold
  (`InStock`), and the verdict falls where a day ends (`EndsItsDay`); the sum over the
  places of a day is the sum over the events that count by its end (`Counted`).
- Ledgers kept as sequences, which is how `Imports` has them: two ledgers whose events
  come in the same order are replayed the same (`SameEventsSameReplay`), and dividends
  change nothing of the replay but their own total (`AllDividendsMoveNothing`).

`ImportsProofs`, for any number of clients, holdings, sheets and retries:

- `ImportsCommitPositions`. The invariant says that a plan touches a ledger only
  together with the position of its holding (`Covers`), and that what a transaction
  will write for a holding is right for the ledger as it stands as long as nobody
  has written the holding's document since its snapshot (`Fits`). The second part
  survives the commits of others because every request that touches a ledger
  writes that document too, and so adds it to `missed`.
- `HistoryCommitsWithTheLedgerHolds`. `LinesInv` says of a plan that the lines it will
  write are right for the ledgers as they stand, as long as neither the row nor, where
  it adds events, the holding has been written by others (`LinesFit`), and that a row
  it does not write shows none of its events (`Heals`, `Unseen`). So a commit of
  another that writes neither document of a line has not moved it, and a row that two
  imports write at once is caught by its own document. Three lemmas on the replay
  carry it: events after a day move no line of that day (`UnseenMoveNoLine`); taking
  the dividends out moves none either (`DividendsMoveNoLine`), which is why deleting
  them heals nothing; and the numbers a ledger's events have do not matter, only
  their order (`SameOrderSameReplay`), since an event gets another number in the
  shorter ledger. `NewEvents` says what a sheet adds, from its rows in the order of
  their days (`InOrder`).
- `ChartReadsHistoryHolds`, the chart's part of `PagesAgree`: the running sum of the
  chart's columns reads at a stored day what the healed row holds as invested. From the
  rows' invariant above, and from two facts about money: what a sum of fractions comes
  to depends on its terms alone (`SumIsAFractionSum`, `SameFractionSums`), and neither
  shares nor cost go below nothing in the replay of an accepted ledger (`CostHeld`), so
  a column that is left out, zero at each of its days, hides no money of any holding.
- `TwinsComeFromOverlapHolds`. `TwinInv` says of each birth a plan holds that whoever
  had its name in the snapshot was not alone with it, and that a document that has
  changed since is among the missed. A first statement of this property left out the
  currency and the ambiguous names; the attempt to prove it showed both.
- `ImportsMergeLedgers`: `Imports` implements `MergedLedger`, the commit of an upload
  being its merge and the commit of "delete all" its `Clear`. Of n equal rows and m
  saved copies the last n - m are new, wherever they stand (`LaterRows`,
  `CopiesTaken`), and the copies of a ledger with events appended are the sum of both
  (`CopiesOfJoined`): so what a sheet leaves has each event as often as the fuller of
  the two. `MergeInv` adds to the two invariants above what a transaction that may
  still commit has `Promised`: such a merge for every holding it has not missed a write
  of, from the holding as it is. At the commit nothing it writes is missed, so what it
  has missed it leaves alone, which is the one exception that `MergedLedger` grants.

`SnapshotStoreProofs`:

All five for any number of writers, in any overlap, stopping anywhere, from one
invariant, `StoreInv`: what each request carries whatever becomes of the row
(`Offered`), and what it has read still holds of the row as far as its write depends on
it, given the kinds of write it has missed (`StillHolds`): a job's manual part, the lines
under a heal, the absence of a row under an add, the first value of the job under an
override, the absence of a job's bucket under an unforced deletion. `JobWrite`,
`AddWrite` and `OverrideWrite` say what a write leaves, `OthersStillHold` that every
other request keeps what it knows but for what the new kinds excuse.

- `LinesAlwaysExplainRow`, from rows that satisfy it, and `LinesAlwaysStayExplained`,
  the action property of the run, from any rows: a merge over a job's set fills every
  tracked bucket, a merge over a user's set leaves no bucket of the job.
- `OverridesSurviveJobsHolds`: jobs, however they overlap one another, lose no override
  (`OverridesSurviveJobs`); what costs one is a missed write of a user, or of a job that
  has missed one. `lost_override` shows such a loss.
- `WritersImplementSnapshotRow` and `GuardedRowsStayHolds`, the other two properties of
  the run.

`PagesProofs`, of `HistoryPage`, for any users, days, pastes and amounts, any number of requests
and runs, with one invariant, `PageInv`:

- `RowsAreNeverAheadHolds`. A request that is past its date check, and a run, carry a
  date the server's day has reached; the server's day never goes back, through any of
  the three midnights (`LaterKeeps`). An override and a deletion write only where a row
  is or leave none.
- `ReportsAreTrueHolds`. `PasteSound` and `RunSound` say at each call what a request
  knows of its row unless others have touched it: between the look and the write of an
  upsert, that there is none; of a run, that every user asked for is still to come,
  under way, done or failed, and none twice (`Reaches`). A write of another request
  keeps both, since it marks the row it writes (`OthersStaySound`). The attempt to prove
  it showed that a paste that names one day twice took a conflict it had already
  reported for known again; a paste of the run now does so.

`PagesProofs`, of the gold of `HistoryPage`, for purchases, returns and prices of any
number and amount and any days: the three properties of the gold pages that the run
`history_page` checks.

- `OverlayIsAsOfHolds`. `GoldInv` says that the tables hold purchases and prices, none
  of these dated ahead, and that a page between its two reads has its list and its
  dates in order. The lists are made by rank (`Sorted`), so that ranks in a total order
  (`RanksOfAnOrder`, `SortedLists`) give their order. Then one visit of the walk is
  taken at a time (`StepOfTheWalk`): the pointers have passed exactly what is dated by
  the day (`PointerMoves`), what has been summed up is the total of those places
  (`TotalsAddUp`), and the row compared with is the last one overlaid (`WalkAt`); by
  induction over the dates the walk is `AsOf` (`WalkIsAsOf`).
- `GaplessMeansWholeHolds`. With nothing missing each day from the first purchase on is
  the nearest earlier priced day of itself (`PriceOfItsOwn`), and the totals of the
  metrics are those of today and of the purchases dated later.
- `PagingIsInvisibleHolds`. The days a page lists (`ListedDays`) end on the same day as
  all the days kept, so both read the same prices; the row a volatility is compared
  with is either within the page or its baseline (`SameBefore`), but where the baseline
  holds no gold and an earlier row does, which is the exception in the statement.

`PagesProofs`, of `PortfolioService`, for any number of callers, symbols and pages:

- `CacheServesFreshQuotes`. The invariant is that no entry was stored later than a
  timeout after its quote (`EntriesAreRecent`) and that no fetch is older than the
  timeout (`FetchesEnd`), which `Tick` keeps. `PagesAreServedFreshQuotes` carries it
  to the pages: every step of theirs is a step of the cache or leaves it alone.
- `HeadlineIsItsRowsHolds` and `HeadlineIsTheSnapshotHolds`. `ViewInv` says that a page
  that is done has one price for each holding of its portfolio, and zero for a holding
  without a ticker (`PagePriced`). The rest is about the sums, with the lemmas of
  `LedgerProofs`: a holding sold out adds nothing to the rows the headline leaves out
  (`SummaryIsItsRows`); the headline splits by currency (`SummaryByCurrency`), each part
  of it is a bucket of the snapshot (`SnapshotIsTheHeadline`), and carried prices give
  the same lines whatever is quoted, as long as lines of one ticker have one price
  (`CarriedLines`).

`AccountsProofs`, for any number of clients and sessions, any limit on recoveries and
any number of requests given up: every property the run `accounts` checks.

- `TypeCorrect` and `GuessesStayCapped` rest on one count: the failures on the row and
  the recoveries waiting to register stay below the limit plus the clients, and
  account for every wrong recovery except those given up before they registered.
- `SessionsAreSignedOut` is inductive with the types: a request that has written the
  password or the flag still has the deletion ahead, and no other request takes it
  away.
- `EndedSessionsStayEnded` follows from session ids being unused, stored or spent.
- `DeletionLeavesOnlyStrays` is strengthened with what each deletion under way has
  emptied: the collections of lower rank hold strays only, and past the sessions
  only late sessions are left. Two deletions at once need no extra care.

`AdministrationProofs`, for any number of replicas, accounts and requests: every
property the run `administration` checks.

- `OneOwnerHolds`. `OwnerInv`: unless a boot slept through an insert, a replica about to
  insert has counted no owner and there is none; no request makes an owner.
  `SecondOwnersNeedAFreeName` is the action property behind the exception.
- `OwnerStandsHolds`. `StandingInv`: a request about to hide or delete has judged its
  target not to be an owner, and no account becomes one but by a boot's insert.
- `WritesStayInScopeHolds`. `ScopeInv`: what a request was judged on is still so, or
  it is `overtaken`; every step that changes a role, a region or a flag says which.

`RolloutProofs`, for any number of instances, files, holdings, commands and stops:

- `SchemaIsWholeHolds`. `SchemaInv`: only the holder of the lock is past it, what it has
  still to apply is what the table does not record, and an instance whose lock lives on
  in the pool applies nothing more.
- `PositionsAreExplainedHolds`. `DataInv`: a command that is about to seed a holding
  has seen its ledger empty, and its opening replays to the position it was given.
- `SuccessfulCommandsAreDoneHolds`. `DoneInv`: while a command has run alone, whatever
  is undone is among what it still has to visit, whichever commands were stopped half
  way before it (`Progress`); it rests on the holdings a destination has being copies
  of the source's (`HoldersInv`). A first statement asked a ledger of every position,
  one of dividends alone included; the attempt to prove it showed that
  `migrate transactions` takes that one for empty.

Assumptions are the named `ASSUME`s of the modules, which TLC evaluates in every run:
the initial ledgers and portfolios are accepted, a ledger is a sequence of transactions,
empty for a holding not yet created, whose document has a symbol, a script, a currency
and aliases (`InitialBooksAreAccepted`), and the initial rows are rows, none of them
dated after the first day (`SnapsAreNotAhead`); the rows an import heals are of days
before today (`RowsArePast`; today's row is the job's); a paste is a list of rows
(`PastesAreRows`) and so is an import's sheet, of transactions, of dividends on a
dividends sheet (`SheetsAreRows`), over finitely many holdings (`HoldingsAreFinite`);
inputs are transactions, requests are of the known kinds, bounds and times are naturals,
no amount, account or instance equals the marker of a missing one (`NobodyIsNoId`,
`NobodyIsNoInstance`); there are finitely many clients, each page has a goroutine per
ticker, and a recovery is allowed at least one try; migration files have distinct
numbers, which `orderMigrations` checks (`FilesAreDistinct`); the holdings of before the
ledgers have a position and no events (`LegacyHoldings`), and an opening made of such a
position replays to it (`OpeningsExplain`), which is what `migrate transactions` is
written for; every owner of a portfolio has an account (`OwnersHaveAccounts`), and the
source has one holding of a script unless the run doubles it (`ScriptsAreIdentities`);
ids of events are finitely many positive naturals (`IdsAreOrdered`); a form of gold has
whole grams and cash (`FormsAreWhole`) and the table of purchases starts with such rows
(`LedgersAreOfPurchases`); a holding's currency is a tracked one, blank, or the USD of
old documents (`PortfoliosAreHoldings`, the three `CurrencyOf` and `currencyOf` tell
apart), and a previous close has an amount for each (`ClosesAreBuckets`).

Only model-checked:

- of `PagesAgree`, the dividends (`DividendPagesAgree`) and the ledger page
  (`LedgerPageAddsUp`);
- liveness (`EveryRequestIsAnswered`, `EveryPageIsAnswered`), which is out of the
  prover's reach.

The two pages order their rows with `SetToSortSeq` and `SortSeq` and pick from them with
`SelectSeq`, which the provers cannot expand: written as they are, nothing follows about
what the lists hold. Besides, that the shares listed add up to the shares held holds
of ledgers without splits only, as those of the run are.

## Plan

Done: every module of the table above, and the proofs of it listed. What is left is
the rest of `PagesAgree`: first its lists written as functions over the places of a
ledger, without the sorting operators, then the sums over them.

## Not modelled

- Iterations over floats and rounding: XIRR, the tolerance of the replay, drift,
  derived totals rounded to cents.
- Text: the layout of CSV files, the parsing of dates, the score of a fuzzy match
  and the suggestions made from it, messages.
- Reads with no state of their own: the search for a symbol and its quote, an
  administrator's read of one user's portfolio (served by the same services).
- Requests whose effect no other part reads: edits of a holding's script, exchange,
  notes or currency (the currency is copied onto its events), the security
  questions, the count of failed logins.
- The dry run of the commands and the break-glass reset of a lockout: one read, or
  one write of a field that `Accounts` has another way to write.
- HTTP routing and error mapping, branding, configuration, logging, telemetry.
- Generated code and the frontend.

## Remarks from the modelling

Behaviour met on the way that is not the subject of a run of its own.

- `docs/portfolio-model.md:77-79` says that a row replaces the saved trade it equals,
  and counts occurrences: of two equal rows both stay. A name that matches two
  holdings is ambiguous; if the owner asks to create a holding for it one is created
  beside them.
- An abandoned cascade of a holding's deletion leaves events that no request can
  delete (but dividends, which "delete all" clears), since every other one looks the
  holding up first. They stay on the pages that list by user.
- Aliases are moved by writes to the holdings that change
  (`persistence/holdings.go:169`); two imports that give one name to two holdings at
  once write different documents, so both can keep it. No property covers this.
- A holding in the currency of old documents (USD) counts in the headline and in
  no bucket of a snapshot. Gold bought at a future date counts in the metrics only.
  Two holdings of one symbol each show the joint dividends in a History row.
- `copy-holdings` takes the script as the identity, collapses holdings of equal script,
  and copies positions without their ledgers; `--replace` leaves the events of what
  it removes. A user's trade on a holding before `migrate transactions` has seeded it
  replaces the position by that of the trade alone. A position of dividends alone, with
  no shares, cost or profit, is seeded no ledger (`migrate.go:172-176`). A sold-out holding that still
  has an average cost loses it at its next replay.
- A boot whose index or owner could not be made serves all the same
  (`serve.go:187-193`). An unlock after the boot's sixty seconds leaves the advisory
  lock with a pooled connection.
- The frontend labels a row's `realizedPnl` as native (`HoldingsTable.tsx:37`), and its
  card of EUR holdings shows their sum as the converted equivalent
  (`HoldingsByCurrency.tsx:98`, `:122`).
- A row written by hand on a Saturday, without lines, hides Friday's lines from
  Sunday's job. A user whose row is force-deleted between the two calls of the job's
  upsert counts as done.
- The volatility of gold in the first row of a month differs from the longer page
  when all gold had been sold by the baseline.
