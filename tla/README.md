# Formal model of promo_WB_Ozon

TLA+ modules, TLC configurations and TLAPS proofs for the server in `src/src/promo`: a
FastAPI application in which users upload spreadsheets for a store, start *check* and
*process* runs for the WB and Ozon marketplaces, and download the results. Paths without a
directory are relative to `src/src/promo`; `docs/NN` stands for `src/docs/NN_*.md`.

## 1. Inventory

One Python process serves everything. Three kinds of threads share the database (PostgreSQL
through SQLAlchemy, READ COMMITTED), a directory of files, and dictionaries in memory:

* **request threads**: FastAPI runs every handler in a thread of its pool; a handler opens one
  transaction (`AppContext.request_scope`, `shared/persistence/wiring.py:85`) and commits it at
  the end or rolls it back on any exception;
* **the worker** (`runs/runtime.py`): one daemon thread that serves the in-memory job queue;
* **the maintenance thread** (`system_maintenance/runtime.py`): one daemon thread that every
  second purges expired uploads, expires result files and fails timed-out runs, each in a
  transaction of its own.

| Component | State it keeps | Operations | What makes it hard | What makes it correct |
|---|---|---|---|---|
| Run creation (`runs/service.py:318`) | rows `runs`, `run_files`; lock table and job queue in memory | check policy, number, insert, acquire, copy inputs, enqueue, commit | memory changes at once, rows at commit; failures between them; `max(id)+1` keys | one active run per line; a lock belongs to somebody who will release it; a committed run has a job |
| Run execution (`runs/runtime.py:55`, `runs/service.py:191`) | `runs`, `run_summary_audit`, `run_detail_audit`, `run_files` | load, transition, validate, execute, finish, recover | stale copies, select-then-update of all columns, retries, second transaction after a failure | final is final; a final run has one summary, a consistent row and no lock; no execution without validation |
| Timeout reconciliation (`runs/service.py:230`) | the same rows and locks | fail overdue runs | races with the worker on row locks and keys | every run ends |
| Temporary files (`temp_files/service.py`) | rows `temporary_uploaded_files`; files on disk | upload, replace, delete, list, purge | unlink before commit; limits checked against a set read earlier | an active row has its file; one price file, at most 20 promo files, one Ozon file |
| Result files (`runs/service.py:598`, `system_maintenance/retention.py`, `presentation/app.py:1074`) | rows `run_files`, files on disk | supersede, expire, mark unavailable, download | three writers of the same columns; check-then-open | a file that is offered can be opened; the reason of unavailability is right |
| Sessions and users (`auth/service.py`, `users/service.py`) | session dictionary, `users` | login, logout, session check, change password, create, edit, block, unblock | sessions are read, checked and written back without a lock; whole rows are written back from copies | who acts was entitled to; a block or a password is not undone; user names are unique |
| Access and stores (`access/`, `stores/`) | `stores`, `user_permissions`, `user_store_access` | create, edit, settings, archive, restore, grant, revoke | check-then-insert without unique indexes; contexts computed in an earlier transaction | no operation that was never allowed; a creator has access; one grant per pair |
| WB calculation (`wb/service.py`) | none | aggregate, decide, summarise, write | boundary arithmetic, missing and duplicate data, rows spread over files | the documented rules of `docs/10` |
| Ozon calculation (`ozon/service.py`) | none | decide, summarise, write | a cascade of boundary comparisons | the documented rules of `docs/11` |
| File storage (`file_storage/service.py`) | directory tree | write, copy, delete | not transactional | names never collide |
| Audit, history, logs (`audit/`, `history/`, `logs/`, `shared/persistence/read_queries.py`) | none of their own | filter, sort, page, run page | several statements per page, rows that shift between pages, the same logic twice | a walk shows every row once accessible; a finished run is shown whole |
| Bootstrap (`admin_cli/`) | `users` | create the first administrator | run twice, or next to the server | one first administrator |
| HTTP, HTML (`presentation/`) | none | parsing, rendering, paging links | two transactions per request; links that carry the state of a page | a link means what the page it is on shows |
| Settings, migrations | none | - | - | - |

Interactions: request threads call the services of their transaction; creation hands a run to
the worker through the queue and to nobody else; the lock table is shared by creation, worker
and reconciliation; the file tree is shared by uploads, input copies, results and retention.

The hazards of this code, each at its line and with the properties that watch it, are listed
under `hazards` in `PROJECT.json`.

## 2. Plan

Done, in this order: `RunEngine` with its contract `RunContract` and its proofs; `TempFiles` with
its contract `TempSet`; `WBProcessing` and `OzonProcessing`, composed by `Calculation`;
`ResultFiles` and its proofs; `Accounts`; `StoreAccess`; `ReadModels`. Then the proofs: the outcome
of runs and the refinement of `RunContract` (in `RunEngineProofs`), `Accounts`, `StoreAccess`,
`TempFiles`, both calculations (`CalculationProofs`), `ReadModels`, and the refinement of `TempSet`.

Left: a bound on what a line's creators can leave behind after a fault: which lock stays, and until
which restart. `LockHasOwner` and `LocksOwned` speak only of the time before the first fault.

## 3. Modules

| Module | Models |
|---|---|
| `RunEngine` | run creation, worker, reconciliation, restarts; all their properties |
| `RunContract` | what the engine makes visible of a run while no run is overdue: less than docs/06 asks for (section 7) |
| `MCRunEngine` | model values, sets and symmetry for TLC |
| `TempFiles` | uploads, replacements, deletions and the purge, of several owners in one table; all their properties |
| `TempSet` | what `TempFiles` promises of the active files to their owners |
| `MCTempFiles` | model values and symmetry for TLC |
| `RunEngineProofs` | the inductive invariant of `RunEngine` and its consequences, what the database says of a run, and that the engine implements `RunContract`, proved |
| `TempFilesProofs` | locks, waits, limits, slots and the disk of `TempFiles`, and that it implements `TempSet` for one request at a time, proved |
| `CalculationProofs` | the arithmetic, the aggregates, the decisions and the summaries of `Calculation`, proved |
| `AccountsProofs`, `StoreAccessProofs` | who was entitled to what, and what a race can do, proved |
| `ReadModelsProofs` | what the pages of a walk show, and that SQL and service agree on them, proved |
| `MinMaxSum` | facts about `Min`, `Max` and sums that the other proofs cite |
| `WBProcessing`, `OzonProcessing` | one pass of each calculation: rows, decisions, summary, saved columns |
| `Calculation` | the dispatch of a run to one of the two, and the properties of both |
| `ResultFiles` | the files of a line's runs: added, superseded, expired, downloaded |
| `ResultFilesProofs` | the inductive invariant of `ResultFiles` and its consequences, proved |
| `Accounts` | users and sessions: logins, session checks, password changes, administration, bootstrap |
| `StoreAccess` | stores, grants and permissions, the policy and the operations that ask it |
| `ReadModels` | history, log, detail audit and run page, read while their tables change |
| `MCCalculation`, `MCResultFiles`, `MCAccounts`, `MCStoreAccess`, `MCReadModels` | values, initial tables and symmetry for TLC |

### RunEngine: state and actions

| Variable | Code |
|---|---|
| `runs`, `summaries` | committed rows of `runs` and `run_summary_audit` (`shared/persistence/models.py:96`, `:136`) |
| `locks` | `InMemoryRunLockManager._locks` (`runs/service.py:43`), one entry per (store, module): a *line* |
| `queue` | `RunExecutionQueue._jobs` (`runs/service.py:66`) |
| `req[c]` | a request thread inside `_create_run`: program counter and its uncommitted run |
| `w` | the worker: program counter, job, its copy `dto` of the run, the row `base` that `update()` selected, its uncommitted writes `row` and `summary` |
| `m` | the reconciliation cycle: the copies `todo` it listed, its uncommitted writes |
| `overdue` | runs started longer ago than their hard timeout; wall-clock time is an environment action |
| `validated` | a history variable: runs whose validation succeeded |

* **Creation**: `BeginRun` (the policy sees no active run), `RejectInputSet`, `NumberRun`
  (`max(id)+1`), `InsertRun`, `AcquireLock` or `LockConflict`, `CopyAndEnqueue` or
  `FirstCopyFails` or `LaterCopyFails`, `CommitRun` or `CommitRunFails`.
* **Worker**: `TakeJob`; `RunNotVisible`, `RunAlreadyFinal` or `LoadRun`;
  `SelectBeforeTransition`, `Transition`; `ValidateRun`, `ExecuteRun` or `StrategyFails`;
  `NumberSummary`, `InsertSummary` (or `SummaryKeyTaken`, `WorkerIsVictim`);
  `SelectBeforeFinish`, `FinishRun` (or `ResultNotStored`); `WorkerReleasesLock`;
  `WorkerCommits` or `WorkerCommitFails`; `RecoverRun` for the second transaction.
* **Reconciliation**: `ListOverdueRuns`, `NextOverdueRun`, `InsertTimeoutSummary` (or
  `TimeoutSummaryKeyTaken`), `SelectOverdueRun`, `FailOverdueRun` (or `MaintIsVictim`),
  `MaintReleasesLock`, `MaintCommits` or `MaintCommitFails`.
* **Environment**: `RunBecomesOverdue`, `Restart`.

What the database contributes is modelled from its documented behaviour at READ COMMITTED: an
uncommitted write is invisible to other transactions; an `UPDATE` waits for the row lock of
another transaction; an `INSERT` waits for another transaction with the same primary key and
fails if that one commits; a cycle of waits is broken by aborting one transaction.
`SqlAlchemyRepository.update` selects the row and writes the columns in which the caller's copy
differs from it (`Merge`): two threads with copies of different age therefore mix their columns,
which is the source of several findings.

Log rows (`system_logs`) are not state of the model, but they are inserted in the caller's
transaction, after the lock was released or the job queued. `SystemLogRepository.add` drops the id
that the logger computed and lets the database assign one (`shared/persistence/repositories.py:146`),
so their keys never collide; an insert can fail only as any statement can. `CommitRunFails`,
`WorkerCommitFails` and `MaintCommitFails` stand for that and for a failing commit.

`RunContract` is what the commits of the engine show of a run. It is not the life cycle of docs/06:
the statuses `checking`, `processing` and the `validating` of a run that fails are set and replaced
within one transaction (section 7), so that the contract has a check end directly from `created`
and a process run complete directly from `validating`. That the run `engine_no_timeouts` passes says
that the code keeps this contract, not that the contract is the documented one.

Abstractions: input files are one atomic copy that succeeds, fails before any row was flushed,
or fails later; the calculation succeeds or fails; a reconciliation cycle that lists nothing
is not a step; the run's other columns (numbers, times, texts) do not matter to any property.

### TempFiles: state and actions

| Variable | Code |
|---|---|
| `rows` | committed rows of `temporary_uploaded_files` (`shared/persistence/models.py:76`), by primary key; an *owner* is a (user, store) pair, and all owners share the table and its keys |
| `disk`, `stored` | the stored files that exist, and how many were ever stored (their names are random, here numbers in the order of storing) |
| `expired` | files `1..expired` are older than their ttl (`temp_files/service.py:200`): time passes as an environment action, and as all files have the same ttl, they expire in order |
| `tx[t]` | the open transaction of a request thread or of the maintenance thread: its step, the rows it has to drop as it read them (`todo`), the row `update()` or `delete()` selected (`base`), the new file's `path` and `key`, its uncommitted `writes` |
| `mixed` | a history variable: an `update()` has written back its copy over a row that had become another file's (`Mixes`) |

* **Upload**: `BeginUpload` (`_project_active_set`, `_validate_projected_set` on the files of the
  owner, `ActiveOf`), `ListSlot` (the set
  is read a second time to empty the slot), for each file of the slot `DropFile`, `SelectRow`,
  `DeactivateRow`; then `StoreFile`, `NumberRow` (`max(id)+1`), `InsertRow`, `Commit`.
* **Replacement**: `BeginReplace`, `CheckReplacement`, the same three steps for the replaced row,
  then as an upload. **Deletion**: `BeginDelete`, `DropFile`, `SelectRow`, `DeleteRow`, `Commit`.
* **Purge**: `BeginPurge` lists the expired rows, then each is dropped as in a deletion.
* **Environment**: `FileExpires`, `Fail` (a file operation, the log row or the commit fails).

A client is a request thread: it serves one request at a time, of any owner. `ReplaceAnything` says
which replacements the clients ask for: any file and any kind, or only active files and the same kind.
The page offers the former; the runs that need the latter say so. Rejected requests change nothing and are not
steps. Sizes are small numbers. `exists()` and `unlink()` are one step; the `FileNotFoundError`
of a thread that lost the race in between is one of the cases of `Fail`.

Owners matter because keys are used again: `_next_id` takes the maximum over the whole table, so the
key of a row that has been deleted goes to the next upload of whichever owner, and a delete, a purge
or an `update()` by the key of a copy read before then hits a row of somebody else; `Merge` writes the
owner's columns too. The rows of the other module are in the same table. An Ozon set behaves as that
of an owner who uploads price files only - one file that the next one replaces, without a limit that
could reject it - so the owners of a WB instance include the Ozon ones.

### WBProcessing, OzonProcessing and Calculation

One behaviour is one pass (`validate` or `execute`) over input that is chosen row by row while it
is read: `OpenFiles` checks the composition, the settings and the workbooks, `ReadPromoRow` and
`NextPromoFile` fold the promo rows into `aggregates` (`_aggregate_promos`), `EndPromos` rejects a
run without a valid row, `DecideRow` decides the price rows (`_build_price_decisions`), and
`Validated`, `WriteOutput` or `RefuseToWrite` end the pass. `OzonProcessing` has the same shape
with one file. `Calculation` picks the strategy by the run's module, as
`MarketplaceRunExecutionStrategy._dispatch` does.

Numbers are what the cells are normalised to. Prices are whole units (the code's `Decimal` is
exact there too), uploaded discounts tenths of a percent, so that the ceiling has something to
round. `None` is a cell without a number. `NotANumber` is the text "nan": `Decimal("nan")` is
accepted by `_normalize_decimal` and raises in the first ordering comparison, which ends the pass
as `crashed` - not as a validation failure. `_normalize_discount` catches it for discounts only.
What can be wrong with a workbook before its rows are read is one `fault`.

### ResultFiles

| Variable | Code |
|---|---|
| `rows` | committed `run_files` of one line, by primary key: path, role, availability and its reason |
| `results` | the `result_file_id` of the line's successful process runs, in their order |
| `disk`, `stored`, `expired` | as in `TempFiles`; all run files live for five days |
| `tx[t]` | the open transaction of a request, of the worker or of the maintenance thread |
| `broken` | history: files whose download was accepted and then found no file |

`AddFile` (`StoreFile`, `NumberRow`, `InsertRow` or `KeyTaken`) is an input copy of a new run or
the worker's result; the worker then supersedes (`ListCandidates`, `SkipCandidate` or
`ResolveCandidate`, `Supersede` for each older result), and commits the run with it. Retention
lists, and for each row deletes the file and marks the row, in one transaction. A download checks
in one transaction (`CheckDownload`) and reads after it (`ReadDownload`). `Fail` ends any of these
transactions; what it did to the disk stays. The lock table admits one process run per line, so
the worker is the only thread that adds results; that a line can be shared after an early release
(section 7) does not matter here, since one worker executes all runs.

### Accounts

`users` are the committed rows with the four columns that anything depends on, `sessions` the
dictionary of `InMemorySessionStore`, `handed` the tokens that clients have. A request of client
`c` is `tx[c]`: `UseToken` and `Authorise` or `Deny` are `current_session_context`, in a
transaction of its own; `ChangeOwnPassword` follows it in the same one; `Administer` begins the
second transaction of an administrator's request with the context computed in the first. A change
then is `ReadCopy`, `CheckName`, `SelectBase` (`update()` selects the row), `UpdateRow` (the
columns in which the copy differs, `Merged`) and `Commit`; a creation `CheckName`, `NumberUser`,
`InsertUser`. `Login` checks and reads the row again, and creates its session before it commits.
`CreateFirstAdmin` is the command line's. Verifying a password costs time, which is why the row
read by the identity check and the copy that is written are two reads.

Three fields of `tx[c]` are history: `fit` is what the actor was entitled to at any moment since
the session was read, `stale` says that the row changed since the copy was read, `overtaken` that
somebody committed since the name was checked.

### StoreAccess

The same scheme for `stores`, with the two tables of grants. `Request` computes the context
(`sees`, `may`) in one transaction; `AskPolicy` or `Denied` reads the store and asks the policy in
the next; `NextStep` leads to the operation. `StartRun` is the part of `_create_run` that asks the
policy (what follows is `RunEngine`). Granting and revoking find a pair, number and insert or
delete by primary key. A creator who is no administrator gets a grant in the same transaction.
An archive and a restore also write who archived; the three WB percentages are one value.

### ReadModels

`runs`, the `names` of the stores and `access` are what the listings read; one reader's request and
walk from page to page is `view`. Stores are ids: access, scope and the filter by store go by
`store_id`, while history and log show, search and sort by the store's name, which `RenameStore`
(`edit_store`) changes. The operators `Sql*` translate the query gateways, `Service*` the filtering, sorting and
paging that the services do without a gateway: the application uses the former, the unit tests
also the latter. The order of the statements of a page is `Steps`; `Turn` goes to the next page by
the link of the HTML page (`LinkQuery`, what `_page_href` leaves of the parameters) or by the API.
A page (`Page`) is the rows at the `size` places behind its offset; a row's place (`SqlPlaces`,
`ServicePlaces`) is one more than the number of rows that the ordering puts ahead of it.
A filter by equality stands for all of them; words stand for the texts that a search looks in.
`missing` is history: the rows that matched when the walk began and have not been shown.

## 4. Runs

`MaxRuns`, `MaxRetries`, `MaxRestarts` and `MaxFaults` bound the runs ever created, the
visibility retries (3 in the code), the restarts and the failing operations or commits; the other
`Max...` constants bound rows, files, tokens and requests, as each module says.

| Run | Bounds | Shows |
|---|---|---|
| `engine_safety` | 1 line, 2 requests, 2 runs, 1 retry, timeouts, 1 fault | the invariants that hold in every environment; until something fails, no lock is left behind |
| `engine_no_timeouts` | 2 lines, 2 requests, 2 runs, 1 retry, 1 restart, 1 fault, no timeouts | the refinement of `RunContract` (what is committed, not what docs/06 describes; it includes that a run has a business result iff it is final), one summary per run; until a fault or restart, an active run holds its lock until its end is about to be committed |
| `engine_live` | 1 line, 1 request, 2 runs, 1 retry, timeouts, 1 restart, fair | every run ends and every lock is released; with deadlock checking: some thread can always move until the bounds are used up |
| `temp_one_client` | WB, 2 owners, 1 request at a time, 3 files of 1 unit, at most 2 units and 2 promo files each, purge of 2 files, 1 fault, fair | every owner's set stays within its limits, and changes as in `TempSet`; before a file expires or an operation fails, the disk at rest holds exactly the files of the active rows; an expired row disappears, also when it was inserted again |
| `temp_two_clients` | WB, 2 owners, 2 requests, 3 files, 1 promo file each, any replacement, purge of 2 files | the overshoot of an owner's promo limit, until an update has mixed two files; no circle of waits |
| `calculation` | WB: 2 articles, 3 promo rows in 1 or 2 files, 2 price rows, 3 settings; Ozon: every combination of 60 cells, 2 rows | every decision is the one recomputed from the rows; the summaries add up; the saved columns are complete |
| `result_files` | 1 client, the worker, the maintenance thread, 4 files, 2 of them old, 1 fault, fair | one current result; a missing file is one past its time; what is past its time is withdrawn in the end |
| `accounts` | 2 clients, 2 users, 3 names, 2 passwords, 1 token, 1 fault | who acts was entitled to; lost updates and twin names only by a commit in a named window |
| `stores` | 2 clients, an administrator and a manager, 2 stores, 2 rows per table of grants, 4 requests, 1 fault | every operation was allowed at some moment of its request; the creator has access |
| `read_models` | 2 stores with 2 names, 3 runs, pages of 2 rows, 8 queries, 1 change of a name or of access | walks by columns that last skip nothing, walks show nothing inaccessible, show finished runs whole; SQL and service agree |
| `final_status_overwritten`, `paging_turns_around` | as small as the behaviour allows | the findings of section 7 |

Why the bounds are enough. Each property of `RunEngine` is about one run, or about two runs of one
line; two lines add only the independence of their locks, two requests every race of creators,
two runs every reuse of an id and a successor of a run, one fault every single failure at every
step. Two requests matter because a third one would wait for the same key as the second.
One visibility retry is the least that tells a job that comes back from one that is dropped.
For the temporary files: three files are a slot's file, its successor and an upload next to it, by
the same owner or by another, which covers every reuse of a key (`Room` keeps a begun upload from
being cut off by the bound). With files of one unit, the total of 2 units is met and rejects a third
file in `temp_one_client`, where the promo limit is as large; `temp_two_clients` has a promo limit of
1, which two requests exceed. A limit below the number of files that an owner can have is what both
need; different sizes would only reject earlier, and are left to the proof of `TotalOK`.
`temp_one_client` takes the replacements of the same kind only, because of the free replacement
described in section 7. Module "ozon", where one file is the whole set, has no run of its own.
Calculation: the rows lie on both sides of every comparison (a plan price below, at and above the
price, discounts that are rounded up, thresholds inside and outside of the range), and two rows
of one article in one file or in two, with a third of another, are what an aggregate can depend on.
Result files: a result, its successor and two input copies are every overlap of superseding and
expiring; two expired files make the retention transaction span two rows. Accounts and stores:
each property relates one request to commits of others, so two clients suffice, one of them
committing again and again while the other stands still. Read models: three rows on pages of two
make a walk of two pages during which one row can come in or a store can get another name.

Symmetry: request threads (and lines, owners and stores, where there are two) are interchangeable,
and no property of the symmetric runs distinguishes them; the set of queries is symmetric in the
stores; the runs with liveness properties use none.

`TypeOK` of `RunEngine` and `TempFiles` is checked by their runs and proved, that of `ResultFiles`,
`Accounts`, `StoreAccess` and `ReadModels` is proved (section 5). The assumptions of a module, on
which its proofs rest, are evaluated by TLC in its runs.

`CHECK_DEADLOCK FALSE` is used where the system may really stop within the bounds: when all
`MaxRuns` ids are used and every run is final, and, with a leaked lock or a dropped job, before;
when all files are stored; when a calculation is over; when the requests or tokens are used up.
`EngineLive` keeps deadlock checking on: without faults, the timeouts (or the next restart) keep
every state live.

Fairness. `TempFiles`: the maintenance thread runs for ever and a request that has begun is run to
its end (weak fairness of `Purge` and of `Proceed(c)`); beginning one is not fair. `ResultFiles`:
the worker's and the maintenance thread's steps are weakly fair; requests are not, and need not
be: retention waits for nobody but the worker. `RunEngine`: both daemon threads run for ever
(weak fairness of `Worker` and `Maintenance`), a request that has started to write is run to its
end (weak fairness of `CreateStep`; starting one is not fair, users may stop), time passes (weak
fairness of `RunBecomesOverdue`). An `INSERT` of the worker that waits for the key of the
maintenance transaction is woken by the database when that transaction ends, a second before the
next cycle begins: strong fairness of `InsertSummary`.

Every property of a passing run has a mutant in `PROJECT.json`: a definition marked *Mutant* in
the module replaces the one after it, and the property then fails.

## 5. Proofs

`RunEngineProofs` proves, for every number of lines, requests, runs, retries, restarts and
faults, that `IInv` is an inductive invariant of `Spec`:

* `TypeOK`: types, including the bound on a job's attempts;
* `RunsDense`: committed ids are an initial segment, so `max(id)+1` is the only free key and
  ids are never below it;
* `RequestOK`: what a request knows at each program counter: its id is not above the next one,
  and after its `INSERT` it is exactly the next one;
* `CreatesSerialised`, `CreatorHoldsLock`, `FinalRunHoldsNoLock`;
* `WorkerOK`, `MaintOK`: the copies the two threads hold are copies of an existing run of the
  same line, a final row they are about to commit no longer has its lock, and so on.

The argument: the key `max(id)+1` is the same for all open creations, hence at most one has
inserted; hence nobody else can hold the id it is using, so no release of the worker or of the
reconciliation names it, and it keeps its lock. `FinalRunHoldsNoLock` is not inductive: a commit
makes a run final, and that its lock is gone by then has to be known of the program counters
(`WorkerOK`, `MaintOK`) from the release on; that nobody re-acquires it follows from ids being
fresh. Theorems: `TypeCorrectness`, `CreatesAreSerialised`, `CreatorKeepsLock`,
`FinalRunsHoldNoLock`, all consequences of `Invariance`. The only assumption is
`RunEngineAssumption` (bounds are naturals, `Absent` is not a row); TLC evaluates it in every run.

`ResultFilesProofs` proves, for every number of clients, files, expired files and faults, that its
`IInv` is an inductive invariant of `ResultFiles`:

* `TypeOK`, and `FileOK`: a transaction that adds or reads a file knows a stored one;
* `WritesOK`: an open transaction has written "expired" only for a deleted file, "superseded" only
  if it is the worker's and for a result, and an existing row only to withdraw it, with the path
  and role it had; `Exclusive`: no two transactions have written one row;
* `DiskOK`: a stored file that is gone is past its time;
* `MaintOK`: retention's list names existing rows past their time, and the file of the row it is
  about to mark has just been deleted;
* `WorkerResultOK`, `WorkerListOK`: the worker's new result is not committed yet and nobody marks
  it; every older result is on its list or withdrawn in its view;
* `ResultsOK`, and the properties `ExpiredMeansDeleted`, `BrokenDownloadIsExpired` and
  `OneCurrentResult` themselves.

The argument: rows are written under their lock and never change their path, so what a transaction
knows of a row still holds when it commits, whatever the others commit before; files are numbered
in the order of storing and only retention deletes them, so nothing that was stored is missing
before its time. `OneCurrentResult` is not inductive: that the older results are withdrawn when
the worker commits has to be known of its list while it works (`WorkerListOK`), against commits of
retention in between. Theorems: `ResultFilesTypes`, `OnlyLastResultIsOffered`,
`MissingFilesAreExpired`, `ExpiredFilesAreDeleted`, `BrokenDownloadsAreExpired`, all from
`ResultFilesInvariance`; the only assumption is `ResultFilesAssumption` (the threads are distinct,
bounds are naturals, `Absent` and `Keep` are no rows).

The second part of `RunEngineProofs` is about the outcome of runs. `AuditInv` holds in every
environment, with timeouts, faults and restarts:

* `RunsSound`: a run that is not final has no result yet, and a process run beyond `created` has
  been validated; `CopiesSound`, `CopiesValidated`: so have the worker's copies, `dto`, `base` and
  `row`, at each program counter, and a copy becomes final only after its summary;
* `TimeoutsSound`: what the reconciliation lists, selects and writes is unfinished, or failed and
  summarised; `Apart`: the two threads meet on a run only while it is not final, and never both
  hold its row;
* `LocksOwned`: until something fails, a lock is an open creation's or a run's of its line.

`FinalRunIsSummarised`, `CompletedRunIsConsistent`, `ValidatedBeforeCompleted` and `LockHasOwner`
follow. None of them is inductive: the commit that finalises a run copies columns that were read
several steps earlier, so that all depends on what the copies may contain. `Apart` is what keeps
`update()` from mixing the columns of a completed and of a failed run: whichever thread writes
first has the row lock, and the other selects or waits.

`ContractInv` is inductive under the hypothesis `~ HardTimeouts` (no run is ever overdue; the
configuration of `engine_no_timeouts`): then only the worker writes, its copies are exact, and its
pending row is the committed one with the columns of its end (`CopiesExact`). From it follow
`OneSummaryPerRun`, `ActiveRunHoldsLock`, and `ContractIsImplemented`: initial states map to
initial states of `RunContract`, `CommitRun` to `Submit`, `WorkerCommits` to `Validate` or `End`,
every other step to a stutter. `FinalStatusStays` proves, under the same hypothesis, the property
that `final_status_overwritten` refutes with timeouts: the reconciliation is all there is to it.

`TempFilesProofs` proves about `TempFiles`, for every finite set of clients, every set of owners in
one table and all bounds:

* `Core`: types; what a transaction holds at each program counter (`ShapeOK`); that it writes
  in the order of the keys and inserts above all it has written (`WritesOK`); row locks
  are exclusive; a begun upload has room for its file (`RoomOK`), and keys do not run ahead of the
  stored files (`KeysOK`). From it `TypesHold` and `WaitsEnd` (`NoWaitCycle`): whoever waits, waits
  for the holder of a higher key than it has written itself, or for a key of an insertion that
  waits for nobody, so that the highest one can always go on;
* `Paths`: every path that a row or an open transaction names has been stored, and until its row is
  committed the name of a newly stored file is in no row and no other transaction;
* `Flags`, until `mixed`: a file that was inactive when a request selected its row stays inactive,
  the only active row a request writes is its new one, and a promo upload replaces at most one row;
* `PromoOK`: for each owner, the active promo rows that no request is about to release, plus the
  requests that will add one for this owner, are at most the limit plus the number of the other
  clients. That is `PromoOvershoot`
  made inductive: a request passes the limit check against a set that the others are changing, and
  from then on it is itself what is counted (`Unreleased`, `Adding`). It holds until `mixed`.

Three theorems have the hypothesis `OneClient`: the requests of all owners come one at a time, and
replace only active files and by their own kind, as in `temp_one_client`; the purge runs next to them.
`SlotHasOneFile` (`OneFilePerSlot`) rests on `SlotInv`: while
the request drops, every active row of its owner's slot is still on its list; from `store` on there is
none; the purge only deletes rows, and a key that it frees may go to any owner. `DiskMatchesRows`
(`FilesMatchRows`) rests on `TidyInv`: until a row expires or something fails, the files on disk are
those of the rows that are active in the request's view, but for the one it has just unlinked, and
its new one.

`SetImplemented` (`ImplementsTempSet`) is the refinement of `TempSet`. It adds `SetInv`:

* `TotalOK`: every owner's active WB files are within the total size; `BudgetOK`: so are the owner's
  files that an accepted request leaves next to its own (`Stays`), plus its own;
* `BearsOK`: a stored file belongs to one key, and a file without a row yet to none;
* `SameKind`: a request only drops files of its own owner and of the kind of its own.

The total is not inductive: a request compares it with the set it has read, many steps before its
commit, and the purge may commit in between. `BudgetOK` carries the comparison to the commit, which
publishes exactly the files that stay and the new one. So the commit of an upload or a replacement
maps to `Upload`, or to `Replace` if the replaced file is still active by then, the commit of a
deletion or of the purge to `Remove` (`CommitIsOperation`), every other step to a stutter
(`StepsAreOperations`). `MinMaxSum` supplies what the total needs: a sum over a finite set is the
number of its units (`SumIsWeight`), proved without induction by the smallest set for which it
would not be, so that dropping a file lowers the total by its size. The clients are assumed finite
and not to be none, files not to be negative in size (`TempFilesAssumption`).

`AccountsProofs`: `IInv` says for each request, at each program counter, its shape (`ShapeOK`), that
`fit` holds what it needs and what the committed rows say of its actor (`FitOK`), that its copies are
the row until somebody commits it (`CopyOK`), and that a checked name is free until somebody commits
(`NameOK`). Hence `ActorsAreEntitled`, `FreshCopiesKeepColumns`, `TwinsNeedARace`, action properties
of every commit. The commit is where the argument lies: it must keep these facts of all other
requests, or set `stale` and `overtaken`, which void them.

`StoreAccessProofs` has the same shape: `FitOK` (the policy was asked with contexts that were true at
some moment), `UniqueOK`, `ChangingOK` (no edit changes the creator), `GrantingOK`, `CreatingOK` (from
the insertion on, the creator's grant is pending in the same transaction), and the row locks
`StoreLocks`, `GrantLocks`. Hence `OperationsAreAllowed`, `UniquenessNeedsNoRace`, and
`CreatorsHaveAccess`, which is an invariant only together with `CreatingOK` and the fact that a revoke
that hits the grant is remembered in `removed`. Its assumption `CreatorsStartWithAccess` is the
property for the rows present at the start.

`CalculationProofs` has no race to deal with, but numbers: its theorems hold for all integer prices,
plan prices, discounts and settings and all numbers of rows and files, where the run has 14 promo and
price rows.

* `DivBound` characterises floor division by comparisons; from it `CalculatedReaches`: the formula of
  `_calculate_discount` is the least whole percentage that brings the price to the plan price or
  below, and `CalculatedFalls`: it falls when the plan price rises;
* hence `HybridIs`: the least discount and the greatest plan price are all that a decision needs of
  an article's rows - the reason why `_aggregate_promos` may forget the rows;
* `WBInv`: `Summed` (each article's entry is a member and a bound of the rows read so far; "nan" is
  kept only while it has been compared with nothing), `DecisionOK` (each decision is the documented
  function of the rows, and warns if it has no discount), `NoTwice`, and a valid row once the prices
  are read. `Summed` strengthens `AggregatesAreExtremes`, which says nothing about the plan price of
  an article with "nan" among its rows and therefore not that later rows are still combined rightly;
* `OzonInv`: every decision is the cascade's for a decidable row; `CascadeIs` compares the cascade
  with its documented meaning;
* `SplitCount`: the counters of a summary count parts of one finite set.

Theorems: `AggregatesHold`, `DecisionsAreDocumented`, `WBPassHolds`, `ParticipationHolds`,
`OzonPassHolds`. Assumed of the constants: rows have cells, `None` and `NotANumber` are no numbers,
`None` is no article and no aggregate.

`ReadModelsProofs` proves, for all stores, queries, page sizes and numbers of runs:

* `PlacesNumber`: a strict total order numbers the rows of a finite set from 1, without a gap and
  without two rows at one place. `BelowIsOrder`, `BeforeIsOrder` show that the orderings are such
  orders, whichever column they sort by, because the id decides between equal values. Hence
  `PageIs` (what a page contains) and `Agreement`: for the same rows, the ordering of the SQL
  gateways and that of the services give the same page. This is `PagesAgree` (`PagesHold`);
* `IInv`: the tables (`TablesOK`), and of a request that is open (`RequestOK`) its types, the order
  of its statements (`StepOK`), the accepted page size (`SizeOK`), that its scope is of what was
  accessible at some moment of the request (`AccessOK`), and that a run it found final has not
  changed since, so that summary, file and total are those of the final run (`FinalOK`). Hence
  `TypesHold`, `ShownRowsHold` (`ShownRowsWereAccessible`) and `FinalPagesHold`
  (`FinalPageIsComplete`). What the latter rests on is `RunsGrow`: no step changes a finished run,
  and of the others it only adds rows or finishes them;
* `WalkInv`: what has not been shown is still selected, and at a place behind the pages shown. New
  rows come ahead of it or behind it, but never take it back to a place that was passed
  (`PlacesGrow`), and a page shows every row at its places (`PagesCover`). Hence `NothingIsSkipped`
  (`NothingSkipped`), for listings that sort by a column of which `Lasts` holds - time, store id, run,
  key - and do not search the stores' names, as the property says. The name of a store is not one: it
  is sorted by (`shared/query/read_queries.py:205`) and changed by `edit_store`, which `RenameStore`
  models next to the walk. With the name among them TLC finds a skipped row: page one is sorted by the
  old name, page two by the new one.

`NothingIsSkipped` has the hypothesis `LinksKeep`: the paging link of a query on a page asks for the
same query. The queries of `read_models` have it; what it excludes is a link that loses a
parameter, as in the finding `paging_turns_around`. `ReadModelsAssumption` says of the constants
that ids and times are naturals and that the queries are records of the fields the code reads.

Only model-checked: liveness (`EveryRunEnds`, `EveryLockIsReleased`, `ExpiredRowsDisappear`,
`ExpiredIsWithdrawn`) and the absence of deadlock: no prover for fairness and `ENABLED`.

A convention of the modules: a record update of several fields of one function entry is
written `[f EXCEPT ![c] = [@ EXCEPT !.a = x, !.b = y]]`.

## 6. Not modelled

`components` in `PROJECT.json` lists every part with its status. Left out for good:

* HTML rendering, request parsing and the contents of detail rows: no state, and their effects are
  wording. What of the pages carries meaning, the paging links, is in `ReadModels`.
* Formatting of paths, run numbers and texts; the settings; the structure of workbook archives and
  headers, which `WBProcessing` and `OzonProcessing` reduce to one fault before the rows are read.
* The migrations of `src/migrations`. The schema modelled is that of `shared/persistence/models.py`,
  from which the application creates its tables (`presentation/app.py:80`). The migrations differ:
  `0007` makes a summary's `run_id` unique, `0006` lacks a column.
* Permission rows that `create_user` adds with the user, the seeding of roles by the bootstrap
  command, the lookup of a run by its public number, and `drain_pending_jobs`, which only tests call.

## 7. Findings

Two are shown by a violation run whose property is what a document of the repository says.

| Run | Code | Statement |
|---|---|---|
| `final_status_overwritten` | stale copies are written back (`runs/service.py:415`) | docs/06:272, a final run no longer changes its status |
| `paging_turns_around` | the paging link leaves out a falsy parameter, so an ascending listing turns descending on its second page (`presentation/ui.py:1079`) | docs/09:913 and :921, paging and sorting are applied together |

Disagreements without a run. Each of these was met while the code was translated, and the models
contain the behaviour; where a property could only hold without it, the run says so in section 4.

Runs and locks:

* The life cycle of docs/06 is not what is committed. `checking`, `processing` and the `validating` of
  a run that fails exist only inside the transaction that ends the run: `execute` makes the transition
  (`runs/service.py:200`, `:209`), the worker commits once per job (`runs/runtime.py:61`). The database
  and the polling see a check go from `created` to `completed` or `failed`, and a process run from
  `validating` to `completed`: transitions that docs/06:238 and :256 forbid, and intermediate statuses
  that docs/06 §25.1 and docs/06:946 want shown. `ImplementsContract` does not show that the engine
  keeps this life cycle: `RunContract` states what is committed.
* The lock is released before the final status is committed, so a second run of the line can start
  (`runs/service.py:442`; docs/06:417). The handler of a failed second copy raises before it
  releases the lock (`runs/service.py:360`), and a log row or a commit that fails after the handler
  (`runs/service.py:363`) leaves lock and job: the lock then stays until a restart, or until a run of
  the line gets the same id (docs/06:834). The job is queued before the run is committed and dropped
  after three retries (`runs/service.py:355`, `runs/runtime.py:64`; docs/06:36).
* An active run can keep the business result of the reconciliation (`runs/service.py:415`;
  docs/06:281), and the reconciliation can summarise a run the worker has just finished
  (`runs/service.py:453`; docs/08:141): with timeouts neither the refinement of `RunContract` nor
  `OneSummaryPerRun` holds, which is why `engine_no_timeouts` checks them.

Temporary files:

* A promo file replaced by a price file, the form's default, leaves the old price file active
  (`temp_files/service.py:86`; docs/07:664). Two uploads at the same time leave two active Ozon
  files (`temp_files/service.py:51`; docs/07:674). That is why `temp_one_client` has one
  request at a time and replacements of the same kind.
* The old file is deleted before a transaction that may be rolled back (`temp_files/service.py:265`;
  docs/14:343). A fresh upload that gets the key of an expired row can be purged with it
  (`system_maintenance/retention.py:112`; docs/07:195); the key is the greatest of the whole table plus
  one, so the upload may be another user's, and a deletion by a stale key likewise.
* `update()` selects its row by key and merges the columns in which its copy differs. If the key was
  given to another file in between, the merge mixes the two (`shared/persistence/repositories.py:67`,
  `temp_files/service.py:86`): with the purge, a replaced promo file can be active again under a row
  without a file. `PromoOvershoot` is stated until that happens (`mixed`).

Result files:

* A superseded result is never deleted from disk: retention lists available rows only. The download
  checks in one transaction and opens the path after it, so that a retention cycle in between gives
  an internal error (`presentation/app.py:437`; docs/07 §18.2); the age of a file is not checked at
  download (docs/07 §16.3). A failed copy leaves its file behind, and a key that is taken by another
  transaction fails a run whose calculation succeeded.

Calculations:

* WB: the check does not test that the discount column is writable (docs/10 §18.2); a promo file of
  the wrong structure fails the whole run (docs/10 §11.4); results outside of 0..100 are clamped
  without a message (docs/10 §15.3); the text "nan" in a price ends the pass with an error that is
  not a validation failure (docs/10 §9.2, docs/11 §12.3); rows without a promo are reported as
  information, not as a warning (docs/10 §22.3). The three settings are not range-checked
  (docs/04 §8.6).
* Ozon: the summary has no counter for `insufficient_ozon_input_data`.

Accounts:

* A block, a password or a role is undone by a login or an edit that read its copy before
  (docs/05:836, docs/13:456). A logout is undone by a session check that stores the session again
  (`auth/service.py:110`). The `failed_login` log row is rolled back with the denial. A session is
  created before the login commits and survives its rollback. Sessions have no end. Nothing keeps
  the last administrator from being blocked; two bootstrap commands at once can create two
  administrators, two creations at once names that differ only in case.

Stores and access:

* Names, grants and permissions are checked for duplicates before the insert, in another statement
  (docs/04:241, :357, §8.7.5); after a duplicate grant a revoke removes one row of two, and a revoke
  by a stale key may remove another pair's grant. An edit that read the store before its archival
  undoes it. A manager who is no manager_lead may create stores if the permission `create_store` is
  given to him (`access/policy.py:29`; docs/05:400 names the manager_lead only).

Listings:

* The SQL gateways and the services' own filtering differ in the order of ties, in where a missing
  value sorts, in `%` and `_` in a search, in searching joined file names, and in an empty
  `entity_id`. The application uses the former. A walk can miss rows when a commit falls between the
  count and the page, when access is revoked, or when it is sorted by a column that changes, such as the
  store's name, which `edit_store` changes (`stores/service.py:95`; `shared/query/read_queries.py:205`).
