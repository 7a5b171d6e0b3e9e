# A verification project for the Balancer / Beethoven X backend

The backend keeps a database that is a copy of what happens on a dozen chains, and serves it through a
GraphQL API. Nothing in it is authoritative: every row is derived from a chain, from a subgraph that indexes the
chain with some delay, or from another service. So the questions that matter are questions about *copies*: is a
change ever passed over for good, does a saved block promise more than was read, does the copy catch up after a
failure, do two jobs that write the same rows leave something old behind. Those are hard to test, because each of
them takes several steps of several processes. This project states them in TLA+, lets TLC look for counterexamples
in small instances, and proves the central ones for all instances with TLAPS.

Contents: [the system](#1-the-system) · [the plan](#2-plan) · [the modules](#3-the-modules-and-the-code) ·
[the runs](#4-the-runs) · [fairness](#5-fairness) · [the proofs](#6-the-proofs) ·
[disagreements found](#7-where-code-and-comments-disagree) · [what is left out](#8-what-is-not-modelled) ·
[how to run it](#9-how-to-run-it)

## 1. The system

### How the parts work together

```
 scheduler process            queue (SQS)             worker processes (one or several for a chain)
 per chain, per job:   -->   one message a job  -->   runIfNotAlreadyRunning(job):
 send, sleep, send ...       at least once              skip | run the job, report, forget it
                                                              |
     chain, RPC nodes  --\                                    |  controllers -> actions and services
     subgraphs         ---+-->  read  -------------------------+--> write:  Postgres tables
     other services    --/                                                 PrismaLastBlockSynced (cursors)
                                                              ^
                                            admin and user mutations of the GraphQL API
```

The interaction is through the database. A job reads a *cursor* (a row of `PrismaLastBlockSynced`, or the newest row
of the table it fills), asks a source for what came after it, writes rows, and writes the cursor. Jobs of different
names run at the same time in one process; jobs of one name are kept apart within one process, and not across
processes. Mutations write the same tables and know nothing of the jobs.

### Inventory

For each component: its state, its operations, what is hard about it, and what makes it correct.

| Component | State | Operations | Hard | Correct when |
|---|---|---|---|---|
| **Scheduler** `apps/scheduler` | timers in memory | loop over the chains: schedule each job, create its alarms; each send re-arms itself in a `finally` | failing sends, failing alarm calls, restarts | every job of every chain is sent again and again |
| **Worker** `apps/worker` | `runningJobs`, a Set in memory | take a message; skip, or run the job, publish the outcome, forget it | duplicate and redelivered messages, jobs that fail, crashes | a job never overlaps itself in a process, and never stays locked |
| **Event sync** `modules/actions/{pool/v2,pool/v3,cow-amm}/sync-{swaps,join-exits}` | `PrismaPoolEvent`, cursor rows for CowAMM | find the position, fetch a page of 1000, insert, move the cursor | pages that split a block, overlapping runs, failing inserts | no event behind the position is missing, and the position advances |
| **Wallet balances** `modules/actions/user/bpt-balances`, `modules/user` | `PrismaUserWalletBalance`, a cursor for each category | sync from the subgraph, fall back to the RPC node, load a new pool, refresh one user | four writers of the same rows that read at different blocks; margins; fall-back | no transfer is passed over; the rows converge |
| **Pool state sync** `modules/actions/pool`, `modules/controllers/{pool,cow-amm}-controller` | `PrismaPoolDynamicData` and related rows, a cursor for each version | sync changed pools, add, load, reload | log ranges, a subgraph that lags, per-pool failures, overlaps | no change is behind the cursor and not in the row |
| **Staked balances** `modules/user/lib/user-sync-*` | `PrismaUserStakedBalance`, status rows | sync changed balances from logs, reload all from a subgraph, refresh one user; for gauges, the masterchef, Reliquary (and Aura, veBAL locks, which are copied whole) | transactions in chunks, gauges that become known late, nodes that lag, farms that are deleted | a stored balance that is not current is read again |
| **Token prices** `modules/token` | current prices, hourly candles | a chain of eleven handlers, each taking the tokens it can price | handlers that fail, runs that cross the full hour | each token has the price of the best handler that worked |
| **Pool snapshots** `modules/actions/snapshots` | a row for each pool and day, a cursor | fetch changed days, merge them with the stored ones, fill gaps, compute daily values and running sums, store | late changes of old days, gaps, batches, midnight within a run | daily values are the differences of the totals; a row that is out of date is asked for again; no total goes back |
| **Volume, fees, liquidity, lifetime values** `modules/actions/pool` | columns of the pool | sums over windows of stored rows | window boundaries | equal to the sum over the window |
| **APRs** `modules/pool/lib`, `modules/actions/aprs` | APR items | recompute all | external services | – (floating point) |
| **Smart order router** `modules/sor` | none between calls | path search, swap mathematics | rounding | returned paths are consistent |
| **GraphQL API** `apps/api`, loaders | none | queries; mutations that call the controllers | – | – |
| **Content and token lists** `modules/actions/content` | lists | copy whole lists | – | – |
| **Staking and gauges** `modules/controllers/staking-controller` | staking rows | recompute | – | – |
| **veBAL, sFTMx and stS, datastudio** | lock balances, two contracts' state, a spreadsheet | copy | – | – |
| **Subgraph clients** `modules/subgraphs` | none | generated queries, paging | pages that are read at different blocks | callers survive it |
| **RPC clients** `modules/web3`, `modules/sources` | none | logs in batches, multicalls, retries | empty ranges, node limits, retries of a single block | the batches are the range |
| **Schema and configuration** `prisma`, `config` | declarations | – | – | – |
| **Tests, scripts, `legacy`** | – | – | – | – |

`PROJECT.json` lists the same components with their sources, and under `hazards` each place where something can go
wrong that a test would hardly reach, with the property that watches it or the reason why none does yet.

## 2. Plan

The order was by how much depends on a part. Everything runs through the job queue; then come the copies that users
see, those with the most writers first; then what is computed from them day by day.

1. `JobQueue`: scheduler, queue and worker. Composes nothing; what the other modules take from it is that a job is
   sent again and again (their fairness) and that a process does not overlap a job with itself.
2. `EventSync`, and `BlockCopy`, the abstract specification of a copy of a stream of blocks that it implements.
3. `BptBalances`: the stored wallet balances with their four writers.
4. `LogBatches`, the arithmetic of log requests, and `ChangedPools`, which is built on it.
5. `StakedBalances`: gauges, masterchef and Reliquary.
6. `Snapshots`: the days of a pool.
7. Proofs, in the order 1 to 6: types, then the invariants that the runs check, then the refinement.

What is left and why is in sections 6 (not proved) and 8 (not modelled). A next step would be the 48 hour table of
V2 swaps and the windows of volume and fees, which are sums over what `EventSync` and `Snapshots` store.

## 3. The modules and the code

`PROJECT.json` maps every definition to the lines it stands for. This section says how to read them.

### JobQueue

An *entry* `<<c, i>>` is line `i` of the `workerJobs` of chain `c`; entries may name the same job (arbitrum.ts and
base.ts list a job twice), and then share the `jobId` that the worker's Set holds. The variables are the scheduler's
program counter and loop index, the state of each self re-arming timer, the copies of each message that the queue
shows, the Set `runningJobs` of each process, and for each process and entry the number of requests that are inside
`fn()` (`executing`), publish its outcome (`reporting`) or publish a skip (`skipping`).

| Action | Code |
|---|---|
| `StartChain`, `AlertsCreated`, `AlertsFail`, `SleepOver` | the loop of `startSchedulerServer`; its `catch` is around the whole loop |
| `SendMessage`, `SendNothing`, `TimerFires` | `sendWithInterval`: the send, the swallowed failure or missing queue URL, the timer; `Rearm` is the `finally` block together with the next step of the loop that awaited the first send |
| `SkipJob`, `SkipPublished`, `StartJob`, `UnhandledJob` | a request: the check and the add with nothing awaited between them, and the `default` of the switch |
| `JobSettles`, `JobReported` | the end of `fn()` and the `finally` block, with an await between them only when alarms are on |
| `VisibilityTimeout`, `WorkerRestarts`, `SchedulerRestarts` | the queue's redelivery (external) and crashes |

Since `next(error)` is followed by a 200 in the `finally` block, a failed run consumes its message just like a
successful one; the model has no separate action for it.

### EventSync

One model for six functions, because they are one loop with three switches: where the position comes from
(`LatestFeeds`: the newest stored row; `CursorFeeds`: a cursor row), whether the block of the position is read again
(`GteFeeds`) or not (`GtFeeds`), and what follows a failed insert. `feed` picks one in the initial state. A run is
`Locate` (read the position and compute the query), `Fetch` (one page, ordered by block and then by id), `Insert` or
`InsertFails` (`createMany` with `skipDuplicates`), for cursor feeds `SaveCursor`, and `Abort` at any point. The
subgraph (external) indexes a block of up to `MaxPerBlock` events at a time.

`BlockCopy` is what a reader of the table may rely on, without pages, processes and failures: the source grows by
whole blocks, the copy only grows, and whatever comes before the newest copied block has been copied. The property
`CopiesInOrder` says that `EventSync` implements it: what the subgraph has is the `source`, the stored rows are the
`copy` (`Promised`). A gte feed keeps the promise event by event, CowAMM swaps only block by block, since they may
lose a part of a block; of the two others, one whose window forgets blocks and one that loses failed pages, the
mapping promises nothing, and what holds of the first is `NoBlockSkipped`.

### BptBalances

A row is a pool token and a user, `balance[r]` its history on the chain, `db[r]` the stored value. Four kinds of runs
share `pc` and `run` of a process:

| Run | Steps |
|---|---|
| sync | `BeginSync`, `Metadata` (block of the subgraph, refused if it is too far behind), `ReadCursor`, `ReadShares`, `Commit` |
| its fall-back | `GiveUpSubgraph`, `RpcHead`, `RpcCursor`, `ReadLogs` (up to five ranges of logs, then `balanceOf` at the head), `Commit` |
| load of a new pool (`addPools`) | `BeginInit`, then as a sync from block 0; the cursor is left alone |
| user mutation | `ReadUser`, `Commit`, without a block |

`ReadShares` takes each row either at the block of the metadata or at a later one, since the pages are separate
requests. `Syncers` are the processes that run the sync, which excludes itself within a process; the other processes
may still run the mutation or load a new pool at the same time. `Commit` is one transaction; `Abort` stands for its failure (which is only logged), for any other exception
and for the death of the process.

### LogBatches

The loop that cuts a range of blocks into requests, as it stands in three places of the code: `NumBatches`,
`BatchFrom`, `BatchTo`, and `Scanned`, the blocks whose logs are read.

### ChangedPools

`Kind` selects one of three syncs that share the shape *cursor – block – pools – changes – write – save*, in the order
each of them has (`SyncSteps`). `changes[q]` are the blocks that changed pool `q`; `db[q]` is the block at which its
stored state was read, which abstracts the state itself; `failed` and `window` are history variables used only in
properties. The other jobs (`add`, `load`, `reload`) first list pools, then read the head (`ReadState`), then write
pool by pool; the reload of V3 saves the head as the cursor. `Write` and `WriteFails` take one pool at a time because
the code does, and logs an error in one pool without stopping.

### StakedBalances

One model for three services with one shape: look for events after the saved block, read the balances of the users
they name, write them in transactions of `ChunkSize` operations, the saved block last. `kind` selects the service. The
differences are in `Touched` and `Listened` (who is named by an event, and whose events are asked for), `MaxRange`,
`Deleted`, `Leading`, `Pending` and `Upserted` (which operations come in which order), and `Skippable` (Reliquary
takes any error of `ownerOf` for a burned relic).

Not every change is seen. The Reliquary sync looks for Shift by the name of an event, which the ABI does not have, so
`NewBlock` may choose users whose stakes change without an event that names them (`Unnamed`); they are kept in `silent`, and
`Touched` leaves them out. Gauges are asked through `getEvents`, which repeats a failed request in smaller pieces and
makes no request for a piece of one block: `Droppable` are the blocks, at the end of a batch or inside of it, that a sync
may have passed over when it saves its block, and `LogBlocks` chooses any set of them.

| Action | Code |
|---|---|
| `ReadStatus`, `ReadLogs`, `ReadBalances`, `WriteChunk`, `WriteStatus` | `syncChangedStakedBalances` and `prismaBulkExecuteOperations`: each transaction is a step, and the run may end between two of them |
| `InitRead`, `InitWrite` | `initStakedBalances`: all balances from a subgraph that is behind, page by page, then one transaction that deletes and creates all rows |
| `ReadUser`, `WriteUser` | `syncUserBalance` |
| `AddFarm`, `DeleteStaking` | what the sync and the reload of the staking do to the farms and, through foreign keys, to the rows |

`since` and `lost` are history variables: from which block on a farm is followed, and which users a sync has passed over
(by an error of `ownerOf`, or because it dropped a block with their events that the margin does not reach) or left
without rows. `StaleIsReread` is about the rest: users all of whose changes were named, or who were named later
(`Unseen`), and who are not `lost`. Both exceptions are losses of the code (section 7).

### Snapshots

One pool and its days. `blocks` is the chain, a day and a swap or none for each block; `RowDays`, `Total` and
`ChangedAt` are what the subgraph answers at a block; `db` the stored rows. A run is `ReadHead`, `ReadCursor`, `Fetch`,
`Process`, any number of `WriteBatch`, `Save`. `Process` is the pure part, one operator for each function of the code:
`MergeRows` with the two `Latest` stored rows, `FillMissingTimestamps`, `ComputeDailyValues`, `ApplyUSDValues`. `all`
selects the sync of all snapshots, which reads no cursor and merges nothing. `Fetch` reads all rows at one block; the
code asks for pages of 1000 rows, one after the other. `ragged` is a history variable: a run was
cut off in the middle of its transactions in a way that the next run cannot tell (see `Abort`). Only
`DailyIsDifference` and `SumsAddUp` make an exception for it (`Settled`); the other properties hold at any moment.

## 4. The runs

| Run | Instance | What it shows |
|---|---|---|
| `job_queue` | two chains (a job listed twice; a job no worker knows), one worker, one visible copy, one skip in progress, two crashes | exclusive runs, exact lock, every job keeps running, every chain is scheduled |
| `event_sync` | one of the three like feeds and the three others; two processes, pages of 3, up to 2 events in a block, 3 blocks, window of 2 | no gaps for gte feeds, which copy in order (`BlockCopy`), at most the rest of a split block lost for the others, all of them reach the end |
| `cow_events` *(violation)* | CowAMM swaps, one process | the rest of a split block is lost |
| `wallet_balances` | two rows, two processes that both sync, balances 0 and 1, margins and lag 1, 4 blocks | no stored balance gets older than what is read again |
| `wallet_converges` | one process, an old and a new pool, fair | a new pool starts complete; the copy converges |
| `wallet_rpc_cursor` *(violation)* | fall-back over more blocks than its five ranges | blocks between the last log read and the head are lost |
| `changed_pools_v3` | sync and add, margin 1, blocks 2 to 5 | no change is missed when runs are shorter than the margin |
| `changed_pools_cow` | sync and reload, no margin, batches of one block, blocks 1 to 4 | only what came between the read and write of a state itself is missed |
| `changed_pools_v2` *(violation)* | sync alone | a single new block is saved without being read |
| `staked_balances` | the three kinds; a farm and a user, two processes, margin, lag and delay 1, transactions of 2 operations, 3 blocks | a stored balance that is not current is named by an event that the next sync reads, for users who are named and not passed over |
| `snapshots` | four days, four blocks, a pool that is listed from the start or added late | no gaps, daily values are differences; also after cut-off runs: what is out of date is asked for, no swap is counted twice, no total goes back |
| `snapshots_sums` *(violation)* | the same | a running sum starts anew |

### The bounds and why they are enough

- **Processes.** Two overlapping runs are enough for the hazards that were found: each is about one run that read
  something before another wrote it. A third adds a second overtaken writer, which can only write what the first could.
- **PageSize 3, MaxPerBlock 2.** A page can end between blocks, inside a block, and after a block that filled up the
  rest of a page whose first block was read again; `MaxPerBlock < PageSize` is needed for `AllProcessed` (a block that
  fills a page stops a gte feed, in the code as well: a thousand events in one block).
- **Margins.** The code has 200 and 5 (wallets) and 10 (V3) blocks; only how they compare with the number of blocks
  that pass during a run matters. `Delay` is that number, and 1 to 2 blocks of margin with a `Delay` of at most
  margin + 1 keep the proportion at its edge. In `changed_pools_cow` the margin is the code's own: none.
- **Chunks.** Five times the range, in blocks: 3 or 4 lets the fall-back reach the head in `wallet_balances` and
  `wallet_converges` (which check the rest of the system), 1 keeps it from doing so in `wallet_rpc_cursor`.
- **MaxBlock.** 3 to 5: enough for a change before, in and after the range of one run and a second run that
  starts from its cursor. Four blocks are needed in `wallet_balances`: there, a third sync has to start between the
  two that disagree about the cursor, and with three blocks the loss described below does not show.
- **One user and one farm, one pool.** In `StakedBalances` rows meet only through the user (Reliquary) and the order of
  operations in a transaction; a transaction of 2 operations splits even the operations of a single row from the saved
  block. In `Snapshots` other pools appear as free choices: a batch may end anywhere, and a run without rows of this
  pool may still save the block.
- **Days.** Four, so that a stored pair of latest rows, a gap and a new row are possible, with up to four swaps.
- **MaxVisible, MaxSkipping, MaxRestarts.** A second copy of a message is possible while the first is executed (the
  visible copy and the one in progress), a skip may be in progress while a run starts, and both sides may crash.

`changed_pools_v3` has a `VIEW` that leaves out `window`, a history variable which no guard reads and which
`NothingMissed` does not mention: states that differ in it alone are one state, and what `TypeOK` says of `window` is
left to the theorem `TypeCorrect`.

`wallet_balances` has a `VIEW` as well (`WithoutUsed`), which leaves out locals of a run that its remaining steps do not
read; `NothingMissed` does not mention locals at all, and the types of this module are checked in `wallet_converges`
and proved.

No run uses `CHECK_DEADLOCK FALSE`: the chains end, the jobs never do. Symmetry is used in `wallet_balances` and
`staked_balances`, over rows and processes that the definitions do not tell apart, and not in runs that check
liveness.

### The timing assumptions

The syncs rest on margins, so each of them promises something only while its runs are short. The models say so with
the guard `InTime` of the chain: no run sees more than `Delay` new blocks.

- **ChangedPools.** `NothingMissed` needs `Delay <= Margin + 1` (the code's margin is 10 blocks), and TLC finds a loss
  without it. `MissedOnlyWhileWriting` says what remains true without any such assumption.
- **BptBalances.** A single sync needs `Delay <= RpcMargin + 1` (5 blocks). When two syncs overlap, the lag of the
  subgraph counts as well: `Delay + MaxLag <= RpcMargin + 1`. One worker process and the API are enough for an overlap,
  since two mutations for administrators call `syncBalances` in the API process (`user.resolvers.ts:75` and `:89`),
  where the lock of the worker does not reach. `wallet_balances` is an instance at the edge of that condition, *not* in the
  code's proportions: there the lag may be 60 blocks (`sync-bpt-balances-from-subgraph.ts:39`), and the fall-back
  reads 5 again. With a lag between the two margins, as in the code (`Margin = 3`, `MaxLag = 2`, `RpcMargin = 1`), TLC
  finds a loss in four blocks: a slow sync from a subgraph that is behind commits older balances and an older cursor
  after another sync has moved it on, and then a third one, which had started from the higher cursor, saves its end. So
  `NothingMissed` does not vouch for overlapping syncs as they occur; the code relies on there being none, which the
  worker guarantees for itself only (listed as a hazard that no property covers).
- **StakedBalances.** `Delay + Lag <= Margin + 1` (the code's margin is 200 blocks for the length of a run and for nodes
  and subgraphs that are behind). Overlapping runs need no more than that.
- **Snapshots.** Less than a day passes between the first read of a run and its end, and there is one run at a time. The
  mutation in the API that syncs all CoW AMM snapshots does not respect the second one (listed as a hazard).

## 5. Fairness

- **JobQueue.** Weak fairness for the scheduler's loop, timers, awaited jobs and publications: Node runs what is
  ready, and the code has no other way to stop them. Strong fairness for `SendMessage`: sends that may fail again and
  again, but not for ever. Strictly an assumption: *an awaited job settles*. Calls without a timeout could hang, and
  such a job stays locked until the process restarts; nothing in the code prevents it (listed as a hazard).
- **EventSync and BptBalances.** The scheduler runs a job again and again (what `KeepsRunning` shows), hence fairness
  of the first step of a run. Strong fairness of the following steps: a call that is repeated for ever does not fail
  for ever. `WF(SubgraphIndexes)`: the subgraph catches up with a chain that stands still. There is no fairness for
  `NewBlock` or `IndexBlock`, for user mutations or for added pools.
- **ChangedPools, StakedBalances, Snapshots.** Safety only, so none.

## 6. The proofs

All proofs are checked by tlapm from nothing, with no assumption besides the named `ASSUME`s about constants (types of
the constants; TLC evaluates them in every run) and the ones a theorem states itself.

| Theorem | Statement |
|---|---|
| `JobQueue_proofs!TypeCorrect` | `Spec => []TypeOK`; among others, no request counter falls below zero |
| `JobQueue_proofs!LockCorrect`, `LockMatchesRunsCorrect` | `Spec => [](RunsExclusively /\ LockMatchesRuns)` |
| `EventSync_proofs!TypeCorrect` | `Spec => []TypeOK` |
| `EventSync_proofs!NoGapsCorrect` | `Spec => []NoGaps` |
| `EventSync_proofs!NoBlockSkippedCorrect` | `Spec => []NoBlockSkipped` |
| `EventSync_proofs!CopiesInOrderCorrect` | `Spec => CopiesInOrder`: the sync implements `BlockCopy` |
| `BptBalances_proofs!TypeCorrect` | `Spec => []TypeOK` |
| `BptBalances_proofs!NothingMissedCorrect` | under `MarginsSuffice`, `Spec => []NothingMissed` |
| `BptBalances_proofs!NewPoolsLoadedCorrect` | under `MarginsSuffice`, `Spec => []NewPoolsLoaded` |
| `StakedBalances_proofs!TypeCorrect` | under `RangeSuffices`, `Spec => []TypeOK` |
| `StakedBalances_proofs!StaleIsRereadCorrect` | under `MarginSuffices`, `Spec => []StaleIsReread`, for users who are named and not passed over |
| `LogBatches_proofs!BatchesCover` | for a range of at least two blocks the batches are exactly the range |
| `LogBatches_proofs!SingleBlockUnread` | for a range of one block there are no batches |
| `LogBatches_proofs!BatchesFit`, `BatchesDisjoint` | no batch is wider than the limit; no block is read twice |
| `ChangedPools_proofs!TypeCorrect` | `Spec => []TypeOK` |
| `ChangedPools_proofs!MissedCorrect` | for V3 and CoW AMM, `Spec => []MissedOnlyWhileWriting` |
| `ChangedPools_proofs!NothingMissedCorrect` | under `MarginSuffices` (V3), `Spec => []NothingMissed` |
| `Snapshots_proofs!TypeCorrect` | `Spec => []TypeOK` |
| `Snapshots_proofs!DailyIsDifferenceCorrect` | `Spec => []DailyIsDifference` |
| `Snapshots_proofs!StaleIsFetchedCorrect` | `Spec => []StaleIsFetched` |
| `Snapshots_proofs!NoSwapCountedTwiceCorrect` | `Spec => []NoSwapCountedTwice` |
| `Snapshots_proofs!TotalsGrowCorrect` | `Spec => TotalsGrow`, an action property |
| `Snapshots_proofs!LosesNothing` | whatever is stored, a run loses no change and takes no total back |
| `Snapshots_proofs!CatchesUp`, `SyncsAll` | what a run stores is as the subgraph has it at the block of its rows |

**LockCorrect.** The two properties together are inductive: that the Set is exactly the jobs with a run is what makes
the check `runningJobs.has` sufficient to start a job without overlap, and that there is at most one run is what makes
it right that its end takes the job out of the Set. Neither is inductive alone. Skipped requests do not enter.

**NoGapsCorrect.** `NoGaps` says that everything before a stored event's block is stored. It is preserved by storing a
page only if the page has no gap of its own. The invariant `GapInv` adds what the locals of a run know: a run that has
computed its query starts at a block before which everything is stored (`StartsBehind`); a fetched page misses nothing
before one of its events (`PageClosed`), because a page is the first `PageSize` events of what it was cut from
(`FirstPageClosed`, the one lemma about cardinalities) and blocks are indexed in order (`Grown`). Stored rows only
grow, so other processes cannot break this; that is the whole reason why the gte feeds need no lock. The argument
needs `>=` in `StartBlock`: with `>` the step `Locate` breaks `StartsBehind` after a page that split a block, which is
what `cow_events` shows.

**NoBlockSkippedCorrect.** The same idea with blocks for events: `BlockInv` says of each position (newest stored row,
saved block, locals of a run) that of every block up to it at least one event is stored (`UpTo`). A page that goes on
after its start may split its last block, but never leaves one out.

**CopiesInOrderCorrect.** Every step of `EventSync` maps to a step of `BlockCopy` or to a stutter: `IndexBlock` to
`Grow`, `Insert` to `Extend`, the rest to stutters. `Extend` asks that the copy has no gap *after* the step, which is
`NoGaps` (gte feeds) and `BlockInv` (CowAMM swaps) in the next state.

**LogBatches.** Arithmetic: a lemma about quotients (`Quotient`), that the batches reach the end of the range
(`EnoughBatches`), and that batch boundaries grow (`Monotone`).

**MissedCorrect.** A pool *lacks* a block if it was changed by it after its stored state was read, and not between that
read and the write (`window`). The invariant `MissedInv` says of every pool that has no failed write: the cursor is
not past a block it lacks (`CursorBehind`); the range of a sync in progress starts before such a block
(`StartBehind`); once a job that will save a block has its list of pools, each pool that is *not* on it lacks only
blocks after the one that will be saved (`Reached`); for that, CoW AMM and V3 must read the state at the end of their range
(`ReadAtEnd`), and their lists must hold every pool in the database (`Listed`). The lemma `ScanHoldsRange` brings
in `BatchesCover`, and `SingleBlockUnread` shows why V2 is excluded: there an empty scan is saved. A single-block
CoW AMM run reads no logs either, but returns without saving when it has found no pool. The
assumption `ReloadsAlone` excludes the V3 reload while the V3 add job runs: the reload lists pools first and reads
the head later, and a pool added in between is not on its list; TLC finds the loss without the assumption.

**NothingMissedCorrect (V3).** Here the changes between read and write count as well (`Missing`). `KeptInv` says: the
saved block is at least `Margin` blocks behind the head, or no later than the first block (`Saved`), and not past a
missing change (`SavedBehind`); a sync in progress starts from the saved block and ends between it and the subgraph
(`SyncStarts`); a pool that is not on its list lacks only changes from the block that will be saved on
(`SyncReached`). A write by another job may lose changes, but by `Punctual` it read its state at most `Delay` blocks
ago, so what it loses is in the last `Margin` blocks, ahead of everything above (`MissingStep`). This is where
`Delay <= Margin + 1` is used, and where a reload that saves the head itself would break the argument.

**NothingMissedCorrect (wallets).** `MissedInv` of `BptBalances_proofs` relates the stored balances, the saved block and
the locals of each run in progress: a sync that knows where it starts will read all that is not older
(`Starts`); one that has read its rows holds values as new as the block it will save, and the rows it has not
read are not much older (`Shares`); no run is older than `Delay` blocks, and no block that is saved is further behind
than `Delay` and `MaxLag` together (`Ends`). Two things make it go through. That a balance without a
transfer in a range of blocks is the same at both ends takes an induction over blocks; it is part of the invariant
(`Steady`) and extended block by block in `NewBlock`. And when another
run commits, what is said of the locals of all others has to survive (`KeepsMissedInv`): new rows
are new enough (`StoresFresh`) *because* the margins suffice, and this is where overlapping syncs need the stronger
condition of section 4, while a single one does not (`OneSyncer`).

**NewPoolsLoadedCorrect.** The hard case is a sync that read its list of pools before a pool was added and saves its
block after the load: it has not read that pool, and its block may be newer than the load. `LoadedInv` builds on
`MissedInv` and says of each sync that the balances of the loaded pools which it does *not* have are from its own
beginning at least, or from the load (`Added`), because whoever writes them began after it (`Order`); of those it has,
what `Starts` and `Shares` say of old pools (`LoadedStarts`, `LoadedShares`). The load itself needs no margin: it asks
for everything from block 0, so what it has not read has never changed (`Loads`). The run `wallet_converges`, where the
property is model-checked, has one process; the theorem is about any number.

**StaleIsRereadCorrect.** The property speaks of stored rows only; `RereadInv` of `StakedBalances_proofs` adds the locals
of each run. A run that holds a row has its balance from at most `Delay + Lag` blocks ago (`Timely`, `Fresh`), so what
it writes is the chain's balance, or an event of the margin names the row (`HeldIsNamed`). A sync that has located its
start will ask for the events of every stale row (`Located`); once it has them, a stale row that it does *not* hold is
named by an event after the block it will save, less the margin (`NamedRows`), since an event between the two ends is
among those it has read, or in a block it has passed over, whose user is then `lost` unless the margin reaches the block. A
row whose user changed without being named counts as hidden until an event names the user (`Hidden`), which is
carried through each step like staleness itself (`UnseenHidden`, `StaleIsSeen`). Reliquary deletes rows before it
writes them: it holds all rows of a user whose rows it deletes (`Whole`), and what a run that is cut off has deleted and not written is accounted for in `Missing` and
`lost`, row by row (`Stale`). When another run writes in between, all this survives because a write makes rows stale only if
the margin names them (`Covered`). However runs overlap, the same margin
covers each of them, so that one condition is enough for any number of processes. `MarginSuffices` is
`Delay + Lag <= Margin + 1` (200 blocks in the code) together with `RangeSuffices`, that one request for logs reaches over the
margin (`rpcMaxBlockRange` is 500 or more on all chains);
without the latter the saved block could go back further at each run.

**Snapshots.** Any number of days and blocks; the one assumption, that the two bounds are numbers, is
`BoundsAssumption`. None of the properties is inductive: a run reads two stored rows only, so that the values it writes
are right depends on all that the rows before it were, and on nothing having changed in the meantime. `Inv` is built
from predicates about *any* chain and rows:

- `Core(bs, rows, D, c, n, l)`: at block `n` the rows have no gap (`Contiguous`), their values are differences
  (`Differences`), values and sums are at most the totals and these at most the subgraph's (`Bounded`), all but the last
  have the subgraph's total (`Complete`), and a day that is not up to date has changed since block `c` (`Current`).
- `Near`: what has changed since block `c` is not before the two latest stored days, so that reading two is enough.
- `Good` is both. `CatchesUp` shows that what `Process` makes of good rows, put over them, is exact at the block of the
  fetched rows; `SyncsAll` the same for a sync of all snapshots, whatever was stored.

Then step by step: `Good` survives a new block (`CoreLater`, `NearLater`: since no block is of an earlier day than
those before it, only the last day can change); a run that has fetched its rows knows a block between the one it will
save and the head at which they were the subgraph's (`FetchedInv`); from `Process` on, the rows still to be written put
over the stored ones (`Over`) are good for the block that will be saved, and the stored ones alone are `Core` for the
old one (`WritingInv`). A transaction leaves `Over` as it is (`OverAfter`), and keeps the second part because the rows
are written in the order of days and differ from stored ones at the last two days at most (`StillRight`). A run that is
cut off leaves rows that are `Good` for the old block, unless it was one of all snapshots or had to go on before the two
latest rows: this is exactly the condition `ragged` records (`AbortInv`). The timing assumption enters in `StillNear`: with
two midnights in a run, a day before the last two that are stored could have changed since the block that is saved. TLC
checked `Inv` (four days, four blocks) before it was proved.

The running sum is a recursive function over days. That it is the first sum plus the growth of the total (`SumsClosed`)
is an induction, which is proved without the library's induction theorems, as a statement about the least
counterexample (`Least`, from `WFMin` and `NatLessThanWellFounded`). The sum of the first row is either kept or begins
anew, and in both cases it is at most the total; hence `NoSwapCountedTwice` is a theorem while `SumsAddUp` fails.

`Inv` says little once `ragged` is true. `StaleIsFetched`, `NoSwapCountedTwice` and `TotalsGrow` hold all the same, and
need a second invariant, `FreeInv`, that makes no exception (checked by TLC first, on the same instance). It is built
from `Kept`, what is left of `Core` when days may be missing: values and sums are `Bounded`, and a day that has changed
since the pool was added has changed since block `c` or is stored as the subgraph has it (`Followed`). The argument is in
`FilledTotals`: the days the subgraph returns are all that have changed since a block, hence the later ones, and so are the
two stored rows among those stored; a day filled in between has the total of the row before it, and either that
row is one the subgraph returned and nothing happened since (`TotalSkips`), or the day is not stored at all or was stored with
just this total. So `LosesNothing` needs neither a contiguous table nor the two latest rows in particular, only that the stored
rows that are read are the later ones. `KeptLater` carries this to the head; a transaction writes rows of which each is as
good as the one it replaces (`WriteBatchFree`).

**Only model-checked**: liveness (`KeepsRunning`, `AllJobsScheduled`, `AllProcessed`, `Converges`), since the prover
handles neither fairness nor `ENABLED`. It holds in the instances above. Every invariant that a passing run checks is a
theorem, and so is the refinement.

## 7. Where code and comments disagree

Four runs are expected to fail; each checks one property that a comment or a test states and the code does not keep.

1. `cow_events`. The V2 join and exit sync explains (`modules/actions/pool/v2/sync-join-exits.ts:33`) why the last
   block must be asked for again: a page does not contain all events of its last block. CowAMM swaps and joins
   and V3 joins ask for later blocks only. TLC: a page ends after the first of two swaps of a block; the next run starts
   at the following block. What is lost is bounded: `NoBlockSkipped` holds, only a split block loses events.
   `cowJoinExits` is exempt even from that: its failed insert is logged, and the cursor moves past the page.
2. `wallet_rpc_cursor`. `syncBptBalancesFromRpc` reads at most five ranges of logs and saves the head as the synced
   block. After an outage that is longer than five ranges, the blocks in between are never read again.
3. `changed_pools_v2`. With one new block since the last run, the range is 0, no batch is formed, no log is read, and
   the block is saved as synced. A pool that changed in it stays as it was until it changes again.
4. `snapshots_sums`. A row that the subgraph returns again comes with a running sum of zero, and the merge puts it over
   the stored one (`sync-snapshots.ts:83`). When this row is the first of those put together, its sum starts
   anew with the value of its own day, and all later ones go on from there. It takes a run that reads the head before
   midnight and the rows after it, or one that ends before it saves the block. `applyUSDValues` and its test
   expect the sum of the day before and the value of the day. `NoSwapCountedTwice` says what holds nevertheless: the
   sum is too small, never too large.

Four more disagreements are kept as conditions or exceptions of properties that hold, and listed as hazards. TLC finds the
first three at once when the exception is dropped (or, in the third, the instance has the code's proportions):

- *Changes that no event names.* The Reliquary sync explains that Shift "needs to be inspected" because another user than
  the sender may receive it (`user-sync-reliquary-farm-balance.service.ts:294`), but the filter compares `event.event`,
  which is undefined, with the hash of the topic (`:296`), where the filter before it has `event.topics[0]`. A Shift
  between relics of two users names neither. Split and Merge are "found in the transfer events" (`:290`, `:292`), which
  name the one who gets the new relic, and the one whose relic is burned, not the owner of the other relic. Without
  `~Unseen(r)` in `StaleIsReread`: a reload reads a subgraph that is one block behind, the next block is such a
  change, and nothing that the next sync reads names its users.
- *Retries of a single block.* `getEvents` handles "missing block in the RPC logs by retrying" (`events.ts:88`), but a
  retry of a single block makes no request and returns no events (`:93`, and the other retries in the same way): the sync
  of gauges, which is to "check all transfer events since the last synced block"
  (`user-sync-gauge-balance.service.ts:124`), goes on and saves the block. This can be the last block of a range or, after a
  batch was repeated in smaller pieces, one in the middle; what is further back than the margin is not read again.
  Without `lost` in `Incomplete`, for gauges and with five blocks: such a sync.
- *Overlapping wallet syncs.* The fall-back reads "just 5 blocks here, because we rely on the subgraph 1st"
  (`sync-bpt-balances-from-rpc.ts:38`), and the subgraph may be 60 blocks behind. Two syncs that overlap, of the worker
  and of a mutation, then save a block with transfers before it that nobody reads (section 4).
- *The first day.* Two tests of `computeDailyValues` (`compute-daily-values.spec.ts:31` and `:63`) start from rows
  without daily values and expect that the value of the first is its total. The code keeps the value the first row came
  with (`compute-daily-values.ts:33`), and rows of the subgraph come with none. So a pool whose first two days are
  fetched together has no value for the first one, and one whose first day goes on after it was stored and is fetched
  again with the second keeps the old value; no later run corrects it, since a first row of several is never computed
  again. A comment (lines 15 to 17) says that this case is not handled. `DailyIsDifference` therefore speaks of
  every day but the first.

Further losses are recorded as hazards without a finding, because nothing in the repository promises otherwise: the V3
reload next to the add job (section 6), and a new V2 pool whose load of balances throws, which nothing repeats.

Observations made while reading the code for the models, which no run is about:

- A sync of snapshots that is cut off while it catches up on several days leaves days the next run cannot tell
  from complete ones (`ragged`); only a sync of all snapshots repairs them.
- Gauges and the masterchef compare an amount with `'0'` where it is formatted as `'0.0'`
  (`user-sync-gauge-balance.service.ts`, `user-sync-masterchef-farm-balance.service.ts`), so rows with a balance of
  zero are stored where their removal seems to be meant. The model has it (`Upserted`, `WriteUser`).
- Any error of `ownerOf` counts as a burned relic (`Skippable`), and the user is passed over.
- The mutation for one Reliquary user writes a row with an id of its own, which no other function reads.

## 8. What is not modelled

Section 1 and `PROJECT.json` list the components without a module; the reasons in short: APRs and prices of pools are
floating point arithmetic over external services; the router keeps no state between calls; the API only reads;
content, staking and token lists are copied whole at each run. Token prices are written anew for the hour by every
run, in an order of handlers that depends on services outside; they keep no position that could run ahead of what was
read, and what can go wrong with them is a wrong number. Generated code (subgraph types, GraphQL schema, contract
ABIs), which is most of the repository's lines, declares and computes nothing that has a state.

Within the modelled components:

- **Chain reorganisations.** All models read a chain that stays as it is. The margins that the code keeps "for reorgs"
  are modelled as what they do here: they make up for a subgraph that lags and for overlapping runs.
- **Values.** Prices, payloads of events, USD values, token pairs that are refreshed by the same handler after its
  write. In `ChangedPools` a state is the block at which it was read.
- **The first load.** A saved block of 0 makes the CoW AMM sync load every pool, and V3 refuse to run; behaviours
  of `ChangedPools` begin after that, with the old pools loaded.
- **Dropped events.** The V2 transformer of joins drops an event when the RPC node has no log for it (hazard).
- **Retries of log requests.** `getEvents` retries a failed batch in smaller pieces. What that can lose, single blocks,
  is a choice in `StakedBalances` (`Droppable`), and that a range of one block has no batch is proved
  (`SingleBlockUnread`); the retries themselves, and that they can go on for ever, are left out. `BptBalances`, whose
  fall-back asks through `getEvents` too, has only the empty range (`ReadLogs`).
- **Pages of snapshots.** `getAllSnapshots` asks for pages of 1000 rows; `Snapshots` reads them all at one block.
- **Times.** `EventSync` takes the newest stored event by its block where the code takes it by its time, which grows with
  the blocks.
- **Aura and veBAL balances** are rewritten in full by every run; the V2 snapshots are recomputed for the last days
  without a saved block.
- **Prices in `Snapshots`.** The price is one: the running sum is checked as a sum, not in dollars. `totalSurplus`, which a
  row of the subgraph does not bring and the merge therefore keeps, is left out.
- **Several processes in `ChangedPools`.** One instance of each job runs, which is what one worker process guarantees.
- **Like code.** The V3 and CoW AMM siblings of the balance sync, the one for fBEETS and the administrator's
  `initBalancesForPool` take the same steps as what is modelled.

External, modelled from how the code uses it: the chain (`NewBlock`), the subgraph (`IndexBlock`, `SubgraphIndexes`),
the queue's redelivery (`VisibilityTimeout`), the death of a process (`SchedulerRestarts`, `WorkerRestarts`, `Abort`).

## 9. How to run it

```
tlc -workers 2 -config MCEventSync.cfg MCEventSync
tlapm EventSync_proofs.tla
```

`PROJECT.json` names the module and configuration of each run. The passing runs take between one and three
minutes each (up to 3.9 million states), the violations seconds. Operators named as mutants in the comments
(`StartBlockGt`, `SkipJobWithoutReturn`, ...) are plausible mistakes: substituted for the definition they follow, each
makes the property it is listed with fail, so that a run that passes is known to be looking.
