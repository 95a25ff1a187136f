# A TLA+ model of the durable Session runtime of ranex-harness

ranex-harness runs coding agents. A client admits a prompt to a *Session*; the
server promotes it, sends the projected history to a model provider, executes
the tools the model calls, and goes on until the model is done. Everything a
Session does is an event in a SQLite log, and the promise of the core
(`src/README.md`, `src/specs/v2/session.md`) is about what survives: a server
that dies loses no admitted input, never repeats a side effect it cannot see,
never sends one turn twice, and lets clients follow the log without gaps.

The modules here model that core (`src/packages/core/src`) and what
`packages/ranex` adds to it that has a protocol of its own: the replication of a
Session between a hub and its workspaces, and tasks that run in the background.
It is the part of the repository whose correctness depends on interleavings,
crashes and timeouts. Paths below are relative to `src/packages/core/src` unless
they begin with `src/`; `ranex/` stands for `src/packages/ranex/src/`.

## 1. Inventory

### Modelled

| Component | Source | State | Operations |
|---|---|---|---|
| Run coordinator | `session/run-coordinator.ts` | a map from Session to an entry (owner fiber, pending wake, pending force, stopping, a deferred that joiners await) | `run`, `wake`, `interrupt`, `settle`, closing of the scope |
| Execution ownership | `session/store.ts`, `session/execution-owner.ts`, `session/execution/local.ts` | column `execution_owner` = pid, boot id and start time | `claimExecution` (read, judge, write), `releaseExecution`, `isLive`, the drain |
| File lock | `util/effect-flock.ts` | a lock directory with a heartbeat and a token, a breaker directory | acquire, break when stale, time out, heartbeat, release |
| Startup recovery | `session/reconcile.ts`, `session/recovery.ts` | the evidence of the last message, the retry columns, blocker rows | `sweepNode`, `recover`, `classify`, `reconcileInterruptedTools` |
| Durable event log | `event.ts` | tables `event_sequence` and `event`, projections, wake slots of the tails, queues of live subscribers | publish, replay, claim, release, remove, `durable` tails, bounded subscriptions |
| Session turn runner | `session/runner/llm.ts`, `session/runner/publish-llm-event.ts`, `session/message-updater.ts` | the locals of the drain and of the attempt, the tool fibers, the last assistant message | a whole drain, see 3.4 |
| Retry policy and watchdog | `session/runner/provider-retry.ts`, `session/runner/provider-watchdog.ts` | configuration | `decide`, the idle and absolute watchdog |
| Session inbox | `session/input.ts` | admitted inputs, promoted or not, *steer* or *queue* | admit, promote, `hasPending` |
| Permission and question waits | `permission.ts`, `question.ts`, `permission/saved.ts` | rows of pending requests, the pending map of each location, saved rules | ask, assert, reply (and its cascade), hydration, teardown |
| What becomes of a Session while requests wait | `control-plane/move-session.ts`, `session/projector.ts`, `ranex/session/session.ts`, `ranex/cli/cmd/import.ts` | the location of a Session, and whether there still is one | the checks around the Moved event, the patch and its Updated event, import, deletion |
| Background jobs | `background-job.ts`, `ranex/tool/task.ts` | one entry per id: token, status, pending runs, output | start, extend, wait, promote, cancel, settle |
| Workspace replication | `ranex/control-plane/workspace.ts`, `ranex/server/routes/instance/httpapi/handlers/sync.ts` | the log of a Session on the hub and on each remote workspace, the owner of its sequence, the sync loops | connect, history, live replay, `sessionWarp`, `sync/replay`, `sync/steal` |

### How they interact

`session.prompt` admits the input (a durable event) and calls `wake` of the
coordinator. The coordinator keeps one drain per Session and process and
coalesces wakes. A drain (`execution/local.ts`) takes the file lock, claims the
owner column and calls the runner; on the way out it releases the claim and, last,
the lock, which it holds all the while. The runner publishes every step through the event log,
whose projectors write the tables that the runner, recovery and clients read.
Recovery runs once per boot, Session by Session, under the same lock and claim
and, in addition, as owner of the Session's events; it ends in a blocker row,
in a forced wake of the coordinator, or in nothing. Clients read the log
through tails and live subscriptions. A tool of a turn may wait for the user: its
request is a row, so the answer may come after a restart, and a Session is not
*moved* while it has one; an update, an import or a deletion does not look. The task tool runs a child Session as a background job and
waits for it, joins it, or has its result injected later. A Session may live in
a remote workspace: the hub then passes prompts on, follows the log of that
server, and `sessionWarp` takes the Session elsewhere.

### What is hard

* **Interleaving in one process.** `run`, `wake`, `interrupt` and `settle` are
  callbacks of many fibers on one map. Tools run while the provider stream
  goes on, and each can end first.
* **Several processes** on one database; the lock is a directory that a stalled
  holder loses.
* **Crashes** at every point between two durable writes, a new process with the
  old one's pid, and a boot that must tell what was in flight from rows.
* **Timeouts and repetition.** Backoff, failover, overflow compaction and
  argument recovery reenter each other; each may run only where nothing was
  shown and nothing was called.
* **Order.** A tail that reads a page while commits go on; a bounded queue that
  overflows; a replayed event that arrives twice, early, or from a server that no
  longer owns the Session.
* **Several ends of one thing.** A reply, a reject, a shutdown and a move race for
  one request; a cancel, a failure, the last success and a second start race for
  one job.

PROJECT.json lists each hazard at its line with the properties that cover it,
or a note on why none does.

### Not modelled

| Part | Why |
|---|---|
| of replication: the wait of a proxied request for the events it caused, the patch of uncommitted changes, concurrent warps, creating and removing workspaces | the first reads only; a patch is data; a client sends one warp at a time; workspaces are a constant |
| location lifecycle | a count of holders under a lock and a scope, in one process; what it guarantees (nobody is closed out from under a caller) is a guard of `DurableBlocker` |
| context epochs | the content of the system context, a parameter of a turn |
| compaction, history, revert, tool output store | transformations of data and files; what they can do to a turn (an overflow compaction that helps or not, a store that fails) is an outcome in `SessionTurn` |
| tools, file mutation, processes, ptys, git | effects on the user's machine; a tool settles, fails or is declined |
| model catalog, configuration, plugins, skills, integrations | look-ups; a failure is `NoModel` or a skipped entry of the chain |
| `packages/llm` protocols | parsers; the runner's view is the action `Stream` |
| SQLite layer, HTTP server, SDK, command line, terminal interface | I/O and interface; a transaction is one step |
| the V1 loop and services of `packages/ranex` | replaced by the core, but for the patch, import and removal of a Session, which `DurableBlocker` has |

## 2. Modules

```
SerialExecution <--implements-- RunCoordinator <-- RunCoordinatorProofs
FileLock        <--implements-- Flock          <-- FlockProofs
FileLock        <--uses-------- ExecutionFence <-- ExecutionFenceProofs
Decision        <--implements-- DurableBlocker <-- DurableBlockerProofs
                                BackgroundJob  <-- BackgroundJobProofs
                                SessionSync    <-- SessionSyncProofs
                                EventLog       <-- EventLogProofs
                                SessionTurn    <-- SessionTurnProofs
MC<module>: its constants for TLC
```

The models fit together by what each takes for granted of the next.

* `RunCoordinator` takes a drain as something that begins and exits in any way.
* `ExecutionFence` takes one drain per process from the coordinator, a lock that
  one caller holds from `Flock`, and reduces the runner to the durable evidence it
  leaves. `Flock` says when a live caller can lose that lock; the fence has those
  losses as `Stall`. `FileLock` is the contract between the two: `Flock` implements it
  (`ImplementsLock`), and the fence moves it only as it allows (`UsesLock`).
* `SessionTurn` takes one drain at a time from the fence and models the runner.
* `DurableBlocker` and `BackgroundJob` are what a tool of a turn may wait for; in
  `SessionTurn` such a tool is one that is declined, fails or returns late.
* `EventLog` is what all of them write to; they use one commit as one step.
* `SessionSync` has the logs of several servers and takes from `EventLog` that a
  replay either extends a log, finds itself there, or dies.

Every module names its bounds in its CONSTANTS and assumes of them only what is
true of the code (`NoneAssumption`, `FenceAssumption`, `FlockAssumption`,
`LogAssumption`, `TurnAssumption`, `BlockerAssumption`, `JobAssumption`,
`SyncAssumption`). Definitions named `Mut...` are variants of the definition
that follows them, with a plausible bug each; no specification uses them, and
each makes TLC find a violation of the property PROJECT.json names.

## 3. The models and what their runs show

### 3.1 RunCoordinator and SerialExecution

`RunCoordinator` has entries, fibers and callers as in the code: `active`,
`pendingWake`, `pendingWakeForce`, `stopping` and `owner` are the fields of the
map and its entries; `phase`, `keyOf`, `entryOf` are the fibers that `start`
forks; `call` and what it waits for are the callers inside `run` and
`interrupt`. Synchronous stretches of the code are one action (`Run`, `Wake`,
`Interrupt`, `Settle`), everything that happens at an `await` is an action of
its own (`BeginDrain`, the three ways to settle, the second call of `run` by a
resume that waited for an entry that was stopping). `Close` ends the scope, after
which a fork does nothing (`NoFork`). `owedWake` and `owedForce` are history
variables: what was asked for since the last drain began.

`SerialExecution` is the abstract promise: requests of a key are coalesced,
executions of a key never overlap, a request is forgotten only by an interrupt
or the end of the scope, and each is executed.

* **coordinator_callers** (pass): one Session, three callers, two entries, two
  fibers. One key is enough since nothing is shared between keys but the map;
  two entries and fibers are all that are alive at once, as each is free again
  when it has settled; three callers allow a joined resume, an interrupter and a
  waker at the same time. It checks that drains never overlap (`SingleDrain`),
  that no wake and no force recorded since the last drain began disappears
  (`NoLostRequest`), that an interrupt is final until somebody asks again
  (`StopIsFinal`), that joined resumes are answered only when the chain of
  follow-ups is at an end (`JoinedUntilIdle`), that interrupts and joined resumes
  return (`CallersReturn`), and that the coordinator implements
  `SerialExecution` with its fairness, so that what is owed is run
  (`ImplementsSerial`). That nobody waits for something that is gone
  (`WaitersAttached`) and that every entry has a fiber that will settle it
  (`EntryHasOwner`) is proved (section 5).

*Fairness.* A forked fiber starts and a drain ends (`BeginDrain`, `Settle`), and a
resume that was woken goes on. Fibers are scheduled by the runtime; that a drain
ends is shown in 3.4 for providers and tools that end.

### 3.2 ExecutionFence

A process is a pid that boots, sweeps, serves and crashes; `Owner(p)` is the pid
with its boot number, as `ownerID` is. Each has two tasks, its sweep and its
drain; `pc` says where each is. Every statement on the database or the lock
directory is an action: `Lock`, `LockTimeout`, `ClaimRead`, `ClaimJudge`,
`ClaimWrite`, `Unlock`, `EventOwnerRead`, `EventClaim`, `Classify`, the three
acts of recovery, `EventRelease`, `Release`. The runner is reduced to the
evidence recovery reads: `work` says what the last assistant message looks like,
`retry` that the retry columns are set; a stream that ends after output without a word
that the step is over leaves its message open (`StreamEnds`, `StepEnds`). `Crash` loses all of a process but the
tables and the lock directory; `MaxStalls` bounds how often the lock of a live
holder is stale.

* **fence_crash** (pass): two pids, two boots and one broken lock among them. Two
  processes are the least that compete, and a second boot is the least that meets
  a dead claim of its own pid; the proofs below do not depend on either number.
  As long as no live holder loses its lock, at most one drain or sweep of all
  processes is past its claim (`OneCritical`), no way out leaves a live process as
  owner (`OwnerIsBusy`), and what a sweep decided is still true when it acts on it
  (`PlanStillTrue`). When the lock of a live holder is broken, two processes may be
  between acquire and release; the column alone still keeps two out of the runner
  (`OneRunner`), no live owner loses its claim (`OwnershipNeverStolen`), and no way out,
  a refused claim included, leaves the lock of a live process behind (`LockInUse`).
  `OneRunner` is stated for up to one broken lock. With two it does not hold: a process
  has one owner name for its sweep and its drain, so the sweep's release can free the
  column under its own drain.
* **fence_live** (pass): two pids that drain and sweep the Session at the same time, with
  fairness; one of them crashes at any point and boots again (`Mortal`), which is what it
  takes for a wake to wait behind a live holder, for a waiter to meet a dead owner, and for
  an input to be promoted by the process that was not told of it. No lock of a live holder
  is broken, so no claim is refused, and nobody gives up waiting. A dead claim is replaced
  (`DeadOwnerReplaced`). When every process has died (here: one that was alone, before the
  other booted), a tool or provider turn that was in flight surfaces as a blocker and a
  persisted retry survives (`CrashIsRecovered`). An input whose wake reached a
  process is promoted, by whichever process holds the Session (`WokenInputServed`), unless
  the process that was told dies or is interrupted, or its drain comes to the guard with a
  persisted retry, where it may return first (section 4, *Recovery outside the fences*).
* **fence_takeover** (violation): the retry columns stay set while the retried
  turn runs. A wake in a second process that waited for the lock while the owner
  died inside that turn passes the guard of `run` because of them and
  dispatches over an ambiguous provider turn, which `src/specs/v2/session.md:167`
  excludes.

*Fairness.* A live process goes on with its sweep and with its drain, and a crashed server
is started again (an assumption about its operator). The provider stream and the tools
end (an assumption about them), and a turn is not retried for ever: strong fairness on an
end of the stream that is not retried, which is what `max_elapsed_ms` of the retry window
gives (`session/runner/provider-retry.ts:110`). Waiters poll for the lock without a queue,
and no fairness gives a particular one the lock. It is not needed: a drain of another
process that gets it instead serves the inbox, too. Only interrupts could go on for ever
to hit the drain that got the lock before it has written its claim, so
`DeadOwnerReplaced` and `WokenInputServed` are for behaviours in which interrupts end
(`Calm`).

### 3.3 EventLog

`next`, `owner` and `rows` are the two tables, `view` is what projectors were run
on. A commit is one step, as its transaction is: `Publish`, `PublishAsOwner`,
`Replay` with `Adopt` of an owner, `ReplayAgain` for an event that is stored
already. What the publishing fiber does after it, waking tails and notifying
live subscribers, are steps of its own (`Wake`, `Notify`), and between them the
fiber may be interrupted. A tail reads a page, emits it, sleeps until its slot
is filled (`Read`, `Emit`, `TakeWake`); the page is the answer of a query that
commits may already have overtaken. A live subscriber has a bounded queue.

* **log_replay** (pass): two publishers, three event IDs, two owners, sequence up
  to 2, a queue of one. Replays repeat, skip and arrive early. `ViewIsLog`: log
  and sequence row agree, without gap or duplicate, and projectors ran once per
  event and in order. `NoSilentGap`: a subscriber that overflows is
  failed before it misses an event unnoticed. Three positions allow a gap before,
  between and after; one place in the queue makes the second event overflow.
* **log_readers** (pass): a tail is opened twice between the commits of two
  publishers of its process. `TailKeepsUp`: it emits consecutive numbers
  (`TailConsecutive`), and when it is about to sleep with an event unread, its slot is
  filled or the publisher that will fill it is on its way (`NoWakeLost`).
  `TailCatchesUp`: every committed event reaches it.
  With the publisher in another process the last does not hold: wake
  slots live in the publisher's process (`event.ts:486`), and a waiting tail is
  told of nothing until its own process publishes for the aggregate.

*Fairness.* A fiber finishes what follows its commit; a tail is consumed.

### 3.4 SessionTurn

One drain of one Session. `drain` holds the arguments of `runTurn` and the place
in it, `turn` the locals of `runTurnAttempt` and of its publisher, `fib` the tool
fibers, `msg` the last assistant message, `stray` the states of tools that older
messages left unsettled, `retry` the persisted attempt, `inbox` how much of each
delivery is pending. The places follow the code:

```
guard -> turn -> ready -> stream <-> call -> after -> judge -> settle -> conclude -> next
                                                |        |        |
                                             shrink   backoff   clear
```

`Promote` and `Dispatch` are the attempt up to the provider stream; `Text`,
`ToolInput`, `ToolCall`, `Fork`, `HostedResult`, `StepFinish`, `ProviderError` its
events; `StreamEnds` its end, well, with a retryable or other failure, by a
watchdog, an overflow or malformed arguments. The absolute watchdog may end it
between the record of a call and the start of its fiber. Tools return, publish
(which cannot be interrupted), fail or are declined at any time. After the
stream, `Shrink` is the overflow compaction, `Recover` the answer to malformed
arguments, `Retry`, `FailOver`, `Exhausted` and `FailTurn` the decision on a
failure, `Pass` the other case. `Settle`, `Decline`, `Overdue` and `ClearDone` wait
for the tools, `Conclude` writes Step.Ended, and `NextTurn` is the loop of `run`.
`Interrupt` and `Crash` are possible wherever they are in the code. Results and
errors of tools are one state, since no property tells them apart; delays and the
elapsed window are left open, so every decision they permit is explored.

* **turn_drain** (pass): two calls a turn, one retry per model, one model in the
  failover chain, one input, one crash or resume. Two calls are what it takes for
  one tool to fail or be declined while another runs or publishes; two steps allow
  a continuation whose tools are disabled. `AnsweredAtDispatch`: no
  provider is sent a call that was made and has neither result nor error.
  `EffectIsVisible`: a tool runs only while its call is recorded as running.
  `RepeatsLeaveNothing`: only an attempt that left no output and no call is
  repeated. `DispatchesBounded`: a turn is dispatched at most MaxAttempts times
  for each model and once more for the compaction of an overflow, which is the bound of
  the code, not that of the document (section 4, *Attempts after a checkpoint*). `DeclineHalts`: after a decline
  the drain dispatches no more, unless another tool of the turn had failed
  before, which hides the decline (`FiberSet.join` yields the first failure).
* **turn_live** (pass): two inputs and a chain that names the configured model
  too, which then is failed over back to once. `InboxServed`: a drain that ends by
  itself leaves no input unless it was woken again. `DrainEnds`: every drain ends.

*Fairness.* The coordinator starts a drain it was woken for and the drain goes on;
that streams and tools end is assumed, which is what the watchdogs are for.
Prompts, resumes, interrupts, declines and crashes are never fair.

### 3.5 Flock

The lock directory file by file. `age` says of the directory, its heartbeat, its
token file and the breaker directory whether they are there and whether they were
modified within STALE_MS; `token` is the content of `meta.json`. Every file operation
of `tryAcquireLockDir`, `isStale`, `release` and the recursive removal is an action,
for everything is addressed by path and can be somebody else's by then. Time is one
action, `Pass`: STALE_MS go by. It waits for callers that have made a directory or
are removing one, since these operations take far less than STALE_MS (60 s) while the
process lives; a caller that only looks may take any time between two looks.

* **flock_files** (pass): three callers, one that holds or died, one that breaks, one
  that acts on what it saw earlier; two crashes, of a holder and of a breaker.
  `HolderHasDirectory`: whoever runs its body has its own token and both files in the
  directory, so nobody else is in. `ImplementsLock`: the directory, whoever made it, is
  the lock of `FileLock`, which passes on only when its holder has removed it or is
  dead. Both are stated under `~raced`, for crashes, late releases and long bodies
  included: drains hold the lock for as long as they run (`session/execution/local.ts:22`),
  usually longer than STALE_MS. `raced` is set at the two steps at which the protocol
  itself fails: a breaker's second look falls between the two unlinks of the release of
  a lock held for STALE_MS (`Tears`), or the breaker directory of one at work is removed
  by a caller that had seen a stale one there (`Ousts`). From then on neither property
  says anything, and the code does have two holders (section 4). `LockIsTaken`, which
  has no such condition: whatever the dead have left, once no new callers come,
  somebody who asks gets the lock, unless all give up.

*Fairness.* Callers that are alive go on. Time passes however often they retry (strong
fairness: between two retries nobody holds it up).

### 3.6 DurableBlocker

`rows` is the table of pending requests, `pend` the pending map of each location's
service, `tool` the fiber that asks, with `answer` for its deferred; `cpc`, `op` and
`rest` are a caller of `reply` between its awaits: it finds the entry, deletes the
row (`Claim`), completes the deferred (`SettleOwn`), publishes Replied (`TellOwn`), and
after a reject or an always goes through a snapshot of the other entries (`Sweep`,
`SweepAnswer`). Where a Session lives, and whether there is one, changes in four ways.
`MoveCheck` and `MoveCommit` are the move, which looks for pending requests before it
publishes Moved and again inside the commit. The others look at none: `Patch` reads the
whole Session, as every setter does, and `Updated` writes it back, directory and workspace
included, as read or as `setWorkspace` means it; `Import` writes the directory of its file;
`Delete` removes the Session and, by cascade, its rows. `astray` is a history variable: the
requests that were pending when one of these three took their Session from where it was. A service is
closed by its finalizer (`Close`), dies (`Crash`) and hydrates its map from the rows
(`Boot`). `won`, the verdict of whoever deleted the row, is a history variable.
Questions are the same service with the verdicts *once* and *reject*, without a
cascade. All requests are for one action on one resource, so any saved rule covers
any request, which is the case in which a cascade does the most.

* **blocker_replies** (pass): two requests of one Session, two callers, two locations, one
  caller of `patch`, and any two (`MaxUpsets`) of moves, patches, imports, deletions, closes
  and crashes. Two callers are what a race for a row takes, two requests what a cascade
  takes, and two upsets let a service die twice, or a Session be updated, or deleted,
  around a move or a restart. `RowsAtHome`: a pending request belongs to a Session that
  lives where it was asked, so a move does not part them, whenever the tool asks.
  `NotForgotten`: what has a row can be answered where it was asked, and a tool that waits
  without one has been decided. Both except the requests in `astray`
  and no others: one asked before such a step and decided by then, or asked after it, is
  covered. What the code does to those in `astray` is in section 4.
  `ImplementsDecision`, without exception: rows, maps,
  deferreds, replies and events add up to `Decision`, where the row is the pending
  request and who deletes it decides. There a request is decided once, before or after
  a restart; a tool goes ahead, and a Replied event says so, only by its own request's
  verdict or by a rule that was there when it asked; only an always verdict adds the
  rule; and a deletion withdraws what is pending in its Session.

No liveness is stated: a user may never answer.

### 3.7 BackgroundJob

`job` is the entry of one id: the latest job with its `token`, status, `pending` count
and next sequence; `fiber` the run of each prompt, `settled` those whose exit has been
counted. Whoever changes the status (`EndsAs` in `Settle`, `Cancel`, `Release`) carries
the snapshot in `final` to a later step that resolves `done` and closes the scope
(`Finish`), which interrupts what still runs (`Stop`). The calls are those of the task
tool: `Extend`, `Start` (in the background or not, or joining a job that somebody else
has started meanwhile), `Watch` and `Wake` for the race of `wait` and
`waitForPromotion`, `Abort`, `Release` and `Released` for the parent's abort, `Notify`
and `Inject` for the fiber that brings the result back later. `Promote` and `Cancel`
come at any time.

* **background_jobs** (pass): two calls, two jobs of the id, one extension each. Two
  jobs are what it takes for a late fiber or a notifier to meet its successor; two
  prompts in a job settle in either order. `WorkInOrder`: prompts of a job run one at a
  time and in order. `CompletesWithLast`: a job completes only when every prompt it
  took has succeeded, with the output of the last. `OutcomeStands`: the first end of a
  job is what the registry and the waiters keep. `EveryoneHears`: a call in the
  foreground returns, one that was told its task runs in the background has the result
  injected, and nothing runs on for a job that has ended.

*Fairness.* Prompts end (a child Session ends, see 3.4), fibers and calls go on.
Extensions, promotions, aborts and cancellations are never fair.

### 3.8 SessionSync

The log of one Session on the hub and on each remote workspace. An event is
identified by its writer and its position, and carries the workspace it records if it
is a `setWorkspace`. `owner` is `event_sequence.owner_id`, `link[w]` the place of the
hub's loop for `w`: no fiber, disconnected, failed, connected, reading the history,
live. `rows` and `feed` are the history it has yet to replay and the events on the
stream; from `Connect` on a remote sends every event, while the history is still read.
`Replay` is the replay of `event.ts` reduced to its cases: stored already, foreign to
the owner, the next position, or dying. A replay that dies while the history is read
is a defect that ends the loop's fiber; a dying live event is logged and dropped.
`WarpStart` to `WarpRecord` are `sessionWarp` await by await: the final history of the
previous workspace (`WarpFinal`, `WarpMerge`) or the cancel of a local run, the claim,
the read of the rows, their replay on the target one after the other, the steal, the
record on the hub. `Disconnect`, `WarpFails` and `HubCrash` are failed calls, lost
connections and the death of the hub; remotes keep running meanwhile.

* **sync_warps** (pass): a hub, two remotes, a local workspace, a Session created on
  the hub or in a remote; two warps, one event of a run, one fault. Two warps are the
  least for a workspace to hear of a Session it had before, and for the events of a
  previous owner to arrive during the next claim; with a Session created in a remote,
  one more write or one more fault passes too. `OnePlace`: an event has one position
  and content everywhere. `OnlyOwnerIsHeard`: the hub takes a remote's event only while
  that remote or nobody owns the sequence. `WarpIsWhole`: a target that takes over has
  everything the hub copied. `CatchesUp`: a hub that has to connect gets everything it
  missed, if it would take it and its loop is not ended by a dying replay.

*Fairness.* The loop of a workspace goes on: it reconnects and the server answers.
Warps, prompts, writes, faults and the client's `sync/start` are never fair.

## 4. Divergences

Where the code does other than a document, a test or its reader expects. With a run:

* *A wake dispatches over an ambiguous turn* (**fence_takeover**): see 3.2.

Without one, found by the models above and left to a reader of the code:

* *Resume during cleanup.* A resume that finds the entry stopping waits for it and is
  answered with its interruption, because `Effect.andThen` is skipped after a failure
  (`session/run-coordinator.ts:75`). The test that names this case
  (`src/packages/core/test/session-run-coordinator.test.ts:285`) lets the resume reach
  `run` only after the cleanup.
* *An update takes a Session away from its requests.* The Updated event writes directory and
  workspace of the Session without a look at its pending requests
  (`session/projector.ts:238`), though a move is refused for them (`:262`,
  `control-plane/move-session.ts:143`). `sessionWarp` sends it through `setWorkspace`
  (`ranex/control-plane/workspace.ts:624`, `:640`, `:712`), and `import` upserts the
  directory (`ranex/cli/cmd/import.ts:189`). The tool goes on waiting in the service it asked;
  a service of the new location lists the row when it is built next, and its reply deletes
  the row but finds nobody to answer. Without `\ astray` in `RowsAtHome` TLC finds the row
  away from home in 4 states: ask, insert, import.
* *A patch undoes a move.* `patch` reads the whole Session and publishes what it read with the
  fields it changes (`ranex/session/session.ts:736-749`), so a title that was set while a
  move went on writes the old directory back.
* *A deletion leaves tools waiting.* The rows of permissions and questions go with their
  Session by cascade (`session/projector.ts:279`, `permission/sql.ts:16`,
  `question/sql.ts:12`). A tool that waits keeps its entry in the pending map; a reply finds
  no row and fails with not found, so only an interrupt or the end of the service ends the
  wait.
* *A refused claim drops the wake.* `drain` returns when its claim is refused
  (`session/execution/local.ts:25`). Whoever is the owner then normally still serves the
  inbox; but it takes a broken lock for the two to meet, and then the owner may be past its
  last look at the inbox. With one broken lock TLC finds the input left unpromoted in 24
  states (`WokenInputServed`, which is therefore checked without).
* *Recovery outside the fences.* A forced recovery wake runs outside the fences and,
  with a second process, may run a turn although its settled turn was continued
  already. And `run` drops an elapsed retry window and returns before it looks at the
  inbox or at `force` (`GuardElapsed`, `session/runner/llm.ts:841`).
* *Step allowance.* A promotion resets the step counter in a local of the attempt
  (`session/runner/llm.ts:780`); a retry, failover or shrink of that attempt reenters
  with the old counter (`:703`, `:726`), so a promoted input does not get the steps
  that `src/specs/v2/session.md:50` gives it.
* *Attempts after a checkpoint.* `src/specs/v2/session.md:121` leaves a turn whose
  overflow was compacted "one remaining physical attempt", after which a failure is
  terminal. `runAfterOverflowCompaction` answers a failure of that attempt with
  `retryTurn` and `failoverTurn` like any other (`session/runner/llm.ts:724-737`); only a
  second compaction is ruled out. TLC reaches the backoff of a turn that was compacted in
  14 states: overflow, checkpoint, second dispatch, retryable failure.
* *Failover is not kept.* `failoverTurn` hands the model to the turn it reenters
  (`session/runner/llm.ts:701`) and never to the loop of `run`, so the next turn of the
  drain is back at the configured model, against the comments at `llm.ts:197` and
  `llm.ts:868`.
* *Open messages.* A stream that ends without step-finish after output leaves its
  message open until the next step, and a local tool whose input was still arriving
  stays pending; no document says what should become of them.
* *Tails across processes.* Wake slots live in the publisher's process
  (`event.ts:486`): a tail in another process waits until its own publishes.
* *A lock held for STALE_MS.* Its release unlinks the fresh heartbeat before the old
  `meta.json` (recursive removal, `util/effect-flock.ts:248`), and between the two the
  lock looks stale to a caller that then removes, by path, the directory of whoever
  came next. Drains hold this lock until they end (`session/execution/local.ts:22`), so
  their releases are of this kind; what it takes besides is a waiter whose two looks
  fall into the gap. Without `~raced` in `HolderHasDirectory` TLC finds two holders
  in 31 states and without a crash. After two crashes, of a holder and of its breaker,
  two callers that clean the breaker directory (`:140`) can do the same (49 states).
  The test of mutual exclusion (`src/packages/core/test/util/effect-flock.test.ts:331`)
  holds the lock for less and has no crash. `ExecutionFence` has both as `Stall`.
* *A result that nobody hears.* `notify` looks the job up by id (`ranex/tool/task.ts:246`).
  If a second job of the id starts before it does, it waits for that one, and the result of
  the first is lost: 13 steps without `job.token = tok[c]` in `EveryoneHears`. The
  comparable race in `start` makes a call that came second join the first, and its own
  prompt is not run (`task.ts:273`).
* *Two writers after a warp.* Every warp to a remote ends with a steal event of the
  target (`handlers/sync.ts:61`) and a `setWorkspace` of the hub
  (`ranex/control-plane/workspace.ts:712`), in the same position of their logs, or in
  neighbouring ones if the hub heard the first in time. So the logs may differ from there
  on, though `src/packages/ranex/src/sync/README.md:33` rests its order on "only one
  device is allowed to write". `OnePlace` is what remains true: neither ever takes
  another event in the position of its own.
* *A sync loop that is gone.* A replay that dies while the history is read is a defect
  that `Effect.catch` does not catch (`workspace.ts:378`): the loop's fiber ends, and
  reconnecting does not help until `startSync` is called again.
* *A warp that fails after its claim* (`workspace.ts:589`) leaves the Session attached to
  a workspace whose events the hub ignores from then on; the final history of the next
  warp ignores them too. What was ignored while another workspace owned the sequence is
  asked for again only at a reconnect.
* *A Session without a workspace is not claimed* (`workspace.ts:568`), and one that is
  warped to no workspace gets the project as owner. If it is warped to a remote next,
  the hub still has the project as owner and ignores what that remote sends, although the test at
  `src/packages/ranex/test/control-plane/workspace.test.ts:976` expects a warp to claim
  the sequence; the test begins with an attached Session.
* *A run of a remote, or of the hub itself, is not cancelled by a warp*: only that of a
  local workspace is (`workspace.ts:584`).

## 5. Proofs

TLAPS proves these for every value of the constants that satisfies the module's
ASSUME, and, where said, the assumption named. Every proof goes action by action:
a lemma for each conjunct of the invariant, a step for each action that can
disturb it, and frame lemmas for what a group of actions leaves alone.

**RunCoordinatorProofs.** `TypeCorrect`; `Invariance` of `IInv`; from it
`Serialized`, `EveryEntryOwned`, `NothingLost` and `NobodyStranded`, for any sets of
Sessions, entries, fibers and callers. `SingleDrain` is not inductive: that two
fibers of a key cannot be alive needs that the live one is the owner of the entry
in the map (`OwnerAgrees`), that owners are alive (`OwnerLive`), that an open
scope has no entry without owner (`OpenOwned`), and, for what is owed, where it is
kept: in the entry or in a fiber that is about to begin (`OwedWakeKept`,
`OwedForceKept`). The proof goes action by action, with lemmas on the helpers
`Fork`, `MakeEntry`, `StartEntry` and `Complete`, and a frame lemma for the
Sessions a step does not touch. `InterruptIsFinal` adds that nothing is registered for
a Session that was interrupted: its live fibers are about to end and no wake is pending
in their entries (`HaltKept`). `JoinsLastTheChain` is about single steps. `SerialSafety`
is the refinement: each step of the coordinator is a step of `SerialExecution` or a
stutter, according to what it does to the fibers, of which it forks one, ends one or
leaves all (`Forked`, `Gone`, `Same`); that a closed scope lets nothing run on
undisturbed (`ClosedStops`) is what the abstract stop needs.

**ExecutionFenceProofs.** `FenceTypeCorrect`; `FenceInvariance`: `LockInv` as long as no
live holder has lost its lock (`stalls = 0`), which gives `MutualExclusion`,
`ClaimIsRecorded` and `RecoveryIsCurrent`. The argument: whoever is between acquire and
release has the lock, so nobody else judges or writes the column; whoever is past its
claim is the owner, and a live owner is not judged gone. `NeverStolen` holds with any
number of broken locks: a claim is written only if the column is still what was
judged (`JudgedGone`), and an owner that is gone never comes back, as a boot takes a
new name. `NoOwnerLeftBehind` assumes `ProcIdentity`, without which a new process
with the old pid counts as the old one. `OneRunnerAtATime` is `OneRunner`. Its invariant
(`RunnerInv`) says what one broken lock can lead to: one task at most goes on without
the lock it thinks it has (`OneDisplaced`), a sweep decides before the drain of its
process begins (`SweepFirst`) and never has the lock while that drain has it too
(`SweepYields`), and a drain past its claim is the owner in the column, or still has the
lock with nobody else about but its own sweep on the way out, which may have freed the
column (`RunnerOwns`, `Undisturbed`); for another process to use that takes a second
broken lock. `NoLockLeftBehind`:
no way out of a drain or a sweep, timeouts and interrupts included, leaves a live
process's lock behind (`LockInUse`), however often locks are broken. `FenceUsesLock` is the other side of the contract
`FileLock`: each step of drains, sweeps, crashes and boots acquires, releases, orphans or
clears that lock or leaves it alone (`UsesLock`), but for the breaking of a live
holder's lock.

**FlockProofs.** `FlockTypeCorrect`, and `HolderKeepsLock`: `HolderHasDirectory` for any
number of callers and crashes and locks held for any time, up to the first step that
sets `raced`. The invariant `LockInv` says whose the directory is (`Owns`: it made it
and has not given it up), what is in it at each place of its owner (`Inside`), that only
an orphan gets past a breaker's second look, and that the breaker directory is one
caller's (`Breaks`, `OneBreaker`). The hard step is the second look at a live lock: what
is there looks stale only if the fresh heartbeat, which is looked at first, is absent,
and that is so only while its owner unlinks it, which is the first window. `FlockIsLock`
(`ImplementsLock`) follows step by step, under the same condition: of all file
operations only `Mkdir`, the removal of the directory by its owner or a breaker, and a
crash are steps of `FileLock`, the others are stutters.

**DurableBlockerProofs.** `BlockerTypeCorrect`, `RequestsStayHome`, `WinnerAnswers`,
`SettledOnce`, for any requests, Sessions, locations, callers, editors and upsets. Moves,
patches, imports and deletions are steps like any other; `RequestsStayHome` and
`NoneForgotten` except the requests in `astray`, and nothing else. A row is of a
request that was asked and not decided, and its tool has not been allowed (`Asked`), and a reply past its claim carries
the verdict that won (`Carried`). `NoneForgotten` assumes one service per location
(`OnePerLocation`), as the location map of the code guarantees: then whoever has an
entry is whom the tool asked (`Held`), and a waiting tool without a row is being
answered (`Answering`). `BlockerDecides` (`ImplementsDecision`) is the refinement: what
became of a request is read off its row, its verdict and the place of its tool (`Fate`);
admissions, claims, withdrawals and deletions (`DeleteMaps`) change it, and a close or a crash drops those of a
location that were not admitted yet, or lets the tools go on that were allowed, all at
once. That a swept request is allowed only under a rule that is there needs that an
always reply past its claim has added it (`Ruled`).

**BackgroundJobProofs.** `JobTypeCorrect`, `JobInvariant`, `PromptsRunInOrder`,
`CompletionIsWhole`, `FirstEndStands`, for any number of calls, jobs and extensions.
`CompletesWithLast` needs that `pending` is the number of accepted prompts that have
not settled and that all settled ones have succeeded (`Counted`), which late fibers
of earlier jobs do not disturb because jobs of an id follow each other
(`Succession`). `NobodyWaitsForNothing` is what `EveryoneHears` says without time
(`ResultOnItsWay`). A job that a call or a notification awaits has ended or runs with a
prompt that has yet to settle (`Busy`: `pending` is never counted down to zero), so
settlements alone bring its end. And while the id is not started anew, a call that was
told its job is in the background has the result injected, unless the job was
cancelled, or somebody holds the duty to inject it: the call itself, the hook of the
promotion from the moment it is taken, or whoever waits for the job to tell its result
(`Minded`, which follows that duty through every step that hands it on).

**SessionSyncProofs.** `SyncTypeCorrect`, `SyncInvariance`, `EventHasOnePlace`,
`WarpHandsOverAll`, `OwnerAloneIsHeard`, for any workspaces and any number of warps,
writes and faults. `OnePlace` is inductive only together with where events travel:
positions in `rows`, `feed` and a running copy lie within the log they were read
from, and what a remote holds of another server came through the hub, so that the
hub still has it there.

**EventLogProofs.** `LogTypeCorrect`, `LogInvariant`, `LogProjected`, `TailsAreConsecutive`,
`SubscribersSeeNoGap`, for any aggregates, publishers, tails, subscribers, event IDs and
bounds. That the rows of an aggregate are as many as its sequence row says is not
inductive as a count. `Filled` says instead that every position below the sequence row has
one row; a bijection with an interval gives the count (`RunCount`), and counting the rows
before it gives the place of each row in the order of a query (`SortedRun`). For tails,
the page a query returned begins at the cursor and has no gap (`Pages`), whatever was
committed since. `TailsKeepUp` adds that no tail sleeps over an event of its own process
(`NoWakeLost`): what it has not read was committed after it began to listen, so the
publisher is about to fill its slot or has filled it, and an emptied slot is followed by
a read. For subscribers, the queue is what was notified, position by position,
and all of it until the subscriber fails (`Queued`).

**SessionTurnProofs.** `TurnTypeCorrect`, `TurnInvariance`, `ToolsAreVisible`,
`CallsAnswered`, `RepeatsAreBlank`, `DeclineEndsDrain`, `InboxIsServed`,
`DispatchesAreBounded`, for any calls,
models, failover chain, step allowance, attempts, inputs and crashes. The invariant has
one part for each thing that must survive an attempt: whose calls the live fibers are,
and that an interrupt leaves none that could still be interrupted (`Workers`); that there
are none between attempts (`Quiet`); that an attempt without output has no fibers, text or
calls, also when it is repeated later (`Blank`); at which places no call of the message can
still be running (`Answered`); that in a turn that goes well somebody is left to answer
each call: its fiber, the provider, or the failure of another tool that will fail them all
(`Owed`), which is what `Answered` rests on when the turn continues; and where a decline
can be before it ends the drain (`Halting`). `InboxIsServed` then needs only the types:
all but two steps go on, end for another reason, or touch neither inbox nor wake
(`Stays`). `DispatchesAreBounded` rests on a budget (`Budget`): the dispatches made and
the attempts left, on this model and on each untried entry of the chain, never exceed
what a turn starts with; backoff, failover and compaction each use up an attempt before
they dispatch again. That an entry used up makes fewer of them left counts the entries,
so the chain must be a finite sequence (`ChainAssumption`).

Only model-checked: liveness everywhere (`CallersReturn`, the fairness part of
`ImplementsSerial`, the properties of `fence_live`,
`TailCatchesUp`, `DrainEnds`, `LockIsTaken`, `EveryoneHears`, `CatchesUp`), which is out
of the prover's reach. For four of them the safety they rest on is proved:
`NothingLost` and `NobodyStranded` (`CallersReturn`), `SerialSafety`
(`ImplementsSerial`), `TailsKeepUp` (`TailCatchesUp`) and `NobodyWaitsForNothing`
(`EveryoneHears`). Every safety property that a run checks is proved, but for
`NoBlindRedispatch`, which does not hold.

## 6. Plan

Done: the modules above with their runs, and a proof module for each of the eight models.

Proved: every safety property of the passing runs, and the refinements of
`SerialExecution` (its safety), `FileLock` and `Decision`.

To come, in this order:

1. The safety that `CatchesUp`, `CrashIsRecovered` and `LockIsTaken` rest on, as
   `ResultOnItsWay` is for `EveryoneHears`: what a hub's loop that listens has yet to
   replay, what evidence a crash leaves for the next sweep, and that some caller of
   the lock can always go on.
2. *SessionInput*: identity, idempotent admission and promotion by sequence, with a
   crash between promotion and dispatch and several running tools at it, once a
   document says what should become of them.
3. `SessionSync` over two writers of one Session at a time, so that events committed
   in one order are notified in the other (`event.ts:528`).
