# Anvil extensions in TLA+

Anvil is a collection of some twenty extensions of the Pi coding agent, each a
package under `src/packages` (`src/docs/packages.md` is the catalog,
`src/docs/forks.md` says where each one comes from). Most packages are prompts,
views or one-shot commands. A few carry what goes wrong in production: several
Pi processes that share files and a database, children that outlive their
parent, callbacks that come back to a session that is over. This directory
models those and proves what it can about them.

All paths below are relative to the repository; `subagents`, `hermes`,
`permission` and `commentary` stand for `src/packages/pi-subagents/src`,
`src/packages/pi-hermes-memory/src`, `src/packages/pi-permission-system/src` and
`src/packages/pi-commentary`.

## 1. Inventory

| Component | State | Operations | Hard because | Correct when |
|---|---|---|---|---|
| Session revival lease, `subagents/runs/shared/session-lease.ts` | a directory with `owner.json`, tombstones | acquire, takeover, updateWriter, release | contenders are processes, each file operation is a step, runners die and their children live on | one Pi child writes a session file at a time |
| Detached run, `subagents/runs/background/subagent-runner.ts`, `control-channel.ts`, `stale-run-reconciler.ts`, `chain-append.ts` | `status.json`, result file, control inbox, append requests | step, stop, interrupt, timeout, append, finish, reconcile | runner, parents and appenders write the same files without a lock | one true report, agreeing with the status, in the end |
| Result delivery, `result-watcher.ts`, `notify.ts`, `completion-batcher.ts` in the same directory | results directory, scheduled files, handlers under way, dedupe maps, epoch | watch, prime, poll, handle, send, remove, restart | sessions start and end while handlers await; `fs.watch` fails | each result reaches its own session once |
| Lease coordinator, `hermes/store/atomic-lock-coordinator.ts` | a table `locks` in SQLite, pending releases, sweep clock | tryAcquire, renew, release, sweep | holders die, hang, come back, share process ids over time | one fresh holder per key; nothing is blocked by the dead |
| Commentary, `commentary/index.ts` | request in flight, mark of consumed activity, clock, settings, dialog generation | turn end, settle, session start and end, command, dialog, answer | answers and dialogs return after the world has changed | no activity lost or counted twice, nothing stale shown |
| Revival handshake, `async-execution.ts` | three startup files per revival | ready, ack, proceed, terminate | a deadline on each side, signals, deaths, writes that fail | a revival reported as failed never runs, one reported as started goes on |
| Scheduled runs, `scheduled-runs.ts` | a job file, timers in memory | create, cancel, bind, fire, launch | crashes between the claim and the launch; read-modify-write by several processes | a job is launched once, and settled in the end |
| Async job tracker, `async-job-tracker.ts` | jobs known to the parent, pollers, cleanup timers | add, complete, poll, clean up | timers of an earlier session | no job of another session is shown |
| Foreground execution, `subagents/runs/foreground` | the children of a tool call | run, chain, parallel | cancellation | every child's outcome is returned |
| Spawn budget, `subagents/runs/shared/spawn-budget.ts`, `subagent-executor.ts` | counters per session | reserve, grant after a dialog | the session, its jobs and its children go on while the human decides | the limit holds; a grant is what the human saw |
| Supervisor channel, `subagents/intercom` | mailbox files | request, reply, heartbeat | lost peers, late replies | a reply goes to its request |
| Watchdog, `subagents/watchdog` | a review under way per turn | review, emit | the turn is over before the review | no warning about another turn |
| Permission forwarding, `permission/authority` | request and response files in two directories, session rules | forward, poll, list, decide, respond, clean up | late answers, restarts, directories removed under the other side | a child goes ahead only on a grant that covers its ask; no request is lost |
| Permission policy, `pi-permission-system` | rules | evaluate | none: pure | the strictest matching rule decides |
| Markdown memory, `hermes/store/memory-store.ts` | `MEMORY.md`, the copy in memory | add, replace, remove | a foreign editor, other sessions | no edit is overwritten silently |
| SQLite store, `hermes/store/db.ts` | database files, recovery lease | open, recover, restore | recovery by several processes | one recovery at a time |
| Consolidation and review, `hermes/handlers` | child under a lease with a heartbeat | consolidate, flush | the lease is stolen while the child runs | one consolidation writes |
| Condense, `pi-condense/src` | queue of tool output, index of summaries | enqueue, flush, rewrite context | a flush returns into a changed context | no output disappears without a summary |
| Plan mode, `pi-plan-mode` | mode and plan of the session | enter, approve, leave | session switches | tools stay restricted until approval |
| The other packages | little | views, commands, prompts, wrappers of services | I/O | not modelled |

How they meet: a parent session starts a *detached run*; if it revives a
session, the runner first takes the *lease*. The run ends with a result file,
or a *reconciler* in some parent writes one, and the *delivery* of the parent's
session turns it into a message that wakes the model. A *scheduled run* launches
a detached run at its time and draws, like every call of the tool, on the *spawn
budget* of its session. A child without a UI forwards its *permissions* to the
session that started it. Memory, consolidation and
recovery each run under the *lease coordinator*. Commentary only watches its own
session.

## 2. Modules

| Module | Models | Extends |
|---|---|---|
| `SessionLease` | the lease and the runner's use of it, implements `LeaseContract` | |
| `SessionLeaseProofs` | six theorems, one of them the refinement | `SessionLease`, `TLAPS` |
| `RevivalStartup` | the handshake of revivals of one session | |
| `RevivalStartupProofs` | three theorems | `RevivalStartup`, `TLAPS` |
| `AsyncRun` | one run, its reconcilers and appenders | |
| `AsyncRunProofs` | four theorems | `AsyncRun`, `TLAPS` |
| `ResultDelivery` | the results directory and the sessions of one process after another | |
| `ResultDeliveryProofs` | five theorems | `ResultDelivery`, `TLAPS` |
| `LeaseContract` | what a user of the coordinator, or of the session lease, relies on (abstract) | |
| `AtomicLock` | the coordinator, implements `LeaseContract` | |
| `AtomicLockProofs` | four theorems, one of them the refinement | `AtomicLock`, `TLAPS` |
| `Commentary` | the extension and the session around it | |
| `CommentaryProofs` | six theorems | `Commentary`, `TLAPS` |
| `ScheduledRuns` | the job file, the timers, the budget and its grants | |
| `ScheduledRunsProofs` | four theorems | `ScheduledRuns`, `TLAPS` |
| `PermissionForwarding` | children, files and instances of the parent | |
| `PermissionForwardingProofs` | four theorems | `PermissionForwarding`, `TLAPS` |
| `MC...` | constants for TLC | the module it names |

`PROJECT.json` names the lines each definition stands for. A definition whose
comment starts with *Mutant* is a bug that somebody could have written in that place; it
is not used by the specification and serves to see that a property can fail.

### SessionLease

One session file, several runners. The directory is `Absent`, `Empty` (release
has unlinked `owner.json` and not yet removed the directory) or an owner
record. Acquisition is four steps, as in `acquireSessionLease`: `Create` (the
rename of the prepared directory, or `Exists`), `Inspect` (read `owner.json`),
`Probe` (pid and start identity of the owner, then of its writer), `Takeover`
(rename to the tombstone named by the *inspected* token). `BeginWriter`,
`UpdateCheck`, `UpdateWrite`, `Spawn` and `WriterClosed` are the runner's
records around a child; `ReleaseCheck`, `ReleaseUnlink`, `ReleaseRmdir` are
`release`. A runner may `Die` in any state; its child stays.

Each behaviour picks the faults it may show. With `preempt`, other processes
may run between a contender's read of `owner.json` and the rename that relies
on it; without it, that window is undisturbed. With `uncaught`, an
exception may escape a runner while its child lives, which runs the `exit`
handler. `OneWriter` and `WriterCovered` are about behaviours without either.
With `preempt` they fail as `lease_preempt` shows; with `uncaught` the exit
handler frees a lease that covers a live child, and a second revival may write
beside it, although `README.md:1348` of the package promises an exclusive lease
"until the new child finishes". `HolderOwnsDir` and `MovesWhatItRead` are
stronger: they allow preemption as long as no runner has released its lease,
which is the case the tombstones are for.

Run `lease` (three runners, one or two hosts, two rounds of the loop instead of
four: one to fail, one to meet a successor): `OneWriter`, `HolderOwnsDir`,
`MovesWhatItRead`, `ImplementsContract`. Run `lease_preempt` shows a disagreement with
the comment at `session-lease.ts:264`.

`ImplementsContract` is the refinement of `LeaseContract` with one key and no
lapses: `owner <-` the token in the directory, `holds <-` the runners between
the rename that creates the lease and the unlink of `owner.json`, together with
the dead runners whose child is alive. The mapping is what makes it more than
exclusion: a lease is granted only when its last holder *and its child* are
gone, which is what `RevivalStartup` takes for granted. It speaks, like
`OneWriter`, of behaviours without faults. `WriterCovered`, which it needs (the
directory says that there is a writer as long as one lives), is a theorem and
not a property of the run: a behaviour that breaks it breaks the contract.

Assumed: tokens are unique; a start identity, once read, is the process's own
and pids are not reused with the same identity; a rename replaces an empty
directory (POSIX).

### RevivalStartup

Attempts to revive one session; each has a parent that waits synchronously in
`spawnRunner`, a detached runner in `runConfiguredSubagent`, and the three files
of its own run directory. The session lease joins the attempts: here it is what
`SessionLease` guarantees of it, one holder, succeeded when it is dead and its
child has ended. A tick is ten seconds, the patience of the parent; the runner
waits for three. `lag` bounds how late a process takes a step that it can take,
so that a deadline may pass just before or just after the file it waits for.
Faults: `write` (each write or removal may fail), `die` (parents and runners),
`suspend` (no bound on the lag).

Run `revival` (two attempts, `write` and `die`): `RefusedNeverRuns` (a failed start leaves no
agent behind, also if the parent has to kill the runner), `StartedGoesOn`,
`AttemptsSettle`. `StartedGoesOn` is about behaviours without `suspend` and
with `3 * MaxLag <= RunnerPatience`: a parent that is suspended for more than
30 seconds between reading "acknowledged" and writing "proceed" reports the start of a
runner that has given up. `RefusedNeverRuns` needs neither. Not modelled: the token in the
files, since each attempt has its own directory, and files that cannot be read.
A runner killed by a signal runs no exit handler, so its lease stays with a dead
owner; the next attempt takes it over.

### AsyncRun

One run of a sequential chain. `rpc` is where the runner is; `status` and `result`
are the two files; `inbox` and `requests` are the control and append
directories. `StepEnd`, `HaltRun`, `ExceedBudget`, `Deadline` set the flags
from which `Finalize` and `WriteResult` compute the state of the status and of
the result, separately, as the code does (lines 3746 and 3829 of
`subagent-runner.ts`). A reconciler reads the status, looks for the result,
probes the pid and writes a repair, in five steps; an appender validates,
writes its request and writes the status back, in three.

Faults: `race` lets sequences of different processes interleave (without it, a reconciler's or
an appender's sequence runs undisturbed), `abandon` lets a reconciler die
between its steps, `lostFinal` lets the runner die or
fail to write between the final status and the result, `silent` is the 24-hour
rule for a live but silent runner. The properties say which of them they
exclude (`Orderly`).

Run `run` (two reconcilers, two appenders, one fault at a time or `abandon` with
`lostFinal`, a chain of one step that grows to three): `Reported` (told once, told truly, in agreement with the status),
`AcceptedAppendRuns`, `FinalIsFinal`, and under fairness `EventuallyReported`,
which holds as long as one reconciler is left. `Reported` and the two after it
are about behaviours in which such sequences do not interleave; `run_repair` and
`run_append` show where the races of the code contradict its text. Two things
the properties leave out on purpose: a run stopped by an acceptance gate is
`failed` in the status and `complete` in the result, and under `lostFinal` a
run is never reported, because the reconciler skips a final status.

### ResultDelivery

Result files, each owned by a session. A process has one session at a time;
`lease` counts the runtimes (epochs), `handlers` are the calls of `handleResult`
that wait for the intercom, each with the epoch it started in. `Boot` starts a
session, with or without recovery; `Shutdown`, `Crash`, `WatchFails`,
`Restart`, `Poll` follow the watcher; `Fire` is a scheduled file's timer with
every check up to the await, `IntercomDone` the rest; `EmitGroup` is the batch
timer. A group that was held goes out as one message, which starts a turn if any of its
results asks for one (`notify.ts:162`); `turns` records the results of each
message that started a turn.

Run `delivery` (two files, either one of them completed and the other failed or
both completed, two sessions, four runtimes): `RemovedIsSent`, `SentOnce`,
`RecoveredStaysQuiet`, `OnlyForItsSession`, `EventuallyAnnounced`. `SentOnce` excludes a
crash, a failed removal and the gap of the watcher; `EventuallyAnnounced`
refused sends and that gap. `RecoveredStaysQuiet` says that no message about
recovered results alone starts a turn. A recovered result that is grouped with
a fresh one, as two completed ones may be, does go out in a message that starts
a turn, the fresh one's. `delivery_restart` shows that the
restart after a watch error loses the files of its three seconds. Left out: the
TTL of the dedupe maps, a result without an id, the event that the removal
itself causes.

### LeaseContract and AtomicLock

`LeaseContract` has an owner per key, the tasks that act as holders and those
that let their lease lapse: the lock may be granted only when its owner is not
a holder, or has lapsed. `AtomicLock` has processes with process ids (two of
them may have the same id, one after the other), tasks with tokens, a table
row per key, ages instead of time stamps and the sweep's clock. `tryAcquire`
is `Ask` (retry pending releases, read the clock, select rows for the sweep),
`Probe` and `Collect` (the sweep), `Transact` (the transaction, including the
probe of the owner). `Wedge` and `Resume` hang and wake a process,
`Tick` is time. The mapping: `owner <- row`, `holds <-` the tasks past
a granted lease and before its end, `lapsed <-` holders older than `Stale`.

Run `lock` (three processes, two of them under one id in turn, three tasks; two
contend for one key, the other key is asked for by one process only; `Stale` 2, `Grace` and
`Interval` 1): `FreshHolderOwns`, `CollectsOnlyTheDead`, `ImplementsContract`,
and under fairness `LeasesEnd` and `OrphansCollected`. With one task for each
process and key, a pending release never meets a newer lease of its own
process in the run; that case is covered by `FreshHoldersOwnTheirKey` alone.

Assumed: one machine and one pid namespace; one staleness period per lock; a
clock that does not go back; a process is not suspended inside one
`tryAcquire` for longer than `MaxDelay`, which is shorter than the staleness
period. A holder that hangs past the staleness period goes on as a holder: the
contract counts it as lapsed, and its users must check `isCurrentOwner`.
That a particular waiter gets the lock is not promised, and does not hold.

### Commentary

The session is a tree of entries and the branch to its leaf; the extension
sees only the branch. A mark is the length and the last entry of a branch.
Actions are the events (`turn_end`, `agent_settled`, `session_start`,
`session_shutdown`), the command (`CommandOn`, `CommandOff`, `CommandNow`), the
dialog between two awaits (`OpenDialog`, `AnswerDialog`, `CloseDialog`,
`Commit`, `ResetFails`) and the return of a call (`Answer`, `Throw`). Whether
commentary is on has four layers, of which the later wins: `PI_COMMENTARY` in
the environment (`env`), the user's file, the project's file, what the dialog
set for this session. A reset removes both files and the dialog's setting, so
that the environment is in charge again: it may switch commentary off over a
request in flight (`reconcileEnabled`). If the second removal throws, the first
file is gone and nothing is reloaded. `Prompt`, `Extend`,
`Navigate`, `Tick` are the environment. The history variables `spent` and `gap` record which
entries were answered for and when the last attempt was.

Run `commentary` (two entries, one of no interest by itself; two calls under
way; three session boundaries; one dialog; a project file that says off; an
environment that says off, over which the user's file or the dialog may say on;
that a reset switches on what was off, under an environment that says on, is
covered by the theorems):
`Accounted` (no activity is lost, none is counted twice), `OffIsSilent`,
`TipFits`, `AttemptFloor`, `DialogOfThisSession`. Left out: modes without a UI
(every handler returns at once), the text of tips, the model and interval
settings, which change no control.

### ScheduledRuns

The jobs of a session are in one file that every process with that session open
reads and replaces. A process runs one callback at a time, held in `task`: it
reads the file, changes some jobs, writes the file and goes on to arm timers or
to launch. Between these steps it may die (`Crash`), and another process may
take its turn. `Bind` is a session start (miss what is late, arm the rest),
`Fire` the timer with its four outcomes, `Launch` the rest of `fire`:
`deps.launch` reaches the spawn without an await, so it belongs to the callback.
`used` and `granted` are the budget of a process's session, which a launch, a
call of the tool (`Spawn`) and a grant change; `OpenGrant`, `Confirm` and
`Decline` are the grant on both sides of its dialog.

Each behaviour has either one process alive at a time (`alone`) or any number.
Run `schedule` (two processes, two jobs, one dialog, two openings of the session):
`LaunchedOnce` and, under fairness, `EventuallySettled` for the first kind,
`GrantAsConfirmed` and the limits in `TypeOK` for both. `EventuallySettled`
says that a scheduled job reaches a terminal state (`terminalState`,
`scheduled-runs.ts:391`), unless its process died between the claim and the
result, which `lost` records. With one dialog no rival grant occurs in the run:
that a dialog is refused because another was confirmed first is covered by
`GrantsAreConfirmed`, for any number of dialogs. `children` counts what
`hasActiveSubagentChildren` sees (`subagent-executor.ts:322`): a foreground child that was detached for the
intercom (`execution.ts:374`) has left the tracked ones and is not in it,
though it runs. What the first kind
leaves out: with one session open in two processes, both may claim a job, and
the second takes the claim of the first for its own when it reads the file again
(`scheduled-runs.ts:466`), so the job runs twice; an update of the file may be
lost as well. A job whose process dies between the claim and the result stays
`running`: it is never launched again, cannot be cancelled and counts towards
`maxPending`. Left out: failing reads and writes of the file, jobs of several
children, and the passing of time for jobs that are not scheduled. Calls of the
tool are explored with one process alive only.

### PermissionForwarding

Children (`Requester`) ask through request files, and instances of the parent's extension
answer through response files. Both sides create `requests/` and
`responses/` and remove them when they are empty; each call on a file is a step.
A child goes through `Prepare`, `WriteRequest`, `ReadResponse` or `TimeOut`,
`DeleteRequest`, `SweepResponses`. An instance lists the inbox once, and for each
file reads it and decides by its rules (`ReadRequest`), or asks: the
authorizers before the dialog decide (`LinkDecides`) or defer (`OpenDialog`),
the human answers (`Answer`), or one of them rejects, which denies
(`EscalationFails`). Then it applies the scope of the grant, responds and
deletes the file; at the end it cleans up. A removal that fails is warned of and
nothing more (`DeleteFile`, `RemoveIfEmpty`): the file stays. `Restart` ends the
session of the active instance, which loses its rules; what it had in flight
goes on, or stops anywhere if its process died. A dialog that is never answered
and a child that has died are processes that take no further step.

Run `forwarding` (two children that ask about one pattern, three kinds of
answers and an authorizer that approves; two instances with failing writes,
failing reads or rejected asks, or one with all of these and failing removals):
`AnswersTraced` (a child goes ahead only on a grant to it, by the files, or for
the whole session that answered; what is denied was denied, or its ask failed,
or its instance was shut down over it), `NeverStranded` (neither a failed write
nor a cleanup loses a request that is waited for), `OnlyAwaited` (no request is
taken up whose child has returned, unless the child failed to remove it, which
`stuck` records). Other combinations, as a failed removal and a restart, are
covered by the theorems only. What the model shows besides: the
human may be asked on behalf of a child that has returned, when it returned
while the authorizers before the dialog were asked, or when its request could
not be removed; then the request is taken up at every poll until a removal
succeeds. An instance that is shut down while it drains denies its remaining asks without
a word, since it has no authorizer any more; a late answer leaves a response
file that nobody reads, so its directory stays; the cleanup looks at
`requests/` and at `responses/` in two steps, so it may remove `responses/`
under a request written in between, which `PrepareResponses` repairs. Left out:
requests for another session and malformed files (deleted or ignored), the
directory of the session above the two.

## 3. Bounds

Every bound is a constant: `MaxAttempts` (rounds of the acquisition loop),
`InitialSteps`, `MaxReports`, `MaxLease` (runtimes), `Stale`, `Grace`,
`Interval`, `MaxDelay` (ticks), `MaxEntry`, `MaxBoundary`, `ParentPatience`, `RunnerPatience`, `MaxLag`, `MaxPending`,
`Limit`, `MaxStarts`, `MaxAnswers`, `Instances`. They are chosen so
that each interesting meeting happens: three lease runners are a dead owner,
a first and a second contender; two reconcilers may both repair; four
runtimes let a handler outlive its session, the next one and a return to the
first; two calls are one superseded and one current; two attempts let a revival
meet the lease of one that died; two openings let a job meet a restart, and two
processes meet on one file; two requests let a grant for one be on its way
while the other is decided. Ages in `AtomicLock` stop
at a cap beyond which no guard distinguishes them. Symmetry is used for sets of
runners, processes and calls whose members the specification does not tell
apart, in runs without liveness properties.

Deadlock checking is off everywhere: runs end, sessions stay closed, and a
behaviour may stop there.

## 4. Fairness

- `AsyncRun`: the runner, the delivery and the reconcilers go on (children exit
  or are killed; the parent polls). Strong fairness where a step waits until
  another process's sequence is over. Dying is never forced, and neither
  is a request from outside.
- `ResultDelivery`: timers fire and the intercom's await ends (it has a timeout
  of 500 ms), as long as the event loop turns. Nobody is made to open a
  session: `EventuallyAnnounced` supposes that the session stays open.
- `RevivalStartup`: both sides poll, a signal takes effect and time passes.
  Nothing makes a run end, a process die or a parent start.
- `ScheduledRuns`: a callback goes on, time passes; strong fairness of a timer,
  before which any number of other callbacks may run. Nobody opens a session:
  `EventuallySettled` supposes that one stays open at last.
- `AtomicLock`: a call in progress goes on, a task that polls polls again, a
  holder that is running ends; strong fairness of asking and ending,
  since one event loop serves the tasks of a process in turn. Nothing makes a
  process start, resume, renew or give up.

## 5. Proofs

All proofs are for every value of the constants.

- `SessionLeaseProofs`: `TypeCorrect`, `HoldersOwnTheDirectory`,
  `TakeoverMovesWhatItRead`, `LiveWriterIsCovered`, `AtMostOneWriter`,
  `LeaseImplementsContract`. That a
  holder owns the directory is not inductive: a takeover could move a live
  lease if its contender had read an older owner. The invariant adds, as long
  as the window is undisturbed or nobody has released: an owner that a
  contender has read either is still in the directory or has a tombstone, one
  that is about to be moved is gone for good, and only the gone have
  tombstones. `WriterCovered` needs in addition that the record runs ahead of
  the child (`spawning` before there is one). `OneWriter` follows from it: two
  live writers would both have to be named by one directory. The same
  invariants give the refinement: a takeover is the contract's `Clear`, because
  the owner it moves is gone and so is its child; a death is its `Stop` or,
  while the child lives, a stutter.
- `AsyncRunProofs`: `TypeCorrect`, `OutcomeIsReported`, `AcceptedStepsRun`,
  `FinalStatesStay`. The invariant has three layers. Always: what the flags and
  the place of the runner say of its state, and which appender has which
  request. While the sequences of different processes do not interleave: what a
  process has read of the status is what the file still says, and an accepted
  request is in the directory or consumed. While in addition nobody is declared
  dead that is not: a repair finds a dead runner without a result file, so there is
  one report and it agrees with the status. None of the three properties is
  inductive alone, since a report is written steps after the status was read.
- `ResultDeliveryProofs`: `TypeCorrect`, `NoResultIsLost`, `AnnouncedOnce`,
  `RecoveryIsQuiet`, `EachToItsSession`. `RemovedIsSent` needs that a held
  handler has a result of the session that is open, and that what the dedupe
  maps know has been sent. `SentOnce` needs that what was sent is off the disk
  before another handler of this runtime gets to it. `RecoveredStaysQuiet`
  needs to say why a recovered result never comes to a timer that wakes: it has
  a quiet timer, a quiet handler, or nothing left to do; so of the results in a
  message that starts a turn, the one that asked for it is not a recovered one.
- `AtomicLockProofs`: `TypeCorrect`, `FreshHoldersOwnTheirKey`,
  `SweepsCollectOnlyTheDead`, `LockImplementsContract`. The invariant adds that at most
  one live process has a given id, that only processes that were born left
  traces in the table, and that what a sweep has probed is dead. With it, each
  step maps to one step of the contract or to a stutter.
- `CommentaryProofs`: `TypeCorrect`, `ActivityIsAccounted`, `TipsFit`,
  `OffIsQuiet`, `AttemptsKeepTheirDistance`, `DialogsCommitToTheirSession`. Two
  inductive invariants. For the last three: the clock of the code and the
  history agree, and a dialog with the current generation is of this session;
  generations only grow. For the others, `Story`: the tree is one (an entry
  has the same way to it from the root on every branch), so that a mark, which
  is a length and a last entry, means the same wherever the user navigates; then of *every*
  branch of the tree, not only the one the user is on, each entry is offered,
  in flight or answered for, with the current mark and with the one that a
  failed request would restore.
- `RevivalStartupProofs`: `TypeCorrect`, `RefusalsAreFinal`, `StartsGoOn`. For
  refusals the invariant says where each file comes from: `proceed` exists only past the point at which the
  parent can still refuse, and only a runner that has seen it runs. For starts
  it is about clocks: how long the runner has waited for `proceed` is at most
  the lag of the parent that reads the acknowledgement, plus that of the parent
  that writes `proceed`, plus that of the runner that looks; with three lags
  within its patience it cannot time out. This holds without `suspend`, with or
  without the other faults.
- `PermissionForwardingProofs`: `TypeCorrect`, `TracedAnswers`,
  `RequestsAreAnswered`, `AwaitedOnly`. The first invariant
  follows an answer on its way: what is in the session rules comes from a grant
  for the whole session, and a decision is traced before it is written. The
  second follows the files: a request is on disk only while its child waits or
  deletes it, or after the child failed to, and an instance deletes one only
  after the response is there.
- `ScheduledRunsProofs`: `TypeCorrect`, `LaunchesAreSingle`,
  `GrantsAreConfirmed`, `PendingIsBounded`. The invariant speaks of the one
  process that is alive: what its callback has read is what the file holds, a
  job it is about to launch is `running` and has not been launched, one that it
  has launched is so until its result is written. `PendingIsBounded` is proved
  only: with as many jobs as `maxPending` allows, a run could not refute it.

The proofs rest on the assumptions on constants that each module names, which
TLC evaluates in every run: bounds are natural numbers, faults are among those
the module knows, markers such as `None`, `Nil`, `Absent` are no runner,
request, record or file state (`NoneAssumption`, `NullAssumption`,
`NoneIsNoResponse`, `MarkerAssumption`), reconcilers are not appenders and
append calls are finitely many (`ProcessesAssumption`).

Every invariant and every action property of the runs is a theorem. Only
model-checked is liveness, which under fairness and with `ENABLED` is out of the
prover's reach: `EventuallyReported`, `EventuallyAnnounced`, `LeasesEnd`,
`OrphansCollected`, `AttemptsSettle`, `EventuallySettled`. So would be what a
recursive definition computes for every input; no module has one.

## 6. Plan

Done, in this order, the most consequential first: `SessionLease`, `AsyncRun`,
`ResultDelivery`, `LeaseContract` and `AtomicLock`, `Commentary`,
`RevivalStartup`, `PermissionForwarding`, `ScheduledRuns` with the spawn budget.

All safety properties of these modules are theorems. Next, the proofs: abstract specifications of the
delivery (a result goes from written to announced to removed, in its session)
and of a run (one outcome, announced), each with the module shown to implement
it, from the invariants that are there.

Then, the model:

1. `MemoryFile`: `MEMORY.md` with two sessions and a foreign editor, using
   `LeaseContract`. Property: no edit disappears without a conflict report.
2. The job tracker and the supervisor channel.
3. `Condense`: the queue, the flush and the index.
4. Parallel groups and steering in `AsyncRun`.

### Not modelled

Not planned, with reasons: the permission policy's parser and `pi-tool-repair` (text
processing), the TUI, the wrappers of external programs, and the packages that
consist of prompts.
