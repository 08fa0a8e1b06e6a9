# A formal model of the DeepSeek Workbench runtime

The repository holds a Python runtime (`src/src/deepseek_tui`), an Electron
desktop client (`src/packages/workbench`), an upload service and an evaluation
harness. The runtime is a single asyncio process: a server or a terminal UI
drives *threads* of conversation, each thread runs *turns* on an *engine* that
calls a model provider and tools, and beside the threads live a durable task
queue, a scheduler of automations, sub-agents and long-running goals. This
project models the runtime's own concurrent and persistent logic in TLA+,
model-checks it with TLC on small instances, and proves the safety properties
of the core with TLAPS for every value of its constants.

Paths below are relative to `src/src/deepseek_tui`.

## Inventory

| Component | State | Operations | Interacts through | Hard behaviour | Correct when |
|---|---|---|---|---|---|
| Task queue, `tools/task/{manager,store,models}.py` and the executor in `engine/dispatch.py` | records in memory and one JSON file each, the queue and `queue.json`, cancel tokens, completion receipts, worker coroutines, the store's file lock | add, get, resume, cancel, pop, execute, finalize, retry, start, shutdown | lock and notify event; files; the executor's engine turn | crashes, failed writes, cancel against timeout, rotation of cron tasks, eviction | a task runs on one worker at a time, nothing accepted is lost, nothing finished runs again, outcomes are what happened |
| Automation scheduler, `tools/automation.py`, `automation/pipeline.py`, `server/runtime.py` | automation and run records (files), two loops, two locks | create, update, pause, resume, delete, run now, tick, reconcile, discuss, deliver | `add_task` with an idempotency key, `get_task`, delivery sinks, threads | records held across awaits, crashes between intent and link, delivery retries | a slot is dispatched once, user edits win, a result is delivered |
| Sub-agents, `tools/subagent/manager.py`, `store.py` | agents in memory, records and claims on disk, driver tasks | spawn, cancel, resume, input, close, wait, shutdown | lock, claims (file locks), mailbox, completion sink | cancel before the first instruction, close against resume, several processes on one registry | one executor per agent, the cap holds, a waiter wakes |
| Mailbox, `tools/subagent/mailbox.py` | bounded queue, sequence number, resync flag | send, drain, receive, close | snapshot provider | overflow | the consumer learns every terminal state |
| Goals, `goal/service.py` | goal state, budgets, queue of goals, epoch | create, pause, resume, complete, block, turn hooks | thread manager's continuation | user control against automatic turns | no automatic turn after a pause or an exhausted budget; a queued goal is promoted once |
| Approvals, `server/approval.py` | pending futures, metadata, remembered answers | register, resolve, discard, cancel per turn | HTTP, engine futures | answer against cancellation | a request is answered once, nothing leaks |
| Run pause, `engine/pause.py` | two events, a generation, running tools | pause, resume, wait, model request | engine loop, sub-agents | a takeover during a request | nothing is dispatched while paused |
| Leases, `workspace/project_lease.py` | file lock | acquire, release | several processes | cancelled acquisition | at most one holder, no holder lost |
| Threads and turns, `server/threads/manager.py` | thread, turn and item records, active engines | start turn, interrupt, steer, close, recover, continue goal | engines, goals, approvals, mailbox | interrupt against completion, restart in mid-turn | one active turn per thread, every turn is closed |
| Engine orchestrator, `engine/` | the turn loop | one model request or tool call at a time | provider, tools, handle | provider failures, cancellation at an await, exceptions | every turn ends with one event; a stop reaches the turn it was meant for |
| Worktrees and checkpoints, `workspace/` | git worktrees, checkpoints, ledger | create, apply, roll back | git | partial application | rollback restores what the turn changed |
| Browser handoff, `browser/service.py`, `browser/types.py`, `control_browser` and `respond_browser_assistance` in `server/threads/manager.py` | owner, control generation, transfer under way, user hold, agent task, request for help | control, action, claim, help, hand back | `run.lock`, `control_lock`, the pause and `resume_context` of the engine's handle | a person comes between a plan, its approval and its action; two windows answer at once | one actor in the browser, the model is told before it acts on, a paused turn can be resumed |
| Tools, client, mcp, drivers of the browser, cua, config, policy, skills, plugins, integrations, state, protocol, tui, cli, server routes | | | | I/O and parsing | not modelled |

`PROJECT.json` lists every component with its status, and under `hazards` the
places where the code can go wrong in ways a test hardly reaches.

## Plan

In the order in which the modules were written:

1. **`TaskManager`** (done): the durable queue and its executor, the abstract
   `TaskLifecycle` it implements, and the proofs of its safety properties.
2. **`AutomationScheduler`** (done, but for the runs of HTTP triggers): tick,
   run_now, reconcile, delivery, discussion and user edits over the files they
   share, the task queue seen through its statuses. All the safety properties of
   its passing runs are proved, some of them without discussions or pruning.
3. **`SubAgents`** over **`Mailbox`** (done): processes on one registry, claims,
   cancel, close, wait and shutdown, and what the consumer of a bounded mailbox
   learns. All its properties are proved.
4. **`ThreadTurns`** over **`Goals`** (done, for one runtime): turns, their
   monitors, the engine's loop and the goal that makes one turn lead to the next.
   All the safety properties of its passing runs are proved.
5. **`Handoff`** (done): pause, approvals and control of the browser, in one
   module because each is right only through the others. All its properties are
   proved.

Left: the elevation bridge (the futures of `Handoff` without remembered
answers), `FileLease` (an acquisition cancelled while its thread takes the lock),
the ledger of managed worktrees, restarts and several runtimes in `ThreadTurns`.

## Modules

### `TaskManager`

One process that owns a task directory (`TaskStoreLock` keeps a second one
out), which may crash, shut down and start again.

| State | Code |
|---|---|
| `mem`, `queue` | `self._tasks`, `self._queue` |
| `disk`, `index` | `tasks/<id>.json`, `queue.json` |
| `worker`, `token` | the worker coroutines; `self._running_cancel` |
| `receipt`, `orphans` | `completions/<id>.json`; writes left in a thread |
| `endedBefore` | the order of `ended_at`, which eviction sorts by |
| `scan` | the loop of `_pop_next_task`, which holds the lock |
| `faults`, `stops`, `resumes` | what the bounds count |
| `asked`, `recorded` | history, for the properties only |

| Action | Code |
|---|---|
| `AddTask`, `AddKnownTask` | `add_task`, with a new or a known idempotency key |
| `GetTask` | `get_task`, which may load a record and evict others |
| `ResumeTask` | `resume_task` |
| `CancelQueued`, `CancelRunning`, `CancelTerminal` | `cancel_task` |
| `PopBegin`, `PopSkip`, `PopClaim` | the iterations of `_pop_next_task` |
| `ExecuteBegin`, `TurnEnds`, `ReceiptWritten`, `ReceiptAbandoned`, `OrphanLands` | `_execute_cancellable`, `real_task_executor` and `_run_task_engine_turn` |
| `Finalize`, `RetryPersist` | `_run_task_and_finalize`, the storage-error branch of `_worker_loop` |
| `Start`, `Shutdown`, `Closed`, `Crash` | `start` with `_load_state`, `shutdown`, the end of the process |

A step is what a coroutine does between two awaits. Nothing awaits under
`self._lock`, so each request is one step; the pop loop is cut into its
iterations and `scan` keeps the other steps out. Every write of a file may
raise `OSError`, and a write of several records may stop anywhere. A record is
reduced to its status; prompts, timelines, artifacts, transcripts and the tool
metadata of a running task are left out, and a prompt's cron marker is
membership in `Cron`.

### `TaskLifecycle`

The abstract specification: the durable status of each task and the set of
tasks somebody executes. A claim is durable before the execution begins, an
execution happens only under RUNNING, a completed record never changes, cron
tasks execute one at a time. `TaskManager` implements it under the refinement
mapping `record <- disk` and `executing <-` the tasks of the executing workers.

### `AutomationScheduler`

`AutomationManager` with its two loops, the dispatch and delivery of
`automation/pipeline.py` and the discussion of `server/runtime.py`, over the
files they share. Every handler works on copies it read before an await.

| State | Code |
|---|---|
| `automation`, `run` | `<root>/<id>.json`, `<root>/runs/<automation>/<id>.json` |
| `task`, `created` | the task queue by idempotency key; how many tasks a run has had (history) |
| `tick`, `manual`, `rec`, `disc` | where `scheduler_tick`, `run_now`, `reconcile_run_statuses` and `open_automation_discussion` stand, and the copies they hold |
| `sent` | the messages a channel accepted, by run and attempt |
| `clock`, `up` | the wall clock in slots; whether the process runs |
| `edits`, `discussions`, `resumes`, `stops`, `faults` | what the bounds count |

| Action | Code |
|---|---|
| `CreateAutomation`, `PauseAutomation`, `ResumeAutomation`, `SetRunAt`, `SetSchedule`, `Rewrite`, `DeleteAutomation` | `create_automation`, the cases of `update_automation`, `delete_automation` |
| `RunNow`, `RunNowEnqueued` | `run_now`, before and after the enqueue |
| `TickBegin`, `TickPasses`, `TickFiredBefore`, `TickFires`, `TickEnqueued`, `TickFails` | `_scheduler_tick` and `_tick_automation`, before and after the enqueue |
| `RecBegin`, `RecSync`, `RecWritten`, `RecSends`, `RecDelivered`, `RecFails` | `_reconcile_run` with `try_write_run_result` and `try_deliver_completed_run` |
| `DiscussionOpens`, `DiscussionCreated`, `DiscussionWritten` | `open_automation_discussion` |
| `TaskRuns`, `TaskEnds`, `TaskResumes` | the task queue as its clients see it |
| `TimePasses`, `Crash`, `Start` | the environment |

A slot of a job is its `next_run_at`, and a run is named by it as in the code
(`uuid5`). `updated_at` is reduced to a stamp that differs from those of the
copies in flight, which is all `_tick_automation` asks of it. The end of a task
(`ended_at`) is reduced to its attempt. A delivery may be accepted, refused, or
accepted with the answer lost in the timeout of 30 seconds; whether it is best
effort is read anew for each try. A pass of reconcile keeps only the runs that
it would await for, since it does nothing to the others. Which runs are the
oldest when history is pruned is left open.

### `Mailbox`

`Sent` is `Mailbox.send` with its overflow policy, `Learnt` what a consumer knows
after `drain_available`. Operators on `[queue, resync]`, used by `SubAgents`.

### `SubAgents`

`SubAgentManager` in processes that share a registry directory.

| State | Code |
|---|---|
| `mem`, `records`, `owned`, `failed` | `_agents`, `_records`, `_owned_ids`, `storage_error` |
| `driver`, `call`, `waiter` | `SubAgent.task`; the requests that join one; `wait()` |
| `claim`, `disk` | the lock files of `.claims`; the registry directory |
| `box`, `view` | the mailbox, and what its consumer has learnt |
| `phase`, `runs`, `faults`, `stops` | the life of a process (`_closed`); what the bounds count |
| `ends`, `overtaken` | history, for the properties only |

| Action | Code |
|---|---|
| `Spawn`, `Resume` | `spawn`; `resume` and `send_input` to a terminal agent |
| `DriverStarts`, `DriverEnds`, `ReportsProgress` | `_drive_agent` up to the executor, from its return, and the events in between |
| `CancelBegins`, `CloseBegins`, `CallerGoesOn`, `CloseRemoves` | `cancel` and `close`, before and after the join of the driver |
| `Looks` | `get_result`, which loads a record and may evict others (`_trim_cache`) |
| `WaitBegins`, `WaitWakes`, `WaitTimesOut` | `wait` |
| `Drains` | `drain_available` with the manager's snapshot |
| `ShutdownBegins`, `ShutdownJoins`, `ShutdownEnds`, `Start`, `Crash`, `Exit` | `shutdown`; the constructor with `_load_state`; the process |

The lock is never held over an await, so a step is what a coroutine does between
two awaits. A driver that was cancelled before its first instruction never runs
its own `finally`, and whoever joins it finalizes the agent: this is the driver
state `new`. The runs of an agent are numbered across processes and restarts, so that
what a process restores can be told from a run that another one has begun since.

### `Goals`

The goal service as operators on its state, since none of its methods awaits:
`Created`, `Resumed`, `Reopened`, `BudgetSet`, `Completed`, `Consumed`,
`Acknowledged`, `Moved`, `TurnStarted`, `TurnEnded`. A budget of turns is counted,
one of tokens or time is spent or not, the control epoch is the flag `touched`.

### `ThreadTurns`

One thread, the engine that runs its turns and the monitors that close them.

| State | Code |
|---|---|
| `svc`, `meta` | the goal service; what the engine notes of its turn and the flags for the monitor |
| `slot`, `lease`, `record` | `active_turn`, the thread's lease, the turn records |
| `monitor`, `watchdog`, `result`, `start` | where each monitor, its first-response watchdog and each `start_turn` is |
| `ops`, `pending`, `events`, `cancel` | the engine handle: operations, deferred messages, terminal events, `cancel_event` |
| `eng` | the turn task of the engine |
| `left`, `seen` | what is left of the bounds; history |

| Action | Code |
|---|---|
| `Claims`, `Refused`, `Reserves`, `ReservationFails`, `GoalChanged`, `PreparationFails`, `StartFails`, `Dispatches`, `SetupFails` | the steps of `start_turn` and its compensation |
| `EngineTakes`, `EngineIgnoresStop`, `EngineDefers`, `EngineStops` | `Engine.run`: one operation of the handle |
| `PromptBlocked`, `ModelStarts`, `ModelWorks`, `TimeRunsOut`, `GoalSpends`, `ModelUpdatesGoal`, `ModelCreatesGoal`, `ModelEnds`, `TurnFinishes`, `EngineReturns` | a turn of the engine |
| `Thrown`, `ThrownFinishes`, `EngineFails` | an exception that escapes it |
| `MonitorTakes`, `TimesOut`, `IsAnswered` | `_monitor_turn`, `_turn_first_response_watchdog` |
| `MonitorCrashes`, `MonitorCrashesLate`, `MonitorDrains` | the exceptions `_monitor_turn_safe` catches before and after the end of the turn, `_finalize_turn_after_monitor_crash` |
| `MonitorCloses`, `MonitorFrees`, `MonitorReleases`, `Continues` | the end of `_monitor_turn`, `_close_turn_record`, `_release_thread_lease`, `_maybe_continue_goal` |
| `Message`, `GoalCreate`, `GoalNext`, `GoalResume`, `GoalReopen`, `GoalBudget`, `GoalPause`, `GoalCancel`, `QueueChange`, `Interrupt`, `Compact`, `Compacted`, `CompactionFails` | the user's commands |

What may raise, and where, is a set of faults, so that a run allows those its
properties are about: an exception in the engine's turn task (`error`), one in a monitor
or its setup before the end of the turn (`crash`) and after it (`late`), one between the
record and the monitor of a start or anywhere in a compaction (`start`), and a first
response that does not come in time (`timeout`). A start or a compaction that raises
clears the slot and the lease and leaves its record as it is, in progress
(`server/threads/manager.py:3887-3936`, `4390-4396`). A monitor that raises after it has
taken the end of its turn drains the queue for another end; if its record is closed by
then, it gives neither slot nor lease back (`:5601-5605`). The watchdog is a task of its
own, which a monitor that crashed leaves behind. The shutdown of the runtime is left out:
it ends every turn itself, and a restart marks the records still open as interrupted.

### `Handoff`

The browser of a thread between the agent's turns and the people who take it over.

| State | Code |
|---|---|
| `active`, `mon` | `active_turn`; the end of `_close_turn_record` in its monitor |
| `eng` | the step of the engine, its turn, the pause generation of its plan, the control generation its action was issued under |
| `pause`, `resume`, `cancel` | `RunPause`, `resume_context`, `cancel_event` of the handle |
| `run` | `BrowserRun`: owner, generation, transfer, user hold, agent task, help |
| `call` | the request of each person |
| `bridge` | `ApprovalBridge` and the future of the request in it |
| `left`, `seen` | what is left of the bound; history |

| Action | Code |
|---|---|
| `RoundBegins`, `Samples`, `Answers`, `Concludes`, `Continues`, `Completes` | the rounds of `_run_conversation`, with the fence of the model request |
| `Refused`, `Prepares`, `AsksApproval`, `Approved`, `Denied` | a tool call, its fences and its approval |
| `Acts`, `ClaimBegins`, `ClaimEnds`, `Executes`, `Drops`, `Executed` | `BrowserService.action`: the claim, the wait for `run.lock`, the gate |
| `NeedsHelp`, `HelpAsked` | `request_browser_assistance` |
| `Cancelled`, `Idles`, `StartTurn`, `EngineTakes` | the turn's life in the engine |
| `TaskEnds`, `HoldEnds`, `HandsBack`, `HandedBack`, `Releases` | `_close_turn_record` and `_hand_browser_back` |
| `Asks`, `Rejected`, `TakesOver`, `TookOver`, `Returns`, `Looked`, `Resumed` | `control_browser` |
| `NotHelped`, `HelpBegins`, `HelpTaken`, `HelpEnds`, `Observed`, `Answered`, `Lists` | `respond_browser_assistance`, the list of requests |
| `Resolves`, `Interrupts` | the answer to an approval, `interrupt_turn` |

A change of control has steps because it waits for the action under way
(`run.lock`) after the owner has changed, and holds `control_lock` all along.
`ThreadTurns` and `Handoff` look at one turn from two sides; what `Handoff` needs of
the other (a turn ends once, its monitor closes it) is its `mon`.

## Runs

| Run | Instance | Shows |
|---|---|---|
| `restart` | one cron and one plain task, two workers, one terminal record kept in memory, two failed writes, two stops, one resume | types, exclusive and durable executions, the exact queue, coherent records, recorded turns and completed records final, cancellations explained, the refinement |
| `live` | two cron tasks, two workers, a failed write, a stop | cron tasks take turns, every queued task settles |
| `evict` (violation) | three tasks, one worker, a failed write, a resume | an unwritten outcome is evicted and lost |
| `dispatch` | one job, two instants, an edit, a crash, a failed write | types, one task per slot, no slot passed over, pauses and deletions win over a tick or a manual run, a one-shot left active fires |
| `delivery` | a job with a delivery and a conversation, one instant, a discussion, a resume, a crash, a failed write, a cap of two attempts | links kept, nothing sent twice knowingly, every end of a task is delivered or given up on |
| `discussion` (violation) | one job, an edit, a discussion | a pause is undone |
| `intent` (violation) | one job, three instants, a crash | an intent stays queued for ever |
| `agents` | two processes, one agent, one caller, a mailbox of one place, no terminal agent kept in memory, two runs, a failed write, a stop | until a run is overtaken: one executor, one end per run, an end for every cancelled run; no lost wakeup, no end the consumer does not learn, no outcome lost by eviction |
| `goals` | one client, three turns, two goals, two queue items (one restored), three commands, a fault: an exception of the engine, a crash after the end of a turn or a failed start | promotions happen once, automatic turns stop, budgets hold, a resume sticks |
| `settle` | two clients, two turns, three commands, two faults: crashes before the end of a turn, failed starts and compactions, timeouts | a turn with a monitor, or with a start or compaction under way, owns its thread; every turn with a monitor is closed, every lease comes back |
| `stuck` (violation) | one client, two turns, an exception | an exception that escapes the engine leaves its turn open |
| `handoff` | two people, two turns, three requests, interrupts and approvals | one actor in the browser, takeovers told and lasting, paused turns within reach, no approval left over |

**Bounds.** Two tasks and two workers are the least at which executions can
overlap; the cron limit needs two cron tasks. `MaxTerminal = 1` makes eviction
happen with two finished tasks (`_MAX_TERMINAL_IN_MEMORY` is larger in the code and
appears in no other place). Two faults and two stops allow a failure during the
recovery from another one. `MaxResumes` bounds only how often finished tasks come
back. What a larger instance could show of the safety of `TaskManager` is
covered by its proofs.

The automations interact only through the order in which the loops visit them, so
the scheduler's runs have one job, whose slots, manual run, edits and tasks
interleave in every way. Two instants give a slot that fires, a late one and the
next one; with `Grace = 0` one instant late is already too late, and `intent` has
`Grace = 1` so that a slot also fires late. What tasks end with matters to the
deliveries only: `delivery` has all of `Ends`, `dispatch` none. `Keep = 1` prunes at
every occasion (with one manual run at most it never takes the run of the current
slot, as the 100 of the code do not). `EditsWin` and `NoSlotLost` are checked without
discussions, which break the former.

In `agents` the second process is what claims are for, and one agent with two runs
is what its claim, its driver and its mailbox events are about; agents meet
otherwise only in the cap and in eviction, which `MaxTerminal = 0` makes happen at
every occasion. A mailbox of one place overflows at the second event.
`goals` needs a turn that ends late, after the goal has changed: three turns give the
one the user began, a continuation and the one after; `MaxCommands` bounds how often
the user speaks, and a budget of one turn is met by the second. `settle` has the second
client because compactions and starts compete for the lease, and two faults because the
second can come while the first is being made good. A late crash may leave the lease
taken, and an exception of the engine the record open (`stuck`), so these two faults
are in `goals` and not in `settle`; the proof of `TurnOwnsThread` has them all.
In `handoff` two people are the least that compete for control, and three requests
let one take over, one give back and one come in between; the second turn is what
could inherit a hold, a pause or a `resume_context` of the first.

**Fairness.** In `live` (`FairSpec` of `TaskManager`) the event loop runs every ready
coroutine, the wall clock of `real_task_executor` ends every turn, and somebody
starts the program again after a stop. A worker's steps are excluded while another
worker's pop loop holds the lock and while the process is down, so each worker's
steps get strong fairness; `Start` and `Closed` are enabled until taken and get weak
fairness. Requests, crashes, faults and shutdowns get none.

In `dispatch`, `delivery` and `intent` the two loops of `run_scheduler_loop` get weak
fairness, since each repeats every few seconds and swallows exceptions; so do a
discussion that holds the lock, the clock, the restart, and the tasks, which
`QueuedSettles` shows to settle. Crashes, failed writes and edits are bounded in
number and get none.

In `settle` and `stuck` the engine, each start, each compaction and each monitor get
weak fairness: they are asyncio tasks of one loop, none of their steps is disabled by
another for ever, and model requests end by their timeouts. Faults are owed to nobody,
neither is anything by the user.

## Proofs

`TaskManagerProofs` and `TaskQueueProofs` prove, for all tasks, workers and
bounds (assuming only that `Task` is finite, `Cron` a subset of it, `Nobody`
outside the others and the bounds natural numbers), every safety property the
passing runs check and the refinement of `TaskLifecycle`:

| Theorem | States |
|---|---|
| `TypeCorrect` | `TypeOK` |
| `ExecutionsAreDurable`, `RecordsCohere` | `ExecutionIsDurable`, `RecordsAreCoherent` |
| `ExecutionsAreExclusive`, `CronTasksTakeTurns` | `OneExecutionPerTask`, `OneCronExecutes` |
| `CompletedStays`, `RecordedTurnsRunOnce`, `CancellationIsRequested` | the action properties |
| `ImplementsLifecycle` | `FollowsLifecycle`: each step is a `TaskLifecycle` step or a stutter |
| `QueueStaysExact` | `QueueIsExact` |

The argument goes in layers, each an inductive invariant over the former ones:

* *Shape*: the types, with `ExecutionHasTask`, `ScanIsLocal` (a pop loop
  belongs to a worker that is in its loop) and `DownIsEmpty`.
* *Durable*: `ExecutionIsDurable` alone is not inductive. A claim needs to know
  that its task is not executing already, which follows from the claim's guard
  `mem[t] = "queued"` only together with `ExecutionIsDurable` itself; a failed
  write needs `RecordsAreCoherent`; a reload from disk needs `QueuedIsLoaded`,
  or an old QUEUED could come back beside a live execution; and the release of
  a token needs `TokensAreLive`. The four are proved together, one lemma per
  action.
* *On top*: exclusivity follows from the token half of `ExecutionIsDurable`;
  the action properties and the refinement from one lemma per action;
  `RecordedIsKept` (a recorded turn keeps its receipt until the record says
  COMPLETED) and `CancelIsExplained` are each inductive given the former, and
  yield `RecordedTurnIsNotRerun` and `CanceledOnRequest`.
* *Queue*: exactness is preserved by appending an absent id, removing one
  occurrence and rotating the head, by lemmas on sequences.

`SchedulerProofs` proves `SlotsAreDispatchedOnce` (`SlotDispatchedOnce`) for
any jobs and bounds, assuming only that tasks end in a settled status.
`created[i] <= 1` is not inductive, because a dispatch may find `created[i] = 1`:
`OneTaskInv` adds that a run has had a task exactly when the queue has one under
its key. A dispatch either finds that task or makes the first one, a crash may
leave behind only a first one, and no other action touches the pair.

It proves more of the loops, for any jobs and bounds:

| Theorem | States |
|---|---|
| `SchedulerTypes` | `TypeOK` |
| `SentOnceKnowingly` | `NothingSentTwiceKnowingly` |
| `EditsHaveTheLastWord`, `SlotsAreNotLost` | `EditsWin`, `NoSlotLost`, when `MaxDiscussions = 0` |
| `LinksAreKept` | `LinkIsKept`, when `Keep > MaxTime` or `MaxDiscussions = MaxResumes = 0` |
| `PausedJobsStay` | `PausedJobsRest`, when `MaxDiscussions = 0`, and `Keep > MaxTime` or `MaxResumes = 0` |

A run is copied by whoever awaits something for it, and a stale copy may be written
back, so the invariant `LoopInv` says what it needs of every copy (`Sound`): one that is
linked had a task, one that is not delivered has attempts left, one that has not ended
was not delivered. It is stable because `created` only grows. `Undone` adds that, under
the lock that the reconciler and a discussion share (`Lock`), a file that says delivered
has no copy in a pass that says otherwise. A discussion writes an automation back as it
was read, which is what the run `discussion` shows, hence the assumption of
`EditsHaveTheLastWord` and `SlotsAreNotLost`.

The last two theorems need to know what a copy may be written over (`Holds`): a copy is
what the file says, or its job is deleted for good (`Held`; `Lost`: no discussion is about
to bring the job back), or it is one that reconcile will look at and leave alone
(`Inert`). `RunEffect` says who changes the file of a run and from what, and each kind of
copy is shown to stay good under every such change. The hypothesis about pruning is
needed, and TLC shows why with `Keep = 1`, three edits and one instant. With a discussion,
a settled run is pruned while the discussion holds it, an edit arms its slot again, the
slot fires, and the discussion's copy replaces the new run and its link. With a resume
instead, reconcile notices it on the copy of a pruned run and writes that copy: the job may
be paused, or its slot may have an intent again, whose failed enqueue then takes the link
away. `prune_runs` looks at the file, not at who works on it.

`SubAgentProofs` proves `OneExecutor` and `CancelledRunsEnd` for any processes,
agents, callers and bounds, of the agents whose runs were not overtaken: no run of such
an agent was begun before a cancel or close of an earlier one had returned. Of the
others neither holds (see the end of the next section). Both follow from `AgentInv`.
That a caller may release a claim after its join needs `JoinedIsOver`; for a driver that
never began, this needs `NewIsUncancelled` (such a driver belongs to a run nobody has
cancelled); and that a cancel always reaches an executor or leaves a finalizer
(`CancelledEnds`) needs `UncancelledHasDriver` and, for a process that restarts,
`DownIsIdle`.

The same module proves `NoLostWakeup` (`NothingIsSleptThrough`). What a sleeping
wait() waits for is counted by the condition, and whoever makes it come notifies. The
hard case is the removal of a closed agent, which forgets it and wakes nobody: its run
must be over by then, and stay over. `Wakeful` says why. The closer holds the claim from
the first half of the close to the second (`CloseHolds`), has cancelled the run
(`CloseCancels`), and no driver or finalizing cancel releases the claim of an agent that
is being closed. `CallerAssumption` is used once: when writes can fail there is one
caller in a process, so that a close that could not be written has no other beside it.

`SubAgentOutcomeProofs` proves the other properties of `SubAgents` that its run checks:

| Theorem | States |
|---|---|
| `AgentsTyped` | `TypeOK`, the capacity of the mailbox and the numbers of runs included |
| `RunsEndOnce`, `ConsumersLearn` | `EndsOnce`, `ConsumerLearns` |
| `OutcomesAreKept` | `OutcomeIsKept`, as a consequence of `Fated` for each step |

An outcome is in memory, on record, in the mailbox and in the consumer's view, and each
may be behind the others. `OutcomeInv` says what they agree on (`Agrees`, `Heard`), which
outcome is not on record and why that is no loss (`Saved`: a write has failed and the
next one will bring it), and that a run which goes on is the latest and has not ended
(`RunIsLatest`), beside `LoneInv`: it is claimed here, and no other process has one.
Most steps restore, mark, write or evict agents; that these change nothing of it is
proved once (`Stands`), and once for the agents of the other processes (`Apart`). With two failed writes a record can be of an earlier run, and
`_trim_cache` evicts an agent that has any record: `ConsumerLearns` therefore speaks of
agents whose latest run is the one that memory or record tell of. `overtaken` is the
exception in all of them: a resume under a cancel that has not returned.

Of the mailbox the proof needs what `Latest` is after an append and after a drop from the
middle, for a queue of any length. That needs a greatest index, and no induction over
data: among the sets of indices beyond an index one is minimal by inclusion
(`WFMin` of the library), and that one is empty.

`ThreadTurnProofs` proves `TurnOwnsThread` (`OpenTurnOwnsThread`) and `ActiveHasTurns`
(`TurnsAreLeft`) for any clients, bounds, faults, commands, items and budgets. The first
says three things: an open turn that has had a monitor has the slot; so has the turn of
a start or compaction that is under way; and a taken slot comes with the lease of its
turn or of the task that starts it. It does not say that every open record has a
slot: what a failed start or compaction leaves behind has none. It is not inductive,
because a failed start, a compaction and a monitor clear the slot and the lease without
looking at whose they are. `ThreadInv` says of each that it holds the lease at that
moment: a start until it has reserved its turn (`Owner`; one that raised after the
record, or compacts, holds it alone, `AloneHolds`), from then on the monitor of the
turn, whose setup is over only when the start has failed (`BegunHolds`). A monitor
closes the record before it frees the slot (`ClosedThenFreed`) and has the lease until it
lets go of it (`LeavingHolds`); one that crashed after closing finds its record closed
and touches neither. A monitor that starts the next turn does nothing else
(`MonitorStarts`). For `ActiveHasTurns`, `Sound` is kept by every
operator of `Goals` that can leave a goal active: each looks at the turns, counts one, or
makes a new goal.

`ThreadGoalProofs` proves the other safety properties of the run `goals`, with all the
faults and from the same assumptions; one of them is that no queue item occurs twice in `Items`, as each gets a
fresh UUID (`goal/queue.py:17`):

| Theorem | States |
|---|---|
| `TurnsTyped` | `TypeOK`: among others, only operations of a known turn or a stop are queued for the engine, and every event a monitor takes has an outcome |
| `IdleLoopsEnd`, `ItemsBeginOnce` | `NoIdleLoop`, `PromotedOnce` |
| `ResumesStick` | `UserResumeSticks`, from `Sticks` for each step |

`AllInv` is `ThreadInv` with the types of the queues, the starts and the engine
(`Typed`), and `GoalInv`. In `GoalInv`, `Numbered` says that goals are numbered as they
are made, so that a number the engine has noted is that of the goal in place or of an
earlier one, and that a completed goal is the one whose turn completed it. `Sorted` says
that an item is in one place only: still to be added, in the queue or that of the goal,
or begun. `PromotedOnce` follows from it, and it needs that no operation on the queue
makes a copy of an item, which the lemmas on `RemoveAt`, `InsertAt` and `Append` show for
sequences of any length. `IdleRests` explains `NoIdleLoop`: after a continuation without
work the goal is not active, no completed goal waits to be followed by the next item, and
no automatic turn runs or is about to; only a user command can end this. `FreshIsOthers`
explains `UserResumeSticks`: after a resume either the control epoch has changed or the
last turn was of another goal, which is the engine's test (`Superseded`) for not telling
the goal how its turn ended. Every step changes the goal in one of five ways (`EndStep`,
`SameStep`, `ClearedStep`, `CreatedStep`, `RevivedStep`), and that each of them keeps
`GoalInv` is proved once.

`HandoffProofs` proves all six properties of `Handoff`, for any people, turns and
requests, assuming only that the bounds are natural numbers:

| Theorem | States |
|---|---|
| `TypesHold` | `TypeOK` |
| `OneActorHolds`, `ApprovalsAreEnded` | `OneActor`, `ApprovalsEnd`, inductive given the types |
| `PausedIsHeldHolds` | `PausedIsHeld`, from `Resumable` |
| `TakeoversAreToldHolds` | `TakeoversAreTold`, from `Ordered` |
| `TakeoverLastsHolds` | `TakeoverLasts`, from `Kept` |

Its invariant is a conjunction of layers, each preserved given the ones before it.
`Turns` says which turn the engine and the monitor are in. `Exclusive`: one of people,
engine and monitor holds `control_lock`; without it a takeover and a return under way
could each undo what the other relies on. `Ordered` compares the generations a plan
and an action were made under with the pause and the change of owner that came later:
an action queued before a takeover is issued under an older generation, hence dropped.
`Resumable`: a turn paused while it ran has a person in the browser, a transfer under
way or a request of its own for help, and no transfer to the agent is in flight that
would leave it paused. `Kept`: from a takeover to the end of the turn the user's hold or
the agent's task is set, which is what the claim of the next action looks at.

Only model-checked: `LinkIsKept` where a discussion or a resume meets a pruning but no
edit arms a slot again (the run `delivery`), and the violation runs. The liveness
properties `QueuedSettles`, `OneShotFires`, `EveryEndIsDelivered` and `TurnsSettle` need
fairness and ENABLED, which are outside the prover.

## What the violation runs say

* `evict`: `resume_task` says that "evicted terminal tasks only live on disk".
  Eviction does not ask whether the record is on disk. After a failed write of
  an outcome, a `get_task` of an older record evicts the unwritten one; the
  worker's retry then has nothing to write, and the file says RUNNING until a
  restart runs the task again.
* `discussion`: the docstring of `AutomationManager` says that "concurrent state
  corruption is impossible without preemption", and its tests that a changed
  automation is not restored. `open_automation_discussion` awaits the creation of
  a thread, which runs git, between reading and saving the automation; a pause
  or a deletion made meanwhile is undone.
* `intent`: the saved run is a "durable dispatch intent", and the audit of
  2026-09-27 asks that no task is lost on recovery. After a crash between the
  intent and the link, a recurring job restarted later than the grace is
  re-armed without a look at the intent, which stays queued, is skipped by
  reconcile and kept by `prune_runs`.
* `stuck`: `_finalize_turn_after_monitor_crash` counts an `ErrorEvent` as terminal;
  `_monitor_turn` does not, and an exception that escapes the engine's turn task is
  reported by an `ErrorEvent` alone. The turn stays in progress, the thread refuses
  turns, and an interrupt does not help because the idle engine only sets
  `cancel_event`.

Met while modelling, without a run of their own; TLC shows the first three with the
formulas and instances given:

* Two executors of a sub-agent. The audit of 2026-09-27 says that "at any time an agent
  has only one driver, and a resumption must have joined the old one"
  (`05-implemented-fixes.md:23`) and calls the race of cancel and resume fixed (line 9).
  `cancel` joins the task it read before, and then tests only the status and the token
  of the agent (`tools/subagent/manager.py:295-305`). If a resume has come in between,
  and a second cancel reached the new run, the first one reports that run over and
  releases its claim while its executor still cleans up, and another process resumes
  the agent beside it. `Cardinality({p \in Proc : Executing(p, a)}) <= 1` is violated with
  two processes, two callers, one agent and three runs, without faults or stops. These
  are the runs that `overtaken` marks and that `OneExecutor`, `EndsOnce` and
  `CancelledRunsEnd` except.
* A turn that a crash leaves open. `_finalize_turn_after_monitor_crash` is to "drain
  engine events until terminal so UI is not stuck in_progress". `_monitor_turn` may raise
  after it has taken the terminal event, while it closes the checkpoint and the record
  (`server/threads/manager.py:7070-7229`). The recovery then waits for another event,
  which would come only with the next turn, and there is none: slot and lease are taken.
  The liveness formula of `stuck` is violated with `Faults = {"late"}` too.
* A watchdog that stops another turn. `_turn_first_response_watchdog` says "cancel the
  turn if the model emits no content within timeout_s". `_monitor_turn` ends its watchdog
  at the end of the turn only (line 7146); that of a monitor that crashed goes on, sees
  no response, and cancels the handle of the thread while another turn runs. That a
  watchdog fires only while `slot.turn` is its own or none is violated with one client,
  two turns and `Faults = {"crash", "timeout"}`.
* `cancel_task` says that a task whose token is set "will settle to CANCELED"; when
  the executor has already returned a timeout it settles TIMED_OUT
  (`tools/task/manager.py:461`).
* `cron_delete` promises to "wipe its run history"; a reconcile pass that read the
  runs before writes one of them again, directory and all.
* The unwritten outcome of a sub-agent can be evicted, as that of a task.
* `prune_runs` (`tools/automation.py:1291`) removes a settled run while a discussion, or
  reconcile after a resume of its task, still holds it and will write it again. With 100
  runs kept per job that takes an old run; it is lost to the second firing of a slot only
  when an edit names the same instant again.
* The goal's turn counter is not reset after the end of a turn that the goal has
  moved on from; a goal that is kept across a compaction is not continued after it;
  of two `TurnCancelled` events the second is taken by the next monitor; a stop given
  before the dispatch is forgotten by `reset_cancel`.
* A start that raises between the record and the `try` of its dispatch
  (`server/threads/manager.py:3887-3936`), and a compaction that raises (`4390-4396`),
  clear the slot and the lease and leave the record in progress until a restart.
* A takeover between the engine's end of a turn and its monitor's `agent_task = False`
  pauses an idle engine, and the next turn waits for it, although "Only a turn using
  the browser is paused, resumed or cancelled with it"
  (`server/threads/manager.py:4963`). `PausedIsHeld` is about turns that were paused
  while they ran. In the same window `user_hold` outlives its turn, although "A takeover
  lasts for the turn it interrupted" (line 4794), and a `resume_context` that was set
  after an await reaches the next turn.

## Not modelled

Most of the repository is I/O, parsing, prompts and rendering, where a state machine
would say nothing: the model client, MCP, the tools themselves, token accounting, the
HTTP routes, the terminal UI, the desktop client, plugins and skills, imports of other
programs' sessions. `PROJECT.json` gives the reason for each component. Of the
components that are modelled, the following is left out:

* Two processes on one task directory: the file lock of the store admits one.
* The runs that HTTP triggers start, and how cron expressions are parsed.
* What an executor of a sub-agent does, nesting depth, and the inputs of an agent that
  runs.
* Restarts, several runtimes, forks, background deliveries, steering, checkpoints and
  the eviction of engines in the thread manager.
* Stopping, recovering and reattaching a browser, recordings and demonstrations; the
  desktop's control sessions; the elevation bridge; several approvals at once.
* The file lock of a project lease and the thread that takes it. `ThreadTurns` has the
  lease as taken or free.
* Managed worktrees and checkpoints: their steps are git commands, whose outcome
  depends on the contents of repositories.
