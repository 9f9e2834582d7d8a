# WebTerm: TLA+ models and proofs

WebTerm (`src/`) is a self-hosted Django application for operating servers: an
inventory with SSH access, playbooks, LLM-driven agents and an operator chat,
pipelines, Kubernetes operations, and the workers behind them. This project
models the parts of it where a mistake is hardest to undo and hardest to test:

- how a *playbook run*, which changes remote machines, is queued, claimed,
  executed by a worker that may die or be given up for dead, cancelled,
  recovered, settled once, and announced to the chat that waits for it;
- how an *agent run* is launched, claimed, driven, stopped, answered and
  cleaned up, by parties that share one row without locks;
- how a *pipeline* is routed through its graph, and what becomes of the row of
  its run when executor, approvers, stops and cleanup all write it;
- how the *operator chat* keeps one dialog and executes an action once, while
  its tasks are stopped, timed out, duplicated and lost.

## 1. Inventory

### 1.1 Modelled parts

| part | state it keeps | operations | module |
|---|---|---|---|
| playbook preparation (`servers/services/playbook_run_preparation.py`) | `PlaybookRun` (status, snapshot), its dispatch row | validates, then creates run, secrets and row in one transaction | `PlaybookDispatch` |
| playbook queue (`servers/playbook_dispatch.py`) | dispatch row: status, `claimed_by`, `attempt_count`, lease | enqueue, recover expired, claim next, heartbeat, complete, fail, cancel | `PlaybookDispatch`, `ClaimTransaction` |
| playbook worker (`servers/playbook_execution_worker.py`, `run_playbook_execution_plane.py`) | locals of one execution: fence, `lost_lease`, heartbeat thread; poll loop | sweep, recover, claim, execute, finalize; scavenge at start | `PlaybookDispatch` |
| runner, engine, containers (`playbook_runner*.py`, `ansible_*.py`) | run fields; one container per attempt | checks, fenced writes, launch, probe, removal by name | `PlaybookDispatch` |
| terminal transition (`servers/services/playbook_run_state.py`) | run status, notification claim and attempts, `terminal_notified_at` | first terminal status wins; deliver, sweep, release, finalize | `TerminalNotification` |
| parked turns (`core_ui/services/operator_async.py`, `operator_session_resume.py`) | `ChatTurnState` (status, pending call) | confirm, park on a run, find the turns of a run, resume | `TerminalNotification` |
| operator chat (`core_ui/services/operator_loop.py`, `operator_session*.py`, `operator_turn_runtime.py`, `assistant_chat.py`) | turns, actions; a map of tasks in memory | message, confirm, cancel, loop, heartbeat, timeout, stop, reconnect | `OperatorTurn` |
| agent queue and engines (`servers/agent_dispatch.py`, `agent_background.py`, `agent_engine*.py`, `agents.py`, `agent_service.py`, `agent_launch.py`) | `AgentRun` (status, `runtime_control`), its dispatch row | launch, claim, heartbeat, drive, ask, watch, report; stop, answer, clean up | `AgentDispatch` |
| pipeline routing (`studio/pipeline_routing.py`, `pipeline_run_loop.py`, `pipeline_validation.py`) | ready queue, node results, merges | prepare, batch, route, release merges, abort, stop | `PipelineRouting` |
| row of a pipeline run (`studio/pipeline_run_*.py`, `pipeline_interactions.py`, `views/run_views.py`, `consumers.py`, `runtime_limit_provider.py`) | status, `runtime_control`, `node_states` | start, batches, arm and poll approvals, decide, stop, clean up | `PipelineControl` |

How they interact. *Playbooks:* a web request or a confirmed chat action
creates a run and its row. Workers poll the database; one claims the oldest row
under a cluster-wide and a per-user limit, starts a heartbeat thread and runs
the playbook, writing the run only while its *fence* (worker key, attempt
number, live lease) matches the row. A worker whose lease expires is given up:
another worker's poll settles its row or, for retry-safe rows whose container
is confirmed gone, puts it back into the queue. Every path ends in
`transition_playbook_run`; after its commit a hook delivers the notification,
which resumes the chat turns parked on the run, and workers sweep up what hooks
lost. *Agents:* the queue looks alike, but neither heartbeat nor completion is
fenced; operator and engine talk through the JSON mailbox `runtime_control`,
which each reads and writes as a whole. *Pipelines:* one thread of the web
process runs the whole pipeline; approvers, stops and the cleanup write to its
row, and it reads parts of the row at certain points. *Chat:* the web process
keeps one task per chat in a map, HTTP requests run the same code outside the
map; what keeps them apart is a unique index and locks on rows.

Hard behaviours: claimants racing under limits; decisions on rows read before
or outside a lock; leases that run out under live workers; zombies that report
after their successor; crashes between any two transactions; two status
vocabularies ("cancelled" runs, "canceled" rows) kept in step by different
processes; starts of containers that nothing fences; at-least-once delivery
with a claim that can expire under its deliverer; lost wake-ups; whole-column
writes of stale copies; merges that wait for branches which become impossible;
stops that several parties see in different columns; tasks that survive being
cancelled.

What makes the parts correct:

- *playbook queue*: limits hold; a queued row can be claimed; a run that is not
  retry-safe is never attempted twice; every accepted run is settled;
- *worker*: an outcome is final and comes from the holder; a lost lease is not
  a cancellation; row and run agree; an old container is gone before the next;
- *outbox*: every finished run is announced, no delivery is marked done for
  another, a result reaches a turn once, a turn parked in time wakes;
- *agents*: one worker per run, a stopped run is not started, a finished one is
  not begun again, every run ends;
- *routing*: only opened branches run, nothing opened is left out, a merge in
  mode all overtakes nobody, an abort is final, the loop ends;
- *row of a run*: a recorded decision stays, a stop ends the run within one
  batch and without anybody's help, a settled outcome stays;
- *chat*: one open turn, one loop per turn, an action executed once, the model
  told the truth, no turn that blocks the chat.

### 1.2 The rest of the system

Each is a component in `PROJECT.json`, with its status.

| part | what it keeps and does | hard in it | modelled |
|---|---|---|---|
| run secrets (`servers/secret_utils.py`) | encrypted variables and passwords of a run, deleted on commit of its end | crash between commit and deletion | planned: `PlaybookSecrets` |
| worker leases (`app/worker_state.py`) | one row per background worker | read-then-save without a lock | planned: `WorkerLease` |
| Kubernetes operations (`kubernetes_ops/`) | action requests, approvals, streams | approval against execution | planned: `ActionRequest` |
| MARS, plugin marketplace, MCP runner, monitoring, SSH/SFTP, accounts, front end | see `PROJECT.json` | mostly I/O, parsing or presentation | no |

## 2. Modules

| module | what it is |
|---|---|
| `PlaybookDispatch` | playbook queue, workers, runner, containers and terminal transition, composed |
| `PlaybookRunPromise` | what the queue promises about each run: the abstract specification |
| `ClaimTransaction` | the inside of the claim transaction, statement by statement |
| `AtomicClaim` | what a claimant may rely on, the claim in one step: the abstract specification |
| `TerminalNotification` | notification outbox and parked turns |
| `AgentDispatch` | agent queue, engines, operators and cleanup over one row |
| `PipelineRouting` | the batch loop over a graph |
| `PipelineControl` | the row of a pipeline run and all its writers |
| `OperatorTurn` | the turns of a chat and the tasks that work on them |
| `*Proofs` | TLAPS proofs about the module of that name |
| `MC*` | small instances for TLC, where a `.cfg` alone cannot say them |

Wrong variants of definitions, used to show that a property can fail, stand
beside the definitions they would replace and are marked "Wrong variant".
Variables of history (`recorded`, `undisturbed`, `overrun`, `early`, `reported`, `revived`,
`runs`, `told`) exist for the properties; no action's guard reads them, except
that `OperatorTurn` takes no further decision on an action whose outcome was
told (the bound named at `Confirm`).

### 2.1 PlaybookDispatch

A database transaction is one action; everything between transactions is a
value of `pc`, so what a worker read earlier is in its own variables when it
uses it later.

| variable | code |
|---|---|
| `status`, `cancel` | `PlaybookRun.status`, `cancel_requested` |
| `queue`, `by`, `attempt` | `PlaybookRunDispatch.status`, `claimed_by`, `attempt_count` |
| `expired` | claimed rows whose `lease_expires_at` has passed |
| `past[w]` | rows whose lease had passed at the instant `w` read as `now` |
| `pc`, `job`, `held`, `lost`, `out`, `escapes` | position and locals of `execute_playbook_dispatch` and the runner |
| `live` | remote executions alive, one per (run, attempt) |

| `pc` | code |
|---|---|
| `idle`, `poll` | `_run_once`; between `now = timezone.now()` and the claim |
| `start` | claimed, before the first read in `execute_playbook_dispatch` |
| `early` | cancelled before the heartbeat thread started |
| `prep`, `ready`, `launch`, `exec` | runner: preconditions, last check, start, running |
| `save`, `post` | outcome chosen; `_save_run` done, runner returned |
| `read`, `patch`, `fin` | finalization: run read again, fallback status, row closed |
| `except` | the `except` branch |
| `down` | the process is dead |

Decisions of abstraction:

- *Time.* A lease has no clock: `AbandonedLeaseEnds` ends the lease of a claim
  nobody executes, `Stall` that of a live worker. `past[w]` keeps the earlier
  `now` of a poll apart from the present. All hosts share one time, so clock
  skew is not modelled; the limits are the same for every worker.
- *Work.* The hosts and tasks of a run are one stream of commands. An
  execution may end with any status; what it does remotely is `live`.
  `OrphanEnds` lets an execution nobody watches end by itself.
- *Containers.* `CleanupJob` removes the container of the row's attempt, finds
  it gone, or cannot tell. The scavenger of a restarting worker removes only
  containers no worker watches, since the default TTL (7200 s) exceeds the
  execution timeout (1800 s).
- *Poll.* The recovery that `_run_once` makes just before the one in
  `claim_next_playbook_dispatch` is the same with an earlier `now`, and is not
  a step of its own.
- *Hooks.* Secrets and notifications, which run after the commit, belong to
  other modules.
- `Recover` is nondeterministic in the order of the rows; the code takes them
  by lease.

`PlaybookRunPromise`: a run is accepted, may be begun (again only if
retry-safe), may be asked to stop, and is resolved once: no begin after the
request or the outcome, success only after a begin, "cancelled" only on
request, and always resolved in the end. `PlaybookDispatch` maps `outcome` to
the run's status with pending and running as "open", `asked` to
`cancel_requested` and `starts` to `attempt_count`. `KeepsPromise` checks all
of it; `QueueKeepsPromise` proves its safety part.

### 2.2 ClaimTransaction

`PlaybookDispatch` lets the claim read and write in one step. The code does it
in four statements under READ COMMITTED, and relies on every claimant locking
the oldest active row first. This module models the statements, row locks
(`holder`), what a running `SELECT ... FOR UPDATE` has still to try (`seen`),
and rows that are inserted before they are committed. Its finding: the lock
serializes only while inserts commit in the order of their ids, which a
sequence does not guarantee. `CommitsInOrder` states this assumption; with it
the proofs show that count and claim are one step, without it TLC shows two
claims under a limit of one. The theorem about limits in `PlaybookDispatch`
(`CapsAlwaysHold`) is therefore one about the queue with that assumption.

`AtomicClaim` is the claim in one step: under the limit, and rows never claimed
before in the order of their ids. `tried` holds the rows with `attempt_count`
above zero; a row that is inserted and not committed maps to one that is not
there. `ClaimsAtomically` is the refinement. The promise is about the order of
first claims only, since a row that recovery requeues may be overtaken by a
claimant that looked for its candidate just before; that is the other order of
two steps, which `PlaybookDispatch`, whose claim is one step, has as well. The
candidates are those of users below their own limit: the filters by user and by
the run's status are left out here and modelled in `PlaybookDispatch`.

### 2.3 TerminalNotification

A database statement is one action, since the outbox uses no transactions.
`claimed` and `attempts` are the claim, `aged` the claims older than the lease
of 300 s; the claim's timestamp adds nothing, because every claim raises the
attempt number. `hook` holds the deliveries still to come after a commit.
A deliverer (the web process or a worker) reads the attempt number, claims,
lists the waiting turns, resumes them one by one, each with a whole chat loop,
and finalizes or releases. `Newest` is the window of `_find_turns_for_run`.
`Confirm` stands for claiming the turn and executing its action, which starts
the run; `Park` comes later, as in the code. Only turns that wait for playbook
runs are modelled, each for one run.

### 2.4 AgentDispatch

A database statement is one action; nobody holds a lock across statements.

| variable | code |
|---|---|
| `status`, `ended` | `AgentRun.status`, whether `completed_at` is set |
| `control` | `AgentRun.runtime_control`: stop flag, numbers of the last answer put in (`nonce`) and taken (`ack`) |
| `dispatch` | `AgentRunDispatch`: queued, claimed, claimed with its lease over (`lapsed`), `over` |
| `mini` | the runs of mini agents, which run a list of commands and no engine |
| `pc`, `job`, `told`, `result`, `note` | a worker: position, run, whether its engine was told to stop, the report it is about to save, the answer its watch is about to acknowledge |
| `ask`, `copy` | an operator's request and the mailbox it has read |
| `clean` | where the cleanup of a run is |

| `pc` | code |
|---|---|
| `load`, `check`, `start` | claimed; the two looks at the row; before it is set to running |
| `loop`, `asking`, `asked` | the engine's loop; a question is open; it was answered, interrupted or timed out |
| `mini` | the commands of a mini agent |
| `report`, `saved`, `complete` | before and after the save of the report; before `complete_agent_dispatch` |
| `raised` | an unhandled exception: dispatch failed, run not yet |

Abstractions: what the model answers, tools, memory and plans are left out; a
loop may end at any step. Every run is of an agent of its own. Who holds the
claim does not matter, since no statement asks for it. Pause and resume, and
the second dispatch of a reviewed plan, which no code requests, are left out.

### 2.5 PipelineRouting

The whole graph is a variable, chosen at the start from `Graphs`;
`ValidGraph` is what `validate_pipeline_definition` and the start of a run
demand of its shape. `ports` holds the result of each node, `ready`, `batch`
and `completed` the loop's sets, `arrived` and `released` the merges,
`stopAsked` and `stopSeen` the request in the row and what the executor knows
of it. `Route` is `route_from_node` for all nodes of a batch at once: an
arrival is judged by results that were all stored before, so the order of the
nodes inside a batch decides nothing but which of them releases a merge. A
node's work is one of `ResultRoutingPorts` for its type.

### 2.6 PipelineControl

The same run seen from its row. A batch is any set of nodes that have not run
(which ones is the subject of `PipelineRouting`).

| variable | code |
|---|---|
| `status`, `control`, `states` | the row: status, stop flag in `runtime_control`, `node_states` up to token and decision |
| `pc`, `mine`, `seen`, `batch`, `ran` | the executor: position, the run object it loaded, `_stop_requested`, batch, nodes that have run |
| `gate`, `out`, `pressed` | an approval node: position, the column it is about to write, the Telegram button |
| `want`, `copy` | an approver's request and the column it has read |
| `stop`, `saw` | a stop request and the status it has read |

`Arm` and `WriteArmed` are two steps, since a thread of the pool writes what
the executor's object holds when the thread comes to it: `states'` is either
the column at the time of `Arm` or the one of now. Statements that one writer
issues in a row on one column are one action (the module's header says so).
The assistant's approval needs no token and may come before a gate is armed.
`Decisions` are the values a decision may have; no property tells them apart.
`recorded` are the gates whose node waits while a decision was reported as
recorded, and `undisturbed` those of them for which nobody, when the decision
was written, stood by with an older column: a gate that arms itself or records
a button, or an approver of another gate.

### 2.7 OperatorTurn

A function handed to a database thread is one action.

| variable | code |
|---|---|
| `status`, `iteration`, `stale` | `ChatTurnState`: status, iteration, `updated_at` older than 90 s |
| `action`, `runs`, `told` | the action a turn proposes: status, starts of its handler, what the model was told |
| `loose` | handler threads whose task was cancelled |
| `entry` | the process' map of tasks, for this chat |
| `pc`, `kind`, `turn` | a task: position, what it was started for, its turn |
| `stopping` | between the cancellation of the task and the closing of the turns |

`Tasks` are the tasks of the web process (`Sockets`) and HTTP requests
(`Requests`), which run the same code unknown to the map. `Refused` is the
index `cu_turn_one_active_per_session`. `done`, `failed` and `limit` are all
`closed`. Left out: steps of an approved plan that run without a confirmation,
rate limits, titles, artifacts, and actions that start runs, whose turns are
parked (`TerminalNotification`).

## 3. Runs

| run | instance | shows |
|---|---|---|
| `recovery` | 2 runs of one user (1 retry-safe, in a container), 2 workers, limits 2 and 1, 1 stall, 2 faults | `TypeOK`, `QueuedIsClaimable`, `RowsAgree`, `CancelledOnRequest`, `NoReplay`, `ConcurrencyCaps`, `OneContainerUnlessStalled`, `OutcomeIsFinal`, `OutcomeFromHolder` |
| `finishes` | 1 retry-safe run, 2 workers, 1 stall, 2 faults, fair | `EveryRunFinishes`, `KeepsPromise` (the refinement, with its liveness) |
| `claim_lock` | 4 rows, 3 claimants, limit 2, commits in order | `TypeOK`, `OneDecides`, `ClaimsAtomically` (the refinement; it includes the limit) |
| `notify_liveness` | 2 runs, a parked turn, web process and worker, window of 2, 1 slow claim, 1 fault, fair | `TypeOK`, `NotMarkedUnderDelivery`, `ResumedOnceUnlessSlow`, `EveryRunNotified`, `ParkedInTimeWakes` |
| `agent_queue` | 1 run, 2 workers, 1 operator, 1 crash, 1 stall, 2 answers, fair | `TypeOK`, `OneWorkerUnlessStalled`, `StoppedNotStarted`, `NotRunAgain`, `EveryRunEnds` |
| `pipeline_routing` | all valid graphs of a trigger and three nodes of a few types, four larger ones, every result, a stop anywhere, fair | `TypeOK`, `OnlyOpenedBranches`, `NothingElseSkipped`, `AbortIsFinal`, `AllMergeWaits`, `EveryRunEnds` |
| `pipeline_control` | 2 gates in batches of their own, 1 other node, 2 requests that decide (1 of the assistant), 1 stop, fair | `TypeOK`, `UndisturbedStays`, `OneBatchAfterStop`, `OutcomeSettled`, `StopEndsRun` |
| `operator_chat` | 2 turns, one proposes an action; 1 websocket task, 1 HTTP request; 2 iterations, 1 crash, fair | `TypeOK`, `OneDialog`, `ExecutedOnce`, `ToldWhatHappened`, `TurnsSettle` |

Violations, each a statement of the repository that the code does not keep:

| run | statement | what happens |
|---|---|---|
| `launch_race` | `OneContainer`: the old attempt is removed exactly (`docker/ansible-runner/README.md:18`, `docs/releases/OPERATIONS_RUNBOOK.md:26`) | a worker stalls between its last check and `Popen`; recovery finds no container, requeues; both attempts start one |
| `claim_late_commit` | `CapHolds`: the lock "prevents two workers exceeding the cap" (`playbook_dispatch.py:274`) | a row with a lower id commits late; two claimants lock different oldest rows |
| `stranded_merge` | `NoStrandedMerge`: mode all waits only for the branches that are possible (`docs/PIPELINE_NODES_SPEC.md:939`) | a branch becomes impossible after the other one arrived; nothing judges the merge again, and the run completes without it |
| `approval_lost` | `RecordedStays`: "Your decision ... has been recorded" (`views/run_views.py:209`) | two gates in one batch: arming the second one writes the executor's copy over the first one's decision |

Properties that excuse something say so in their name or comment, and the
excuse is what the code really lets happen:

- `OneContainerUnlessStalled`, `OneWorkerUnlessStalled`, `NotRunAgain`: a lease
  that ends under a live worker. Agent workers are not fenced at all, so
  nothing better holds there; for playbooks `launch_race` shows the one hole.
- `ResumedOnceUnlessSlow`: a delivery that outlasts its lease of 300 s is
  repeated and feeds the result twice.
- `ParkedInTimeWakes`: a turn parked after its run was announced sleeps for
  ever, and so does one beyond the window of 20 parked turns; the run keeps to
  one turn and a window of two.
- `NotRunAgain`, `EveryRunEnds` (agents): an answer that comes too late sets a
  finished run to running (`agent_service.py:342`); such a run, whose
  `completed_at` is set, is not seen by the cleanup.
- `StoppedNotStarted`: a stop written between an engine's last look and the
  reset of the mailbox is erased with it.
- `UndisturbedStays`: a decision that was recorded while somebody stood by with
  an older column may be overwritten; `RecordedStays`, which makes no such
  excuse, fails in this run's instance too (an approver of another gate).
- `OutcomeSettled`: a stop under way, the cleanup and the executor's end may
  overwrite each other; only then is an outcome final.
- `ToldWhatHappened`: a cancellation that comes while the action runs tells the
  model "cancelled" whatever the action comes to.

Bounds. `MaxStalls` bounds leases that run out under a live worker or
deliverer, `MaxFaults` and `MaxCrashes` crashes, exceptions, shutdowns and
failed probes, `MaxReplies` answers to questions. They make the state space
finite (a retry-safe run may be attempted without end); a property reads
`stalls` only where it excuses stalls. Two workers suffice for every race of
the queues, which is between a holder and one other; a retry-safe and an
ordinary run let a stalled claim, its successor and a competing claim coexist.
Three claimants and four rows let a claimant wait, pass over a closed row and
find another one. Two runs keep the notifications of one worker's sweep apart.
In `agent_queue` stalls and answers do not go together (`Stall` and
`BeginRequest` say so): their combination adds only behaviours that the
properties excuse. Three nodes behind a trigger are enough for a branch, a
merge and a node behind it; the larger graphs have branches of different
lengths, an approval and an input. Two gates and two approvers are needed for one
to disturb the other, and one value of a decision suffices, since no property
tells them apart; gates that share a batch are the subject of `approval_lost`. In `operator_chat` one websocket task and one request are two tasks on
one chat: the request, which the map does not know, is the case in which the
map keeps nobody apart. `MaxIterations` 2 lets a turn go on, propose and be
resumed. The proofs lift the safety properties of all passing runs to all sizes
and bounds.

Symmetry in `Workers` is used only in runs without liveness. Deadlock is
checked for the playbook queue, the claim, the routing (whose ended run
stutters) and the chat, where somebody can always act. Notifications, agent
runs and the row of one pipeline run really end; their runs do not check it.

## 4. Fairness

`PlaybookDispatch`: weak fairness of each worker's next step and of its
restart (the loop sleeps and goes on; Compose runs it with
`restart: unless-stopped`), weak fairness of the passing of time for leases
nobody renews, and strong fairness of the end of an execution (commands have
timeouts, `ANSIBLE_TIMEOUT_SEC`; strong, because a shell run alternates
between checks and commands, finitely many). Nothing is assumed of users,
heartbeats, stalls or faults. `PlaybookRunPromise` assumes that an accepted run
is resolved, which is what `KeepsPromise` shows of the queue.

`TerminalNotification`: weak fairness of a delivery once begun, of each
worker's sweep, of time, of parking a confirmed turn and of the end of a
started run. No fairness of the hook, which may be lost.

`AgentDispatch`: weak fairness of claiming and of a worker's own steps, strong
fairness of leaving the loop (a session is limited in steps and time, and
comes back to the loop after each question), weak fairness of time for leases
nobody renews, and of the cleanup, whose threshold is hours and which is
therefore relied on only for runs that no worker executes or may claim.

`PipelineRouting`: weak fairness of the executor. `PipelineControl`: weak
fairness of the executor, of each gate's poll, and of a stop that has begun to
write; approvers, buttons and deadlines are not relied on, so `StopEndsRun`
holds although nobody ever decides.

`OperatorTurn`: weak fairness of every task's work (model and tools have
timeouts), of time for a turn nobody works on, and of the page reconnecting
now and then, which is the only thing that gives up a resuming turn whose task
died. Heartbeats, timeouts and stops are not relied on.

## 5. Proofs

The theorems hold for every set of runs, rows, workers, users, turns, tasks,
graphs and deliverers, every limit and every bound, under the named ASSUMEs of
the modules only (finite sets of numbered runs, positive limits, null values
outside their sets, valid graphs). Two have further assumptions, which their
statements say: those of `ClaimTransactionProofs` assume `CommitsInOrder`, and
`RecordedStaysCorrect` a finite set of gates, one gate in a batch and a single
approver.

*PlaybookDispatch.* The invariant is `SafetyInv`. Beside the checked properties
it has `RowShape` (what an open row says of its run), `LeaseShape` (only
claimed rows have leases, and what a poll saw expired still is) and
`WorkerShape`. The last is the interesting one: `complete_` and
`fail_playbook_dispatch` check neither the lease nor that the row is claimed,
so `RowsAgree` is not inductive. It holds because a worker comes to them only
over a run it read as finished, and nothing reopens a finished run; and because
nobody finishes the run of a row this worker has claimed before it decides to
cancel it. `SafetyStep` has one step per action. `ConcurrencyCaps` follows from
`CountIsExact`: after the recovery has visited what it saw expired, the claims
with a lease beyond `now` are all the claims there are, so the count under the
lock is exact although `now` was read before. `QueueKeepsPromise` maps every
step to a step of the promise or to a stutter; `OutcomesAreFinal` is a
corollary. `OutcomesComeFromHolders` is read off `SaveOutcome`, the only action
that reports success.

`ContainersNeverOverlap` has an invariant of its own, `ContainerInv`. Without
stalls a worker that executes a row holds its claim, and the lease of that claim
has not ended (`ClaimsAreHeld`): what recovery finds expired is abandoned, so
nobody will start another container of it. A container that is alive belongs to
the attempt its row counts, and a queued row has none left
(`ContainersAreCurrent`), because a row in a container is requeued only when
the removal was confirmed. A new claim therefore raises the attempt over an
empty set.

*ClaimTransaction.* `LockInv`: a claimant's search is complete (no older active
row is missing from what it saw, since none can still appear), hence the row it
locks is the oldest active one (`GuardIsOldest`), hence whoever else decides
holds that same row, so nobody does (`LockingIsExclusive`). Then the count is
still true when the claim is written (`RoomLeft`). `ClaimIsAtomic` adds
`OrderInv`: the candidates still to be tried miss no older row that was never
claimed, so the one chosen has none before it. Every step then is a step of
`AtomicClaim` or a stutter: the commit is the claim, and reading, locking,
waiting and rolling back are invisible.

*TerminalNotification.* `OutboxInv`: nobody carries an attempt number ahead of
the row, and no two deliverers carry the same one of the same run
(`ClaimsDistinct`). A claim takes a number nobody carries, so a delivery with
the newest number that finalizes is the only one. `ResultIsHeardOnce` needs
`ResumeInv`: without slow deliveries a delivery under way holds the claim of its
run, so there is one per run; the turns it carries wait for that run and are in
no other list; and a turn that has been resumed never waits again.

*AgentDispatch.* `LeaseInv`: without stalls, a dispatch somebody executes is
claimed or over, so it cannot be claimed by another. `EarlyInv`: a run that was
stopped while nobody was past the last look stays stopped or failed, the stop
stays in its mailbox, and whoever holds its dispatch has still to look; the
point is that no stale mailbox (an operator's copy, an acknowledgement) is left
that could erase it. `OutcomeInv`: a run whose report was saved keeps a
terminal status, which makes it unclaimable, until a late answer revives it.

*PipelineRouting.* `RoutingInv` says that the sets of the loop are disjoint,
that what is ready hangs on a fired edge, and that a fired edge has been served
(its target has run, is ready, or is a merge it has arrived at). Merges need
monotony: results only narrow the ports a node may still open
(`ResultsNarrow`), hence the reachable nodes only become fewer
(`ReachMonotone`), hence once all possible sources of a merge have arrived, no
other one ever does. That graphs are acyclic is not used.

*PipelineControl.* `OutcomeSettled` needs only that a stop about to mark the
run saw it active (`MarksSawActive`). `OneBatchAfterStop` needs to know where
the executor is while the answer is in the row and not yet in it (`StopInv`).
`UndisturbedStays` needs `DecisionInv`. Its part `Kept` says that whoever may
write the column while a node waits with an undisturbed decision holds that
decision: an approver at work has read it or decides the same gate, no gate of
the batch has still to arm itself, and one that records a button has it in its
column. `Tokens` says that a token is nowhere before its gate has armed itself,
which keeps a decision given before from passing for one that is waited for.
With one gate in a batch and a single approver nobody can stand by, so every
decision is undisturbed: that is `RecordedStaysCorrect`.

*OperatorTurn.* `LoopInv` is the reason why the locks on a turn's row and one
unique index suffice without the map of tasks: a task enters the loop of a turn
it has just created or just found parked, and a turn is parked only by the task
that leaves its loop. So no turn is in two loops, and only one task counts its
iterations, on which `TypeOK` rests. `DeedInv` follows an action from its claim
(counted once), through its handler (which may outlive its task) to what the
model is told.

Only model-checked: everything under fairness (`EveryRunFinishes`, the fair
part of `KeepsPromise`, `EveryRunNotified`, `ParkedInTimeWakes`, `EveryRunEnds`
of agents and of routing, `StopEndsRun`, `TurnsSettle`), since fairness and
ENABLED are beyond the prover.

## 6. Not modelled, and why

Remote effects of commands, parsing of playbooks, inventories and outputs,
answers of language models, the wording of errors and audit entries: no
property is about them. Most of the repository is of this kind (views, forms,
serializers, transports, the React front end, the migrations), or synchronous
handling of single requests, which a test reaches as well as a model: the
modules cover the coordination, a small share of the lines.

Of the modelled components: adding a master password to an existing row; the
input node of Telegram replies (it writes no decision), triggers and the
handlers of the other pipeline nodes; pause and resume, plan review and mini
agents on several servers; plans of several steps and rate limits of the chat;
turns parked on agent runs.

Hazards that lie outside the models, beyond those listed in `PROJECT.json`:

| where | hazard |
|---|---|
| `servers/playbook_dispatch.py:192` | a retry-safe row is requeued after every expired lease without a limit: a run that kills its worker is repeated for ever (faults are bounded in the model) |
| `servers/playbook_dispatch.py:140` | leases compare the clocks of different hosts (the model has one time) |
| `servers/playbook_dispatch.py:163` | recovery talks to the Docker daemon under the row lock that claimants wait for |
| `run_playbook_execution_plane.py:48` | each worker takes the limits from its own command line (the model has one pair) |
| `ansible_docker_runtime.py:235` | a scavenger TTL below the execution timeout removes live containers (the default is above it) |
| `ansible_docker_runtime.py:205` | an attempt without a container is reported as gone although its command may still run |
| `app/worker_state.py:91` | worker rows are read, then saved, without a lock or a check of the owner |
| `studio/runtime_limit_provider.py:13` | a run whose process died stays running until another run is started |
| `studio/views/pipeline_views.py:152`, `servers/agent_launch.py:33` | limits checked before the run is created, without a lock |
| `servers/agent_engine_runner_loop.py:203` | a paused run holds its worker until somebody resumes or stops it |
| `servers/agent_engine.py:287` | acknowledging an answer may erase a stop; the run then ends by its own limits |

## 7. Plan

Done: playbook queue, claim, outbox, agent queue, pipelines (routing and row),
operator chat, the proofs of their safety properties and of two refinements.
Left, in this order:

1. `PlaybookSecrets`: variables and master password of a run against the hook
   that deletes them, crashes, and a second enqueue ("deleted after every
   terminal execution path", runbook :22).
2. `OperatorTurn` and `TerminalNotification` composed: a turn that parks on a
   run instead of finishing, agent runs without an outbox included.
3. `WorkerLease`: who may run under a worker key, and the refusal at start-up
   of a second process. `ActionRequest`: approval and execution of Kubernetes
   actions.
