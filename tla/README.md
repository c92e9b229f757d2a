# AnsibleForms in TLA+

AnsibleForms puts web forms in front of Ansible and of job services (AWX, Semaphore, Rundeck,
Jenkins, the project's own remote engine RTE). From version 7 on it runs as several processes on one
database: any number of app nodes that serve the API, one worker at a time that holds a database lock
and does the background work, RTEs that run playbooks. There is no broker: the processes meet in
tables, in conditional `UPDATE`s, in heartbeats and in one `GET_LOCK`. That is where the hard
behaviour is, and what these modules are about.

Paths below are relative to `src/server/src/` unless they start otherwise.

## 1. Inventory

| Component | Code | State | Operations | Talks to |
|---|---|---|---|---|
| Jobs table | `models/job.model.js` | rows of `jobs`: status, tracker, host, awx_id, abort_requested, end | create, hold, approve, reject, end, abort, sweeps, claim, delete | every component that runs jobs |
| Job lifecycle on AWX | `runners/awx/api.js`, `runners/orchestrator.js`, `runners/common.js` | a polling loop in the memory of one node | launch, gate, poll, pass an abort on, end, stop when taken over | jobs table, AWX |
| Following jobs again | `lib/jobResume.js` | two booleans and a promise chain per process | take over abandoned jobs at a start and after a sweep | jobs table, lifecycle |
| Heartbeats | `lib/nodes.js` | rows of `nodes` | write, forget old ones | the sweeps |
| Worker lock | `lib/workerLock.js`, `init/worker.js` | a database session, `held`, `acquired`, `suspect` | take, confirm, lose, watch a holder and kill its session, stop | heartbeats, cron service, start |
| Cron service | `services/cron.service.js` | a registry of timers | tick: confirm the lock, then work | queue, sweeps, repositories, backup |
| Schedule queue | `models/schedule.model.js`, `init/index.js`, `controllers/v2/schedule.controller.js` | rows of `schedule`: state, queue_id, claim, enabled | queue, Run now, dequeue, launch, end, release | cron service, job launch |
| Multistep jobs | `models/job.model.js` 2445-2815 | a parent row, its child rows, a loop | hold, claim a step, launch it, follow it, pass an abort on, end, approve, reject | jobs table, sweeps |
| Workflows | `models/workflowRun.js`, `lib/workflowDefs.js` | a row, a loop and the state of each node in memory, a job per node | start, skip, ask for an approval, follow, abort, end | jobs table, sweeps, repositories |
| RTE hub and protocol | `runners/rteHub.js`, `rte/socket/*` | lease of an RTE, sessions, claims, the spool on the RTE's disk | adopt, hand over, store an item, ack, cancel, abandon | jobs table |
| RTE engine | `rte/server.js`, `rte/ansible-core.js` | processes | run a playbook, report | protocol |
| Other runners | `runners/semaphore.js`, `rundeck.js`, `jenkins.js` | a polling loop | as AWX, without take-over | jobs table |
| Designer lock | `models/lock.model.js`, `client/src/pages/designer.vue` | one row; in a designer what it was told last and the forms in its buffers | poll, take, take back, release, force, expire, borrow for a save | repositories, config editor |
| Repositories | `models/repository.model.js` | rows: status, claim_node, claim_since; working trees | claim, pull, sync, save, release | designer lock, cron |
| Change counters, caches | `lib/epochs.js`, `models/crud.model.js` | a counter per model, a cache and the last counter seen per process | write, bump, poll, drop, fill, expire | every model, restore |
| Sessions | `lib/tokenRevocation.js` | revoked ids, cached | revoke, consume once | sign-in |
| Sign-in throttle | `lib/loginThrottle.js` | rows of failures | count, lock, clear | sign-in |
| Backup and restore | `models/backup.model.js` | files | dump, restore, release what ran | all tables |
| Schema, seed, key rotation | `models/schema.model.js`, `lib/seed.js`, `lib/keyRotation.js` | - | once at a start | all tables |
| Forms, expressions, settings, audit, chat, MCP, client | many | files, records | requests | the API |

What is hard in it:

* *interleaving*: two approvers, two nodes that take over one job, the worker and a Run now that read
  one queued row, an RTE, a sweep and an abort that end one job;
* *stale reads*: a node that is alive but whose heartbeat lapsed goes on polling a job somebody else
  claimed; a tick that confirmed the worker lock goes on after it lost it;
* *crashes* between any two statements: between the sweep and the take-over, between the claim of a
  schedule and the end of its launch, between an answer of AWX and the `UPDATE` that stores it;
* *lost answers and retries*: the POST that launches a job on AWX, an abort that reaches AWX too late,
  the claim of a job by an RTE, the acks of what it reported;
* *ordering*: a socket has two ends that learn of its loss at different times, so an old node still
  stores what a new one is being sent again;
* *ordering of requests and loops*: an abort looks for the running steps while the loop creates the next one;
  a release by an admin meets the poll that takes a lost lock back;
* *liveness*: a job of a container that never comes back, the lock of a host that died, a claim nobody ends.

`PROJECT.json` lists the hazards at their lines, with the properties that cover them and what those leave out.

## 2. Modules

| Module | What it is |
|---|---|
| `JobRow` | one row of the jobs table and every statement that changes it, as operators on a row |
| `JobPromise` | the abstract specification of a job: what a user may rely on; refined by `JobLifecycle`, by `Multistep` (its row and its steps) and by `WorkflowRun` (the jobs of its nodes) |
| `JobLifecycle` | processes, heartbeats, worker lock, sweeps, take-overs, polling loops and the remote job service, over rows of `JobRow` |
| `MCJobLifecycle` | the instance for TLC |
| `JobLifecycleProofs` | the theorems of `JobLifecycle` |
| `ScheduleQueue` | the schedule table, cron tasks, the worker's queue, Run now, releases |
| `MCScheduleQueue` | the instance for TLC |
| `ScheduleQueueProofs` | the theorems of `ScheduleQueue` |
| `RteDelivery` | a playbook job between the app and an RTE: sockets, hand-over, spool, acks, cancels, restarts, over a row of `JobRow` |
| `MCRteDelivery` | the instance for TLC |
| `RteDeliveryProofs` | the theorems of `RteDelivery` |
| `Multistep`, `MCMultistep`, `MultistepProofs` | a multistep job: its row, its loop, the jobs of its steps, over rows of `JobRow`; the forms of two steps; its theorems |
| `WorkflowDefs` | the scheduling rules of a workflow as operators on a graph and a state map |
| `WorkflowPromise` | the abstract specification of a workflow, over `WorkflowDefs`; refined by `WorkflowRun` |
| `WorkflowRun`, `MCWorkflowRun` | a workflow job: its row, its loop, the runs of its nodes and their jobs, over `JobRow` and `WorkflowDefs`; four graphs |
| `WorkflowRunProofs` | the theorems of `WorkflowRun`, and the facts about the rules of a graph they rest on |
| `WorkerLock`, `MCWorkerLock`, `WorkerLockProofs` | the lock connection of every process, the watched holder, the cron ticks; its theorems |
| `DesignerLock`, `MCDesignerLock`, `DesignerLockProofs` | the row of the designer lock, the open designers and their requests; its theorems |
| `RepositoryClaim`, `MCRepositoryClaim`, `RepositoryClaimProofs` | the claims of the repositories, what works under them, their release; its theorems, and those of `RecordCache` |
| `CachePromise` | the state a process serves a cached record from, and what it may serve |
| `RecordCache`, `MCRecordCache` | a row, the copies of the processes and the change counter, over the state of `CachePromise` |

How they fit together: `JobLifecycle`, `RteDelivery`, `Multistep` and `WorkflowRun` all write jobs with
the operators of `JobRow`. `JobLifecycle`, `Multistep` and the jobs in `WorkflowRun` implement `JobPromise`, and
`WorkflowRun` implements `WorkflowPromise`: what a module takes of the others' jobs is a step they promise.
What two modules share is
modelled in full in one and by its effect in the other: the worker lock is `WorkerLock`, and a holder with
a fault that takes it away in `JobLifecycle` and `ScheduleQueue`; the life of a job is `JobLifecycle` and
`RteDelivery`, and "ends, is given up, is followed by another node" in `Multistep` and `WorkflowRun`.

A name followed by an underscore and a word (`EndOneTime_StaysOn`) is a mutated form of a definition,
as a plausible mistake in the code would make it. No specification uses one: each is there to show that
a property would notice that mistake.

### 2.1 JobRow and JobPromise

`JobRow` is the `jobs` row with its data abstracted: the status (`queued` and `started` of the types
that never run on a remote service are left out), the follower (`tracker`) and the RTE (`host`) as nodes,
`awx_id` and `end` as "is it set". Each conditional `UPDATE` of `models/job.model.js` is an operator:
`TransitionStatus` (547-575), `EndRow` over `ENDS_FROM` (577-617), the three sweeps (395-488),
`Claimable` and the claim of `lib/jobResume.js`, `Resumable` (its `SELECT`), `GiveUpRow`.
What makes a statement safe in the code, its `WHERE`, is the guard of the operator, and no more. `PhaseOf` is what
a user sees of a status, for the refinements.

`JobPromise` knows of a job only its phase, how often it was launched and how often it was ended:
a job waits for an approval or is under way, may be adrift (`abandoned`), ends once, and stays ended. `Start` is
the creation and the launch of a job in one step, as `Multistep` and `WorkflowRun` have them for the jobs they
make; `JobLifecycle` has the two apart (`Submit`, `Run`).

### 2.2 JobLifecycle

State against code: `row` is the jobs table, `fresh` the nodes whose heartbeat is younger than
`NODE_DEAD_SECONDS`, `lock` the holder of the worker lock, `mem` what `lib/jobResume.js` and
`keepWorkerLock` keep in a process, `task` the take-overs under way, `loop` the polling loops,
`remote` the status of the job on AWX, `old` the jobs that are there for more than a day. `hist` counts
launches and ends for the properties only.

Actions against code: `Start`, `Crash`, `Heartbeat`, `Lapse`, `TakeLock`, `LoseLock`,
`StopLostWorker` are the processes; `StartTakeOver` ... `ClaimAbandoned` are `abandonAndResumeOnce` and
`resumeAbandoned`; `ConfirmSweep`, `SweepDeadNodes`, `SweepQuiet` the sweeps of the cron service;
`Launch`, `Approve`, `Reject`, `Abort`, `Delete` the requests; `Gate` ... `End` one loop, in the order
of `runners/orchestrator.js` and `Awx.trackJob`. Every statement on the database is a step, so that any
other process may come between two statements of one function. The loop keeps what the function keeps
in a local variable (the answer it is about to write), which is how stale reads get in.

A legacy job (`Legacy`) was left running by a version before 7: its row exists at the start, followed by
nobody. The first start gives it up.

Jobs do not constrain each other in this code (no statement on one row reads another), so one job is
enough for the properties, which are all of the form "for every job"; the proofs hold for any number.

### 2.3 ScheduleQueue

`sched` is the schedule table; `queue_id` is kept because the order is a property, times are classes
(`claim` is `"new"`, `"old"`: from before its node last started, or `"late"`: over `LAUNCH_MAX_MINUTES`).
`cron` is where the task of a schedule is between its confirmation of the lock, its read and its
`UPDATE`; `task` where the queue's timer, a request and a release tick of each process are. A launch is
its claim, and its end (`EndRecurring`, `EndOneTime`); what it launches is a job of `JobLifecycle`,
which is why the two modules share heartbeats and lock but not rows. `Next` has no step that creates or
changes a schedule: it would only add initial states.

Schedules do constrain each other (one launch at a time, one order): the runs about order and progress
have two, the one about repeated launches has one that a user runs too.

### 2.4 RteDelivery

A job of a socket-mode runner. State against code: `row` and `lines` are the job's rows in `jobs` and
`job_output` (a line is the run that wrote it and its order, run 0 is the app), `seen` whether the RTE's
row in `nodes` is young. `sess` has one record per socket: what `rteHub.js` keeps in the session's entry
(`hub`: hello read, welcomed, told to close, closed; `failed`: `storeFailed`; `cancelled`: the
`cancelSent` mark that names it; `knew`: whether the hello named the job) and the two queues of messages.
`reg` is `sessions`, `hand` the frame of a `handOver` with `sending`, `claims` and the `said` of
`waiting`; `ending` a `dispatch` between its `SELECT` and `abortWhileWaiting`; `follower` the launching
node's `launch` and `trackSocket`. `cur` is the RTE's socket, `rte` its entry in `jobs` with the spool
(`items`, `acked`, `next`), the early cancel and the number of playbooks that run.

Actions against code: `Launch` (the row names its runner), `Announce` (first line, then `kick`),
`Dispatch`, `HandOver`, `Say`, `OnClaimed`, `OnRefused`, `ClaimTimeout`, `GiveBack`, `FailJob`,
`AbortWhileWaiting`, `DispatchCancel`, `TrackSocket` are the app's side of a hand-over;
`RteDials`, `Welcome`, `Settle`, `SessionCloses`, `RteLosesSocket` a socket's life, `OnItem` and `StoreFails` what
becomes of an item; `OnWelcome`, `OnRun`, `OnCancel`, `OnAck`, `Started`, `Write`, `RunEnds`,
`StartFails`, `RteRestarts` the RTE. Every send of the RTE goes through `RteSends`, as every item goes
through `emit` and `pump` there. When a socket goes, its node keeps any prefix of what was on its way: what
it had read already it still stores (`writing`), while the RTE dials another node.

What is merged: the claim of `handOver` with its run message (the read of the last order included), the
dial with the hello, the flag of an abort with the cancel that follows it, the read of the last order
with the line it numbers, the statements of `storeItem` (one that fails leaves all or nothing written;
the end is what matters and its `UPDATE` is one statement). The end item and `running = false` of the RTE
are one step: only microtasks are between them, no message is read there.

### 2.5 Multistep

State against code: `parent` and `at` are the row of the multistep with its column `step`, `child` the rows
of the steps' jobs, `loop` where `Multistep.launch` is in each process with its local variables
(`approved`, `finalSuccessStatus` as `passed`, `partialstatus` as `partial`), `reads` what approvals under way
read of the row, `aborting` a `Job.abort` between its two statements, `follower` the process whose loop follows
a step's job and `resumed` those that took it over and have yet to end its parent, `up` and `fresh` the
processes and the heartbeats. `hist` counts the launches of each step and remembers, for the properties, the steps
a failing statement kept an abort from (`untold`) and those that run on while the loop takes them for over
(`unwatched`).

Actions against code: `Launch`, `HoldForm`, `Start` begin a loop; `SkipUnmet`, `ClaimNextStep`, `HoldStep`,
`Title`, `LaunchStep`, `LaunchRefused`, `PassAbort`, `StepEnds`, `StepFailed`, `Recap`, `End` are its turns in the
order of the code. Where a statement may fail is where the code has a `catch`: before the launch and after the
wait the step fails (`StatementFails`); the line written after the launch is inside the same `try`, so the step
is taken for failed while its job runs (`LaunchLineFails`); the one that passes an abort on is only logged
(`PassAbortFails`), as is each of those of `AbortSteps`; in `StepFailed` an abort that cannot be read counts as
none; in the catch of a step, at a gate or at the end the loop is over (`LoopDies`). `ReadApproval`, `Continue`,
`Reject`, `Abort`, `AbortSteps`, `AbortStep` are the requests; `ChildEnds`, `EndLost` (the end cannot be written,
which `endJobStatus` only logs), `TakeOver` and `EndParent` what becomes of a step's job elsewhere: whoever took a job
over ends its parent as failed when it is done (`lib/jobResume.js:125`); `Crash`, `Restart`, `Lapse`, `Heartbeat`, `SweepDead`, `SweepQuiet` the processes. The form is chosen
in the initial state and never changes. A step is a job of AWX, the kind that may be followed by
another node.

`MultistepKept` maps the row and its steps to `JobPromise`: job 0 is the multistep, which no runner ever gets, job `n` the job
of step `n`, launched `hist.runs[n]` times; the phase is that of the status, and an end is told when the status is one.

### 2.6 WorkflowDefs and WorkflowRun

`WorkflowDefs` translates `lib/workflowDefs.js`: `Starts` and `AfterSkips` are the two answers of `nextStep`
(once, and until nothing more is skipped), `WorkflowFailed`, `LoopIn` and `Fires`/`Fails` the functions of
those names. The passes of the code that mark what will never run, again until a pass adds nothing, are the
least set of nodes a pass adds nothing to (`Skips` is one pass, `NeverRun` that set). `MayRun`, the least set of
the same kind for what may still start, is not of the code: it says which nodes run in *some* future of
the graph, and is what `TruthfulWorkflow` compares the rules with. Nodes are naturals, their places in the
workflow, the order in which approvals that start together are asked (`InOrder`).

`WorkflowRun`: `row` is the workflow's row, `state` the state map, `run` where `run(node)` is for each node (the map
of running nodes), `child`, `follower` and `resumed` the nodes' jobs, who follows them and who took them over, `loop` the tick of
`runWorkflow` with what it read (`seen`), the approval it waits on and whether it acted on an abort,
`approvals` the queue of approval nodes, `aborting` a `Job.abort` between its statements. One process
(`Home`) runs the loop, another one (`Worker`) sweeps and may follow lost jobs; no other process touches a
workflow, as a workflow job is never resumed.

Actions against code: `Find` to `End` are the tick, each await a step (`Read`, `Flag`, `Unhold`, `Cancel`, `AskApproval`,
`ReadAnswer`, `Approved`, `Rejected`, `TimedOut`, `NotAnswered`, `NextStep`); the save of the graph between the choice of
what starts and its start is one step with it, unless it is slow (`SlowSave`, `Begin`). `SkipNode`, `Refused`,
`Pull`, `LaunchNode`, `PassAbort`, `NodeEnds`, `NodeLeaves` are `run(node)` and `runChild`, next to the loop. `Approve`,
`Reject`, `Abort`, `AbortJobs`, `AbortNode` are the requests, `ChildEnds`, `EndLost`, `TakeOver`, `EndParent` the nodes'
jobs (the last one ends the workflow, as it does a multistep), the rest processes and sweeps. A statement of the tick
that throws ends the loop (`LoopThrows`); one of a node's run is caught there, and makes the node a failed one while
its job runs on and the loop with it (`NodeThrows`): before the abort is passed on, when the end of the job is
read, or when the lines of an end that is set already are written. A statement that tells one job of an abort and
fails is passed over (`Tell`). `hist` remembers what the properties except: a loop that threw, a slow save, a
workflow ended by `endParent`, an end that became a failure (`amended`), jobs an abort failed for (`untold`) and jobs
whose end was not written (`unwatched`).

`WorkflowPromise` knows of a workflow its graph, where it is driven, the state map, the nodes that have a job and
whether it reads success. Its links are read as a user reads them (`Reached`, `Blocked`), one node at a time, where
`nextStep` works on the whole map in passes; a step of it moves any number of nodes, each by one of its moves, as
a pass does. An end is final once it is written; until then it may become a failure (`Amend`), and what it had led to
by then has been led to by what was (`LedTo`). `WorkflowKept` takes the state map for what a user sees of the nodes. `NodeJobsKept` maps the jobs of
the nodes to `JobPromise`.

### 2.7 WorkerLock

State against code: `open` and `lock` are the connections the database knows and the one with the lock;
`mem` the variables of `lib/workerLock.js` (the connection, `held`, `acquired`, the suspect and whether it was
watched for `NODE_DEAD_SECONDS`) and where the check is; `cron` a background tick; `nodes` the rows of
`nodes` (`is_worker`, and whether `last_seen` is young); `cut` the processes that cannot reach the database.

Actions against code: `Turn`, `Check`, `Unreachable`, `Connect`, `GetLock`, `ReadHolder`, `ReadHeartbeats`, `Kill`, `StopLost` are
`keepWorkerLock` and `tryWorkerLock`, statement by statement; `CronAsks`, `CronAnswered`, `CronDone` a tick's
`confirmWorkerLock` on the same connection; `Heartbeat` the row of the process; `HeartbeatAges`, `WatchAges` the
time; `Crash`, `HostDies` (the database keeps the connection), `CutOff`, `Heals`, `Restart`, `Failover` (a proxy keeps
the connection, the lock is gone) the environment. MySQL is external: `GET_LOCK`, `IS_USED_LOCK`, `KILL` are what
its manual says and what the code relies on.

### 2.8 DesignerLock

State against code: `row` is `designer_lock`, free, held or released by an admin, and stale after
`LOCK_STALE_SECONDS`; `task` has two activities of each open designer, its poll and what its user does, with the
request each waits for and what that request has read; `match` is `lock.value` in the client; `buf` and `doc`
are versions of the forms.

Actions against code: `Select`, `Expire`, `Insert`, `Update` are `Lock.read`, `Lock.status` and `Lock.set`, a statement each;
`DeleteMine`, `ForceRelease` `Lock.delete` and `Lock.forceRelease`; `SaveChecked`, `Write` a save of the designer or of an
`Importer` that borrows the lock; `StartPoll`, `Polled`, `Reread`, `Load` the poll and the load of the forms in
`designer.vue`; `TurnOn`, `TurnOff`, `Save`, `Import`, `AskRelease` what users do; `Sleep`, `Wake`, `Age` a designer that is closed
or suspended, and time.

### 2.9 RepositoryClaim

State against code: `row` has the status of each repository, the node of its claim and whether the claim is
from before its node's last start (`early`) or older than `CLAIM_MAX_HOURS` (`old`); `op` is what runs:
its kind, its node, what it still has to claim (`todo`), what it holds, and the status it will give back
(`prior`). `boot` says that the start of the worker has not released claims yet.

Actions against code: `Begin`, `BeginSave`, `Create` start a pull, a clone, a reset, a sync, a rename, a delete, a
designer save or the creation of a repository with its background clone; `Check`, `Read`, `Claim`, `Refused` take
the claim in the order the operation does; `Work`; `End`, `EndNothing`, `EndDelete`, `EndSave`, `Fail`, `EndLost` are the
`finally`, the release and the `catch` of each kind, and the statement that fails; `BootRelease`, `Sweep` the
releases of the start and of every minute.

### 2.10 RecordCache

State against code: `version` the row, as a version, `cache` the copy of each process, `reader` what a read that missed the
cache has fetched and not stored yet, `writer` a write whose statement is done and not answered, `bumps` the
bumps under way (a write does not wait for its own), `counter` the row of `cache_epochs`, `seen` and `polled`
what each process compared last and has just read. `clock` is the time in the counter: `bump` writes
`GREATEST(epoch + 1, now)`.

Actions against code: `Fetch`, `Fill`, `Expire` are `getCached` of `crud.model.js`; `Write`, `Answered` a change and the drop of
the own copy; `Bump`, `Poll`, `Compare` `lib/epochs.js`; `Restore` a dump that brings old counters back, `RestoreEnds` its bump, or its
failure before it; `Restart`.

The variables the promise is about are declared in `CachePromise`, which `RecordCache` extends, so that
`RepositoryClaimProofs`, which has `RecordCache` next to `RepositoryClaim`, speaks of the same ones.

## 3. Runs

| Run | Instance | What it shows |
|---|---|---|
| `job_clean` | 2 nodes, 1 job, 3 loops, 2 crashes, the job may age | with heartbeats that do not lapse one loop follows a job (`OneFollower`), the sweeps give up no followed job (`FollowedNotAbandoned`), and what was launched and lost can be taken over (`LostJobsResumable`) |
| `job_faults` | 2 nodes, 1 job that may need an approval, 2 loops, 2 faults of any kind | `LaunchedOnce`, `TruthfulEnd`, and the refinement `PromiseKept`, of which a job that ends once is a part |
| `job_live` | 2 nodes, a job that may run since before 7, one crash or lapse, fair timers | `DeadFollowerLeaves`, `ResumableTaken`, `AbortHeard`, `StaleLoopStops` |
| `queue_safe` | 2 nodes, a one-time schedule that users run too, 3 queue numbers, 1 fault of any kind, the loss of the worker lock included | `ClaimedOnce`, `OneTimeOnce` |
| `queue_live` | 2 nodes, a one-time and a recurring schedule, 3 queue numbers, one crash or slow launch, rows left running by an older version, fair timers | `QueueMoves`, `OneTimeRuns`, `QueueOrder` |
| `rte_safe` | 2 app nodes, 2 sockets, 1 output line, 2 items in flight, one of ten sets of events | `OneProcess`, `AckedIsStored`, `OutputWhole`, `CancelMarkTrue` |
| `multistep` | 2 nodes, 43 forms of two steps (see `MCMultistep`), 1 fault of any kind but a slow approval, a failing statement included, fair loops and sweeps | the multistep and its steps keep the promise of a job, no step running twice included (`MultistepKept`), no step runs next to another the loop has not lost (`OneStepAtATime`), the end says what the steps did (`TruthfulParent`), a failed step stops what does not allow for it (`FailureStops`), an abort reaches the step that runs (`AbortReachesStep`) and the multistep comes to rest (`AbortStops`) |
| `workflow` | four graphs of three nodes with jobs, approvals, a project, conditions and convergence, 1 fault of any kind, fair ticks and sweeps | `TruthfulWorkflow`, `AbortReachesNodes`, the refinement `WorkflowKept`, and `ComesToRest` |
| `worker` | 2 processes, 5 connections, 1 fault of any kind, fair timers | no worker that lives and writes heartbeats is killed (`LiveWorkerKept`), two believe they are the worker only after a fault (`TwoBelieversAreSick`), the one that is not stops (`LoserStops`), there is a worker again and again (`WorkerComesBack`) |
| `designer` | 2 designers, one an admin and an importer, 3 requests of the users, 1 sleep, fair polls | `NeverStolen`, `ReleaseStands`, `LeftBehindFreed` |
| `repo` | 2 nodes, 2 repositories (git runs in one, the other is only saved to), 2 operations, one claim from before 7, 1 fault of any kind, fair operations and sweeps | `Alone`, `TakenLate`, `NotWedged` |
| `cache` | 2 processes, 3 changes, 1 restore that may stop before its bump, 1 fault of any kind | `ServesTheRow` |

Every property has a mutant in `PROJECT.json`: a plausible mistake in the code that TLC finds with it. The
type invariant `TypeOK` of a module is proved (section 4), for any bounds.

### Bounds

* Two processes: every race in the code is between two of them (a stale one and its successor, two
  approvers, the worker and an app node). The sweeps treat all dead nodes alike.
* `Loop` bounds the loops of one job that run at the same time. Two are enough for a race, three
  let two take-overs overlap with a stale loop.
* `MaxFaults`: crashes, lapses and failing statements are limited in number, not in place: each may
  come between any two steps. Two are needed for a crash during the recovery from a crash: `job_clean` and
  `job_faults` have them. `OneTimeOnce` with two faults and no user, `ClaimedOnce` and `QueueOrder` with two
  schedules and a user, the safety of `repo` with two faults (6 million states), of `multistep` with two
  (`OneStepAtATime`, `TruthfulParent`, `AbortReachesStep`, 5.8 million states) and of `workflow` with two
  (`TruthfulWorkflow`, `AbortReachesNodes`, 1.1 million states) were checked without an error too; they take
  longer than a run should. The liveness of `job_live` is with one crash or lapse: a second crash, between the sweep and
  the take-over of the first, is one of the cases under "What the code does not keep".
* `MaxQueue` bounds how often schedules are asked for: an ask beyond it is not taken, which stops the
  cron task. `OneTimeRuns` says so in its statement, and `QueueMoves` is about schedules that do wait.
* The remote job: no bound, its four statuses are final but the first.
* `MaxConn`: two sockets, so one reconnect, to the same node or the other, with the old node still
  storing. `MaxOutput` 1 and `Window` 2: a run has three items, and with two in flight the third waits for
  an ack; a second run continues the spool of the first.
* `Exits`: a playbook of `rte_safe` that nobody aborts succeeds, which is the end `OutputWhole` is about; one that fails by
  itself is delivered the same way. With both (2.4 million states) the run has no error either, and the theorems are for any.
* `EventSets`: in one behaviour of `rte_safe`, only the events of one of these sets happen, each once, in any
  order and between any two steps. Sockets replaced, claims that return and stores that queue need no
  event. The set {abort, slow} and each of the other nine kinds alone are taken; {drop, store}, {drop, restart}
  (5 million states) and, for a run that writes no line, {abort, drop} were checked without an error too.
* `Last` 2: what the loop remembers of a step concerns the next one, and an approval between two steps
  is the only way to forget it. `MCForm` has every combination of approval, always, continue and condition of
  two steps that the code tells apart, but that `always` matters on a second step without an approval only (nothing
  has failed yet in the other places), and that a form which asks for an approval at its start has two steps that
  run and ask for none.
* `MCGraph`: a node with two kinds of links, one that two converge in, two approvals at a time, one of them
  with a timeout, and a chain with an unmet condition and a failure that is handled later.
* `Session` 5: each process needs one, and a connection a database keeps for a dead host, a killed one
  and a second failure take the rest; a process that finds none free waits.
* `MaxAsks` 3: take, lose, take back; `MaxSleeps` 1. `MaxChanges` 3: a change, one during the read of it, and
  one more for the counter to meet itself after a restore.
* Symmetry is used only where no liveness is checked, on identifiers no action chooses among.
* Deadlock is not checked where the system may come to rest: a job, a workflow or a multistep that ended,
  designers that made all their requests, a job of an RTE that was delivered.

### Fairness

Weak fairness on what timers, loops and promises of a running process do by themselves, and on time: heartbeats
(10 s), `keepWorkerLock`, cron ticks, the queue's timer, a polling loop, the ageing of the row of a
stopped node or of a claim. No fairness for users, and none for faults. By module:

* `JobLifecycle`, `ScheduleQueue`: a container is restarted when none is left (`WF(up = {} /\ Start)`): the
  images run under a restart policy; no process is assumed to come back as long as another one runs, so
  `DeadFollowerLeaves` holds for a node that never returns. The remote job may run for ever: the properties
  do not promise that it ends.
* `Multistep`: the loops, the second statement of an abort, the sweeps; a step's job ends once it was told to
  (`JobLifecycle` has `AbortHeard` for that), and the heartbeat of a process that is down grows old. Nothing is
  assumed of `EndParent` and of the end of a job nobody follows.
* `WorkflowRun`: as `Multistep`, and the jobs of nodes end on their runner, which `ComesToRest` needs: a workflow
  whose job runs for ever does not end. A crashed process need not come back.
* `WorkerLock`: the check, the ticks, the heartbeats, the watch; a process that stopped is started again, a
  host that was cut off is reachable again.
* `DesignerLock`: the polls and requests of an open designer are answered, and a row nobody refreshes ages.
* `RepositoryClaim`: operations end, one that hangs apart (its claim grows old), and the worker is started again and
  sweeps.

### What the code does not keep

Comments and documents promise some things that the models show the code not to keep. Where a definition is
named, it states the promise; none is a property of a run.

| Promise | What happens |
|---|---|
| `lib/jobResume.js:34-36` the resumable jobs are "not ended" | the approval gate writes `end` (`runners/orchestrator.js:35`) and the approval leaves it: a job that was approved is never taken over |
| `lib/jobResume.js:6-8` "Right after, the abandoned jobs that a runner can follow again are taken over here" | a node that stops between its sweep (`services/cron.service.js:391`) and its take-over leaves the job until another sweep gives something up: the next one changes no row and skips the take-over |
| `lib/jobResume.js:176` of a stale loop that sees the take-over | a node that takes back, by itself, the job the sweep took from it runs two loops of it: the tracker they compare is their own name |
| `models/job.model.js:629-630` "two of them never collide" (`WritersNeverCollide`) | an RTE counts on from an order read once (`runners/rteHub.js:1206`): a line the app writes later takes the order of the playbook's next one, which is skipped as stored |
| `runners/README.md:152-154` "each item exactly once" (`EachItemOnce`) | a claim whose answer was lost goes back; handed over again after the playbook ended (`rte/socket/rte-socket.js:391`) it runs once more, and its lines collide with those of the first run |
| `runners/common.js:212-213` "it never ran" (`AbortedStops`) | `dispatch` read the flag of an unclaimed job, which is claimed by the time it is ended (`runners/rteHub.js:1479`): the playbook runs on |
| `controllers/v2/schedule.controller.js:97` | Run now reads the state of a schedule and then queues it without a condition: two requests queue it twice |
| `lib/workerLock.js:51` a tick never runs next to the new worker's (`NeverNextTo`) | the tick confirms the lock once, at its start, and goes on when it is lost |
| the help on multistep forms (`help.yaml`): a failed step stops it (`FailureStopsAlways`) | the loop's memory of a failed step ends with it at an approval: the steps after run as if nothing had failed |
| `models/job.model.js`, the claim of `Job.continue` | an approval that read the row, and claims it when the multistep is held again at a later step, starts again from the step it read (`MultistepKept` with the fault `slow`) |
| `models/lock.model.js:48-54` a release is not taken back (`ReleaseNotUndone`) | a request that read the lock before the release, and a release that aged, undo it |
| the designer lock (`NoLostUpdate`) | a designer that slept takes a free lock back and goes on with the forms it had |
| the claim of a repository (`Exclusive`) | a create whose background clone is refused writes failed over the claim of who refused it (`models/repository.model.js:166-172`) |
| `models/repository.model.js:830-834` (`RunningIsWork`) | a rename gives back the status it read before its claim, another operation's running included (184, 228); a save reads it before its claim as well and may give back an outdated one |
| `models/repository.model.js:838-840` | a save whose claim was released as stale releases the claim another operation of the same node took since |
| `lib/epochs.js:23-25` "a few seconds of staleness" | a bump that is lost costs up to the expiry of the copy, an hour, and so does a read that was under way when the copies were dropped |
| `models/workflowRun.js` on a rejection of one node | one that comes between the last read of the status and the unchecked move of the timeout (547) leaves the job rejected and its nodes without a loop |
| the end of a workflow | a node that ends while the graph is saved (714) is not in the running nodes any more, nor in what starts: the workflow ends without its successors (`hist.overtaken` in `TruthfulWorkflow`) |
| `failJobOnError` (`models/job.model.js:1603`) | a workflow is held when a statement of its loop throws: its end matches no row, and no sweep gives up a held workflow while its process lives (`hist.threw` in `ComesToRest`) |
| `models/job.model.js:2641-2642` a failure must not leave the step "unwatched while the multistep moved on as if it had failed" | the line written just before, at 2632, is outside that inner `try`: when it cannot be stored, the catch at 2708 takes the running step for failed, and with `continue` the next one runs beside it (`hist.unwatched` in `OneStepAtATime`) |
| `models/job.model.js:741-747` the running step gets the abort | a statement that fails is only logged, for one step (756), for the pass after a launch (647), for a node of a workflow (`models/workflowRun.js:680`): the job runs to its own end, and nobody asks again (`hist.untold` in `AbortReachesStep`, `AbortReachesNodes`) |
| `Job.endJobStatus` (613) | an end that cannot be written is logged and left: the job reads running, and counts as failed for its parent, which goes on if its form or graph lets it (`hist.unwatched`) |
| `lib/jobResume.js:85-86` the loop of the parent "died with the node" | not when a live node was taken for dead: `endParent` then ends a multistep, or a workflow, that a loop still drives, as failed; a workflow that was aborted, and held or rejected on the way, too (`hist.overruled` in `ComesToRest`) |
| a node of a workflow is failed | its job may run: a statement of its run threw before the job ended (`models/workflowRun.js:651`). The loop goes on with what follows a failure |
| a node of a workflow ends once | its status is set before its lines are written (`finish`); when those fail the same node fails, after what follows its success was started: what follows its failure starts as well (`Amend` in `WorkflowPromise`) |
| `models/backup.model.js:908` every process drops what it had cached | a restore that fails, or stops, between the replay of the dump and that line announces nothing: copies are served for up to an hour (`lost` in `ServesTheRow`) |
| an abort of a job that is adrift | a sweep clears the flag of the job it gives up; followed again, the job runs on as if nobody had asked |

`OneTimeOnce` counts two cases rather than calling them wrong: the asks of users, and a tick that confirmed
the lock, lost it, and asks for a schedule another worker has launched meanwhile. `CancelMarkTrue` leaves out a
job aborted before its launch came to `kick`: that cancel is noted as sent to an RTE that has never heard
of the job.

## 4. Proofs

`tlapm` checks every theorem; no assumption beyond the named ones of the modules (`JobAssumption`,
`NoNodeAssumption`, `ScheduleAssumption`, `RteAssumption`, `WorkerAssumption`, `DesignerAssumption`,
`RepositoryAssumption`, `CacheAssumption`, `WorkflowAssumption`: constants are sets, bounds are naturals, a worker is
one of the nodes, a workflow has finitely many nodes and no loop), which TLC evaluates in the runs. The theorems hold for any number of nodes, jobs, loops,
schedules, designers, repositories and faults, and with every kind of fault.

`JobLifecycle`:

* `TypeCorrect`: `TypeOK` is inductive.
* `OneLauncherHolds`: the key invariant. "No job is launched twice" is not inductive: one must know
  why. `LaunchOK(j)` says that the loop which is about to launch is alone on the job, that nothing
  works on a job that waits, and that whatever a take-over has read was launched. Every conditional
  `UPDATE` is used in the proof of one of its steps: the claim of `Job.continue` for the approval, the
  `awx_id` of `findResumable` for the take-over.
* `LaunchedOnceHolds` follows from it.
* `EndedOnceHolds`: from `TypeOK` and the statuses an end may replace (`ENDS_FROM`).
* `TruthfulEndHolds`: `TruthOK` adds that a loop about to write a success works on a job that succeeded,
  and that what is on the runner was launched. It needs `OneLauncher`: a second launch would make a job
  that succeeded run again.
* `AbortAnsweredHolds`: with the invariant that a job `giveUp` touched is remembered.
* `FinalStaysHolds`, `PromiseKeptHolds`: action by action, every step of the cluster maps, for every
  job, to a step of `JobPromise` or to none; the initial states map to its initial states.
* `OneFollowerHolds`, `FollowedNotAbandonedHolds`: only with crashes for faults (`FaultKinds \subseteq {"crash"}`).
  A node that lives and whose heartbeat lapses is taken for dead, and then two loops do follow a job for a
  while: the hypothesis is that of the run. `FollowInv` says why a crash is not enough: a process that runs has
  a heartbeat, and one that follows or takes over jobs has given up those of its previous run first (`NodeOK`);
  the loop of a running job is in the process its row names, and it is alone (`Sound`, `FollowOK`).
* `UngatedResumable`, `LostJobsResumableHolds`: with `EndInv`, that `end` is not written on a job that has no
  approval and has not ended. A job that was held keeps the `end` of its gate, so the theorem is about the jobs
  whose form has none (`Gated`), and about all of them where there is no such form.

`ScheduleQueue`:

* `QueueTypeCorrect`: `TypeOK` is inductive.
* `ClaimedOnceHolds`: inductive with `TypeOK`. Every step asks for one schedule, claims one that
  waits, or settles (no schedule comes to wait and no count moves).
* `QueueOrderHolds`: with the strengthening `OrderInv`, that what the worker picked has at most the
  number its row has now; a new ask gets a number above every row, so above what was picked.
* `OneTimeOnceHolds`: with the strengthening `OnceInv`, that a run still to come counts as claimed: the
  schedule waits, or a tick would ask for it.

`RteDelivery`:

* `OneProcessAlways`: `OneProcess` alone is not inductive. `Counts` ties the number of playbooks to what
  `onRun` looks at: one runs exactly when the job was spawned, and only a running entry is spawned.
  `SendingCounts`, `SpooledCounts` and `RunOverCounts` say what sending, spooling and the end of a run leave
  of it; the steps of the app and of the sockets change nothing of the RTE. A restart of the RTE is
  taken to end its playbooks, as that of its container does.
* `RteTypeCorrect`: with `StructInv`, what is true of the runs whatever is lost: a job that was not launched has no
  run on its way and one that never ran has nothing to report (`BeforeOK`), every line is the app's or of a run
  there was (`RunsOK`), and what was acked and what comes next are places in the spool (`NumbersOK`).
* `AckedIsStoredAlways`: `DeliveryInv` reads the way of an item backwards. On each socket that can still be read, the
  items come in the order of the spool with no hole (`Ordered`, `Complete`): so what the node stores next is what the
  spool has next, an ack in flight is of a prefix that is stored, and a pump after a reconnect starts where the
  acks end (`Delivered`). Nothing is claimed of a second run of the same job (`hist.runs`), whose spool
  starts again.
* `OutputWholeAlways`: with `WholeInv`, that the end of a run is spooled after every line it wrote (`EndsLast`,
  `OutputsBefore`) and stored only when the items before it are: what is missing are the lines whose order
  the app took (`Owed`).
* `CancelMarkTrueAlways`: with `CancelInv`: a node that noted a cancel hands the job over no more, and the flag stays as
  long as the job runs (`MarksOK`); so each hand-over still on its way is followed by a cancel (`RunsCancelled`), and
  the playbook heard it or will (`CancelOK`).

`Multistep`:

* `MultistepTypeCorrect`: with `Where`, which step a loop is at in each of its places.
* `OneStepAtATimeHolds`: what forbids a second step is spread over rows and loops. `AloneInv` says that one loop
  at most drives the row, in a process that runs and that the row names unless it was given up; `Children` what the
  row of a step's job may read; `LiveInv` that of the steps the loop has not lost (`hist.unwatched`) at most one runs or
  may be followed again, that it is the one the loop waits for, and that it was not given up unless the multistep was. A sweep gives up the row and its
  steps in one statement, which is what keeps `LiveInv`.
* `AbortReachesStepHolds`: `Told` is inductive with those. The loop looks for the flag again after the launch; the
  steps for which a statement failed on the way are in `hist.untold`, and no other one may be added there.
* `StepOnceHolds`: `RunInv` says that no step from the current one on was launched (`FreshFrom`), for a loop, a hold
  and an approval that read the row. The last is true only while the row is not held again at a later step before
  that approval claims it, so the theorem excludes the fault `slow`, as the run does: with it a step does run twice
  (see "What the code does not keep").
* `FailureStopsHolds`: `TruthInv` says, of a loop that began at `b`, that `b` is where an approval was given or the
  first step (`Origin`), and that each step since then ended as its form allows, or the loop knows of the
  failure (`Began`, `LoopTruth`). An existential over `b` is what stands for the memory the code loses at an approval. It
  holds under every fault.
* `TruthfulParentHolds`: from `TruthInv`, for the last gate of the form (`Whole`). With `slow` approvals the gate the
  run began at need not be the last one, so they are excluded here.
* `MultistepKeptHolds`: `Counted` ties the row of a step to its launches (a step that has a row was launched once, one
  that has none never), which with `RunInv` makes each launch a first one. `Allowed` lists the moves of a status that the
  promise has; each action is shown to move the row and every step by one of them (`ParentMoves`, `StepMoves`,
  `MovesAllowed`), the sweeps many at once. `slow` is excluded as for `StepOnceHolds`: both rest on `RunInv`.

`WorkerLock` (`LockTypes`, `LockHeld`, `LockBelievers`, `LockLiveWorker`): "a process that believes it has the
lock does" is not inductive by itself. `LockInv` adds that the lock is an open connection's (`LockOpen`), that a
connection is used by one process (`OwnConnection`), that whose connection has the lock, or is watched by
somebody, believes it does (`LockedIsHeld`, `SuspectHeld`), and for the KILL that a process which was watched for
as long as a heartbeat may be old has written `is_worker` meanwhile, if it writes at all (`WatchedWrites`): one
that is found silent has stopped writing (`Judged`, `KilledSick`).

`DesignerLock` (`DesignerTypeCorrect`, `LockNeverStolen`, `LockReleaseStands`): `DesignerInv` says what each kind of task may have read
(`Control`), and that after a release a holder without a request under way has a poll that sees the release
and nothing else (`JustReleased`). Versions of the forms are needed for the types only: that they stay in bounds is
that no save was not asked for, so the version and the saves under way are counted against the asks (`Versions`).

`RepositoryClaim` (`ClaimTypes`, `ClaimAlone`, `ClaimTakenLate`): `ClaimInv` says where each kind of operation may be and
what it holds there (`Control`), and that what is held by an operation whose claim was not taken reads running in
its name, by it alone (`Claims`).

`RecordCache` (`CacheTypeCorrect`, `CacheServesTheRow`, in `RepositoryClaimProofs`): `CacheInv` says that a counter is never ahead of the clock nor a seen counter
ahead of both (`ClockLeads`), which copies and reads are known to be old (`BlindKnown`), and for the others that
a copy which is not the row has a change the process has yet to hear of (`CopiesHeard`), which is `ServesTheRow`. `GREATEST` in the bump is
what the proof uses where a restore sets the counter back. The types rest on `Changes`: what was bumped, the bumps
under way and the writers that have not bumped yet are together at most the changes.

`WorkflowRun` (`WorkflowTypeCorrect`, `AbortReaches`, `TruthfulWorkflowHolds`, `NodeOnceHolds`, `WorkflowKeptHolds`,
`WorkflowOrdered`, `NodeJobsKeptHolds`): `AbortReachesNodes` alone is not inductive. `FlagKept` says that the flag a loop acted
on is there as long as the workflow may go on, a rejected one that its loop runs again included; `EndsOnce` that
no row reads aborted while a loop has it to drive; `Kept` that the job a node waits for is followed here or
settled, and given up only as a job of this process, which is why a job taken over again is never one a node still
waits for. `AbortReaches` is also about the jobs of nodes their run took for failed, which nobody waits for, and `AbortInv` divides
the jobs between those who tell them (`Heard`): once the loop has acted, it told every node with a run that is past its own
look at the flag; once the request is done, it told every node but those whose run has yet to look. While
there is a loop, a job that was launched is followed here, has ended or is another process's (`Watched`). `GoesOn`, `NodesMove`, `Stops` and `OneJob` say once what a step of the loop or next to it may do; each
action is shown to be one of them.

`TypeInv` adds to the types that an approval is waited on only while one is asked. `TruthfulWorkflow` needs `TruthInv`,
which says of a loop that is not over: where the run of a node is and what its status reads go together, and a job
nobody waits for did well or its node failed (`NodeTruth`); the approvals queued are the nodes asked, each once, and
the first one is waited on (`Asked`); what starts after a slow save is still what was to start, and at the end nothing
is, unless a node ended during it (`LoopTruth`). The heart is `Justified`: a node marked as never to run has links, and
they fail for good, all of them, or one when they must converge. It holds of what a pass marks as `NeverRun`, being the
least closed set, is a fixed point of `Skips` (`NeverRunFacts`), and it stays, as a link that fails fails whatever
the other nodes do (`JustifiedStays`). When nothing starts and nothing runs, `NothingLeft` then shows that the
empty set is closed under `MayStart`, so that nothing could run in any future. That each approval is asked once rests
on `InOrder` being an order of the set (`Placed`, from finiteness and the well-founded order of the naturals).

`NodeOnceHolds` is what `runChild` counts on, and why one row per node is enough in the model: a node that is to
launch its job has none yet, and one that waits for its turn neither (`OnceAt`). It needs `TruthInv`: what starts after
a slow save must not have started before.

`WorkflowKeptHolds` is a step simulation. Most steps move no node: of those the proof says only what they do to the
loop, the row and the jobs (a launch, an end, a job of a node that runs). The ones that move nodes are a pass of the loop
and the end of a node's run. That a pass is a step of the promise needs the two ways to read the links to agree:
what `Starts` answers is `Reached`, also for what starts after a slow save (`Ready`), and what `NeverRun` adds is
`Blocked` in the map it leaves. `OnceAt` gives that a job is a node's first, `TruthInv` that a success is of a
workflow with nothing running and no failure unhandled.

`WorkflowOrdered` is then proved of the promise alone, without a look at the code: what leads to a node leads to it for
good (`ReachedStays`), as an end stays and a link fires on an end. With `WorkflowKeptHolds` it holds of the code.

`NodeJobsKeptHolds`: each step moves the job of a node by at most one move of `JobPromise` (`ChildMoves`), and a job is
created once (`OnceAt`). It has no run of its own.

Only model-checked: the liveness properties, as fairness is out of the prover's reach: `DeadFollowerLeaves`, `ResumableTaken`,
`AbortHeard`, `StaleLoopStops`, `QueueMoves`, `OneTimeRuns`, `AbortStops`, `ComesToRest`, `WorkerComesBack`, `LoserStops`,
`LeftBehindFreed`, `NotWedged`. Every other property of a run is the subject of a theorem.

## 5. Not modelled

* What the output lines of a job say (their orders are in `RteDelivery`), mails, notifications, masks, access checks,
  what a form contains.
* `Job.create` for the types of jobs that are not AWX or a playbook on an RTE, AWX workflow jobs and project
  syncs, the collecting of artifacts; the other runners (Semaphore, Rundeck, Jenkins), which poll as
  AWX does and are never resumed.
* Nested workflows (a node whose job is a workflow), workflow files and their checks but for the loop in a graph.
* Creating, planning and editing schedules: statements on one row with no race of their own.
* Clock arithmetic: ages are classes ("within NODE_DEAD_SECONDS", "more than a day"). A node whose
  clock or event loop stalls is the fault `lapse`.
* The lease of a runner with two RTEs on one name, inbound dialing, the pruning of ended jobs; `RteDelivery` has
  no liveness.
* A clean stop of a worker (`releaseWorkerLock`): it frees the lock as a crash does.
* What git does to a working tree, and loading the forms from it.
* Sessions, revoked tokens and the sign-in throttle; sign-in, users, LDAP, OIDC; expressions and queries; backup and
  restore beyond what a restore does to the counters; schema, seed and key rotation; settings, audit, logs,
  health; chat and MCP; the web client but for the designer's lock. They are requests, files or single
  statements without an interleaving of their own, or front ends of the components above; the client, the
  translations and the vendored code are most of the repository's lines.

## 6. Plan

What would add most, in this order:

1. `RteDelivery`: liveness (an item on the spool is stored, a job whose RTE comes back ends), and the lease of a
   runner with two sockets of one RTE on two nodes.
2. `Sessions`: a revoked session and a one-time code read through a cache of another process, over
   `RecordCache`.
3. What a restore does to running jobs, schedules and claims (`releaseRestoredRuntime`), over `JobRow`.
4. Nested workflows: a workflow whose node is a workflow, with an abort that goes down both.
