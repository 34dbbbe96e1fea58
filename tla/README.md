# A TLA+ model of multinode-controller

A coordinator runs commands on many machines. Each machine runs a worker that keeps
one outbound WebSocket to the coordinator; clients (`agentctl`) make one request per
connection. This directory holds a TLA+ model of how coordinator, workers and
executors act together, of who is let in and what may run, of the client's side of a
request and of the launcher, the TLC configurations that check it on small instances,
and TLAPS proofs of what holds for every instance.

## 1. Inventory

| Component | Source | State | Operations |
|---|---|---|---|
| Coordinator | `crates/coordinator/src/main.rs` | `AppState`: node registry (`WorkerHandle` with a channel to the worker and `running_tasks`), leases, event broadcast, store; a task for each connection, a writer task for each worker | `handle_worker`, `mark_node_lost`, `record_worker_error_exit`, `run_process`, `kill_job`, leases, read-only requests |
| Leases | same file | `leases` under the registry mutex | `create_lease`, `release_lease`, the check in `run_process` |
| Job store | `crates/jobstore` | SQLite tables `tasks`, `task_logs`, `nodes` under one mutex | `record_task_dispatched/started/exited`, `record_log_line`, `job_summary` and queries |
| Worker | `crates/worker` | connect loop with backoff, out channel, one executor for each connection | register, heartbeat, StartTask, KillTask, `start_task` |
| Executor | `crates/executor` | `processes` map from task to pid, a waiter and two log readers for each task | `start`, `kill`, wait with timeout, terminate |
| Wire protocol | `crates/protocol` | none | messages, ids |
| Policy | `crates/policy` | the policy of a worker's session | `from_path`, `authorize` |
| Sandbox | `crates/sandbox-linux` | none | copies the command |
| Authentication | `crates/auth` | the tokens of the two roles | `from_files`, `authenticate_request` |
| Runtime launcher | `crates/runtime` | two child processes, a signal flag | start, supervise, stop |
| Client | `crates/cli` | none | `resolve_target_nodes`, `torchrun_request_parts`, `request`, `print_run_responses` |
| Installers, skills | `install.sh`, `scripts`, `skills` | none | copy files |

How they interact: worker to coordinator and back over one FIFO connection each way,
behind a bounded channel on the sending side; connection handlers of the coordinator
share the registry (async mutex), the store (its own mutex) and a broadcast channel;
`run_process` waits on the broadcast; the executor reports through a channel that
`start_task` forwards to the connection.

What is hard, and what should be correct:

- *Coordinator.* Handlers interleave between a store write, the registry update and
  the broadcast. A client must not be told what the store does not say; a success
  must be a process that succeeded; a waiter must be answered whatever happens to
  connections; a tracked task must be an open one.
- *Kill.* A kill may come before the start, during it, between the exit and its
  report, or after it; its error overtakes events. No race may turn a failure into a
  success or take a success back, and one job's kill must not touch another job.
- *Connections.* They end by a Close frame or by an error, and come back; the node has
  one registry entry for all of them.
- *Leases.* Exclusive leases are disjoint from all others, under any order of grants and
  releases; runs stay in the lease they name.
- *Executor.* Timeout, exit and kill race; each task has one verdict.
- *Store.* Rows follow the tasks' lives; outcomes are final.
- *Restart of the coordinator.* The store survives, registry, leases and broadcast do not,
  and workers come back with new executors. What was recorded or answered must stay true.
- *The registry lock.* Run and lease requests hold it while they send errors to their
  client. It must come back whatever the client does short of stalling for ever.
- *Client.* Status 0 must mean success; the list of nodes it ranked may be stale when used.
- *Authentication, policy.* Files are edited while programs run, and read at different
  times. What was read must decide, and a file that cannot be read must never open anything.
- *Launcher.* A signal and the ends of both children fall together in any way; every way
  out must stop what still runs.

The hazards, each at its line and with the properties aimed at it, are listed in
`PROJECT.json`.

## 2. Modules

| Module | Models |
|---|---|
| `Wire` | identities, messages, the two channels of each connection |
| `JobStore` | the `tasks` table as operators on a function from tasks to rows |
| `Leases` | the lease table and its critical sections |
| `Coordinator` | the registry, one handler for each worker connection, each run request and each kill request |
| `Worker` | the connect loop, the read loop, `start_task` and `LocalExecutor` |
| `Cluster` | the composition, its fairness, and the properties |
| `Jobs` | what the system promises about jobs, abstractly: the specification `Cluster` implements |
| `Refinement` | the mapping from `Cluster` to `Jobs`, and `ImplementsJobs` |
| `Recovery` | `Cluster` and the coordinator's restart on the same database |
| `Requests` | `agentctl` and the handlers of run and lease requests, with the registry lock, the client's socket, the exit status and the torchrun ranks |
| `Admission` | token files, handshake, policy files, `authorize` |
| `Launcher` | `agent-runtime start` in foreground mode, on its own: the cluster sees its effects as connections that end |
| `MCCluster`, `MCRecovery`, `MCRequests`, `MCAdmission` | the sets the configurations use |
| `ClusterProofs` | theorems: types, leases |
| `VerdictProofs` | theorems: what is told of exits is recorded, what is told of successes is real |
| `ReportProofs` | theorems: why a task failed, whose outcome is final, registry and store, answers and store |
| `RefinementProofs` | theorems: restarts, and that `Cluster` and `Recovery` implement `Jobs` |
| `RequestsProofs`, `AdmissionProofs`, `JobsProofs`, `LauncherProofs` | theorems about these modules |

`Coordinator` extends `Leases` and `JobStore`, `Leases` and `Worker` extend `Wire`,
`Cluster` extends `Coordinator` and `Worker`, `Refinement` extends `Cluster` and
instantiates `Jobs`, `Recovery` extends `Refinement`. `Requests`, `Admission` and
`Launcher` stand alone. Of the theorems, `VerdictProofs` builds on `ClusterProofs`,
`ReportProofs` on it and on `Refinement`, `RefinementProofs` on `ReportProofs` and `Recovery`.

### How state and actions correspond to the code

A connection is `<<node, k>>`, the k-th iteration of a worker's connect loop. A job is
one `run_process` request, a task is `<<job, connection>>`: the request makes one task
for each node it selects and sends it to the handle the node has then.

No handler holds the registry lock across its sends to workers, its broadcasts or its
writes of exits, and the runtime is multi-threaded. So each handler is a chain of
actions, one for each critical section, store write, broadcast or channel send, and a
program counter says where it stands:

- `hpc[c]` for `handle_worker`: `RegisterWorker`; for a Started `StoreStarted`,
  `TrackStarted`, `Publish`; for a log line `ReceiveLine`, `Publish`; for an Exited
  `StoreExited`, `UntrackExited`, `Publish`; for an Error `UntrackFailed`, then
  `StoreFailed` and `PublishFailed` when the task was tracked, then `Publish`. After a
  Close frame `StreamCloses`, `DropNode`, and for each lost task `PublishLostLine`,
  `StoreLost`, `PublishLost`, then `AllLost`. After a read error `StreamFails`, and
  nothing else: the `?` leaves the handler before `mark_node_lost`.
- `rpc[j]` for `run_process`: `RunSubscribe`, `RunSelect` (the critical section with the
  lease check, the node selection and the store writes), `RunAnnounce`, `RunDispatch`
  for each task, `RunDispatched`, `RunReceive` for each event, `RunFinish`; and the ways
  out through `?`: `RunSelectFails`, `RunClientGone`, `RunDispatchFails`, `RunLagged`.
- `kpc[j]` for `kill_job`: `KillCollect`, `KillSend`, and `KillAck` or `KillFails`.
- `proc[t]` for a task on the worker: received, refused, running, exited (a zombie or
  about to be reaped), terminating (the timeout fired), reaped (the pid is still in the
  map), removed, done (Exited has been sent).
- `lpc[h]` for the launcher of a host: `StartCoordinator` and the second of sleep,
  `StartWorker`, then the loop `CheckSignal`, `CheckFirst`, `CheckSecond` (on a worker host
  without the middle one), and `KillFirst`, `KillSecond` on the ways out. A child may
  exit and a signal may come between any two of them.
- `spc[r]` for the handler of a request in `Requests`, where the critical section is not one
  action: `RunLock`, for each node `SelectNode` or `SelectMissing` (which sends an error
  under the lock), `RunUnlock`, or `RunRefused` and `Refuse` when the lease of the run does
  not admit it (an error under the lock too); `LeaseLock`, then `Refuse` or `LeaseGrant` and
  `Reply`; `Forward` for each exit or error, `ForwardReport` for a start or a log line. `SendFails` is the `?` of any send to a client that has
  ended, `RunDispatchFails` the end of a run at a worker whose channel is closed.
  `cpc[r]` is `agentctl`: `Resolve` (with the lease of a torchrun in `under[r]`) or
  `ResolveFails`, `Submit`, `Read` up to the first final response, `CutOff` when the handler
  has gone without one.
- `pc[r]` in `Admission` for the worker's loop and for an invocation of `agentctl`:
  `ReadToken`, `Ask` (the handshake), for the worker `LoadPolicy`, and `Leave`.

A broadcast receiver more than `EventCap` events behind has lost events; a sequence
one longer than `EventCap` stands for all such receivers, and `RunLagged` ends the wait.
When a connection ends, an arbitrary prefix of what the worker sent reaches the
coordinator and the executor's channels close; children go on. A connection may also be
"deaf": its worker registers and then gives the session up over its policy file. The `?`
comes before `heartbeat.abort()`, so the heartbeat and writer tasks keep the connection up,
and nobody reads what the coordinator sends on it.

A restart of the coordinator (`CoordinatorRestarts`) is one action: each handler ends where
it stands, except that a run request inside its critical section may have recorded some of
its assignments (`HalfRecorded`); the registry and the leases are new, every connection is
reset, rows stay. Nothing reads the open rows of the past, and the code has no step that
would settle them.

### What the system promises

`Jobs` knows tasks, processes, records and answers, and no handler, channel or event. A
task is *disturbed* by a kill request for its job, by the end of its connection, or by a
Close frame on another connection of its node. The record of an undisturbed task follows
its process and stays; a record or an answer of success is real even of a disturbed one;
an answer comes when all exits are recorded. A crash is an `Interrupt`: answers that had
not come are lost, perhaps in the middle of a request, and nothing else. `ImplementsJobs`
says that `Cluster`, and `Recovery`, only take steps `Jobs` allows; the `process` of the
mapping is the executor's verdict, `record` the row, `answer` where the run handler ended.
`JobsProofs` shows what follows from the promise alone.

### Assumptions and abstractions

- Node names are unique among workers (the node id is the name), and a request names
  a node at most once.
- Each run request is one job, a lease id is granted once; ids are fresh UUIDs.
- The registry lock is a variable in `Requests` only; elsewhere a critical section is one
  action, which is sound as long as the lock comes back: `LockReturns`.
- In `Requests` a socket holds `SockCap` responses, the list a user may name is one of
  `Names[r]`, and there are at most `Errors` error events. Starts and log lines change
  nothing but the client's socket: they are one kind of response, `progress`, that a waiting
  handler may come to at any time, without bound, and are not queued. A lease that a
  torchrun names is one of `Leases`, the list of its nodes, and may be gone at any time:
  which leases there are is the subject of the module `Leases`. Subscriptions do not lag
  there (`Cluster` has that), and nodes are not lost under a run.
- In `Admission` the contents of a token file are a model value or `Bad` (missing or empty),
  a policy file is one of `Policy` or `Bad`, and files are edited at most `Edits` times. At
  most `Restarts` restarts happen in `Recovery`. None of these bounds is used by a proof.
- Store operations succeed, except that the absence of a row is a state of it.
- A send to a client may fail at any step that has one (`ClientLeaves`), also while it
  would still be buffered.
- Heartbeats change `last_seen` only, which nothing but `list_nodes` reads, and are left
  out. The log table and the node table are written and never read by what is modelled.
- The child may exit with any status at any time, with or without a signal. It writes at
  most one line.
- Sending the timeout's log line and entering `terminate_child` is one step, taken
  when the event channel has room.
- The worker never sends a Close frame itself: in the shipped programs "closed" is a
  clean end by the peer's stack or a proxy, and "reset" is what a killed worker
  causes. Both are modelled; each run says which it admits.

## 3. What TLC checks

Runs instantiate `MCCluster` unless they are named after another module. Deadlock checking
is off: with the bounded requests done, the system may stop.

| Run | Instance | Properties | States |
|---|---|---|---|
| `kill` | 1 node, 1 connection, 1 job with kill and timeout, every kind of break, client may leave | `TypeOK`, `FinishedIsRecorded`, `SuccessIsReal`, `SucceededIsReal`, `SuccessAgrees`, `LedgerAgrees`, `SuccessIsFinal`, `ImplementsJobs` | 50 k |
| `two_workers` | 2 nodes, 1 job, every kind of break, client may leave | `SuccessIsReal`, `FinishedIsRecorded`, `LedgerAgrees`, `ReportAgrees`, `OutcomeIsFinal`, `ImplementsJobs` | 1.3 M |
| `recovery` | 1 node, 2 connections, 1 job with kill, Close frames, 1 restart | `FinishedIsRecorded`, `SucceededIsReal`, `OwnOutcomeIsFinal`, `ImplementsJobs` | 790 k |
| `two_jobs` | 1 node, 2 jobs, one killed and not waited for, resets | `FailureIsExplained`, `LedgerAgrees` | 1.1 M |
| `leased_runs` | 2 nodes, 2 jobs, 3 leases, client may leave, up to the selection of nodes | `ExclusiveLeases`, `RunStaysInLease`, `LeasedRunsAreApart` | 837 k |
| `ends` | 1 node, 1 job with output, kill and timeout, channels of one, broadcast of two events, Close frames, `FairSpec` | `SuccessIsReal`, `RunEnds`, `JobSettles`, `KillEnds`, `LostNodeIsDropped` | 89 k |
| `requests` | a torchrun, with or without a lease, and a lease request, 2 nodes, sockets of one response, 1 error event, `FairSpec` | `TypeOK`, `ExitZeroIsReal`, `RanksAreSound`, `LockReturns`, `RequestEnds` | 373 k |
| `admission` | 2 tokens, 3 commands, 3 policies, 1 edit, any number of restarts, `FairSpec` | `TypeOK`, `SessionsAreEntitled`, `ProcessesArePermitted`, `ReadyWorkerListens` | 539 k |
| `launchers` | a master host and a worker host, `FairSpec` | `NoOrphans`, `WorkerFollowsCoordinator`, `SignalEnds` | 2 k |

Why the bounds are enough to be interesting: one task already has all the races of kill,
exit, timeout and loss, since the processes that race are its own handler, waiter,
forwarder and connection; a second worker adds exits of two handlers in either order; a
second connection adds two handlers on one registry entry; a second job adds a kill that
must not hit it. Channels of two hold a start and a kill, or two events, at once, and
channels of one add the blocking of a full channel. In the safety runs `EventCap` is
large enough that no event is lost; `ends` makes it two. Three leases over two nodes
allow a grant after a release next to a third. `UpToSelection` stops a run of
`leased_runs` after its assignments, which is all its properties speak of. Two clients are
the holder of the registry lock and one who waits for it; two nodes make a torchrun with
a rank to lose. Two tokens tell the shared file from a role's own, and every initial
content of every file is tried, so one edit reaches every pair of before and after.

What the properties say of the code:

- `SuccessIsReal`, `SucceededIsReal`: no kill error, refusal, timeout or lost worker is
  ever counted as a success, by the client or by the store.
- `FinishedIsRecorded`: all three places that broadcast an exit write it down first.
- `LedgerAgrees`: whenever a node's connection is between two messages, `kill_job` finds
  exactly the tasks the store calls open, also after a request that ended between two
  nodes or two dispatches (`two_workers`). With two connections of one node this fails:
  the second registration forgets the tasks of the first.
- `ReportAgrees`, `SuccessAgrees`: `JobFinished` agrees with `job_status` from then on. With
  kills only the success half holds; with two connections of one node neither does,
  since a late `mark_node_lost` may fail a task whose success it tracks anew.
- `OutcomeIsFinal` holds without kills, `SuccessIsFinal` also with them.
- `OwnOutcomeIsFinal`: until a kill is asked for or a handler gives a lost node up, no late
  message, second connection or restart changes the outcome a worker reported.
- `FailureIsExplained`: errors are forwarded to every waiter, but fail only their task.
- `ImplementsJobs`: the above and what they leave out between them, as one abstract
  specification (section 2), across kills, reconnections and a restart.
- `ExitZeroIsReal`: `agentctl` ends with status 0 only of a run whose every named node got
  a task and, when it waited, whose every task succeeded.
- `RanksAreSound`: the processes of a torchrun have different ranks, and all ranks are
  there when `agentctl` reports no error, though nodes depart between its two requests.
- `LockReturns`, `RequestEnds`: no handler keeps the registry, no client waits for ever.
- `SessionsAreEntitled`, `ProcessesArePermitted`: stated of the files, as documented, and
  not of the code's `AuthConfig` or `authorize`.
- `ReadyWorkerListens`: a worker once refused needs no restart when its files become good.
- `NoOrphans`, `WorkerFollowsCoordinator`, `SignalEnds`: every way out of the supervision
  stops the children that still run. A worker that cannot be started is the exception:
  the coordinator started before it goes on without a supervisor.

Fairness (`FairSpec`): weak fairness of every task of both programs (handlers, writers,
forwarders, waiters, log readers, the connect loop) and of timers. That is what a tokio
runtime gives to tasks that are woken: a bounded send is woken by room, a receive by a
message. A response to a client takes its turn, which presumes a client that reads or
leaves: one that does neither fills its socket and stalls its handler. Nothing else is
assumed of clients, and nothing of children's exits, output or connection ends. `RunEnds` therefore needs the request's timeout, and holds in the presence of Close
frames, not of resets. The launcher is fair on each host: its loop goes on turning, and a
killed child dies.

In `Requests` handlers are strongly fair: each waits for a mutex that tokio grants in order
of arrival, and that others take and release in between. The fairness is that of `Advance`,
which leaves starts and log lines out: events come in order, so reports, however many, do
not keep a handler from the next exit. `agentctl` reads what it is sent,
as its loop does nothing else, and tasks end. In `Admission` the worker's loop goes round,
since its backoff is bounded, and nothing is assumed of the coordinator or of operators.

### Where the code differs from its documents

Three runs expect a violation (`findings` in `PROJECT.json` quotes the lines):
`output_cut` (a success reported before the last output lines), `reset_keeps_node` (a
read error skips `mark_node_lost`) and `return_is_lost` (an old connection's clean-up removes
the new handle).

Behaviours that the modules have, and that no property forbids since no document clearly
does:

- A kill that arrives before the child is in the process map marks the task failed, and
  its start then makes it running again. With a kill request `OutcomeIsFinal` is therefore
  false; `two_workers` checks it without.
- Leases bind the runs that name one. A run without a lease selects every connected node,
  exclusively leased ones included (`docs/PROTOCOL.md:62-63` speaks of "ML-oriented
  workflows" only).
- Every error event is forwarded to every waiting run, and an error response is final for
  `agentctl`: an error about another job ends it with status 1 while its own job goes on.
  In the same way the error about one missing node ends it while the others are started.
- A torchrun that lists the nodes when none is connected sends an empty list; workers that
  join before its run request are then all started, without a rank. A node that the user
  names twice gets its last rank twice. `RanksAreSound` takes neither.
- `README.md:280` says workers read their policy "on startup": they read it in every
  session, and after the registration. A file that does not parse leaves a node that is
  registered and does not listen.
- `docs/v0.0.1.md:908` and `914` ask for a resync of running jobs after a reconnect. There
  is none: a returning worker sends `Register` with a new, empty executor, and its handle
  starts without tasks. Children of the past go on running and are counted nowhere, and
  after a restart open rows stay open. `JobSettles` is checked with one connection only.

Each property of a passing run also has a mutant: an operator next to the one it replaces
("Mutant of ...") with a plausible bug, under which TLC finds the property violated.

## 4. What is proved

Every safety property and action property of a passing run is a theorem, and so is the
refinement; liveness is not. The theorems hold for every value of the constants, under the
assumptions named in `Wire`, `Leases`, `Requests`, `Admission` and `Launcher` (capacities and
the number of connections are positive; `NoTask`, `NoHandle`, `NoLease`, `NoClient`, `Bad`,
`Unset` and `Down` are none of the values they stand beside; policies are policies), and
under the two hypotheses that some of them state, which are discussed below.

### Types and leases (`ClusterProofs`)

- `TypeCorrect`: `Spec => []TypeOK`. `TypeOK` is not inductive: a handler inside a message
  uses the task of `cur[c]`, and a registration has none. `HandlingTask` adds that
  `cur[c]` is a message of the right kind wherever `hpc[c]` says so; `Typed` is the
  conjunction. One lemma for each process.
- `LeasesAreExclusive`: `ExclusiveLeases` is inductive given the types.
- `RunsStayInLeases`: with `HandlesMatch` (a handle belongs to a connection of its node) and
  `RunsUnderGrants` (a lease that a run was started under has been granted, so its
  nodes are fixed). `LeasedRunsStayApart` follows from the last two.

### Records and successes (`VerdictProofs`)

- `FinishedJobsAreRecorded`: `Spec => []FinishedIsRecorded`. The inductive invariant is
  `Typed` and `ExitsAreRecorded`, which follows an exit from the handler that wrote it
  (`HandlersRecord`) through the subscriptions (`EventsRecorded`) to the pending set of
  the run handler (`WaitersRecorded`). It rests on `ExitsAreKept`: no step takes an exit
  out of the store. It holds with any number of reconnections.
- `SuccessesAreReal` and `AnswersOfSuccessAreReal`: `Spec => []SucceededIsReal` and
  `Spec => []SuccessIsReal`. A success travels from the child's status through the waiter's
  verdict, the executor's channel, the out channel, the handler, the broadcast and the
  subscriptions to the row and to the answer; `SuccessIsHonest` says at each of these
  places that what claims success is of a process that succeeded. That such a task is
  never started again, which would make the claim false, is `StartedOnce`: a task is still
  unsent, or in exactly one message to its own worker, or has arrived. `Verdicts` is
  `Typed` with both.

### Failures, finality, registry and store (`ReportProofs`)

A task is *given up* when its job was asked to be killed, or a handler of its node has come
to `mark_node_lost`. What the store says of a task that was not is the word of its own
worker. Three inductive invariants build on each other:

- `ReportInv` = `Verdicts`, `HandlesMatch` and: messages, rows, targets and the registry speak
  of selected tasks only, each of its own node (`TasksAreKnown`); whoever gives a task up
  has a reason (`EndsAreKnown`); what a worker reports has happened (`ReportsAreGenuine`),
  the exit comes last (`ReportsAreOrdered`), nothing is left on the way once it is recorded
  (`ClosedIsSilent`), a refusal is of a task that never ran and there is one of it
  (`RefusalsAreOnce`), and so the outcome is the task's own (`OutcomesAreOwn`); whoever is
  told of a failure is told of a task that failed or was given up (`FailuresAreTold`).
  It gives, with any number of connections of each node,
  `FailuresHaveCauses` (no failure without a refusal, a failed process, a kill request for
  this job or a lost node) and `OwnOutcomesAreFinal` (`OwnOutcomeIsFinal`: the outcome of a
  task that was not given up never changes); and `FailuresAreExplained` when each node has one connection.
- `LedgerInv` adds `LedgerKept`: the handle of a node is that of its handler, a lost task is
  failed once, and a task is counted by the registry, or is being failed by
  `mark_node_lost`, exactly as long as its row is open, but between the two writes of one
  message. And `SuccessesAreTold`: a success is in the store before anybody hears of it.
  It gives `LedgersAgree`, `SuccessesAreFinal` and `SuccessesAgree`.
- `OutcomeInv` adds that every exit is recorded with an outcome, and every failure before
  it is told. It gives `OutcomesAreFinal` and `ReportsAgree`.

The hypotheses are not made for the proofs; without them the statements are false, as TLC
shows on instances of `MCCluster` that break one of them.
`LedgerInv` needs `Sessions = 1`, each node having its first connection: the second
registration of a node forgets the tasks of the first, and the clean-up of the first
removes the handle of the second (`return_is_lost`). `OutcomeInv` needs `Killable = {}` as
well: the error of a failed kill fails a task whose process may report its exit afterwards.

### Restarts and the refinement (`RefinementProofs`)

- `RecordsSurviveRestarts`, `SuccessesSurviveRestarts`, `LeasedRunsSurviveRestarts` and
  `OutcomesSurviveRestarts`: the above for `RSpec`, with any number of restarts. `RecoveryInv`
  is `ReportInv` with the invariants of records and leases; the proofs add one step, the
  restart, and reuse the others.
- `ClusterImplementsJobs`: `Spec => ImplementsJobs`, and `RestartsImplementJobs`:
  `RSpec => ImplementsJobs`, without any hypothesis. Each step of `Cluster` maps to a step of
  `Jobs` or to a stutter (`StepImplemented`), the restart to an `Interrupt`
  (`RestartImplemented`). The step lemmas go by what a step changes: `QuietStep` when no view
  changes, `RecordStep` and `ReopenStep` for the store's rows, `ProcessStep` for the worker,
  `SubmitStep` and `AnswerStep` for the requests. `Jobs` constrains the record of an
  undisturbed task, and a task that is not disturbed is not given up (`GivenUpIsDisturbed`),
  so `RecoveryInv` is what the store's steps need. The proof made one definition precise:
  the arms of `AnswerOf` overlapped, and now exclude each other.

### The other modules

- `RequestsProofs`. `RequestsInv` follows a run through its handler: what the handler has
  taken and what it has still to look at make up the list the user gave, unless an error is
  on its way to `agentctl` (`Selects`); an error stays on its way until it is read, and a
  response that would end `agentctl` well is the handler's last (`Talks`); the tasks sent are
  of those made, and those crossed off have succeeded (`Dispatches`), since the events tell
  the truth (`SuccessesAreReal`). `ExitZeroReal`, `RanksSound` and `RequestsTyped` follow, the
  ranks by an injection from the tasks sent. `LockHeldInside` is the safety half of
  `LockReturns`: the lock is with the handler in a critical section, and no way out of one
  takes it along.
- `AdmissionTyped`, `SessionsEntitled` and `ProcessesPermitted`: for any tokens, files,
  policies and edits. `AdmissionInv` ties the `AuthConfig` to the files the coordinator saw
  (`AuthIsRead`), each session to that config (`SessionsAreLetIn`), and the policy to the file
  the session read (`PolicyIsRead`); `AdmittedIsEntitled` and `AuthorizedIsPermitted` compare
  the code's decisions with the documented ones.
- `PromisedSuccessIsReal`: in `Jobs`, records and answers of success are of processes that
  succeeded. With `ClusterImplementsJobs` it is a second road to `SuccessesAreReal`.
- `NoChildIsOrphaned`: `Spec => []NoOrphans` for the launcher, on any number of hosts.
  `Supervised` adds what each place of the loop knows: a kill of the worker comes last,
  when the coordinator is no longer running.

Only model-checked: the liveness properties (`RunEnds`, `JobSettles`, `KillEnds`,
`LostNodeIsDropped`, `LockReturns`, `RequestEnds`, `ReadyWorkerListens`,
`WorkerFollowsCoordinator`, `SignalEnds`). Liveness under fairness, and `ENABLED`, are beyond
the prover and stay with TLC.

## 5. Not modelled

- Sandbox: `NoneSandbox` copies the command and keeps no state.
- Job diagnosis and the read-only requests (`list_jobs`, `tail_job`, `job_status`,
  `list_leases`): they take a lock, read, and send; the order of rows and the words of
  hints are not state. `job_status` is an operator of `JobStore`, as `JobStatus`.
- The log and node tables and heartbeats: written, and read only by those requests.
- Failing SQL statements; the fsync of the database (a crash keeps what was written).
- The launcher's tmux mode and files, the remaining subcommands of `agentctl`, printing,
  installers.
- The delays of backoff and termination, the contents of commands, environments and output.

## 6. Plan

1. Proofs: how far `LedgerKept` and the finality of successes go with several connections of
   a node (whose handler has not yet come to `mark_node_lost`); the invariants behind the
   liveness properties (a waiting run has a task, an event or a lag ahead of it).
2. Model: the count of a lease request; the lease table in `Requests`, so that a lease a
   torchrun names is one that was granted.
