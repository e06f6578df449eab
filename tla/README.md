# zcode-as-subagent: a verification project

TLA+ modules, TLC configurations and TLAPS proofs for the daemon of this
repository: `zcode-agentd`, which runs ZCode agents as child processes for its
callers and keeps their state in a SQLite database. Source positions are written
`store:N` for `crates/zcode-agent-store/src/lib.rs`, `agentd:N` for
`crates/zcode-agentd/src/lib.rs`, `driver:N` for `crates/zcode-driver/src/lib.rs`,
`rpc:N`, `unix:N` and `mcp:N` for `rpc.rs`, `rpc/unix.rs` and `mcp.rs` of
`zcode-agentd`, and `general:N` for `crates/zcode-agent-preparation/src/general.rs`.

## 1. The system

| Component | State it keeps | Operations | What makes it correct |
|---|---|---|---|
| durable store (`zcode-agent-store`) | tables tasks, messages, pending_requests, task_results, lifecycle_ledger, events, task_id_allocator | reserve, enqueue, claim, mark running, stop/close, requeue, restore, store result, reap; insert/claim/complete/fail message; insert/claim/complete/release request | one unfinished task per workspace; row, result and ledger agree; a stop decides the outcome; commands end once, in order |
| scheduler (`agentd:3082-5126`) | `active` registrations, operation locks, one monitor thread per runtime | `start_ready`, `start_claim`, monitor, `deliver_next_message`, `queue_message`, `respond_request`, `request_stop_or_close`, `reconcile_startup`, `shutdown_all` | every claimed task and every spawned process is in the hands of a thread that ends it; every admitted task ends |
| lifecycle gate and sink (`agentd:2364-2926`) | phase Running .. Terminal, first error, terminal written | admit event, begin natural completion, finish | no event or command after the end; late events are rejected, not applied |
| runtime owner (`agentd:900-1793`) | turn generation, published terminal, offered permissions (at most 128) | send turn, stop turn, respond, event pump | a terminal is published once and last; a stop is acknowledged by its own turn; a request is answered once |
| driver (`zcode-driver`) | pending requests, stdin pipe, stop state and its waiters, process group | request, dispatch, bounded write, stop and reap, reap of a stored group | every request is answered or failed; frames stay whole; concurrent stops agree; a reaped leader is not signalled |
| observation (`agentd:239-840`, `observation.rs`) | bounded reasoning and tool history | record, snapshot, take terminal text | bounds hold and gaps are declared |
| diagnostic log (`agentd`) | bounded queue, loss count, three files | submit, write, rotate | callers never wait; every line is on disk or in a loss marker |
| daemon (`agentd:5940-6208`, `main.rs`) | singleton lock, sockets, claim loop | start, reconcile, serve, shut down | reconciliation before publication; one daemon per database |
| RPC service and server (`rpc.rs`, `rpc/unix.rs`) | connections, wait deadlines | dispatch, `task_wait` | a wait returns at a change or its deadline |
| MCP facade (`mcp.rs`, `zcode-subagent-mcp`) | none | translate tool calls | - |
| preparation (`zcode-agent-preparation`) | scratch directory and prompt file of a task | prepare, verify, finalize, launch policy | a row holds what was submitted, whatever happens to the file |
| installer, CLI, hooks, fake runtime | files | one-shot commands, test double | - |

How they interact. Callers reach the RPC service over a unix socket; each
connection is a thread that calls the scheduler. The claim loop (`agentd:6151`),
the callers of `queue_message` and every monitor call `start_ready`, so several
threads start tasks at once. The store serializes its operations with one mutex and
IMMEDIATE transactions, so an operation is atomic, and everything between two
operations is open to other threads. Each runtime has an operation lock, taken by
the monitor, the cancel and the message calls, and a lifecycle gate. Runtime events
arrive on the driver's threads and are written through the sink.

What is hard here: state read before a store call and used after it (`active`,
the copies of a resume, the outcome of a run); a start, a monitor and a cancel
that end the same run; a crash between two transactions; results stored without
an epoch; errors of one task reported to the caller of another. The list is
`hazards` in `PROJECT.json`, each with the properties that would catch it.

## 2. Modules

Every component is a module with its own variables; the operations of the others
that reach it are actions of its environment, allowed at any time. So a property
of a component holds whatever the others do, and the components need not be
explored together. Where two are too closely tied for that they are one module:
`Scheduler` extends `TaskStore`, `EventLog` and `Interaction` hold both the rows
and the threads that write them, `TurnControl` both the monitor and the turns.

The store and the scheduler:

- `TaskStore`: the store. A column is a variable (`phase` is `tasks.phase`, with
  `ABSENT` where there is no row), an operation is an action of the same name, and an
  early return or a `WHERE` clause is its guard. Any operation may be called at any
  time with any argument. One operation is unconditional and has arguments of its own
  making: `restore_terminal_after_resume_failure` (`store:1109`) writes back the row and
  the result that `queue_message` copied before it requeued the task. So the callers
  that resume (`Resumers`) are part of the module, with the three looks, the requeue and
  the end of `queue_message` (`agentd:4511-4553`): `resume` is where each is, `copy` what
  it has copied. `restored` are the tasks whose row a restore wrote last, `left` the
  messages and requests that were open when it did; both are history, and the
  properties say with them exactly what a restore spoils.
- `WorkspaceLease`: the abstract specification. A task holds its workspace alone
  from admission to its verdict; one that was cancelled while it held it is
  CANCELLED. A task that a call acquired again is `revocable` while that call lasts: the
  call may take it back (`TakeBack`), with whatever verdict it knew. `TaskStoreLease`:
  the store implements it, with `held` the unfinished tasks, `cancelled` those with a
  pending stop or close, `verdict` the outcome column, and `revocable` the tasks that
  a caller inside `queue_message` has requeued.
- `Scheduler`: the threads over the store: the claim loop `Loop`, callers that
  resume (`Resumers`) and cancel (`Cancellers`), and the monitor of every runtime
  (`Runtimes`, one per task and epoch). `pc` and `job` are a thread's place and its
  locals; `active`, `lifecycle`, `operation`, `live` and `sinkError` are the
  scheduler's memory. A step is at most one store transaction, with what the thread
  does to that memory before the next. `live` are the runtime processes; `stray` those
  of them the row of their task does not tell of, because a restore ended the row or the
  daemon died before it had stored their identity. `Damaged` are tasks whose stored
  launch cannot be read. A daemon that does not come up is `REFUSED` (what it found in
  the database) or `UNREAPED` (the group it recorded could not be stopped).

What drives a runtime process:

- `DriverStop`: `stop_and_reap` by any number of threads: `begin_stop`,
  `perform_stop` with a step per look at the group, `finish_stop`, the child
  monitor, and a process group that forks and exits by itself.
- `PersistedReap`: the reap of a stored process group after a restart, when the
  process id may belong to somebody else, or be given away while the reap runs.
- `DriverRequests`: pending requests, the reader, the monitor and the dispatcher.
- `StdinWriter`: the frames of blocking and deadline-bound writers to one pipe.
- `RuntimeOwner`: the event pump, the commands that wait for a turn, the publisher
  and the threads that finish or drop the runtime. The drop of the driver discards a
  stop that fails (`driver:1130`).
- `TurnControl`: one run from `create_session` or `resume_session` to its result:
  turn generations, the delivery of messages, requests that hold a turn up, and the
  cooperative stop, under the operation lock and the lifecycle gate. The writes of the
  stopper to the runtime (`StopWrite`, `CloseWrite`) have no deadline (`driver:368`).

What is recorded of a run:

- `EventLog`: `append_lifecycle`, the sink's numbering and terminal event, over
  runs, crashes, resumes and failing writes. A failed resume writes its saved copy
  back whatever the row says by then, as `restore_terminal_after_resume_failure`
  does; so a late record of a requeued task can take number 1, and that numbers
  follow the source is said of the runs whose first record has number 1.
- `Interaction`: a permission request from the pump through cache, sink and row,
  and back through `respond_request` by several callers.
- `Activity`: the tracker behind two channels, its snapshots, `take_terminal_text`;
  deltas with and without an event id, model requests with and without a name.
- `Observation`: calls and reasoning of one session with their limits.
- `DiagnosticLog`: the queue, the writer, loss markers and rotation.

What clients see:

- `RpcServer`: accept loop and an error that ends it, connection limit, workers, a
  handler that panics (its slot is lost, `unix:99`), slow clients, responses that are
  too large or cannot be written, shutdown.
- `Daemon`: two processes on one database and one pair of socket paths: lock,
  reconciliation and its failure, stale sockets, bind, signals, shutdown, crash.
- `TaskWait`, `TaskPages`, `ResultPages`: the calls that read in several
  transactions: a wait and TaskResult beside resumes and their restores, the walk
  through a list, the pages of a text.
- `Submission`: preparation of a task in the shared temporary directory, the refusal of
  a busy workspace (`store:507`), its row, and the checks of the prompt file before
  every launch.

The theorems are in `TaskStoreProofs` (which also has the refinement of
`TaskStoreLease`), `SchedulerProofs`, `DriverStopProofs`, `RuntimeProofs` (the other
parts of `MCDriver`), `TurnControlProofs`, `RecordsProofs` (the log and the requests of
`MCRecords`), `ActivityProofs` (its other parts) and `ServiceProofs` (all of
`MCService`).

Instances: `MCTaskStore`, `MCScheduler`, `MCSchedulerScenarios`, and three that put
several components side by side, `MCDriver`, `MCRecords` and `MCService`. In those
a variable `focus`, chosen by the initial state and never changed, says which
component moves; the others rest in their initial state. The components share no
variable, so the reachable states of the one in focus are those of its own
specification, and an invariant that speaks of its variables is checked on all of
them. Fairness is each component's own: a condition that joins an action of one
component with one of another is, the focus being fixed, the condition of
whichever is in focus.

### Places in `Scheduler`

A starting thread: `READY` (in `start_ready`), `CLAIMED`, `SPAWNED`, `REGISTERED`,
`MARKED`/`UNMARKED`, `DELIVER`, `SENDING`, `CLEANUP`, `CLEANUP_STOP`, `PERSIST`,
`RELEASE`. A monitor is `WATCHING`, then `SENDING` or `FINISH`, `PERSIST`, `RELEASE`.
A cancel goes through `REQUEST`, `LOCK` and `PERSIST` or, at the control deadline,
`CLEANUP`. A resume goes through `REQUEUE`, the places of a start, and `RETURNED` or
`FAILED`, `RESTORE`, `REJECTED`. In the other modules too the places of a thread are
named for the call it is about to make.

### Abstractions

- Texts, digests, timestamps, prompts and JSON are left out, or are members of a
  small set where a property tells them apart. `(created_at, rowid)` is an insertion
  number. A deadline is an event: it may pass at any time.
- Repository and workspace path are equal in every prepared launch
  (`general:241`), so `Home` is both.
- An operation that fails is no step. A command that repeats what exists (same
  message id, a bound request id) changes nothing and is no step either.
- The outcomes `COMPLETED` and `CANCELLED` are special to the store; `TIMED_OUT` and
  the rest are treated alike.
- In `Scheduler`, `Requests` is empty: permission requests are in `Interaction`, and
  in `TurnControl` as a flag.
- `store_result_with_cancel_precedence` and `persist_general_completion` try twice;
  `Effective` is what the attempts come to, in one step.
- In `Scheduler`, `runtime.stop` removes the process from `live`; how it does so is
  `DriverStop`. A reap that is not proved leaves the row unreaped (the second
  disjunct of `Release`); the process is then counted as stopped.
- A claim of epoch 1 starts a session, a later one resumes it
  (`agentd:3445`: a task is resumed if and only if it has a session id).
- `start_ready` at the end of a monitor and of `fail_closed_control` does what the
  claim loop does, and only the claim loop does it here.
- `CancelRequest` joins the store's stop request with `runtime_lifecycle.request_stop`,
  which follows without another store call.
- `driver.send` (`driver:368`) takes a mutex and writes to a pipe without a deadline. In
  `Scheduler` the calls to a runtime return; that they may not is in `TurnControl`
  (`WriteHangs`) and `StdinWriter`.
- The child monitor waits one second at most for the reader (`driver:1328`); in
  `DriverRequests` that wait may run out, in `RuntimeOwner` output comes before the exit.
- `StopRequested`, `StopAcknowledged` and `ForceTerminating` are one value,
  `STOPPING`, in `Scheduler`: `ingress_reason` treats them alike. `TurnControl` tells
  them apart.
- Recovery: files that cannot be cleaned up also refuse the start, which in `Scheduler`
  is no case of its own beside `Refuse` and `RecoverFails`. `Recover` stores the result in one step and reaps in the
  next, as the code does in two transactions.
- A start that loses its registration during cleanup drops the last handle of its
  runtime, and `Drop` stops the process (`agentd:1706`).
- A process is ALIVE, EXITED or REAPED; what it writes, forks and ignores is its own
  choice. `PersistedReap` gives the id of an empty group away at any time.
- A chunk of a frame, a text or a delta stands for any number of bytes; limits are
  small constants where the code has 128 or 65536.
- An inode number in `Daemon` is free again when its file has no name and no listener.

## 3. Model checking

Deadlock checking is off in every configuration: the bounds on ids, epochs, calls and
crashes stop the model, and an idle daemon really waits for ever.

| Run | Instance | Shows |
|---|---|---|
| `store` | 2 tasks, 1 workspace, 2 epochs, 1 message; or 1 task with 3 messages or 2 and 2 requests; or 3 epochs and 2 messages; each with a caller that resumes; or 1 task and 2 such callers | TypeOK, OneTaskPerWorkspace, TablesAgree, WaitingIffOpenRequest, NoOpenMessageAfterStop, MessagesInOrder, CancelWins, ResultImmutable, CommandsSettleOnce, ImplementsLease |
| `scheduler` | CANCEL: 2 tasks and a canceller; END: 1 task, 2 messages, 2 cancellers, with fairness; RESUME: a task resumed, another queued behind it; CRASH: 1 task with 2 crashes or 2 with 1; ROUTE: a damaged task and a canceller | OneActiveAgent, NoAbandonedTask, NoLeakedRuntime, EveryTaskEnds |
| `driver` | 3 callers of 2 calls over a leader and 2 descendants, 1 of another uid; stored groups of up to 3; 2 requests beside a descendant, 2 broadcasts; 3 writers on a pipe shorter than a frame; 2 finishers and 1 stopper; 3 turns, 1 message, 1 stop | StopsCoordinated, StoppedMeansReaped, TermOnlyUnreaped, ReapIsSafe, RequestsAccounted, FramesWhole, TerminalIsSound, AcknowledgedTurn, CompletedLeavesNothing |
| `driver_live` | the same parts, 2 callers, 1 descendant, 1 request beside a descendant and 1 broadcast, 2 writers, one `send_turn` and the drop of the owner while turns complete and the runtime exits or is killed, 2 turns, an exited leader that cannot be observed | CallsReturn, TurnsFollowedUp, RuntimesEnd |
| `records` | 2 runs and 2 finishers, or 3 finishers with failing writes; 2 responders, 3 keys and a cache of 2; 3 deltas, 4 session events, 6 log lines and files of 2 | LogIsSound, ClosedGateFences, RequestsSettled, ActivityIsTrue, SnapshotIsTrue, ChangesAreNumbered, DiagnosticsKept |
| `service` | 2 clients and 1 slot; 2 daemons of 2 starts and 3 inodes; 1 reader and 2 resumers; 6 tasks in pages of 2; texts of 4 bytes; 2 submissions, 2 names and 2 workspaces | ServerIsSound, SocketsAreShared, ReadsAreTrue, RowIsSubmission, Undisturbed |
| `service_live` | shorter lists, 1 start of each process, 1 resume | DaemonReturns, ReadsEnd |

A property with several parts (RequestsSettled, CallsReturn, ...) is a conjunction of
named ones, each stated with its reason in the module of its component; the mutants
in `PROJECT.json` break the parts one by one.

The largest runs are `service` (2.1 million distinct states), `driver` and `scheduler`
(0.6 million each, the latter with liveness) and `store` (0.5 million); each takes two
to four minutes.

The bounds. Exclusion in a workspace and the ties between tables involve at most
two tasks; two epochs give every stale caller a run to interfere with; three
messages are needed for one to overtake another while a third is being sent, two
requests for one to be answered while the other is open. Two crashes include one
during the work that follows a recovery, and two tasks in a daemon that crashes show
a recovery beside a task that waits for the workspace. Two resumers are needed for one
to put an old row back over what the other started. Two cancellers include a cancel and a close
that meet at the operation lock and the deadline of the second. Three callers of a
stop are a performer, a waiter and one that comes when both have failed; a pipe
shorter than a frame makes every write partial; three turns let one end and another
begin while a stop waits for the first. A cache of two with three keys evicts; files
of two lines and six lines rotate past the third file; one slot and two clients
reach the limit; three inodes for two paths let a number come back.

Fairness. In `Scheduler`, `DaemonFairness`: the threads of the process are
scheduled, a store call returns, a wait for the operation lock ends with the lock or
the deadline (`agentd:3139`), and a monitor polls every 50 ms (`agentd:4183`). No
caller has to call. For `EveryTaskEnds` `MCSchedulerScenarios` adds that a turn ends,
by its boundary or its process. The daemon has no limit on a turn, so the property
needs it; `CancelIsAuthoritative` is stated without it, since a cancel is there for turns
that do not end. In the other modules fairness is of the daemon's own threads only:
no process has to exit, write or read, no client has to send, read or leave, and
deadlines pass (`Expire`).

What the liveness properties except, because the code does not promise it:

- A request that is registered after the dispatcher has ended, behind an oversized
  line and with a descendant that still reads, ends by its timeout only (`driver:1183`);
  every other ends with the exit (`ExitEndsRequests`).
- A stopper whose write to a runtime that does not read blocks keeps the operation lock
  (`agentd:1521`): `EndedTurnHandled` and `StopEndsRun` are of behaviours without that.
- A message whose deadline ran out between claim and send (`agentd:4447`) stays SENDING;
  a monitor that drains the queue of an exited runtime then asks for it for ever
  (`Stuck` in `MCSchedulerScenarios`).
- `DroppedMeansGone` except where the stop of the group failed.
- `ClientsAreAnswered` except in a server whose accept loop an error has ended.
- `EveryTaskEnds` assumes that the daemon's calls to a runtime return.

### Disagreements with the documents

Five runs show what the code does where a document says otherwise. `findings` in
`PROJECT.json` quotes the lines.

- `crash_restart`: a task is cancelled before it has a process (`QUEUED` to
  `CANCELLING`), the daemon dies before the result is stored, and from then on
  `reconcile_startup` refuses to start (`agentd:3319`).
- `resume_workspace`: a resume requeues its task, the claim loop starts it, the
  resume does not find it among the tasks it started and writes the old terminal row
  back; the next submission gets the workspace while the first runtime is alive. The run
  checks `WorkspaceHasOneAgent`, which is about every living runtime; `OneActiveAgent`
  of the run `scheduler` leaves out the `stray` ones.
- `resume_error`: `start_ready` fails on another task; the resume returns that error
  and leaves its own task queued, its old result deleted.
- `cancel_now`: a cancel reads `active` before the registration and asks the store
  after the start's last look; nobody stops the runtime before its turn ends.
- `reap_stranger`: the stored group is gone before the daemon starts again, its id belongs
  to another program of the same user whose leader has exited; no leader is found, so no
  start token is compared, and the reaper signals what is left of that program
  (`driver:778`).

`docs/recovery.md` says that resuming a finished session is not available at present
because the runtime refuses the message. The scheduler's path is executed all the
same up to that refusal, and the traces above need no more than that.

More was met while modelling, and is in the models as the code does it; the
properties checked are those that hold beside it:

- `agentd:4690`: a caller that repeats an answered request is told its own decision,
  which may not be the one that was sent (`Interaction`).
- `agentd:4603`: the row and its correlation id are read before the operation lock;
  after a resume in between the answer reaches a request of the next run with the
  same number. So what a RESPONDED row says, and that a pending one can be answered,
  is stated of the first run.
- A request that the full cache refused has a row but no offer. If the runtime uses its
  correlation id again and the cache then has room, a caller who answers the row
  answers the later request: `RespondedIsDelivered` allows this for a refused request,
  and for a sink that has failed and no longer makes rows.
- A resume and a cancel together can leave a runtime without a thread: another thread
  starts the requeued task, the resume writes the old terminal row back, a cancel marks
  the runtime as stopping and finds the task finished, and the monitor leaves for the
  mark. `NoLeakedRuntime` is checked with resumes and with cancels, not with both.
- A cancel that holds the registration of the earlier run and reaches the store when the
  task has been requeued makes it `CANCELLING`, which no claim takes. It is in the hands of
  the resume alone. If `start_ready` returns without it, the restore ends it, with the old
  outcome instead of CANCELLED. If `start_ready` fails on another task, `queue_message`
  returns without a restore, because the row is not TERMINAL (`agentd:4529`), and the task
  stays `CANCELLING` until the daemon is restarted. `NoAbandonedTask` is checked with
  resumes and with cancels, not with both: the constants of `ResumeError.cfg` with one
  canceller lead to this state in 24 steps.
- A restore leaves the message it could not deliver QUEUED on a TERMINAL task, adds no
  ledger row, and puts its copy over a later run if it comes late (`left`, `restored` and
  `WritesBack` in `TaskStore`).
- A stop that comes between claim and start of a task whose launch is damaged: the store
  refuses the result (`agentd:3400`), and the task stays `CANCELLING` (`RouteInvalid`).
- `rpc:930`: TaskResult reads the task and its result in two transactions, so a result
  may come with a task that was not terminal yet; `mcp:1883` says "Returns null result
  while the task is non-terminal." `ResultFitsTask` says when an answer does not fit:
  the outcome changed during the call, or two resumes overlapped.
- `unix:357`: the identity of a socket file is compared and the file then removed by
  its path; a file that replaced it in between would be removed. On one database the
  lock keeps any other daemon from making one (`Daemon`).
- A correlation key that is used a third time is offered again (`agentd:1223`); the
  Disconnected arm of the pump (`agentd:1784`) cannot be reached.
- With failing writes and a resume together, a late finisher of run 1 can end run 2:
  the reason why the records run has either the one or the other.
- `launcher` verifies the prompt file for resumed tasks as well (`agentd:2202`), so a
  purged temporary directory fails a resume that `resume_launcher` (`general:123`)
  would tolerate; `UndisturbedLaunches` is about directories nobody purged.
- The finalizer reports a cleanup and removes nothing, and a submission refused for
  its scope leaves its scratch directory.

## 4. Proofs

TLAPS proves, for every value of the constants that satisfies the named assumptions
of the module:

`TaskStore` (any set of workspaces, messages and requests, any range of ids, limit
and epoch bound). `NextCases` lists the operations once; each preservation lemma has
one step per operation.

- `TypeCorrect`: TypeOK is inductive.
- `WorkspaceExclusive`: `PhaseStep` says that a step moves one task, and that it
  becomes busy only when no other of its workspace is; exclusion follows.
- `RowsAlwaysAgree`: TablesAgree, with restores: a row in `restored` is TERMINAL, every
  other agrees with result and ledger. Needs `StopIsFinal`, a stop is pending only on a
  task that is CANCELLING or TERMINAL. Without it, `apply_terminal` could override an outcome that
  `store_task_result` has already written.
- `MessagesStayInOrder`: needs `MessageRowsNumbered`, the next row number is unused.
- `WaitingMeansOpenRequest`: uses `StopIsFinal` for the case that
  `complete_pending_response` finds a stop and keeps the phase.
- `NothingSentAfterStop`: inductive with TypeOK; `left` takes in what a restore leaves.
- `CancelAlwaysWins`, `ResultsAreImmutable`: action properties, from the row invariant.
  Each excepts one kind of step, `WritesBack`: the caller that requeued the task ends its
  `queue_message` with the restore.
- `CommandsStaySettled`: an action property; only operations on an open command, and
  a stop for the open ones, touch its state.
- `StoreImplementsLease`: initial states map to initial states and every operation
  to a lease step or a stutter, given TypeOK and the row invariant: the restore to
  `TakeBack`, the return of a resume and the death of its process to `Settle`.

`Scheduler` (any set of tasks, workspaces, messages, cancellers; any number of crashes),
under `Resumers = {}`: nobody resumes a finished task. The assumption cannot be dropped:
the resumes that meet a cancel, described in section 3, are counterexamples to
`TasksStayInHand` and `RuntimesStayInHand`.

- `SchedulerUsesStore`: `SchedSpec => Spec`. Every step of a thread is one operation of
  the store or none, the crash included, so the theorems about `TaskStore` hold of the
  database under the scheduler.
- `TasksStayInHand` (NoAbandonedTask), `RuntimesStayInHand` (NoLeakedRuntime, until a
  crash), `OneRuntimePerWorkspace` (OneActiveAgent, through any number of crashes). The
  invariant `SchedInv` follows the custody of a run. `LoopJob`, `MonitorJob` and `CancellerJob` say what
  each kind of thread may be working on and where; `Custody`, that an active task has a
  thread in charge and, once a stop of its run has begun, a thread that goes on to store
  a result; `LiveRuns`, that a living process has an unfinished task, and that who
  stores its result has stopped it; `Fresh`, that a run which is not registered is known
  to the claim loop alone. That some thread is in charge is not inductive: a thread
  leaves when it finds that another has begun the stop, and only the second part of
  `Custody` says that this other one is still there and will finish.
  `OneRuntimePerWorkspace` combines `LiveRuns` with exclusion in the store; the runtimes in `stray` are those of which a crash left no record.

`DriverStop` (any finite set of threads, any descendants). The invariant is
`Coordinated /\ Proved`. `Coordinated` says who performs, who waits for which
attempt, and that the count of waiters is the number of threads that wait: it needs
the count also of a driver that was never stopped. `Proved` carries what a performer
has seen from one look to the next: it holds the child mutex throughout
(`ChildHeld`), so the leader it found unreaped stays so until it is signalled
(`LeaderKept`), and it comes to its end only behind a reaped leader and an empty
group (`EnsuredBehind`, `OutcomeProved`).

- `StopIsCoordinated`: TypeOK and StopsCoordinated.
- `StoppedIsProved`: StoppedMeansReaped.
- `TermIsSafe`: TermOnlyUnreaped.

`PersistedReap`, `StdinWriter`, `RuntimeOwner`, `DriverRequests` (any descendants;
writers, frame lengths and capacities; finishers, senders and stoppers; requests and
output), in `RuntimeProofs`:

- `ReapDecidesOnce`: ReapIsSafe. `found` keeps what the reaper saw of the leader at its
  first look and that the id was given away afterwards; a group that is signalled is
  the stored one, or no leader was found, or the id was given away (`FoundLeaderDecides`).
  That strangers are spared altogether is not so: see `reap_stranger`.
- `FramesStayWhole`: FramesWhole. `LastChunk` says whose frame the pipe ends with, and
  that it is whole, given up, or its writer still holds the mutex.
- `TerminalStaysSound`: TerminalIsSound. `ExitIsLast` orders the driver's stream,
  `StoppersProved` carries the reap to whoever publishes.
- `RequestsStayAccounted`: RequestsAccounted. `Hands`, a pending request has somebody
  who removes it; `AnswerOnItsWay` and `StreamEnds` follow an answer from the process
  through reader and queue, `ExitBehind` that the exit is dispatched after it.

`EventLog` and `Interaction`, in `RecordsProofs`:

- `LogStaysSound`: LogIsSound, and `GateStaysClosed`: ClosedGateFences, for any number
  of runs, records and finishers, with and without failing writes. `LogInv` ties the
  sink's counter and its pending terminal to the rows that are there (`SinkCounts`,
  `SourcesAgree`), says that a finished run has its gate closed (`FinishedIsClosed`)
  and that the counter of a queued task starts again or is past its rows
  (`QueuedInOrder`).
- `RequestsStaySettled`: RequestsSettled, for any callers, correlation ids, cache size,
  requests and runs. An answer goes to the last request with its key; that this is
  answered once needs `AskOffersFresh`: an offer in the cache is of the last request
  with its key and that one has no answer, except while the responder that gave it
  still holds the operation mutex and is about to forget the offer or to give up the
  run. That a RESPONDED row was told needs, besides, `AskFirstRows`, a claim is kept until its
  responder ends it or the run ends, and `AskFirstOffers`, an open row's offer is for
  that row or the responder is done with it. These two are about the first run: later
  runs meet the rows of earlier ones, see section 3.

`Activity`, `Observation` and `DiagnosticLog` (any inputs, any limits), in
`ActivityProofs`:

- `ActivityStaysTrue`: ActivityIsTrue. `Sampled`, as long as the identities fit none is
  forgotten and every chunk of the text is among them as the session's own, so a delta
  that comes twice or by both channels is recognised; `MessagesApart`, the buffers of
  messages and the progress have no chunk in common; `ActiveHeld`, what is shown as
  active is so by what one of the channels said last.
- `SnapshotStaysTrue`: SnapshotIsTrue, and `ChangesStayNumbered`: ChangesAreNumbered, an
  action property. `GroupsHold` says it of every tool whether the history is complete
  or not: its count is the number of calls known under its name, its newest call comes
  first and no number is above the last one given. That the newest stay in front needs
  the last part; that the count is right needs that a call, once known, keeps its name.
- `DiagnosticsStayKept`: DiagnosticsKept. `DiagOrder`, the log, the line in hand, the
  queue and the next submission come in this order; `DiagFiles` and `MainIsEnd`, the
  file is the end of the log and is cut only when `.1` holds a copy; `DiagNewest`. That
  an interrupted rotation loses nothing rests on `MainIsEnd`: while `.1` is
  overwritten the file itself holds the newest.

`TurnControl` (any number of turns and messages):

- `StopMeetsItsTurn`: AcknowledgedTurn. A snapshot is compared with the history of
  turns: `Unended`, a turn that runs or is to come has not ended, keeps the history
  from being rewritten; `Snapped`, every snapshot a thread holds that shows a
  boundary shows the one in the history.
- `NothingLeftBehind`: CompletedLeavesNothing. `Held`, who works on the turns or
  accepts a message has the operation lock; `Closed`, the gate is closed only for a
  stop that is in the store or at the end; `Judged`, what the monitor found empty at a
  completed turn is still empty when it ends the run, unless a stop came first.

`Submission`, `RpcServer`, `Daemon` and the reading calls (any number of submissions and
directory names; clients, limit and frame cap; processes and inodes, on one database;
callers, tasks, page sizes and texts), in `ServiceProofs`:

- `RowsAreFaithful`: RowIsSubmission. `Compared`: what is about to be inserted was
  compared with the manifest after it was last read, so no change to the file in
  between can enter the row.
- `NobodyIsDisturbed`: Undisturbed. `FileInv` says that a directory belongs to one
  submission and that what this one put there is still there, until another program
  interferes. A refusal for the workspace is one because another submission was stored
  in it (`Met`).
- `ServerStaysSound`: ServerIsSound. `Queued`, a connection is in the backlog once and
  nobody works on it yet; `Told`, how often a call was carried out at each place of its
  worker; `Slots`, every worker, and every handler that panicked, is counted, and a
  worker has its handle, so that the accept thread, which joins the handles, ends behind
  the last of them.
- `SocketsStayShared`: SocketsAreShared. `Held`, only the holder of the database lock is
  past its acquisition or listens; `AtStart` and `AtStop`, what it saw of a path at one
  look is so at the next, since nobody else may change it. That is why the
  looks and the removals, which are separate steps, agree, and why the second removal
  of shutdown never finds a file, and why a start that has reconciled binds both paths
  (`HolderBinds`). All of it rests on one database: daemons on different
  databases have different locks and the theorem does not speak of them.
- `ReadsStayTrue`: ReadsAreTrue. A wait or TaskResult: row and result are of one run as
  long as no two resumes have overlapped, so a resumer's copy is too when it comes to
  be put back; and what a call has read is still so as long as the outcome has not
  changed. The list: the query gives the rows below the cursor
  once and in order (each row has its rank, and by the pigeonhole principle every rank
  a row); `CursorSplits`, what was listed is at the cursor or above, and no row that
  met the filter all along is missing there. The text: an end of a page lies on a
  boundary, at or behind its offset, and `HasPrefix` ties the pages to one text.

The constants satisfy the assumptions named in the modules: bounds are natural
numbers, `Nobody` is no thread and `NoKey` no key, threads of different kinds have
different names, the outcomes the scheduler stores are outcomes. TLC evaluates them on
every run.

Only model-checked: liveness, which is out of the prover's reach with ENABLED
(EveryTaskEnds, CallsReturn, TurnsFollowedUp, RuntimesEnd, DaemonReturns, ReadsEnd),
and `Scheduler` with resumes, where the properties hold only of the instances of the
run `scheduler`. Every other property of a passing run is stated by a theorem.

## 5. Not modelled, and what is left

- The launch policy (`policy.rs`): pure decisions on paths and command text. A model
  shorter than the code would have to leave out the text, and nothing else is there.
- The protocol codec, validation and projection of parameters, the facade's
  translation of tool calls: no state, no order of events.
- The fake runtime is a test double. The installer, the CLI and the plugin hooks are
  one-shot commands in other processes.
- Schema migration of the database.
- Rates over time windows in the activity tracker, and clocks in general.

Left for later: a run for each of the observations of section 3 that quotes a
document.
