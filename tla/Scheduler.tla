----------------------------- MODULE Scheduler -----------------------------
(***************************************************************************)
(* The scheduler of the daemon (crates/zcode-agentd/src/lib.rs) over the   *)
(* store: the threads that start claimed tasks, the monitor thread of each *)
(* runtime, the callers that cancel a task or resume a finished one, and a *)
(* daemon that crashes and reconciles its database at the next start.      *)
(*                                                                         *)
(* A thread's steps are its store transactions and what it does between    *)
(* two of them to the scheduler's memory; every other thread may run in    *)
(* between.  Permission requests are left out (Requests is empty here).    *)
(***************************************************************************)
EXTENDS TaskStore

CONSTANTS
    Loop,         \* the claim loop of the daemon: start_ready again and again
    Cancellers,   \* callers of cancel_task and close_task
    NoThread,     \* holder of a free operation lock
    NoMessage,
    Damaged,      \* tasks whose stored launch is not the one that was enqueued
    MaxCrashes    \* bound on daemon crashes

ASSUME ThreadAssumption ==
    /\ Loop \notin Resumers
    /\ Loop \notin Cancellers
    /\ Resumers \cap Cancellers = {}
ASSUME CrashAssumption == MaxCrashes \in Nat
ASSUME DamageAssumption == Damaged \subseteq Agents
\* The outcomes that the scheduler itself stores.
ASSUME ForcedAssumption == {"FAILED", "RUNTIME_LOST", "RESULT_INVALID"} \subseteq Outcome

\* One runtime process per claim; it is also the name of its monitor thread.
Runtimes == Agents \X (1 .. MaxEpoch)
Starters == {Loop} \cup Resumers
Threads == Starters \cup Cancellers \cup Runtimes

ASSUME MonitorAssumption == (Starters \cup Cancellers) \cap Runtimes = {}

VARIABLES
    daemon,      \* UP, RECOVERING, or why reconcile_startup failed: REFUSED on a row
                 \* it cannot recover, UNREAPED when a process group did not go
    pc,          \* where each thread stands
    job,         \* what it works on
    started,     \* tasks its start_ready reported as started
    active,      \* SchedulerState.active: epoch of the registered runtime, or 0
    lifecycle,   \* RuntimeLifecycle of each runtime: RUNNING, STOPPING, TERMINAL
    operation,   \* holder of each runtime's operation lock
    live,        \* runtimes that were spawned and not stopped
    sinkError,   \* runtimes whose lifecycle sink holds an error
    stray,       \* history: runs whose task's row does not tell of their runtime
    crashes

memory == <<active, lifecycle, operation, live, sinkError>>
callers == <<started, stray>>
schedVars == <<daemon, pc, job, callers, memory, crashes>>
allVars == <<vars, schedVars>>

Idle == [agent |-> NoAgent, epoch |-> 0, force |-> "NONE", then |-> "IDLE",
         message |-> NoMessage]

\* The claim loop is always between two calls of start_ready or inside one.
InitialPc == [t \in Threads |-> IF t = Loop THEN "READY" ELSE "IDLE"]

SchedInit ==
    /\ Init
    /\ daemon = "UP"
    /\ pc = InitialPc
    /\ job = [t \in Threads |-> Idle]
    /\ started = [t \in Starters |-> {}]
    /\ stray = {}
    /\ active = [a \in Agents |-> 0]
    /\ lifecycle = [rt \in Runtimes |-> "RUNNING"]
    /\ operation = [rt \in Runtimes |-> NoThread]
    /\ live = {}
    /\ sinkError = {}
    /\ crashes = 0

-----------------------------------------------------------------------------
At(t, place) == daemon = "UP" /\ pc[t] = place
GoTo(t, place) == pc' = [pc EXCEPT ![t] = place]
Agent(t) == job[t].agent
Epoch(t) == job[t].epoch
Runtime(t) == <<Agent(t), Epoch(t)>>
\* An error leaves start_ready: the claim loop records it and calls again.
Failure(t) == IF t \in Resumers THEN "FAILED" ELSE IF t = Loop THEN "READY" ELSE "IDLE"

Aim(t, force, then) ==
    job' = [job EXCEPT ![t] = [@ EXCEPT !.force = force, !.then = then]]

Free(rt) == operation[rt] = NoThread
Lock(t, rt) == operation' = [operation EXCEPT ![rt] = t]
Unlocked(t) == [rt \in Runtimes |-> IF operation[rt] = t THEN NoThread ELSE operation[rt]]

\* Mutant of Effective: no retry as CANCELLED when a stop overtook the result.
EffectiveIgnoresStop(a, force) ==
    IF force = "COMPLETED" /\ OpenRequests(a) \cup OpenMessages(a) # {}
    THEN "RESULT_INVALID" ELSE force

\* What persisting `force` comes to after the retries of
\* store_result_with_cancel_precedence and persist_general_completion: a pending
\* stop or close wins, a completion with open commands is RESULT_INVALID, and a
\* task that already has a result or is queued again stays as it is.
Effective(a, force) ==
    IF Stopping(a) THEN "CANCELLED"
    ELSE IF force = "COMPLETED" /\ OpenRequests(a) \cup OpenMessages(a) # {}
         THEN "RESULT_INVALID" ELSE force

PersistResult(a, force) ==
    IF result[a] = NoResult /\ phase[a] \in ActivePhase
    THEN \E text \in Texts :
            StoreTaskResult(a, [outcome |-> Effective(a, force), text |-> text])
    ELSE UNCHANGED vars

Persist(t) ==
    /\ At(t, "PERSIST")
    /\ PersistResult(Agent(t), job[t].force)
    /\ GoTo(t, "RELEASE")
    /\ UNCHANGED <<daemon, job, callers, memory, crashes>>

\* The end of every way to finish a run: reap_task when the process group is
\* proved gone, release_active when the registration is still this epoch's, and
\* the operation lock if this thread holds it.
Release(t) ==
    /\ At(t, "RELEASE")
    /\ \/ /\ job[t].force # "NONE"
          /\ ReapTask(Agent(t))
       \/ UNCHANGED vars
    /\ IF Epoch(t) > 0 /\ active[Agent(t)] = Epoch(t)
       THEN /\ active' = [active EXCEPT ![Agent(t)] = 0]
            /\ lifecycle' = [lifecycle EXCEPT ![Runtime(t)] = "TERMINAL"]
       ELSE UNCHANGED <<active, lifecycle>>
    /\ operation' = Unlocked(t)
    /\ GoTo(t, job[t].then)
    /\ job' = [job EXCEPT ![t] = Idle]
    /\ UNCHANGED <<daemon, callers, live, sinkError, crashes>>

-----------------------------------------------------------------------------
(***************************************************************************)
(* start_ready and start_claim                                             *)
(***************************************************************************)

Claim(t) ==
    /\ At(t, "READY")
    /\ \E a \in Agents :
          /\ ClaimNext(a)
          /\ job' = [job EXCEPT ![t] = [Idle EXCEPT !.agent = a,
                                                   !.epoch = ownerEpoch[a] + 1]]
    /\ GoTo(t, "CLAIMED")
    /\ UNCHANGED <<daemon, callers, memory, crashes>>

\* Nothing is claimable: start_ready returns the tasks it started.
NothingToClaim(t) ==
    /\ At(t, "READY")
    /\ t \in Resumers
    /\ \A a \in Agents : ~Claimable(a)
    /\ GoTo(t, "RETURNED")
    /\ UNCHANGED <<vars, daemon, job, callers, memory, crashes>>

\* task_route rejects the stored launch: the result is stored without the precedence
\* of a stop, which the store then refuses, and the row is not reaped.
RouteInvalid(t) ==
    /\ At(t, "CLAIMED")
    /\ Agent(t) \in Damaged
    /\ IF result[Agent(t)] = NoResult /\ phase[Agent(t)] \in ActivePhase /\ ~Stopping(Agent(t))
       THEN PersistResult(Agent(t), "RESULT_INVALID")
       ELSE UNCHANGED vars
    /\ GoTo(t, Failure(t))
    /\ job' = [job EXCEPT ![t] = Idle]
    /\ UNCHANGED <<daemon, callers, memory, crashes>>

\* The policy is invalid or the factory cannot spawn: finish_unstarted_route.
SpawnFails(t) ==
    /\ At(t, "CLAIMED")
    /\ Agent(t) \notin Damaged
    /\ \E force \in {"FAILED", "RESULT_INVALID"} : Aim(t, force, Failure(t))
    /\ GoTo(t, "PERSIST")
    /\ UNCHANGED <<vars, daemon, callers, memory, crashes>>

Spawn(t) ==
    /\ At(t, "CLAIMED")
    /\ Agent(t) \notin Damaged
    /\ live' = live \cup {Runtime(t)}
    /\ GoTo(t, "SPAWNED")
    /\ UNCHANGED <<vars, daemon, job, callers, active, lifecycle, operation, sinkError,
                   crashes>>

\* Mutants of SessionFails: the runtime is not stopped; the task is not finished.
SessionFailsUnstopped(t) ==
    /\ At(t, "SPAWNED")
    /\ Aim(t, "FAILED", Failure(t))
    /\ GoTo(t, "PERSIST")
    /\ UNCHANGED <<vars, daemon, callers, memory, crashes>>
SessionFailsUnfinished(t) ==
    /\ At(t, "SPAWNED")
    /\ live' = live \ {Runtime(t)}
    /\ job' = [job EXCEPT ![t] = Idle]
    /\ GoTo(t, Failure(t))
    /\ UNCHANGED <<vars, daemon, callers, active, lifecycle, operation, sinkError, crashes>>

\* Bootstrap, resume or the model check fails: stop, then finish_unstarted_route.
SessionFails(t) ==
    /\ At(t, "SPAWNED")
    /\ live' = live \ {Runtime(t)}
    /\ Aim(t, "FAILED", Failure(t))
    /\ GoTo(t, "PERSIST")
    /\ UNCHANGED <<vars, daemon, callers, active, lifecycle, operation, sinkError, crashes>>

Register(t) ==
    /\ At(t, "SPAWNED")
    /\ active' = [active EXCEPT ![Agent(t)] = Epoch(t)]
    /\ GoTo(t, "REGISTERED")
    /\ UNCHANGED <<vars, daemon, job, callers, lifecycle, operation, live, sinkError, crashes>>

Mark(t) ==
    /\ At(t, "REGISTERED")
    /\ \/ MarkSessionRunning(Agent(t), Epoch(t)) /\ GoTo(t, "MARKED")
       \/ /\ phase[Agent(t)] # "PREPARING" \/ ownerEpoch[Agent(t)] # Epoch(t)
          /\ UNCHANGED vars
          /\ GoTo(t, "UNMARKED")
    /\ UNCHANGED <<daemon, job, callers, memory, crashes>>

\* Mutant of ReadUnmarked: a start that lost its row returns without cleaning up.
ReturnUnmarked(t) ==
    /\ At(t, "UNMARKED")
    /\ job' = [job EXCEPT ![t] = Idle]
    /\ GoTo(t, "READY")
    /\ UNCHANGED <<vars, daemon, callers, memory, crashes>>

\* The row was not PREPARING: a stop is a cancellation, anything else a start race.
ReadUnmarked(t) ==
    /\ At(t, "UNMARKED")
    /\ Aim(t, IF Stopping(Agent(t)) \/ phase[Agent(t)] \in {"CANCELLING", "TERMINAL"}
              THEN "CANCELLED" ELSE "FAILED", "READY")
    /\ GoTo(t, "CLEANUP")
    /\ UNCHANGED <<vars, daemon, callers, memory, crashes>>

\* start_claim hands the runtime to its monitor thread and returns Ok(true).
SpawnMonitor(t) ==
    /\ pc' = [pc EXCEPT ![t] = "READY", ![Runtime(t)] = "WATCHING"]
    /\ job' = [job EXCEPT ![t] = Idle,
                          ![Runtime(t)] = [Idle EXCEPT !.agent = Agent(t),
                                                       !.epoch = Epoch(t)]]
    /\ started' = [started EXCEPT ![t] = @ \cup {Agent(t)}]

\* The row is read again after mark_session_running.  A claim of epoch 2 or more is
\* a resume: its session exists already and its message is sent first.
ReadMarked(t) ==
    /\ At(t, "MARKED")
    /\ \/ /\ Stopping(Agent(t)) \/ phase[Agent(t)] # "RUNNING"
          /\ Aim(t, "CANCELLED", "READY")
          /\ GoTo(t, "CLEANUP")
          /\ UNCHANGED started
       \/ /\ ~Stopping(Agent(t)) /\ phase[Agent(t)] = "RUNNING"
          /\ Epoch(t) = 1
          /\ SpawnMonitor(t)
       \/ /\ ~Stopping(Agent(t)) /\ phase[Agent(t)] = "RUNNING"
          /\ Epoch(t) > 1
          /\ GoTo(t, "DELIVER")
          /\ UNCHANGED <<job, started>>
    /\ UNCHANGED <<vars, daemon, stray, memory, crashes>>

-----------------------------------------------------------------------------
(***************************************************************************)
(* deliver_next_message, called under the operation lock                   *)
(***************************************************************************)

Deliverable(a) ==
    /\ phase[a] = "RUNNING"
    /\ ~Stopping(a)
    /\ \E m \in OpenMessages(a) : messageState[m] = "QUEUED"

TakeMessage(t, rt) ==
    \E m \in Messages :
        /\ ClaimNextMessage(rt[1], m)
        /\ job' = [job EXCEPT ![t] = [@ EXCEPT !.message = m]]

\* A resume sends its message before the monitor exists.  Stopped meanwhile: the
\* error cleans the runtime up.  No message left: the resume counts as started.
Deliver(t) ==
    /\ At(t, "DELIVER")
    /\ Free(Runtime(t))
    /\ \/ /\ lifecycle[Runtime(t)] # "RUNNING"
          /\ Aim(t, "FAILED", Failure(t))
          /\ GoTo(t, "CLEANUP")
          /\ Lock(t, Runtime(t))
          /\ UNCHANGED <<vars, started>>
       \/ /\ lifecycle[Runtime(t)] = "RUNNING"
          /\ TakeMessage(t, Runtime(t))
          /\ GoTo(t, "SENDING")
          /\ Lock(t, Runtime(t))
          /\ UNCHANGED started
       \/ /\ lifecycle[Runtime(t)] = "RUNNING"
          /\ ~Deliverable(Agent(t))
          /\ SpawnMonitor(t)
          /\ UNCHANGED <<vars, operation>>
    /\ UNCHANGED <<daemon, stray, active, lifecycle, live, sinkError, crashes>>

\* send_turn succeeds and the message is still SENDING.
SendSucceeds(t) ==
    /\ At(t, "SENDING")
    /\ Runtime(t) \in live
    /\ CompleteMessage(job[t].message)
    /\ IF t \in Runtimes
       THEN /\ GoTo(t, "WATCHING")
            /\ job' = [job EXCEPT ![t] = [@ EXCEPT !.message = NoMessage]]
            /\ UNCHANGED started
       ELSE SpawnMonitor(t)
    /\ operation' = Unlocked(t)
    /\ UNCHANGED <<daemon, stray, active, lifecycle, live, sinkError, crashes>>

\* The runtime refuses the turn, or a stop settled the message while it was sent, or
\* the deadline ran out before the send and the message stays SENDING.  A start cleans
\* up; a monitor ends the run, or goes on when it was draining the queue of a runtime
\* that had completed and exited.
SendFails(t) ==
    /\ At(t, "SENDING")
    /\ FailMessage(job[t].message) \/ UNCHANGED vars
    /\ \/ /\ t \notin Runtimes
          /\ Aim(t, "FAILED", Failure(t))
          /\ GoTo(t, "CLEANUP")
          /\ UNCHANGED operation
       \/ /\ t \in Runtimes
          /\ Aim(t, "FAILED", "IDLE")
          /\ GoTo(t, "FINISH")
          /\ UNCHANGED operation
       \/ /\ t \in Runtimes
          /\ GoTo(t, "WATCHING")
          /\ operation' = Unlocked(t)
          /\ UNCHANGED job
    /\ UNCHANGED <<daemon, callers, active, lifecycle, live, sinkError, crashes>>

-----------------------------------------------------------------------------
(***************************************************************************)
(* cleanup_registered_runtime                                              *)
(***************************************************************************)

\* request_runtime_stop checks no epoch: it stops whatever run the row is in.
Cleanup(t) ==
    /\ At(t, "CLEANUP")
    /\ RequestRuntimeStop(Agent(t))
    /\ Aim(t, IF Stopping(Agent(t)) THEN "CANCELLED" ELSE job[t].force, job[t].then)
    /\ GoTo(t, "CLEANUP_STOP")
    /\ UNCHANGED <<daemon, callers, memory, crashes>>

\* With the registration gone the caller gets an error and no result is written.  A
\* start then drops the last handle of its runtime, which stops it (Drop).
CleanupStop(t) ==
    /\ At(t, "CLEANUP_STOP")
    /\ IF active[Agent(t)] = Epoch(t)
       THEN /\ live' = live \ {Runtime(t)}
            /\ lifecycle' = [lifecycle EXCEPT ![Runtime(t)] = "TERMINAL"]
            /\ GoTo(t, "PERSIST")
            /\ UNCHANGED <<job, operation>>
       ELSE /\ operation' = Unlocked(t)
            /\ GoTo(t, Failure(t))
            /\ job' = [job EXCEPT ![t] = Idle]
            /\ live' = IF t \in Starters THEN live \ {Runtime(t)} ELSE live
            /\ UNCHANGED lifecycle
    /\ UNCHANGED <<vars, daemon, callers, active, sinkError, crashes>>

-----------------------------------------------------------------------------
(***************************************************************************)
(* spawn_monitor: t is the monitor of the runtime t                        *)
(***************************************************************************)

\* The monitor of a runtime that completed and exited, so that a send to it has failed,
\* asks for the next message as long as any is open: also for ever, for one that was
\* claimed and will not be sent any more.
Draining(t) ==
    /\ job[t].message # NoMessage
    /\ lifecycle[t] = "RUNNING"
    /\ OpenMessages(t[1]) # {}

Watching(t) == At(t, "WATCHING") /\ Free(t)

Finish(t, force) ==
    /\ job' = [job EXCEPT ![t] = [@ EXCEPT !.force = force, !.then = "IDLE",
                                           !.message = NoMessage]]
    /\ GoTo(t, "FINISH")
    /\ Lock(t, t)

Leave(t) == GoTo(t, "IDLE") /\ UNCHANGED <<job, operation>>

\* The runtime ended on its own, or another thread stopped it.  A runtime that is
\* already terminal is left to the thread that stopped it.
ObserveTerminal(t) ==
    /\ Watching(t)
    /\ ~Draining(t)
    /\ live' = live \ {t}
    /\ IF lifecycle[t] = "TERMINAL"
       THEN Leave(t)
       ELSE Finish(t, IF t \in live THEN "RUNTIME_LOST" ELSE "CANCELLED")
    /\ UNCHANGED <<vars, daemon, callers, active, lifecycle, sinkError, crashes>>

\* turn.completed: begin_natural_completion closes the ingress unless a command is
\* open; then the next message is sent instead.
ObserveCompleted(t) ==
    /\ Watching(t)
    /\ t \in live
    /\ \/ /\ lifecycle[t] = "RUNNING" => ~Deliverable(t[1])
          /\ ~Draining(t)
          /\ \E force \in {"COMPLETED", "RESULT_INVALID"} : Finish(t, force)
          /\ lifecycle' = IF lifecycle[t] = "RUNNING" /\ OpenMessages(t[1]) = {}
                          THEN [lifecycle EXCEPT ![t] = "TERMINAL"] ELSE lifecycle
          /\ UNCHANGED vars
       \/ /\ lifecycle[t] = "RUNNING"
          /\ TakeMessage(t, t)
          /\ GoTo(t, "SENDING")
          /\ Lock(t, t)
          /\ UNCHANGED lifecycle
    /\ UNCHANGED <<daemon, callers, active, live, sinkError, crashes>>

\* turn.failed or turn.cancelled: a stop in progress is left to the thread that
\* asked for it; otherwise the next message is tried before the run ends.
ObserveFailed(t) ==
    /\ Watching(t)
    /\ ~Draining(t)
    /\ t \in live
    /\ \/ lifecycle[t] # "RUNNING" /\ Leave(t) /\ UNCHANGED vars
       \/ lifecycle[t] = "RUNNING" /\ ~Deliverable(t[1]) /\ Finish(t, "FAILED") /\ UNCHANGED vars
       \/ /\ lifecycle[t] = "RUNNING"
          /\ TakeMessage(t, t)
          /\ GoTo(t, "SENDING")
          /\ Lock(t, t)
    /\ UNCHANGED <<daemon, callers, active, lifecycle, live, sinkError, crashes>>

\* append_lifecycle rejects an event of a run that the row no longer knows, and the
\* sink keeps the error.
LateEvent(rt) ==
    /\ daemon = "UP"
    /\ rt \in live
    /\ lifecycle[rt] = "RUNNING"
    /\ phase[rt[1]] = "TERMINAL" \/ ownerEpoch[rt[1]] # rt[2]
    /\ sinkError' = sinkError \cup {rt}
    /\ UNCHANGED <<vars, daemon, pc, job, callers, active, lifecycle, operation, live, crashes>>

ObserveSinkError(t) ==
    /\ Watching(t)
    /\ ~Draining(t)
    /\ t \in sinkError
    /\ live' = live \ {t}
    /\ lifecycle' = [lifecycle EXCEPT ![t] = IF @ = "TERMINAL" THEN @ ELSE "STOPPING"]
    /\ Finish(t, "RUNTIME_LOST")
    /\ UNCHANGED <<vars, daemon, callers, active, sinkError, crashes>>

\* finish_locked_monitor_terminal: a run that is over or no longer this epoch's is
\* only released.
FinishMonitor(t) ==
    /\ At(t, "FINISH")
    /\ IF phase[t[1]] = "TERMINAL" \/ ownerEpoch[t[1]] # t[2]
       THEN /\ Aim(t, "NONE", "IDLE")
            /\ GoTo(t, "RELEASE")
            /\ UNCHANGED lifecycle
       ELSE /\ Aim(t, IF Stopping(t[1]) THEN "CANCELLED"
                      ELSE IF t \in sinkError /\ job[t].message = NoMessage
                           THEN "RUNTIME_LOST" ELSE job[t].force, "IDLE")
            /\ GoTo(t, "PERSIST")
            /\ lifecycle' = [lifecycle EXCEPT ![t] = "TERMINAL"]
    /\ live' = live \ {t}
    /\ UNCHANGED <<vars, daemon, callers, active, operation, sinkError, crashes>>

-----------------------------------------------------------------------------
(***************************************************************************)
(* request_stop_or_close                                                   *)
(***************************************************************************)

\* active_session: the registration is read before the store is asked.
CancelBegin(t, a) ==
    /\ At(t, "IDLE")
    /\ phase[a] # "ABSENT"
    /\ job' = [job EXCEPT ![t] = [Idle EXCEPT !.agent = a, !.epoch = active[a]]]
    /\ GoTo(t, "REQUEST")
    /\ UNCHANGED <<vars, daemon, callers, memory, crashes>>

\* A queued task without a runtime is finished here; one whose runtime was seen is
\* stopped under the operation lock; any other is left to the thread that starts it.
CancelRequest(t) ==
    /\ At(t, "REQUEST")
    /\ RequestStop(Agent(t)) \/ RequestClose(Agent(t))
    /\ lifecycle' = IF Epoch(t) > 0 /\ lifecycle[Runtime(t)] = "RUNNING"
                    THEN [lifecycle EXCEPT ![Runtime(t)] = "STOPPING"] ELSE lifecycle
    /\ \/ /\ phase[Agent(t)] = "QUEUED" /\ Epoch(t) = 0
          /\ Aim(t, "CANCELLED", "IDLE")
          /\ GoTo(t, "PERSIST")
       \/ /\ phase[Agent(t)] \in ActivePhase
          /\ Epoch(t) > 0 /\ Epoch(t) = ownerEpoch[Agent(t)]
          /\ Aim(t, "CANCELLED", "IDLE")
          /\ GoTo(t, "LOCK")
       \/ /\ \/ phase[Agent(t)] = "TERMINAL"
             \/ phase[Agent(t)] = "QUEUED" /\ Epoch(t) > 0
             \/ /\ phase[Agent(t)] \in ActivePhase
                /\ Epoch(t) = 0 \/ Epoch(t) # ownerEpoch[Agent(t)]
          /\ job' = [job EXCEPT ![t] = Idle]
          /\ GoTo(t, "IDLE")
    /\ UNCHANGED <<daemon, callers, active, operation, live, sinkError, crashes>>

\* Cooperative stop, forced stop, then finish_routed_terminal.  The registration is
\* looked up again under the lock, of any epoch.
CancelStop(t) ==
    /\ At(t, "LOCK")
    /\ Free(Runtime(t))
    /\ IF active[Agent(t)] = 0
       THEN /\ job' = [job EXCEPT ![t] = Idle]
            /\ GoTo(t, "IDLE")
            /\ UNCHANGED <<live, lifecycle, operation>>
       ELSE /\ live' = live \ {Runtime(t)}
            /\ lifecycle' = [lifecycle EXCEPT ![<<Agent(t), active[Agent(t)]>>] = "TERMINAL"]
            /\ Lock(t, Runtime(t))
            /\ GoTo(t, "PERSIST")
            /\ UNCHANGED job
    /\ UNCHANGED <<vars, daemon, callers, active, sinkError, crashes>>

\* lock_operation runs into the control deadline: fail_closed_control.
CancelTimeout(t) ==
    /\ At(t, "LOCK")
    /\ ~Free(Runtime(t))
    /\ IF active[Agent(t)] = Epoch(t)
       THEN Aim(t, "FAILED", "IDLE") /\ GoTo(t, "CLEANUP")
       ELSE job' = [job EXCEPT ![t] = Idle] /\ GoTo(t, "IDLE")
    /\ UNCHANGED <<vars, daemon, callers, memory, crashes>>

-----------------------------------------------------------------------------
(***************************************************************************)
(* enqueue_general and queue_message                                       *)
(***************************************************************************)

Submit ==
    /\ daemon = "UP"
    /\ ReserveTaskId \/ \E a \in Agents : EnqueueTaskAuthoritative(a)
    /\ UNCHANGED schedVars

\* A message to a task that has not ended is only stored.
QueueMessage(m, a) ==
    /\ daemon = "UP"
    /\ IF active[a] = 0
       THEN phase[a] = "RUNNING"
       ELSE Free(<<a, active[a]>>) /\ lifecycle[<<a, active[a]>>] = "RUNNING"
    /\ InsertMessage(m, a)
    /\ UNCHANGED schedVars

\* A message to a finished task resumes it.
ResumeRead(t, a) ==
    /\ At(t, "IDLE")
    /\ CheckTerminal(t, a)
    /\ GoTo(t, "REQUEUE")
    /\ UNCHANGED <<daemon, job, callers, memory, crashes>>

ResumeCopy(t) ==
    /\ At(t, "REQUEUE")
    /\ CopyRow(t) \/ CopyResult(t)
    /\ UNCHANGED schedVars

ResumeRequeued(t) ==
    /\ At(t, "REQUEUE")
    /\ \E m \in Messages : ResumeRequeue(t, m)
    /\ started' = [started EXCEPT ![t] = {}]
    /\ GoTo(t, "READY")
    /\ UNCHANGED <<daemon, job, stray, memory, crashes>>

\* Another resume was first, the task has no session, or its workspace is taken.
ResumeRefused(t) ==
    /\ At(t, "REQUEUE")
    /\ resume[t] = "READ"
    /\ \/ phase[goal[t]] # "TERMINAL"
       \/ ~hasSession[goal[t]]
       \/ WorkspaceBusy(goal[t])
    /\ ResumeReturn(t)
    /\ GoTo(t, "IDLE")
    /\ UNCHANGED <<daemon, job, callers, memory, crashes>>

\* start_ready returned, and the task is among those it started.
ResumeStarted(t) ==
    /\ At(t, "RETURNED")
    /\ goal[t] \in started[t]
    /\ ResumeReturn(t)
    /\ GoTo(t, "IDLE")
    /\ UNCHANGED <<daemon, job, callers, memory, crashes>>

\* The copies are written back: at once if start_ready returned without the task, and
\* after a second look at the row if it failed.
ResumeRestore(t) ==
    /\ \/ At(t, "RETURNED") /\ goal[t] \notin started[t]
       \/ At(t, "RESTORE")
    /\ RestoreTerminal(t)
    /\ stray' = IF phase[goal[t]] \in ActivePhase
                THEN stray \cup {<<goal[t], ownerEpoch[goal[t]]>>} ELSE stray
    /\ GoTo(t, "REJECTED")
    /\ UNCHANGED <<daemon, job, started, memory, crashes>>

\* start_ready failed, for this task or for another one it claimed.
ResumeFailed(t) ==
    /\ At(t, "FAILED")
    /\ \/ phase[goal[t]] = "TERMINAL" /\ GoTo(t, "RESTORE") /\ UNCHANGED vars
       \/ phase[goal[t]] # "TERMINAL" /\ GoTo(t, "REJECTED") /\ ResumeReturn(t)
    /\ UNCHANGED <<daemon, job, callers, memory, crashes>>

\* The caller has its error and may call again.
ResumeAgain(t) ==
    /\ At(t, "REJECTED")
    /\ GoTo(t, "IDLE")
    /\ UNCHANGED <<vars, daemon, job, callers, memory, crashes>>

-----------------------------------------------------------------------------
(***************************************************************************)
(* Crash and reconcile_startup                                             *)
(***************************************************************************)

\* The row of a's task names the process of its current run.
Recorded(rt) == hasRuntime[rt[1]] /\ ownerEpoch[rt[1]] = rt[2]

\* The database and the runtime processes survive, the daemon's memory does not.  Of a
\* runtime that the database does not name nobody knows any more.
Crash ==
    /\ crashes < MaxCrashes
    /\ daemon \in {"UP", "RECOVERING"}
    /\ daemon' = "RECOVERING"
    /\ crashes' = crashes + 1
    /\ pc' = InitialPc
    /\ job' = [t \in Threads |-> Idle]
    /\ CallersDie
    /\ started' = [t \in Starters |-> {}]
    /\ stray' = stray \cup {rt \in live : ~Recorded(rt)}
    /\ active' = [a \in Agents |-> 0]
    /\ lifecycle' = [rt \in Runtimes |-> "RUNNING"]
    /\ operation' = [rt \in Runtimes |-> NoThread]
    /\ sinkError' = {}
    /\ UNCHANGED live

\* Mutant of NeedsRecovery: a run that was being stopped is forgotten.
NeedsRecoveryUnlessStopping(a) ==
    \/ phase[a] \in ActivePhase \ {"CANCELLING"}
    \/ phase[a] = "TERMINAL" /\ ~reaped[a]

\* The WHERE clause of startup_recovery_tasks.
NeedsRecovery(a) == phase[a] \in ActivePhase \/ (phase[a] = "TERMINAL" /\ ~reaped[a])

\* recover_startup_task: the recorded process group is stopped, an unfinished run
\* gets its result, and a finished one is marked reaped.
Recover(a) ==
    /\ daemon = "RECOVERING"
    /\ NeedsRecovery(a)
    /\ hasRuntime[a] \/ phase[a] \in {"PREPARING", "TERMINAL"}
    /\ a \notin Damaged
    /\ live' = IF hasRuntime[a] THEN live \ {<<a, ownerEpoch[a]>>} ELSE live
    /\ IF phase[a] = "TERMINAL"
       THEN result[a] # NoResult /\ ReapTask(a)
       ELSE PersistResult(a, IF Stopping(a) THEN "CANCELLED" ELSE "RUNTIME_LOST")
    /\ UNCHANGED <<daemon, pc, job, callers, active, lifecycle, operation, sinkError, crashes>>

\* An unfinished run without a recorded process, a launch that cannot be read, or an
\* end without a result fails the reconciliation, and the daemon does not start.
Refuse(a) ==
    /\ daemon = "RECOVERING"
    /\ NeedsRecovery(a)
    /\ \/ ~hasRuntime[a] /\ phase[a] \notin {"PREPARING", "TERMINAL"}
       \/ a \in Damaged
       \/ phase[a] = "TERMINAL" /\ result[a] = NoResult
    /\ daemon' = "REFUSED"
    /\ UNCHANGED <<vars, pc, job, callers, memory, crashes>>

\* stop_and_reap_persisted_process_group fails: the group is not stopped or not proved
\* gone, and the daemon does not start.
RecoverFails(a) ==
    /\ daemon = "RECOVERING"
    /\ NeedsRecovery(a)
    /\ hasRuntime[a]
    /\ daemon' = "UNREAPED"
    /\ UNCHANGED <<vars, pc, job, callers, memory, crashes>>

\* The daemon is started again.
Restart ==
    /\ daemon \in {"REFUSED", "UNREAPED"}
    /\ daemon' = "RECOVERING"
    /\ UNCHANGED <<vars, pc, job, callers, memory, crashes>>

\* The socket is published and the claim loop starts.
Serve ==
    /\ daemon = "RECOVERING"
    /\ \A a \in Agents : ~NeedsRecovery(a)
    /\ daemon' = "UP"
    /\ UNCHANGED <<vars, pc, job, callers, memory, crashes>>

-----------------------------------------------------------------------------
StarterStep(t) ==
    \/ Claim(t)
    \/ NothingToClaim(t)
    \/ RouteInvalid(t)
    \/ SpawnFails(t)
    \/ Spawn(t)
    \/ SessionFails(t)
    \/ Register(t)
    \/ Mark(t)
    \/ ReadUnmarked(t)
    \/ ReadMarked(t)
    \/ Deliver(t)

CommonStep(t) ==
    \/ SendSucceeds(t)
    \/ SendFails(t)
    \/ Cleanup(t)
    \/ CleanupStop(t)
    \/ Persist(t)
    \/ Release(t)

ResumeStep(t) ==
    \/ ResumeCopy(t)
    \/ ResumeRequeued(t)
    \/ ResumeRefused(t)
    \/ ResumeStarted(t)
    \/ ResumeFailed(t)
    \/ ResumeRestore(t)
    \/ ResumeAgain(t)

CancelStep(t) == CancelRequest(t) \/ CancelStop(t) \/ CancelTimeout(t)

\* What a runtime does of its own accord.
RuntimeStep(rt) ==
    \/ ObserveTerminal(rt)
    \/ ObserveCompleted(rt)
    \/ ObserveFailed(rt)
    \/ LateEvent(rt)

MonitorStep(t) == ObserveSinkError(t) \/ FinishMonitor(t)

SchedNext ==
    \/ \E t \in Starters : StarterStep(t)
    \/ \E t \in Threads : CommonStep(t)
    \/ \E t \in Resumers : ResumeStep(t) \/ \E a \in Agents : ResumeRead(t, a)
    \/ \E t \in Cancellers : CancelStep(t) \/ \E a \in Agents : CancelBegin(t, a)
    \/ \E rt \in Runtimes : RuntimeStep(rt) \/ MonitorStep(rt)
    \/ Submit
    \/ \E m \in Messages, a \in Agents : QueueMessage(m, a)
    \/ Crash
    \/ \E a \in Agents : Recover(a) \/ Refuse(a) \/ RecoverFails(a)
    \/ Restart
    \/ Serve

SchedSpec == SchedInit /\ [][SchedNext]_allVars

\* Threads of the daemon are scheduled, calls in progress return or time out, and
\* the monitor polls (wait_terminal every 50 ms).  No new call is promised, and a
\* runtime may run for ever: the daemon puts no limit on a turn.
DaemonFairness ==
    /\ \A t \in Starters : WF_allVars(StarterStep(t))
    /\ \A t \in Threads : WF_allVars(CommonStep(t))
    /\ \A t \in Resumers : WF_allVars(ResumeStep(t))
    /\ \A t \in Cancellers : WF_allVars(CancelStep(t))
    /\ \A rt \in Runtimes : WF_allVars(MonitorStep(rt))
    /\ \A rt \in Runtimes : WF_allVars(rt \notin live /\ ObserveTerminal(rt))

FairSpec == SchedSpec /\ DaemonFairness

-----------------------------------------------------------------------------
(***************************************************************************)
(* Properties                                                              *)
(***************************************************************************)

\* No two tasks ever have runtimes in one workspace.
WorkspaceHasOneAgent ==
    \A p, q \in live : Home[p[1]] = Home[q[1]] => p[1] = q[1]

\* Runtimes that the daemon has not stopped work in different workspaces unless they
\* belong to one task: what the phase column promises holds of the processes, through
\* cancels, failed starts, resumes and restarts.  Not so of a runtime that the row of
\* its task does not tell of: a failed resume ended the row while it was started
\* (WorkspaceHasOneAgent), or the daemon died before it had stored its identity.
OneActiveAgent ==
    \A p, q \in live \ stray : Home[p[1]] = Home[q[1]] => p[1] = q[1]

\* While the daemon runs, a task that left the queue is in the hands of a thread that
\* will end it: a start in progress, its monitor, a caller that stops it, or one that
\* is inside its resume.  A task whose stored launch was damaged is left to nobody when
\* a stop comes before its start has failed.
NoAbandonedTask ==
    \A a \in Agents \ Damaged :
        daemon = "UP" /\ phase[a] \in ActivePhase
          => \/ \E t \in Threads : Agent(t) = a /\ pc[t] \notin {"IDLE", "REQUEST"}
             \/ \E t \in Resumers : resume[t] = "REQUEUED" /\ goal[t] = a

\* No runtime process outlives every thread that could stop it.
NoLeakedRuntime ==
    \A rt \in live :
        crashes = 0 => \E t \in Threads : Runtime(t) = rt /\ pc[t] # "IDLE"

\* A task that is being cancelled ends without waiting for its runtime.
CancelIsAuthoritative == \A a \in Agents : phase[a] = "CANCELLING" ~> phase[a] = "TERMINAL"

\* A resume that is answered with an error leaves the task as it was before.
FailedResumeRestores ==
    [][\A t \in Resumers :
          pc[t] # "REJECTED" /\ pc'[t] = "REJECTED"
            => /\ phase'[goal[t]] = "TERMINAL"
               /\ result'[goal[t]] = copy[t].result]_allVars

\* Interrupted work never keeps the daemon from starting again, as long as the
\* processes it recorded can be reaped.
RestartSucceeds == daemon # "REFUSED"
=============================================================================
