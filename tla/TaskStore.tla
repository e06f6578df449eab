----------------------------- MODULE TaskStore -----------------------------
(***************************************************************************)
(* The durable store of the daemon (crates/zcode-agent-store/src/lib.rs).  *)
(* Every operation locks the one connection and runs an IMMEDIATE          *)
(* transaction, so one operation is one atomic step.  An operation that    *)
(* returns an error or that finds nothing to do leaves the database as it  *)
(* was: its early returns are the guards of its action.                    *)
(*                                                                         *)
(* The module assumes nothing of its callers: any operation may be called  *)
(* at any time with any argument, in particular with the owner epoch of a  *)
(* claim that is long over.  What holds here holds under every scheduler.  *)
(* One operation writes what its caller read long before: the restore of a *)
(* failed resume.  The callers that resume a task are followed with their  *)
(* copies (queue_message of crates/zcode-agentd/src/lib.rs), from the read *)
(* of the finished row to the return of the call, at any later time.       *)
(***************************************************************************)
EXTENDS Naturals, FiniteSets

CONSTANTS
    FirstId, LastId,   \* range of the task id allocator
    Workspaces,        \* canonical workspace paths
    Home,              \* the workspace each task is prepared for
    Messages,          \* message ids chosen by callers
    Requests,          \* ids of a runtime's permission or input requests
    Outcome,           \* outcomes a result can carry
    Texts,             \* final texts that tell two results apart
    Limit,             \* per_workspace_max_agents
    MaxEpoch,          \* bound on owner_epoch
    Resumers,          \* callers of queue_message on a finished task
    NoAgent            \* owner of a message or request row that does not exist

Agents == FirstId .. LastId

ASSUME IdAssumption ==
    /\ FirstId \in Nat
    /\ LastId \in Nat
    /\ FirstId <= LastId
ASSUME OutcomeAssumption ==
    /\ {"COMPLETED", "CANCELLED"} \subseteq Outcome
    /\ Outcome \subseteq {"COMPLETED", "FAILED", "CANCELLED", "TIMED_OUT",
                          "RUNTIME_LOST", "RESULT_INVALID"}
ASSUME HomeAssumption == Home \in [Agents -> Workspaces]
ASSUME LimitAssumption == Limit \in Nat
ASSUME EpochAssumption == MaxEpoch \in Nat
ASSUME NoAgentAssumption == NoAgent \notin Agents
ASSUME CommandAssumption == Messages \cap Requests = {}

ActivePhase == {"PREPARING", "RUNNING", "WAITING_INPUT", "CANCELLING"}
BusyPhase == ActivePhase \cup {"QUEUED"}
Phase == BusyPhase \cup {"ABSENT", "TERMINAL"}
MessageState == {"ABSENT", "QUEUED", "SENDING", "DELIVERED", "FAILED"}
RequestState == {"ABSENT", "PENDING", "SENDING", "RESPONDED"}
OpenMessageState == {"QUEUED", "SENDING"}
OpenRequestState == {"PENDING", "SENDING"}

Result == [outcome : Outcome, text : Texts]
LedgerRow == [to : Phase, outcome : Outcome \cup {"NONE"}]
NoResult == [outcome |-> "NONE", text |-> "NONE"]
NoLedger == [to |-> "ABSENT", outcome |-> "NONE"]

ResumeStage == {"IDLE", "CHECKED", "ROW", "READ", "REQUEUED"}
Copies == [outcome : Outcome \cup {"NONE"}, stop : BOOLEAN, close : BOOLEAN,
           session : BOOLEAN, runtime : BOOLEAN, reaped : BOOLEAN,
           result : Result \cup {NoResult}]
NoCopy == [outcome |-> "NONE", stop |-> FALSE, close |-> FALSE, session |-> FALSE,
           runtime |-> FALSE, reaped |-> FALSE, result |-> NoResult]

VARIABLES
    nextId,          \* task_id_allocator.next_id
    phase,           \* tasks.phase, ABSENT where there is no row
    outcome,         \* tasks.outcome
    ownerEpoch,      \* tasks.owner_epoch
    stopRequested,   \* tasks.stop_requested
    closeRequested,  \* tasks.close_requested
    hasSession,      \* tasks.zcode_session_id is set
    hasRuntime,      \* tasks.runtime_agent_id and the process identity are set
    reaped,          \* tasks.reaped_at is set
    taskRowid,       \* insertion order of tasks: (created_at, rowid)
    taskRows,        \* rows ever inserted into tasks
    messageState,    \* messages.state
    messageAgent,    \* messages.agent_id
    messageRowid,    \* insertion order of messages
    messageRows,     \* rows ever inserted into messages
    requestState,    \* pending_requests.state
    requestAgent,    \* pending_requests.agent_id
    result,          \* task_results, by agent id
    ledger,          \* newest lifecycle_ledger row of each agent
    resume,          \* how far the resume of each caller has come
    goal,            \* the task it wants resumed
    copy,            \* its copies of that task's row and result
    restored,        \* history: tasks whose row a restore wrote and no resume since
    left             \* history: commands that were open when a restore ended their task

taskVars == <<phase, outcome, ownerEpoch, stopRequested, closeRequested, hasSession,
              hasRuntime, reaped, taskRowid, taskRows>>
messageVars == <<messageState, messageAgent, messageRowid, messageRows>>
requestVars == <<requestState, requestAgent>>
tables == <<nextId, taskVars, messageVars, requestVars, result, ledger>>
callerVars == <<resume, goal, copy>>
history == <<restored, left>>
vars == <<tables, callerVars, history>>

-----------------------------------------------------------------------------
Init ==
    /\ nextId = FirstId
    /\ phase = [a \in Agents |-> "ABSENT"]
    /\ outcome = [a \in Agents |-> "NONE"]
    /\ ownerEpoch = [a \in Agents |-> 0]
    /\ stopRequested = [a \in Agents |-> FALSE]
    /\ closeRequested = [a \in Agents |-> FALSE]
    /\ hasSession = [a \in Agents |-> FALSE]
    /\ hasRuntime = [a \in Agents |-> FALSE]
    /\ reaped = [a \in Agents |-> FALSE]
    /\ taskRowid = [a \in Agents |-> 0]
    /\ taskRows = 0
    /\ messageState = [m \in Messages |-> "ABSENT"]
    /\ messageAgent = [m \in Messages |-> NoAgent]
    /\ messageRowid = [m \in Messages |-> 0]
    /\ messageRows = 0
    /\ requestState = [r \in Requests |-> "ABSENT"]
    /\ requestAgent = [r \in Requests |-> NoAgent]
    /\ result = [a \in Agents |-> NoResult]
    /\ ledger = [a \in Agents |-> NoLedger]
    /\ resume = [t \in Resumers |-> "IDLE"]
    /\ goal = [t \in Resumers |-> NoAgent]
    /\ copy = [t \in Resumers |-> NoCopy]
    /\ restored = {}
    /\ left = {}

Busy(a) == phase[a] \in BusyPhase
Stopping(a) == stopRequested[a] \/ closeRequested[a]
OpenMessages(a) ==
    {m \in Messages : messageAgent[m] = a /\ messageState[m] \in OpenMessageState}
OpenRequests(a) ==
    {r \in Requests : requestAgent[r] = a /\ requestState[r] \in OpenRequestState}

\* Mutant of WorkspaceBusy: the busy check forgets tasks that are still queued.
WorkspaceRunning(a) ==
    \E b \in Agents \ {a} : Home[b] = Home[a] /\ phase[b] \in ActivePhase

\* Some task of a's workspace other than a has not finished.
WorkspaceBusy(a) ==
    \E b \in Agents \ {a} : Home[b] = Home[a] /\ Busy(b)

\* Mutant of Record: the ledger row does not get the outcome.
RecordPhase(a, to, how) ==
    ledger' = [ledger EXCEPT ![a] = [to |-> to, outcome |-> "NONE"]]

\* insert_ledger: the newest row of a's ledger.
Record(a, to, how) ==
    ledger' = [ledger EXCEPT ![a] = [to |-> to, outcome |-> how]]

\* settle_terminal_commands: open messages fail, open requests are deleted.
Settle(a) ==
    /\ messageState' = [m \in Messages |-> IF m \in OpenMessages(a)
                                            THEN "FAILED" ELSE messageState[m]]
    /\ requestState' = [r \in Requests |-> IF r \in OpenRequests(a)
                                            THEN "ABSENT" ELSE requestState[r]]
    /\ requestAgent' = [r \in Requests |-> IF r \in OpenRequests(a)
                                            THEN NoAgent ELSE requestAgent[r]]
    /\ UNCHANGED <<messageAgent, messageRowid, messageRows>>

\* The outcome apply_terminal writes: a stop or a close turns any into CANCELLED.
TerminalOutcome(a, how) == IF Stopping(a) THEN "CANCELLED" ELSE how

\* apply_terminal
ApplyTerminal(a, how) ==
    /\ phase[a] # "TERMINAL"
    /\ phase' = [phase EXCEPT ![a] = "TERMINAL"]
    /\ outcome' = [outcome EXCEPT ![a] = TerminalOutcome(a, how)]
    /\ Settle(a)
    /\ Record(a, "TERMINAL", TerminalOutcome(a, how))
    /\ UNCHANGED <<ownerEpoch, stopRequested, closeRequested, hasSession, hasRuntime,
                   reaped, taskRowid, taskRows, callerVars, history>>

-----------------------------------------------------------------------------
\* Mutant of ReserveTaskId: the end of the range is not checked.
ReserveUnchecked ==
    /\ nextId' = nextId + 1
    /\ UNCHANGED <<taskVars, messageVars, requestVars, result, ledger,
                   callerVars, history>>

\* The increment is committed before anything is prepared: a failed
\* preparation leaves a hole, and an exhausted allocator stays exhausted.
ReserveTaskId ==
    /\ nextId \in Agents
    /\ nextId' = nextId + 1
    /\ UNCHANGED <<taskVars, messageVars, requestVars, result, ledger,
                   callerVars, history>>

\* A caller submits under an id it reserved before.
EnqueueTaskAuthoritative(a) ==
    /\ a < nextId
    /\ phase[a] = "ABSENT"
    /\ ~WorkspaceBusy(a)
    /\ phase' = [phase EXCEPT ![a] = "QUEUED"]
    /\ taskRowid' = [taskRowid EXCEPT ![a] = taskRows + 1]
    /\ taskRows' = taskRows + 1
    /\ Record(a, "QUEUED", "NONE")
    /\ UNCHANGED <<nextId, outcome, ownerEpoch, stopRequested, closeRequested, hasSession,
                   hasRuntime, reaped, messageVars, requestVars, result,
                   callerVars, history>>

\* The WHERE clause of claim_next.  Repository and workspace path are equal in
\* every prepared launch, so the count per repository is one per workspace.
Claimable(a) ==
    /\ phase[a] = "QUEUED"
    /\ ~closeRequested[a]
    /\ Cardinality({b \in Agents : Home[b] = Home[a] /\ phase[b] \in ActivePhase}) < Limit

ClaimNext(a) ==
    /\ Claimable(a)
    /\ \A b \in Agents : Claimable(b) => taskRowid[a] <= taskRowid[b]
    /\ ownerEpoch[a] < MaxEpoch
    /\ phase' = [phase EXCEPT ![a] = "PREPARING"]
    /\ ownerEpoch' = [ownerEpoch EXCEPT ![a] = @ + 1]
    /\ Record(a, "PREPARING", "NONE")
    /\ UNCHANGED <<nextId, outcome, stopRequested, closeRequested, hasSession, hasRuntime,
                   reaped, taskRowid, taskRows, messageVars, requestVars, result,
                   callerVars, history>>

\* Mutant of MarkSessionRunning: only the epoch is checked, not the phase.
MarkAnyPhase(a, epoch) ==
    /\ phase[a] # "ABSENT"
    /\ ownerEpoch[a] = epoch
    /\ phase' = [phase EXCEPT ![a] = "RUNNING"]
    /\ hasRuntime' = [hasRuntime EXCEPT ![a] = TRUE]
    /\ hasSession' = [hasSession EXCEPT ![a] = TRUE]
    /\ Record(a, "RUNNING", "NONE")
    /\ UNCHANGED <<nextId, outcome, ownerEpoch, stopRequested, closeRequested, reaped,
                   taskRowid, taskRows, messageVars, requestVars, result,
                   callerVars, history>>

\* Every caller passes the session id and the process identity it just obtained.
MarkSessionRunning(a, epoch) ==
    /\ phase[a] = "PREPARING"
    /\ ownerEpoch[a] = epoch
    /\ phase' = [phase EXCEPT ![a] = "RUNNING"]
    /\ hasRuntime' = [hasRuntime EXCEPT ![a] = TRUE]
    /\ hasSession' = [hasSession EXCEPT ![a] = TRUE]
    /\ Record(a, "RUNNING", "NONE")
    /\ UNCHANGED <<nextId, outcome, ownerEpoch, stopRequested, closeRequested, reaped,
                   taskRowid, taskRows, messageVars, requestVars, result,
                   callerVars, history>>

\* request_stop_internal.  A finished task keeps its phase and only takes the
\* flags; any other is CANCELLING and its open commands are settled.
RequestStopInternal(a, close, cancel) ==
    /\ phase[a] # "ABSENT"
    /\ stopRequested' = [stopRequested EXCEPT ![a] = @ \/ cancel]
    /\ closeRequested' = [closeRequested EXCEPT ![a] = @ \/ close]
    /\ IF phase[a] = "TERMINAL"
       THEN UNCHANGED <<phase, messageVars, requestVars>>
       ELSE phase' = [phase EXCEPT ![a] = "CANCELLING"] /\ Settle(a)
    /\ IF phase[a] \in {"TERMINAL", "CANCELLING"}
       THEN UNCHANGED ledger
       ELSE Record(a, "CANCELLING", "NONE")
    /\ UNCHANGED <<nextId, outcome, ownerEpoch, hasSession, hasRuntime, reaped, taskRowid,
                   taskRows, result, callerVars, history>>

RequestClose(a) == RequestStopInternal(a, TRUE, TRUE)
RequestStop(a) == RequestStopInternal(a, FALSE, TRUE)
RequestRuntimeStop(a) == RequestStopInternal(a, FALSE, FALSE)

\* INSERT INTO messages
NewMessage(m, a) ==
    /\ messageState' = [messageState EXCEPT ![m] = "QUEUED"]
    /\ messageAgent' = [messageAgent EXCEPT ![m] = a]
    /\ messageRowid' = [messageRowid EXCEPT ![m] = messageRows + 1]
    /\ messageRows' = messageRows + 1

\* Mutant of ClearControls: the close of the earlier run survives the resume.
ClearStop(a) ==
    /\ stopRequested' = [stopRequested EXCEPT ![a] = FALSE]
    /\ UNCHANGED closeRequested

\* The resumed run starts without the stop or close of the run before.
ClearControls(a) ==
    /\ stopRequested' = [stopRequested EXCEPT ![a] = FALSE]
    /\ closeRequested' = [closeRequested EXCEPT ![a] = FALSE]

\* requeue_task_for_resume_with_message: epoch and session survive.
RequeueTaskForResume(a, m) ==
    /\ phase[a] = "TERMINAL"
    /\ hasSession[a]
    /\ ~WorkspaceBusy(a)
    /\ messageState[m] = "ABSENT"
    /\ result' = [result EXCEPT ![a] = NoResult]
    /\ phase' = [phase EXCEPT ![a] = "QUEUED"]
    /\ outcome' = [outcome EXCEPT ![a] = "NONE"]
    /\ ClearControls(a)
    /\ hasRuntime' = [hasRuntime EXCEPT ![a] = FALSE]
    /\ reaped' = [reaped EXCEPT ![a] = FALSE]
    /\ Record(a, "QUEUED", "NONE")
    /\ NewMessage(m, a)
    /\ restored' = restored \ {a}
    /\ UNCHANGED <<nextId, ownerEpoch, hasSession, taskRowid, taskRows, requestVars, left>>

ReapTask(a) ==
    /\ phase[a] = "TERMINAL"
    /\ reaped' = [reaped EXCEPT ![a] = TRUE]
    /\ UNCHANGED <<nextId, phase, outcome, ownerEpoch, stopRequested, closeRequested,
                   hasSession, hasRuntime, taskRowid, taskRows, messageVars, requestVars,
                   result, ledger, callerVars, history>>

-----------------------------------------------------------------------------
(***************************************************************************)
(* queue_message on a finished task.  Its three reads and its requeue are  *)
(* transactions of their own: the row it copies need not be the one it     *)
(* found finished, nor the result that row's.                              *)
(***************************************************************************)

CheckTerminal(t, a) ==
    /\ resume[t] = "IDLE"
    /\ phase[a] = "TERMINAL"
    /\ resume' = [resume EXCEPT ![t] = "CHECKED"]
    /\ goal' = [goal EXCEPT ![t] = a]
    /\ UNCHANGED <<tables, copy, history>>

\* The columns of the row that the restore writes.
RowCopy(a) ==
    [NoCopy EXCEPT !.outcome = outcome[a], !.stop = stopRequested[a],
                   !.close = closeRequested[a], !.session = hasSession[a],
                   !.runtime = hasRuntime[a], !.reaped = reaped[a]]

CopyRow(t) ==
    /\ resume[t] = "CHECKED"
    /\ resume' = [resume EXCEPT ![t] = "ROW"]
    /\ copy' = [copy EXCEPT ![t] = RowCopy(goal[t])]
    /\ UNCHANGED <<tables, goal, history>>

CopyResult(t) ==
    /\ resume[t] = "ROW"
    /\ resume' = [resume EXCEPT ![t] = "READ"]
    /\ copy' = [copy EXCEPT ![t] = [@ EXCEPT !.result = result[goal[t]]]]
    /\ UNCHANGED <<tables, goal, history>>

ResumeRequeue(t, m) ==
    /\ resume[t] = "READ"
    /\ RequeueTaskForResume(goal[t], m)
    /\ resume' = [resume EXCEPT ![t] = "REQUEUED"]
    /\ UNCHANGED <<goal, copy>>

\* The call is over.
Forget(t) ==
    /\ resume' = [resume EXCEPT ![t] = "IDLE"]
    /\ goal' = [goal EXCEPT ![t] = NoAgent]
    /\ copy' = [copy EXCEPT ![t] = NoCopy]

\* It returns without a restore: the task was started, or an earlier step failed.
ResumeReturn(t) ==
    /\ resume[t] # "IDLE"
    /\ Forget(t)
    /\ UNCHANGED <<tables, history>>

\* restore_terminal_after_resume_failure: the copies are written back whatever the
\* row has become meanwhile, open commands stay, and the ledger gets no row.
RestoreTerminal(t) ==
    LET a == goal[t] IN
    /\ resume[t] = "REQUEUED"
    /\ phase' = [phase EXCEPT ![a] = "TERMINAL"]
    /\ outcome' = [outcome EXCEPT ![a] = copy[t].outcome]
    /\ stopRequested' = [stopRequested EXCEPT ![a] = copy[t].stop]
    /\ closeRequested' = [closeRequested EXCEPT ![a] = copy[t].close]
    /\ hasSession' = [hasSession EXCEPT ![a] = copy[t].session]
    /\ hasRuntime' = [hasRuntime EXCEPT ![a] = copy[t].runtime]
    /\ reaped' = [reaped EXCEPT ![a] = copy[t].reaped]
    /\ result' = [result EXCEPT ![a] = IF copy[t].result = NoResult
                                        THEN @ ELSE copy[t].result]
    /\ Forget(t)
    /\ restored' = restored \cup {a}
    /\ left' = left \cup OpenMessages(a) \cup OpenRequests(a)
    /\ UNCHANGED <<nextId, ownerEpoch, taskRowid, taskRows, messageVars, requestVars,
                   ledger>>

\* The process of the callers dies; the database survives.
CallersDie ==
    /\ resume' = [t \in Resumers |-> "IDLE"]
    /\ goal' = [t \in Resumers |-> NoAgent]
    /\ copy' = [t \in Resumers |-> NoCopy]
    /\ UNCHANGED <<tables, history>>

-----------------------------------------------------------------------------
\* Mutant of StoreTaskResult: a late result is stored although a stop is pending.
StoreOverStop(a, r) ==
    /\ result[a] = NoResult
    /\ phase[a] \in ActivePhase
    /\ r.outcome = "COMPLETED" => OpenRequests(a) = {} /\ OpenMessages(a) = {}
    /\ result' = [result EXCEPT ![a] = r]
    /\ ApplyTerminal(a, r.outcome)
    /\ UNCHANGED nextId

\* store_task_result.  It takes no owner epoch.
StoreTaskResult(a, r) ==
    /\ result[a] = NoResult
    /\ phase[a] \in ActivePhase
    /\ r.outcome = "COMPLETED" => OpenRequests(a) = {} /\ OpenMessages(a) = {}
    /\ Stopping(a) => r.outcome = "CANCELLED"
    /\ result' = [result EXCEPT ![a] = r]
    /\ ApplyTerminal(a, r.outcome)
    /\ UNCHANGED nextId

\* Mutant of InsertMessage: a task that was told to stop still takes messages.
InsertWhileStopping(m, a) ==
    /\ Busy(a)
    /\ messageState[m] = "ABSENT"
    /\ NewMessage(m, a)
    /\ UNCHANGED <<nextId, taskVars, requestVars, result, ledger, callerVars, history>>

InsertMessage(m, a) ==
    /\ Busy(a)
    /\ ~Stopping(a)
    /\ messageState[m] = "ABSENT"
    /\ NewMessage(m, a)
    /\ UNCHANGED <<nextId, taskVars, requestVars, result, ledger, callerVars, history>>

SetMessage(m, state) ==
    /\ messageState' = [messageState EXCEPT ![m] = state]
    /\ UNCHANGED <<nextId, taskVars, messageAgent, messageRowid, messageRows, requestVars,
                   result, ledger, callerVars, history>>

\* Mutant of ClaimNextMessage: no ORDER BY.
ClaimAnyMessage(a, m) ==
    /\ phase[a] = "RUNNING"
    /\ ~Stopping(a)
    /\ messageAgent[m] = a
    /\ messageState[m] = "QUEUED"
    /\ SetMessage(m, "SENDING")

ClaimNextMessage(a, m) ==
    /\ phase[a] = "RUNNING"
    /\ ~Stopping(a)
    /\ messageAgent[m] = a
    /\ messageState[m] = "QUEUED"
    /\ \A n \in Messages : messageAgent[n] = a /\ messageState[n] = "QUEUED"
                             => messageRowid[m] <= messageRowid[n]
    /\ SetMessage(m, "SENDING")

\* Mutant of CompleteMessage: an acknowledgement that a stop overtook counts.
CompleteAnyMessage(m) == messageState[m] # "ABSENT" /\ SetMessage(m, "DELIVERED")

CompleteMessage(m) == messageState[m] = "SENDING" /\ SetMessage(m, "DELIVERED")

FailMessage(m) == messageState[m] \in OpenMessageState /\ SetMessage(m, "FAILED")

\* insert_pending_request.  A request id that is already bound changes nothing.
InsertPendingRequest(r, a) ==
    /\ phase[a] \in {"RUNNING", "WAITING_INPUT"}
    /\ ~Stopping(a)
    /\ requestState[r] = "ABSENT"
    /\ requestState' = [requestState EXCEPT ![r] = "PENDING"]
    /\ requestAgent' = [requestAgent EXCEPT ![r] = a]
    /\ left' = left \ {r}
    /\ IF phase[a] = "RUNNING"
       THEN /\ phase' = [phase EXCEPT ![a] = "WAITING_INPUT"]
            /\ Record(a, "WAITING_INPUT", "NONE")
       ELSE UNCHANGED <<phase, ledger>>
    /\ UNCHANGED <<nextId, outcome, ownerEpoch, stopRequested, closeRequested, hasSession,
                   hasRuntime, reaped, taskRowid, taskRows, messageVars, result,
                   callerVars, restored>>

\* claim_pending_response_if_accepting
ClaimPendingResponse(a, r) ==
    /\ requestAgent[r] = a
    /\ requestState[r] = "PENDING"
    /\ phase[a] \in {"RUNNING", "WAITING_INPUT"}
    /\ ~Stopping(a)
    /\ requestState' = [requestState EXCEPT ![r] = "SENDING"]
    /\ UNCHANGED <<nextId, taskVars, messageVars, requestAgent, result, ledger,
                   callerVars, history>>

\* Mutant of LastOpenRequest: requests whose answer is being sent are not counted.
LastPendingRequest(a, r) ==
    \A q \in OpenRequests(a) \ {r} : requestState[q] # "PENDING"

\* With r answered no request of a is open.
LastOpenRequest(a, r) == OpenRequests(a) = {r}

CompletePendingResponse(a, r) ==
    /\ requestAgent[r] = a
    /\ requestState[r] = "SENDING"
    /\ requestState' = [requestState EXCEPT ![r] = "RESPONDED"]
    /\ IF /\ LastOpenRequest(a, r)
          /\ phase[a] = "WAITING_INPUT"
          /\ ~Stopping(a)
       THEN phase' = [phase EXCEPT ![a] = "RUNNING"] /\ Record(a, "RUNNING", "NONE")
       ELSE UNCHANGED <<phase, ledger>>
    /\ UNCHANGED <<nextId, outcome, ownerEpoch, stopRequested, closeRequested, hasSession,
                   hasRuntime, reaped, taskRowid, taskRows, messageVars, requestAgent,
                   result, callerVars, history>>

ReleasePendingResponse(a, r) ==
    /\ requestAgent[r] = a
    /\ requestState[r] = "SENDING"
    /\ requestState' = [requestState EXCEPT ![r] = "PENDING"]
    /\ UNCHANGED <<nextId, taskVars, messageVars, requestAgent, result, ledger,
                   callerVars, history>>

-----------------------------------------------------------------------------
TaskStep(a) ==
    \/ EnqueueTaskAuthoritative(a)
    \/ ClaimNext(a)
    \/ \E epoch \in 0 .. MaxEpoch : MarkSessionRunning(a, epoch)
    \/ RequestClose(a)
    \/ RequestStop(a)
    \/ RequestRuntimeStop(a)
    \/ ReapTask(a)
    \/ \E r \in Result : StoreTaskResult(a, r)

MessageStep(m) ==
    \/ \E a \in Agents : InsertMessage(m, a)
    \/ \E a \in Agents : ClaimNextMessage(a, m)
    \/ CompleteMessage(m)
    \/ FailMessage(m)

RequestStep(r) ==
    \E a \in Agents :
        \/ InsertPendingRequest(r, a)
        \/ ClaimPendingResponse(a, r)
        \/ CompletePendingResponse(a, r)
        \/ ReleasePendingResponse(a, r)

CallerStep(t) ==
    \/ \E a \in Agents : CheckTerminal(t, a)
    \/ CopyRow(t)
    \/ CopyResult(t)
    \/ \E m \in Messages : ResumeRequeue(t, m)
    \/ ResumeReturn(t)
    \/ RestoreTerminal(t)

Next ==
    \/ ReserveTaskId
    \/ \E a \in Agents : TaskStep(a)
    \/ \E m \in Messages : MessageStep(m)
    \/ \E r \in Requests : RequestStep(r)
    \/ \E t \in Resumers : CallerStep(t)
    \/ CallersDie

Spec == Init /\ [][Next]_vars

-----------------------------------------------------------------------------
(***************************************************************************)
(* Properties                                                              *)
(***************************************************************************)

TablesOK ==
    /\ nextId \in FirstId .. LastId + 1
    /\ phase \in [Agents -> Phase]
    /\ outcome \in [Agents -> Outcome \cup {"NONE"}]
    /\ ownerEpoch \in [Agents -> Nat]
    /\ stopRequested \in [Agents -> BOOLEAN]
    /\ closeRequested \in [Agents -> BOOLEAN]
    /\ hasSession \in [Agents -> BOOLEAN]
    /\ hasRuntime \in [Agents -> BOOLEAN]
    /\ reaped \in [Agents -> BOOLEAN]
    /\ taskRowid \in [Agents -> Nat]
    /\ taskRows \in Nat
    /\ messageState \in [Messages -> MessageState]
    /\ messageAgent \in [Messages -> Agents \cup {NoAgent}]
    /\ messageRowid \in [Messages -> Nat]
    /\ messageRows \in Nat
    /\ requestState \in [Requests -> RequestState]
    /\ requestAgent \in [Requests -> Agents \cup {NoAgent}]
    /\ result \in [Agents -> Result \cup {NoResult}]
    /\ ledger \in [Agents -> LedgerRow]
    /\ restored \subseteq Agents
    /\ left \subseteq Messages \cup Requests

CallersOK ==
    /\ resume \in [Resumers -> ResumeStage]
    /\ goal \in [Resumers -> Agents \cup {NoAgent}]
    /\ \A t \in Resumers : goal[t] = NoAgent <=> resume[t] = "IDLE"
    /\ copy \in [Resumers -> Copies]

\* The tables hold values of their columns' types, nextId stays in the range of the
\* allocator, and a caller has a task in mind exactly while it resumes one.
TypeOK == TablesOK /\ CallersOK

\* A canonical workspace has at most one unfinished task, across submissions
\* and resumes of finished tasks (WORKSPACE_BUSY of enqueue and of requeue).
OneTaskPerWorkspace ==
    \A a, b \in Agents :
        a # b /\ Home[a] = Home[b] => ~(Busy(a) /\ Busy(b))

\* A task has a result exactly while it is TERMINAL, and the two tables name the
\* same outcome although apply_terminal may override the one it is given.
ResultAgreesWithOutcome(a) ==
    /\ result[a] # NoResult <=> phase[a] = "TERMINAL"
    /\ result[a].outcome = outcome[a]

\* The newest ledger row tells the current phase and outcome, so the audit trail
\* has no gap whichever operation moved the task.
LedgerFollowsTask(a) ==
    /\ ledger[a].to = phase[a]
    /\ ledger[a].outcome = outcome[a]

\* Task row, result row and ledger tell the same story, whoever was late.  The one
\* exception is a task that restore_terminal_after_resume_failure wrote last: it is
\* over, but its ledger, its outcome or its result may be another run's, until a
\* resume starts it again and all three agree again.
TablesAgree ==
    \A a \in Agents :
        IF a \in restored THEN phase[a] = "TERMINAL"
        ELSE ResultAgreesWithOutcome(a) /\ LedgerFollowsTask(a)

\* A task that waits for input has an unanswered request, and one with an unanswered
\* request waits: no answer, stop or completion leaves it waiting for nothing, or
\* running past an open question.  Only a question that was open when a restore ended
\* the task may stay behind.
WaitingIffOpenRequest ==
    \A a \in Agents :
        /\ phase[a] = "WAITING_INPUT" => OpenRequests(a) # {}
        /\ OpenRequests(a) \ left # {} => phase[a] = "WAITING_INPUT"

\* A finished task, and one that was told to stop, has no message that could still be
\* sent, except those that were open when a restore ended the task: every other
\* accepted message ends DELIVERED or FAILED.
NoOpenMessageAfterStop ==
    \A a \in Agents :
        phase[a] = "TERMINAL" \/ Stopping(a) => OpenMessages(a) \subseteq left

\* Messages leave the queue in the order they were accepted: while one is still
\* QUEUED no later one of the same task has been taken for sending or delivered.
MessagesInOrder ==
    \A m, n \in Messages :
        /\ messageAgent[m] = messageAgent[n]
        /\ messageState[m] = "QUEUED"
        /\ messageState[n] \in {"SENDING", "DELIVERED"}
        => messageRowid[n] < messageRowid[m]

-----------------------------------------------------------------------------
(***************************************************************************)
(* What the invariants above need to be inductive                          *)
(***************************************************************************)

\* A stop or a close is only ever pending on a task that left the queue and
\* its runtime phases for good.
StopIsFinal ==
    \A a \in Agents : Stopping(a) => phase[a] \in {"CANCELLING", "TERMINAL"}

\* Message rows are numbered in insertion order: the next number is unused and no
\* two rows share one.
MessageRowsNumbered ==
    \A m \in Messages :
        /\ messageRowid[m] <= messageRows
        /\ \A n \in Messages :
              m # n /\ messageState[m] # "ABSENT" /\ messageState[n] # "ABSENT"
                => messageRowid[m] # messageRowid[n]

-----------------------------------------------------------------------------
StaysCancelled(a) ==
    Busy(a) /\ Stopping(a)
      => \/ phase'[a] = "CANCELLING" /\ (stopRequested'[a] \/ closeRequested'[a])
         \/ phase'[a] = "TERMINAL" /\ outcome'[a] = "CANCELLED"

\* A caller whose resume of a requeued it ends its call with the restore.
WritesBack(a) ==
    \E t \in Resumers :
        /\ resume[t] = "REQUEUED" /\ goal[t] = a
        /\ resume'[t] = "IDLE"
        /\ phase'[a] = "TERMINAL"

\* What could still be stopped when a stop or close was asked for ends CANCELLED
\* and nothing else, and until then it is never handed back to a runtime; unless a
\* caller that requeued the task and has not returned writes its old row back.
CancelWins == [][\A a \in Agents : StaysCancelled(a) \/ WritesBack(a)]_vars

ResultReplaced(a) ==
    result[a] # NoResult /\ result'[a] # result[a]
      => /\ result'[a] = NoResult
         /\ phase'[a] = "QUEUED"
         /\ ~stopRequested'[a] /\ ~closeRequested'[a]

\* A stored result is never rewritten; only a resume removes it, and the resumed
\* run starts as a new claim would find it: queued, with no stop or close left.  A
\* caller that requeued the task and has not returned may write the old one back.
ResultImmutable == [][\A a \in Agents : ResultReplaced(a) \/ WritesBack(a)]_vars

\* A finished command is final: a message that was delivered or failed and a
\* request that was answered never reopen, whatever is retried.
CommandsSettleOnce ==
    [][/\ \A m \in Messages :
             messageState[m] \in {"DELIVERED", "FAILED"} => messageState'[m] = messageState[m]
       /\ \A r \in Requests :
             requestState[r] = "RESPONDED" => requestState'[r] = requestState[r]]_vars
=============================================================================
