-------------------------- MODULE TaskStoreProofs --------------------------
(***************************************************************************)
(* What the store promises for every number of tasks, workspaces, messages *)
(* and requests: the task table, its results and its audit trail; then the *)
(* requests and the messages of a task and a stop that overtakes them; and *)
(* that it implements the lease protocol (TaskStoreLease).                 *)
(***************************************************************************)
EXTENDS TaskStoreLease, TLAPS

\* What a caller of queue_message reads or gives up changes no table.
LEMMA CallerKeepsTables ==
    ASSUME NEW t \in Resumers,
           \/ \E a \in Agents : CheckTerminal(t, a)
           \/ CopyRow(t) \/ CopyResult(t) \/ ResumeReturn(t)
    PROVE  UNCHANGED <<tables, history>>
BY DEF CheckTerminal, CopyRow, CopyResult, ResumeReturn

\* Every step of the store is one of these operations.
LEMMA NextCases ==
    ASSUME TypeOK, [Next]_vars
    PROVE  \/ ReserveTaskId
           \/ \E a \in Agents : EnqueueTaskAuthoritative(a)
           \/ \E a \in Agents : ClaimNext(a)
           \/ \E a \in Agents, epoch \in 0 .. MaxEpoch : MarkSessionRunning(a, epoch)
           \/ \E a \in Agents, close, cancel \in BOOLEAN :
                 RequestStopInternal(a, close, cancel)
           \/ \E a \in Agents : ReapTask(a)
           \/ \E a \in Agents, r \in Result : StoreTaskResult(a, r)
           \/ \E a \in Agents, m \in Messages : RequeueTaskForResume(a, m)
           \/ \E a \in Agents, m \in Messages : InsertMessage(m, a)
           \/ \E a \in Agents, m \in Messages : ClaimNextMessage(a, m)
           \/ \E m \in Messages : CompleteMessage(m)
           \/ \E m \in Messages : FailMessage(m)
           \/ \E a \in Agents, r \in Requests : InsertPendingRequest(r, a)
           \/ \E a \in Agents, r \in Requests : ClaimPendingResponse(a, r)
           \/ \E a \in Agents, r \in Requests : CompletePendingResponse(a, r)
           \/ \E a \in Agents, r \in Requests : ReleasePendingResponse(a, r)
           \/ \E t \in Resumers : goal[t] \in Agents /\ RestoreTerminal(t)
           \/ UNCHANGED <<tables, history>>
<1>1. ASSUME NEW t \in Resumers, NEW m \in Messages, ResumeRequeue(t, m)
      PROVE  goal[t] \in Agents /\ RequeueTaskForResume(goal[t], m)
  BY <1>1 DEF ResumeRequeue, TypeOK, CallersOK
<1>2. ASSUME NEW t \in Resumers, RestoreTerminal(t) PROVE goal[t] \in Agents
  BY <1>2 DEF RestoreTerminal, TypeOK, CallersOK
<1>3. ASSUME NEW t \in Resumers, CallerStep(t)
      PROVE  \/ \E m \in Messages : ResumeRequeue(t, m)
             \/ RestoreTerminal(t)
             \/ UNCHANGED <<tables, history>>
  BY <1>3, CallerKeepsTables DEF CallerStep
<1>4. CallersDie => UNCHANGED <<tables, history>>
  BY DEF CallersDie
<1>5. UNCHANGED vars => UNCHANGED <<tables, history>>
  BY DEF vars
<1> QED
  BY <1>1, <1>2, <1>3, <1>4, <1>5
     DEF Next, TaskStep, MessageStep, RequestStep, RequestClose, RequestStop,
         RequestRuntimeStop

\* What happens to a caller is its own doing, or the death of its process.
LEMMA OthersKeepCallers ==
    ASSUME \/ ReserveTaskId
           \/ \E a \in Agents : TaskStep(a)
           \/ \E m \in Messages : MessageStep(m)
           \/ \E r \in Requests : RequestStep(r)
    PROVE  UNCHANGED callerVars
<1>1. ReserveTaskId => UNCHANGED callerVars
  BY DEF ReserveTaskId
<1>2. ASSUME NEW a \in Agents, TaskStep(a) PROVE UNCHANGED callerVars
  BY <1>2 DEF TaskStep, EnqueueTaskAuthoritative, ClaimNext, MarkSessionRunning, RequestClose,
     RequestStop, RequestRuntimeStop, RequestStopInternal, ReapTask, StoreTaskResult,
     ApplyTerminal
<1>3. ASSUME NEW m \in Messages, MessageStep(m) PROVE UNCHANGED callerVars
  BY <1>3 DEF MessageStep, InsertMessage, ClaimNextMessage, CompleteMessage, FailMessage,
     SetMessage
<1>4. ASSUME NEW r \in Requests, RequestStep(r) PROVE UNCHANGED callerVars
  BY <1>4 DEF RequestStep, InsertPendingRequest, ClaimPendingResponse,
     CompletePendingResponse, ReleasePendingResponse
<1> QED
  BY <1>1, <1>2, <1>3, <1>4

\* An empty database is well typed.
LEMMA TypeInit == Init => TypeOK
<1> SUFFICES ASSUME Init PROVE TypeOK
  OBVIOUS
<1>1. TablesOK
  BY IdAssumption
     DEF Init, TablesOK, NoResult, NoLedger, LedgerRow, Agents, Phase, BusyPhase,
         ActivePhase, MessageState, RequestState
<1>2. NoCopy \in Copies
  BY DEF NoCopy, Copies
<1>3. CallersOK
  BY <1>2, NoAgentAssumption DEF Init, CallersOK, ResumeStage
<1> QED
  BY <1>1, <1>3 DEF TypeOK

\* A caller that reads, requeues, restores or returns keeps a copy of the right form.
LEMMA CallersStep == TypeOK /\ [Next]_vars => CallersOK'
<1> SUFFICES ASSUME TypeOK, [Next]_vars PROVE CallersOK'
  OBVIOUS
<1> USE NoAgentAssumption DEF CallersOK, ResumeStage
<1>0. CallersOK
  BY DEF TypeOK
<1>1. NoCopy \in Copies
  BY DEF NoCopy, Copies
<1>2. ASSUME NEW t \in Resumers, NEW a \in Agents, CheckTerminal(t, a) PROVE CallersOK'
  BY <1>0, <1>2 DEF CheckTerminal
<1>3. ASSUME NEW t \in Resumers, CopyRow(t) PROVE CallersOK'
  <2>1. goal[t] \in Agents
    BY <1>0, <1>3 DEF CopyRow
  <2>2. /\ outcome[goal[t]] \in Outcome \cup {"NONE"}
        /\ stopRequested[goal[t]] \in BOOLEAN /\ closeRequested[goal[t]] \in BOOLEAN
        /\ hasSession[goal[t]] \in BOOLEAN /\ hasRuntime[goal[t]] \in BOOLEAN
        /\ reaped[goal[t]] \in BOOLEAN
    BY <2>1 DEF TypeOK, TablesOK
  <2>3. RowCopy(goal[t]) \in Copies
    BY <2>2 DEF RowCopy, NoCopy, Copies
  <2> QED
    BY <1>0, <1>3, <2>3 DEF CopyRow
<1>4. ASSUME NEW t \in Resumers, CopyResult(t) PROVE CallersOK'
  <2>1. goal[t] \in Agents
    BY <1>0, <1>4 DEF CopyResult
  <2>2. result[goal[t]] \in Result \cup {NoResult} /\ copy[t] \in Copies
    BY <1>0, <2>1 DEF TypeOK, TablesOK
  <2>3. [copy[t] EXCEPT !.result = result[goal[t]]] \in Copies
    BY <2>2 DEF Copies
  <2> QED
    BY <1>0, <1>4, <2>3 DEF CopyResult
<1>5. ASSUME NEW t \in Resumers, NEW m \in Messages, ResumeRequeue(t, m) PROVE CallersOK'
  BY <1>0, <1>5 DEF ResumeRequeue
<1>6. ASSUME NEW t \in Resumers, Forget(t) PROVE CallersOK'
  BY <1>0, <1>1, <1>6 DEF Forget
<1>7. ASSUME CallersDie PROVE CallersOK'
  BY <1>1, <1>7 DEF CallersDie
<1>8. CASE UNCHANGED callerVars
  BY <1>0, <1>8 DEF callerVars
<1>9. ASSUME NEW t \in Resumers, CallerStep(t) PROVE CallersOK'
  BY <1>2, <1>3, <1>4, <1>5, <1>6, <1>9 DEF CallerStep, ResumeReturn, RestoreTerminal
<1> HIDE DEF CallersOK
<1> QED
  BY <1>7, <1>8, <1>9, OthersKeepCallers DEF Next, vars

\* settle_terminal_commands leaves both command tables well typed.
LEMMA SettleType ==
    ASSUME TypeOK, NEW a \in Agents, Settle(a)
    PROVE  /\ messageState' \in [Messages -> MessageState]
           /\ requestState' \in [Requests -> RequestState]
           /\ requestAgent' \in [Requests -> Agents \cup {NoAgent}]
BY DEF TypeOK, TablesOK, Settle, MessageState, RequestState

\* insert_ledger leaves the ledger well typed.
LEMMA RecordType ==
    ASSUME TypeOK, NEW a \in Agents, NEW to \in Phase, NEW how \in Outcome \cup {"NONE"},
           Record(a, to, how)
    PROVE  ledger' \in [Agents -> LedgerRow]
BY DEF TypeOK, TablesOK, Record, LedgerRow

\* Every operation writes values of the declared types.
LEMMA TablesStep == TypeOK /\ [Next]_vars => TablesOK'
<1> SUFFICES ASSUME TypeOK, [Next]_vars PROVE TablesOK'
  OBVIOUS
<1> USE IdAssumption
    DEF Phase, BusyPhase, ActivePhase, taskVars, messageVars, requestVars, history
<1>1. CASE ReserveTaskId
  BY <1>1 DEF ReserveTaskId, TypeOK, TablesOK, Agents
<1>2. ASSUME NEW a \in Agents, EnqueueTaskAuthoritative(a) PROVE TablesOK'
  BY <1>2, RecordType DEF EnqueueTaskAuthoritative, TypeOK, TablesOK
<1>3. ASSUME NEW a \in Agents, ClaimNext(a) PROVE TablesOK'
  BY <1>3, RecordType DEF ClaimNext, TypeOK, TablesOK
<1>4. ASSUME NEW a \in Agents, NEW epoch \in 0 .. MaxEpoch, MarkSessionRunning(a, epoch)
      PROVE  TablesOK'
  BY <1>4, RecordType DEF MarkSessionRunning, TypeOK, TablesOK
<1>5. ASSUME NEW a \in Agents, NEW close \in BOOLEAN, NEW cancel \in BOOLEAN,
             RequestStopInternal(a, close, cancel)
      PROVE  TablesOK'
  <2>1. CASE phase[a] = "TERMINAL"
    BY <1>5, <2>1 DEF RequestStopInternal, TypeOK, TablesOK
  <2>2. CASE phase[a] # "TERMINAL"
    <3>1. Settle(a)
      BY <1>5, <2>2 DEF RequestStopInternal
    <3>2. /\ messageState' \in [Messages -> MessageState]
          /\ requestState' \in [Requests -> RequestState]
          /\ requestAgent' \in [Requests -> Agents \cup {NoAgent}]
          /\ UNCHANGED <<messageAgent, messageRowid, messageRows>>
      BY <3>1, SettleType DEF Settle
    <3>3. /\ phase' = [phase EXCEPT ![a] = "CANCELLING"]
          /\ UNCHANGED ledger \/ Record(a, "CANCELLING", "NONE")
      BY <1>5, <2>2 DEF RequestStopInternal
    <3>4. /\ stopRequested' \in [Agents -> BOOLEAN]
          /\ closeRequested' \in [Agents -> BOOLEAN]
      BY <1>5 DEF RequestStopInternal, TypeOK, TablesOK
    <3> QED
      BY <1>5, <3>2, <3>3, <3>4, RecordType DEF RequestStopInternal, TypeOK, TablesOK
  <2> QED
    BY <2>1, <2>2
<1>6. ASSUME NEW a \in Agents, ReapTask(a) PROVE TablesOK'
  BY <1>6 DEF ReapTask, TypeOK, TablesOK
<1>7. ASSUME NEW a \in Agents, NEW r \in Result, StoreTaskResult(a, r) PROVE TablesOK'
  <2>1. TerminalOutcome(a, r.outcome) \in Outcome
    BY OutcomeAssumption DEF TerminalOutcome, Result
  <2>2. /\ messageState' \in [Messages -> MessageState]
        /\ requestState' \in [Requests -> RequestState]
        /\ requestAgent' \in [Requests -> Agents \cup {NoAgent}]
        /\ UNCHANGED <<messageAgent, messageRowid, messageRows>>
    BY <1>7, SettleType DEF StoreTaskResult, ApplyTerminal, Settle
  <2> QED
    BY <1>7, <2>1, <2>2, RecordType DEF StoreTaskResult, ApplyTerminal, TypeOK, TablesOK
<1>8. ASSUME NEW a \in Agents, NEW m \in Messages, RequeueTaskForResume(a, m)
      PROVE  TablesOK'
  BY <1>8, RecordType DEF RequeueTaskForResume, ClearControls, NewMessage, TypeOK, TablesOK, MessageState
<1>9. ASSUME NEW a \in Agents, NEW m \in Messages, InsertMessage(m, a) PROVE TablesOK'
  BY <1>9 DEF InsertMessage, NewMessage, TypeOK, TablesOK, MessageState
<1>10. ASSUME NEW m \in Messages, NEW state \in MessageState, SetMessage(m, state)
       PROVE  TablesOK'
  BY <1>10 DEF SetMessage, TypeOK, TablesOK
<1>11. ASSUME NEW a \in Agents, NEW r \in Requests, InsertPendingRequest(r, a)
       PROVE  TablesOK'
  <2>1. \/ UNCHANGED <<phase, ledger>>
        \/ phase' = [phase EXCEPT ![a] = "WAITING_INPUT"] /\ Record(a, "WAITING_INPUT", "NONE")
    BY <1>11 DEF InsertPendingRequest
  <2>2. /\ requestState' \in [Requests -> RequestState]
        /\ requestAgent' \in [Requests -> Agents \cup {NoAgent}]
    BY <1>11 DEF InsertPendingRequest, TypeOK, TablesOK, RequestState
  <2> QED
    BY <1>11, <2>1, <2>2, RecordType DEF InsertPendingRequest, TypeOK, TablesOK
<1>12. ASSUME NEW a \in Agents, NEW r \in Requests, CompletePendingResponse(a, r)
       PROVE  TablesOK'
  <2>1. \/ UNCHANGED <<phase, ledger>>
        \/ phase' = [phase EXCEPT ![a] = "RUNNING"] /\ Record(a, "RUNNING", "NONE")
    BY <1>12 DEF CompletePendingResponse, LastOpenRequest
  <2>2. /\ requestState' \in [Requests -> RequestState]
        /\ requestAgent' \in [Requests -> Agents \cup {NoAgent}]
    BY <1>12 DEF CompletePendingResponse, LastOpenRequest, TypeOK, TablesOK, RequestState
  <2> QED
    BY <1>12, <2>1, <2>2, RecordType DEF CompletePendingResponse, LastOpenRequest, TypeOK, TablesOK
<1>13. ASSUME NEW a \in Agents, NEW r \in Requests,
              ClaimPendingResponse(a, r) \/ ReleasePendingResponse(a, r)
       PROVE  TablesOK'
  BY <1>13 DEF ClaimPendingResponse, ReleasePendingResponse, TypeOK, TablesOK, RequestState
<1>14. CASE UNCHANGED <<tables, history>>
  BY <1>14 DEF tables, TypeOK, TablesOK
<1>15. ASSUME NEW t \in Resumers, goal[t] \in Agents, RestoreTerminal(t) PROVE TablesOK'
  <2>1. copy[t] \in Copies
    BY DEF TypeOK, CallersOK
  <2>2. /\ copy[t].outcome \in Outcome \cup {"NONE"}
        /\ copy[t].stop \in BOOLEAN /\ copy[t].close \in BOOLEAN
        /\ copy[t].session \in BOOLEAN /\ copy[t].runtime \in BOOLEAN
        /\ copy[t].reaped \in BOOLEAN /\ copy[t].result \in Result \cup {NoResult}
    BY <2>1 DEF Copies
  <2>3. /\ restored' \subseteq Agents
        /\ left' \subseteq Messages \cup Requests
    BY <1>15 DEF RestoreTerminal, OpenMessages, OpenRequests, TypeOK, TablesOK
  <2>4. result' \in [Agents -> Result \cup {NoResult}]
    BY <1>15, <2>2 DEF RestoreTerminal, TypeOK, TablesOK
  <2> QED
    BY <1>15, <2>2, <2>3, <2>4 DEF RestoreTerminal, TypeOK, TablesOK
<1> QED
  BY <1>1, <1>2, <1>3, <1>4, <1>5, <1>6, <1>7, <1>8, <1>9, <1>10, <1>11, <1>12, <1>13,
     <1>14, <1>15, NextCases DEF ClaimNextMessage, CompleteMessage, FailMessage, MessageState

\* Every step of the store or of a caller keeps the types.
LEMMA TypeStep == TypeOK /\ [Next]_vars => TypeOK'
BY TablesStep, CallersStep DEF TypeOK

\* Every reachable database is well typed, for any number of tasks, messages and
\* requests.
THEOREM TypeCorrect == Spec => []TypeOK
BY TypeInit, TypeStep, PTL DEF Spec
-----------------------------------------------------------------------------
\* A step moves at most one task, and one that was not occupying its workspace
\* starts to do so only in an empty one.
LEMMA PhaseStep ==
    ASSUME TypeOK, [Next]_vars
    PROVE  \/ UNCHANGED phase
           \/ \E a \in Agents, p \in Phase :
                 /\ phase' = [phase EXCEPT ![a] = p]
                 /\ p \in BusyPhase => Busy(a) \/ ~WorkspaceBusy(a)
<1> DEFINE Moves ==
      \/ UNCHANGED phase
      \/ \E a \in Agents, p \in Phase :
            /\ phase' = [phase EXCEPT ![a] = p]
            /\ p \in BusyPhase => Busy(a) \/ ~WorkspaceBusy(a)
<1> SUFFICES Moves
  OBVIOUS
<1> USE DEF Busy, Phase, BusyPhase, ActivePhase, taskVars
<1>1. CASE ReserveTaskId
  BY <1>1 DEF ReserveTaskId
<1>2. ASSUME NEW a \in Agents, EnqueueTaskAuthoritative(a) PROVE Moves
  BY <1>2 DEF EnqueueTaskAuthoritative
<1>3. ASSUME NEW a \in Agents, ClaimNext(a) PROVE Moves
  BY <1>3 DEF ClaimNext, Claimable
<1>4. ASSUME NEW a \in Agents, NEW epoch \in 0 .. MaxEpoch, MarkSessionRunning(a, epoch)
      PROVE  Moves
  BY <1>4 DEF MarkSessionRunning
<1>5. ASSUME NEW a \in Agents, NEW close \in BOOLEAN, NEW cancel \in BOOLEAN,
             RequestStopInternal(a, close, cancel)
      PROVE  Moves
  BY <1>5 DEF RequestStopInternal, TypeOK, TablesOK
<1>6. ASSUME NEW a \in Agents, ReapTask(a) PROVE Moves
  BY <1>6 DEF ReapTask
<1>7. ASSUME NEW a \in Agents, NEW r \in Result, StoreTaskResult(a, r) PROVE Moves
  BY <1>7 DEF StoreTaskResult, ApplyTerminal
<1>8. ASSUME NEW a \in Agents, NEW m \in Messages, RequeueTaskForResume(a, m)
      PROVE  Moves
  BY <1>8 DEF RequeueTaskForResume, ClearControls
<1>9. ASSUME NEW a \in Agents, NEW m \in Messages, InsertMessage(m, a) PROVE Moves
  BY <1>9 DEF InsertMessage
<1>10. ASSUME NEW m \in Messages, NEW state \in MessageState, SetMessage(m, state)
       PROVE  Moves
  BY <1>10 DEF SetMessage
<1>11. ASSUME NEW a \in Agents, NEW r \in Requests, InsertPendingRequest(r, a)
       PROVE  Moves
  BY <1>11 DEF InsertPendingRequest
<1>12. ASSUME NEW a \in Agents, NEW r \in Requests, CompletePendingResponse(a, r)
       PROVE  Moves
  BY <1>12 DEF CompletePendingResponse, LastOpenRequest
<1>13. ASSUME NEW a \in Agents, NEW r \in Requests,
              ClaimPendingResponse(a, r) \/ ReleasePendingResponse(a, r)
       PROVE  Moves
  BY <1>13 DEF ClaimPendingResponse, ReleasePendingResponse
<1>14. CASE UNCHANGED <<tables, history>>
  BY <1>14 DEF tables, taskVars
<1>15. ASSUME NEW t \in Resumers, goal[t] \in Agents, RestoreTerminal(t) PROVE Moves
  <2>1. phase' = [phase EXCEPT ![goal[t]] = "TERMINAL"]
    BY <1>15 DEF RestoreTerminal
  <2>2. "TERMINAL" \in Phase \ BusyPhase
    OBVIOUS
  <2> HIDE DEF Phase, BusyPhase
  <2>3. \E a \in Agents, p \in Phase :
           phase' = [phase EXCEPT ![a] = p] /\ p \notin BusyPhase
    BY <1>15, <2>1, <2>2
  <2> QED
    BY <2>3
<1> HIDE DEF Moves, Busy, Phase, BusyPhase, ActivePhase, taskVars
<1> QED
  BY <1>1, <1>2, <1>3, <1>4, <1>5, <1>6, <1>7, <1>8, <1>9, <1>10, <1>11, <1>12, <1>13,
     <1>14, <1>15, NextCases DEF ClaimNextMessage, CompleteMessage, FailMessage, MessageState

\* Every operation keeps unfinished tasks in different workspaces.
LEMMA OneTaskStep ==
    TypeOK /\ OneTaskPerWorkspace /\ [Next]_vars => OneTaskPerWorkspace'
<1> SUFFICES ASSUME TypeOK, OneTaskPerWorkspace, [Next]_vars
             PROVE  OneTaskPerWorkspace'
  OBVIOUS
<1>1. CASE UNCHANGED phase
  BY <1>1 DEF OneTaskPerWorkspace, Busy
<1>2. ASSUME NEW a \in Agents, NEW p \in Phase,
             phase' = [phase EXCEPT ![a] = p],
             p \in BusyPhase => Busy(a) \/ ~WorkspaceBusy(a)
      PROVE  OneTaskPerWorkspace'
  BY <1>2 DEF OneTaskPerWorkspace, WorkspaceBusy, Busy, TypeOK, TablesOK
<1> QED
  BY <1>1, <1>2, PhaseStep

\* For any number of tasks and workspaces, no two unfinished tasks share one.
THEOREM WorkspaceExclusive == Spec => []OneTaskPerWorkspace
<1>1. Init => OneTaskPerWorkspace
  BY DEF Init, OneTaskPerWorkspace, Busy, BusyPhase, ActivePhase
<1> QED
  BY <1>1, OneTaskStep, TypeCorrect, PTL DEF Spec
-----------------------------------------------------------------------------
\* What a task's row, its result and its ledger have to do with each other.
RowsAgree == TablesAgree /\ StopIsFinal

\* Every operation that moves a task writes its row, result and ledger together.
LEMMA RowsAgreeStep == TypeOK /\ RowsAgree /\ [Next]_vars => RowsAgree'
<1> SUFFICES ASSUME TypeOK, RowsAgree, [Next]_vars PROVE RowsAgree'
  OBVIOUS
<1> USE OutcomeAssumption
    DEF RowsAgree, TablesAgree, ResultAgreesWithOutcome, LedgerFollowsTask, StopIsFinal,
        Stopping, TypeOK, TablesOK, NoResult, LedgerRow, Phase, BusyPhase, ActivePhase, taskVars, history
<1>1. CASE ReserveTaskId
  BY <1>1 DEF ReserveTaskId
<1>2. ASSUME NEW a \in Agents, EnqueueTaskAuthoritative(a) PROVE RowsAgree'
  BY <1>2 DEF EnqueueTaskAuthoritative, Record
<1>3. ASSUME NEW a \in Agents, ClaimNext(a) PROVE RowsAgree'
  BY <1>3 DEF ClaimNext, Claimable, Record
<1>4. ASSUME NEW a \in Agents, NEW epoch \in 0 .. MaxEpoch, MarkSessionRunning(a, epoch)
      PROVE  RowsAgree'
  BY <1>4 DEF MarkSessionRunning, Record
<1>5. ASSUME NEW a \in Agents, NEW close \in BOOLEAN, NEW cancel \in BOOLEAN,
             RequestStopInternal(a, close, cancel)
      PROVE  RowsAgree'
  BY <1>5 DEF RequestStopInternal, Record
<1>6. ASSUME NEW a \in Agents, ReapTask(a) PROVE RowsAgree'
  BY <1>6 DEF ReapTask
<1>7. ASSUME NEW a \in Agents, NEW r \in Result, StoreTaskResult(a, r) PROVE RowsAgree'
  BY <1>7 DEF StoreTaskResult, ApplyTerminal, TerminalOutcome, Result, Record
<1>8. ASSUME NEW a \in Agents, NEW m \in Messages, RequeueTaskForResume(a, m)
      PROVE  RowsAgree'
  <2>1. /\ result'[a] = NoResult
        /\ phase'[a] = "QUEUED"
        /\ outcome'[a] = "NONE"
        /\ ~stopRequested'[a]
        /\ ~closeRequested'[a]
        /\ ledger'[a] = [to |-> "QUEUED", outcome |-> "NONE"]
        /\ a \notin restored'
    BY <1>8 DEF RequeueTaskForResume, ClearControls, Record
  <2>2. \A b \in Agents \ {a} :
           /\ result'[b] = result[b]
           /\ phase'[b] = phase[b]
           /\ outcome'[b] = outcome[b]
           /\ stopRequested'[b] = stopRequested[b]
           /\ closeRequested'[b] = closeRequested[b]
           /\ ledger'[b] = ledger[b]
           /\ b \in restored' <=> b \in restored
    BY <1>8 DEF RequeueTaskForResume, ClearControls, Record
  <2>3. NoResult.outcome = "NONE"
    OBVIOUS
  <2> HIDE DEF NoResult, TypeOK, TablesOK
  <2>4. TablesAgree'
    BY <2>1, <2>2, <2>3
  <2>5. StopIsFinal'
    BY <2>1, <2>2
  <2> QED
    BY <2>4, <2>5
<1>9. ASSUME NEW a \in Agents, NEW m \in Messages, InsertMessage(m, a) PROVE RowsAgree'
  BY <1>9 DEF InsertMessage
<1>10. ASSUME NEW m \in Messages, NEW state \in MessageState, SetMessage(m, state)
       PROVE  RowsAgree'
  BY <1>10 DEF SetMessage
<1>11. ASSUME NEW a \in Agents, NEW r \in Requests, InsertPendingRequest(r, a)
       PROVE  RowsAgree'
  <2>1. CASE phase[a] = "RUNNING"
    <3>1. /\ phase' = [phase EXCEPT ![a] = "WAITING_INPUT"]
          /\ ledger' = [ledger EXCEPT ![a] = [to |-> "WAITING_INPUT", outcome |-> "NONE"]]
          /\ UNCHANGED <<outcome, stopRequested, closeRequested, result, restored>>
          /\ ~stopRequested[a] /\ ~closeRequested[a]
      BY <1>11, <2>1 DEF InsertPendingRequest, Record
    <3> QED
      BY <2>1, <3>1
  <2>2. CASE phase[a] # "RUNNING"
    <3>1. UNCHANGED <<phase, outcome, stopRequested, closeRequested, result, ledger, restored>>
      BY <1>11, <2>2 DEF InsertPendingRequest
    <3> QED
      BY <3>1
  <2> QED
    BY <2>1, <2>2
<1>12. ASSUME NEW a \in Agents, NEW r \in Requests, CompletePendingResponse(a, r)
       PROVE  RowsAgree'
  <2>1. UNCHANGED <<outcome, stopRequested, closeRequested, result, restored>>
    BY <1>12 DEF CompletePendingResponse
  <2>2. CASE UNCHANGED <<phase, ledger>>
    BY <2>1, <2>2
  <2>3. CASE /\ phase[a] = "WAITING_INPUT" /\ ~Stopping(a)
             /\ phase' = [phase EXCEPT ![a] = "RUNNING"] /\ Record(a, "RUNNING", "NONE")
    BY <2>1, <2>3 DEF Record
  <2> QED
    BY <1>12, <2>2, <2>3 DEF CompletePendingResponse, LastOpenRequest
<1>13. ASSUME NEW a \in Agents, NEW r \in Requests,
              ClaimPendingResponse(a, r) \/ ReleasePendingResponse(a, r)
       PROVE  RowsAgree'
  BY <1>13 DEF ClaimPendingResponse, ReleasePendingResponse
<1>14. CASE UNCHANGED <<tables, history>>
  BY <1>14 DEF tables
<1>15. ASSUME NEW t \in Resumers, goal[t] \in Agents, RestoreTerminal(t) PROVE RowsAgree'
  <2>1. phase'[goal[t]] = "TERMINAL" /\ goal[t] \in restored'
    BY <1>15 DEF RestoreTerminal
  <2>2. \A b \in Agents \ {goal[t]} :
           /\ result'[b] = result[b]
           /\ phase'[b] = phase[b]
           /\ outcome'[b] = outcome[b]
           /\ stopRequested'[b] = stopRequested[b]
           /\ closeRequested'[b] = closeRequested[b]
           /\ ledger'[b] = ledger[b]
           /\ b \in restored' <=> b \in restored
    BY <1>15 DEF RestoreTerminal
  <2> HIDE DEF NoResult, TypeOK, TablesOK
  <2>3. TablesAgree'
    BY <1>15, <2>1, <2>2
  <2>4. StopIsFinal'
    BY <1>15, <2>1, <2>2
  <2> QED
    BY <2>3, <2>4
<1> QED
  BY <1>1, <1>2, <1>3, <1>4, <1>5, <1>6, <1>7, <1>8, <1>9, <1>10, <1>11, <1>12, <1>13,
     <1>14, <1>15, NextCases DEF ClaimNextMessage, CompleteMessage, FailMessage, MessageState

\* An empty database has no row that another table could contradict.
LEMMA RowsInit == Init => RowsAgree
BY DEF Init, RowsAgree, TablesAgree, ResultAgreesWithOutcome, LedgerFollowsTask,
       StopIsFinal, Stopping, NoResult, NoLedger

\* For any number of tasks and callers that resume them: the result table, the task
\* table and the audit trail tell the same story in every reachable database, but for
\* finished tasks that the restore of a failed resume wrote.
THEOREM RowsAlwaysAgree == Spec => []TablesAgree
<1>1. RowsAgree => TablesAgree
  BY DEF RowsAgree
<1> QED
  BY <1>1, RowsInit, RowsAgreeStep, TypeCorrect, PTL DEF Spec

-----------------------------------------------------------------------------
(***************************************************************************)
(* Requests, messages, and the stop that overtakes them; the lease         *)
(***************************************************************************)

\* How a step can touch the message table.
LEMMA MessageCases ==
    ASSUME TypeOK, [Next]_vars
    PROVE  \/ UNCHANGED messageVars
           \/ \E a \in Agents : Settle(a)
           \/ \E a \in Agents, m \in Messages : messageState[m] = "ABSENT" /\ NewMessage(m, a)
           \/ \E a \in Agents, m \in Messages : ClaimNextMessage(a, m)
           \/ \E m \in Messages : CompleteMessage(m) \/ FailMessage(m)
<1> USE DEF messageVars, vars
<1>1. ASSUME NEW a \in Agents, NEW close \in BOOLEAN, NEW cancel \in BOOLEAN,
             RequestStopInternal(a, close, cancel)
      PROVE  UNCHANGED messageVars \/ Settle(a)
  BY <1>1 DEF RequestStopInternal
<1>2. ASSUME NEW a \in Agents, NEW r \in Result, StoreTaskResult(a, r)
      PROVE  Settle(a)
  BY <1>2 DEF StoreTaskResult, ApplyTerminal
<1>3. ASSUME NEW a \in Agents, NEW m \in Messages,
             RequeueTaskForResume(a, m) \/ InsertMessage(m, a)
      PROVE  messageState[m] = "ABSENT" /\ NewMessage(m, a)
  BY <1>3 DEF RequeueTaskForResume, ClearControls, InsertMessage
<1>4. ASSUME NEW a \in Agents,
             \/ EnqueueTaskAuthoritative(a)
             \/ ClaimNext(a)
             \/ \E epoch \in 0 .. MaxEpoch : MarkSessionRunning(a, epoch)
             \/ ReapTask(a)
      PROVE  UNCHANGED messageVars
  BY <1>4 DEF EnqueueTaskAuthoritative, ClaimNext, MarkSessionRunning, ReapTask
<1>5. ASSUME NEW a \in Agents, NEW r \in Requests,
             \/ InsertPendingRequest(r, a)
             \/ ClaimPendingResponse(a, r)
             \/ CompletePendingResponse(a, r)
             \/ ReleasePendingResponse(a, r)
      PROVE  UNCHANGED messageVars
  BY <1>5 DEF InsertPendingRequest, ClaimPendingResponse, CompletePendingResponse, LastOpenRequest,
              ReleasePendingResponse
<1>6. ReserveTaskId => UNCHANGED messageVars
  BY DEF ReserveTaskId
<1>7. ASSUME NEW t \in Resumers, RestoreTerminal(t) PROVE UNCHANGED messageVars
  BY <1>7 DEF RestoreTerminal
<1>8. UNCHANGED <<tables, history>> => UNCHANGED messageVars
  BY DEF tables
<1> HIDE DEF messageVars
<1> QED
  BY <1>1, <1>2, <1>3, <1>4, <1>5, <1>6, <1>7, <1>8, NextCases

\* Every inserted message takes the next row number and no row is renumbered.
LEMMA MessageRowsStep ==
    TypeOK /\ MessageRowsNumbered /\ [Next]_vars => MessageRowsNumbered'
<1> SUFFICES ASSUME TypeOK, MessageRowsNumbered, [Next]_vars
             PROVE  MessageRowsNumbered'
  OBVIOUS
<1> USE DEF MessageRowsNumbered
<1>1. CASE UNCHANGED messageVars
  BY <1>1 DEF messageVars
<1>2. ASSUME NEW a \in Agents, Settle(a) PROVE MessageRowsNumbered'
  BY <1>2 DEF Settle, OpenMessages, OpenMessageState
<1>3. ASSUME NEW a \in Agents, NEW m \in Messages, messageState[m] = "ABSENT", NewMessage(m, a)
      PROVE  MessageRowsNumbered'
  BY <1>3 DEF NewMessage, TypeOK, TablesOK
<1>4. ASSUME NEW m \in Messages, NEW state \in MessageState, SetMessage(m, state),
             messageState[m] # "ABSENT"
      PROVE  MessageRowsNumbered'
  BY <1>4 DEF SetMessage, TypeOK, TablesOK
<1> QED
  BY <1>1, <1>2, <1>3, <1>4, MessageCases
     DEF ClaimNextMessage, CompleteMessage, FailMessage, MessageState, OpenMessageState

\* claim_next_message takes the oldest queued message, so none overtakes another.
LEMMA InOrderStep ==
    TypeOK /\ MessageRowsNumbered /\ MessagesInOrder /\ [Next]_vars => MessagesInOrder'
<1> SUFFICES ASSUME TypeOK, MessageRowsNumbered, MessagesInOrder, [Next]_vars
             PROVE  MessagesInOrder'
  OBVIOUS
<1> USE DEF MessagesInOrder
<1>1. CASE UNCHANGED messageVars
  BY <1>1 DEF messageVars
<1>2. ASSUME NEW a \in Agents, Settle(a) PROVE MessagesInOrder'
  BY <1>2 DEF Settle, OpenMessages, OpenMessageState
<1>3. ASSUME NEW a \in Agents, NEW m \in Messages, messageState[m] = "ABSENT", NewMessage(m, a)
      PROVE  MessagesInOrder'
  BY <1>3 DEF NewMessage, MessageRowsNumbered, TypeOK, TablesOK
<1>4. ASSUME NEW a \in Agents, NEW m \in Messages, ClaimNextMessage(a, m)
      PROVE  MessagesInOrder'
  BY <1>4 DEF ClaimNextMessage, SetMessage, MessageRowsNumbered, TypeOK, TablesOK
<1>5. ASSUME NEW m \in Messages, CompleteMessage(m) \/ FailMessage(m)
      PROVE  MessagesInOrder'
  BY <1>5 DEF CompleteMessage, FailMessage, SetMessage, TypeOK, TablesOK
<1> QED
  BY <1>1, <1>2, <1>3, <1>4, <1>5, MessageCases

\* For any number of messages: no message overtakes an earlier one of its task.
THEOREM MessagesStayInOrder == Spec => []MessagesInOrder
<1>1. Init => MessageRowsNumbered /\ MessagesInOrder
  BY DEF Init, MessageRowsNumbered, MessagesInOrder
<1> QED
  BY <1>1, MessageRowsStep, InOrderStep, TypeCorrect, PTL DEF Spec
-----------------------------------------------------------------------------
\* How a step can touch the request table, and the phase of a task that waits.
LEMMA RequestCases ==
    ASSUME TypeOK, [Next]_vars
    PROVE  \/ UNCHANGED <<requestVars, phase, left>>
           \/ \E a \in Agents, p \in Phase :
                 /\ UNCHANGED <<requestVars, left>>
                 /\ phase' = [phase EXCEPT ![a] = p]
                 /\ phase[a] # "WAITING_INPUT" /\ p # "WAITING_INPUT"
           \/ \E a \in Agents, p \in {"CANCELLING", "TERMINAL"} :
                 Settle(a) /\ UNCHANGED left /\ phase' = [phase EXCEPT ![a] = p]
           \/ \E t \in Resumers : goal[t] \in Agents /\ RestoreTerminal(t)
           \/ \E a \in Agents, r \in Requests : InsertPendingRequest(r, a)
           \/ \E a \in Agents, r \in Requests : ClaimPendingResponse(a, r)
           \/ \E a \in Agents, r \in Requests : CompletePendingResponse(a, r)
           \/ \E a \in Agents, r \in Requests : ReleasePendingResponse(a, r)
<1> USE DEF requestVars, taskVars, history, Phase, BusyPhase, ActivePhase
<1>1. ASSUME NEW a \in Agents, NEW close \in BOOLEAN, NEW cancel \in BOOLEAN,
             RequestStopInternal(a, close, cancel)
      PROVE  \/ UNCHANGED <<requestVars, phase, left>>
             \/ Settle(a) /\ UNCHANGED left /\ phase' = [phase EXCEPT ![a] = "CANCELLING"]
  BY <1>1 DEF RequestStopInternal
<1>2. ASSUME NEW a \in Agents, NEW r \in Result, StoreTaskResult(a, r)
      PROVE  Settle(a) /\ UNCHANGED left /\ phase' = [phase EXCEPT ![a] = "TERMINAL"]
  BY <1>2 DEF StoreTaskResult, ApplyTerminal
<1>3. ASSUME NEW a \in Agents,
             \/ EnqueueTaskAuthoritative(a)
             \/ ClaimNext(a)
             \/ \E epoch \in 0 .. MaxEpoch : MarkSessionRunning(a, epoch)
             \/ \E m \in Messages : RequeueTaskForResume(a, m)
      PROVE  \E p \in Phase :
                 /\ UNCHANGED <<requestVars, left>>
                 /\ phase' = [phase EXCEPT ![a] = p]
                 /\ phase[a] # "WAITING_INPUT" /\ p # "WAITING_INPUT"
  BY <1>3 DEF EnqueueTaskAuthoritative, ClaimNext, Claimable, MarkSessionRunning,
              RequeueTaskForResume, ClearControls
<1>4. ASSUME NEW a \in Agents, NEW m \in Messages,
             InsertMessage(m, a) \/ ClaimNextMessage(a, m)
      PROVE  UNCHANGED <<requestVars, phase, left>>
  BY <1>4 DEF InsertMessage, ClaimNextMessage, SetMessage
<1>5. ReserveTaskId \/ (\E a \in Agents : ReapTask(a))
        => UNCHANGED <<requestVars, phase, left>>
  BY DEF ReserveTaskId, ReapTask
<1>6. \A m \in Messages : CompleteMessage(m) \/ FailMessage(m)
        => UNCHANGED <<requestVars, phase, left>>
  BY DEF CompleteMessage, FailMessage, SetMessage
<1>7. UNCHANGED <<tables, history>> => UNCHANGED <<requestVars, phase, left>>
  BY DEF tables
<1> HIDE DEF requestVars, history, Phase, BusyPhase, ActivePhase
<1> QED
  BY <1>1, <1>2, <1>3, <1>4, <1>5, <1>6, <1>7, NextCases

\* Opening, answering or settling a request moves the phase with it.
LEMMA WaitingStep ==
    TypeOK /\ StopIsFinal /\ WaitingIffOpenRequest /\ [Next]_vars => WaitingIffOpenRequest'
<1> SUFFICES ASSUME TypeOK, StopIsFinal, WaitingIffOpenRequest, [Next]_vars
             PROVE  WaitingIffOpenRequest'
  OBVIOUS
<1> USE NoAgentAssumption DEF WaitingIffOpenRequest, OpenRequests, OpenRequestState
<1>1. CASE UNCHANGED <<requestVars, phase, left>>
  BY <1>1 DEF requestVars
<1>2. ASSUME NEW a \in Agents, NEW p \in Phase,
             UNCHANGED <<requestVars, left>>, phase' = [phase EXCEPT ![a] = p],
             phase[a] # "WAITING_INPUT", p # "WAITING_INPUT"
      PROVE  WaitingIffOpenRequest'
  BY <1>2 DEF requestVars, TypeOK, TablesOK
<1>3. ASSUME NEW a \in Agents, NEW p \in {"CANCELLING", "TERMINAL"},
             Settle(a), UNCHANGED left, phase' = [phase EXCEPT ![a] = p]
      PROVE  WaitingIffOpenRequest'
  BY <1>3 DEF Settle, TypeOK, TablesOK
<1>4. ASSUME NEW a \in Agents, NEW r \in Requests, InsertPendingRequest(r, a)
      PROVE  WaitingIffOpenRequest'
  <2>1. phase'[a] = "WAITING_INPUT" /\ \A b \in Agents \ {a} : phase'[b] = phase[b]
    BY <1>4 DEF InsertPendingRequest, TypeOK, TablesOK
  <2>2. r \in OpenRequests(a)' /\ \A b \in Agents \ {a} : OpenRequests(b)' = OpenRequests(b)
    BY <1>4 DEF InsertPendingRequest, TypeOK, TablesOK
  <2>3. left' = left \ {r} /\ \A b \in Agents : r \notin OpenRequests(b)
    BY <1>4 DEF InsertPendingRequest
  <2> HIDE DEF OpenRequests
  <2> QED
    BY <2>1, <2>2, <2>3
<1>5. ASSUME NEW a \in Agents, NEW r \in Requests,
             ClaimPendingResponse(a, r) \/ ReleasePendingResponse(a, r)
      PROVE  WaitingIffOpenRequest'
  BY <1>5 DEF ClaimPendingResponse, ReleasePendingResponse, TypeOK, TablesOK, taskVars, history
<1>6. ASSUME NEW a \in Agents, NEW r \in Requests, CompletePendingResponse(a, r)
      PROVE  WaitingIffOpenRequest'
  <2>1. /\ r \in OpenRequests(a)
        /\ OpenRequests(a)' = OpenRequests(a) \ {r}
        /\ \A b \in Agents \ {a} : OpenRequests(b)' = OpenRequests(b)
    BY <1>6 DEF CompletePendingResponse, LastOpenRequest, TypeOK, TablesOK
  <2>2. UNCHANGED left /\ \A b \in Agents \ {a} : phase'[b] = phase[b]
    BY <1>6 DEF CompletePendingResponse, LastOpenRequest, TypeOK, TablesOK, history
  <2>3. phase[a] = "WAITING_INPUT" => ~Stopping(a)
    BY DEF StopIsFinal
  <2>4. phase'[a] = IF phase[a] = "WAITING_INPUT" /\ OpenRequests(a) = {r}
                    THEN "RUNNING" ELSE phase[a]
    BY <1>6, <2>3 DEF CompletePendingResponse, LastOpenRequest, TypeOK, TablesOK
  <2> HIDE DEF OpenRequests
  <2> QED
    BY <2>1, <2>2, <2>4
<1>7. ASSUME NEW t \in Resumers, goal[t] \in Agents, RestoreTerminal(t)
      PROVE  WaitingIffOpenRequest'
  <2>1. /\ phase'[goal[t]] = "TERMINAL"
        /\ \A b \in Agents \ {goal[t]} : phase'[b] = phase[b]
        /\ \A b \in Agents : OpenRequests(b)' = OpenRequests(b)
        /\ left \subseteq left' /\ OpenRequests(goal[t]) \subseteq left'
    BY <1>7 DEF RestoreTerminal, requestVars, TypeOK, TablesOK
  <2> HIDE DEF OpenRequests
  <2> QED
    BY <1>7, <2>1
<1> QED
  BY <1>1, <1>2, <1>3, <1>4, <1>5, <1>6, <1>7, RequestCases

\* For any number of requests, answered in any order and by any caller: a task
\* waits exactly while a request is open, but for requests that a restore left behind.
THEOREM WaitingMeansOpenRequest == Spec => []WaitingIffOpenRequest
<1>1. Init => RowsAgree /\ WaitingIffOpenRequest
  BY NoAgentAssumption, RowsInit
     DEF Init, WaitingIffOpenRequest, OpenRequests, OpenRequestState
<1>2. RowsAgree => StopIsFinal
  BY DEF RowsAgree
<1> QED
  BY <1>1, <1>2, WaitingStep, RowsAgreeStep, TypeCorrect, PTL DEF Spec
-----------------------------------------------------------------------------
\* Every operation leaves a finished or stopping task without an open message.
LEMMA NoOpenMessageStep ==
    TypeOK /\ NoOpenMessageAfterStop /\ [Next]_vars => NoOpenMessageAfterStop'
<1> SUFFICES ASSUME TypeOK, NoOpenMessageAfterStop, [Next]_vars
             PROVE  NoOpenMessageAfterStop'
  OBVIOUS
<1> USE DEF NoOpenMessageAfterStop, OpenMessages, OpenMessageState, Stopping, TypeOK, TablesOK,
            BusyPhase, ActivePhase, taskVars, messageVars, history
<1>1. CASE ReserveTaskId
  BY <1>1 DEF ReserveTaskId
<1>2. ASSUME NEW a \in Agents, EnqueueTaskAuthoritative(a) PROVE NoOpenMessageAfterStop'
  BY <1>2 DEF EnqueueTaskAuthoritative
<1>3. ASSUME NEW a \in Agents, ClaimNext(a) PROVE NoOpenMessageAfterStop'
  BY <1>3 DEF ClaimNext, Claimable
<1>4. ASSUME NEW a \in Agents, NEW epoch \in 0 .. MaxEpoch, MarkSessionRunning(a, epoch)
      PROVE  NoOpenMessageAfterStop'
  BY <1>4 DEF MarkSessionRunning
<1>5. ASSUME NEW a \in Agents, NEW close \in BOOLEAN, NEW cancel \in BOOLEAN,
             RequestStopInternal(a, close, cancel)
      PROVE  NoOpenMessageAfterStop'
  BY <1>5 DEF RequestStopInternal, Settle
<1>6. ASSUME NEW a \in Agents, ReapTask(a) PROVE NoOpenMessageAfterStop'
  BY <1>6 DEF ReapTask
<1>7. ASSUME NEW a \in Agents, NEW r \in Result, StoreTaskResult(a, r) PROVE NoOpenMessageAfterStop'
  BY <1>7 DEF StoreTaskResult, ApplyTerminal, Settle
<1>8. ASSUME NEW a \in Agents, NEW m \in Messages, RequeueTaskForResume(a, m)
      PROVE  NoOpenMessageAfterStop'
  BY <1>8 DEF RequeueTaskForResume, ClearControls, NewMessage, Busy
<1>9. ASSUME NEW a \in Agents, NEW m \in Messages, InsertMessage(m, a) PROVE NoOpenMessageAfterStop'
  BY <1>9 DEF InsertMessage, NewMessage, Busy
<1>10. ASSUME NEW m \in Messages, NEW state \in MessageState, SetMessage(m, state),
              state \in OpenMessageState => messageState[m] \in OpenMessageState
       PROVE  NoOpenMessageAfterStop'
  BY <1>10 DEF SetMessage
<1>11. ASSUME NEW a \in Agents, NEW r \in Requests, InsertPendingRequest(r, a)
       PROVE  NoOpenMessageAfterStop'
  <2>1. UNCHANGED messageVars /\ UNCHANGED <<stopRequested, closeRequested>>
    BY <1>11 DEF InsertPendingRequest
  <2>2. \A b \in Agents : phase'[b] = "TERMINAL" => phase[b] = "TERMINAL"
    BY <1>11 DEF InsertPendingRequest
  <2>3. left' = left \ {r} /\ r \notin Messages
    BY <1>11, CommandAssumption DEF InsertPendingRequest
  <2> QED
    BY <2>1, <2>2, <2>3
<1>12. ASSUME NEW a \in Agents, NEW r \in Requests, CompletePendingResponse(a, r)
       PROVE  NoOpenMessageAfterStop'
  BY <1>12 DEF CompletePendingResponse, LastOpenRequest
<1>13. ASSUME NEW a \in Agents, NEW r \in Requests,
              ClaimPendingResponse(a, r) \/ ReleasePendingResponse(a, r)
       PROVE  NoOpenMessageAfterStop'
  BY <1>13 DEF ClaimPendingResponse, ReleasePendingResponse
<1>14. CASE UNCHANGED <<tables, history>>
  BY <1>14 DEF tables
<1>15. ASSUME NEW t \in Resumers, goal[t] \in Agents, RestoreTerminal(t) PROVE NoOpenMessageAfterStop'
  <2>1. /\ OpenMessages(goal[t]) \subseteq left' /\ left \subseteq left'
        /\ UNCHANGED messageVars
    BY <1>15 DEF RestoreTerminal
  <2>2. \A b \in Agents \ {goal[t]} :
           /\ phase'[b] = phase[b]
           /\ stopRequested'[b] = stopRequested[b]
           /\ closeRequested'[b] = closeRequested[b]
    BY <1>15 DEF RestoreTerminal
  <2> QED
    BY <1>15, <2>1, <2>2
<1> QED
  BY <1>1, <1>2, <1>3, <1>4, <1>5, <1>6, <1>7, <1>8, <1>9, <1>10, <1>11, <1>12, <1>13,
     <1>14, <1>15, NextCases DEF ClaimNextMessage, CompleteMessage, FailMessage, MessageState

\* For any number of tasks and messages: a stop or an end leaves nothing to send but
\* what a restore left behind.
THEOREM NothingSentAfterStop == Spec => []NoOpenMessageAfterStop
<1>1. Init => NoOpenMessageAfterStop
  BY DEF Init, NoOpenMessageAfterStop, OpenMessages, OpenMessageState
<1> QED
  BY <1>1, NoOpenMessageStep, TypeCorrect, PTL DEF Spec
-----------------------------------------------------------------------------
\* No operation takes a task with a pending stop anywhere but to CANCELLED.
LEMMA StoredCancelStep ==
    TypeOK /\ RowsAgree /\ [Next]_vars => 
        [\A a \in Agents : StaysCancelled(a) \/ WritesBack(a)]_vars
<1> SUFFICES ASSUME TypeOK, RowsAgree, [Next]_vars
             PROVE  \A b \in Agents : StaysCancelled(b) \/ WritesBack(b)
  OBVIOUS
<1> USE DEF StaysCancelled, RowsAgree, StopIsFinal, Busy, Stopping, TypeOK, TablesOK, BusyPhase,
            ActivePhase, taskVars
<1>1. CASE ReserveTaskId
  BY <1>1 DEF ReserveTaskId
<1>2. ASSUME NEW a \in Agents, EnqueueTaskAuthoritative(a) PROVE \A b \in Agents : StaysCancelled(b)
  BY <1>2 DEF EnqueueTaskAuthoritative
<1>3. ASSUME NEW a \in Agents, ClaimNext(a) PROVE \A b \in Agents : StaysCancelled(b)
  BY <1>3 DEF ClaimNext, Claimable
<1>4. ASSUME NEW a \in Agents, NEW epoch \in 0 .. MaxEpoch, MarkSessionRunning(a, epoch)
      PROVE  \A b \in Agents : StaysCancelled(b)
  BY <1>4 DEF MarkSessionRunning
<1>5. ASSUME NEW a \in Agents, NEW close \in BOOLEAN, NEW cancel \in BOOLEAN,
             RequestStopInternal(a, close, cancel)
      PROVE  \A b \in Agents : StaysCancelled(b)
  BY <1>5 DEF RequestStopInternal
<1>6. ASSUME NEW a \in Agents, ReapTask(a) PROVE \A b \in Agents : StaysCancelled(b)
  BY <1>6 DEF ReapTask
<1>7. ASSUME NEW a \in Agents, NEW r \in Result, StoreTaskResult(a, r) PROVE \A b \in Agents : StaysCancelled(b)
  BY <1>7 DEF StoreTaskResult, ApplyTerminal, TerminalOutcome
<1>8. ASSUME NEW a \in Agents, NEW m \in Messages, RequeueTaskForResume(a, m)
      PROVE  \A b \in Agents : StaysCancelled(b)
  BY <1>8 DEF RequeueTaskForResume, ClearControls
<1>9. ASSUME NEW a \in Agents, NEW m \in Messages, InsertMessage(m, a) PROVE \A b \in Agents : StaysCancelled(b)
  BY <1>9 DEF InsertMessage
<1>10. ASSUME NEW m \in Messages, NEW state \in MessageState, SetMessage(m, state)
       PROVE  \A b \in Agents : StaysCancelled(b)
  BY <1>10 DEF SetMessage
<1>11. ASSUME NEW a \in Agents, NEW r \in Requests, InsertPendingRequest(r, a)
       PROVE  \A b \in Agents : StaysCancelled(b)
  BY <1>11 DEF InsertPendingRequest
<1>12. ASSUME NEW a \in Agents, NEW r \in Requests, CompletePendingResponse(a, r)
       PROVE  \A b \in Agents : StaysCancelled(b)
  BY <1>12 DEF CompletePendingResponse, LastOpenRequest
<1>13. ASSUME NEW a \in Agents, NEW r \in Requests,
              ClaimPendingResponse(a, r) \/ ReleasePendingResponse(a, r)
       PROVE  \A b \in Agents : StaysCancelled(b)
  BY <1>13 DEF ClaimPendingResponse, ReleasePendingResponse
<1>14. CASE UNCHANGED <<tables, history>>
  BY <1>14 DEF tables
<1>15. ASSUME NEW t \in Resumers, goal[t] \in Agents, RestoreTerminal(t)
       PROVE  \A b \in Agents : StaysCancelled(b) \/ WritesBack(b)
  <2>1. WritesBack(goal[t])
    BY <1>15 DEF RestoreTerminal, Forget, WritesBack, CallersOK
  <2>2. \A b \in Agents \ {goal[t]} : StaysCancelled(b)
    BY <1>15 DEF RestoreTerminal
  <2> QED
    BY <2>1, <2>2
<1> QED
  BY <1>1, <1>2, <1>3, <1>4, <1>5, <1>6, <1>7, <1>8, <1>9, <1>10, <1>11, <1>12, <1>13,
     <1>14, <1>15, NextCases DEF ClaimNextMessage, CompleteMessage, FailMessage, MessageState

\* For any number of tasks and whatever arrives late: a requested stop decides the
\* outcome of a task that had not ended.
THEOREM CancelAlwaysWins == Spec => CancelWins
BY TypeCorrect, TypeInit, TypeStep, RowsInit, RowsAgreeStep, StoredCancelStep, PTL
   DEF Spec, CancelWins

\* No operation rewrites a result, and only a resume removes one.
LEMMA ResultStep ==
    TypeOK /\ RowsAgree /\ [Next]_vars => 
        [\A a \in Agents : ResultReplaced(a) \/ WritesBack(a)]_vars
<1> SUFFICES ASSUME TypeOK, RowsAgree, [Next]_vars
             PROVE  \A b \in Agents : ResultReplaced(b) \/ WritesBack(b)
  OBVIOUS
<1> USE DEF ResultReplaced, RowsAgree, TypeOK, TablesOK, taskVars
<1>1. CASE ReserveTaskId
  BY <1>1 DEF ReserveTaskId
<1>2. ASSUME NEW a \in Agents, EnqueueTaskAuthoritative(a) PROVE \A b \in Agents : ResultReplaced(b)
  BY <1>2 DEF EnqueueTaskAuthoritative
<1>3. ASSUME NEW a \in Agents, ClaimNext(a) PROVE \A b \in Agents : ResultReplaced(b)
  BY <1>3 DEF ClaimNext, Claimable
<1>4. ASSUME NEW a \in Agents, NEW epoch \in 0 .. MaxEpoch, MarkSessionRunning(a, epoch)
      PROVE  \A b \in Agents : ResultReplaced(b)
  BY <1>4 DEF MarkSessionRunning
<1>5. ASSUME NEW a \in Agents, NEW close \in BOOLEAN, NEW cancel \in BOOLEAN,
             RequestStopInternal(a, close, cancel)
      PROVE  \A b \in Agents : ResultReplaced(b)
  BY <1>5 DEF RequestStopInternal
<1>6. ASSUME NEW a \in Agents, ReapTask(a) PROVE \A b \in Agents : ResultReplaced(b)
  BY <1>6 DEF ReapTask
<1>7. ASSUME NEW a \in Agents, NEW r \in Result, StoreTaskResult(a, r) PROVE \A b \in Agents : ResultReplaced(b)
  BY <1>7 DEF StoreTaskResult
<1>8. ASSUME NEW a \in Agents, NEW m \in Messages, RequeueTaskForResume(a, m)
      PROVE  \A b \in Agents : ResultReplaced(b)
  BY <1>8 DEF RequeueTaskForResume, ClearControls
<1>9. ASSUME NEW a \in Agents, NEW m \in Messages, InsertMessage(m, a) PROVE \A b \in Agents : ResultReplaced(b)
  BY <1>9 DEF InsertMessage
<1>10. ASSUME NEW m \in Messages, NEW state \in MessageState, SetMessage(m, state)
       PROVE  \A b \in Agents : ResultReplaced(b)
  BY <1>10 DEF SetMessage
<1>11. ASSUME NEW a \in Agents, NEW r \in Requests, InsertPendingRequest(r, a)
       PROVE  \A b \in Agents : ResultReplaced(b)
  BY <1>11 DEF InsertPendingRequest
<1>12. ASSUME NEW a \in Agents, NEW r \in Requests, CompletePendingResponse(a, r)
       PROVE  \A b \in Agents : ResultReplaced(b)
  BY <1>12 DEF CompletePendingResponse, LastOpenRequest
<1>13. ASSUME NEW a \in Agents, NEW r \in Requests,
              ClaimPendingResponse(a, r) \/ ReleasePendingResponse(a, r)
       PROVE  \A b \in Agents : ResultReplaced(b)
  BY <1>13 DEF ClaimPendingResponse, ReleasePendingResponse
<1>14. CASE UNCHANGED <<tables, history>>
  BY <1>14 DEF tables
<1>15. ASSUME NEW t \in Resumers, goal[t] \in Agents, RestoreTerminal(t)
       PROVE  \A b \in Agents : ResultReplaced(b) \/ WritesBack(b)
  <2>1. WritesBack(goal[t])
    BY <1>15 DEF RestoreTerminal, Forget, WritesBack, CallersOK
  <2>2. \A b \in Agents \ {goal[t]} : ResultReplaced(b)
    BY <1>15 DEF RestoreTerminal
  <2> QED
    BY <2>1, <2>2
<1> QED
  BY <1>1, <1>2, <1>3, <1>4, <1>5, <1>6, <1>7, <1>8, <1>9, <1>10, <1>11, <1>12, <1>13,
     <1>14, <1>15, NextCases DEF ClaimNextMessage, CompleteMessage, FailMessage, MessageState

\* For any number of tasks: the answer a caller has read does not change under it
\* until the task is resumed.
THEOREM ResultsAreImmutable == Spec => ResultImmutable
BY TypeCorrect, RowsInit, RowsAgreeStep, ResultStep, PTL DEF Spec, ResultImmutable

\* No operation touches a message that was delivered or failed, or an answered request.
LEMMA SettledStep ==
    ASSUME TypeOK, [Next]_vars
    PROVE  /\ \A m \in Messages :
                 messageState[m] \in {"DELIVERED", "FAILED"} => messageState'[m] = messageState[m]
           /\ \A r \in Requests :
                 requestState[r] = "RESPONDED" => requestState'[r] = requestState[r]
<1> USE DEF TypeOK, TablesOK
<1>1. ASSUME NEW m \in Messages, messageState[m] \in {"DELIVERED", "FAILED"}
      PROVE  messageState'[m] = messageState[m]
  BY <1>1, MessageCases DEF messageVars, Settle, OpenMessages, OpenMessageState, NewMessage,
     ClaimNextMessage, CompleteMessage, FailMessage, SetMessage
<1>2. ASSUME NEW r \in Requests, requestState[r] = "RESPONDED"
      PROVE  requestState'[r] = requestState[r]
  <2>1. ASSUME NEW t \in Resumers, RestoreTerminal(t) PROVE UNCHANGED requestVars
    BY <2>1 DEF RestoreTerminal
  <2> QED
    BY <1>2, <2>1, RequestCases DEF requestVars, Settle, OpenRequests, OpenRequestState,
       InsertPendingRequest, ClaimPendingResponse, CompletePendingResponse,
       ReleasePendingResponse
<1> QED
  BY <1>1, <1>2

\* For any number of tasks, messages and requests: complete_message, fail_message, a stop
\* and every retry of them leave a delivered or failed message as it is, and no operation
\* reopens an answered request.
THEOREM CommandsStaySettled == Spec => CommandsSettleOnce
BY TypeCorrect, SettledStep, PTL DEF Spec, CommandsSettleOnce

(***************************************************************************)
(* The lease protocol                                                      *)
(***************************************************************************)

\* An empty database maps to a state in which nobody holds a workspace.
LEMMA LeaseInit == Init => Lease!Init
BY DEF Init, Lease!Init, Busy, BusyPhase, ActivePhase

\* The tasks that a caller of a resume can still take back (TaskStoreLease).
Revocable == {a \in Agents : \E t \in Resumers : resume[t] = "REQUEUED" /\ goal[t] = a}

\* A caller's step is one of the lease protocol: it acquires, takes back, or gives up
\* what it could take back.
LEMMA CallerLease ==
    ASSUME TypeOK, NEW t \in Resumers, CallerStep(t)
    PROVE  [Lease!Next]_Lease!vars
<1> USE DEF Busy, Stopping, BusyPhase, ActivePhase
<1>0. CallersOK
  BY DEF TypeOK
<1>1. ASSUME UNCHANGED <<tables, history>>, Revocable' \subseteq Revocable
      PROVE  Lease!Settle
  BY <1>1 DEF Lease!Settle, Revocable, tables, taskVars
<1>2. ASSUME NEW a \in Agents, CheckTerminal(t, a) PROVE Revocable' = Revocable
  BY <1>0, <1>2 DEF CheckTerminal, Revocable, CallersOK
<1>3. ASSUME CopyRow(t) \/ CopyResult(t) PROVE Revocable' = Revocable
  BY <1>0, <1>3 DEF CopyRow, CopyResult, Revocable, CallersOK
<1>4. ASSUME ResumeReturn(t) PROVE Revocable' \subseteq Revocable
  BY <1>0, <1>4 DEF ResumeReturn, Forget, Revocable, CallersOK
<1>5. ASSUME NEW m \in Messages, ResumeRequeue(t, m) PROVE \E a \in Agents : Lease!Acquire(a)
  <2>1. goal[t] \in Agents /\ RequeueTaskForResume(goal[t], m)
    BY <1>0, <1>5 DEF ResumeRequeue, CallersOK
  <2>2. Revocable' = Revocable \cup {goal[t]}
    BY <1>0, <1>5, <2>1 DEF ResumeRequeue, Revocable, CallersOK
  <2>3. PICK a \in Agents : a = goal[t]
    BY <2>1
  <2>4. Lease!Acquire(a)
    BY <2>1, <2>2, <2>3 DEF RequeueTaskForResume, ClearControls, WorkspaceBusy, TypeOK,
       TablesOK, Revocable, Lease!Acquire
  <2> QED
    BY <2>4
<1>6. ASSUME RestoreTerminal(t)
      PROVE  \E a \in Agents, how \in Outcome \cup {"NONE"} : Lease!TakeBack(a, how)
  <2>0. PICK a \in Agents, h \in Outcome \cup {"NONE"} : a = goal[t] /\ h = copy[t].outcome
    BY <1>0, <1>6 DEF RestoreTerminal, CallersOK, Copies
  <2>1. a \in Revocable
    BY <1>0, <1>6, <2>0 DEF RestoreTerminal, Revocable, CallersOK
  <2>2. Revocable' = {b \in Agents : \E u \in Resumers \ {t} :
                        resume[u] = "REQUEUED" /\ goal[u] = b}
    BY <1>0, <1>6, <2>0 DEF RestoreTerminal, Forget, Revocable, CallersOK
  <2>3. Revocable = Revocable' \cup {a}
    BY <1>0, <1>6, <2>0, <2>1, <2>2 DEF RestoreTerminal, Revocable, CallersOK
  <2>4. Revocable' \in {Revocable, Revocable \ {a}}
    BY <2>3
  <2>5. /\ phase' = [phase EXCEPT ![a] = "TERMINAL"]
        /\ \A b \in Agents \ {a} : /\ stopRequested'[b] = stopRequested[b]
                                 /\ closeRequested'[b] = closeRequested[b]
        /\ outcome' = [outcome EXCEPT ![a] = h]
    BY <1>6, <2>0 DEF RestoreTerminal, TypeOK, TablesOK
  <2>6. /\ phase'[a] = "TERMINAL"
        /\ \A b \in Agents \ {a} : phase'[b] = phase[b]
    BY <2>1, <2>5 DEF Revocable, TypeOK, TablesOK
  <2>7. Lease!TakeBack(a, h)
    BY <2>1, <2>4, <2>5, <2>6 DEF Revocable, Lease!TakeBack
  <2> QED
    BY <2>7
<1> QED
  <2>1. ASSUME \E a \in Agents : CheckTerminal(t, a) PROVE Lease!Settle
    BY <1>1, <1>2, <2>1, CallerKeepsTables
  <2>2. ASSUME CopyRow(t) \/ CopyResult(t) PROVE Lease!Settle
    BY <1>1, <1>3, <2>2, CallerKeepsTables
  <2>3. ASSUME ResumeReturn(t) PROVE Lease!Settle
    BY <1>1, <1>4, <2>3, CallerKeepsTables
  <2> QED
    BY <1>5, <1>6, <2>1, <2>2, <2>3 DEF CallerStep, Lease!Next

\* Every other operation of the store is a step of the lease protocol or changes
\* nothing of what the protocol sees.
LEMMA OperationLease ==
    ASSUME TypeOK, RowsAgree, [Next]_vars, UNCHANGED callerVars
    PROVE  [Lease!Next]_Lease!vars
<1> USE DEF TypeOK, TablesOK, RowsAgree, StopIsFinal, Busy, Stopping, BusyPhase, ActivePhase,
            taskVars
<1> DEFINE Same == /\ \A b \in Agents : (Busy(b)' <=> Busy(b))
                   /\ \A b \in Agents : Busy(b) => (Stopping(b)' <=> Stopping(b))
                   /\ UNCHANGED outcome
<1>0. ASSUME Same PROVE UNCHANGED Lease!vars
  BY <1>0 DEF Lease!vars, callerVars
<1>1. ASSUME ReserveTaskId PROVE Same
  BY <1>1 DEF ReserveTaskId
<1>2. ASSUME NEW a \in Agents, EnqueueTaskAuthoritative(a) PROVE Lease!Acquire(a)
  BY <1>2 DEF EnqueueTaskAuthoritative, WorkspaceBusy, TablesAgree,
              ResultAgreesWithOutcome, LedgerFollowsTask, NoResult, callerVars, Lease!Acquire
<1>3. ASSUME NEW a \in Agents, ClaimNext(a) PROVE Same
  BY <1>3 DEF ClaimNext, Claimable
<1>4. ASSUME NEW a \in Agents, NEW epoch \in 0 .. MaxEpoch, MarkSessionRunning(a, epoch)
      PROVE  Same
  BY <1>4 DEF MarkSessionRunning
<1>5. ASSUME NEW a \in Agents, NEW close \in BOOLEAN, NEW cancel \in BOOLEAN,
             RequestStopInternal(a, close, cancel)
      PROVE  Same \/ Lease!Cancel(a)
  <2>1. CASE phase[a] = "TERMINAL"
    BY <1>5, <2>1 DEF RequestStopInternal
  <2>2. CASE phase[a] # "TERMINAL"
    <3>1. /\ Busy(a) /\ Busy(a)' /\ UNCHANGED outcome
          /\ \A b \in Agents \ {a} : (Busy(b)' <=> Busy(b)) /\ (Stopping(b)' <=> Stopping(b))
      BY <1>5, <2>2 DEF RequestStopInternal, Phase
    <3>2. Stopping(a)' <=> Stopping(a) \/ close \/ cancel
      BY <1>5 DEF RequestStopInternal
    <3> HIDE DEF TypeOK, TablesOK, StopIsFinal, Busy, Stopping
    <3>3. CASE close \/ cancel
      BY <3>1, <3>2, <3>3 DEF Lease!Cancel, callerVars
    <3>4. CASE ~(close \/ cancel)
      BY <3>1, <3>2, <3>4
    <3> QED
      BY <3>3, <3>4
  <2> QED
    BY <2>1, <2>2
<1>6. ASSUME NEW a \in Agents, ReapTask(a) PROVE Same
  BY <1>6 DEF ReapTask
<1>7. ASSUME NEW a \in Agents, NEW r \in Result, StoreTaskResult(a, r) PROVE \E how \in Outcome : Lease!Release(a, how)
  <2> PICK h \in Outcome : h = TerminalOutcome(a, r.outcome)
    BY OutcomeAssumption DEF TerminalOutcome, Result
  <2>1. Stopping(a) => h = "CANCELLED"
    BY DEF TerminalOutcome
  <2>2. /\ phase[a] \in ActivePhase
        /\ phase' = [phase EXCEPT ![a] = "TERMINAL"]
        /\ outcome' = [outcome EXCEPT ![a] = h]
        /\ UNCHANGED <<stopRequested, closeRequested>>
    BY <1>7 DEF StoreTaskResult, ApplyTerminal
  <2>3. Lease!Release(a, h)
    BY <2>1, <2>2 DEF callerVars, Lease!Release
  <2> QED
    BY <2>3
<1>8. ASSUME NEW a \in Agents, NEW m \in Messages, RequeueTaskForResume(a, m)
      PROVE  Lease!Acquire(a)
  BY <1>8 DEF RequeueTaskForResume, ClearControls, WorkspaceBusy, callerVars, Lease!Acquire
<1>9. ASSUME NEW a \in Agents, NEW m \in Messages, InsertMessage(m, a) PROVE Same
  BY <1>9 DEF InsertMessage
<1>10. ASSUME NEW m \in Messages, NEW state \in MessageState, SetMessage(m, state)
       PROVE  Same
  BY <1>10 DEF SetMessage
<1>11. ASSUME NEW a \in Agents, NEW r \in Requests, InsertPendingRequest(r, a)
       PROVE  Same
  BY <1>11 DEF InsertPendingRequest
<1>12. ASSUME NEW a \in Agents, NEW r \in Requests, CompletePendingResponse(a, r)
       PROVE  Same
  BY <1>12 DEF CompletePendingResponse, LastOpenRequest
<1>13. ASSUME NEW a \in Agents, NEW r \in Requests,
              ClaimPendingResponse(a, r) \/ ReleasePendingResponse(a, r)
       PROVE  Same
  BY <1>13 DEF ClaimPendingResponse, ReleasePendingResponse
<1>14. ASSUME UNCHANGED <<tables, history>> PROVE Same
  BY <1>14 DEF tables
<1>15. ASSUME NEW t \in Resumers, RestoreTerminal(t) PROVE FALSE
  BY <1>15 DEF RestoreTerminal, Forget, CallersOK, callerVars
<1> HIDE DEF Same
<1> QED
  BY <1>0, <1>1, <1>2, <1>3, <1>4, <1>5, <1>6, <1>7, <1>8, <1>9, <1>10, <1>11, <1>12, <1>13,
     <1>14, <1>15, NextCases
     DEF Lease!Next, ClaimNextMessage, CompleteMessage, FailMessage, MessageState

\* Every step of the store or of a caller is one of the lease protocol or a stutter.
LEMMA LeaseStep == TypeOK /\ RowsAgree /\ [Next]_vars => [Lease!Next]_Lease!vars
<1> SUFFICES ASSUME TypeOK, RowsAgree, [Next]_vars
             PROVE  [Lease!Next]_Lease!vars
  OBVIOUS
<1>1. ASSUME CallersDie PROVE Lease!Settle
  <2>1. \A t \in Resumers : resume'[t] = "IDLE"
    BY <1>1 DEF CallersDie
  <2> QED
    BY <1>1, <2>1 DEF CallersDie, tables, taskVars, Busy, Stopping, Lease!Settle
<1>2. CASE UNCHANGED callerVars
  BY <1>2, OperationLease
<1> QED
  BY <1>1, <1>2, CallerLease, OthersKeepCallers DEF Next, vars, Lease!Next

\* For any number of tasks, workspaces and callers that resume tasks: the store
\* implements the lease protocol.
THEOREM StoreImplementsLease == Spec => ImplementsLease
BY LeaseInit, LeaseStep, RowsInit, RowsAgreeStep, TypeCorrect, PTL
   DEF Spec, ImplementsLease, Lease!Spec
=============================================================================
