----------------------------- MODULE TaskWait ------------------------------
(***************************************************************************)
(* The two calls that read a task and its result, RpcService::task_wait    *)
(* and TaskResult (crates/zcode-agentd/src/rpc.rs), with the facade's      *)
(* rpc_wait and the interruption of a wait by its peer (mcp.rs, rpc/       *)
(* unix.rs).  Each read is a transaction of its own, so the answer puts    *)
(* together what the task was at different moments: runs end, requests are *)
(* asked and answered and the task is resumed in between.                  *)
(*                                                                         *)
(* A task is QUEUED, ACTIVE (every phase between) or TERMINAL.  A result   *)
(* is the number of the run that stored it, and the outcome of a row is    *)
(* that of a run.  A resume copies the row and the result and puts them    *)
(* back when its start fails, however late.  Requests that nobody can      *)
(* answer are of kind INPUT.  The receipt of a message, the activity and   *)
(* the size of the answer are left out (Activity, ResultPages).            *)
(***************************************************************************)
EXTENDS Naturals, Sequences, SequencesExt

CONSTANTS
    Callers,        \* the calls: one thread each
    Resumers,       \* the calls of queue_message that find the task terminal
    Cap,            \* MAX_PENDING_REQUESTS, 100 in the code
    MaxRequests,    \* bound on the requests open at one time
    MaxResumes      \* bound on the resumes

WaitBounds == Cap \in Nat \ {0} /\ MaxRequests \in Nat /\ MaxResumes \in Nat

Kinds == {"PERMISSION", "INPUT"}
NoResult == 0       \* no result

VARIABLES
    task,           \* the row of tasks: its phase and the run its outcome is of
    result,         \* the row of task_results: its run, or NoResult
    pending,        \* the rows of pending_requests in PENDING and SENDING, by created_at
    resumes,        \* how often the task was resumed
    copy,           \* where each resumer is, and what it has copied
    changes,        \* history: how often the outcome of the task has changed
    overlapped,     \* history: two resumers were under way at one time
    pc,             \* where each call is
    seen,           \* what each call has read
    expired,        \* the calls whose deadline has passed
    interrupted     \* the calls whose peer has left, or whose server shuts down

vars == <<task, result, pending, resumes, copy, changes, overlapped, pc, seen, expired,
          interrupted>>
store == <<task, result, pending, resumes, copy, changes, overlapped>>
calls == <<pc, seen, expired, interrupted>>

NoCopy == [at |-> "IDLE", run |-> 0, result |-> NoResult]

NothingSeen ==
    [phase |-> "QUEUED", run |-> 0, approval |-> FALSE, result |-> NoResult,
     timedOut |-> FALSE, since |-> 0]

Init ==
    /\ task = [phase |-> "QUEUED", run |-> 1]
    /\ result = NoResult /\ pending = << >> /\ resumes = 0
    /\ copy = [t \in Resumers |-> NoCopy] /\ changes = 0 /\ overlapped = FALSE
    /\ pc = [c \in Callers |-> "IDLE"]
    /\ seen = [c \in Callers |-> NothingSeen]
    /\ expired = {} /\ interrupted = {}

----------------------------------------------------------------------------
(* The task meanwhile: the store's transactions as TaskStore has them.     *)

\* claim_next takes the task
Claim ==
    /\ task.phase = "QUEUED"
    /\ task' = [task EXCEPT !.phase = "ACTIVE"]
    /\ UNCHANGED <<result, pending, resumes, copy, changes, overlapped, calls>>

\* What happens to the requests leaves the rest alone.
RequestsChange(rows) ==
    /\ pending' = rows
    /\ UNCHANGED <<task, result, resumes, copy, changes, overlapped, calls>>

\* insert_pending_request: the runtime asks
Ask(kind) ==
    /\ task.phase = "ACTIVE" /\ Len(pending) < MaxRequests
    /\ RequestsChange(Append(pending, [kind |-> kind, state |-> "PENDING"]))

\* claim_pending_response_if_accepting: an answer is on its way
Answer(i) ==
    /\ task.phase = "ACTIVE"
    /\ pending[i] = [kind |-> "PERMISSION", state |-> "PENDING"]
    /\ RequestsChange([pending EXCEPT ![i].state = "SENDING"])

\* finish_pending_response: delivered, or back to PENDING
Answered(i) ==
    /\ pending[i].state = "SENDING"
    /\ \/ RequestsChange(RemoveAt(pending, i))
       \/ RequestsChange([pending EXCEPT ![i].state = "PENDING"])

\* Mutant of Finish: the result row is not part of the transaction
FinishWithoutResult ==
    /\ task.phase = "ACTIVE"
    /\ task' = [task EXCEPT !.phase = "TERMINAL"]
    /\ pending' = << >>
    /\ changes' = changes + 1
    /\ UNCHANGED <<result, resumes, copy, overlapped, calls>>

\* The terminal transaction: phase, result and the end of the open requests
Finish ==
    /\ task.phase = "ACTIVE"
    /\ task' = [task EXCEPT !.phase = "TERMINAL"]
    /\ result' = task.run
    /\ pending' = << >>
    /\ changes' = changes + 1
    /\ UNCHANGED <<resumes, copy, overlapped, calls>>

\* queue_message finds the task terminal
ResumeCheck(t) ==
    /\ copy[t].at = "IDLE" /\ task.phase = "TERMINAL"
    /\ copy' = [copy EXCEPT ![t].at = "CHECKED"]
    /\ overlapped' = (overlapped \/ \E u \in Resumers : copy[u].at # "IDLE")
    /\ UNCHANGED <<task, result, pending, resumes, changes, calls>>

\* ... copies its row, which has an outcome only when it is still terminal, ...
CopyRow(t) ==
    /\ copy[t].at = "CHECKED"
    /\ copy' = [copy EXCEPT ![t].at = "ROW",
                            ![t].run = IF task.phase = "TERMINAL" THEN task.run ELSE 0]
    /\ UNCHANGED <<task, result, pending, resumes, changes, overlapped, calls>>

\* ... then its result ...
CopyResult(t) ==
    /\ copy[t].at = "ROW"
    /\ copy' = [copy EXCEPT ![t].at = "READ", ![t].result = result]
    /\ UNCHANGED <<task, result, pending, resumes, changes, overlapped, calls>>

\* ... and requeues it: requeue_task_for_resume_with_message deletes the result of
\* the last run
Resume(t) ==
    /\ copy[t].at = "READ"
    /\ task.phase = "TERMINAL" /\ resumes < MaxResumes
    /\ task' = [phase |-> "QUEUED", run |-> resumes + 2]
    /\ result' = NoResult
    /\ resumes' = resumes + 1
    /\ copy' = [copy EXCEPT ![t].at = "REQUEUED"]
    /\ changes' = changes + 1
    /\ UNCHANGED <<pending, overlapped, calls>>

\* It returns: the task was started, or the requeue was refused
ResumeReturn(t) ==
    /\ copy[t].at \in {"READ", "REQUEUED"}
    /\ copy' = [copy EXCEPT ![t] = NoCopy]
    /\ UNCHANGED <<task, result, pending, resumes, changes, overlapped, calls>>

\* restore_terminal_after_resume_failure puts the copies back, whatever the task has
\* become meanwhile; a result that was not there is not put back, and open requests
\* stay open
Restore(t) ==
    /\ copy[t].at = "REQUEUED"
    /\ task' = [phase |-> "TERMINAL", run |-> copy[t].run]
    /\ result' = IF copy[t].result = NoResult THEN result ELSE copy[t].result
    /\ copy' = [copy EXCEPT ![t] = NoCopy]
    /\ changes' = changes + 1
    /\ UNCHANGED <<pending, resumes, overlapped, calls>>

----------------------------------------------------------------------------
(* A call.                                                                 *)

BeginWait(c) ==
    /\ pc[c] = "IDLE"
    /\ pc' = [pc EXCEPT ![c] = "LOOP"]
    /\ UNCHANGED <<store, seen, expired, interrupted>>

\* The deadline of the query; wait_time 0 is a deadline that has passed
Expire(c) ==
    /\ pc[c] \notin {"IDLE", "DONE", "GONE"}
    /\ expired' = expired \cup {c}
    /\ UNCHANGED <<store, pc, seen, interrupted>>

\* The peer closes its connection, the facade's future is dropped, or the
\* server shuts down
Interrupt(c) ==
    /\ pc[c] \notin {"IDLE", "DONE", "GONE"}
    /\ interrupted' = interrupted \cup {c}
    /\ UNCHANGED <<store, pc, seen, expired>>

\* Mutant of IsInterrupted: the wait is not told
IsInterruptedNever(c) == FALSE

\* interrupted() of handle_connection (shutdown || peer_disconnected) or of rpc_wait
IsInterrupted(c) == c \in interrupted

\* The first test of every round
LoopInterrupted(c) ==
    /\ pc[c] = "LOOP" /\ IsInterrupted(c)
    /\ pc' = [pc EXCEPT ![c] = "GONE"]
    /\ UNCHANGED <<store, seen, expired, interrupted>>

\* require_task of a wait
ReadTask(c) ==
    /\ pc[c] = "LOOP" /\ ~IsInterrupted(c)
    /\ seen' = [seen EXCEPT ![c] = [NothingSeen EXCEPT !.phase = task.phase, !.run = task.run,
                                                       !.since = changes]]
    /\ pc' = [pc EXCEPT ![c] = "PENDING"]
    /\ UNCHANGED <<store, expired, interrupted>>

\* pending_requests_bounded: the oldest Cap rows
Projection == SubSeq(pending, 1, IF Len(pending) > Cap THEN Cap ELSE Len(pending))

\* pending_request_view and respondable_pending_request
Respondable(request) == request.kind = "PERMISSION" /\ request.state = "PENDING"

\* The requests are read after the task
ReadPending(c) ==
    /\ pc[c] = "PENDING"
    /\ seen' = [seen EXCEPT ![c].approval =
                   \E i \in DOMAIN Projection : Respondable(Projection[i])]
    /\ pc' = [pc EXCEPT ![c] = "RESULT"]
    /\ UNCHANGED <<store, expired, interrupted>>

\* The result is read last
ReadResult(c) ==
    /\ pc[c] = "RESULT"
    /\ seen' = [seen EXCEPT ![c].result = result]
    /\ pc' = [pc EXCEPT ![c] = "DECIDE"]
    /\ UNCHANGED <<store, expired, interrupted>>

Wakes(c) == seen[c].approval \/ seen[c].phase = "TERMINAL"

\* Mutant of Return: only the deadline ends a wait
ReturnLate(c) ==
    /\ pc[c] = "DECIDE" /\ c \in expired
    /\ pc' = [pc EXCEPT ![c] = "DONE"]
    /\ UNCHANGED <<store, seen, expired, interrupted>>

\* The answer: the result is kept only with a terminal task
Return(c) ==
    /\ pc[c] = "DECIDE" /\ (Wakes(c) \/ c \in expired)
    /\ seen' = [seen EXCEPT ![c].timedOut = ~Wakes(c),
                            ![c].result = IF seen[c].phase = "TERMINAL" THEN @ ELSE NoResult]
    /\ pc' = [pc EXCEPT ![c] = "DONE"]
    /\ UNCHANGED <<store, expired, interrupted>>

\* Sleeps 10 ms and starts over
Again(c) ==
    /\ pc[c] = "DECIDE" /\ ~Wakes(c) /\ c \notin expired
    /\ pc' = [pc EXCEPT ![c] = "LOOP"]
    /\ UNCHANGED <<store, seen, expired, interrupted>>

\* TaskResult: require_task, ...
ResultTask(c) ==
    /\ pc[c] = "IDLE"
    /\ seen' = [seen EXCEPT ![c] = [NothingSeen EXCEPT !.phase = task.phase, !.run = task.run,
                                                       !.since = changes]]
    /\ pc' = [pc EXCEPT ![c] = "RESULT_ROW"]
    /\ UNCHANGED <<store, expired, interrupted>>

\* ... then the row of the result, whatever the phase read before
ResultRow(c) ==
    /\ pc[c] = "RESULT_ROW"
    /\ seen' = [seen EXCEPT ![c].result = result]
    /\ pc' = [pc EXCEPT ![c] = "DONE"]
    /\ UNCHANGED <<store, expired, interrupted>>

Task ==
    \/ Claim \/ Finish
    \/ \E t \in Resumers :
          \/ ResumeCheck(t) \/ CopyRow(t) \/ CopyResult(t)
          \/ Resume(t) \/ ResumeReturn(t) \/ Restore(t)
    \/ \E kind \in Kinds : Ask(kind)
    \/ \E i \in DOMAIN pending : Answer(i) \/ Answered(i)

Step(c) ==
    \/ LoopInterrupted(c) \/ ReadTask(c) \/ ReadPending(c) \/ ReadResult(c)
    \/ Return(c) \/ Again(c) \/ ResultRow(c)

Next ==
    \/ Task
    \/ \E c \in Callers :
          BeginWait(c) \/ ResultTask(c) \/ Expire(c) \/ Interrupt(c) \/ Step(c)

Spec == Init /\ [][Next]_vars

\* The thread of a call runs; nothing else has to happen
FairSpec == Spec /\ \A c \in Callers : WF_vars(Step(c))

----------------------------------------------------------------------------
(* Properties.                                                             *)

\* What a call answers as the result belongs to what it answers as the task: that of
\* the very run whose outcome the row has, and none while the task is not terminal.
\* Row and result are read in two transactions, so this is so unless the outcome
\* changed while the call was under way: then TaskResult answers a result with a task
\* that is not terminal.  Resumes put back what they copied at any moment, also over a
\* later run; only two of them at one time can leave the row of one run with the
\* result of another, or with none.
AnswerFits(answer) ==
    answer.result = IF answer.phase = "TERMINAL" THEN answer.run ELSE NoResult

ResultFitsTask ==
    \A c \in Callers :
        pc[c] = "DONE" /\ ~AnswerFits(seen[c]) =>
            \/ changes > seen[c].since
            \/ overlapped /\ seen[c].phase = "TERMINAL"

Waiting(c) == pc[c] \in {"LOOP", "PENDING", "RESULT", "DECIDE"}

\* "any currently respondable PENDING request" among the oldest Cap rows
Open == \E i \in DOMAIN pending : i <= Cap /\ Respondable(pending[i])

\* Terminal transitions and open respondable requests wake a wait long before its
\* deadline: none is missed because it came between two reads of the loop.  Nothing
\* is assumed of the deadline.
WakesWithoutDeadline ==
    \A c \in Callers :
        /\ Waiting(c) /\ Open ~> ~Waiting(c) \/ ~Open
        /\ Waiting(c) /\ task.phase = "TERMINAL" ~> ~Waiting(c) \/ task.phase # "TERMINAL"

\* A wait whose peer has left, or whose server shuts down, lets go of its thread
\* before its deadline.
InterruptedWaitEnds ==
    \A c \in Callers : Waiting(c) /\ c \in interrupted ~> ~Waiting(c)
============================================================================
