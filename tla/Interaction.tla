---------------------------- MODULE Interaction ----------------------------
(***************************************************************************)
(* Permission requests of one task: the pump offers a request to the cache *)
(* and, through the lifecycle sink, to the store; callers answer it with   *)
(* Scheduler::respond_request while others answer too, cancel the task or  *)
(* resume it (crates/zcode-agentd/src/lib.rs and, for the rows, crates/    *)
(* zcode-agent-store/src/lib.rs).                                          *)
(*                                                                         *)
(* A stored request id is the task's name and the sequence number of the   *)
(* event, which starts again with every run: here the number alone.  The   *)
(* correlation id is the runtime's own and its key in the cache.           *)
(***************************************************************************)
EXTENDS Naturals, Sequences, FiniteSets

CONSTANTS
    Responders,     \* threads in respond_request
    Keys,           \* correlation ids
    CacheMax,       \* MAX_PENDING_PERMISSION_RESPONSES
    MaxSeq,         \* bound on the requests of a run
    MaxRuns,        \* bound on the runs of the task
    Nobody          \* holder of a free operation mutex

BoundsAssumption == CacheMax \in Nat /\ MaxSeq \in Nat /\ MaxRuns \in Nat \ {0}
NobodyAssumption == Nobody \notin Responders

Seqs == 1 .. MaxSeq
Decision == {"allow", "deny"}
Accepting == {"RUNNING", "WAITING_INPUT"}
Open == {"PENDING", "SENDING"}
NoKey == "NONE"
KeysAssumption == NoKey \notin Keys
NoRow == [state |-> "ABSENT", key |-> NoKey, decision |-> "NONE", run |-> 0]

VARIABLES
    phase,      \* tasks.phase
    run,        \* tasks.owner_epoch, one for each run
    rows,       \* pending_requests by request id
    ingress,    \* RuntimeLifecycle admits events and answers
    sinkError,  \* the sink's first_error is set, and the monitor will fail the run
    alive,      \* the runtime lives
    seq,        \* requests the runtime has made in this run
    inPump,     \* the request between cache and sink
    cache,      \* OfferedPermissionCache.requests
    refused,    \* requests of the run the cache did not take
    asked,      \* the key of each request of the run
    answers,    \* the answers each of them was given
    operation,  \* holder of the operation mutex
    pc,         \* where each responder is
    req,        \* the request, decision and epoch it is at
    ret         \* what it returned: disposition and effective decision

vars == <<phase, run, rows, ingress, sinkError, alive, seq, inPump, cache, refused,
          asked, answers, operation, pc, req, ret>>
task == <<phase, run, ingress>>
runtime == <<alive, seq, inPump, asked>>
callers == <<operation, pc, req, ret>>

NoRequest == [id |-> 0, key |-> NoKey, decision |-> "NONE", run |-> 0]
NoReturn == [disposition |-> "NONE", id |-> 0, effective |-> "NONE", run |-> 0]

Init ==
    /\ phase = "PREPARING" /\ run = 1
    /\ rows = [i \in Seqs |-> NoRow]
    /\ ingress = TRUE /\ sinkError = FALSE
    /\ alive = TRUE /\ seq = 0 /\ inPump = NoKey
    /\ cache = {} /\ refused = {}
    /\ asked = [i \in Seqs |-> NoKey]
    /\ answers = [i \in Seqs |-> <<>>]
    /\ operation = Nobody
    /\ pc = [t \in Responders |-> "IDLE"]
    /\ req = [t \in Responders |-> NoRequest]
    /\ ret = [t \in Responders |-> NoReturn]

-----------------------------------------------------------------------------
(***************************************************************************)
(* The task around the requests                                            *)
(***************************************************************************)

\* mark_session_running; the prompt is sent before, and a request may be faster.
MarkRunning ==
    /\ phase = "PREPARING"
    /\ phase' = "RUNNING"
    /\ UNCHANGED <<run, ingress, rows, sinkError, runtime, cache, refused, answers, callers>>

\* settle_terminal_commands: open requests are deleted.
Settled == [i \in Seqs |-> IF rows[i].state \in Open THEN NoRow ELSE rows[i]]

\* request_stop, of a caller or of a cleanup; the gate is closed after it.
Cancel ==
    /\ phase \in Accepting \cup {"PREPARING"}
    /\ phase' = "CANCELLING"
    /\ rows' = Settled
    /\ UNCHANGED <<run, ingress, sinkError, runtime, cache, refused, answers, callers>>

CloseIngress ==
    /\ phase = "CANCELLING" /\ ingress
    /\ ingress' = FALSE
    /\ UNCHANGED <<phase, run, rows, sinkError, runtime, cache, refused, answers, callers>>

\* The runtime is stopped and the task finished, after a cancel and for a sink that
\* failed; the operation mutex does not stop it, a canceller that cannot get it in
\* time stops the runtime all the same.
Finish ==
    /\ \/ phase = "CANCELLING" /\ ~ingress
       \/ phase \in Accepting /\ sinkError
    /\ phase' = "TERMINAL"
    /\ ingress' = FALSE
    /\ rows' = Settled
    /\ alive' = FALSE
    /\ cache' = {}
    /\ UNCHANGED <<run, sinkError, seq, inPump, asked, refused, answers, callers>>

\* A message resumes the task: a new runtime, a new cache, numbers from 1 again; the
\* answered rows stay.
Resume ==
    /\ phase = "TERMINAL" /\ run < MaxRuns
    /\ phase' = "PREPARING" /\ run' = run + 1
    /\ ingress' = TRUE /\ sinkError' = FALSE
    /\ alive' = TRUE /\ seq' = 0 /\ inPump' = NoKey
    /\ cache' = {} /\ refused' = {}
    /\ asked' = [i \in Seqs |-> NoKey]
    /\ answers' = [i \in Seqs |-> <<>>]
    /\ UNCHANGED <<rows, callers>>

-----------------------------------------------------------------------------
(***************************************************************************)
(* A request reaches the daemon                                            *)
(***************************************************************************)

\* OfferedPermissionCache::observe: a key that comes again loses its entry, and a
\* full cache takes no new one.
Observe(k) ==
    IF k \in cache THEN cache \ {k}
    ELSE IF Cardinality(cache) < CacheMax THEN cache \cup {k} ELSE cache

\* The pump offers the request to the cache.
Offer(k) ==
    /\ alive /\ inPump = NoKey /\ seq < MaxSeq
    /\ seq' = seq + 1
    /\ asked' = [asked EXCEPT ![seq + 1] = k]
    /\ cache' = Observe(k)
    /\ refused' = IF k \in Observe(k) THEN refused ELSE refused \cup {seq + 1}
    /\ inPump' = k
    /\ UNCHANGED <<task, rows, sinkError, alive, answers, callers>>

\* INSERT OR IGNORE against the primary key and UNIQUE(agent_id, correlation_id).
Inserted(k) ==
    /\ rows[seq].state = "ABSENT"
    /\ \A i \in Seqs : rows[i].key # k

\* A row that is there already is fine if it is the same request.
Repeated(k) == rows[seq].state # "ABSENT" /\ rows[seq].key = k

\* Mutant of Publish: a request the store rejects is forgotten.
PublishSilently ==
    /\ inPump # NoKey
    /\ inPump' = NoKey
    /\ IF ingress /\ ~sinkError /\ phase \in Accepting /\ Inserted(inPump)
         THEN /\ rows' = [rows EXCEPT ![seq] =
                    [state |-> "PENDING", key |-> inPump, decision |-> "NONE", run |-> run]]
              /\ phase' = "WAITING_INPUT"
         ELSE UNCHANGED <<rows, phase>>
    /\ UNCHANGED <<sinkError, run, ingress, alive, seq, asked, cache, refused, answers, callers>>

\* StoreLifecycleSink::emit and insert_pending_request: a closed gate or a failed sink
\* drops the request, a task that accepts none and an id with other content fail it.
Publish ==
    /\ inPump # NoKey
    /\ inPump' = NoKey
    /\ IF ~ingress \/ sinkError THEN UNCHANGED <<rows, phase, sinkError>>
       ELSE IF phase \in Accepting /\ Inserted(inPump)
         THEN /\ rows' = [rows EXCEPT ![seq] =
                    [state |-> "PENDING", key |-> inPump, decision |-> "NONE", run |-> run]]
              /\ phase' = "WAITING_INPUT"
              /\ UNCHANGED sinkError
       ELSE /\ \/ phase \in Accepting /\ Repeated(inPump) /\ UNCHANGED sinkError
               \/ sinkError' = TRUE
            /\ UNCHANGED <<rows, phase>>
    /\ UNCHANGED <<run, ingress, alive, seq, asked, cache, refused, answers, callers>>

-----------------------------------------------------------------------------
(***************************************************************************)
(* respond_request                                                         *)
(***************************************************************************)

Go(t, place) == pc' = [pc EXCEPT ![t] = place]
Unlock(t) == operation' = IF operation = t THEN Nobody ELSE operation

Returns(t, disposition, id, effective) ==
    /\ Go(t, "DONE")
    /\ ret' = [ret EXCEPT ![t] = [disposition |-> disposition, id |-> id,
                                  effective |-> effective, run |-> rows[id].run]]

Fails(t) ==
    /\ Go(t, "DONE")
    /\ ret' = [ret EXCEPT ![t] = [NoReturn EXCEPT !.disposition = "ERROR"]]

\* The row is read first: one that is not pending answers from what is stored.
Read(t, id, d) ==
    /\ pc[t] = "IDLE"
    /\ rows[id].state # "ABSENT"
    /\ IF rows[id].state = "PENDING"
         THEN /\ req' = [req EXCEPT ![t] =
                     [id |-> id, key |-> rows[id].key, decision |-> d, run |-> 0]]
              /\ Go(t, "SESSION")
              /\ UNCHANGED ret
         ELSE /\ Returns(t, "REPEATED", id, rows[id].decision)
              /\ UNCHANGED req
    /\ UNCHANGED <<task, rows, sinkError, runtime, cache, refused, answers, operation>>

\* active_session: the run that is registered now, if any.
Session(t) ==
    /\ pc[t] = "SESSION"
    /\ IF alive
         THEN req' = [req EXCEPT ![t].run = run] /\ Go(t, "LOCK") /\ UNCHANGED ret
         ELSE Fails(t) /\ UNCHANGED req
    /\ UNCHANGED <<task, rows, sinkError, runtime, cache, refused, answers, operation>>

\* lock_operation, which may run into the control deadline.
Lock(t) ==
    /\ pc[t] = "LOCK"
    /\ \/ operation = Nobody /\ operation' = t /\ Go(t, "CHECK") /\ UNCHANGED ret
       \/ operation # Nobody /\ Fails(t) /\ UNCHANGED operation
    /\ UNCHANGED <<task, rows, sinkError, runtime, cache, refused, answers, req>>

Accepts(t) == ingress /\ phase \in Accepting /\ run = req[t].run

\* The gate, the task and the deadline are looked at with the mutex held.
Check(t) ==
    /\ pc[t] = "CHECK"
    /\ \/ Accepts(t) /\ Go(t, "CLAIM") /\ UNCHANGED <<ret, operation>>
       \/ Fails(t) /\ Unlock(t)
    /\ UNCHANGED <<task, rows, sinkError, runtime, cache, refused, answers, req>>

\* Mutant of Claim: the claim does not look at the state of the row.
ClaimAnyway(t) ==
    LET id == req[t].id IN
    /\ pc[t] = "CLAIM"
    /\ IF rows[id].state = "ABSENT" \/ phase \notin Accepting
         THEN Fails(t) /\ Unlock(t) /\ UNCHANGED rows
         ELSE /\ rows' = [rows EXCEPT ![id].state = "SENDING", ![id].decision = req[t].decision]
              /\ Go(t, "CLAIMED")
              /\ UNCHANGED <<ret, operation>>
    /\ UNCHANGED <<task, sinkError, runtime, cache, refused, answers, req>>

\* claim_pending_response_if_accepting; a row that is no longer pending is reported
\* with the decision of this caller.
Claim(t) ==
    LET id == req[t].id IN
    /\ pc[t] = "CLAIM"
    /\ CASE rows[id].state = "ABSENT" -> Fails(t) /\ Unlock(t) /\ UNCHANGED rows
         [] rows[id].state \in {"SENDING", "RESPONDED"} ->
              Returns(t, "REPEATED", id, req[t].decision) /\ Unlock(t) /\ UNCHANGED rows
         [] rows[id].state = "PENDING" /\ phase \notin Accepting ->
              Fails(t) /\ Unlock(t) /\ UNCHANGED rows
         [] rows[id].state = "PENDING" /\ phase \in Accepting ->
              /\ rows' = [rows EXCEPT ![id].state = "SENDING",
                                      ![id].decision = req[t].decision]
              /\ Go(t, "CLAIMED")
              /\ UNCHANGED <<ret, operation>>
    /\ UNCHANGED <<task, sinkError, runtime, cache, refused, answers, req>>

\* release_pending_response.
Released(id) ==
    IF rows[id].state = "SENDING"
      THEN [rows EXCEPT ![id].state = "PENDING", ![id].decision = "NONE"]
      ELSE rows

\* They are looked at again behind the claim, which a failure gives back.
Recheck(t) ==
    /\ pc[t] = "CLAIMED"
    /\ \/ Accepts(t) /\ Go(t, "WRITE") /\ UNCHANGED <<rows, ret, operation>>
       \/ rows' = Released(req[t].id) /\ Fails(t) /\ Unlock(t)
    /\ UNCHANGED <<task, sinkError, runtime, cache, refused, answers, req>>

\* The answer reaches the request of this run that has the correlation id the row
\* had when it was read.
Deliver(t) ==
    LET target == CHOOSE j \in 1 .. seq :
                     asked[j] = req[t].key /\ \A i \in j + 1 .. seq : asked[i] # req[t].key
    IN answers' = [answers EXCEPT ![target] =
                     Append(@, [id |-> req[t].id, decision |-> req[t].decision])]

\* RuntimeOwner::respond_request finds the offer and writes the answer.
WriteAnswer(t) ==
    /\ pc[t] = "WRITE"
    /\ alive /\ run = req[t].run /\ req[t].key \in cache
    /\ Deliver(t)
    /\ Go(t, "WRITTEN")
    /\ UNCHANGED <<task, rows, sinkError, runtime, cache, refused, operation, req, ret>>

\* There is no offer, or the write fails; a write that times out may be complete.
WriteFails(t) ==
    /\ pc[t] = "WRITE"
    /\ \/ UNCHANGED answers
       \/ /\ alive /\ run = req[t].run /\ req[t].key \in cache
          /\ Deliver(t)
    /\ Go(t, "RELEASE")
    /\ UNCHANGED <<task, rows, sinkError, runtime, cache, refused, operation, req, ret>>

\* Mutant of Forget: every offer is forgotten.
ForgetAll(t) ==
    /\ pc[t] = "WRITTEN"
    /\ cache' = {}
    /\ \/ Go(t, "COMPLETE")
       \/ Go(t, "RELEASE")
    /\ UNCHANGED <<task, rows, sinkError, runtime, refused, answers, operation, req, ret>>

\* The offer is forgotten, in the cache of the run that was answered; then the
\* deadline decides.
Forget(t) ==
    /\ pc[t] = "WRITTEN"
    /\ cache' = IF run = req[t].run THEN cache \ {req[t].key} ELSE cache
    /\ \/ Go(t, "COMPLETE")
       \/ Go(t, "RELEASE")
    /\ UNCHANGED <<task, rows, sinkError, runtime, refused, answers, operation, req, ret>>

\* complete_pending_response, which may find its claim gone.
Complete(t) ==
    LET id == req[t].id IN
    /\ pc[t] = "COMPLETE"
    /\ IF rows[id].state = "SENDING"
         THEN /\ rows' = [rows EXCEPT ![id].state = "RESPONDED"]
              /\ phase' = IF phase = "WAITING_INPUT"
                               /\ \A i \in Seqs \ {id} : rows[i].state \notin Open
                            THEN "RUNNING" ELSE phase
              /\ Returns(t, "RESPONDED", id, req[t].decision)
         ELSE Fails(t) /\ UNCHANGED <<rows, phase>>
    /\ Unlock(t)
    /\ UNCHANGED <<run, ingress, sinkError, runtime, cache, refused, answers, req>>

Release(t) ==
    /\ pc[t] = "RELEASE"
    /\ rows' = Released(req[t].id)
    /\ Go(t, "FAIL_CLOSED")
    /\ UNCHANGED <<task, sinkError, runtime, cache, refused, answers, operation, req, ret>>

\* Mutant of FailClosed: a failed answer leaves the runtime running.
FailOpen(t) ==
    /\ pc[t] = "FAIL_CLOSED"
    /\ Fails(t) /\ Unlock(t)
    /\ UNCHANGED <<task, rows, sinkError, runtime, cache, refused, answers, req>>

\* fail_closed_control: the runtime is stopped and the task finished, with the
\* operation mutex still held, unless the run is over already.
FailClosed(t) ==
    /\ pc[t] = "FAIL_CLOSED"
    /\ IF run = req[t].run /\ phase # "TERMINAL"
         THEN /\ phase' = "TERMINAL" /\ ingress' = FALSE /\ alive' = FALSE
              /\ rows' = Settled /\ cache' = {}
         ELSE UNCHANGED <<phase, ingress, alive, rows, cache>>
    /\ Fails(t) /\ Unlock(t)
    /\ UNCHANGED <<run, sinkError, seq, inPump, asked, refused, answers, req>>

RespondStep(t) ==
    \/ Session(t) \/ Lock(t) \/ Check(t) \/ Claim(t) \/ Recheck(t)
    \/ WriteAnswer(t) \/ WriteFails(t) \/ Forget(t)
    \/ Complete(t) \/ Release(t) \/ FailClosed(t)

Next ==
    \/ MarkRunning \/ Cancel \/ CloseIngress \/ Finish \/ Resume
    \/ \E k \in Keys : Offer(k)
    \/ Publish
    \/ \E t \in Responders :
          RespondStep(t) \/ \E id \in Seqs, d \in Decision : Read(t, id, d)

Spec == Init /\ [][Next]_vars

-----------------------------------------------------------------------------
(***************************************************************************)
(* Properties                                                              *)
(***************************************************************************)

\* A request of the runtime is answered once at most, whoever answers, and although a
\* write that was reported as failed may have arrived.
AnsweredOnce == \A i \in Seqs : Len(answers[i]) <= 1

\* A row of this run that says RESPONDED says what the runtime was told under its
\* correlation id.  It was told to the request of that row, unless the cache had refused
\* it or the sink has failed, and the runtime uses the id again.
RespondedIsDelivered ==
    \A i \in Seqs : rows[i].state = "RESPONDED" /\ rows[i].run = run =>
        \E j \in 1 .. seq :
            /\ asked[j] = rows[i].key /\ (j = i \/ i \in refused \/ sinkError)
            /\ Len(answers[j]) = 1 /\ answers[j][1].decision = rows[i].decision

\* A request that callers see as pending can be answered: its offer is in the cache,
\* unless the cache refused it for being full or the key for coming twice.
PendingIsAnswerable ==
    \A i \in Seqs :
        rows[i].state = "PENDING" /\ rows[i].run = run /\ alive
        /\ (\A t \in Responders : pc[t] # "FAIL_CLOSED")
          => \/ rows[i].key \in cache
             \/ \E j \in refused : asked[j] = rows[i].key

\* No request is lost without a word: once it went through the sink of a run that
\* admits events it has its row, or the sink has failed and the run with it.  A row
\* that an earlier run left under the same id is the exception: the request is then
\* ignored, and its runtime waits.
NoSilentLoss ==
    \A i \in 1 .. seq :
        phase \in Accepting /\ ingress /\ ~sinkError /\ (i = seq => inPump = NoKey)
          => rows[i].run \in 1 .. run /\ rows[i].key = asked[i]
=============================================================================
