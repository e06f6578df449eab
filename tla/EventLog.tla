----------------------------- MODULE EventLog ------------------------------
(***************************************************************************)
(* The event log of one task over its runs: Store::append_lifecycle and    *)
(* the sequence numbers of tasks and events, the StoreLifecycleSink of     *)
(* each run behind its RuntimeLifecycle gate, and the threads that finish  *)
(* a run at the same time (crates/zcode-agent-store/src/lib.rs and crates/ *)
(* zcode-agentd/src/lib.rs).                                               *)
(*                                                                         *)
(* The runtime_agent_id of a run is the task's name and the owner epoch:   *)
(* here the epoch.  The phases a run passes are one, ACTIVE.  The payload  *)
(* of an event is left out, its kind is EVENT or TERMINAL.                 *)
(***************************************************************************)
EXTENDS Naturals, FiniteSets

CONSTANTS
    Finishers,      \* threads that finish a run: monitor, canceller, cleanup
    MaxRuns,        \* bound on the owner epochs of the task
    MaxEvents,      \* bound on the records of a run
    StoreFaults,    \* whether a write to the store may fail for no reason of the task
    Nobody          \* holder of a free write_state mutex, and the copy of no resume

ASSUME FaultsAssumption == StoreFaults \in BOOLEAN
ASSUME BoundsAssumption == MaxRuns \in Nat /\ MaxEvents \in Nat
ASSUME NobodyAssumption == Nobody \notin Finishers

Runs == 1 .. MaxRuns
None == MaxEvents + 2       \* no pending_terminal_sequence

VARIABLES
    phase,      \* tasks.phase: QUEUED, ACTIVE or TERMINAL
    epoch,      \* tasks.owner_epoch
    lastSeq,    \* tasks.last_event_seq
    events,     \* the rows of events
    gate,       \* RuntimeLifecycle of each run
    published,  \* PublisherState.next_sequence - 1 of each run
    ended,      \* its publisher is terminal
    sink,       \* its SinkWriteState
    writing,    \* the finisher in the write_state mutex of each run
    pc,         \* where each finisher is
    run,        \* the run it finishes
    saved       \* last_event_seq of the copy a resume may restore, or Nobody

vars == <<phase, epoch, lastSeq, events, gate, published, ended, sink, writing, pc, run, saved>>
store == <<phase, epoch, lastSeq, events>>
publishers == <<published, ended>>
finishers == <<pc, run>>

NewSink == [error |-> FALSE, last |-> 0, terminal |-> None, written |-> FALSE]

Init ==
    /\ phase = "QUEUED" /\ epoch = 0 /\ lastSeq = 0 /\ events = {}
    /\ gate = [r \in Runs |-> "NONE"]
    /\ published = [r \in Runs |-> 0]
    /\ ended = [r \in Runs |-> FALSE]
    /\ sink = [r \in Runs |-> NewSink]
    /\ writing = [r \in Runs |-> Nobody]
    /\ pc = [f \in Finishers |-> "IDLE"]
    /\ run = [f \in Finishers |-> 0]
    /\ saved = Nobody

-----------------------------------------------------------------------------
(***************************************************************************)
(* append_lifecycle                                                        *)
(***************************************************************************)

\* Mutant of Recorded: a record that comes again is not recognised.
RecordedNever(r, n) == FALSE

\* SELECT seq FROM events: the source number of the run is there already.
Recorded(r, n) == \E e \in events : e.run = r /\ e.source = n

\* A terminal task and another epoch reject the record, and so does the primary key.
Rejected(r) ==
    \/ phase = "TERMINAL" \/ epoch # r
    \/ \E e \in events : e.run = r /\ e.seq = lastSeq + 1

\* Mutant of Insert: the number is taken, and not stored with the task.
InsertUncounted(r, n, kind) ==
    /\ events' = events \cup {[run |-> r, seq |-> lastSeq + 1, source |-> n, kind |-> kind]}
    /\ UNCHANGED lastSeq

Insert(r, n, kind) ==
    /\ events' = events \cup {[run |-> r, seq |-> lastSeq + 1, source |-> n, kind |-> kind]}
    /\ lastSeq' = lastSeq + 1

\* The call fails.
CannotAppend(r, n) == StoreFaults \/ (~Recorded(r, n) /\ Rejected(r))

\* The call succeeds; phase and epoch stay.
AppendLifecycle(r, n, kind) ==
    IF Recorded(r, n) THEN UNCHANGED <<events, lastSeq>>
                      ELSE ~Rejected(r) /\ Insert(r, n, kind)

-----------------------------------------------------------------------------
(***************************************************************************)
(* The task                                                                *)
(***************************************************************************)

\* claim_next, and start_claim with a new gate, sink and runtime.
Claim ==
    /\ phase = "QUEUED" /\ epoch < MaxRuns
    /\ phase' = "ACTIVE" /\ epoch' = epoch + 1
    /\ gate' = [gate EXCEPT ![epoch + 1] = "RUNNING"]
    /\ UNCHANGED <<lastSeq, events, publishers, sink, writing, finishers, saved>>

\* requeue_task_for_resume_with_message.
Requeue ==
    /\ phase = "TERMINAL"
    /\ phase' = "QUEUED" /\ lastSeq' = 0 /\ saved' = lastSeq
    /\ UNCHANGED <<epoch, events, gate, publishers, sink, writing, finishers>>

\* restore_terminal_after_resume_failure, with the copy the resume read.  It asks
\* nothing of the row: another thread may have claimed the task, and its run goes on.
Restore ==
    /\ saved # Nobody
    /\ phase' = "TERMINAL" /\ lastSeq' = saved /\ saved' = Nobody
    /\ UNCHANGED <<epoch, events, gate, publishers, sink, writing, finishers>>

\* RuntimeLifecycle::request_stop, force_terminating and begin_natural_completion.
CloseGate(r) ==
    /\ gate[r] = "RUNNING"
    /\ gate' = [gate EXCEPT ![r] = "CLOSED"]
    /\ UNCHANGED <<store, publishers, sink, writing, finishers, saved>>

\* The daemon dies, and its gates, sinks and threads with it.
Crash ==
    /\ \E r \in Runs : gate[r] \in {"RUNNING", "CLOSED"}
    /\ gate' = [r \in Runs |-> IF gate[r] = "NONE" THEN "NONE" ELSE "GONE"]
    /\ writing' = [r \in Runs |-> Nobody]
    /\ pc' = [f \in Finishers |-> "IDLE"]
    /\ saved' = Nobody
    /\ UNCHANGED <<store, publishers, sink, run>>

\* Startup recovery: a task that was in a run gets its result, and no event.
Recover ==
    /\ phase = "ACTIVE" /\ gate[epoch] = "GONE"
    /\ phase' = "TERMINAL"
    /\ UNCHANGED <<epoch, lastSeq, events, gate, publishers, sink, writing, finishers, saved>>

-----------------------------------------------------------------------------
(***************************************************************************)
(* StoreLifecycleSink::emit                                                *)
(***************************************************************************)

Seen(r) == [sink[r] EXCEPT !.last = published[r] + 1]

\* Mutant of Deliver: a failed write does not stop the ones behind it.
DeliverOn(r) ==
    \/ /\ AppendLifecycle(r, published[r] + 1, "EVENT")
       /\ sink' = [sink EXCEPT ![r] = Seen(r)]
    \/ /\ CannotAppend(r, published[r] + 1) /\ UNCHANGED <<events, lastSeq>>
       /\ sink' = [sink EXCEPT ![r] = Seen(r)]

\* A record that is no terminal is written, unless a write of this run failed before;
\* one that fails, rejected or because the store cannot write, is the last.
Deliver(r) ==
    \/ /\ sink[r].error /\ UNCHANGED <<events, lastSeq, sink>>
    \/ /\ ~sink[r].error /\ AppendLifecycle(r, published[r] + 1, "EVENT")
       /\ sink' = [sink EXCEPT ![r] = Seen(r)]
    \/ /\ ~sink[r].error /\ CannotAppend(r, published[r] + 1)
       /\ UNCHANGED <<events, lastSeq>>
       /\ sink' = [sink EXCEPT ![r] = [Seen(r) EXCEPT !.error = TRUE]]

\* Mutant of Emit: the gate is not asked.
EmitUngated(r) ==
    /\ gate[r] \in {"RUNNING", "CLOSED"} /\ ~ended[r] /\ published[r] < MaxEvents
    /\ writing[r] = Nobody
    /\ published' = [published EXCEPT ![r] = @ + 1]
    /\ Deliver(r)
    /\ UNCHANGED <<phase, epoch, gate, ended, writing, finishers, saved>>

\* A record passes the gate of a running run only.
Emit(r) ==
    /\ gate[r] \in {"RUNNING", "CLOSED"} /\ ~ended[r] /\ published[r] < MaxEvents
    /\ writing[r] = Nobody
    /\ published' = [published EXCEPT ![r] = @ + 1]
    /\ IF gate[r] = "RUNNING" THEN Deliver(r) ELSE UNCHANGED <<events, lastSeq, sink>>
    /\ UNCHANGED <<phase, epoch, gate, ended, writing, finishers, saved>>

\* The terminal record of the publisher is kept for finish_general.
EmitTerminal(r) ==
    /\ gate[r] \in {"RUNNING", "CLOSED"} /\ ~ended[r]
    /\ writing[r] = Nobody
    /\ published' = [published EXCEPT ![r] = @ + 1]
    /\ ended' = [ended EXCEPT ![r] = TRUE]
    /\ sink' = IF gate[r] = "RUNNING" /\ ~sink[r].error
                 THEN [sink EXCEPT ![r] = [Seen(r) EXCEPT !.terminal = published[r] + 1]]
                 ELSE sink
    /\ UNCHANGED <<store, gate, writing, finishers, saved>>

-----------------------------------------------------------------------------
(***************************************************************************)
(* finish_routed_terminal and StoreLifecycleSink::finish_general           *)
(***************************************************************************)

\* Mutant of StartFinish: the gate is left open.
StartFinishOpen(f) ==
    /\ pc[f] = "IDLE" /\ phase = "ACTIVE" /\ gate[epoch] \in {"RUNNING", "CLOSED"}
    /\ pc' = [pc EXCEPT ![f] = "APPEND"]
    /\ run' = [run EXCEPT ![f] = epoch]
    /\ UNCHANGED <<gate, store, publishers, sink, writing, saved>>

\* A thread finishes the active run: terminalize.
StartFinish(f) ==
    /\ pc[f] = "IDLE" /\ phase = "ACTIVE" /\ gate[epoch] \in {"RUNNING", "CLOSED"}
    /\ gate' = [gate EXCEPT ![epoch] = "CLOSED"]
    /\ pc' = [pc EXCEPT ![f] = "APPEND"]
    /\ run' = [run EXCEPT ![f] = epoch]
    /\ UNCHANGED <<store, publishers, sink, writing, saved>>

\* The number of the terminal record, or the one behind the last that came.
TerminalSource(r) ==
    IF sink[r].terminal # None THEN sink[r].terminal ELSE sink[r].last + 1

\* write_state is locked: the terminal event is written, for the first who comes.
AppendTerminal(f) ==
    LET r == run[f] IN
    /\ pc[f] = "APPEND" /\ writing[r] = Nobody
    /\ \/ /\ ~sink[r].error /\ sink[r].written
          /\ pc' = [pc EXCEPT ![f] = "IDLE"]
          /\ UNCHANGED <<events, lastSeq, writing>>
       \/ /\ ~sink[r].error /\ ~sink[r].written
          /\ AppendLifecycle(r, TerminalSource(r), "TERMINAL")
          /\ writing' = [writing EXCEPT ![r] = f]
          /\ pc' = [pc EXCEPT ![f] = "PERSIST"]
       \/ /\ sink[r].error \/ (~sink[r].written /\ CannotAppend(r, TerminalSource(r)))
          /\ pc' = [pc EXCEPT ![f] = "FALLBACK"]
          /\ UNCHANGED <<events, lastSeq, writing>>
    /\ UNCHANGED <<phase, epoch, gate, publishers, sink, run, saved>>

\* persist_general_result: it knows no epoch; it may fail.
Persist(f) ==
    LET r == run[f] IN
    /\ pc[f] = "PERSIST"
    /\ \/ /\ phase = "ACTIVE"
          /\ phase' = "TERMINAL"
          /\ sink' = [sink EXCEPT ![r].written = TRUE]
          /\ pc' = [pc EXCEPT ![f] = "IDLE"]
       \/ /\ StoreFaults \/ phase # "ACTIVE"
          /\ pc' = [pc EXCEPT ![f] = "FALLBACK"]
          /\ UNCHANGED <<phase, sink>>
    /\ writing' = [writing EXCEPT ![r] = Nobody]
    /\ UNCHANGED <<epoch, lastSeq, events, gate, publishers, run, saved>>

\* persist_general_completion, without an event.
Fallback(f) ==
    /\ pc[f] = "FALLBACK"
    /\ \/ phase = "ACTIVE" /\ phase' = "TERMINAL"
       \/ (StoreFaults \/ phase # "ACTIVE") /\ UNCHANGED phase
    /\ pc' = [pc EXCEPT ![f] = "IDLE"]
    /\ UNCHANGED <<epoch, lastSeq, events, gate, publishers, sink, writing, run, saved>>

FinishStep(f) == StartFinish(f) \/ AppendTerminal(f) \/ Persist(f) \/ Fallback(f)

Next ==
    \/ Claim \/ Requeue \/ Restore \/ Crash \/ Recover
    \/ \E r \in Runs : CloseGate(r) \/ Emit(r) \/ EmitTerminal(r)
    \/ \E f \in Finishers : FinishStep(f)

Spec == Init /\ [][Next]_vars

-----------------------------------------------------------------------------
(***************************************************************************)
(* Properties                                                              *)
(***************************************************************************)

\* The log of a run is a prefix of what its runtime said, without a hole: whatever
\* failed, nothing is written behind a record that is missing.
LogIsPrefix ==
    \A e \in events : e.kind = "EVENT" =>
        \A n \in 1 .. e.source : \E d \in events :
            d.run = e.run /\ d.source = n /\ d.kind = "EVENT"

\* A run has one terminal event at most, although several threads finish it and each
\* may try again, and it is the last record of the run.
TerminalEventLast ==
    \A e \in events : e.kind = "TERMINAL" =>
        \A d \in events : d.run = e.run /\ d # e =>
            d.kind = "EVENT" /\ d.source < e.source

\* The first record of the run is the first event of its log.
StartsAtOne(r) == \E e \in events : e.run = r /\ e.seq = 1 /\ e.source = 1

\* The numbers of such a run grow with its records: requeue counts from zero again
\* while the old epoch can still write, and then the primary key stops it.  A run that
\* was claimed after a late record of the run before had taken number one has no
\* record there, and what it writes late comes before its own first record.
NumberedInOrder ==
    \A e, d \in events :
        StartsAtOne(e.run) /\ d.run = e.run /\ e.source < d.source => e.seq < d.seq

\* The number the row of a running task hands out next is free in its run, whatever a
\* late thread of the run before wrote while the task was queued again; append_lifecycle
\* takes a record of the old epoch then.
NextSeqFree ==
    phase = "ACTIVE" => \A e \in events : e.run = epoch => e.seq <= lastSeq

\* docs/operations.md: cancellation fences late events.  Behind the gate a run's log
\* gains its terminal event and nothing else.
ClosedGateFences ==
    [][\A r \in DOMAIN gate : gate[r] # "RUNNING" =>
          \A e \in events' \ events : e.run = r => e.kind = "TERMINAL"]_vars
=============================================================================
