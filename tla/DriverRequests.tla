--------------------------- MODULE DriverRequests ---------------------------
(***************************************************************************)
(* Requests to a runtime and their answers (crates/zcode-driver/src/       *)
(* lib.rs): callers register, write and wait; the reader turns stdout into *)
(* messages; the child monitor reports the exit behind the reader; the     *)
(* dispatcher gives each answer to its caller, and broadcasts the rest.    *)
(*                                                                         *)
(* A request is named by its wire id.  begin_request takes a fresh id, so  *)
(* the ids stand for the calls: each is used once, by one thread.          *)
(***************************************************************************)
EXTENDS Naturals, Sequences

CONSTANTS
    Ids,            \* wire ids, one for each call of request
    Descendants,    \* a descendant may keep the runtime's pipes open
    MaxOutput,      \* bound on the lines a runtime writes
    MaxEvents       \* bound on those that answer no request

OutputAssumption == MaxOutput \in Nat /\ MaxEvents \in Nat
DescendantsAssumption == Descendants \in BOOLEAN

VARIABLES
    pc,         \* where each call is
    pending,    \* the pending map: ids that have a sender in it
    mailbox,    \* what the channel of each call holds
    ret,        \* what each call returned
    inbox,      \* requests that reached the runtime
    process,    \* the leader: ALIVE, EXITED, or REPORTED once the monitor saw it
    pipes,      \* the pipes of the runtime are open: stdin can be written, stdout read
    stdout,     \* lines written and not yet read
    written,    \* answers the runtime ever wrote
    reader,     \* RUNNING, OVERSIZED or DONE
    monitor,    \* POLLING, BARRIER (waits for the reader), DONE
    late,       \* the monitor did not wait for the end of stdout
    raw,        \* channel of reader and monitor to the dispatcher
    held,       \* senders the dispatcher has taken out of the map
    dispatcher, \* RUNNING or DONE
    events      \* what subscribers were sent

vars == <<pc, pending, mailbox, ret, inbox, process, pipes, stdout, written,
          reader, monitor, late, raw, held, dispatcher, events>>
calls == <<pc, mailbox, ret, inbox>>
runtime == <<process, pipes, written>>
threads == <<reader, monitor, late>>

Answer(id) == [kind |-> "ANSWER", id |-> id]
Event == [kind |-> "EVENT"]
Oversized == [kind |-> "OVERSIZED"]
ChildExited == [kind |-> "EXITED"]
Unmatched(id) == [kind |-> "UNMATCHED", id |-> id]

Init ==
    /\ pc = [i \in Ids |-> "IDLE"]
    /\ pending = {}
    /\ mailbox = [i \in Ids |-> "EMPTY"]
    /\ ret = [i \in Ids |-> "NONE"]
    /\ inbox = {}
    /\ process = "ALIVE" /\ pipes = TRUE
    /\ stdout = <<>> /\ written = {}
    /\ reader = "RUNNING" /\ monitor = "POLLING" /\ late = FALSE
    /\ raw = <<>> /\ held = {} /\ dispatcher = "RUNNING"
    /\ events = <<>>

-----------------------------------------------------------------------------
(***************************************************************************)
(* Callers: begin_request and PendingRequest                               *)
(***************************************************************************)

Go(i, place) == pc' = [pc EXCEPT ![i] = place]
Returns(i, what) == ret' = [ret EXCEPT ![i] = what]

\* Mutant of BeginRequest: the request is not entered in the map.
BeginUnregistered(i) ==
    /\ pc[i] = "IDLE"
    /\ Go(i, "WRITE")
    /\ UNCHANGED <<pending, mailbox, ret, inbox, runtime, stdout, threads, raw, held,
                   dispatcher, events>>

\* begin_request enters its sender in the map before it writes.
BeginRequest(i) ==
    /\ pc[i] = "IDLE"
    /\ pending' = pending \cup {i}
    /\ Go(i, "WRITE")
    /\ UNCHANGED <<mailbox, ret, inbox, runtime, stdout, threads, raw, held,
                   dispatcher, events>>

\* Mutant of WriteFailed: the entry of a request that was not written stays.
WriteFailedLeaks(i) ==
    /\ pc[i] = "WRITE"
    /\ process # "ALIVE"
    /\ Returns(i, "WRITE_FAILED")
    /\ Go(i, "DONE")
    /\ UNCHANGED <<pending, mailbox, inbox, runtime, stdout, threads, raw, held,
                   dispatcher, events>>

\* The write finds nobody at the other end of stdin.
WriteFailed(i) ==
    /\ pc[i] = "WRITE"
    /\ process # "ALIVE"
    /\ pending' = pending \ {i}
    /\ Returns(i, "WRITE_FAILED")
    /\ Go(i, "DONE")
    /\ UNCHANGED <<mailbox, inbox, runtime, stdout, threads, raw, held,
                   dispatcher, events>>

\* The write reaches the pipe; after the leader's exit only while a descendant
\* holds its other end.
Write(i) ==
    /\ pc[i] = "WRITE"
    /\ pipes
    /\ inbox' = inbox \cup {i}
    /\ Go(i, "WAIT")
    /\ UNCHANGED <<pending, mailbox, ret, runtime, stdout, threads, raw, held,
                   dispatcher, events>>

\* wait receives what the dispatcher sent.
Receive(i) ==
    /\ pc[i] = "WAIT"
    /\ mailbox[i] # "EMPTY"
    /\ Returns(i, mailbox[i])
    /\ Go(i, "REMOVE")
    /\ UNCHANGED <<pending, mailbox, inbox, runtime, stdout, threads, raw, held,
                   dispatcher, events>>

\* recv_timeout runs out, although an answer may be on its way.
Timeout(i) ==
    /\ pc[i] = "WAIT"
    /\ mailbox[i] = "EMPTY"
    /\ Returns(i, "TIMEOUT")
    /\ Go(i, "REMOVE")
    /\ UNCHANGED <<pending, mailbox, inbox, runtime, stdout, threads, raw, held,
                   dispatcher, events>>

\* wait, cancel and Drop take the entry out of the map, if it is still there.
Remove(i) ==
    /\ pc[i] = "REMOVE"
    /\ pending' = pending \ {i}
    /\ Go(i, "DONE")
    /\ UNCHANGED <<mailbox, ret, inbox, runtime, stdout, threads, raw, held,
                   dispatcher, events>>

\* The owner cancels or drops a request instead of waiting for it.
Cancel(i) ==
    /\ pc[i] = "WAIT"
    /\ Returns(i, "CANCELLED")
    /\ Go(i, "REMOVE")
    /\ UNCHANGED <<pending, mailbox, inbox, runtime, stdout, threads, raw, held,
                   dispatcher, events>>

-----------------------------------------------------------------------------
(***************************************************************************)
(* The runtime                                                             *)
(***************************************************************************)

CanWrite == pipes /\ Len(stdout) < MaxOutput

\* It answers a request it has read, once; or writes something else.
WriteAnswer(i) ==
    /\ CanWrite /\ process = "ALIVE"
    /\ i \in inbox \ written
    /\ stdout' = Append(stdout, Answer(i))
    /\ written' = written \cup {i}
    /\ UNCHANGED <<calls, pending, process, pipes, threads, raw, held, dispatcher, events>>

WriteOther(line) ==
    /\ CanWrite
    /\ Len(events) + Len(raw) + Len(stdout) < MaxEvents
    /\ stdout' = Append(stdout, line)
    /\ UNCHANGED <<calls, pending, runtime, threads, raw, held, dispatcher, events>>

Exit ==
    /\ process = "ALIVE"
    /\ process' = "EXITED"
    /\ pipes' = Descendants
    /\ UNCHANGED <<calls, pending, stdout, written, threads, raw, held, dispatcher, events>>

\* The last descendant closes the pipes.
Close ==
    /\ process # "ALIVE" /\ pipes
    /\ pipes' = FALSE
    /\ UNCHANGED <<calls, pending, process, written, stdout, threads, raw, held,
                   dispatcher, events>>

-----------------------------------------------------------------------------
(***************************************************************************)
(* Reader, monitor and dispatcher                                          *)
(***************************************************************************)

\* read_loop passes a line on; one beyond MAX_NDJSON_LINE_BYTES ends it.
Read ==
    /\ reader = "RUNNING" /\ stdout # <<>>
    /\ raw' = Append(raw, Head(stdout))
    /\ stdout' = Tail(stdout)
    /\ reader' = IF Head(stdout) = Oversized THEN "OVERSIZED" ELSE "RUNNING"
    /\ UNCHANGED <<calls, pending, runtime, monitor, late, held, dispatcher, events>>

\* The end of stdout; ReadDone tells the monitor, as it does after an oversized line.
ReadEnd ==
    /\ reader = "RUNNING" /\ stdout = <<>> /\ ~pipes
    /\ reader' = "DONE"
    /\ UNCHANGED <<calls, pending, runtime, stdout, monitor, late, raw, held,
                   dispatcher, events>>

\* monitor_child sees the exit.
SeeExit ==
    /\ monitor = "POLLING" /\ process = "EXITED"
    /\ process' = "REPORTED"
    /\ monitor' = "BARRIER"
    /\ UNCHANGED <<calls, pending, pipes, written, stdout, reader, late, raw, held,
                   dispatcher, events>>

\* Mutant of ReportExit: the exit is reported without waiting for the reader.
ReportExitAtOnce ==
    /\ monitor = "BARRIER"
    /\ monitor' = "DONE"
    /\ raw' = Append(raw, ChildExited)
    /\ UNCHANGED <<calls, pending, runtime, stdout, reader, late, held, dispatcher, events>>

\* It waits for the reader, for READ_EXIT_BOUNDARY_TIMEOUT at most, and reports.
ReportExit ==
    /\ monitor = "BARRIER"
    /\ \/ reader # "RUNNING" /\ late' = late
       \/ reader = "RUNNING" /\ late' = TRUE
    /\ monitor' = "DONE"
    /\ raw' = Append(raw, ChildExited)
    /\ UNCHANGED <<calls, pending, runtime, stdout, reader, held, dispatcher, events>>

\* Mutant of DispatchAnswer: the sender is read and left in the map.
DispatchAnswerKeeps ==
    /\ Head(raw).kind = "ANSWER"
    /\ LET i == Head(raw).id
       IN  IF i \in pending
             THEN held' = {[id |-> i, what |-> "RESPONSE"]} /\ UNCHANGED events
             ELSE events' = Append(events, Unmatched(i)) /\ UNCHANGED held
    /\ UNCHANGED pending

\* An answer: its sender leaves the map, or the answer is unmatched.
DispatchAnswer ==
    /\ Head(raw).kind = "ANSWER"
    /\ LET i == Head(raw).id
       IN  IF i \in pending
             THEN /\ held' = {[id |-> i, what |-> "RESPONSE"]}
                  /\ pending' = pending \ {i}
                  /\ UNCHANGED events
             ELSE /\ events' = Append(events, Unmatched(i))
                  /\ UNCHANGED <<held, pending>>

\* The exit ends every request that is registered, and is broadcast.
DispatchExit ==
    /\ Head(raw).kind = "EXITED"
    /\ held' = {[id |-> i, what |-> "CHILD_EXITED"] : i \in pending}
    /\ pending' = {}
    /\ events' = Append(events, ChildExited)

DispatchOther ==
    /\ Head(raw).kind \in {"EVENT", "OVERSIZED"}
    /\ events' = Append(events, Head(raw))
    /\ UNCHANGED <<pending, held>>

Dispatch ==
    /\ dispatcher = "RUNNING" /\ held = {} /\ raw # <<>>
    /\ DispatchAnswer \/ DispatchExit \/ DispatchOther
    /\ raw' = Tail(raw)
    /\ UNCHANGED <<calls, runtime, stdout, threads, dispatcher>>

\* A sender that was taken out of the map sends, to a caller that may have gone.
Send ==
    /\ \E h \in held :
          /\ mailbox' = [mailbox EXCEPT ![h.id] = h.what]
          /\ held' = held \ {h}
    /\ UNCHANGED <<pc, ret, inbox, pending, runtime, stdout, threads, raw, dispatcher, events>>

\* Both ends of the channel are gone: what is still registered is closed.
DispatchEnd ==
    /\ dispatcher = "RUNNING" /\ held = {} /\ raw = <<>>
    /\ reader # "RUNNING" /\ monitor = "DONE"
    /\ dispatcher' = "DONE"
    /\ held' = {[id |-> i, what |-> "STREAM_CLOSED"] : i \in pending}
    /\ pending' = {}
    /\ UNCHANGED <<calls, runtime, stdout, threads, raw, events>>

ThreadStep == Read \/ ReadEnd \/ SeeExit \/ ReportExit \/ Dispatch \/ Send \/ DispatchEnd
CallStep(i) == Write(i) \/ WriteFailed(i) \/ Receive(i) \/ Remove(i)

Next ==
    \/ \E i \in Ids :
          BeginRequest(i) \/ CallStep(i) \/ Timeout(i) \/ Cancel(i) \/ WriteAnswer(i)
    \/ \E line \in {Event, Oversized} : WriteOther(line)
    \/ Exit \/ Close
    \/ ThreadStep

Spec == Init /\ [][Next]_vars

\* Reader, monitor and dispatcher are scheduled, and so are the callers; of their
\* timeouts nothing is assumed.
FairSpec ==
    /\ Spec
    /\ WF_vars(Read) /\ WF_vars(ReadEnd) /\ WF_vars(SeeExit) /\ WF_vars(ReportExit)
    /\ WF_vars(Dispatch) /\ WF_vars(Send) /\ WF_vars(DispatchEnd)
    /\ \A i \in Ids : WF_vars(CallStep(i))

-----------------------------------------------------------------------------
(***************************************************************************)
(* Properties                                                              *)
(***************************************************************************)

\* The pending map holds only requests whose caller is still in its call: a sender
\* is not left behind by a timeout, a failed write or a cancelled request.
NoLeakedPending == \A i \in pending : pc[i] \in {"WRITE", "WAIT", "REMOVE"}

\* A request is told one thing: it is in the map, in the hands of the dispatcher or
\* told, never two of these, so that an answer and an exit never both reach it.
ToldOnce ==
    /\ \A g, h \in held : g.id = h.id => g = h
    /\ \A h \in held : h.id \notin pending /\ mailbox[h.id] = "EMPTY"
    /\ \A i \in pending : mailbox[i] = "EMPTY"

\* An exit is reported behind the output: a call that is told of the exit was not
\* answered, unless the monitor gave up on the reader or the reader on the stream.
ExitAfterOutput ==
    \A i \in Ids :
        ret[i] \in {"CHILD_EXITED", "STREAM_CLOSED"} /\ i \in written
          => late \/ reader = "OVERSIZED"

\* Once the runtime is gone and nobody holds its pipes, a waiting request ends without
\* its timeout, also one whose write raced the exit.  Not so one that was registered
\* after the dispatcher had ended: behind an oversized line reader and monitor are
\* done while a descendant still takes what is written, and nobody drains the map.
ExitEndsRequests ==
    \A i \in Ids :
        pc[i] = "WAIT" /\ ~pipes /\ ~(i \in pending /\ dispatcher = "DONE")
          ~> pc[i] = "DONE"
=============================================================================
