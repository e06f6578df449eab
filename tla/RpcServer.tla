----------------------------- MODULE RpcServer -----------------------------
(***************************************************************************)
(* One RpcServer and its clients: the accept thread, a worker thread per   *)
(* connection, the limit on connections, frames with a cap, and shutdown   *)
(* (crates/zcode-agentd/src/rpc/unix.rs), over the dispatch of             *)
(* RpcService::handle_bytes (rpc.rs) as the RpcClient of the facade calls  *)
(* it (mcp.rs).                                                            *)
(*                                                                         *)
(* A connection is its client, with one call: a WAIT, which ends when its  *)
(* task wakes it or it is interrupted, or an OP, which is not interrupted  *)
(* and may change the store.  A frame is the number of reads it takes; the *)
(* other kinds of input handle_bytes turns away (malformed, version,       *)
(* fields) are one, BAD.                                                   *)
(***************************************************************************)
EXTENDS Naturals, Sequences, SequencesExt, FiniteSets

CONSTANTS
    Clients,
    MaxConnections,     \* ServerOptions::max_connections, 16 in the code
    FrameCap,           \* reads up to MAX_REQUEST_FRAME_BYTES
    Wake                \* the connection shutdown makes to its own socket

ServerBounds == MaxConnections \in Nat \ {0} /\ FrameCap \in Nat \ {0}
WakeAssumption == Wake \notin Clients

Calls == {"OP", "WAIT", "BAD"}
Conns == Clients \cup {Wake}

VARIABLES
    call,       \* what each client asks, or NONE before it connects
    backlog,    \* connections the listener has not accepted
    client,     \* OPEN, SENT (with the newline) or GONE
    bytes,      \* reads of its frame so far
    accept,     \* where the accept thread is
    active,     \* the counter
    workers,    \* the handles it keeps
    worker,     \* where the worker of a connection is: NONE, READ, HANDLE, WRITE, LEAVE,
                \* DONE, or PANICKED in the handler
    reply,      \* the response a worker writes
    answer,     \* what the client got
    applied,    \* how often the call was carried out
    shutdown,   \* the flag
    stopper     \* where RpcServer::shutdown is

vars == <<call, backlog, client, bytes, accept, active, workers, worker, reply, answer,
          applied, shutdown, stopper>>
clientVars == <<call, client, bytes>>
workerVars == <<active, workers, worker, reply>>

Init ==
    /\ call = [c \in Conns |-> "NONE"] /\ backlog = << >>
    /\ client = [c \in Conns |-> "OPEN"] /\ bytes = [c \in Conns |-> 0]
    /\ accept = "CHECK" /\ active = 0 /\ workers = {}
    /\ worker = [c \in Conns |-> "NONE"] /\ reply = [c \in Conns |-> "NONE"]
    /\ answer = [c \in Conns |-> "NONE"] /\ applied = [c \in Conns |-> 0]
    /\ shutdown = FALSE /\ stopper = "IDLE"

----------------------------------------------------------------------------
(* Clients: RpcClient::call_interruptible.                                 *)

\* connect_timeout
Connect(c, kind) ==
    /\ call[c] = "NONE" /\ accept # "ENDED"
    /\ call' = [call EXCEPT ![c] = kind]
    /\ backlog' = Append(backlog, c)
    /\ UNCHANGED <<client, bytes, accept, workerVars, answer, applied, shutdown, stopper>>

\* The frame is written, with its newline
Send(c) ==
    /\ call[c] # "NONE" /\ client[c] = "OPEN"
    /\ client' = [client EXCEPT ![c] = "SENT"]
    /\ UNCHANGED <<call, bytes, backlog, accept, workerVars, answer, applied, shutdown, stopper>>

\* Its deadline, an interruption, or its end: the connection is closed
Leave(c) ==
    /\ call[c] # "NONE" /\ client[c] \in {"OPEN", "SENT"} /\ answer[c] = "NONE"
    /\ client' = [client EXCEPT ![c] = "GONE"]
    /\ UNCHANGED <<call, bytes, backlog, accept, workerVars, answer, applied, shutdown, stopper>>

----------------------------------------------------------------------------
(* The accept thread.                                                      *)

\* JoinHandle::is_finished
Finished(c) == worker[c] \in {"DONE", "PANICKED"}

\* The loop's condition, and reap_finished_workers
Check ==
    /\ accept = "CHECK"
    /\ IF shutdown THEN accept' = "JOIN" /\ UNCHANGED workers
       ELSE accept' = "ACCEPT" /\ workers' = {c \in workers : ~Finished(c)}
    /\ UNCHANGED <<clientVars, backlog, active, worker, reply, answer, applied, shutdown, stopper>>

\* WouldBlock: sleeps 5 ms
AcceptNothing ==
    /\ accept = "ACCEPT" /\ backlog = << >>
    /\ accept' = "CHECK"
    /\ UNCHANGED <<clientVars, backlog, workerVars, answer, applied, shutdown, stopper>>

\* The limit on the connections
Full == active >= MaxConnections

\* Tells the client, if it is there to be told
Tell(c, what) ==
    answer' = IF client[c] = "GONE" THEN answer ELSE [answer EXCEPT ![c] = what]

\* An error of accept that is not WouldBlock breaks the loop, and nothing starts it again
AcceptFails ==
    /\ accept = "ACCEPT"
    /\ accept' = "JOIN"
    /\ UNCHANGED <<clientVars, backlog, workerVars, answer, applied, shutdown, stopper>>

\* write_busy, in the accept thread; the write may fail
AcceptBusy ==
    /\ accept = "ACCEPT" /\ backlog # << >> /\ Full
    /\ \E what \in {"BUSY", "CLOSED"} : Tell(Head(backlog), what)
    /\ backlog' = Tail(backlog)
    /\ accept' = "CHECK"
    /\ UNCHANGED <<clientVars, workerVars, applied, shutdown, stopper>>

\* Mutant of AcceptWorker: the handle is not kept
AcceptDetached ==
    /\ accept = "ACCEPT" /\ backlog # << >> /\ ~Full
    /\ active' = active + 1
    /\ worker' = [worker EXCEPT ![Head(backlog)] = "READ"]
    /\ backlog' = Tail(backlog)
    /\ accept' = "CHECK"
    /\ UNCHANGED <<clientVars, workers, reply, answer, applied, shutdown, stopper>>

\* A worker for the connection
AcceptWorker ==
    /\ accept = "ACCEPT" /\ backlog # << >> /\ ~Full
    /\ active' = active + 1
    /\ workers' = workers \cup {Head(backlog)}
    /\ worker' = [worker EXCEPT ![Head(backlog)] = "READ"]
    /\ backlog' = Tail(backlog)
    /\ accept' = "CHECK"
    /\ UNCHANGED <<clientVars, reply, answer, applied, shutdown, stopper>>

\* Joins every worker, removes the socket and drops the listener: who still is in
\* the backlog is cut off
Join ==
    /\ accept = "JOIN" /\ \A c \in workers : Finished(c)
    /\ accept' = "ENDED"
    /\ workers' = {}
    /\ answer' = [c \in Conns |-> IF c \in ToSet(backlog) /\ client[c] # "GONE"
                                  THEN "CLOSED" ELSE answer[c]]
    /\ backlog' = << >>
    /\ UNCHANGED <<clientVars, active, worker, reply, applied, shutdown, stopper>>

----------------------------------------------------------------------------
(* A worker: handle_connection.                                            *)

\* read_limited_frame gets the rest of the frame: a newline, or the end of the
\* stream behind some bytes
ReadFrame(c) ==
    /\ worker[c] = "READ" /\ (client[c] = "SENT" \/ (client[c] = "GONE" /\ bytes[c] > 0))
    /\ worker' = [worker EXCEPT ![c] = "HANDLE"]
    /\ UNCHANGED <<clientVars, backlog, accept, active, workers, reply, answer, applied, shutdown, stopper>>

\* Part of a frame: the read timeout starts over
ReadPart(c) ==
    /\ worker[c] = "READ" /\ client[c] = "OPEN" /\ bytes[c] < FrameCap
    /\ bytes' = [bytes EXCEPT ![c] = @ + 1]
    /\ UNCHANGED <<call, client, backlog, accept, workerVars, answer, applied, shutdown, stopper>>

\* The frame exceeds the cap
ReadOversized(c) ==
    /\ worker[c] = "READ" /\ bytes[c] = FrameCap
    /\ reply' = [reply EXCEPT ![c] = "OVERSIZED"]
    /\ worker' = [worker EXCEPT ![c] = "WRITE"]
    /\ UNCHANGED <<clientVars, backlog, accept, active, workers, answer, applied, shutdown, stopper>>

\* Mutant of ReadNothing: the worker returns past the counter
ReadNothingLeaks(c) ==
    /\ worker[c] = "READ" /\ client[c] # "SENT"
    /\ Tell(c, "CLOSED")
    /\ worker' = [worker EXCEPT ![c] = "DONE"]
    /\ UNCHANGED <<clientVars, backlog, accept, active, workers, reply, applied, shutdown, stopper>>

\* The read timeout, or the end of the stream before any byte: no response
ReadNothing(c) ==
    /\ worker[c] = "READ" /\ client[c] # "SENT"
    /\ Tell(c, "CLOSED")
    /\ worker' = [worker EXCEPT ![c] = "LEAVE"]
    /\ UNCHANGED <<clientVars, backlog, accept, active, workers, reply, applied, shutdown, stopper>>

\* Mutant of Handle: the fields are checked after the dispatch
HandleFirst(c) ==
    /\ worker[c] = "HANDLE"
    /\ reply' = [reply EXCEPT ![c] = IF call[c] = "BAD" THEN "REFUSED" ELSE "OK"]
    /\ applied' = [applied EXCEPT ![c] = @ + 1]
    /\ worker' = [worker EXCEPT ![c] = "WRITE"]
    /\ UNCHANGED <<clientVars, backlog, accept, active, workers, answer, shutdown, stopper>>

\* handle_bytes: turned away before dispatch, or carried out
Handle(c) ==
    /\ worker[c] = "HANDLE"
    /\ IF call[c] = "BAD"
       THEN reply' = [reply EXCEPT ![c] = "REFUSED"] /\ UNCHANGED applied
       ELSE reply' = [reply EXCEPT ![c] = "OK"] /\ applied' = [applied EXCEPT ![c] = @ + 1]
    /\ worker' = [worker EXCEPT ![c] = "WRITE"]
    /\ UNCHANGED <<clientVars, backlog, accept, active, workers, answer, shutdown, stopper>>

\* The handler panics, before or behind the change it makes: the thread ends, its stream is
\* closed, and fetch_sub is skipped
Panic(c) ==
    /\ worker[c] = "HANDLE"
    /\ applied' \in {applied} \cup
                      IF call[c] = "BAD" THEN {} ELSE {[applied EXCEPT ![c] = @ + 1]}
    /\ Tell(c, "CLOSED")
    /\ worker' = [worker EXCEPT ![c] = "PANICKED"]
    /\ UNCHANGED <<clientVars, backlog, accept, active, workers, reply, shutdown, stopper>>

\* Mutant of Interrupted: shutdown does not reach the waits
InterruptedByPeer(c) == client[c] = "GONE"

\* shutdown || peer_disconnected
Interrupted(c) == shutdown \/ client[c] = "GONE"

\* A wait that is interrupted ends with an error
HandleInterrupted(c) ==
    /\ worker[c] = "HANDLE" /\ call[c] = "WAIT" /\ Interrupted(c)
    /\ reply' = [reply EXCEPT ![c] = "INTERRUPTED"]
    /\ worker' = [worker EXCEPT ![c] = "WRITE"]
    /\ UNCHANGED <<clientVars, backlog, accept, active, workers, answer, applied, shutdown, stopper>>

\* Mutant of Respond: a server that shuts down writes nothing
RespondUnlessShutdown(c) ==
    /\ worker[c] = "WRITE"
    /\ IF shutdown THEN UNCHANGED answer ELSE Tell(c, reply[c])
    /\ worker' = [worker EXCEPT ![c] = "LEAVE"]
    /\ UNCHANGED <<clientVars, backlog, accept, active, workers, reply, applied, shutdown, stopper>>

\* write_response: a response beyond MAX_RESPONSE_FRAME_BYTES is replaced by an error, the
\* write may fail or run out of time, and a client that has left is not told
Respond(c) ==
    /\ worker[c] = "WRITE"
    /\ \/ Tell(c, reply[c]) \/ Tell(c, "CLOSED")
       \/ reply[c] = "OK" /\ Tell(c, "OVERSIZED")
    /\ worker' = [worker EXCEPT ![c] = "LEAVE"]
    /\ UNCHANGED <<clientVars, backlog, accept, active, workers, reply, applied, shutdown, stopper>>

\* fetch_sub, the last thing a worker does that did not panic
Exit(c) ==
    /\ worker[c] = "LEAVE"
    /\ active' = active - 1
    /\ worker' = [worker EXCEPT ![c] = "DONE"]
    /\ UNCHANGED <<clientVars, backlog, accept, workers, reply, answer, applied, shutdown, stopper>>

----------------------------------------------------------------------------
(* RpcServer::shutdown.                                                    *)

\* The flag, then a connection to the own socket that is dropped at once
Shutdown ==
    /\ stopper = "IDLE"
    /\ shutdown' = TRUE
    /\ stopper' = "CONNECT"
    /\ UNCHANGED <<clientVars, backlog, accept, workerVars, answer, applied>>

\* UnixStream::connect of its own path
ShutdownConnect ==
    /\ stopper = "CONNECT"
    /\ IF accept = "ENDED" THEN UNCHANGED <<backlog, client>>
       ELSE backlog' = Append(backlog, Wake) /\ client' = [client EXCEPT ![Wake] = "GONE"]
    /\ stopper' = "JOIN"
    /\ UNCHANGED <<call, bytes, accept, workerVars, answer, applied, shutdown>>

\* The accept thread has ended
ShutdownJoin ==
    /\ stopper = "JOIN" /\ accept = "ENDED"
    /\ stopper' = "STOPPED"
    /\ UNCHANGED <<clientVars, backlog, accept, workerVars, answer, applied, shutdown>>

Accept == Check \/ AcceptNothing \/ AcceptFails \/ AcceptBusy \/ AcceptWorker \/ Join

\* A wait that nothing wakes is not handled on its own
Work(c) ==
    \/ ReadFrame(c) \/ ReadOversized(c) \/ ReadNothing(c)
    \/ (call[c] # "WAIT" /\ Handle(c)) \/ HandleInterrupted(c)
    \/ Respond(c) \/ Exit(c)

Next ==
    \/ \E c \in Clients :
          \/ \E kind \in Calls : Connect(c, kind)
          \/ Send(c) \/ Leave(c) \/ ReadPart(c)
    \/ \E c \in Conns : Work(c) \/ Panic(c) \/ (call[c] = "WAIT" /\ Handle(c))
    \/ Accept
    \/ Shutdown \/ ShutdownConnect \/ ShutdownJoin

Spec == Init /\ [][Next]_vars

\* The threads of the server run.  Nothing is assumed of the clients, of the tasks
\* that would wake a wait, or of a call to shutdown.
FairSpec ==
    /\ Spec
    /\ WF_vars(Accept) /\ WF_vars(ShutdownConnect \/ ShutdownJoin)
    /\ \A c \in Conns : WF_vars(Work(c))

----------------------------------------------------------------------------
(* Properties.                                                             *)

\* Workers that still run, and connections that have taken a slot and not returned it
Running == {c \in Conns : worker[c] \notin {"NONE", "DONE", "PANICKED"}}
SlotHolders == Running \cup {c \in Conns : worker[c] = "PANICKED"}

\* There are never more workers than the limit, and no path out of a worker but a panic
\* loses its slot: the counter, which two threads change, is the number of the holders.
SlotsAreWorkers == active = Cardinality(SlotHolders) /\ active <= MaxConnections

\* A call is carried out once at most.  A client that is told OK knows it was, and one that
\* is told it was turned away or interrupted knows it was not; OVERSIZED and the end of the
\* connection say nothing of a call.
AnswersAreTrue ==
    \A c \in Clients :
        /\ applied[c] <= 1
        /\ answer[c] = "OK" => applied[c] = 1
        /\ answer[c] \in {"BUSY", "REFUSED", "INTERRUPTED"} => applied[c] = 0

\* When shutdown has returned no worker is left that could still change the store:
\* shutdown_all and the release of the database lock come after it.
StoppedIsQuiet == stopper = "STOPPED" => Running = {} /\ accept = "ENDED"

\* Shutdown returns, although waits may be under way that no task will ever wake
\* and clients may send their frames byte by byte.
ShutdownReturns == shutdown ~> stopper = "STOPPED"

\* A client that has sent its call and stays is answered, by a worker or as BUSY or with the
\* end of the connection, unless its call is a wait that nothing ends or an error has ended
\* the accept loop, which then waits for such calls.
ClientsAreAnswered ==
    \A c \in Clients :
        call[c] \in {"OP", "BAD"} /\ client[c] = "SENT"
            ~> \/ answer[c] # "NONE" \/ client[c] = "GONE"
               \/ accept = "JOIN" /\ ~shutdown
============================================================================
