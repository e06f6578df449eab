------------------------------- MODULE Daemon ------------------------------
(***************************************************************************)
(* The start and the end of daemon processes on one machine: main of       *)
(* zcode-agentd, Daemon::start_inner and shutdown, SingletonLock,          *)
(* McpServer (crates/zcode-agentd/src/main.rs, lib.rs) and the socket      *)
(* files of RpcServer (rpc/unix.rs).  Processes crash and start again,     *)
(* signals come at any moment, and every look at a path is a step of its   *)
(* own.                                                                    *)
(*                                                                         *)
(* The paths rpc and mcp are shared by all daemons; the lock belongs to    *)
(* the database.  An inode number is free again when the file has no name  *)
(* and nobody listens on it.  Errors of the file system are left out; what *)
(* reconcile_startup and shutdown_all do to tasks is in Scheduler.         *)
(* Daemons on different databases would meet at the paths; the properties  *)
(* are of daemons on one.                                                  *)
(***************************************************************************)
EXTENDS Naturals, FiniteSets

CONSTANTS
    Daemons,        \* processes
    Database,       \* the database of each
    Inodes,         \* inode numbers
    MaxStarts,      \* bound on the starts of a process
    None            \* no file, no listener, no owner

DaemonAssumption ==
    /\ None \notin Daemons \cup Inodes /\ MaxStarts \in Nat
    /\ DOMAIN Database = Daemons

Paths == {"rpc", "mcp"}

VARIABLES
    pc,         \* where each process is
    sock,       \* the path it works on
    known,      \* the identity it has seen at that path: expected of stale cleanup
    ident,      \* socket_identity of the servers it has bound
    signalled,  \* shutdown_requested
    starts,     \* how often it was started
    failed,     \* a socket could not be bound although it has the lock
    lock,       \* the process that has flocked each database
    file,       \* the inode of each path
    listener    \* the process that listens on each inode

vars == <<pc, sock, known, ident, signalled, starts, failed, lock, file, listener>>
kernel == <<lock, file, listener>>
process == <<sock, known, ident, signalled, starts, failed>>

NoServer == [p \in Paths |-> None]

Init ==
    /\ pc = [d \in Daemons |-> "DOWN"]
    /\ sock = [d \in Daemons |-> "rpc"]
    /\ known = [d \in Daemons |-> None]
    /\ ident = [d \in Daemons |-> NoServer]
    /\ signalled = [d \in Daemons |-> FALSE]
    /\ starts = [d \in Daemons |-> 0]
    /\ failed = [d \in Daemons |-> FALSE]
    /\ lock = [b \in {Database[d] : d \in Daemons} |-> None]
    /\ file = NoServer
    /\ listener = [i \in Inodes |-> None]

Goto(d, where) == pc' = [pc EXCEPT ![d] = where]

\* Its servers so far are shut down, in the order they were bound; then the lock goes
StopFrom(d, path) ==
    /\ sock' = [sock EXCEPT ![d] = path]
    /\ Goto(d, IF ident[d][path] = None THEN "UNLOCK"
               ELSE IF path = "rpc" THEN "MATCH" ELSE "WAKE")

\* A server cannot be bound: Daemon::start returns the error
Fail(d) ==
    /\ failed' = [failed EXCEPT ![d] = TRUE]
    /\ StopFrom(d, "rpc")

----------------------------------------------------------------------------
(* Start.                                                                  *)

\* The process starts; its flag and its servers are its own
Start(d) ==
    /\ pc[d] = "DOWN" /\ starts[d] < MaxStarts
    /\ starts' = [starts EXCEPT ![d] = @ + 1]
    /\ sock' = [sock EXCEPT ![d] = "rpc"]
    /\ known' = [known EXCEPT ![d] = None]
    /\ ident' = [ident EXCEPT ![d] = NoServer]
    /\ signalled' = [signalled EXCEPT ![d] = FALSE]
    /\ failed' = [failed EXCEPT ![d] = FALSE]
    /\ Goto(d, "LOCK")
    /\ UNCHANGED kernel

\* SIGTERM, SIGINT: the handler sets the flag
Signal(d) ==
    /\ pc[d] # "DOWN"
    /\ signalled' = [signalled EXCEPT ![d] = TRUE]
    /\ UNCHANGED <<pc, sock, known, ident, starts, failed, kernel>>

\* check_startup_shutdown, then SingletonLock::acquire without waiting
Acquire(d) ==
    /\ pc[d] = "LOCK"
    /\ IF signalled[d] \/ lock[Database[d]] # None
       THEN Goto(d, "DOWN") /\ UNCHANGED lock
       ELSE lock' = [lock EXCEPT ![Database[d]] = d] /\ Goto(d, "RECONCILE")
    /\ UNCHANGED <<process, file, listener>>

\* reconcile_startup and the checks around it.  An interrupted start gives the lock back,
\* and so does one whose reconciliation fails: that of a stored process which cannot be
\* reaped, or of a store that cannot be read.
Reconcile(d) ==
    /\ pc[d] = "RECONCILE"
    /\ \/ Goto(d, "UNLOCK")
       \/ ~signalled[d] /\ Goto(d, "STAT")
    /\ UNCHANGED <<process, kernel>>

\* remove_stale_socket: symlink_metadata
Stat(d) ==
    /\ pc[d] = "STAT"
    /\ known' = [known EXCEPT ![d] = file[sock[d]]]
    /\ Goto(d, IF file[sock[d]] = None THEN "BIND" ELSE "PROBE")
    /\ UNCHANGED <<sock, ident, signalled, starts, failed, kernel>>

\* connect: only a refused connection lets the cleanup go on
Probe(d) ==
    /\ pc[d] = "PROBE"
    /\ IF file[sock[d]] # None /\ listener[file[sock[d]]] = None
       THEN Goto(d, "RECHECK") /\ UNCHANGED <<sock, failed>>
       ELSE Fail(d)
    /\ UNCHANGED <<known, ident, signalled, starts, kernel>>

\* The identity is compared once more
Recheck(d) ==
    /\ pc[d] = "RECHECK"
    /\ IF file[sock[d]] = known[d]
       THEN Goto(d, "UNLINK STALE") /\ UNCHANGED <<sock, failed>>
       ELSE Fail(d)
    /\ UNCHANGED <<known, ident, signalled, starts, kernel>>

\* Mutant of UnlinkStale: the stale file is left for the bind
UnlinkStaleKeeps(d) ==
    /\ pc[d] = "UNLINK STALE"
    /\ Goto(d, "BIND")
    /\ UNCHANGED <<process, kernel>>

\* remove_file takes whatever has the name now
UnlinkStale(d) ==
    /\ pc[d] = "UNLINK STALE"
    /\ IF file[sock[d]] # None
       THEN file' = [file EXCEPT ![sock[d]] = None] /\ Goto(d, "BIND") /\ UNCHANGED <<sock, failed>>
       ELSE Fail(d) /\ UNCHANGED file
    /\ UNCHANGED <<known, ident, signalled, starts, lock, listener>>

FreeInodes == {i \in Inodes : listener[i] = None /\ \A p \in Paths : file[p] # i}

\* UnixListener::bind makes the file, or finds one
Bind(d) ==
    /\ pc[d] = "BIND"
    /\ IF file[sock[d]] = None
       THEN \E i \in FreeInodes :
               /\ file' = [file EXCEPT ![sock[d]] = i]
               /\ listener' = [listener EXCEPT ![i] = d]
               /\ Goto(d, "IDENTIFY") /\ UNCHANGED <<sock, failed>>
       ELSE Fail(d) /\ UNCHANGED <<file, listener>>
    /\ UNCHANGED <<known, ident, signalled, starts, lock>>

\* Mutant of Identify: the daemon serves with its first socket
IdentifyFirst(d) ==
    /\ pc[d] = "IDENTIFY"
    /\ ident' = [ident EXCEPT ![d][sock[d]] = file[sock[d]]]
    /\ Goto(d, "CHECK")
    /\ UNCHANGED <<sock, failed, known, signalled, starts, kernel>>

\* The identity of a server is what the path shows after the bind.  The mcp server
\* follows the rpc server; then the flag is looked at again.
Identify(d) ==
    /\ pc[d] = "IDENTIFY"
    /\ IF file[sock[d]] = None
       THEN Fail(d) /\ UNCHANGED ident
       ELSE /\ ident' = [ident EXCEPT ![d][sock[d]] = file[sock[d]]]
            /\ \/ sock[d] = "rpc" /\ sock' = [sock EXCEPT ![d] = "mcp"] /\ Goto(d, "STAT")
               \/ sock[d] = "mcp" /\ Goto(d, "CHECK") /\ UNCHANGED sock
            /\ UNCHANGED failed
    /\ UNCHANGED <<known, signalled, starts, kernel>>

\* Mutant of Check: service begins with a new flag
CheckResets(d) ==
    /\ pc[d] = "CHECK"
    /\ signalled' = [signalled EXCEPT ![d] = FALSE]
    /\ Goto(d, "SERVING")
    /\ UNCHANGED <<sock, known, ident, starts, failed, kernel>>

\* The last check_startup_shutdown; behind it the claim thread is started
Check(d) ==
    /\ pc[d] = "CHECK"
    /\ IF signalled[d] THEN StopFrom(d, "rpc") ELSE Goto(d, "SERVING") /\ UNCHANGED sock
    /\ UNCHANGED <<known, ident, signalled, starts, failed, kernel>>

----------------------------------------------------------------------------
(* Shutdown.                                                               *)

\* The loop of main sees the flag
Shutdown(d) ==
    /\ pc[d] = "SERVING" /\ signalled[d]
    /\ StopFrom(d, "rpc")
    /\ UNCHANGED <<known, ident, signalled, starts, failed, kernel>>

\* remove_matching_socket, first half: the thread of the server, then shutdown again
Match(d) ==
    /\ pc[d] \in {"MATCH", "MATCH AGAIN"}
    /\ Goto(d, IF file[sock[d]] = ident[d][sock[d]]
               THEN IF pc[d] = "MATCH" THEN "UNLINK" ELSE "UNLINK AGAIN"
               ELSE IF pc[d] = "MATCH" THEN "CLOSE" ELSE "NEXT")
    /\ UNCHANGED <<process, kernel>>

\* Mutant of Unlink: the thread leaves the file to the next start
UnlinkNothing(d) ==
    /\ pc[d] \in {"UNLINK", "UNLINK AGAIN"}
    /\ Goto(d, IF pc[d] = "UNLINK" /\ sock[d] = "rpc" THEN "CLOSE" ELSE
               IF pc[d] = "UNLINK" THEN "MATCH AGAIN" ELSE "NEXT")
    /\ UNCHANGED <<process, kernel>>

\* Second half: remove_file.  The rpc server's listener is closed behind it.
Unlink(d) ==
    /\ pc[d] \in {"UNLINK", "UNLINK AGAIN"}
    /\ file' = [file EXCEPT ![sock[d]] = None]
    /\ Goto(d, IF pc[d] = "UNLINK" /\ sock[d] = "rpc" THEN "CLOSE" ELSE
               IF pc[d] = "UNLINK" THEN "MATCH AGAIN" ELSE "NEXT")
    /\ UNCHANGED <<process, lock, listener>>

\* The mcp thread waits for a connection: shutdown makes one to the path, once, and
\* joins the thread for ever if the path leads elsewhere.  The rpc thread polls.
WakeAccept(d) ==
    /\ pc[d] = "WAKE"
    /\ file["mcp"] # None /\ listener[file["mcp"]] = d
    /\ Goto(d, "CLOSE")
    /\ UNCHANGED <<process, kernel>>

\* The listener is dropped: behind the first removal for rpc, before it for mcp
Close(d) ==
    /\ pc[d] = "CLOSE"
    /\ listener' = [i \in Inodes |-> IF listener[i] = d /\ i = ident[d][sock[d]] THEN None ELSE listener[i]]
    /\ Goto(d, IF sock[d] = "rpc" THEN "MATCH AGAIN" ELSE "MATCH MCP")
    /\ UNCHANGED <<process, lock, file>>

\* The mcp thread's removal
MatchMcp(d) ==
    /\ pc[d] = "MATCH MCP"
    /\ Goto(d, IF file["mcp"] = ident[d]["mcp"] THEN "UNLINK" ELSE "MATCH AGAIN")
    /\ UNCHANGED <<process, kernel>>

\* The next server, then the claim thread and shutdown_all
NextServer(d) ==
    /\ pc[d] = "NEXT"
    /\ IF sock[d] = "rpc" THEN StopFrom(d, "mcp") ELSE Goto(d, "UNLOCK") /\ UNCHANGED sock
    /\ UNCHANGED <<known, ident, signalled, starts, failed, kernel>>

\* The lock is dropped last, with the process
Unlock(d) ==
    /\ pc[d] = "UNLOCK"
    /\ lock' = [lock EXCEPT ![Database[d]] = None]
    /\ listener' = [i \in Inodes |-> IF listener[i] = d THEN None ELSE listener[i]]
    /\ Goto(d, "DOWN")
    /\ UNCHANGED <<process, file>>

\* The kernel takes the lock and the listeners of a process that dies; the files stay
Crash(d) ==
    /\ pc[d] # "DOWN"
    /\ lock' = [b \in DOMAIN lock |-> IF lock[b] = d THEN None ELSE lock[b]]
    /\ listener' = [i \in Inodes |-> IF listener[i] = d THEN None ELSE listener[i]]
    /\ Goto(d, "DOWN")
    /\ UNCHANGED <<process, file>>

Run(d) ==
    \/ Acquire(d) \/ Reconcile(d) \/ Stat(d) \/ Probe(d) \/ Recheck(d) \/ UnlinkStale(d)
    \/ Bind(d) \/ Identify(d) \/ Check(d)
    \/ Shutdown(d) \/ Match(d) \/ Unlink(d) \/ WakeAccept(d) \/ Close(d) \/ MatchMcp(d) \/ NextServer(d) \/ Unlock(d)

Next == \E d \in Daemons : Start(d) \/ Signal(d) \/ Crash(d) \/ Run(d)

Spec == Init /\ [][Next]_vars

\* A process that runs gets on; nothing is assumed of starts, signals and crashes
FairSpec == Spec /\ \A d \in Daemons : WF_vars(Run(d))

----------------------------------------------------------------------------
(* Properties.                                                             *)

Owns(d, p) == file[p] # None /\ listener[file[p]] = d

\* The clients of a daemon that serves reach it: both paths lead to its listeners,
\* whatever stale files, crashes and starts of other processes there were.
ServingIsReachable ==
    \A d \in Daemons : pc[d] = "SERVING" => \A p \in Paths : Owns(d, p)

\* A process that has the lock of the database and has reconciled binds both sockets, or a
\* signal ends its start: stale files of a crash and processes that give up do not.
HolderBinds == \A d \in Daemons : ~failed[d]

\* A daemon has removed the socket files it made when it gives the lock back, also
\* when its start was interrupted between two servers.
StoppedLeavesNoSocket ==
    \A d \in Daemons, p \in Paths : pc[d] = "UNLOCK" /\ ident[d][p] # None => file[p] = None

\* A signal ends the process, in whatever part of start or service it comes.
SignalEnds == \A d \in Daemons : signalled[d] /\ pc[d] # "DOWN" ~> pc[d] = "DOWN"
============================================================================
