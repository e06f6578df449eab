----------------------------- MODULE MCService ------------------------------
(***************************************************************************)
(* What the daemon is to its clients, on small instances: Submission       *)
(* (extended), RpcServer, Daemon, TaskWait, TaskPages and ResultPages.     *)
(*                                                                         *)
(* The modules share no state: each states what the others may do to it as *)
(* actions of its environment.  So the parts are explored one at a time:   *)
(* every one starts in its initial state and only the one in focus moves.  *)
(***************************************************************************)
EXTENDS Submission

CONSTANTS
    Clients, MaxConnections, FrameCap, Wake, c1, c2, SecondCalls, SecondBytes,   \* RpcServer
    Daemons, Inodes, MaxStarts, d2,                     \* Daemon
    Callers, Resumers, Cap, MaxRequests, MaxResumes,    \* TaskWait
    MaxTasks, Limit, MaxFlips,                          \* TaskPages
    Letters, Rest, Width, MaxBytes, Limits, Chunk, Frame, MaxTexts   \* ResultPages

Database == [d \in Daemons |-> "db"]

\* Two prompts, a scope of each kind, two workspaces, and what the preparation refuses.
ManifestSet ==
    {[mode |-> "BUILD", prompt |-> "p", paths |-> <<>>, workspace |-> "w"],
     [mode |-> "EDIT", prompt |-> "q", paths |-> <<"SRC">>, workspace |-> "w"],
     [mode |-> "PLAN", prompt |-> "p", paths |-> <<>>, workspace |-> "v"],
     [mode |-> "PLAN", prompt |-> "p", paths |-> <<"SRC">>, workspace |-> "v"],
     [mode |-> "EDIT", prompt |-> "q", paths |-> <<"SRC", "SRC">>, workspace |-> "w"],
     [mode |-> "YOLO", prompt |-> "q", paths |-> <<"DOCS", "PROTECTED">>, workspace |-> "w"],
     [mode |-> "EDIT", prompt |-> "", paths |-> <<"SRC">>, workspace |-> "w"]}

VARIABLES
    focus,   \* the part that moves, fixed by the initial state

    \* RpcServer
    rpcCall, rpcClient, rpcAnswer, rpcBacklog, rpcAccept, rpcActive,
    rpcWorkers, rpcWorker, rpcBytes, rpcReply, rpcApplied, rpcShutdown,
    rpcStopper,

    \* Daemon
    procPc, procSock, procKnown, procIdent, procSignalled, procStarts,
    procFailed, procLock, procFile, procListener,

    \* TaskWait
    waitTask, waitResult, waitPending, waitResumes, waitCopy, waitChanges,
    waitOverlapped, waitPc, waitSeen, waitExpired, waitInterrupted,

    \* TaskPages
    listMatching, listFlips, listStable, listWalk, listCursor, listListed,

    \* ResultPages
    textText, textTexts, textNext, textGot, textSha, textRefused, textLimit

Server == INSTANCE RpcServer WITH
    Clients <- Clients, MaxConnections <- MaxConnections,
    FrameCap <- FrameCap, Wake <- Wake, call <- rpcCall,
    client <- rpcClient, answer <- rpcAnswer, backlog <- rpcBacklog,
    accept <- rpcAccept, active <- rpcActive, workers <- rpcWorkers,
    worker <- rpcWorker, bytes <- rpcBytes, reply <- rpcReply,
    applied <- rpcApplied, shutdown <- rpcShutdown,
    stopper <- rpcStopper

Process == INSTANCE Daemon WITH
    Daemons <- Daemons, Database <- Database, Inodes <- Inodes,
    MaxStarts <- MaxStarts, None <- None, pc <- procPc,
    sock <- procSock, known <- procKnown, ident <- procIdent,
    signalled <- procSignalled, starts <- procStarts,
    failed <- procFailed, lock <- procLock, file <- procFile,
    listener <- procListener

Wait == INSTANCE TaskWait WITH
    Callers <- Callers, Resumers <- Resumers, Cap <- Cap,
    MaxRequests <- MaxRequests, MaxResumes <- MaxResumes,
    task <- waitTask, result <- waitResult, pending <- waitPending,
    resumes <- waitResumes, copy <- waitCopy, changes <- waitChanges,
    overlapped <- waitOverlapped, pc <- waitPc, seen <- waitSeen, expired <- waitExpired,
    interrupted <- waitInterrupted

List == INSTANCE TaskPages WITH
    MaxTasks <- MaxTasks, Limit <- Limit, MaxFlips <- MaxFlips,
    matching <- listMatching, flips <- listFlips, stable <- listStable,
    walk <- listWalk, cursor <- listCursor, listed <- listListed

Text == INSTANCE ResultPages WITH
    Letters <- Letters, Rest <- Rest, Width <- Width,
    MaxBytes <- MaxBytes, Limits <- Limits, Chunk <- Chunk,
    Frame <- Frame, MaxTexts <- MaxTexts, None <- None,
    text <- textText, texts <- textTexts, next <- textNext,
    got <- textGot, sha <- textSha, refused <- textRefused,
    limit <- textLimit

ASSUME ServerBounds == Server!ServerBounds /\ Server!WakeAssumption
ASSUME ProcessBounds == Process!DaemonAssumption
ASSUME WaitBounds == Wait!WaitBounds
ASSUME ListBounds == List!PageBounds
ASSUME TextBounds == Text!TextBounds
ASSUME SubmissionBounds == SubmissionAssumption /\ ManifestAssumption /\ NoneAssumption

rpcVars == <<rpcCall, rpcClient, rpcAnswer, rpcBacklog, rpcAccept,
             rpcActive, rpcWorkers, rpcWorker, rpcBytes, rpcReply,
             rpcApplied, rpcShutdown, rpcStopper>>
procVars == <<procPc, procSock, procKnown, procIdent, procSignalled,
              procStarts, procFailed, procLock, procFile, procListener>>
waitVars == <<waitTask, waitResult, waitPending, waitResumes, waitCopy,
              waitChanges, waitOverlapped, waitPc, waitSeen, waitExpired,
              waitInterrupted>>
listVars == <<listMatching, listFlips, listStable, listWalk, listCursor,
              listListed>>
textVars == <<textText, textTexts, textNext, textGot, textSha, textRefused,
              textLimit>>
mcVars == <<focus, vars, rpcVars, procVars, waitVars, listVars, textVars>>

MCInit ==
    /\ focus \in {"SERVER", "PROCESS", "WAIT", "LIST", "TEXT", "SUBMIT"}
    /\ Init /\ Server!Init /\ Process!Init /\ Wait!Init /\ List!Init /\ Text!Init
    /\ focus # "TEXT" => textText = <<>> /\ textLimit = 1

\* The clients connect in the order of their names, which stand for no order, the
\* second of them with one of SecondCalls, of which it sends SecondBytes in parts.
InServer(A) ==
    /\ focus = "SERVER" /\ A
    /\ rpcCall'[c2] # "NONE" => rpcCall'[c1] # "NONE" /\ rpcCall'[c2] \in SecondCalls
    /\ rpcBytes'[c2] <= SecondBytes
    /\ UNCHANGED <<focus, vars, procVars, waitVars, listVars, textVars>>
\* One of the processes is started once only.
InProcess(A) ==
    /\ focus = "PROCESS" /\ A /\ procStarts'[d2] <= 1
    /\ UNCHANGED <<focus, vars, rpcVars, waitVars, listVars, textVars>>
\* Who waits while two resumers are under way sees no request, interruption or deadline.
InWait(A) ==
    /\ focus = "WAIT" /\ A
    /\ waitOverlapped' =>
          waitPending' = <<>> /\ waitExpired' = {} /\ waitInterrupted' = {}
    /\ UNCHANGED <<focus, vars, rpcVars, procVars, listVars, textVars>>
InList(A) ==
    focus = "LIST" /\ A /\ UNCHANGED <<focus, vars, rpcVars, procVars, waitVars, textVars>>
InText(A) ==
    focus = "TEXT" /\ A /\ UNCHANGED <<focus, vars, rpcVars, procVars, waitVars, listVars>>
InSubmit(A) ==
    focus = "SUBMIT" /\ A
      /\ UNCHANGED <<focus, rpcVars, procVars, waitVars, listVars, textVars>>

MCNext ==
    \/ InServer(Server!Next)
    \/ InProcess(Process!Next)
    \/ InWait(Wait!Next)
    \/ InList(List!Next)
    \/ InText(Text!Next)
    \/ InSubmit(Next)

\* The fairness each module states for its threads, while it is in focus.
MCFairness ==
    /\ WF_mcVars(InServer(Server!Accept)) /\ WF_mcVars(InServer(Server!ShutdownConnect \/ Server!ShutdownJoin))
    /\ \A c \in Server!Conns : WF_mcVars(InServer(Server!Work(c)))
    /\ \A d \in Daemons : WF_mcVars(InProcess(Process!Run(d)))
    /\ \A c \in Callers : WF_mcVars(InWait(Wait!Step(c)))
    /\ WF_mcVars(InList(List!Page))
    /\ WF_mcVars(InText(Text!Read))

MCSpec == MCInit /\ [][MCNext]_mcVars
MCFairSpec == MCSpec /\ MCFairness

-----------------------------------------------------------------------------
(***************************************************************************)
(* Properties, of which each part is stated in full in its module          *)
(***************************************************************************)

\* A client is told what happened to its call, no path out of a worker loses its slot,
\* and a server that has stopped has no worker left that could change the store.
ServerIsSound == Server!AnswersAreTrue /\ Server!SlotsAreWorkers /\ Server!StoppedIsQuiet

\* Daemons share the socket paths: one that serves is reached by its clients, one that
\* has the lock and has reconciled binds, and one that stops leaves no file behind.
SocketsAreShared ==
    Process!ServingIsReachable /\ Process!HolderBinds /\ Process!StoppedLeavesNoSocket

\* What a client puts together from several reads was so: a task with the result of
\* the run it shows, a list with every task once, the text of one result.
ReadsAreTrue ==
    /\ Wait!ResultFitsTask
    /\ List!ListedOnceNewestFirst /\ List!StableAreListed
    /\ Text!PagesAreWhole /\ Text!CompleteMeansAll

\* While no other program interferes, submissions that meet in the temporary directory
\* are accepted unless they meet in a workspace, and their tasks are launched, again
\* after a resume.
Undisturbed == UndisturbedIsAccepted /\ UndisturbedLaunches

\* The server answers who stays and shuts down, and a signal ends the process in
\* whatever part of start or service it comes.
DaemonReturns == Server!ClientsAreAnswered /\ Server!ShutdownReturns /\ Process!SignalEnds

\* Who waits for a task, walks the list or reads a text comes to an end, however tasks
\* and results change meanwhile.
ReadsEnd ==
    /\ Wait!WakesWithoutDeadline /\ Wait!InterruptedWaitEnds
    /\ List!WalkEnds /\ Text!ReadingEnds
=============================================================================
