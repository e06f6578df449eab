------------------------------ MODULE MCDriver ------------------------------
(***************************************************************************)
(* The parts that drive one runtime process, on small instances:           *)
(* DriverStop and TurnControl (extended), PersistedReap, DriverRequests,   *)
(* StdinWriter and RuntimeOwner.                                           *)
(*                                                                         *)
(* The modules share no state: each states what the others may do to it as *)
(* actions of its environment.  So the parts are explored one at a time:   *)
(* every one starts in its initial state and only the one in focus moves.  *)
(***************************************************************************)
EXTENDS DriverStop, TurnControl

CONSTANTS
    StoredKids,                                         \* PersistedReap
    Ids, Descendants, MaxOutput, MaxBroadcasts,         \* DriverRequests
    Blocking, Bounded, FrameLength, Capacity, Nobody,   \* StdinWriter
    Finishers, TurnSenders, TurnStoppers, Dropper, MaxEvents,  \* RuntimeOwner
    SentEvents, ExitCodes   \* bounds on what its runtime sends and how it exits

VARIABLES
    focus,   \* the part that moves, fixed by the initial state

    \* PersistedReap
    reapOwner, reapLeader, reapKids, reapSetuid, reapSameUid, reapPc,
    reapHit, reapFound,

    \* DriverRequests
    reqPc, reqPending, reqMailbox, reqRet, reqInbox, reqProcess, reqPipes,
    reqStdout, reqWritten, reqReader, reqMonitor, reqLate, reqRaw, reqHeld,
    reqDispatcher, reqEvents,

    \* StdinWriter
    inPc, inOffset, inRet, inExpired, inLock, inNonblock, inStream,
    inConsumed, inOpen,

    \* RuntimeOwner
    ownGroup, ownCode, ownQueue, ownSent, ownPump, ownTurn, ownOwner,
    ownTerminal, ownExitSeen, ownEmitted, ownPc, ownWant, ownRet, ownCmd,
    ownMark, ownDropped

Reap == INSTANCE PersistedReap WITH
    Kids <- StoredKids, owner <- reapOwner, leader <- reapLeader,
    kids <- reapKids, setuid <- reapSetuid, sameUid <- reapSameUid,
    pc <- reapPc, hit <- reapHit, found <- reapFound

Requests == INSTANCE DriverRequests WITH
    Ids <- Ids, Descendants <- Descendants, MaxOutput <- MaxOutput,
    MaxEvents <- MaxBroadcasts, pc <- reqPc, pending <- reqPending,
    mailbox <- reqMailbox, ret <- reqRet, inbox <- reqInbox,
    process <- reqProcess, pipes <- reqPipes, stdout <- reqStdout,
    written <- reqWritten, reader <- reqReader, monitor <- reqMonitor,
    late <- reqLate, raw <- reqRaw, held <- reqHeld,
    dispatcher <- reqDispatcher, events <- reqEvents

Stdin == INSTANCE StdinWriter WITH
    Senders <- Blocking, Responders <- Bounded,
    FrameLength <- FrameLength, Capacity <- Capacity, Nobody <- Nobody,
    pc <- inPc, offset <- inOffset, ret <- inRet, expired <- inExpired,
    lock <- inLock, nonblock <- inNonblock, stream <- inStream,
    consumed <- inConsumed, open <- inOpen

Owner == INSTANCE RuntimeOwner WITH
    Finishers <- Finishers, Senders <- TurnSenders,
    Stoppers <- TurnStoppers, Dropper <- Dropper,
    MaxEvents <- MaxEvents, group <- ownGroup, code <- ownCode,
    queue <- ownQueue, sent <- ownSent, pump <- ownPump,
    turn <- ownTurn, owner <- ownOwner, terminal <- ownTerminal,
    exitSeen <- ownExitSeen, emitted <- ownEmitted, pc <- ownPc,
    want <- ownWant, ret <- ownRet, cmd <- ownCmd, mark <- ownMark,
    dropped <- ownDropped

ASSUME RequestBounds == Requests!OutputAssumption /\ Requests!DescendantsAssumption
ASSUME StdinBounds == Stdin!WritersAssumption /\ Stdin!FrameAssumption
ASSUME OwnerBounds == Owner!EventsAssumption /\ SentEvents \subseteq Owner!RuntimeEvent
ASSUME TurnBounds == TurnsAssumption

reapVars == <<reapOwner, reapLeader, reapKids, reapSetuid, reapSameUid,
              reapPc, reapHit, reapFound>>
reqVars == <<reqPc, reqPending, reqMailbox, reqRet, reqInbox, reqProcess,
             reqPipes, reqStdout, reqWritten, reqReader, reqMonitor,
             reqLate, reqRaw, reqHeld, reqDispatcher, reqEvents>>
inVars == <<inPc, inOffset, inRet, inExpired, inLock, inNonblock, inStream,
            inConsumed, inOpen>>
ownVars == <<ownGroup, ownCode, ownQueue, ownSent, ownPump, ownTurn,
             ownOwner, ownTerminal, ownExitSeen, ownEmitted, ownPc, ownWant,
             ownRet, ownCmd, ownMark, ownDropped>>
mcVars == <<focus, vars, reapVars, reqVars, inVars, ownVars, turnVars>>

MCInit ==
    /\ focus \in {"STOP", "REAP", "REQUESTS", "STDIN", "OWNER", "TURNS"}
    /\ Init /\ Reap!Init /\ Requests!Init /\ Stdin!Init /\ Owner!Init
    /\ TurnInit

InStop(A) ==
    focus = "STOP" /\ A /\ UNCHANGED <<focus, reapVars, reqVars, inVars, ownVars, turnVars>>
InReap(A) ==
    focus = "REAP" /\ A /\ UNCHANGED <<focus, vars, reqVars, inVars, ownVars, turnVars>>
InRequests(A) ==
    focus = "REQUESTS" /\ A /\ UNCHANGED <<focus, vars, reapVars, inVars, ownVars, turnVars>>
InStdin(A) ==
    focus = "STDIN" /\ A /\ UNCHANGED <<focus, vars, reapVars, reqVars, ownVars, turnVars>>
InOwner(A) ==
    /\ focus = "OWNER" /\ A /\ UNCHANGED <<focus, vars, reapVars, reqVars, inVars, turnVars>>
    /\ \A p \in DOMAIN ownQueue' : ownQueue'[p] \in SentEvents \cup {"exited"}
    /\ ownCode' \in ExitCodes \cup {"NONE"}
InTurns(A) ==
    focus = "TURNS" /\ A /\ UNCHANGED <<focus, vars, reapVars, reqVars, inVars, ownVars>>

MCNext ==
    \/ InStop(Next)
    \/ InReap(Reap!Next)
    \/ InRequests(Requests!Next)
    \/ InStdin(Stdin!Next)
    \/ InOwner(Owner!Next)
    \/ InTurns(TurnNext)

MCSpec == MCInit /\ [][MCNext]_mcVars

\* The fairness each module states for its threads, while it is in focus.  The
\* focus is fixed, so one condition serves one thread of each part.
MCFairness ==
    /\ WF_mcVars(\/ InReap(Reap!ReaperStep) \/ InRequests(Requests!Read)
                 \/ InOwner(Owner!PumpStep) \/ InTurns(StartStep))
    /\ WF_mcVars(\/ InRequests(Requests!ReadEnd) \/ InOwner(Owner!ReportsExit)
                 \/ InTurns(MonitorStep))
    /\ WF_mcVars(\/ InRequests(Requests!SeeExit) \/ InOwner(Owner!Drop)
                 \/ InTurns(DeliverStep("START")))
    /\ WF_mcVars(\/ InRequests(Requests!ReportExit) \/ InOwner(Owner!DriverDrop)
                 \/ InTurns(DeliverStep("MONITOR")))
    /\ WF_mcVars(InRequests(Requests!Dispatch) \/ InTurns(QueueInsert))
    /\ WF_mcVars(InRequests(Requests!Send) \/ InTurns(StopperStep))
    /\ WF_mcVars(InRequests(Requests!DispatchEnd))
    /\ \A c \in Callers : WF_mcVars(InStop(StopStep(c)))
    /\ \A i \in Ids : WF_mcVars(InRequests(Requests!CallStep(i)))
    /\ \A w \in Bounded :
          WF_mcVars(InStdin(Stdin!RespondStep(w))) /\ WF_mcVars(InStdin(Stdin!Expire(w)))
    /\ \A f \in Owner!Ending : WF_mcVars(InOwner(Owner!FinishStep(f)))
    /\ \A s \in Owner!Commands : WF_mcVars(InOwner(Owner!CommandDone(s)))

MCFairSpec == MCSpec /\ MCFairness

-----------------------------------------------------------------------------
(***************************************************************************)
(* Properties, of which each part is stated in full in its module          *)
(***************************************************************************)

\* The reap of a stored group that reports success leaves no process of it, and signals
\* a stranger's only where it found no leader or the id was reused under its hands.
ReapIsSafe == Reap!ReapedMeansGone /\ Reap!FoundLeaderDecides

\* However answer, timeout, cancelled call, failed write and exit of the runtime race,
\* a request is told one thing, the exit only behind the output, and leaves nothing
\* in the pending map.
RequestsAccounted == Requests!NoLeakedPending /\ Requests!ToldOnce /\ Requests!ExitAfterOutput

\* Blocking and bounded writers share the pipe: frames are not mixed, one that is
\* reported as sent is whole, and nobody inherits O_NONBLOCK.
FramesWhole == Stdin!FramesContiguous /\ Stdin!SentIsWhole /\ Stdin!NonblockOnlyHeld

\* The pump and all who finish a runtime come to one terminal: the last record of the
\* log, behind the exit if it is clean, and a proof that the group is gone.
TerminalIsSound ==
    /\ Owner!TerminalOnceAndLast /\ Owner!FinishersAgree
    /\ Owner!TerminalProvesReaped /\ Owner!CleanBehindExit

\* The calls on a process return whatever it does: stop_and_reap, the reap of a stored
\* group, respond_before, and a request once the process is gone.
CallsReturn ==
    /\ StopReturns /\ Reap!ReapReturns
    /\ Stdin!RespondReturns /\ Requests!ExitEndsRequests

\* No end of a turn is missed: neither by a command that looks after it, nor by the
\* monitor, which sends the next message or ends the run.
TurnsFollowedUp == Owner!FastTurnNotMissed /\ EndedTurnHandled

\* A stop ends the run, and the drop of the owner its process.
RuntimesEnd == StopEndsRun /\ Owner!DroppedMeansGone
=============================================================================
