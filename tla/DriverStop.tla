----------------------------- MODULE DriverStop -----------------------------
(***************************************************************************)
(* How a Driver ends its runtime process (crates/zcode-driver/src/lib.rs): *)
(* stop_and_reap called by any number of threads, the child monitor that   *)
(* reaps beside them, and the process group with its leader and the        *)
(* leader's descendants.                                                   *)
(*                                                                         *)
(* The stop_state mutex is held for the whole of begin_stop (but while it  *)
(* waits on the condition variable) and of finish_stop, so each pass is    *)
(* one step.  perform_stop holds the child mutex throughout and takes one  *)
(* step per look at, or signal to, the process group.                      *)
(***************************************************************************)
EXTENDS Naturals, FiniteSets

CONSTANTS
    Callers,        \* threads that stop the driver, its Drop included
    Kids,           \* descendants the leader may leave in its group
    SetuidKids,     \* those that run under another uid
    ZombieVisible,  \* an exited leader can still be observed: Linux yes, macOS no
    MaxCalls,       \* bound on the calls of a thread
    Free            \* holder of a child mutex nobody holds

ASSUME CallersAssumption == IsFiniteSet(Callers) /\ Free \notin Callers
ASSUME KidsAssumption == SetuidKids \subseteq Kids
ASSUME ZombieAssumption == ZombieVisible \in BOOLEAN
ASSUME CallsAssumption == MaxCalls \in Nat

VARIABLES
    stop,       \* stop_state: kind, generation and registered waiters
    asleep,     \* threads waiting on the condition variable
    pc,         \* where each thread is in stop_and_reap
    gen,        \* the generation it performs, or waits for
    attempt,    \* what its perform_stop came to
    ret,        \* what its last call returned, with the generation it speaks of
    calls,      \* calls each thread has begun
    child,      \* holder of the child mutex
    leader,     \* the leader: ALIVE, DYING (exits, not yet waitable), ZOMBIE, REAPED
    kids        \* living descendants in the group

coordination == <<stop, asleep, gen, ret, calls>>
processes == <<leader, kids>>
vars == <<stop, asleep, pc, gen, attempt, ret, calls, child, leader, kids>>

Kind == {"RUNNING", "STOPPING", "STOPPED", "FAILED"}

\* Places in perform_stop where the group is looked at, and may not be observable.
Observing == {"ENSURE", "OBSERVE", "GROUP", "GONEWAIT", "TERMWAIT", "KILLCHECK", "KILLWAIT"}
Performing == {"LOCK", "CHECK", "TERM", "KILL", "FINISH"} \cup Observing
PC == {"IDLE", "BEGIN", "WAIT"} \cup Performing

\* What a call has returned; an error and the attempt it came from.
NoReturn == [kind |-> "NONE", gen |-> 0]
Return == [kind : {"NONE", "OK", "ERROR"}, gen : Nat]

Running(generation) == [kind |-> "RUNNING", generation |-> generation, waiters |-> 0]

Init ==
    /\ stop = Running(0)
    /\ asleep = {}
    /\ pc = [c \in Callers |-> "IDLE"]
    /\ gen = [c \in Callers |-> 0]
    /\ attempt = [c \in Callers |-> "NONE"]
    /\ ret = [c \in Callers |-> NoReturn]
    /\ calls = [c \in Callers |-> 0]
    /\ child = Free
    /\ leader = "ALIVE"
    /\ kids = {}

-----------------------------------------------------------------------------
(***************************************************************************)
(* The process group                                                       *)
(***************************************************************************)

\* The leader or a descendant forks within the group, or leaves it by exiting.
LeaderExits ==
    /\ \/ leader = "ALIVE" /\ leader' = "DYING"
       \/ leader = "DYING" /\ leader' = "ZOMBIE"
    /\ UNCHANGED <<coordination, pc, attempt, child, kids>>

Fork ==
    /\ leader = "ALIVE" \/ kids # {}
    /\ \E k \in Kids \ kids : kids' = kids \cup {k}
    /\ UNCHANGED <<coordination, pc, attempt, child, leader>>

KidExits ==
    /\ \E k \in kids : kids' = kids \ {k}
    /\ UNCHANGED <<coordination, pc, attempt, child, leader>>

\* observe_process: the leader can be seen.
LeaderSeen == leader = "ALIVE" \/ (ZombieVisible /\ leader \in {"DYING", "ZOMBIE"})

\* observe_process_group: nobody can be seen in the group.
GroupSeenEmpty == ~LeaderSeen /\ kids = {}

\* validate_live_group_after_term: every member runs under the uid of the leader.
GroupUnambiguous == kids \cap SetuidKids = {}

\* try_wait: an exited leader is reaped by whoever asks first, and stays waited for.
TryWait == leader' = IF leader = "ZOMBIE" THEN "REAPED" ELSE leader
Waitable == leader \in {"ZOMBIE", "REAPED"}

\* Mutant of MonitorReap: the monitor does not take the child mutex.
MonitorReapUnlocked ==
    /\ leader = "ZOMBIE"
    /\ leader' = "REAPED"
    /\ UNCHANGED <<coordination, pc, attempt, child, kids>>

\* monitor_child polls try_wait under the child mutex.
MonitorReap ==
    /\ child = Free
    /\ leader = "ZOMBIE"
    /\ leader' = "REAPED"
    /\ UNCHANGED <<coordination, pc, attempt, child, kids>>

-----------------------------------------------------------------------------
(***************************************************************************)
(* begin_stop and finish_stop                                              *)
(***************************************************************************)

Go(c, place) == pc' = [pc EXCEPT ![c] = place]

Returns(c, kind, generation) ==
    /\ Go(c, "IDLE")
    /\ ret' = [ret EXCEPT ![c] = [kind |-> kind, gen |-> generation]]

NotifyAll == asleep' = {}

Call(c) ==
    /\ pc[c] = "IDLE"
    /\ calls[c] < MaxCalls
    /\ calls' = [calls EXCEPT ![c] = @ + 1]
    /\ ret' = [ret EXCEPT ![c] = NoReturn]
    /\ Go(c, "BEGIN")
    /\ UNCHANGED <<stop, asleep, gen, attempt, child, processes>>

\* Stopped: the outcome is known.
BeginStopped(c) ==
    /\ stop.kind = "STOPPED"
    /\ Returns(c, "OK", stop.generation)
    /\ UNCHANGED <<stop, asleep, gen>>

\* Mutant of BeginPerform: a new attempt does not wait for the waiters of the last.
BeginPerformEarly(c) ==
    /\ stop.kind \in {"RUNNING", "FAILED"}
    /\ stop' = [kind |-> "STOPPING", generation |-> stop.generation + 1, waiters |-> 0]
    /\ gen' = [gen EXCEPT ![c] = stop.generation + 1]
    /\ Go(c, "LOCK")
    /\ UNCHANGED <<asleep, ret>>

\* Mutant of BeginPerform: whoever finds an attempt under way starts its own.
BeginPerformOver(c) ==
    /\ stop.kind \in {"RUNNING", "STOPPING"} \/ (stop.kind = "FAILED" /\ stop.waiters = 0)
    /\ stop' = [kind |-> "STOPPING", generation |-> stop.generation + 1, waiters |-> 0]
    /\ gen' = [gen EXCEPT ![c] = stop.generation + 1]
    /\ Go(c, "LOCK")
    /\ UNCHANGED <<asleep, ret>>

\* Running, or Failed with nobody left to read the failure: this thread performs.
BeginPerform(c) ==
    /\ stop.kind = "RUNNING" \/ (stop.kind = "FAILED" /\ stop.waiters = 0)
    /\ stop' = [kind |-> "STOPPING", generation |-> stop.generation + 1, waiters |-> 0]
    /\ gen' = [gen EXCEPT ![c] = stop.generation + 1]
    /\ Go(c, "LOCK")
    /\ UNCHANGED <<asleep, ret>>

\* Failed with waiters still to read it: wait, and look again.
BeginBlocked(c) ==
    /\ stop.kind = "FAILED" /\ stop.waiters > 0
    /\ asleep' = asleep \cup {c}
    /\ UNCHANGED <<stop, pc, gen, ret>>

\* Stopping: register as a waiter of this attempt.
BeginRegister(c) ==
    /\ stop.kind = "STOPPING"
    /\ stop' = [stop EXCEPT !.waiters = @ + 1]
    /\ gen' = [gen EXCEPT ![c] = stop.generation]
    /\ asleep' = asleep \cup {c}
    /\ Go(c, "WAIT")
    /\ UNCHANGED ret

\* One pass of the outer loop of begin_stop.
Begin(c) ==
    /\ pc[c] = "BEGIN" /\ c \notin asleep
    /\ BeginStopped(c) \/ BeginPerform(c) \/ BeginBlocked(c) \/ BeginRegister(c)
    /\ UNCHANGED <<attempt, calls, child, processes>>

\* Mutant of WakeFailed: the last waiter does not wake those that wait to retry.
WakeFailedSilently(c) ==
    /\ stop.kind = "FAILED" /\ stop.generation = gen[c]
    /\ stop' = [stop EXCEPT !.waiters = @ - 1]
    /\ Returns(c, "ERROR", stop.generation)
    /\ UNCHANGED <<asleep, gen>>

\* The attempt failed: take its error, and let others retry once all have it.
WakeFailed(c) ==
    /\ stop.kind = "FAILED" /\ stop.generation = gen[c]
    /\ stop' = [stop EXCEPT !.waiters = @ - 1]
    /\ IF stop.waiters = 1 THEN NotifyAll ELSE UNCHANGED asleep
    /\ Returns(c, "ERROR", stop.generation)
    /\ UNCHANGED gen

\* Still stopping: wait on.  The last arm, back to the outer loop when another
\* attempt is under way, is dead code while WaitersBelong holds.
WakeAgain(c) ==
    /\ stop.kind # "STOPPED"
    /\ ~(stop.kind = "FAILED" /\ stop.generation = gen[c])
    /\ IF stop.kind = "STOPPING" /\ stop.generation = gen[c]
         THEN asleep' = asleep \cup {c} /\ UNCHANGED pc
         ELSE Go(c, "BEGIN") /\ UNCHANGED asleep
    /\ UNCHANGED <<stop, gen, ret>>

\* One pass of the inner loop of begin_stop.
Wake(c) ==
    /\ pc[c] = "WAIT" /\ c \notin asleep
    /\ BeginStopped(c) \/ WakeFailed(c) \/ WakeAgain(c)
    /\ UNCHANGED <<attempt, calls, child, processes>>

\* A condition variable may wake a thread for no reason.
Spurious(c) ==
    /\ c \in asleep
    /\ asleep' = asleep \ {c}
    /\ UNCHANGED <<stop, pc, gen, attempt, ret, calls, child, processes>>

\* Mutant of FinishStop: the waiters are forgotten when the attempt fails.
FinishStopForgets(c) ==
    /\ pc[c] = "FINISH"
    /\ stop' = [kind |-> IF attempt[c] = "OK" THEN "STOPPED" ELSE "FAILED",
                generation |-> gen[c], waiters |-> 0]
    /\ NotifyAll
    /\ Returns(c, attempt[c], gen[c])
    /\ UNCHANGED <<gen, attempt, calls, child, processes>>

\* finish_stop: the outcome replaces Stopping, and everybody is woken.
FinishStop(c) ==
    /\ pc[c] = "FINISH"
    /\ stop' = [kind |-> IF attempt[c] = "OK" THEN "STOPPED" ELSE "FAILED",
                generation |-> gen[c],
                waiters |-> IF stop.kind = "STOPPING" /\ stop.generation = gen[c]
                              THEN stop.waiters ELSE 0]
    /\ NotifyAll
    /\ Returns(c, attempt[c], gen[c])
    /\ UNCHANGED <<gen, attempt, calls, child, processes>>

-----------------------------------------------------------------------------
(***************************************************************************)
(* perform_stop                                                            *)
(***************************************************************************)

\* Leaves perform_stop, which releases the child mutex.
Came(c, result) ==
    /\ attempt' = [attempt EXCEPT ![c] = result]
    /\ child' = Free
    /\ Go(c, "FINISH")

Moves(c, place) == Go(c, place) /\ UNCHANGED <<attempt, child>>

LockChild(c) ==
    /\ pc[c] = "LOCK" /\ child = Free
    /\ child' = c
    /\ Go(c, "CHECK")
    /\ UNCHANGED <<coordination, attempt, processes>>

\* The first try_wait; validate_spawn_identity repeats what spawn has checked.
Check(c) ==
    /\ pc[c] = "CHECK"
    /\ TryWait
    /\ Moves(c, IF Waitable THEN "ENSURE" ELSE "OBSERVE")
    /\ UNCHANGED <<coordination, kids>>

\* Mutant of EnsureGroupEmpty: an exited leader is taken for an exited group.
EnsureNothing(c) ==
    /\ pc[c] = "ENSURE"
    /\ Came(c, "OK")
    /\ UNCHANGED <<coordination, processes>>

\* ensure_group_empty: descendants of an exited leader are an error.
EnsureGroupEmpty(c) ==
    /\ pc[c] = "ENSURE"
    /\ Came(c, IF GroupSeenEmpty THEN "OK" ELSE "ERROR")
    /\ UNCHANGED <<coordination, processes>>

\* observe_process and validate_same_identity; a leader that cannot be seen is
\* waited for.
ObserveLeader(c) ==
    /\ pc[c] = "OBSERVE"
    /\ IF LeaderSeen
         THEN Moves(c, "GROUP") /\ UNCHANGED leader
         ELSE TryWait /\ Moves(c, IF Waitable THEN "ENSURE" ELSE "GONEWAIT")
    /\ UNCHANGED <<coordination, kids>>

\* validate_owned_group: the group holds the leader, and nobody of another uid.
ValidateOwnedGroup(c) ==
    /\ pc[c] = "GROUP"
    /\ IF LeaderSeen /\ GroupUnambiguous THEN Moves(c, "TERM") ELSE Came(c, "ERROR")
    /\ UNCHANGED <<coordination, processes>>

\* signal_group: no step of its own is forced on the processes, a group may ignore
\* SIGTERM and an uninterruptible member survives SIGKILL for a time.
SignalGroup(c) ==
    /\ \/ pc[c] = "TERM" /\ Moves(c, "TERMWAIT")
       \/ pc[c] = "KILL" /\ Moves(c, "KILLWAIT")
    /\ UNCHANGED <<coordination, processes>>

\* wait_for_group_death finds the group empty and the leader's exit known.
GroupDead(c) ==
    /\ pc[c] \in {"GONEWAIT", "TERMWAIT", "KILLWAIT"}
    /\ Waitable /\ kids = {}
    /\ TryWait
    /\ Came(c, "OK")
    /\ UNCHANGED <<coordination, kids>>

\* It polls: a leader that can be waited for is reaped although others remain.
PollLeader(c) ==
    /\ pc[c] \in {"GONEWAIT", "TERMWAIT", "KILLWAIT"}
    /\ leader = "ZOMBIE" /\ kids # {}
    /\ TryWait
    /\ UNCHANGED <<coordination, pc, attempt, child, kids>>

\* Its deadline passes: SIGKILL follows SIGTERM, the other two give up.
GroupTimeout(c) ==
    /\ pc[c] \in {"GONEWAIT", "TERMWAIT", "KILLWAIT"}
    /\ ~(Waitable /\ kids = {})
    /\ TryWait
    /\ IF pc[c] = "TERMWAIT" THEN Moves(c, "KILLCHECK") ELSE Came(c, "ERROR")
    /\ UNCHANGED <<coordination, kids>>

\* validate_live_group_after_term, which an empty group passes.
ValidateLiveGroup(c) ==
    /\ pc[c] = "KILLCHECK"
    /\ IF GroupUnambiguous THEN Moves(c, "KILL") ELSE Came(c, "ERROR")
    /\ UNCHANGED <<coordination, processes>>

\* The group cannot be observed.
ObservationFails(c) ==
    /\ pc[c] \in Observing
    /\ Came(c, "ERROR")
    /\ UNCHANGED <<coordination, processes>>

PerformStep(c) ==
    \/ LockChild(c)
    \/ Check(c)
    \/ EnsureGroupEmpty(c)
    \/ ObserveLeader(c)
    \/ ValidateOwnedGroup(c)
    \/ SignalGroup(c)
    \/ GroupDead(c)
    \/ GroupTimeout(c)
    \/ ValidateLiveGroup(c)

StopStep(c) == Begin(c) \/ Wake(c) \/ FinishStop(c) \/ PerformStep(c)

Next ==
    \/ \E c \in Callers :
          Call(c) \/ StopStep(c) \/ PollLeader(c) \/ ObservationFails(c) \/ Spurious(c)
    \/ LeaderExits \/ Fork \/ KidExits \/ MonitorReap

Spec == Init /\ [][Next]_vars

\* The threads are scheduled, and every wait for the group has a deadline.  The
\* processes owe nothing: they may ignore every signal.
FairSpec == Spec /\ \A c \in Callers : WF_vars(StopStep(c))

-----------------------------------------------------------------------------
(***************************************************************************)
(* Properties                                                              *)
(***************************************************************************)

TypeOK ==
    /\ stop \in [kind : Kind, generation : Nat, waiters : Nat]
    /\ asleep \subseteq Callers
    /\ pc \in [Callers -> PC]
    /\ gen \in [Callers -> Nat]
    /\ attempt \in [Callers -> {"NONE", "OK", "ERROR"}]
    /\ ret \in [Callers -> Return]
    /\ calls \in [Callers -> Nat]
    /\ child \in Callers \cup {Free}
    /\ leader \in {"ALIVE", "DYING", "ZOMBIE", "REAPED"}
    /\ kids \subseteq Kids

\* Stopped is only ever recorded of a group that is gone, its leader reaped: the
\* owner reports a proved reap on the strength of it.
StoppedMeansReaped == stop.kind = "STOPPED" => leader = "REAPED" /\ kids = {}

\* One thread at a time performs, and it performs the attempt that is recorded.
OneStopAttempt ==
    \A c \in Callers :
        pc[c] \in Performing
          => /\ stop.kind = "STOPPING" /\ stop.generation = gen[c]
             /\ \A d \in Callers \ {c} : pc[d] \notin Performing

\* No attempt begins while a thread has still to read the failure of the one it
\* registered for: a registered waiter always belongs to the recorded generation.
WaitersBelong ==
    \A c \in Callers : pc[c] = "WAIT" => stop.generation = gen[c]

\* The registered waiters are those that wait, so none is lost and none blocks.
WaitersCounted ==
    stop.kind \in {"STOPPING", "FAILED"}
      => stop.waiters = Cardinality({c \in Callers : pc[c] = "WAIT"})

\* Threads that stop one driver are coordinated: one performs, the others wait for its
\* attempt and are woken by it, and nobody waits for what is over.
StopsCoordinated == OneStopAttempt /\ WaitersBelong /\ WaitersCounted

\* A group is first signalled while its leader is not reaped: its id is not free for
\* another process, whatever the child monitor does.
TermOnlyUnreaped == \A c \in Callers : pc[c] = "TERM" => leader # "REAPED"

\* Every call of stop_and_reap returns, whatever the processes do.
StopReturns == \A c \in Callers : pc[c] # "IDLE" ~> pc[c] = "IDLE"
=============================================================================
