-------------------------- MODULE DriverStopProofs -------------------------
(***************************************************************************)
(* Theorems about stopping a driver, for any number of threads that stop   *)
(* it and any number of processes in the group.                            *)
(***************************************************************************)
EXTENDS DriverStop, FiniteSetTheorems, TLAPS

Waiting == {c \in Callers : pc[c] = "WAIT"}

\* WaitersCounted, of a driver that was never stopped as well.
AllCounted == stop.kind # "STOPPED" => stop.waiters = Cardinality(Waiting)

\* perform_stop runs under the child mutex, from its lock to its return.
ChildHeld == \A c \in Callers : pc[c] \in Performing \ {"LOCK", "FINISH"} => child = c

\* Until its group is signalled, the leader is known not to be reaped.
LeaderKept == \A c \in Callers : pc[c] \in {"OBSERVE", "GROUP", "TERM"} => leader # "REAPED"

\* The group is checked to be empty behind a leader that is reaped.
EnsuredBehind == \A c \in Callers : pc[c] = "ENSURE" => leader = "REAPED"

\* An attempt that came to its end has seen the group die.
OutcomeProved ==
    \A c \in Callers :
        pc[c] = "FINISH" /\ attempt[c] = "OK" => leader = "REAPED" /\ kids = {}

\* Nobody waits for a driver that was never stopped.
RunningUnwaited == stop.kind = "RUNNING" => stop.waiters = 0

\* The coordination of the threads, and what they know of the processes.
Coordinated == TypeOK /\ OneStopAttempt /\ WaitersBelong /\ AllCounted /\ RunningUnwaited
Proved == ChildHeld /\ LeaderKept /\ EnsuredBehind /\ OutcomeProved /\ StoppedMeansReaped

Inv == Coordinated /\ Proved

-----------------------------------------------------------------------------
(***************************************************************************)
(* Steps in perform_stop                                                   *)
(***************************************************************************)

InPerform(c) == PerformStep(c) \/ PollLeader(c) \/ ObservationFails(c)

\* A step of perform_stop stays in perform_stop, and touches no coordination.
LEMMA PerformShape ==
    ASSUME TypeOK, NEW c \in Callers, InPerform(c)
    PROVE  /\ pc[c] \in Performing
           /\ \E p \in Performing : pc' = [pc EXCEPT ![c] = p]
           /\ UNCHANGED coordination
           /\ TypeOK'
<1> USE DEF TypeOK, PC, Performing, Observing, Moves, Came, Go, TryWait, coordination,
            processes
<1>1. CASE LockChild(c)
  BY <1>1 DEF LockChild
<1>2. CASE Check(c)
  BY <1>2 DEF Check
<1>3. CASE EnsureGroupEmpty(c)
  BY <1>3 DEF EnsureGroupEmpty
<1>4. CASE ObserveLeader(c)
  BY <1>4 DEF ObserveLeader
<1>5. CASE ValidateOwnedGroup(c)
  BY <1>5 DEF ValidateOwnedGroup
<1>6. CASE SignalGroup(c)
  BY <1>6 DEF SignalGroup
<1>7. CASE GroupDead(c)
  BY <1>7 DEF GroupDead
<1>8. CASE GroupTimeout(c)
  BY <1>8 DEF GroupTimeout
<1>9. CASE ValidateLiveGroup(c)
  BY <1>9 DEF ValidateLiveGroup
<1>10. CASE PollLeader(c)
  <2>1. pc' = [pc EXCEPT ![c] = pc[c]]
    BY <1>10 DEF PollLeader
  <2> QED
    BY <1>10, <2>1 DEF PollLeader
<1>11. CASE ObservationFails(c)
  BY <1>11 DEF ObservationFails
<1> QED
  BY <1>1, <1>2, <1>3, <1>4, <1>5, <1>6, <1>7, <1>8, <1>9, <1>10, <1>11
     DEF InPerform, PerformStep

\* Every step is one of these.
LEMMA NextCases ==
    ASSUME Next
    PROVE  \/ \E c \in Callers : \/ Call(c) \/ Begin(c) \/ Wake(c) \/ FinishStop(c)
                                 \/ InPerform(c) \/ Spurious(c)
           \/ LeaderExits \/ Fork \/ KidExits \/ MonitorReap
BY DEF Next, StopStep, InPerform

-----------------------------------------------------------------------------
(***************************************************************************)
(* Counting the waiters                                                    *)
(***************************************************************************)

LEMMA WaitingFinite == IsFiniteSet(Waiting) /\ Cardinality(Waiting) \in Nat
BY CallersAssumption, FS_Subset, FS_CardinalityType DEF Waiting

\* A thread that neither comes from WAIT nor goes there leaves the waiters alone.
LEMMA WaitingSame ==
    ASSUME TypeOK, NEW c \in Callers, NEW p \in PC \ {"WAIT"}, pc[c] # "WAIT",
           pc' = [pc EXCEPT ![c] = p]
    PROVE  Waiting' = Waiting
BY DEF TypeOK, Waiting

\* A thread that goes to WAIT is one waiter more.
LEMMA WaitingMore ==
    ASSUME TypeOK, NEW c \in Callers, pc[c] # "WAIT", pc' = [pc EXCEPT ![c] = "WAIT"]
    PROVE  Cardinality(Waiting') = Cardinality(Waiting) + 1
<1>1. Waiting' = Waiting \cup {c} /\ c \notin Waiting
  BY DEF TypeOK, Waiting
<1> QED
  BY <1>1, WaitingFinite, FS_AddElement

\* A thread that leaves WAIT is one waiter less, and there was one.
LEMMA WaitingLess ==
    ASSUME TypeOK, NEW c \in Callers, NEW p \in PC \ {"WAIT"}, pc[c] = "WAIT",
           pc' = [pc EXCEPT ![c] = p]
    PROVE  Cardinality(Waiting') = Cardinality(Waiting) - 1 /\ Cardinality(Waiting) > 0
<1>1. Waiting' = Waiting \ {c} /\ c \in Waiting
  BY DEF TypeOK, Waiting
<1>2. Cardinality(Waiting) # 0
  BY <1>1, WaitingFinite, FS_EmptySet
<1>3. Cardinality(Waiting \ {c}) = Cardinality(Waiting) - 1
  BY <1>1, WaitingFinite, FS_RemoveElement
<1>4. Cardinality(Waiting) \in Nat
  BY WaitingFinite
<1> QED
  BY <1>1, <1>2, <1>3, <1>4

-----------------------------------------------------------------------------
(***************************************************************************)
(* Each action keeps the invariant                                         *)
(***************************************************************************)

\* A step that only moves one thread within perform_stop, or none, is not seen by
\* those that wait.
LEMMA CoordinatedPerform ==
    ASSUME Inv, NEW c \in Callers, InPerform(c)
    PROVE  Coordinated'
<1>1. PICK p \in Performing : pc' = [pc EXCEPT ![c] = p]
  BY PerformShape DEF Inv, Coordinated
<1>2. pc[c] \in Performing /\ UNCHANGED coordination /\ TypeOK'
  BY PerformShape DEF Inv, Coordinated
<1>3. Waiting' = Waiting
  BY <1>1, <1>2, WaitingSame DEF Inv, Coordinated, Performing, Observing, PC
<1>4. OneStopAttempt'
  BY <1>1, <1>2 DEF Inv, Coordinated, TypeOK, OneStopAttempt, coordination
<1>5. WaitersBelong'
  BY <1>1, <1>2
     DEF Inv, Coordinated, TypeOK, WaitersBelong, coordination, Performing, Observing
<1>6. AllCounted' /\ RunningUnwaited'
  BY <1>2, <1>3 DEF Inv, Coordinated, AllCounted, RunningUnwaited, coordination
<1> QED
  BY <1>2, <1>4, <1>5, <1>6 DEF Coordinated

\* What a thread in perform_stop learns of the processes is true, and stays so.
LEMMA ProvedPerform ==
    ASSUME Inv, NEW c \in Callers, InPerform(c)
    PROVE  Proved'
<1>1. /\ pc[c] \in Performing
      /\ \A d \in Callers \ {c} : pc[d] \notin Performing
      /\ stop.kind = "STOPPING" /\ stop' = stop
  BY PerformShape DEF Inv, Coordinated, OneStopAttempt, coordination
<1>2. \A d \in Callers \ {c} : pc'[d] \notin Performing
  <2>1. PICK p \in Performing : pc' = [pc EXCEPT ![c] = p]
    BY PerformShape DEF Inv, Coordinated
  <2> QED
    BY <1>1, <2>1 DEF Inv, Coordinated, TypeOK
<1>3. StoppedMeansReaped'
  BY <1>1 DEF StoppedMeansReaped
<1> SUFFICES /\ pc'[c] \in Performing \ {"LOCK", "FINISH"} => child' = c
             /\ pc'[c] \in {"OBSERVE", "GROUP", "TERM"} => leader' # "REAPED"
             /\ pc'[c] = "ENSURE" => leader' = "REAPED"
             /\ pc'[c] = "FINISH" /\ attempt'[c] = "OK" => leader' = "REAPED" /\ kids' = {}
  BY <1>2, <1>3
     DEF Proved, ChildHeld, LeaderKept, EnsuredBehind, OutcomeProved, Performing, Observing
<1> USE DEF Inv, Coordinated, TypeOK, PC, Performing, Observing, Proved, ChildHeld,
            LeaderKept, EnsuredBehind, Moves, Came, Go, TryWait, Waitable, LeaderSeen,
            GroupSeenEmpty, coordination, processes
<1>11. CASE LockChild(c)
  BY <1>11 DEF LockChild
<1>12. CASE Check(c)
  BY <1>12 DEF Check
<1>13. CASE EnsureGroupEmpty(c)
  BY <1>13 DEF EnsureGroupEmpty
<1>14. CASE ObserveLeader(c)
  BY <1>14 DEF ObserveLeader
<1>15. CASE ValidateOwnedGroup(c)
  BY <1>15 DEF ValidateOwnedGroup
<1>16. CASE SignalGroup(c)
  BY <1>16 DEF SignalGroup
<1>17. CASE GroupDead(c)
  BY <1>17 DEF GroupDead
<1>18. CASE GroupTimeout(c)
  BY <1>18 DEF GroupTimeout
<1>19. CASE ValidateLiveGroup(c)
  BY <1>19 DEF ValidateLiveGroup
<1>20. CASE PollLeader(c)
  BY <1>20 DEF PollLeader
<1>21. CASE ObservationFails(c)
  BY <1>21 DEF ObservationFails
<1> QED
  BY <1>11, <1>12, <1>13, <1>14, <1>15, <1>16, <1>17, <1>18, <1>19, <1>20, <1>21
     DEF InPerform, PerformStep

\* A step of begin_stop or finish_stop leaves the processes and the child mutex alone:
\* what is known of them stays true of every thread that does not move, and the one
\* that moves is outside perform_stop, or about to lock.
LEMMA ProvedOutside ==
    ASSUME Inv, NEW c \in Callers, NEW p \in {"IDLE", "BEGIN", "WAIT", "LOCK"},
           pc' = [pc EXCEPT ![c] = p], UNCHANGED <<attempt, child, leader, kids>>,
           StoppedMeansReaped'
    PROVE  Proved'
BY DEF Inv, Coordinated, TypeOK, Proved, ChildHeld, LeaderKept, EnsuredBehind, OutcomeProved,
       Performing, Observing

\* A call begins.
LEMMA CallStep ==
    ASSUME Inv, NEW c \in Callers, Call(c)
    PROVE  Inv'
<1>1. pc[c] = "IDLE" /\ pc' = [pc EXCEPT ![c] = "BEGIN"]
      /\ UNCHANGED <<stop, asleep, gen, attempt, child, leader, kids>>
  BY DEF Call, Go, processes
<1>2. TypeOK'
  BY <1>1 DEF Inv, Coordinated, TypeOK, Call, PC, NoReturn, Return
<1>3. Waiting' = Waiting
  BY <1>1, WaitingSame DEF Inv, Coordinated, PC
<1>4. Coordinated'
  BY <1>1, <1>2, <1>3
     DEF Inv, Coordinated, TypeOK, OneStopAttempt, WaitersBelong, AllCounted, RunningUnwaited,
         Performing, Observing
<1>5. Proved'
  BY <1>1, ProvedOutside DEF Inv, Proved, StoppedMeansReaped
<1> QED
  BY <1>4, <1>5 DEF Inv

\* One pass of begin_stop before the thread is registered as a waiter.
LEMMA BeginStep ==
    ASSUME Inv, NEW c \in Callers, Begin(c)
    PROVE  Inv'
<1> USE DEF Inv, Coordinated
<1>1. pc[c] = "BEGIN" /\ UNCHANGED <<attempt, calls, child, leader, kids>>
  BY DEF Begin, processes
<1>2. CASE BeginStopped(c)
  <2>1. pc' = [pc EXCEPT ![c] = "IDLE"] /\ UNCHANGED <<stop, gen>>
    BY <1>2 DEF BeginStopped, Returns, Go
  <2>2. TypeOK'
    BY <1>1, <1>2, <2>1 DEF TypeOK, BeginStopped, Returns, PC, Return
  <2>3. Coordinated'
    BY <1>1, <1>2, <2>1, <2>2
       DEF TypeOK, OneStopAttempt, WaitersBelong, AllCounted, RunningUnwaited, BeginStopped,
           Performing, Observing
  <2> QED
    BY <1>1, <2>1, <2>3, ProvedOutside DEF Proved, StoppedMeansReaped
<1>3. CASE BeginPerform(c)
  <2>1. /\ pc' = [pc EXCEPT ![c] = "LOCK"]
        /\ stop' = [kind |-> "STOPPING", generation |-> stop.generation + 1, waiters |-> 0]
        /\ gen' = [gen EXCEPT ![c] = stop.generation + 1]
        /\ UNCHANGED <<asleep, ret>>
    BY <1>3 DEF BeginPerform, Go
  <2>2. TypeOK'
    BY <1>1, <2>1 DEF TypeOK, Kind, PC, Performing, Observing
  <2>3. stop.kind \in {"RUNNING", "FAILED"}
    BY <1>3 DEF BeginPerform
  <2>4. \A d \in Callers : pc[d] \notin Performing
    BY <2>3 DEF OneStopAttempt
  <2>5. OneStopAttempt'
    BY <2>1, <2>4 DEF TypeOK, OneStopAttempt
  <2>6. Waiting = {}
    <3>1. stop.waiters = 0
      BY <1>3 DEF RunningUnwaited, BeginPerform
    <3>2. Cardinality(Waiting) = 0
      BY <2>3, <3>1 DEF AllCounted
    <3> QED
      BY <3>2, WaitingFinite, FS_EmptySet
  <2>7. Waiting' = {}
    BY <1>1, <2>1, <2>6, WaitingSame DEF PC, Performing
  <2>8. WaitersBelong'
    BY <2>7 DEF Waiting, WaitersBelong
  <2>9. AllCounted' /\ RunningUnwaited'
    BY <2>1, <2>7, FS_EmptySet DEF AllCounted, RunningUnwaited
  <2>10. StoppedMeansReaped'
    BY <2>1 DEF StoppedMeansReaped
  <2> QED
    BY <1>1, <2>1, <2>2, <2>5, <2>8, <2>9, <2>10, ProvedOutside
<1>4. CASE BeginBlocked(c)
  <2>1. TypeOK' /\ UNCHANGED <<stop, pc, gen>> /\ Waiting' = Waiting
    BY <1>1, <1>4 DEF TypeOK, BeginBlocked, Waiting
  <2> QED
    BY <1>1, <2>1
       DEF OneStopAttempt, WaitersBelong, AllCounted, RunningUnwaited, Proved, ChildHeld,
           LeaderKept, EnsuredBehind, OutcomeProved, StoppedMeansReaped
<1>5. CASE BeginRegister(c)
  <2>1. /\ stop.kind = "STOPPING"
        /\ stop' = [stop EXCEPT !.waiters = @ + 1]
        /\ pc' = [pc EXCEPT ![c] = "WAIT"]
        /\ gen' = [gen EXCEPT ![c] = stop.generation]
    BY <1>5 DEF BeginRegister, Go
  <2>2. TypeOK'
    BY <1>1, <1>5, <2>1 DEF BeginRegister, TypeOK, PC
  <2>3. stop'.kind = stop.kind /\ stop'.generation = stop.generation
        /\ stop'.waiters = stop.waiters + 1
    BY <2>1 DEF TypeOK
  <2>4. AllCounted' /\ RunningUnwaited'
    BY <1>1, <2>1, <2>3, WaitingMore DEF AllCounted, RunningUnwaited
  <2>5. OneStopAttempt' /\ WaitersBelong'
    BY <1>1, <2>1, <2>3 DEF TypeOK, OneStopAttempt, WaitersBelong, Performing, Observing
  <2>6. StoppedMeansReaped'
    BY <2>1, <2>3 DEF StoppedMeansReaped
  <2> QED
    BY <1>1, <2>1, <2>2, <2>4, <2>5, <2>6, ProvedOutside
<1> QED
  BY <1>2, <1>3, <1>4, <1>5 DEF Begin

\* One pass of begin_stop of a registered waiter; the arm that would start over is
\* never taken.
LEMMA WakeStep ==
    ASSUME Inv, NEW c \in Callers, Wake(c)
    PROVE  Inv'
<1> USE DEF Inv, Coordinated
<1>1. pc[c] = "WAIT" /\ UNCHANGED <<attempt, calls, child, leader, kids>>
  BY DEF Wake, processes
<1>2. stop.generation = gen[c]
  BY <1>1 DEF WaitersBelong
<1>3. CASE BeginStopped(c)
  <2>1. pc' = [pc EXCEPT ![c] = "IDLE"] /\ UNCHANGED <<stop, gen>>
    BY <1>3 DEF BeginStopped, Returns, Go
  <2>2. TypeOK'
    BY <1>1, <1>3, <2>1 DEF TypeOK, BeginStopped, Returns, PC, Return
  <2>3. Coordinated'
    BY <1>1, <1>3, <2>1, <2>2
       DEF TypeOK, OneStopAttempt, WaitersBelong, AllCounted, RunningUnwaited, BeginStopped,
           Performing, Observing
  <2> QED
    BY <1>1, <2>1, <2>3, ProvedOutside DEF Proved, StoppedMeansReaped
<1>4. CASE WakeFailed(c)
  <2>1. /\ stop.kind = "FAILED"
        /\ stop' = [stop EXCEPT !.waiters = @ - 1]
        /\ pc' = [pc EXCEPT ![c] = "IDLE"]
        /\ UNCHANGED gen
    BY <1>4 DEF WakeFailed, Returns, Go
  <2>2. stop.waiters = Cardinality(Waiting)
    BY <2>1 DEF AllCounted
  <2>3. Cardinality(Waiting') = Cardinality(Waiting) - 1 /\ Cardinality(Waiting) > 0
    BY <1>1, <2>1, WaitingLess DEF PC
  <2>4. stop'.kind = stop.kind /\ stop'.generation = stop.generation
        /\ stop'.waiters = stop.waiters - 1
    BY <2>1 DEF TypeOK
  <2>5. stop.waiters - 1 \in Nat
    BY <2>2, <2>3, WaitingFinite
  <2>6. TypeOK'
    <3>1. stop' \in [kind : Kind, generation : Nat, waiters : Nat]
      BY <2>1, <2>5 DEF TypeOK
    <3>2. asleep' \subseteq Callers
      BY <1>4 DEF TypeOK, WakeFailed, NotifyAll
    <3>3. ret' \in [Callers -> Return]
      BY <1>4 DEF TypeOK, WakeFailed, Returns, Return
    <3> QED
      BY <1>1, <2>1, <3>1, <3>2, <3>3 DEF TypeOK, PC
  <2>7. AllCounted' /\ RunningUnwaited'
    BY <2>1, <2>2, <2>3, <2>4 DEF AllCounted, RunningUnwaited
  <2>8. OneStopAttempt' /\ WaitersBelong'
    BY <1>1, <2>1, <2>4 DEF TypeOK, OneStopAttempt, WaitersBelong, Performing, Observing
  <2>9. StoppedMeansReaped'
    BY <2>1, <2>4 DEF StoppedMeansReaped
  <2> QED
    BY <1>1, <2>1, <2>6, <2>7, <2>8, <2>9, ProvedOutside
<1>5. CASE WakeAgain(c)
  <2>1. stop.kind = "STOPPING"
    <3>1. stop.kind # "RUNNING"
      <4>1. SUFFICES ASSUME stop.kind = "RUNNING" PROVE FALSE
        OBVIOUS
      <4>2. Cardinality(Waiting) = 0
        BY <4>1 DEF RunningUnwaited, AllCounted
      <4>3. Waiting = {}
        BY <4>2, WaitingFinite, FS_EmptySet
      <4> QED
        BY <1>1, <4>3 DEF Waiting
    <3> QED
      BY <1>2, <1>5, <3>1 DEF WakeAgain, TypeOK, Kind
  <2>2. UNCHANGED <<stop, pc, gen, ret>> /\ asleep' = asleep \cup {c}
    BY <1>2, <1>5, <2>1 DEF WakeAgain
  <2>3. TypeOK' /\ Waiting' = Waiting
    BY <1>1, <2>2 DEF TypeOK, Waiting
  <2> QED
    BY <1>1, <2>2, <2>3
       DEF OneStopAttempt, WaitersBelong, AllCounted, RunningUnwaited, Proved, ChildHeld,
           LeaderKept, EnsuredBehind, OutcomeProved, StoppedMeansReaped
<1> QED
  BY <1>3, <1>4, <1>5 DEF Wake

\* The performing thread records its outcome.
LEMMA FinishStep ==
    ASSUME Inv, NEW c \in Callers, FinishStop(c)
    PROVE  Inv'
<1> USE DEF Inv, Coordinated
<1>1. /\ pc[c] = "FINISH"
      /\ pc' = [pc EXCEPT ![c] = "IDLE"]
      /\ UNCHANGED <<gen, attempt, calls, child, leader, kids>>
  BY DEF FinishStop, Returns, Go, processes
<1>2. /\ stop.kind = "STOPPING" /\ stop.generation = gen[c]
      /\ \A d \in Callers \ {c} : pc[d] \notin Performing
  BY <1>1 DEF OneStopAttempt, Performing
<1>3. stop' = [kind |-> IF attempt[c] = "OK" THEN "STOPPED" ELSE "FAILED",
               generation |-> gen[c], waiters |-> stop.waiters]
  BY <1>2 DEF FinishStop
<1>4. TypeOK'
  BY <1>1, <1>3 DEF FinishStop, TypeOK, NotifyAll, Returns, Return, Kind, PC
<1>5. Waiting' = Waiting
  BY <1>1, WaitingSame DEF PC
<1>6. AllCounted' /\ RunningUnwaited'
  BY <1>2, <1>3, <1>5 DEF AllCounted, RunningUnwaited
<1>7. OneStopAttempt'
  BY <1>1, <1>2 DEF TypeOK, OneStopAttempt, Performing, Observing
<1>8. WaitersBelong'
  BY <1>1, <1>2, <1>3 DEF TypeOK, WaitersBelong
<1>9. StoppedMeansReaped'
  BY <1>1, <1>3 DEF Proved, OutcomeProved, StoppedMeansReaped
<1> QED
  BY <1>1, <1>4, <1>6, <1>7, <1>8, <1>9, ProvedOutside

\* The processes move, or the monitor reaps the leader: an empty group stays empty, a
\* reaped leader stays reaped, and the monitor does neither to a performing thread.
LEMMA ProcessStep ==
    ASSUME Inv, LeaderExits \/ Fork \/ KidExits \/ MonitorReap
    PROVE  Inv'
<1> USE CallersAssumption
    DEF Inv, Coordinated, TypeOK, coordination, LeaderExits, Fork, KidExits, MonitorReap
<1>1. UNCHANGED <<stop, asleep, gen, ret, calls, pc, attempt, child>>
  OBVIOUS
<1>2. TypeOK' /\ Waiting' = Waiting
  BY <1>1 DEF Waiting
<1>3. Coordinated'
  BY <1>1, <1>2 DEF OneStopAttempt, WaitersBelong, AllCounted, RunningUnwaited
<1>4. leader' = "REAPED" => leader = "REAPED" \/ child = Free
  OBVIOUS
<1>5. leader = "REAPED" => leader' = "REAPED" /\ (kids = {} => kids' = {})
  OBVIOUS
<1>6. ChildHeld' /\ EnsuredBehind' /\ OutcomeProved' /\ StoppedMeansReaped'
  BY <1>1, <1>5 DEF Proved, ChildHeld, EnsuredBehind, OutcomeProved, StoppedMeansReaped
<1>7. LeaderKept'
  BY <1>1, <1>4 DEF Proved, ChildHeld, LeaderKept, Performing, Observing
<1> QED
  BY <1>3, <1>6, <1>7 DEF Proved

\* A thread is woken for no reason, or nothing happens.
LEMMA SleepStep ==
    ASSUME Inv, UNCHANGED vars \/ \E c \in Callers : Spurious(c)
    PROVE  Inv'
<1>1. /\ UNCHANGED <<stop, gen, ret, calls, pc, attempt, child, leader, kids>>
      /\ asleep' \subseteq asleep
  BY DEF vars, Spurious, processes
<1>2. TypeOK' /\ Waiting' = Waiting
  BY <1>1 DEF Inv, Coordinated, TypeOK, Waiting
<1> QED
  BY <1>1, <1>2
     DEF Inv, Coordinated, OneStopAttempt, WaitersBelong, AllCounted, RunningUnwaited, Proved,
         ChildHeld, LeaderKept, EnsuredBehind, OutcomeProved, StoppedMeansReaped

-----------------------------------------------------------------------------
(***************************************************************************)
(* The theorems                                                            *)
(***************************************************************************)

LEMMA InvInit == Init => Inv
<1> SUFFICES ASSUME Init PROVE Inv
  OBVIOUS
<1>1. TypeOK
  BY DEF Init, TypeOK, Running, Kind, PC, NoReturn, Return
<1>2. Waiting = {}
  BY DEF Init, Waiting
<1>3. AllCounted /\ RunningUnwaited
  BY <1>2, FS_EmptySet DEF Init, Running, AllCounted, RunningUnwaited
<1> QED
  BY <1>1, <1>3
     DEF Init, Running, Inv, Coordinated, OneStopAttempt, WaitersBelong, Proved, ChildHeld,
         LeaderKept, EnsuredBehind, OutcomeProved, StoppedMeansReaped, Performing, Observing

LEMMA InvStep == Inv /\ [Next]_vars => Inv'
<1> SUFFICES ASSUME Inv, [Next]_vars PROVE Inv'
  OBVIOUS
<1>1. CASE UNCHANGED vars
  BY <1>1, SleepStep
<1>2. ASSUME NEW c \in Callers, InPerform(c) PROVE Inv'
  BY <1>2, CoordinatedPerform, ProvedPerform DEF Inv
<1> QED
  BY <1>1, <1>2, NextCases, CallStep, BeginStep, WakeStep, FinishStep, SleepStep, ProcessStep

\* The inductive invariant holds of every state.
THEOREM InvAlways == Spec => []Inv
BY InvInit, InvStep, PTL DEF Spec

\* However many threads stop a driver, in whatever order: one attempt is made at a
\* time, a waiter always belongs to the recorded one, the count of waiters is right,
\* and so is every value's type.
THEOREM StopIsCoordinated == Spec => [](TypeOK /\ StopsCoordinated)
<1>1. Inv => TypeOK /\ StopsCoordinated
  BY DEF Inv, Coordinated, StopsCoordinated, AllCounted, WaitersCounted, Waiting
<1> QED
  BY <1>1, InvAlways, PTL

\* A driver that says it has stopped has reaped its process, and its group is empty,
\* however the processes of the group fork and exit.
THEOREM StoppedIsProved == Spec => []StoppedMeansReaped
<1>1. Inv => StoppedMeansReaped
  BY DEF Inv, Proved
<1> QED
  BY <1>1, InvAlways, PTL

\* The first signal goes to a group whose leader is not reaped, so its id cannot have
\* been given to another process.
THEOREM TermIsSafe == Spec => []TermOnlyUnreaped
<1>1. Inv => TermOnlyUnreaped
  BY DEF Inv, Proved, LeaderKept, TermOnlyUnreaped
<1> QED
  BY <1>1, InvAlways, PTL
=============================================================================
