---------------------------- MODULE RuntimeProofs ----------------------------
(***************************************************************************)
(* Theorems about the parts that serve one runtime process: the reaping of *)
(* a stored identity (PersistedReap), the frames on its stdin              *)
(* (StdinWriter), the terminal of its event log (RuntimeOwner) and the     *)
(* requests to it (DriverRequests).  Each is a theorem of that part's own  *)
(* specification, for every value of its constants, about the property     *)
(* that the run driver checks on a small instance.                         *)
(***************************************************************************)
EXTENDS MCDriver, Sequences, FiniteSetTheorems, TLAPS

(***************************************************************************)
(* Sequences                                                               *)
(***************************************************************************)

\* What the places of a sequence over S hold.
LEMMA Elements ==
    ASSUME NEW S, NEW s \in Seq(S)
    PROVE  Len(s) \in Nat /\ \A p \in 1 .. Len(s) : s[p] \in S
OBVIOUS

\* What Append returns: the element is last, and the others stay where they were.
LEMMA Appended ==
    ASSUME NEW S, NEW s \in Seq(S), NEW e \in S
    PROVE  /\ Append(s, e) \in Seq(S)
           /\ Len(Append(s, e)) = Len(s) + 1
           /\ Append(s, e)[Len(s) + 1] = e
           /\ \A p \in 1 .. Len(s) : Append(s, e)[p] = s[p]
OBVIOUS

-----------------------------------------------------------------------------
(***************************************************************************)
(* PersistedReap                                                           *)
(***************************************************************************)

\* Places at which the reaper has found whom it may signal.
Decided == {"OWNED", "LEADERLESS", "TERM", "TERMWAIT", "KILLCHECK", "KILL", "KILLWAIT"}

\* Until the reaper looks nobody is signalled; behind its look it goes on only with a
\* leader that it could compare or without one, and a group that it found its own stays
\* so until the id is reused.
ReapInv ==
    /\ reapPc \in {"DOWN", "OBSERVE"} => reapHit = {} /\ reapFound = "NONE"
    /\ reapPc \in Decided => reapFound \in {"STORED", "NO_LEADER", "REUSED"}
    /\ reapFound = "STORED" => reapOwner = "stored"
    /\ reapFound \in {"STRANGER", "FAILED", "NONE"} => reapHit = {}
    /\ reapHit \subseteq {"stored", "other"} /\ reapOwner \in {"stored", "other"}
    /\ ReapIsSafe

\* Every step of the reaper, of the group and of the system that reuses ids keeps ReapInv.
LEMMA ReapStep == ReapInv /\ [Reap!Next]_Reap!vars => ReapInv'
<1> USE DEF ReapInv, Decided, ReapIsSafe, Reap!ReapedMeansGone, Reap!FoundLeaderDecides,
            Reap!GroupEmpty
<1> SUFFICES ASSUME ReapInv, [Reap!Next]_Reap!vars PROVE ReapInv'
  OBVIOUS
<1>1. CASE Reap!Fork
  BY <1>1 DEF Reap!Fork
<1>2. CASE Reap!LeaderExits
  BY <1>2 DEF Reap!LeaderExits
<1>3. CASE Reap!KidExits
  BY <1>3 DEF Reap!KidExits
<1>4. CASE Reap!PidReused
  BY <1>4 DEF Reap!PidReused
<1>5. CASE Reap!Signal
  BY <1>5 DEF Reap!Signal, Reap!group
<1>6. CASE Reap!Start \/ Reap!ObservationFails \/ Reap!ValidateLiveGroup
  BY <1>6 DEF Reap!Start, Reap!ObservationFails, Reap!ValidateLiveGroup, Reap!Moves, Reap!group,
              Reap!Waiting
<1>7. CASE Reap!ObserveLeader \/ Reap!ObserveOwned \/ Reap!ObserveLeaderless
  <2>1. CASE Reap!ObserveLeader
    BY <2>1 DEF Reap!ObserveLeader, Reap!Finds, Reap!Moves, Reap!group
  <2>2. CASE Reap!ObserveOwned
    BY <2>2 DEF Reap!ObserveOwned, Reap!Moves, Reap!group
  <2>3. CASE Reap!ObserveLeaderless
    BY <2>3 DEF Reap!ObserveLeaderless, Reap!Moves, Reap!group
  <2> QED
    BY <1>7, <2>1, <2>2, <2>3
<1>8. CASE Reap!GroupDead \/ Reap!GroupTimeout
  <2>1. CASE Reap!GroupDead
    BY <2>1 DEF Reap!GroupDead, Reap!Moves, Reap!group, Reap!Waiting
  <2>2. CASE Reap!GroupTimeout
    BY <2>2 DEF Reap!GroupTimeout, Reap!Moves, Reap!group, Reap!Waiting
  <2> QED
    BY <1>8, <2>1, <2>2
<1>9. CASE UNCHANGED Reap!vars
  BY <1>9 DEF Reap!vars
<1> QED
  BY <1>1, <1>2, <1>3, <1>4, <1>5, <1>6, <1>7, <1>8, <1>9 DEF Reap!Next, Reap!ReaperStep

\* stop_and_reap_persisted_process_group reports a group as gone only when it is
\* (ReapedMeansGone), and signals a stranger's group only where it found no leader to
\* compare or the id was reused after it had looked (FoundLeaderDecides): for every
\* number of descendants, whenever processes end and ids are given out again.
THEOREM ReapDecidesOnce == Reap!Spec => []ReapIsSafe
<1>1. Reap!Init => ReapInv
  BY DEF Reap!Init, ReapInv, Decided, ReapIsSafe, Reap!ReapedMeansGone,
         Reap!FoundLeaderDecides
<1>2. ReapInv => ReapIsSafe
  BY DEF ReapInv
<1> QED
  BY <1>1, <1>2, ReapStep, PTL DEF Reap!Spec

-----------------------------------------------------------------------------
(***************************************************************************)
(* StdinWriter                                                             *)
(***************************************************************************)

StdinTypes ==
    /\ inPc \in [Stdin!Writers -> {"IDLE", "LOCKING", "WRITING", "RESTORING", "DONE"}]
    /\ inOffset \in [Stdin!Writers -> 0 .. FrameLength]
    /\ inRet \in [Stdin!Writers -> {"NONE", "OK", "TIMEOUT", "FAILED"}]
    /\ inLock \in Stdin!Writers \cup {Nobody}
    /\ inNonblock \in BOOLEAN
    /\ inStream \in Seq(Stdin!Chunk)

\* Who writes holds the mutex, and has no result and no chunk before it begins.
WriterHolds ==
    \A w \in Stdin!Writers :
        /\ inPc[w] \in {"WRITING", "RESTORING"} => inLock = w
        /\ inPc[w] \in {"IDLE", "LOCKING"} => inOffset[w] = 0
        /\ inPc[w] \in {"IDLE", "LOCKING", "WRITING"} => inRet[w] = "NONE"

\* The last chunk of the pipe: its frame is whole, or given up, or still written.
LastChunk ==
    /\ inStream # <<>> =>
          LET last == inStream[Len(inStream)]
          IN  /\ inOffset[last.writer] = last.part
              /\ \/ last.part = FrameLength
                 \/ inRet[last.writer] \in {"TIMEOUT", "FAILED"}
                 \/ inPc[last.writer] = "WRITING"
    /\ \A w \in Stdin!Writers :
          inOffset[w] > 0 /\ inPc[w] = "WRITING"
            => /\ inStream # <<>>
               /\ inStream[Len(inStream)] = [writer |-> w, part |-> inOffset[w]]

\* FramesContiguous, of one position.
Contiguous(p) ==
    IF inStream[p].part > 1
      THEN p > 1 /\ inStream[p - 1] = [inStream[p] EXCEPT !.part = @ - 1]
      ELSE p > 1 /\ inStream[p - 1].part < FrameLength
             => inRet[inStream[p - 1].writer] \in {"TIMEOUT", "FAILED"}

StdinInv == StdinTypes /\ WriterHolds /\ LastChunk /\ FramesWhole

\* A chunk that is put keeps what the pipe has, and follows the one it has to follow.
LEMMA PutKeepsFrames ==
    ASSUME Stdin!WritersAssumption, Stdin!FrameAssumption, StdinInv,
           NEW w \in Stdin!Writers, inPc[w] = "WRITING", Stdin!Put(w),
           UNCHANGED <<inPc, inRet, inLock, inNonblock>>
    PROVE  StdinInv'
<1> USE DEF StdinInv, StdinTypes, Stdin!Chunk
<1> DEFINE chunk == [writer |-> w, part |-> inOffset[w] + 1]
           n == Len(inStream)
<1>1. /\ chunk \in Stdin!Chunk
      /\ inOffset[w] < FrameLength
      /\ inStream' = Append(inStream, chunk)
      /\ inOffset' = [inOffset EXCEPT ![w] = @ + 1]
  BY DEF Stdin!Put, Stdin!FrameAssumption
<1>2. /\ StdinTypes' /\ n \in Nat
      /\ Len(inStream') = n + 1
      /\ inStream'[n + 1] = chunk
      /\ \A p \in 1 .. n : inStream'[p] = inStream[p] /\ inStream[p] \in Stdin!Chunk
  <2>1. inStream \in Seq(Stdin!Chunk) /\ inStream' \in Seq(Stdin!Chunk)
    BY ONLY StdinInv, <1>1, Appended DEF StdinInv, StdinTypes
  <2>2. inOffset' \in [Stdin!Writers -> 0 .. FrameLength]
    BY <1>1 DEF Stdin!FrameAssumption
  <2>3. StdinTypes'
    BY <2>1, <2>2
  <2>4. n \in Nat /\ \A p \in 1 .. n : inStream[p] \in Stdin!Chunk
    BY ONLY <2>1, Elements
  <2>5. /\ Len(inStream') = n + 1 /\ inStream'[n + 1] = chunk
        /\ \A p \in 1 .. n : inStream'[p] = inStream[p]
    BY ONLY <1>1, <2>1, Appended
  <2> QED
    BY <2>3, <2>4, <2>5
<1>3. WriterHolds'
  BY <1>1, <1>2 DEF WriterHolds
<1>4. LastChunk'
  BY <1>1, <1>2, <1>3 DEF LastChunk, WriterHolds, Stdin!FrameAssumption
<1>5. ASSUME inOffset[w] > 0 PROVE n > 0 /\ inStream[n] = [chunk EXCEPT !.part = @ - 1]
  BY <1>1, <1>2, <1>5 DEF LastChunk, Stdin!FrameAssumption
<1>6. ASSUME inOffset[w] = 0, n > 0, inStream[n].part < FrameLength
      PROVE  inRet[inStream[n].writer] \in {"TIMEOUT", "FAILED"}
  <2>1. inStream[n] \in Stdin!Chunk /\ inOffset[inStream[n].writer] = inStream[n].part
    BY <1>2, <1>6 DEF LastChunk
  <2>2. inStream[n].writer # w
    BY <1>6, <2>1
  <2>3. inPc[inStream[n].writer] # "WRITING"
    BY <2>1, <2>2 DEF WriterHolds
  <2>4. inStream # <<>>
    BY <1>6
  <2>5. inStream[n].part # FrameLength
    BY <1>6, <2>1 DEF Stdin!FrameAssumption
  <2> QED
    BY ONLY LastChunk, <2>3, <2>4, <2>5 DEF LastChunk
<1>7. Stdin!FramesContiguous'
  <2>4. inOffset[w] \in Nat
    BY DEF Stdin!FrameAssumption
  <2> SUFFICES ASSUME NEW p \in 1 .. n + 1 PROVE Contiguous(p)'
    BY <1>2 DEF Stdin!FramesContiguous, Contiguous
  <2>1. p \in 1 .. n \/ p = n + 1
    BY <1>2
  <2>2. CASE p \in 1 .. n
    <3>1. Contiguous(p)
      BY <2>2 DEF FramesWhole, Stdin!FramesContiguous, Contiguous
    <3>2. inStream'[p] = inStream[p] /\ (p > 1 => inStream'[p - 1] = inStream[p - 1])
      <4>1. p > 1 => p - 1 \in 1 .. n
        BY ONLY <2>2, n \in Nat
      <4> QED
        BY ONLY <1>2, <2>2, <4>1
    <3> QED
      BY ONLY <3>1, <3>2, UNCHANGED inRet DEF Contiguous
  <2>3. CASE p = n + 1
    <3>1. inStream'[p] = chunk /\ (p > 1 => n > 0 /\ inStream'[p - 1] = inStream[n])
      BY ONLY <1>2, <2>3
    <3>2. CASE inOffset[w] > 0
      <4>1. chunk.part > 1 /\ p > 1
        BY ONLY <1>2, <1>5, <2>3, <2>4, <3>2
      <4> QED
        BY ONLY <1>5, <3>1, <3>2, <4>1 DEF Contiguous
    <3>3. CASE inOffset[w] = 0
      BY ONLY <1>6, <3>1, <3>3, UNCHANGED inRet DEF Contiguous
    <3> QED
      BY ONLY <2>4, <3>2, <3>3
  <2> QED
    BY <2>1, <2>2, <2>3
<1>8. Stdin!SentIsWhole'
  BY <1>1, <1>2 DEF FramesWhole, Stdin!SentIsWhole, Stdin!Contains
<1>9. Stdin!NonblockOnlyHeld'
  BY DEF FramesWhole, Stdin!NonblockOnlyHeld
<1> QED
  BY <1>2, <1>3, <1>4, <1>7, <1>8, <1>9 DEF FramesWhole

\* A step of w that puts no chunk: it moves on, and a result comes to one that has none.
Moved(w) ==
    /\ UNCHANGED <<inOffset, inStream>>
    /\ inPc' = [inPc EXCEPT ![w] = inPc'[w]]
    /\ inRet' = [inRet EXCEPT ![w] = inRet'[w]]
    /\ inRet[w] # "NONE" => inRet'[w] = inRet[w]

\* Such a step keeps the frames if a writer leaves its frame only when it is whole or
\* has been given up.
LEMMA MoveKeepsFrames ==
    ASSUME Stdin!WritersAssumption, Stdin!FrameAssumption, StdinInv,
           NEW w \in Stdin!Writers, Moved(w), StdinTypes', WriterHolds',
           Stdin!NonblockOnlyHeld',
           inPc'[w] = "WRITING" => inPc[w] \in {"LOCKING", "WRITING"},
           inRet'[w] = "OK" /\ inRet[w] = "NONE"
             => inPc[w] = "WRITING" /\ inOffset[w] = FrameLength,
           inPc[w] = "WRITING" /\ inPc'[w] # "WRITING"
             => inOffset[w] = FrameLength \/ inRet'[w] \in {"TIMEOUT", "FAILED"}
    PROVE  StdinInv'
<1> USE DEF StdinInv, StdinTypes, Stdin!Chunk, Moved, Stdin!FrameAssumption
<1>1. \A p \in 1 .. Len(inStream) : inStream[p] \in Stdin!Chunk
  BY ONLY StdinInv, Elements DEF StdinInv, StdinTypes
<1>2. \A v \in Stdin!Writers : inRet[v] \in {"TIMEOUT", "FAILED"} => inRet'[v] = inRet[v]
  <2> TAKE v \in Stdin!Writers
  <2>1. CASE v = w
    BY <2>1
  <2>2. CASE v # w
    BY <2>2
  <2> QED
    BY <2>1, <2>2
<1>3. LastChunk'
  <2>1. inStream # <<>> => Len(inStream) \in 1 .. Len(inStream)
    OBVIOUS
  <2>2. \A v \in Stdin!Writers : inPc[v] = "WRITING" /\ inPc'[v] # "WRITING"
                          => v = w
    OBVIOUS
  <2> QED
    BY <1>1, <1>2, <2>1, <2>2 DEF LastChunk, WriterHolds
<1>4. Stdin!FramesContiguous'
  <2>1. \A p \in 1 .. Len(inStream) : p > 1 => p - 1 \in 1 .. Len(inStream)
    OBVIOUS
  <2> QED
    BY <1>1, <1>2, <2>1 DEF FramesWhole, Stdin!FramesContiguous
<1>5. Stdin!SentIsWhole'
  <2>1. ASSUME inPc[w] = "WRITING", inOffset[w] = FrameLength
        PROVE  Stdin!Contains(inStream, [writer |-> w, part |-> FrameLength])
    BY <2>1 DEF LastChunk, Stdin!Contains
  <2> QED
    BY <2>1 DEF FramesWhole, Stdin!SentIsWhole
<1> QED
  BY <1>3, <1>4, <1>5 DEF FramesWhole

\* Every step of the writers and of the runtime that reads keeps the pipe's invariant.
LEMMA StdinStep ==
    ASSUME Stdin!WritersAssumption, Stdin!FrameAssumption,
           StdinInv, [Stdin!Next]_Stdin!vars
    PROVE  StdinInv'
<1> USE DEF StdinInv, StdinTypes, Moved, WriterHolds, FramesWhole, Stdin!NonblockOnlyHeld,
            Stdin!pipe, Stdin!Go, Stdin!Leave, Stdin!Writers, Stdin!WritersAssumption
<1>1. ASSUME NEW w \in Stdin!Writers, Stdin!Call(w) PROVE StdinInv'
  BY <1>1, MoveKeepsFrames DEF Stdin!Call
<1>2. ASSUME NEW w \in Blocking, Stdin!SendStep(w) PROVE StdinInv'
  <2>1. CASE Stdin!SendLock(w)
    BY <2>1, MoveKeepsFrames DEF Stdin!SendLock
  <2>2. CASE Stdin!SendChunk(w)
    BY <2>2, PutKeepsFrames DEF Stdin!SendChunk
  <2>3. CASE Stdin!SendDone(w)
    BY <2>3, MoveKeepsFrames DEF Stdin!SendDone
  <2>4. CASE Stdin!SendFails(w)
    BY <2>4, MoveKeepsFrames DEF Stdin!SendFails
  <2> QED
    BY <1>2, <2>1, <2>2, <2>3, <2>4 DEF Stdin!SendStep
<1>3. ASSUME NEW w \in Bounded, Stdin!RespondStep(w) PROVE StdinInv'
  <2>1. CASE Stdin!TryLock(w)
    <3>1. w \in Stdin!Writers /\ Moved(w) /\ StdinTypes'
      BY <2>1 DEF Stdin!TryLock
    <3>2. WriterHolds' /\ Stdin!NonblockOnlyHeld'
      BY <2>1 DEF Stdin!TryLock
    <3>3. /\ inPc[w] = "LOCKING" /\ inRet[w] = "NONE"
          /\ inRet'[w] \in {"NONE", "TIMEOUT"}
      BY <2>1 DEF Stdin!TryLock
    <3> QED
      BY ONLY StdinBounds, StdinInv, MoveKeepsFrames, <3>1, <3>2, <3>3
  <2>2. CASE Stdin!WriteChunk(w)
    BY <2>2, PutKeepsFrames DEF Stdin!WriteChunk
  <2>3. ASSUME NEW what \in {"OK", "TIMEOUT", "FAILED"}, Stdin!WriteEnds(w, what)
        PROVE  StdinInv'
    BY <2>3, MoveKeepsFrames DEF Stdin!WriteEnds
  <2>4. CASE Stdin!Restore(w)
    BY <2>4, MoveKeepsFrames DEF Stdin!Restore
  <2> QED
    BY <1>3, <2>1, <2>2, <2>3, <2>4 DEF Stdin!RespondStep
<1>4. ASSUME UNCHANGED <<inPc, inOffset, inRet, inLock, inNonblock, inStream>>
      PROVE  StdinInv'
  BY <1>4 DEF LastChunk, Stdin!FramesContiguous, Stdin!SentIsWhole
<1>5. CASE \E w \in Bounded : Stdin!Expire(w)
  BY <1>4, <1>5 DEF Stdin!Expire
<1>6. CASE Stdin!RuntimeReads \/ Stdin!RuntimeCloses \/ UNCHANGED Stdin!vars
  BY <1>4, <1>6 DEF Stdin!RuntimeReads, Stdin!RuntimeCloses, Stdin!vars
<1> QED
  BY <1>1, <1>2, <1>3, <1>5, <1>6 DEF Stdin!Next

\* write_message and write_message_bounded never interleave two frames, behind a part of
\* a frame that was given up nothing is written, a frame that is reported as sent is whole
\* in the pipe, and the descriptor is O_NONBLOCK only while a bounded writer holds the
\* mutex: for any number of writers, frames of any length and a pipe of any capacity.
THEOREM FramesStayWhole == Stdin!Spec => []FramesWhole
<1>1. Stdin!Init => StdinInv
  <2>1. Stdin!Init => StdinTypes /\ WriterHolds
    <3> SUFFICES ASSUME Stdin!Init PROVE StdinTypes /\ WriterHolds
      OBVIOUS
    <3>1. inOffset \in [Stdin!Writers -> 0 .. FrameLength]
      BY StdinBounds DEF Stdin!Init, Stdin!FrameAssumption
    <3>2. inStream \in Seq(Stdin!Chunk)
      BY DEF Stdin!Init
    <3> QED
      BY <3>1, <3>2 DEF Stdin!Init, StdinTypes, WriterHolds
  <2>2. Stdin!Init => LastChunk /\ FramesWhole
    BY DEF Stdin!Init, LastChunk, FramesWhole, Stdin!FramesContiguous, Stdin!SentIsWhole,
           Stdin!NonblockOnlyHeld
  <2> QED
    BY <2>1, <2>2 DEF StdinInv
<1>2. StdinInv /\ [Stdin!Next]_Stdin!vars => StdinInv'
  BY StdinBounds, StdinStep
<1>3. StdinInv => FramesWhole
  BY DEF StdinInv
<1> QED
  BY <1>1, <1>2, <1>3, PTL DEF Stdin!Spec

-----------------------------------------------------------------------------
(***************************************************************************)
(* RuntimeOwner                                                            *)
(***************************************************************************)

Unclean == {"LOST_STREAM", "STOP_FAILED", "ORPHANED", "EXITED"}
Terminals == Owner!Clean \cup Unclean
DriverEvents == Owner!RuntimeEvent \cup {"exited"}

OwnerTypes ==
    /\ ownQueue \in Seq(DriverEvents)
    /\ ownEmitted \in Seq(DriverEvents \cup Terminals)
    /\ ownOwner \in {"RUNNING", "STOPPING", "TERMINAL"}
    /\ ownTerminal \in Terminals \cup {Owner!NoTerminal}
    /\ ownPc \in [Owner!Ending -> {"IDLE", "STOP", "BOUNDARY", "PUBLISH", "DONE"}]
    /\ ownWant \in [Owner!Ending -> Terminals]
    /\ ownRet \in [Owner!Ending -> Terminals \cup {Owner!NoTerminal}]

\* The exit is the pump's last event, and the log's unless the terminal is behind it.
ExitIsLast ==
    /\ ownPump \in {"EMIT", "REPLY"} => ownQueue # <<>>
    /\ ownExitSeen => ownPump = "DONE"
    /\ ownExitSeen /\ ownOwner # "TERMINAL"
         => Len(ownEmitted) > 0 /\ ownEmitted[Len(ownEmitted)] = "exited"

\* There is a terminal if and only if the owner says so.
TerminalKnown == ownOwner = "TERMINAL" <=> ownTerminal # Owner!NoTerminal

\* A finisher that waits for the exit has seen the group empty; it publishes a clean
\* terminal behind the exit, or too late.
StoppersProved ==
    \A f \in Owner!Ending :
        /\ ownPc[f] = "BOUNDARY" => ownGroup = "EMPTY"
        /\ ownPc[f] = "PUBLISH" /\ ownWant[f] \in Owner!Clean
             => ownGroup = "EMPTY" /\ (ownExitSeen \/ ownOwner = "TERMINAL")

LogInv == ExitIsLast /\ TerminalKnown /\ TerminalIsSound
OwnerInv == OwnerTypes /\ LogInv /\ StoppersProved

\* Whoever publishes a terminal, a clean one behind the exit of an empty group, keeps
\* the log sound.
LEMMA PublishKeepsLog ==
    ASSUME OwnerInv, NEW t \in Terminals, Owner!PublishTerminal(t),
           t \in Owner!Clean /\ ownOwner # "TERMINAL" => ownGroup = "EMPTY" /\ ownExitSeen,
           UNCHANGED <<ownGroup, ownQueue, ownExitSeen>>,
           ownPump' \in {ownPump, "DONE"},
           \A f \in Owner!Ending :
               ownRet'[f] = ownRet[f] \/ ownRet'[f] = ownTerminal'
    PROVE  /\ LogInv'
           /\ ownEmitted' \in Seq(DriverEvents \cup Terminals)
           /\ ownOwner' = "TERMINAL" /\ ownTerminal' \in Terminals
<1> USE DEF OwnerInv, LogInv, TerminalKnown
<1>1. CASE ownOwner = "TERMINAL"
  BY <1>1 DEF Owner!PublishTerminal, ExitIsLast, TerminalIsSound, OwnerTypes,
              Owner!TerminalOnceAndLast, Owner!FinishersAgree, Owner!TerminalProvesReaped,
              Owner!CleanBehindExit
<1>2. CASE ownOwner # "TERMINAL"
  <2>1. /\ ownEmitted \in Seq(DriverEvents \cup Terminals)
        /\ ownEmitted' = Append(ownEmitted, t)
        /\ ownTerminal' = t /\ ownOwner' = "TERMINAL"
        /\ ownTerminal = Owner!NoTerminal
    BY <1>2 DEF Owner!PublishTerminal, OwnerTypes
  <2>2. /\ ownEmitted' \in Seq(DriverEvents \cup Terminals)
        /\ Len(ownEmitted) \in Nat
        /\ Len(ownEmitted') = Len(ownEmitted) + 1
        /\ ownEmitted'[Len(ownEmitted) + 1] = t
        /\ \A p \in 1 .. Len(ownEmitted) : ownEmitted'[p] = ownEmitted[p]
    BY ONLY <2>1, t \in Terminals, Appended, Elements
  <2>3. t # Owner!NoTerminal
    BY DEF Terminals, Unclean, Owner!Clean, Owner!Boundary, Owner!NoTerminal
  <2>4. Owner!TerminalOnceAndLast'
    BY <1>2, <2>1, <2>2 DEF TerminalIsSound, Owner!TerminalOnceAndLast
  <2>5. Owner!FinishersAgree'
    BY <1>2, <2>1 DEF TerminalIsSound, Owner!FinishersAgree
  <2>6. Owner!TerminalProvesReaped' /\ Owner!CleanBehindExit'
    BY <1>2, <2>1, <2>2 DEF Owner!TerminalProvesReaped, Owner!CleanBehindExit, ExitIsLast
  <2>7. ExitIsLast'
    BY <2>1 DEF ExitIsLast
  <2> QED
    BY <2>1, <2>2, <2>3, <2>4, <2>5, <2>6, <2>7 DEF TerminalIsSound
<1> QED
  BY <1>1, <1>2

\* The pump emits one event, the exit with the terminal it means to an owner that is
\* not being stopped.
LEMMA EmitKeepsLog ==
    ASSUME OwnerInv, Owner!Emit
    PROVE  OwnerInv'
<1> USE DEF OwnerInv, LogInv, TerminalKnown
<1> DEFINE e == Head(ownQueue)
           t == Owner!ExitTerminal
<1>1. /\ ownQueue # <<>> /\ ownQueue \in Seq(DriverEvents)
      /\ ~ownExitSeen /\ ownQueue' = Tail(ownQueue)
      /\ ownPump' = IF e = "exited" THEN "DONE" ELSE "POLL"
      /\ UNCHANGED <<ownGroup, ownPc, ownWant, ownRet>>
  BY DEF Owner!Emit, ExitIsLast, OwnerTypes, Owner!process, Owner!finishers
<1>2. e \in DriverEvents /\ ownQueue' \in Seq(DriverEvents)
  BY ONLY <1>1
<1>3. t \in Terminals /\ (t \in Owner!Clean => ownGroup = "EMPTY")
  BY DEF Owner!ExitTerminal, Terminals, Unclean, Owner!Clean, Owner!Boundary
<1>4. CASE ownOwner = "TERMINAL"
  BY <1>1, <1>2, <1>4 DEF Owner!Emit, Owner!EmitDriver, Owner!publisher, ExitIsLast, OwnerTypes,
        TerminalIsSound, StoppersProved, Owner!TerminalOnceAndLast, Owner!FinishersAgree,
        Owner!TerminalProvesReaped, Owner!CleanBehindExit
<1>5. CASE ownOwner # "TERMINAL" /\ ~(e = "exited" /\ ownOwner = "RUNNING")
  <2>1. /\ ownEmitted \in Seq(DriverEvents \cup Terminals)
        /\ ownEmitted' = Append(ownEmitted, e)
        /\ UNCHANGED <<ownOwner, ownTerminal>>
        /\ ownExitSeen' <=> e = "exited"
    BY <1>1, <1>5 DEF Owner!Emit, Owner!EmitDriver, OwnerTypes
  <2>2. /\ ownEmitted' \in Seq(DriverEvents \cup Terminals)
        /\ Len(ownEmitted) \in Nat
        /\ Len(ownEmitted') = Len(ownEmitted) + 1
        /\ ownEmitted'[Len(ownEmitted) + 1] = e
        /\ \A p \in 1 .. Len(ownEmitted) : ownEmitted'[p] = ownEmitted[p]
    BY ONLY <1>2, <2>1, Appended, Elements
  <2>3. TerminalIsSound'
    BY <1>1, <1>2, <1>5, <2>1, <2>2 DEF TerminalIsSound, Owner!TerminalOnceAndLast,
       Owner!FinishersAgree, Owner!TerminalProvesReaped, Owner!CleanBehindExit, DriverEvents,
       Owner!Clean, Owner!Boundary, Owner!NoTerminal
  <2>4. ExitIsLast'
    BY ONLY <1>1, <2>1, <2>2 DEF ExitIsLast
  <2> QED
    BY <1>1, <1>2, <1>5, <2>1, <2>2, <2>3, <2>4 DEF OwnerTypes, StoppersProved
<1>6. CASE e = "exited" /\ ownOwner = "RUNNING"
  <2>1. /\ ownEmitted \in Seq(DriverEvents \cup Terminals)
        /\ ownEmitted' = ownEmitted \o <<e, t>>
        /\ ownOwner' = "TERMINAL" /\ ownTerminal' = t
        /\ ownExitSeen' = TRUE
    BY <1>1, <1>6 DEF Owner!Emit, Owner!EmitDriver, OwnerTypes
  <2>2. ownEmitted \o <<e, t>> = Append(Append(ownEmitted, e), t)
    BY ONLY <1>2, <1>3, <2>1
  <2>3. /\ ownEmitted' \in Seq(DriverEvents \cup Terminals)
        /\ Len(ownEmitted) \in Nat
        /\ Len(ownEmitted') = Len(ownEmitted) + 2
        /\ ownEmitted'[Len(ownEmitted) + 1] = e
        /\ ownEmitted'[Len(ownEmitted) + 2] = t
        /\ \A p \in 1 .. Len(ownEmitted) : ownEmitted'[p] = ownEmitted[p]
    BY ONLY <1>2, <1>3, <2>1, <2>2, Appended, Elements
  <2>4. t # Owner!NoTerminal
    BY <1>3 DEF Terminals, Unclean, Owner!Clean, Owner!Boundary, Owner!NoTerminal
  <2>5. TerminalIsSound'
    BY <1>1, <1>2, <1>3, <1>6, <2>1, <2>3 DEF TerminalIsSound, Owner!TerminalOnceAndLast,
       Owner!FinishersAgree, Owner!TerminalProvesReaped, Owner!CleanBehindExit, DriverEvents
  <2>6. ExitIsLast'
    BY <1>1, <1>6, <2>1, <2>3 DEF ExitIsLast
  <2> QED
    BY <1>1, <1>2, <1>3, <2>1, <2>3, <2>4, <2>5, <2>6 DEF OwnerTypes, StoppersProved
<1> QED
  BY <1>4, <1>5, <1>6

\* Every step of the runtime, the pump, the finishers and the senders keeps OwnerInv.
LEMMA OwnerStep == OwnerInv /\ [Owner!Next]_Owner!vars => OwnerInv'
<1> SUFFICES ASSUME OwnerInv, [Owner!Next]_Owner!vars PROVE OwnerInv'
  OBVIOUS
<1> USE DEF OwnerInv, LogInv, OwnerTypes, TerminalKnown, StoppersProved,
        Owner!process, Owner!publisher, Owner!finishers
<1>1. ASSUME UNCHANGED <<ownPump, ownOwner, ownTerminal, ownExitSeen, ownEmitted>>,
             ownQueue' = ownQueue \/ ownQueue' # <<>>,
             ownGroup = "EMPTY" => ownGroup' = "EMPTY",
             \A f \in Owner!Ending : ownRet'[f] \in {ownRet[f], ownTerminal}
      PROVE  LogInv'
  BY <1>1 DEF ExitIsLast, TerminalIsSound, Owner!TerminalOnceAndLast, Owner!FinishersAgree,
     Owner!TerminalProvesReaped, Owner!CleanBehindExit
<1>2. CASE \/ \E e \in Owner!RuntimeEvent : Owner!Emits(e)
           \/ Owner!Exits \/ Owner!OrphansExit \/ Owner!ReportsExit
  <2>1. ownQueue' = ownQueue \/ \E e \in DriverEvents : ownQueue' = Append(ownQueue, e)
    BY <1>2 DEF Owner!Emits, Owner!Exits, Owner!OrphansExit, Owner!ReportsExit, DriverEvents
  <2>2. ownQueue' \in Seq(DriverEvents) /\ (ownQueue' = ownQueue \/ ownQueue' # <<>>)
    BY <2>1
  <2>3. /\ ownGroup = "EMPTY" => ownGroup' = "EMPTY"
        /\ UNCHANGED <<ownPump, ownOwner, ownTerminal, ownExitSeen, ownEmitted, ownPc, ownWant,
                       ownRet>>
    BY <1>2 DEF Owner!Emits, Owner!Exits, Owner!OrphansExit, Owner!ReportsExit
  <2> QED
    BY <1>1, <2>2, <2>3
<1>3. CASE Owner!Take \/ Owner!Reply \/ Owner!PumpShutdown
  <2>1. /\ ownPump' \in {"EMIT", "REPLY"} => ownQueue # <<>>
        /\ ~ownExitSeen \/ ownPump' = "DONE"
        /\ UNCHANGED <<ownGroup, ownQueue, ownOwner, ownTerminal, ownExitSeen, ownEmitted, ownPc,
                       ownWant, ownRet>>
    BY <1>3 DEF Owner!Take, Owner!Reply, Owner!PumpShutdown, ExitIsLast
  <2> QED
    BY <2>1 DEF ExitIsLast, TerminalIsSound, Owner!TerminalOnceAndLast, Owner!FinishersAgree,
       Owner!TerminalProvesReaped, Owner!CleanBehindExit
<1>4. CASE Owner!ReplyFails
  <2>1. /\ "LOST_STREAM" \in Terminals /\ "LOST_STREAM" \notin Owner!Clean
        /\ Owner!PublishTerminal("LOST_STREAM")
        /\ ownPump' = "DONE"
        /\ UNCHANGED <<ownGroup, ownQueue, ownExitSeen, ownPc, ownWant, ownRet>>
    BY <1>4 DEF Owner!ReplyFails, Terminals, Unclean, Owner!Clean, Owner!Boundary
  <2>2. /\ LogInv'
        /\ ownEmitted' \in Seq(DriverEvents \cup Terminals)
        /\ ownOwner' = "TERMINAL" /\ ownTerminal' \in Terminals
    BY <2>1, PublishKeepsLog
  <2> QED
    BY <2>1, <2>2
<1>5. CASE Owner!Emit
  BY <1>5, EmitKeepsLog
<1>6. ASSUME NEW f \in Owner!Ending, NEW boundary \in Owner!Clean,
             Owner!BeginStopping(f, boundary)
      PROVE  OwnerInv'
  <2> USE <1>6 DEF Owner!BeginStopping, Owner!Go, Owner!Returns, Terminals
  <2>1. CASE ownOwner = "TERMINAL"
    BY <1>1, <2>1
  <2>2. CASE ownOwner # "TERMINAL"
    BY <2>2 DEF ExitIsLast, TerminalIsSound, Owner!TerminalOnceAndLast, Owner!FinishersAgree,
       Owner!TerminalProvesReaped, Owner!CleanBehindExit
  <2> QED
    BY <2>1, <2>2
<1>7. ASSUME NEW f \in Owner!Ending, Owner!StopAndReap(f) PROVE OwnerInv'
  BY <1>1, <1>7 DEF Owner!StopAndReap, Owner!GroupStopped, Owner!Go, Terminals, Unclean, Owner!Clean, Owner!Boundary
<1>8. ASSUME NEW f \in Owner!Ending, Owner!WaitBoundary(f) PROVE OwnerInv'
  BY <1>1, <1>8 DEF Owner!WaitBoundary, Owner!Go, Terminals, Unclean, Owner!Clean,
     Owner!Boundary, TerminalIsSound, Owner!TerminalProvesReaped
<1>9. ASSUME NEW f \in Owner!Ending, Owner!Publish(f) PROVE OwnerInv'
  <2>1. /\ ownWant[f] \in Terminals /\ ownPc[f] = "PUBLISH"
        /\ Owner!PublishTerminal(ownWant[f])
        /\ ownPc' = [ownPc EXCEPT ![f] = "DONE"]
        /\ ownRet' = [ownRet EXCEPT ![f] = ownTerminal']
        /\ UNCHANGED <<ownGroup, ownPump, ownQueue, ownExitSeen, ownWant>>
    BY <1>9 DEF Owner!Publish, Owner!Go, Owner!Returns
  <2>2. /\ LogInv'
        /\ ownEmitted' \in Seq(DriverEvents \cup Terminals)
        /\ ownOwner' = "TERMINAL" /\ ownTerminal' \in Terminals
    BY <2>1, PublishKeepsLog
  <2> QED
    BY <2>1, <2>2
<1>10. CASE Owner!Drop \/ Owner!DriverDrop
  BY <1>1, <1>10 DEF Owner!Drop, Owner!DriverDrop, Owner!GroupStopped
<1>11. CASE \E s \in Owner!Commands :
               Owner!CommandBegin(s) \/ Owner!CommandDone(s) \/ Owner!CommandFails(s)
  BY <1>1, <1>11 DEF Owner!CommandBegin, Owner!CommandDone, Owner!CommandFails
<1>12. CASE UNCHANGED Owner!vars
  BY <1>1, <1>12 DEF Owner!vars
<1> QED
  BY <1>2, <1>3, <1>4, <1>5, <1>6, <1>7, <1>8, <1>9, <1>10, <1>11, <1>12
     DEF Owner!Next, Owner!PumpStep, Owner!FinishStep

\* The event log of a runtime has at most one terminal and nothing behind it, every
\* finisher returns that terminal, and a clean one comes behind the exit of a group
\* that is empty: for any number of finishers, whoever of pump, finisher and drop is
\* first to publish (publish_terminal, emit_runtime_event).
THEOREM TerminalStaysSound == Owner!Spec => []TerminalIsSound
<1>1. Owner!Init => OwnerInv
  BY DEF Owner!Init, OwnerInv, LogInv, OwnerTypes, ExitIsLast, TerminalKnown, StoppersProved,
     TerminalIsSound, Owner!TerminalOnceAndLast, Owner!FinishersAgree,
     Owner!TerminalProvesReaped, Owner!CleanBehindExit, Owner!NoTerminal, Owner!Clean,
     Owner!Boundary, Terminals
<1>2. OwnerInv => TerminalIsSound
  BY DEF OwnerInv, LogInv
<1> QED
  BY <1>1, <1>2, OwnerStep, PTL DEF Owner!Spec

-----------------------------------------------------------------------------
(***************************************************************************)
(* DriverRequests                                                          *)
(***************************************************************************)

Lines == {Requests!Answer(i) : i \in Ids} \cup {Requests!Event, Requests!Oversized}
GoneTold == {"CHILD_EXITED", "STREAM_CLOSED"}
Told == GoneTold \cup {"RESPONSE"}

RequestTypes ==
    /\ reqPc \in [Ids -> {"IDLE", "WRITE", "WAIT", "REMOVE", "DONE"}]
    /\ reqMailbox \in [Ids -> Told \cup {"EMPTY"}]
    /\ reqRet \in [Ids -> Told \cup {"NONE", "WRITE_FAILED", "TIMEOUT", "CANCELLED"}]
    /\ reqPending \subseteq Ids /\ reqInbox \subseteq Ids /\ reqWritten \subseteq Ids
    /\ reqHeld \subseteq [id : Ids, what : Told]
    /\ reqStdout \in Seq(Lines)
    /\ reqRaw \in Seq(Lines \cup {Requests!ChildExited})
    /\ reqReader \in {"RUNNING", "OVERSIZED", "DONE"}
    /\ reqMonitor \in {"POLLING", "BARRIER", "DONE"}
    /\ reqLate \in BOOLEAN /\ reqPipes \in BOOLEAN

\* Where a call is in the hands of others.  An id that was not used is nowhere; the
\* sender of another is in the map, held once, or has sent.
Hands ==
    /\ \A i \in Ids : reqPc[i] = "IDLE" => i \notin reqPending /\ reqMailbox[i] = "EMPTY"
    /\ \A i \in reqInbox : reqPc[i] \notin {"IDLE", "WRITE"}
    /\ \A h \in reqHeld : reqPc[h.id] # "IDLE"
    /\ Requests!ToldOnce
    /\ Requests!NoLeakedPending

\* An answer that was written to a request still registered is on its way.
Holds(s, line) == \E p \in 1 .. Len(s) : s[p] = line
AnswerOnItsWay ==
    /\ reqWritten \subseteq reqInbox
    /\ \A i \in reqWritten \cap reqPending :
          Holds(reqStdout, Requests!Answer(i)) \/ Holds(reqRaw, Requests!Answer(i))

\* Everything is read: nothing is in stdout, and nothing will be.
StreamEnds ==
    /\ reqProcess = "ALIVE" => reqPipes
    /\ reqReader = "DONE" => reqStdout = <<>> /\ ~reqPipes

\* Somebody was told that the runtime is gone, or is about to be.
InOrder == ~reqLate /\ reqReader # "OVERSIZED"
SaidGone(i) ==
    \/ reqRet[i] \in GoneTold
    \/ reqMailbox[i] \in GoneTold
    \/ \E h \in reqHeld : h.id = i /\ h.what \in GoneTold

\* The exit is reported by a monitor that is done, if in order behind the reader and
\* so as the last message of all; who is told of it has no answer.
ExitBehind ==
    /\ Holds(reqRaw, Requests!ChildExited) \/ (\E i \in Ids : SaidGone(i))
         => reqMonitor = "DONE"
    /\ reqMonitor = "DONE" /\ InOrder => reqReader = "DONE"
    /\ InOrder => \A p \in 1 .. Len(reqRaw) :
                      reqRaw[p] = Requests!ChildExited => p = Len(reqRaw)
    /\ InOrder => \A i \in Ids : SaidGone(i) => i \notin reqWritten

RequestInv == RequestTypes /\ Hands /\ AnswerOnItsWay /\ StreamEnds /\ ExitBehind

\* A line more at the end.
LEMMA HoldsMore ==
    ASSUME NEW S, NEW s \in Seq(S), NEW e \in S, NEW line
    PROVE  Holds(Append(s, e), line) <=> Holds(s, line) \/ line = e
<1>1. /\ Len(s) \in Nat /\ Len(Append(s, e)) = Len(s) + 1
      /\ Append(s, e)[Len(s) + 1] = e
      /\ \A p \in 1 .. Len(s) : Append(s, e)[p] = s[p]
  BY Appended, Elements
<1>2. ASSUME Holds(Append(s, e), line) PROVE Holds(s, line) \/ line = e
  <2>1. PICK p \in 1 .. Len(s) + 1 : Append(s, e)[p] = line
    BY ONLY <1>1, <1>2 DEF Holds
  <2>2. CASE p = Len(s) + 1
    BY ONLY <1>1, <2>1, <2>2
  <2>3. CASE p # Len(s) + 1
    BY ONLY <1>1, <2>1, <2>3 DEF Holds
  <2> QED
    BY <2>2, <2>3
<1>3. ASSUME Holds(s, line) PROVE Holds(Append(s, e), line)
  <2>1. PICK p \in 1 .. Len(s) : s[p] = line
    BY <1>3 DEF Holds
  <2> QED
    BY ONLY <1>1, <2>1 DEF Holds
<1>4. ASSUME line = e PROVE Holds(Append(s, e), line)
  BY ONLY <1>1, <1>4 DEF Holds
<1> QED
  BY <1>2, <1>3, <1>4

\* The first line goes; the others move up.
LEMMA HoldsHead ==
    ASSUME NEW S, NEW s \in Seq(S), s # <<>>, NEW line
    PROVE  /\ Head(s) \in S /\ Tail(s) \in Seq(S)
           /\ Len(Tail(s)) = Len(s) - 1
           /\ \A p \in 1 .. Len(s) - 1 : Tail(s)[p] = s[p + 1]
           /\ Holds(s, line) <=> line = Head(s) \/ Holds(Tail(s), line)
<1>1. /\ Len(s) \in Nat \ {0} /\ Head(s) \in S /\ Tail(s) \in Seq(S)
      /\ Len(Tail(s)) = Len(s) - 1 /\ Head(s) = s[1]
      /\ \A p \in 1 .. Len(s) - 1 : Tail(s)[p] = s[p + 1]
  OBVIOUS
<1>2. ASSUME Holds(s, line), line # Head(s) PROVE Holds(Tail(s), line)
  <2>1. PICK p \in 1 .. Len(s) : s[p] = line
    BY <1>2 DEF Holds
  <2>2. p - 1 \in 1 .. Len(s) - 1 /\ Tail(s)[p - 1] = line
    BY ONLY <1>1, <1>2, <2>1
  <2> QED
    BY ONLY <1>1, <2>2 DEF Holds
<1>3. ASSUME Holds(Tail(s), line) PROVE Holds(s, line)
  <2>1. PICK p \in 1 .. Len(s) - 1 : Tail(s)[p] = line
    BY ONLY <1>1, <1>3 DEF Holds
  <2>2. p + 1 \in 1 .. Len(s) /\ s[p + 1] = line
    BY ONLY <1>1, <2>1
  <2> QED
    BY ONLY <2>2 DEF Holds
<1>4. Holds(s, Head(s))
  BY ONLY <1>1 DEF Holds
<1> QED
  BY <1>1, <1>2, <1>3, <1>4

\* What the run checks follows from the inductive invariant.
LEMMA RequestsFollow == RequestInv => RequestsAccounted
BY DEF RequestInv, RequestTypes, Hands, ExitBehind, InOrder, SaidGone, GoneTold,
       RequestsAccounted, Requests!ExitAfterOutput

\* The steps of a caller.
LEMMA CallerStep ==
    ASSUME RequestInv, NEW i \in Ids,
           \/ Requests!BeginRequest(i) \/ Requests!CallStep(i)
           \/ Requests!Timeout(i) \/ Requests!Cancel(i)
    PROVE  RequestInv'
<1> USE DEF RequestInv, RequestTypes, Requests!Go, Requests!Returns, Requests!runtime,
            Requests!threads
<1>1. /\ UNCHANGED <<reqStdout, reqRaw, reqWritten, reqReader, reqMonitor, reqLate, reqPipes,
                     reqProcess, reqHeld, reqMailbox>>
      /\ reqPc' \in [Ids -> {"IDLE", "WRITE", "WAIT", "REMOVE", "DONE"}]
      /\ reqPc'[i] # "IDLE" /\ \A j \in Ids : j # i => reqPc'[j] = reqPc[j]
  BY DEF Requests!BeginRequest, Requests!CallStep, Requests!Write, Requests!WriteFailed,
         Requests!Receive, Requests!Remove, Requests!Timeout, Requests!Cancel
<1>2. CASE Requests!BeginRequest(i)
  <2>1. Hands'
    BY <1>1, <1>2 DEF Requests!BeginRequest, Hands, Requests!NoLeakedPending,
       Requests!ToldOnce
  <2>2. AnswerOnItsWay'
    BY <1>1, <1>2 DEF Requests!BeginRequest, AnswerOnItsWay, Hands
  <2> QED
    BY <1>1, <1>2, <2>1, <2>2 DEF Requests!BeginRequest, StreamEnds, ExitBehind, SaidGone,
       InOrder
<1>3. ASSUME Requests!Write(i) \/ Requests!WriteFailed(i) \/ Requests!Remove(i)
      PROVE  RequestInv'
  <2>1. Hands'
    BY <1>1, <1>3 DEF Requests!Write, Requests!WriteFailed, Requests!Remove, Hands,
       Requests!NoLeakedPending, Requests!ToldOnce
  <2>2. AnswerOnItsWay'
    BY <1>1, <1>3 DEF Requests!Write, Requests!WriteFailed, Requests!Remove, AnswerOnItsWay
  <2>3. ExitBehind'
    BY <1>1, <1>3 DEF Requests!Write, Requests!WriteFailed, Requests!Remove, ExitBehind,
       SaidGone, InOrder, GoneTold
  <2> QED
    BY <1>1, <1>3, <2>1, <2>2, <2>3 DEF Requests!Write, Requests!WriteFailed, Requests!Remove,
       StreamEnds
<1>4. ASSUME Requests!Receive(i) \/ Requests!Timeout(i) \/ Requests!Cancel(i)
      PROVE  RequestInv'
  <2>1. Hands'
    BY <1>1, <1>4 DEF Requests!Receive, Requests!Timeout, Requests!Cancel, Hands,
       Requests!NoLeakedPending, Requests!ToldOnce
  <2>2. ExitBehind'
    BY <1>1, <1>4 DEF Requests!Receive, Requests!Timeout, Requests!Cancel, ExitBehind,
       SaidGone, InOrder, GoneTold
  <2> QED
    BY <1>1, <1>4, <2>1, <2>2 DEF Requests!Receive, Requests!Timeout, Requests!Cancel,
       AnswerOnItsWay, StreamEnds
<1> QED
  BY <1>2, <1>3, <1>4 DEF Requests!CallStep

\* The steps of the runtime, which writes as long as its pipes are open.
LEMMA RuntimeStep ==
    ASSUME RequestInv,
           \/ \E i \in Ids : Requests!WriteAnswer(i)
           \/ \E line \in {Requests!Event, Requests!Oversized} : Requests!WriteOther(line)
           \/ Requests!Exit \/ Requests!Close
    PROVE  RequestInv'
<1> USE RequestBounds DEF Requests!DescendantsAssumption, RequestInv, RequestTypes,
        Requests!calls, Requests!threads, Requests!runtime, Requests!CanWrite
<1>1. ASSUME NEW line \in Lines, reqPipes, reqStdout' = Append(reqStdout, line),
             UNCHANGED <<reqPc, reqPending, reqMailbox, reqRet, reqInbox, reqRaw, reqReader,
                         reqMonitor, reqLate, reqPipes, reqProcess, reqHeld>>,
             \/ UNCHANGED reqWritten
             \/ \E i \in reqInbox : /\ line = Requests!Answer(i)
                                    /\ reqWritten' = reqWritten \cup {i}
      PROVE  RequestInv'
  <2>1. reqStdout \in Seq(Lines) /\ reqStdout' \in Seq(Lines)
    BY <1>1, Appended
  <2>2. \A l : Holds(reqStdout', l) <=> Holds(reqStdout, l) \/ l = line
    BY ONLY <1>1, <2>1, HoldsMore
  <2>3. AnswerOnItsWay'
    BY <1>1, <2>2 DEF AnswerOnItsWay
  <2>4. reqReader # "DONE"
    BY <1>1 DEF StreamEnds
  <2>5. ExitBehind' /\ StreamEnds'
    BY <1>1, <2>4 DEF ExitBehind, SaidGone, InOrder, StreamEnds
  <2> QED
    BY <1>1, <2>1, <2>3, <2>5 DEF Hands, Requests!NoLeakedPending, Requests!ToldOnce
<1>2. ASSUME NEW i \in Ids, Requests!WriteAnswer(i) PROVE RequestInv'
  BY <1>1, <1>2 DEF Requests!WriteAnswer, Lines
<1>3. ASSUME NEW line \in {Requests!Event, Requests!Oversized}, Requests!WriteOther(line)
      PROVE  RequestInv'
  BY <1>1, <1>3 DEF Requests!WriteOther, Lines
<1>4. CASE Requests!Exit \/ Requests!Close
  BY <1>4 DEF Requests!Exit, Requests!Close, Hands, Requests!NoLeakedPending,
     Requests!ToldOnce, AnswerOnItsWay, StreamEnds, ExitBehind, SaidGone, InOrder
<1> QED
  BY <1>2, <1>3, <1>4

\* The steps of the reader and of the monitor, and a sender that sends.
LEMMA ReaderStep ==
    ASSUME RequestInv,
           Requests!Read \/ Requests!ReadEnd \/ Requests!SeeExit \/ Requests!ReportExit
    PROVE  RequestInv'
<1> USE DEF RequestInv, RequestTypes, Requests!calls, Requests!runtime
<1>0. /\ UNCHANGED <<reqPc, reqMailbox, reqRet, reqInbox, reqPending, reqPipes, reqWritten,
                     reqHeld>>
      /\ reqRaw \in Seq(Lines \cup {Requests!ChildExited}) /\ reqStdout \in Seq(Lines)
      /\ reqProcess' = "ALIVE" => reqProcess = "ALIVE"
  BY DEF Requests!Read, Requests!ReadEnd, Requests!SeeExit, Requests!ReportExit
<1>1. Hands' /\ \A i \in Ids : SaidGone(i)' <=> SaidGone(i)
  BY <1>0 DEF Hands, Requests!NoLeakedPending, Requests!ToldOnce, SaidGone
<1>2. CASE Requests!Read
  <2> DEFINE head == Head(reqStdout)
  <2>1. /\ reqReader = "RUNNING" /\ reqStdout # <<>> /\ reqRaw' = Append(reqRaw, head)
        /\ reqStdout' = Tail(reqStdout) /\ UNCHANGED <<reqMonitor, reqLate, reqProcess>>
        /\ reqReader' \in {"RUNNING", "OVERSIZED"}
    BY <1>2 DEF Requests!Read
  <2>2. head \in Lines /\ reqStdout' \in Seq(Lines)
    BY ONLY <1>0, <2>1, HoldsHead
  <2>3. head \in Lines \cup {Requests!ChildExited} /\ head # Requests!ChildExited
    BY <2>2 DEF Lines, Requests!Answer, Requests!Event, Requests!Oversized,
                Requests!ChildExited
  <2>4. reqRaw' \in Seq(Lines \cup {Requests!ChildExited})
    BY ONLY <1>0, <2>1, <2>3, Appended
  <2>5. \A l : Holds(reqRaw', l) <=> Holds(reqRaw, l) \/ l = head
    BY ONLY <1>0, <2>1, <2>3, HoldsMore
  <2>6. \A l : Holds(reqStdout, l) <=> l = head \/ Holds(reqStdout', l)
    BY ONLY <1>0, <2>1, HoldsHead
  <2>7. AnswerOnItsWay'
    BY <1>0, <2>5, <2>6 DEF AnswerOnItsWay
  <2>8. InOrder' => InOrder
    BY <2>1 DEF InOrder
  <2>9. InOrder => ~Holds(reqRaw', Requests!ChildExited)
    BY <2>1, <2>3, <2>5 DEF ExitBehind
  <2>10. ExitBehind'
    <3>1. (Holds(reqRaw, Requests!ChildExited))' => Holds(reqRaw, Requests!ChildExited)
      BY <2>3, <2>5 DEF Holds
    <3>2. InOrder => \A p \in 1 .. Len(reqRaw') : reqRaw'[p] # Requests!ChildExited
      BY ONLY <2>9 DEF Holds
    <3> QED
      BY <1>0, <1>1, <2>1, <2>8, <3>1, <3>2 DEF ExitBehind
  <2> QED
    BY <1>0, <1>1, <2>1, <2>2, <2>4, <2>7, <2>10 DEF StreamEnds
<1>3. CASE Requests!ReadEnd
  BY <1>0, <1>1, <1>3 DEF Requests!ReadEnd, AnswerOnItsWay, StreamEnds, ExitBehind, InOrder
<1>4. CASE Requests!SeeExit
  BY <1>0, <1>1, <1>4 DEF Requests!SeeExit, AnswerOnItsWay, StreamEnds, ExitBehind, InOrder
<1>5. CASE Requests!ReportExit
  <2>1. /\ reqMonitor = "BARRIER" /\ reqMonitor' = "DONE"
        /\ reqRaw' = Append(reqRaw, Requests!ChildExited)
        /\ (reqLate' = reqLate /\ reqReader # "RUNNING") \/ reqLate' = TRUE
        /\ UNCHANGED <<reqStdout, reqReader, reqProcess>>
    BY <1>5 DEF Requests!ReportExit
  <2>2. /\ reqRaw' \in Seq(Lines \cup {Requests!ChildExited})
        /\ Len(reqRaw) \in Nat /\ Len(reqRaw') = Len(reqRaw) + 1
        /\ \A p \in 1 .. Len(reqRaw) : reqRaw'[p] = reqRaw[p]
    BY ONLY <1>0, <2>1, Appended, Elements
  <2>3. \A l : Holds(reqRaw', l) <=> Holds(reqRaw, l) \/ l = Requests!ChildExited
    BY ONLY <1>0, <2>1, HoldsMore
  <2>4. AnswerOnItsWay'
    BY <1>0, <2>1, <2>3 DEF AnswerOnItsWay
  <2>5. \A p \in 1 .. Len(reqRaw) : reqRaw[p] # Requests!ChildExited
    BY <2>1 DEF ExitBehind, Holds
  <2>6. \A p \in 1 .. Len(reqRaw') : reqRaw'[p] = Requests!ChildExited => p = Len(reqRaw')
    BY ONLY <2>2, <2>5
  <2>7. (InOrder' => InOrder /\ reqReader' = "DONE") /\ reqLate' \in BOOLEAN
    BY <2>1 DEF InOrder
  <2>8. ExitBehind'
    BY <1>0, <1>1, <2>1, <2>6, <2>7 DEF ExitBehind
  <2> QED
    BY <1>0, <1>1, <2>1, <2>2, <2>4, <2>7, <2>8 DEF StreamEnds
<1> QED
  BY <1>2, <1>3, <1>4, <1>5

\* The dispatcher: an answer goes to its caller, the exit to all who are left.
LEMMA DispatchStep ==
    ASSUME RequestInv, Requests!Dispatch
    PROVE  RequestInv'
<1> DEFINE head == Head(reqRaw)
<1>1. /\ reqHeld = {} /\ reqRaw # <<>> /\ reqRaw' = Tail(reqRaw)
      /\ UNCHANGED <<reqPc, reqMailbox, reqRet, reqInbox, reqPipes, reqWritten, reqStdout,
                     reqReader, reqMonitor, reqLate, reqProcess>>
  BY DEF Requests!Dispatch, Requests!calls, Requests!runtime, Requests!threads
<1>2. RequestTypes
  BY DEF RequestInv
<1>3. reqRaw \in Seq(Lines \cup {Requests!ChildExited})
  BY <1>2 DEF RequestTypes
<1>4. /\ head \in Lines \cup {Requests!ChildExited}
      /\ reqRaw' \in Seq(Lines \cup {Requests!ChildExited})
      /\ Len(reqRaw) \in Nat \ {0} /\ Len(reqRaw') = Len(reqRaw) - 1
      /\ \A p \in 1 .. Len(reqRaw) - 1 : reqRaw'[p] = reqRaw[p + 1]
      /\ head = reqRaw[1]
  BY ONLY <1>1, <1>3, HoldsHead
<1>5. \A l : Holds(reqRaw, l) <=> l = head \/ Holds(reqRaw', l)
  BY ONLY <1>1, <1>3, HoldsHead
<1>6. StreamEnds'
  BY <1>1 DEF RequestInv, StreamEnds
<1>7. ASSUME reqPending' \subseteq reqPending, reqPending' \in SUBSET Ids,
             reqHeld' \subseteq [id : Ids, what : Told],
             \A g, h \in reqHeld' : g.id = h.id => g = h,
             \A h \in reqHeld' : h.id \in reqPending \ reqPending',
             \A i \in Ids : head = Requests!Answer(i) => i \notin reqPending',
             \A h \in reqHeld' : h.what \in GoneTold
               => reqMonitor = "DONE" /\ (InOrder => h.id \notin reqWritten)
      PROVE  RequestInv'
  <2>1. RequestTypes'
    BY <1>1, <1>2, <1>4, <1>7 DEF RequestTypes
  <2>2. Hands'
    BY <1>1, <1>2, <1>7 DEF RequestInv, RequestTypes, Hands, Requests!NoLeakedPending,
       Requests!ToldOnce
  <2>3. AnswerOnItsWay'
    BY <1>1, <1>2, <1>5, <1>7 DEF RequestInv, RequestTypes, AnswerOnItsWay
  <2>4. InOrder => \A p \in 1 .. Len(reqRaw') :
                      reqRaw'[p] = Requests!ChildExited => p = Len(reqRaw')
    <3>1. InOrder => \A p \in 1 .. Len(reqRaw) :
                       reqRaw[p] = Requests!ChildExited => p = Len(reqRaw)
      BY DEF RequestInv, ExitBehind
    <3> QED
      BY ONLY <1>4, <3>1
  <2>5. (Holds(reqRaw, Requests!ChildExited))' => Holds(reqRaw, Requests!ChildExited)
    BY <1>5 DEF Holds
  <2>6. \A i \in Ids : SaidGone(i)' =>
           SaidGone(i) \/ (reqMonitor = "DONE" /\ (InOrder => i \notin reqWritten))
    BY <1>1, <1>7 DEF SaidGone
  <2>7. InOrder' <=> InOrder
    BY <1>1 DEF InOrder
  <2>8. ExitBehind'
    <3>1. ExitBehind
      BY DEF RequestInv
    <3>2. (Holds(reqRaw, Requests!ChildExited))' \/ (\E i \in Ids : SaidGone(i)')
            => reqMonitor' = "DONE"
      BY <1>1, <2>5, <2>6, <3>1 DEF ExitBehind
    <3>3. InOrder' => \A i \in Ids : SaidGone(i)' => i \notin reqWritten'
      BY <1>1, <2>6, <2>7, <3>1 DEF ExitBehind
    <3>4. (reqMonitor = "DONE" /\ InOrder => reqReader = "DONE")'
      BY <1>1, <2>7, <3>1 DEF ExitBehind
    <3> QED
      BY <2>4, <2>7, <3>2, <3>3, <3>4 DEF ExitBehind
  <2> QED
    BY <1>6, <2>1, <2>2, <2>3, <2>8 DEF RequestInv
<1>8. reqPending \subseteq Ids /\ \A i, j : Requests!Answer(i) = Requests!Answer(j) => i = j
  BY <1>2 DEF RequestTypes, Requests!Answer
<1>9. CASE Requests!DispatchAnswer
  <2>1. PICK i \in Ids : head = Requests!Answer(i)
    BY <1>4, <1>9 DEF Requests!DispatchAnswer, Lines, Requests!Event, Requests!Oversized,
       Requests!ChildExited
  <2>2. head.id = i
    BY <2>1 DEF Requests!Answer
  <2>3. CASE i \in reqPending
    <3>1. reqHeld' = {[id |-> i, what |-> "RESPONSE"]} /\ reqPending' = reqPending \ {i}
      BY <1>9, <2>2, <2>3 DEF Requests!DispatchAnswer
    <3> QED
      BY <1>7, <1>8, <2>1, <2>3, <3>1 DEF Told, GoneTold
  <2>4. CASE i \notin reqPending
    <3>1. reqHeld' = {} /\ reqPending' = reqPending
      BY <1>1, <1>9, <2>2, <2>4 DEF Requests!DispatchAnswer
    <3> QED
      BY <1>7, <1>8, <2>1, <2>4, <3>1
  <2> QED
    BY <2>3, <2>4
<1>10. CASE Requests!DispatchExit
  <2>1. /\ head = Requests!ChildExited /\ reqPending' = {}
        /\ reqHeld' = {[id |-> i, what |-> "CHILD_EXITED"] : i \in reqPending}
    BY <1>4, <1>10 DEF Requests!DispatchExit, Lines, Requests!Event, Requests!Oversized,
       Requests!Answer
  <2>2. reqMonitor = "DONE"
    BY <1>5, <2>1 DEF RequestInv, ExitBehind
  <2>3. InOrder => reqPending \cap reqWritten = {}
    <3> SUFFICES ASSUME InOrder, NEW i \in reqPending \cap reqWritten PROVE FALSE
      OBVIOUS
    <3>1. Holds(reqStdout, Requests!Answer(i)) \/ Holds(reqRaw, Requests!Answer(i))
      BY DEF RequestInv, AnswerOnItsWay
    <3>2. reqStdout = <<>> /\ \A p \in 1 .. Len(reqRaw) :
                       reqRaw[p] = Requests!ChildExited => p = Len(reqRaw)
      BY <2>2 DEF RequestInv, ExitBehind, StreamEnds
    <3>3. Len(reqRaw) = 1
      BY ONLY <1>4, <2>1, <3>2
    <3>4. Requests!Answer(i) # Requests!ChildExited
      BY DEF Requests!Answer, Requests!ChildExited
    <3> QED
      BY ONLY <1>4, <2>1, <3>1, <3>2, <3>3, <3>4 DEF Holds
  <2> QED
    BY <1>7, <1>8, <2>1, <2>2, <2>3 DEF Told, GoneTold
<1>11. CASE Requests!DispatchOther
  <2>1. \A i : head # Requests!Answer(i)
    BY <1>11 DEF Requests!DispatchOther, Requests!Answer
  <2> QED
    BY <1>1, <1>7, <1>8, <1>11, <2>1 DEF Requests!DispatchOther
<1> QED
  BY <1>9, <1>10, <1>11 DEF Requests!Dispatch

\* A sender that was taken out sends; at the end of the stream those who are left are
\* told.
LEMMA SendStep ==
    ASSUME RequestInv, Requests!Send \/ Requests!DispatchEnd
    PROVE  RequestInv'
<1> USE DEF RequestInv, RequestTypes, Requests!calls, Requests!runtime, Requests!threads
<1>1. ASSUME NEW h \in reqHeld, reqMailbox' = [reqMailbox EXCEPT ![h.id] = h.what],
             reqHeld' = reqHeld \ {h},
             UNCHANGED <<reqPc, reqRet, reqInbox, reqPending, reqPipes, reqWritten, reqStdout,
                         reqReader, reqMonitor, reqLate, reqProcess, reqRaw>>
      PROVE  RequestInv'
  <2>1. h.id \in Ids /\ h.what \in Told /\ reqMailbox' \in [Ids -> Told \cup {"EMPTY"}]
    BY <1>1
  <2>2. Hands'
    BY <1>1, <2>1 DEF Hands, Requests!NoLeakedPending, Requests!ToldOnce
  <2>3. \A i \in Ids : SaidGone(i)' => SaidGone(i)
    BY <1>1, <2>1 DEF SaidGone
  <2>4. ExitBehind'
    BY <1>1, <2>3 DEF ExitBehind, InOrder
  <2> QED
    BY <1>1, <2>1, <2>2, <2>4 DEF AnswerOnItsWay, StreamEnds
<1>2. CASE Requests!DispatchEnd
  <2>1. /\ reqHeld = {} /\ reqRaw = <<>> /\ reqReader # "RUNNING" /\ reqMonitor = "DONE"
        /\ reqHeld' = {[id |-> i, what |-> "STREAM_CLOSED"] : i \in reqPending}
        /\ reqPending' = {}
        /\ UNCHANGED <<reqPc, reqMailbox, reqRet, reqInbox, reqPipes, reqWritten, reqStdout,
                       reqReader, reqMonitor, reqLate, reqProcess, reqRaw>>
    BY <1>2 DEF Requests!DispatchEnd
  <2>2. InOrder => reqPending \cap reqWritten = {}
    BY <2>1 DEF ExitBehind, StreamEnds, AnswerOnItsWay, Holds
  <2>3. Hands'
    BY <2>1 DEF Hands, Requests!NoLeakedPending, Requests!ToldOnce
  <2>4. ExitBehind'
    BY <2>1, <2>2 DEF ExitBehind, InOrder, SaidGone, Holds
  <2> QED
    BY <2>1, <2>3, <2>4 DEF AnswerOnItsWay, StreamEnds, Told, GoneTold
<1> QED
  BY <1>1, <1>2 DEF Requests!Send

\* Every step of the callers, of the runtime and of the three threads keeps RequestInv.
LEMMA RequestStep == RequestInv /\ [Requests!Next]_Requests!vars => RequestInv'
<1> SUFFICES ASSUME RequestInv, [Requests!Next]_Requests!vars PROVE RequestInv'
  OBVIOUS
<1>1. CASE UNCHANGED Requests!vars
  BY <1>1 DEF Requests!vars, RequestInv, RequestTypes, Hands, AnswerOnItsWay, StreamEnds,
     ExitBehind, InOrder, SaidGone, Holds, Requests!NoLeakedPending, Requests!ToldOnce
<1>2. CASE Requests!Next
  BY <1>2, CallerStep, RuntimeStep, ReaderStep, DispatchStep, SendStep
     DEF Requests!Next, Requests!ThreadStep
<1> QED
  BY <1>1, <1>2

\* No request is lost or told twice (NoLeakedPending, ToldOnce), and one that was told
\* of the exit had no answer unless somebody stopped listening (ExitAfterOutput): for
\* every set of calls and every output of the runtime, whatever the callers do while
\* reader, monitor and dispatcher run.
THEOREM RequestsStayAccounted == Requests!Spec => []RequestsAccounted
<1>1. Requests!Init => RequestInv
  <2> SUFFICES ASSUME Requests!Init PROVE RequestInv
    OBVIOUS
  <2>1. RequestTypes /\ ~reqLate /\ reqReader = "RUNNING" /\ reqMonitor = "POLLING"
    <3>1. /\ reqPc \in [Ids -> {"IDLE", "WRITE", "WAIT", "REMOVE", "DONE"}]
          /\ reqMailbox \in [Ids -> Told \cup {"EMPTY"}]
          /\ reqRet \in [Ids -> Told \cup {"NONE", "WRITE_FAILED", "TIMEOUT", "CANCELLED"}]
      BY DEF Requests!Init
    <3>2. reqStdout \in Seq(Lines) /\ reqRaw \in Seq(Lines \cup {Requests!ChildExited})
      BY SMT DEF Requests!Init
    <3> QED
      BY <3>1, <3>2 DEF Requests!Init, RequestTypes
  <2>2. Hands
    BY DEF Requests!Init, Hands, Requests!NoLeakedPending, Requests!ToldOnce
  <2>3. AnswerOnItsWay /\ StreamEnds
    BY DEF Requests!Init, AnswerOnItsWay, StreamEnds
  <2>4. \A i \in Ids : ~SaidGone(i)
    BY DEF Requests!Init, SaidGone, GoneTold
  <2>5. reqRaw = <<>>
    BY DEF Requests!Init
  <2>6. ExitBehind
    BY <2>1, <2>4, <2>5 DEF ExitBehind, InOrder, Holds
  <2> QED
    BY <2>1, <2>2, <2>3, <2>6 DEF RequestInv
<1> QED
  BY <1>1, RequestStep, RequestsFollow, PTL DEF Requests!Spec
=============================================================================
