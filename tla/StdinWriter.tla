---------------------------- MODULE StdinWriter ----------------------------
(***************************************************************************)
(* The one pipe to a runtime's stdin (crates/zcode-driver/src/lib.rs).     *)
(* send blocks on the mutex and on a full pipe.  respond_before does not   *)
(* block: it tries the mutex until its deadline, switches the descriptor   *)
(* to O_NONBLOCK, writes what the pipe takes, and restores the flags.      *)
(*                                                                         *)
(* A frame is a run of FrameLength chunks, the last of which ends the      *)
(* line.  Time is the one event that matters: a deadline has passed.       *)
(***************************************************************************)
EXTENDS Naturals, Sequences, SequencesExt

CONSTANTS
    Senders,        \* threads that send a frame, blocking
    Responders,     \* threads that answer before a deadline
    FrameLength,    \* chunks of a frame
    Capacity,       \* chunks the pipe holds
    Nobody          \* holder of a free mutex

Writers == Senders \cup Responders

WritersAssumption == Senders \cap Responders = {} /\ Nobody \notin Writers
FrameAssumption == FrameLength \in Nat \ {0} /\ Capacity \in Nat \ {0}

VARIABLES
    pc,         \* IDLE, LOCKING, WRITING, RESTORING, DONE
    offset,     \* chunks of its frame a writer has written
    ret,        \* NONE, OK, TIMEOUT, FAILED
    expired,    \* responders whose deadline has passed
    lock,       \* holder of the stdin mutex
    nonblock,   \* O_NONBLOCK is set on the descriptor
    stream,     \* every chunk ever written
    consumed,   \* how many of them the runtime has read
    open        \* the runtime holds the other end

vars == <<pc, offset, ret, expired, lock, nonblock, stream, consumed, open>>
pipe == <<stream, consumed, open>>

Chunk == [writer : Writers, part : 1 .. FrameLength]

Init ==
    /\ pc = [w \in Writers |-> "IDLE"]
    /\ offset = [w \in Writers |-> 0]
    /\ ret = [w \in Writers |-> "NONE"]
    /\ expired = {}
    /\ lock = Nobody
    /\ nonblock = FALSE
    /\ stream = <<>> /\ consumed = 0 /\ open = TRUE

Go(w, place) == pc' = [pc EXCEPT ![w] = place]
Full == Len(stream) - consumed >= Capacity

Call(w) ==
    /\ pc[w] = "IDLE"
    /\ Go(w, "LOCKING")
    /\ UNCHANGED <<offset, ret, expired, lock, nonblock, pipe>>

\* The pipe takes the next chunk of the frame.
Put(w) ==
    /\ open /\ ~Full
    /\ offset[w] < FrameLength
    /\ stream' = Append(stream, [writer |-> w, part |-> offset[w] + 1])
    /\ offset' = [offset EXCEPT ![w] = @ + 1]
    /\ UNCHANGED <<consumed, open>>

Leave(w, what) ==
    /\ lock' = Nobody
    /\ ret' = [ret EXCEPT ![w] = what]
    /\ Go(w, "DONE")

-----------------------------------------------------------------------------
(***************************************************************************)
(* send                                                                    *)
(***************************************************************************)

SendLock(w) ==
    /\ pc[w] = "LOCKING" /\ lock = Nobody
    /\ lock' = w
    /\ Go(w, "WRITING")
    /\ UNCHANGED <<offset, ret, expired, nonblock, pipe>>

\* writeln! writes until the frame is out, and waits while the pipe is full.
SendChunk(w) ==
    /\ pc[w] = "WRITING"
    /\ Put(w)
    /\ UNCHANGED <<pc, ret, expired, lock, nonblock>>

\* Mutant of SendDone: one write is taken for all of the frame.
SendDoneShort(w) ==
    /\ pc[w] = "WRITING" /\ offset[w] > 0
    /\ Leave(w, "OK")
    /\ UNCHANGED <<offset, expired, nonblock, pipe>>

SendDone(w) ==
    /\ pc[w] = "WRITING" /\ offset[w] = FrameLength
    /\ Leave(w, "OK")
    /\ UNCHANGED <<offset, expired, nonblock, pipe>>

SendFails(w) ==
    /\ pc[w] = "WRITING" /\ offset[w] < FrameLength /\ ~open
    /\ Leave(w, "FAILED")
    /\ UNCHANGED <<offset, expired, nonblock, pipe>>

SendStep(w) == SendLock(w) \/ SendChunk(w) \/ SendDone(w) \/ SendFails(w)

-----------------------------------------------------------------------------
(***************************************************************************)
(* respond_before                                                          *)
(***************************************************************************)

\* remaining_before: the deadline of a call in progress passes.
Expire(w) ==
    /\ pc[w] \notin {"IDLE", "DONE"} /\ w \notin expired
    /\ expired' = expired \cup {w}
    /\ UNCHANGED <<pc, offset, ret, lock, nonblock, pipe>>

\* Mutants of TryLock: the mutex is not taken; the mutex is waited for.
TryLockIgnored(w) ==
    /\ pc[w] = "LOCKING"
    /\ lock' = w /\ nonblock' = TRUE /\ Go(w, "WRITING") /\ UNCHANGED ret
    /\ UNCHANGED <<offset, expired, pipe>>

TryLockBlocking(w) ==
    /\ pc[w] = "LOCKING" /\ lock = Nobody
    /\ lock' = w /\ nonblock' = TRUE /\ Go(w, "WRITING") /\ UNCHANGED ret
    /\ UNCHANGED <<offset, expired, pipe>>

\* try_lock, then the flags; given up when the deadline has passed.
TryLock(w) ==
    /\ pc[w] = "LOCKING"
    /\ \/ /\ w \notin expired /\ lock = Nobody
          /\ lock' = w
          /\ nonblock' = TRUE
          /\ Go(w, "WRITING")
          /\ UNCHANGED ret
       \/ /\ w \in expired
          /\ ret' = [ret EXCEPT ![w] = "TIMEOUT"]
          /\ Go(w, "DONE")
          /\ UNCHANGED <<lock, nonblock>>
    /\ UNCHANGED <<offset, expired, pipe>>

\* write_all_before: one write.
WriteChunk(w) ==
    /\ pc[w] = "WRITING" /\ w \notin expired
    /\ Put(w)
    /\ UNCHANGED <<pc, ret, expired, lock, nonblock>>

\* It ends: all is written and flushed, the deadline passes, or the pipe is closed.
WriteEnds(w, what) ==
    /\ pc[w] = "WRITING"
    /\ \/ what = "OK" /\ offset[w] = FrameLength /\ w \notin expired
       \/ what = "TIMEOUT" /\ w \in expired
       \/ what = "FAILED" /\ offset[w] < FrameLength /\ w \notin expired /\ ~open
    /\ ret' = [ret EXCEPT ![w] = what]
    /\ Go(w, "RESTORING")
    /\ UNCHANGED <<offset, expired, lock, nonblock, pipe>>

\* Mutant of Restore: the flags are restored after a complete write only.
RestoreOnSuccess(w) ==
    /\ pc[w] = "RESTORING"
    /\ nonblock' = (nonblock /\ ret[w] # "OK")
    /\ lock' = Nobody
    /\ Go(w, "DONE")
    /\ UNCHANGED <<offset, ret, expired, pipe>>

\* The flags are restored, whatever the write came to, and the mutex is released.
Restore(w) ==
    /\ pc[w] = "RESTORING"
    /\ nonblock' = FALSE
    /\ lock' = Nobody
    /\ Go(w, "DONE")
    /\ UNCHANGED <<offset, ret, expired, pipe>>

RespondStep(w) ==
    \/ TryLock(w)
    \/ WriteChunk(w)
    \/ \E what \in {"OK", "TIMEOUT", "FAILED"} : WriteEnds(w, what)
    \/ Restore(w)

-----------------------------------------------------------------------------
\* The runtime reads, or goes away.
RuntimeReads ==
    /\ open /\ consumed < Len(stream)
    /\ consumed' = consumed + 1
    /\ UNCHANGED <<pc, offset, ret, expired, lock, nonblock, stream, open>>

RuntimeCloses ==
    /\ open
    /\ open' = FALSE
    /\ UNCHANGED <<pc, offset, ret, expired, lock, nonblock, stream, consumed>>

Next ==
    \/ \E w \in Writers : Call(w)
    \/ \E w \in Senders : SendStep(w)
    \/ \E w \in Responders : RespondStep(w) \/ Expire(w)
    \/ RuntimeReads \/ RuntimeCloses

Spec == Init /\ [][Next]_vars

\* Time passes and responders are scheduled; a runtime need not read.
FairSpec == Spec /\ \A w \in Responders : WF_vars(RespondStep(w)) /\ WF_vars(Expire(w))

-----------------------------------------------------------------------------
(***************************************************************************)
(* Properties                                                              *)
(***************************************************************************)

\* A blocking send never meets a descriptor in O_NONBLOCK, which would cut its frame
\* short: the flag is set only while a responder holds the mutex.
NonblockOnlyHeld == nonblock => lock \in Responders

\* Frames are not mixed: a chunk follows the one before it in its frame, and a frame
\* begins behind a whole frame, or behind one that its writer gave up.
FramesContiguous ==
    \A p \in 1 .. Len(stream) :
        IF stream[p].part > 1
          THEN /\ p > 1
               /\ stream[p - 1] = [stream[p] EXCEPT !.part = @ - 1]
          ELSE p > 1 /\ stream[p - 1].part < FrameLength
                 => ret[stream[p - 1].writer] \in {"TIMEOUT", "FAILED"}

\* An answer that is reported as sent is whole in the pipe.
SentIsWhole ==
    \A w \in Writers :
        ret[w] = "OK" => Contains(stream, [writer |-> w, part |-> FrameLength])

\* respond_before returns once its deadline has passed, also while a send blocks on a
\* full pipe with the mutex in its hands.
RespondReturns == \A w \in Responders : pc[w] = "LOCKING" ~> pc[w] = "DONE"
=============================================================================
