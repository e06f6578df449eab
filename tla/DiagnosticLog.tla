--------------------------- MODULE DiagnosticLog ---------------------------
(***************************************************************************)
(* The failure log of the daemon: DiagnosticLogger with its bounded queue, *)
(* its writer thread and the count of what it dropped, and the             *)
(* RotatingDiagnosticWriter behind it (crates/zcode-agentd/src/lib.rs).    *)
(* Threads of the scheduler submit and never wait; the sink may fail at    *)
(* any write, also halfway through a rotation.                             *)
(*                                                                         *)
(* A line is the number of its submission, a marker is Marker; every line  *)
(* takes one unit of the file.  A line that is too long is dropped like    *)
(* one that finds the queue full.  A write of the sink takes all or        *)
(* nothing; a copy that fails leaves a prefix.                             *)
(***************************************************************************)
EXTENDS Naturals, FiniteSets, Sequences, SequencesExt

CONSTANTS
    Capacity,   \* DIAGNOSTIC_QUEUE_CAPACITY, 32 in the code
    FileCap,    \* DIAGNOSTIC_FILE_BYTES
    MaxLines,   \* bound on the submissions
    MaxFaults   \* bound on the failures of the sink

LogBounds == {Capacity, FileCap} \subseteq Nat \ {0} /\ {MaxLines, MaxFaults} \subseteq Nat

Marker == 0

VARIABLES
    submitted,  \* how many lines were submitted
    queue,      \* the channel
    dropped,    \* the counter
    pc,         \* where the writer thread is
    line,       \* the line it has taken
    count,      \* the drops it reports
    main,       \* the log file
    first,      \* its .1
    second,     \* its .2
    log,        \* every line and marker the sink has taken, in order
    reported,   \* the sum of the markers among them
    faults      \* how often the sink failed

vars == <<submitted, queue, dropped, pc, line, count, main, first, second, log, reported, faults>>
channel == <<submitted, queue, dropped>>
files == <<main, first, second, log>>

Init ==
    /\ submitted = 0 /\ queue = << >> /\ dropped = 0
    /\ pc = "RECV" /\ line = Marker /\ count = 0
    /\ main = << >> /\ first = << >> /\ second = << >> /\ log = << >>
    /\ reported = 0 /\ faults = 0

\* DiagnosticLogger::submit: try_send, or one more drop
Submit ==
    /\ submitted < MaxLines
    /\ submitted' = submitted + 1
    /\ \/ Len(queue) < Capacity /\ queue' = Append(queue, submitted + 1) /\ UNCHANGED dropped
       \/ dropped' = dropped + 1 /\ UNCHANGED queue
    /\ UNCHANGED <<pc, line, count, files, reported, faults>>

\* recv
Receive ==
    /\ pc = "RECV" /\ queue # << >>
    /\ line' = Head(queue) /\ queue' = Tail(queue)
    /\ pc' = "SWAP"
    /\ UNCHANGED <<submitted, dropped, count, files, reported, faults>>

\* Mutant of Swap: the counter is read and not reset
SwapKeeps ==
    /\ pc = "SWAP"
    /\ count' = dropped /\ UNCHANGED dropped
    /\ pc' = IF dropped > 0 THEN "MARKER" ELSE "LINE"
    /\ UNCHANGED <<submitted, queue, line, files, reported, faults>>

\* pending_drops.swap(0)
Swap ==
    /\ pc = "SWAP"
    /\ count' = dropped /\ dropped' = 0
    /\ pc' = IF dropped > 0 THEN "MARKER" ELSE "LINE"
    /\ UNCHANGED <<submitted, queue, line, files, reported, faults>>

\* What is being written: the marker, or the line
Writing == IF count > 0 THEN Marker ELSE line

\* Mutant of Open: a full file takes one more line
OpenFull ==
    /\ pc \in {"MARKER", "LINE"}
    /\ pc' = IF Len(main) > FileCap THEN "TO SECOND" ELSE "APPEND"
    /\ UNCHANGED <<channel, line, count, files, reported, faults>>

\* RotatingDiagnosticWriter::write opens the file and looks whether there is room
Open ==
    /\ pc \in {"MARKER", "LINE"}
    /\ pc' = IF Len(main) + 1 > FileCap THEN "TO SECOND" ELSE "APPEND"
    /\ UNCHANGED <<channel, line, count, files, reported, faults>>

\* copy_tail(.1, .2)
CopySecond ==
    /\ pc = "TO SECOND"
    /\ second' = first
    /\ pc' = "TO FIRST"
    /\ UNCHANGED <<channel, line, count, main, first, log, reported, faults>>

\* Mutant of CopyFirst: the file is truncated before it is copied
CopyFirstCut ==
    /\ pc = "TO FIRST"
    /\ first' = << >> /\ main' = << >>
    /\ pc' = "CUT"
    /\ UNCHANGED <<channel, line, count, second, log, reported, faults>>

\* copy_tail(path, .1)
CopyFirst ==
    /\ pc = "TO FIRST"
    /\ first' = main
    /\ pc' = "CUT"
    /\ UNCHANGED <<channel, line, count, main, second, log, reported, faults>>

\* set_len(0)
Cut ==
    /\ pc = "CUT"
    /\ main' = << >>
    /\ pc' = "APPEND"
    /\ UNCHANGED <<channel, line, count, first, second, log, reported, faults>>

\* The write succeeds: the line follows its marker
Write ==
    /\ pc = "APPEND"
    /\ main' = Append(main, Writing) /\ log' = Append(log, Writing)
    /\ IF count > 0
       THEN reported' = reported + count /\ count' = 0 /\ pc' = "LINE" /\ UNCHANGED line
       ELSE pc' = "RECV" /\ line' = Marker /\ UNCHANGED <<count, reported>>
    /\ UNCHANGED <<channel, first, second, faults>>

\* Mutant of Fails: a line that could not be written is queued again
FailsRetries ==
    /\ pc \in {"TO SECOND", "TO FIRST", "CUT", "APPEND"} /\ faults < MaxFaults
    /\ faults' = faults + 1
    /\ IF count > 0
       THEN dropped' = dropped + count /\ count' = 0 /\ pc' = "LINE" /\ UNCHANGED <<line, queue>>
       ELSE queue' = Append(queue, line) /\ pc' = "RECV" /\ line' = Marker
            /\ UNCHANGED <<count, dropped>>
    /\ UNCHANGED <<submitted, files, reported>>

\* An error of the sink: what was to be reported, or the line, counts again.  A
\* copy may have got part of the way.
Fails ==
    /\ pc \in {"TO SECOND", "TO FIRST", "CUT", "APPEND"} /\ faults < MaxFaults
    /\ faults' = faults + 1
    /\ \E n \in 0 .. FileCap :
          /\ second' = IF pc = "TO SECOND" /\ n < Len(first) THEN SubSeq(first, 1, n) ELSE second
          /\ first' = IF pc = "TO FIRST" /\ n < Len(main) THEN SubSeq(main, 1, n) ELSE first
    /\ IF count > 0
       THEN dropped' = dropped + count /\ count' = 0 /\ pc' = "LINE" /\ UNCHANGED line
       ELSE dropped' = dropped + 1 /\ pc' = "RECV" /\ line' = Marker /\ UNCHANGED count
    /\ UNCHANGED <<submitted, queue, main, log, reported>>

Next ==
    \/ Submit \/ Receive \/ Swap \/ Open
    \/ CopySecond \/ CopyFirst \/ Cut \/ Write \/ Fails

Spec == Init /\ [][Next]_vars

----------------------------------------------------------------------------
(* Properties.                                                             *)

Lines == {i \in DOMAIN log : log[i] # Marker}
InHand == IF line = Marker THEN 0 ELSE 1

\* Every line submitted is in the log, on its way, or counted exactly once: as
\* reported by a marker, in the counter, or in the writer's hand.
EveryLineAccounted ==
    submitted = Cardinality(Lines) + reported + dropped + count + Len(queue) + InHand

\* Lines reach the log in the order of their submission and once.
LogInOrder == \A i, j \in Lines : i < j => log[i] < log[j]

OnDisk == ToSet(main) \cup ToSet(first)

\* A rotation, interrupted anywhere by an error of the sink and tried again, never
\* loses the newest FileCap records: they are in the file or in its .1.
NewestOnDisk ==
    \A i \in DOMAIN log : i + FileCap > Len(log) => log[i] \in OnDisk

\* No file outgrows its cap, rotations that failed included.
FilesBounded == \A file \in {main, first, second} : Len(file) <= FileCap
============================================================================
