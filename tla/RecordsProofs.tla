---------------------------- MODULE RecordsProofs ----------------------------
(***************************************************************************)
(* Theorems about what the daemon records of a runtime: the event log of a *)
(* task (EventLog), for every number of runs, records and threads that     *)
(* finish a run, with and without failing writes; and its permission       *)
(* requests (Interaction), for every set of responders and correlation     *)
(* ids, every size of the cache and any number of requests and runs.       *)
(***************************************************************************)
EXTENDS MCRecords, Sequences, TLAPS

(***************************************************************************)
(* The inductive invariant of the event log                                *)
(***************************************************************************)

EventRow == [run : Runs, seq : Nat \ {0}, source : Nat \ {0}, kind : {"EVENT", "TERMINAL"}]

SinkState == [error : BOOLEAN, last : Nat, terminal : Nat, written : BOOLEAN]

LogTypes ==
    /\ phase \in {"QUEUED", "ACTIVE", "TERMINAL"}
    /\ epoch \in 0 .. MaxRuns
    /\ lastSeq \in Nat
    /\ events \subseteq EventRow
    /\ gate \in [Runs -> {"NONE", "RUNNING", "CLOSED", "GONE"}]
    /\ published \in [Runs -> Nat]
    /\ ended \in [Runs -> BOOLEAN]
    /\ sink \in [Runs -> SinkState]
    /\ writing \in [Runs -> Finishers \cup {Nobody}]
    /\ pc \in [Finishers -> {"IDLE", "APPEND", "PERSIST", "FALLBACK"}]
    /\ run \in [Finishers -> 0 .. MaxRuns]
    /\ saved \in Nat \cup {Nobody}

\* A run whose epoch is not reached has said nothing.
Unborn ==
    /\ \A r \in Runs : gate[r] = "NONE" <=> epoch < r
    /\ \A r \in Runs : gate[r] = "NONE" => published[r] = 0 /\ sink[r] = NewSink /\ ~ended[r]
    /\ \A e \in events : gate[e.run] # "NONE"
    /\ phase # "QUEUED" \/ saved # Nobody => epoch \in Runs

\* The gate of a run that a thread finishes is closed, or gone with the daemon.
FinishedIsClosed ==
    \A f \in Finishers : pc[f] # "IDLE" => run[f] \in Runs /\ gate[run[f]] \in {"CLOSED", "GONE"}

\* What a sink has counted: no more than was published, and exactly that while the gate
\* is open and no write has failed; then every record is in the log.
SinkCounts ==
    \A r \in Runs :
        /\ sink[r].last <= published[r]
        /\ ~ended[r] => published[r] <= MaxEvents /\ sink[r].terminal = None
        /\ sink[r].terminal # None => sink[r].last = sink[r].terminal /\ sink[r].terminal # 0
        /\ gate[r] = "RUNNING" /\ ~sink[r].error /\ ~ended[r] =>
              /\ sink[r].last = published[r]
              /\ \A n \in 1 .. published[r] : \E d \in events :
                    d.run = r /\ d.source = n /\ d.kind = "EVENT"

\* A source number is used once, and the one kept for the terminal event is behind all
\* the others; there is no terminal event while the gate is open.
SourcesAgree ==
    /\ \A e, d \in events : e.run = d.run /\ e.source = d.source => e = d
    /\ \A e \in events : e.kind = "EVENT" => e.source < TerminalSource(e.run)
    /\ \A e \in events : e.kind = "TERMINAL" =>
          gate[e.run] # "RUNNING" /\ e.source = TerminalSource(e.run)

\* NextSeqFree for a task that is queued again: unless the count starts anew, in which
\* case the primary key stops a run that has a first record.
QueuedInOrder ==
    phase = "QUEUED" /\ lastSeq # 0 /\ StartsAtOne(epoch) =>
        \A e \in events : e.run = epoch => e.seq <= lastSeq

LogInv ==
    /\ LogTypes /\ Unborn /\ FinishedIsClosed /\ SinkCounts /\ SourcesAgree
    /\ LogIsPrefix /\ NumberedInOrder /\ NextSeqFree /\ QueuedInOrder

\* The empty log.
LEMMA LogInit == Init => LogInv
BY BoundsAssumption
   DEF Init, LogInv, LogTypes, Unborn, FinishedIsClosed, SinkCounts, SourcesAgree, LogIsPrefix,
       NumberedInOrder, NextSeqFree, QueuedInOrder, NewSink, None, Runs, SinkState, TerminalSource

(***************************************************************************)
(* One record                                                              *)
(***************************************************************************)

\* What a record of run r adds when it is written: the task is in that epoch and not
\* terminal, the number is free, and the run had no record of that source number.
Written(r, n, kind) ==
    /\ phase # "TERMINAL" /\ epoch = r /\ ~Recorded(r, n)
    /\ \A e \in events : e.run = r => e.seq # lastSeq + 1
    /\ events' = events \cup {[run |-> r, seq |-> lastSeq + 1, source |-> n, kind |-> kind]}
    /\ lastSeq' = lastSeq + 1

\* append_lifecycle writes that record or finds it.
LEMMA AppendCases ==
    ASSUME NEW r, NEW n, NEW kind, AppendLifecycle(r, n, kind)
    PROVE  (Recorded(r, n) /\ UNCHANGED <<events, lastSeq>>) \/ Written(r, n, kind)
BY DEF AppendLifecycle, Written, Rejected, Insert

\* A record behind all records of its run keeps the numbers in order.
LEMMA WrittenInOrder ==
    ASSUME LogTypes, NEW r \in Runs, NEW n \in Nat \ {0}, NEW kind \in {"EVENT", "TERMINAL"},
           Written(r, n, kind), UNCHANGED <<phase, epoch>>,
           \A e \in events : e.run = r => e.source < n,
           NumberedInOrder, NextSeqFree, QueuedInOrder
    PROVE  NumberedInOrder' /\ NextSeqFree' /\ QueuedInOrder' /\ events' \subseteq EventRow
<1> DEFINE new == [run |-> r, seq |-> lastSeq + 1, source |-> n, kind |-> kind]
<1>0. /\ events' = events \cup {new} /\ new \in EventRow /\ lastSeq' = lastSeq + 1
      /\ new.run = r /\ new.seq = lastSeq + 1 /\ new.source = n
      /\ lastSeq \in Nat /\ events \subseteq EventRow /\ epoch = r /\ phase # "TERMINAL"
  BY DEF Written, LogTypes, EventRow
<1> HIDE DEF new
<1>1. \A e \in events : e.seq \in Nat \ {0} /\ e.source \in Nat \ {0}
  BY <1>0 DEF EventRow
<1>2. ASSUME StartsAtOne(r)' PROVE \A e \in events : e.run = r => e.seq <= lastSeq
  <2>1. PICK f \in events' : f.run = r /\ f.seq = 1 /\ f.source = 1
    BY <1>2 DEF StartsAtOne
  <2>2. CASE f = new
    BY <2>1, <2>2, <1>0, <1>1
  <2>3. CASE f \in events
    <3>1. StartsAtOne(r)
      BY <2>1, <2>3 DEF StartsAtOne
    <3>2. lastSeq # 0
      BY <2>1, <2>3, <1>0 DEF Written
    <3>3. CASE phase = "QUEUED"
      BY <3>1, <3>2, <3>3, <1>0 DEF QueuedInOrder
    <3>4. CASE phase = "ACTIVE"
      BY <3>4, <1>0 DEF NextSeqFree
    <3> QED
      BY <3>3, <3>4, <1>0 DEF LogTypes
  <2> QED
    BY <2>1, <2>2, <2>3, <1>0
<1>3. NumberedInOrder'
  <2> SUFFICES ASSUME NEW e \in events', NEW d \in events', StartsAtOne(e.run)', d.run = e.run,
                      e.source < d.source
               PROVE  e.seq < d.seq
    BY DEF NumberedInOrder
  <2>1. CASE e.run # r
    <3>1. e \in events /\ d \in events
      BY <2>1, <1>0
    <3>2. StartsAtOne(e.run)
      BY <2>1, <1>0 DEF StartsAtOne
    <3> QED
      BY <3>1, <3>2 DEF NumberedInOrder
  <2>2. CASE e.run = r /\ d = new
    <3>1. e \in events
      BY <2>2, <1>0
    <3> QED
      BY <3>1, <2>2, <1>0, <1>1, <1>2
  <2>3. CASE e.run = r /\ d # new
    <3>1. d \in events /\ d.source < n
      BY <2>3, <1>0
    <3>2. e \in events
      BY <3>1, <1>0, <1>1
    <3>3. CASE StartsAtOne(r)
      BY <3>1, <3>2, <3>3, <2>3 DEF NumberedInOrder
    <3>4. CASE ~StartsAtOne(r)
      <4>1. PICK f \in events' : f.run = r /\ f.seq = 1 /\ f.source = 1
        BY <2>3 DEF StartsAtOne
      <4>2. f = new
        BY <4>1, <3>4, <1>0 DEF StartsAtOne
      <4> QED
        BY <4>1, <4>2, <1>0, <1>1, <3>1, <3>2, <2>3
    <3> QED
      BY <3>3, <3>4
  <2> QED
    BY <2>1, <2>2, <2>3
<1>4. NextSeqFree'
  BY <1>0, <1>1 DEF NextSeqFree
<1>5. QueuedInOrder'
  <2> SUFFICES ASSUME StartsAtOne(r)', NEW e \in events', e.run = r
               PROVE  e.seq <= lastSeq + 1
    BY <1>0 DEF QueuedInOrder, StartsAtOne
  <2> QED
    BY <1>0, <1>1, <1>2
<1> QED
  BY <1>0, <1>3, <1>4, <1>5

\* When the log stays and the task stays in its phase, or leaves the queue for a run
\* that has no record, or ends, the numbers stay in order.
LEMMA QuietInOrder ==
    ASSUME LogTypes, NumberedInOrder, NextSeqFree, QueuedInOrder, UNCHANGED events,
           \/ UNCHANGED <<phase, epoch, lastSeq>>
           \/ phase' = "ACTIVE" /\ \A e \in events : e.run # epoch'
           \/ phase' = "TERMINAL"
           \/ phase' = "QUEUED" /\ lastSeq' = 0
    PROVE  NumberedInOrder' /\ NextSeqFree' /\ QueuedInOrder'
BY DEF NumberedInOrder, NextSeqFree, QueuedInOrder, StartsAtOne

(***************************************************************************)
(* The steps                                                               *)
(***************************************************************************)

\* What the step of another run, or of the task, leaves to a run.
SameRun(r) ==
    /\ gate'[r] = gate[r] /\ published'[r] = published[r]
    /\ ended'[r] = ended[r] /\ sink'[r] = sink[r]

\* A source number a sink hands out, as a number.
LEMMA TerminalSourceType ==
    ASSUME LogTypes, SinkCounts, NEW r \in Runs
    PROVE  TerminalSource(r) \in Nat \ {0} /\ sink[r] \in SinkState /\ published[r] \in Nat
BY DEF LogTypes, SinkCounts, TerminalSource, SinkState

\* The task: a claim opens the gate of a run nobody has seen.
LEMMA ClaimStep == LogInv /\ Claim => LogInv'
<1> SUFFICES ASSUME LogInv, Claim PROVE LogInv'
  OBVIOUS
<1> USE BoundsAssumption DEF LogInv
<1>0. /\ epoch + 1 \in Runs /\ gate[epoch + 1] = "NONE" /\ gate'[epoch + 1] = "RUNNING"
      /\ \A r \in Runs \ {epoch + 1} : gate'[r] = gate[r]
      /\ gate' \in [Runs -> {"NONE", "RUNNING", "CLOSED", "GONE"}]
      /\ published[epoch + 1] = 0 /\ sink[epoch + 1] = NewSink /\ ~ended[epoch + 1]
      /\ phase' = "ACTIVE" /\ epoch' = epoch + 1
      /\ \A e \in events : e.run # epoch + 1
      /\ UNCHANGED <<lastSeq, events, published, ended, sink, writing, pc, run, saved>>
  <2>1. epoch + 1 \in Runs /\ epoch < epoch + 1
    BY DEF LogTypes, Claim, Runs
  <2>2. gate[epoch + 1] = "NONE"
    BY <2>1 DEF Unborn
  <2>3. \A e \in events : e.run # epoch + 1
    BY <2>2 DEF Unborn
  <2>4. published[epoch + 1] = 0 /\ sink[epoch + 1] = NewSink /\ ~ended[epoch + 1]
    BY <2>1, <2>2 DEF Unborn
  <2> QED
    BY <2>1, <2>2, <2>3, <2>4 DEF LogTypes, Claim, publishers, finishers
<1>1. LogTypes'
  BY <1>0 DEF LogTypes, Runs
<1>2. Unborn'
  <2>1. epoch \in 0 .. MaxRuns /\ events \subseteq EventRow
    BY DEF LogTypes
  <2>2. \A r \in Runs : gate'[r] = "NONE" <=> epoch + 1 < r
    BY <1>0, <2>1 DEF Unborn, Runs
  <2>3. \A e \in events : gate'[e.run] # "NONE"
    BY <1>0, <2>1 DEF Unborn, EventRow
  <2> QED
    BY <1>0, <2>2, <2>3 DEF Unborn
<1>3. FinishedIsClosed'
  BY <1>0 DEF FinishedIsClosed, LogTypes, Unborn
<1>4. SinkCounts'
  BY <1>0 DEF SinkCounts, NewSink, LogTypes
<1>5. SourcesAgree'
  BY <1>0 DEF SourcesAgree, TerminalSource, LogTypes, EventRow
<1>6. LogIsPrefix'
  BY <1>0 DEF LogIsPrefix
<1>7. NumberedInOrder' /\ NextSeqFree' /\ QueuedInOrder'
  BY <1>0, QuietInOrder
<1> QED
  BY <1>1, <1>2, <1>3, <1>4, <1>5, <1>6, <1>7

\* The task: the steps that change its row and no run.
LEMMA RowStep == LogInv /\ (Requeue \/ Restore \/ Recover) => LogInv'
<1> SUFFICES ASSUME LogInv, Requeue \/ Restore \/ Recover PROVE LogInv'
  OBVIOUS
<1> USE DEF LogInv
<1>0. /\ UNCHANGED <<epoch, events, gate, published, ended, sink, writing, pc, run>>
      /\ phase' = "TERMINAL" \/ (phase' = "QUEUED" /\ lastSeq' = 0)
      /\ lastSeq' \in Nat /\ saved' \in Nat \cup {Nobody}
      /\ epoch \in Runs
  BY DEF LogTypes, Unborn, Requeue, Restore, Recover, publishers, finishers
<1>1. LogTypes'
  BY <1>0 DEF LogTypes
<1>2. Unborn' /\ FinishedIsClosed' /\ SinkCounts' /\ SourcesAgree' /\ LogIsPrefix'
  BY <1>0 DEF Unborn, FinishedIsClosed, SinkCounts, SourcesAgree, LogIsPrefix, TerminalSource
<1>3. NumberedInOrder' /\ NextSeqFree' /\ QueuedInOrder'
  BY <1>0, QuietInOrder
<1> QED
  BY <1>1, <1>2, <1>3

\* The gate closes, or all gates go with the daemon: what a closed gate needs is less.
LEMMA GateStep ==
    ASSUME LogInv, Crash \/ (\E r \in Runs : CloseGate(r)) \/ (\E f \in Finishers : StartFinish(f))
    PROVE  LogInv'
<1> USE DEF LogInv
<1>0. /\ UNCHANGED <<phase, epoch, lastSeq, events, published, ended, sink>>
      /\ gate' \in [Runs -> {"NONE", "RUNNING", "CLOSED", "GONE"}]
      /\ \A r \in Runs : gate'[r] = "NONE" <=> gate[r] = "NONE"
      /\ \A r \in Runs : gate'[r] = "RUNNING" => gate[r] = "RUNNING"
      /\ writing' \in [Runs -> Finishers \cup {Nobody}]
      /\ pc' \in [Finishers -> {"IDLE", "APPEND", "PERSIST", "FALLBACK"}]
      /\ run' \in [Finishers -> 0 .. MaxRuns]
      /\ saved' \in {saved, Nobody}
      /\ FinishedIsClosed'
  <2>1. CASE Crash
    BY <2>1 DEF LogTypes, Crash, store, publishers, FinishedIsClosed
  <2>2. ASSUME NEW r \in Runs, CloseGate(r)
        PROVE  /\ UNCHANGED <<phase, epoch, lastSeq, events, published, ended, sink, writing, pc, run, saved>>
               /\ gate[r] = "RUNNING" /\ gate' = [gate EXCEPT ![r] = "CLOSED"]
    BY <2>2 DEF CloseGate, store, publishers, finishers
  <2>3. ASSUME NEW r \in Runs, CloseGate(r) PROVE <1>0!:
    BY <2>2, <2>3 DEF LogTypes, FinishedIsClosed
  <2>4. ASSUME NEW f \in Finishers, StartFinish(f) PROVE <1>0!:
    <3>1. epoch \in Runs
      BY <2>4 DEF StartFinish, Unborn
    <3> QED
      BY <2>4, <3>1 DEF LogTypes, StartFinish, store, publishers, FinishedIsClosed
  <2> QED
    BY <2>1, <2>3, <2>4
<1>1. LogTypes'
  BY <1>0 DEF LogTypes
<1>2. Unborn'
  BY <1>0 DEF Unborn, LogTypes, EventRow
<1>3. SinkCounts' /\ LogIsPrefix'
  BY <1>0 DEF SinkCounts, LogIsPrefix
<1>4. SourcesAgree'
  BY <1>0 DEF SourcesAgree, TerminalSource, LogTypes, EventRow
<1>5. NumberedInOrder' /\ NextSeqFree' /\ QueuedInOrder'
  BY <1>0, QuietInOrder
<1> QED
  BY <1>0, <1>1, <1>2, <1>3, <1>4, <1>5

\* The states of a sink that has seen a record, and then failed or kept it as terminal.
LEMMA SeenStates ==
    ASSUME LogTypes, NEW r \in Runs
    PROVE  /\ Seen(r) \in SinkState /\ Seen(r).last = published[r] + 1
           /\ Seen(r).error = sink[r].error /\ Seen(r).terminal = sink[r].terminal
           /\ \A s \in SinkState :
                 /\ [s EXCEPT !.error = TRUE] \in SinkState
                 /\ [s EXCEPT !.error = TRUE].error
                 /\ [s EXCEPT !.error = TRUE].last = s.last
                 /\ [s EXCEPT !.error = TRUE].terminal = s.terminal
           /\ \A s \in SinkState, n \in Nat :
                 /\ [s EXCEPT !.terminal = n] \in SinkState
                 /\ [s EXCEPT !.terminal = n].terminal = n
                 /\ [s EXCEPT !.terminal = n].last = s.last
                 /\ [s EXCEPT !.terminal = n].error = s.error
<1>1. sink[r] \in SinkState /\ published[r] \in Nat
  BY DEF LogTypes
<1>2. /\ Seen(r) \in SinkState /\ Seen(r).last = published[r] + 1
      /\ Seen(r).error = sink[r].error /\ Seen(r).terminal = sink[r].terminal
  BY <1>1 DEF Seen, SinkState
<1>3. ASSUME NEW s \in SinkState
      PROVE  /\ [s EXCEPT !.error = TRUE] \in SinkState
             /\ [s EXCEPT !.error = TRUE].error
             /\ [s EXCEPT !.error = TRUE].last = s.last
             /\ [s EXCEPT !.error = TRUE].terminal = s.terminal
  BY DEF SinkState
<1>4. ASSUME NEW s \in SinkState, NEW n \in Nat
      PROVE  /\ [s EXCEPT !.terminal = n] \in SinkState
             /\ [s EXCEPT !.terminal = n].terminal = n
             /\ [s EXCEPT !.terminal = n].last = s.last
             /\ [s EXCEPT !.terminal = n].error = s.error
  BY DEF SinkState
<1> QED
  BY <1>2, <1>3, <1>4

\* The publisher of a run moves and writes nothing: its sink counts the record and has
\* failed, or keeps a terminal record, or does not see it behind a gate that is closed.
LEMMA UnwrittenStep ==
    ASSUME LogInv, NEW r \in Runs, NEW s \in SinkState, NEW over \in BOOLEAN, ~ended[r],
           UNCHANGED <<phase, epoch, lastSeq, events, gate, writing, pc, run, saved>>,
           gate[r] # "NONE",
           published' = [published EXCEPT ![r] = @ + 1],
           ended' = [ended EXCEPT ![r] = over],
           ~over => published[r] < MaxEvents,
           sink' = [sink EXCEPT ![r] = s],
           \/ s = sink[r] /\ (gate[r] # "RUNNING" \/ sink[r].error)
           \/ /\ gate[r] = "RUNNING" /\ s.error
              /\ s.last = published[r] + 1 /\ s.terminal = sink[r].terminal
           \/ /\ gate[r] = "RUNNING" /\ over
              /\ s.last = published[r] + 1 /\ s.terminal = published[r] + 1
    PROVE  LogInv'
<1> USE BoundsAssumption DEF LogInv
<1>0. /\ sink[r] \in SinkState /\ published[r] \in Nat
      /\ published'[r] = published[r] + 1 /\ sink'[r] = s /\ ended'[r] = over
      /\ published' \in [Runs -> Nat] /\ ended' \in [Runs -> BOOLEAN] /\ sink' \in [Runs -> SinkState]
  BY DEF LogTypes
<1>1. \A q \in Runs \ {r} : SameRun(q)
  BY DEF SameRun, LogTypes
<1>2. \/ sink'[r] = sink[r] /\ (gate[r] # "RUNNING" \/ sink[r].error)
      \/ /\ gate[r] = "RUNNING" /\ sink'[r].error
         /\ sink'[r].last = published[r] + 1 /\ sink'[r].terminal = sink[r].terminal
      \/ /\ gate[r] = "RUNNING" /\ ended'[r]
         /\ sink'[r].last = published[r] + 1 /\ sink'[r].terminal = published[r] + 1
  BY <1>0
<1>3. sink[r].last <= published[r] /\ published[r] <= MaxEvents /\ sink[r].terminal = None
  BY DEF SinkCounts
<1>4. LogTypes'
  BY <1>0 DEF LogTypes
<1>5. Unborn' /\ FinishedIsClosed' /\ LogIsPrefix'
  BY <1>1 DEF Unborn, FinishedIsClosed, LogIsPrefix, SameRun
<1>6. SinkCounts'
  <2> SUFFICES ASSUME NEW q \in Runs
               PROVE  /\ sink'[q].last <= published'[q]
                      /\ ~ended'[q] => published'[q] <= MaxEvents /\ sink'[q].terminal = None
                      /\ sink'[q].terminal # None =>
                            sink'[q].last = sink'[q].terminal /\ sink'[q].terminal # 0
                      /\ gate[q] = "RUNNING" /\ ~sink'[q].error /\ ~ended'[q] =>
                            /\ sink'[q].last = published'[q]
                            /\ \A n \in 1 .. published'[q] : \E d \in events :
                                  d.run = q /\ d.source = n /\ d.kind = "EVENT"
    BY DEF SinkCounts
  <2>1. CASE q # r
    BY <2>1, <1>1 DEF SinkCounts, SameRun
  <2>2. CASE q = r
    BY <2>2, <1>0, <1>2, <1>3 DEF SinkState
  <2> QED
    BY <2>1, <2>2
<1>7. /\ \A q \in Runs \ {r} : TerminalSource(q)' = TerminalSource(q)
      /\ gate[r] # "RUNNING" => TerminalSource(r)' = TerminalSource(r)
      /\ TerminalSource(r) <= TerminalSource(r)'
      /\ TerminalSource(r) \in Nat /\ TerminalSource(r)' \in Nat
  BY <1>0, <1>1, <1>2, <1>3 DEF TerminalSource, SameRun, SinkState, None
<1>8. SourcesAgree'
  <2> USE DEF SourcesAgree
  <2>1. \A e \in events : e.run \in Runs /\ e.source \in Nat
    BY DEF LogTypes, EventRow
  <2>2. ASSUME NEW e \in events, e.kind = "EVENT" PROVE e.source < TerminalSource(e.run)'
    <3>1. e.source < TerminalSource(e.run) /\ e.source \in Nat /\ e.run \in Runs
      BY <2>1, <2>2
    <3>2. CASE e.run = r
      BY <3>1, <3>2, <1>7
    <3>3. CASE e.run # r
      BY <3>1, <3>3, <1>7
    <3> QED
      BY <3>2, <3>3
  <2>3. ASSUME NEW e \in events, e.kind = "TERMINAL"
        PROVE  gate[e.run] # "RUNNING" /\ e.source = TerminalSource(e.run)'
    BY <2>1, <2>3, <1>7
  <2> QED
    BY <2>2, <2>3
<1>9. NumberedInOrder' /\ NextSeqFree' /\ QueuedInOrder'
  BY QuietInOrder
<1> QED
  BY <1>4, <1>5, <1>6, <1>8, <1>9

\* A record that is no terminal is written behind all the others.
LEMMA WrittenEventStep ==
    ASSUME LogInv, NEW r \in Runs, ~ended[r], published[r] < MaxEvents,
           gate[r] = "RUNNING", ~sink[r].error,
           UNCHANGED <<phase, epoch, gate, ended, writing, pc, run, saved>>,
           published' = [published EXCEPT ![r] = @ + 1],
           AppendLifecycle(r, published[r] + 1, "EVENT"),
           sink' = [sink EXCEPT ![r] = Seen(r)]
    PROVE  LogInv'
<1> USE BoundsAssumption DEF LogInv
<1>0. /\ sink[r] \in SinkState /\ published[r] \in Nat
      /\ published'[r] = published[r] + 1 /\ sink'[r] \in SinkState
      /\ sink'[r].last = published[r] + 1 /\ sink'[r].terminal = sink[r].terminal
      /\ published' \in [Runs -> Nat] /\ sink' \in [Runs -> SinkState]
  BY DEF LogTypes, Seen, SinkState
<1>1. \A q \in Runs \ {r} : SameRun(q)
  BY DEF SameRun, LogTypes
<1>2. /\ sink[r].last = published[r] /\ sink[r].terminal = None
      /\ \A n \in 1 .. published[r] : \E d \in events :
            d.run = r /\ d.source = n /\ d.kind = "EVENT"
  BY DEF SinkCounts
<1>3. TerminalSource(r) = published[r] + 1 /\ TerminalSource(r)' = published[r] + 2
  BY <1>0, <1>2 DEF TerminalSource
<1>4. \A e \in events : e.run \in Runs /\ e.source \in Nat /\ e.kind \in {"EVENT", "TERMINAL"}
  BY DEF LogTypes, EventRow
<1>5. \A e \in events : e.run = r => e.source < published[r] + 1
  BY <1>3, <1>4 DEF SourcesAgree
<1>6. ~Recorded(r, published[r] + 1)
  BY <1>0, <1>4, <1>5 DEF Recorded
<1>7. Written(r, published[r] + 1, "EVENT")
  BY <1>6, AppendCases
<1>8. PICK new : /\ new = [run |-> r, seq |-> lastSeq + 1, source |-> published[r] + 1, kind |-> "EVENT"]
                 /\ events' = events \cup {new} /\ lastSeq' = lastSeq + 1
  BY <1>7 DEF Written
<1>9. new.run = r /\ new.source = published[r] + 1 /\ new.kind = "EVENT"
  BY <1>8
<1>10. NumberedInOrder' /\ NextSeqFree' /\ QueuedInOrder' /\ events' \subseteq EventRow
  BY <1>0, <1>5, <1>7, WrittenInOrder
<1>11. LogTypes'
  BY <1>0, <1>8, <1>10 DEF LogTypes
<1>12. Unborn' /\ FinishedIsClosed'
  BY <1>1, <1>8, <1>9 DEF Unborn, FinishedIsClosed, SameRun
<1>13. SinkCounts'
  <2> SUFFICES ASSUME NEW q \in Runs
               PROVE  /\ sink'[q].last <= published'[q]
                      /\ ~ended[q] => published'[q] <= MaxEvents /\ sink'[q].terminal = None
                      /\ sink'[q].terminal # None =>
                            sink'[q].last = sink'[q].terminal /\ sink'[q].terminal # 0
                      /\ gate[q] = "RUNNING" /\ ~sink'[q].error /\ ~ended[q] =>
                            /\ sink'[q].last = published'[q]
                            /\ \A n \in 1 .. published'[q] : \E d \in events' :
                                  d.run = q /\ d.source = n /\ d.kind = "EVENT"
    BY DEF SinkCounts
  <2>1. CASE q # r
    BY <2>1, <1>1, <1>8 DEF SinkCounts, SameRun
  <2>2. CASE q = r
    <3>1. ASSUME NEW n \in 1 .. published[r] + 1
          PROVE  \E d \in events' : d.run = q /\ d.source = n /\ d.kind = "EVENT"
      BY <2>2, <1>0, <1>2, <1>8, <1>9
    <3> QED
      BY <2>2, <3>1, <1>0, <1>2
  <2> QED
    BY <2>1, <2>2
<1>14. \A q \in Runs \ {r} : TerminalSource(q)' = TerminalSource(q)
  BY <1>1 DEF TerminalSource, SameRun
<1>15. SourcesAgree'
  <2> USE DEF SourcesAgree
  <2>1. ASSUME NEW e \in events', NEW d \in events', e.run = d.run, e.source = d.source PROVE e = d
    BY <2>1, <1>0, <1>4, <1>5, <1>8, <1>9
  <2>2. ASSUME NEW e \in events', e.kind = "EVENT" PROVE e.source < TerminalSource(e.run)'
    <3>1. CASE e = new
      BY <3>1, <1>0, <1>3, <1>9
    <3>2. CASE e \in events /\ e.run = r
      BY <3>2, <1>0, <1>3, <1>4, <1>5
    <3>3. CASE e \in events /\ e.run # r
      BY <2>2, <3>3, <1>4, <1>14
    <3> QED
      BY <3>1, <3>2, <3>3, <1>8
  <2>3. ASSUME NEW e \in events', e.kind = "TERMINAL"
        PROVE  gate[e.run] # "RUNNING" /\ e.source = TerminalSource(e.run)'
    <3>1. e \in events
      BY <2>3, <1>8, <1>9
    <3>2. e.run # r
      BY <2>3, <3>1
    <3> QED
      BY <2>3, <3>1, <3>2, <1>4, <1>14
  <2> QED
    BY <2>1, <2>2, <2>3
<1>16. LogIsPrefix'
  <2> SUFFICES ASSUME NEW e \in events', e.kind = "EVENT", NEW n \in 1 .. e.source
               PROVE  \E d \in events' : d.run = e.run /\ d.source = n /\ d.kind = "EVENT"
    BY DEF LogIsPrefix
  <2>1. CASE e \in events
    BY <2>1, <1>8 DEF LogIsPrefix
  <2>2. CASE e = new
    BY <2>2, <1>0, <1>2, <1>8, <1>9
  <2> QED
    BY <2>1, <2>2, <1>8
<1> QED
  BY <1>10, <1>11, <1>12, <1>13, <1>15, <1>16

\* StoreLifecycleSink::emit, of a record and of the terminal record.
LEMMA EmitStep ==
    ASSUME LogInv, NEW r \in Runs, Emit(r) PROVE LogInv'
<1>0. LogTypes /\ sink[r] \in SinkState /\ published[r] \in Nat
  BY DEF LogInv, LogTypes
<1>1. /\ gate[r] # "NONE" /\ ~ended[r] /\ published[r] < MaxEvents
      /\ published' = [published EXCEPT ![r] = @ + 1]
      /\ UNCHANGED <<phase, epoch, gate, ended, writing, pc, run, saved>>
      /\ ended' = [ended EXCEPT ![r] = FALSE]
  BY <1>0 DEF Emit, finishers, LogTypes
<1>2. CASE (gate[r] # "RUNNING" \/ sink[r].error) /\ UNCHANGED <<events, lastSeq, sink>>
  <2>1. sink' = [sink EXCEPT ![r] = sink[r]]
    BY <1>0, <1>2 DEF LogTypes
  <2> QED
    BY <1>0, <1>1, <1>2, <2>1, UnwrittenStep
<1>3. CASE /\ gate[r] = "RUNNING" /\ ~sink[r].error /\ AppendLifecycle(r, published[r] + 1, "EVENT")
           /\ sink' = [sink EXCEPT ![r] = Seen(r)]
  BY <1>1, <1>3, WrittenEventStep
<1>4. CASE /\ gate[r] = "RUNNING" /\ UNCHANGED <<events, lastSeq>>
           /\ sink' = [sink EXCEPT ![r] = [Seen(r) EXCEPT !.error = TRUE]]
  <2>1. PICK s : s = [Seen(r) EXCEPT !.error = TRUE]
    OBVIOUS
  <2>2. s \in SinkState /\ s.error /\ s.last = published[r] + 1 /\ s.terminal = sink[r].terminal
    BY <1>0, <2>1, SeenStates
  <2>3. sink' = [sink EXCEPT ![r] = s]
    BY <1>4, <2>1
  <2> QED
    BY <1>1, <1>4, <2>2, <2>3, UnwrittenStep
<1> QED
  BY <1>0, <1>2, <1>3, <1>4 DEF Emit, Deliver, LogTypes

LEMMA EmitTerminalStep ==
    ASSUME LogInv, NEW r \in Runs, EmitTerminal(r) PROVE LogInv'
<1>0. LogTypes /\ sink[r] \in SinkState /\ published[r] \in Nat
  BY DEF LogInv, LogTypes
<1>1. /\ gate[r] # "NONE" /\ ~ended[r]
      /\ published' = [published EXCEPT ![r] = @ + 1]
      /\ UNCHANGED <<phase, epoch, lastSeq, events, gate, writing, pc, run, saved>>
      /\ ended' = [ended EXCEPT ![r] = TRUE]
  BY <1>0 DEF EmitTerminal, finishers, store, LogTypes
<1>2. CASE gate[r] = "RUNNING" /\ ~sink[r].error
  <2>1. PICK s : s = [Seen(r) EXCEPT !.terminal = published[r] + 1]
    OBVIOUS
  <2>2. s \in SinkState /\ s.last = published[r] + 1 /\ s.terminal = published[r] + 1
    BY <1>0, <2>1, SeenStates
  <2>3. sink' = [sink EXCEPT ![r] = s]
    BY <1>2, <2>1 DEF EmitTerminal
  <2> QED
    BY <1>1, <1>2, <2>2, <2>3, UnwrittenStep
<1>3. CASE ~(gate[r] = "RUNNING" /\ ~sink[r].error)
  <2>1. sink' = [sink EXCEPT ![r] = sink[r]]
    BY <1>0, <1>3 DEF EmitTerminal, LogTypes
  <2> QED
    BY <1>0, <1>1, <1>3, <2>1, UnwrittenStep
<1> QED
  BY <1>2, <1>3

\* A step of a finisher that writes no event: it leaves what a sink counts and sees, and
\* may end the task.
LEMMA FinisherStep ==
    ASSUME LogInv,
           UNCHANGED <<epoch, lastSeq, events, gate, published, ended, run, saved>>,
           phase' \in {phase, "TERMINAL"}, phase' # phase => phase = "ACTIVE",
           sink' \in [Runs -> SinkState],
           \A q \in Runs : /\ sink'[q].last = sink[q].last /\ sink'[q].error = sink[q].error
                           /\ sink'[q].terminal = sink[q].terminal
                           /\ gate[q] = "NONE" => sink'[q] = sink[q],
           writing' \in [Runs -> Finishers \cup {Nobody}],
           pc' \in [Finishers -> {"IDLE", "APPEND", "PERSIST", "FALLBACK"}],
           \A f \in Finishers : pc'[f] # "IDLE" => pc[f] # "IDLE"
    PROVE  LogInv'
<1> USE DEF LogInv
<1>1. LogTypes'
  BY DEF LogTypes
<1>2. Unborn'
  BY DEF Unborn
<1>3. FinishedIsClosed'
  BY DEF FinishedIsClosed
<1>4. SinkCounts' /\ LogIsPrefix'
  BY DEF SinkCounts, LogIsPrefix
<1>5. SourcesAgree'
  BY DEF SourcesAgree, TerminalSource, LogTypes, EventRow
<1>6. NumberedInOrder' /\ NextSeqFree' /\ QueuedInOrder'
  BY QuietInOrder
<1> QED
  BY <1>1, <1>2, <1>3, <1>4, <1>5, <1>6

\* finish_general: the terminal event is written behind all the others, once.
LEMMA AppendTerminalStep ==
    ASSUME LogInv, NEW f \in Finishers, AppendTerminal(f) PROVE LogInv'
<1> USE DEF LogInv
<1>0. PICK r \in Runs : run[f] = r /\ gate[r] \in {"CLOSED", "GONE"}
  BY DEF AppendTerminal, FinishedIsClosed
<1>1. /\ UNCHANGED <<phase, epoch, gate, published, ended, sink, run, saved>>
      /\ writing' \in [Runs -> Finishers \cup {Nobody}]
      /\ pc' \in [Finishers -> {"IDLE", "APPEND", "PERSIST", "FALLBACK"}]
      /\ \A g \in Finishers : pc'[g] # "IDLE" => pc[g] # "IDLE"
      /\ UNCHANGED <<events, lastSeq>> \/ AppendLifecycle(r, TerminalSource(r), "TERMINAL")
  BY <1>0 DEF AppendTerminal, LogTypes, publishers
<1>2. CASE UNCHANGED <<events, lastSeq>>
  BY <1>1, <1>2, FinisherStep DEF LogTypes
<1>3. CASE Written(r, TerminalSource(r), "TERMINAL")
  <2>1. TerminalSource(r) \in Nat \ {0}
    BY TerminalSourceType
  <2>2. \A e \in events : e.run \in Runs /\ e.source \in Nat /\ e.kind \in {"EVENT", "TERMINAL"}
    BY DEF LogTypes, EventRow
  <2>3. \A e \in events : e.run = r => e.kind = "EVENT" /\ e.source < TerminalSource(r)
    BY <1>3, <2>2 DEF SourcesAgree, Written, Recorded
  <2>4. PICK new : /\ new = [run |-> r, seq |-> lastSeq + 1, source |-> TerminalSource(r),
                             kind |-> "TERMINAL"]
                   /\ events' = events \cup {new} /\ lastSeq' = lastSeq + 1
    BY <1>3 DEF Written
  <2>5. new.run = r /\ new.source = TerminalSource(r) /\ new.kind = "TERMINAL"
    BY <2>4
  <2>6. NumberedInOrder' /\ NextSeqFree' /\ QueuedInOrder' /\ events' \subseteq EventRow
    BY <1>1, <1>3, <2>1, <2>3, WrittenInOrder
  <2>7. LogTypes'
    BY <1>1, <2>4, <2>6 DEF LogTypes
  <2>8. Unborn' /\ FinishedIsClosed' /\ SinkCounts' /\ LogIsPrefix'
    BY <1>0, <1>1, <2>4, <2>5 DEF Unborn, FinishedIsClosed, SinkCounts, LogIsPrefix
  <2>9. \A q \in Runs : TerminalSource(q)' = TerminalSource(q)
    BY <1>1 DEF TerminalSource
  <2>10. SourcesAgree'
    <3>1. ASSUME NEW e \in events', NEW d \in events', e.run = d.run, e.source = d.source
          PROVE  e = d
      BY <3>1, <2>1, <2>2, <2>3, <2>4, <2>5 DEF SourcesAgree
    <3>2. ASSUME NEW e \in events', e.kind = "EVENT" PROVE e.source < TerminalSource(e.run)'
      BY <3>2, <2>2, <2>4, <2>5, <2>9 DEF SourcesAgree
    <3>3. ASSUME NEW e \in events', e.kind = "TERMINAL"
          PROVE  gate'[e.run] # "RUNNING" /\ e.source = TerminalSource(e.run)'
      BY <3>3, <1>0, <1>1, <2>2, <2>4, <2>5, <2>9 DEF SourcesAgree
    <3> QED
      BY <3>1, <3>2, <3>3 DEF SourcesAgree
  <2> QED
    BY <2>6, <2>7, <2>8, <2>10
<1> QED
  BY <1>1, <1>2, <1>3, AppendCases

\* persist_general_result and persist_general_completion.
LEMMA PersistStep ==
    ASSUME LogInv, NEW f \in Finishers, Persist(f) \/ Fallback(f) PROVE LogInv'
<1>0. LogTypes /\ (pc[f] # "IDLE" => run[f] \in Runs /\ gate[run[f]] # "NONE")
  BY DEF LogInv, FinishedIsClosed
<1>1. CASE Persist(f)
  <2>1. PICK r \in Runs : run[f] = r /\ gate[r] # "NONE"
    BY <1>0, <1>1 DEF Persist
  <2>2. /\ UNCHANGED <<epoch, lastSeq, events, gate, published, ended, run, saved>>
        /\ phase' \in {phase, "TERMINAL"} /\ (phase' # phase => phase = "ACTIVE")
        /\ sink' = sink \/ sink' = [sink EXCEPT ![r].written = TRUE]
        /\ writing' \in [Runs -> Finishers \cup {Nobody}]
        /\ pc' \in [Finishers -> {"IDLE", "APPEND", "PERSIST", "FALLBACK"}]
        /\ \A g \in Finishers : pc'[g] # "IDLE" => pc[g] # "IDLE"
    BY <1>0, <1>1, <2>1 DEF Persist, LogTypes, publishers
  <2>3. /\ sink' \in [Runs -> SinkState]
        /\ \A q \in Runs : /\ sink'[q].last = sink[q].last /\ sink'[q].error = sink[q].error
                           /\ sink'[q].terminal = sink[q].terminal
                           /\ gate[q] = "NONE" => sink'[q] = sink[q]
    <3>1. CASE sink' = sink
      BY <1>0, <3>1 DEF LogTypes
    <3>2. CASE sink' = [sink EXCEPT ![r].written = TRUE]
      <4>1. sink \in [Runs -> SinkState]
        BY <1>0 DEF LogTypes
      <4>2. \A q \in Runs \ {r} : sink'[q] = sink[q]
        BY <3>2, <4>1
      <4>3. /\ sink'[r] \in SinkState /\ sink'[r].last = sink[r].last
            /\ sink'[r].error = sink[r].error /\ sink'[r].terminal = sink[r].terminal
        BY <3>2, <4>1 DEF SinkState
      <4>4. sink' \in [Runs -> SinkState]
        BY <3>2, <4>1, <4>2, <4>3
      <4> QED
        BY <2>1, <4>2, <4>3, <4>4
    <3> QED
      BY <2>2, <3>1, <3>2
  <2> QED
    BY <2>2, <2>3, FinisherStep
<1>2. CASE Fallback(f)
  <2>1. /\ UNCHANGED <<epoch, lastSeq, events, gate, published, ended, run, saved, sink, writing>>
        /\ phase' \in {phase, "TERMINAL"} /\ (phase' # phase => phase = "ACTIVE")
        /\ pc' \in [Finishers -> {"IDLE", "APPEND", "PERSIST", "FALLBACK"}]
        /\ \A g \in Finishers : pc'[g] # "IDLE" => pc[g] # "IDLE"
    BY <1>0, <1>2 DEF Fallback, LogTypes, publishers
  <2> QED
    BY <1>0, <2>1, FinisherStep DEF LogTypes
<1> QED
  BY <1>1, <1>2

\* Every step keeps the invariant.
LEMMA LogStep == LogInv /\ [Next]_vars => LogInv'
<1> SUFFICES ASSUME LogInv, [Next]_vars PROVE LogInv'
  OBVIOUS
<1>1. CASE UNCHANGED vars
  BY <1>1 DEF vars, LogInv, LogTypes, Unborn, FinishedIsClosed, SinkCounts, SourcesAgree, LogIsPrefix,
              NumberedInOrder, NextSeqFree, QueuedInOrder, StartsAtOne, TerminalSource
<1>2. CASE Next
  BY <1>2, ClaimStep, RowStep, GateStep, EmitStep, EmitTerminalStep, AppendTerminalStep, PersistStep
     DEF Next, FinishStep
<1> QED
  BY <1>1, <1>2

\* What the invariant says of the log.
LEMMA LogInvIsSound == LogInv => LogIsSound
<1> SUFFICES ASSUME LogInv PROVE TerminalEventLast
  BY DEF LogInv, LogIsSound
<1>1. \A e \in events : e.kind \in {"EVENT", "TERMINAL"}
  BY DEF LogInv, LogTypes, EventRow
<1> QED
  BY <1>1 DEF LogInv, SourcesAgree, TerminalEventLast

\* For any number of runs, of records and of threads that finish a run at the same time,
\* and whether writes fail or not: the log of a run has no hole, ends with its one
\* terminal event, is numbered in order, and append_lifecycle never hands out a number
\* that is taken.
THEOREM LogStaysSound == Spec => []LogIsSound
BY LogInit, LogStep, LogInvIsSound, PTL DEF Spec

\* For any number of them: once a gate is closed, by a stop, a completion or a crash,
\* emit adds nothing to the log of that run, and finish_general its terminal event only.
THEOREM GateStaysClosed == Spec => ClosedGateFences
<1> DEFINE Fenced == \A r \in DOMAIN gate : gate[r] # "RUNNING" =>
                        \A e \in events' \ events : e.run = r => e.kind = "TERMINAL"
<1>1. LogInv /\ [Next]_vars => [Fenced]_vars
  <2> SUFFICES ASSUME LogInv, Next PROVE Fenced
    BY DEF vars
  <2>1. CASE UNCHANGED events
    BY <2>1
  <2>2. ASSUME NEW q \in Runs, Emit(q) PROVE Fenced
    <3>1. CASE gate[q] = "RUNNING"
      <4>1. UNCHANGED events \/ AppendLifecycle(q, published[q] + 1, "EVENT")
        BY <2>2, <3>1 DEF Emit, Deliver
      <4>2. \A e \in events' \ events : e.run = q
        BY <4>1, AppendCases DEF Written
      <4> QED
        BY <3>1, <4>2
    <3>2. CASE gate[q] # "RUNNING"
      BY <2>2, <3>2 DEF Emit
    <3> QED
      BY <3>1, <3>2
  <2>3. ASSUME NEW f \in Finishers, AppendTerminal(f) PROVE Fenced
    <3>1. UNCHANGED events \/ AppendLifecycle(run[f], TerminalSource(run[f]), "TERMINAL")
      BY <2>3 DEF AppendTerminal
    <3>2. \A e \in events' \ events : e.kind = "TERMINAL"
      BY <3>1, AppendCases DEF Written
    <3> QED
      BY <3>2
  <2>4. CASE UNCHANGED events \/ (\E q \in Runs : Emit(q)) \/ (\E f \in Finishers : AppendTerminal(f))
    BY <2>1, <2>2, <2>3, <2>4
  <2>5. UNCHANGED events \/ (\E q \in Runs : Emit(q)) \/ (\E f \in Finishers : AppendTerminal(f))
    BY DEF Next, FinishStep, Claim, Requeue, Restore, Crash, Recover, CloseGate, EmitTerminal,
           StartFinish, Persist, Fallback, store
  <2> QED
    BY <2>4, <2>5
<1> QED
  BY <1>1, LogInit, LogStep, PTL DEF Spec, ClosedGateFences

-----------------------------------------------------------------------------
(***************************************************************************)
(* Permission requests: the inductive invariant                            *)
(***************************************************************************)

\* The phases of a task whose run admits requests, or will.
Living == {"PREPARING", "RUNNING", "WAITING_INPUT"}

\* Where a responder is with the operation mutex held, with its claim made, and behind
\* the point where it has forgotten the offer or given up.
Holding == {"CHECK", "CLAIM", "CLAIMED", "WRITE", "WRITTEN", "COMPLETE", "RELEASE", "FAIL_CLOSED"}
Claimed == {"CLAIMED", "WRITE", "WRITTEN", "COMPLETE", "RELEASE"}
Past == {"COMPLETE", "RELEASE", "FAIL_CLOSED"}

AskKey == Keys \cup {Ask!NoKey}
AskDecision == Ask!Decision \cup {"NONE"}
AskRow == [state : {"ABSENT", "PENDING", "SENDING", "RESPONDED"}, key : AskKey,
           decision : AskDecision, run : Nat]
AskRequest == [id : Nat, key : AskKey, decision : AskDecision, run : Nat]
AskAnswer == [id : Nat, decision : AskDecision]

AskTypes ==
    /\ askPhase \in Living \cup {"CANCELLING", "TERMINAL"}
    /\ askRun \in Nat \ {0}
    /\ askRows \in [Ask!Seqs -> AskRow]
    /\ askIngress \in BOOLEAN /\ askSinkError \in BOOLEAN /\ askAlive \in BOOLEAN
    /\ askSeq \in 0 .. MaxSeq
    /\ askInPump \in AskKey
    /\ askCache \subseteq Keys
    /\ askRefused \subseteq Ask!Seqs
    /\ askAsked \in [Ask!Seqs -> AskKey]
    /\ askAnswers \in [Ask!Seqs -> Seq(AskAnswer)]
    /\ askOperation \in Responders \cup {Nobody}
    /\ askPc \in [Responders -> Holding \cup {"IDLE", "SESSION", "LOCK", "DONE"}]
    /\ askReq \in [Responders -> AskRequest]

\* A row that is there has a key, and was made in this run or an earlier one; no other
\* row of the task has the key.
AskRowsAgree ==
    /\ \A i \in Ask!Seqs : askRows[i].state = "ABSENT" => askRows[i] = Ask!NoRow
    /\ \A i \in Ask!Seqs : askRows[i].state # "ABSENT" =>
          askRows[i].key \in Keys /\ askRows[i].run \in 1 .. askRun
    /\ \A i, j \in Ask!Seqs : askRows[i].state # "ABSENT" /\ askRows[i].key = askRows[j].key => i = j

\* The task and its runtime: a run that ends settles its rows and loses its runtime,
\* and the request in the pump is the last one.
AskRunAgrees ==
    /\ askAlive <=> askPhase # "TERMINAL"
    /\ askPhase = "TERMINAL" => askCache = {}
    /\ askPhase \in Living => askIngress
    /\ askPhase \notin Living => \A i \in Ask!Seqs : askRows[i].state \notin Ask!Open
    /\ askInPump # Ask!NoKey => askSeq # 0 /\ askAsked[askSeq] = askInPump
    /\ askRefused \subseteq 1 .. askSeq

\* The operation mutex has one holder, and a responder that works knows its request.
AskHeld ==
    /\ \A t \in Responders : askPc[t] \in Holding <=> askOperation = t
    /\ \A t \in Responders : askPc[t] \notin {"IDLE", "DONE"} =>
          askReq[t].id \in Ask!Seqs /\ askReq[t].key \in Keys
    /\ \A t \in Responders : askPc[t] \in Holding \cup {"LOCK"} => askReq[t].run \in 1 .. askRun

\* Request j is the last of the run under key k.
AskLast(j, k) ==
    j \in 1 .. askSeq /\ askAsked[j] = k /\ \A i \in j + 1 .. askSeq : askAsked[i] # k

\* The holder of the mutex has answered under k, or has given up the run.
AskBurnt(k) ==
    \E t \in Responders :
        /\ askOperation = t /\ askReq[t].run = askRun
        /\ \/ askPc[t] = "WRITTEN" /\ askReq[t].key = k
           \/ askPc[t] \in {"RELEASE", "FAIL_CLOSED"}

\* An offer is of the last request with its key, which has no answer yet unless the
\* responder that gave it still holds the mutex.
AskOffersFresh ==
    /\ \A i \in Ask!Seqs : askSeq < i => askAnswers[i] = << >>
    /\ \A i \in Ask!Seqs : askAnswers[i] = << >> \/ Len(askAnswers[i]) = 1
    /\ \A k \in askCache : \E j \in Ask!Seqs :
          AskLast(j, k) /\ (askAnswers[j] = << >> \/ AskBurnt(k))

\* NoSilentLoss, from the time the task is prepared.
AskNothingLost ==
    \A i \in 1 .. askSeq :
        askPhase \in Living /\ ~askSinkError /\ (i = askSeq => askInPump = Ask!NoKey) =>
            askRows[i].run \in 1 .. askRun /\ askRows[i].key = askAsked[i]

\* In the first run every row is of a request of the run, and the row that a responder
\* has read stays as long as the run admits requests, in its claim from Claim on.
AskFirstRows ==
    askRun = 1 =>
        /\ \A i \in Ask!Seqs : askRows[i].state # "ABSENT" => i <= askSeq /\ askRows[i].key = askAsked[i]
        /\ \A t \in Responders : askPc[t] \notin {"IDLE", "DONE"} =>
              LET row == askRows[askReq[t].id] IN
              /\ askPhase \in Living => row.state # "ABSENT"
              /\ row.state # "ABSENT" => row.key = askReq[t].key
              /\ askPc[t] \in Claimed => row.state \in {"SENDING", "ABSENT"}
              /\ askPc[t] \in Claimed /\ row.state = "SENDING" => row.decision = askReq[t].decision

\* The offer of request i is there, for i and no later request; or the key has come
\* again and its record is in the pump; or the holder of the mutex is done with i.
AskOffered(i) ==
    \/ askAsked[i] \in askCache /\ AskLast(i, askAsked[i])
    \/ askInPump = askAsked[i] /\ i < askSeq /\ askAsked[i] \notin askCache
    \/ \E t \in Responders : askPc[t] \in Past /\ askReq[t].id = i

AskFirstOffers ==
    askRun = 1 /\ askPhase \in Living /\ ~askSinkError =>
        /\ \A i \in Ask!Seqs : askRows[i].state \in Ask!Open /\ i \notin askRefused => AskOffered(i)
        /\ askInPump # Ask!NoKey /\ askSeq \notin askRefused =>
              askInPump \in askCache \/ \E i \in Ask!Seqs : askRows[i].key = askInPump

\* A pending request has its offer, or the cache has refused its key, or the holder of
\* the mutex has forgotten it.
AskKnown(k) == k \in askCache \/ \E j \in askRefused : askAsked[j] = k

AskFirstPending ==
    askRun = 1 /\ askPhase \in Living =>
        /\ \A i \in Ask!Seqs : askRows[i].state \in Ask!Open =>
              AskKnown(askRows[i].key) \/ \E t \in Responders : askPc[t] \in Past /\ askReq[t].id = i
        /\ askInPump # Ask!NoKey =>
              AskKnown(askInPump) \/ \E i \in Ask!Seqs : askRows[i].key = askInPump

\* The runtime was told decision d under the key of request i.
AskTold(i, k, d) ==
    \E j \in 1 .. askSeq :
        /\ askAsked[j] = k /\ (j = i \/ i \in askRefused \/ askSinkError)
        /\ Len(askAnswers[j]) = 1 /\ askAnswers[j][1].decision = d

AskFirstTold ==
    askRun = 1 =>
        /\ \A i \in Ask!Seqs : askRows[i].state = "RESPONDED" =>
              AskTold(i, askRows[i].key, askRows[i].decision)
        /\ \A t \in Responders :
              askPc[t] \in {"WRITTEN", "COMPLETE"} /\ askRows[askReq[t].id].state = "SENDING" =>
                  AskTold(askReq[t].id, askReq[t].key, askReq[t].decision)

AskInv ==
    /\ AskTypes /\ AskRowsAgree /\ AskRunAgrees /\ AskHeld /\ AskOffersFresh
    /\ AskNothingLost /\ AskFirstRows /\ AskFirstOffers /\ AskFirstPending /\ AskFirstTold

\* The empty tables.
LEMMA AskInit == Ask!Init => AskInv
<1> SUFFICES ASSUME Ask!Init PROVE AskInv
  OBVIOUS
<1> USE AskBounds DEF Ask!Init, Ask!BoundsAssumption, Ask!NobodyAssumption
<1>1. AskTypes
  <2>1. Ask!NoRow \in AskRow /\ Ask!NoRequest \in AskRequest
    BY DEF AskRow, AskRequest, AskKey, AskDecision, Ask!NoRow, Ask!NoRequest
  <2>2. << >> \in Seq(AskAnswer)
    OBVIOUS
  <2>3. askAnswers \in [Ask!Seqs -> Seq(AskAnswer)]
    BY <2>2
  <2>4. /\ askRows \in [Ask!Seqs -> AskRow] /\ askReq \in [Responders -> AskRequest]
        /\ askAsked \in [Ask!Seqs -> AskKey]
    BY <2>1 DEF AskKey
  <2>5. askPc \in [Responders -> Holding \cup {"IDLE", "SESSION", "LOCK", "DONE"}]
    OBVIOUS
  <2>6. askPhase \in Living /\ askInPump \in AskKey /\ askSeq \in 0 .. MaxSeq
    BY DEF Living, AskKey
  <2>7. askIngress \in BOOLEAN /\ askSinkError \in BOOLEAN /\ askAlive \in BOOLEAN
    OBVIOUS
  <2>8. /\ askRun \in Nat \ {0} /\ askCache \subseteq Keys /\ askRefused \subseteq Ask!Seqs
        /\ askOperation \in Responders \cup {Nobody}
    OBVIOUS
  <2> HIDE DEF Ask!Init
  <2> QED
    BY <2>3, <2>4, <2>5, <2>6, <2>7, <2>8 DEF AskTypes
<1>2. AskRowsAgree /\ AskRunAgrees /\ AskHeld
  BY DEF AskRowsAgree, AskRunAgrees, AskHeld, Ask!NoRow, Ask!Open, Living, Holding
<1>3. AskOffersFresh /\ AskNothingLost
  BY DEF AskOffersFresh, AskNothingLost
<1>4. AskFirstRows /\ AskFirstOffers /\ AskFirstPending /\ AskFirstTold
  BY DEF AskFirstRows, AskFirstOffers, AskFirstPending, AskFirstTold, Ask!NoRow, Ask!Open
<1> QED
  BY <1>1, <1>2, <1>3, <1>4 DEF AskInv

\* The numbers of requests.
LEMMA AskSeqs ==
    ASSUME AskTypes
    PROVE  /\ Ask!Seqs \subseteq Nat \ {0} /\ askSeq \in Nat
           /\ \A i \in 1 .. askSeq : i \in Ask!Seqs
           /\ askSeq # 0 => askSeq \in Ask!Seqs
           /\ \A i \in Nat \ {0} : i <= askSeq => i \in 1 .. askSeq
BY AskBounds DEF AskTypes, Ask!BoundsAssumption, Ask!Seqs

\* A responder that works does not touch the rows: what it holds and where it is change.
\* Nothing that the others rely on is about those places.
LEMMA AskQuietStep ==
    ASSUME AskInv, NEW t \in Responders,
           UNCHANGED <<askPhase, askRun, askRows, askIngress, askSinkError, askAlive, askSeq, askInPump,
                       askCache, askRefused, askAsked, askAnswers>>,
           askOperation' \in Responders \cup {Nobody},
           askPc' \in [Responders -> Holding \cup {"IDLE", "SESSION", "LOCK", "DONE"}],
           askReq' \in [Responders -> AskRequest],
           \A u \in Responders \ {t} : askPc'[u] = askPc[u] /\ askReq'[u] = askReq[u],
           AskHeld',
           askPc[t] \notin {"WRITTEN", "COMPLETE", "RELEASE", "FAIL_CLOSED"},
           askPc'[t] \notin {"WRITTEN", "COMPLETE"} \cup Past,
           askPc'[t] \notin {"IDLE", "DONE"} =>
               LET row == askRows[askReq'[t].id] IN
               /\ askRun = 1 /\ askPhase \in Living => row.state # "ABSENT"
               /\ askRun = 1 /\ row.state # "ABSENT" => row.key = askReq'[t].key
               /\ askPc'[t] \in Claimed => askPc[t] \in Claimed /\ askReq'[t] = askReq[t]
    PROVE  AskInv'
<1> USE DEF AskInv
<1>1. AskTypes'
  BY DEF AskTypes
<1>2. AskRowsAgree' /\ AskRunAgrees' /\ AskNothingLost'
  BY DEF AskRowsAgree, AskRunAgrees, AskNothingLost
<1>3. \A k : AskBurnt(k) => AskBurnt(k)'
  BY DEF AskBurnt, AskHeld, Holding
<1>4. \A j, k : AskLast(j, k)' <=> AskLast(j, k)
  BY DEF AskLast
<1>5. AskOffersFresh'
  BY <1>3, <1>4 DEF AskOffersFresh
<1>6. AskFirstRows'
  BY DEF AskFirstRows, Claimed
<1>7. \A i : AskOffered(i) => AskOffered(i)'
  BY <1>4 DEF AskOffered, Past
<1>8. AskFirstOffers'
  BY <1>7 DEF AskFirstOffers
<1>9. AskFirstPending'
  BY DEF AskFirstPending, AskKnown, Past
<1>10. AskFirstTold'
  BY DEF AskFirstTold, AskTold
<1> QED
  BY <1>1, <1>2, <1>5, <1>6, <1>8, <1>9, <1>10

\* The row is read, the session is found and the mutex is taken.
LEMMA AskReadStep ==
    ASSUME AskInv, NEW t \in Responders, NEW id \in Ask!Seqs, NEW d \in Ask!Decision,
           Ask!Read(t, id, d)
    PROVE  AskInv'
<1> USE DEF AskInv
<1>0. /\ UNCHANGED <<askPhase, askRun, askRows, askIngress, askSinkError, askAlive, askSeq, askInPump,
                     askCache, askRefused, askAsked, askAnswers, askOperation>>
      /\ askPc[t] = "IDLE" /\ askRows[id].state # "ABSENT"
      /\ \/ /\ askReq' = [askReq EXCEPT ![t] =
                             [id |-> id, key |-> askRows[id].key, decision |-> d, run |-> 0]]
            /\ askPc' = [askPc EXCEPT ![t] = "SESSION"]
         \/ askReq' = askReq /\ askPc' = [askPc EXCEPT ![t] = "DONE"]
  BY DEF Ask!Read, Ask!Returns, Ask!Go, Ask!task, Ask!runtime
<1>1. askRows[id].key \in Keys /\ id \in Nat /\ d \in AskDecision
  BY <1>0, AskSeqs DEF AskRowsAgree, AskDecision
<1>2. PICK q \in AskRequest : q.id = id /\ q.key = askRows[id].key
                              /\ q = [id |-> id, key |-> askRows[id].key, decision |-> d, run |-> 0]
  BY <1>1 DEF AskRequest, AskKey
<1>3. /\ askPc' \in [Responders -> Holding \cup {"IDLE", "SESSION", "LOCK", "DONE"}]
      /\ askReq' \in [Responders -> AskRequest]
      /\ \A u \in Responders \ {t} : askPc'[u] = askPc[u] /\ askReq'[u] = askReq[u]
      /\ (askPc'[t] = "SESSION" /\ askReq'[t] = q) \/ askPc'[t] = "DONE"
  <2>1. askPc \in [Responders -> Holding \cup {"IDLE", "SESSION", "LOCK", "DONE"}]
        /\ askReq \in [Responders -> AskRequest]
    BY DEF AskTypes
  <2>2. CASE /\ askReq' = [askReq EXCEPT ![t] = q]
             /\ askPc' = [askPc EXCEPT ![t] = "SESSION"]
    BY <2>1, <2>2
  <2>3. CASE askReq' = askReq /\ askPc' = [askPc EXCEPT ![t] = "DONE"]
    BY <2>1, <2>3
  <2> QED
    BY <1>0, <1>2, <2>2, <2>3
<1>4. AskHeld'
  BY <1>0, <1>1, <1>2, <1>3 DEF AskHeld, Holding
<1> QED
  BY <1>0, <1>2, <1>3, <1>4, AskQuietStep DEF AskTypes, Holding, Claimed, Past

\* A step of a responder that changes its own place, and the mutex with it.
LEMMA AskGoStep ==
    ASSUME AskInv, NEW t \in Responders, NEW place \in {"LOCK", "CHECK", "CLAIM", "WRITE", "DONE"},
           UNCHANGED <<askPhase, askRun, askRows, askIngress, askSinkError, askAlive, askSeq, askInPump,
                       askCache, askRefused, askAsked, askAnswers>>,
           askPc' = [askPc EXCEPT ![t] = place],
           \/ /\ UNCHANGED askReq
              /\ askPc[t] \in {"LOCK", "CHECK", "CLAIM", "CLAIMED"} \/ (askPc[t] = "SESSION" /\ place = "DONE")
           \/ askPc[t] = "SESSION" /\ askReq' = [askReq EXCEPT ![t].run = askRun] /\ place = "LOCK",
           place = "WRITE" => askPc[t] = "CLAIMED",
           IF place \in Holding THEN askOperation' = t /\ askOperation \in {t, Nobody}
           ELSE \/ askOperation = t /\ askOperation' = Nobody
                \/ askOperation # t /\ askOperation' = askOperation
    PROVE  AskInv'
<1> USE AskBounds DEF AskInv, Ask!NobodyAssumption
<1>0. /\ askPc' \in [Responders -> Holding \cup {"IDLE", "SESSION", "LOCK", "DONE"}]
      /\ askPc'[t] = place
      /\ \A u \in Responders \ {t} : askPc'[u] = askPc[u]
  BY DEF AskTypes, Holding
<1>1. /\ askReq' \in [Responders -> AskRequest]
      /\ \A u \in Responders \ {t} : askReq'[u] = askReq[u]
      /\ askReq'[t].id = askReq[t].id /\ askReq'[t].key = askReq[t].key
      /\ IF askPc[t] = "SESSION" /\ place = "LOCK" THEN askReq'[t].run = askRun
                                                  ELSE askReq'[t] = askReq[t]
  <2>1. askReq \in [Responders -> AskRequest] /\ askRun \in Nat
    BY DEF AskTypes
  <2>2. CASE UNCHANGED askReq /\ ~(askPc[t] = "SESSION" /\ place = "LOCK")
    BY <2>1, <2>2
  <2>3. CASE askPc[t] = "SESSION" /\ askReq' = [askReq EXCEPT ![t].run = askRun] /\ place = "LOCK"
    BY <2>1, <2>3 DEF AskRequest
  <2> QED
    BY <2>2, <2>3
<1>2. AskHeld'
  <2>1. \A u \in Responders : askPc'[u] \in Holding <=> askOperation' = u
    BY <1>0 DEF AskHeld, Holding
  <2>2. \A u \in Responders : askPc'[u] \notin {"IDLE", "DONE"} =>
          askReq'[u].id \in Ask!Seqs /\ askReq'[u].key \in Keys
    BY <1>0, <1>1 DEF AskHeld
  <2>3. askRun \in Nat \ {0}
    BY DEF AskTypes
  <2>4. ASSUME NEW u \in Responders, askPc'[u] \in Holding \cup {"LOCK"}
        PROVE  askReq'[u].run \in 1 .. askRun
    <3>1. CASE u # t
      BY <3>1, <2>4, <1>0, <1>1 DEF AskHeld
    <3>2. CASE u = t /\ askPc[t] # "SESSION"
      BY <3>2, <1>1 DEF AskHeld, Holding
    <3>3. CASE u = t /\ askPc[t] = "SESSION"
      BY <3>3, <2>3, <2>4, <1>0, <1>1 DEF Holding
    <3> QED
      BY <3>1, <3>2, <3>3
  <2> QED
    BY <2>1, <2>2, <2>4 DEF AskHeld
<1>3. askOperation' \in Responders \cup {Nobody}
  BY DEF AskTypes
<1> QED
  BY <1>0, <1>1, <1>2, <1>3, AskQuietStep DEF AskFirstRows, Holding, Claimed, Past

LEMMA AskSessionStep ==
    ASSUME AskInv, NEW t \in Responders,
           Ask!Session(t) \/ Ask!Lock(t) \/ Ask!Check(t)
    PROVE  AskInv'
<1> USE DEF AskInv, Ask!Go, Ask!Fails, Ask!Unlock, Ask!task, Ask!runtime
<1>1. CASE Ask!Session(t)
  <2>1. askOperation # t
    BY <1>1 DEF Ask!Session, AskHeld, Holding
  <2> QED
    BY <1>1, <2>1, AskGoStep DEF Ask!Session, Holding
<1>2. CASE Ask!Lock(t)
  <2>1. askOperation # t
    BY <1>2 DEF Ask!Lock, AskHeld, Holding
  <2> QED
    BY <1>2, <2>1, AskGoStep DEF Ask!Lock, Holding
<1>3. CASE Ask!Check(t)
  <2>1. askOperation = t
    BY <1>3 DEF Ask!Check, AskHeld, Holding
  <2> QED
    BY <1>3, <2>1, AskGoStep DEF Ask!Check, Holding
<1> QED
  BY <1>1, <1>2, <1>3

\* A responder marks its row, which stays open, and goes on: its claim and the release.
AskMarks(t, id, row, place) ==
    /\ askReq[t].id = id
    /\ UNCHANGED <<askPhase, askRun, askIngress, askSinkError, askAlive, askSeq, askInPump,
                   askCache, askRefused, askAsked, askAnswers, askReq>>
    /\ askRows' = [askRows EXCEPT ![id] = row]
    /\ row.key = askRows[id].key /\ row.run = askRows[id].run
    /\ row = askRows[id] \/ (row.state \in Ask!Open /\ askRows[id].state \in Ask!Open)
    /\ askPc' = [askPc EXCEPT ![t] = place]
    /\ \/ /\ place = "CLAIMED" /\ askPc[t] = "CLAIM" /\ askOperation' = askOperation
          /\ row.state = "SENDING" /\ row.decision = askReq[t].decision
       \/ place = "DONE" /\ askPc[t] = "CLAIMED" /\ askOperation' = Nobody
       \/ place = "FAIL_CLOSED" /\ askPc[t] = "RELEASE" /\ askOperation' = askOperation

LEMMA AskRowStep ==
    ASSUME AskInv, NEW t \in Responders, NEW id \in Ask!Seqs, NEW row \in AskRow,
           NEW place \in {"CLAIMED", "DONE", "FAIL_CLOSED"}, AskMarks(t, id, row, place)
    PROVE  AskInv'
<1> USE AskBounds DEF AskInv, AskMarks, Ask!NobodyAssumption
<1>0. /\ askRows' \in [Ask!Seqs -> AskRow] /\ askRows'[id] = row
      /\ \A i \in Ask!Seqs \ {id} : askRows'[i] = askRows[i]
      /\ askPc' \in [Responders -> Holding \cup {"IDLE", "SESSION", "LOCK", "DONE"}]
      /\ askPc'[t] = place /\ \A u \in Responders \ {t} : askPc'[u] = askPc[u]
  BY DEF AskTypes, Holding
<1>1. /\ \A i \in Ask!Seqs : /\ askRows'[i].key = askRows[i].key /\ askRows'[i].run = askRows[i].run
                             /\ askRows'[i].state \in Ask!Open <=> askRows[i].state \in Ask!Open
                             /\ askRows'[i].state \notin Ask!Open => askRows'[i] = askRows[i]
  BY <1>0
<1>2. \A i \in Ask!Seqs : askRows'[i].state = "ABSENT" <=> askRows[i].state = "ABSENT"
  BY <1>1 DEF Ask!Open
<1>3. askOperation = t /\ \A u \in Responders \ {t} : askPc[u] \notin Holding
  BY DEF AskHeld, Holding
<1>4. AskTypes'
  BY <1>0, <1>3 DEF AskTypes
<1>5. AskRowsAgree'
  BY <1>1, <1>2, <1>0 DEF AskRowsAgree, Ask!Open
<1>6. AskRunAgrees'
  BY <1>1 DEF AskRunAgrees
<1>7. AskHeld'
  BY <1>0, <1>3 DEF AskHeld, Holding
<1>8. AskOffersFresh'
  <2>1. \A k : AskBurnt(k) => AskBurnt(k)'
    BY <1>0, <1>3 DEF AskBurnt
  <2>2. \A j, k : AskLast(j, k)' <=> AskLast(j, k)
    BY DEF AskLast
  <2> QED
    BY <2>1, <2>2 DEF AskOffersFresh
<1>9. AskNothingLost'
  BY <1>1, AskSeqs DEF AskNothingLost
<1>10. AskFirstRows'
  <2> SUFFICES ASSUME askRun = 1
               PROVE  /\ \A i \in Ask!Seqs : askRows'[i].state # "ABSENT" =>
                            i <= askSeq /\ askRows'[i].key = askAsked[i]
                      /\ \A u \in Responders : askPc'[u] \notin {"IDLE", "DONE"} =>
                            LET r == askRows'[askReq[u].id] IN
                            /\ askPhase \in Living => r.state # "ABSENT"
                            /\ r.state # "ABSENT" => r.key = askReq[u].key
                            /\ askPc'[u] \in Claimed => r.state \in {"SENDING", "ABSENT"}
                            /\ askPc'[u] \in Claimed /\ r.state = "SENDING" =>
                                  r.decision = askReq[u].decision
    BY DEF AskFirstRows
  <2>1. \A i \in Ask!Seqs : askRows'[i].state # "ABSENT" => i <= askSeq /\ askRows'[i].key = askAsked[i]
    BY <1>1, <1>2 DEF AskFirstRows
  <2>2. ASSUME NEW u \in Responders, askPc'[u] \notin {"IDLE", "DONE"}
        PROVE  LET r == askRows'[askReq[u].id] IN
               /\ askPhase \in Living => r.state # "ABSENT"
               /\ r.state # "ABSENT" => r.key = askReq[u].key
               /\ askPc'[u] \in Claimed => r.state \in {"SENDING", "ABSENT"}
               /\ askPc'[u] \in Claimed /\ r.state = "SENDING" => r.decision = askReq[u].decision
    <3>1. askPc[u] \notin {"IDLE", "DONE"} /\ askReq[u].id \in Ask!Seqs
      BY <2>2, <1>0 DEF AskHeld
    <3>2. /\ askPhase \in Living => askRows'[askReq[u].id].state # "ABSENT"
          /\ askRows'[askReq[u].id].state # "ABSENT" => askRows'[askReq[u].id].key = askReq[u].key
      BY <3>1, <1>1, <1>2 DEF AskFirstRows
    <3>3. askPc'[u] \in Claimed => u = t /\ place = "CLAIMED"
      BY <1>0, <1>3 DEF Claimed, Holding
    <3> QED
      BY <3>2, <3>3, <1>0
  <2> QED
    BY <2>1, <2>2
<1>11. \A u \in Responders : askPc[u] \in Past => askPc'[u] \in Past
  BY <1>0 DEF Past
<1>12. AskFirstOffers'
  <2>1. \A i : AskOffered(i) => AskOffered(i)'
    BY <1>11 DEF AskOffered, AskLast
  <2> QED
    BY <2>1, <1>1 DEF AskFirstOffers
<1>13. AskFirstPending'
  BY <1>1, <1>11 DEF AskFirstPending, AskKnown
<1>14. AskFirstTold'
  <2>1. \A u \in Responders : askPc'[u] \notin {"WRITTEN", "COMPLETE"}
    BY <1>0, <1>3 DEF Holding
  <2> QED
    BY <2>1, <1>1 DEF AskFirstTold, AskTold, Ask!Open
<1> QED
  BY <1>4, <1>5, <1>6, <1>7, <1>8, <1>9, <1>10, <1>12, <1>13, <1>14

\* What a release makes of a row.
LEMMA AskReleased ==
    ASSUME AskTypes, NEW id \in Ask!Seqs
    PROVE  \E row \in AskRow :
              /\ Ask!Released(id) = [askRows EXCEPT ![id] = row]
              /\ row.key = askRows[id].key /\ row.run = askRows[id].run
              /\ row = askRows[id] \/ (row.state \in Ask!Open /\ askRows[id].state \in Ask!Open)
<1>1. askRows \in [Ask!Seqs -> AskRow]
  BY DEF AskTypes
<1>2. CASE askRows[id].state = "SENDING"
  <2>1. PICK row : row = [[askRows[id] EXCEPT !.state = "PENDING"] EXCEPT !.decision = "NONE"]
    OBVIOUS
  <2>2. row \in AskRow /\ row.key = askRows[id].key /\ row.run = askRows[id].run /\ row.state = "PENDING"
    BY <1>1, <2>1 DEF AskRow, AskDecision
  <2>3. Ask!Released(id) = [askRows EXCEPT ![id] = row]
    BY <1>1, <1>2, <2>1 DEF Ask!Released
  <2> QED
    BY <1>2, <2>2, <2>3 DEF Ask!Open
<1>3. CASE askRows[id].state # "SENDING"
  <2>1. Ask!Released(id) = [askRows EXCEPT ![id] = askRows[id]]
    BY <1>1, <1>3 DEF Ask!Released
  <2> QED
    BY <1>1, <2>1
<1> QED
  BY <1>2, <1>3

\* claim_pending_response_if_accepting.
LEMMA AskClaimStep ==
    ASSUME AskInv, NEW t \in Responders, Ask!Claim(t)
    PROVE  AskInv'
<1> USE DEF AskInv
<1>0. PICK id \in Ask!Seqs : id = askReq[t].id
  BY DEF Ask!Claim, AskHeld
<1>1. /\ UNCHANGED <<askPhase, askRun, askIngress, askSinkError, askAlive, askSeq, askInPump,
                     askCache, askRefused, askAsked, askAnswers, askReq>>
      /\ askPc[t] = "CLAIM" /\ askOperation = t
      /\ askRows \in [Ask!Seqs -> AskRow] /\ askReq[t] \in AskRequest
  BY DEF Ask!Claim, Ask!task, Ask!runtime, AskHeld, AskTypes, Holding
<1>2. CASE UNCHANGED askRows /\ askPc' = [askPc EXCEPT ![t] = "DONE"] /\ Ask!Unlock(t)
  BY <1>1, <1>2, AskGoStep DEF Ask!Unlock, Holding
<1>3. CASE /\ askRows[id].state = "PENDING"
           /\ askRows' = [askRows EXCEPT ![id].state = "SENDING",
                                         ![id].decision = askReq[t].decision]
           /\ askPc' = [askPc EXCEPT ![t] = "CLAIMED"]
           /\ UNCHANGED askOperation
  <2>1. PICK row : row = [[askRows[id] EXCEPT !.state = "SENDING"]
                             EXCEPT !.decision = askReq[t].decision]
    OBVIOUS
  <2>2. row \in AskRow /\ row.key = askRows[id].key /\ row.run = askRows[id].run /\ row.state = "SENDING"
        /\ row.decision = askReq[t].decision
    BY <1>1, <2>1 DEF AskRow, AskRequest
  <2>3. askRows' = [askRows EXCEPT ![id] = row]
    BY <1>1, <1>3, <2>1
  <2>4. row.state \in Ask!Open /\ askRows[id].state \in Ask!Open
    BY <1>3, <2>2 DEF Ask!Open
  <2>5. AskMarks(t, id, row, "CLAIMED")
    BY <1>0, <1>1, <1>3, <2>2, <2>3, <2>4 DEF AskMarks
  <2> QED
    BY <2>2, <2>5, AskRowStep
<1>4. askRows[id].state \in {"ABSENT", "PENDING", "SENDING", "RESPONDED"}
  BY <1>1 DEF AskRow
<1> QED
  BY <1>0, <1>2, <1>3, <1>4 DEF Ask!Claim, Ask!Fails, Ask!Returns, Ask!Go

\* The second look, and release_pending_response.
LEMMA AskReleaseStep ==
    ASSUME AskInv, NEW t \in Responders, Ask!Recheck(t) \/ Ask!Release(t)
    PROVE  AskInv'
<1> USE DEF AskInv
<1>0. PICK id \in Ask!Seqs : id = askReq[t].id
  BY DEF Ask!Recheck, Ask!Release, AskHeld
<1>1. /\ UNCHANGED <<askPhase, askRun, askIngress, askSinkError, askAlive, askSeq, askInPump,
                     askCache, askRefused, askAsked, askAnswers, askReq>>
      /\ askOperation = t
  BY DEF Ask!Recheck, Ask!Release, Ask!task, Ask!runtime, AskHeld, Holding
<1>2. PICK row \in AskRow :
              /\ Ask!Released(id) = [askRows EXCEPT ![id] = row]
              /\ row.key = askRows[id].key /\ row.run = askRows[id].run
              /\ row = askRows[id] \/ (row.state \in Ask!Open /\ askRows[id].state \in Ask!Open)
  BY AskReleased
<1>3. CASE /\ askPc[t] = "CLAIMED" /\ UNCHANGED <<askRows, askOperation>>
           /\ askPc' = [askPc EXCEPT ![t] = "WRITE"]
  BY <1>1, <1>3, AskGoStep DEF Holding
<1>4. CASE /\ askPc[t] = "CLAIMED" /\ askRows' = Ask!Released(id) /\ askOperation' = Nobody
           /\ askPc' = [askPc EXCEPT ![t] = "DONE"]
  <2>1. AskMarks(t, id, row, "DONE")
    BY <1>0, <1>1, <1>2, <1>4 DEF AskMarks
  <2> QED
    BY <2>1, AskRowStep
<1>5. CASE /\ askPc[t] = "RELEASE" /\ askRows' = Ask!Released(id) /\ UNCHANGED askOperation
           /\ askPc' = [askPc EXCEPT ![t] = "FAIL_CLOSED"]
  <2>1. AskMarks(t, id, row, "FAIL_CLOSED")
    BY <1>0, <1>1, <1>2, <1>5 DEF AskMarks
  <2> QED
    BY <2>1, AskRowStep
<1> QED
  BY <1>0, <1>1, <1>3, <1>4, <1>5 DEF Ask!Recheck, Ask!Release, Ask!Fails, Ask!Go, Ask!Unlock

\* There is one last request under a key.
LEMMA AskLastUnique ==
    ASSUME AskTypes, NEW i, NEW j, NEW k, AskLast(i, k), AskLast(j, k)
    PROVE  i = j
BY AskSeqs DEF AskLast

\* The answer of a responder reaches the last request with its key, which has none.
LEMMA AskTarget ==
    ASSUME AskInv, NEW t \in Responders, askPc[t] = "WRITE", askReq[t].key \in askCache, Ask!Deliver(t)
    PROVE  \E j \in Ask!Seqs, a \in AskAnswer :
              /\ AskLast(j, askReq[t].key) /\ askAnswers[j] = << >>
              /\ a.decision = askReq[t].decision
              /\ askAnswers' = [askAnswers EXCEPT ![j] = <<a>>]
<1> USE DEF AskInv
<1>1. PICK k : k = askReq[t].key
  OBVIOUS
<1>2. PICK j \in Ask!Seqs : AskLast(j, k) /\ (askAnswers[j] = << >> \/ AskBurnt(k))
  BY <1>1 DEF AskOffersFresh
<1>3. ~AskBurnt(k)
  BY DEF AskBurnt, AskHeld, Holding
<1>4. (CHOOSE x \in 1 .. askSeq : askAsked[x] = k /\ \A i \in x + 1 .. askSeq : askAsked[i] # k) = j
  <2>1. j \in 1 .. askSeq /\ askAsked[j] = k /\ \A i \in j + 1 .. askSeq : askAsked[i] # k
    BY <1>2 DEF AskLast
  <2>2. \A x \in 1 .. askSeq : askAsked[x] = k /\ (\A i \in x + 1 .. askSeq : askAsked[i] # k) => x = j
    BY <1>2, AskLastUnique DEF AskLast
  <2> QED
    BY <2>1, <2>2
<1>5. PICK a : a = [id |-> askReq[t].id, decision |-> askReq[t].decision]
  OBVIOUS
<1>6. a \in AskAnswer /\ a.decision = askReq[t].decision
  BY <1>5 DEF AskTypes, AskRequest, AskAnswer
<1>7. askAnswers' = [askAnswers EXCEPT ![j] = Append(askAnswers[j], a)]
  BY <1>1, <1>4, <1>5 DEF Ask!Deliver
<1>8. Append(askAnswers[j], a) = <<a>>
  <2>1. Append(<< >>, a) = <<a>>
    OBVIOUS
  <2> QED
    BY <1>2, <1>3, <2>1
<1> QED
  BY <1>1, <1>2, <1>3, <1>6, <1>7, <1>8

\* The answer is written, or the write is reported as failed and may have arrived.
AskWrites(t, place) ==
    /\ askPc[t] = "WRITE" /\ askPc' = [askPc EXCEPT ![t] = place]
    /\ UNCHANGED <<askPhase, askRun, askRows, askIngress, askSinkError, askAlive, askSeq, askInPump,
                   askCache, askRefused, askAsked, askReq, askOperation>>
    /\ \/ place = "RELEASE" /\ UNCHANGED askAnswers
       \/ askRun = askReq[t].run /\ askReq[t].key \in askCache /\ \E j \in Ask!Seqs, a \in AskAnswer :
              /\ AskLast(j, askReq[t].key) /\ askAnswers[j] = << >>
              /\ a.decision = askReq[t].decision
              /\ askAnswers' = [askAnswers EXCEPT ![j] = <<a>>]

LEMMA AskWritesCases ==
    ASSUME AskInv, NEW t \in Responders, Ask!WriteAnswer(t) \/ Ask!WriteFails(t)
    PROVE  AskWrites(t, "WRITTEN") \/ AskWrites(t, "RELEASE")
<1>1. CASE Ask!WriteAnswer(t)
  <2>1. Ask!Deliver(t) /\ askPc[t] = "WRITE" /\ askReq[t].key \in askCache
    BY <1>1 DEF Ask!WriteAnswer
  <2> QED
    BY <1>1, <2>1, AskTarget DEF Ask!WriteAnswer, Ask!Go, Ask!task, Ask!runtime, AskWrites
<1>2. CASE Ask!WriteFails(t)
  <2>1. askPc[t] = "WRITE" /\ (UNCHANGED askAnswers \/ (Ask!Deliver(t) /\ askReq[t].key \in askCache))
    BY <1>2 DEF Ask!WriteFails
  <2> QED
    BY <1>2, <2>1, AskTarget DEF Ask!WriteFails, Ask!Go, Ask!task, Ask!runtime, AskWrites
<1> QED
  BY <1>1, <1>2

LEMMA AskWriteStep ==
    ASSUME AskInv, NEW t \in Responders, NEW place \in {"WRITTEN", "RELEASE"}, AskWrites(t, place)
    PROVE  AskInv'
<1> USE DEF AskInv
<1>0. /\ askPc[t] = "WRITE" /\ askPc'[t] = place /\ \A u \in Responders \ {t} : askPc'[u] = askPc[u]
      /\ askPc' \in [Responders -> Holding \cup {"IDLE", "SESSION", "LOCK", "DONE"}]
      /\ UNCHANGED <<askPhase, askRun, askRows, askIngress, askSinkError, askAlive, askSeq, askInPump,
                     askCache, askRefused, askAsked, askReq, askOperation>>
  BY DEF AskWrites, AskTypes, Holding
<1>1. askOperation = t /\ \A u \in Responders \ {t} : askPc[u] \notin Holding
  BY <1>0 DEF AskHeld, Holding
<1>2. /\ askAnswers' \in [Ask!Seqs -> Seq(AskAnswer)]
      /\ \A i \in Ask!Seqs : askAnswers'[i] = << >> \/ Len(askAnswers'[i]) = 1
      /\ \A i \in Ask!Seqs : askSeq < i => askAnswers'[i] = << >>
      /\ \A i \in Ask!Seqs : Len(askAnswers[i]) = 1 => askAnswers'[i] = askAnswers[i]
      /\ \A i \in Ask!Seqs : \A k : AskLast(i, k) /\ k # askReq[t].key => askAnswers'[i] = askAnswers[i]
  <2>1. askAnswers \in [Ask!Seqs -> Seq(AskAnswer)]
    BY DEF AskTypes
  <2>2. CASE UNCHANGED askAnswers
    BY <2>1, <2>2 DEF AskOffersFresh
  <2>3. ASSUME NEW j \in Ask!Seqs, NEW a \in AskAnswer,
               AskLast(j, askReq[t].key), askAnswers[j] = << >>,
               askAnswers' = [askAnswers EXCEPT ![j] = <<a>>]
        PROVE  <1>2!:
    <3>1. <<a>> \in Seq(AskAnswer) /\ Len(<<a>>) = 1
      BY <2>3
    <3>2. askAnswers'[j] = <<a>> /\ \A i \in Ask!Seqs \ {j} : askAnswers'[i] = askAnswers[i]
      BY <2>1, <2>3
    <3>3. askAnswers' \in [Ask!Seqs -> Seq(AskAnswer)]
      BY <2>1, <2>3, <3>1
    <3>4. j <= askSeq /\ askAsked[j] = askReq[t].key
      BY <2>3 DEF AskLast
    <3>5. Len(askAnswers[j]) # 1
      BY <2>3
    <3>6. \A i \in Ask!Seqs : askAnswers'[i] = << >> \/ Len(askAnswers'[i]) = 1
      BY <3>1, <3>2 DEF AskOffersFresh
    <3>7. \A i \in Ask!Seqs : askSeq < i => askAnswers'[i] = << >>
      BY <3>2, <3>4, AskSeqs DEF AskOffersFresh
    <3>8. \A i \in Ask!Seqs : Len(askAnswers[i]) = 1 => askAnswers'[i] = askAnswers[i]
      BY <3>2, <3>5
    <3>9. \A i \in Ask!Seqs : \A k : AskLast(i, k) /\ k # askReq[t].key => askAnswers'[i] = askAnswers[i]
      BY <3>2, <3>4 DEF AskLast
    <3> QED
      BY <3>3, <3>6, <3>7, <3>8, <3>9
  <2> QED
    BY <2>2, <2>3 DEF AskWrites
<1>3. AskTypes'
  BY <1>0, <1>2 DEF AskTypes
<1>4. AskRowsAgree' /\ AskRunAgrees' /\ AskNothingLost'
  BY <1>0 DEF AskRowsAgree, AskRunAgrees, AskNothingLost
<1>5. AskHeld'
  BY <1>0 DEF AskHeld, Holding
<1>6. AskOffersFresh'
  <2> SUFFICES ASSUME NEW k \in askCache
               PROVE  \E j \in Ask!Seqs : AskLast(j, k)' /\ (askAnswers'[j] = << >> \/ AskBurnt(k)')
    BY <1>0, <1>2 DEF AskOffersFresh
  <2>1. PICK j \in Ask!Seqs : AskLast(j, k) /\ (askAnswers[j] = << >> \/ AskBurnt(k))
    BY DEF AskOffersFresh
  <2>2. ~AskBurnt(k) /\ AskLast(j, k)'
    BY <1>0, <1>1, <2>1 DEF AskBurnt, Holding, AskLast
  <2>3. CASE UNCHANGED askAnswers \/ k # askReq[t].key
    BY <1>2, <2>1, <2>2, <2>3
  <2>4. CASE askReq[t].run = askRun /\ k = askReq[t].key
    <3>1. AskBurnt(k)'
      BY <1>0, <1>1, <2>4 DEF AskBurnt
    <3> QED
      BY <2>2, <3>1
  <2> QED
    BY <2>3, <2>4 DEF AskWrites
<1>7. AskFirstRows'
  BY <1>0 DEF AskFirstRows, Claimed
<1>8. \A u \in Responders : askPc[u] \in Past => askPc'[u] \in Past
  BY <1>0 DEF Past
<1>9. AskFirstOffers'
  BY <1>0, <1>8 DEF AskFirstOffers, AskOffered, AskLast
<1>10. AskFirstPending'
  BY <1>0, <1>8 DEF AskFirstPending, AskKnown
<1>11. AskFirstTold'
  <2> SUFFICES ASSUME askRun = 1
               PROVE  /\ \A i \in Ask!Seqs : \A k, d :
                            askRows[i].state = "RESPONDED" /\ k = askRows[i].key
                              /\ d = askRows[i].decision => AskTold(i, k, d)'
                      /\ \A u \in Responders : \A i, k, d :
                            askPc'[u] \in {"WRITTEN", "COMPLETE"} /\ i = askReq[u].id
                              /\ k = askReq[u].key /\ d = askReq[u].decision
                              /\ askRows[i].state = "SENDING" => AskTold(i, k, d)'
    BY <1>0 DEF AskFirstTold, AskTold
  <2>1. \A i, k, d : AskTold(i, k, d) => AskTold(i, k, d)'
    BY <1>0, <1>2, <1>3, AskSeqs DEF AskTold
  <2>2. ASSUME NEW i \in Ask!Seqs, askRows[i].state = "RESPONDED"
        PROVE  AskTold(i, askRows[i].key, askRows[i].decision)
    BY <2>2 DEF AskFirstTold
  <2>3. ASSUME place = "WRITTEN", NEW i, NEW k, NEW d, askRows[i].state = "SENDING",
               i = askReq[t].id, k = askReq[t].key, d = askReq[t].decision
        PROVE  AskTold(i, k, d)'
    <3>1. PICK j \in Ask!Seqs, a \in AskAnswer :
              /\ AskLast(j, askReq[t].key) /\ a.decision = askReq[t].decision
              /\ askAnswers' = [askAnswers EXCEPT ![j] = <<a>>]
      BY <2>3 DEF AskWrites
    <3>2. PICK id \in Ask!Seqs : id = askReq[t].id
      BY <1>0 DEF AskHeld
    <3>3. Len(askAnswers'[j]) = 1 /\ askAnswers'[j][1] = a
      BY <3>1 DEF AskTypes
    <3>4. askPhase \in Living /\ askAsked[id] = askReq[t].key
      BY <1>0, <2>3, <3>2 DEF AskRunAgrees, AskFirstRows, Ask!Open
    <3>5. j = id \/ id \in askRefused \/ askSinkError
      <4> SUFFICES ASSUME id \notin askRefused, ~askSinkError PROVE j = id
        OBVIOUS
      <4>1. AskOffered(id)
        BY <2>3, <3>2, <3>4 DEF AskFirstOffers, Ask!Open
      <4>2. \A u \in Responders : askPc[u] \notin Past
        BY <1>0, <1>1 DEF Past, Holding
      <4>3. askReq[t].key \in askCache
        BY <2>3 DEF AskWrites
      <4>4. AskLast(id, askReq[t].key)
        BY <4>1, <4>2, <4>3, <3>4 DEF AskOffered
      <4> QED
        BY <4>4, <3>1, AskLastUnique
    <3> QED
      BY <1>0, <2>3, <3>1, <3>2, <3>3, <3>5 DEF AskTold, AskLast
  <2>4. \A u \in Responders : askPc'[u] \in {"WRITTEN", "COMPLETE"} => u = t /\ place = "WRITTEN"
    BY <1>0, <1>1 DEF Holding
  <2> QED
    BY <2>1, <2>2, <2>3, <2>4
<1> QED
  BY <1>3, <1>4, <1>5, <1>6, <1>7, <1>9, <1>10, <1>11

\* The offer is forgotten.
LEMMA AskForgetStep ==
    ASSUME AskInv, NEW t \in Responders, Ask!Forget(t)
    PROVE  AskInv'
<1> USE DEF AskInv
<1>0. /\ UNCHANGED <<askPhase, askRun, askRows, askIngress, askSinkError, askAlive, askSeq, askInPump,
                     askRefused, askAsked, askAnswers, askReq, askOperation>>
      /\ askPc[t] = "WRITTEN" /\ askPc'[t] \in {"COMPLETE", "RELEASE"}
      /\ \A u \in Responders \ {t} : askPc'[u] = askPc[u]
      /\ askPc' \in [Responders -> Holding \cup {"IDLE", "SESSION", "LOCK", "DONE"}]
      /\ askCache' = IF askRun = askReq[t].run THEN askCache \ {askReq[t].key} ELSE askCache
  BY DEF Ask!Forget, Ask!Go, Ask!task, Ask!runtime, AskTypes, Holding
<1>1. askOperation = t /\ \A u \in Responders \ {t} : askPc[u] \notin Holding
  BY <1>0 DEF AskHeld, Holding
<1>2. AskTypes'
  BY <1>0 DEF AskTypes
<1>3. AskRowsAgree' /\ AskRunAgrees' /\ AskNothingLost'
  BY <1>0 DEF AskRowsAgree, AskRunAgrees, AskNothingLost
<1>4. AskHeld'
  BY <1>0 DEF AskHeld, Holding
<1>5. AskOffersFresh'
  <2>1. \A k \in askCache' : k \in askCache /\ ~AskBurnt(k)
    BY <1>0, <1>1 DEF AskBurnt
  <2> QED
    BY <1>0, <2>1 DEF AskOffersFresh, AskLast
<1>6. AskFirstRows'
  BY <1>0 DEF AskFirstRows, Claimed
<1>7. ASSUME askRun = 1, askPhase \in Living
      PROVE  /\ askReq[t].id \in Ask!Seqs
             /\ askRows[askReq[t].id].state # "ABSENT"
             /\ askRows[askReq[t].id].key = askReq[t].key
  BY <1>0, <1>7 DEF AskHeld, AskFirstRows
<1>8. /\ askPc'[t] \in Past
      /\ \A u \in Responders : askPc[u] \notin Past
  BY <1>0, <1>1 DEF Past, Holding
<1>9. AskFirstOffers'
  <2> SUFFICES ASSUME askRun = 1, askPhase \in Living, ~askSinkError
               PROVE  /\ \A i \in Ask!Seqs : askRows[i].state \in Ask!Open /\ i \notin askRefused =>
                            AskOffered(i)'
                      /\ askInPump # Ask!NoKey /\ askSeq \notin askRefused =>
                            askInPump \in askCache' \/ \E i \in Ask!Seqs : askRows[i].key = askInPump
    BY <1>0 DEF AskFirstOffers
  <2>1. ASSUME NEW i \in Ask!Seqs, askRows[i].state \in Ask!Open, i \notin askRefused
        PROVE  AskOffered(i)'
    <3>1. AskOffered(i) /\ askRows[i].key = askAsked[i] /\ askRows[i].state # "ABSENT"
      BY <2>1 DEF AskFirstOffers, AskFirstRows, Ask!Open
    <3>2. CASE askAsked[i] = askReq[t].key
      <4>1. i = askReq[t].id
        BY <1>7, <3>1, <3>2 DEF AskRowsAgree
      <4> QED
        BY <1>0, <1>8, <4>1 DEF AskOffered
    <3>3. CASE askAsked[i] # askReq[t].key
      BY <1>0, <1>8, <3>1, <3>3 DEF AskOffered, AskLast
    <3> QED
      BY <3>2, <3>3
  <2>2. ASSUME askInPump # Ask!NoKey, askSeq \notin askRefused
        PROVE  askInPump \in askCache' \/ \E i \in Ask!Seqs : askRows[i].key = askInPump
    BY <1>0, <1>7, <2>2 DEF AskFirstOffers
  <2> QED
    BY <2>1, <2>2
<1>10. AskFirstPending'
  <2> SUFFICES ASSUME askRun = 1, askPhase \in Living
               PROVE  /\ \A i \in Ask!Seqs : askRows[i].state \in Ask!Open =>
                            \/ askRows[i].key \in askCache' \/ \E j \in askRefused : askAsked[j] = askRows[i].key
                            \/ \E u \in Responders : askPc'[u] \in Past /\ askReq[u].id = i
                      /\ askInPump # Ask!NoKey =>
                            \/ askInPump \in askCache' \/ \E j \in askRefused : askAsked[j] = askInPump
                            \/ \E i \in Ask!Seqs : askRows[i].key = askInPump
    BY <1>0 DEF AskFirstPending, AskKnown
  <2>1. ASSUME NEW i \in Ask!Seqs, askRows[i].state \in Ask!Open
        PROVE  \/ askRows[i].key \in askCache' \/ \E j \in askRefused : askAsked[j] = askRows[i].key
               \/ \E u \in Responders : askPc'[u] \in Past /\ askReq[u].id = i
    <3>1. CASE askRows[i].key = askReq[t].key
      <4>1. i = askReq[t].id
        BY <1>7, <2>1, <3>1 DEF AskRowsAgree, Ask!Open
      <4> QED
        BY <1>8, <4>1
    <3>2. CASE askRows[i].key # askReq[t].key
      BY <1>0, <1>8, <2>1, <3>2 DEF AskFirstPending, AskKnown
    <3> QED
      BY <3>1, <3>2
  <2>2. ASSUME askInPump # Ask!NoKey
        PROVE  \/ askInPump \in askCache' \/ \E j \in askRefused : askAsked[j] = askInPump
               \/ \E i \in Ask!Seqs : askRows[i].key = askInPump
    BY <1>0, <1>7, <2>2 DEF AskFirstPending, AskKnown
  <2> QED
    BY <2>1, <2>2
<1>11. AskFirstTold'
  BY <1>0 DEF AskFirstTold, AskTold
<1> QED
  BY <1>2, <1>3, <1>4, <1>5, <1>6, <1>9, <1>10, <1>11

\* complete_pending_response.
LEMMA AskCompleteStep ==
    ASSUME AskInv, NEW t \in Responders, Ask!Complete(t)
    PROVE  AskInv'
<1> USE AskBounds DEF AskInv, Ask!NobodyAssumption
<1>0. /\ UNCHANGED <<askRun, askIngress, askSinkError, askAlive, askSeq, askInPump, askCache,
                     askRefused, askAsked, askAnswers, askReq>>
      /\ askPc[t] = "COMPLETE" /\ askPc'[t] = "DONE"
      /\ \A u \in Responders \ {t} : askPc'[u] = askPc[u]
      /\ askPc' \in [Responders -> Holding \cup {"IDLE", "SESSION", "LOCK", "DONE"}]
  BY DEF Ask!Complete, Ask!Returns, Ask!Fails, Ask!Go, Ask!task, Ask!runtime, AskTypes, Holding
<1>1. PICK id \in Ask!Seqs : id = askReq[t].id
  BY <1>0 DEF AskHeld
<1>2. /\ askOperation = t /\ askOperation' = Nobody
      /\ \A u \in Responders \ {t} : askPc[u] \notin Holding
  BY <1>0 DEF AskHeld, Holding, Ask!Complete, Ask!Unlock
<1>3. /\ askRows' \in [Ask!Seqs -> AskRow]
      /\ \A i \in Ask!Seqs \ {id} : askRows'[i] = askRows[i]
      /\ askRows'[id].key = askRows[id].key /\ askRows'[id].run = askRows[id].run
      /\ askRows'[id].decision = askRows[id].decision
      /\ \/ askRows[id].state = "SENDING" /\ askRows'[id].state = "RESPONDED"
            /\ askPhase \in Living /\ askPhase' \in Living
         \/ askRows[id].state # "SENDING" /\ UNCHANGED <<askRows, askPhase>>
  <2>1. askRows \in [Ask!Seqs -> AskRow]
    BY DEF AskTypes
  <2>2. CASE askRows[id].state = "SENDING"
    <3>1. askRows' = [askRows EXCEPT ![id].state = "RESPONDED"]
          /\ askPhase' \in {askPhase, "RUNNING"}
      BY <1>1, <2>2 DEF Ask!Complete
    <3>2. askPhase \in Living
      BY <2>2 DEF AskRunAgrees, Ask!Open
    <3> QED
      BY <2>1, <2>2, <3>1, <3>2 DEF AskRow, Living
  <2>3. CASE askRows[id].state # "SENDING"
    BY <1>1, <2>1, <2>3 DEF Ask!Complete
  <2> QED
    BY <2>2, <2>3
<1>4. /\ \A i \in Ask!Seqs : askRows'[i].key = askRows[i].key /\ askRows'[i].run = askRows[i].run
      /\ \A i \in Ask!Seqs : askRows'[i].state = "ABSENT" <=> askRows[i].state = "ABSENT"
      /\ \A i \in Ask!Seqs : askRows'[i].state \in Ask!Open => askRows[i].state \in Ask!Open
      /\ askPhase' \in Living <=> askPhase \in Living
      /\ askPhase \notin Living => UNCHANGED askPhase
  BY <1>3 DEF Ask!Open
<1>5. AskTypes'
  BY <1>0, <1>2, <1>3 DEF AskTypes
<1>6. AskRowsAgree'
  BY <1>0, <1>3, <1>4 DEF AskRowsAgree
<1>7. AskRunAgrees'
  BY <1>0, <1>4 DEF AskRunAgrees, Living
<1>8. AskHeld'
  BY <1>0, <1>2 DEF AskHeld, Holding
<1>9. AskOffersFresh'
  <2>1. \A k : ~AskBurnt(k)
    BY <1>0, <1>2 DEF AskBurnt
  <2> QED
    BY <1>0, <2>1 DEF AskOffersFresh, AskLast
<1>10. AskNothingLost'
  BY <1>0, <1>4, AskSeqs DEF AskNothingLost
<1>11. AskFirstRows'
  <2>1. \A u \in Responders : askPc'[u] \notin Claimed /\ (askPc'[u] \notin {"IDLE", "DONE"} =>
            askPc[u] \notin {"IDLE", "DONE"} /\ askReq[u].id \in Ask!Seqs)
    BY <1>0, <1>2 DEF Claimed, Holding, AskHeld
  <2> QED
    BY <1>0, <1>4, <2>1 DEF AskFirstRows
<1>12. askRun = 1 /\ askPhase \in Living => askRows[id].state = "SENDING"
  BY <1>0, <1>1 DEF AskFirstRows, Claimed
<1>13. ASSUME NEW i \in Ask!Seqs, askRun = 1, askPhase \in Living, askRows'[i].state \in Ask!Open
       PROVE  i # id /\ askRows[i].state \in Ask!Open /\ askRows'[i] = askRows[i]
              /\ \A u \in Responders : ~(askPc[u] \in Past /\ askReq[u].id = i)
  BY <1>0, <1>1, <1>2, <1>3, <1>12, <1>13 DEF Past, Holding, Ask!Open
<1>14. AskFirstOffers'
  BY <1>0, <1>4, <1>13 DEF AskFirstOffers, AskOffered, AskLast
<1>15. AskFirstPending'
  BY <1>0, <1>4, <1>13 DEF AskFirstPending, AskKnown
<1>16. AskFirstTold'
  <2>1. \A i, k, d : AskTold(i, k, d)' <=> AskTold(i, k, d)
    BY <1>0 DEF AskTold
  <2>2. \A u \in Responders : askPc'[u] \notin {"WRITTEN", "COMPLETE"}
    BY <1>0, <1>2 DEF Holding
  <2>3. ASSUME askRun = 1, NEW i \in Ask!Seqs, askRows'[i].state = "RESPONDED"
        PROVE  AskTold(i, askRows[i].key, askRows[i].decision)
    <3>1. CASE i = id /\ askRows[id].state = "SENDING"
      BY <1>0, <1>1, <2>3, <3>1 DEF AskFirstTold, AskFirstRows, Claimed
    <3>2. CASE askRows'[i] = askRows[i]
      BY <2>3, <3>2 DEF AskFirstTold
    <3> QED
      BY <1>3, <3>1, <3>2
  <2>4. ASSUME askRun = 1, NEW i \in Ask!Seqs, askRows'[i].state = "RESPONDED", NEW k, NEW d,
               k = askRows'[i].key, d = askRows'[i].decision
        PROVE  AskTold(i, k, d)'
    <3>1. k = askRows[i].key /\ d = askRows[i].decision
      BY <1>3, <2>4
    <3> QED
      BY <2>1, <2>3, <2>4, <3>1
  <2> QED
    BY <1>0, <2>2, <2>4 DEF AskFirstTold, AskTold
<1> QED
  BY <1>5, <1>6, <1>7, <1>8, <1>9, <1>10, <1>11, <1>14, <1>15, <1>16

\* The rows are settled: a cancel, a run that is finished, and fail_closed_control.
AskSettles ==
    /\ askRows' = Ask!Settled
    /\ UNCHANGED <<askRun, askSinkError, askSeq, askInPump, askRefused, askAsked, askAnswers, askReq>>
    /\ askIngress' \in BOOLEAN
    /\ \/ askPhase' = "CANCELLING" /\ askAlive /\ UNCHANGED <<askAlive, askCache>>
       \/ askPhase' = "TERMINAL" /\ ~askAlive' /\ askAlive' \in BOOLEAN /\ askCache' = {}
    /\ \/ UNCHANGED <<askPc, askOperation>>
       \/ /\ askPhase' = "TERMINAL"
          /\ \E t \in Responders : /\ askPc[t] = "FAIL_CLOSED" /\ askPc' = [askPc EXCEPT ![t] = "DONE"]
                                   /\ askOperation' = Nobody

LEMMA AskSettleStep == AskInv /\ AskSettles => AskInv'
<1> SUFFICES ASSUME AskInv, AskSettles PROVE AskInv'
  OBVIOUS
<1> USE AskBounds DEF AskInv, Ask!NobodyAssumption
<1>0. /\ UNCHANGED <<askRun, askSinkError, askSeq, askInPump, askRefused, askAsked, askAnswers, askReq>>
      /\ askPhase' \in {"CANCELLING", "TERMINAL"} /\ askPhase' \notin Living
      /\ askCache' \subseteq askCache /\ askIngress' \in BOOLEAN /\ askAlive' \in BOOLEAN
      /\ askAlive' <=> askPhase' # "TERMINAL"
      /\ askPhase' = "TERMINAL" => askCache' = {}
  BY DEF AskSettles, AskTypes, Living
<1>1. /\ askRows' \in [Ask!Seqs -> AskRow]
      /\ \A i \in Ask!Seqs : /\ askRows'[i].state \notin Ask!Open
                             /\ askRows'[i].state # "ABSENT" => askRows'[i] = askRows[i]
                             /\ askRows'[i] = askRows[i] \/ askRows'[i] = Ask!NoRow
      /\ Ask!NoRow.state = "ABSENT"
  <2>1. Ask!NoRow \in AskRow /\ Ask!NoRow.state = "ABSENT"
    BY DEF Ask!NoRow, AskRow, AskKey, AskDecision
  <2>2. askRows \in [Ask!Seqs -> AskRow]
    BY DEF AskTypes
  <2>3. askRows' = [i \in Ask!Seqs |-> IF askRows[i].state \in Ask!Open THEN Ask!NoRow ELSE askRows[i]]
    BY DEF AskSettles, Ask!Settled
  <2> QED
    BY <2>1, <2>2, <2>3 DEF Ask!Open
<1>2. /\ askPc' \in [Responders -> Holding \cup {"IDLE", "SESSION", "LOCK", "DONE"}]
      /\ askOperation' \in Responders \cup {Nobody}
      /\ \A u \in Responders : askPc'[u] = askPc[u] \/ askPc'[u] = "DONE"
  BY DEF AskSettles, AskTypes
<1>3. AskTypes'
  BY <1>0, <1>1, <1>2 DEF AskTypes
<1>4. AskRowsAgree'
  <2>1. Ask!NoRow.key \notin Keys
    BY DEF Ask!NoRow, Ask!KeysAssumption
  <2> QED
    BY <1>0, <1>1, <2>1 DEF AskRowsAgree
<1>5. AskRunAgrees'
  BY <1>0, <1>1 DEF AskRunAgrees
<1>6. AskHeld'
  <2>1. CASE UNCHANGED <<askPc, askOperation>>
    BY <1>0, <2>1 DEF AskHeld
  <2>2. ASSUME NEW t \in Responders, askPc[t] = "FAIL_CLOSED",
               askPc' = [askPc EXCEPT ![t] = "DONE"], askOperation' = Nobody
        PROVE  AskHeld'
    BY <1>0, <2>2 DEF AskHeld, AskTypes, Holding
  <2> QED
    BY <2>1, <2>2 DEF AskSettles
<1>7. AskOffersFresh'
  <2>1. CASE askCache' = {}
    BY <1>0, <2>1 DEF AskOffersFresh
  <2>2. CASE UNCHANGED <<askPc, askOperation, askCache>>
    BY <1>0, <2>2 DEF AskOffersFresh, AskLast, AskBurnt
  <2> QED
    BY <1>0, <2>1, <2>2 DEF AskSettles
<1>8. AskNothingLost' /\ AskFirstOffers' /\ AskFirstPending'
  BY <1>0 DEF AskNothingLost, AskFirstOffers, AskFirstPending
<1>9. AskFirstRows'
  <2> SUFFICES ASSUME askRun = 1
               PROVE  /\ \A i \in Ask!Seqs : askRows'[i].state # "ABSENT" =>
                            i <= askSeq /\ askRows'[i].key = askAsked[i]
                      /\ \A u \in Responders : askPc'[u] \notin {"IDLE", "DONE"} =>
                            LET r == askRows'[askReq[u].id] IN
                            /\ r.state # "ABSENT" => r.key = askReq[u].key
                            /\ askPc'[u] \in Claimed => r.state = "ABSENT"
    BY <1>0 DEF AskFirstRows
  <2>1. \A i \in Ask!Seqs : askRows'[i].state # "ABSENT" => i <= askSeq /\ askRows'[i].key = askAsked[i]
    BY <1>1 DEF AskFirstRows
  <2>2. ASSUME NEW u \in Responders, askPc'[u] \notin {"IDLE", "DONE"}
        PROVE  LET r == askRows'[askReq[u].id] IN
               /\ r.state # "ABSENT" => r.key = askReq[u].key
               /\ askPc'[u] \in Claimed => r.state = "ABSENT"
    <3>1. askReq[u].id \in Ask!Seqs /\ askPc'[u] = askPc[u] /\ askPc[u] \notin {"IDLE", "DONE"}
      BY <1>2, <2>2 DEF AskHeld
    <3> QED
      BY <1>1, <3>1 DEF AskFirstRows, Ask!Open
  <2> QED
    BY <2>1, <2>2
<1>10. AskFirstTold'
  <2>1. \A i, k, d : AskTold(i, k, d)' <=> AskTold(i, k, d)
    BY <1>0 DEF AskTold
  <2>2. \A u \in Responders : askPc'[u] \in {"WRITTEN", "COMPLETE"} =>
            askReq[u].id \in Ask!Seqs
    BY <1>2 DEF AskHeld
  <2>3. ASSUME askRun = 1, NEW i \in Ask!Seqs, askRows'[i].state = "RESPONDED", NEW k, NEW d,
               k = askRows'[i].key, d = askRows'[i].decision
        PROVE  AskTold(i, k, d)'
    <3>1. askRows'[i] = askRows[i]
      BY <1>1, <2>3
    <3> QED
      BY <2>1, <2>3, <3>1 DEF AskFirstTold
  <2> QED
    BY <1>0, <1>1, <2>2, <2>3 DEF AskFirstTold, AskTold, Ask!Open
<1> QED
  BY <1>3, <1>4, <1>5, <1>6, <1>7, <1>8, <1>9, <1>10

\* fail_closed_control: the run ends, or has ended.
LEMMA AskFailClosedStep ==
    ASSUME AskInv, NEW t \in Responders, Ask!FailClosed(t)
    PROVE  AskInv'
<1> USE AskBounds DEF AskInv, Ask!NobodyAssumption
<1>0. /\ UNCHANGED <<askRun, askSinkError, askSeq, askInPump, askRefused, askAsked, askAnswers, askReq>>
      /\ askPc[t] = "FAIL_CLOSED" /\ askPc' = [askPc EXCEPT ![t] = "DONE"]
  BY DEF Ask!FailClosed, Ask!Fails, Ask!Go
<1>1. /\ askOperation = t /\ askOperation' = Nobody
      /\ \A u \in Responders \ {t} : askPc[u] \notin Holding
  BY <1>0 DEF AskHeld, Holding, Ask!FailClosed, Ask!Unlock
<1>2. CASE askRun = askReq[t].run /\ askPhase # "TERMINAL"
  <2>1. AskSettles
    BY <1>0, <1>1, <1>2 DEF Ask!FailClosed, AskSettles
  <2> QED
    BY <2>1, AskSettleStep
<1>3. CASE ~(askRun = askReq[t].run /\ askPhase # "TERMINAL")
  <2>0. UNCHANGED <<askPhase, askIngress, askAlive, askRows, askCache>>
    BY <1>3 DEF Ask!FailClosed
  <2>1. /\ askPc' \in [Responders -> Holding \cup {"IDLE", "SESSION", "LOCK", "DONE"}]
        /\ askPc'[t] = "DONE" /\ \A u \in Responders \ {t} : askPc'[u] = askPc[u]
    BY <1>0 DEF AskTypes
  <2>2. AskTypes'
    BY <1>0, <1>1, <2>0, <2>1 DEF AskTypes
  <2>3. AskRowsAgree' /\ AskRunAgrees' /\ AskNothingLost'
    BY <1>0, <2>0 DEF AskRowsAgree, AskRunAgrees, AskNothingLost
  <2>4. AskHeld'
    BY <1>0, <1>1, <2>1 DEF AskHeld, Holding
  <2>5. AskOffersFresh'
    <3>1. askCache = {} \/ \A k : ~AskBurnt(k)
      BY <1>1, <1>3 DEF AskRunAgrees, AskBurnt
    <3> QED
      BY <1>0, <2>0, <3>1 DEF AskOffersFresh, AskLast
  <2>6. AskFirstRows'
    BY <1>0, <2>0, <2>1 DEF AskFirstRows
  <2>7. askRun = 1 => askPhase \notin Living
    BY <1>0, <1>3 DEF AskHeld, Holding, Living
  <2>8. AskFirstOffers' /\ AskFirstPending'
    BY <1>0, <2>0, <2>7 DEF AskFirstOffers, AskFirstPending
  <2>9. AskFirstTold'
    BY <1>0, <2>0, <2>1 DEF AskFirstTold, AskTold
  <2> QED
    BY <2>2, <2>3, <2>4, <2>5, <2>6, <2>8, <2>9
<1> QED
  BY <1>2, <1>3

\* The task around the requests.
LEMMA AskTaskStep == AskInv /\ (Ask!MarkRunning \/ Ask!Cancel \/ Ask!CloseIngress \/ Ask!Finish) => AskInv'
<1> SUFFICES ASSUME AskInv, Ask!MarkRunning \/ Ask!Cancel \/ Ask!CloseIngress \/ Ask!Finish
             PROVE  AskInv'
  OBVIOUS
<1> USE DEF Ask!task, Ask!runtime, Ask!callers
<1>1. CASE Ask!Cancel
  <2>1. AskSettles
    BY <1>1 DEF Ask!Cancel, Ask!Accepting, AskSettles, AskInv, AskRunAgrees, AskTypes
  <2> QED
    BY <2>1, AskSettleStep
<1>2. CASE Ask!Finish
  <2>1. AskSettles
    BY <1>2 DEF Ask!Finish, AskSettles
  <2> QED
    BY <2>1, AskSettleStep
<1>3. CASE Ask!MarkRunning \/ Ask!CloseIngress
  <2>1. /\ UNCHANGED <<askRun, askRows, askSinkError, askAlive, askSeq, askInPump, askCache, askRefused,
                       askAsked, askAnswers, askOperation, askPc, askReq>>
        /\ \/ askPhase = "PREPARING" /\ askPhase' = "RUNNING" /\ UNCHANGED askIngress
           \/ askPhase = "CANCELLING" /\ UNCHANGED askPhase /\ askIngress' = FALSE
    BY <1>3 DEF Ask!MarkRunning, Ask!CloseIngress
  <2>2. /\ askPhase' \in Living <=> askPhase \in Living
        /\ askPhase' = "TERMINAL" <=> askPhase = "TERMINAL"
        /\ askPhase' \in Living => UNCHANGED askIngress
        /\ askIngress' \in BOOLEAN /\ askPhase' \in Living \cup {"CANCELLING", "TERMINAL"}
    BY <2>1 DEF Living, AskInv, AskTypes
  <2>3. AskTypes'
    BY <2>1, <2>2 DEF AskTypes, AskInv
  <2>4. AskRowsAgree' /\ AskRunAgrees' /\ AskHeld'
    BY <2>1, <2>2 DEF AskRowsAgree, AskRunAgrees, AskHeld, AskInv
  <2>5. AskOffersFresh' /\ AskNothingLost'
    BY <2>1, <2>2 DEF AskOffersFresh, AskLast, AskBurnt, AskNothingLost, AskInv
  <2>6. AskFirstRows' /\ AskFirstTold'
    BY <2>1, <2>2 DEF AskFirstRows, AskFirstTold, AskTold, AskInv
  <2>7. AskFirstOffers' /\ AskFirstPending'
    BY <2>1, <2>2 DEF AskFirstOffers, AskOffered, AskLast, AskFirstPending, AskKnown, AskInv
  <2> QED
    BY <2>3, <2>4, <2>5, <2>6, <2>7 DEF AskInv
<1> QED
  BY <1>1, <1>2, <1>3

\* A resume starts the numbers, the cache and the answers anew.
LEMMA AskResumeStep == AskInv /\ Ask!Resume => AskInv'
<1> SUFFICES ASSUME AskInv, Ask!Resume PROVE AskInv'
  OBVIOUS
<1> USE AskBounds DEF AskInv, Ask!BoundsAssumption
<1>0. /\ askPhase = "TERMINAL" /\ askPhase' = "PREPARING" /\ askRun' = askRun + 1
      /\ askIngress' = TRUE /\ askSinkError' = FALSE /\ askAlive' = TRUE
      /\ askSeq' = 0 /\ askInPump' = Ask!NoKey /\ askCache' = {} /\ askRefused' = {}
      /\ askAsked' = [i \in Ask!Seqs |-> Ask!NoKey]
      /\ askAnswers' = [i \in Ask!Seqs |-> << >>]
      /\ UNCHANGED <<askRows, askOperation, askPc, askReq>>
      /\ askRun \in Nat \ {0}
  BY DEF Ask!Resume, Ask!callers, AskTypes
<1>1. askRun' # 1 /\ askRun' \in Nat \ {0} /\ askPhase' \in Living /\ (1 .. askRun) \subseteq (1 .. askRun')
  BY <1>0 DEF Living
<1>2. AskTypes'
  <2>1. << >> \in Seq(AskAnswer)
    OBVIOUS
  <2>2. askAnswers' \in [Ask!Seqs -> Seq(AskAnswer)]
    BY <1>0, <2>1
  <2>3. /\ askAsked' \in [Ask!Seqs -> AskKey] /\ askInPump' \in AskKey /\ askSeq' \in 0 .. MaxSeq
    BY <1>0 DEF AskKey
  <2>4. askIngress' \in BOOLEAN /\ askSinkError' \in BOOLEAN /\ askAlive' \in BOOLEAN
    BY <1>0
  <2> QED
    BY <1>0, <1>1, <2>2, <2>3, <2>4 DEF AskTypes
<1>3. AskRowsAgree' /\ AskRunAgrees' /\ AskHeld'
  BY <1>0, <1>1 DEF AskRowsAgree, AskRunAgrees, AskHeld
<1>4. AskOffersFresh' /\ AskNothingLost'
  BY <1>0 DEF AskOffersFresh, AskNothingLost
<1>5. AskFirstRows' /\ AskFirstTold' /\ AskFirstOffers' /\ AskFirstPending'
  BY <1>1 DEF AskFirstRows, AskFirstTold, AskFirstOffers, AskFirstPending
<1> QED
  BY <1>2, <1>3, <1>4, <1>5

\* OfferedPermissionCache::observe.
LEMMA AskObserve ==
    ASSUME NEW k
    PROVE  \/ k \in askCache /\ Ask!Observe(k) = askCache \ {k}
           \/ k \notin askCache /\ Ask!Observe(k) = askCache \cup {k}
           \/ k \notin askCache /\ Ask!Observe(k) = askCache
BY DEF Ask!Observe

\* The pump offers a request to the cache.
LEMMA AskOfferStep ==
    ASSUME AskInv, NEW k \in Keys, Ask!Offer(k)
    PROVE  AskInv'
<1> USE AskBounds DEF AskInv, Ask!BoundsAssumption, Ask!KeysAssumption
<1>0. /\ UNCHANGED <<askPhase, askRun, askRows, askIngress, askSinkError, askAlive, askAnswers,
                     askOperation, askPc, askReq>>
      /\ askAlive /\ askInPump = Ask!NoKey /\ askInPump' = k /\ askSeq' = askSeq + 1
      /\ askSeq + 1 \in Ask!Seqs /\ askSeq \in Nat
      /\ askAsked' \in [Ask!Seqs -> AskKey] /\ askAsked'[askSeq + 1] = k
      /\ \A i \in Ask!Seqs \ {askSeq + 1} : askAsked'[i] = askAsked[i]
      /\ k # Ask!NoKey /\ k \in AskKey
  BY DEF Ask!Offer, Ask!task, Ask!callers, AskTypes, Ask!Seqs, AskKey
<1>n. PICK n : n = askSeq + 1
  OBVIOUS
<1>1. \/ /\ k \in askCache /\ askCache' = askCache \ {k}
         /\ askRefused' = askRefused \cup {askSeq + 1}
      \/ k \notin askCache /\ askCache' = askCache \cup {k} /\ askRefused' = askRefused
      \/ /\ k \notin askCache /\ askCache' = askCache
         /\ askRefused' = askRefused \cup {askSeq + 1}
  BY AskObserve DEF Ask!Offer
<1>2. /\ \A i \in 1 .. askSeq : i \in Ask!Seqs /\ askAsked'[i] = askAsked[i]
      /\ \A i \in 1 .. askSeq' : i \in 1 .. askSeq \/ i = askSeq + 1
      /\ (1 .. askSeq) \subseteq (1 .. askSeq')
      /\ askRefused \subseteq 1 .. askSeq
  BY <1>0, AskSeqs DEF AskRunAgrees
<1>3. \A j, q : AskLast(j, q) /\ q # k => AskLast(j, q)'
  BY <1>0, <1>2, AskSeqs DEF AskLast
<1>4. n \in Ask!Seqs /\ AskLast(n, k)' /\ askAnswers[n] = << >>
  BY <1>0, <1>n, AskSeqs DEF AskLast, AskOffersFresh
<1>5. AskTypes'
  <2>1. askSeq' \in 0 .. MaxSeq
    BY <1>0 DEF Ask!Seqs
  <2>2. askCache' \subseteq Keys /\ askRefused' \subseteq Ask!Seqs
    BY <1>0, <1>1 DEF AskTypes
  <2> QED
    BY <1>0, <2>1, <2>2 DEF AskTypes
<1>6. AskRowsAgree' /\ AskHeld'
  BY <1>0 DEF AskRowsAgree, AskHeld
<1>7. AskRunAgrees'
  <2>1. askRefused' \subseteq 1 .. askSeq'
    <3>1. askSeq + 1 \in 1 .. askSeq'
      BY <1>0
    <3> QED
      BY <1>1, <1>2, <3>1
  <2> QED
    BY <1>0, <2>1 DEF AskRunAgrees
<1>8. AskOffersFresh'
  <2>1. \A i \in Ask!Seqs : askSeq' < i => askAnswers[i] = << >>
    BY <1>0, AskSeqs DEF AskOffersFresh
  <2>2. ASSUME NEW q \in askCache'
        PROVE  \E j \in Ask!Seqs : AskLast(j, q)' /\ (askAnswers[j] = << >> \/ AskBurnt(q)')
    <3>1. CASE q = k
      BY <1>4, <3>1
    <3>2. CASE q # k
      <4>1. q \in askCache
        BY <1>1, <2>2, <3>2
      <4>2. AskBurnt(q) => AskBurnt(q)'
        BY <1>0 DEF AskBurnt
      <4> QED
        BY <1>3, <3>2, <4>1, <4>2 DEF AskOffersFresh
    <3> QED
      BY <3>1, <3>2
  <2> QED
    BY <1>0, <2>1, <2>2 DEF AskOffersFresh
<1>9. AskNothingLost'
  <2> SUFFICES ASSUME NEW i \in 1 .. askSeq', askPhase \in Living, ~askSinkError, i # askSeq'
               PROVE  askRows[i].run \in 1 .. askRun /\ askRows[i].key = askAsked'[i]
    BY <1>0 DEF AskNothingLost
  <2>1. i \in 1 .. askSeq
    BY <1>0, <1>2
  <2> QED
    BY <1>0, <1>2, <2>1 DEF AskNothingLost
<1>10. AskFirstRows'
  <2>1. \A i \in Ask!Seqs : i <= askSeq => askAsked'[i] = askAsked[i] /\ i <= askSeq'
    BY <1>0, AskSeqs
  <2> QED
    BY <1>0, <2>1 DEF AskFirstRows
<1>11. AskFirstOffers'
  <2> SUFFICES ASSUME askRun = 1, askPhase \in Living, ~askSinkError
               PROVE  /\ \A i \in Ask!Seqs : askRows[i].state \in Ask!Open /\ i \notin askRefused' =>
                            AskOffered(i)'
                      /\ askSeq + 1 \notin askRefused' => k \in askCache'
    BY <1>0 DEF AskFirstOffers
  <2>1. ASSUME NEW i \in Ask!Seqs, askRows[i].state \in Ask!Open, i \notin askRefused'
        PROVE  AskOffered(i)'
    <3>1. /\ AskOffered(i) /\ askRows[i].key = askAsked[i] /\ askAsked[i] \in Keys
          /\ i <= askSeq
      BY <1>1, <2>1 DEF AskFirstOffers, AskFirstRows, AskRowsAgree, Ask!Open
    <3>2. askAsked'[i] = askAsked[i] /\ i < askSeq'
      BY <1>0, <3>1, AskSeqs
    <3>3. CASE askAsked[i] \in askCache /\ AskLast(i, askAsked[i])
      <4>1. CASE askAsked[i] = k
        BY <1>0, <1>1, <3>2, <3>3, <4>1 DEF AskOffered
      <4>2. CASE askAsked[i] # k
        <5>1. PICK q : q = askAsked[i]
          OBVIOUS
        <5>2. AskLast(i, q)' /\ q \in askCache'
          BY <1>1, <1>3, <3>3, <4>2, <5>1
        <5> QED
          BY <3>2, <5>1, <5>2 DEF AskOffered, AskLast
      <4> QED
        BY <4>1, <4>2
    <3>4. CASE \E t \in Responders : askPc[t] \in Past /\ askReq[t].id = i
      BY <1>0, <3>4 DEF AskOffered
    <3> QED
      BY <1>0, <3>1, <3>3, <3>4 DEF AskOffered
  <2> QED
    BY <1>1, <2>1
<1>12. AskFirstPending'
  <2>1. \A q : AskKnown(q) => AskKnown(q)'
    BY <1>0, <1>1, <1>2 DEF AskKnown
  <2>2. AskKnown(k)'
    BY <1>0, <1>1 DEF AskKnown
  <2>3. ASSUME NEW i \in Ask!Seqs, askRun = 1, askPhase \in Living, askRows[i].state \in Ask!Open,
               NEW q, q = askRows[i].key
        PROVE  AskKnown(q)' \/ \E t \in Responders : askPc[t] \in Past /\ askReq[t].id = i
    BY <2>1, <2>3 DEF AskFirstPending
  <2> QED
    BY <1>0, <2>2, <2>3 DEF AskFirstPending, AskKnown
<1>13. AskFirstTold'
  <2>1. \A i, q, d : AskTold(i, q, d) => AskTold(i, q, d)'
    BY <1>0, <1>1, <1>2 DEF AskTold
  <2>2. ASSUME askRun = 1, NEW i \in Ask!Seqs, askRows[i].state = "RESPONDED", NEW q, NEW d,
               q = askRows[i].key, d = askRows[i].decision
        PROVE  AskTold(i, q, d)'
    BY <2>1, <2>2 DEF AskFirstTold
  <2>3. ASSUME askRun = 1, NEW t \in Responders, askPc[t] \in {"WRITTEN", "COMPLETE"}, NEW i, NEW q, NEW d,
               i = askReq[t].id, q = askReq[t].key, d = askReq[t].decision, askRows[i].state = "SENDING"
        PROVE  AskTold(i, q, d)'
    BY <2>1, <2>3 DEF AskFirstTold
  <2> QED
    BY <1>0, <2>2, <2>3 DEF AskFirstTold, AskTold
<1> QED
  BY <1>5, <1>6, <1>7, <1>8, <1>9, <1>10, <1>11, <1>12, <1>13

\* The sink has the request, and the table does not change: the gate is closed, the sink
\* has failed or fails now, or the row is there already.
LEMMA AskDroppedStep ==
    ASSUME AskInv, askInPump # Ask!NoKey, askInPump' = Ask!NoKey,
           UNCHANGED <<askPhase, askRun, askRows, askIngress, askAlive, askSeq, askCache, askRefused,
                       askAsked, askAnswers, askOperation, askPc, askReq>>,
           askSinkError' \in BOOLEAN, askSinkError => askSinkError',
           askPhase \in Living /\ ~askSinkError' =>
               askRows[askSeq].state # "ABSENT" /\ askRows[askSeq].key = askInPump
    PROVE  AskInv'
<1> USE DEF AskInv
<1>0. askSeq \in Ask!Seqs /\ askAsked[askSeq] = askInPump
  BY AskSeqs DEF AskRunAgrees
<1>1. AskTypes' /\ AskRowsAgree' /\ AskRunAgrees' /\ AskHeld'
  BY DEF AskTypes, AskRowsAgree, AskRunAgrees, AskHeld, AskKey
<1>2. AskOffersFresh' /\ AskFirstRows'
  BY DEF AskOffersFresh, AskLast, AskBurnt, AskFirstRows
<1>3. AskNothingLost'
  BY <1>0 DEF AskNothingLost, AskRowsAgree
<1>4. AskFirstOffers'
  <2> SUFFICES ASSUME askRun = 1, askPhase \in Living, ~askSinkError',
                      NEW i \in Ask!Seqs, askRows[i].state \in Ask!Open, i \notin askRefused
               PROVE  AskOffered(i)'
    BY DEF AskFirstOffers
  <2>1. AskOffered(i) /\ askRows[i].key = askAsked[i]
    BY DEF AskFirstOffers, AskFirstRows, Ask!Open
  <2>2. ~(askInPump = askAsked[i] /\ i < askSeq)
    BY <1>0, <2>1, AskSeqs DEF AskRowsAgree, Ask!Open
  <2> QED
    BY <2>1, <2>2 DEF AskOffered, AskLast
<1>5. AskFirstPending'
  BY DEF AskFirstPending, AskKnown
<1>6. AskFirstTold'
  BY DEF AskFirstTold, AskTold
<1> QED
  BY <1>1, <1>2, <1>3, <1>4, <1>5, <1>6

\* insert_pending_request makes a row.
LEMMA AskInsertStep ==
    ASSUME AskInv, askInPump # Ask!NoKey, askInPump' = Ask!NoKey, askIngress, ~askSinkError,
           askPhase \in Ask!Accepting, Ask!Inserted(askInPump), askPhase' = "WAITING_INPUT",
           askRows' = [askRows EXCEPT ![askSeq] =
               [state |-> "PENDING", key |-> askInPump, decision |-> "NONE", run |-> askRun]],
           UNCHANGED <<askRun, askIngress, askSinkError, askAlive, askSeq, askCache, askRefused,
                       askAsked, askAnswers, askOperation, askPc, askReq>>
    PROVE  AskInv'
<1> USE DEF AskInv
<1>0. /\ askSeq \in Ask!Seqs /\ askAsked[askSeq] = askInPump /\ askInPump \in Keys
      /\ askPhase \in Living /\ askPhase' \in Living /\ askRun \in 1 .. askRun
  BY AskSeqs DEF AskRunAgrees, AskTypes, AskKey, Living, Ask!Accepting
<1>1. /\ askRows' \in [Ask!Seqs -> AskRow]
      /\ \A i \in Ask!Seqs \ {askSeq} : askRows'[i] = askRows[i]
      /\ askRows'[askSeq].state = "PENDING" /\ askRows'[askSeq].key = askInPump
      /\ askRows'[askSeq].run = askRun
  <2>1. [state |-> "PENDING", key |-> askInPump, decision |-> "NONE", run |-> askRun] \in AskRow
    BY DEF AskRow, AskDecision, AskTypes
  <2> QED
    BY <1>0, <2>1 DEF AskTypes
<1>2. askRows[askSeq].state = "ABSENT" /\ \A i \in Ask!Seqs : askRows[i].key # askInPump
  BY DEF Ask!Inserted
<1>3. AskTypes'
  BY <1>0, <1>1 DEF AskTypes, AskKey
<1>4. AskRowsAgree'
  BY <1>0, <1>1, <1>2 DEF AskRowsAgree
<1>5. AskRunAgrees' /\ AskHeld'
  BY <1>0 DEF AskRunAgrees, AskHeld, Living
<1>6. AskOffersFresh'
  BY DEF AskOffersFresh, AskLast, AskBurnt
<1>7. AskNothingLost'
  <2> SUFFICES ASSUME NEW i \in 1 .. askSeq
               PROVE  askRows'[i].run \in 1 .. askRun /\ askRows'[i].key = askAsked[i]
    BY DEF AskNothingLost
  <2> QED
    BY <1>0, <1>1, AskSeqs DEF AskNothingLost
<1>8. AskFirstRows'
  <2>1. askRun = 1 => \A t \in Responders : askPc[t] \notin {"IDLE", "DONE"} =>
            askReq[t].id \in Ask!Seqs \ {askSeq}
    BY <1>0, <1>2 DEF AskFirstRows, AskHeld
  <2>2. askSeq <= askSeq
    BY AskSeqs
  <2> QED
    BY <1>0, <1>1, <2>1, <2>2 DEF AskFirstRows
<1>9. AskFirstOffers'
  <2> SUFFICES ASSUME askRun = 1, NEW i \in Ask!Seqs, askRows'[i].state \in Ask!Open, i \notin askRefused
               PROVE  AskOffered(i)'
    BY DEF AskFirstOffers
  <2>1. CASE i = askSeq
    <3>1. askInPump \in askCache
      BY <1>0, <1>2, <2>1 DEF AskFirstOffers
    <3>2. AskLast(i, askInPump)
      BY <1>0, <2>1, AskSeqs DEF AskLast
    <3> QED
      BY <1>0, <2>1, <3>1, <3>2 DEF AskOffered, AskLast
  <2>2. CASE i # askSeq
    <3>1. AskOffered(i) /\ askRows[i].key = askAsked[i]
      BY <1>0, <1>1, <2>2 DEF AskFirstOffers, AskFirstRows, Ask!Open
    <3> QED
      BY <1>2, <3>1 DEF AskOffered, AskLast
  <2> QED
    BY <2>1, <2>2
<1>10. AskFirstPending'
  <2> SUFFICES ASSUME askRun = 1, NEW i \in Ask!Seqs, askRows'[i].state \in Ask!Open
               PROVE  \/ AskKnown(askRows[i].key)'
                      \/ \E t \in Responders : askPc[t] \in Past /\ askReq[t].id = i
    BY DEF AskFirstPending
  <2> QED
    BY <1>0, <1>1, <1>2 DEF AskFirstPending, AskKnown
<1>11. AskFirstTold'
  <2>1. \A i, k, d : AskTold(i, k, d) => AskTold(i, k, d)'
    BY DEF AskTold
  <2>2. ASSUME askRun = 1, NEW i \in Ask!Seqs, askRows'[i].state = "RESPONDED", NEW k, NEW d,
               k = askRows'[i].key, d = askRows'[i].decision
        PROVE  AskTold(i, k, d)'
    BY <1>1, <2>1, <2>2 DEF AskFirstTold
  <2>3. ASSUME askRun = 1, NEW t \in Responders, askPc[t] \in {"WRITTEN", "COMPLETE"}, NEW i, NEW k, NEW d,
               i = askReq[t].id, k = askReq[t].key, d = askReq[t].decision, askRows'[i].state = "SENDING"
        PROVE  AskTold(i, k, d)'
    <3>1. i \in Ask!Seqs \ {askSeq}
      BY <1>1, <2>3 DEF AskHeld
    <3> QED
      BY <1>1, <2>1, <2>3, <3>1 DEF AskFirstTold
  <2> QED
    BY <2>2, <2>3 DEF AskFirstTold, AskTold
<1> QED
  BY <1>3, <1>4, <1>5, <1>6, <1>7, <1>8, <1>9, <1>10, <1>11

LEMMA AskPublishStep == AskInv /\ Ask!Publish => AskInv'
<1> SUFFICES ASSUME AskInv, Ask!Publish PROVE AskInv'
  OBVIOUS
<1>0. /\ askInPump # Ask!NoKey /\ askInPump' = Ask!NoKey /\ askSinkError \in BOOLEAN
      /\ UNCHANGED <<askRun, askIngress, askAlive, askSeq, askCache, askRefused,
                     askAsked, askAnswers, askOperation, askPc, askReq>>
  BY DEF Ask!Publish, Ask!callers, AskInv, AskTypes
<1>1. CASE ~askIngress \/ askSinkError
  <2>1. UNCHANGED <<askRows, askPhase, askSinkError>>
    BY <1>1 DEF Ask!Publish
  <2>2. ~(askPhase \in Living /\ ~askSinkError')
    BY <1>1, <2>1 DEF AskInv, AskRunAgrees
  <2> QED
    BY <1>0, <2>1, <2>2, AskDroppedStep
<1>2. CASE askIngress /\ ~askSinkError /\ askPhase \in Ask!Accepting /\ Ask!Inserted(askInPump)
  <2>1. /\ askPhase' = "WAITING_INPUT" /\ UNCHANGED askSinkError
        /\ askRows' = [askRows EXCEPT ![askSeq] =
               [state |-> "PENDING", key |-> askInPump, decision |-> "NONE", run |-> askRun]]
    BY <1>2 DEF Ask!Publish
  <2> QED
    BY <1>0, <1>2, <2>1, AskInsertStep
<1>3. CASE askIngress /\ ~askSinkError /\ ~(askPhase \in Ask!Accepting /\ Ask!Inserted(askInPump))
  <2>1. /\ UNCHANGED <<askRows, askPhase>>
        /\ \/ Ask!Repeated(askInPump) /\ UNCHANGED askSinkError
           \/ askSinkError' = TRUE
    BY <1>3 DEF Ask!Publish
  <2> QED
    BY <1>0, <1>3, <2>1, AskDroppedStep DEF Ask!Repeated
<1> QED
  BY <1>1, <1>2, <1>3

LEMMA AskStep == AskInv /\ [Ask!Next]_(Ask!vars) => AskInv'
<1> SUFFICES ASSUME AskInv, [Ask!Next]_(Ask!vars) PROVE AskInv'
  OBVIOUS
<1>1. CASE UNCHANGED Ask!vars
  <2>1. UNCHANGED <<askPhase, askRun, askRows, askIngress, askSinkError, askAlive, askSeq, askInPump,
                    askCache, askRefused, askAsked, askAnswers, askOperation, askPc, askReq>>
    BY <1>1 DEF Ask!vars
  <2> QED
    BY <2>1 DEF AskInv, AskTypes, AskRowsAgree, AskRunAgrees, AskHeld, AskLast, AskBurnt,
            AskOffersFresh, AskNothingLost, AskFirstRows, AskOffered, AskFirstOffers, AskKnown,
            AskFirstPending, AskTold, AskFirstTold
<1>2. CASE Ask!MarkRunning \/ Ask!Cancel \/ Ask!CloseIngress \/ Ask!Finish
  BY <1>2, AskTaskStep
<1>3. CASE Ask!Resume
  BY <1>3, AskResumeStep
<1>4. CASE \E k \in Keys : Ask!Offer(k)
  BY <1>4, AskOfferStep
<1>5. CASE Ask!Publish
  BY <1>5, AskPublishStep
<1>6. ASSUME NEW t \in Responders, Ask!RespondStep(t)
      PROVE  AskInv'
  <2>1. CASE Ask!Session(t) \/ Ask!Lock(t) \/ Ask!Check(t)
    BY <2>1, AskSessionStep
  <2>2. CASE Ask!Claim(t)
    BY <2>2, AskClaimStep
  <2>3. CASE Ask!Recheck(t) \/ Ask!Release(t)
    BY <2>3, AskReleaseStep
  <2>4. CASE Ask!WriteAnswer(t) \/ Ask!WriteFails(t)
    <3>1. CASE AskWrites(t, "WRITTEN")
      BY <3>1, AskWriteStep
    <3>2. CASE AskWrites(t, "RELEASE")
      BY <3>2, AskWriteStep
    <3> QED
      BY <2>4, <3>1, <3>2, AskWritesCases
  <2>5. CASE Ask!Forget(t)
    BY <2>5, AskForgetStep
  <2>6. CASE Ask!Complete(t)
    BY <2>6, AskCompleteStep
  <2>7. CASE Ask!FailClosed(t)
    BY <2>7, AskFailClosedStep
  <2> QED
    BY <1>6, <2>1, <2>2, <2>3, <2>4, <2>5, <2>6, <2>7 DEF Ask!RespondStep
<1>7. ASSUME NEW t \in Responders, NEW id \in Ask!Seqs, NEW d \in Ask!Decision, Ask!Read(t, id, d)
      PROVE  AskInv'
  BY <1>7, AskReadStep
<1> QED
  BY <1>1, <1>2, <1>3, <1>4, <1>5, <1>6, <1>7 DEF Ask!Next

\* What the invariant says of the parts of RequestsSettled.
LEMMA AskInvSettles == AskInv => RequestsSettled
<1> SUFFICES ASSUME AskInv PROVE RequestsSettled
  OBVIOUS
<1> USE DEF AskInv
<1>1. Ask!AnsweredOnce
  <2>1. \A i \in Ask!Seqs : askAnswers[i] = << >> \/ Len(askAnswers[i]) = 1
    BY DEF AskOffersFresh
  <2>2. Len(<< >>) = 0
    OBVIOUS
  <2>3. \A n : n = 0 \/ n = 1 => n <= 1
    OBVIOUS
  <2>4. \A i \in Ask!Seqs : Len(askAnswers[i]) = 0 \/ Len(askAnswers[i]) = 1
    BY <2>1, <2>2, Zenon
  <2> QED
    BY <2>3, <2>4, Zenon DEF Ask!AnsweredOnce
<1>2. Ask!NoSilentLoss
  <2>1. Ask!Accepting \subseteq Living
    BY DEF Ask!Accepting, Living
  <2> QED
    BY <2>1 DEF Ask!NoSilentLoss, AskNothingLost
<1>3. askRun = 1 => Ask!RespondedIsDelivered
  BY DEF Ask!RespondedIsDelivered, AskFirstTold, AskTold
<1>4. askRun = 1 => Ask!PendingIsAnswerable
  <2> SUFFICES ASSUME askRun = 1, NEW i \in Ask!Seqs, askRows[i].state = "PENDING", askAlive,
                      \A t \in Responders : askPc[t] # "FAIL_CLOSED"
               PROVE  AskKnown(askRows[i].key)
    BY DEF Ask!PendingIsAnswerable, AskKnown
  <2>1. askPhase \in Living
    BY DEF AskRunAgrees, Ask!Open
  <2>2. \A t \in Responders : ~(askPc[t] \in Past /\ askReq[t].id = i)
    BY DEF AskFirstRows, Past, Claimed
  <2> QED
    BY <2>1, <2>2 DEF AskFirstPending, Ask!Open
<1> QED
  BY <1>1, <1>2, <1>3, <1>4 DEF RequestsSettled

\* However many callers answer the permission requests of a task at once (respond_request),
\* while the task is cancelled, finished and resumed and the runtime uses correlation ids
\* again: a request is answered at most once, a request that went through the sink has its
\* row or the sink has failed, and in the first run a RESPONDED row says what the runtime was
\* told and a pending one can still be answered.
THEOREM RequestsStaySettled == Ask!Spec => []RequestsSettled
<1>1. Ask!Init => AskInv
  BY AskInit
<1>2. AskInv /\ [Ask!Next]_(Ask!vars) => AskInv'
  BY AskStep
<1>3. AskInv => RequestsSettled
  BY AskInvSettles
<1> QED
  BY <1>1, <1>2, <1>3, PTL DEF Ask!Spec
=============================================================================
