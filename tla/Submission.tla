----------------------------- MODULE Submission -----------------------------
(***************************************************************************)
(* Preparation of a task (crates/zcode-agent-preparation/src/general.rs)   *)
(* and what enqueue_general and start_claim (crates/zcode-agentd/src/      *)
(* lib.rs) make of it: the scratch directory in the shared temporary       *)
(* directory, the prompt file in it, the row, and the checks of the file   *)
(* before every launch.                                                    *)
(*                                                                         *)
(* Submitters are calls in one daemon or in several with the same          *)
(* temporary directory.  Other programs may remove or rewrite what is      *)
(* there.  A digest is the thing it is the digest of.                      *)
(***************************************************************************)
EXTENDS Naturals, Sequences, SequencesExt

CONSTANTS
    Submitters,   \* calls of enqueue_general, and the tasks they make
    Manifests,    \* what they may submit: mode, prompt, the paths to be written and
                  \* the workspace, in one database
    Names,        \* names a scratch directory may get
    Tries,        \* names that are tried: 32 in the code
    MaxRuns,      \* bound on the runs of a task
    MaxFaults,    \* bound on what other programs do
    None

\* A path is one in the workspace, or of a kind that is refused.
Paths == {"SRC", "DOCS", "OUTSIDE", "PROTECTED"}

SubmissionAssumption == Tries \in Nat \ {0} /\ MaxRuns \in Nat /\ MaxFaults \in Nat
ManifestAssumption ==
    Manifests \subseteq [mode : {"BUILD", "EDIT", "PLAN", "YOLO"}, prompt : STRING,
                         paths : Seq(Paths), workspace : STRING]

\* No prompt and no directory is None.
Prompts == {m.prompt : m \in Manifests}
Scratch == [tmp : Prompts \cup {None}, prompt : Prompts \cup {None}]
NoneAssumption == None \notin Prompts \cup Scratch

VARIABLES
    pc,         \* where each submission, later each task, is
    manifest,   \* what was submitted
    tries,      \* names that were taken
    dir,        \* the scratch directory of each
    text,       \* what the submission read back from the prompt file
    row,        \* prepared task and initial prompt in the store
    runs,       \* runs of the task; a session exists behind the first
    disk,       \* the scratch directories: prompt.tmp and prompt.txt
    faults

vars == <<pc, manifest, tries, dir, text, row, runs, disk, faults>>
submission == <<manifest, tries, dir, text>>

Empty == [tmp |-> None, prompt |-> None]

Init ==
    /\ pc = [s \in Submitters |-> "IDLE"]
    /\ manifest = [s \in Submitters |-> None]
    /\ tries = [s \in Submitters |-> 0]
    /\ dir = [s \in Submitters |-> None]
    /\ text = [s \in Submitters |-> None]
    /\ row = [s \in Submitters |-> None]
    /\ runs = [s \in Submitters |-> 0]
    /\ disk = [n \in Names |-> None]
    /\ faults = 0

Go(s, place) == pc' = [pc EXCEPT ![s] = place]

-----------------------------------------------------------------------------
(***************************************************************************)
(* The write scope                                                         *)
(***************************************************************************)

\* validate_manifest.
ManifestValid(m) == m.prompt # "" /\ IsInjective(m.paths)

\* Mutant of DefaultScope: the whole workspace in every mode.
DefaultScopeAlways(m) == IF m.paths = <<>> THEN {"."} ELSE ToSet(m.paths)

\* Without paths the scope is the workspace, but nothing in plan mode.
DefaultScope(m) == IF m.mode # "PLAN" /\ m.paths = <<>> THEN {"."} ELSE ToSet(m.paths)

\* confined_relative and validate_write_scope; the latter of the paths that were asked.
ScopeValid(m) ==
    /\ "OUTSIDE" \notin ToSet(m.paths) /\ "PROTECTED" \notin ToSet(m.paths)
    /\ m.mode = "PLAN" => m.paths = <<>>

-----------------------------------------------------------------------------
(***************************************************************************)
(* enqueue_general                                                         *)
(***************************************************************************)

\* The task gets a new id and the manifest is looked at.
Submit(s) ==
    /\ pc[s] = "IDLE"
    /\ \E m \in Manifests :
          /\ manifest' = [manifest EXCEPT ![s] = m]
          /\ Go(s, IF ManifestValid(m) THEN "ALLOCATE" ELSE "REJECTED")
    /\ UNCHANGED <<tries, dir, text, row, runs, disk, faults>>

\* Mutant of Allocate: create_dir_all, which takes a directory that is there.
AllocateAny(s) ==
    /\ pc[s] = "ALLOCATE"
    /\ \E n \in Names :
          /\ disk' = IF disk[n] = None THEN [disk EXCEPT ![n] = Empty] ELSE disk
          /\ dir' = [dir EXCEPT ![s] = n]
    /\ Go(s, "SCOPE")
    /\ UNCHANGED <<manifest, tries, text, row, runs, faults>>

\* allocate_submission: the names are random, and one may be taken.
Allocate(s) ==
    /\ pc[s] = "ALLOCATE"
    /\ \E n \in Names :
          IF disk[n] = None
            THEN /\ disk' = [disk EXCEPT ![n] = Empty]
                 /\ dir' = [dir EXCEPT ![s] = n]
                 /\ Go(s, "SCOPE")
                 /\ UNCHANGED tries
            ELSE /\ tries' = [tries EXCEPT ![s] = @ + 1]
                 /\ Go(s, IF tries'[s] = Tries THEN "REJECTED" ELSE "ALLOCATE")
                 /\ UNCHANGED <<disk, dir>>
    /\ UNCHANGED <<manifest, text, row, runs, faults>>

\* The scope; a submission that is refused here leaves its directory behind.
Scope(s) ==
    /\ pc[s] = "SCOPE"
    /\ Go(s, IF ScopeValid(manifest[s]) THEN "WRITE" ELSE "REJECTED")
    /\ UNCHANGED <<submission, row, runs, disk, faults>>

\* atomic_write, first half.
WriteTemporary(s) ==
    /\ pc[s] = "WRITE"
    /\ IF disk[dir[s]] = None
         THEN Go(s, "REJECTED") /\ UNCHANGED disk
         ELSE Go(s, "RENAME") /\ disk' = [disk EXCEPT ![dir[s]].tmp = manifest[s].prompt]
    /\ UNCHANGED <<submission, row, runs, faults>>

\* Second half: rename; then the path is made canonical and the digest is taken, of
\* the manifest and not of the file.
Rename(s) ==
    /\ pc[s] = "RENAME"
    /\ IF disk[dir[s]] = None \/ disk[dir[s]].tmp = None
         THEN Go(s, "REJECTED") /\ UNCHANGED disk
         ELSE /\ Go(s, "VERIFY")
              /\ disk' = [disk EXCEPT ![dir[s]] = [tmp |-> None, prompt |-> @.tmp]]
    /\ UNCHANGED <<submission, row, runs, faults>>

\* verify_file: a file is there, with the prompt of this task.
FileVerified(s) == disk[dir[s]] # None /\ disk[dir[s]].prompt = manifest[s].prompt

\* general_initial_prompt: the file is verified,
Verify(s) ==
    /\ pc[s] = "VERIFY"
    /\ Go(s, IF FileVerified(s) THEN "READ" ELSE "REJECTED")
    /\ UNCHANGED <<submission, row, runs, disk, faults>>

\* then read,
ReadPrompt(s) ==
    /\ pc[s] = "READ"
    /\ IF disk[dir[s]] = None \/ disk[dir[s]].prompt = None
         THEN Go(s, "REJECTED") /\ UNCHANGED text
         ELSE Go(s, "COMPARE") /\ text' = [text EXCEPT ![s] = disk[dir[s]].prompt]
    /\ UNCHANGED <<manifest, tries, dir, row, runs, disk, faults>>

\* Mutant of Compare: the file was verified, so it is only verified again.
CompareFile(s) ==
    /\ pc[s] = "COMPARE"
    /\ Go(s, IF FileVerified(s) THEN "INSERT" ELSE "REJECTED")
    /\ UNCHANGED <<submission, row, runs, disk, faults>>

\* and what was read is compared, before general_control_header verifies once more.
Compare(s) ==
    /\ pc[s] = "COMPARE"
    /\ Go(s, IF text[s] = manifest[s].prompt /\ FileVerified(s) THEN "INSERT" ELSE "REJECTED")
    /\ UNCHANGED <<submission, row, runs, disk, faults>>

\* Another task of the workspace has not ended.
WorkspaceBusy(s) ==
    \E u \in Submitters \ {s} :
        pc[u] \in {"QUEUED", "SPAWN", "RUNNING"} /\ manifest[u].workspace = manifest[s].workspace

\* enqueue_task_authoritative; a submission that is refused leaves its directory behind.
Insert(s) ==
    /\ pc[s] = "INSERT"
    /\ IF WorkspaceBusy(s)
         THEN Go(s, "REJECTED") /\ UNCHANGED row
         ELSE /\ Go(s, "QUEUED")
              /\ row' = [row EXCEPT ![s] = [prompt |-> text[s], mode |-> manifest[s].mode,
                                            scope |-> DefaultScope(manifest[s])]]
    /\ UNCHANGED <<submission, runs, disk, faults>>

-----------------------------------------------------------------------------
(***************************************************************************)
(* Runs                                                                    *)
(***************************************************************************)

\* task_route and route_policy: the file is verified for a first run; for a resumed
\* one the directory is made again where it is missing.
RoutePolicy(s) ==
    /\ pc[s] = "QUEUED"
    /\ IF runs[s] > 0
         THEN /\ disk' = IF disk[dir[s]] = None THEN [disk EXCEPT ![dir[s]] = Empty] ELSE disk
              /\ Go(s, "SPAWN")
         ELSE /\ Go(s, IF FileVerified(s) THEN "SPAWN" ELSE "REFUSED")
              /\ UNCHANGED disk
    /\ UNCHANGED <<submission, row, runs, faults>>

\* The factory verifies the file again, for a resumed run too, before it starts the
\* process with the scope of the row in its environment.
Spawn(s) ==
    /\ pc[s] = "SPAWN"
    /\ IF FileVerified(s)
         THEN Go(s, "RUNNING") /\ runs' = [runs EXCEPT ![s] = @ + 1]
         ELSE Go(s, "REFUSED") /\ UNCHANGED runs
    /\ UNCHANGED <<submission, row, disk, faults>>

\* Mutant of Finalize: the scratch directory is removed.
FinalizeCleans(s) ==
    /\ pc[s] = "RUNNING"
    /\ disk' = [disk EXCEPT ![dir[s]] = None]
    /\ Go(s, "ENDED")
    /\ UNCHANGED <<submission, row, runs, faults>>

\* GeneralFinalizer says cleaned and removes nothing.
Finalize(s) ==
    /\ pc[s] = "RUNNING"
    /\ Go(s, "ENDED")
    /\ UNCHANGED <<submission, row, runs, disk, faults>>

\* requeue_task_for_resume_with_message: a finished task that has a session.
Requeue(s) ==
    /\ pc[s] \in {"ENDED", "REFUSED"} /\ runs[s] \in 1 .. MaxRuns - 1 /\ ~WorkspaceBusy(s)
    /\ Go(s, "QUEUED")
    /\ UNCHANGED <<submission, row, runs, disk, faults>>

\* Another program cleans the temporary directory or writes a prompt file.
Disturb ==
    /\ faults < MaxFaults
    /\ \E n \in {i \in Names : disk[i] # None} :
          \/ disk' = [disk EXCEPT ![n] = None]
          \/ \E m \in Manifests : disk' = [disk EXCEPT ![n].prompt = m.prompt]
    /\ faults' = faults + 1
    /\ UNCHANGED <<pc, submission, row, runs>>

Next ==
    \/ \E s \in Submitters :
          \/ Submit(s) \/ Allocate(s) \/ Scope(s) \/ WriteTemporary(s) \/ Rename(s)
          \/ Verify(s) \/ ReadPrompt(s) \/ Compare(s) \/ Insert(s)
          \/ RoutePolicy(s) \/ Spawn(s) \/ Finalize(s) \/ Requeue(s)
    \/ Disturb

Spec == Init /\ [][Next]_vars

-----------------------------------------------------------------------------
(***************************************************************************)
(* Properties                                                              *)
(***************************************************************************)

\* The row holds the prompt and the scope that were submitted, although the prompt
\* goes through a file that others may change between any two looks at it: nothing
\* may be written in plan mode, and something in every other.
RowIsSubmission ==
    \A s \in Submitters : row[s] # None =>
        /\ row[s].prompt = manifest[s].prompt
        /\ row[s].scope = {} <=> row[s].mode = "PLAN"
        /\ row[s].scope \subseteq ToSet(manifest[s].paths) \cup {"."}

\* Another task of the workspace has been stored.
Met(s) ==
    \E u \in Submitters \ {s} :
        /\ pc[u] \in {"QUEUED", "SPAWN", "RUNNING", "ENDED", "REFUSED"}
        /\ manifest[u].workspace = manifest[s].workspace

\* While no other program interferes, submissions disturb each other in one way only:
\* one is refused for its own manifest, for want of a name, or because another of its
\* workspace was stored before it.
UndisturbedIsAccepted ==
    \A s \in Submitters : pc[s] = "REJECTED" /\ faults = 0 =>
        \/ ~ManifestValid(manifest[s])
        \/ ~ScopeValid(manifest[s])
        \/ tries[s] = Tries
        \/ Met(s)

\* While no other program interferes, a queued task can be launched, again after it
\* has ended and been resumed.
UndisturbedLaunches == \A s \in Submitters : pc[s] = "REFUSED" => faults > 0
=============================================================================
