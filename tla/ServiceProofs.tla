---------------------------- MODULE ServiceProofs ----------------------------
(***************************************************************************)
(* Theorems about what the daemon is to its clients: submissions, for any  *)
(* number of them and of directory names and whatever other programs do to *)
(* the files (Submission); the server, for any clients and any limit on    *)
(* connections (RpcServer); the socket files, for any number of processes  *)
(* on one database (Daemon); and the calls that read in several            *)
(* transactions, for any number of callers, tasks and pages (TaskWait,     *)
(* TaskPages, ResultPages).                                                *)
(***************************************************************************)
EXTENDS MCService, FiniteSetTheorems, SequenceTheorems, TLAPS

(***************************************************************************)
(* Submissions                                                             *)
(***************************************************************************)

Before == {"IDLE", "ALLOCATE", "SCOPE", "REJECTED"}

\* A submission keeps its manifest, whose scope was looked at before the file is made;
\* what it is about to insert was compared with that manifest.
Compared(s) ==
    /\ pc[s] # "IDLE" => manifest[s] \in Manifests
    /\ pc[s] \notin Before => ScopeValid(manifest[s])
    /\ pc[s] = "INSERT" => text[s] = manifest[s].prompt
    /\ row[s] # None => pc[s] # "IDLE"

\* RowIsSubmission, of one row.
Faithful(s) ==
    row[s] # None =>
        /\ row[s].prompt = manifest[s].prompt
        /\ row[s].scope = {} <=> row[s].mode = "PLAN"
        /\ row[s].scope \subseteq ToSet(manifest[s].paths) \cup {"."}

\* The variables are functions on the submitters.
IsFunction(f) == f = [s \in Submitters |-> f[s]]
Shapes == IsFunction(pc) /\ IsFunction(manifest) /\ IsFunction(text) /\ IsFunction(row)

RowInv == Shapes /\ \A s \in Submitters : Compared(s) /\ Faithful(s)

-----------------------------------------------------------------------------

\* The scope of a valid manifest is empty in plan mode and only there.
LEMMA ScopeOfMode ==
    ASSUME NEW m \in Manifests, ScopeValid(m)
    PROVE  /\ DefaultScope(m) = {} <=> m.mode = "PLAN"
           /\ DefaultScope(m) \subseteq ToSet(m.paths) \cup {"."}
<1>1. m.paths \in Seq(Paths)
  BY SubmissionBounds DEF ManifestAssumption
<1>2. ASSUME m.paths # <<>> PROVE ToSet(m.paths) # {}
  <2>1. 1 \in DOMAIN m.paths
    BY <1>1, <1>2
  <2> QED
    BY <2>1 DEF ToSet
<1>3. ToSet(<<>>) = {}
  BY DEF ToSet
<1> QED
  BY <1>2, <1>3 DEF DefaultScope, ScopeValid

\* What one submission does leaves the others alone.
Alone(s) ==
    /\ pc' = [pc EXCEPT ![s] = pc'[s]]
    /\ manifest' = [manifest EXCEPT ![s] = manifest'[s]]
    /\ text' = [text EXCEPT ![s] = text'[s]]
    /\ row' = [row EXCEPT ![s] = row'[s]]

LEMMA OthersKept ==
    ASSUME RowInv, NEW s \in Submitters, Alone(s), Compared(s)', Faithful(s)'
    PROVE  RowInv'
<1>1. Shapes'
  BY DEF RowInv, Shapes, IsFunction, Alone
<1>2. ASSUME NEW u \in Submitters, u # s
      PROVE  /\ pc'[u] = pc[u] /\ manifest'[u] = manifest[u]
             /\ text'[u] = text[u] /\ row'[u] = row[u]
  BY <1>2 DEF RowInv, Shapes, IsFunction, Alone
<1>3. ASSUME NEW u \in Submitters PROVE Compared(u)' /\ Faithful(u)'
  <2>1. CASE u = s
    BY <2>1
  <2>2. CASE u # s
    BY <2>2, <1>2 DEF RowInv, Compared, Faithful
  <2> QED
    BY <2>1, <2>2
<1> QED
  BY <1>1, <1>3 DEF RowInv

LEMMA RowStep == RowInv /\ [Next]_vars => RowInv'
<1> SUFFICES ASSUME RowInv, [Next]_vars PROVE RowInv'
  OBVIOUS
<1> USE DEF submission, Go, Before
<1>1. ASSUME NEW s \in Submitters, Submit(s) PROVE RowInv'
  <2>1. Alone(s)
    BY <1>1 DEF Submit, Alone, RowInv, Shapes, IsFunction
  <2>2. Compared(s)' /\ Faithful(s)'
    BY <1>1 DEF Submit, RowInv, Compared, Faithful, Shapes, IsFunction
  <2> QED
    BY <2>1, <2>2, OthersKept
<1>2. ASSUME NEW s \in Submitters,
             Allocate(s) \/ Scope(s) \/ WriteTemporary(s) \/ Rename(s) \/ Verify(s)
      PROVE  RowInv'
  <2>1. Alone(s)
    BY <1>2 DEF Allocate, Scope, WriteTemporary, Rename, Verify, Alone, RowInv, Shapes, IsFunction
  <2>2. Compared(s)' /\ Faithful(s)'
    BY <1>2 DEF Allocate, Scope, WriteTemporary, Rename, Verify, RowInv, Compared, Faithful, Shapes,
                IsFunction
  <2> QED
    BY <2>1, <2>2, OthersKept
<1>3. ASSUME NEW s \in Submitters, ReadPrompt(s) \/ Compare(s) PROVE RowInv'
  <2>1. Alone(s)
    BY <1>3 DEF ReadPrompt, Compare, Alone, RowInv, Shapes, IsFunction
  <2>2. Compared(s)' /\ Faithful(s)'
    BY <1>3 DEF ReadPrompt, Compare, RowInv, Compared, Faithful, Shapes, IsFunction
  <2> QED
    BY <2>1, <2>2, OthersKept
<1>4. ASSUME NEW s \in Submitters, Insert(s), ~WorkspaceBusy(s) PROVE RowInv'
  <2>1. Alone(s)
    BY <1>4 DEF Insert, Alone, RowInv, Shapes, IsFunction
  <2>2. Compared(s)'
    BY <1>4 DEF Insert, RowInv, Compared, Shapes, IsFunction
  <2>3. manifest[s] \in Manifests /\ ScopeValid(manifest[s]) /\ text[s] = manifest[s].prompt
    BY <1>4 DEF Insert, RowInv, Compared
  <2>4. /\ manifest' = manifest
        /\ row'[s] = [prompt |-> text[s], mode |-> manifest[s].mode,
                      scope |-> DefaultScope(manifest[s])]
    BY <1>4 DEF Insert, RowInv, Shapes, IsFunction
  <2>5. Faithful(s)'
    BY <2>3, <2>4, ScopeOfMode DEF Faithful
  <2> QED
    BY <2>1, <2>2, <2>5, OthersKept
<1>5. ASSUME NEW s \in Submitters, RoutePolicy(s) \/ Spawn(s) \/ Finalize(s) \/ Requeue(s)
      PROVE  RowInv'
  <2>1. Alone(s)
    BY <1>5 DEF RoutePolicy, Spawn, Finalize, Requeue, Alone, RowInv, Shapes, IsFunction
  <2>2. Compared(s)' /\ Faithful(s)'
    BY <1>5 DEF RoutePolicy, Spawn, Finalize, Requeue, RowInv, Compared, Faithful, Shapes, IsFunction
  <2> QED
    BY <2>1, <2>2, OthersKept
<1>8. ASSUME NEW s \in Submitters, Insert(s), WorkspaceBusy(s) PROVE RowInv'
  <2>1. Alone(s)
    BY <1>8 DEF Insert, Alone, RowInv, Shapes, IsFunction
  <2>2. Compared(s)' /\ Faithful(s)'
    BY <1>8 DEF Insert, RowInv, Compared, Faithful, Shapes, IsFunction
  <2> QED
    BY <2>1, <2>2, OthersKept
<1>6. CASE Disturb
  BY <1>6 DEF Disturb, RowInv, Shapes, IsFunction, Compared, Faithful
<1>7. CASE UNCHANGED vars
  BY <1>7 DEF vars, RowInv, Shapes, IsFunction, Compared, Faithful
<1> QED
  BY <1>1, <1>2, <1>3, <1>4, <1>5, <1>6, <1>7, <1>8 DEF Next

LEMMA RowInit == Init => RowInv
BY DEF Init, RowInv, Shapes, IsFunction, Compared, Faithful, Before

\* The row of a task holds the prompt and the scope that were submitted, whatever other
\* programs do to the prompt file, and however many submissions run at once.
THEOREM RowsAreFaithful == Spec => []RowIsSubmission
<1>1. RowInv => RowIsSubmission
  BY DEF RowInv, Faithful, RowIsSubmission
<1> QED
  BY <1>1, RowInit, RowStep, PTL DEF Spec

-----------------------------------------------------------------------------
(***************************************************************************)
(* Submissions that no other program disturbs                              *)
(***************************************************************************)

\* From here on a submission has its prompt file, and a directory of its own.
WithFile == {"VERIFY", "READ", "COMPARE", "INSERT", "QUEUED", "SPAWN", "RUNNING", "ENDED", "REFUSED"}
WithDirectory == {"SCOPE", "WRITE", "RENAME"} \cup WithFile

FileTypes ==
    /\ pc \in [Submitters -> {"IDLE", "ALLOCATE", "REJECTED"} \cup WithDirectory]
    /\ manifest \in [Submitters -> Manifests \cup {None}]
    /\ tries \in [Submitters -> Nat]
    /\ dir \in [Submitters -> Names \cup {None}]
    /\ text \in [Submitters -> Prompts \cup {None}]
    /\ disk \in [Names -> Scratch \cup {None}]
    /\ faults \in Nat

\* What a submission has put in its directory is there when it comes back to it.
FileKept(s) ==
    /\ pc[s] # "IDLE" => manifest[s] \in Manifests
    /\ pc[s] \in WithDirectory => dir[s] \in Names
    /\ faults = 0 =>
          /\ pc[s] \in WithDirectory => disk[dir[s]] # None
          /\ pc[s] = "RENAME" => disk[dir[s]].tmp = manifest[s].prompt
          /\ pc[s] \in WithFile => disk[dir[s]].prompt = manifest[s].prompt
          /\ pc[s] = "COMPARE" => text[s] = manifest[s].prompt
          /\ pc[s] # "REFUSED"
          /\ pc[s] = "REJECTED" =>
                \/ ~ManifestValid(manifest[s]) \/ ~ScopeValid(manifest[s])
                \/ tries[s] = Tries \/ Met(s)

\* No two submissions have the same directory.
Apart(s, u) ==
    faults = 0 /\ pc[s] \in WithDirectory /\ pc[u] \in WithDirectory /\ s # u => dir[s] # dir[u]

FileInv ==
    FileTypes /\ \A s \in Submitters : FileKept(s) /\ \A u \in Submitters : Apart(s, u)

\* What one submission does to its own directory leaves the others alone.
LEMMA OtherFilesKept ==
    ASSUME FileInv, NEW s \in Submitters, FileTypes', FileKept(s)', UNCHANGED faults,
           \A u \in Submitters \ {s} :
               /\ pc'[u] = pc[u] /\ manifest'[u] = manifest[u] /\ tries'[u] = tries[u]
               /\ dir'[u] = dir[u] /\ text'[u] = text[u],
           \A n \in Names : disk'[n] # disk[n] => pc'[s] \in WithDirectory /\ n = dir'[s] /\ disk'[n] # None,
           \A u \in Submitters : pc[u] = "REJECTED" /\ Met(u) => Met(u)',
           \/ pc[s] \in WithDirectory /\ dir'[s] = dir[s]
           \/ (pc'[s] \in WithDirectory /\ faults = 0 => disk[dir'[s]] = None)
    PROVE  FileInv'
<1>1. ASSUME NEW u \in Submitters, u # s PROVE Apart(s, u)' /\ Apart(u, s)'
  BY <1>1 DEF FileInv, Apart, FileKept
<1>2. ASSUME NEW u \in Submitters, u # s PROVE FileKept(u)'
  <2>1. ASSUME faults = 0, pc[u] \in WithDirectory PROVE disk'[dir[u]] = disk[dir[u]]
    BY <1>1, <1>2, <2>1 DEF FileInv, Apart, FileKept
  <2> QED
    BY <1>2, <2>1 DEF FileInv, FileKept, WithDirectory
<1>3. ASSUME NEW u \in Submitters, u # s, NEW v \in Submitters, v # s PROVE Apart(u, v)'
  BY <1>3 DEF FileInv, Apart
<1>4. Apart(s, s)'
  BY DEF Apart
<1> QED
  BY <1>1, <1>2, <1>3, <1>4 DEF FileInv

LEMMA FileInit == Init => FileInv
BY DEF Init, FileInv, FileTypes, FileKept, Apart, WithDirectory, WithFile

\* A step that touches neither the directory nor the names.
LEMMA FileQuiet ==
    ASSUME FileInv, NEW s \in Submitters, FileTypes', FileKept(s)',
           UNCHANGED <<manifest, tries, dir, disk, faults>>,
           \A u \in Submitters \ {s} : pc'[u] = pc[u] /\ text'[u] = text[u],
           \A u \in Submitters : pc[u] = "REJECTED" /\ Met(u) => Met(u)',
           pc[s] \in WithDirectory
    PROVE  FileInv'
BY OtherFilesKept

\* A stored task stays stored, with its manifest.
LEMMA MetStays ==
    ASSUME FileInv, [Next]_vars, NEW u \in Submitters, pc[u] = "REJECTED", Met(u)
    PROVE  Met(u)'
<1> DEFINE Stored == {"QUEUED", "SPAWN", "RUNNING", "ENDED", "REFUSED"}
<1>1. PICK v \in Submitters \ {u} :
        pc[v] \in Stored /\ manifest[v].workspace = manifest[u].workspace
  BY DEF Met
<1>t. FileTypes
  BY DEF FileInv
<1>3. pc'[v] \in Stored
  <2>1. ASSUME NEW s \in Submitters,
               \/ Submit(s) \/ Allocate(s) \/ Scope(s) \/ WriteTemporary(s) \/ Rename(s)
               \/ Verify(s) \/ ReadPrompt(s) \/ Compare(s) \/ Insert(s)
        PROVE  pc'[v] \in Stored
    <3>1. pc[s] \notin Stored
      BY <2>1 DEF Submit, Allocate, Scope, WriteTemporary, Rename, Verify, ReadPrompt, Compare,
                  Insert
    <3>2. \E p : pc' = [pc EXCEPT ![s] = p]
      BY <2>1 DEF Submit, Allocate, Scope, WriteTemporary, Rename, Verify, ReadPrompt, Compare,
                  Insert, Go
    <3> QED
      BY <1>1, <1>t, <3>1, <3>2 DEF FileTypes
  <2>2. ASSUME NEW s \in Submitters, RoutePolicy(s) \/ Spawn(s) \/ Finalize(s) \/ Requeue(s)
        PROVE  pc'[v] \in Stored
    <3>1. \E p \in Stored : pc' = [pc EXCEPT ![s] = p]
      BY <2>2 DEF RoutePolicy, Spawn, Finalize, Requeue, Go
    <3> QED
      BY <1>1, <1>t, <3>1 DEF FileTypes
  <2>3. ASSUME Disturb \/ UNCHANGED vars PROVE pc' = pc
    BY <2>3 DEF Disturb, vars
  <2> QED
    BY <1>1, <2>1, <2>2, <2>3 DEF Next
<1>4. manifest'[v] = manifest[v] /\ manifest'[u] = manifest[u]
  <2>1. ASSUME NEW s \in Submitters, Submit(s)
        PROVE  manifest'[v] = manifest[v] /\ manifest'[u] = manifest[u]
    BY <1>1, <1>t, <2>1 DEF Submit, FileTypes
  <2>2. ~(\E s \in Submitters : Submit(s)) => manifest' = manifest
    BY DEF Next, vars, submission, Allocate, Scope, WriteTemporary, Rename, Verify, ReadPrompt,
           Compare, Insert, RoutePolicy, Spawn, Finalize, Requeue, Disturb
  <2> QED
    BY <2>1, <2>2
<1> QED
  BY <1>1, <1>3, <1>4 DEF Met

LEMMA FileStep == FileInv /\ [Next]_vars => FileInv'
<1> SUFFICES ASSUME FileInv, [Next]_vars PROVE FileInv'
  OBVIOUS
<1>0. \A u \in Submitters : pc[u] = "REJECTED" /\ Met(u) => Met(u)'
  BY MetStays
<1> USE SubmissionBounds DEF FileInv, NoneAssumption, submission, Go, WithDirectory, WithFile
<1>1. ASSUME NEW s \in Submitters, Submit(s) PROVE FileInv'
  <2>1. PICK m \in Manifests : /\ manifest' = [manifest EXCEPT ![s] = m]
                               /\ Go(s, IF ManifestValid(m) THEN "ALLOCATE" ELSE "REJECTED")
    BY <1>1 DEF Submit
  <2>2. FileTypes' /\ FileKept(s)'
    BY <1>1, <2>1 DEF Submit, FileTypes, FileKept
  <2> QED
    BY <1>1, <2>1, <2>2, <1>0, OtherFilesKept DEF Submit, FileTypes
<1>2. ASSUME NEW s \in Submitters, Allocate(s) PROVE FileInv'
  <2>0. Empty \in Scratch /\ Empty # None
    BY DEF Empty, Scratch
  <2>1. PICK n \in Names :
          IF disk[n] = None
            THEN /\ disk' = [disk EXCEPT ![n] = Empty]
                 /\ dir' = [dir EXCEPT ![s] = n]
                 /\ Go(s, "SCOPE")
                 /\ UNCHANGED tries
            ELSE /\ tries' = [tries EXCEPT ![s] = @ + 1]
                 /\ Go(s, IF tries'[s] = Tries THEN "REJECTED" ELSE "ALLOCATE")
                 /\ UNCHANGED <<disk, dir>>
    BY <1>2 DEF Allocate
  <2>2. FileTypes' /\ FileKept(s)'
    BY <1>2, <2>0, <2>1 DEF Allocate, FileTypes, FileKept
  <2> QED
    BY <1>2, <2>0, <2>1, <2>2, <1>0, OtherFilesKept DEF Allocate, FileTypes
<1>3. ASSUME NEW s \in Submitters, Scope(s) \/ Verify(s) \/ Compare(s) \/ Spawn(s) \/ Finalize(s)
                                     \/ Requeue(s)
      PROVE  FileInv'
  <2>1. FileTypes' /\ FileKept(s)'
    BY <1>3 DEF Scope, Verify, Compare, Spawn, Finalize, Requeue, FileTypes, FileKept,
                FileVerified
  <2> QED
    BY <1>3, <2>1, <1>0, FileQuiet DEF Scope, Verify, Compare, Spawn, Finalize, Requeue, FileTypes
<1>4. ASSUME NEW s \in Submitters, WriteTemporary(s) PROVE FileInv'
  <2>1. CASE disk[dir[s]] = None
    <3>1. FileTypes' /\ FileKept(s)'
      BY <1>4, <2>1 DEF WriteTemporary, FileTypes, FileKept
    <3> QED
      BY <1>4, <2>1, <3>1, <1>0, FileQuiet DEF WriteTemporary, FileTypes
  <2>2. CASE disk[dir[s]] # None
    <3>1. PICK f \in Scratch : /\ disk' = [disk EXCEPT ![dir[s]] = f] /\ f # None
                               /\ f.tmp = manifest[s].prompt /\ dir[s] \in Names
      <4>1. dir[s] \in Names /\ disk[dir[s]] \in Scratch /\ manifest[s].prompt \in Prompts
        BY <1>4, <2>2 DEF WriteTemporary, FileKept, FileTypes, Prompts
      <4>2. PICK f : f = [disk[dir[s]] EXCEPT !.tmp = manifest[s].prompt]
        OBVIOUS
      <4>3. f \in Scratch /\ f.tmp = manifest[s].prompt
        BY <4>1, <4>2 DEF Scratch
      <4>4. disk' = [disk EXCEPT ![dir[s]] = f]
        BY <1>4, <2>2, <4>2 DEF WriteTemporary
      <4> QED
        BY <4>1, <4>3, <4>4
    <3>2. FileTypes' /\ FileKept(s)'
      BY <1>4, <2>2, <3>1 DEF WriteTemporary, FileTypes, FileKept
    <3> QED
      BY <1>4, <2>2, <3>1, <3>2, <1>0, OtherFilesKept DEF WriteTemporary, FileTypes
  <2> QED
    BY <2>1, <2>2
<1>5. ASSUME NEW s \in Submitters, Rename(s) PROVE FileInv'
  <2>1. CASE disk[dir[s]] = None \/ disk[dir[s]].tmp = None
    <3>1. manifest[s].prompt # None
      BY <1>5 DEF Rename, FileKept, Prompts
    <3>2. FileTypes' /\ FileKept(s)'
      BY <1>5, <2>1, <3>1 DEF Rename, FileTypes, FileKept
    <3> QED
      BY <1>5, <2>1, <3>2, <1>0, FileQuiet DEF Rename, FileTypes
  <2>2. CASE ~(disk[dir[s]] = None \/ disk[dir[s]].tmp = None)
    <3>1. PICK f \in Scratch : /\ disk' = [disk EXCEPT ![dir[s]] = f] /\ f # None
                               /\ f.prompt = disk[dir[s]].tmp /\ dir[s] \in Names
      <4>1. dir[s] \in Names /\ disk[dir[s]] \in Scratch
        BY <1>5, <2>2 DEF Rename, FileKept, FileTypes
      <4>2. PICK f : f = [tmp |-> None, prompt |-> disk[dir[s]].tmp]
        OBVIOUS
      <4>3. f \in Scratch /\ f.prompt = disk[dir[s]].tmp
        BY <4>1, <4>2 DEF Scratch
      <4>4. disk' = [disk EXCEPT ![dir[s]] = f]
        BY <1>5, <2>2, <4>2 DEF Rename
      <4> QED
        BY <4>1, <4>3, <4>4
    <3>2. FileTypes' /\ FileKept(s)'
      BY <1>5, <2>2, <3>1 DEF Rename, FileTypes, FileKept
    <3> QED
      BY <1>5, <2>2, <3>1, <3>2, <1>0, OtherFilesKept DEF Rename, FileTypes
  <2> QED
    BY <2>1, <2>2
<1>6. ASSUME NEW s \in Submitters, ReadPrompt(s) PROVE FileInv'
  <2>0. manifest[s].prompt # None /\ (disk[dir[s]] # None => disk[dir[s]].prompt \in Prompts \cup {None})
    BY <1>6 DEF ReadPrompt, FileKept, FileTypes, Prompts, Scratch
  <2>1. FileTypes' /\ FileKept(s)'
    BY <1>6, <2>0 DEF ReadPrompt, FileTypes, FileKept
  <2> QED
    BY <1>6, <2>1, <1>0, FileQuiet DEF ReadPrompt, FileTypes
<1>7. ASSUME NEW s \in Submitters, RoutePolicy(s) PROVE FileInv'
  <2>0. Empty \in Scratch /\ Empty # None
    BY DEF Empty, Scratch
  <2>1. FileTypes' /\ FileKept(s)'
    BY <1>7, <2>0 DEF RoutePolicy, FileTypes, FileKept, FileVerified
  <2> QED
    BY <1>7, <2>0, <2>1, <1>0, OtherFilesKept DEF RoutePolicy, FileTypes
<1>8. CASE Disturb
  <2>1. PICK n \in Names : disk[n] # None /\
          ( \/ disk' = [disk EXCEPT ![n] = None]
            \/ \E m \in Manifests : disk' = [disk EXCEPT ![n].prompt = m.prompt])
    BY <1>8 DEF Disturb
  <2>2. disk' \in [Names -> Scratch \cup {None}]
    <3>1. ASSUME NEW m \in Manifests, disk' = [disk EXCEPT ![n].prompt = m.prompt]
          PROVE  disk' \in [Names -> Scratch \cup {None}]
      <4>1. PICK f : f = [disk[n] EXCEPT !.prompt = m.prompt]
        OBVIOUS
      <4>2. f \in Scratch
        BY <2>1, <4>1 DEF FileTypes, Scratch, Prompts
      <4> QED
        BY <3>1, <4>1, <4>2 DEF FileTypes
    <3> QED
      BY <2>1, <3>1 DEF FileTypes
  <2>3. faults' \in Nat /\ faults' # 0
    BY <1>8 DEF Disturb, FileTypes
  <2> QED
    BY <1>8, <2>2, <2>3 DEF Disturb, FileTypes, FileKept, Apart
<1>10. ASSUME NEW s \in Submitters, Insert(s) PROVE FileInv'
  <2>1. WorkspaceBusy(s) => Met(s)'
    BY <1>10 DEF Insert, WorkspaceBusy, Met, FileTypes
  <2>2. FileTypes' /\ FileKept(s)'
    BY <1>10, <2>1 DEF Insert, FileTypes, FileKept
  <2> QED
    BY <1>10, <2>2, <1>0, FileQuiet DEF Insert, FileTypes
<1>9. CASE UNCHANGED vars
  BY <1>9 DEF vars, FileTypes, FileKept, Apart, Met
<1> QED
  BY <1>1, <1>2, <1>3, <1>4, <1>5, <1>6, <1>7, <1>8, <1>9, <1>10 DEF Next

\* As long as no other program touches the temporary directory, submissions that meet in
\* it are refused only for their manifest, their scope, for want of a name or because
\* their workspace has another task, and every launch, again after a resume, finds the
\* prompt file it verifies (allocate_submission, atomic_write, verify_file,
\* enqueue_task_authoritative): for any number of submissions, names and workspaces.
THEOREM NobodyIsDisturbed == Spec => []Undisturbed
<1>1. FileInv => Undisturbed
  BY DEF FileInv, FileTypes, FileKept, Undisturbed, UndisturbedIsAccepted, UndisturbedLaunches
<1> QED
  BY <1>1, FileInit, FileStep, PTL DEF Spec

-----------------------------------------------------------------------------
(***************************************************************************)
(* The server                                                              *)
(***************************************************************************)

TurnedAway == {"BUSY", "REFUSED", "INTERRUPTED"}
Refusal == TurnedAway \cup {"CLOSED", "OVERSIZED"}
WorkerPlaces == {"NONE", "READ", "HANDLE", "WRITE", "LEAVE", "DONE", "PANICKED"}

RpcTypes ==
    /\ rpcCall \in [Server!Conns -> Server!Calls \cup {"NONE"}]
    /\ rpcBacklog \in Seq(Server!Conns)
    /\ rpcActive \in Nat
    /\ rpcWorker \in [Server!Conns -> WorkerPlaces]
    /\ rpcReply \in [Server!Conns -> Refusal \cup {"NONE", "OK"}]
    /\ rpcAnswer \in [Server!Conns -> Refusal \cup {"NONE", "OK"}]
    /\ rpcApplied \in [Server!Conns -> Nat]

\* A connection is made once: until then nobody works on it.
Arrived(c) == IF c = Wake THEN rpcStopper \notin {"IDLE", "CONNECT"} ELSE rpcCall[c] # "NONE"

\* The backlog has a connection once, and those in it are not worked on yet.
Queued ==
    /\ \A i, j \in 1 .. Len(rpcBacklog) : rpcBacklog[i] = rpcBacklog[j] => i = j
    /\ \A i \in 1 .. Len(rpcBacklog) : /\ Arrived(rpcBacklog[i])
                                       /\ rpcWorker[rpcBacklog[i]] = "NONE"
                                       /\ rpcAnswer[rpcBacklog[i]] = "NONE"

\* How far the call of a connection is, and what its client knows of it.
Told(c) ==
    /\ ~Arrived(c) => rpcWorker[c] = "NONE" /\ rpcAnswer[c] = "NONE"
    /\ rpcWorker[c] \in {"NONE", "READ", "HANDLE"} => rpcApplied[c] = 0 /\ rpcAnswer[c] # "OK"
    /\ rpcWorker[c] \in {"READ", "HANDLE", "WRITE"} => rpcAnswer[c] = "NONE"
    /\ rpcWorker[c] = "WRITE" =>
          \/ rpcReply[c] = "OK" /\ rpcApplied[c] = 1
          \/ rpcReply[c] \in Refusal /\ rpcApplied[c] = 0
    /\ rpcApplied[c] <= 1
    /\ rpcAnswer[c] = "OK" => rpcApplied[c] = 1
    /\ rpcAnswer[c] \in TurnedAway => rpcApplied[c] = 0

\* Every worker has its slot and its handle; the accept thread ends behind the last one.
Slots ==
    /\ IsFiniteSet(Server!SlotHolders) /\ Server!SlotsAreWorkers
    /\ Server!Running \subseteq rpcWorkers
    /\ rpcAccept = "ENDED" => Server!Running = {}
    /\ rpcStopper = "STOPPED" => rpcAccept = "ENDED"

RpcInv == RpcTypes /\ Queued /\ Slots /\ \A c \in Server!Conns : Told(c)

\* The instance counts as the library does, whose theorems are about Cardinality.
LEMMA SameCardinality == \A S : Server!Cardinality(S) = Cardinality(S)
BY DEF Server!Cardinality, Cardinality

LEMMA RpcInit == Server!Init => RpcInv
<1> SUFFICES ASSUME Server!Init PROVE RpcInv
  OBVIOUS
<1> USE ServerBounds DEF Server!Init, Server!ServerBounds, Server!WakeAssumption
<1>1. RpcTypes /\ Queued
  BY DEF RpcTypes, Queued, WorkerPlaces
<1>2. Slots
  <2>1. Server!Running = {} /\ Server!SlotHolders = {}
    BY DEF Server!Running, Server!SlotHolders
  <2> QED
    BY <2>1, FS_EmptySet, SameCardinality DEF Slots, Server!SlotsAreWorkers
<1>3. \A c \in Server!Conns : Told(c)
  BY DEF Told, Arrived, Refusal, TurnedAway, Server!Conns
<1> QED
  BY <1>1, <1>2, <1>3 DEF RpcInv

\* The first connection of the backlog is taken.
LEMMA Taken ==
    ASSUME RpcInv, rpcBacklog # << >>, rpcBacklog' = Tail(rpcBacklog)
    PROVE  /\ Head(rpcBacklog) = rpcBacklog[1] /\ 1 \in 1 .. Len(rpcBacklog)
           /\ rpcBacklog[1] \in Server!Conns
           /\ rpcBacklog' \in Seq(Server!Conns)
           /\ \A i \in 1 .. Len(rpcBacklog') :
                 /\ i + 1 \in 1 .. Len(rpcBacklog) /\ rpcBacklog'[i] = rpcBacklog[i + 1]
                 /\ rpcBacklog'[i] # rpcBacklog[1]
           /\ \A i, j \in 1 .. Len(rpcBacklog') : rpcBacklog'[i] = rpcBacklog'[j] => i = j
<1>1. /\ rpcBacklog \in Seq(Server!Conns) /\ Len(rpcBacklog) \in Nat
      /\ 1 \in 1 .. Len(rpcBacklog) /\ Head(rpcBacklog) = rpcBacklog[1]
      /\ rpcBacklog' \in Seq(Server!Conns) /\ Len(rpcBacklog') = Len(rpcBacklog) - 1
  BY DEF RpcInv, RpcTypes
<1>2. \A i \in 1 .. Len(rpcBacklog') :
         i + 1 \in 1 .. Len(rpcBacklog) /\ rpcBacklog'[i] = rpcBacklog[i + 1] /\ i + 1 # 1
  BY <1>1
<1>3. \A i, j \in 1 .. Len(rpcBacklog) : rpcBacklog[i] = rpcBacklog[j] => i = j
  BY DEF RpcInv, Queued
<1>4. \A i, j \in 1 .. Len(rpcBacklog') : rpcBacklog'[i] = rpcBacklog'[j] => i = j
  BY <1>2, <1>3
<1> QED
  BY <1>1, <1>2, <1>3, <1>4

\* A connection that has just been made joins the backlog.
LEMMA Joined ==
    ASSUME RpcInv, NEW c \in Server!Conns, rpcBacklog' = Append(rpcBacklog, c), ~Arrived(c), Arrived(c)',
           \A u \in Server!Conns : Arrived(u) => Arrived(u)',
           UNCHANGED <<rpcWorker, rpcAnswer>>
    PROVE  rpcBacklog' \in Seq(Server!Conns) /\ Queued'
<1>1. /\ rpcBacklog \in Seq(Server!Conns) /\ Len(rpcBacklog) \in Nat
      /\ rpcBacklog' \in Seq(Server!Conns) /\ Len(rpcBacklog') = Len(rpcBacklog) + 1
      /\ rpcBacklog'[Len(rpcBacklog) + 1] = c
      /\ \A i \in 1 .. Len(rpcBacklog) : rpcBacklog'[i] = rpcBacklog[i] /\ rpcBacklog[i] \in Server!Conns
  BY DEF RpcInv, RpcTypes
<1>2. \A i \in 1 .. Len(rpcBacklog') : i \in 1 .. Len(rpcBacklog) \/ i = Len(rpcBacklog) + 1
  BY <1>1
<1>3. \A i \in 1 .. Len(rpcBacklog) : rpcBacklog[i] # c
  BY DEF RpcInv, Queued
<1>4. rpcWorker[c] = "NONE" /\ rpcAnswer[c] = "NONE"
  BY DEF RpcInv, Told
<1>5. PICK b : b = rpcBacklog'
  OBVIOUS
<1>6. \A i, j \in 1 .. Len(b) : b[i] = b[j] => i = j
  BY <1>1, <1>2, <1>3, <1>5 DEF RpcInv, Queued
<1>7. \A i \in 1 .. Len(b) : Arrived(b[i])' /\ rpcWorker[b[i]] = "NONE" /\ rpcAnswer[b[i]] = "NONE"
  BY <1>1, <1>2, <1>4, <1>5 DEF RpcInv, Queued
<1> QED
  BY <1>1, <1>5, <1>6, <1>7 DEF Queued, Arrived

\* A worker that goes on keeps its slot, also if it panics; one that leaves gives it back.
LEMMA WorkerMoves ==
    ASSUME RpcInv, NEW c \in Server!Conns, NEW place \in WorkerPlaces \ {"NONE"},
           rpcWorker[c] \notin {"NONE", "DONE", "PANICKED"},
           rpcWorker' = [rpcWorker EXCEPT ![c] = place],
           rpcActive' = IF place = "DONE" THEN rpcActive - 1 ELSE rpcActive,
           rpcAccept' = rpcAccept, rpcWorkers' = rpcWorkers, rpcStopper' = rpcStopper
    PROVE  Slots' /\ rpcActive' \in Nat
<1> USE DEF WorkerPlaces
<1>1. /\ c \in Server!Running /\ c \in Server!SlotHolders
      /\ Server!Running' \subseteq Server!Running
  BY DEF Server!Running, Server!SlotHolders, RpcInv, RpcTypes
<1>2. CASE place # "DONE"
  <2>1. Server!SlotHolders' = Server!SlotHolders
    BY <1>1, <1>2 DEF Server!Running, Server!SlotHolders, RpcInv, RpcTypes
  <2> QED
    BY <1>1, <1>2, <2>1 DEF RpcInv, RpcTypes, Slots, Server!SlotsAreWorkers
<1>3. CASE place = "DONE"
  <2>1. Server!SlotHolders' = Server!SlotHolders \ {c}
    BY <1>1, <1>3 DEF Server!Running, Server!SlotHolders, RpcInv, RpcTypes
  <2>2. /\ IsFiniteSet(Server!SlotHolders \ {c})
        /\ Cardinality(Server!SlotHolders \ {c}) = Cardinality(Server!SlotHolders) - 1
    BY <1>1, FS_RemoveElement DEF RpcInv, Slots
  <2>3. /\ Cardinality(Server!SlotHolders) \in Nat
        /\ Cardinality(Server!SlotHolders \ {c}) \in Nat
        /\ rpcActive = Cardinality(Server!SlotHolders) /\ rpcActive <= MaxConnections
    BY <2>2, FS_CardinalityType, SameCardinality DEF RpcInv, Slots, Server!SlotsAreWorkers
  <2>4. /\ rpcActive' = Cardinality(Server!SlotHolders \ {c}) /\ rpcActive' <= MaxConnections
        /\ rpcActive' \in Nat
    BY <1>3, <2>2, <2>3, ServerBounds DEF Server!ServerBounds
  <2>5. rpcActive' = Server!Cardinality(Server!SlotHolders \ {c})
    BY <2>4, SameCardinality
  <2> QED
    BY <1>1, <2>1, <2>2, <2>4, <2>5 DEF RpcInv, Slots, Server!SlotsAreWorkers
<1> QED
  BY <1>2, <1>3

\* A step of the worker of one connection.
LEMMA RpcWorkStep ==
    ASSUME RpcInv, NEW c \in Server!Conns,
           Server!Work(c) \/ Server!Handle(c) \/ Server!Panic(c)
    PROVE  RpcInv'
<1> USE DEF RpcInv
<1>1. PICK place \in WorkerPlaces \ {"NONE"} :
        /\ rpcWorker[c] \notin {"NONE", "DONE", "PANICKED"}
        /\ rpcWorker' = [rpcWorker EXCEPT ![c] = place]
        /\ rpcActive' = (IF place = "DONE" THEN rpcActive - 1 ELSE rpcActive)
  BY DEF Server!Work, Server!ReadFrame, Server!ReadOversized, Server!ReadNothing, Server!Handle,
         Server!HandleInterrupted, Server!Respond, Server!Exit, Server!Panic, WorkerPlaces
<1>2. /\ UNCHANGED <<rpcCall, rpcBacklog, rpcAccept, rpcWorkers, rpcStopper>>
      /\ \A u \in Server!Conns \ {c} : /\ rpcWorker'[u] = rpcWorker[u] /\ rpcReply'[u] = rpcReply[u]
                                       /\ rpcAnswer'[u] = rpcAnswer[u] /\ rpcApplied'[u] = rpcApplied[u]
  BY DEF Server!Work, Server!ReadFrame, Server!ReadOversized, Server!ReadNothing, Server!Handle,
         Server!HandleInterrupted, Server!Respond, Server!Exit, Server!Panic, Server!Tell,
         Server!clientVars, RpcTypes
<1>3. Slots' /\ rpcActive' \in Nat
  BY <1>1, <1>2, WorkerMoves
<1>4. \A u : Arrived(u)' <=> Arrived(u)
  BY <1>2 DEF Arrived
<1>5. RpcTypes' /\ Told(c)'
  <2> USE <1>1, <1>2, <1>3, <1>4 DEF RpcTypes, Told, Refusal, TurnedAway, WorkerPlaces
  <2>1. CASE Server!ReadFrame(c) \/ Server!Exit(c)
    BY <2>1 DEF Server!ReadFrame, Server!Exit
  <2>2. CASE Server!ReadOversized(c) \/ Server!HandleInterrupted(c)
    <3>1. /\ rpcApplied' = rpcApplied /\ rpcAnswer' = rpcAnswer
          /\ rpcWorker[c] \in {"READ", "HANDLE"}
          /\ rpcWorker' = [rpcWorker EXCEPT ![c] = "WRITE"]
          /\ \E what \in {"OVERSIZED", "INTERRUPTED"} : rpcReply' = [rpcReply EXCEPT ![c] = what]
      BY <2>2 DEF Server!ReadOversized, Server!HandleInterrupted
    <3>2. /\ rpcReply'[c] \in Refusal /\ rpcWorker'[c] = "WRITE"
          /\ rpcReply' \in [Server!Conns -> Refusal \cup {"NONE", "OK"}]
      BY <3>1
    <3>3. rpcApplied[c] = 0 /\ rpcAnswer[c] = "NONE" /\ Arrived(c)
      BY <3>1
    <3> QED
      BY <3>1, <3>2, <3>3
  <2>3. CASE Server!ReadNothing(c)
    BY <2>3 DEF Server!ReadNothing, Server!Tell
  <2>4. CASE Server!Handle(c)
    <3>1. /\ rpcApplied[c] = 0 /\ rpcAnswer[c] = "NONE" /\ rpcWorker[c] = "HANDLE" /\ rpcAnswer' = rpcAnswer
          /\ rpcWorker'[c] = "WRITE" /\ rpcWorker' = [rpcWorker EXCEPT ![c] = "WRITE"]
          /\ Arrived(c)'
      BY <2>4 DEF Server!Handle
    <3>2. CASE rpcCall[c] = "BAD"
      <4>1. rpcReply' = [rpcReply EXCEPT ![c] = "REFUSED"] /\ rpcApplied' = rpcApplied
        BY <2>4, <3>2 DEF Server!Handle
      <4> QED
        BY <3>1, <4>1
    <3>3. CASE rpcCall[c] # "BAD"
      <4>1. rpcReply' = [rpcReply EXCEPT ![c] = "OK"] /\ rpcApplied' = [rpcApplied EXCEPT ![c] = @ + 1]
        BY <2>4, <3>3 DEF Server!Handle
      <4>2. rpcApplied'[c] = 1 /\ rpcApplied' \in [Server!Conns -> Nat] /\ rpcReply'[c] = "OK"
        BY <3>1, <4>1
      <4> QED
        BY <3>1, <4>1, <4>2
    <3> QED
      BY <3>2, <3>3
  <2>5. CASE Server!Respond(c)
    <3>1. /\ rpcApplied' = rpcApplied /\ rpcReply' = rpcReply /\ rpcWorker[c] = "WRITE"
          /\ rpcWorker' = [rpcWorker EXCEPT ![c] = "LEAVE"]
      BY <2>5 DEF Server!Respond
    <3>2. PICK what \in Refusal \cup {"OK"} :
            /\ rpcAnswer' = rpcAnswer \/ rpcAnswer' = [rpcAnswer EXCEPT ![c] = what]
            /\ what = rpcReply[c] \/ what \in {"CLOSED", "OVERSIZED"}
      BY <2>5, <3>1 DEF Server!Respond, Server!Tell
    <3>3. rpcAnswer' \in [Server!Conns -> Refusal \cup {"NONE", "OK"}] /\ rpcWorker'[c] = "LEAVE"
      <4>1. rpcAnswer \in [Server!Conns -> Refusal \cup {"NONE", "OK"}]
        OBVIOUS
      <4>2. rpcAnswer' \in [Server!Conns -> Refusal \cup {"NONE", "OK"}]
        BY ONLY <3>2, <4>1
      <4>3. rpcWorker \in [Server!Conns -> WorkerPlaces]
        OBVIOUS
      <4> QED
        BY <3>1, <4>2, <4>3
    <3>4. rpcAnswer[c] = "NONE" /\ Arrived(c) /\ rpcAnswer'[c] \in {"NONE", what}
      BY <3>1, <3>2
    <3> QED
      BY <3>1, <3>2, <3>3, <3>4
  <2>6. CASE Server!Panic(c)
    <3>1. /\ rpcApplied[c] = 0 /\ rpcAnswer[c] = "NONE" /\ rpcWorker[c] = "HANDLE"
          /\ rpcReply' = rpcReply /\ rpcWorker'[c] = "PANICKED" /\ Arrived(c)'
      BY <2>6 DEF Server!Panic
    <3>2. rpcApplied' = rpcApplied \/ rpcApplied' = [rpcApplied EXCEPT ![c] = @ + 1]
      BY <2>6 DEF Server!Panic
    <3>3. rpcApplied' \in [Server!Conns -> Nat] /\ rpcApplied'[c] \in {0, 1}
      BY <3>1, <3>2
    <3>4. rpcAnswer' = rpcAnswer \/ rpcAnswer' = [rpcAnswer EXCEPT ![c] = "CLOSED"]
      BY <2>6 DEF Server!Panic, Server!Tell
    <3>5. /\ rpcAnswer' \in [Server!Conns -> Refusal \cup {"NONE", "OK"}]
          /\ rpcAnswer'[c] \in {"NONE", "CLOSED"}
      BY <3>1, <3>4
    <3>6. rpcReply' \in [Server!Conns -> Refusal \cup {"NONE", "OK"}]
      BY <3>1
    <3>7. rpcApplied'[c] <= 1
      BY ONLY <3>3
    <3>8. Told(c)'
      BY <3>1, <3>5, <3>7 DEF Told, TurnedAway
    <3> QED
      BY <3>3, <3>5, <3>6, <3>8
  <2> QED
    BY <2>1, <2>2, <2>3, <2>4, <2>5, <2>6 DEF Server!Work
<1>6. \A u \in Server!Conns \ {c} : Told(u)'
  BY <1>2, <1>4 DEF Told
<1>7. Queued'
  <2>1. \A i \in 1 .. Len(rpcBacklog) : rpcBacklog[i] \in Server!Conns \ {c}
    BY <1>1 DEF Queued, RpcTypes
  <2> QED
    BY <1>2, <1>4, <2>1 DEF Queued
<1> QED
  BY <1>3, <1>5, <1>6, <1>7

\* The clients, and shutdown.
LEMMA RpcClientStep ==
    ASSUME RpcInv, NEW c \in Clients,
           (\E kind \in Server!Calls : Server!Connect(c, kind)) \/ Server!Send(c) \/ Server!Leave(c)
               \/ Server!ReadPart(c)
    PROVE  RpcInv'
<1> USE DEF RpcInv, Server!workerVars
<1>1. ASSUME NEW kind \in Server!Calls, Server!Connect(c, kind) PROVE RpcInv'
  <2>1. /\ UNCHANGED <<rpcAccept, rpcActive, rpcWorkers, rpcWorker, rpcReply, rpcAnswer, rpcApplied,
                       rpcStopper>>
        /\ rpcBacklog' = Append(rpcBacklog, c) /\ rpcCall' = [rpcCall EXCEPT ![c] = kind]
        /\ rpcCall[c] = "NONE" /\ c \in Server!Conns /\ c # Wake /\ kind # "NONE"
    BY <1>1, ServerBounds DEF Server!Connect, Server!Conns, Server!WakeAssumption, Server!Calls
  <2>2. ~Arrived(c) /\ Arrived(c)' /\ \A u \in Server!Conns \ {c} : Arrived(u)' <=> Arrived(u)
    BY <2>1 DEF Arrived, RpcTypes
  <2>3. rpcBacklog' \in Seq(Server!Conns) /\ Queued'
    BY <2>1, <2>2, Joined
  <2> QED
    BY <2>1, <2>2, <2>3 DEF RpcTypes, Slots, Server!SlotsAreWorkers, Server!Running, Server!SlotHolders, Told
<1>2. CASE Server!Send(c) \/ Server!Leave(c) \/ Server!ReadPart(c)
  <2>1. UNCHANGED <<rpcCall, rpcBacklog, rpcAccept, rpcActive, rpcWorkers, rpcWorker, rpcReply,
                    rpcAnswer, rpcApplied, rpcStopper>>
    BY <1>2 DEF Server!Send, Server!Leave, Server!ReadPart
  <2> QED
    BY <2>1 DEF RpcTypes, Queued, Arrived, Slots,
             Server!SlotsAreWorkers, Server!Running, Server!SlotHolders, Told
<1> QED
  BY <1>1, <1>2

\* A step of the accept thread.
LEMMA RpcAcceptStep ==
    ASSUME RpcInv, Server!Accept
    PROVE  RpcInv'
<1> USE DEF RpcInv, Server!clientVars, Server!workerVars
<1>0. /\ UNCHANGED <<rpcCall, rpcReply, rpcApplied, rpcStopper>>
      /\ \A u : Arrived(u)' <=> Arrived(u)
  BY DEF Server!Accept, Server!Check, Server!AcceptNothing, Server!AcceptFails, Server!AcceptBusy, Server!AcceptWorker,
         Server!Join, Arrived
<1>1. CASE Server!Check \/ Server!AcceptNothing \/ Server!AcceptFails
  <2>1. /\ UNCHANGED <<rpcBacklog, rpcActive, rpcWorker, rpcAnswer>>
        /\ rpcAccept # "ENDED" /\ rpcAccept' # "ENDED"
        /\ \/ rpcWorkers' = rpcWorkers
           \/ rpcWorkers' = {c \in rpcWorkers : rpcWorker[c] \notin {"DONE", "PANICKED"}}
    BY <1>1 DEF Server!Check, Server!AcceptNothing, Server!AcceptFails, Server!Finished
  <2>2. /\ Server!Running' = Server!Running /\ Server!SlotHolders' = Server!SlotHolders
        /\ \A c \in Server!Running : rpcWorker[c] \notin {"DONE", "PANICKED"}
    BY <2>1 DEF Server!Running, Server!SlotHolders
  <2>3. Slots'
    BY <1>0, <2>1, <2>2 DEF Slots, Server!SlotsAreWorkers
  <2> QED
    BY <1>0, <2>1, <2>3 DEF RpcTypes, Queued, Told
<1>2. CASE Server!AcceptBusy
  <2>1. /\ UNCHANGED <<rpcActive, rpcWorkers, rpcWorker>> /\ rpcBacklog # << >>
        /\ rpcBacklog' = Tail(rpcBacklog) /\ rpcAccept # "ENDED" /\ rpcAccept' # "ENDED"
        /\ \/ rpcAnswer' = rpcAnswer
           \/ \E what \in {"BUSY", "CLOSED"} :
                 rpcAnswer' = [rpcAnswer EXCEPT ![Head(rpcBacklog)] = what]
    BY <1>2 DEF Server!AcceptBusy, Server!Tell
  <2>2. PICK c : c = rpcBacklog[1]
    OBVIOUS
  <2>3. /\ c \in Server!Conns /\ c = Head(rpcBacklog) /\ Arrived(c) /\ rpcWorker[c] = "NONE"
    BY <2>1, <2>2, Taken DEF Queued
  <2>4. /\ rpcAnswer' \in [Server!Conns -> Refusal \cup {"NONE", "OK"}]
        /\ \A u \in Server!Conns \ {c} : rpcAnswer'[u] = rpcAnswer[u]
        /\ rpcAnswer'[c] = rpcAnswer[c] \/ rpcAnswer'[c] \in {"BUSY", "CLOSED"}
    BY <2>1, <2>3 DEF RpcTypes, Refusal, TurnedAway
  <2>5. Slots'
    BY <1>0, <2>1 DEF Slots, Server!SlotsAreWorkers, Server!Running, Server!SlotHolders
  <2>6. Queued'
    <3>1. PICK b : b = rpcBacklog'
      OBVIOUS
    <3>2. \A i \in 1 .. Len(b) : /\ Arrived(b[i]) /\ b[i] \in Server!Conns \ {c}
                                 /\ rpcWorker[b[i]] = "NONE" /\ rpcAnswer'[b[i]] = "NONE"
      BY <2>1, <2>2, <2>4, <3>1, Taken DEF Queued
    <3> QED
      BY <1>0, <2>1, <3>1, <3>2, Taken DEF Queued
  <2>7. \A u \in Server!Conns : Told(u)'
    BY <1>0, <2>1, <2>3, <2>4 DEF Told, Refusal, TurnedAway
  <2> QED
    BY <1>0, <2>1, <2>4, <2>5, <2>6, <2>7, Taken DEF RpcTypes
<1>3. CASE Server!AcceptWorker
  <2>1. /\ rpcActive' = rpcActive + 1 /\ ~(rpcActive >= MaxConnections)
        /\ rpcBacklog # << >> /\ rpcBacklog' = Tail(rpcBacklog)
        /\ rpcAccept # "ENDED" /\ rpcAccept' # "ENDED" /\ rpcAnswer' = rpcAnswer
        /\ rpcWorkers' = rpcWorkers \cup {Head(rpcBacklog)}
        /\ rpcWorker' = [rpcWorker EXCEPT ![Head(rpcBacklog)] = "READ"]
    BY <1>3 DEF Server!AcceptWorker, Server!Full
  <2>2. PICK c : c = rpcBacklog[1]
    OBVIOUS
  <2>3. /\ c \in Server!Conns /\ c = Head(rpcBacklog) /\ Arrived(c) /\ rpcWorker[c] = "NONE"
        /\ rpcAnswer[c] = "NONE"
    BY <2>1, <2>2, Taken DEF Queued
  <2>4. /\ rpcWorker' \in [Server!Conns -> WorkerPlaces]
        /\ rpcWorker'[c] = "READ" /\ \A u \in Server!Conns \ {c} : rpcWorker'[u] = rpcWorker[u]
    BY <2>1, <2>3 DEF RpcTypes, WorkerPlaces
  <2>5. Slots' /\ rpcActive' \in Nat
    <3>1. /\ Server!Running' = Server!Running \cup {c}
          /\ Server!SlotHolders' = Server!SlotHolders \cup {c} /\ c \notin Server!SlotHolders
      BY <2>3, <2>4 DEF Server!Running, Server!SlotHolders
    <3>2. /\ IsFiniteSet(Server!SlotHolders \cup {c})
          /\ Cardinality(Server!SlotHolders \cup {c}) = Cardinality(Server!SlotHolders) + 1
      BY <3>1, FS_AddElement DEF Slots
    <3>3. rpcActive' = Server!Cardinality(Server!SlotHolders \cup {c})
      BY <2>1, <3>2, SameCardinality DEF Slots, Server!SlotsAreWorkers
    <3>4. rpcActive' <= MaxConnections /\ rpcActive' \in Nat
      BY <2>1, ServerBounds DEF Server!ServerBounds, RpcTypes
    <3> QED
      BY <1>0, <2>1, <2>3, <3>1, <3>2, <3>3, <3>4 DEF Slots, Server!SlotsAreWorkers
  <2>6. Queued'
    <3>1. PICK b : b = rpcBacklog'
      OBVIOUS
    <3>2. \A i \in 1 .. Len(b) : /\ Arrived(b[i]) /\ b[i] \in Server!Conns \ {c}
                                 /\ rpcWorker'[b[i]] = "NONE" /\ rpcAnswer[b[i]] = "NONE"
      BY <2>1, <2>2, <2>4, <3>1, Taken DEF Queued
    <3>3. \A i, j \in 1 .. Len(b) : b[i] = b[j] => i = j
      BY <2>1, <3>1, Taken
    <3>4. \A u : Arrived(u)' <=> Arrived(u)
      BY <1>0
    <3> QED
      BY <2>1, <3>1, <3>2, <3>3, <3>4 DEF Queued
  <2>7. \A u \in Server!Conns : Told(u)'
    BY <1>0, <2>1, <2>3, <2>4 DEF Told, Refusal, TurnedAway
  <2> QED
    BY <1>0, <2>1, <2>4, <2>5, <2>6, <2>7, Taken DEF RpcTypes
<1>4. CASE Server!Join
  <2>1. /\ UNCHANGED <<rpcActive, rpcWorker>> /\ rpcBacklog' = << >> /\ rpcAccept' = "ENDED"
        /\ rpcWorkers' = {}
        /\ \A c \in rpcWorkers : rpcWorker[c] \in {"DONE", "PANICKED"}
        /\ rpcAnswer' = [c \in Server!Conns |->
                           IF c \in Server!ToSet(rpcBacklog) /\ rpcClient[c] # "GONE"
                           THEN "CLOSED" ELSE rpcAnswer[c]]
    BY <1>4 DEF Server!Join, Server!Finished
  <2>2. /\ Server!Running = {} /\ Server!Running' = {}
        /\ Server!SlotHolders' = Server!SlotHolders
    BY <2>1 DEF Server!Running, Server!SlotHolders, Slots
  <2>3. Slots'
    BY <1>0, <2>1, <2>2 DEF Slots, Server!SlotsAreWorkers
  <2>4. \A c \in Server!Conns : \/ rpcAnswer'[c] = rpcAnswer[c]
                                \/ rpcAnswer'[c] = "CLOSED" /\ Arrived(c) /\ rpcWorker[c] = "NONE"
    BY <2>1 DEF Server!ToSet, Queued
  <2>5. \A c \in Server!Conns : Told(c)'
    BY <1>0, <2>1, <2>4 DEF Told, Refusal, TurnedAway
  <2> QED
    BY <1>0, <2>1, <2>3, <2>4, <2>5 DEF RpcTypes, Queued, Refusal, TurnedAway
<1> QED
  BY <1>1, <1>2, <1>3, <1>4 DEF Server!Accept

\* The steps of shutdown.
LEMMA RpcShutdownStep ==
    ASSUME RpcInv, Server!Shutdown \/ Server!ShutdownConnect \/ Server!ShutdownJoin
    PROVE  RpcInv'
<1> USE DEF RpcInv, Server!clientVars, Server!workerVars
<1>1. /\ UNCHANGED <<rpcCall, rpcAccept, rpcActive, rpcWorkers, rpcWorker, rpcReply, rpcAnswer, rpcApplied>>
      /\ rpcStopper' = "STOPPED" => rpcAccept = "ENDED"
      /\ \A u : Arrived(u) => Arrived(u)'
  BY DEF Server!Shutdown, Server!ShutdownConnect, Server!ShutdownJoin, Arrived
<1>2. Slots'
  BY <1>1 DEF Slots, Server!SlotsAreWorkers, Server!Running, Server!SlotHolders
<1>3. \A u \in Server!Conns : Told(u)'
  BY <1>1 DEF Told
<1>4. CASE rpcBacklog' = rpcBacklog
  BY <1>1, <1>2, <1>3, <1>4 DEF RpcTypes, Queued
<1>5. CASE rpcBacklog' # rpcBacklog
  <2>1. /\ rpcBacklog' = Append(rpcBacklog, Wake) /\ rpcStopper = "CONNECT" /\ rpcStopper' = "JOIN"
        /\ Wake \in Server!Conns
    BY <1>5 DEF Server!Shutdown, Server!ShutdownConnect, Server!ShutdownJoin, Server!Conns
  <2>2. ~Arrived(Wake) /\ Arrived(Wake)'
    BY <2>1 DEF Arrived
  <2> QED
    BY <1>1, <1>2, <1>3, <2>1, <2>2, Joined DEF RpcTypes
<1> QED
  BY <1>4, <1>5

LEMMA RpcStep == RpcInv /\ [Server!Next]_(Server!vars) => RpcInv'
<1> SUFFICES ASSUME RpcInv, [Server!Next]_(Server!vars) PROVE RpcInv'
  OBVIOUS
<1>1. CASE UNCHANGED Server!vars
  BY <1>1 DEF RpcInv, RpcTypes, Queued, Arrived, Slots,
             Server!SlotsAreWorkers, Server!Running, Server!SlotHolders, Told,
     Server!vars
<1>2. CASE Server!Next
  BY <1>2, RpcClientStep, RpcWorkStep, RpcAcceptStep, RpcShutdownStep DEF Server!Next
<1> QED
  BY <1>1, <1>2

\* The server, for any number of clients and any limit on them: the counter that
\* its threads share is the number of its slots in use and within the limit, a call is
\* carried out once at most, what a client is told of it is so, and a server that has
\* stopped has no worker left, also if handlers panic, writes fail or accept breaks
\* (RpcServer::bind's accept thread, handle_connection and RpcServer::shutdown in
\* rpc/unix.rs).
THEOREM ServerStaysSound == Server!Spec => []ServerIsSound
<1>1. RpcInv => ServerIsSound
  BY DEF RpcInv, Slots, Told, ServerIsSound, Server!AnswersAreTrue, Server!StoppedIsQuiet, Server!Conns,
     TurnedAway
<1> QED
  BY <1>1, RpcInit, RpcStep, PTL DEF Server!Spec

-----------------------------------------------------------------------------
(***************************************************************************)
(* The socket files of processes on one database                           *)
(***************************************************************************)

Starting == {"STAT", "PROBE", "RECHECK", "UNLINK STALE", "BIND", "IDENTIFY"}
Stopping == {"MATCH", "UNLINK", "CLOSE", "MATCH AGAIN", "NEXT", "WAKE", "MATCH MCP", "UNLOCK"}
Places == {"DOWN", "LOCK", "RECONCILE", "CHECK", "SERVING"} \cup Starting \cup Stopping

SockTypes ==
    /\ procPc \in [Daemons -> Places] /\ procSock \in [Daemons -> Process!Paths]
    /\ procKnown \in [Daemons -> Inodes \cup {None}]
    /\ procIdent \in [Daemons -> [Process!Paths -> Inodes \cup {None}]]
    /\ procFailed \in [Daemons -> BOOLEAN]
    /\ procLock \in [{"db" : d \in Daemons} -> Daemons \cup {None}]
    /\ procFile \in [Process!Paths -> Inodes \cup {None}]
    /\ procListener \in [Inodes -> Daemons \cup {None}]

\* The lock is held by who is past it, and only its holder listens.
Inside(d) == procPc[d] \notin {"DOWN", "LOCK"}
Held == \A d \in Daemons : /\ Inside(d) <=> procLock["db"] = d
                           /\ ~Inside(d) => \A i \in Inodes : procListener[i] # d

\* Two paths never lead to one file.
PathsApart ==
    /\ procFile["rpc"] = procFile["mcp"] => procFile["rpc"] = None
    /\ \A d \in Daemons : procIdent[d]["rpc"] = procIdent[d]["mcp"] => procIdent[d]["rpc"] = None

\* A path leads to the file a process bound, on which it listens; that file has gone.
Has(d, p) == procFile[p] # None /\ procIdent[d][p] = procFile[p]
Answers(d, p) == Has(d, p) /\ procListener[procFile[p]] = d
Gone(d, p) == procIdent[d][p] # None /\ procFile[p] = None

\* What the holder of the lock knows of the paths while it starts, ...
AtStart(d) ==
    /\ procPc[d] \in {"LOCK", "RECONCILE"} =>
          /\ procSock[d] = "rpc" /\ procIdent[d] = Process!NoServer
          /\ \A i \in Inodes : procListener[i] # d
    /\ procPc[d] \in Starting =>
          /\ IF procSock[d] = "mcp" THEN Answers(d, "rpc") ELSE procIdent[d]["rpc"] = None
          /\ procIdent[d]["mcp"] = None
          /\ \A i \in Inodes : procListener[i] = d =>
                \/ procSock[d] = "mcp" /\ i = procFile["rpc"]
                \/ procPc[d] = "IDENTIFY" /\ i = procFile[procSock[d]]
    /\ procPc[d] \in {"PROBE", "RECHECK", "UNLINK STALE"} =>
          procFile[procSock[d]] # None /\ procKnown[d] = procFile[procSock[d]]
    /\ procPc[d] = "BIND" => procFile[procSock[d]] = None
    /\ procPc[d] = "IDENTIFY" =>
          procFile[procSock[d]] # None /\ procListener[procFile[procSock[d]]] = d
    /\ procPc[d] \in {"CHECK", "SERVING"} => Answers(d, "rpc") /\ Answers(d, "mcp")

\* ... and while it stops: rpc goes first.
AtStop(d) ==
    /\ procPc[d] = "MATCH" => procSock[d] = "rpc" /\ Answers(d, "rpc") /\ Answers(d, "mcp")
    /\ procPc[d] = "UNLINK" =>
          \/ procSock[d] = "rpc" /\ Answers(d, "rpc") /\ Answers(d, "mcp")
          \/ procSock[d] = "mcp" /\ Gone(d, "rpc") /\ Has(d, "mcp")
    /\ procPc[d] = "CLOSE" =>
          \/ procSock[d] = "rpc" /\ Gone(d, "rpc") /\ Answers(d, "mcp")
          \/ procSock[d] = "mcp" /\ Gone(d, "rpc") /\ Has(d, "mcp")
    /\ procPc[d] \in {"MATCH AGAIN", "NEXT"} =>
          \/ procSock[d] = "rpc" /\ Gone(d, "rpc") /\ Answers(d, "mcp")
          \/ procSock[d] = "mcp" /\ Gone(d, "rpc") /\ Gone(d, "mcp")
    /\ procPc[d] = "WAKE" => procSock[d] = "mcp" /\ Gone(d, "rpc") /\ Answers(d, "mcp")
    /\ procPc[d] = "MATCH MCP" => procSock[d] = "mcp" /\ Gone(d, "rpc") /\ Has(d, "mcp")
    /\ procPc[d] = "UNLOCK" =>
          \/ procIdent[d] = Process!NoServer
          \/ Gone(d, "rpc") /\ Gone(d, "mcp")

Placed(d) == ~procFailed[d] /\ AtStart(d) /\ AtStop(d)

SockInv == SockTypes /\ Held /\ PathsApart /\ \A d \in Daemons : Placed(d)

LEMMA OneDatabase == \A d \in Daemons : Database[d] = "db"
BY DEF Database

LEMMA SockInit == Process!Init => SockInv
<1> SUFFICES ASSUME Process!Init PROVE SockInv
  OBVIOUS
<1> USE ProcessBounds DEF Process!Init, Process!DaemonAssumption, Process!NoServer, Process!Paths
<1>1. SockTypes
  BY OneDatabase DEF SockTypes, Places
<1>2. Held
  BY OneDatabase DEF Held, Inside
<1>3. PathsApart /\ \A d \in Daemons : Placed(d)
  BY DEF PathsApart, Placed, AtStart, AtStop, Starting
<1> QED
  BY <1>1, <1>2, <1>3 DEF SockInv

\* What one process does disturbs no other: who changes the files has the lock.
LEMMA OthersStay ==
    ASSUME SockInv, NEW d \in Daemons,
           \A u \in Daemons \ {d} : /\ procPc'[u] = procPc[u] /\ procSock'[u] = procSock[u]
                                    /\ procKnown'[u] = procKnown[u] /\ procIdent'[u] = procIdent[u]
                                    /\ procFailed'[u] = procFailed[u],
           \A i \in Inodes : procListener'[i] = procListener[i] \/ procListener'[i] = None
                               \/ procListener'[i] = d,
           Inside(d) \/ UNCHANGED <<procFile, procListener>>
    PROVE  \A u \in Daemons \ {d} : Placed(u)' /\ (~Inside(u) => \A i \in Inodes : procListener'[i] # u)
<1> SUFFICES ASSUME NEW u \in Daemons \ {d}
             PROVE  Placed(u)' /\ (~Inside(u) => \A i \in Inodes : procListener'[i] # u)
  OBVIOUS
<1> USE DEF SockInv
<1>1. ~Inside(u) => \A i \in Inodes : procListener'[i] # u
  BY ProcessBounds DEF Held, Process!DaemonAssumption
<1>2. CASE Inside(d)
  <2>1. ~Inside(u)
    BY <1>2 DEF Held
  <2>2. procPc'[u] \in {"DOWN", "LOCK"} /\ ~procFailed'[u]
    BY <2>1 DEF Inside, Placed
  <2>3. procPc[u] = "LOCK" => procSock[u] = "rpc" /\ procIdent[u] = Process!NoServer
    BY DEF Placed, AtStart
  <2>4. AtStart(u)'
    BY <1>1, <2>1, <2>2, <2>3 DEF AtStart, Starting, Process!NoServer
  <2>5. AtStop(u)'
    BY <2>2 DEF AtStop
  <2> QED
    BY <1>1, <2>2, <2>4, <2>5 DEF Placed
<1>3. CASE UNCHANGED <<procFile, procListener>>
  <2>1. AtStart(u)' <=> AtStart(u)
    BY <1>3 DEF AtStart, Answers, Has, Process!NoServer
  <2>2. AtStop(u)' <=> AtStop(u)
    BY <1>3 DEF AtStop, Answers, Has, Gone, Process!NoServer
  <2> QED
    BY <1>1, <2>1, <2>2 DEF Placed
<1> QED
  BY <1>1, <1>2, <1>3

\* A step of the holder of the lock that keeps it.
LEMMA HolderStep ==
    ASSUME SockInv, NEW d \in Daemons, Inside(d), Inside(d)', procLock' = procLock, SockTypes', PathsApart',
           Placed(d)',
           \A u \in Daemons \ {d} : /\ procPc'[u] = procPc[u] /\ procSock'[u] = procSock[u]
                                    /\ procKnown'[u] = procKnown[u] /\ procIdent'[u] = procIdent[u]
                                    /\ procFailed'[u] = procFailed[u],
           \A i \in Inodes : procListener'[i] = procListener[i] \/ procListener'[i] = None
                               \/ procListener'[i] = d
    PROVE  SockInv'
<1>1. \A u \in Daemons \ {d} : Placed(u)' /\ (~Inside(u) => \A i \in Inodes : procListener'[i] # u)
  BY OthersStay
<1>2. Held'
  BY <1>1 DEF Held, Inside, SockInv
<1> QED
  BY <1>1, <1>2 DEF SockInv

\* The steps into and out of the lock, and those that leave the files alone.
LEMMA LockSteps ==
    ASSUME SockInv, NEW d \in Daemons,
           Process!Start(d) \/ Process!Signal(d) \/ Process!Acquire(d) \/ Process!Unlock(d) \/ Process!Crash(d)
    PROVE  SockInv'
<1> USE ProcessBounds, OneDatabase DEF SockInv, Process!DaemonAssumption, Process!kernel, Process!process
<1>1. CASE Process!Signal(d)
  <2>1. UNCHANGED <<procPc, procSock, procKnown, procIdent, procFailed, procLock, procFile, procListener>>
    BY <1>1 DEF Process!Signal
  <2>2. SockTypes' /\ Held' /\ PathsApart'
    BY <2>1 DEF SockTypes, Held, Inside, PathsApart
  <2>3. \A u \in Daemons : AtStart(u)' <=> AtStart(u)
    BY <2>1 DEF AtStart, Answers, Has, Process!NoServer
  <2>4. \A u \in Daemons : AtStop(u)' <=> AtStop(u)
    BY <2>1 DEF AtStop, Answers, Has, Gone, Process!NoServer
  <2> QED
    BY <2>1, <2>2, <2>3, <2>4 DEF Placed
<1>2. CASE Process!Start(d)
  <2>1. /\ procSock' = [procSock EXCEPT ![d] = "rpc"] /\ procKnown' = [procKnown EXCEPT ![d] = None]
        /\ procIdent' = [procIdent EXCEPT ![d] = Process!NoServer]
        /\ procFailed' = [procFailed EXCEPT ![d] = FALSE] /\ procPc' = [procPc EXCEPT ![d] = "LOCK"]
        /\ procPc[d] = "DOWN" /\ UNCHANGED <<procLock, procFile, procListener>>
    BY <1>2 DEF Process!Start, Process!Goto
  <2>2. SockTypes'
    BY <2>1 DEF SockTypes, Places, Process!NoServer, Process!Paths
  <2>3. PathsApart'
    BY <2>1 DEF PathsApart, SockTypes, Process!NoServer, Process!Paths
  <2>4. Placed(d)' /\ Held'
    <3>1. /\ procPc'[d] = "LOCK" /\ procSock'[d] = "rpc" /\ procIdent'[d] = Process!NoServer /\ ~procFailed'[d]
          /\ \A i \in Inodes : procListener'[i] # d
      BY <2>1 DEF Held, Inside, SockTypes
    <3>2. AtStart(d)' /\ AtStop(d)'
      BY <3>1 DEF AtStart, AtStop, Starting, Process!NoServer
    <3>3. Held'
      BY <2>1 DEF Held, Inside, SockTypes
    <3> QED
      BY <3>1, <3>2, <3>3 DEF Placed
  <2>5. \A u \in Daemons \ {d} : Placed(u)'
    BY <2>1, OthersStay DEF SockTypes
  <2> QED
    BY <2>2, <2>3, <2>4, <2>5
<1>3. CASE Process!Acquire(d)
  <2>1. /\ UNCHANGED <<procSock, procKnown, procIdent, procFailed, procFile, procListener>>
        /\ procPc[d] = "LOCK"
        /\ \/ procPc' = [procPc EXCEPT ![d] = "DOWN"] /\ procLock' = procLock
           \/ /\ procPc' = [procPc EXCEPT ![d] = "RECONCILE"] /\ procLock["db"] = None
              /\ procLock' = [procLock EXCEPT !["db"] = d]
    BY <1>3 DEF Process!Acquire, Process!Goto
  <2>2. SockTypes' /\ PathsApart'
    BY <2>1 DEF SockTypes, Places, PathsApart
  <2>3. Placed(d)'
    <3>0. procPc'[d] \in {"DOWN", "RECONCILE"}
      BY <2>1 DEF SockTypes
    <3>1. /\ procSock[d] = "rpc" /\ procIdent[d] = Process!NoServer
          /\ ~procFailed[d] /\ \A i \in Inodes : procListener[i] # d
      BY <2>1 DEF Placed, AtStart
    <3>2. AtStart(d)' /\ AtStop(d)'
      BY <2>1, <3>0, <3>1 DEF AtStart, AtStop, Starting, Process!NoServer
    <3> QED
      BY <2>1, <3>1, <3>2 DEF Placed
  <2>4. Held'
    <3>1. CASE procPc' = [procPc EXCEPT ![d] = "DOWN"] /\ procLock' = procLock
      <4>1. procPc'[d] = "DOWN" /\ \A u \in Daemons \ {d} : procPc'[u] = procPc[u]
        BY <3>1 DEF SockTypes
      <4> QED
        BY <2>1, <3>1, <4>1 DEF Held, Inside
    <3>2. CASE /\ procPc' = [procPc EXCEPT ![d] = "RECONCILE"] /\ procLock["db"] = None
               /\ procLock' = [procLock EXCEPT !["db"] = d]
      <4>1. procPc'[d] = "RECONCILE" /\ \A u \in Daemons \ {d} : procPc'[u] = procPc[u]
        BY <3>2 DEF SockTypes
      <4>2. procLock'["db"] = d
        BY <3>2 DEF SockTypes
      <4> QED
        BY <2>1, <3>2, <4>1, <4>2 DEF Held, Inside
    <3> QED
      BY <2>1, <3>1, <3>2
  <2>5. \A u \in Daemons \ {d} : Placed(u)'
    BY <2>1, OthersStay DEF SockTypes
  <2> QED
    BY <2>2, <2>3, <2>4, <2>5
<1>4. CASE Process!Unlock(d) \/ Process!Crash(d)
  <2>1. /\ UNCHANGED <<procSock, procKnown, procIdent, procFailed, procFile>>
        /\ procPc' = [procPc EXCEPT ![d] = "DOWN"]
        /\ procListener' = [i \in Inodes |-> IF procListener[i] = d THEN None ELSE procListener[i]]
    BY <1>4 DEF Process!Unlock, Process!Crash, Process!Goto
  <2>2. \/ procLock["db"] = d /\ procLock' = [procLock EXCEPT !["db"] = None]
        \/ procLock["db"] = d /\ procLock' = [b \in DOMAIN procLock |-> IF procLock[b] = d THEN None ELSE procLock[b]]
        \/ procLock["db"] # d /\ procLock' = procLock
    <3>1. CASE Process!Unlock(d)
      BY <3>1 DEF Process!Unlock, Held, Inside
    <3>2. CASE Process!Crash(d)
      BY <3>2 DEF Process!Crash, SockTypes
    <3> QED
      BY <1>4, <3>1, <3>2
  <2>3. SockTypes' /\ PathsApart'
    BY <2>1, <2>2 DEF SockTypes, Places, PathsApart
  <2>4. Placed(d)'
    <3>1. procPc'[d] = "DOWN" /\ ~procFailed'[d]
      BY <2>1 DEF Placed, SockTypes
    <3> QED
      BY <3>1 DEF Placed, AtStart, AtStop, Starting
  <2>5. \A u \in Daemons \ {d} : Placed(u)' /\ (~Inside(u) => \A i \in Inodes : procListener'[i] # u)
    <3>1. Inside(d) \/ procListener' = procListener
      BY <2>1 DEF Held, SockTypes
    <3> QED
      BY <2>1, <3>1, OthersStay DEF SockTypes
  <2>6. procLock'["db"] = IF procLock["db"] = d THEN None ELSE procLock["db"]
    BY <2>2 DEF SockTypes
  <2>7. Held'
    BY <2>1, <2>5, <2>6 DEF Held, Inside, SockTypes
  <2> QED
    BY <2>3, <2>4, <2>5, <2>7
<1> QED
  BY <1>1, <1>2, <1>3, <1>4

\* The holder of the lock on its way through one server's start.
LEMMA StartSteps ==
    ASSUME SockInv, NEW d \in Daemons,
           Process!Reconcile(d) \/ Process!Stat(d) \/ Process!Probe(d) \/ Process!Recheck(d)
    PROVE  SockInv'
<1> USE ProcessBounds DEF Process!DaemonAssumption, Process!kernel, Process!process, Process!Goto
<1>t. SockTypes /\ Held /\ PathsApart /\ Placed(d) /\ AtStart(d) /\ ~procFailed[d]
  BY DEF SockInv, Placed
<1>s. procSock[d] \in {"rpc", "mcp"}
  BY <1>t DEF SockTypes, Process!Paths
<1>1. /\ UNCHANGED <<procSock, procIdent, procFailed, procLock, procFile, procListener>>
      /\ Inside(d) /\ AtStart(d)'
      /\ procKnown' \in [Daemons -> Inodes \cup {None}] /\ procPc' \in [Daemons -> Places]
      /\ \A u \in Daemons \ {d} : procKnown'[u] = procKnown[u] /\ procPc'[u] = procPc[u]
      /\ procPc'[d] \in Starting \cup {"UNLOCK"}
      /\ procPc'[d] = "UNLOCK" => procIdent[d] = Process!NoServer
  <2>0. {"UNLOCK", "STAT", "BIND", "PROBE", "RECHECK", "UNLINK STALE"} \subseteq Places
    BY DEF Places, Starting, Stopping
  <2>1. CASE Process!Reconcile(d)
    <3>1. /\ UNCHANGED <<procSock, procKnown, procIdent, procFailed, procLock, procFile, procListener>>
          /\ procPc[d] = "RECONCILE"
          /\ \E place \in {"UNLOCK", "STAT"} : procPc' = [procPc EXCEPT ![d] = place]
      BY <2>1 DEF Process!Reconcile
    <3>2. procSock[d] = "rpc" /\ procIdent[d] = Process!NoServer /\ \A i \in Inodes : procListener[i] # d
      BY <1>t, <3>1 DEF AtStart
    <3>3. /\ procPc'[d] \in {"UNLOCK", "STAT"} /\ procPc' \in [Daemons -> Places]
          /\ \A u \in Daemons \ {d} : procPc'[u] = procPc[u]
      <4>1. PICK place \in {"UNLOCK", "STAT"} : procPc' = [procPc EXCEPT ![d] = place]
        BY <3>1
      <4>2. place \in Places
        BY <2>0
      <4> QED
        BY <1>t, <4>1, <4>2 DEF SockTypes
    <3>4. AtStart(d)'
      BY <3>1, <3>2, <3>3 DEF AtStart, Starting, Process!NoServer, Process!Paths
    <3>5. Inside(d) /\ "STAT" \in Starting
      BY <3>1 DEF Inside, Starting
    <3> QED
      BY <1>t, <3>1, <3>2, <3>3, <3>4, <3>5 DEF SockTypes
  <2>2. CASE Process!Stat(d)
    <3>1. /\ UNCHANGED <<procSock, procIdent, procFailed, procLock, procFile, procListener>>
          /\ procPc[d] = "STAT" /\ procKnown' = [procKnown EXCEPT ![d] = procFile[procSock[d]]]
          /\ procPc' = [procPc EXCEPT ![d] = IF procFile[procSock[d]] = None THEN "BIND" ELSE "PROBE"]
      BY <2>2 DEF Process!Stat
    <3>2. /\ procFile[procSock[d]] \in Inodes \cup {None}
          /\ procPc'[d] = IF procFile[procSock[d]] = None THEN "BIND" ELSE "PROBE"
      BY <1>t, <3>1 DEF SockTypes
    <3>3. /\ procKnown'[d] = procFile[procSock[d]] /\ procKnown' \in [Daemons -> Inodes \cup {None}]
          /\ procPc' \in [Daemons -> Places]
          /\ \A u \in Daemons \ {d} : procKnown'[u] = procKnown[u] /\ procPc'[u] = procPc[u]
      BY <1>t, <2>0, <3>1, <3>2 DEF SockTypes
    <3>4. /\ IF procSock[d] = "mcp" THEN Answers(d, "rpc") ELSE procIdent[d]["rpc"] = None
          /\ procIdent[d]["mcp"] = None
          /\ \A i \in Inodes : procListener[i] = d => procSock[d] = "mcp" /\ i = procFile["rpc"]
      BY <1>t, <3>1 DEF AtStart, Starting
    <3>5. AtStart(d)'
      BY <3>1, <3>2, <3>3, <3>4 DEF AtStart, Starting, Answers, Has
    <3>6. Inside(d) /\ procPc'[d] \in Starting /\ procPc'[d] # "UNLOCK"
      <4>1. procPc'[d] \in {"BIND", "PROBE"}
        BY <3>2
      <4> QED
        BY <3>1, <4>1 DEF Inside, Starting
    <3> QED
      BY <3>1, <3>3, <3>5, <3>6
  <2>3. CASE Process!Probe(d)
    <3>1. procPc[d] = "PROBE" /\ procFile[procSock[d]] # None /\ procFile[procSock[d]] \in Inodes
      BY <1>t, <1>s, <2>3 DEF AtStart, SockTypes, Process!Paths, Process!Probe
    <3>2. procListener[procFile[procSock[d]]] # d
      BY <1>t, <1>s, <3>1 DEF AtStart, Starting, PathsApart
    <3>3. procListener[procFile[procSock[d]]] = None
      BY <1>t, <3>1, <3>2 DEF Held, Inside, SockTypes
    <3>4. /\ UNCHANGED <<procSock, procKnown, procIdent, procFailed, procLock, procFile, procListener>>
          /\ procPc' = [procPc EXCEPT ![d] = "RECHECK"]
      BY <2>3, <3>1, <3>3 DEF Process!Probe
    <3>5. /\ procPc'[d] = "RECHECK" /\ procPc' \in [Daemons -> Places]
          /\ \A u \in Daemons \ {d} : procPc'[u] = procPc[u]
      BY <1>t, <2>0, <3>4 DEF SockTypes
    <3>6. AtStart(d)'
      BY <1>t, <3>1, <3>4, <3>5 DEF AtStart, Starting, Answers, Has, Process!NoServer
    <3>7. Inside(d) /\ "RECHECK" \in Starting
      BY <3>1 DEF Inside, Starting
    <3> QED
      BY <1>t, <3>4, <3>5, <3>6, <3>7 DEF SockTypes
  <2>4. CASE Process!Recheck(d)
    <3>1. /\ procPc[d] = "RECHECK" /\ procFile[procSock[d]] = procKnown[d]
      BY <1>t, <2>4 DEF AtStart, Process!Recheck
    <3>4. /\ UNCHANGED <<procSock, procKnown, procIdent, procFailed, procLock, procFile, procListener>>
          /\ procPc' = [procPc EXCEPT ![d] = "UNLINK STALE"]
      BY <2>4, <3>1 DEF Process!Recheck
    <3>5. /\ procPc'[d] = "UNLINK STALE" /\ procPc' \in [Daemons -> Places]
          /\ \A u \in Daemons \ {d} : procPc'[u] = procPc[u]
      BY <1>t, <2>0, <3>4 DEF SockTypes
    <3>6. AtStart(d)'
      BY <1>t, <3>1, <3>4, <3>5 DEF AtStart, Starting, Answers, Has, Process!NoServer
    <3>7. Inside(d) /\ "UNLINK STALE" \in Starting
      BY <3>1 DEF Inside, Starting
    <3> QED
      BY <1>t, <3>4, <3>5, <3>6, <3>7 DEF SockTypes
  <2> QED
    BY <2>1, <2>2, <2>3, <2>4
<1>2. SockTypes' /\ PathsApart'
  BY <1>t, <1>1 DEF SockTypes, PathsApart
<1>3. AtStop(d)' /\ Inside(d)'
  BY <1>1 DEF AtStop, Inside, Starting, Process!NoServer
<1>4. Placed(d)'
  BY <1>t, <1>1, <1>3 DEF Placed
<1> QED
  BY <1>1, <1>2, <1>3, <1>4, HolderStep

\* The steps that make a server: its file, its listener and its identity.
LEMMA BindSteps ==
    ASSUME SockInv, NEW d \in Daemons,
           Process!UnlinkStale(d) \/ Process!Bind(d) \/ Process!Identify(d)
    PROVE  SockInv'
<1> USE ProcessBounds DEF Process!DaemonAssumption, Process!kernel, Process!process, Process!Goto
<1>t. SockTypes /\ Held /\ PathsApart /\ Placed(d) /\ AtStart(d) /\ ~procFailed[d]
  BY DEF SockInv, Placed
<1>s. procSock[d] \in {"rpc", "mcp"} /\ procSock[d] \in Process!Paths
  BY <1>t DEF SockTypes, Process!Paths
<1>a. procPc[d] \in Starting
  BY DEF Process!UnlinkStale, Process!Bind, Process!Identify, Starting
<1>b. /\ IF procSock[d] = "mcp" THEN Answers(d, "rpc") ELSE procIdent[d]["rpc"] = None
      /\ procIdent[d]["mcp"] = None
      /\ \A i \in Inodes : procListener[i] = d =>
            \/ procSock[d] = "mcp" /\ i = procFile["rpc"]
            \/ procPc[d] = "IDENTIFY" /\ i = procFile[procSock[d]]
  BY <1>t, <1>a DEF AtStart
<1>c. Inside(d)
  BY <1>a DEF Inside, Starting
<1>1. CASE Process!UnlinkStale(d)
  <2>1. procPc[d] = "UNLINK STALE" /\ procFile[procSock[d]] # None
    BY <1>t, <1>1 DEF AtStart, Process!UnlinkStale
  <2>2. /\ UNCHANGED <<procSock, procKnown, procIdent, procFailed, procLock, procListener>>
        /\ procPc' = [procPc EXCEPT ![d] = "BIND"] /\ procFile' = [procFile EXCEPT ![procSock[d]] = None]
    BY <1>1, <2>1 DEF Process!UnlinkStale
  <2>3. procPc'[d] = "BIND" /\ "BIND" \in Places
    BY <1>t, <2>2 DEF SockTypes, Places, Starting
  <2>4. /\ procFile'[procSock[d]] = None
        /\ \A p \in Process!Paths : p # procSock[d] => procFile'[p] = procFile[p]
    BY <1>t, <1>s, <2>2 DEF SockTypes
  <2>5. SockTypes'
    BY <1>t, <1>s, <2>2, <2>3 DEF SockTypes
  <2>6. PathsApart'
    BY <1>t, <1>s, <2>2, <2>4 DEF PathsApart, Process!Paths
  <2>7. AtStart(d)'
    BY <1>b, <1>s, <2>1, <2>2, <2>3, <2>4 DEF AtStart, Starting, Answers, Has, Process!Paths
  <2>8. AtStop(d)' /\ Inside(d)'
    BY <2>3 DEF AtStop, Inside
  <2>9. Placed(d)'
    BY <1>t, <2>2, <2>7, <2>8 DEF Placed
  <2> QED
    BY <1>t, <1>c, <2>2, <2>5, <2>6, <2>8, <2>9, HolderStep DEF SockTypes
<1>2. CASE Process!Bind(d)
  <2>1. procPc[d] = "BIND" /\ procFile[procSock[d]] = None
    BY <1>t, <1>2 DEF AtStart, Process!Bind
  <2>2. PICK i \in Process!FreeInodes :
        /\ UNCHANGED <<procSock, procKnown, procIdent, procFailed, procLock>>
        /\ procPc' = [procPc EXCEPT ![d] = "IDENTIFY"] /\ procFile' = [procFile EXCEPT ![procSock[d]] = i]
        /\ procListener' = [procListener EXCEPT ![i] = d]
    BY <1>2, <2>1 DEF Process!Bind
  <2>3. procPc'[d] = "IDENTIFY" /\ "IDENTIFY" \in Places
    BY <1>t, <2>2 DEF SockTypes, Places, Starting
  <2>4. /\ i \in Inodes /\ i # None /\ procListener[i] = None /\ \A p \in Process!Paths : procFile[p] # i
    BY <2>2 DEF Process!FreeInodes
  <2>5. /\ procFile'[procSock[d]] = i
        /\ \A p \in Process!Paths : p # procSock[d] => procFile'[p] = procFile[p]
        /\ procListener'[i] = d /\ \A j \in Inodes : j # i => procListener'[j] = procListener[j]
    BY <1>t, <1>s, <2>2, <2>4 DEF SockTypes
  <2>6. SockTypes'
    BY <1>t, <1>s, <2>2, <2>3, <2>4 DEF SockTypes
  <2>7. PathsApart'
    BY <1>t, <1>s, <2>2, <2>4, <2>5 DEF PathsApart, Process!Paths
  <2>8. AtStart(d)'
    <3>1. procSock[d] = "mcp" => procFile'["rpc"] = procFile["rpc"] /\ procFile["rpc"] \in Inodes \cup {None}
      BY <1>t, <2>5 DEF Process!Paths, SockTypes
    <3>2. procSock[d] = "mcp" => Answers(d, "rpc")'
      BY <1>b, <2>2, <2>4, <2>5, <3>1 DEF Answers, Has, Process!Paths
    <3>3. \A j \in Inodes : procListener'[j] = d =>
             (procSock[d] = "mcp" /\ j = procFile'["rpc"]) \/ j = procFile'[procSock[d]]
      BY <1>b, <2>1, <2>5, <3>1
    <3> QED
      BY <1>b, <1>s, <2>2, <2>3, <2>4, <2>5, <3>2, <3>3 DEF AtStart, Starting
  <2>9. AtStop(d)' /\ Inside(d)'
    BY <2>3 DEF AtStop, Inside
  <2>10. Placed(d)'
    BY <1>t, <2>2, <2>8, <2>9 DEF Placed
  <2> QED
    BY <1>t, <1>c, <2>2, <2>5, <2>6, <2>7, <2>9, <2>10, HolderStep DEF SockTypes
<1>3. CASE Process!Identify(d)
  <2>1. /\ procPc[d] = "IDENTIFY" /\ procFile[procSock[d]] # None
        /\ procListener[procFile[procSock[d]]] = d
    BY <1>t, <1>3 DEF AtStart, Process!Identify
  <2>2. /\ UNCHANGED <<procKnown, procFailed, procLock, procFile, procListener>>
        /\ procIdent' = [procIdent EXCEPT ![d][procSock[d]] = procFile[procSock[d]]]
        /\ \/ /\ procSock[d] = "rpc" /\ procSock' = [procSock EXCEPT ![d] = "mcp"]
              /\ procPc' = [procPc EXCEPT ![d] = "STAT"]
           \/ /\ procSock[d] = "mcp" /\ procSock' = procSock
              /\ procPc' = [procPc EXCEPT ![d] = "CHECK"]
    BY <1>3, <2>1 DEF Process!Identify
  <2>3. /\ procIdent'[d][procSock[d]] = procFile[procSock[d]]
        /\ \A p \in Process!Paths : p # procSock[d] => procIdent'[d][p] = procIdent[d][p]
        /\ \A u \in Daemons \ {d} : procIdent'[u] = procIdent[u]
    BY <1>t, <1>s, <2>2 DEF SockTypes
  <2>4. SockTypes'
    <3>1. procIdent' \in [Daemons -> [Process!Paths -> Inodes \cup {None}]]
      BY <1>t, <1>s, <2>2 DEF SockTypes
    <3>2. {"STAT", "CHECK"} \subseteq Places /\ "mcp" \in Process!Paths
      BY DEF Places, Starting, Process!Paths
    <3>3. procPc' \in [Daemons -> Places]
      BY <1>t, <2>2, <3>2 DEF SockTypes
    <3>4. procSock' \in [Daemons -> Process!Paths]
      BY <1>t, <2>2, <3>2 DEF SockTypes
    <3> QED
      BY <1>t, <2>2, <3>1, <3>3, <3>4 DEF SockTypes
  <2>5. /\ procSock[d] = "rpc" => procSock'[d] = "mcp" /\ procPc'[d] = "STAT"
        /\ procSock[d] = "mcp" => procSock'[d] = "mcp" /\ procPc'[d] = "CHECK"
    BY <1>t, <2>2 DEF SockTypes
  <2>6. PathsApart'
    BY <1>b, <1>t, <1>s, <2>1, <2>2, <2>3 DEF PathsApart, Answers, Has, Process!Paths
  <2>7. AtStart(d)'
    <3>1. CASE procSock[d] = "rpc"
      <4>1. Answers(d, "rpc")' /\ procIdent'[d]["mcp"] = None
        BY <1>b, <2>1, <2>2, <2>3, <3>1 DEF Answers, Has, Process!Paths
      <4>2. \A j \in Inodes : procListener'[j] = d => j = procFile'["rpc"]
        BY <1>b, <2>2, <3>1
      <4> QED
        BY <2>5, <3>1, <4>1, <4>2 DEF AtStart, Starting
    <3>2. CASE procSock[d] = "mcp"
      <4>1. Answers(d, "rpc")' /\ Answers(d, "mcp")'
        BY <1>b, <2>1, <2>2, <2>3, <3>2 DEF Answers, Has, Process!Paths
      <4> QED
        BY <2>5, <3>2, <4>1 DEF AtStart, Starting
    <3> QED
      BY <1>s, <3>1, <3>2
  <2>8. AtStop(d)' /\ Inside(d)'
    BY <1>s, <2>5 DEF AtStop, Inside
  <2>9. Placed(d)'
    BY <1>t, <2>2, <2>7, <2>8 DEF Placed
  <2>10. \A u \in Daemons \ {d} : procSock'[u] = procSock[u] /\ procPc'[u] = procPc[u]
    BY <1>t, <2>2 DEF SockTypes
  <2> QED
    BY <1>c, <2>2, <2>3, <2>4, <2>6, <2>8, <2>9, <2>10, HolderStep
<1> QED
  BY <1>1, <1>2, <1>3

\* Where a process that stops has come to, and how it finds the paths there.
Reached(d, place, path) ==
    /\ procPc[d] = place /\ procSock[d] = path
    /\ procFile["rpc"] = procFile["mcp"] => procFile["rpc"] = None
    /\ place \in {"SERVING", "MATCH"} => Answers(d, "rpc") /\ Answers(d, "mcp")
    /\ place = "MATCH" => path = "rpc"
    /\ place = "UNLINK" /\ path = "rpc" => Answers(d, "rpc") /\ Answers(d, "mcp")
    /\ place \in {"CLOSE", "MATCH AGAIN", "NEXT"} /\ path = "rpc" => Gone(d, "rpc") /\ Answers(d, "mcp")
    /\ place \in {"UNLINK", "CLOSE"} /\ path = "mcp" => Gone(d, "rpc") /\ Has(d, "mcp")
    /\ place \in {"MATCH AGAIN", "NEXT"} /\ path = "mcp" => Gone(d, "rpc") /\ Gone(d, "mcp")
    /\ place = "WAKE" => path = "mcp" /\ Gone(d, "rpc") /\ Answers(d, "mcp")
    /\ place = "MATCH MCP" => path = "mcp" /\ Gone(d, "rpc") /\ Has(d, "mcp")
    /\ place = "UNLOCK" => Gone(d, "rpc") /\ Gone(d, "mcp")

LEMMA StopStep ==
    ASSUME SockInv, NEW d \in Daemons, NEW place \in {"SERVING"} \cup Stopping, NEW path \in {"rpc", "mcp"},
           Inside(d), UNCHANGED <<procKnown, procIdent, procFailed, procLock>>,
           procPc' = [procPc EXCEPT ![d] = place],
           procSock' = procSock \/ procSock' = [procSock EXCEPT ![d] = path],
           procFile' \in [Process!Paths -> Inodes \cup {None}],
           procListener' \in [Inodes -> Daemons \cup {None}],
           \A i \in Inodes : procListener'[i] = procListener[i] \/ procListener'[i] = None,
           Reached(d, place, path)'
    PROVE  SockInv'
<1>t. SockTypes /\ Held /\ PathsApart /\ Placed(d) /\ ~procFailed[d]
  BY DEF SockInv, Placed
<1>1. place \in Places /\ path \in Process!Paths
  BY DEF Places, Process!Paths
<1>2. procPc'[d] = place /\ procSock'[d] = path
  BY DEF Reached
<1>3. SockTypes'
  BY <1>t, <1>1 DEF SockTypes
<1>4. PathsApart'
  BY <1>t DEF PathsApart, Reached
<1>5. AtStart(d)'
  BY <1>2 DEF AtStart, Reached, Starting, Stopping
<1>6. AtStop(d)'
  BY <1>2 DEF AtStop, Reached
<1>7. Inside(d)' /\ Placed(d)'
  BY <1>t, <1>2, <1>5, <1>6 DEF Inside, Placed, Stopping
<1>8. \A u \in Daemons \ {d} : procPc'[u] = procPc[u] /\ procSock'[u] = procSock[u]
  BY <1>t DEF SockTypes
<1> QED
  BY <1>3, <1>4, <1>7, <1>8, HolderStep

\* The last look at the flag, and the steps of shutdown.
LEMMA StopSteps ==
    ASSUME SockInv, NEW d \in Daemons,
           \/ Process!Check(d) \/ Process!Shutdown(d) \/ Process!Match(d) \/ Process!Unlink(d)
           \/ Process!WakeAccept(d) \/ Process!Close(d) \/ Process!MatchMcp(d) \/ Process!NextServer(d)
    PROVE  SockInv'
<1> USE ProcessBounds DEF Process!DaemonAssumption, Process!kernel, Process!process, Process!Goto
<1>t. SockTypes /\ Held /\ PathsApart /\ Placed(d) /\ AtStart(d) /\ AtStop(d) /\ ~procFailed[d]
  BY DEF SockInv, Placed
<1>s. procSock[d] \in {"rpc", "mcp"} /\ procSock[d] \in Process!Paths /\ "mcp" \in Process!Paths
      /\ "rpc" \in Process!Paths
  BY <1>t DEF SockTypes, Process!Paths
<1>p. \A place : procPc' = [procPc EXCEPT ![d] = place] => procPc'[d] = place
  BY <1>t DEF SockTypes
<1>q. \A path : procSock' = [procSock EXCEPT ![d] = path] => procSock'[d] = path
  BY <1>t DEF SockTypes
<1>r. /\ procFile' = procFile => procFile' \in [Process!Paths -> Inodes \cup {None}]
      /\ procListener' = procListener => procListener' \in [Inodes -> Daemons \cup {None}]
  BY <1>t DEF SockTypes
<1>g. {"SERVING", "MATCH", "UNLINK", "CLOSE", "MATCH AGAIN", "NEXT", "WAKE", "MATCH MCP", "UNLOCK"}
         \subseteq {"SERVING"} \cup Stopping
  BY DEF Stopping
<1>1. /\ UNCHANGED <<procKnown, procIdent, procFailed, procLock>> /\ Inside(d)
  BY DEF Process!Check, Process!Shutdown, Process!Match, Process!Unlink, Process!WakeAccept, Process!Close,
     Process!MatchMcp, Process!NextServer, Process!StopFrom, Inside
<1>2. CASE Process!Check(d) \/ Process!Shutdown(d)
  <2>1. procPc[d] \in {"CHECK", "SERVING"} /\ UNCHANGED <<procFile, procListener>>
    BY <1>2 DEF Process!Check, Process!Shutdown
  <2>2. Answers(d, "rpc") /\ Answers(d, "mcp") /\ procIdent[d]["rpc"] # None
    BY <1>t, <2>1 DEF AtStart, Answers, Has
  <2>3. \/ procPc' = [procPc EXCEPT ![d] = "SERVING"] /\ procSock' = procSock
        \/ procPc' = [procPc EXCEPT ![d] = "MATCH"] /\ procSock' = [procSock EXCEPT ![d] = "rpc"]
    BY <1>2, <2>2 DEF Process!Check, Process!Shutdown, Process!StopFrom
  <2>4. /\ procFile["rpc"] = procFile["mcp"] => procFile["rpc"] = None
        /\ Answers(d, "rpc")' /\ Answers(d, "mcp")'
    BY <1>t, <1>1, <2>1, <2>2 DEF PathsApart, Answers, Has
  <2>5. CASE procPc' = [procPc EXCEPT ![d] = "SERVING"] /\ procSock' = procSock
    <3>1. PICK path \in {"rpc", "mcp"} : path = procSock[d]
      BY <1>s
    <3>2. Reached(d, "SERVING", path)'
      BY <1>p, <2>1, <2>4, <2>5, <3>1 DEF Reached
    <3> QED
      BY <1>g, <1>r, <1>1, <2>1, <2>5, <3>2, StopStep
  <2>6. CASE procPc' = [procPc EXCEPT ![d] = "MATCH"] /\ procSock' = [procSock EXCEPT ![d] = "rpc"]
    <3>1. Reached(d, "MATCH", "rpc")'
      BY <1>p, <1>q, <2>1, <2>4, <2>6 DEF Reached
    <3> QED
      BY <1>g, <1>r, <1>1, <2>1, <2>6, <3>1, StopStep
  <2> QED
    BY <2>3, <2>5, <2>6
<1>3. CASE Process!Match(d)
  <2>1. /\ procPc[d] \in {"MATCH", "MATCH AGAIN"} /\ UNCHANGED <<procSock, procFile, procListener>>
        /\ procFile["rpc"] = procFile["mcp"] => procFile["rpc"] = None
    BY <1>t, <1>3 DEF Process!Match, PathsApart
  <2>2. CASE procPc[d] = "MATCH"
    <3>1. procSock[d] = "rpc" /\ Answers(d, "rpc") /\ Answers(d, "mcp")
      BY <1>t, <2>2 DEF AtStop
    <3>2. procPc' = [procPc EXCEPT ![d] = "UNLINK"]
      BY <1>3, <2>2, <3>1 DEF Process!Match, Answers, Has
    <3>3. Reached(d, "UNLINK", "rpc")'
      BY <1>p, <1>1, <2>1, <3>1, <3>2 DEF Reached, Answers, Has
    <3> QED
      BY <1>g, <1>r, <1>1, <2>1, <3>2, <3>3, StopStep
  <2>3. CASE procPc[d] = "MATCH AGAIN"
    <3>1. \/ procSock[d] = "rpc" /\ Gone(d, "rpc") /\ Answers(d, "mcp")
          \/ procSock[d] = "mcp" /\ Gone(d, "rpc") /\ Gone(d, "mcp")
      BY <1>t, <2>3 DEF AtStop
    <3>2. procPc' = [procPc EXCEPT ![d] = "NEXT"]
      BY <1>3, <2>3, <3>1 DEF Process!Match, Gone
    <3>3. PICK path \in {"rpc", "mcp"} : path = procSock[d]
      BY <1>s
    <3>4. Reached(d, "NEXT", path)'
      BY <1>p, <1>1, <2>1, <3>1, <3>2, <3>3 DEF Reached, Answers, Has, Gone
    <3> QED
      BY <1>g, <1>r, <1>1, <2>1, <3>2, <3>4, StopStep
  <2> QED
    BY <2>1, <2>2, <2>3
<1>4. CASE Process!Unlink(d)
  <2>1. /\ procPc[d] = "UNLINK" /\ UNCHANGED <<procSock, procListener>>
        /\ procFile' = [procFile EXCEPT ![procSock[d]] = None]
        /\ procPc' = [procPc EXCEPT ![d] = IF procSock[d] = "rpc" THEN "CLOSE" ELSE "MATCH AGAIN"]
    <3>1. procPc[d] = "UNLINK"
      BY <1>t, <1>4 DEF Process!Unlink, SockTypes, Places, Starting, Stopping
    <3> QED
      BY <1>4, <3>1 DEF Process!Unlink
  <2>2. /\ procFile'[procSock[d]] = None /\ procFile' \in [Process!Paths -> Inodes \cup {None}]
        /\ \A p \in Process!Paths : p # procSock[d] => procFile'[p] = procFile[p]
    BY <1>t, <1>s, <2>1 DEF SockTypes
  <2>3. CASE procSock[d] = "rpc"
    <3>1. Answers(d, "rpc") /\ Answers(d, "mcp")
      BY <1>t, <2>1, <2>3 DEF AtStop
    <3>2. Gone(d, "rpc")' /\ Answers(d, "mcp")' /\ procFile'["rpc"] = None
      BY <1>s, <1>1, <2>1, <2>2, <2>3, <3>1 DEF Answers, Has, Gone
    <3>3. Reached(d, "CLOSE", "rpc")'
      BY <1>p, <2>1, <2>3, <3>2 DEF Reached
    <3> QED
      BY <1>g, <1>r, <1>1, <2>1, <2>2, <2>3, <3>3, StopStep
  <2>4. CASE procSock[d] = "mcp"
    <3>1. Gone(d, "rpc") /\ Has(d, "mcp")
      BY <1>t, <2>1, <2>4 DEF AtStop
    <3>2. Gone(d, "rpc")' /\ Gone(d, "mcp")' /\ procFile'["rpc"] = None
      BY <1>s, <1>1, <2>1, <2>2, <2>4, <3>1 DEF Has, Gone
    <3>3. Reached(d, "MATCH AGAIN", "mcp")'
      BY <1>p, <2>1, <2>4, <3>2 DEF Reached
    <3> QED
      BY <1>g, <1>r, <1>1, <2>1, <2>2, <2>4, <3>3, StopStep
  <2> QED
    BY <1>s, <2>3, <2>4
<1>5. CASE Process!WakeAccept(d)
  <2>1. /\ procPc[d] = "WAKE" /\ UNCHANGED <<procSock, procFile, procListener>>
        /\ procPc' = [procPc EXCEPT ![d] = "CLOSE"]
    BY <1>5 DEF Process!WakeAccept
  <2>2. /\ procSock[d] = "mcp" /\ Gone(d, "rpc") /\ Has(d, "mcp")
        /\ procFile["rpc"] = procFile["mcp"] => procFile["rpc"] = None
    BY <1>t, <2>1 DEF AtStop, Answers, PathsApart
  <2>3. Reached(d, "CLOSE", "mcp")'
    BY <1>p, <1>1, <2>1, <2>2 DEF Reached, Has, Gone
  <2> QED
    BY <1>g, <1>r, <1>1, <2>1, <2>3, StopStep
<1>6. CASE Process!Close(d)
  <2>1. /\ procPc[d] = "CLOSE" /\ UNCHANGED <<procSock, procFile>>
        /\ procListener' = [i \in Inodes |-> IF procListener[i] = d /\ i = procIdent[d][procSock[d]]
                                            THEN None ELSE procListener[i]]
        /\ procPc' = [procPc EXCEPT ![d] = IF procSock[d] = "rpc" THEN "MATCH AGAIN" ELSE "MATCH MCP"]
    BY <1>6 DEF Process!Close
  <2>2. /\ procListener' \in [Inodes -> Daemons \cup {None}]
        /\ \A i \in Inodes : procListener'[i] = procListener[i] \/ procListener'[i] = None
        /\ procFile["rpc"] = procFile["mcp"] => procFile["rpc"] = None
    BY <1>t, <2>1 DEF SockTypes, PathsApart
  <2>3. CASE procSock[d] = "rpc"
    <3>1. Gone(d, "rpc") /\ Answers(d, "mcp")
      BY <1>t, <2>1, <2>3 DEF AtStop
    <3>2. procFile["mcp"] \in Inodes /\ procFile["mcp"] # procIdent[d]["rpc"]
      BY <1>t, <1>s, <3>1 DEF SockTypes, PathsApart, Answers, Has, Gone
    <3>3. Gone(d, "rpc")' /\ Answers(d, "mcp")'
      BY <1>1, <2>1, <2>3, <3>1, <3>2 DEF Answers, Has, Gone
    <3>4. Reached(d, "MATCH AGAIN", "rpc")'
      BY <1>p, <2>1, <2>2, <2>3, <3>3 DEF Reached
    <3> QED
      BY <1>g, <1>r, <1>1, <2>1, <2>2, <2>3, <3>4, StopStep
  <2>4. CASE procSock[d] = "mcp"
    <3>1. Gone(d, "rpc") /\ Has(d, "mcp")
      BY <1>t, <2>1, <2>4 DEF AtStop
    <3>2. Reached(d, "MATCH MCP", "mcp")'
      BY <1>p, <1>1, <2>1, <2>2, <2>4, <3>1 DEF Reached, Has, Gone
    <3> QED
      BY <1>g, <1>r, <1>1, <2>1, <2>2, <2>4, <3>2, StopStep
  <2> QED
    BY <1>s, <2>3, <2>4
<1>7. CASE Process!MatchMcp(d)
  <2>1. procPc[d] = "MATCH MCP" /\ UNCHANGED <<procSock, procFile, procListener>>
    BY <1>7 DEF Process!MatchMcp
  <2>2. /\ procSock[d] = "mcp" /\ Gone(d, "rpc") /\ Has(d, "mcp")
        /\ procFile["rpc"] = procFile["mcp"] => procFile["rpc"] = None
    BY <1>t, <2>1 DEF AtStop, PathsApart
  <2>3. procPc' = [procPc EXCEPT ![d] = "UNLINK"]
    BY <1>7, <2>2 DEF Process!MatchMcp, Has
  <2>4. Reached(d, "UNLINK", "mcp")'
    BY <1>p, <1>1, <2>1, <2>2, <2>3 DEF Reached, Has, Gone
  <2> QED
    BY <1>g, <1>r, <1>1, <2>1, <2>3, <2>4, StopStep
<1>8. CASE Process!NextServer(d)
  <2>1. /\ procPc[d] = "NEXT" /\ UNCHANGED <<procFile, procListener>>
        /\ procFile["rpc"] = procFile["mcp"] => procFile["rpc"] = None
    BY <1>t, <1>8 DEF Process!NextServer, PathsApart
  <2>2. CASE procSock[d] = "rpc"
    <3>1. Gone(d, "rpc") /\ Answers(d, "mcp") /\ procIdent[d]["mcp"] # None
      BY <1>t, <2>1, <2>2 DEF AtStop, Answers, Has
    <3>2. procPc' = [procPc EXCEPT ![d] = "WAKE"] /\ procSock' = [procSock EXCEPT ![d] = "mcp"]
      BY <1>8, <2>2, <3>1 DEF Process!NextServer, Process!StopFrom
    <3>3. Reached(d, "WAKE", "mcp")'
      BY <1>p, <1>q, <1>1, <2>1, <3>1, <3>2 DEF Reached, Answers, Has, Gone
    <3> QED
      BY <1>g, <1>r, <1>1, <2>1, <3>2, <3>3, StopStep
  <2>3. CASE procSock[d] = "mcp"
    <3>1. Gone(d, "rpc") /\ Gone(d, "mcp")
      BY <1>t, <2>1, <2>3 DEF AtStop
    <3>2. procPc' = [procPc EXCEPT ![d] = "UNLOCK"] /\ procSock' = procSock
      BY <1>8, <2>3 DEF Process!NextServer
    <3>3. Reached(d, "UNLOCK", "mcp")'
      BY <1>p, <1>1, <2>1, <2>3, <3>1, <3>2 DEF Reached, Gone
    <3> QED
      BY <1>g, <1>r, <1>1, <2>1, <3>2, <3>3, StopStep
  <2> QED
    BY <1>s, <2>2, <2>3
<1> QED
  BY <1>2, <1>3, <1>4, <1>5, <1>6, <1>7, <1>8

LEMMA SockStep == SockInv /\ [Process!Next]_(Process!vars) => SockInv'
<1> SUFFICES ASSUME SockInv, [Process!Next]_(Process!vars) PROVE SockInv'
  OBVIOUS
<1>1. CASE UNCHANGED Process!vars
  <2> USE <1>1 DEF Process!vars
  <2>1. SockTypes' /\ Held' /\ PathsApart'
    BY DEF SockInv, SockTypes, Held, Inside, PathsApart
  <2>2. \A d \in Daemons : AtStart(d)' <=> AtStart(d)
    BY DEF AtStart, Answers, Has, Process!NoServer
  <2>3. \A d \in Daemons : AtStop(d)' <=> AtStop(d)
    BY DEF AtStop, Answers, Has, Gone, Process!NoServer
  <2> QED
    BY <2>1, <2>2, <2>3 DEF SockInv, Placed
<1>2. CASE Process!Next
  BY <1>2, LockSteps, StartSteps, BindSteps, StopSteps DEF Process!Next, Process!Run
<1> QED
  BY <1>1, <1>2

\* The socket files, for any number of processes on one database that start, crash and
\* are signalled at any moment, and whose reconciliation may fail: both paths of a daemon
\* that serves lead to it, who has the lock and has reconciled binds them in spite of stale
\* files, and who gives the lock back has left none
\* (Daemon::start_inner and shutdown, remove_stale_socket, remove_matching_socket).
THEOREM SocketsStayShared == Process!Spec => []SocketsAreShared
<1>1. SockInv => SocketsAreShared
  <2> SUFFICES ASSUME SockInv PROVE SocketsAreShared
    OBVIOUS
  <2>1. Process!HolderBinds
    BY DEF SockInv, Placed, Process!HolderBinds
  <2>2. Process!ServingIsReachable
    <3>1. \A d \in Daemons : procPc[d] = "SERVING" => Answers(d, "rpc") /\ Answers(d, "mcp")
      BY DEF SockInv, Placed, AtStart
    <3> QED
      BY <3>1 DEF Answers, Has, Process!ServingIsReachable, Process!Owns, Process!Paths
  <2>3. Process!StoppedLeavesNoSocket
    BY DEF SockInv, Placed, AtStop, Gone, Process!StoppedLeavesNoSocket, Process!Paths, Process!NoServer
  <2> QED
    BY <2>1, <2>2, <2>3 DEF SocketsAreShared
<1> QED
  BY <1>1, SockInit, SockStep, PTL DEF Process!Spec

-----------------------------------------------------------------------------
(***************************************************************************)
(* The reads of a task and its result (TaskWait)                           *)
(***************************************************************************)

WaitPlaces == {"IDLE", "LOOP", "PENDING", "RESULT", "RESULT_ROW", "DECIDE", "DONE", "GONE"}

WaitSeen == [phase : {"QUEUED", "ACTIVE", "TERMINAL"}, run : Nat, approval : BOOLEAN,
             result : Nat, timedOut : BOOLEAN, since : Nat]

Copy == [at : {"IDLE", "CHECKED", "ROW", "READ", "REQUEUED"}, run : Nat, result : Nat]

WaitTypes ==
    /\ waitTask \in [phase : {"QUEUED", "ACTIVE", "TERMINAL"}, run : Nat]
    /\ waitResult \in Nat /\ waitResumes \in Nat /\ waitChanges \in Nat
    /\ waitCopy \in [Resumers -> Copy] /\ waitOverlapped \in BOOLEAN
    /\ waitPc \in [Callers -> WaitPlaces]
    /\ waitSeen \in [Callers -> WaitSeen]

\* The terminal transaction writes the result with the phase, a resume deletes it, and a
\* restore that no other resumer met puts both back.
ResultOfRun ==
    /\ waitTask.phase # "TERMINAL" => waitResult = 0
    /\ ~waitOverlapped =>
          waitTask.run > 0 /\ (waitTask.phase = "TERMINAL" => waitResult = waitTask.run)

\* The only resumer under way copies a task that stays as it is until it requeues it,
\* and keeps the copy of a whole run from then on.
Copied(t) ==
    /\ waitCopy[t].at \in {"CHECKED", "ROW", "READ"} => waitTask.phase = "TERMINAL"
    /\ waitCopy[t].at \in {"ROW", "READ"} => waitCopy[t].run = waitTask.run
    /\ waitCopy[t].at = "READ" => waitCopy[t].result = waitTask.run
    /\ waitCopy[t].at = "REQUEUED" =>
          waitCopy[t].run > 0 /\ waitCopy[t].result = waitCopy[t].run

CopiesAreWhole ==
    ~waitOverlapped =>
        \A t \in Resumers :
            /\ Copied(t)
            /\ \A u \in Resumers :
                   waitCopy[t].at # "IDLE" /\ waitCopy[u].at # "IDLE" => t = u

\* The outcome did not change since a call read the task: it is as it was read.
SeenIsCurrent(c) ==
    /\ waitSeen[c].since <= waitChanges
    /\ /\ waitPc[c] \in {"PENDING", "RESULT", "RESULT_ROW", "DECIDE", "DONE"}
       /\ waitSeen[c].since = waitChanges
       => IF waitSeen[c].phase = "TERMINAL"
          THEN waitTask.phase = "TERMINAL" /\ waitTask.run = waitSeen[c].run
          ELSE waitTask.phase # "TERMINAL"

\* ... and what the call read as its result fits, once it has read one.
SeenIsWhole(c) ==
    waitPc[c] \in {"DECIDE", "DONE"} /\ waitSeen[c].since = waitChanges =>
        IF waitSeen[c].phase = "TERMINAL"
        THEN waitOverlapped \/ waitSeen[c].result = waitSeen[c].run
        ELSE waitSeen[c].result = 0

WaitInv ==
    /\ WaitTypes /\ ResultOfRun /\ CopiesAreWhole
    /\ \A c \in Callers : SeenIsCurrent(c) /\ SeenIsWhole(c)

LEMMA WaitInit == Wait!Init => WaitInv
<1> SUFFICES ASSUME Wait!Init PROVE WaitInv
  OBVIOUS
<1>1. WaitTypes
  BY DEF Wait!Init, Wait!NothingSeen, Wait!NoCopy, Wait!NoResult, WaitTypes, WaitSeen, Copy,
         WaitPlaces
<1>2. ResultOfRun /\ CopiesAreWhole
  BY DEF Wait!Init, Wait!NoCopy, Wait!NoResult, ResultOfRun, CopiesAreWhole, Copied
<1>3. \A c \in Callers : SeenIsCurrent(c) /\ SeenIsWhole(c)
  BY DEF Wait!Init, Wait!NothingSeen, SeenIsCurrent, SeenIsWhole
<1> QED
  BY <1>1, <1>2, <1>3 DEF WaitInv

\* A step of the store that leaves the outcome alone, or changes it and is counted,
\* keeps what is known of the calls.
LEMMA WaitCallsStay ==
    ASSUME WaitInv, waitPc' = waitPc, waitSeen' = waitSeen,
           WaitTypes', ResultOfRun', CopiesAreWhole', waitOverlapped => waitOverlapped',
           \/ waitChanges' = waitChanges + 1
           \/ /\ waitChanges' = waitChanges
              /\ waitTask'.phase = "TERMINAL" <=> waitTask.phase = "TERMINAL"
              /\ waitTask'.run = waitTask.run
    PROVE  WaitInv'
<1>1. ASSUME NEW c \in Callers PROVE SeenIsCurrent(c)' /\ SeenIsWhole(c)'
  <2>1. waitChanges \in Nat /\ waitSeen[c].since \in Nat
    BY DEF WaitInv, WaitTypes, WaitSeen
  <2>2. SeenIsCurrent(c) /\ SeenIsWhole(c)
    BY DEF WaitInv
  <2>3. CASE waitChanges' = waitChanges + 1
    BY <2>1, <2>2, <2>3 DEF SeenIsCurrent, SeenIsWhole
  <2>4. CASE waitChanges' = waitChanges
    BY <2>1, <2>2, <2>4 DEF SeenIsCurrent, SeenIsWhole
  <2> QED
    BY <2>3, <2>4
<1> QED
  BY <1>1 DEF WaitInv

\* The transactions of the runs and of the requests.
LEMMA WaitRunSteps ==
    ASSUME WaitInv,
           \/ Wait!Claim \/ Wait!Finish
           \/ \E kind \in Wait!Kinds : Wait!Ask(kind)
           \/ \E i \in DOMAIN waitPending : Wait!Answer(i) \/ Wait!Answered(i)
    PROVE  WaitInv'
<1>1. CASE Wait!Claim
  <2>1. /\ waitTask.phase = "QUEUED" /\ waitTask' = [waitTask EXCEPT !.phase = "ACTIVE"]
        /\ waitResult' = waitResult /\ waitResumes' = waitResumes
        /\ waitCopy' = waitCopy /\ waitChanges' = waitChanges
        /\ waitOverlapped' = waitOverlapped /\ waitPc' = waitPc /\ waitSeen' = waitSeen
    BY <1>1 DEF Wait!Claim, Wait!calls
  <2>2. WaitTypes' /\ ResultOfRun' /\ CopiesAreWhole'
    BY <2>1 DEF WaitInv, WaitTypes, ResultOfRun, CopiesAreWhole, Copied
  <2>3. waitTask'.phase = "ACTIVE" /\ waitTask'.run = waitTask.run
    BY <2>1 DEF WaitInv, WaitTypes
  <2> QED
    BY <2>1, <2>2, <2>3, WaitCallsStay
<1>2. CASE Wait!Finish
  <2>1. /\ waitTask.phase = "ACTIVE" /\ waitTask' = [waitTask EXCEPT !.phase = "TERMINAL"]
        /\ waitResult' = waitTask.run /\ waitResumes' = waitResumes
        /\ waitCopy' = waitCopy /\ waitChanges' = waitChanges + 1
        /\ waitOverlapped' = waitOverlapped /\ waitPc' = waitPc /\ waitSeen' = waitSeen
    BY <1>2 DEF Wait!Finish, Wait!calls
  <2>2. WaitTypes' /\ ResultOfRun' /\ CopiesAreWhole'
    BY <2>1 DEF WaitInv, WaitTypes, ResultOfRun, CopiesAreWhole, Copied
  <2> QED
    BY <2>1, <2>2, WaitCallsStay
<1>3. CASE \/ \E kind \in Wait!Kinds : Wait!Ask(kind)
           \/ \E i \in DOMAIN waitPending : Wait!Answer(i) \/ Wait!Answered(i)
  <2>1. /\ waitTask' = waitTask /\ waitResult' = waitResult /\ waitResumes' = waitResumes
        /\ waitCopy' = waitCopy /\ waitChanges' = waitChanges
        /\ waitOverlapped' = waitOverlapped /\ waitPc' = waitPc /\ waitSeen' = waitSeen
    BY <1>3 DEF Wait!Ask, Wait!Answer, Wait!Answered, Wait!RequestsChange, Wait!calls
  <2>2. WaitTypes' /\ ResultOfRun' /\ CopiesAreWhole'
    BY <2>1 DEF WaitInv, WaitTypes, ResultOfRun, CopiesAreWhole, Copied
  <2> QED
    BY <2>1, <2>2, WaitCallsStay
<1> QED
  BY <1>1, <1>2, <1>3

\* What a resumer copies.
LEMMA WaitCopySteps ==
    ASSUME WaitInv, NEW t \in Resumers,
           Wait!ResumeCheck(t) \/ Wait!CopyRow(t) \/ Wait!CopyResult(t) \/ Wait!ResumeReturn(t)
    PROVE  WaitInv'
<1>t. WaitTypes /\ waitCopy \in [Resumers -> Copy] /\ waitCopy[t] \in Copy
  BY DEF WaitInv, WaitTypes
<1>0. /\ waitTask' = waitTask /\ waitResult' = waitResult /\ waitResumes' = waitResumes
      /\ waitChanges' = waitChanges /\ waitPc' = waitPc /\ waitSeen' = waitSeen
  BY DEF Wait!ResumeCheck, Wait!CopyRow, Wait!CopyResult, Wait!ResumeReturn, Wait!calls
<1>1. CASE Wait!ResumeCheck(t)
  <2>1. /\ waitCopy[t].at = "IDLE" /\ waitTask.phase = "TERMINAL"
        /\ waitCopy' = [waitCopy EXCEPT ![t].at = "CHECKED"]
        /\ waitOverlapped' = (waitOverlapped \/ \E u \in Resumers : waitCopy[u].at # "IDLE")
    BY <1>1 DEF Wait!ResumeCheck
  <2>2. WaitTypes'
    BY <1>t, <1>0, <2>1 DEF WaitTypes, Copy
  <2>3. ResultOfRun'
    BY <1>0, <2>1 DEF WaitInv, ResultOfRun
  <2>4. CopiesAreWhole'
    BY <1>t, <1>0, <2>1 DEF WaitInv, Copy, CopiesAreWhole, Copied
  <2>5. waitOverlapped => waitOverlapped'
    BY <2>1
  <2> QED
    BY <1>0, <2>2, <2>3, <2>4, <2>5, WaitCallsStay
<1>2. CASE Wait!CopyRow(t)
  <2>1. /\ waitCopy[t].at = "CHECKED" /\ waitOverlapped' = waitOverlapped
        /\ waitCopy' = [waitCopy EXCEPT ![t].at = "ROW",
                ![t].run = IF waitTask.phase = "TERMINAL" THEN waitTask.run ELSE 0]
    BY <1>2 DEF Wait!CopyRow
  <2>a. PICK n \in Nat : n = IF waitTask.phase = "TERMINAL" THEN waitTask.run ELSE 0
    BY <1>t DEF WaitTypes
  <2>b. waitCopy' = [waitCopy EXCEPT ![t].at = "ROW", ![t].run = n]
    BY <2>1, <2>a
  <2>2. WaitTypes'
    <3>1. waitCopy' \in [Resumers -> Copy]
      BY <1>t, <2>b DEF Copy
    <3> QED
      BY <1>t, <1>0, <2>1, <3>1 DEF WaitTypes
  <2>3. ResultOfRun'
    BY <1>0, <2>1 DEF WaitInv, ResultOfRun
  <2>4. CopiesAreWhole'
    BY <1>t, <1>0, <2>1, <2>a, <2>b DEF WaitInv, Copy, CopiesAreWhole, Copied
  <2> QED
    BY <1>0, <2>1, <2>2, <2>3, <2>4, WaitCallsStay
<1>3. CASE Wait!CopyResult(t)
  <2>1. /\ waitCopy[t].at = "ROW" /\ waitOverlapped' = waitOverlapped
        /\ waitCopy' = [waitCopy EXCEPT ![t].at = "READ", ![t].result = waitResult]
    BY <1>3 DEF Wait!CopyResult
  <2>2. WaitTypes'
    BY <1>t, <1>0, <2>1 DEF WaitTypes, Copy
  <2>3. ResultOfRun'
    BY <1>0, <2>1 DEF WaitInv, ResultOfRun
  <2>4. CopiesAreWhole'
    BY <1>t, <1>0, <2>1 DEF WaitInv, Copy, CopiesAreWhole, Copied, ResultOfRun
  <2> QED
    BY <1>0, <2>1, <2>2, <2>3, <2>4, WaitCallsStay
<1>4. CASE Wait!ResumeReturn(t)
  <2>1. /\ waitOverlapped' = waitOverlapped
        /\ waitCopy' = [waitCopy EXCEPT ![t] = [at |-> "IDLE", run |-> 0, result |-> 0]]
    BY <1>4 DEF Wait!ResumeReturn, Wait!NoCopy, Wait!NoResult
  <2>2. WaitTypes'
    BY <1>t, <1>0, <2>1 DEF WaitTypes, Copy
  <2>3. ResultOfRun'
    BY <1>0, <2>1 DEF WaitInv, ResultOfRun
  <2>4. CopiesAreWhole'
    BY <1>t, <1>0, <2>1 DEF WaitInv, Copy, CopiesAreWhole, Copied
  <2> QED
    BY <1>0, <2>1, <2>2, <2>3, <2>4, WaitCallsStay
<1> QED
  BY <1>1, <1>2, <1>3, <1>4

\* The requeue, and the restore that puts the copies back.
LEMMA WaitRequeueSteps ==
    ASSUME WaitInv, NEW t \in Resumers, Wait!Resume(t) \/ Wait!Restore(t) PROVE WaitInv'
<1>t. WaitTypes /\ waitCopy \in [Resumers -> Copy] /\ waitCopy[t] \in Copy
  BY DEF WaitInv, WaitTypes
<1>1. CASE Wait!Resume(t)
  <2>1. /\ waitCopy[t].at = "READ" /\ waitTask.phase = "TERMINAL"
        /\ waitTask' = [phase |-> "QUEUED", run |-> waitResumes + 2]
        /\ waitResult' = 0 /\ waitResumes' = waitResumes + 1
        /\ waitCopy' = [waitCopy EXCEPT ![t].at = "REQUEUED"]
        /\ waitChanges' = waitChanges + 1 /\ waitOverlapped' = waitOverlapped
        /\ waitPc' = waitPc /\ waitSeen' = waitSeen
    BY <1>1 DEF Wait!Resume, Wait!NoResult, Wait!calls
  <2>2. WaitTypes'
    BY <1>t, <2>1 DEF WaitTypes, Copy
  <2>3. ResultOfRun'
    BY <1>t, <2>1 DEF WaitTypes, ResultOfRun
  <2>4. ASSUME ~waitOverlapped, NEW u \in Resumers
        PROVE  /\ Copied(u)'
               /\ \A v \in Resumers :
                     waitCopy'[u].at # "IDLE" /\ waitCopy'[v].at # "IDLE" => u = v
    <3>1. \A v \in Resumers : waitCopy[v].at # "IDLE" => v = t
      BY <2>1, <2>4 DEF WaitInv, CopiesAreWhole
    <3>2. /\ waitCopy[t].run = waitTask.run /\ waitCopy[t].result = waitTask.run
          /\ waitTask.run > 0
      BY <2>1, <2>4 DEF WaitInv, CopiesAreWhole, Copied, ResultOfRun
    <3>3. CASE u = t
      BY <1>t, <2>1, <3>1, <3>2, <3>3 DEF Copy, Copied
    <3>4. CASE u # t
      BY <1>t, <2>1, <3>1, <3>4 DEF Copy, Copied
    <3> QED
      BY <3>3, <3>4
  <2>5. CopiesAreWhole'
    BY <2>1, <2>4 DEF CopiesAreWhole
  <2> QED
    BY <2>1, <2>2, <2>3, <2>5, WaitCallsStay
<1>2. CASE Wait!Restore(t)
  <2>1. /\ waitCopy[t].at = "REQUEUED"
        /\ waitTask' = [phase |-> "TERMINAL", run |-> waitCopy[t].run]
        /\ waitResult' = IF waitCopy[t].result = 0 THEN waitResult ELSE waitCopy[t].result
        /\ waitResumes' = waitResumes
        /\ waitCopy' = [waitCopy EXCEPT ![t] = [at |-> "IDLE", run |-> 0, result |-> 0]]
        /\ waitChanges' = waitChanges + 1 /\ waitOverlapped' = waitOverlapped
        /\ waitPc' = waitPc /\ waitSeen' = waitSeen
    BY <1>2 DEF Wait!Restore, Wait!NoCopy, Wait!NoResult, Wait!calls
  <2>2. WaitTypes'
    BY <1>t, <2>1 DEF WaitTypes, Copy
  <2>3. ResultOfRun'
    BY <1>t, <2>1 DEF WaitInv, Copy, CopiesAreWhole, Copied, ResultOfRun
  <2>4. ASSUME ~waitOverlapped, NEW u \in Resumers PROVE waitCopy'[u].at = "IDLE"
    BY <1>t, <2>1, <2>4 DEF WaitInv, Copy, CopiesAreWhole
  <2>5. CopiesAreWhole'
    BY <2>1, <2>4 DEF CopiesAreWhole, Copied
  <2> QED
    BY <2>1, <2>2, <2>3, <2>5, WaitCallsStay
<1> QED
  BY <1>1, <1>2

LEMMA WaitTaskSteps == WaitInv /\ Wait!Task => WaitInv'
BY WaitRunSteps, WaitCopySteps, WaitRequeueSteps DEF Wait!Task

\* A call that reads the task.
LEMMA WaitReadTask ==
    ASSUME WaitInv, NEW c \in Callers, NEW place \in WaitPlaces \ {"DECIDE", "DONE"},
           UNCHANGED Wait!store,
           waitSeen' = [waitSeen EXCEPT ![c] =
               [Wait!NothingSeen EXCEPT !.phase = waitTask.phase, !.run = waitTask.run,
                                        !.since = waitChanges]],
           waitPc' = [waitPc EXCEPT ![c] = place]
    PROVE  WaitInv'
<1>1. /\ waitTask' = waitTask /\ waitResult' = waitResult /\ waitResumes' = waitResumes
      /\ waitCopy' = waitCopy /\ waitChanges' = waitChanges
      /\ waitOverlapped' = waitOverlapped
  BY DEF Wait!store
<1>2. WaitTypes' /\ ResultOfRun' /\ CopiesAreWhole'
  BY <1>1 DEF WaitInv, WaitTypes, WaitSeen, ResultOfRun, CopiesAreWhole, Copied, Wait!NothingSeen,
                Wait!NoResult
<1>3. ASSUME NEW d \in Callers PROVE SeenIsCurrent(d)' /\ SeenIsWhole(d)'
  <2>1. CASE d = c
    <3>1. waitSeen'[d].since = waitChanges /\ waitSeen'[d].run = waitTask.run
          /\ waitSeen'[d].phase = waitTask.phase /\ waitPc'[d] = place
      BY <2>1 DEF WaitInv, WaitTypes, Wait!NothingSeen
    <3> QED
      BY <1>1, <3>1 DEF WaitInv, WaitTypes, SeenIsCurrent, SeenIsWhole
  <2>2. CASE d # c
    BY <1>1, <2>2 DEF WaitInv, WaitTypes, SeenIsCurrent, SeenIsWhole
  <2> QED
    BY <2>1, <2>2
<1> QED
  BY <1>2, <1>3 DEF WaitInv

\* A call that goes on with the task it has read.
LEMMA WaitReadOn ==
    ASSUME WaitInv, NEW c \in Callers, UNCHANGED Wait!store,
           waitSeen' \in [Callers -> WaitSeen], waitPc' \in [Callers -> WaitPlaces],
           \A d \in Callers \ {c} : waitSeen'[d] = waitSeen[d] /\ waitPc'[d] = waitPc[d],
           waitSeen'[c].phase = waitSeen[c].phase, waitSeen'[c].run = waitSeen[c].run,
           waitSeen'[c].since = waitSeen[c].since,
           \/ waitPc'[c] \notin {"PENDING", "RESULT", "RESULT_ROW", "DECIDE", "DONE"}
           \/ /\ waitPc[c] \in {"PENDING", "RESULT", "RESULT_ROW"}
              /\ waitPc'[c] \notin {"DECIDE", "DONE"} \/ waitSeen'[c].result = waitResult
           \/ waitPc[c] = "DECIDE" /\ IF waitSeen[c].phase = "TERMINAL"
                                      THEN waitSeen'[c].result = waitSeen[c].result
                                      ELSE waitSeen'[c].result = 0
    PROVE  WaitInv'
<1>1. /\ waitTask' = waitTask /\ waitResult' = waitResult /\ waitResumes' = waitResumes
      /\ waitCopy' = waitCopy /\ waitChanges' = waitChanges
      /\ waitOverlapped' = waitOverlapped
  BY DEF Wait!store
<1>2. WaitTypes' /\ ResultOfRun' /\ CopiesAreWhole'
  BY <1>1 DEF WaitInv, WaitTypes, ResultOfRun, CopiesAreWhole, Copied
<1>3. SeenIsCurrent(c)' /\ SeenIsWhole(c)'
  BY <1>1 DEF WaitInv, ResultOfRun, SeenIsCurrent, SeenIsWhole
<1>4. \A d \in Callers \ {c} : SeenIsCurrent(d)' /\ SeenIsWhole(d)'
  BY <1>1 DEF WaitInv, SeenIsCurrent, SeenIsWhole
<1> QED
  BY <1>2, <1>3, <1>4 DEF WaitInv

LEMMA WaitCallSteps ==
    ASSUME WaitInv, NEW c \in Callers,
           \/ Wait!BeginWait(c) \/ Wait!ResultTask(c) \/ Wait!Expire(c) \/ Wait!Interrupt(c)
           \/ Wait!Step(c)
    PROVE  WaitInv'
<1>t. waitPc \in [Callers -> WaitPlaces] /\ waitSeen \in [Callers -> WaitSeen] /\ waitResult \in Nat
  BY DEF WaitInv, WaitTypes
<1>1. CASE Wait!ReadTask(c) \/ Wait!ResultTask(c)
  BY <1>1, WaitReadTask DEF Wait!ReadTask, Wait!ResultTask, WaitPlaces
<1>2. CASE Wait!BeginWait(c) \/ Wait!LoopInterrupted(c) \/ Wait!Again(c)
  BY <1>t, <1>2, WaitReadOn DEF Wait!BeginWait, Wait!LoopInterrupted, Wait!Again, WaitPlaces
<1>3. CASE Wait!Expire(c) \/ Wait!Interrupt(c)
  BY <1>3 DEF Wait!Expire, Wait!Interrupt, Wait!store, WaitInv, WaitTypes, ResultOfRun,
              CopiesAreWhole, Copied, SeenIsCurrent, SeenIsWhole
<1>4. CASE Wait!ReadPending(c)
  <2>1. /\ UNCHANGED Wait!store /\ waitPc[c] = "PENDING"
        /\ waitPc' = [waitPc EXCEPT ![c] = "RESULT"]
    BY <1>4 DEF Wait!ReadPending
  <2>a. PICK b \in BOOLEAN :
           b = \E i \in DOMAIN Wait!Projection : Wait!Respondable(Wait!Projection[i])
    OBVIOUS
  <2>2. waitSeen' = [waitSeen EXCEPT ![c].approval = b]
    BY <1>4, <2>a DEF Wait!ReadPending
  <2>3. waitSeen' \in [Callers -> WaitSeen] /\ waitPc' \in [Callers -> WaitPlaces]
    BY <1>t, <2>1, <2>2 DEF WaitSeen, WaitPlaces
  <2>4. waitSeen'[c].phase = waitSeen[c].phase /\ waitSeen'[c].run = waitSeen[c].run
        /\ waitSeen'[c].since = waitSeen[c].since
    BY <1>t, <2>2 DEF WaitSeen
  <2> QED
    BY <1>t, <2>1, <2>2, <2>3, <2>4, WaitReadOn
<1>5. CASE Wait!ReadResult(c) \/ Wait!ResultRow(c)
  <2>1. /\ UNCHANGED Wait!store /\ waitSeen' = [waitSeen EXCEPT ![c].result = waitResult]
        /\ waitPc[c] \in {"RESULT", "RESULT_ROW"}
        /\ \E p \in WaitPlaces : waitPc' = [waitPc EXCEPT ![c] = p]
    BY <1>5 DEF Wait!ReadResult, Wait!ResultRow, WaitPlaces
  <2>3. waitSeen' \in [Callers -> WaitSeen] /\ waitPc' \in [Callers -> WaitPlaces]
    BY <1>t, <2>1 DEF WaitSeen
  <2>4. waitSeen'[c].phase = waitSeen[c].phase /\ waitSeen'[c].run = waitSeen[c].run
        /\ waitSeen'[c].since = waitSeen[c].since /\ waitSeen'[c].result = waitResult
    BY <1>t, <2>1 DEF WaitSeen
  <2> QED
    BY <1>t, <2>1, <2>3, <2>4, WaitReadOn
<1>6. CASE Wait!Return(c)
  <2>1. UNCHANGED Wait!store /\ waitPc[c] = "DECIDE" /\ waitPc' = [waitPc EXCEPT ![c] = "DONE"]
    BY <1>6 DEF Wait!Return
  <2>a. PICK b \in BOOLEAN : b = ~Wait!Wakes(c)
    OBVIOUS
  <2>b. PICK r \in Nat : r = IF waitSeen[c].phase = "TERMINAL" THEN waitSeen[c].result ELSE 0
    BY <1>t DEF WaitSeen
  <2>2. waitSeen' = [waitSeen EXCEPT ![c].timedOut = b, ![c].result = r]
    <3>1. waitSeen' = [waitSeen EXCEPT ![c].timedOut = b, ![c].result =
                          IF waitSeen[c].phase = "TERMINAL" THEN @ ELSE 0]
      BY <1>6, <2>a DEF Wait!Return, Wait!NoResult
    <3>2. CASE waitSeen[c].phase = "TERMINAL"
      BY ONLY <1>t, <2>b, <3>1, <3>2 DEF WaitSeen
    <3>3. CASE waitSeen[c].phase # "TERMINAL"
      BY ONLY <1>t, <2>b, <3>1, <3>3 DEF WaitSeen
    <3> QED
      BY <3>2, <3>3
  <2>c. waitPc' \in [Callers -> WaitPlaces]
    BY <1>t, <2>1 DEF WaitPlaces
  <2>d. waitSeen' \in [Callers -> WaitSeen]
    <3>1. r \in Nat /\ b \in BOOLEAN
      OBVIOUS
    <3>2. [waitSeen[c] EXCEPT !.timedOut = b, !.result = r] \in WaitSeen
      BY ONLY <1>t, <3>1 DEF WaitSeen
    <3>3. waitSeen' = [waitSeen EXCEPT ![c] = [@ EXCEPT !.timedOut = b, !.result = r]]
      BY ONLY <1>t, <2>2 DEF WaitSeen
    <3> QED
      BY ONLY <1>t, <3>2, <3>3
  <2>3. waitSeen' \in [Callers -> WaitSeen] /\ waitPc' \in [Callers -> WaitPlaces]
    BY <2>c, <2>d
  <2>4. waitSeen'[c].phase = waitSeen[c].phase /\ waitSeen'[c].run = waitSeen[c].run
        /\ waitSeen'[c].since = waitSeen[c].since
        /\ waitSeen'[c].result = IF waitSeen[c].phase = "TERMINAL"
                                 THEN waitSeen[c].result ELSE 0
    BY <1>t, <2>b, <2>2 DEF WaitSeen
  <2> QED
    BY <1>t, <2>1, <2>2, <2>3, <2>4, WaitReadOn
<1> QED
  BY <1>1, <1>2, <1>3, <1>4, <1>5, <1>6 DEF Wait!Step

LEMMA WaitStep == WaitInv /\ [Wait!Next]_(Wait!vars) => WaitInv'
<1>1. WaitInv /\ UNCHANGED Wait!vars => WaitInv'
  BY DEF Wait!vars, WaitInv, WaitTypes, ResultOfRun, CopiesAreWhole, Copied, SeenIsCurrent,
         SeenIsWhole
<1>2. WaitInv /\ Wait!Next => WaitInv'
  BY WaitTaskSteps, WaitCallSteps DEF Wait!Next
<1> QED
  BY <1>1, <1>2

LEMMA WaitIsTrue == Wait!Spec => []Wait!ResultFitsTask
<1>1. WaitInv => Wait!ResultFitsTask
  BY DEF WaitInv, WaitTypes, WaitSeen, SeenIsCurrent, SeenIsWhole, Wait!ResultFitsTask,
         Wait!AnswerFits, Wait!NoResult
<1> QED
  BY <1>1, WaitInit, WaitStep, PTL DEF Wait!Spec

-----------------------------------------------------------------------------
(***************************************************************************)
(* Walking the list of tasks (TaskPages)                                   *)
(***************************************************************************)

LEMMA SameListCardinality == \A S : List!Cardinality(S) = Cardinality(S)
BY DEF List!Cardinality, Cardinality

\* How many of rows are newer than one of them.
Rank(rows, rowid) == List!Cardinality({newer \in rows : newer > rowid})

LEMMA RankType ==
    ASSUME NEW rows, \A r \in rows : r \in Nat, IsFiniteSet(rows), NEW rowid \in rows
    PROVE  Rank(rows, rowid) \in 0 .. Cardinality(rows) - 1
<1>1. {newer \in rows : newer > rowid} \subseteq rows \ {rowid}
  OBVIOUS
<1>2. IsFiniteSet(rows \ {rowid}) /\ Cardinality(rows \ {rowid}) = Cardinality(rows) - 1
  BY FS_RemoveElement
<1>3. /\ IsFiniteSet({newer \in rows : newer > rowid})
      /\ Cardinality({newer \in rows : newer > rowid}) <= Cardinality(rows) - 1
  BY <1>1, <1>2, FS_Subset
<1>4. Cardinality({newer \in rows : newer > rowid}) \in Nat /\ Cardinality(rows) \in Nat
  BY <1>3, FS_CardinalityType
<1> QED
  BY <1>3, <1>4, SameListCardinality DEF Rank

\* The newer row has the lower rank.
LEMMA RankOrder ==
    ASSUME NEW rows, \A r \in rows : r \in Nat, IsFiniteSet(rows), NEW rowid \in rows, NEW newer \in rows,
           newer > rowid
    PROVE  Rank(rows, newer) < Rank(rows, rowid)
<1> DEFINE A == {r \in rows : r > newer}
           B == {r \in rows : r > rowid}
<1>1. A \cup {newer} \subseteq B /\ newer \notin A /\ A \subseteq rows /\ B \subseteq rows
  OBVIOUS
<1>2. IsFiniteSet(A) /\ IsFiniteSet(B)
  BY <1>1, FS_Subset
<1>3. IsFiniteSet(A \cup {newer}) /\ Cardinality(A \cup {newer}) = Cardinality(A) + 1
  BY <1>1, <1>2, FS_AddElement
<1>4. Cardinality(A \cup {newer}) <= Cardinality(B)
  BY <1>1, <1>2, FS_Subset
<1>5. Cardinality(A) \in Nat /\ Cardinality(B) \in Nat
  BY <1>2, FS_CardinalityType
<1>6. Cardinality(A) < Cardinality(B)
  BY <1>3, <1>4, <1>5
<1> QED
  BY <1>6, SameListCardinality DEF Rank

\* Every rank is taken, by the pigeonhole principle.
LEMMA RankOnto ==
    ASSUME NEW rows, \A r \in rows : r \in Nat, IsFiniteSet(rows), NEW k \in 0 .. Cardinality(rows) - 1
    PROVE  \E rowid \in rows : Rank(rows, rowid) = k
<1> SUFFICES ASSUME \A rowid \in rows : Rank(rows, rowid) # k PROVE FALSE
  OBVIOUS
<1> DEFINE n == Cardinality(rows)
           T == 0 .. n - 1
           f == [rowid \in rows |-> Rank(rows, rowid)]
<1>1. n \in Nat /\ n > 0
  BY FS_CardinalityType
<1>2. IsFiniteSet(T) /\ Cardinality(T) = n
  BY <1>1, FS_Interval
<1>3. IsFiniteSet(T \ {k}) /\ Cardinality(T \ {k}) = n - 1
  BY <1>2, FS_RemoveElement
<1>4. f \in [rows -> T \ {k}]
  BY RankType
<1>5. PICK x \in rows, y \in rows : x # y /\ f[x] = f[y]
  <2>1. Cardinality(T \ {k}) < Cardinality(rows)
    BY <1>1, <1>3
  <2> HIDE DEF f, T, n
  <2> QED
    BY <1>3, <1>4, <2>1, FS_PigeonHole
<1>6. Rank(rows, x) = Rank(rows, y)
  BY <1>5
<1>7. x < y \/ y < x
  BY <1>5
<1>8. Rank(rows, x) \in Nat /\ Rank(rows, y) \in Nat
  BY RankType
<1> QED
  BY <1>6, <1>7, <1>8, RankOrder

\* The query gives every row once, newest first.
LEMMA NewestFirstSorts ==
    ASSUME NEW rows, \A r \in rows : r \in Nat, IsFiniteSet(rows)
    PROVE  /\ List!NewestFirst(rows) \in Seq(rows)
           /\ \A i, j \in 1 .. Len(List!NewestFirst(rows)) :
                  i < j => List!NewestFirst(rows)[i] > List!NewestFirst(rows)[j]
           /\ \A rowid \in rows : \E i \in 1 .. Len(List!NewestFirst(rows)) :
                  List!NewestFirst(rows)[i] = rowid
<1> DEFINE n == Cardinality(rows)
           F == [i \in 1 .. n |-> CHOOSE rowid \in rows : Rank(rows, rowid) = i - 1]
<1>0. n \in Nat
  BY FS_CardinalityType
<1>1. List!NewestFirst(rows) = F
  BY SameListCardinality DEF List!NewestFirst, Rank
<1>2. \A i \in 1 .. n : F[i] \in rows /\ Rank(rows, F[i]) = i - 1
  <2> SUFFICES ASSUME NEW i \in 1 .. n PROVE F[i] \in rows /\ Rank(rows, F[i]) = i - 1
    OBVIOUS
  <2>1. i - 1 \in 0 .. Cardinality(rows) - 1
    BY <1>0
  <2>2. \E rowid \in rows : Rank(rows, rowid) = i - 1
    BY <2>1, RankOnto
  <2> QED
    BY <2>2
<1>3. F \in Seq(rows) /\ Len(F) = n
  <2>1. F \in [1 .. n -> rows]
    BY <1>2
  <2> HIDE DEF F, n
  <2> QED
    BY <1>0, <2>1
<1>4. \A i, j \in 1 .. n : i < j => F[i] > F[j]
  <2> SUFFICES ASSUME NEW i \in 1 .. n, NEW j \in 1 .. n, i < j PROVE F[i] > F[j]
    OBVIOUS
  <2>1. F[i] \in rows /\ F[j] \in rows /\ Rank(rows, F[i]) = i - 1 /\ Rank(rows, F[j]) = j - 1
    BY <1>2
  <2> HIDE DEF F
  <2>2. F[i] # F[j]
    BY <1>0, <2>1
  <2>3. CASE F[j] > F[i]
    <3>1. Rank(rows, F[j]) < Rank(rows, F[i])
      BY <2>1, <2>3, RankOrder
    <3> QED
      BY <1>0, <2>1, <3>1
  <2> QED
    BY <2>1, <2>2, <2>3
<1>5. ASSUME NEW rowid \in rows PROVE \E i \in 1 .. n : F[i] = rowid
  <2>1. Rank(rows, rowid) \in 0 .. n - 1
    BY RankType
  <2> DEFINE i == Rank(rows, rowid) + 1
  <2>2. i \in 1 .. n /\ i - 1 = Rank(rows, rowid)
    BY <1>0, <2>1
  <2>3. F[i] \in rows /\ Rank(rows, F[i]) = Rank(rows, rowid)
    BY <1>2, <2>2
  <2> HIDE DEF F, i
  <2>4. Rank(rows, rowid) \in Nat
    BY <2>1
  <2>5. ~ (F[i] > rowid) /\ ~ (rowid > F[i])
    BY <2>3, <2>4, RankOrder
  <2> QED
    BY <2>2, <2>3, <2>5
<1> HIDE DEF F
<1> QED
  BY <1>1, <1>3, <1>4, <1>5

WalkTypes ==
    /\ listMatching \in Seq(BOOLEAN)
    /\ listWalk \in {"IDLE", "WALKING", "DONE"}
    /\ listCursor \in Nat
    /\ listListed \in Seq(Nat)
    /\ listStable \subseteq List!Matching

Given(rowid) == \E i \in 1 .. Len(listListed) : listListed[i] = rowid

Decreasing == \A i, j \in 1 .. Len(listListed) : i < j => listListed[i] > listListed[j]

\* What was listed is at the cursor or above it, and of the rows there none that met
\* the filter all along is missing.
CursorSplits ==
    /\ listCursor = 0 => listListed = << >>
    /\ listCursor # 0 => \A i \in 1 .. Len(listListed) : listListed[i] >= listCursor
    /\ listCursor # 0 => \A rowid \in listStable : rowid >= listCursor => Given(rowid)

WalkInv ==
    /\ WalkTypes /\ Decreasing
    /\ listWalk = "IDLE" => listListed = << >> /\ listCursor = 0
    /\ listWalk = "WALKING" => CursorSplits
    /\ listWalk = "DONE" => \A rowid \in listStable : Given(rowid)

LEMMA WalkInit == List!Init => WalkInv
BY DEF List!Init, List!NoCursor, List!Matching, WalkInv, WalkTypes, Decreasing, CursorSplits, Given

\* The rows of a page and of those to come.
PageRows == {rowid \in List!Matching : List!Below(rowid)}

LEMMA RowsSorted ==
    ASSUME WalkInv
    PROVE  /\ (\A r \in PageRows : r \in Nat \ {0})
           /\ List!Rows \in Seq(PageRows) /\ Len(List!Rows) \in Nat
           /\ \A i, j \in 1 .. Len(List!Rows) : i < j => List!Rows[i] > List!Rows[j]
           /\ \A rowid \in PageRows : \E i \in 1 .. Len(List!Rows) : List!Rows[i] = rowid
<1>1. PageRows \subseteq 1 .. Len(listMatching) /\ Len(listMatching) \in Nat
  BY DEF WalkInv, WalkTypes, PageRows, List!Matching
<1>2. IsFiniteSet(1 .. Len(listMatching))
  BY <1>1, FS_Interval
<1>3. IsFiniteSet(PageRows)
  BY <1>1, <1>2, FS_Subset
<1>5. \A r \in PageRows : r \in Nat \ {0}
  BY <1>1
<1>4. List!Rows = List!NewestFirst(PageRows)
  BY DEF List!Rows, PageRows
<1> HIDE DEF PageRows
<1>6. \A r \in PageRows : r \in Nat
  BY <1>5
<1>7. /\ List!Rows \in Seq(PageRows)
      /\ \A i, j \in 1 .. Len(List!Rows) : i < j => List!Rows[i] > List!Rows[j]
      /\ \A rowid \in PageRows : \E i \in 1 .. Len(List!Rows) : List!Rows[i] = rowid
  BY <1>3, <1>4, <1>6, NewestFirstSorts
<1>8. Len(List!Rows) \in Nat
  BY <1>7, LenProperties
<1> QED
  BY <1>5, <1>7, <1>8

\* A list goes on from what was listed with the first n of the rows.
GoesOn(list, n) ==
    /\ list \in Seq(Nat)
    /\ \A i, j \in 1 .. Len(list) : i < j => list[i] > list[j]
    /\ \A rowid : Given(rowid) => \E i \in 1 .. Len(list) : list[i] = rowid
    /\ \A k \in 1 .. n : \E i \in 1 .. Len(list) : list[i] = List!Rows[k]
    /\ \A i \in 1 .. Len(list) :
          \/ \E j \in 1 .. Len(listListed) : list[i] = listListed[j]
          \/ \E k \in 1 .. n : list[i] = List!Rows[k]

LEMMA PageOf ==
    ASSUME WalkInv, listWalk = "WALKING", NEW n \in 0 .. Len(List!Rows),
           NEW list, list = listListed \o SubSeq(List!Rows, 1, n)
    PROVE  GoesOn(list, n)
<1> DEFINE R == List!Rows
           L == listListed
           m == Len(L)
<1>1. /\ R \in Seq(PageRows) /\ Len(R) \in Nat /\ (\A r \in PageRows : r \in Nat \ {0})
      /\ \A i, j \in 1 .. Len(R) : i < j => R[i] > R[j]
  BY RowsSorted
<1>2. L \in Seq(Nat) /\ m \in Nat /\ n \in Nat
  BY <1>1 DEF WalkInv, WalkTypes
<1>r. \A k \in 1 .. Len(R) : R[k] \in PageRows /\ R[k] \in Nat
  BY <1>1
<1>h. L = listListed /\ list = L \o SubSeq(R, 1, n) /\ n \in 0 .. Len(R) /\ R = List!Rows
  OBVIOUS
<1>3. R \in Seq(Nat)
  BY <1>1
<1> HIDE DEF R, L
<1>4. /\ list \in Seq(Nat) /\ Len(list) = m + n
      /\ \A i \in 1 .. m : list[i] = L[i]
      /\ \A k \in 1 .. n : list[m + k] = R[k]
  BY <1>1, <1>2, <1>3, <1>h
<1> HIDE DEF m
<1>5. \A i \in 1 .. m + n : i \in 1 .. m \/ \E k \in 1 .. n : i = m + k
  <2> TAKE i \in 1 .. m + n
  <2>1. i \in 1 .. m \/ (i - m \in 1 .. n /\ i = m + (i - m))
    BY <1>2
  <2> QED
    BY <2>1
<1>6. \A i \in 1 .. m, k \in 1 .. n : L[i] > R[k]
  <2> SUFFICES ASSUME NEW i \in 1 .. m, NEW k \in 1 .. n PROVE L[i] > R[k]
    OBVIOUS
  <2>1. R[k] \in PageRows /\ R[k] \in Nat /\ L[i] \in Nat
    BY <1>r, <1>2, <1>1, <1>h DEF m
  <2>2. L # << >>
    BY <1>2 DEF m
  <2>3. listCursor # 0 /\ L[i] >= listCursor /\ listCursor \in Nat
    BY <2>2, <1>h DEF WalkInv, WalkTypes, CursorSplits, m
  <2>4. R[k] < listCursor
    BY <2>1, <2>3 DEF PageRows, List!Below, List!NoCursor
  <2> QED
    BY <2>1, <2>3, <2>4
<1>7. \A i, j \in 1 .. m : i < j => L[i] > L[j]
  BY <1>h DEF WalkInv, Decreasing, m
<1>8. \A i, j \in 1 .. Len(list) : i < j => list[i] > list[j]
  <2> SUFFICES ASSUME NEW i \in 1 .. m + n, NEW j \in 1 .. m + n, i < j PROVE list[i] > list[j]
    BY <1>4
  <2>1. CASE j \in 1 .. m
    BY <2>1, <1>2, <1>4, <1>7
  <2>2. CASE i \in 1 .. m /\ j \notin 1 .. m
    BY <2>2, <1>4, <1>5, <1>6
  <2>3. CASE i \notin 1 .. m /\ j \notin 1 .. m
    <3>1. PICK a \in 1 .. n, b \in 1 .. n : i = m + a /\ j = m + b
      BY <2>3, <1>5
    <3>2. a < b /\ a \in 1 .. Len(R) /\ b \in 1 .. Len(R)
      BY <3>1, <1>1, <1>2, <1>h
    <3> QED
      BY <3>1, <3>2, <1>1, <1>4
  <2> QED
    BY <2>1, <2>2, <2>3, <1>2
<1>9. 1 .. m \subseteq 1 .. Len(list) /\ \A k \in 1 .. n : m + k \in 1 .. Len(list)
  BY <1>2, <1>4
<1>10. \A rowid : Given(rowid) => \E i \in 1 .. Len(list) : list[i] = rowid
  BY <1>9, <1>4, <1>h DEF Given, m
<1>11. \A k \in 1 .. n : \E i \in 1 .. Len(list) : list[i] = R[k]
  BY <1>9, <1>4
<1>12. \A i \in 1 .. Len(list) : \/ \E j \in 1 .. m : list[i] = L[j]
                                 \/ \E k \in 1 .. n : list[i] = R[k]
  <2> SUFFICES ASSUME NEW i \in 1 .. m + n
               PROVE  \/ \E j \in 1 .. m : list[i] = L[j]
                      \/ \E k \in 1 .. n : list[i] = R[k]
    BY <1>4
  <2> QED
    BY <1>4, <1>5
<1> QED
  BY <1>4, <1>8, <1>10, <1>11, <1>12, <1>h DEF m, GoesOn

\* A row that met the filter all along is listed, or among the rows to come.
LEMMA StableAhead ==
    ASSUME WalkInv, listWalk = "WALKING", NEW rowid \in listStable
    PROVE  Given(rowid) \/ \E k \in 1 .. Len(List!Rows) : List!Rows[k] = rowid
<1>1. rowid \in List!Matching /\ rowid \in Nat
  BY DEF WalkInv, WalkTypes, List!Matching
<1>2. Given(rowid) \/ List!Below(rowid)
  BY <1>1 DEF WalkInv, WalkTypes, CursorSplits, List!Below, List!NoCursor
<1> QED
  BY <1>1, <1>2, RowsSorted DEF PageRows

LEMMA PageStep == WalkInv /\ List!Page => WalkInv'
<1> SUFFICES ASSUME WalkInv, List!Page PROVE WalkInv'
  OBVIOUS
<1>p. PICK R, n : R = List!Rows /\ n = IF List!HasMore THEN Limit ELSE Len(R)
  OBVIOUS
<1>0. Limit \in Nat \ {0}
  BY ListBounds DEF List!PageBounds
<1>1. listWalk = "WALKING" /\ listListed' = listListed \o SubSeq(R, 1, n)
      /\ listMatching' = listMatching /\ listStable' = listStable
  BY <1>p DEF List!Page
<1>2. /\ R \in Seq(PageRows) /\ Len(R) \in Nat /\ (\A r \in PageRows : r \in Nat \ {0})
      /\ \A i, j \in 1 .. Len(R) : i < j => R[i] > R[j]
  BY <1>p, RowsSorted
<1>3. n \in 0 .. Len(R)
  BY <1>p, <1>0, <1>2 DEF List!HasMore
<1>4. /\ listListed' \in Seq(Nat)
      /\ Decreasing'
      /\ \A rowid : Given(rowid) => Given(rowid)'
      /\ \A k \in 1 .. n : Given(R[k])'
      /\ \A i \in 1 .. Len(listListed') :
              \/ \E j \in 1 .. Len(listListed) : listListed'[i] = listListed[j]
              \/ \E k \in 1 .. n : listListed'[i] = R[k]
  <2>1. PICK list : list = listListed'
    OBVIOUS
  <2>a. n \in 0 .. Len(List!Rows) /\ list = listListed \o SubSeq(List!Rows, 1, n)
    BY <1>p, <1>1, <1>3, <2>1
  <2>b. GoesOn(list, n)
    BY <1>1, <2>a, PageOf
  <2>2. /\ list \in Seq(Nat)
        /\ \A i, j \in 1 .. Len(list) : i < j => list[i] > list[j]
        /\ \A rowid : Given(rowid) => \E i \in 1 .. Len(list) : list[i] = rowid
        /\ \A k \in 1 .. n : \E i \in 1 .. Len(list) : list[i] = R[k]
        /\ \A i \in 1 .. Len(list) :
              \/ \E j \in 1 .. Len(listListed) : list[i] = listListed[j]
              \/ \E k \in 1 .. n : list[i] = R[k]
    BY <1>p, <2>b DEF GoesOn
  <2>3. \A x : Given(x)' <=> \E i \in 1 .. Len(list) : list[i] = x
    BY <2>1 DEF Given
  <2>4. Decreasing'
    BY <2>1, <2>2 DEF Decreasing
  <2> QED
    BY <2>1, <2>2, <2>3, <2>4
<1>5. listStable' \subseteq List!Matching'
  BY <1>1 DEF WalkInv, WalkTypes, List!Matching
<1>6. CASE List!HasMore
  <2>1. listCursor' = R[Limit] /\ listWalk' = "WALKING" /\ n = Limit /\ Limit \in 1 .. Len(R)
    BY <1>p, <1>0, <1>1, <1>2, <1>6 DEF List!Page, List!HasMore
  <2>2. R[Limit] \in PageRows /\ R[Limit] \in Nat \ {0}
    BY <1>2, <2>1
  <2>3. \A k \in 1 .. Limit : R[k] >= R[Limit] /\ R[k] \in PageRows
    <3> SUFFICES ASSUME NEW k \in 1 .. Limit PROVE R[k] >= R[Limit] /\ R[k] \in PageRows
      OBVIOUS
    <3>1. k \in 1 .. Len(R) /\ (k = Limit \/ k < Limit)
      BY <1>0, <1>2, <2>1
    <3> QED
      BY <1>2, <2>1, <2>2, <3>1
  <2>4. \A i \in 1 .. Len(listListed') : listListed'[i] >= R[Limit]
    <3> SUFFICES ASSUME NEW i \in 1 .. Len(listListed') PROVE listListed'[i] >= R[Limit]
      OBVIOUS
    <3>1. CASE \E k \in 1 .. n : listListed'[i] = R[k]
      BY <2>1, <2>3, <3>1
    <3>2. CASE \E j \in 1 .. Len(listListed) : listListed'[i] = listListed[j]
      <4>1. PICK j \in 1 .. Len(listListed) : listListed'[i] = listListed[j]
        BY <3>2
      <4>2. listListed # << >> /\ listListed[j] \in Nat /\ listCursor \in Nat
        BY <4>1 DEF WalkInv, WalkTypes
      <4>3. listCursor # 0 /\ listListed[j] >= listCursor
        BY <1>1, <4>1, <4>2 DEF WalkInv, CursorSplits
      <4>4. R[Limit] < listCursor
        BY <2>2, <4>3 DEF PageRows, List!Below, List!NoCursor
      <4> QED
        BY <2>2, <4>1, <4>2, <4>3, <4>4
    <3> QED
      BY <1>4, <3>1, <3>2
  <2>5. ASSUME NEW rowid \in listStable, rowid >= R[Limit] PROVE Given(rowid)'
    <3>1. CASE Given(rowid)
      BY <1>4, <3>1
    <3>2. CASE \E k \in 1 .. Len(R) : R[k] = rowid
      <4>1. PICK k \in 1 .. Len(R) : R[k] = rowid
        BY <3>2
      <4>2. k <= Limit
        BY <1>0, <1>2, <2>1, <2>2, <2>5, <4>1
      <4>3. k \in 1 .. n
        BY <1>0, <1>2, <2>1, <4>1, <4>2
      <4> QED
        BY <1>4, <4>1, <4>3
    <3> QED
      BY <1>1, <3>1, <3>2, StableAhead, <1>p
  <2> QED
    BY <1>1, <1>4, <1>5, <2>1, <2>2, <2>4, <2>5 DEF WalkInv, WalkTypes, CursorSplits
<1>7. CASE ~List!HasMore
  <2>1. listCursor' = 0 /\ listWalk' = "DONE" /\ n = Len(R)
    BY <1>p, <1>7 DEF List!Page, List!NoCursor
  <2>2. \A rowid \in listStable : Given(rowid)'
    BY <1>1, <1>4, <2>1, StableAhead, <1>p
  <2> QED
    BY <1>1, <1>4, <1>5, <2>1, <2>2 DEF WalkInv, WalkTypes
<1> QED
  BY <1>6, <1>7

LEMMA WalkStep == WalkInv /\ [List!Next]_(List!vars) => WalkInv'
<1> SUFFICES ASSUME WalkInv, [List!Next]_(List!vars) PROVE WalkInv'
  OBVIOUS
<1>1. CASE UNCHANGED List!vars
  BY <1>1 DEF List!vars, WalkInv, WalkTypes, Decreasing, CursorSplits, Given, List!Matching
<1>2. ASSUME NEW meets \in BOOLEAN, List!Create(meets) PROVE WalkInv'
  <2>1. listMatching' = Append(listMatching, meets) /\ listStable' = listStable
        /\ listWalk' = listWalk /\ listCursor' = listCursor /\ listListed' = listListed
    BY <1>2 DEF List!Create
  <2>2. listMatching \in Seq(BOOLEAN)
    BY DEF WalkInv, WalkTypes
  <2>3. List!Matching \subseteq List!Matching'
    BY <2>1, <2>2 DEF List!Matching
  <2>4. WalkTypes'
    BY <2>1, <2>2, <2>3 DEF WalkInv, WalkTypes
  <2> QED
    BY <2>1, <2>4 DEF WalkInv, Decreasing, CursorSplits, Given
<1>3. ASSUME NEW rowid \in DOMAIN listMatching, List!Flip(rowid) PROVE WalkInv'
  <2>1. listMatching' = [listMatching EXCEPT ![rowid] = ~@] /\ listStable' = listStable \ {rowid}
        /\ listWalk' = listWalk /\ listCursor' = listCursor /\ listListed' = listListed
    BY <1>3 DEF List!Flip
  <2>2. listMatching \in Seq(BOOLEAN)
    BY DEF WalkInv, WalkTypes
  <2>3. List!Matching \ {rowid} \subseteq List!Matching'
    BY <2>1, <2>2 DEF List!Matching
  <2>4. listMatching' \in Seq(BOOLEAN)
    BY <1>3, <2>1, <2>2
  <2>5. WalkTypes'
    BY <2>1, <2>3, <2>4 DEF WalkInv, WalkTypes
  <2> QED
    BY <2>1, <2>5 DEF WalkInv, Decreasing, CursorSplits, Given
<1>4. CASE List!Begin
  <2>1. listMatching' = listMatching /\ listStable' = List!Matching /\ listWalk = "IDLE"
        /\ listWalk' = "WALKING" /\ listCursor' = listCursor /\ listListed' = listListed
    BY <1>4 DEF List!Begin
  <2> QED
    BY <2>1 DEF WalkInv, WalkTypes, Decreasing, CursorSplits, Given, List!Matching
<1> QED
  BY <1>1, <1>2, <1>3, <1>4, PageStep DEF List!Next

LEMMA ListIsTrue == List!Spec => [](List!ListedOnceNewestFirst /\ List!StableAreListed)
<1>1. WalkInv => List!ListedOnceNewestFirst /\ List!StableAreListed
  <2> SUFFICES ASSUME WalkInv PROVE List!ListedOnceNewestFirst /\ List!StableAreListed
    OBVIOUS
  <2>1. listListed \in Seq(Nat) /\ DOMAIN listListed = 1 .. Len(listListed)
    BY DEF WalkInv, WalkTypes
  <2>2. \A rowid : Given(rowid) => rowid \in List!ToSet(listListed)
    BY <2>1 DEF Given, List!ToSet
  <2> QED
    BY <2>1, <2>2 DEF WalkInv, Decreasing, List!ListedOnceNewestFirst, List!StableAreListed
<1> QED
  BY <1>1, WalkInit, WalkStep, PTL DEF List!Spec

-----------------------------------------------------------------------------
(***************************************************************************)
(* The pages of a text (ResultPages)                                       *)
(***************************************************************************)

\* A finite set of numbers that is not empty has a greatest one: the one of rank 0.
LEMMA Greatest ==
    ASSUME NEW S, \A x \in S : x \in Nat, IsFiniteSet(S), S # {}
    PROVE  \E x \in S : \A y \in S : y <= x
<1>1. Cardinality(S) \in Nat /\ Cardinality(S) # 0
  BY FS_CardinalityType, FS_EmptySet
<1>2. 0 \in 0 .. Cardinality(S) - 1
  BY <1>1
<1>3. PICK x \in S : Rank(S, x) = 0
  BY <1>2, RankOnto
<1>4. IsFiniteSet({y \in S : y > x})
  BY FS_Subset
<1>5. Cardinality({y \in S : y > x}) = 0
  BY <1>3, SameListCardinality DEF Rank
<1>6. {y \in S : y > x} = {}
  BY <1>4, <1>5, FS_EmptySet
<1> QED
  BY <1>6

\* The end of a page lies between its offset and the end of the text, on a boundary if
\* the offset does.
LEMMA EndOfPage ==
    ASSUME NEW t, Len(t) \in Nat, NEW offset \in 0 .. Len(t), NEW most \in Nat
    PROVE  /\ Text!End(t, offset, most) \in offset .. Len(t)
           /\ \/ Text!End(t, offset, most) = offset
              \/ Text!IsBoundary(t, Text!End(t, offset, most))
<1> DEFINE fits(end) == end = offset \/ (end <= offset + most /\ Text!IsBoundary(t, end))
           S == {end \in offset .. Len(t) : fits(end)}
<1>1. IsFiniteSet(S)
  <2>1. IsFiniteSet(offset .. Len(t))
    BY FS_Interval
  <2> QED
    BY <2>1, FS_Subset
<1>2. offset \in S /\ \A x \in S : x \in Nat
  OBVIOUS
<1>3. PICK end \in S : \A other \in S : other <= end
  <2> HIDE DEF S
  <2> QED
    BY <1>1, <1>2, Greatest
<1>4. \A other \in end + 1 .. Len(t) : other > offset + most \/ ~Text!IsBoundary(t, other)
  <2> SUFFICES ASSUME NEW other \in end + 1 .. Len(t), other <= offset + most,
                      Text!IsBoundary(t, other)
               PROVE  FALSE
    BY <1>3
  <2>1. other \in S /\ other > end
    BY <1>3
  <2> QED
    BY <1>3, <2>1
<1>5. \E e \in offset .. Len(t) :
         /\ e = offset \/ (e <= offset + most /\ Text!IsBoundary(t, e))
         /\ \A other \in e + 1 .. Len(t) : other > offset + most \/ ~Text!IsBoundary(t, other)
  BY <1>3, <1>4
<1> QED
  BY <1>5 DEF Text!End

TextTypes ==
    /\ textText \in Text!Texts
    /\ textNext \in Nat \cup {None}
    /\ textSha \in Text!Texts \cup {None}
    /\ textLimit \in Limits

\* What the client has put together of a text t, of which it asks for more at next.
HasPrefix(t, next, got) ==
    /\ Len(got) \in 0 .. Len(t) /\ got = SubSeq(t, 1, Len(got))
    /\ Text!IsBoundary(t, Len(got))
    /\ next = None => got = t
    /\ next # None => next = Len(got)

TextInv ==
    /\ TextTypes
    /\ textSha = None => textGot = << >> /\ textNext = 0
    /\ textSha # None => HasPrefix(textSha, textNext, textGot)

LEMMA TextIsSeq == \A t \in Text!Texts : t \in Seq(Letters \cup {Rest}) /\ Len(t) \in Nat
<1> SUFFICES ASSUME NEW t \in Text!Texts PROVE t \in Seq(Letters \cup {Rest}) /\ Len(t) \in Nat
  OBVIOUS
<1>1. MaxBytes \in Nat
  BY TextBounds DEF Text!TextBounds
<1>2. PICK m \in 0 .. MaxBytes : t \in [1 .. m -> Letters \cup {Rest}]
  BY DEF Text!Texts, Text!BoundedSeq, Text!SeqOf
<1>3. t \in Seq(Letters \cup {Rest})
  BY <1>1, <1>2
<1> QED
  BY <1>3, LenProperties

LEMMA TextInit == Text!Init => TextInv
BY DEF Text!Init, TextInv, TextTypes

\* The bytes up to a boundary follow what the client has of the same text.
LEMMA TakeStep ==
    ASSUME TextInv, NEW end, NEW offset,
           offset \in 0 .. Len(textText), end \in offset .. Len(textText),
           Text!IsBoundary(textText, end),
           textNext = offset, textNext # None,
           Text!Take(offset, end), UNCHANGED <<textText, textLimit>>
    PROVE  TextInv'
<1>0. None \notin Nat /\ None \notin Text!Texts
  BY TextBounds DEF Text!TextBounds
<1>1. CASE textSha \in {None, textText}
  <2>1. /\ textGot' = textGot \o SubSeq(textText, offset + 1, end)
        /\ textNext' = (IF end < Len(textText) THEN end ELSE None)
        /\ textSha' = textText /\ textText' = textText /\ textLimit' = textLimit
    BY <1>1 DEF Text!Take
  <2>2. PICK t, got : t = textText /\ got = textGot'
    OBVIOUS
  <2>3. t \in Text!Texts /\ t \in Seq(Letters \cup {Rest}) /\ Len(t) \in Nat
    BY <2>2, TextIsSeq DEF TextInv, TextTypes
  <2>4. textGot = SubSeq(t, 1, offset)
    <3>1. CASE textSha = None
      <4>1. textGot = << >> /\ offset = 0
        BY <3>1 DEF TextInv
      <4>2. SubSeq(t, 1, 0) = << >>
        BY SubSeqEmpty
      <4> QED
        BY <4>1, <4>2
    <3>2. CASE textSha = textText /\ textSha # None
      BY <2>2, <3>2 DEF TextInv, HasPrefix
    <3> QED
      BY <1>1, <3>1, <3>2
  <2>5. got = SubSeq(t, 1, end)
    <3>1. 1 \in 1 .. Len(t) + 1 /\ offset \in 1 - 1 .. Len(t) /\ end \in offset .. Len(t)
      BY <2>2, <2>3
    <3>2. SubSeq(t, 1, offset) \o SubSeq(t, offset + 1, end) = SubSeq(t, 1, end)
      BY <2>3, <3>1, ConcatAdjacentSubSeq
    <3> QED
      BY <2>1, <2>2, <2>4, <3>2
  <2>6. Len(got) = end /\ end \in 0 .. Len(t)
    <3>1. end \in 0 .. Len(t) /\ end \in Nat
      BY <2>2, <2>3
    <3>2. \A i \in 1 .. end : t[i] \in Letters \cup {Rest}
      BY <2>3, <3>1
    <3>3. Len(SubSeq(t, 1, end)) = end
      BY <2>3, <3>1
    <3> QED
      BY <2>5, <3>1, <3>3
  <2>7. end = Len(t) => got = t
    BY <2>3, <2>5, SubSeqFull
  <2>8. HasPrefix(t, IF end < Len(t) THEN end ELSE None, got)
    BY <1>0, <2>2, <2>3, <2>5, <2>6, <2>7 DEF HasPrefix
  <2>9. HasPrefix(textSha, textNext, textGot)'
    BY <2>1, <2>2, <2>8 DEF HasPrefix
  <2>10. TextTypes'
    BY <2>1, <2>2, <2>3, <2>6 DEF TextInv, TextTypes
  <2>11. textSha' # None
    BY <1>0, <2>1, <2>2, <2>3
  <2> QED
    BY <2>9, <2>10, <2>11 DEF TextInv
<1>2. CASE textSha \notin {None, textText}
  BY <1>2 DEF Text!Take, TextInv, TextTypes, HasPrefix
<1> QED
  BY <1>1, <1>2

LEMMA TextStep == TextInv /\ [Text!Next]_(Text!vars) => TextInv'
<1> SUFFICES ASSUME TextInv, [Text!Next]_(Text!vars) PROVE TextInv'
  OBVIOUS
<1>0. /\ None \notin Nat /\ Chunk \in Nat
      /\ Len(textText) \in Nat /\ textLimit \in Nat
  <2>1. textText \in Text!Texts /\ textLimit \in Limits
    BY DEF TextInv, TextTypes
  <2> QED
    BY <2>1, TextIsSeq, TextBounds DEF Text!TextBounds
<1>1. CASE UNCHANGED Text!vars
  BY <1>1 DEF Text!vars, TextInv, TextTypes, HasPrefix
<1>2. ASSUME NEW new \in Text!Texts, Text!Rewrite(new) PROVE TextInv'
  BY <1>2 DEF Text!Rewrite, TextInv, TextTypes, HasPrefix
<1>3. CASE Text!Wait
  <2>1. PICK end : end = IF Len(textText) > Frame THEN Text!End(textText, 0, Chunk) ELSE Len(textText)
    OBVIOUS
  <2>2. textNext = 0 /\ textSha = None /\ Text!Take(0, end)
        /\ UNCHANGED <<textText, textLimit>>
    BY <1>3, <2>1 DEF Text!Wait
  <2>3. Text!IsBoundary(textText, 0) /\ Text!IsBoundary(textText, Len(textText))
    BY DEF Text!IsBoundary
  <2>4. end \in 0 .. Len(textText) /\ Text!IsBoundary(textText, end)
    <3>1. 0 \in 0 .. Len(textText)
      BY <1>0
    <3>2. /\ Text!End(textText, 0, Chunk) \in 0 .. Len(textText)
          /\ Text!IsBoundary(textText, Text!End(textText, 0, Chunk))
      BY <1>0, <2>3, <3>1, EndOfPage
    <3> QED
      BY <1>0, <2>1, <2>3, <3>2
  <2>5. 0 \in 0 .. Len(textText) /\ textNext # None
    BY <1>0, <2>2
  <2> QED
    BY <2>2, <2>4, <2>5, TakeStep
<1>4. CASE Text!Result
  <2>1. CASE Text!Invalid(textText, textNext, textLimit)
    BY <1>4, <2>1 DEF Text!Result, TextInv, TextTypes, HasPrefix
  <2>2. CASE ~Text!Invalid(textText, textNext, textLimit)
    <3>1. PICK offset, end : offset = textNext /\ end = Text!End(textText, offset, textLimit)
      OBVIOUS
    <3>2. textNext # None /\ Text!Take(offset, end) /\ UNCHANGED <<textText, textLimit>>
      BY <1>4, <2>2, <3>1 DEF Text!Result
    <3>3. offset \in 0 .. Len(textText) /\ Text!IsBoundary(textText, offset)
      BY <1>0, <2>2, <3>1, <3>2 DEF Text!Invalid, TextInv, TextTypes
    <3>4. end \in offset .. Len(textText) /\ Text!IsBoundary(textText, end)
      BY <1>0, <3>1, <3>3, EndOfPage
    <3> QED
      BY <3>1, <3>2, <3>3, <3>4, TakeStep
  <2> QED
    BY <2>1, <2>2
<1> QED
  BY <1>1, <1>2, <1>3, <1>4 DEF Text!Next, Text!Read

LEMMA TextIsTrue == Text!Spec => [](Text!PagesAreWhole /\ Text!CompleteMeansAll)
<1>1. TextInv => Text!PagesAreWhole /\ Text!CompleteMeansAll
  <2> SUFFICES ASSUME TextInv PROVE Text!PagesAreWhole /\ Text!CompleteMeansAll
    OBVIOUS
  <2>1. None \notin Nat
    BY TextBounds DEF Text!TextBounds
  <2>2. Text!CompleteMeansAll
    BY <2>1 DEF TextInv, HasPrefix, Text!CompleteMeansAll
  <2>3. ASSUME textSha # None PROVE Text!IsPrefix(textGot, textSha)
    <3>1. HasPrefix(textSha, textNext, textGot) /\ textSha \in Text!Texts
      BY <2>3 DEF TextInv, TextTypes
    <3>2. PICK t, n : t = textSha /\ n = Len(textGot)
      OBVIOUS
    <3>3. t \in Seq(Letters \cup {Rest}) /\ Len(t) \in Nat /\ n \in 0 .. Len(t)
      BY <3>1, <3>2, TextIsSeq DEF HasPrefix
    <3>4. \A i \in 1 .. n : t[i] \in Letters \cup {Rest}
      BY <3>3
    <3>5. SubSeq(t, 1, n) \in Seq(Letters \cup {Rest})
      BY <3>3
    <3>6. textGot = SubSeq(t, 1, n)
      BY <3>1, <3>2 DEF HasPrefix
    <3>7. SubSeq(textGot, 1, Len(textGot)) = textGot
      BY <3>5, <3>6, SubSeqFull
    <3> QED
      BY <3>2, <3>3, <3>6, <3>7 DEF Text!IsPrefix
  <2>4. Text!PagesAreWhole
    BY <2>3 DEF TextInv, HasPrefix, Text!PagesAreWhole
  <2> QED
    BY <2>2, <2>4
<1> QED
  BY <1>1, TextInit, TextStep, PTL DEF Text!Spec

\* What a client puts together from several reads was so, for any number of callers,
\* tasks, pages, resumes and texts: a terminal answer carries the result of its run
\* unless its outcome changed meanwhile or resumes overlapped, a walk lists every task
\* once and misses none that matched all along, and the pages of a text are a prefix of
\* one text, whole when the client is told so (RpcService::task_wait, list_task_page, result_page_bounds).
THEOREM ReadsStayTrue == Wait!Spec /\ List!Spec /\ Text!Spec => []ReadsAreTrue
BY WaitIsTrue, ListIsTrue, TextIsTrue, PTL DEF ReadsAreTrue
=============================================================================
