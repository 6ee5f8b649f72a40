----------------------------- MODULE Configure ------------------------------
(***************************************************************************)
(* The configure command (internal/cli/configure.go): a run copies the     *)
(* OAuth files into a new "materials-*" generation, validates the copies   *)
(* and then activates the generation by renaming a new .env over the one   *)
(* in use.  Other commands read that .env once, at their start             *)
(* (LoadEnvironment), and the files it names for as long as they run.      *)
(*                                                                         *)
(* The files a run copies belong to the operator and may change under it.  *)
(* A generation is known by the run that made it.                          *)
(***************************************************************************)
EXTENDS Integers

CONSTANTS
  Runs,       \* runs of configure
  Commands,   \* other commands, which use the active configuration
  NumFiles,   \* length of configurationFiles
  First,      \* the generation in use when the runs start
  None        \* no configuration

ASSUME NumFilesAssumption == NumFiles \in Nat \ {0}
ASSUME NamesAssumption == First \notin Runs /\ None \notin Runs \cup {First}

VARIABLES
  source,   \* state of each file the operator names
  disk,     \* the files of each generation; a missing directory has none
  active,   \* the generation the .env in use refers to
  pc,       \* where each run is
  next,     \* the file a run copies next
  drafts,   \* runs whose temporary .env exists
  using     \* the generation each command has loaded

vars == <<source, disk, active, pc, next, drafts, using>>

Generations == Runs \cup {First}
Files == 1 .. NumFiles
NoFiles == [f \in Files |-> "missing"]
GoodFiles == [f \in Files |-> "good"]
States == {"missing", "good", "bad"}

Init ==
  /\ source \in [Files -> States]
  /\ active \in {None, First}
  /\ disk = [g \in Generations |->
               IF g = First /\ active = First THEN GoodFiles ELSE NoFiles]
  /\ pc = [c \in Runs |-> "ask"]
  /\ next = [c \in Runs |-> 1]
  /\ drafts = {}
  /\ using = [r \in Commands |-> None]

Goto(c, place) == pc' = [pc EXCEPT ![c] = place]

-----------------------------------------------------------------------------
(* A run.                                                                  *)

\* The bug of an index that starts before the first file.
BeginAtZero(c) ==
  /\ pc[c] = "ask"
  /\ Goto(c, "copy")
  /\ next' = [next EXCEPT ![c] = 0]
  /\ UNCHANGED <<source, disk, active, drafts, using>>

\* The operator names a readable .env with the required credentials and the
\* four files, and MkdirTemp makes the directory of the new generation.
Begin(c) ==
  /\ pc[c] = "ask"
  /\ Goto(c, "copy")
  /\ UNCHANGED <<source, disk, active, next, drafts, using>>

Copy(c) ==
  /\ pc[c] = "copy"
  /\ next[c] <= NumFiles
  /\ source[next[c]] # "missing"
  /\ disk' = [disk EXCEPT ![c][next[c]] = source[next[c]]]
  /\ next' = [next EXCEPT ![c] = @ + 1]
  /\ UNCHANGED <<source, active, pc, drafts, using>>

\* The bug of validating the files the operator named.
FilesToValidateNamed(c) == source

\* The files that are validated are the copies, which nobody changes.
FilesToValidate(c) == disk[c]

\* OAuth, ValidateOAuthKeyFiles and readAnswers accept the new configuration,
\* and the temporary .env that names the copies is written.
Validate(c) ==
  /\ pc[c] = "copy"
  /\ next[c] > NumFiles
  /\ FilesToValidate(c) = GoodFiles
  /\ drafts' = drafts \cup {c}
  /\ Goto(c, "activate")
  /\ UNCHANGED <<source, disk, active, next, using>>

\* The bug of dropping the generation that is no longer active.
ActivateAndPrune(c) ==
  /\ pc[c] = "activate"
  /\ active' = c
  /\ disk' = [g \in Generations |->
                IF g = active /\ g # c THEN NoFiles ELSE disk[g]]
  /\ drafts' = drafts \ {c}
  /\ Goto(c, "done")
  /\ UNCHANGED <<source, next, using>>

\* Rename replaces the .env in one step; the earlier generation stays.
Activate(c) ==
  /\ pc[c] = "activate"
  /\ active' = c
  /\ drafts' = drafts \ {c}
  /\ Goto(c, "done")
  /\ UNCHANGED <<source, disk, next, using>>

\* The bug of a return that leaves the generation behind.
FailKeepingFiles(c) ==
  /\ pc[c] \in {"ask", "copy", "activate"}
  /\ drafts' = drafts \ {c}
  /\ Goto(c, "failed")
  /\ UNCHANGED <<source, disk, active, next, using>>

\* Input that ends or is invalid, a file that is missing or cannot be copied,
\* a copy that does not validate, a .env that cannot be written or renamed:
\* the deferred calls remove the directory and the temporary .env.
Fail(c) ==
  /\ pc[c] \in {"ask", "copy", "activate"}
  /\ disk' = [disk EXCEPT ![c] = NoFiles]
  /\ drafts' = drafts \ {c}
  /\ Goto(c, "failed")
  /\ UNCHANGED <<source, active, next, using>>

\* A run that is killed leaves everything as it is.
Crash(c) ==
  /\ pc[c] \in {"ask", "copy", "activate"}
  /\ Goto(c, "crashed")
  /\ UNCHANGED <<source, disk, active, next, drafts, using>>

-----------------------------------------------------------------------------
(* The rest of the system.                                                 *)

\* The operator, or generate-materials, changes a file a run may be copying.
EditSource(f) ==
  /\ source' \in {[source EXCEPT ![f] = s] : s \in States \ {source[f]}}
  /\ UNCHANGED <<disk, active, pc, next, drafts, using>>

\* A command loads the .env in use, and later is over.
Load(r) ==
  /\ using[r] = None
  /\ active # None
  /\ using' = [using EXCEPT ![r] = active]
  /\ UNCHANGED <<source, disk, active, pc, next, drafts>>

Leave(r) ==
  /\ using[r] # None
  /\ using' = [using EXCEPT ![r] = None]
  /\ UNCHANGED <<source, disk, active, pc, next, drafts>>

Next ==
  \/ \E c \in Runs :
       Begin(c) \/ Copy(c) \/ Validate(c) \/ Activate(c) \/ Fail(c) \/ Crash(c)
  \/ \E f \in Files : EditSource(f)
  \/ \E r \in Commands : Load(r) \/ Leave(r)

Spec == Init /\ [][Next]_vars

-----------------------------------------------------------------------------
(* Properties.                                                             *)

\* Type invariant.
TypeOK ==
  /\ source \in [Files -> States]
  /\ disk \in [Generations -> [Files -> States]]
  /\ active \in Generations \cup {None}
  /\ pc \in [Runs -> {"ask", "copy", "activate", "done", "failed", "crashed"}]
  /\ next \in [Runs -> 1 .. NumFiles + 1]
  /\ drafts \subseteq Runs
  /\ using \in [Commands -> Generations \cup {None}]

\* "Failed setup leaves the active configuration intact" (README.md:297): the
\* .env in use names a complete set of files that passed validation, through
\* failures and kills at any point, concurrent runs, and source files that
\* change while they are copied.
ActiveUsable == active # None => disk[active] = GoodFiles

\* "An already-running process can finish using" an earlier generation
\* (README.md:298): what a command loaded stays as it was.
LoadedStaysUsable ==
  \A r \in Commands : using[r] # None => disk[using[r]] = GoodFiles

\* A run that failed leaves no copies of private keys and no temporary .env.
FailureLeavesNothing ==
  \A c \in Runs : pc[c] = "failed" => disk[c] = NoFiles /\ c \notin drafts

=============================================================================
