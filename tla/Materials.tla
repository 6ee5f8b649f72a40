----------------------------- MODULE Materials ------------------------------
(***************************************************************************)
(* generate-materials (internal/materials/materials.go): several           *)
(* generators may work on one output directory.  Each looks at the output  *)
(* files, creates its keys in a staging directory of its own, and then     *)
(* publishes them one file at a time: by renaming over what is there with  *)
(* --force, by hard-linking, which fails if the name exists, without.      *)
(*                                                                         *)
(* A file's content is the generator that made it: what matters is which   *)
(* files belong together.                                                  *)
(***************************************************************************)
EXTENDS Integers

CONSTANTS
  Generators,   \* generators started on the directory
  NumFiles,     \* length of GeneratedFiles
  Absent,       \* no file of that name
  Earlier,      \* a regular file from before
  Odd           \* something that is not a regular file

ASSUME NumFilesAssumption == NumFiles \in Nat \ {0}
ASSUME ContentsAssumption ==
  /\ {Absent, Earlier, Odd} \cap Generators = {}
  /\ Absent # Earlier /\ Absent # Odd /\ Earlier # Odd

VARIABLES
  force,    \* which generators were started with --force
  dir,      \* content of each output file
  pc,       \* where each generator is
  next,     \* the file a generator looks at or publishes next
  staged    \* generators whose staging directory exists

vars == <<force, dir, pc, next, staged>>

Files == 1 .. NumFiles
Contents == Generators \cup {Absent, Earlier, Odd}

\* The directory starts as one that people left there: any files, or none.
Init ==
  /\ force \in [Generators -> BOOLEAN]
  /\ dir \in [Files -> {Absent, Earlier, Odd}]
  /\ pc = [g \in Generators |-> "look"]
  /\ next = [g \in Generators |-> 1]
  /\ staged = {}

Goto(g, place) == pc' = [pc EXCEPT ![g] = place]

\* The bug of a return that leaves the staging directory behind.
ReturnKeepingStaging(g, result) ==
  /\ Goto(g, result)
  /\ UNCHANGED <<force, next, staged>>

\* Every return after MkdirTemp removes the staging directory.
Return(g, result) ==
  /\ Goto(g, result)
  /\ staged' = staged \ {g}
  /\ UNCHANGED <<force, next>>

-----------------------------------------------------------------------------
\* Lstat of one file; the rest of the run relies on what was seen here.
MayProduce(g, content) ==
  content # Odd /\ (content = Absent \/ force[g])

Look(g) ==
  /\ pc[g] = "look"
  /\ next[g] <= NumFiles
  /\ IF MayProduce(g, dir[next[g]])
       THEN /\ next' = [next EXCEPT ![g] = @ + 1]
            /\ UNCHANGED <<pc, force, staged>>
       ELSE Return(g, "failed")
  /\ UNCHANGED dir

\* The bug of an index that starts before the first file.
StageFromZero(g) ==
  /\ pc[g] = "look"
  /\ next[g] > NumFiles
  /\ staged' = staged \cup {g}
  /\ next' = [next EXCEPT ![g] = 0]
  /\ Goto(g, "generate")
  /\ UNCHANGED <<force, dir>>

\* MkdirTemp succeeds.
Stage(g) ==
  /\ pc[g] = "look"
  /\ next[g] > NumFiles
  /\ staged' = staged \cup {g}
  /\ next' = [next EXCEPT ![g] = 1]
  /\ Goto(g, "generate")
  /\ UNCHANGED <<force, dir>>

\* The openssl steps; they touch nothing but the staging directory.
Generate(g) ==
  /\ pc[g] = "generate"
  /\ Goto(g, "publish")
  /\ UNCHANGED <<force, dir, next, staged>>

\* A directory that cannot be made, an openssl step, a chmod, a rename or a
\* link that fails, or an interrupt during openssl.
Fail(g) ==
  /\ pc[g] \in {"look", "generate", "publish"}
  /\ Return(g, "failed")
  /\ UNCHANGED dir

\* The bug of publishing with a rename in both cases.
CanPublishAlways(g, content) == TRUE

CanPublish(g, content) == force[g] \/ content = Absent

Publish(g) ==
  /\ pc[g] = "publish"
  /\ next[g] <= NumFiles
  /\ CanPublish(g, dir[next[g]])
  /\ dir' = [dir EXCEPT ![next[g]] = g]
  /\ next' = [next EXCEPT ![g] = @ + 1]
  /\ UNCHANGED <<force, pc, staged>>

\* The bug of skipping a file that is already there.
SkipTaken(g) ==
  /\ pc[g] = "publish"
  /\ next[g] <= NumFiles
  /\ ~CanPublish(g, dir[next[g]])
  /\ next' = [next EXCEPT ![g] = @ + 1]
  /\ UNCHANGED <<force, dir, pc, staged>>

\* Link finds the name taken, by a generator that came in between.
LinkTaken(g) ==
  /\ pc[g] = "publish"
  /\ next[g] <= NumFiles
  /\ ~CanPublish(g, dir[next[g]])
  /\ Return(g, "failed")
  /\ UNCHANGED dir

Succeed(g) ==
  /\ pc[g] = "publish"
  /\ next[g] > NumFiles
  /\ Return(g, "done")
  /\ UNCHANGED dir

\* A generator that is killed leaves its staging directory behind.
Crash(g) ==
  /\ pc[g] \in {"look", "generate", "publish"}
  /\ Goto(g, "crashed")
  /\ UNCHANGED <<force, dir, next, staged>>

Next ==
  \E g \in Generators :
    \/ Look(g) \/ Stage(g) \/ Generate(g) \/ Fail(g)
    \/ Publish(g) \/ LinkTaken(g) \/ Succeed(g) \/ Crash(g)

Spec == Init /\ [][Next]_vars

-----------------------------------------------------------------------------
(* Properties.                                                             *)

\* Type invariant.
TypeOK ==
  /\ force \in [Generators -> BOOLEAN]
  /\ dir \in [Files -> Contents]
  /\ pc \in [Generators ->
               {"look", "generate", "publish", "done", "failed", "crashed"}]
  /\ next \in [Generators -> 1 .. NumFiles + 1]
  /\ staged \subseteq Generators

Forcing == {g \in Generators : force[g]}

\* "Publishing refuses existing files unless --force is explicit"
\* (docs/MIGRATION.md:66), also for a file that appeared after the check: a
\* file is replaced by the file of a generator that was told to, or not at all.
OnlyForceReplaces ==
  [][\A f \in Files :
       dir[f] # Absent /\ dir'[f] # dir[f] => dir'[f] \in Forcing]_vars

\* Two runs without --force never leave a mixture: of the files they published
\* all belong to one run, however the runs interleave, fail or are killed
\* (the first link decides, materials.go:87).
UnforcedNeverMix ==
  \A f, h \in Files :
    dir[f] \in Generators \ Forcing /\ dir[h] \in Generators \ Forcing
      => dir[f] = dir[h]

\* A run that reports success left a whole set: every file is its own, except
\* where a run with --force has replaced it since.
SuccessIsWhole ==
  \A g \in Generators :
    pc[g] = "done" => \A f \in Files : dir[f] \in {g} \cup Forcing

\* A run that returns takes its staging directory, with the private keys in
\* it, away; only a killed one leaves it.
StagingRemoved ==
  \A g \in staged : pc[g] \in {"generate", "publish", "crashed"}

=============================================================================
