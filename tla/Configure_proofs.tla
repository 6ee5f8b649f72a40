-------------------------- MODULE Configure_proofs --------------------------
(***************************************************************************)
(* Proofs about Configure, for every number of runs, commands and files.   *)
(* A generation that is in use is the first one or that of a run that is   *)
(* done, and no step writes to either.                                     *)
(***************************************************************************)
EXTENDS Configure, TLAPS

InUse(g) == active = g \/ \E r \in Commands : using[r] = g

\* A run that passed validation has a good generation from then on.
ValidatedIsGood ==
  \A c \in Runs : pc[c] \in {"activate", "done"} => disk[c] = GoodFiles

\* Only a run that is done has its generation in use.
UsedIsDone ==
  \A c \in Runs : InUse(c) => pc[c] = "done"

FirstIsGood == InUse(First) => disk[First] = GoodFiles

UseInv == ValidatedIsGood /\ UsedIsDone /\ FirstIsGood

-----------------------------------------------------------------------------
\* Type correctness of configure's state: what is on disk, which generation is
\* active and loaded, and the index of the copy loop (configure.go:139).
THEOREM Typing == Spec => []TypeOK
<1> USE NumFilesAssumption, NamesAssumption
<1>1. Init => TypeOK
  BY DEF Init, TypeOK, Generations, Files, States, NoFiles, GoodFiles
<1>2. TypeOK /\ [Next]_vars => TypeOK'
  <2> SUFFICES ASSUME TypeOK, [Next]_vars
               PROVE  TypeOK'
    OBVIOUS
  <2> USE DEF TypeOK, Goto
  <2>1. ASSUME NEW c \in Runs, Begin(c) \/ Validate(c) \/ Activate(c) \/ Crash(c)
        PROVE  TypeOK'
    BY <2>1 DEF Begin, Validate, Activate, Crash, Generations
  <2>2. ASSUME NEW c \in Runs, Copy(c)
        PROVE  TypeOK'
    <3>1. next[c] \in Files /\ next[c] + 1 \in 1 .. NumFiles + 1
      BY <2>2 DEF Copy, Files
    <3>2. disk' \in [Generations -> [Files -> States]]
      BY <2>2, <3>1 DEF Copy, Generations
    <3> QED
      BY <2>2, <3>1, <3>2 DEF Copy
  <2>3. ASSUME NEW c \in Runs, Fail(c)
        PROVE  TypeOK'
    <3>1. NoFiles \in [Files -> States]
      BY DEF NoFiles, States
    <3> QED
      BY <2>3, <3>1 DEF Fail, Generations
  <2>4. ASSUME NEW f \in Files, EditSource(f)
        PROVE  TypeOK'
    BY <2>4 DEF EditSource
  <2>5. ASSUME NEW r \in Commands, Load(r) \/ Leave(r)
        PROVE  TypeOK'
    BY <2>5 DEF Load, Leave
  <2>6. CASE UNCHANGED vars
    BY <2>6 DEF vars
  <2> QED
    BY <2>1, <2>2, <2>3, <2>4, <2>5, <2>6 DEF Next
<1> QED
  BY <1>1, <1>2, PTL DEF Spec

-----------------------------------------------------------------------------
\* The inductive invariant.
LEMMA UseInvariant == Spec => []UseInv
<1> USE NamesAssumption
<1>1. Init => UseInv
  BY DEF Init, UseInv, ValidatedIsGood, UsedIsDone, FirstIsGood, InUse,
         Generations
<1>2. TypeOK /\ UseInv /\ [Next]_vars => UseInv'
  <2> SUFFICES ASSUME TypeOK, UseInv, [Next]_vars
               PROVE  UseInv'
    OBVIOUS
  <2> USE DEF TypeOK, UseInv, ValidatedIsGood, UsedIsDone, FirstIsGood, InUse,
              Goto, Generations
  <2>1. ASSUME NEW c \in Runs, Begin(c) \/ Crash(c)
        PROVE  UseInv'
    BY <2>1 DEF Begin, Crash
  <2>2. ASSUME NEW c \in Runs, Copy(c)
        PROVE  UseInv'
    BY <2>2 DEF Copy
  <2>3. ASSUME NEW c \in Runs, Validate(c)
        PROVE  UseInv'
    BY <2>3 DEF Validate, FilesToValidate
  <2>4. ASSUME NEW c \in Runs, Activate(c)
        PROVE  UseInv'
    BY <2>4 DEF Activate
  <2>5. ASSUME NEW c \in Runs, Fail(c)
        PROVE  UseInv'
    BY <2>5 DEF Fail
  <2>6. ASSUME NEW f \in Files, EditSource(f)
        PROVE  UseInv'
    BY <2>6 DEF EditSource
  <2>7. ASSUME NEW r \in Commands, Load(r)
        PROVE  UseInv'
    BY <2>7 DEF Load
  <2>8. ASSUME NEW r \in Commands, Leave(r)
        PROVE  UseInv'
    BY <2>8 DEF Leave
  <2>9. CASE UNCHANGED vars
    BY <2>9 DEF vars
  <2> QED
    BY <2>1, <2>2, <2>3, <2>4, <2>5, <2>6, <2>7, <2>8, <2>9 DEF Next
<1> QED
  BY <1>1, <1>2, Typing, PTL DEF Spec

\* The active configuration is whole and validated at every moment
\* (configure.go:119-181).
THEOREM ConfigurationStaysUsable == Spec => []ActiveUsable
<1>1. TypeOK /\ UseInv => ActiveUsable
  BY DEF TypeOK, UseInv, ValidatedIsGood, UsedIsDone, FirstIsGood, InUse,
         ActiveUsable, Generations
<1> QED
  BY <1>1, Typing, UseInvariant, PTL

\* What a running command has loaded stays whole, however many runs of
\* configure follow: configure.go:132 removes only what was never active.
THEOREM LoadedConfigurationStays == Spec => []LoadedStaysUsable
<1>1. TypeOK /\ UseInv => LoadedStaysUsable
  BY DEF TypeOK, UseInv, ValidatedIsGood, UsedIsDone, FirstIsGood, InUse,
         LoadedStaysUsable, Generations
<1> QED
  BY <1>1, Typing, UseInvariant, PTL

\* A run that failed leaves neither copies of the keys nor a temporary .env,
\* whatever it had done before (the deferred calls of configure.go:130-168).
THEOREM FailuresCleanUp == Spec => []FailureLeavesNothing
<1>1. Init => FailureLeavesNothing
  BY DEF Init, FailureLeavesNothing
<1>2. TypeOK /\ FailureLeavesNothing /\ [Next]_vars => FailureLeavesNothing'
  <2> SUFFICES ASSUME TypeOK, FailureLeavesNothing, [Next]_vars
               PROVE  FailureLeavesNothing'
    OBVIOUS
  <2> USE DEF TypeOK, FailureLeavesNothing, Goto, Generations
  <2>1. ASSUME NEW c \in Runs, Begin(c) \/ Validate(c) \/ Activate(c) \/ Crash(c)
        PROVE  FailureLeavesNothing'
    BY <2>1 DEF Begin, Validate, Activate, Crash
  <2>2. ASSUME NEW c \in Runs, Copy(c)
        PROVE  FailureLeavesNothing'
    BY <2>2 DEF Copy
  <2>3. ASSUME NEW c \in Runs, Fail(c)
        PROVE  FailureLeavesNothing'
    BY <2>3 DEF Fail
  <2>4. ASSUME NEW f \in Files, EditSource(f)
        PROVE  FailureLeavesNothing'
    BY <2>4 DEF EditSource
  <2>5. ASSUME NEW r \in Commands, Load(r) \/ Leave(r)
        PROVE  FailureLeavesNothing'
    BY <2>5 DEF Load, Leave
  <2>6. CASE UNCHANGED vars
    BY <2>6 DEF vars
  <2> QED
    BY <2>1, <2>2, <2>3, <2>4, <2>5, <2>6 DEF Next
<1> QED
  BY <1>1, <1>2, Typing, PTL DEF Spec

=============================================================================
