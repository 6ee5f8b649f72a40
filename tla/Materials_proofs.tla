-------------------------- MODULE Materials_proofs --------------------------
(***************************************************************************)
(* Proofs about Materials, for every number of generators and files.  The  *)
(* argument for runs without --force is about the first file: whoever      *)
(* links it is the only such run that ever publishes.                      *)
(***************************************************************************)
EXTENDS Materials, TLAPS

\* g published something, or will go on after having published something.
Touched(g) ==
  \/ \E f \in Files : dir[f] = g
  \/ pc[g] = "publish" /\ next[g] > 1

\* Once a run without --force has touched the directory, the first file is
\* there, and no other such run touches it.
FirstLinkDecides ==
  \A g \in Generators \ Forcing :
    Touched(g) =>
      /\ dir[1] # Absent
      /\ \A h \in Generators \ Forcing : Touched(h) => h = g

\* Publishing starts with the first file.
StartsAtFirst == \A g \in Generators : pc[g] = "generate" => next[g] = 1

\* What g has published so far is its own, or replaced by force.
Published(g) ==
  \A f \in Files :
    pc[g] = "done" \/ (pc[g] = "publish" /\ f < next[g])
      => dir[f] \in {g} \cup Forcing

PublishedIsKept == \A g \in Generators : Published(g)

-----------------------------------------------------------------------------
\* Type correctness of the generators' state, the two file loops included
\* (materials.go:47 and :72).
THEOREM Typing == Spec => []TypeOK
<1> USE NumFilesAssumption
<1>1. Init => TypeOK
  BY DEF Init, TypeOK, Contents
<1>2. TypeOK /\ [Next]_vars => TypeOK'
  <2> SUFFICES ASSUME TypeOK, NEW g \in Generators,
                      \/ Look(g) \/ Stage(g) \/ Generate(g) \/ Fail(g)
                      \/ Publish(g) \/ LinkTaken(g) \/ Succeed(g) \/ Crash(g)
               PROVE  TypeOK'
    BY DEF Next, vars, TypeOK
  <2> USE DEF TypeOK, Goto, Return
  <2>1. CASE Look(g)
    BY <2>1 DEF Look
  <2>2. CASE Stage(g) \/ Generate(g) \/ Crash(g)
    BY <2>2 DEF Stage, Generate, Crash
  <2>3. CASE Fail(g) \/ LinkTaken(g) \/ Succeed(g)
    BY <2>3 DEF Fail, LinkTaken, Succeed
  <2>4. CASE Publish(g)
    BY <2>4 DEF Publish, Contents, Files
  <2> QED
    BY <2>1, <2>2, <2>3, <2>4
<1> QED
  BY <1>1, <1>2, PTL DEF Spec

\* Publishing without --force replaces nothing, not even a file that appeared
\* after the check (the link of materials.go:88).
THEOREM NoUnforcedReplacement == Spec => OnlyForceReplaces
<1> DEFINE Kept == \A f \in Files :
                     dir[f] # Absent /\ dir'[f] # dir[f] => dir'[f] \in Forcing
<1>1. TypeOK /\ [Next]_vars => [Kept]_vars
  <2> SUFFICES ASSUME TypeOK, NEW g \in Generators,
                      \/ Look(g) \/ Stage(g) \/ Generate(g) \/ Fail(g)
                      \/ Publish(g) \/ LinkTaken(g) \/ Succeed(g) \/ Crash(g)
               PROVE  Kept
    BY DEF Next
  <2>1. CASE Publish(g)
    BY <2>1 DEF Publish, CanPublish, Forcing, TypeOK, Files
  <2>2. CASE ~Publish(g)
    <3>1. dir' = dir
      BY <2>2 DEF Look, Stage, Generate, Fail, LinkTaken, Succeed, Crash
    <3> QED
      BY <3>1
  <2> QED
    BY <2>1, <2>2
<1> QED
  BY <1>1, Typing, PTL DEF Spec, OnlyForceReplaces

-----------------------------------------------------------------------------
LEMMA FirstFileFirst == Spec => []StartsAtFirst
<1>1. Init => StartsAtFirst
  BY DEF Init, StartsAtFirst
<1>2. TypeOK /\ StartsAtFirst /\ [Next]_vars => StartsAtFirst'
  <2> SUFFICES ASSUME TypeOK, StartsAtFirst, NEW g \in Generators,
                      \/ Look(g) \/ Stage(g) \/ Generate(g) \/ Fail(g)
                      \/ Publish(g) \/ LinkTaken(g) \/ Succeed(g) \/ Crash(g)
               PROVE  StartsAtFirst'
    BY DEF Next, vars, StartsAtFirst
  <2> QED
    BY DEF TypeOK, StartsAtFirst, Goto, Return, Look, Stage, Generate, Fail,
           Publish, LinkTaken, Succeed, Crash
<1> QED
  BY <1>1, <1>2, Typing, PTL DEF Spec

-----------------------------------------------------------------------------
\* The files published without --force all come from one run.
THEOREM OneUnforcedPublisher == Spec => []UnforcedNeverMix
<1> USE NumFilesAssumption, ContentsAssumption
<1>1. Init => FirstLinkDecides
  BY DEF Init, FirstLinkDecides, Touched
<1>2. TypeOK /\ StartsAtFirst /\ FirstLinkDecides /\ [Next]_vars
      => FirstLinkDecides'
  <2> SUFFICES ASSUME TypeOK, StartsAtFirst, FirstLinkDecides, NEW g \in Generators,
                      \/ Look(g) \/ Stage(g) \/ Generate(g) \/ Fail(g)
                      \/ Publish(g) \/ LinkTaken(g) \/ Succeed(g) \/ Crash(g)
               PROVE  FirstLinkDecides'
    BY DEF Next, vars, FirstLinkDecides, Touched, Forcing
  <2> USE DEF TypeOK, Goto, Return, Forcing
  <2>1. CASE Look(g) \/ Stage(g) \/ Fail(g) \/ LinkTaken(g) \/ Succeed(g) \/ Crash(g)
    <3>1. /\ dir' = dir /\ force' = force
          /\ \A h \in Generators : Touched(h)' => Touched(h)
      BY <2>1 DEF Look, Stage, Fail, LinkTaken, Succeed, Crash, Touched
    <3> QED
      BY <3>1 DEF FirstLinkDecides
  <2>2. CASE Generate(g)
    <3>1. /\ dir' = dir /\ force' = force
          /\ \A h \in Generators : Touched(h)' => Touched(h)
      BY <2>2 DEF Generate, StartsAtFirst, Touched
    <3> QED
      BY <3>1 DEF FirstLinkDecides
  <2>3. CASE Publish(g)
    <3>0. next[g] \in Files /\ 1 \in Files
      BY <2>3 DEF Publish, Files
    <3>1. ASSUME NEW h \in Generators, Touched(h)', h # g
          PROVE  Touched(h)
      BY <2>3, <3>0, <3>1 DEF Publish, Touched
    <3>2. dir[1] # Absent \/ next[g] = 1 => dir'[1] # Absent
      BY <2>3, <3>0 DEF Publish
    <3>3. CASE g \in Forcing
      BY <2>3, <3>1, <3>2, <3>3 DEF Publish, FirstLinkDecides
    <3>4. CASE g \notin Forcing /\ next[g] = 1
      <4>1. dir[1] = Absent
        BY <2>3, <3>4 DEF Publish, CanPublish
      <4>2. \A h \in Generators \ Forcing : ~Touched(h)
        BY <4>1 DEF FirstLinkDecides
      <4> QED
        BY <2>3, <3>1, <3>2, <3>4, <4>2 DEF Publish, FirstLinkDecides
    <3>5. CASE g \notin Forcing /\ next[g] # 1
      <4>1. Touched(g)
        BY <2>3, <3>0, <3>5 DEF Publish, Touched, Files
      <4> QED
        BY <2>3, <3>1, <3>2, <3>5, <4>1 DEF Publish, FirstLinkDecides
    <3> QED
      BY <3>3, <3>4, <3>5
  <2> QED
    BY <2>1, <2>2, <2>3
<1>3. FirstLinkDecides => UnforcedNeverMix
  BY DEF FirstLinkDecides, UnforcedNeverMix, Touched
<1> QED
  BY <1>1, <1>2, <1>3, Typing, FirstFileFirst, PTL DEF Spec

-----------------------------------------------------------------------------
\* A run that reports success published a whole set, and only a run with
\* --force can have replaced any of it (materials.go:72-94).
THEOREM SuccessLeavesWholeSet == Spec => []SuccessIsWhole
<1> USE NumFilesAssumption, ContentsAssumption
<1>1. Init => PublishedIsKept
  BY DEF Init, PublishedIsKept, Published
<1>2. TypeOK /\ StartsAtFirst /\ PublishedIsKept /\ [Next]_vars
      => PublishedIsKept'
  <2> SUFFICES ASSUME TypeOK, StartsAtFirst, PublishedIsKept,
                      NEW g \in Generators,
                      \/ Look(g) \/ Stage(g) \/ Generate(g) \/ Fail(g)
                      \/ Publish(g) \/ LinkTaken(g) \/ Succeed(g) \/ Crash(g)
               PROVE  PublishedIsKept'
    BY DEF Next, vars, PublishedIsKept, Published, Forcing
  <2> USE DEF TypeOK, Goto, Return, Forcing, PublishedIsKept, Published
  <2>1. CASE Look(g) \/ Stage(g) \/ Fail(g) \/ LinkTaken(g) \/ Crash(g)
    BY <2>1 DEF Look, Stage, Fail, LinkTaken, Crash
  <2>2. CASE Generate(g)
    BY <2>2 DEF Generate, StartsAtFirst, Files
  <2>3. CASE Succeed(g)
    BY <2>3 DEF Succeed, Files
  <2>4. CASE Publish(g)
    <3> SUFFICES ASSUME NEW h \in Generators, NEW f \in Files,
                        pc'[h] = "done" \/ (pc'[h] = "publish" /\ f < next'[h])
                 PROVE  dir'[f] \in {h} \cup Forcing
      BY <2>4 DEF Publish
    <3>1. CASE f = next[g]
      <4>1. dir'[f] = g
        BY <2>4, <3>1 DEF Publish
      <4>2. CASE h = g \/ g \in Forcing
        BY <4>1, <4>2
      <4>3. CASE h # g /\ g \notin Forcing
        <5>1. dir[f] = Absent
          BY <2>4, <3>1, <4>3 DEF Publish, CanPublish
        <5>2. dir[f] \in {h} \cup Forcing
          BY <2>4, <4>3 DEF Publish
        <5> QED
          BY <5>1, <5>2
      <4> QED
        BY <4>2, <4>3
    <3>2. CASE f # next[g]
      <4>1. dir'[f] = dir[f]
        BY <2>4, <3>2 DEF Publish
      <4>2. pc[h] = "done" \/ (pc[h] = "publish" /\ f < next[h])
        BY <2>4, <3>2 DEF Publish, Files
      <4> QED
        BY <4>1, <4>2
    <3> QED
      BY <3>1, <3>2
  <2> QED
    BY <2>1, <2>2, <2>3, <2>4
<1>3. PublishedIsKept => SuccessIsWhole
  BY DEF PublishedIsKept, Published, SuccessIsWhole
<1> QED
  BY <1>1, <1>2, <1>3, Typing, FirstFileFirst, PTL DEF Spec

-----------------------------------------------------------------------------
\* A run that returns has removed its staging directory, with the private keys
\* in it (the deferred RemoveAll of materials.go:65).
THEOREM KeysAreCleanedUp == Spec => []StagingRemoved
<1>1. Init => StagingRemoved
  BY DEF Init, StagingRemoved
<1>2. TypeOK /\ StagingRemoved /\ [Next]_vars => StagingRemoved'
  <2> SUFFICES ASSUME TypeOK, StagingRemoved, NEW g \in Generators,
                      \/ Look(g) \/ Stage(g) \/ Generate(g) \/ Fail(g)
                      \/ Publish(g) \/ LinkTaken(g) \/ Succeed(g) \/ Crash(g)
               PROVE  StagingRemoved'
    BY DEF Next, vars, StagingRemoved
  <2> USE DEF TypeOK, StagingRemoved, Goto, Return
  <2>1. CASE Look(g) \/ Fail(g) \/ LinkTaken(g) \/ Succeed(g)
    BY <2>1 DEF Look, Fail, LinkTaken, Succeed
  <2>2. CASE Stage(g) \/ Generate(g) \/ Publish(g) \/ Crash(g)
    BY <2>2 DEF Stage, Generate, Publish, Crash
  <2> QED
    BY <2>1, <2>2
<1> QED
  BY <1>1, <1>2, Typing, PTL DEF Spec

=============================================================================
