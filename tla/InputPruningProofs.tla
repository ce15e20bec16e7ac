-------------------------- MODULE InputPruningProofs --------------------------
(***************************************************************************)
(* Proofs about InputPruning for any operators, must-gathers and numbers   *)
(* of repetitions and failures: that pruning fails on what is unreadable   *)
(* and on nothing else, and what is in the target once it has succeeded.   *)
(***************************************************************************)
EXTENDS InputPruning, RequiredResourcesProofs

-----------------------------------------------------------------------------
(* The invariant.                                                          *)

Result(name) == ReadRequired(Content[name], request.apply)

Types ==
    /\ TypeOK
    /\ request \in Requests \cup {Nil}
    /\ target = [p \in DOMAIN target |-> target[p]] /\ IsFiniteSet(DOMAIN target)
    /\ stage \in {"declare", "read", "mkdir", "ok"} => todo = {}
    /\ stage = "declare" => request = Nil /\ DOMAIN target = {} /\ runs = 0 /\ ~failed
    /\ stage = "read" => runs < MaxRuns

\* What goes on to be written was read in full.
ReadInFull ==
    stage \in {"mkdir", "write", "ok"} =>
        /\ instances = Result(source).instances /\ ~Result(source).failed /\ OneVersion(instances)
        /\ source \in seen

\* A failure has a reason.
WhyFailed ==
    /\ failed => faults # 0
    /\ stage = "ok" => ~failed
    /\ stage = "failed" /\ request # Nil /\ faults = 0 =>
          /\ instances = Result(source).instances
          /\ Result(source).failed \/ ~OneVersion(instances)

\* The target holds files of prunings only, whole or cut short.
OnlySeen ==
    \A p \in DOMAIN target : \E name \in seen :
        /\ ~Result(name).failed
        /\ \E f \in FilesOf(Result(name).instances) : p = f.path /\ target[p] \in {f.content, Broken}

\* What is no longer to be written is there, unless a write failed.
Complete ==
    stage \in {"write", "ok"} /\ ~failed =>
        \A f \in FilesOf(instances) \ todo : f.path \in DOMAIN target /\ target[f.path] = f.content

PruningInv == Types /\ ReadInFull /\ WhyFailed /\ OnlySeen /\ Complete

\* Before anything is declared the invariant holds.
LEMMA PruningInit == Init => PruningInv
<1> SUFFICES ASSUME Init PROVE PruningInv
  OBVIOUS
<1> USE PruningAssumption
<1>1. 0 \in 0..MaxRuns /\ 0 \in 0..MaxFaults
  OBVIOUS
<1>2. target = [p \in DOMAIN target |-> target[p]] /\ DOMAIN target = {} /\ IsFiniteSet(DOMAIN target)
  BY FS_EmptySet DEF Init
<1>3. TypeOK
  BY <1>1, <1>2 DEF Init, TypeOK, Over
<1>4. Types
  BY <1>1, <1>2, <1>3 DEF Init, Types
<1>5. ReadInFull /\ WhyFailed /\ OnlySeen /\ Complete
  BY <1>2 DEF Init, ReadInFull, WhyFailed, OnlySeen, Complete
<1>6. QED
  BY <1>4, <1>5 DEF PruningInv

\* The must-gathers and the requests are what they are assumed to be.
LEMMA Sources ==
    ASSUME NEW name \in MustGathers, request \in Requests
    PROVE  /\ IsDirectory(Content[name]) /\ IsList(request.apply) /\ IsConsistent(Content[name], request.apply)
           /\ IsSequence(Result(name).instances) /\ KindsAreTypes(Result(name).instances)
           /\ ToSet(Result(name).instances) = ToSet(AllFound(Reads(Content[name], request.apply)))
<1>1. IsDirectory(Content[name]) /\ IsList(request.apply) /\ IsConsistent(Content[name], request.apply)
  BY PruningAssumption DEF IsList
<1>2. QED
  BY <1>1, InstancesHold DEF Result

\* Declaring what the operator needs.
LEMMA DeclareKeeps == ASSUME PruningInv, Declare PROVE PruningInv'
<1> DEFINE result == InputResourcesCommand(operator.inputs, operator.outputs)
<1>1. /\ declared' = result.ended /\ request' = result.printed
      /\ stage' = IF result.printed = Nil THEN "failed" ELSE "read"
      /\ UNCHANGED <<operator, source, target, instances, todo, failed, seen, runs, faults>>
      /\ stage = "declare" /\ operator \in Operators
  BY DEF Declare, PruningInv, Types, TypeOK
<1>2. result.printed \in Requests \cup {Nil}
  BY <1>1 DEF Requests
<1>3. result.ended \in {"ok", "error", "panic"}
  BY DEF InputResourcesCommand
<1> HIDE DEF result
<1>4. Types'
  BY <1>1, <1>2, <1>3, PruningAssumption DEF PruningInv, Types, TypeOK, Over
<1>5. DOMAIN target' = {} /\ ~failed'
  BY <1>1 DEF PruningInv, Types, WhyFailed, TypeOK
<1>6. ReadInFull' /\ WhyFailed' /\ OnlySeen' /\ Complete'
  BY <1>1, <1>5 DEF PruningInv, Types, ReadInFull, WhyFailed, OnlySeen, Complete
<1>7. QED
  BY <1>4, <1>6 DEF PruningInv

\* The files of a target are not touched: it holds what it held.
LEMMA UntouchedKeeps ==
    ASSUME PruningInv, UNCHANGED <<request, target>>, seen \subseteq seen'
    PROVE  OnlySeen'
BY DEF PruningInv, OnlySeen, Result

\* Reading the must-gather, which decides which files are to be written.
LEMMA ReadKeeps == ASSUME PruningInv, Read PROVE PruningInv'
<1>1. /\ stage = "read" /\ instances' = Result(source).instances
      /\ stage' = IF ~Result(source).failed /\ OneVersion(Result(source).instances) THEN "mkdir" ELSE "failed"
      /\ runs' = runs + 1 /\ seen' = seen \cup {source} /\ failed' = FALSE
      /\ UNCHANGED <<operator, declared, request, source, target, todo, faults>>
  BY DEF Read, Result, Dir
<1>2. Result(source)' = Result(source)
  BY <1>1 DEF Result
<1>3. todo' = {} /\ runs' \in 0..MaxRuns /\ seen' \subseteq MustGathers /\ request' # Nil
  BY <1>1, PruningAssumption DEF PruningInv, Types, TypeOK
<1>4. Types'
  BY <1>1, <1>3 DEF PruningInv, Types, TypeOK, Over
<1>5. ReadInFull' /\ WhyFailed' /\ Complete'
  BY <1>1, <1>2 DEF ReadInFull, WhyFailed, Complete
<1>6. OnlySeen'
  BY <1>1, UntouchedKeeps
<1>7. QED
  BY <1>4, <1>5, <1>6 DEF PruningInv

\* A fault is counted.
LEMMA FaultCounts == ASSUME PruningInv, Fault PROVE faults' \in 0..MaxFaults /\ faults' # 0
BY PruningAssumption DEF PruningInv, Types, TypeOK, Fault

\* Making the target directory.
LEMMA MakeTargetKeeps == ASSUME PruningInv, MakeTarget PROVE PruningInv'
<1>1. /\ stage = "mkdir"
      /\ UNCHANGED <<operator, declared, request, source, target, instances, failed, seen, runs>>
  BY DEF MakeTarget
<1>2. Result(source)' = Result(source)
  BY <1>1 DEF Result
<1>3. OnlySeen'
  BY <1>1, UntouchedKeeps
<1>4. CASE stage' = "write" /\ todo' = FilesOf(instances) /\ UNCHANGED faults
  <2>1. Types'
    BY <1>1, <1>4 DEF PruningInv, Types, TypeOK, Over
  <2>2. ReadInFull' /\ WhyFailed' /\ Complete'
    BY <1>1, <1>2, <1>4 DEF PruningInv, ReadInFull, WhyFailed, Complete
  <2>3. QED
    BY <1>3, <2>1, <2>2 DEF PruningInv
<1>5. CASE stage' = "failed" /\ Fault /\ UNCHANGED todo
  <2>1. Types'
    BY <1>1, <1>5, FaultCounts DEF PruningInv, Types, TypeOK, Over
  <2>2. ReadInFull' /\ WhyFailed' /\ Complete'
    BY <1>1, <1>5, FaultCounts DEF ReadInFull, WhyFailed, Complete
  <2>3. QED
    BY <1>3, <2>1, <2>2 DEF PruningInv
<1>6. QED
  BY <1>4, <1>5 DEF MakeTarget

\* In the middle of writing, or in what an interruption leaves, a file is
\* put where one of the files of the instances belongs.
LEMMA PutKeepsSeen ==
    ASSUME PruningInv, stage = "write", NEW file \in todo, NEW content \in {file.content, Broken},
           target' = Put(file.path, content), UNCHANGED <<request, seen>>
    PROVE  /\ OnlySeen'
           /\ \A p \in DOMAIN target' : p.name = None
           /\ target' = [p \in DOMAIN target' |-> target'[p]] /\ IsFiniteSet(DOMAIN target')
<1>1. file \in FilesOf(Result(source).instances) /\ source \in seen /\ ~Result(source).failed
  BY DEF PruningInv, Types, TypeOK, ReadInFull
<1>2. request \in Requests /\ source \in MustGathers
  BY DEF PruningInv, Types, TypeOK
<1>3. file.path.name = None
  <2>1. PICK r \in ToSet(Result(source).instances) : file = FileOf(Result(source).instances, r)
    BY <1>1, FilesAre
  <2>2. QED
    BY <2>1 DEF FileOf, ListFile
<1>4. ASSUME NEW p \in DOMAIN target'
      PROVE  \E name \in seen' :
                /\ ~Result(name)'.failed
                /\ \E f \in FilesOf(Result(name)'.instances) : p = f.path /\ target'[p] \in {f.content, Broken}
  <2>1. \A name : Result(name)' = Result(name)
    BY DEF Result
  <2>2. CASE p = file.path
    BY <1>1, <2>1, <2>2 DEF Put
  <2>3. CASE p # file.path
    <3>1. p \in DOMAIN target /\ target'[p] = target[p]
      BY <1>4, <2>3 DEF Put
    <3>2. QED
      BY <2>1, <3>1 DEF PruningInv, OnlySeen
  <2>4. QED
    BY <2>2, <2>3
<1>5. OnlySeen'
  BY <1>4 DEF OnlySeen
<1>6. \A p \in DOMAIN target' : p.name = None
  BY <1>3 DEF Put, PruningInv, Types, TypeOK
<1>7. IsFiniteSet(DOMAIN target')
  <2>1. DOMAIN target' = DOMAIN target \cup {file.path} /\ IsFiniteSet(DOMAIN target)
    BY DEF Put, PruningInv, Types
  <2>2. QED
    BY <2>1, FS_AddElement
<1>8. QED
  BY <1>5, <1>6, <1>7 DEF Put

\* Writing one of the files.
LEMMA WriteKeeps == ASSUME PruningInv, NEW file \in todo, WriteResource(file) PROVE PruningInv'
<1>1. /\ stage = "write" /\ todo' = todo \ {file}
      /\ UNCHANGED <<operator, declared, request, source, stage, instances, seen, runs>>
  BY DEF WriteResource
<1>2. \A name : Result(name)' = Result(name)
  BY <1>1 DEF Result
<1>3. ReadInFull'
  BY <1>1, <1>2 DEF PruningInv, ReadInFull
<1>4. CASE target' = Put(file.path, file.content) /\ UNCHANGED <<failed, faults>>
  <2>1. OnlySeen' /\ (\A p \in DOMAIN target' : p.name = None)
        /\ target' = [p \in DOMAIN target' |-> target'[p]] /\ IsFiniteSet(DOMAIN target')
    BY <1>1, <1>4, PutKeepsSeen
  <2>2. Types'
    BY <1>1, <1>4, <2>1 DEF PruningInv, Types, TypeOK, Over
  <2>3. WhyFailed'
    BY <1>1, <1>4 DEF PruningInv, WhyFailed
  <2>4. Complete'
    <3>1. ASSUME ~failed, NEW f \in FilesOf(instances) \ todo'
          PROVE  f.path \in DOMAIN target' /\ target'[f.path] = f.content
      <4>1. CASE f = file
        BY <1>4, <4>1 DEF Put
      <4>2. CASE f # file
        <5>1. f.path \in DOMAIN target /\ target[f.path] = f.content
          BY <1>1, <3>1, <4>2 DEF PruningInv, Complete
        <5>2. file \in FilesOf(instances) /\ instances = Result(source).instances
          BY <1>1 DEF PruningInv, Types, TypeOK, ReadInFull
        <5>3. IsSequence(instances) /\ KindsAreTypes(instances)
          BY <1>1, <5>2, Sources DEF PruningInv, Types, TypeOK
        <5>4. f.path # file.path
          BY <3>1, <4>2, <5>2, <5>3, PathsDiffer
        <5>5. QED
          BY <1>4, <5>1, <5>4 DEF Put
      <4>3. QED
        BY <4>1, <4>2
    <3>2. QED
      BY <1>1, <1>4, <3>1 DEF Complete
  <2>5. QED
    BY <1>3, <2>1, <2>2, <2>3, <2>4 DEF PruningInv
<1>5. CASE target' \in {target, Put(file.path, Broken)} /\ failed' = TRUE /\ Fault
  <2>1. OnlySeen' /\ (\A p \in DOMAIN target' : p.name = None)
        /\ target' = [p \in DOMAIN target' |-> target'[p]] /\ IsFiniteSet(DOMAIN target')
    <3>1. CASE target' = target
      BY <1>1, <3>1, UntouchedKeeps DEF PruningInv, Types, TypeOK
    <3>2. CASE target' = Put(file.path, Broken)
      BY <1>1, <3>2, PutKeepsSeen
    <3>3. QED
      BY <1>5, <3>1, <3>2
  <2>2. Types'
    BY <1>1, <1>5, <2>1, FaultCounts DEF PruningInv, Types, TypeOK, Over
  <2>3. WhyFailed' /\ Complete'
    BY <1>1, <1>5, FaultCounts DEF WhyFailed, Complete
  <2>4. QED
    BY <1>3, <2>1, <2>2, <2>3 DEF PruningInv
<1>6. QED
  BY <1>4, <1>5 DEF WriteResource

\* Ending, with nothing left to write.
LEMMA FinishKeeps == ASSUME PruningInv, Finish PROVE PruningInv'
<1>1. /\ stage = "write" /\ todo = {} /\ stage' = IF failed THEN "failed" ELSE "ok"
      /\ UNCHANGED <<operator, declared, request, source, target, instances, todo, failed, seen, runs, faults>>
  BY DEF Finish
<1>2. \A name : Result(name)' = Result(name)
  BY <1>1 DEF Result
<1>3. Types'
  BY <1>1 DEF PruningInv, Types, TypeOK, Over
<1>4. ReadInFull' /\ WhyFailed' /\ Complete'
  BY <1>1, <1>2 DEF PruningInv, ReadInFull, WhyFailed, Complete
<1>5. QED
  BY <1>1, <1>3, <1>4, UntouchedKeeps DEF PruningInv

\* Being killed, at most in the middle of a file.
LEMMA KillKeeps == ASSUME PruningInv, Kill PROVE PruningInv'
<1>1. /\ stage \in {"read", "mkdir", "write"} /\ stage' = "killed"
      /\ UNCHANGED <<operator, declared, request, source, instances, todo, failed, seen, runs, faults>>
  BY DEF Kill
<1>2. OnlySeen' /\ (\A p \in DOMAIN target' : p.name = None)
      /\ target' = [p \in DOMAIN target' |-> target'[p]] /\ IsFiniteSet(DOMAIN target')
  <2>1. CASE target' = target
    BY <1>1, <2>1, UntouchedKeeps DEF PruningInv, Types, TypeOK
  <2>2. CASE \E file \in todo : target' = Put(file.path, Broken)
    <3>1. stage = "write"
      BY <1>1, <2>2 DEF PruningInv, Types
    <3>2. QED
      BY <1>1, <2>2, <3>1, PutKeepsSeen
  <2>3. QED
    BY <2>1, <2>2 DEF Kill
<1>3. Types'
  BY <1>1, <1>2 DEF PruningInv, Types, TypeOK, Over
<1>4. ReadInFull' /\ WhyFailed' /\ Complete'
  BY <1>1 DEF PruningInv, ReadInFull, WhyFailed, Complete
<1>5. QED
  BY <1>2, <1>3, <1>4 DEF PruningInv

\* Beginning again, over what is there.
LEMMA PruneAgainKeeps == ASSUME PruningInv, PruneAgain PROVE PruningInv'
<1>1. /\ request # Nil /\ runs < MaxRuns /\ source' \in MustGathers /\ stage' = "read" /\ todo' = {}
      /\ UNCHANGED <<operator, declared, request, target, instances, failed, seen, runs, faults>>
  BY DEF PruneAgain
<1>2. Types'
  BY <1>1 DEF PruningInv, Types, TypeOK, Over
<1>3. ReadInFull' /\ WhyFailed' /\ Complete'
  BY <1>1 DEF PruningInv, ReadInFull, WhyFailed, Complete
<1>4. QED
  BY <1>1, <1>2, <1>3, UntouchedKeeps DEF PruningInv

\* So every step keeps the invariant.
LEMMA PruningStep == ASSUME PruningInv, [Next]_vars PROVE PruningInv'
<1>1. CASE UNCHANGED vars
  BY <1>1 DEF vars, PruningInv, Types, TypeOK, ReadInFull, WhyFailed, OnlySeen, Complete, Result
<1>2. CASE Next
  BY <1>1, <1>2, DeclareKeeps, ReadKeeps, MakeTargetKeeps, WriteKeeps, FinishKeeps, KillKeeps, PruneAgainKeeps
     DEF Next, Stopped
<1>3. QED
  BY <1>1, <1>2

\* Whatever is pruned, however often and whatever fails: what goes on to be
\* written was read in full, a failure has a reason, and the target holds
\* files of prunings only, and all of them after a success.
THEOREM PruningInvariant == Spec => []PruningInv
<1>1. QED
  BY PruningInit, PruningStep, PTL DEF Spec

-----------------------------------------------------------------------------
(* What follows.                                                           *)

\* TypeOK: the states of the two commands and of the target directory.
THEOREM PruningTypeCorrect == Spec => []TypeOK
<1>1. PruningInv => TypeOK
  BY DEF PruningInv, Types
<1>2. QED
  BY <1>1, PruningInvariant, PTL

\* FailsOnUnreadableOnly: GetRequiredInputResourcesForResourceList collects
\* every error but not-found, and nothing that it can read makes it fail.
THEOREM FailsRightly == Spec => []FailsOnUnreadableOnly
<1>1. ASSUME PruningInv PROVE FailsOnUnreadableOnly
  <2>1. ASSUME request # Nil PROVE Result(source).failed <=> ~Readable(Dir, request.apply)
    <3>1. request \in Requests /\ source \in MustGathers
      BY <1>1, <2>1 DEF PruningInv, Types, TypeOK
    <3>2. QED
      BY <3>1, Sources, ReadFails DEF Result, Dir
  <2>2. ASSUME stage \in {"mkdir", "write", "ok"} PROVE Readable(Dir, request.apply)
    BY <1>1, <2>1, <2>2 DEF PruningInv, Types, TypeOK, ReadInFull
  <2>3. ASSUME stage = "failed", request # Nil, faults = 0
        PROVE  ~Readable(Dir, request.apply) \/ ~OneVersion(instances)
    BY <1>1, <2>1, <2>3 DEF PruningInv, WhyFailed
  <2>4. QED
    BY <2>2, <2>3 DEF FailsOnUnreadableOnly
<1>2. QED
  BY <1>1, PruningInvariant, PTL

\* After a success the instances are those of the must-gather, and all their
\* files are there in full.
LEMMA SuccessIsComplete ==
    ASSUME PruningInv, stage = "ok"
    PROVE  /\ request \in Requests /\ source \in MustGathers
           /\ instances = Result(source).instances
           /\ IsSequence(instances) /\ KindsAreTypes(instances)
           /\ \A f \in FilesOf(instances) : f.path \in DOMAIN target /\ target[f.path] = f.content
<1>1. request \in Requests /\ source \in MustGathers
  BY DEF PruningInv, Types, TypeOK
<1>2. instances = Result(source).instances /\ ~failed /\ todo = {}
  BY DEF PruningInv, Types, ReadInFull, WhyFailed
<1>3. \A f \in FilesOf(instances) : f.path \in DOMAIN target /\ target[f.path] = f.content
  BY <1>2 DEF PruningInv, Complete
<1>4. QED
  BY <1>1, <1>2, <1>3, Sources

\* RetryRepairs: WriteResource replaces whole files, and the same must-gather
\* gives the same files, so that what failed or killed prunings left is gone.
THEOREM RetriesRepair == Spec => []RetryRepairs
<1>1. ASSUME PruningInv, stage = "ok", seen = {source} PROVE target = Pruned(Dir, request.apply)
  <2> DEFINE files == FilesOf(instances)
             paths == {f.path : f \in files}
             of(p) == CHOOSE f \in files : f.path = p
  <2>1. /\ instances = Result(source).instances /\ IsSequence(instances) /\ KindsAreTypes(instances)
        /\ \A f \in files : f.path \in DOMAIN target /\ target[f.path] = f.content
    BY <1>1, SuccessIsComplete
  <2>2. \A p \in DOMAIN target : \E f \in files : p = f.path
    BY <1>1, <2>1 DEF PruningInv, OnlySeen
  <2>3. Pruned(Dir, request.apply) = [p \in paths |-> of(p).content]
    BY <2>1 DEF Pruned, Result, Dir
  <2>4. ASSUME NEW p \in paths PROVE target[p] = of(p).content
    <3>1. PICK f \in files : f.path = p
      OBVIOUS
    <3>2. of(p) \in files /\ of(p).path = p
      BY <3>1
    <3>3. QED
      BY <2>1, <3>2
  <2>5. DOMAIN target = paths
    BY <2>1, <2>2
  <2>6. target = [p \in DOMAIN target |-> target[p]]
    BY <1>1 DEF PruningInv, Types
  <2> HIDE DEF paths, of, files
  <2>7. QED
    BY <2>3, <2>4, <2>5, <2>6
<1>2. PruningInv => RetryRepairs
  BY <1>1 DEF RetryRepairs
<1>3. QED
  BY <1>2, PruningInvariant, PTL

\* OnlyRequired: what is written comes from the lookups of exact resources,
\* selectors and references, and is listed under the type it was asked for.
THEOREM OnlyRequiredWritten == Spec => []OnlyRequired
<1>1. ASSUME PruningInv, stage = "ok", seen = {source} PROVE OnlyRequiredIn(target)
  <2>1. /\ request \in Requests /\ source \in MustGathers /\ instances = Result(source).instances
        /\ IsSequence(instances) /\ KindsAreTypes(instances)
    BY <1>1, SuccessIsComplete
  <2>2. /\ IsDirectory(Dir) /\ IsList(request.apply)
        /\ ToSet(instances) = ToSet(AllFound(Reads(Dir, request.apply)))
    BY <2>1, Sources DEF Dir
  <2>3. ASSUME NEW p \in DOMAIN target, target[p] # Broken, NEW o \in ToSet(ObjectsOf(target[p]))
        PROVE  IsRequired(p, o)
    <3>1. PICK f \in FilesOf(instances) : p = f.path /\ target[p] = f.content
      BY <1>1, <2>1, <2>3 DEF PruningInv, OnlySeen
    <3>2. PICK r \in ToSet(instances) : f = FileOf(instances, r)
      BY <3>1, FilesAre
    <3>3. "items" \in DOMAIN f.content
      BY <3>2 DEF FileOf
    <3>4. p = ListFile(r.object.ns, r.type) /\ o \in {q.object : q \in Alike(instances, r)}
      <4>1. /\ f.path = ListFile(r.object.ns, r.type)
            /\ ToSet(f.content.items) = {q.object : q \in Alike(instances, r)}
        BY <2>1, <3>2, FileHolds
      <4>2. o \in ToSet(f.content.items)
        BY <2>3, <3>1, <3>3 DEF ObjectsOf
      <4>3. QED
        BY <3>1, <4>1, <4>2
    <3>5. PICK q \in ToSet(instances) : q.object.kind = r.object.kind /\ q.object = o
      BY <3>4 DEF Alike
    <3>6. q.type = r.type
      BY <2>1, <3>2, <3>5 DEF KindsAreTypes
    <3>7. p.type = q.type
      BY <3>4, <3>6 DEF ListFile
    <3>8. CASE \E id \in Wanted(Dir, request.apply) : FromGet(Dir, id, q)
      BY <3>5, <3>7, <3>8 DEF FromGet, IsRequired
    <3>9. CASE \E s \in ToSet(request.apply.selected) : FromList(Dir, s, q)
      BY <2>2, <3>5, <3>7, <3>9, ListYields DEF FromList, IsRequired
    <3>10. QED
      BY <2>2, <3>5, <3>8, <3>9, FoundIsAskedFor
  <2>4. QED
    BY <2>3 DEF OnlyRequiredIn
<1>2. PruningInv => OnlyRequired
  BY <1>1 DEF OnlyRequired
<1>3. QED
  BY <1>2, PruningInvariant, PTL

\* RequiredIsFound: after a success a get from the target, whatever else is in
\* it, finds the object that it finds in the must-gather.
THEOREM RequiredStaysFound == Spec => []RequiredIsFound
<1>1. ASSUME PruningInv, stage = "ok", NEW id \in Wanted(Dir, request.apply),
             Get(Dir, id).status = "ok", id.type # Namespaces
      PROVE  Get(target, id) = Get(Dir, id)
  <2>1. /\ request \in Requests /\ source \in MustGathers /\ instances = Result(source).instances
        /\ IsSequence(instances) /\ KindsAreTypes(instances)
        /\ \A f \in FilesOf(instances) : f.path \in DOMAIN target /\ target[f.path] = f.content
    BY <1>1, SuccessIsComplete
  <2>2. /\ IsDirectory(Dir) /\ IsList(request.apply) /\ IsConsistent(Dir, request.apply)
        /\ ToSet(instances) = ToSet(AllFound(Reads(Dir, request.apply)))
    BY <2>1, Sources DEF Dir
  <2>3. PICK o : Get(Dir, id).objects = <<o>> /\ IsObject(o) /\ o.version = id.version /\ id.name # None
    BY <1>1, <2>2, GetYieldsObject
  <2>4. o.ns = id.ns /\ o.name = id.name
    BY <2>2, <2>3, Singleton DEF IsConsistent
  <2> DEFINE r == [type |-> id.type, object |-> o]
             f == FileOf(instances, r)
             list == ListFile(id.ns, id.type)
             named == ItemsNamed(f.content, id.name)
  <2>5. r \in ToSet(instances)
    BY <2>2, <2>3, Singleton, WantedIsFound
  <2>6. /\ f.path = list /\ IsSequence(f.content.items)
        /\ ToSet(f.content.items) = {q.object : q \in Alike(instances, r)}
    <3>1. ListFile(r.object.ns, r.type) = list
      BY <2>4
    <3> HIDE DEF r, list
    <3>2. QED
      BY <2>1, <2>5, <3>1, FileHolds
  <2>7. f.content.kind = o.kind
    BY DEF FileOf
  <2>8. f.content # Broken
    <3>1. "items" \in DOMAIN f.content /\ "items" \notin DOMAIN Broken
      BY DEF FileOf, Broken
    <3>2. QED
      BY <3>1
  <2>9. f \in FilesOf(instances)
    BY <2>5, FilesAre
  <2>10. list \in DOMAIN target /\ target[list] = f.content
    BY <2>1, <2>6, <2>9
  <2>11. \A x \in ToSet(f.content.items) : x.name = id.name <=> x = o
    <3>1. ASSUME NEW q \in Alike(instances, r), q.object.name = id.name PROVE q.object = o
      <4>1. q.type = r.type /\ q \in ToSet(instances)
        BY <2>1, <2>5 DEF KindsAreTypes, Alike
      <4>2. <<q.type, q.object.ns, q.object.name>> = <<r.type, r.object.ns, r.object.name>>
        BY <2>4, <3>1, <4>1 DEF Alike
      <4>3. q = r
        BY <2>2, <2>5, <4>1, <4>2 DEF IsConsistent
      <4>4. QED
        BY <4>3
    <3>2. QED
      BY <2>4, <2>6, <3>1
  <2>12. o \in ToSet(f.content.items)
    BY <2>5, <2>6 DEF Alike
  <2> HIDE DEF r, f
  <2>13. IsSequence(named) /\ ToSet(named) = {o}
    <3> DEFINE some == {x \in ToSet(f.content.items) : x.name = id.name}
    <3>1. named = Those(f.content.items, some)
      BY DEF ItemsNamed
    <3>2. some = {o}
      BY <2>4, <2>11, <2>12
    <3> HIDE DEF some, named
    <3>3. QED
      BY <2>6, <2>12, <3>1, <3>2, Chosen
  <2> HIDE DEF named
  <2>14. named # <<>> /\ Head(named) = o
    <3>1. /\ Len(named) \in Nat /\ DOMAIN named = 1..Len(named)
          /\ \A i \in 1..Len(named) : named[i] \in ToSet(named)
      BY <2>13, Places1
    <3>2. Len(named) # 0
      <4>1. ToSet(named) = {named[i] : i \in DOMAIN named}
        BY DEF ToSet
      <4>2. DOMAIN named # {}
        BY <2>13, <4>1
      <4>3. QED
        BY <3>1, <4>2
    <3>3. QED
      BY <2>13, <3>1, <3>2
  <2>15. IndividualFile(id) \notin DOMAIN target
    BY <1>1, <2>3 DEF IndividualFile, PruningInv, Types, TypeOK
  <2>16. ListFile(RequestNamespace(id), id.type) = list
    BY <1>1 DEF RequestNamespace
  <2> HIDE DEF list
  <2>17. Get(target, id) = InVersion([Head(named) EXCEPT !.kind = f.content.kind], id.version)
    BY <2>3, <2>8, <2>10, <2>14, <2>15, <2>16 DEF Get, named
  <2>18. [o EXCEPT !.kind = o.kind] = o
    BY <2>3 DEF IsObject
  <2>19. o # Broken
    BY <2>3 DEF IsObject, Broken
  <2>20. Get(target, id) = Found(<<o>>)
    BY <2>3, <2>7, <2>14, <2>17, <2>18, <2>19 DEF InVersion
  <2>21. Get(Dir, id) = Found(<<o>>)
    <3>1. Get(Dir, id) \in {Failed, NotFound} \/ \E x : Get(Dir, id) = Found(<<x>>)
      BY DEF Get, InVersion
    <3>2. QED
      BY <1>1, <2>3, <3>1 DEF Found, Failed, NotFound
  <2>22. QED
    BY <2>20, <2>21
<1>2. PruningInv => RequiredIsFound
  BY <1>1 DEF RequiredIsFound
<1>3. QED
  BY <1>2, PruningInvariant, PTL

\* A target that holds no half files is a directory.
LEMMA TargetIsDirectory ==
    ASSUME PruningInv, stage = "ok", Broken \notin Range(target)
    PROVE  /\ IsDirectory(target)
           /\ \A p \in DOMAIN target : \E name \in seen : \E r \in ToSet(Result(name).instances) :
                 /\ ~Result(name).failed
                 /\ p = FileOf(Result(name).instances, r).path
                 /\ target[p] = FileOf(Result(name).instances, r).content
<1>1. request \in Requests /\ seen \subseteq MustGathers
  BY DEF PruningInv, Types, TypeOK
<1>2. ASSUME NEW p \in DOMAIN target
      PROVE  \E name \in seen : \E r \in ToSet(Result(name).instances) :
                 /\ ~Result(name).failed
                 /\ p = FileOf(Result(name).instances, r).path
                 /\ target[p] = FileOf(Result(name).instances, r).content
  <2>1. target[p] # Broken
    BY DEF Range
  <2>2. PICK name \in seen : /\ ~Result(name).failed
                             /\ \E f \in FilesOf(Result(name).instances) : p = f.path /\ target[p] \in {f.content, Broken}
    BY DEF PruningInv, OnlySeen
  <2>3. PICK f \in FilesOf(Result(name).instances) : p = f.path /\ target[p] = f.content
    BY <2>1, <2>2
  <2>4. QED
    BY <2>2, <2>3, FilesAre
<1>3. ASSUME NEW p \in DOMAIN target
      PROVE  /\ p = [ns |-> p.ns, type |-> p.type, name |-> p.name] /\ p.ns \in Nat /\ p.name = None
             /\ "items" \in DOMAIN target[p] /\ IsSequence(target[p].items)
             /\ \A o \in ToSet(ObjectsOf(target[p])) : IsObject(o)
  <2>1. PICK name \in seen : \E r \in ToSet(Result(name).instances) :
                 /\ p = FileOf(Result(name).instances, r).path
                 /\ target[p] = FileOf(Result(name).instances, r).content
    BY <1>2
  <2> DEFINE set == Result(name).instances
  <2>2. /\ IsDirectory(Content[name]) /\ IsList(request.apply) /\ IsSequence(set) /\ KindsAreTypes(set)
        /\ ToSet(set) = ToSet(AllFound(Reads(Content[name], request.apply)))
    BY <1>1, Sources
  <2>3. \A q \in ToSet(set) : IsObject(q.object)
    BY <2>2, FoundAreObjects
  <2>4. PICK r \in ToSet(set) : p = FileOf(set, r).path /\ target[p] = FileOf(set, r).content
    BY <2>1
  <2> HIDE DEF set
  <2>5. /\ p = ListFile(r.object.ns, r.type) /\ IsSequence(target[p].items)
        /\ ToSet(target[p].items) = {q.object : q \in Alike(set, r)}
    BY <2>2, <2>4, FileHolds
  <2>6. "items" \in DOMAIN target[p]
    BY <2>4 DEF FileOf
  <2>7. r.object.ns \in Nat
    BY <2>3 DEF IsObject
  <2>8. p = [ns |-> p.ns, type |-> p.type, name |-> p.name] /\ p.ns \in Nat /\ p.name = None
    BY <2>5, <2>7 DEF ListFile
  <2>9. \A o \in ToSet(ObjectsOf(target[p])) : IsObject(o)
    BY <2>3, <2>5, <2>6 DEF ObjectsOf, Alike
  <2>10. QED
    BY <2>5, <2>6, <2>8, <2>9
<1>4. IsFiniteSet(DOMAIN target) /\ None \in Nat
  BY DEF PruningInv, Types, None
<1>5. IsDirectory(target)
  BY <1>3, <1>4 DEF IsDirectory
<1>6. QED
  BY <1>2, <1>5

\* SelectedIsListed: after a success, and with no half files in it, a list from
\* the target finds what it selects in the must-gather, whatever prunings of
\* other must-gathers have left there.
THEOREM SelectedStaysListed == Spec => []SelectedIsListed
<1>1. ASSUME PruningInv, stage = "ok", Broken \notin Range(target),
             NEW s \in ToSet(request.apply.selected), s.type # Namespaces
      PROVE  /\ List(target, s).status = "ok"
             /\ ToSet(List(Dir, s).objects) \subseteq ToSet(List(target, s).objects)
  <2>1. /\ request \in Requests /\ source \in MustGathers /\ instances = Result(source).instances
        /\ IsSequence(instances) /\ KindsAreTypes(instances)
        /\ \A f \in FilesOf(instances) : f.path \in DOMAIN target /\ target[f.path] = f.content
        /\ seen \subseteq MustGathers /\ ~Result(source).failed
    BY <1>1, SuccessIsComplete DEF PruningInv, Types, TypeOK, ReadInFull
  <2>2. /\ IsDirectory(Dir) /\ IsList(request.apply) /\ IsConsistent(Dir, request.apply)
        /\ ToSet(instances) = ToSet(AllFound(Reads(Dir, request.apply)))
    BY <2>1, Sources DEF Dir
  <2>3. Readable(Dir, request.apply)
    BY <2>1, <2>2, ReadFails DEF Result, Dir
  <2>4. IsDirectory(target)
    BY <1>1, TargetIsDirectory
  <2>5. <<s.type, s.version>> \in DOMAIN Discovery /\ List(Dir, s).status = "ok"
    BY <1>1, <2>2, <2>3, ListYields DEF Readable
  <2>6. ASSUME NEW p \in LookedAt(target, s)
        PROVE  /\ p.name = None /\ target[p] # Broken
               /\ target[p].kind = Discovery[<<s.type, s.version>>] /\ target[p].version = s.version
    <3>1. p \in DOMAIN target /\ p.type = s.type /\ p.ns \in ToSet(Places(target, s.ns))
      BY DEF LookedAt
    <3>2. PICK name \in seen : \E r \in ToSet(Result(name).instances) :
                 /\ ~Result(name).failed
                 /\ p = FileOf(Result(name).instances, r).path
                 /\ target[p] = FileOf(Result(name).instances, r).content
      BY <1>1, <3>1, TargetIsDirectory
    <3> DEFINE set == Result(name).instances
               dir == Content[name]
    <3>3. PICK r \in ToSet(set) : p = FileOf(set, r).path /\ target[p] = FileOf(set, r).content
      BY <3>2
    <3>4. /\ IsDirectory(dir) /\ IsList(request.apply) /\ IsConsistent(dir, request.apply)
          /\ IsSequence(set) /\ KindsAreTypes(set) /\ ToSet(set) = ToSet(AllFound(Reads(dir, request.apply)))
      BY <2>1, <3>2, Sources
    <3>5. Readable(dir, request.apply)
      BY <3>2, <3>4, ReadFails DEF Result
    <3> HIDE DEF set, dir
    <3>6. p = ListFile(r.object.ns, r.type)
      BY <3>3, <3>4, FileHolds
    <3>7. PICK q \in Alike(set, r) : target[p].version = q.object.version
      BY <3>3, <3>4, FileHolds
    <3>8. r.type = s.type /\ p.ns = r.object.ns /\ p.name = None
      BY <3>1, <3>6 DEF ListFile
    <3>9. q \in ToSet(set) /\ q.type = s.type /\ q.object.ns = r.object.ns
      BY <3>4, <3>8 DEF Alike, KindsAreTypes
    <3>10. s.ns = None \/ r.object.ns = s.ns
      BY <2>4, <3>1, <3>8, PlacesHold
    <3>11. r.object.kind = Discovery[<<s.type, s.version>>] /\ q.object.version = s.version
      <4>1. ASSUME NEW x \in ToSet(set), x.type = s.type, s.ns = None \/ x.object.ns = s.ns
            PROVE  x.object.kind = Discovery[<<s.type, s.version>>] /\ x.object.version = s.version
        <5>1. x \in ToSet(AllFound(Reads(dir, request.apply)))
          BY <3>4
        <5>2. IsDirectory(dir) /\ IsList(request.apply) /\ IsConsistent(dir, request.apply)
          BY <3>4
        <5>3. QED
          BY <1>1, <3>5, <4>1, <5>1, <5>2, FoundAsListed
      <4>2. q \in ToSet(set) /\ (s.ns = None \/ q.object.ns = s.ns)
        BY <3>9, <3>10
      <4>3. q.object.version = s.version
        BY <3>9, <4>1, <4>2
      <4>4. QED
        BY <3>4, <3>8, <3>10, <4>1, <4>3
    <3>12. target[p].kind = r.object.kind
      BY <3>3 DEF FileOf
    <3>13. target[p] # Broken
      BY <1>1, <3>1 DEF Range
    <3>14. QED
      BY <3>7, <3>8, <3>11, <3>12, <3>13
  <2>7. /\ List(target, s).status = "ok"
        /\ \A p \in LookedAt(target, s) : \A o \in ToSet(target[p].items) :
              Selects(s, o) => o \in ToSet(List(target, s).objects)
    BY <1>1, <2>4, <2>5, <2>6, ListFinds
  <2>8. ASSUME NEW o \in ToSet(List(Dir, s).objects) PROVE o \in ToSet(List(target, s).objects)
    <3> DEFINE r == [type |-> s.type, object |-> o]
               f == FileOf(instances, r)
    <3>1. r \in ToSet(instances) /\ r.object = o /\ r.type = s.type
      BY <1>1, <2>2, SelectedIsFound
    <3>2. Selects(s, o) /\ LiesIn(Dir, s, o)
      BY <1>1, <2>2, ListYields
    <3>3. s.ns = None \/ o.ns = s.ns
      <4>1. PICK p \in LookedAt(Dir, s) : Dir[p] # Broken /\ o \in ToSet(ObjectsOf(Dir[p]))
        BY <3>2 DEF LiesIn
      <4>2. o.ns = p.ns
        BY <1>1, <2>2, <2>5, <4>1 DEF IsConsistent, AsListed
      <4>3. QED
        BY <2>2, <4>1, <4>2, PlacesHold DEF LookedAt
    <3> HIDE DEF r
    <3>4. /\ f.path = ListFile(o.ns, s.type)
          /\ ToSet(f.content.items) = {q.object : q \in Alike(instances, r)}
      BY <2>1, <3>1, FileHolds
    <3>5. f \in FilesOf(instances)
      BY <3>1, FilesAre
    <3>6. o \in ToSet(f.content.items)
      BY <3>1, <3>4 DEF Alike
    <3> HIDE DEF f
    <3>7. f.path \in DOMAIN target /\ target[f.path] = f.content
      BY <2>1, <3>5
    <3>8. f.path \in LookedAt(target, s)
      <4>1. f.path.type = s.type /\ f.path.ns = o.ns
        BY <3>4 DEF ListFile
      <4>2. CASE s.ns = None
        <5>1. ToSet(Places(target, s.ns)) = {None} \cup NamespacesWithData(target)
          BY <2>4, <4>2, PlacesHold
        <5>2. QED
          BY <3>7, <4>1, <5>1 DEF NamespacesWithData, LookedAt
      <4>3. CASE s.ns # None
        BY <2>4, <3>3, <3>7, <4>1, <4>3, PlacesHold DEF LookedAt
      <4>4. QED
        BY <4>2, <4>3
    <3>9. QED
      BY <2>7, <3>2, <3>6, <3>7, <3>8
  <2>9. QED
    BY <2>7, <2>8
<1>2. PruningInv => SelectedIsListed
  BY <1>1 DEF SelectedIsListed
<1>3. QED
  BY <1>2, PruningInvariant, PTL

\* PrunedReadsBack: unstructuredToMustGatherFormat writes the resources of a
\* kind and namespace to one list, in their order, under the type by which
\* findGVR finds their kind again.
THEOREM PruningReadsBack == Spec => []PrunedReadsBack
<1>1. ASSUME PruningInv, stage = "ok", seen = {source}
      PROVE  LET back == ResourcesFromDir(target)
             IN  ~back.failed /\ Differences(FilesOf(back.instances), FilesOf(instances)) = {}
  <2>1. /\ request \in Requests /\ source \in MustGathers
        /\ instances = Result(source).instances /\ IsSequence(instances) /\ KindsAreTypes(instances)
        /\ \A f \in FilesOf(instances) : f.path \in DOMAIN target /\ target[f.path] = f.content
    BY <1>1, SuccessIsComplete
  <2>2. /\ IsDirectory(Content[source]) /\ IsList(request.apply)
        /\ ToSet(instances) = ToSet(AllFound(Reads(Content[source], request.apply)))
    BY <2>1, Sources
  <2>3. ~Result(source).failed /\ OneVersion(instances)
    BY <1>1 DEF PruningInv, ReadInFull
  <2>4. \A r \in ToSet(instances) : TypesOf(r.object) = {r.type}
    BY <2>1, <2>3, PruningAssumption DEF IsKnown, Result
  <2>5. \A r \in ToSet(instances) : r = [type |-> r.type, object |-> r.object]
    BY <2>2, FoundAreResources
  <2>6. \A p \in DOMAIN target : \E f \in FilesOf(instances) : p = f.path
    BY <1>1, <2>1 DEF PruningInv, OnlySeen
  <2>7. HoldsFilesOf(target, instances)
    <3>1. IsFiniteSet(DOMAIN target)
      BY <1>1 DEF PruningInv, Types
    <3>2. FilesOf(instances) = {FileOf(instances, r) : r \in ToSet(instances)}
      BY FilesAre
    <3>3. QED
      BY <2>1, <2>6, <3>1, <3>2 DEF HoldsFilesOf
  <2>8. ~ResourcesFromDir(target).failed /\ FilesOf(ResourcesFromDir(target).instances) = FilesOf(instances)
    BY <2>1, <2>4, <2>5, <2>7, FilesReadBack
  <2>9. Differences(FilesOf(instances), FilesOf(instances)) = {}
    BY DEF Differences
  <2>10. QED
    BY <2>8, <2>9
<1>2. PruningInv => PrunedReadsBack
  BY <1>1 DEF PrunedReadsBack
<1>3. QED
  BY <1>2, PruningInvariant, PTL

=============================================================================
