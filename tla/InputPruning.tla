----------------------------- MODULE InputPruning -----------------------------
(***************************************************************************)
(* From an operator's declarations to its input directory: the             *)
(* input-resources command prints what the operator needs, and the         *)
(* from-must-gather command looks it up in a must-gather and writes it to  *)
(* a target directory (from-must-gather/must_gather_command.go,            *)
(* libraryinputresources/prune_mustgather.go).  Writing may fail or be     *)
(* interrupted, and the target is never emptied: pruning may be repeated   *)
(* into what an earlier one has left.                                      *)
(***************************************************************************)
EXTENDS RequiredResources

CONSTANTS
    Operators,   \* the [inputs, outputs] that operators declare
    MustGathers, \* names of the directories that may be pruned
    Content,     \* function from these names to the directories
    MaxRuns,     \* bound: prunings into the same target
    MaxFaults    \* bound: file operations that fail

VARIABLES
    operator,    \* the operator whose inputs are wanted
    declared,    \* how its input-resources command ended
    request,     \* what it has printed
    source,      \* the must-gather
    target,      \* the output directory
    stage,       \* "declare", "read", "mkdir", "write", "ok", "failed" or "killed"
    instances,   \* the resources found
    todo,        \* files still to write
    failed,      \* an error was collected while writing
    seen,        \* the must-gathers pruned into the target so far (history)
    runs, faults

vars == <<operator, declared, request, source, target, stage, instances, todo, failed, seen, runs, faults>>

\* What the input-resources commands of the operators print.
Requests == {InputResourcesCommand(op.inputs, op.outputs).printed : op \in Operators} \ {Nil}

ASSUME PruningAssumption ==
    /\ MaxRuns \in Nat \ {0} /\ MaxFaults \in Nat
    /\ \A req \in Requests :
          IsSequence(req.apply.exact) /\ IsSequence(req.apply.selected) /\ IsSequence(req.apply.references)
    /\ \A name \in MustGathers : IsDirectory(Content[name])
    /\ \A name \in MustGathers, req \in Requests :
          IsConsistent(Content[name], req.apply) /\ IsKnown(Content[name], req.apply)

Dir == Content[source]

Init ==
    /\ operator \in Operators
    /\ source \in MustGathers
    /\ stage = "declare" /\ declared = "none" /\ request = Nil
    /\ target = <<>> /\ instances = <<>> /\ todo = {} /\ failed = FALSE
    /\ seen = {} /\ runs = 0 /\ faults = 0

\* input-resources.  Its output is a file if it did not panic.
Declare ==
    /\ stage = "declare"
    /\ LET result == InputResourcesCommand(operator.inputs, operator.outputs) IN
           /\ declared' = result.ended
           /\ request' = result.printed
           /\ stage' = IF result.printed = Nil THEN "failed" ELSE "read"
    /\ UNCHANGED <<operator, source, target, instances, todo, failed, seen, runs, faults>>

Fault == faults < MaxFaults /\ faults' = faults + 1

\* Variant: what could not be read is left out.
ReadSome ==
    /\ stage = "read"
    /\ LET read == ReadRequired(Dir, request.apply) IN
           /\ instances' = read.instances
           /\ stage' = IF OneVersion(read.instances) THEN "mkdir" ELSE "failed"
    /\ runs' = runs + 1 /\ seen' = seen \cup {source} /\ failed' = FALSE
    /\ UNCHANGED <<operator, declared, request, source, target, todo, faults>>

\* Everything is read, or nothing is written.
Read ==
    /\ stage = "read"
    /\ LET read == ReadRequired(Dir, request.apply) IN
           /\ instances' = read.instances
           /\ stage' = IF ~read.failed /\ OneVersion(read.instances) THEN "mkdir" ELSE "failed"
    /\ runs' = runs + 1 /\ seen' = seen \cup {source} /\ failed' = FALSE
    /\ UNCHANGED <<operator, declared, request, source, target, todo, faults>>

MakeTarget ==
    /\ stage = "mkdir"
    /\ \/ stage' = "write" /\ todo' = FilesOf(instances) /\ UNCHANGED faults
       \/ stage' = "failed" /\ Fault /\ UNCHANGED todo
    /\ UNCHANGED <<operator, declared, request, source, target, instances, failed, seen, runs>>

Put(path, content) == [p \in {path} \cup DOMAIN target |-> IF p = path THEN content ELSE target[p]]

\* WriteResource, in the order of a Go map.  A failure leaves the file as it
\* was or cut short, and the other files are written all the same.
WriteResource(file) ==
    /\ stage = "write"
    /\ file \in todo
    /\ todo' = todo \ {file}
    /\ \/ target' = Put(file.path, file.content) /\ UNCHANGED <<failed, faults>>
       \/ target' \in {target, Put(file.path, Broken)} /\ failed' = TRUE /\ Fault
    /\ UNCHANGED <<operator, declared, request, source, stage, instances, seen, runs>>

\* Variants: files are left unwritten; the errors of the single files are lost.
FinishEarly ==
    /\ stage = "write"
    /\ stage' = IF failed THEN "failed" ELSE "ok"
    /\ UNCHANGED <<operator, declared, request, source, target, instances, todo, failed, seen, runs, faults>>
FinishAlways ==
    /\ stage = "write" /\ todo = {}
    /\ stage' = "ok"
    /\ UNCHANGED <<operator, declared, request, source, target, instances, todo, failed, seen, runs, faults>>

Finish ==
    /\ stage = "write" /\ todo = {}
    /\ stage' = IF failed THEN "failed" ELSE "ok"
    /\ UNCHANGED <<operator, declared, request, source, target, instances, todo, failed, seen, runs, faults>>

\* The process is killed, at most in the middle of a file.
Kill ==
    /\ stage \in {"read", "mkdir", "write"}
    /\ stage' = "killed"
    /\ target' \in {target} \cup {Put(file.path, Broken) : file \in todo}
    /\ UNCHANGED <<operator, declared, request, source, instances, todo, failed, seen, runs, faults>>

Over == {"ok", "failed", "killed"}

\* The same operator, another must-gather, the same target.
PruneAgain ==
    /\ stage \in Over /\ request # Nil /\ runs < MaxRuns
    /\ source' \in MustGathers
    /\ stage' = "read" /\ todo' = {}
    /\ UNCHANGED <<operator, declared, request, target, instances, failed, seen, runs, faults>>

Stopped == stage \in Over /\ UNCHANGED vars

Next == \/ Declare \/ Read \/ MakeTarget \/ Finish \/ Kill \/ PruneAgain \/ Stopped
        \/ \E file \in todo : WriteResource(file)

Spec == Init /\ [][Next]_vars

-----------------------------------------------------------------------------
(* Properties.                                                             *)

TypeOK ==
    /\ operator \in Operators /\ source \in MustGathers /\ seen \subseteq MustGathers
    /\ declared \in {"none", "ok", "error", "panic"}
    /\ stage \in {"declare", "read", "mkdir", "write"} \cup Over
    /\ stage \in {"read", "mkdir", "write", "ok"} => request # Nil
    /\ stage \in {"mkdir", "ok"} => todo = {}
    /\ todo \subseteq FilesOf(instances)
    /\ \A p \in DOMAIN target : p.name = None
    /\ failed \in BOOLEAN /\ runs \in 0..MaxRuns /\ faults \in 0..MaxFaults

\* "contains the items that an operator needs to make a decision" (types.go:7):
\* whatever was in the target before, after a success a get of every object
\* that is named, or referred to by one that is, gets from the target what it
\* gets from the must-gather.  Namespaces are the exception: they are written to
\* cluster-scoped-resources/core/namespaces.yaml, where no get looks for them.
RequiredIsFound ==
    stage = "ok" => \A id \in Wanted(Dir, request.apply) :
        Get(Dir, id).status = "ok" /\ id.type # Namespaces => Get(target, id) = Get(Dir, id)

\* A list with a declared selector finds in the target everything it finds in
\* the must-gather, unless an interrupted pruning has left half a file there.
\* Namespaces are the exception again.
SelectedIsListed ==
    stage = "ok" /\ Broken \notin Range(target) =>
        \A s \in ToSet(request.apply.selected) :
            s.type # Namespaces =>
                /\ List(target, s).status = "ok"
                /\ ToSet(List(Dir, s).objects) \subseteq ToSet(List(target, s).objects)

IsRequired(path, object) ==
    \/ \E id \in Wanted(Dir, request.apply) :
          path.type = id.type /\ object \in ToSet(Get(Dir, id).objects)
    \/ \E s \in ToSet(request.apply.selected) :
          /\ path.type = s.type /\ object \in ToSet(List(Dir, s).objects)
          /\ s.type # Namespaces => Selects(s, object)

OnlyRequiredIn(dir) ==
    \A p \in DOMAIN dir : dir[p] # Broken => \A o \in ToSet(ObjectsOf(dir[p])) : IsRequired(p, o)

\* If the target holds prunings of one must-gather only, all that it holds is
\* in the must-gather, and is named, referred to or matches a selector - which
\* of namespaces any does.
OnlyRequired == stage = "ok" /\ seen = {source} => OnlyRequiredIn(target)

\* However often a pruning failed or was killed: once a repetition with the
\* same must-gather succeeds, the target is what it would be if the first had
\* succeeded.
RetryRepairs == stage = "ok" /\ seen = {source} => target = Pruned(Dir, request.apply)

\* The round trip of prune_mustgather_test.go: reading a pruned directory and
\* formatting what was read gives the files again.
PrunedReadsBack ==
    stage = "ok" /\ seen = {source} =>
        LET back == ResourcesFromDir(target)
        IN  ~back.failed /\ Differences(FilesOf(back.instances), FilesOf(instances)) = {}

\* An input that is there and cannot be read is never passed over, and what
\* can be read is pruned: nothing else makes pruning fail but a file operation
\* and two versions of a kind, which validation lets pass although "all
\* Group,Resource tuples must use the same Version" (types.go:107).
FailsOnUnreadableOnly ==
    /\ stage \in {"mkdir", "write", "ok"} => Readable(Dir, request.apply)
    /\ stage = "failed" /\ request # Nil /\ faults = 0 =>
           ~Readable(Dir, request.apply) \/ ~OneVersion(instances)

=============================================================================
