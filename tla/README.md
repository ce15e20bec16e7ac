# Verification of multi-operator-manager

TLA+ models, TLC runs and TLAPS proofs for this repository: a library that
lets an OpenShift operator run as a command. The command reads a directory of
manifests instead of a cluster, runs every controller of the operator once and
writes what the controllers would have changed to an output directory, split
by the cluster each change is meant for; a test harness runs such commands and
compares their directories with expected ones.

Paths are relative to the repository; `LA` stands for
`pkg/library/libraryapplyconfiguration`, `MC` for
`vendor/github.com/openshift/library-go/pkg/manifestclient` (vendored, but the
core of this program: no other program uses the offline client, and every
command of this one is built on it).

## The system

| Part | State it keeps | Operations |
|---|---|---|
| Write tracker (`MC/write_roundtripper.go`, `mutation_tracker.go`) | a lock, the next request number, one list of numbered requests per action | `RoundTrip` of a write, `GetMutations` (deep copy) |
| Read side of the client (`MC/get.go`, `list.go`, `discovery_reader.go`) | the input directory, a discovery cache | get, list, watch (never an event), discovery |
| RunOnce (`LA/operator_launch_helpers.go`) | informers, registered controllers, results, errors | start and sync informers, check flags, run each controller once, report |
| Filter and validation (`LA/client_mutations.go`, `apply_configuration.go`) | none | the view of each cluster type, the unspecified mutations |
| Output directory (`MC/serialized_request.go`, `mutation_directory_writer.go`, `mutation_directory_reader.go`) | files | write the mutations of a directory, read them back |
| apply-configuration command (`LA/options.go`) | collected errors | make the directory, RunOnce, validate, filter, write, exit |
| Result (`LA/directory_apply_configuration.go`) | what was read of an output directory | read the directory, assemble errors |
| Equivalence (`LA/equivalence.go`) | none | two results hold the same mutations, events aside |
| Execution (`pkg/applyconfiguration/execer.go`) | a process, its output files | start, wait, kill after five seconds, read the result |
| Tester (`pkg/test/testapplyconfiguration`) | results of tests, output directories, a junit file | run one test after the other, compare, remove |
| Input resources (`pkg/library/libraryinputresources`, `libraryoutputresources`) | none | declare inputs and outputs, validate, print |
| Pruning (`pkg/library/libraryinputresources/prune_mustgather.go`) | a target directory | resolve resources and references in a must-gather, write them, read them back |
| Sample operator (`pkg/sampleoperator`) | the caches of its informers | five controllers, three informer factories, declared resources |
| output-resources command, flags, wiring | none of their own | |

They meet in four ways. *Through declarations*: an operator prints what it
reads; pruning takes exactly that from a must-gather; the operator then runs on
the result and never learns that something was left out, because to the offline
client a file that is not there is an object that does not exist. *In memory*: every controller, and every goroutine a
controller starts, shares one client and so one tracker; RunOnce, in the main
goroutine, takes a copy of the tracker when the loop over the controllers is
over. *Through files*: the command leaves a directory behind, and the process
that started it reads the directory whatever became of the command. *Through
contexts*: RunOnce puts the name of the controller and a deadline into the
context a controller runs with; the client reads the name off each request.

What makes the system hard to get right:

- goroutines of several controllers race for the tracker, and their requests
  may still be under way when the controller, or RunOnce, has returned: a
  deadline stops a request from being built, not one that has been;
- controllers run in a random order, may fail, panic or overrun, and the
  report has to be the same whatever they do to each other;
- the process can be killed, or a file operation fail, at any point of
  writing, and the directory is read all the same;
- file names stand for mutations: a name leaves parts of a mutation out, and
  two mutations with one name are one file;
- no command empties the directory it writes to, so that what is read there may
  be of several runs;
- nothing is done in the order "check, then use": the raw mutations are looked
  at before they are validated, and written although validation failed.

What correctness means, part by part:

- *tracker*: one append-only log, written and copied atomically; numbers
  without a gap; what was answered is in the log, and in every later copy;
- *RunOnce*: caches are filled before a controller runs; exactly the enabled
  controllers run; the report tells the outcome of each; the writes the
  controllers saw succeed are returned; what was returned does not change;
- *filter*: each mutation is in a view or unspecified, never both; filtered
  output cannot fail validation, so the raw output has to be validated;
- *command*: exit status 0 means the run is complete; once it has written its
  results as a whole, so are the directories; what it has put into a directory
  when it is cut short is nothing but parts of its own mutations, each at its
  place; an object it has written to a cluster's directory is one declared for
  that cluster; all this in a directory that still has the files of earlier runs;
- *equivalence*: no difference is found exactly if both sides hold the same
  mutations, events aside;
- *tester*: a test passes only if its command ended as the test wants and wrote
  what is expected; the output of a test that failed is kept; success of the
  run means that every test was run and passed; the run ends whatever a command
  does;
- *pruning*: what a successful pruning leaves is everything the declared
  resources and their references stand for in the must-gather, and nothing
  else; a repetition repairs what failed; an input that cannot be read is never
  taken for one that does not exist; what is written can be read back;
- *sample operator*: what it decides depends on what a get finds in its input
  and not on the order of its controllers; a pruned must-gather leads to the
  same decisions as the whole one but for the operator's own configuration,
  which pruning drops; it writes only what it declares.

## Modules

| Module | Models | Uses |
|---|---|---|
| `WriteRequests` | how a write request is classified, accepted or rejected, and turned into a serialized request | |
| `MutationLog` | abstract: the atomic, numbered, append-only log the tracker promises | |
| `MutationTracker` | the tracker: lock, numbers, lists per action, copy | `WriteRequests`, implements `MutationLog` |
| `MutationFilter` | filter, views, unspecified mutations, validation | `WriteRequests` |
| `OutputDirectory` | file names, the files of a mutation, what is read back | `WriteRequests` |
| `OperatorRun` | RunOnce | |
| `ApplyConfigurationCommand` | the command: RunOnce inside `applyConfigurationOptions.Run`, kills and failing writes | `OperatorRun`, `MutationFilter`, `OutputDirectory`, implements `CommandProcess` |
| `CommandProcess` | abstract: what a command promises to the process that runs it | `OutputDirectory` |
| `Equivalence` | the comparison of two results | `MutationFilter`, `OutputDirectory` |
| `TestHarness` | the tester, the execution of a command, the result of a directory | `CommandProcess`, `Equivalence` |
| `MustGather` | the get and list of the offline client on a directory | |
| `InputDeclarations` | declared inputs and outputs, their validation, the input-resources command | `MustGather` |
| `RequiredResources` | what a list of resources stands for in a directory, the files it is written to, reading back | `InputDeclarations` |
| `InputPruning` | the commands that declare and prune, with failures, kills and repetition | `RequiredResources` |
| `SampleOperator` | the sample operator on a must-gather or on a pruned one | `OperatorRun`, `RequiredResources`, implements `OperatorRun` |
| `MutationTrackerProofs`, `OperatorRunProofs`, `CommandProofs`, `HarnessProofs`, `InputPruningProofs`, `SampleOperatorProofs` | theorems, each about the component it is named after | that component |
| `RequiredResourcesProofs` | lemmas about what a get, a list and a list of resources find, and about the files of what was found, for pruning and for the sample | `RequiredResources`, `SequenceLemmas` |
| `SequenceLemmas` | what concatenating, flattening and selecting return for every sequence, and induction over sets of numbers | |
| `SampleRequests`, `MC...` | small instances for TLC | |

### MutationTracker

`lock`, `nextRequestNumber` and `actionTracker` are the fields of
`writeTrackingRoundTripper` and `AllActionsTracker`. A client goes through
`Send` (the checks of `roundTrip` before the lock), `Acquire`, `TakeNumber`,
`AddRequest` and `Respond`; a reader through `CallGetMutations`,
`AcquireForCopy`, one `CopyAction` per list in any order (a Go map is ranged
over) and `ReturnMutations`. The steps under the lock are actions of their own,
so that the lock is what keeps them apart and not the model. A rejected request
changes nothing and is no action. A patch of a resource without a known kind is
recorded and then answered with an error: `Answered200`. A list of an action
that has none in the Go map is the empty sequence, and `ListActions` are the
keys of the map. `acked` and `mustSee` are history.

### OperatorRun

`stage`, `started`, `waited` and `next` are the place in `RunOnce`, the other
variables its locals. Controllers are code of an operator and so the
environment: while one runs it may write and wait for the answer
(`SyncWrite`), leave a goroutine behind with a request under way
(`SpawnWrite`, later `GoroutineRecords`), and end in one of three ways
(`ControllerEnds`, with the deferred function that files the result). A write
carries the name of the running controller while its context is good, and no
name at any time, because an event recorder writes with a context of its own.
The tracker is one sequence here: that this is right is what
`TrackerImplementsLog` says. Controllers are numbers, ordered as their names.

### ApplyConfigurationCommand

`step` is the place in `applyConfigurationOptions.Run`; `RunOnceStep` runs
`OperatorRun` inside it, and goroutines that were left behind go on until the
process ends. `PanicOnNil` is the dereference of nil mutations or nil output
resources in `UnspecifiedOutputResources`. `ValidateAndFilter` fixes what is
written: three directories and, three times over, the unspecified mutations
(they are the concatenation of three identical views), each in the order of
`AllRequests`. `Run` takes a directory that is there and empties nothing:
`before` is what earlier runs left in it (one of `Leftovers`), `written` what
this run has put there, and `files`, the directory, has the second over the
first; a file that is still the earlier one is `Kept`. A file operation may fail
(`MaxFaults` times) and leave the file as it was or truncated; the code collects
the error and goes on. `Kill` may happen between any two steps and cut short the
file being written. `WriteResults` and `Exit` are two steps, because a kill
between them is possible.

What may be said of a directory depends on what was there. Results in it are a
sign only if this run wrote them (`HasResults`). A body of an earlier run at no
place of a mutation of this one stays, and is read back beside them; if its
metadata are missing or it was cut short, nothing is read back at all; and
options of an earlier run are taken for those of a mutation that has none but
lies at the same place (`StandsFor`, `AsRead`).

### CommandProcess

What the harness knows of a command, and all that it relies on: `Decide` fixes
the files it will write, `controller-results.yaml` last; each is written
(`WriteNext`), or fails or is truncated (`WriteFails`), or is left out with
others (`LeaveOut`, the parent directory of a request that cannot be made); it
exits with 0 only if all were written (`clean`), and it may be killed at any
time. `ImplementsProcess` checks that `ApplyConfigurationCommand` is such a
command: `pending` is what its `todo` and `writing` will still produce, and
everything before the writing is `starting`. Of what `out` holds at the start
`ProcessInit` says nothing, as the harness starts commands on leftovers, too.

### TestHarness

`stage` and `current` are the place in `Run` and `runTest`; `disk` holds the
output directories, `out` (of `CommandProcess`) that of the running command. A
command is started with whatever files its directory has, steps as
`CommandProcess` allows, and is killed when its context is over: five seconds
have passed (`TimeUp`) or the context of `Run` has ended (`Cancel`). `WaitError`
is what `exec.Cmd.Wait` then returns, the race of an exit with 0 and the
timeout included. `ResultOf` assembles the result and its errors as
`NewApplyConfigurationResultFromDirectory` does: errors of the directory beside
the one of the process, no mutations at all if one file cannot be read.
`FailsAtOnce`, `EndedAsDesired` and `Passes` are the switch of `runTest`. The
command and how it ended belong to the current test only; the verdicts stay.

### OutputDirectory

Paths are records, so a colon in a name or the layout of a file is the
constant functions `SafeName` and `ShortHash`; what matters is which fields are
part of a path and which are not. Reading back follows
`serializedRequestFromFile`: truncated metadata is metadata without a field, a
body without metadata is an error, a body that does not decode is one too
unless it is a patch, and one error makes the whole directory unreadable.

A name may look like a body file (`BodyLike`): reading back then takes the
metadata and the options of the object for bodies, too.

### MustGather, InputDeclarations, RequiredResources

Pure operators. `Get` and `List` are `get.go` and `list.go`: a get asks the
object's own file first and the list file only if there is none; a list takes
list files if there is one anywhere and single files otherwise; the first thing
read decides whether the kind is right; namespaces live in a place of their
own, and a list of them ignores the selector. A directory is a function from
paths to contents, so that what is missing, cut short (`Broken`) or stored
twice is data. `InputResourcesCommand` is `inputResourcesOptions.Run`, nil
dereferences and the printing of invalid inputs included. `ReadRequired` is
`GetRequiredInputResourcesForResourceList` with its three passes in their order
and its `UniqueResourceSet`; `FilesOf` is `unstructuredToMustGatherFormat`;
`ResourcesFromDir` and `Differences` are what the tests read a directory back
and compare it with. The discovery documents are the constant `Discovery`.

### InputPruning

`stage` is the place in the two commands: `Declare` is input-resources,
`Read`, `MakeTarget`, one `WriteResource` per file in the order of a Go map,
and `Finish` are `PruneMustGather`. A file that cannot be written
(`MaxFaults` times) stays as it was or is cut short, the others are written all
the same, and the error is joined. `Kill` may happen between any two steps and
in the middle of a file. `PruneAgain` runs the command again over whatever was
left, on the same or another must-gather. `seen` is history.

### SampleOperator

`OperatorRun` with concrete controllers. `given` chooses a must-gather and
whether the operator runs on it or on what `RequiredResources` makes of it;
`setup` is `CreateOperatorStarter`. `InformerSyncs` fills a cache from `List`,
and only if every list of the factory succeeds, because a reflector that fails
to list tries again; the third factory has no informer and is filled at once.
`BeginSync` runs a sync function up to its write (`SyncOf`, one operator per
controller), `Writes` makes the write or `WriteRefused` finds its context over,
`SyncEnds` returns. The counter of the demo controller changes the object in the
cache (`CacheAfter`), as the code does. What library-go's controllers do is
external: only what these two instances of them read and write is modelled.

### Variants

Operators commented "Variant" stand before the definition they vary: the same
step with a plausible mistake in it (a lock that does not wait, a list that is
replaced, `*` looked at first). They are not part of any specification; they
show for each property a mistake that breaks it.

## Runs

| Run | Instance | Question |
|---|---|---|
| `tracker` | 2 clients, 1 reader, 2 recorded requests, 7 requests of which 3 are accepted | Is the tracker the atomic log, and does every call return? |
| `run_once` | 2 informers whose caches may stay empty, up to 2 controllers, 6 values of `--controllers`, 2 writes | Is what RunOnce runs, reports and returns right, and what can keep it from returning? |
| `command` | 1 controller, 1 informer, 4 accepted writes of which 2 happen, a directory with what earlier runs left, 1 failing file operation, a kill at any time | What do exit status, results file and directories promise? |
| `harness` | 4 tests (one in the directory of another, one whose command does not start, one whose expectation cannot be read), 6 commands, 3 policies, the output of an earlier run, 1 failing file operation, kill and cancellation at any time | What do a passing test, a success of the run and the remaining files mean, and does the run end? |
| `pruning` | 11 declarations, 8 must-gathers (lists, single files, both, a dead reference, damaged, updated, namespaces, two versions), 2 runs, 1 failing file operation, a kill at any time | Is what a successful pruning leaves what the operator needs, and no more? |
| `sample` | 5 controllers in all 120 orders, 2 values of `--controllers`, 9 must-gathers and 5 of them pruned, any controller overtaken by its deadline | Does the sample decide by the must-gather alone, and return? |
| `nil_mutations` (violation) | an unknown name in `--controllers` | Are nil mutations an error of the command? |
| `colliding_files` (violation) | one configuration applied under two field managers | Is every mutation stored? |
| `generated_names` (violation) | an object created with a generated name and updated | Are generated names honoured on non-creates? |
| `killed_command` (violation) | the tests of `harness`, no failures | Does a command that had to be killed fail its test? |
| `unread_output` (violation) | the same | Can the output of a command that failed be tested? |
| `root_test` (violation) | one test in the directory that is walked | Does the run succeed if every test does? |

Bounds and why they are enough. The tracker's hazards need two goroutines
between two steps under the lock, or a copy that spans two lists: two clients
with requests of different actions and one reader give both; `Next` treats all
clients alike, and the theorems hold for any number. The run's hazards need a controller that
ended, one that has not begun and a write under way between them: two
controllers and two writes; the six flags are one per branch of
`isControllerEnabled` and of its validation, and `<<1, 1>>` is the duplicate
registration. The command's hazards need two mutations that end in the same
directory, in two directories, in none and in `Unspecified`, and a failure or
kill inside each of their files: two writes out of four that differ in just
that way, one failure (two failures add nothing a kill does not) and an
unbounded kill. What its directory held before has each kind of file that
matters: whole results, a mutation whose place this run takes or does not, with
options that its own there does not have, an unspecified one, and half a
mutation, which makes its directory unreadable. One directory is empty; that an
output directory which is empty altogether is no different is left to the
proofs, which are about any. Its instance has one controller and one informer
because what RunOnce does by itself is the question of `run_once`. The harness's hazards need
a test whose directory lies in that of another, of different wishes, and a
third that finds what both left; commands that write what is expected, an event
more, less, something unspecified, or other options; and one thing going wrong,
in the harness or in a command, besides kills and a cancellation, which are
free. Commands whose own files collide are excluded by `TestsAssumption`,
because that is the question of `colliding_files`. Pruning's hazards are in one
run over a target that another left behind, so two runs suffice, the second
on the same must-gather or another; one failure and a free kill leave every
mixture of old, new and truncated files. Its declarations have each kind of
selection, with the objects of a type spread over two namespaces, selected
twice, referred to twice, and referred to but absent; and the cases of which
comments and code disagree: namespaces, two versions of a type, a reference that
is not implicit, an output with a generated name, one without a version. The must-gathers have
each layout that `get.go` and `list.go` tell apart. The sample makes at most
one write per controller, so `MaxWrites` 5 bounds nothing; its must-gathers
have one for each branch of each sync function and one for each way in which
its informers fail. No run uses symmetry.

Deadlock is checked in every run. `Finished`, `SampleFinished`, `Exited`, `Done`
and `Stopped` are the steps of a
program that is over, so that every other state without a successor is a
deadlock.

Fairness. A goroutine that is running keeps running (weak fairness on its own
steps). A goroutine waiting for the lock gets it although others keep taking
it, because `sync.Mutex` hands itself over to a goroutine that has waited for a
millisecond: strong fairness on `Acquire`. Timers fire. Nothing makes a client
send, a controller write or the process be killed. Nor is a reflector that was
started assumed to fill its cache: a list that fails never does, and the wait
for it has no timeout (`operator_launch_helpers.go:45`). `RunOnceReturns` and
`CommandEnds` name it as the one way not to come to an end: waiting for ever for
the same cache (`WaitsForCache`). That controllers come back when their context
is over is not assumed either, because the code does not enforce it: both have
it as a premise, `HonoursDeadline`, which says that it is never for ever that a
controller runs with its context over. The goroutine of `RunOnce`, and of the
command around it, is one; its steps are fair together. Of
the harness only its own steps and the timer are fair; that a command does
anything is not assumed, so `HarnessEnds` rests on the kill alone. The sample
needs no premise about its controllers, since none of them waits; its
informers are fair because a reflector lists again until it can, and
`SampleReturns` has as a premise that everything listed can be read: a damaged
list makes `WaitForCacheSync` wait until its context is over, which nothing in
`RunOnce` brings about. Pruning has no liveness: it is one loop over a finite
set.

### Findings

- `nil_mutations`: `LA/options.go:54` calls a method of the mutations before
  line 55 has them checked, so that a wrong `--controllers` flag, or a failing
  output-resources function, is a nil dereference and not the error that
  `apply_configuration.go:67` prepares for it.
- `colliding_files`: the hash in a file name is that of the body, and of the
  options only if there is no body; two applies that differ in the field
  manager alone are one file, and the command exits with 0.
- `generated_names`: `metadataMatchesFilter` matches a request that has both a
  name and a generated name with nothing, although
  `libraryoutputresources/types.go:25` says that generated names are honoured
  on non-creates.
- `killed_command`: a killed process is an `exec.ExitError` like a failed one;
  a test that wants a non-zero exit passes on a timeout
  (`testapplyconfiguration/tester.go:240`) if all the output was there.
- `unread_output`: a result whose mutations could not be read is returned
  without any (`LA/directory_apply_configuration.go:116`); if the process had
  failed too, which a kill in the middle of a file brings about, the comparison
  dereferences them and the harness panics.
- `root_test`: the output directory of a test in the walked directory itself is
  that of the run; removing it after a success leaves no place for the report,
  and `Run` returns an error.

Differences between comments and code that the models contain as what the code
does. The properties name them as exceptions, so that everything else holds, and
the instances contain the cases:

- A name that contains `-body-` makes the metadata of its object a body file,
  and its directory unreadable, because the pattern is not anchored
  (`MC/mutation_directory_reader.go:97`; line 80 says that not all files are body
  files). `ResultsMeanAllIsWritten`, `StandsFor`: in the run `command` the
  generated name is such a name.
- The command never empties its output directory
  (`libraryapplyconfiguration/options.go:38`). Results of an earlier run are
  there before this one has written anything, and its mutations are read back
  beside those of this run. `HasResults`, `StandsFor`, and the disjuncts with
  `Kept` in the other properties of the command; the harness removes its base
  first.
- The sample reads the configuration of its operator and declares it as a
  management output; only configuration outputs become inputs
  (`libraryinputresources/options.go:59`), although inputs are "the items that an
  operator needs to make a decision" (`types.go:7`). Two of its controllers work
  on a must-gather and fail on its pruning. `DecisionFromMustGather`, `Facts`.
- A namespace is written to `.../core/namespaces.yaml` (`prune_mustgather.go:295`),
  where a get does not look for it (`MC/get.go:84`). `RequiredIsFound`.
- Validation looks at each resource for itself, pruning refuses two versions of
  a kind (`prune_mustgather.go:273`) and writes nothing; `types.go:107` asks for
  one version. `FailsOnUnreadableOnly`.
- The target is never emptied (`prune_mustgather.go:37`), although "the minimal
  output" is written (`must_gather_command.go:38`). `OnlyRequired` and
  `RetryRepairs` are about a target with prunings of one must-gather only.
- References that are not implicit are passed over in silence
  (`prune_mustgather.go:128`), and generated names are put into the inputs and
  never looked up (line 90): neither is among what `Wanted` wants.
- A get looks for the single file first (`MC/get.go:31`), a list for the list
  file, whatever the comment at `get.go:17` says: `Get`, `List`, and the premise
  `OneStorage` of `DecisionFromMustGather`.
- Outputs need no version, but as inputs they are validated to have one
  (`libraryinputresources/validation.go:64`): `Declare` then ends with an error,
  and prints the inputs all the same.

One more thing the model shows and no property can refute, since nothing in the
repository says otherwise: with `--replace-expected-output` a test passes
whatever became of its command, so a command that was killed or did not start
leaves half an expected output, or an empty one, and the run succeeds.

## Proofs

`tlapm` checks these for every value of the constants, under the assumptions
the modules name. Each safety property of a passing run has a theorem, and so
have the three refinements.

| Module | Theorems | of the run's properties |
|---|---|---|
| `MutationTrackerProofs` | `TypeCorrect`, `TrackerImplementsLog`, `TrackerLogSafety`, `AcknowledgedIsRecorded`, `ListsStayOrdered`, `SnapshotsSeeAcknowledged` | all safety properties of `tracker` |
| `OperatorRunProofs` | `RunInvariant`, `RunTypes`, `ReportComplete`, `ReportTruthful`, `EnabledOnly`, `ListersReady`, `WritesReturned`, `ReturnedFrozen` | all safety properties of `run_once` |
| `CommandProofs` | `FilteredIsValid`, `ViewsAndUnspecifiedPartition`, `CommandInvariant`, `CommandTypes`, `ExitOk`, `PartialOutput`, `DeclaredOnly`, `ResultsComplete`, `CommandIsProcess` | all safety properties of `command`, and its refinement |
| `HarnessProofs` | `NoReasonsMeansEqual`, `EquivalentMeansEqual`, `HarnessInvariant`, `HarnessTypeCorrect`, `OkIsAllPassed`, `JudgedIsKept`, `ReplacedIsFresh`, `GenuinePass` | all safety properties of `harness` |
| `InputPruningProofs` | `PruningInvariant`, `PruningTypeCorrect`, `FailsRightly`, `RetriesRepair`, `OnlyRequiredWritten`, `RequiredStaysFound`, `SelectedStaysListed`, `PruningReadsBack` | all of `pruning` |
| `SampleOperatorProofs` | `SampleInvariant`, `SampleImplements`, `SampleReports`, `OutputsDeclared`, `UnreadableNotMissing`, `DecidesAlone`, `DecidedFromInput` | all safety properties of `sample`, and its refinement |

### Assumptions

TLC evaluates each in the run of its module.

- `ProcessAssumption`, `RequestAssumption`, `BoundAssumption`: clients and
  readers are different and none is `NoOne`, there is a request, bounds are
  numbers. In `OperatorRun`: registered controllers have names that are not
  empty, and the `--controllers` flag is a list of stars, names, and names to
  leave out.
- `CommandAssumption`: the requests are ones the tracker records
  (`WriteRequests`), and no body *is* the mark of a truncated file; output
  resources have the three cluster types, which are fields of a Go struct; a
  file that was in the output directory before is at a path of the layout
  (`IsOutputPath`), and its content may be any: no two of them need to go
  together.
- `TestsAssumption`: requests of commands and of expectations are whole; the
  files of one command have different names (otherwise see `colliding_files`).
- `PruningAssumption`: directories hold finitely many files; a list file holds
  a list and any other file one object; names and namespaces are numbers, in
  the order of their strings (`IsDirectory`). That is the layout the
  must-gather tool writes. And of what a list of resources finds in a directory
  (`IsConsistent`): an object lies in the namespace and under the name it is
  asked for by; one that is found twice is the same both times; a type has one
  kind, which no other type has; and where a list has found what it looks for,
  everything in the files that it looked at is of the listed kind and version
  and in the namespace of its file (`AsListed`). Without the first three, which
  of two contents pruning keeps depends on the order of the declarations. The
  last is what the code supposes: it compares the kind and version of the first
  object only, and files that mixed them would be listed before pruning and
  could be refused after it. What a list finds is of a kind that discovery has
  for some type (`IsKnown`): another would be written where no list looks.
- `SampleAssumption`: the registered controllers are the sample's five, in any
  order; there are as many informers as factories; the directories are
  directories; `Write`, over which `OperatorRun` is quantified, has the
  requests that the sample can make.
- `DiscoveryAssumption`: config maps, secrets and the configuration of the
  operator are of the kinds they have in any cluster.
- `LayoutAssumption`, for what a get and a list find to be comparable at all: of
  a must-gather that is pruned what `PruningAssumption` says, for what the
  operator needs. Of one that is not, the configuration of the operator is in no
  namespace, and where an informer's list succeeds, what it looked at is of the
  listed kind, version and namespace, the object of a single file has the name
  of the file, and a list has no two objects of a name (`IsWellKept`). The
  must-gather tool writes it so. Neither says that a list *and* a single file
  cannot be there: that is `OneStorage`, a premise of the property, and without
  it the property is false. Nor does it exclude files that cannot be read.

### Arguments

- `MutationTrackerProofs`. None of the theorems is inductive by itself. The
  invariant they rest on says who is inside: a goroutine between `Acquire` and
  the end of its call holds the lock, so there is at most one; the number a
  client holds is the last one given out and not filed yet; the numbers in the
  lists are below it; what a reader has copied of an action is the whole list,
  because nobody can append while it copies. With it the refinement maps
  `TakeNumber` to a stutter (a number that is taken and not yet filed belongs
  to the log's future), `AddRequest` to `Record`, `Respond` to `Acknowledge` or
  a stutter and `ReturnMutations` to `Snapshot`. What the log promises, numbers
  without gap or repetition and snapshots that are beginnings of it, is proved
  of the log's own steps (`LogKeeps`), which the tracker's are by the
  refinement.
- `OperatorRunProofs`, for any operator, flag, number of informers and number
  of writes. The invariant (`RunInv`) says that a controller runs in the loop
  only; that the loop begins when every informer has been waited for, and what
  was waited for stays filled; that what the checks found of the registered
  names still holds after the shuffle, because a shuffle neither adds nor
  repeats a name (`ShuffleKeeps`); that a request under way carries the name of
  a controller that ran; and that an acknowledged write is at its place in the
  log and, once `RunOnce` has returned, in the copy of it. A `--controllers`
  flag enables a controller only if it names it, or has a star and does not
  exclude it (`EnabledByFlag`). For the report the invariant has one result per
  controller that is over, with the status it ended with. Sorting is stated
  without recursion: the result in place i is the one with i - 1 smaller names
  (`Canonical`, `Before`), and that this is well defined, and a permutation, is
  a counting argument about finite sets of numbers.
- `CommandProofs`. Filtering hides everything validation could find, and views
  and unspecified mutations partition the log (`FilteredIsValid`,
  `ViewsAndUnspecifiedPartition`). The invariant of the command (`CmdInv`) says
  what each phase has decided (`Phases`), that every reason not to exit with 0
  is among the collected errors by the time it matters (`ErrorsAreKept`), that
  all the run has written was planned, whole or cut short, the results file last
  (`OnDisk`), and that while all goes well each planned request is still to
  come, or each of its files is about to be written or there (`Progress`). Exit
  status, results file and partial output follow from it. What was there before
  is no part of it, since no step changes `before` (`BeforeStays`), and the
  directory is what was written over it (`Overlay`). A file of an earlier run
  matters to what is read only through those beside it: metadata that this run
  wrote beside an earlier body are those of a mutation whose body belongs at just
  that place (`BesidePath`), so a body at no place of this run has all its files
  as they were (`StaleIsUntouched`, `StaleIsRead`). The refinement of
  `CommandProcess` maps `todo` and `writing` to the files still to come; that
  taking a request off `todo` leaves that sequence as it was rests on lemmas
  about `FlattenSeq` in `SequenceLemmas`. They are inductions; since no prover
  takes the library's rule, which has an operator for a parameter, the rule is
  `Induction`: a set with 0 and the successor of each of its elements is `Nat`.
- `HarnessProofs`. The comparison first: the code leaves a mutation that is
  missing on the left out of the report if one missing on the right looks like
  it; the argument is that then the one on the right is reported, because a
  missing mutation always has a reason (`MissingHasReason`). The invariant of
  the tester (`HarnessInv`) says that exactly the tests before the current one
  have a verdict (`Verdicts`); that outputs of tests which have not begun are
  still empty, if the base could be removed (`OthersAreEmpty`); what a command
  that runs has written so far, and what it can exit with 0 for (`AtWork`);
  what the kind of its end says about its output (`AfterRunning`); and that a
  pass was given for the output that is still there (`JudgedRight`). That
  cleaning up after a test does not touch the judged output of another is a
  fact about the order in which the tree is walked: a test comes before those
  in directories of its own.
- `InputPruningProofs`, for any operators and must-gathers. Most of it is about
  operators: whose object a get or a list answers with, and from which file;
  that what a list of resources reads is what it names, selects and refers to,
  and that reading fails exactly if that is not `Readable`; that files of
  different kinds or namespaces have different paths, since the types among
  what was found are in step with the kinds. The invariant (`PruningInv`) says
  that what goes on to be written was read in full (`ReadInFull`), why a
  failure happened (`WhyFailed`), that the target holds files of prunings only,
  whole or cut short (`OnlySeen`), and that what is no longer to be written is
  there unless a write failed (`Complete`). `RetryRepairs` is then that a
  success has rewritten every file there could be; `RequiredIsFound`, that the
  list file of anything required is there in full, holds it, and is what a get
  from the target looks at. `SelectedIsListed` has to do with every file of
  the type in the target, those of other prunings too: all of them are list
  files (`OnlySeen`), each written by a pruning that was read in full, so that
  its kind and version are the listed ones and the list is not refused; and the
  namespaces a list walks, which the model orders by counting, are all there
  are (`InOrderHolds`), so that it comes by each file (`ListFinds`).
  `PrunedReadsBack` is about order: formatting what was read back has to give
  each file the same items in the same places. Reading walks the files one after
  the other; what it has found that belongs in one file is the items of that file
  with nothing between them (`ThoseOfParts`, `FilesReadBack`). The lemmas
  on the order of what `FlattenSeq` yields are in `SequenceLemmas`.
- `SampleOperatorProofs`. Every step is a step of `OperatorRun` or leaves its
  variables alone (`SampleImplements`), so that `SampleReports` has what is
  proved of an arbitrary operator for this one. The step cases need that the
  writes which are pending, of which there is at most one, are among those
  declared (`Planned`); where they depend on what a cache holds, that a cache
  still is what was listed until the demo controller counts in it (`Fresh`);
  and that a cache is filled only if everything in it could be listed
  (`FilledByLists`), from which `UnreadableNotMissing` follows with
  `ListersReady`.

  `DecidesAlone` is that the controllers do not influence each other, whatever
  order the shuffle gives them. Its invariant (`DecisionInv`) says what the
  caches hold: what was listed, and after the demo controller ran, that with its
  counter changed (`CachesHold`); that exactly the enabled ones of those the
  loop has passed have run (`RanInLoop`); that each has planned and ended as what
  was *listed* tells it to, not only as what the caches held when its turn came,
  or has lost its context (`DoesAsDecided`); and that the log has the writes of
  those that are through, each once, and nothing else (`LogHasTheirs`). One step
  could break the third: a controller that begins after demo has counted. It is
  kept because an object that is counted in stays where it is, and no other
  controller reads what demo changes (`OthersUnmoved`). One could break the last:
  a write that another controller has made already. It is kept because type and
  action of a write tell whose it is (`OwnWrites`).

  `DecidedFromInput` replaces what was listed by what a *get* finds in the
  must-gather. A list that succeeds has, of one name, what a get finds, provided
  `OneStorage` (`ListAnswersGet`, `WholeIsKnown`). If the must-gather is pruned
  first, what was listed is what pruning kept: each object of it was asked for,
  and the type it is filed under is the only one of its kind; the config maps of
  `Facts` are in the inputs, so they are kept, in a list file where the informer
  looks; and nothing asks for the configuration of the operator, so the caches
  have none, which is why `Facts` has none either (`PrunedIsKnown`). When
  `RunOnce` has returned, the report is a permutation of the results
  (`ReportOfResults`), whose statuses the invariant has.

### What the proofs found

Faults of the models, which no run had met, and are repaired:

- Operators that branch as the code does were written with `CASE` arms that
  overlap (`Get`, `List`, `ReadReference`, the sync functions of the sample);
  TLC takes the first, but the formula then has no determined value. They are
  `IF` chains now, in the order of the code's returns.
- A list of namespaces ignores the selector, so that a pruning holds
  namespaces that no selector matches: `OnlyRequired` said otherwise, and its
  run had no namespaces selected by a label. `SelectedIsListed` likewise: they
  are written where no list looks. Both name the exception and the run has it.
- `HarnessTypeOK` did not hold of a run without any tests.
- A request whose body is the mark of a truncated file would be read back as
  broken: `CommandAssumption` says that there is none.

### Only model-checked

- The liveness properties (`RunOnceReturns`, `CommandEnds`, `HarnessEnds`,
  `SampleReturns`, and that every call of the tracker returns): liveness under
  fairness is out of the prover's reach.
- The six violations: a counterexample is what they are.

## Not modelled, and why

- `RequestsForAction` and `RequestsForResource` of the tracker, and the
  assembly of the HTTP response of a write: they read, and nothing below
  depends on what they return.
- The contents of objects, YAML and JSON: an object is its identity and a
  content that is equal or not. The cleaning of a body before it is hashed
  (an `ApplyConfiguration` without managed fields) is inside the content.
- Two controllers whose goroutines write to the *same* Go object: what a
  controller does to its own memory is the operator's.
- `--preserve-policy=ReplaceExpectedOutput` without `--replace-expected-output`:
  the flag's own values are any others.
- A removal that fails is taken to stop between two directories, not within one.
- Flag parsing, the output-resources command, wiring: no state, pure I/O.
  `--operator-binary` of the pruning command is refused as not wired through.
- The discovery documents of the client (a constant), its watches, which never
  report anything, and gets of subresources.
- Partly written YAML that still decodes: a file that was cut short is one
  that cannot be decoded.
- `Start`, the daemon mode: it starts informers and controllers and returns;
  what follows runs against a live cluster and is not this repository's code.
- What library-go's controllers do beyond the configuration that the sample
  gives them, and the contents of events.

## Plan

In the order of importance.

1. `MutationLog`, `WriteRequests`, `MutationTracker` and their proofs. *Done.*
2. `OperatorRun`. *Done.*
3. `MutationFilter`, `OutputDirectory`, `ApplyConfigurationCommand`. *Done.*
4. `OperatorRunProofs`: `OnlyEnabledRun`, `SyncWritesAreReturned`,
   `ReturnedIsFrozen`, `ListersAreReady` for every operator and flag. *Done.*
5. `CommandProcess`, `Equivalence`, `TestHarness`. *Done.*
6. `MustGather`, `InputDeclarations`, `RequiredResources`, `InputPruning`. *Done.*
7. `SampleOperator`. *Done.*
8. `CommandProofs` and `HarnessProofs`: every safety property, and the
   refinement of `CommandProcess`. *Done.*
9. `InputPruningProofs`: types, `FailsOnUnreadableOnly`, `RetryRepairs`,
   `OnlyRequired`, `RequiredIsFound`, `SelectedIsListed`, `PrunedReadsBack`.
   *Done.*
10. `SampleOperatorProofs`: `ImplementsOperatorRun`, and with it what is proved
    of `OperatorRun`, of the sample; `OutputsAreDeclared`,
    `UnreadableIsNotMissing`. *Done.*
11. `DecisionFromMustGather` for every must-gather, whose core is that each
    controller decides from what was listed, whichever ran before it. *Done.*
