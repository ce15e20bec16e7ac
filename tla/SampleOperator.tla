---------------------------- MODULE SampleOperator ----------------------------
(***************************************************************************)
(* The sample operator: OperatorRun with its five controllers, its three   *)
(* informer factories and its declared resources in the place of arbitrary *)
(* ones (sampleapplyconfiguration, sampleinputresources,                   *)
(* sampleoutputresources).  It runs on a must-gather, as its tests do, or  *)
(* on what pruning has made of one; what its informers list and its        *)
(* clients get are the answers of MustGather.                              *)
(***************************************************************************)
EXTENDS OperatorRun, RequiredResources

CONSTANTS
    Inputs,        \* the [source, pruned] that it may run on
    Content,       \* the must-gathers, a function on the sources
    NotANumber     \* a counter that strconv.Atoi refuses

VARIABLES
    given,         \* the element of Inputs
    directory,     \* the input directory
    setup,         \* CreateOperatorStarter: "todo", "ok" or "failed"
    cache,         \* the objects in the caches of the informers
    pending,       \* what the running controller is still to write
    ending,        \* how it ends if the writes succeed
    late           \* controllers with a write after their deadline (history)

sampleVars == <<given, directory, setup, cache, pending, ending, late>>
allVars == <<vars, sampleVars>>

\* Namespaces, names of objects, and controllers in the order of their names.
Authentication == 1   OauthApiserver == 2   Config == 3   KubeSystem == 4   ExampleOperator == 5
Cluster == 1   Foo == 2   FailCheck == 3   Branding == 4   Example == 5   BrowserClient == 6   OauthServer == 7
Demo == 1   FailureGenerator == 2   IngressCreator == 3   RemoveStaleConditions == 4   ResourceSync == 5

Id(type, ns, name) == [type |-> type, version |-> "v1", ns |-> ns, name |-> name]

Nothing == [exact |-> <<>>, generated |-> <<>>, selected |-> <<>>, references |-> <<>>, eventing |-> {}]

\* SampleRunInputResources.
Revisions(type) ==
    [type |-> type, version |-> "v1", ns |-> OauthApiserver, labels |-> {"RevisionController"}, without |-> {}]
ConfigResource(type) == Id(type, None, Cluster)
RouteSecret ==
    [referring |-> ConfigResource("ingresses"), kind |-> "implicit",
     implicit |-> [type |-> "secrets", version |-> "v1", ns |-> Config, path |-> "servingCert"]]

\* Variant: an input is forgotten.
WithoutFailCheck ==
    [apply |-> [Nothing EXCEPT !.exact = <<Id("configmaps", Authentication, Foo)>>], operands |-> {Nothing}]

SampleInputResources ==
    [apply    |-> [Nothing EXCEPT
        !.exact = <<Id("secrets", Authentication, Branding)>>
                  \o [i \in 1..4 |-> ConfigResource(<<"authentications", "proxies", "consoles", "oauths">>[i])]
                  \o <<Id("configmaps", Authentication, FailCheck), Id("configmaps", Authentication, Foo)>>,
        !.selected = <<Revisions("configmaps"), Revisions("secrets")>>,
        !.references = <<RouteSecret>>],
     operands |-> {Nothing, [Nothing EXCEPT !.exact = <<Id("deployments", Authentication, OauthServer)>>]}]

\* Variant: the namespace of the events is forgotten.
WithoutEvents ==
    [configuration |-> [Nothing EXCEPT !.exact = <<ConfigResource("ingresses")>>],
     management    |-> [Nothing EXCEPT !.exact = <<ConfigResource("authentications.operator")>>],
     userWorkload  |-> [Nothing EXCEPT !.exact = <<Id("configmaps", Authentication, Foo)>>]]

\* SampleRunOutputResources.
SampleOutputResources ==
    [configuration |-> [Nothing EXCEPT !.exact = <<ConfigResource("ingresses")>>],
     management    |-> [Nothing EXCEPT !.exact = <<ConfigResource("authentications.operator")>>,
                                       !.eventing = {ExampleOperator}],
     userWorkload  |-> [Nothing EXCEPT !.exact = <<Id("oauthclients", None, BrowserClient),
                                                   Id("configmaps", Authentication, Foo)>>]]

\* What pruning takes from a must-gather for this operator.
Needed == WithOutputs(SampleInputResources, SampleOutputResources).apply

-----------------------------------------------------------------------------
(* Informers: the dynamic one of the operator's configuration, those of the *)
(* namespaces, and a factory nobody asks for an informer.                  *)

Everything(type, ns) == [type |-> type, version |-> "v1", ns |-> ns, labels |-> {}, without |-> {}]

InformerLists ==
    << {Everything("authentications.operator", None)},
       {Everything(type, ns) : type \in {"configmaps", "secrets"},
                               ns \in {Authentication, OauthApiserver, Config, KubeSystem}},
       {} >>

ObjectsListed(dir, i) == UNION {ToSet(List(dir, s).objects) : s \in InformerLists[i]}
Listed(i) == \A s \in InformerLists[i] : List(directory, s).status = "ok"

(* The sync functions.  Each reads what is known, then makes a write.      *)

WriteOf(action, type, ns, name, data) ==
    [action |-> action, type |-> type, ns |-> ns, name |-> name, data |-> data]
Write1(c, action, type, ns, name, data) ==
    <<[controller |-> c, write |-> WriteOf(action, type, ns, name, data)]>>

Does(writes, how) == [writes |-> writes, how |-> how]

Known(known, kind, ns, name) == {o \in known : o.kind = kind /\ o.ns = ns /\ o.name = name}
OperatorConfig(known) == Known(known, "AuthenticationOperator", None, Cluster)
FooMap(known) == Known(known, "ConfigMap", Authentication, Foo)

\* The recorder has a context of its own: its write names no controller and
\* knows no deadline.
SyncFailureGenerator(known) ==
    Does(Write1(NoController, "Create", "events", ExampleOperator, Example, <<>>),
         IF Known(known, "ConfigMap", Authentication, FailCheck) = {} THEN "ok" ELSE "error")

SyncIngressCreator ==
    Does(Write1(IngressCreator, "Create", "ingresses", None, Cluster, <<>>), "ok")

SyncDemo(known) ==
    LET foo == FooMap(known)
        count(action, n) == Does(Write1(Demo, action, "configmaps", Authentication, Foo, [counter |-> n]), "ok")
    IN  IF foo = {} THEN count("Create", 1)
        ELSE LET old == (CHOOSE o \in foo : TRUE).data.counter
             IN  IF old = NotANumber THEN Does(<<>>, "error") ELSE count("Update", old + 1)

\* Without the operator's configuration the two that read it fail.
SyncRemoveStaleConditions(known) ==
    LET config == OperatorConfig(known)
    IN  IF config = {} THEN Does(<<>>, "error")
        ELSE IF \E o \in config : o.data.stale
        THEN Does(Write1(RemoveStaleConditions, "PatchStatus", "authentications.operator", None, Cluster, <<>>), "ok")
        ELSE Does(<<>>, "ok")

\* There are no rules to sync: what is left is the status, unless the operator
\* is not managed or has been given this status before.
SyncResourceSync(known) ==
    LET config == OperatorConfig(known)
    IN  IF config = {} THEN Does(<<>>, "error")
        ELSE IF \E o \in config : ~o.data.managed \/ o.data.applied THEN Does(<<>>, "ok")
        ELSE Does(Write1(ResourceSync, "ApplyStatus", "authentications.operator", None, Cluster, <<>>), "ok")

SyncOf(c, known) ==
    IF c = Demo THEN SyncDemo(known)
    ELSE IF c = FailureGenerator THEN SyncFailureGenerator(known)
    ELSE IF c = IngressCreator THEN SyncIngressCreator
    ELSE IF c = RemoveStaleConditions THEN SyncRemoveStaleConditions(known)
    ELSE SyncResourceSync(known)

\* Demo counts in the object that the cache holds, not in a copy.
CacheAfter(c, known) ==
    IF c = Demo
    THEN {IF o \in FooMap(known) /\ o.data.counter # NotANumber
          THEN [o EXCEPT !.data.counter = @ + 1] ELSE o : o \in known}
    ELSE known

-----------------------------------------------------------------------------

DirectoryOf(input) ==
    IF input.pruned THEN Pruned(Content[input.source], Needed) ELSE Content[input.source]

\* The operator is the sample; what it may write is what its sync functions
\* do: all but one writes of theirs are fixed, Demo's counts on.
ASSUME SampleAssumption ==
    /\ Registrations \subseteq Seq({Demo, FailureGenerator, IngressCreator, RemoveStaleConditions, ResourceSync})
    /\ NumInformers = Len(InformerLists)
    /\ \A input \in Inputs : IsDirectory(DirectoryOf(input))
    /\ {WriteOf("Create", "events", ExampleOperator, Example, <<>>), WriteOf("Create", "ingresses", None, Cluster, <<>>),
        WriteOf("PatchStatus", "authentications.operator", None, Cluster, <<>>),
        WriteOf("ApplyStatus", "authentications.operator", None, Cluster, <<>>),
        WriteOf("Create", "configmaps", Authentication, Foo, [counter |-> 1])} \subseteq Write
    /\ \A input \in Inputs, i \in DOMAIN InformerLists :
          \A o \in FooMap(ObjectsListed(DirectoryOf(input), i)) :
              o.data.counter # NotANumber =>
                  WriteOf("Update", "configmaps", Authentication, Foo, [counter |-> o.data.counter + 1]) \in Write

\* Discovery has the kinds of the types that the controllers read.
ASSUME DiscoveryAssumption ==
    /\ Discovery[<<"configmaps", "v1">>] = "ConfigMap" /\ Discovery[<<"secrets", "v1">>] = "Secret"
    /\ Discovery[<<"authentications.operator", "v1">>] = "AuthenticationOperator"

\* What the informers can list is laid out as the must-gather tool does it, and
\* the operator's configuration is in no namespace.  Of a must-gather that is
\* pruned the same is asked as by InputPruning.
ASSUME LayoutAssumption ==
    \A input \in Inputs :
        LET dir == Content[input.source]
        IN  /\ IsDirectory(dir)
            /\ input.pruned => IsConsistent(dir, Needed) /\ IsKnown(dir, Needed)
            /\ ~input.pruned =>
                  /\ \A i \in DOMAIN InformerLists : \A s \in InformerLists[i] :
                        List(dir, s).status = "ok" => IsWellKept(dir, s)
                  /\ \A p \in DOMAIN dir : p.type = "authentications.operator" => p.ns = None

SampleInit ==
    /\ Init
    /\ given \in Inputs
    /\ given.pruned => /\ ~ReadRequired(Content[given.source], Needed).failed
                       /\ OneVersion(ReadRequired(Content[given.source], Needed).instances)
    /\ directory = DirectoryOf(given)
    /\ setup = "todo" /\ cache = {}
    /\ pending = <<>> /\ ending = "ok" /\ late = {}

\* CreateOperatorStarter gets a cluster operator that may be missing.
CreateOperatorStarter ==
    /\ setup = "todo"
    /\ setup' = IF Get(directory, Id("clusteroperators", None, Example)).status = "error" THEN "failed" ELSE "ok"
    /\ UNCHANGED <<vars, given, directory, cache, pending, ending, late>>

\* Variant: a list that fails counts as an empty one.
SyncsAnyway(i) ==
    /\ setup = "ok"
    /\ CacheSyncs(i)
    /\ cache' = cache \cup ObjectsListed(directory, i)
    /\ UNCHANGED <<given, directory, setup, pending, ending, late>>

\* Reflectors fill a cache when they can list, and try again when they cannot.
InformerSyncs(i) ==
    /\ setup = "ok"
    /\ CacheSyncs(i)
    /\ Listed(i)
    /\ cache' = cache \cup ObjectsListed(directory, i)
    /\ UNCHANGED <<given, directory, setup, pending, ending, late>>

ListFails(i) == i \in 1..started \ synced /\ ~Listed(i) /\ UNCHANGED allVars

\* What RunOnce does whatever the controllers are.
RunOnceStep ==
    /\ setup = "ok"
    /\ StartInformer \/ WaitForCacheSync \/ Reject \/ StartLoop \/ SkipController \/ ReturnResults
    /\ UNCHANGED sampleVars

BeginSync ==
    /\ BeginController
    /\ pending' = SyncOf(running', cache).writes
    /\ ending' = SyncOf(running', cache).how
    /\ cache' = CacheAfter(running', cache)
    /\ UNCHANGED <<given, directory, setup, late>>

DeadlinePasses == Deadline /\ UNCHANGED sampleVars

\* Variant: the deadline is not looked at.
WritesLate ==
    /\ pending # <<>>
    /\ begun' = begun + 1
    /\ mutations' = Append(mutations, Head(pending))
    /\ acked' = acked \cup {[at |-> Len(mutations) + 1, entry |-> Head(pending)]}
    /\ pending' = Tail(pending)
    /\ UNCHANGED <<registered, flags, stage, informerVars, loopVars, inFlight, returnVars,
                   given, directory, setup, cache, ending, late>>

Writes ==
    /\ pending # <<>>
    /\ SyncWrite(Head(pending).controller, Head(pending).write)
    /\ pending' = Tail(pending)
    /\ UNCHANGED <<given, directory, setup, cache, ending, late>>

\* Variant: the write is tried again for ever.
TriesAgain ==
    /\ pending # <<>>
    /\ Head(pending).controller \notin LiveContexts
    /\ UNCHANGED allVars

\* client-go sends no request whose context is over.
WriteRefused ==
    /\ pending # <<>>
    /\ Head(pending).controller \notin LiveContexts
    /\ pending' = <<>> /\ ending' = "error" /\ late' = late \cup {running}
    /\ UNCHANGED <<vars, given, directory, setup, cache>>

SyncEnds == pending = <<>> /\ ControllerEnds(ending) /\ UNCHANGED sampleVars

SampleFinished == (setup = "failed" \/ Finished) /\ UNCHANGED allVars

Step == CreateOperatorStarter \/ RunOnceStep \/ BeginSync \/ Writes \/ WriteRefused \/ SyncEnds

SampleNext == \/ Step \/ DeadlinePasses \/ SampleFinished
              \/ \E i \in 1..NumInformers : InformerSyncs(i) \/ ListFails(i)

\* The goroutine of RunOnce runs; reflectors try again until they can list.
SampleSpec == /\ SampleInit /\ [][SampleNext]_allVars
              /\ WF_allVars(Step)
              /\ \A i \in 1..NumInformers : WF_allVars(InformerSyncs(i))

-----------------------------------------------------------------------------

\* The run is one that OperatorRun allows an arbitrary operator.
ImplementsOperatorRun == Init /\ [][Next]_vars

\* What a get from the must-gather knows of the objects controllers read.
\* The operator's configuration is declared as a management output, and of the
\* outputs only those for the configuration become inputs (options.go:59): the
\* two controllers that read it do without it once the must-gather is pruned.
Facts ==
    UNION {ToSet(Get(Content[given.source], id).objects) :
           id \in {Id("configmaps", Authentication, Foo), Id("configmaps", Authentication, FailCheck)}
                  \cup (IF given.pruned THEN {} ELSE {ConfigResource("authentications.operator")})}

\* No type is in one place both as a list and as single files: of these a list
\* sees the ones and a get the others (list.go, get.go).
OneStorage(dir) ==
    \A p, q \in DOMAIN dir : p.ns = q.ns /\ p.type = q.type /\ p.name = None => q.name = None

\* The inputs are "the items that an operator needs to make a decision"
\* (types.go:7).  In whatever order the controllers run, on a must-gather or on
\* what its pruning has left of it: every controller decides as if it alone had
\* been run on it, and nothing else is written - except those that the deadline
\* caught before their write, which fail and write nothing.  What pruning leaves
\* decides as the must-gather does in all but one thing: the two controllers
\* that read the operator's configuration are then without it (Facts).  A
\* must-gather with a type stored in both forms is left out (OneStorage).
DecisionFromMustGather ==
    Returned /\ OneStorage(Content[given.source]) =>
        LET decided(n) == SyncOf(n, Facts)
            in_time == {n \in ToSet(registered) : IsEnabled(n)} \ late
        IN  /\ ToSet(output) = UNION {ToSet(decided(n).writes) : n \in in_time}
            /\ Cardinality(ToSet(output)) = Len(output)
            /\ \A i \in DOMAIN report :
                  report[i].status = CASE report[i].name \in in_time -> StatusFor(decided(report[i].name).how)
                                       [] report[i].name \in late    -> "Failed"
                                       [] OTHER                      -> "Skipped"

\* An input that is there and cannot be read is never taken for one that is
\* missing: no controller runs then.
UnreadableIsNotMissing ==
    running # NoController =>
        \A i \in 1..NumInformers : \A s \in InformerLists[i] :
            ListFile(s.ns, s.type) \in DOMAIN directory => directory[ListFile(s.ns, s.type)] # Broken

\* Whatever the directory and the deadlines, the sample writes nothing that
\* its declared outputs do not name: validation would refuse all of it.
Declares(list, w) ==
    \/ w.type = "events" /\ w.ns \in list.eventing
    \/ Id(w.type, w.ns, w.name) \in ToSet(list.exact)
OutputsAreDeclared ==
    \A i \in DOMAIN mutations : \E type \in DOMAIN SampleOutputResources :
        Declares(SampleOutputResources[type], mutations[i].write)

\* If everything the informers list can be read, the run returns: its
\* controllers need no premise, since none waits for anything.
SampleReturns ==
    (\A i \in 1..NumInformers : Listed(i)) => <>(stage = "returned" \/ setup = "failed")

=============================================================================
